---------------------------- MODULE MCMemberStats ----------------------------
(* The ends of the months of a leap year, and of years around a century.    *)
EXTENDS MemberStats

MonthEnds(year) ==
  { [year |-> year, month |-> m, day |-> MonthLength(year, m)] : m \in 0 .. 11 }

MCFirstDays ==
  MonthEnds(2000)
    \cup { [year |-> 1999, month |-> 11, day |-> 31], [year |-> 2000, month |-> 0, day |-> 1],
           [year |-> 2001, month |-> 1, day |-> 28] }
MCLaterDays ==
  { [year |-> 2000, month |-> 11, day |-> 31], [year |-> 2024, month |-> 6, day |-> 31] }
MCTimes ==
  { [clock |-> <<9, 59, 0>>, seconds |-> 1700000000],
    [clock |-> <<23, 7, 30>>, seconds |-> 32768] }
MCLines == {1, 70000}
==============================================================================
