---------------------------- MODULE MCMemberList ----------------------------
(* Members with and without attributes, statistics and aliases; equal names *)
(* and times.                                                               *)
EXTENDS MemberList

Plain == [name |-> 1, alias |-> FALSE, pname |-> FALSE, alias_name |-> 0, mem_id |-> 7,
          ext |-> FALSE, ext_changed |-> 0, stats |-> FALSE, ispf_changed |-> 0]

MCSmdes ==
  { Plain,
    [Plain EXCEPT !.name = 2, !.mem_id = 5, !.ext = TRUE, !.ext_changed = 20, !.stats = TRUE,
                  !.ispf_changed = 30],
    [Plain EXCEPT !.name = 3, !.mem_id = 6, !.stats = TRUE, !.ispf_changed = 25],
    [Plain EXCEPT !.alias = TRUE, !.pname = TRUE, !.alias_name = 9, !.ext = TRUE, !.ext_changed = 20],
    [Plain EXCEPT !.alias = TRUE, !.alias_name = 8] }
==============================================================================
