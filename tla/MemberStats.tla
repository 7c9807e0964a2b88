----------------------------- MODULE MemberStats -----------------------------
(***************************************************************************)
(* What a program is told about a member after it was stored: the user     *)
(* data that add_mem_stats (services/src/bpamio.c) packs for STOW, the     *)
(* dates and packed decimals of services/src/ztime.c, and the way back     *)
(* through services/src/ispf.c and memdir.c into an mstat.                 *)
(*                                                                         *)
(* A byte of packed decimal is its value, 0 to 255.  The three counts of   *)
(* lines take the same way and are one here, and so are user ids and       *)
(* CCSIDs, which are copied byte by byte and left out.                     *)
(***************************************************************************)
EXTENDS Integers

CONSTANTS
  FirstDays,   \* days on which a member may be stored for the first time
  LaterDays,   \* days on which it may be stored again
  Times,       \* [clock, seconds]: the time of day and the TOD clock
  Lines,       \* how many lines a member may have
  MaxReads     \* bound: how often the entry is read

MonthLength(year, month) ==
  CASE month \in {3, 5, 8, 10} -> 30
    [] month = 1 -> IF (year % 4 = 0 /\ year % 100 # 0) \/ year % 400 = 0 THEN 29 ELSE 28
    [] OTHER -> 31

\* What localtime tells: months from 0, and a second that may be a leap second.
IsDate(d) ==
  d \in [year : Nat, month : 0 .. 11, day : 1 .. 31] /\ d.day <= MonthLength(d.year, d.month)

IsClock(c) == c \in [1 .. 3 -> 0 .. 60] /\ c[1] <= 23

\* No day is before 1901, also where a year is lost each time an entry is read.
ASSUME StatsAssumption ==
  /\ MaxReads \in Nat
  /\ Lines \subseteq Nat
  /\ \A d \in FirstDays \cup LaterDays : IsDate(d) /\ d.year > 1900 + MaxReads
  /\ \A t \in Times : IsClock(t.clock) /\ t.seconds \in Nat

VARIABLES
  summer,      \* the months in which local time is an hour ahead
  pdse,        \* the dataset is a PDSE: entries have extended attributes
  now,         \* the day and the time
  mstat,       \* struct mstat of the program
  entry,       \* struct ispf_disk_stats and the change timestamp of the entry
  told,        \* history: what is true of the member mstat describes
  truth,       \* history: what is true of the member stored under the entry
  reading      \* history: what the entry read last had, and what was passed

statsVars == <<summer, pdse, now, mstat, entry, told, truth, reading>>

Nothing == [known |-> FALSE]

------------------------------------------------------------------------------
(* ztime.c: month and year days                                             *)

days == <<31, 28, 31, 30, 31, 30, 31, 31, 30, 31, 30, 31>>

\* Mutant: a leap year is one that 4 divides.
MutLeap(year) == year % 4 = 0 /\ year % 100 # 0

Leap(year) == year % 4 = 0 /\ (year % 100 # 0 \/ year % 400 = 0)

DaysInMonth(year, i) == days[i + 1] + IF i = 1 /\ Leap(year) THEN 1 ELSE 0

DaysBefore(year) ==
  LET before[i \in 0 .. 12] == IF i = 0 THEN 0 ELSE before[i - 1] + DaysInMonth(year, i - 1)
  IN  before

\* The first month whose days are more than what is left, or neither month nor
\* day when there is none.
JToMmdd(year, ordinal) ==
  LET before  == DaysBefore(year)
      left(i) == ordinal - before[i]
      fits    == { i \in 0 .. 11 : left(i) < DaysInMonth(year, i) }
      month   == CHOOSE i \in fits : \A j \in fits : i <= j
  IN  IF fits = {} THEN [month |-> 0, day |-> 0]
                   ELSE [month |-> month, day |-> left(month)]

MmddToJ(year, month, day) == DaysBefore(year)[month] + day

PdToD(pd) == IF pd % 16 = 15 THEN pd \div 16 ELSE (pd \div 16) * 10 + (pd % 16)

DToPd(val, set_positive_sign) ==
  IF set_positive_sign THEN (val * 16 + 15) % 256 ELSE ((val \div 10) * 16 + (val % 10)) % 256

PdjdToTm(pdjd, start_century) ==
  LET year == PdToD(pdjd[1]) + 1900 + start_century * 100
      md   == JToMmdd(year, PdToD(pdjd[2]) * 10 + PdToD(pdjd[3]))
  IN  [year |-> year, month |-> md.month, day |-> md.day]

CenturyOf(date) == (date.year - 1900) \div 100

TmToPdjd(date) ==
  LET ordinal == MmddToJ(date.year, date.month, date.day)
  IN  <<DToPd(date.year % 100, FALSE), DToPd(ordinal \div 10, FALSE), DToPd(ordinal % 10, TRUE)>>

\* The TOD clock shifted by 32 bits counts units of 1.048576 = 16384/15625
\* seconds.  Where the product is a whole number, floating point may give one less.
TodUnits(seconds) == (seconds \div 16384) * 15625 + ((seconds % 16384) * 15625) \div 16384

TodToTime(units) ==
  LET whole == (units \div 15625) * 16384 + ((units % 15625) * 16384) \div 15625
  IN  IF units % 15625 = 0 /\ units > 0 THEN {whole - 1, whole} ELSE {whole}

------------------------------------------------------------------------------
(* The C library                                                            *)

\* mktime puts a day 0 at the end of the month before.
Normalised(date) ==
  CASE date.day # 0 -> date
    [] date.day = 0 /\ date.month > 0 ->
         [date EXCEPT !.month = @ - 1, !.day = MonthLength(date.year, date.month - 1)]
    [] OTHER -> [year |-> date.year - 1, month |-> 11, day |-> 31]

NextDay(date) ==
  IF date.day < MonthLength(date.year, date.month)
    THEN [date EXCEPT !.day = @ + 1] ELSE [date EXCEPT !.month = @ + 1, !.day = 1]

\* mktime on a struct tm whose tm_isdst is 0, as localtime shows the result.
Mktime(date, clock) ==
  LET d == Normalised(date)
  IN  IF d.month \notin summer THEN [date |-> d, clock |-> clock]
      ELSE IF clock[1] < 23 THEN [date |-> d, clock |-> [clock EXCEPT ![1] = @ + 1]]
      ELSE [date |-> NextDay(d), clock |-> [clock EXCEPT ![1] = 0]]

------------------------------------------------------------------------------
(* Packing and unpacking an entry                                           *)

SHRT_MAX == 32767

\* The create date of an mstat without statistics is today's.
AddMemStats(stat) ==
  LET created == IF stat.ispf_stats THEN stat.created.date ELSE now.date
      count   == IF stat.ispf_stats THEN stat.lines ELSE 0
  IN  [ known            |-> TRUE,
        user_data        |-> "full",
        ext_attr         |-> pdse,
        extended         |-> TRUE,
        create_century   |-> CenturyOf(created),
        pd_create_julian |-> TmToPdjd(created),
        mod_century      |-> CenturyOf(now.date),
        pd_mod_julian    |-> TmToPdjd(now.date),
        pd_mod_time      |-> [i \in 1 .. 3 |-> DToPd(now.clock[i], FALSE)],
        num_lines        |-> IF count < SHRT_MAX THEN count ELSE 0,
        full_num_lines   |-> count,
        timestamp        |-> TodUnits(now.seconds) ]

SetCreateTime(id) ==
  Mktime(PdjdToTm(id.pd_create_julian, id.create_century), <<0, 0, 0>>)

\* Mutant: each byte is taken for a number.
MutSetModTime(id) ==
  Mktime(PdjdToTm(id.pd_mod_julian, id.create_century), id.pd_mod_time)

\* The century of the change is not looked at.
SetModTime(id) ==
  Mktime(PdjdToTm(id.pd_mod_julian, id.create_century),
         [i \in 1 .. 3 |-> PdToD(id.pd_mod_time[i])])

\* Mutant: the short count is read for every entry.
MutNumLines(id) == id.num_lines

NumLines(id) == IF id.extended THEN id.full_num_lines ELSE id.num_lines

------------------------------------------------------------------------------
(* The struct that a caller passes                                          *)

Epoch == [date |-> [year |-> 1970, month |-> 0, day |-> 1], clock |-> <<0, 0, 0>>]

\* Storage that holds anything: readwriterec passes a variable it has not set.
\* The values stand for any.
Storage ==
  [known : {TRUE}, ispf_stats : BOOLEAN, has_ext : BOOLEAN, lines : {0},
   created : {Epoch}, changed : {Epoch}, ext_changed : {0}]

\* What calloc or an initialiser gives.
Cleared ==
  [known |-> TRUE, ispf_stats |-> FALSE, has_ext |-> FALSE, lines |-> 0,
   created |-> Epoch, changed |-> Epoch, ext_changed |-> 0]

\* Or the one of an earlier call is passed again.  If the statistics in it are not
\* those of a member, it is storage that holds anything once more.
Passed == Storage \cup (IF mstat.known /\ told.known /\ told.mine THEN {mstat} ELSE {})

CopyExtendedAttributesIntoMstat(stat, time) ==
  [stat EXCEPT !.has_ext = TRUE, !.ext_changed = time]

\* Mutant: the bit is left as it was where the user data are too short.
MutCopyIspfStatsIntoMstat(stat, id) ==
  IF id.user_data = "short" THEN stat
  ELSE [stat EXCEPT !.ispf_stats = TRUE, !.lines = NumLines(id),
                    !.created = SetCreateTime(id), !.changed = SetModTime(id)]

CopyIspfStatsIntoMstat(stat, id) ==
  IF id.user_data = "short" THEN [stat EXCEPT !.ispf_stats = FALSE]
  ELSE [stat EXCEPT !.ispf_stats = TRUE, !.lines = NumLines(id),
                    !.created = SetCreateTime(id), !.changed = SetModTime(id)]

\* Where an entry has no extended attributes, or no user data, the struct keeps
\* what it holds, the bits included.
SmdeToMstat(id, stat, time) ==
  LET ext == IF id.ext_attr THEN CopyExtendedAttributesIntoMstat(stat, time) ELSE stat
  IN  IF id.user_data = "none" THEN ext ELSE CopyIspfStatsIntoMstat(ext, id)

------------------------------------------------------------------------------
(* Operations of a program                                                  *)

\* What is true of a member stored now with so many lines: mine tells that the
\* statistics in the entry, or in the mstat, are the ones of this member.
NewMember(count) ==
  [known |-> TRUE, created |-> now.date, reads |-> 0, lines |-> count, changed |-> now,
   mine |-> TRUE]

\* create_mstat: a new member.
CreateMstat ==
  /\ ~mstat.known
  /\ \E count \in Lines :
       /\ mstat' = [known |-> TRUE, ispf_stats |-> TRUE, has_ext |-> TRUE, lines |-> count,
                    created |-> [date |-> now.date, clock |-> now.clock],
                    changed |-> [date |-> now.date, clock |-> now.clock],
                    ext_changed |-> now.seconds]
       /\ told' = NewMember(count)
  /\ UNCHANGED <<summer, pdse, now, entry, truth, reading>>

\* write_member of f2m gives an mstat with a name and a CCSID only.
PartialMstat ==
  /\ ~mstat.known
  /\ mstat' = Cleared
  /\ told' = Nothing
  /\ UNCHANGED <<summer, pdse, now, entry, truth, reading>>

\* readmemdir_entry, and a member of openmemdir, which passes cleared structs.
ReadMemdirEntry ==
  /\ entry.known
  /\ truth.reads < MaxReads
  /\ \E stat \in Passed, time \in TodToTime(entry.timestamp) :
       /\ mstat' = SmdeToMstat(entry, stat, time)
       /\ reading' = [user_data |-> entry.user_data, ext_attr |-> entry.ext_attr,
                      cleared |-> stat = Cleared]
  /\ told' = [truth EXCEPT !.reads = @ + 1,
                           !.mine = @ /\ entry.user_data = "full"]
  /\ UNCHANGED <<summer, pdse, now, entry, truth>>

\* writememdir_entry, the part that fills the entry.  An mstat is a variable of
\* the function that calls it.  Without statistics the member counts as created
\* today, with no lines.
WriteMemdirEntry ==
  /\ mstat.known
  /\ entry' = AddMemStats(mstat)
  /\ truth' = IF mstat.ispf_stats THEN [told EXCEPT !.changed = now] ELSE NewMember(0)
  /\ mstat' = Nothing
  /\ told' = Nothing
  /\ reading' = Nothing
  /\ UNCHANGED <<summer, pdse, now>>

\* Another program has stored the member: ISPF with a short entry, or a utility
\* with user data of its own or none.  A program also turns to another member.
StoredByOthers ==
  /\ \E count \in Lines, data \in {"none", "short", "full"}, ext \in BOOLEAN :
       /\ count <= SHRT_MAX
       /\ ext => pdse
       /\ entry' = [AddMemStats(Cleared) EXCEPT
                      !.user_data = data, !.ext_attr = ext,
                      !.extended = FALSE, !.num_lines = count]
       /\ truth' = NewMember(count)
  /\ UNCHANGED <<summer, pdse, now, mstat, told, reading>>

TimePasses ==
  /\ now.date \in FirstDays \ LaterDays
  /\ entry.known
  /\ \E d \in LaterDays, t \in Times :
       /\ d.year > now.date.year
       /\ now' = [date |-> d, clock |-> t.clock, seconds |-> t.seconds]
  /\ UNCHANGED <<summer, pdse, mstat, entry, told, truth, reading>>

StatsInit ==
  /\ summer \in {{}, 4 .. 8}
  /\ pdse \in BOOLEAN
  /\ \E d \in FirstDays, t \in Times :
       now = [date |-> d, clock |-> t.clock, seconds |-> t.seconds]
  /\ mstat = Nothing
  /\ entry = Nothing
  /\ told = Nothing
  /\ truth = Nothing
  /\ reading = Nothing

StatsNext ==
  \/ CreateMstat \/ PartialMstat \/ ReadMemdirEntry \/ WriteMemdirEntry
  \/ StoredByOthers \/ TimePasses

StatsSpec == StatsInit /\ [][StatsNext]_statsVars

------------------------------------------------------------------------------
(* Properties                                                               *)

\* A program has an mstat that was read from an entry, and the statistics in it
\* are those of the member: the entry has user data, and they were not stored
\* from storage that held anything.
Read     == mstat.known /\ told.known /\ told.reads > 0
ReadMine == Read /\ told.mine

LastDayOfYear(date) == date.month = 11 /\ date.day = 31

\* However often an entry is read and stored again with what was read, the day a
\* member was created stays what it was: but for December 31, which j_to_mmdd
\* does not find in the year and which becomes one of the year before each time.
CreatedIsKept ==
  ReadMine => mstat.created.date =
    IF LastDayOfYear(told.created) THEN [told.created EXCEPT !.year = @ - told.reads]
                                   ELSE told.created

\* The change of a member is told to the second, an hour late in summer, if it
\* took place in the century of its creation as the entry has it and not on
\* December 31: else it is told to have been in an earlier year.
ChangedIsTold ==
  ReadMine =>
    LET c == told.changed
        stored == IF LastDayOfYear(told.created) THEN told.created.year - told.reads + 1
                                                 ELSE told.created.year
    IN  IF CenturyOf([year |-> stored]) = CenturyOf(c.date) /\ ~LastDayOfYear(c.date)
          THEN mstat.changed = Mktime(c.date, c.clock)
          ELSE mstat.changed.date.year < c.date.year

\* The number of lines comes back however it was stored, and the timestamp of the
\* directory, if it has one, is told at most two seconds early.  If the caller has
\* cleared the struct its bits tell what the entry has.  Else the bits and values
\* of another member, or of none, pass for those that an entry does not have.
StatsAreKept ==
  Read =>
    /\ told.mine => mstat.ispf_stats /\ mstat.lines = told.lines
    /\ reading.ext_attr =>
         mstat.has_ext /\ mstat.ext_changed \in told.changed.seconds - 2 .. told.changed.seconds
    /\ reading.cleared => /\ mstat.has_ext <=> reading.ext_attr
                          /\ mstat.ispf_stats <=> reading.user_data = "full"
    /\ reading.user_data = "short" => ~mstat.ispf_stats
==============================================================================
