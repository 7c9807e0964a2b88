------------------------ MODULE MemberDirectory_proofs ------------------------
(***************************************************************************)
(* Proofs about MemberDirectory, for every set of programs, editors and    *)
(* members; and, from "MemberStats" on, about the statistics an entry      *)
(* holds, for all days and times of day that localtime can tell.           *)
(***************************************************************************)
EXTENDS MemberDirectory, MemberStats, Lemmas, TLAPS

\* What a program relies on at each call: a PDS is never updated with DESERV,
\* nor a PDSE blindly, and an entry that was there stays there.
PathIsRight ==
  \A p \in Programs :
    /\ pc[p] = "replace" => dsorg = "PDS"
    /\ pc[p] \in {"deserv", "update"} => dsorg = "PDSE" /\ entries[member[p]] # None
    /\ pc[p] \in {"enq", "deq"} => p \in Editors

\* While a program is on its way its entry has not been stowed.
NotYetStowed ==
  \A p \in Programs : pc[p] \in {"enq"} \cup (Updating \ {"deq"}) => ~stowed[p]

IInv == TypeOK /\ PathIsRight /\ HeldWhileUpdating /\ TimestampIsFresh

------------------------------------------------------------------------------

\* None is none of the values it stands beside.
LEMMA NoneIsNoEntry == None \notin Entry /\ None \notin Programs /\ None \notin Members
BY ProgramAssumption

\* Before the first step no program is on its way and no ENQ is held.
LEMMA InitInv == Init => IInv
BY ProgramAssumption
   DEF Init, IInv, TypeOK, Entry, PathIsRight, HeldWhileUpdating,
       TimestampIsFresh, Updating, NoTimestamp

\* Types: DESERV is called for an entry that is there, so that what it tells is
\* a timestamp (PathIsRight).
LEMMA StepType ==
  ASSUME TypeOK, PathIsRight, NEW p \in Programs, Step(p)
  PROVE  TypeOK'
<1> USE ProgramAssumption DEF TypeOK, Goto, Updating
<1>1. ASSUME TakeMember(p) PROVE
        /\ member' \in [Programs -> Members \cup {None}] /\ member'[p] # None
        /\ \A q \in Programs \ {p} : member'[q] = member[q]
        /\ todo' \in [Programs -> SUBSET Members]
        /\ timestamp' \in [Programs -> Int]
        /\ answer' \in [Programs -> {"none", "ok", "failed", "unset"}]
        /\ stowed' \in [Programs -> BOOLEAN]
        /\ UNCHANGED <<directory, holder>>
  BY <1>1 DEF TakeMember, NoTimestamp
<1>2. CASE BlocksWritten(p)
  BY <1>1, <1>2 DEF BlocksWritten, directory
<1>3. CASE BlocksNotWritten(p)
  BY <1>1, <1>3 DEF BlocksNotWritten, AfterFailure, directory
<1>4. CASE NoMoreMembers(p) \/ EndOfTask(p)
  BY <1>4 DEF NoMoreMembers, EndOfTask, directory
<1>5. CASE EnqDone(p) \/ EnqFailed(p) \/ DeqDone(p) \/ DeqFailed(p)
  BY <1>5 DEF EnqDone, EnqFailed, DeqDone, DeqFailed, directory
<1>6. CASE CreateInPds(p) \/ MemberExists(p)
  BY <1>6 DEF CreateInPds, MemberExists, directory
<1>7. ASSUME NEW result \in {"ok", "failed", "unset"}, NEW success \in BOOLEAN,
             Return(p, result, success), pc[p] \in Updating
      PROVE  /\ pc' \in [Programs -> {"idle", "enq", "ending", "done"} \cup Updating]
             /\ \A q \in Programs \ {p} : pc'[q] = pc[q]
             /\ member[p] # None
             /\ answer' \in [Programs -> {"none", "ok", "failed", "unset"}]
  BY <1>7 DEF Return, AfterFailure
<1>8. ASSUME Stow(p), pc[p] \in Updating
      PROVE  /\ entries' \in [Members -> Entry \cup {None}]
             /\ clock' \in Nat /\ dsorg' = dsorg
             /\ stowed' \in [Programs -> BOOLEAN]
  BY <1>8 DEF Stow, Entry
<1>9. CASE Create(p) \/ Replace(p) \/ Update(p)
  BY <1>7, <1>8, <1>9 DEF Create, Replace, Update, Succeed
<1>10. CASE Deserv(p)
  <2>1. entries[member[p]] \in Entry
    BY <1>10 DEF Deserv, PathIsRight
  <2>2. timestamp' \in [Programs -> Int]
    BY <1>10, <2>1 DEF Deserv, Entry, Garbage
  <2>3. QED
    BY <1>10, <2>2 DEF Deserv, directory
<1>11. CASE DeservFailed(p) \/ StowFailed(p)
  BY <1>7, <1>11 DEF DeservFailed, StowFailed, Fail, NoStow, directory
<1>12. QED
  BY <1>2, <1>3, <1>4, <1>5, <1>6, <1>9, <1>10, <1>11 DEF Step

\* What a step leaves alone: the other programs, and every entry but the one
\* that is stowed.
LEMMA StepFrame ==
  ASSUME TypeOK, NEW p \in Programs, Step(p)
  PROVE  /\ dsorg' = dsorg
         /\ \A q \in Programs \ {p} :
              /\ pc'[q] = pc[q] /\ member'[q] = member[q]
              /\ timestamp'[q] = timestamp[q]
              /\ answer'[q] = answer[q] /\ stowed'[q] = stowed[q]
         /\ pc[p] # "idle" => member'[p] = member[p]
         /\ entries' = entries \/ Create(p) \/ Replace(p) \/ Update(p)
<1> USE DEF TypeOK, Goto, directory
<1>1. CASE BlocksWritten(p) \/ BlocksNotWritten(p)
  BY <1>1 DEF BlocksWritten, BlocksNotWritten, TakeMember
<1>2. CASE NoMoreMembers(p) \/ EndOfTask(p)
  BY <1>2 DEF NoMoreMembers, EndOfTask
<1>3. CASE EnqDone(p) \/ EnqFailed(p) \/ DeqDone(p) \/ DeqFailed(p)
  BY <1>3 DEF EnqDone, EnqFailed, DeqDone, DeqFailed
<1>4. CASE CreateInPds(p) \/ MemberExists(p) \/ Deserv(p)
  BY <1>4 DEF CreateInPds, MemberExists, Deserv
<1>5. ASSUME NEW result, NEW success, Return(p, result, success)
      PROVE  \A q \in Programs \ {p} : pc'[q] = pc[q] /\ answer'[q] = answer[q]
  BY <1>5 DEF Return
<1>6. CASE Create(p) \/ Replace(p) \/ Update(p)
  BY <1>5, <1>6 DEF Create, Replace, Update, Succeed, Stow
<1>7. CASE DeservFailed(p) \/ StowFailed(p)
  BY <1>5, <1>7 DEF DeservFailed, StowFailed, Fail, NoStow
<1>8. QED
  BY <1>1, <1>2, <1>3, <1>4, <1>6, <1>7 DEF Step

\* What a stow puts in the directory.
LEMMA StowedEntry ==
  ASSUME TypeOK, NEW p \in Programs, member[p] \in Members, Stow(p)
  PROVE  /\ entries'[member[p]] =
              [by |-> p, changed |-> clock + 1, ext_attr |-> TRUE]
         /\ entries'[member[p]] # None
         /\ entries'[member[p]].by = p
         /\ \A m \in Members \ {member[p]} : entries'[m] = entries[m]
<1>1. entries'[member[p]] = [by |-> p, changed |-> clock + 1, ext_attr |-> TRUE]
  BY DEF TypeOK, Stow
<1>2. [by |-> p, changed |-> clock + 1, ext_attr |-> TRUE] \in Entry
  BY DEF TypeOK, Entry
<1>3. QED
  BY <1>1, <1>2, NoneIsNoEntry DEF TypeOK, Stow

\* An entry that is there stays there.
LEMMA EntriesStay ==
  ASSUME TypeOK, NEW p \in Programs, Step(p), NEW m \in Members, entries[m] # None
  PROVE  entries'[m] # None
<1>1. CASE entries' = entries
  BY <1>1
<1>2. CASE Create(p) \/ Replace(p) \/ Update(p)
  <2>1. member[p] \in Members /\ Stow(p)
    BY <1>2 DEF TypeOK, Create, Replace, Update, Updating
  <2>2. QED
    BY <2>1, StowedEntry
<1>3. QED
  BY <1>1, <1>2, StepFrame

\* Each call is made only after the answers that lead to it.
LEMMA StepPath ==
  ASSUME TypeOK, PathIsRight, NEW p \in Programs, Step(p)
  PROVE  PathIsRight'
<1> SUFFICES ASSUME NEW q \in Programs
             PROVE  /\ pc'[q] = "replace" => dsorg' = "PDS"
                    /\ pc'[q] \in {"deserv", "update"} =>
                         dsorg' = "PDSE" /\ entries'[member'[q]] # None
                    /\ pc'[q] \in {"enq", "deq"} => q \in Editors
  BY DEF PathIsRight
<1>1. CASE q # p
  <2>1. pc[q] \in {"deserv", "update"} => member[q] \in Members
    BY DEF TypeOK, Updating
  <2>2. QED
    BY <1>1, <2>1, StepFrame, EntriesStay DEF PathIsRight
<1>2. CASE q = p
  <2> USE DEF TypeOK, Goto
  <2>1. CASE BlocksWritten(p) \/ BlocksNotWritten(p)
    BY <1>2, <2>1 DEF BlocksWritten, BlocksNotWritten, AfterFailure, TakeMember
  <2>2. CASE NoMoreMembers(p) \/ EndOfTask(p)
    BY <1>2, <2>2 DEF NoMoreMembers, EndOfTask
  <2>3. CASE EnqDone(p) \/ EnqFailed(p) \/ DeqDone(p) \/ DeqFailed(p)
    BY <1>2, <2>3 DEF EnqDone, EnqFailed, DeqDone, DeqFailed
  <2>4. CASE CreateInPds(p)
    BY <1>2, <2>4 DEF CreateInPds, directory
  <2>5. CASE MemberExists(p)
    BY <1>2, <2>5 DEF MemberExists, Exists, directory
  <2>6. CASE Deserv(p)
    BY <1>2, <2>6 DEF Deserv, PathIsRight, directory
  <2>7. ASSUME NEW result, NEW success, Return(p, result, success)
        PROVE  pc'[p] \in {"deq", "idle", "ending"} /\ (pc'[p] = "deq" => p \in Editors)
    BY <2>7 DEF Return, AfterFailure
  <2>8. CASE Create(p) \/ Replace(p) \/ Update(p)
    BY <1>2, <2>7, <2>8 DEF Create, Replace, Update, Succeed
  <2>9. CASE DeservFailed(p) \/ StowFailed(p)
    BY <1>2, <2>7, <2>9 DEF DeservFailed, StowFailed, Fail
  <2>10. QED
    BY <2>1, <2>2, <2>3, <2>4, <2>5, <2>6, <2>8, <2>9 DEF Step
<1>3. QED
  BY <1>1, <1>2

\* The ENQ: it is taken before the first call that changes the directory, and is
\* given up by the program that has it or with the end of that program.
LEMMA StepHeld ==
  ASSUME TypeOK, PathIsRight, HeldWhileUpdating, NEW p \in Programs, Step(p)
  PROVE  HeldWhileUpdating'
<1> USE DEF TypeOK, Goto, Updating
<1>1. CASE BlocksWritten(p) \/ BlocksNotWritten(p) \/ NoMoreMembers(p) \/ EnqFailed(p)
  <2>1. UNCHANGED holder /\ pc[p] \in {"idle", "enq"}
    BY <1>1 DEF BlocksWritten, BlocksNotWritten, TakeMember, NoMoreMembers, EnqFailed
  <2>2. \A m \in Members : holder[m] # p
    BY <2>1 DEF HeldWhileUpdating
  <2>3. p \in Editors => pc'[p] \in {"enq", "idle", "ending"}
    BY <1>1 DEF BlocksWritten, BlocksNotWritten, AfterFailure, TakeMember,
                NoMoreMembers, EnqFailed
  <2>4. QED
    BY <2>1, <2>2, <2>3, StepFrame DEF HeldWhileUpdating
<1>2. CASE EnqDone(p)
  <2>1. \A m \in Members : holder[m] # p
    BY <1>2 DEF EnqDone, HeldWhileUpdating
  <2>2. p \in Editors /\ member[p] \in Members
    BY <1>2 DEF EnqDone, PathIsRight
  <2>3. /\ member' = member /\ pc'[p] = "create"
        /\ holder[member[p]] = None /\ holder' = [holder EXCEPT ![member[p]] = p]
    BY <1>2 DEF EnqDone
  <2>4. QED
    BY <2>1, <2>2, <2>3, StepFrame, NoneIsNoEntry DEF HeldWhileUpdating
<1>3. CASE DeqDone(p)
  <2>1. p \in Editors /\ member[p] \in Members
    BY <1>3 DEF DeqDone, PathIsRight
  <2>2. holder[member[p]] = p /\ \A m \in Members : holder[m] = p => m = member[p]
    BY <1>3, <2>1 DEF DeqDone, HeldWhileUpdating
  <2>3. /\ member' = member /\ pc'[p] = "idle"
        /\ holder' = [holder EXCEPT ![member[p]] = None]
    BY <1>3 DEF DeqDone
  <2>4. QED
    BY <2>1, <2>2, <2>3, StepFrame, NoneIsNoEntry DEF HeldWhileUpdating
<1>4. CASE EndOfTask(p)
  BY <1>4, StepFrame, NoneIsNoEntry DEF EndOfTask, HeldWhileUpdating
<1>5. CASE \/ DeqFailed(p) \/ CreateInPds(p) \/ MemberExists(p) \/ Deserv(p)
           \/ Create(p) \/ Replace(p) \/ DeservFailed(p) \/ Update(p) \/ StowFailed(p)
  <2>1. ASSUME NEW result, NEW success, Return(p, result, success)
        PROVE  pc'[p] \in {"deq", "ending"} \/ (p \notin Editors /\ pc'[p] = "idle")
    BY <2>1 DEF Return, AfterFailure
  <2>2. /\ UNCHANGED holder /\ pc[p] \in Updating
        /\ pc'[p] \in Updating \cup {"ending"} \/ (p \notin Editors /\ pc'[p] = "idle")
    <3>1. CASE DeqFailed(p) \/ CreateInPds(p) \/ MemberExists(p) \/ Deserv(p)
      BY <3>1 DEF DeqFailed, CreateInPds, MemberExists, Deserv
    <3>2. CASE Create(p) \/ Replace(p) \/ DeservFailed(p) \/ Update(p) \/ StowFailed(p)
      BY <2>1, <3>2 DEF Create, Replace, DeservFailed, Update, StowFailed, Succeed, Fail
    <3>3. QED
      BY <1>5, <3>1, <3>2
  <2>3. QED
    BY <2>2, StepFrame DEF HeldWhileUpdating
<1>6. QED
  BY <1>1, <1>2, <1>3, <1>4, <1>5 DEF Step

\* The timestamp: only a program without ENQ can come between.
LEMMA StepFresh ==
  ASSUME TypeOK, PathIsRight, HeldWhileUpdating, TimestampIsFresh,
         NEW p \in Programs, Step(p)
  PROVE  TimestampIsFresh'
<1> SUFFICES ASSUME NEW q \in Editors, pc'[q] = "update", timestamp'[q] # Garbage
             PROVE  LET e == entries'[member'[q]]
                    IN  timestamp'[q] = e.changed \/ e.by \notin Editors \cup {None}
  BY DEF TimestampIsFresh
<1>0. q \in Programs
  BY ProgramAssumption
<1>1. CASE q = p
  <2>1. ASSUME NEW result, NEW success, Return(p, result, success)
        PROVE  pc'[p] # "update"
    BY <2>1 DEF Return, AfterFailure, Goto, TypeOK
  <2>2. Deserv(p)
    <3>1. ~(Create(p) \/ Replace(p) \/ DeservFailed(p) \/ Update(p) \/ StowFailed(p))
      BY <1>1, <2>1 DEF Create, Replace, DeservFailed, Update, StowFailed, Succeed, Fail
    <3>2. QED
      BY <1>1, <3>1 DEF Step, BlocksWritten, BlocksNotWritten, AfterFailure, NoMoreMembers,
           EndOfTask, EnqDone, EnqFailed, DeqDone, DeqFailed, CreateInPds,
           MemberExists, Goto, TypeOK
  <2>3. QED
    BY <1>1, <2>2 DEF Deserv, directory, TypeOK
<1>2. CASE q # p
  <2>1. /\ pc[q] = "update" /\ timestamp[q] # Garbage
        /\ timestamp'[q] = timestamp[q] /\ member'[q] = member[q]
    BY <1>0, <1>2, StepFrame
  <2>2. member[q] \in Members
    BY <1>0, <2>1 DEF TypeOK, Updating
  <2>3. CASE entries'[member[q]] = entries[member[q]]
    BY <2>1, <2>3 DEF TimestampIsFresh
  <2>4. CASE entries'[member[q]] # entries[member[q]]
    <3>1. Stow(p) /\ member[p] \in Members /\ pc[p] \in Updating
      BY <2>4, StepFrame DEF Create, Replace, Update, TypeOK, Updating
    <3>2. /\ entries'[member[p]].by = p
          /\ \A m \in Members \ {member[p]} : entries'[m] = entries[m]
      BY <3>1, StowedEntry
    <3>3. member[p] = member[q] /\ entries'[member[q]].by = p
      BY <2>2, <2>4, <3>2
    <3>4. p \notin Editors
      BY <1>0, <1>2, <2>1, <3>1, <3>3 DEF HeldWhileUpdating, Updating
    <3>5. QED
      BY <2>1, <3>3, <3>4, NoneIsNoEntry
  <2>5. QED
    BY <2>3, <2>4
<1>3. QED
  BY <1>1, <1>2

------------------------------------------------------------------------------

\* The invariant is inductive.
LEMMA StepInv == IInv /\ [Next]_vars => IInv'
<1> SUFFICES ASSUME IInv, [Next]_vars PROVE IInv'
  OBVIOUS
<1>1. CASE UNCHANGED vars
  BY <1>1 DEF vars, directory, IInv, TypeOK, PathIsRight, HeldWhileUpdating, TimestampIsFresh
<1>2. CASE \E p \in Programs : Step(p)
  BY <1>2, StepType, StepPath, StepHeld, StepFresh DEF IInv
<1>3. QED
  BY <1>1, <1>2 DEF Next, AllDone

\* The invariant holds in every reachable state.
LEMMA Invariance == Spec => []IInv
BY InitInv, StepInv, PTL DEF Spec

\* The state of the programs and of the directory is well typed in every
\* reachable state; no service is called without the name of a member.
THEOREM TypeCorrect == Spec => []TypeOK
BY Invariance, PTL DEF IInv

\* However many programs there are, an editor holds the ENQ of its member from
\* the ENQ to the DEQ of write_member_dir_entry's callers, and only that one.
THEOREM EnqHeld == Spec => []HeldWhileUpdating
BY Invariance, PTL DEF IInv

\* No editor ever comes between DESERV and STOW_IFF of another one.
THEOREM TimestampFresh == Spec => []TimestampIsFresh
BY Invariance, PTL DEF IInv

\* STOW_IFF protects the entries of a PDSE from every program, those included
\* that take no ENQ: nothing is overwritten by a program that did not read it.
THEOREM NoBlindOverwrite == Spec => NothingOverwrittenUnseen
<1> DEFINE Unseen == dsorg = "PDSE" =>
             \A m \in Members :
               entries[m] # None /\ entries'[m] # entries[m] =>
                 timestamp[entries'[m].by] = entries[m].changed
<1>1. IInv /\ [Next]_vars => [Unseen]_vars
  <2> SUFFICES ASSUME IInv, NEW p \in Programs, Step(p), dsorg = "PDSE",
                      NEW m \in Members, entries[m] # None, entries'[m] # entries[m]
               PROVE  timestamp[entries'[m].by] = entries[m].changed
    BY DEF Next, AllDone, vars, directory
  <2>1. Create(p) \/ Replace(p) \/ Update(p)
    BY StepFrame DEF IInv
  <2>2. Stow(p) /\ member[p] \in Members
    BY <2>1 DEF Create, Replace, Update, IInv, TypeOK, Updating
  <2>3. m = member[p] /\ entries'[m].by = p
    BY <2>2, StowedEntry DEF IInv
  <2>4. Update(p)
    BY <2>1, <2>3 DEF Create, Exists, Replace, IInv, PathIsRight
  <2>5. QED
    BY <2>3, <2>4 DEF Update
<1>2. QED
  BY <1>1, Invariance, PTL DEF Spec, NothingOverwrittenUnseen

------------------------------------------------------------------------------

\* The return code: a program that stows has not stowed before, and answers ok.
LEMMA StepAnswer ==
  ASSUME TypeOK, NotYetStowed, AnswerIsTrue, NEW p \in Programs, Step(p)
  PROVE  NotYetStowed' /\ AnswerIsTrue'
<1> USE DEF TypeOK, Goto
<1>1. \A q \in Programs \ {p} :
        pc'[q] = pc[q] /\ stowed'[q] = stowed[q] /\ answer'[q] = answer[q]
  BY StepFrame
<1>2. SUFFICES /\ pc'[p] \in {"enq"} \cup (Updating \ {"deq"}) => ~stowed'[p]
               /\ stowed'[p] <=> answer'[p] = "ok"
  BY <1>1 DEF NotYetStowed, AnswerIsTrue
<1>3. CASE BlocksWritten(p) \/ BlocksNotWritten(p)
  BY <1>3 DEF BlocksWritten, BlocksNotWritten, TakeMember
<1>4. CASE NoMoreMembers(p) \/ EndOfTask(p) \/ EnqFailed(p) \/ DeqDone(p) \/ DeqFailed(p)
  BY <1>4 DEF NoMoreMembers, EndOfTask, EnqFailed, DeqDone, DeqFailed,
              AnswerIsTrue, Updating
<1>5. CASE EnqDone(p) \/ CreateInPds(p) \/ MemberExists(p) \/ Deserv(p)
  BY <1>5 DEF EnqDone, CreateInPds, MemberExists, Deserv, AnswerIsTrue,
              NotYetStowed, Updating
<1>6. ASSUME NEW result, NEW success, Return(p, result, success)
      PROVE  answer'[p] = result /\ pc'[p] \in {"deq", "idle", "ending"}
  BY <1>6 DEF Return, AfterFailure
<1>7. CASE Create(p) \/ Replace(p) \/ Update(p)
  <2>1. stowed'[p] /\ answer'[p] = "ok" /\ pc'[p] \in {"deq", "idle", "ending"}
    BY <1>6, <1>7 DEF Create, Replace, Update, Stow, Succeed
  <2>2. QED
    BY <2>1 DEF Updating
<1>8. CASE DeservFailed(p) \/ StowFailed(p)
  <2>1. ~stowed[p] /\ stowed' = stowed
    BY <1>8 DEF DeservFailed, StowFailed, NoStow, NotYetStowed, Updating
  <2>2. Return(p, "failed", FALSE) \/ \E success \in BOOLEAN : Return(p, "unset", success)
    BY <1>8 DEF DeservFailed, StowFailed, Fail
  <2>3. answer'[p] # "ok" /\ pc'[p] \in {"deq", "idle", "ending"}
    BY <2>2 DEF Return, AfterFailure
  <2>4. QED
    BY <2>1, <2>3 DEF Updating
<1>9. QED
  BY <1>3, <1>4, <1>5, <1>7, <1>8 DEF Step

\* writememdir_entry says success if and only if the entry was stowed, unless it
\* returns what was never set.
THEOREM AnswerTrue == Spec => []AnswerIsTrue
<1>1. Init => NotYetStowed /\ AnswerIsTrue
  BY DEF Init, NotYetStowed, AnswerIsTrue
<1>2. TypeOK /\ (NotYetStowed /\ AnswerIsTrue) /\ [Next]_vars
        => (NotYetStowed /\ AnswerIsTrue)'
  <2>1. CASE UNCHANGED vars
    BY <2>1 DEF vars, NotYetStowed, AnswerIsTrue
  <2>2. CASE \E p \in Programs : Step(p)
    BY <2>2, StepAnswer
  <2>3. QED
    BY <2>1, <2>2 DEF Next, AllDone
<1>3. QED
  BY <1>1, <1>2, TypeCorrect, PTL DEF Spec

------------------------------------------------------------------------------
(* MemberStats                                                              *)

\* Packed decimals, days of the year and the clock.

LEMMA PackedDigits ==
  ASSUME NEW v \in 0 .. 99
  PROVE  PdToD(DToPd(v, FALSE)) = v
BY DEF PdToD, DToPd

LEMMA PackedSigned ==
  ASSUME NEW v \in 0 .. 9
  PROVE  PdToD(DToPd(v, TRUE)) = v
BY DEF PdToD, DToPd

LEMMA MonthDays ==
  ASSUME NEW year \in Int, NEW i \in 0 .. 11
  PROVE  /\ DaysInMonth(year, i) = MonthLength(year, i)
         /\ DaysInMonth(year, i) \in 28 .. 31
<1>1. /\ days[1] = 31 /\ days[2] = 28 /\ days[3] = 31 /\ days[4] = 30
      /\ days[5] = 31 /\ days[6] = 30 /\ days[7] = 31 /\ days[8] = 31
      /\ days[9] = 30 /\ days[10] = 31 /\ days[11] = 30 /\ days[12] = 31
  BY DEF days
<1>2. i \in {0, 1, 2, 3, 4, 5, 6, 7, 8, 9, 10, 11}
  OBVIOUS
<1>3. QED
  BY <1>1, <1>2 DEF DaysInMonth, MonthLength, Leap

\* What DaysBefore gives for the month: the days of the months before it.
LEMMA DaysBeforeIs ==
  ASSUME NEW year \in Int
  PROVE  LET b == DaysBefore(year)
         IN  /\ b[0] = 0 /\ b[12] \in 365 .. 366
             /\ \A i \in 0 .. 12 : b[i] \in Nat
             /\ \A i \in 0 .. 11 : b[i + 1] = b[i] + DaysInMonth(year, i)
             /\ \A i, j \in 0 .. 12 : i <= j => b[i] <= b[j]
<1> DEFINE D(i) == DaysInMonth(year, i)
           F(f) == [i \in 0 .. 12 |-> IF i = 0 THEN 0 ELSE f[i - 1] + D(i - 1)]
           step == [i \in 1 .. 12 |-> [x \in Nat |-> x + D(i - 1)]]
<1>1. \A i \in 1 .. 12 : i - 1 \in 0 .. 11 /\ D(i - 1) \in 28 .. 31
  <2> HIDE DEF D
  <2>1. \A i \in 0 .. 11 : D(i) \in 28 .. 31
    BY MonthDays DEF D
  <2>2. \A i \in 1 .. 12 : i - 1 \in 0 .. 11
    OBVIOUS
  <2>3. QED
    BY <2>1, <2>2
<1>2. step \in Steps(12, Nat)
  <2> HIDE DEF D
  <2>1. \A i \in 1 .. 12 : \A x \in Nat : x + D(i - 1) \in Nat
    BY <1>1
  <2>2. QED
    BY <2>1 DEF Steps
<1>3. PICK g \in Walks(12, Nat) : Follows(g, 0, step, 12)
  <2> HIDE DEF step
  <2>1. QED
    BY <1>2, Recursion
<1>4. DOMAIN g = 0 .. 12 /\ g[0] = 0 /\ \A i \in 1 .. 12 : g[i] = g[i - 1] + D(i - 1)
  <2> HIDE DEF D
  <2>1. g \in [0 .. 12 -> Nat] /\ g[0] = 0 /\ \A i \in 1 .. 12 : g[i] = step[i][g[i - 1]]
    BY <1>3 DEF Walks, Follows
  <2>2. \A i \in 1 .. 12 : g[i - 1] \in Nat
    BY <2>1
  <2>3. QED
    BY <2>1, <2>2
<1>5. g = F(g)
  <2> HIDE DEF D
  <2>1. g = [i \in 0 .. 12 |-> g[i]]
    BY <1>3 DEF Walks
  <2>2. \A i \in 0 .. 12 : g[i] = IF i = 0 THEN 0 ELSE g[i - 1] + D(i - 1)
    BY <1>4
  <2>3. QED
    BY <2>1, <2>2
<1> DEFINE b == DaysBefore(year)
<1>6. b = CHOOSE f : f = F(f)
  BY DEF DaysBefore
<1>7. b = F(b)
  <2> HIDE DEF F
  <2>1. QED
    BY <1>5, <1>6
<1>8. b[0] = 0 /\ \A i \in 1 .. 12 : b[i] = b[i - 1] + D(i - 1)
  <2> HIDE DEF b, D
  <2>1. 0 \in 0 .. 12 /\ \A i \in 1 .. 12 : i \in 0 .. 12 /\ i # 0
    OBVIOUS
  <2>2. \A i \in 0 .. 12 : b[i] = IF i = 0 THEN 0 ELSE b[i - 1] + D(i - 1)
    BY <1>7
  <2>3. QED
    BY <2>1, <2>2
<1>9. \A i \in 0 .. 11 : b[i + 1] = b[i] + D(i)
  <2> HIDE DEF b, D
  <2>1. \A i \in 0 .. 11 : i + 1 \in 1 .. 12 /\ (i + 1) - 1 = i
    OBVIOUS
  <2>2. QED
    BY <1>8, <2>1
<1>10. \A i \in 0 .. 12 : b[i] \in Nat
  <2> HIDE DEF b, D
  <2> DEFINE T == { i \in 0 .. 12 : b[i] \in Nat }
  <2>1. 0 \in T
    BY <1>8
  <2>2. ASSUME NEW n \in T, n < 12 PROVE n + 1 \in T
    <3>1. n \in 0 .. 11 /\ n + 1 \in 1 .. 12
      BY <2>2
    <3>2. b[n + 1] = b[n] + D(n) /\ D(n) \in 28 .. 31
      BY <1>1, <1>9, <3>1, MonthDays DEF D
    <3>3. QED
      BY <2>2, <3>1, <3>2
  <2>3. T \in SUBSET Nat
    OBVIOUS
  <2> HIDE DEF T
  <2>4. 0 .. 12 \subseteq T
    BY <2>1, <2>2, <2>3, UpTo
  <2>5. QED
    BY <2>4 DEF T
<1>11. \A i, j \in 0 .. 12 : i <= j => b[i] <= b[j]
  <2> HIDE DEF b, D
  <2> DEFINE k == [i \in 1 .. 13 |-> b[i - 1]]
  <2>1. \A i \in 1 .. 13 : i - 1 \in 0 .. 12
    OBVIOUS
  <2>2. k \in [1 .. 13 -> Int]
    BY <1>10, <2>1
  <2>3. ASSUME NEW i \in 1 .. 12 PROVE k[i] <= k[i + 1]
    <3>1. i - 1 \in 0 .. 11 /\ (i - 1) + 1 = i /\ (i + 1) - 1 = i /\ i \in 1 .. 13 /\ i + 1 \in 1 .. 13
      OBVIOUS
    <3>2. k[i] = b[i - 1] /\ k[i + 1] = b[i] /\ b[i - 1] \in Nat
      BY <1>10, <2>1, <3>1
    <3>3. b[i] = b[i - 1] + D(i - 1) /\ D(i - 1) \in 28 .. 31
      BY <1>1, <1>8
    <3>4. QED
      BY <3>2, <3>3
  <2>4. \A i, j \in 1 .. 13 : i <= j => k[i] <= k[j]
    <3> HIDE DEF k
    <3>1. 13 \in Nat /\ 13 - 1 = 12
      OBVIOUS
    <3>2. QED
      BY <2>2, <2>3, <3>1, Rising
  <2>5. ASSUME NEW i \in 0 .. 12, NEW j \in 0 .. 12, i <= j PROVE b[i] <= b[j]
    <3>1. i + 1 \in 1 .. 13 /\ j + 1 \in 1 .. 13 /\ i + 1 <= j + 1
          /\ (i + 1) - 1 = i /\ (j + 1) - 1 = j
      BY <2>5
    <3>2. k[i + 1] = b[i] /\ k[j + 1] = b[j]
      BY <3>1
    <3> HIDE DEF k
    <3>3. QED
      BY <2>4, <3>1, <3>2
  <2>6. QED
    BY <2>5
<1>12. b[12] \in 365 .. 366
  <2> HIDE DEF b
  <2>1. D(0) = 31 /\ D(1) \in 28 .. 29 /\ D(2) = 31 /\ D(3) = 30 /\ D(4) = 31 /\ D(5) = 30
        /\ D(6) = 31 /\ D(7) = 31 /\ D(8) = 30 /\ D(9) = 31 /\ D(10) = 30 /\ D(11) = 31
    BY MonthDays DEF MonthLength
  <2> HIDE DEF D
  <2>2. /\ b[1] = b[0] + D(0) /\ b[2] = b[1] + D(1) /\ b[3] = b[2] + D(2) /\ b[4] = b[3] + D(3)
        /\ b[5] = b[4] + D(4) /\ b[6] = b[5] + D(5) /\ b[7] = b[6] + D(6) /\ b[8] = b[7] + D(7)
        /\ b[9] = b[8] + D(8) /\ b[10] = b[9] + D(9) /\ b[11] = b[10] + D(10)
        /\ b[12] = b[11] + D(11)
    BY <1>9
  <2>3. QED
    BY <1>8, <2>1, <2>2
<1>13. QED
  BY <1>8, <1>9, <1>10, <1>11, <1>12

\* What JToMmdd gives for the days that lie in a month, and after the last one.
LEMMA MonthOfDay ==
  ASSUME NEW year \in Int, NEW n \in Nat
  PROVE  LET b == DaysBefore(year)
         IN  /\ \A m \in 0 .. 11 : b[m] <= n /\ n < b[m + 1]
                  => JToMmdd(year, n) = [month |-> m, day |-> n - b[m]]
             /\ b[12] <= n => JToMmdd(year, n) = [month |-> 0, day |-> 0]
<1> DEFINE b       == DaysBefore(year)
           D(i)    == DaysInMonth(year, i)
           fits    == { i \in 0 .. 11 : n - b[i] < D(i) }
           first   == CHOOSE i \in fits : \A j \in fits : i <= j
           md      == JToMmdd(year, n)
<1>1. /\ \A i \in 0 .. 12 : b[i] \in Nat
      /\ \A i \in 0 .. 11 : b[i + 1] = b[i] + D(i) /\ D(i) \in 28 .. 31
      /\ \A i, j \in 0 .. 12 : i <= j => b[i] <= b[j]
  BY DaysBeforeIs, MonthDays
<1>2. md = IF fits = {} THEN [month |-> 0, day |-> 0] ELSE [month |-> first, day |-> n - b[first]]
  BY DEF JToMmdd
<1> HIDE DEF b, D, md
<1>3. \A i \in 0 .. 11 : i \in fits <=> n < b[i + 1]
  BY <1>1
<1>4. ASSUME NEW m \in 0 .. 11, b[m] <= n, n < b[m + 1]
      PROVE  md = [month |-> m, day |-> n - b[m]]
  <2>1. m \in fits
    BY <1>3, <1>4
  <2>2. ASSUME NEW j \in fits PROVE m <= j
    <3>1. j \in 0 .. 11 /\ n < b[j + 1]
      BY <1>3
    <3>2. SUFFICES ASSUME j < m PROVE FALSE
      BY <3>1
    <3>3. j + 1 \in 0 .. 12 /\ m \in 0 .. 12 /\ j + 1 <= m
      BY <3>1, <3>2
    <3>4. b[j + 1] <= b[m] /\ b[j + 1] \in Nat /\ b[m] \in Nat
      BY <1>1, <3>3
    <3>5. QED
      BY <1>4, <3>1, <3>4
  <2>3. ASSUME NEW i \in fits, \A j \in fits : i <= j PROVE i = m
    <3>1. i <= m /\ m <= i
      BY <2>1, <2>2, <2>3
    <3>2. QED
      BY <3>1
  <2>4. first = m
    <3> HIDE DEF fits
    <3>1. QED
      BY <2>1, <2>2, <2>3
  <2>5. QED
    BY <1>2, <2>1, <2>4
<1>5. ASSUME b[12] <= n PROVE md = [month |-> 0, day |-> 0]
  <2>1. ASSUME NEW i \in 0 .. 11 PROVE i \notin fits
    <3>1. i + 1 \in 0 .. 12 /\ 12 \in 0 .. 12 /\ i + 1 <= 12
      OBVIOUS
    <3>2. b[i + 1] <= b[12] /\ b[i + 1] \in Nat /\ b[12] \in Nat
      BY <1>1, <3>1
    <3>3. QED
      BY <1>3, <1>5, <3>2
  <2>2. fits = {}
    BY <2>1
  <2>3. QED
    BY <1>2, <2>2
<1>6. QED
  BY <1>4, <1>5 DEF md, b

LEMMA OrdinalFits ==
  ASSUME NEW year \in Int, NEW m \in 0 .. 11, NEW day \in 1 .. 31,
         day <= DaysInMonth(year, m)
  PROVE  MmddToJ(year, m, day) \in 1 .. 366
<1> DEFINE b == DaysBefore(year)
<1>1. /\ \A i \in 0 .. 12 : b[i] \in Nat
      /\ b[m + 1] = b[m] + DaysInMonth(year, m)
      /\ \A i, j \in 0 .. 12 : i <= j => b[i] <= b[j]
      /\ b[12] \in 365 .. 366
  BY DaysBeforeIs
<1>2. MmddToJ(year, m, day) = b[m] + day
  BY DEF MmddToJ
<1> HIDE DEF b
<1>3. m + 1 \in 0 .. 12 /\ 12 \in 0 .. 12 /\ m \in 0 .. 12 /\ m + 1 <= 12
  OBVIOUS
<1>4. b[m + 1] <= b[12] /\ b[m] \in Nat /\ b[m + 1] \in Nat
  BY <1>1, <1>3
<1>5. PICK low \in Nat, high \in Nat, last \in 365 .. 366 :
        low = b[m] /\ high = b[m + 1] /\ last = b[12]
  BY <1>1, <1>4
<1>6. PICK length \in 28 .. 31 : length = DaysInMonth(year, m)
  BY MonthDays
<1>7. high = low + length /\ high <= last /\ day <= length
  BY <1>1, <1>4, <1>5, <1>6
<1>8. low + day \in 1 .. 366
  BY <1>7
<1>9. QED
  BY <1>2, <1>5, <1>8

LEMMA DateParts ==
  ASSUME NEW d, IsDate(d)
  PROVE  /\ d = [year |-> d.year, month |-> d.month, day |-> d.day]
         /\ d.year \in Nat /\ d.month \in 0 .. 11 /\ d.day \in 1 .. 31
         /\ d.day <= DaysInMonth(d.year, d.month)
         /\ MmddToJ(d.year, d.month, d.day) \in 1 .. 366
<1>1. /\ d = [year |-> d.year, month |-> d.month, day |-> d.day]
      /\ d.year \in Nat /\ d.month \in 0 .. 11 /\ d.day \in 1 .. 31
      /\ d.day <= MonthLength(d.year, d.month)
  BY DEF IsDate
<1>2. d.day <= DaysInMonth(d.year, d.month)
  BY <1>1, MonthDays
<1>3. MmddToJ(d.year, d.month, d.day) \in 1 .. 366
  <2>1. PICK year \in Int, m \in 0 .. 11, day \in 1 .. 31 :
          year = d.year /\ m = d.month /\ day = d.day
    BY <1>1
  <2>2. day <= DaysInMonth(year, m)
    BY <1>2, <2>1
  <2>3. MmddToJ(year, m, day) \in 1 .. 366
    BY <2>2, OrdinalFits
  <2>4. QED
    BY <2>1, <2>3
<1>4. QED
  BY <1>1, <1>2, <1>3

\* The day that comes back for a day of the year, once mktime has normalised it.
LEMMA DayComesBack ==
  ASSUME NEW d, IsDate(d)
  PROVE  LET md   == JToMmdd(d.year, MmddToJ(d.year, d.month, d.day))
             back == [year |-> d.year, month |-> md.month, day |-> md.day]
         IN  Normalised(back) =
               IF LastDayOfYear(d) THEN [year |-> d.year - 1, month |-> 11, day |-> 31]
                                         ELSE d
<1> DEFINE b    == DaysBefore(d.year)
           D(i) == DaysInMonth(d.year, i)
           n    == MmddToJ(d.year, d.month, d.day)
           md   == JToMmdd(d.year, n)
           back == [year |-> d.year, month |-> md.month, day |-> md.day]
<1>1. /\ d = [year |-> d.year, month |-> d.month, day |-> d.day]
      /\ d.year \in Int /\ d.month \in 0 .. 11 /\ d.day \in 1 .. 31 /\ d.day <= D(d.month)
  BY DateParts
<1>2. /\ \A i \in 0 .. 12 : b[i] \in Nat
      /\ \A i \in 0 .. 11 : b[i + 1] = b[i] + D(i) /\ D(i) \in 28 .. 31
  BY <1>1, DaysBeforeIs, MonthDays
<1>3. n = b[d.month] + d.day
  BY DEF MmddToJ
<1>4. n \in Nat
  BY DateParts
<1>5. /\ \A i \in 0 .. 11 : b[i] <= n /\ n < b[i + 1] => md = [month |-> i, day |-> n - b[i]]
      /\ b[12] <= n => md = [month |-> 0, day |-> 0]
  BY <1>1, <1>4, MonthOfDay
<1>6. D(11) = 31 /\ \A i \in 0 .. 11 : D(i) = MonthLength(d.year, i)
  BY <1>1, MonthDays DEF MonthLength
<1> HIDE DEF b, D, n, md
<1>7. PICK m \in 0 .. 11 : m = d.month
  BY <1>1
<1>8. /\ b[m] \in Nat /\ b[m + 1] = b[m] + D(m) /\ D(m) \in 28 .. 31 /\ d.day <= D(m)
      /\ n = b[m] + d.day /\ d.day \in 1 .. 31
  BY <1>1, <1>2, <1>3, <1>7
<1>9. CASE d.day < D(m)
  <2>1. md = [month |-> m, day |-> n - b[m]] /\ n - b[m] = d.day
    BY <1>5, <1>8, <1>9
  <2>2. md = [month |-> d.month, day |-> d.day]
    BY <1>7, <2>1
  <2>3. back = d
    BY <1>1, <2>2
  <2>4. ~LastDayOfYear(d)
    BY <1>6, <1>7, <1>8, <1>9 DEF LastDayOfYear
  <2>5. QED
    BY <1>1, <2>3, <2>4 DEF Normalised, n, md
<1>10. CASE d.day = D(m) /\ m < 11
  <2>1. m + 1 \in 0 .. 11 /\ (m + 1) - 1 = m /\ m + 1 > 0
    BY <1>10
  <2>2. b[m + 2] = b[m + 1] + D(m + 1) /\ D(m + 1) \in 28 .. 31
    BY <1>2, <2>1
  <2>3. b[m + 1] <= n /\ n < b[m + 2] /\ n - b[m + 1] = 0
    BY <1>8, <1>10, <2>2
  <2>4. md = [month |-> m + 1, day |-> 0]
    BY <1>5, <2>1, <2>3
  <2>5. back = [year |-> d.year, month |-> m + 1, day |-> 0]
    BY <2>4
  <2>6. Normalised(back) = [back EXCEPT !.month = @ - 1,
                                              !.day = MonthLength(d.year, m)]
    BY <2>1, <2>5 DEF Normalised
  <2>7. Normalised(back) = [year |-> d.year, month |-> m, day |-> D(m)]
    BY <1>6, <2>1, <2>5, <2>6
  <2>8. Normalised(back) = d
    BY <1>1, <1>7, <1>10, <2>7
  <2>9. ~LastDayOfYear(d)
    BY <1>7, <1>10 DEF LastDayOfYear
  <2>10. QED
    BY <2>8, <2>9 DEF n, md
<1>11. CASE d.day = D(m) /\ m = 11
  <2>1. b[12] <= n
    BY <1>8, <1>11
  <2>2. md = [month |-> 0, day |-> 0]
    BY <1>5, <2>1
  <2>3. back = [year |-> d.year, month |-> 0, day |-> 0]
    BY <2>2
  <2>4. Normalised(back) = [year |-> d.year - 1, month |-> 11, day |-> 31]
    BY <2>3 DEF Normalised
  <2>5. LastDayOfYear(d)
    BY <1>6, <1>7, <1>11 DEF LastDayOfYear
  <2>6. QED
    BY <2>4, <2>5 DEF n, md
<1>12. QED
  BY <1>8, <1>9, <1>10, <1>11

\* The year a packed year is read as in a century, counted from 1900.
YearIn(year, c) == (year % 100) + 1900 + c * 100

\* What is packed of a day comes back, in the century it is read with.
LEMMA JulianComesBack ==
  ASSUME NEW d, IsDate(d), NEW c \in Int
  PROVE  LET year == YearIn(d.year, c)
             md   == JToMmdd(year, MmddToJ(d.year, d.month, d.day))
         IN  PdjdToTm(TmToPdjd(d), c)
               = [year |-> year, month |-> md.month, day |-> md.day]
<1> DEFINE n == MmddToJ(d.year, d.month, d.day)
           p == TmToPdjd(d)
<1>1. d.year \in Nat /\ n \in 1 .. 366
  BY DateParts
<1>2. /\ p[1] = DToPd(d.year % 100, FALSE)
      /\ p[2] = DToPd(n \div 10, FALSE)
      /\ p[3] = DToPd(n % 10, TRUE)
  BY DEF TmToPdjd
<1> HIDE DEF n, p
<1>3. /\ d.year % 100 \in 0 .. 99 /\ n \div 10 \in 0 .. 99 /\ n % 10 \in 0 .. 9
      /\ (n \div 10) * 10 + (n % 10) = n
  BY <1>1
<1>4. /\ PdToD(p[1]) = d.year % 100 /\ PdToD(p[2]) = n \div 10
      /\ PdToD(p[3]) = n % 10
  BY <1>2, <1>3, PackedDigits, PackedSigned
<1>5. PdToD(p[2]) * 10 + PdToD(p[3]) = n
  BY <1>3, <1>4
<1> DEFINE year == PdToD(p[1]) + 1900 + c * 100
           md(k) == JToMmdd(year, k)
           k == PdToD(p[2]) * 10 + PdToD(p[3])
<1>6. PdjdToTm(p, c) = [year |-> year, month |-> md(k).month, day |-> md(k).day]
  BY DEF PdjdToTm
<1>7. QED
  BY <1>4, <1>5, <1>6 DEF YearIn, n, p

LEMMA YearAndCentury ==
  ASSUME NEW year \in Nat
  PROVE  /\ CenturyOf([year |-> year]) \in Int
         /\ YearIn(year, CenturyOf([year |-> year])) = year
         /\ \A x \in Nat : x <= year =>
              /\ CenturyOf([year |-> x]) <= CenturyOf([year |-> year])
<1>1. \A x \in Nat : CenturyOf([year |-> x]) = (x - 1900) \div 100
  BY DEF CenturyOf
<1>2. PICK q \in Nat, r \in 0 .. 99 : year = 100 * q + r /\ r = year % 100 /\ q = year \div 100
  BY SMT
<1>3. (year - 1900) \div 100 = q - 19
  BY <1>2
<1>4. ASSUME NEW x \in Nat, x <= year PROVE (x - 1900) \div 100 <= q - 19
  BY <1>2, <1>4
<1>5. QED
  BY <1>1, <1>2, <1>3, <1>4 DEF YearIn

LEMMA ToldSeconds ==
  ASSUME NEW units \in Nat
  PROVE  LET q == units \div 15625
             u == units % 15625
             w == (u * 16384) \div 15625
         IN  /\ TodToTime(units) \subseteq { q * 16384 + w - 1, q * 16384 + w }
             /\ u # 0 => TodToTime(units) = { q * 16384 + w }
<1> DEFINE q == units \div 15625
           u == units % 15625
           w == (u * 16384) \div 15625
           b == q * 16384 + w
<1>1. TodToTime(units) = IF u = 0 /\ units > 0 THEN {b - 1, b} ELSE {b}
  BY DEF TodToTime
<1> HIDE DEF b
<1>2. TodToTime(units) \subseteq { b - 1, b }
  BY <1>1
<1>3. u # 0 => TodToTime(units) = { b }
  BY <1>1
<1>4. QED
  BY <1>2, <1>3 DEF b

\* The timestamp of the directory is told at most two seconds early.
LEMMA TimestampIsTold ==
  ASSUME NEW s \in Nat
  PROVE  TodToTime(TodUnits(s)) \subseteq s - 2 .. s
<1> DEFINE q == s \div 16384
           r == s % 16384
           u == (r * 15625) \div 16384
           w == (u * 16384) \div 15625
           units == TodUnits(s)
           told_at == TodToTime(units)
<1>1. q \in Nat
  OBVIOUS
<1>2. r \in 0 .. 16383
  OBVIOUS
<1>3. s = 16384 * q + r
  OBVIOUS
<1>4. units = q * 15625 + u
  BY DEF TodUnits
<1> HIDE DEF q, r, units
<1>5. u \in 0 .. 15624
  BY <1>2
<1>6. u * 16384 <= r * 15625 /\ r * 15625 < (u + 1) * 16384
  BY <1>2
<1> HIDE DEF u
<1>7. w \in Nat
  BY <1>5
<1>8. w * 15625 <= u * 16384 /\ u * 16384 < (w + 1) * 15625
  BY <1>5
<1>9. units \in Nat
  BY <1>1, <1>4, <1>5
<1>10. units \div 15625 = q
  BY <1>1, <1>4, <1>5, <1>9
<1>11. units % 15625 = u
  BY <1>1, <1>4, <1>5, <1>9
<1>12. /\ told_at \subseteq { q * 16384 + w - 1, q * 16384 + w }
       /\ u # 0 => told_at = { q * 16384 + w }
  <2> DEFINE x == units \div 15625
             y == units % 15625
             z == (y * 16384) \div 15625
  <2>1. /\ told_at \subseteq { x * 16384 + z - 1, x * 16384 + z }
        /\ y # 0 => told_at = { x * 16384 + z }
    BY <1>9, ToldSeconds
  <2>2. x = q /\ y = u /\ z = w
    BY <1>10, <1>11
  <2> HIDE DEF x, y, z, w, told_at
  <2>3. QED
    BY <2>1, <2>2
<1> HIDE DEF w, told_at
<1>13. w \in r - 2 .. r /\ (u = 0 => w = 0 /\ r \in 0 .. 1)
  BY <1>2, <1>5, <1>6, <1>7, <1>8
<1>14. CASE u = 0
  <2>1. q * 16384 + w - 1 \in s - 2 .. s /\ q * 16384 + w \in s - 2 .. s
    BY <1>1, <1>2, <1>3, <1>7, <1>13, <1>14
  <2>2. QED
    BY <1>12, <2>1 DEF told_at, units
<1>15. CASE u # 0
  <2>1. q * 16384 + w \in s - 2 .. s
    BY <1>1, <1>2, <1>3, <1>7, <1>13
  <2>2. QED
    BY <1>12, <1>15, <2>1 DEF told_at, units
<1>16. QED
  BY <1>14, <1>15

\* A day of mktime is in the year that it was given, or in the one before.
LEMMA MktimeYear ==
  ASSUME NEW y \in Int, NEW m, NEW day, NEW hms
  PROVE  LET date == [year |-> y, month |-> m, day |-> day]
         IN  /\ Normalised(date).year \in {y, y - 1}
             /\ Mktime(date, hms).date.year = Normalised(date).year
<1> DEFINE date == [year |-> y, month |-> m, day |-> day]
           n == Normalised(date)
<1>1. n.year \in {y, y - 1}
  BY DEF Normalised
<1>2. \E a, b : n = [year |-> n.year, month |-> a, day |-> b]
  <2>1. CASE date.day # 0
    BY <2>1 DEF Normalised
  <2>2. CASE date.day = 0 /\ date.month > 0
    BY <2>2 DEF Normalised
  <2>3. CASE date.day = 0 /\ ~(date.month > 0)
    BY <2>3 DEF Normalised
  <2>4. QED
    BY <2>1, <2>2, <2>3
<1> HIDE DEF n
<1>3. PICK a, b : n = [year |-> n.year, month |-> a, day |-> b]
  BY <1>2
<1>4. NextDay(n).year = n.year
  BY <1>3 DEF NextDay
<1>5. Mktime(date, hms).date \in { n, NextDay(n) }
  BY DEF Mktime, n
<1>6. QED
  BY <1>1, <1>4, <1>5 DEF n

\* Summer time moves no midnight to another day.
LEMMA Midnight ==
  ASSUME NEW date
  PROVE  Mktime(date, <<0, 0, 0>>).date = Normalised(date)
BY DEF Mktime

------------------------------------------------------------------------------
(* MemberStats: the invariant                                               *)

\* The day of creation as the entry has it after so many readings.
Stored(t) ==
  IF LastDayOfYear(t.created) THEN [t.created EXCEPT !.year = @ - t.reads] ELSE t.created

IsMoment(c) == IsDate(c.date) /\ IsClock(c.clock) /\ c.seconds \in Nat

\* What a member's history is: it was created, and then changed.
IsHistory(t) ==
  /\ t = [known |-> TRUE, created |-> t.created, reads |-> t.reads, lines |-> t.lines,
          changed |-> t.changed, mine |-> t.mine]
  /\ t.mine \in BOOLEAN
  /\ IsDate(t.created) /\ IsMoment(t.changed)
  /\ t.reads \in 0 .. MaxReads /\ t.lines \in Nat
  /\ t.created.year > 1900 + MaxReads
  /\ t.created.year <= t.changed.date.year
  /\ t.changed.date.year <= now.date.year

\* An entry with user data is what AddMemStats packs of the history.
PackedAs(e, t) ==
  /\ e.create_century = CenturyOf(Stored(t))
  /\ e.pd_create_julian = TmToPdjd(Stored(t))
  /\ e.pd_mod_julian = TmToPdjd(t.changed.date)
  /\ e.pd_mod_time = [i \in 1 .. 3 |-> DToPd(t.changed.clock[i], FALSE)]
  /\ NumLines(e) = t.lines

ChangedAs(s, t) ==
  LET stored == IF LastDayOfYear(t.created) THEN t.created.year - t.reads + 1
                                                  ELSE t.created.year
  IN  IF CenturyOf([year |-> stored]) = CenturyOf(t.changed.date)
         /\ ~LastDayOfYear(t.changed.date)
        THEN s.changed = Mktime(t.changed.date, t.changed.clock)
        ELSE s.changed.date.year < t.changed.date.year

ToldAs(s, t) ==
  /\ s.ispf_stats
  /\ s.created.date = Stored(t)
  /\ s.lines = t.lines
  /\ t.reads > 0 => ChangedAs(s, t)

\* What the struct tells beside the statistics, for what was read.
ReadAs(s, t, r) ==
  /\ r.ext_attr =>
       s.has_ext /\ s.ext_changed \in t.changed.seconds - 2 .. t.changed.seconds
  /\ r.cleared => (s.has_ext <=> r.ext_attr) /\ (s.ispf_stats <=> r.user_data = "full")
  /\ r.user_data = "short" => ~s.ispf_stats

IsStruct(s) ==
  /\ s = [known |-> TRUE, ispf_stats |-> s.ispf_stats, has_ext |-> s.has_ext,
          lines |-> s.lines, created |-> s.created, changed |-> s.changed,
          ext_changed |-> s.ext_changed]
  /\ s.ispf_stats \in BOOLEAN /\ s.has_ext \in BOOLEAN

Struct(bit, ext, lines, created, changed, time) ==
  [known |-> TRUE, ispf_stats |-> bit, has_ext |-> ext, lines |-> lines, created |-> created,
   changed |-> changed, ext_changed |-> time]

NowInv == IsMoment(now) /\ now.date.year > 1900 + MaxReads

EntryInv ==
  entry.known =>
    /\ IsHistory(truth)
    /\ entry.ext_attr \in BOOLEAN /\ entry.user_data \in {"none", "short", "full"}
    /\ entry.timestamp = TodUnits(truth.changed.seconds)
    /\ entry.user_data = "full" /\ truth.mine => PackedAs(entry, truth)

MstatInv ==
  mstat.known =>
    /\ IsStruct(mstat)
    /\ mstat.ispf_stats => told.known
    /\ told.known => /\ IsHistory(told)
                     /\ told.mine => ToldAs(mstat, told)
                     /\ told.reads > 0 => ReadAs(mstat, told, reading)

HistoryInv == NowInv /\ EntryInv /\ MstatInv /\ pdse \in BOOLEAN

LEMMA StoredIsDate ==
  ASSUME NEW t, MaxReads \in Nat, IsHistory(t)
  PROVE  /\ IsDate(Stored(t))
         /\ Stored(t).year \in Nat /\ Stored(t).year <= t.created.year
         /\ LastDayOfYear(Stored(t)) <=> LastDayOfYear(t.created)
         /\ LastDayOfYear(t.created) =>
              Stored(t) = [year |-> t.created.year - t.reads, month |-> 11, day |-> 31]
<1>1. /\ t.created = [year |-> t.created.year, month |-> t.created.month, day |-> t.created.day]
      /\ t.created.year \in Nat /\ t.created.month \in 0 .. 11 /\ t.created.day \in 1 .. 31
  BY DateParts DEF IsHistory
<1>2. t.reads \in 0 .. MaxReads /\ t.created.year > 1900 + MaxReads
  BY DEF IsHistory
<1>3. CASE LastDayOfYear(t.created)
  <2>1. Stored(t) = [t.created EXCEPT !.year = @ - t.reads]
    BY <1>3 DEF Stored
  <2>2. t.created.month = 11 /\ t.created.day = 31
    BY <1>3 DEF LastDayOfYear
  <2>3. Stored(t) = [year |-> t.created.year - t.reads, month |-> 11, day |-> 31]
    BY <1>1, <2>1, <2>2
  <2>4. PICK y \in Nat : y = t.created.year - t.reads /\ y <= t.created.year
    BY <1>1, <1>2
  <2>5. Stored(t) = [year |-> y, month |-> 11, day |-> 31]
    BY <2>3, <2>4
  <2>6. IsDate(Stored(t))
    BY <2>5 DEF IsDate, MonthLength
  <2>7. LastDayOfYear(Stored(t)) /\ Stored(t).year = y
    BY <2>5 DEF LastDayOfYear
  <2>8. QED
    BY <1>3, <2>3, <2>4, <2>6, <2>7
<1>4. CASE ~LastDayOfYear(t.created)
  BY <1>1, <1>4 DEF IsHistory, Stored
<1>5. QED
  BY <1>3, <1>4

\* The day of creation is read as one year less where it is December 31.
LEMMA CreatedIsRead ==
  ASSUME NEW t, NEW e, MaxReads \in Nat, IsHistory(t), PackedAs(e, t),
         NEW next, next = [t EXCEPT !.reads = @ + 1]
  PROVE  SetCreateTime(e).date = Stored(next)
<1> DEFINE d == Stored(t)
           c == CenturyOf([year |-> d.year])
           md == JToMmdd(d.year, MmddToJ(d.year, d.month, d.day))
           back == [year |-> d.year, month |-> md.month, day |-> md.day]
<1>1. /\ IsDate(d) /\ d.year \in Nat
      /\ LastDayOfYear(d) <=> LastDayOfYear(t.created)
      /\ LastDayOfYear(t.created) =>
           d = [year |-> t.created.year - t.reads, month |-> 11, day |-> 31]
  BY StoredIsDate
<1>2. e.pd_create_julian = TmToPdjd(d) /\ e.create_century = c
  BY DEF PackedAs, CenturyOf
<1>3. c \in Int /\ YearIn(d.year, c) = d.year
  <2> HIDE DEF d
  <2>1. PICK y \in Nat : y = d.year
    BY <1>1
  <2>2. c = CenturyOf([year |-> y])
    BY <2>1
  <2> HIDE DEF c
  <2>3. c \in Int /\ YearIn(y, c) = y
    BY <2>2, YearAndCentury
  <2>4. QED
    BY <2>1, <2>3
<1>4. PdjdToTm(TmToPdjd(d), c) = back
  <2> HIDE DEF d
  <2> DEFINE year == YearIn(d.year, c)
             md2(y) == JToMmdd(y, MmddToJ(d.year, d.month, d.day))
  <2> HIDE DEF c
  <2>1. PdjdToTm(TmToPdjd(d), c)
          = [year |-> year, month |-> md2(year).month, day |-> md2(year).day]
    BY <1>1, <1>3, JulianComesBack
  <2>2. year = d.year
    BY <1>3
  <2> HIDE DEF year
  <2>3. QED
    BY <2>1, <2>2
<1>5. Normalised(back) =
        IF LastDayOfYear(d) THEN [year |-> d.year - 1, month |-> 11, day |-> 31] ELSE d
  <2> HIDE DEF d
  <2>1. QED
    BY <1>1, DayComesBack
<1>6. SetCreateTime(e).date = Normalised(back)
  <2> HIDE DEF back, c, d
  <2>1. QED
    BY <1>2, <1>4, Midnight DEF SetCreateTime
<1>7. next.created = t.created /\ next.reads = t.reads + 1
  BY DEF IsHistory
<1>8. CASE LastDayOfYear(t.created)
  <2>1. PICK y \in Nat, n \in Nat : y = t.created.year /\ n = t.reads
    BY DateParts DEF IsHistory
  <2>2. d = [year |-> y - n, month |-> 11, day |-> 31] /\ LastDayOfYear(d)
    BY <1>1, <1>8, <2>1
  <2>3. (y - n) - 1 = y - (n + 1)
    BY <2>1
  <2>4. Normalised(back) = [year |-> y - (n + 1), month |-> 11, day |-> 31]
    BY <1>5, <2>2, <2>3
  <2>5. Stored(next) = [t.created EXCEPT !.year = @ - (n + 1)]
    BY <1>7, <1>8, <2>1 DEF Stored
  <2>6. t.created = [year |-> y, month |-> 11, day |-> 31]
    BY <1>8, <2>1, DateParts DEF IsHistory, LastDayOfYear
  <2>7. Stored(next) = [year |-> y - (n + 1), month |-> 11, day |-> 31]
    BY <2>5, <2>6
  <2>8. QED
    BY <1>6, <2>4, <2>7
<1>9. CASE ~LastDayOfYear(t.created)
  <2>1. d = t.created /\ Stored(next) = t.created
    BY <1>7, <1>9 DEF Stored
  <2>2. QED
    BY <1>1, <1>5, <1>6, <1>9, <2>1
<1>10. QED
  BY <1>8, <1>9

LEMMA ClockIsRead ==
  ASSUME NEW hms, IsClock(hms), NEW pd, pd = [i \in 1 .. 3 |-> DToPd(hms[i], FALSE)]
  PROVE  [i \in 1 .. 3 |-> PdToD(pd[i])] = hms
<1>1. hms \in [1 .. 3 -> 0 .. 60]
  BY DEF IsClock
<1>2. \A i \in 1 .. 3 : hms[i] \in 0 .. 99
  BY <1>1
<1>3. \A i \in 1 .. 3 : PdToD(pd[i]) = hms[i]
  BY <1>2, PackedDigits
<1>4. QED
  BY <1>1, <1>3

\* The change is read as it was, or in an earlier year.
LEMMA ChangedIsRead ==
  ASSUME NEW t, NEW e, MaxReads \in Nat, IsHistory(t), PackedAs(e, t),
         NEW next, next = [t EXCEPT !.reads = @ + 1],
         NEW s, s.changed = SetModTime(e)
  PROVE  ChangedAs(s, next)
<1> DEFINE d == t.changed.date
           k == CenturyOf([year |-> Stored(t).year])
           y == YearIn(d.year, k)
           md(x) == JToMmdd(x, MmddToJ(d.year, d.month, d.day))
           back(x) == [year |-> x, month |-> md(x).month, day |-> md(x).day]
<1>1. /\ IsDate(d) /\ d.year \in Nat /\ IsClock(t.changed.clock)
      /\ Stored(t).year \in Nat /\ Stored(t).year <= d.year
  <2>1. IsDate(d) /\ IsClock(t.changed.clock) /\ t.created.year <= d.year
        /\ IsDate(t.created)
    BY DEF IsHistory, IsMoment
  <2>2. d.year \in Nat /\ t.created.year \in Nat
    BY <2>1, DateParts
  <2>3. Stored(t).year \in Nat /\ Stored(t).year <= t.created.year
    BY StoredIsDate
  <2>4. Stored(t).year <= d.year
    BY <2>1, <2>2, <2>3
  <2>5. QED
    BY <2>1, <2>2, <2>3, <2>4
<1>2. PICK z \in Nat, x \in Nat : z = d.year /\ x = Stored(t).year /\ x <= z
  BY <1>1
<1>3. PICK cz \in Int, cx \in Int :
        /\ cz = CenturyOf([year |-> z]) /\ cx = CenturyOf([year |-> x])
        /\ YearIn(z, cz) = z /\ cx <= cz
  BY <1>2, YearAndCentury
<1>4. k = cx /\ CenturyOf(d) = cz
  <2>1. k = cx
    BY <1>2, <1>3
  <2>2. CenturyOf(d) = cz
    BY <1>2, <1>3 DEF CenturyOf
  <2>3. QED
    BY <2>1, <2>2
<1>5. y = YearIn(z, cx)
  BY <1>2, <1>4
<1>6. y \in Int /\ (cx = cz => y = z) /\ (cx # cz => y < z)
  BY <1>3, <1>5 DEF YearIn
<1>7. s.changed = Mktime(back(y), t.changed.clock)
  <2>1. e.create_century = k /\ e.pd_mod_julian = TmToPdjd(d)
        /\ e.pd_mod_time = [i \in 1 .. 3 |-> DToPd(t.changed.clock[i], FALSE)]
    BY DEF PackedAs, CenturyOf
  <2>2. [i \in 1 .. 3 |-> PdToD(e.pd_mod_time[i])] = t.changed.clock
    BY <1>1, <2>1, ClockIsRead
  <2>3. PdjdToTm(TmToPdjd(d), k) = back(y)
    <3> HIDE DEF d
    <3>1. k \in Int
      BY <1>4
    <3> HIDE DEF k
    <3>2. QED
      BY <1>1, <3>1, JulianComesBack
  <2> HIDE DEF back, d, k, y
  <2>4. QED
    BY <2>1, <2>2, <2>3 DEF SetModTime
<1>8. LET stored == IF LastDayOfYear(next.created) THEN next.created.year - next.reads + 1
                                                         ELSE next.created.year
      IN  stored = x
  <2>1. next.created = t.created /\ next.reads = t.reads + 1
    BY DEF IsHistory
  <2>2. PICK cy \in Nat, n \in Nat : cy = t.created.year /\ n = t.reads
    BY DateParts DEF IsHistory
  <2>3. cy - (n + 1) + 1 = cy - n
    BY <2>2
  <2>4. LastDayOfYear(t.created) => x = cy - n
    BY <1>2, <2>2, StoredIsDate
  <2>5. ~LastDayOfYear(t.created) => x = cy
    BY <1>2, <2>2 DEF Stored
  <2>6. QED
    BY <2>1, <2>2, <2>3, <2>4, <2>5
<1>9. next.changed = t.changed
  BY DEF IsHistory
<1> DEFINE n == Normalised(back(y))
<1>10. n.year \in {y, y - 1} /\ s.changed.date.year = n.year
  <2> HIDE DEF y, md
  <2>1. QED
    BY <1>6, <1>7, MktimeYear
<1>11. cx = cz => n = IF LastDayOfYear(d)
                        THEN [year |-> z - 1, month |-> 11, day |-> 31] ELSE d
  <2> HIDE DEF d
  <2>1. SUFFICES ASSUME cx = cz
                 PROVE  n = IF LastDayOfYear(d)
                              THEN [year |-> z - 1, month |-> 11, day |-> 31] ELSE d
    OBVIOUS
  <2>2. y = d.year
    BY <1>2, <1>6, <2>1
  <2>3. Normalised(back(d.year)) =
          IF LastDayOfYear(d) THEN [year |-> d.year - 1, month |-> 11, day |-> 31] ELSE d
    BY <1>1, DayComesBack
  <2> HIDE DEF y, back
  <2>4. QED
    BY <1>2, <2>2, <2>3
<1>12. ASSUME cx = cz, ~LastDayOfYear(d)
       PROVE  s.changed = Mktime(d, t.changed.clock)
  <2>1. n = d
    BY <1>11, <1>12
  <2>2. d.day # 0
    BY <1>1, DateParts
  <2>3. Normalised(d) = d
    BY <2>2 DEF Normalised
  <2> HIDE DEF back, d, y
  <2>4. QED
    BY <1>7, <2>1, <2>3 DEF Mktime
<1>13. ASSUME ~(cx = cz /\ ~LastDayOfYear(d))
       PROVE  s.changed.date.year < d.year
  <2>1. CASE cx # cz
    <3> HIDE DEF n, y
    <3>1. QED
      BY <1>2, <1>6, <1>10, <2>1
  <2>2. CASE cx = cz /\ LastDayOfYear(d)
    <3>1. n.year = z - 1
      BY <1>11, <2>2
    <3> HIDE DEF n
    <3>2. QED
      BY <1>2, <1>10, <3>1
  <2>3. QED
    BY <1>13, <2>1, <2>2
<1>14. QED
  <2>1. CenturyOf([year |-> x]) = CenturyOf(next.changed.date) <=> cx = cz
    BY <1>3, <1>4, <1>9
  <2>2. next.changed.date = d /\ next.changed.clock = t.changed.clock
    BY <1>9
  <2> HIDE DEF d
  <2>3. QED
    BY <1>8, <1>12, <1>13, <2>1, <2>2 DEF ChangedAs

\* What a history says of an mstat and of an entry depends on the day and on the
\* summer only, and no step changes the latter.
LEMMA SummerStays ==
  ASSUME [StatsNext]_statsVars
  PROVE  summer' = summer /\ pdse' = pdse
BY DEF StatsNext, statsVars, CreateMstat, PartialMstat, ReadMemdirEntry,
       WriteMemdirEntry, StoredByOthers, TimePasses

LEMMA Unread ==
  ASSUME NEW t, IsDate(t.created), t.reads = 0
  PROVE  Stored(t) = t.created
<1>1. t.created = [year |-> t.created.year, month |-> t.created.month, day |-> t.created.day]
      /\ t.created.year \in Nat
  BY DateParts
<1>2. t.created.year - 0 = t.created.year
  BY <1>1
<1>3. [t.created EXCEPT !.year = @ - 0] = t.created
  BY <1>1, <1>2
<1>4. QED
  BY <1>3 DEF Stored

LEMMA HistoryInit ==
  ASSUME StatsInit
  PROVE  HistoryInv
<1>1. PICK d \in FirstDays, t \in Times :
        now = [date |-> d, clock |-> t.clock, seconds |-> t.seconds]
  BY DEF StatsInit
<1>2. IsMoment(now)
  BY <1>1, StatsAssumption DEF IsMoment
<1>3. now.date.year > 1900 + MaxReads
  BY <1>1, StatsAssumption
<1>4. ~entry.known /\ ~mstat.known
  BY DEF StatsInit, Nothing
<1>5. QED
  BY <1>2, <1>3, <1>4 DEF HistoryInv, NowInv, EntryInv, MstatInv, StatsInit

\* A history of the day on which a member was stored for the first time.
LEMMA NewHistory ==
  ASSUME IsMoment(now), now.date.year > 1900 + MaxReads,
         NEW count \in Nat, NEW t, t = NewMember(count)
  PROVE  /\ IsHistory(t) /\ Stored(t) = now.date
         /\ t.known /\ t.mine /\ t.reads = 0 /\ t.lines = count /\ t.changed = now
<1>1. t.known /\ t.mine /\ t.created = now.date /\ t.reads = 0 /\ t.lines = count /\ t.changed = now
  BY DEF NewMember
<1>2. /\ t = [known |-> TRUE, created |-> t.created, reads |-> t.reads, lines |-> t.lines,
              changed |-> t.changed, mine |-> t.mine]
      /\ t.mine \in BOOLEAN
  BY DEF NewMember
<1>3. IsDate(now.date) /\ now.date.year \in Nat
  BY DateParts DEF IsMoment
<1>4. MaxReads \in Nat
  BY StatsAssumption
<1>5. IsHistory(t)
  BY <1>1, <1>2, <1>3, <1>4 DEF IsHistory
<1>6. QED
  BY <1>1, <1>3, <1>5, Unread

\* An entry is packed of the history it is stored with.
LEMMA StatsArePacked ==
  ASSUME NEW stat, NEW t, t.changed = now,
         stat.ispf_stats => stat.created.date = Stored(t) /\ stat.lines = t.lines,
         ~stat.ispf_stats => Stored(t) = now.date /\ t.lines = 0
  PROVE  LET e == AddMemStats(stat)
         IN  PackedAs(e, t)
<1> DEFINE e == AddMemStats(stat)
           created == IF stat.ispf_stats THEN stat.created.date ELSE now.date
           count   == IF stat.ispf_stats THEN stat.lines ELSE 0
<1>1. created = Stored(t) /\ count = t.lines
  OBVIOUS
<1>2. /\ e.create_century = CenturyOf(created)
      /\ e.pd_create_julian = TmToPdjd(created)
      /\ e.pd_mod_julian = TmToPdjd(now.date)
      /\ e.pd_mod_time = [i \in 1 .. 3 |-> DToPd(now.clock[i], FALSE)]
      /\ e.extended = TRUE
      /\ e.full_num_lines = count
      /\ e.timestamp = TodUnits(now.seconds)
  BY DEF AddMemStats
<1>3. NumLines(e) = count
  BY <1>2 DEF NumLines
<1> HIDE DEF e, created, count
<1>4. QED
  BY <1>1, <1>2, <1>3 DEF PackedAs, e

\* A history stays one while time passes.
LEMMA HistoryStays ==
  ASSUME NowInv, now' = now \/ now'.date.year > now.date.year, now'.date.year \in Nat,
         NEW t, IsHistory(t)
  PROVE  IsHistory(t)'
<1>1. now.date.year \in Nat
  BY DateParts DEF NowInv, IsMoment
<1>2. t.changed.date.year \in Nat
  BY DateParts DEF IsHistory, IsMoment
<1>3. t.changed.date.year <= now'.date.year
  BY <1>1, <1>2 DEF IsHistory
<1>4. QED
  BY <1>3 DEF IsHistory, IsMoment

LEMMA EntryStays ==
  ASSUME NowInv, EntryInv, now' = now \/ now'.date.year > now.date.year, now'.date.year \in Nat,
         UNCHANGED <<entry, truth>>
  PROVE  EntryInv'
<1>1. SUFFICES ASSUME entry.known PROVE EntryInv'
  BY DEF EntryInv
<1>2. PICK t, e : t = truth /\ e = entry
  OBVIOUS
<1>3. /\ IsHistory(t) /\ e.timestamp = TodUnits(t.changed.seconds)
      /\ e.ext_attr \in BOOLEAN /\ e.user_data \in {"none", "short", "full"}
      /\ e.user_data = "full" /\ t.mine => PackedAs(e, t)
  BY <1>1, <1>2 DEF EntryInv
<1>4. IsHistory(t)'
  BY <1>3, HistoryStays
<1>5. IsHistory(truth)'
  BY <1>2, <1>4 DEF IsHistory, IsMoment
<1>6. QED
  BY <1>2, <1>3, <1>5 DEF EntryInv, PackedAs

LEMMA MstatStays ==
  ASSUME NowInv, MstatInv, now' = now \/ now'.date.year > now.date.year, now'.date.year \in Nat,
         UNCHANGED <<mstat, told, reading, summer>>
  PROVE  MstatInv'
<1>1. SUFFICES ASSUME mstat.known /\ told.known PROVE MstatInv'
  BY DEF MstatInv, IsStruct
<1>2. PICK t : t = told
  OBVIOUS
<1>3. IsStruct(mstat) /\ IsHistory(t) /\ (told.mine => ToldAs(mstat, told))
      /\ (told.reads > 0 => ReadAs(mstat, told, reading))
  BY <1>1, <1>2 DEF MstatInv
<1>4. IsHistory(t)'
  BY <1>3, HistoryStays
<1>5. IsHistory(told)'
  BY <1>2, <1>4 DEF IsHistory, IsMoment
<1>6. (told.mine => ToldAs(mstat, told))'
  BY <1>3 DEF ToldAs, ChangedAs, Stored, Mktime
<1>7. IsStruct(mstat)' /\ (told.reads > 0 => ReadAs(mstat, told, reading))'
  BY <1>3 DEF IsStruct, ReadAs
<1>8. QED
  BY <1>1, <1>5, <1>6, <1>7 DEF MstatInv

LEMMA CreateMstatKeeps ==
  ASSUME HistoryInv, CreateMstat
  PROVE  HistoryInv'
<1>1. PICK count \in Lines :
        /\ mstat' = [known |-> TRUE, ispf_stats |-> TRUE, has_ext |-> TRUE, lines |-> count,
                     created |-> [date |-> now.date, clock |-> now.clock],
                     changed |-> [date |-> now.date, clock |-> now.clock],
                     ext_changed |-> now.seconds]
        /\ told' = NewMember(count)
  BY DEF CreateMstat
<1>2. UNCHANGED <<summer, pdse, now, entry, truth, reading>>
  BY DEF CreateMstat
<1>3. NowInv /\ EntryInv /\ pdse \in BOOLEAN /\ now.date.year \in Nat /\ count \in Nat
  BY DateParts, StatsAssumption DEF HistoryInv, NowInv, IsMoment
<1>4. NowInv' /\ EntryInv'
  BY <1>2, <1>3, EntryStays DEF NowInv, IsMoment
<1>5. PICK t, s : t = told' /\ s = mstat'
  OBVIOUS
<1>6. /\ IsHistory(t) /\ Stored(t) = now.date
      /\ t.known /\ t.mine /\ t.reads = 0 /\ t.lines = count
  BY <1>1, <1>3, <1>5, NewHistory DEF NowInv
<1>7. IsHistory(told)'
  BY <1>2, <1>5, <1>6 DEF IsHistory, IsMoment
<1>8. /\ s.known /\ s.ispf_stats /\ s.has_ext /\ s.lines = count /\ s.created.date = now.date
      /\ IsStruct(s)
  BY <1>1, <1>5 DEF IsStruct
<1>9. ToldAs(s, t)
  BY <1>6, <1>8 DEF ToldAs
<1>10. ToldAs(mstat, told)' /\ IsStruct(mstat)'
  BY <1>5, <1>6, <1>8, <1>9 DEF ToldAs, Stored, IsStruct
<1>11. QED
  BY <1>2, <1>3, <1>4, <1>5, <1>6, <1>7, <1>10 DEF HistoryInv, MstatInv

LEMMA PartialMstatKeeps ==
  ASSUME HistoryInv, PartialMstat
  PROVE  HistoryInv'
<1>1. /\ UNCHANGED <<summer, pdse, now, entry, truth, reading>>
      /\ mstat' = Cleared /\ told' = Nothing
  BY DEF PartialMstat
<1>2. NowInv /\ EntryInv /\ pdse \in BOOLEAN /\ now.date.year \in Nat
  BY DateParts DEF HistoryInv, NowInv, IsMoment
<1>3. NowInv' /\ EntryInv'
  BY <1>1, <1>2, EntryStays DEF NowInv, IsMoment
<1>4. IsStruct(Cleared) /\ ~Cleared.ispf_stats /\ ~Nothing.known
  BY DEF IsStruct, Cleared, Nothing
<1>5. IsStruct(mstat)' /\ ~mstat'.ispf_stats /\ ~told'.known
  BY <1>1, <1>4 DEF IsStruct
<1>6. QED
  BY <1>1, <1>2, <1>3, <1>5 DEF HistoryInv, MstatInv

\* The structs that are passed, and what smde_to_mstat makes of them.
LEMMA PassedStructs ==
  ASSUME MstatInv, NEW stat \in Passed
  PROVE  IsStruct(stat)
<1>1. CASE stat \in Storage
  BY <1>1 DEF Storage, IsStruct
<1>2. CASE mstat.known /\ stat = mstat
  BY <1>2 DEF MstatInv
<1>3. QED
  BY <1>1, <1>2 DEF Passed

LEMMA StructFields ==
  ASSUME NEW b \in BOOLEAN, NEW x \in BOOLEAN, NEW n, NEW c, NEW m, NEW e
  PROVE  /\ IsStruct(Struct(b, x, n, c, m, e))
         /\ Struct(b, x, n, c, m, e).ispf_stats = b
         /\ Struct(b, x, n, c, m, e).has_ext = x
         /\ Struct(b, x, n, c, m, e).lines = n /\ Struct(b, x, n, c, m, e).created = c
         /\ Struct(b, x, n, c, m, e).changed = m
         /\ Struct(b, x, n, c, m, e).ext_changed = e
<1>1. PICK s : s = Struct(b, x, n, c, m, e)
  OBVIOUS
<1>2. /\ s.ispf_stats = b /\ s.has_ext = x
      /\ s.lines = n /\ s.created = c /\ s.changed = m /\ s.ext_changed = e
  BY <1>1, ZenonT(30) DEF Struct
<1>3. s.ispf_stats \in BOOLEAN /\ s.has_ext \in BOOLEAN
  BY <1>2
<1>4. s = [known |-> TRUE, ispf_stats |-> s.ispf_stats, has_ext |-> s.has_ext,
           lines |-> s.lines, created |-> s.created, changed |-> s.changed,
           ext_changed |-> s.ext_changed]
  BY <1>1, <1>2, ZenonT(30) DEF Struct
<1>5. QED
  BY <1>1, <1>2, <1>3, <1>4 DEF IsStruct

LEMMA StructOf ==
  ASSUME NEW s, IsStruct(s)
  PROVE  \E b, x, n, c, m, e :
           b \in BOOLEAN /\ x \in BOOLEAN /\ s = Struct(b, x, n, c, m, e)
  BY DEF IsStruct, Struct

LEMMA Filled ==
  ASSUME NEW stat, IsStruct(stat), NEW id, NEW time,
         id.ext_attr \in BOOLEAN, id.user_data \in {"none", "short", "full"},
         NEW s, s = SmdeToMstat(id, stat, time)
  PROVE  /\ IsStruct(s)
         /\ s.has_ext <=> id.ext_attr \/ stat.has_ext
         /\ id.ext_attr => s.ext_changed = time
         /\ id.user_data = "none" => s.ispf_stats = stat.ispf_stats
         /\ id.user_data = "short" => ~s.ispf_stats
         /\ id.user_data = "full" => /\ s.ispf_stats /\ s.lines = NumLines(id)
                                     /\ s.created = SetCreateTime(id)
                                     /\ s.changed = SetModTime(id)
<1>1. PICK b, x, n, c, m, e :
        b \in BOOLEAN /\ x \in BOOLEAN /\ stat = Struct(b, x, n, c, m, e)
  BY StructOf
<1>2. stat.ispf_stats = b /\ stat.has_ext = x
  BY <1>1, StructFields
<1>3. PICK ext : ext = IF id.ext_attr THEN CopyExtendedAttributesIntoMstat(stat, time) ELSE stat
  OBVIOUS
<1>4. \E x2, e2 : /\ x2 \in BOOLEAN /\ ext = Struct(b, x2, n, c, m, e2)
                  /\ x2 <=> id.ext_attr \/ x
                  /\ id.ext_attr => e2 = time
  <2>1. CASE id.ext_attr
    <3>1. ext = [stat EXCEPT !.has_ext = TRUE, !.ext_changed = time]
      BY <1>3, <2>1 DEF CopyExtendedAttributesIntoMstat
    <3>2. ext = Struct(b, TRUE, n, c, m, time)
      BY <1>1, <3>1 DEF Struct
    <3>3. QED
      BY <2>1, <3>2
  <2>2. CASE ~id.ext_attr
    BY <1>1, <1>3, <2>2
  <2>3. QED
    BY <2>1, <2>2
<1>5. PICK x2, e2 : /\ x2 \in BOOLEAN /\ ext = Struct(b, x2, n, c, m, e2)
                    /\ x2 <=> id.ext_attr \/ x
                    /\ id.ext_attr => e2 = time
  BY <1>4
<1>6. s = IF id.user_data = "none" THEN ext ELSE CopyIspfStatsIntoMstat(ext, id)
  BY <1>3 DEF SmdeToMstat
<1>7. PICK l, cr, ch : l = NumLines(id) /\ cr = SetCreateTime(id) /\ ch = SetModTime(id)
  OBVIOUS
<1>8. \/ id.user_data = "none"  /\ s = Struct(b, x2, n, c, m, e2)
      \/ id.user_data = "short" /\ s = Struct(FALSE, x2, n, c, m, e2)
      \/ id.user_data = "full"  /\ s = Struct(TRUE, x2, l, cr, ch, e2)
  <2>1. CASE id.user_data = "none"
    BY <1>5, <1>6, <2>1
  <2>2. CASE id.user_data = "short"
    <3>1. s = [ext EXCEPT !.ispf_stats = FALSE]
      BY <1>6, <2>2 DEF CopyIspfStatsIntoMstat
    <3>2. s = Struct(FALSE, x2, n, c, m, e2)
      BY <1>5, <3>1 DEF Struct
    <3>3. QED
      BY <2>2, <3>2
  <2>3. CASE id.user_data = "full"
    <3>1. s = [ext EXCEPT !.ispf_stats = TRUE, !.lines = l, !.created = cr, !.changed = ch]
      BY <1>6, <1>7, <2>3 DEF CopyIspfStatsIntoMstat
    <3>2. s = Struct(TRUE, x2, l, cr, ch, e2)
      BY <1>5, <3>1 DEF Struct
    <3>3. QED
      BY <2>3, <3>2
  <2>4. QED
    BY <2>1, <2>2, <2>3
<1>9. PICK b2, l2, cr2, ch2 :
        /\ b2 \in BOOLEAN /\ s = Struct(b2, x2, l2, cr2, ch2, e2)
        /\ id.user_data = "none" => b2 = b
        /\ id.user_data = "short" => ~b2
        /\ id.user_data = "full" => b2 /\ l2 = l /\ cr2 = cr /\ ch2 = ch
  <2>1. CASE id.user_data = "none" /\ s = Struct(b, x2, n, c, m, e2)
    BY <1>1, <2>1
  <2>2. CASE id.user_data = "short" /\ s = Struct(FALSE, x2, n, c, m, e2)
    BY <2>2
  <2>3. CASE id.user_data = "full" /\ s = Struct(TRUE, x2, l, cr, ch, e2)
    BY <2>3
  <2>4. QED
    BY <1>8, <2>1, <2>2, <2>3
<1>10. /\ IsStruct(s)
       /\ s.ispf_stats = b2 /\ s.has_ext = x2
  BY <1>5, <1>9, StructFields
<1>11. s.lines = l2 /\ s.created = cr2 /\ s.changed = ch2 /\ s.ext_changed = e2
  BY <1>5, <1>9, StructFields
<1>12. s.has_ext <=> id.ext_attr \/ stat.has_ext
  BY <1>2, <1>5, <1>10
<1>13. /\ id.user_data = "none" => s.ispf_stats = stat.ispf_stats
       /\ id.user_data = "short" => ~s.ispf_stats
       /\ id.user_data = "full" => s.ispf_stats
  BY <1>2, <1>9, <1>10
<1>14. QED
  BY <1>5, <1>7, <1>9, <1>10, <1>11, <1>12, <1>13

LEMMA ReadMemdirEntryKeeps ==
  ASSUME HistoryInv, ReadMemdirEntry
  PROVE  HistoryInv'
<1>1. /\ entry.known /\ truth.reads < MaxReads
      /\ told' = [truth EXCEPT !.reads = @ + 1, !.mine = @ /\ entry.user_data = "full"]
      /\ UNCHANGED <<summer, pdse, now, entry, truth>>
  BY DEF ReadMemdirEntry
<1>2. /\ NowInv /\ EntryInv /\ MstatInv /\ pdse \in BOOLEAN
      /\ now.date.year \in Nat /\ MaxReads \in Nat
  BY DateParts, StatsAssumption DEF HistoryInv, NowInv, IsMoment
<1>3. NowInv' /\ EntryInv'
  BY <1>1, <1>2, EntryStays DEF NowInv, IsMoment
<1>4. PICK t, e, next : t = truth /\ e = entry /\ next = told'
  OBVIOUS
<1>5. /\ IsHistory(t) /\ e.timestamp = TodUnits(t.changed.seconds)
      /\ e.ext_attr \in BOOLEAN /\ e.user_data \in {"none", "short", "full"}
      /\ e.user_data = "full" /\ t.mine => PackedAs(e, t)
  BY <1>1, <1>2, <1>4 DEF EntryInv
<1>6. PICK mine \in BOOLEAN : mine = (t.mine /\ e.user_data = "full")
  OBVIOUS
<1>7. /\ next = [known |-> TRUE, created |-> t.created, reads |-> t.reads + 1,
                 lines |-> t.lines, changed |-> t.changed, mine |-> mine]
      /\ t.reads < MaxReads
  <2>1. PICK f2, f3, f4, f5, f6 : t = [known |-> TRUE, created |-> f2, reads |-> f3,
                                       lines |-> f4, changed |-> f5, mine |-> f6]
    BY <1>5 DEF IsHistory
  <2>2. next = [t EXCEPT !.reads = t.reads + 1, !.mine = mine]
    BY <1>1, <1>4, <1>6
  <2>3. next = [known |-> TRUE, created |-> f2, reads |-> f3 + 1, lines |-> f4, changed |-> f5,
                mine |-> mine]
    BY <2>1, <2>2
  <2>4. t.created = f2 /\ t.reads = f3 /\ t.lines = f4 /\ t.changed = f5
    BY <2>1
  <2>5. t.reads < MaxReads
    BY <1>1, <1>4
  <2>6. QED
    BY <2>3, <2>4, <2>5
<1>8. /\ next.known /\ next.created = t.created /\ next.lines = t.lines
      /\ next.changed = t.changed /\ next.reads = t.reads + 1 /\ next.mine = mine
  BY <1>7
<1>9. IsHistory(next)
  <2>1. next = [known |-> TRUE, created |-> next.created, reads |-> next.reads,
                lines |-> next.lines, changed |-> next.changed, mine |-> next.mine]
    BY <1>7
  <2>2. next.reads \in 0 .. MaxReads
    BY <1>2, <1>5, <1>7, <1>8 DEF IsHistory
  <2>3. QED
    BY <1>5, <1>8, <2>1, <2>2 DEF IsHistory
<1>10. IsHistory(told)'
  BY <1>1, <1>4, <1>9 DEF IsHistory, IsMoment
<1>11. PICK stat \in Passed, time \in TodToTime(e.timestamp) :
         /\ mstat' = SmdeToMstat(e, stat, time)
         /\ reading' = [user_data |-> e.user_data, ext_attr |-> e.ext_attr,
                        cleared |-> stat = Cleared]
  BY <1>4 DEF ReadMemdirEntry
<1>12. PICK s, r : s = mstat' /\ r = reading'
  OBVIOUS
<1>13. IsStruct(stat)
  BY <1>2, PassedStructs
<1>14. /\ IsStruct(s)
       /\ s.has_ext <=> e.ext_attr \/ stat.has_ext
       /\ e.ext_attr => s.ext_changed = time
       /\ e.user_data = "none" => s.ispf_stats = stat.ispf_stats
       /\ e.user_data = "short" => ~s.ispf_stats
       /\ e.user_data = "full" => /\ s.ispf_stats /\ s.lines = NumLines(e)
                                  /\ s.created = SetCreateTime(e)
                                  /\ s.changed = SetModTime(e)
  BY <1>5, <1>11, <1>12, <1>13, Filled
<1>15. ASSUME mine PROVE ToldAs(s, next)
  <2>1. e.user_data = "full" /\ PackedAs(e, t)
    BY <1>5, <1>6, <1>15
  <2>2. PICK old : old = [next EXCEPT !.mine = t.mine]
    OBVIOUS
  <2>3. old = [t EXCEPT !.reads = @ + 1]
    <3>1. PICK f2, f3, f4, f5, f6 : t = [known |-> TRUE, created |-> f2, reads |-> f3,
                                         lines |-> f4, changed |-> f5, mine |-> f6]
      BY <1>5 DEF IsHistory
    <3>2. next = [known |-> TRUE, created |-> f2, reads |-> f3 + 1, lines |-> f4,
                  changed |-> f5, mine |-> mine]
      BY <1>7, <3>1
    <3>3. old = [known |-> TRUE, created |-> f2, reads |-> f3 + 1, lines |-> f4,
                 changed |-> f5, mine |-> f6]
      BY <2>2, <3>1, <3>2
    <3>4. PICK again : again = [t EXCEPT !.reads = @ + 1]
      OBVIOUS
    <3>5. again = [known |-> TRUE, created |-> f2, reads |-> f3 + 1, lines |-> f4,
                   changed |-> f5, mine |-> f6]
      BY <3>1, <3>4
    <3>6. QED
      BY <3>3, <3>4, <3>5
  <2>4. old.created = next.created /\ old.reads = next.reads /\ old.changed = next.changed
    BY <1>7, <2>2
  <2>5. s.created.date = Stored(next)
    <3>1. SetCreateTime(e).date = Stored(old)
      BY <1>2, <1>5, <2>1, <2>3, CreatedIsRead
    <3>2. Stored(old) = Stored(next)
      BY <2>4 DEF Stored
    <3>3. QED
      BY <1>14, <2>1, <3>1, <3>2
  <2>6. ChangedAs(s, next)
    <3>1. ChangedAs(s, old)
      BY <1>2, <1>5, <1>14, <2>1, <2>3, ChangedIsRead
    <3>2. QED
      BY <2>4, <3>1 DEF ChangedAs
  <2>7. s.ispf_stats /\ s.lines = next.lines
    BY <1>8, <1>14, <2>1 DEF PackedAs
  <2>8. QED
    BY <2>5, <2>6, <2>7 DEF ToldAs
<1>16. ReadAs(s, next, r)
  <2>1. /\ r.user_data = e.user_data /\ r.ext_attr = e.ext_attr
        /\ r.cleared => stat = Cleared
    BY <1>11, <1>12, ZenonT(30)
  <2>2. r.ext_attr =>
          s.has_ext /\ s.ext_changed \in next.changed.seconds - 2 .. next.changed.seconds
    <3>1. t.changed.seconds \in Nat
      BY <1>5 DEF IsHistory, IsMoment
    <3>2. TodToTime(TodUnits(t.changed.seconds))
            \subseteq t.changed.seconds - 2 .. t.changed.seconds
      BY <3>1, TimestampIsTold
    <3>3. time \in t.changed.seconds - 2 .. t.changed.seconds
      BY <1>5, <1>11, <3>2
    <3>4. QED
      BY <1>8, <1>14, <2>1, <3>3
  <2>3. r.cleared => ~stat.has_ext /\ ~stat.ispf_stats
    BY <2>1 DEF Cleared
  <2>4. s.has_ext \in BOOLEAN /\ s.ispf_stats \in BOOLEAN
    BY <1>14 DEF IsStruct
  <2>5. r.cleared => (s.has_ext <=> r.ext_attr)
    BY <1>5, <1>14, <2>1, <2>3, <2>4
  <2>6. r.cleared => (s.ispf_stats <=> r.user_data = "full")
    BY <1>5, <1>14, <2>1, <2>3, <2>4
  <2>7. r.user_data = "short" => ~s.ispf_stats
    BY <1>14, <2>1
  <2>8. QED
    BY <2>2, <2>5, <2>6, <2>7 DEF ReadAs
<1>17. ToldAs(s, next) => ToldAs(mstat, told)'
  BY <1>1, <1>4, <1>12 DEF ToldAs, ChangedAs, Stored, Mktime
<1>18. IsStruct(mstat)' /\ ReadAs(mstat, told, reading)'
  BY <1>4, <1>12, <1>14, <1>16 DEF IsStruct, ReadAs
<1>19. QED
  BY <1>1, <1>2, <1>3, <1>4, <1>8, <1>10, <1>15, <1>17, <1>18 DEF HistoryInv, MstatInv

LEMMA WriteMemdirEntryKeeps ==
  ASSUME HistoryInv, WriteMemdirEntry
  PROVE  HistoryInv'
<1>1. /\ mstat.known /\ entry' = AddMemStats(mstat)
      /\ mstat' = Nothing /\ UNCHANGED <<summer, pdse, now>>
      /\ truth' = IF mstat.ispf_stats THEN [told EXCEPT !.changed = now] ELSE NewMember(0)
  BY DEF WriteMemdirEntry
<1>2. NowInv /\ MstatInv /\ pdse \in BOOLEAN /\ IsMoment(now) /\ now.date.year \in Nat
  BY DateParts DEF HistoryInv, NowInv, IsMoment
<1>3. NowInv' /\ MstatInv'
  BY <1>1, <1>2 DEF NowInv, IsMoment, MstatInv, Nothing
<1>4. PICK t : t = truth'
  OBVIOUS
<1>5. ASSUME mstat.ispf_stats
      PROVE  /\ IsHistory(t) /\ t.changed = now
             /\ t.mine => mstat.created.date = Stored(t) /\ mstat.lines = t.lines
  <2>1. /\ IsHistory(told)
        /\ told.mine => mstat.created.date = Stored(told) /\ mstat.lines = told.lines
    BY <1>1, <1>2, <1>5 DEF MstatInv, ToldAs
  <2>2. t = [told EXCEPT !.changed = now]
    BY <1>1, <1>4, <1>5
  <2>3. PICK f2, f3, f4, f5, f6 : told = [known |-> TRUE, created |-> f2, reads |-> f3,
                                          lines |-> f4, changed |-> f5, mine |-> f6]
    BY <2>1 DEF IsHistory
  <2>4. t = [known |-> TRUE, created |-> f2, reads |-> f3, lines |-> f4, changed |-> now,
             mine |-> f6]
    BY <2>2, <2>3
  <2>5. t = [known |-> TRUE, created |-> t.created, reads |-> t.reads, lines |-> t.lines,
             changed |-> t.changed, mine |-> t.mine]
    BY <2>4
  <2>6. /\ t.created = told.created /\ t.reads = told.reads /\ t.lines = told.lines
        /\ t.changed = now /\ t.mine = told.mine
    BY <2>3, <2>4
  <2>7. told.created.year <= now.date.year
    <3>1. told.created.year \in Nat /\ told.changed.date.year \in Nat
      BY <2>1, DateParts DEF IsHistory, IsMoment
    <3>2. QED
      BY <1>2, <2>1, <3>1 DEF IsHistory
  <2>8. IsHistory(t)
    BY <1>2, <2>1, <2>5, <2>6, <2>7 DEF IsHistory
  <2>9. Stored(t) = Stored(told)
    BY <2>6 DEF Stored
  <2>10. QED
    BY <2>1, <2>6, <2>8, <2>9
<1>6. ASSUME ~mstat.ispf_stats
      PROVE  IsHistory(t) /\ t.changed = now /\ Stored(t) = now.date /\ t.lines = 0
  <2>1. t = NewMember(0) /\ 0 \in Nat
    BY <1>1, <1>4, <1>6
  <2>2. QED
    BY <1>2, <2>1, NewHistory DEF NowInv
<1>7. IsHistory(t) /\ t.changed = now
  BY <1>5, <1>6
<1>8. PICK e : e = AddMemStats(mstat)
  OBVIOUS
<1>9. /\ e.user_data = "full" /\ e.ext_attr \in BOOLEAN
      /\ e.timestamp = TodUnits(t.changed.seconds)
  BY <1>2, <1>7, <1>8 DEF AddMemStats
<1>10. t.mine => PackedAs(e, t)
  BY <1>5, <1>6, <1>7, <1>8, StatsArePacked
<1>11. IsHistory(truth)' /\ (truth.mine => PackedAs(entry, truth))'
       /\ (entry.timestamp = TodUnits(truth.changed.seconds))'
       /\ entry'.ext_attr \in BOOLEAN /\ entry'.user_data = "full"
  <2>1. IsHistory(truth)'
    BY <1>1, <1>4, <1>7 DEF IsHistory, IsMoment
  <2>2. (truth.mine => PackedAs(entry, truth))'
    BY <1>1, <1>4, <1>8, <1>10 DEF PackedAs
  <2>3. /\ (entry.timestamp = TodUnits(truth.changed.seconds))'
        /\ entry'.ext_attr \in BOOLEAN /\ entry'.user_data = "full"
    BY <1>1, <1>4, <1>8, <1>9
  <2>4. QED
    BY <2>1, <2>2, <2>3
<1>12. QED
  BY <1>1, <1>2, <1>3, <1>11 DEF HistoryInv, EntryInv

LEMMA StoredByOthersKeeps ==
  ASSUME HistoryInv, StoredByOthers
  PROVE  HistoryInv'
<1>1. UNCHANGED <<summer, pdse, now, mstat, told, reading>>
  BY DEF StoredByOthers
<1>2. PICK count \in Lines, data \in {"none", "short", "full"}, ext \in BOOLEAN :
        /\ entry' = [AddMemStats(Cleared) EXCEPT
                       !.user_data = data, !.ext_attr = ext,
                       !.extended = FALSE, !.num_lines = count]
        /\ truth' = NewMember(count)
  BY DEF StoredByOthers
<1>3. NowInv /\ MstatInv /\ pdse \in BOOLEAN /\ now.date.year \in Nat /\ count \in Nat
  BY DateParts, StatsAssumption DEF HistoryInv, NowInv, IsMoment
<1>4. NowInv' /\ MstatInv'
  BY <1>1, <1>3, MstatStays DEF NowInv, IsMoment
<1>5. PICK t, e, a, z : /\ t = truth' /\ e = entry' /\ a = AddMemStats(Cleared)
                        /\ z = NewMember(0)
  OBVIOUS
<1>6. IsHistory(t) /\ Stored(t) = now.date /\ t.changed = now /\ t.lines = count
  BY <1>2, <1>3, <1>5, NewHistory DEF NowInv
<1>7. z.changed = now /\ Stored(z) = now.date /\ z.lines = 0
  <2>1. 0 \in Nat
    OBVIOUS
  <2>2. QED
    BY <1>3, <1>5, <2>1, NewHistory DEF NowInv
<1>8. PackedAs(a, z) /\ a.timestamp = TodUnits(now.seconds)
  <2>1. PICK stat : stat = Cleared
    OBVIOUS
  <2>2. ~stat.ispf_stats
    BY <2>1 DEF Cleared
  <2>3. PackedAs(a, z)
    BY <1>5, <1>7, <2>1, <2>2, StatsArePacked
  <2>4. a.timestamp = TodUnits(now.seconds)
    BY <1>5 DEF AddMemStats
  <2>5. QED
    BY <2>3, <2>4
<1>9. /\ e.create_century = a.create_century /\ e.pd_create_julian = a.pd_create_julian
      /\ e.pd_mod_julian = a.pd_mod_julian /\ e.pd_mod_time = a.pd_mod_time
      /\ e.timestamp = a.timestamp
      /\ e.extended = FALSE /\ e.num_lines = count
      /\ e.ext_attr = ext /\ e.user_data = data
  BY <1>2, <1>5 DEF AddMemStats
<1>10. PackedAs(e, t)
  <2>1. NumLines(e) = t.lines
    BY <1>6, <1>9 DEF NumLines
  <2>2. QED
    BY <1>6, <1>7, <1>8, <1>9, <2>1 DEF PackedAs
<1>11. e.timestamp = TodUnits(t.changed.seconds)
  BY <1>6, <1>8, <1>9
<1>12. IsHistory(truth)'
  BY <1>1, <1>5, <1>6 DEF IsHistory, IsMoment
<1>13. EntryInv'
  BY <1>5, <1>9, <1>10, <1>11, <1>12 DEF EntryInv, PackedAs
<1>14. QED
  BY <1>1, <1>3, <1>4, <1>13 DEF HistoryInv

LEMMA TimePassesKeeps ==
  ASSUME HistoryInv, TimePasses
  PROVE  HistoryInv'
<1>1. UNCHANGED <<summer, pdse, mstat, entry, told, truth, reading>>
  BY DEF TimePasses
<1>2. PICK d \in LaterDays, t \in Times :
        /\ d.year > now.date.year
        /\ now' = [date |-> d, clock |-> t.clock, seconds |-> t.seconds]
  BY DEF TimePasses
<1>3. now'.date = d /\ now'.clock = t.clock /\ now'.seconds = t.seconds
  BY <1>2
<1>4. /\ IsDate(d) /\ d.year > 1900 + MaxReads
      /\ IsClock(t.clock) /\ t.seconds \in Nat
  BY StatsAssumption
<1>5. NowInv'
  BY <1>3, <1>4 DEF NowInv, IsMoment
<1>6. now'.date.year > now.date.year /\ now'.date.year \in Nat
  BY <1>2, <1>3, <1>4, DateParts
<1>7. QED
  BY <1>1, <1>5, <1>6, EntryStays, MstatStays DEF HistoryInv

LEMMA HistoryStep ==
  ASSUME HistoryInv, [StatsNext]_statsVars
  PROVE  HistoryInv'
<1>1. CASE StatsNext
  BY <1>1, CreateMstatKeeps, PartialMstatKeeps, ReadMemdirEntryKeeps, WriteMemdirEntryKeeps,
     StoredByOthersKeeps, TimePassesKeeps DEF StatsNext
<1>2. CASE UNCHANGED statsVars
  <2>1. UNCHANGED <<summer, pdse, now, mstat, entry, told, truth, reading>>
    BY <1>2 DEF statsVars
  <2>2. NowInv /\ now.date.year \in Nat
    BY DateParts DEF HistoryInv, NowInv, IsMoment
  <2>3. QED
    BY <2>1, <2>2, EntryStays, MstatStays DEF HistoryInv, NowInv, IsMoment
<1>3. QED
  BY <1>1, <1>2

LEMMA HistoryAlways == StatsSpec => []HistoryInv
<1>1. StatsInit => HistoryInv
  BY HistoryInit
<1>2. HistoryInv /\ [StatsNext]_statsVars => HistoryInv'
  BY HistoryStep
<1>3. QED
  BY <1>1, <1>2, PTL DEF StatsSpec

\* However often an entry is read and stored again with what was read, the day of
\* creation stays what it was, but for December 31: it goes back a year each time.
THEOREM CreationIsKept ==
  StatsSpec => []CreatedIsKept
<1>1. HistoryInv => CreatedIsKept
  BY DEF HistoryInv, MstatInv, ToldAs, Stored, CreatedIsKept, ReadMine, Read
<1>2. QED
  BY <1>1, HistoryAlways, PTL

\* The change of a member is told to the second, an hour late in summer, if it
\* took place in the century of its creation and not on December 31, and else in
\* an earlier year.
THEOREM ChangeIsTold ==
  StatsSpec => []ChangedIsTold
<1>1. HistoryInv => ChangedIsTold
  BY DEF HistoryInv, MstatInv, ToldAs, ChangedAs, ChangedIsTold, ReadMine, Read
<1>2. QED
  BY <1>1, HistoryAlways, PTL

\* The number of lines comes back from every entry with user data, the timestamp
\* at most two seconds early from every one with extended attributes, and the
\* bits of a struct that was cleared tell which of these an entry has.
THEOREM StatisticsAreKept ==
  StatsSpec => []StatsAreKept
<1>1. HistoryInv => StatsAreKept
  BY DEF HistoryInv, MstatInv, ToldAs, ReadAs, StatsAreKept, Read
<1>2. QED
  BY <1>1, HistoryAlways, PTL
==============================================================================
