---------------------------- MODULE MemberDirectory ----------------------------
(***************************************************************************)
(* The directory entries of a PDS or PDSE, updated by several programs at  *)
(* once: write_member_dir_entry of services/src/bpamio.c with its create,  *)
(* replace and update paths, enq_dataset_member and deq_dataset_member,    *)
(* and the programs around them.  Editors hold the ENQ of a member while   *)
(* they write its entry, as sample/src/readwriterec.c and ISPF do;         *)
(* sample/src/f2m.c takes none.                                            *)
(*                                                                         *)
(* STOW, DESERV, ENQ and DEQ are services of the system, each of them      *)
(* atomic.  STOW_IFF creates an entry that does not exist, or replaces the *)
(* one whose change timestamp it is given; a PDS has no timestamps and its *)
(* entries are replaced blindly.  ENQ is made with RET=USE: it never       *)
(* waits.  When a program ends the system releases what it still holds.    *)
(***************************************************************************)
EXTENDS Integers

CONSTANTS
  Programs,   \* the programs that update the dataset
  Editors,    \* those of them that ENQ a member before they update it
  Members,    \* the names of members
  Todo,       \* per program: the members it writes
  None        \* no program, no member, no entry

\* An entry that some other tool made may lack extended attributes.
Entry == [by : Programs \cup {None}, changed : Nat, ext_attr : BOOLEAN]

ASSUME ProgramAssumption ==
  /\ Editors \subseteq Programs
  /\ None \notin Programs \cup Members \cup Entry
  /\ Todo \in [Programs -> SUBSET Members]

VARIABLES
  dsorg,      \* "PDS" or "PDSE"
  entries,    \* per member: its directory entry
  clock,      \* the last change timestamp
  holder,     \* per member: the program that has its ENQ
  pc,         \* per program: the call it makes next
  todo,       \* per program: the members it will still write
  member,     \* per program: the member it writes
  timestamp,  \* per program: stowlist->iff.timestamp
  answer,     \* per program: what writememdir_entry answered for the member
  stowed      \* history, per program: has its entry for the member been stowed?

directory == <<dsorg, entries, clock>>
vars == <<directory, holder, pc, todo, member, timestamp, answer, stowed>>

\* The timestamp of a new stowlist, which is that of no entry.
NoTimestamp == 0

\* What is read as the timestamp of an entry without extended attributes.
Garbage == -1

Updating == {"create", "replace", "deserv", "update", "deq"}

TypeOK ==
  /\ dsorg \in {"PDS", "PDSE"}
  /\ entries \in [Members -> Entry \cup {None}]
  /\ clock \in Nat
  /\ holder \in [Members -> Programs \cup {None}]
  /\ pc \in [Programs -> {"idle", "enq", "ending", "done"} \cup Updating]
  /\ todo \in [Programs -> SUBSET Members]
  /\ member \in [Programs -> Members \cup {None}]
  /\ timestamp \in [Programs -> Int]
  /\ answer \in [Programs -> {"none", "ok", "failed", "unset"}]
  /\ stowed \in [Programs -> BOOLEAN]
  /\ \A p \in Programs : pc[p] \in {"enq"} \cup Updating => member[p] # None

------------------------------------------------------------------------------
(* The programs around write_member_dir_entry                               *)

Goto(p, label) == pc' = [pc EXCEPT ![p] = label]

\* Where a program goes on that could not write a member: an editor returns
\* from main; f2m leaves the extension, and may still have others.
AfterFailure(p) == IF p \in Editors THEN {"ending"} ELSE {"idle", "ending"}

\* Mutant: the name is not taken along.
MutTakeMember(p) ==
  /\ pc[p] = "idle"
  /\ \E m \in todo[p] : todo' = [todo EXCEPT ![p] = @ \ {m}]
  /\ timestamp' = [timestamp EXCEPT ![p] = NoTimestamp]
  /\ answer' = [answer EXCEPT ![p] = "none"]
  /\ stowed' = [stowed EXCEPT ![p] = FALSE]
  /\ UNCHANGED <<directory, holder, member>>

\* The next member, and what write_member_dir_entry will start with.
TakeMember(p) ==
  /\ pc[p] = "idle"
  /\ \E m \in todo[p] :
       /\ member' = [member EXCEPT ![p] = m]
       /\ todo' = [todo EXCEPT ![p] = @ \ {m}]
  /\ timestamp' = [timestamp EXCEPT ![p] = NoTimestamp]
  /\ answer' = [answer EXCEPT ![p] = "none"]
  /\ stowed' = [stowed EXCEPT ![p] = FALSE]
  /\ UNCHANGED <<directory, holder>>

\* The blocks of the next member are written ...
BlocksWritten(p) ==
  /\ TakeMember(p)
  /\ Goto(p, IF p \in Editors THEN "enq" ELSE "create")

\* ... or not: its entry is left alone.
BlocksNotWritten(p) ==
  /\ TakeMember(p)
  /\ \E label \in AfterFailure(p) : Goto(p, label)

NoMoreMembers(p) ==
  /\ pc[p] = "idle" /\ todo[p] = {}
  /\ Goto(p, "ending")
  /\ UNCHANGED <<directory, holder, todo, member, timestamp, answer, stowed>>

\* The program is over, whatever it had still to do.
EndOfTask(p) ==
  /\ pc[p] = "ending"
  /\ Goto(p, "done")
  /\ holder' = [m \in Members |-> IF holder[m] = p THEN None ELSE holder[m]]
  /\ UNCHANGED <<directory, todo, member, timestamp, answer, stowed>>

------------------------------------------------------------------------------
(* enq_dataset_member and deq_dataset_member                                *)

\* Mutant: the ENQ is shared.
MutEnqDone(p) ==
  /\ pc[p] = "enq"
  /\ holder' = [holder EXCEPT ![member[p]] = p]
  /\ Goto(p, "create")
  /\ UNCHANGED <<directory, todo, member, timestamp, answer, stowed>>

EnqDone(p) ==
  /\ pc[p] = "enq"
  /\ holder[member[p]] = None
  /\ holder' = [holder EXCEPT ![member[p]] = p]
  /\ Goto(p, "create")
  /\ UNCHANGED <<directory, todo, member, timestamp, answer, stowed>>

\* Mutant: the return code is dropped.
MutEnqFailed(p) ==
  /\ pc[p] = "enq"
  /\ Goto(p, "create")
  /\ UNCHANGED <<directory, holder, todo, member, timestamp, answer, stowed>>

\* Another program has it, or ENQ failed: the editor gives up.
EnqFailed(p) ==
  /\ pc[p] = "enq"
  /\ Goto(p, "ending")
  /\ UNCHANGED <<directory, holder, todo, member, timestamp, answer, stowed>>

DeqDone(p) ==
  /\ pc[p] = "deq"
  /\ holder' = [holder EXCEPT ![member[p]] = None]
  /\ Goto(p, "idle")
  /\ UNCHANGED <<directory, todo, member, timestamp, answer, stowed>>

DeqFailed(p) ==
  /\ pc[p] = "deq"
  /\ Goto(p, "ending")
  /\ UNCHANGED <<directory, holder, todo, member, timestamp, answer, stowed>>

------------------------------------------------------------------------------
(* write_member_dir_entry                                                   *)

\* The entry reaches the directory.
Stow(p) ==
  /\ clock' = clock + 1
  /\ entries' = [entries EXCEPT ![member[p]] =
                   [by |-> p, changed |-> clock + 1, ext_attr |-> TRUE]]
  /\ stowed' = [stowed EXCEPT ![p] = TRUE]
  /\ UNCHANGED dsorg

NoStow == UNCHANGED <<directory, stowed>>

\* What the callers do with the return code.  An editor that is told of a
\* failure returns without DEQ.  f2m may fail after a success, in close_file.
Return(p, result, success) ==
  /\ answer' = [answer EXCEPT ![p] = result]
  /\ IF success /\ p \in Editors THEN Goto(p, "deq")
     ELSE \E label \in AfterFailure(p) : Goto(p, label)

Succeed(p) == Return(p, "ok", TRUE)
Fail(p)    == Return(p, "failed", FALSE)

Exists(p) == entries[member[p]] # None

\* STOW_IFF without a timestamp.
Create(p) ==
  /\ pc[p] = "create"
  /\ dsorg = "PDSE" /\ ~Exists(p)
  /\ Stow(p)
  /\ Succeed(p)
  /\ UNCHANGED <<holder, todo, member, timestamp>>

CreateInPds(p) ==
  /\ pc[p] = "create"
  /\ dsorg = "PDS"
  /\ Goto(p, "replace")
  /\ UNCHANGED <<directory, holder, todo, member, timestamp, answer, stowed>>

\* Mutant: the entry is replaced as in a PDS.
MutMemberExists(p) ==
  /\ pc[p] = "create"
  /\ dsorg = "PDSE" /\ Exists(p)
  /\ Goto(p, "replace")
  /\ UNCHANGED <<directory, holder, todo, member, timestamp, answer, stowed>>

MemberExists(p) ==
  /\ pc[p] = "create"
  /\ dsorg = "PDSE" /\ Exists(p)
  /\ Goto(p, "deserv")
  /\ UNCHANGED <<directory, holder, todo, member, timestamp, answer, stowed>>

\* write_pds_member_dir_entry: STOW_R replaces the entry, or adds it and answers
\* that it did not exist, which is no failure.
\* Mutant: it is one.
MutReplace(p) ==
  /\ pc[p] = "replace"
  /\ Stow(p)
  /\ IF Exists(p) THEN Succeed(p) ELSE Fail(p)
  /\ UNCHANGED <<holder, todo, member, timestamp>>

Replace(p) ==
  /\ pc[p] = "replace"
  /\ Stow(p)
  /\ Succeed(p)
  /\ UNCHANGED <<holder, todo, member, timestamp>>

\* update_pdse_member_dir_entry: DESERV tells the timestamp of the entry.
Deserv(p) ==
  /\ pc[p] = "deserv"
  /\ LET entry == entries[member[p]]
     IN  timestamp' = [timestamp EXCEPT ![p] =
                         IF entry.ext_attr THEN entry.changed ELSE Garbage]
  /\ Goto(p, "update")
  /\ UNCHANGED <<directory, holder, todo, member, answer, stowed>>

\* DESERV failed: rc, which was never set, is returned.
DeservFailed(p) ==
  /\ pc[p] = "deserv"
  /\ NoStow
  /\ \E success \in BOOLEAN : Return(p, "unset", success)
  /\ UNCHANGED <<holder, todo, member, timestamp>>

\* STOW_IFF with that timestamp.
Update(p) ==
  /\ pc[p] = "update"
  /\ LET entry == entries[member[p]]
     IN  entry.ext_attr /\ entry.changed = timestamp[p]
  /\ Stow(p)
  /\ Succeed(p)
  /\ UNCHANGED <<holder, todo, member, timestamp>>

\* Mutant: an update that failed is tried again.
MutStowFailed(p) ==
  /\ pc[p] \in {"create", "replace", "update"}
  /\ NoStow
  /\ IF pc[p] = "update" THEN Goto(p, "deserv") /\ UNCHANGED answer ELSE Fail(p)
  /\ UNCHANGED <<holder, todo, member, timestamp>>

\* Any STOW may fail; the update does when the entry has changed since DESERV.
StowFailed(p) ==
  /\ pc[p] \in {"create", "replace", "update"}
  /\ NoStow
  /\ Fail(p)
  /\ UNCHANGED <<holder, todo, member, timestamp>>

------------------------------------------------------------------------------

Init ==
  /\ dsorg \in {"PDS", "PDSE"}
  /\ \E old \in SUBSET Members, attr \in BOOLEAN :
       entries = [m \in Members |->
                    IF m \in old THEN [by |-> None, changed |-> 1, ext_attr |-> attr]
                    ELSE None]
  /\ clock = 1
  /\ holder = [m \in Members |-> None]
  /\ pc = [p \in Programs |-> "idle"]
  /\ todo = Todo
  /\ member = [p \in Programs |-> None]
  /\ timestamp = [p \in Programs |-> NoTimestamp]
  /\ answer = [p \in Programs |-> "none"]
  /\ stowed = [p \in Programs |-> FALSE]

Step(p) ==
  \/ BlocksWritten(p) \/ BlocksNotWritten(p) \/ NoMoreMembers(p) \/ EndOfTask(p)
  \/ EnqDone(p) \/ EnqFailed(p) \/ DeqDone(p) \/ DeqFailed(p)
  \/ Create(p) \/ CreateInPds(p) \/ MemberExists(p)
  \/ Replace(p) \/ Deserv(p) \/ DeservFailed(p) \/ Update(p) \/ StowFailed(p)

AllDone == (\A p \in Programs : pc[p] = "done") /\ UNCHANGED vars

Next == (\E p \in Programs : Step(p)) \/ AllDone

\* No service waits for another program, so each program goes on.
Spec == Init /\ [][Next]_vars /\ \A p \in Programs : WF_vars(Step(p))

------------------------------------------------------------------------------
(* Properties                                                               *)

\* An editor writes an entry under the ENQ of its member and no other program
\* can take it, on every path from ENQ to DEQ; and it takes no ENQ along to its
\* next member: what a failure leaves behind is gone with the program.
HeldWhileUpdating ==
  \A p \in Programs :
    /\ p \in Editors /\ pc[p] \in Updating => holder[member[p]] = p
    /\ \A m \in Members : holder[m] = p =>
         /\ p \in Editors
         /\ m = member[p]
         /\ pc[p] \in Updating \cup {"ending"}

\* Between DESERV and STOW_IFF of an editor only a program that takes no ENQ can
\* change the entry: among editors the update cannot fail for its timestamp.
TimestampIsFresh ==
  \A p \in Editors :
    pc[p] = "update" /\ timestamp[p] # Garbage =>
      LET entry == entries[member[p]]
      IN  timestamp[p] = entry.changed \/ entry.by \notin Editors \cup {None}

\* In a PDSE no entry is overwritten by a program that has not looked at it: of
\* two updates that meet, one is refused, whether or not the programs ENQ.
NothingOverwrittenUnseen ==
  [][dsorg = "PDSE" =>
       \A m \in Members :
         entries[m] # None /\ entries'[m] # entries[m] =>
           timestamp[entries'[m].by] = entries[m].changed]_vars

\* writememdir_entry answers what it did, on the paths on which rc was set.
AnswerIsTrue == \A p \in Programs : stowed[p] <=> answer[p] = "ok"

\* Every program ends, and no ENQ outlives the programs.
EveryProgramEnds ==
  <>[](\A p \in Programs, m \in Members : pc[p] = "done" /\ holder[m] = None)
===============================================================================
