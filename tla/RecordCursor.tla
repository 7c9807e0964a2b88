---------------------------- MODULE RecordCursor ----------------------------
(***************************************************************************)
(* What services/include/bpamio.h promises the caller of find_member,      *)
(* read_record and read_record_direct, with blocks and the device left     *)
(* out.  A located member is a sequence of records; each call answers the  *)
(* next of them, or that nothing could be read.  When that is because the  *)
(* member has ended, every record has been answered, and it stays so until *)
(* a member is located again.                                              *)
(***************************************************************************)
EXTENDS Naturals, Sequences

CONSTANT Contents      \* the members: sequences of records

VARIABLES content,     \* the records of the located member
          read,        \* the records answered since it was located
          state        \* "idle", "reading", "ended" or "stopped"

cvars == <<content, read, state>>

Init ==
  /\ content = <<>>
  /\ read = <<>>
  /\ state = "idle"

Locate ==
  /\ content' \in Contents
  /\ read' = <<>>
  /\ state' = "reading"

\* No member is located: FIND failed.
Lose ==
  /\ state' = "idle"
  /\ UNCHANGED <<content, read>>

Answer ==
  /\ state = "reading"
  /\ Len(read) < Len(content)
  /\ read' = Append(read, content[Len(read) + 1])
  /\ UNCHANGED <<content, state>>

End ==
  /\ state = "reading"
  /\ read = content
  /\ state' = "ended"
  /\ UNCHANGED <<content, read>>

\* The device failed, or the record is too long for the buffer of the caller.
Stop ==
  /\ state = "reading"
  /\ state' = "stopped"
  /\ UNCHANGED <<content, read>>

Next == Locate \/ Lose \/ Answer \/ End \/ Stop

Spec == Init /\ [][Next]_cvars
=============================================================================
