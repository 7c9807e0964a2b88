---------------------------- MODULE M2FCopy_proofs ----------------------------
(***************************************************************************)
(* Proofs about M2FCopy, for all members, records and sizes of the buffer. *)
(***************************************************************************)
EXTENDS M2FCopy, SequenceTheorems, FiniteSetTheorems, Lemmas, TLAPS

------------------------------------------------------------------------------
(* The inductive invariant                                                  *)

InWork == pc \in {"find", "read", "write"}

TypeInv ==
  /\ members \in Seq(Kinds)
  /\ existing \subseteq DOMAIN members
  /\ pc \in {"open", "member", "find", "read", "write", "done"}
  /\ cur \in 1 .. Len(members) + 1
  /\ InWork => cur \in DOMAIN members /\ ~Member.alias
  /\ rec \in Nat
  /\ file_buffer \in Seq(Nat)
  /\ files \in [DOMAIN members -> [is : {"none", "old", "new"}, bytes : Seq(Nat)]]
  /\ fds \subseteq DOMAIN members
  /\ failed \in [DOMAIN members -> SUBSET {"create", "find", "read", "write"}]

\* The handle of the dataset, and where the loop was left.
HandleInv ==
  /\ bh \in {"none", "open", "closed"}
  /\ pc = "open" => bh = "none"
  /\ pc = "member" \/ InWork => bh = "open"
  /\ pc = "done" /\ bh = "open" => cur \in DOMAIN members /\ ~Member.alias
  /\ pc = "done" /\ bh = "closed" => cur = Len(members) + 1

Untouched(m) ==
  /\ files[m] = IF m \in existing THEN Old ELSE None
  /\ failed[m] = {}
  /\ m \notin fds

InProgress(m) ==
  /\ m \notin existing
  /\ files[m] = New(<<>>)
  /\ failed[m] \subseteq {"read"}
  /\ m \in fds

\* open_file_create has failed for it.
Refused(m) ==
  /\ m \in existing => files[m] = Old
  /\ failed[m] = {"create"}
  /\ m \notin fds
  /\ files[m].is = "new" => files[m] = New(<<>>)

Done(m) ==
  /\ m \notin existing
  /\ files[m].is = "new"
  /\ "create" \notin failed[m]
  /\ m \in fds <=> "find" \in failed[m]

\* The members before the current one are done with, those after it untouched.
MemberInv(m) ==
  /\ members[m].alias \/ m > cur \/ (m = cur /\ pc \in {"open", "member"}) => Untouched(m)
  /\ m < cur /\ ~members[m].alias => Done(m)
  /\ m = cur /\ InWork => InProgress(m)
  /\ m = cur /\ pc = "done" => Untouched(m) \/ Refused(m)
  /\ m = cur /\ pc = "done" /\ bh = "open" => Refused(m)

MembersInv == \A m \in DOMAIN members : MemberInv(m)

ControlInv == TypeInv /\ HandleInv /\ MembersInv

Size(m) == 2 * Len(members[m].lens)

\* What the buffer holds after the first k items of member m: each of them
\* whole, or not at all for want of room.
Filled(bytes, m, k) ==
  /\ \A b \in DOMAIN bytes : bytes[b] \in 1 .. k
  /\ \A i, j \in DOMAIN bytes : i < j => bytes[i] <= bytes[j]
  /\ \A i \in 1 .. k :
       \/ Count(bytes, i) = LenOf(m, i)
       \/ Count(bytes, i) = 0 /\ Len(bytes) + LenOf(m, i) > MaxTextFileSize
  /\ Len(bytes) <= MaxTextFileSize
  /\ Len(Upto(m)[k]) <= MaxTextFileSize => bytes = Upto(m)[k]

BufferInv ==
  /\ pc = "find" => file_buffer = <<>>
  /\ pc \in {"read", "write"} =>
       /\ rec <= Len(Member.lens)
       /\ Filled(file_buffer, cur, 2 * rec)
  /\ pc = "write" /\ "read" \notin failed[cur] => rec = Len(Member.lens)

\* A file with these bytes, where these calls failed, and where all is behind it.
FileInv(m, bytes, calls, behind) ==
  /\ \A b \in DOMAIN bytes : bytes[b] \in 1 .. Size(m)
  /\ \A i, j \in DOMAIN bytes : i < j => bytes[i] <= bytes[j]
  /\ "write" \notin calls => \E k \in 0 .. Size(m) : Filled(bytes, m, k)
  /\ behind /\ calls = {} => Filled(bytes, m, Size(m))

FilesInv ==
  \A m \in DOMAIN members :
    files[m].is = "new" => FileInv(m, files[m].bytes, failed[m], m < cur)

IInv == ControlInv /\ BufferInv /\ FilesInv

------------------------------------------------------------------------------
(* The control of copy_members_to_files                                     *)

LEMMA MemberTypes ==
  ASSUME TypeInv
  PROVE  /\ Len(members) \in Nat /\ DOMAIN members = 1 .. Len(members)
         /\ \A m \in DOMAIN members :
              members[m].alias \in BOOLEAN /\ members[m].lens \in Seq(Nat)
         /\ cur \in Nat \ {0}
<1>1. /\ Len(members) \in Nat /\ DOMAIN members = 1 .. Len(members)
      /\ cur \in 1 .. Len(members) + 1
  BY DEF TypeInv
<1>2. \A m \in DOMAIN members : members[m] \in Kinds
  BY DEF TypeInv
<1>3. QED
  BY <1>1, <1>2, M2FAssumption

LEMMA ControlInit == Init => ControlInv
<1> SUFFICES ASSUME Init PROVE ControlInv
  OBVIOUS
<1>1. PICK n \in 1 .. MaxMembers : members \in [1 .. n -> Kinds]
  BY DEF Init
<1>2. n \in Nat \ {0}
  BY M2FAssumption
<1>3. members \in Seq(Kinds) /\ Len(members) = n /\ DOMAIN members = 1 .. n
  BY <1>1, <1>2
<1>4. /\ pc = "open" /\ cur = 1 /\ rec = 0 /\ file_buffer = <<>> /\ fds = {} /\ bh = "none"
      /\ existing \subseteq DOMAIN members
      /\ files = [m \in DOMAIN members |-> IF m \in existing THEN Old ELSE None]
      /\ failed = [m \in DOMAIN members |-> {}]
  BY DEF Init
<1>5. None \in [is : {"none", "old", "new"}, bytes : Seq(Nat)]
      /\ Old \in [is : {"none", "old", "new"}, bytes : Seq(Nat)]
  BY DEF None, Old
<1>6. files \in [DOMAIN members -> [is : {"none", "old", "new"}, bytes : Seq(Nat)]]
  BY <1>4, <1>5
<1>7. cur \in 1 .. Len(members) + 1
  BY <1>2, <1>3, <1>4
<1>8. failed \in [DOMAIN members -> SUBSET {"create", "find", "read", "write"}]
  BY <1>4
<1>9. TypeInv
  BY <1>3, <1>4, <1>6, <1>7, <1>8 DEF TypeInv, InWork
<1>10. HandleInv
  BY <1>4 DEF HandleInv, InWork
<1>11. MembersInv
  BY <1>3, <1>4 DEF MembersInv, MemberInv, InWork, Untouched
<1>12. QED
  BY <1>9, <1>10, <1>11 DEF ControlInv

LEMMA NewType ==
  ASSUME NEW bytes \in Seq(Nat)
  PROVE  New(bytes) \in [is : {"none", "old", "new"}, bytes : Seq(Nat)]
BY DEF New

LEMMA ItemType ==
  ASSUME NEW item \in Nat, NEW len \in Nat
  PROVE  /\ Item(item, len) \in Seq(Nat)
         /\ Len(Item(item, len)) = len
         /\ \A b \in 1 .. len : Item(item, len)[b] = item
<1>1. Item(item, len) = [b \in 1 .. len |-> item]
  BY DEF Item
<1>2. QED
  BY <1>1

LEMMA BufferWriteType ==
  ASSUME NEW buffer \in Seq(Nat), NEW item \in Nat, NEW len \in Nat
  PROVE  BufferWrite(buffer, Item(item, len)) \in Seq(Nat)
<1>1. Item(item, len) \in Seq(Nat)
  BY ItemType
<1>2. buffer \o Item(item, len) \in Seq(Nat)
  BY <1>1, ConcatProperties
<1>3. QED
  BY <1>2 DEF BufferWrite

\* The steps that only move on in the current member.
LEMMA TypeStep == TypeInv /\ [Next]_vars => TypeInv'
<1> SUFFICES ASSUME TypeInv, [Next]_vars PROVE TypeInv'
  OBVIOUS
<1> DEFINE FileSet == [is : {"none", "old", "new"}, bytes : Seq(Nat)]
           CallSet == SUBSET {"create", "find", "read", "write"}
<1>0. /\ Len(members) \in Nat /\ DOMAIN members = 1 .. Len(members)
      /\ cur \in Nat \ {0} /\ cur <= Len(members) + 1
      /\ files \in [DOMAIN members -> FileSet]
      /\ failed \in [DOMAIN members -> CallSet]
  BY MemberTypes DEF TypeInv
<1>1. ASSUME NEW call \in {"create", "find", "read", "write"}, Fails(call)
      PROVE  failed' \in [DOMAIN members -> CallSet]
  <2>1. failed' = [failed EXCEPT ![cur] = @ \cup {call}]
    BY <1>1 DEF Fails
  <2>2. cur \in DOMAIN members => failed[cur] \cup {call} \in CallSet
    BY <1>0
  <2>3. QED
    BY <1>0, <2>1, <2>2
<1>2. ASSUME NEW bytes \in Seq(Nat)
      PROVE  [files EXCEPT ![cur] = New(bytes)] \in [DOMAIN members -> FileSet]
  BY <1>0, NewType
<1>3. <<>> \in Seq(Nat)
  OBVIOUS
<1> HIDE DEF FileSet, CallSet
<1>4. ASSUME UNCHANGED <<members, existing>>,
             pc' \in {"open", "member", "find", "read", "write", "done"},
             cur' \in 1 .. Len(members) + 1,
             InWork' => cur' \in DOMAIN members /\ ~members[cur'].alias,
             rec' \in Nat, file_buffer' \in Seq(Nat),
             files' \in [DOMAIN members -> FileSet],
             fds' \subseteq DOMAIN members,
             failed' \in [DOMAIN members -> CallSet]
      PROVE  TypeInv'
  BY <1>4 DEF TypeInv, FileSet, CallSet, Member
<1>5. CASE OpenFails \/ Open \/ ListEnds
  <2>1. /\ UNCHANGED <<members, existing, cur, rec, file_buffer, files, fds, failed>>
        /\ pc' \in {"member", "done"}
    BY <1>5 DEF OpenFails, Open, ListEnds, input
  <2>2. QED
    BY <1>0, <1>4, <2>1 DEF TypeInv, InWork
<1>6. CASE SkipAlias
  <2>1. /\ UNCHANGED <<members, existing, rec, file_buffer, files, fds, failed>>
        /\ pc' = "member" /\ cur' = cur + 1 /\ cur <= Len(members)
    BY <1>6 DEF SkipAlias, NextMember, input
  <2>2. QED
    BY <1>0, <1>4, <2>1 DEF TypeInv, InWork
<1>7. CASE OpenFileCreate
  <2>1. /\ UNCHANGED <<members, existing, cur, rec, failed>>
        /\ cur <= Len(members) /\ ~Member.alias
        /\ files' = [files EXCEPT ![cur] = New(<<>>)]
        /\ fds' = fds \cup {cur} /\ file_buffer' = <<>> /\ pc' = "find"
    BY <1>7 DEF OpenFileCreate, input
  <2>2. cur \in DOMAIN members
    BY <1>0, <2>1
  <2>3. fds' \subseteq DOMAIN members
    BY <2>1, <2>2 DEF TypeInv
  <2>4. files' \in [DOMAIN members -> FileSet] /\ file_buffer' \in Seq(Nat)
    BY <1>2, <1>3, <2>1
  <2>5. cur' \in 1 .. Len(members) + 1
    BY <1>0, <2>1
  <2>6. QED
    BY <1>0, <1>4, <2>1, <2>2, <2>3, <2>4, <2>5 DEF TypeInv, Member
<1>8. CASE OpenFileCreateFails
  <2>1. /\ UNCHANGED <<members, existing, cur, rec, file_buffer, fds>>
        /\ files' = files \/ files' = [files EXCEPT ![cur] = New(<<>>)]
        /\ Fails("create") /\ pc' = "done"
    BY <1>8 DEF OpenFileCreateFails, input
  <2>2. files' \in [DOMAIN members -> FileSet]
    BY <1>0, <1>2, <1>3, <2>1
  <2>3. QED
    BY <1>0, <1>1, <1>4, <2>1, <2>2 DEF TypeInv, InWork
<1>9. CASE FindMember
  <2>1. /\ UNCHANGED <<members, existing, cur, file_buffer, files, fds, failed>>
        /\ pc = "find" /\ pc' = "read" /\ rec' = 0
    BY <1>9 DEF FindMember, input
  <2>2. QED
    BY <1>0, <1>4, <2>1 DEF TypeInv, InWork, Member
<1>10. CASE FindMemberFails
  <2>1. /\ UNCHANGED <<members, existing, rec, file_buffer, files, fds>>
        /\ pc = "find" /\ pc' = "member" /\ cur' = cur + 1 /\ Fails("find")
    BY <1>10 DEF FindMemberFails, NextMember, input
  <2>2. cur' \in 1 .. Len(members) + 1
    BY <1>0, <2>1 DEF TypeInv, InWork
  <2>3. QED
    BY <1>0, <1>1, <1>4, <2>1, <2>2 DEF TypeInv, InWork
<1>11. CASE ReadRecord
  <2>1. /\ UNCHANGED <<members, existing, pc, cur, files, fds, failed>>
        /\ pc = "read" /\ rec < Len(Member.lens) /\ rec' = rec + 1
        /\ file_buffer' = BufferWrite(BufferWrite(file_buffer, Item(2 * rec + 1, Member.lens[rec + 1])),
                                      Item(2 * rec + 2, 1))
    BY <1>11 DEF ReadRecord, input
  <2>2. /\ rec \in Nat /\ file_buffer \in Seq(Nat) /\ cur \in DOMAIN members
        /\ ~Member.alias /\ Member.lens \in Seq(Nat)
    BY <2>1, MemberTypes DEF TypeInv, InWork, Member
  <2>3. 2 * rec + 1 \in Nat /\ 2 * rec + 2 \in Nat /\ Member.lens[rec + 1] \in Nat
    BY <2>1, <2>2
  <2>4. BufferWrite(file_buffer, Item(2 * rec + 1, Member.lens[rec + 1])) \in Seq(Nat)
    BY <2>2, <2>3, BufferWriteType
  <2>5. file_buffer' \in Seq(Nat)
    BY <2>1, <2>3, <2>4, BufferWriteType
  <2>6. QED
    BY <1>0, <1>4, <2>1, <2>2, <2>5 DEF TypeInv, InWork, Member
<1>12. CASE ReadEnds
  <2>1. /\ UNCHANGED <<members, existing, cur, rec, file_buffer, files, fds>>
        /\ pc = "read" /\ pc' = "write" /\ (failed' = failed \/ Fails("read"))
    BY <1>12 DEF ReadEnds, input
  <2>2. failed' \in [DOMAIN members -> CallSet]
    BY <1>0, <1>1, <2>1
  <2>3. QED
    BY <1>0, <1>4, <2>1, <2>2 DEF TypeInv, InWork, Member
<1>13. CASE WriteAndClose
  <2>1. /\ UNCHANGED <<members, existing, rec, file_buffer>>
        /\ pc = "write" /\ pc' = "member" /\ cur' = cur + 1 /\ fds' = fds \ {cur}
        /\ (failed' = failed \/ Fails("write"))
        /\ \/ files' = [files EXCEPT ![cur] = New(file_buffer)]
           \/ \E n \in 0 .. Len(file_buffer) :
                files' = [files EXCEPT ![cur] = New(SubSeq(file_buffer, 1, n))]
    BY <1>13 DEF WriteAndClose, NextMember, input
  <2>2. failed' \in [DOMAIN members -> CallSet]
    BY <1>0, <1>1, <2>1
  <2>3. file_buffer \in Seq(Nat)
    BY DEF TypeInv
  <2>4. \A n \in 0 .. Len(file_buffer) : SubSeq(file_buffer, 1, n) \in Seq(Nat)
    BY <2>3
  <2>5. files' \in [DOMAIN members -> FileSet]
    BY <1>2, <2>1, <2>3, <2>4
  <2>6. cur' \in 1 .. Len(members) + 1
    BY <1>0, <2>1 DEF TypeInv, InWork
  <2>7. fds' \subseteq DOMAIN members
    BY <2>1 DEF TypeInv
  <2>8. QED
    BY <1>0, <1>4, <2>1, <2>2, <2>5, <2>6, <2>7 DEF TypeInv, InWork
<1>14. CASE UNCHANGED vars
  BY <1>14 DEF vars, input, TypeInv, InWork, Member
<1>15. QED
  BY <1>5, <1>6, <1>7, <1>8, <1>9, <1>10, <1>11, <1>12, <1>13, <1>14 DEF Next, Finished

LEMMA HandleStep == TypeInv /\ HandleInv /\ [Next]_vars => HandleInv'
<1> SUFFICES ASSUME TypeInv, HandleInv, [Next]_vars PROVE HandleInv'
  OBVIOUS
<1>0. Len(members) \in Nat /\ DOMAIN members = 1 .. Len(members) /\ cur \in 1 .. Len(members) + 1
  BY MemberTypes DEF TypeInv
<1>1. CASE OpenFails
  BY <1>1 DEF OpenFails, HandleInv, InWork
<1>2. CASE Open
  BY <1>2 DEF Open, HandleInv, InWork
<1>3. CASE ListEnds
  BY <1>0, <1>3 DEF ListEnds, HandleInv, InWork, input
<1>4. CASE OpenFileCreateFails
  <2>1. cur \in DOMAIN members /\ ~Member.alias /\ pc' = "done" /\ UNCHANGED <<members, cur, bh>>
        /\ bh = "open"
    BY <1>0, <1>4 DEF OpenFileCreateFails, HandleInv, input
  <2>2. QED
    BY <2>1 DEF HandleInv, InWork, Member
<1>5. CASE SkipAlias \/ OpenFileCreate \/ FindMember \/ FindMemberFails \/ ReadRecord
           \/ ReadEnds \/ WriteAndClose
  <2>1. pc' \in {"member", "find", "read", "write"} /\ UNCHANGED bh /\ (pc = "member" \/ InWork)
    BY <1>5 DEF SkipAlias, OpenFileCreate, FindMember, FindMemberFails, ReadRecord,
                ReadEnds, WriteAndClose, NextMember, InWork
  <2>2. QED
    BY <2>1 DEF HandleInv, InWork
<1>6. CASE UNCHANGED vars
  BY <1>6 DEF vars, input, HandleInv, InWork, Member
<1>7. QED
  BY <1>1, <1>2, <1>3, <1>4, <1>5, <1>6 DEF Next, Finished

\* What a step does to the other members: nothing.
LEMMA OthersKept ==
  ASSUME TypeInv, [Next]_vars
  PROVE  /\ UNCHANGED <<members, existing>>
         /\ \A m \in DOMAIN members : m # cur =>
              files'[m] = files[m] /\ failed'[m] = failed[m] /\ (m \in fds' <=> m \in fds)
<1>1. /\ files \in [DOMAIN members -> [is : {"none", "old", "new"}, bytes : Seq(Nat)]]
      /\ failed \in [DOMAIN members -> SUBSET {"create", "find", "read", "write"}]
  BY DEF TypeInv
<1>2. CASE OpenFails \/ Open \/ ListEnds \/ SkipAlias \/ FindMember \/ ReadRecord
  BY <1>2 DEF OpenFails, Open, ListEnds, SkipAlias, FindMember, ReadRecord, input
<1>3. CASE OpenFileCreate
  BY <1>1, <1>3 DEF OpenFileCreate, input
<1>4. CASE OpenFileCreateFails
  BY <1>1, <1>4 DEF OpenFileCreateFails, Fails, input
<1>5. CASE FindMemberFails \/ ReadEnds
  BY <1>1, <1>5 DEF FindMemberFails, ReadEnds, Fails, input
<1>6. CASE WriteAndClose
  BY <1>1, <1>6 DEF WriteAndClose, Fails, input
<1>7. CASE UNCHANGED vars
  BY <1>7 DEF vars, input
<1>8. QED
  BY <1>2, <1>3, <1>4, <1>5, <1>6, <1>7 DEF Next, Finished

LEMMA MembersStep == ControlInv /\ [Next]_vars => MembersInv'
<1> SUFFICES ASSUME ControlInv, [Next]_vars PROVE MembersInv'
  OBVIOUS
<1>0. /\ TypeInv /\ HandleInv /\ MembersInv
      /\ Len(members) \in Nat /\ DOMAIN members = 1 .. Len(members)
      /\ cur \in Nat /\ cur \in 1 .. Len(members) + 1
      /\ files \in [DOMAIN members -> [is : {"none", "old", "new"}, bytes : Seq(Nat)]]
      /\ failed \in [DOMAIN members -> SUBSET {"create", "find", "read", "write"}]
  BY MemberTypes DEF ControlInv, TypeInv
<1>1. UNCHANGED <<members, existing>>
  BY <1>0, OthersKept
<1>2. SUFFICES ASSUME NEW m \in DOMAIN members PROVE MemberInv(m)'
  BY <1>1 DEF MembersInv
<1>3. MemberInv(m) /\ m \in Nat
  BY <1>0 DEF MembersInv
\* The loop goes on to the next member or stays.
<1>4. cur' = cur \/ (cur' = cur + 1 /\ pc' = "member")
  BY DEF Next, Finished, vars, OpenFails, Open, SkipAlias, OpenFileCreate, OpenFileCreateFails,
         FindMember, FindMemberFails, ReadRecord, ReadEnds, WriteAndClose, ListEnds, NextMember
<1>5. CASE m # cur
  <2>1. /\ Untouched(m) => Untouched(m)'
        /\ Done(m) => Done(m)'
    BY <1>0, <1>5, OthersKept DEF Untouched, Done
  <2>2. QED
    BY <1>0, <1>1, <1>3, <1>4, <1>5, <2>1 DEF MemberInv, InWork
<1>6. CASE m = cur
  <2>1. CASE Open \/ OpenFails
    <3>1. UNCHANGED <<cur, files, fds, failed>> /\ pc = "open" /\ pc' \in {"member", "done"} /\ Untouched(m)
          /\ (pc' = "done" => bh' # "open")
      BY <1>0, <1>3, <1>6, <2>1 DEF Open, OpenFails, MemberInv, HandleInv
    <3>2. Untouched(m)'
      BY <1>1, <3>1 DEF Untouched
    <3>3. QED
      BY <1>0, <1>1, <1>6, <3>1, <3>2 DEF MemberInv, InWork
  <2>2. CASE SkipAlias
    <3>1. UNCHANGED <<files, fds, failed>> /\ cur' = cur + 1 /\ pc' = "member" /\ members[m].alias /\ Untouched(m)
      BY <1>3, <1>6, <2>2 DEF SkipAlias, NextMember, MemberInv, Member
    <3>2. Untouched(m)'
      BY <1>1, <3>1 DEF Untouched
    <3>3. QED
      BY <1>0, <1>1, <1>3, <1>6, <3>1, <3>2 DEF MemberInv, InWork
  <2>3. CASE OpenFileCreate
    <3>1. /\ UNCHANGED <<cur, failed>> /\ pc = "member" /\ pc' = "find" /\ ~members[m].alias
          /\ files' = [files EXCEPT ![cur] = New(<<>>)] /\ fds' = fds \cup {cur} /\ m \notin existing
          /\ Untouched(m)
      BY <1>3, <1>6, <2>3 DEF OpenFileCreate, MemberInv, Member, CanCreate
    <3>2. files'[m] = New(<<>>)
      BY <1>0, <1>6, <3>1
    <3>3. InProgress(m)'
      BY <1>1, <1>6, <3>1, <3>2 DEF InProgress, Untouched
    <3>4. QED
      BY <1>0, <1>1, <1>6, <3>1, <3>3 DEF MemberInv, InWork
  <2>4. CASE OpenFileCreateFails
    <3>1. /\ UNCHANGED <<cur, fds>> /\ pc = "member" /\ pc' = "done" /\ ~members[m].alias
          /\ \/ files' = files
             \/ m \notin existing /\ files' = [files EXCEPT ![cur] = New(<<>>)]
          /\ failed' = [failed EXCEPT ![cur] = @ \cup {"create"}]
          /\ Untouched(m)
      BY <1>3, <1>6, <2>4 DEF OpenFileCreateFails, MemberInv, Member, CanCreate, Fails
    <3>2. failed'[m] = {"create"}
      BY <1>0, <1>6, <3>1 DEF Untouched
    <3>3. files'[m] = files[m] \/ (m \notin existing /\ files'[m] = New(<<>>))
      BY <1>0, <1>6, <3>1
    <3>4. Refused(m)'
      BY <1>1, <3>1, <3>2, <3>3 DEF Untouched, Refused, Old, None, New
    <3>5. QED
      BY <1>0, <1>1, <1>6, <3>1, <3>4 DEF MemberInv, InWork
  <2>5. CASE FindMember \/ ReadRecord
    <3>1. /\ UNCHANGED <<cur, files, fds, failed>> /\ InWork /\ pc' = "read" /\ ~members[m].alias
          /\ InProgress(m)
      BY <1>0, <1>3, <1>6, <2>5 DEF FindMember, ReadRecord, MemberInv, TypeInv, InWork, Member
    <3>2. InProgress(m)'
      BY <1>1, <3>1 DEF InProgress
    <3>3. QED
      BY <1>0, <1>1, <1>6, <3>1, <3>2 DEF MemberInv, InWork
  <2>6. CASE FindMemberFails
    <3>1. /\ UNCHANGED <<files, fds>> /\ cur' = cur + 1 /\ pc' = "member" /\ ~members[m].alias
          /\ failed' = [failed EXCEPT ![cur] = @ \cup {"find"}]
          /\ InProgress(m)
      BY <1>0, <1>3, <1>6, <2>6 DEF FindMemberFails, NextMember, MemberInv, TypeInv, InWork, Member, Fails
    <3>2. failed'[m] = failed[m] \cup {"find"}
      BY <1>0, <1>6, <3>1
    <3>3. Done(m)'
      BY <1>1, <3>1, <3>2 DEF InProgress, Done, New
    <3>4. QED
      BY <1>0, <1>1, <1>3, <1>6, <3>1, <3>3 DEF MemberInv, InWork
  <2>7. CASE ReadEnds
    <3>1. /\ UNCHANGED <<cur, files, fds>> /\ InWork /\ pc' = "write" /\ ~members[m].alias
          /\ failed' = failed \/ failed' = [failed EXCEPT ![cur] = @ \cup {"read"}]
          /\ InProgress(m)
      BY <1>0, <1>3, <1>6, <2>7 DEF ReadEnds, MemberInv, TypeInv, InWork, Member, Fails
    <3>2. failed'[m] \subseteq failed[m] \cup {"read"}
      BY <1>0, <1>6, <3>1
    <3>3. InProgress(m)'
      BY <1>1, <3>1, <3>2 DEF InProgress
    <3>4. QED
      BY <1>0, <1>1, <1>6, <3>1, <3>3 DEF MemberInv, InWork
  <2>8. CASE WriteAndClose
    <3>1. /\ cur' = cur + 1 /\ pc' = "member" /\ ~members[m].alias /\ fds' = fds \ {cur}
          /\ failed' = failed \/ failed' = [failed EXCEPT ![cur] = @ \cup {"write"}]
          /\ \E bytes : files' = [files EXCEPT ![cur] = New(bytes)]
          /\ InProgress(m)
      BY <1>0, <1>3, <1>6, <2>8 DEF WriteAndClose, NextMember, MemberInv, TypeInv, InWork, Member, Fails
    <3>2. failed'[m] \subseteq failed[m] \cup {"write"}
      BY <1>0, <1>6, <3>1
    <3>3. files'[m].is = "new"
      BY <1>0, <1>6, <3>1 DEF New
    <3>4. Done(m)'
      BY <1>1, <1>6, <3>1, <3>2, <3>3 DEF InProgress, Done
    <3>5. QED
      BY <1>0, <1>1, <1>3, <1>6, <3>1, <3>4 DEF MemberInv, InWork
  <2>9. CASE ListEnds
    BY <1>0, <1>6, <2>9 DEF ListEnds
  <2>10. CASE UNCHANGED vars
    BY <1>3, <2>10 DEF vars, input, MemberInv, Untouched, InProgress, Refused, Done, InWork
  <2>11. QED
    BY <2>1, <2>2, <2>3, <2>4, <2>5, <2>6, <2>7, <2>8, <2>9, <2>10 DEF Next, Finished
<1>7. QED
  BY <1>5, <1>6

\* ControlInv is an invariant: the variables have their types, the handle is open
\* from Open to ListEnds, the members before the current one are done with and
\* those behind it untouched.
THEOREM ControlIsRight == Spec => []ControlInv
<1>1. ControlInv /\ [Next]_vars => ControlInv'
  BY TypeStep, HandleStep, MembersStep DEF ControlInv
<1>2. QED
  BY <1>1, ControlInit, PTL DEF Spec

\* m2f writes no file that was there, stops short of a member only behind one
\* whose file could not be created, keeps the handle then, and leaves open the
\* files of the members that were not found.
THEOREM MembersAreTried == Spec => []EveryMemberTried
<1>1. ControlInv => EveryMemberTried
  <2> SUFFICES ASSUME ControlInv PROVE EveryMemberTried
    OBVIOUS
  <2> DEFINE plain   == { m \in DOMAIN members : ~members[m].alias }
             refused == { m \in plain : "create" \in failed[m] }
  <2>0. /\ TypeInv /\ HandleInv /\ MembersInv
        /\ Len(members) \in Nat /\ DOMAIN members = 1 .. Len(members) /\ existing \subseteq DOMAIN members
        /\ cur \in Nat /\ cur \in 1 .. Len(members) + 1 /\ fds \subseteq DOMAIN members
    BY MemberTypes DEF ControlInv, TypeInv
  <2>1. \A m \in DOMAIN members : MemberInv(m)
    BY <2>0 DEF MembersInv
  <2>2. ASSUME NEW m \in existing PROVE files[m] = Old
    <3>1. MemberInv(m) /\ m \in 1 .. Len(members) /\ pc \in {"open", "member", "done"} \cup {"find", "read", "write"}
      BY <2>0, <2>1 DEF TypeInv
    <3>2. ~Done(m) /\ ~InProgress(m)
      BY DEF Done, InProgress
    <3>3. Untouched(m) \/ Refused(m)
      BY <2>0, <3>1, <3>2 DEF MemberInv, InWork
    <3>4. QED
      BY <3>3 DEF Untouched, Refused
  <2>3. ASSUME pc = "done", bh # "none"
        PROVE  /\ \A m \in plain : files[m].is # "new" => \E r \in refused : r <= m
               /\ \A m \in existing \cap plain : \E r \in refused : r <= m
               /\ bh = "open" <=> refused # {}
               /\ fds = { m \in plain : "find" \in failed[m] }
    <3>1. CASE bh = "open"
      <4>1. cur \in plain /\ Refused(cur)
        BY <2>0, <2>1, <2>3, <3>1 DEF HandleInv, MemberInv, Member
      <4>2. cur \in refused
        BY <4>1 DEF Refused
      <4>3. ASSUME NEW m \in plain, m < cur
            PROVE  m \notin existing /\ files[m].is = "new" /\ (m \in fds <=> "find" \in failed[m])
        BY <2>1, <4>3 DEF MemberInv, Done
      <4>4. ASSUME NEW m \in DOMAIN members, members[m].alias \/ m >= cur
            PROVE  m \notin fds /\ "find" \notin failed[m]
        <5>1. Untouched(m) \/ Refused(m)
          BY <2>0, <2>1, <4>1, <4>4 DEF MemberInv
        <5>2. QED
          BY <5>1 DEF Untouched, Refused
      <4>5. \A m \in plain : files[m].is # "new" \/ m \in existing => cur <= m
        BY <2>0, <4>3
      <4>6. fds = { m \in plain : "find" \in failed[m] }
        BY <2>0, <4>3, <4>4
      <4> HIDE DEF refused
      <4>7. QED
        BY <3>1, <4>2, <4>5, <4>6
    <3>2. CASE bh = "closed"
      <4>1. cur = Len(members) + 1
        BY <2>0, <2>3, <3>2 DEF HandleInv
      <4>2. ASSUME NEW m \in plain
            PROVE  m \notin existing /\ files[m].is = "new" /\ "create" \notin failed[m]
                   /\ (m \in fds <=> "find" \in failed[m])
        BY <2>0, <2>1, <4>1 DEF MemberInv, Done
      <4>3. ASSUME NEW m \in DOMAIN members, members[m].alias PROVE m \notin fds
        BY <2>1, <4>3 DEF MemberInv, Untouched
      <4>4. refused = {} /\ fds = { m \in plain : "find" \in failed[m] }
        BY <2>0, <4>2, <4>3
      <4>5. QED
        BY <3>2, <4>2, <4>4
    <3>3. QED
      BY <2>0, <2>3, <3>1, <3>2 DEF HandleInv
  <2>4. QED
    BY <2>2, <2>3 DEF EveryMemberTried
<1>2. QED
  BY <1>1, ControlIsRight, PTL

------------------------------------------------------------------------------
(* The text of a member, which is defined by recursion                      *)

LEMMA ItemLengths ==
  ASSUME TypeInv, NEW m \in DOMAIN members
  PROVE  /\ Size(m) \in Nat
         /\ Items(m) = 1 .. Size(m)
         /\ \A i \in 1 .. Size(m) : LenOf(m, i) \in Nat
<1>1. members[m].lens \in Seq(Nat)
  BY MemberTypes
<1>2. Len(members[m].lens) \in Nat /\ \A r \in 1 .. Len(members[m].lens) : members[m].lens[r] \in Nat
  BY <1>1
<1>3. ASSUME NEW i \in 1 .. Size(m), i % 2 # 0
      PROVE  (i + 1) \div 2 \in 1 .. Len(members[m].lens)
  <2> PICK n \in Nat : n = Len(members[m].lens)
    BY <1>2
  <2>1. i \in 1 .. 2 * n
    BY DEF Size
  <2>2. (i + 1) \div 2 \in 1 .. n
    BY <1>3, <2>1
  <2>3. QED
    BY <2>2
<1>4. \A i \in 1 .. Size(m) : LenOf(m, i) \in Nat
  BY <1>2, <1>3 DEF LenOf
<1>5. QED
  BY <1>2, <1>4 DEF Size, Items

\* What the recursion defines.
LEMMA UptoIs ==
  ASSUME TypeInv, NEW m \in DOMAIN members
  PROVE  /\ Upto(m)[0] = <<>>
         /\ \A i \in 0 .. Size(m) : Upto(m)[i] \in Seq(Nat)
         /\ \A i \in 1 .. Size(m) : Upto(m)[i] = Upto(m)[i - 1] \o Item(i, LenOf(m, i))
<1> DEFINE N == Size(m)
           I(i) == Item(i, LenOf(m, i))
           step == [i \in 1 .. N |-> [s \in Seq(Nat) |-> s \o I(i)]]
<1>1. N \in Nat /\ \A i \in 1 .. N : I(i) \in Seq(Nat)
  BY ItemLengths, ItemType
<1>2. Upto(m) = CHOOSE f : f = [i \in 0 .. N |-> IF i = 0 THEN <<>> ELSE f[i - 1] \o I(i)]
  BY DEF Upto, Size
<1> HIDE DEF N, I
<1>3. step \in [1 .. N -> [Seq(Nat) -> Seq(Nat)]]
  <2>1. \A i \in 1 .. N : \A s \in Seq(Nat) : s \o I(i) \in Seq(Nat)
    BY <1>1, ConcatProperties
  <2>2. QED
    BY <2>1
<1>4. PICK g \in [0 .. N -> Seq(Nat)] : g[0] = <<>> /\ \A i \in 1 .. N : g[i] = step[i][g[i - 1]]
  <2>1. <<>> \in Seq(Nat)
    OBVIOUS
  <2> HIDE DEF step
  <2>2. step \in Steps(N, Seq(Nat))
    BY <1>3 DEF Steps
  <2>3. \E g \in Walks(N, Seq(Nat)) : Follows(g, <<>>, step, N)
    BY <1>1, <2>1, <2>2, Recursion
  <2>4. QED
    BY <2>3 DEF Walks, Follows
<1> DEFINE F(f) == [i \in 0 .. N |-> IF i = 0 THEN <<>> ELSE f[i - 1] \o I(i)]
<1>5. \A f : f = F(f) => DOMAIN f = 0 .. N /\ f[0] = <<>> /\ \A i \in 1 .. N : f[i] = f[i - 1] \o I(i)
  <2> TAKE f
  <2> HAVE f = F(f)
  <2>1. DOMAIN f = 0 .. N /\ \A i \in 0 .. N : f[i] = IF i = 0 THEN <<>> ELSE f[i - 1] \o I(i)
    OBVIOUS
  <2>2. 0 \in 0 .. N /\ \A i \in 1 .. N : i \in 0 .. N /\ i # 0
    BY <1>1
  <2> HIDE DEF F
  <2>3. QED
    BY <2>1, <2>2
<1>6. \A i \in 1 .. N : g[i] = g[i - 1] \o I(i)
  <2>1. \A i \in 1 .. N : i - 1 \in 0 .. N
    BY <1>1
  <2>2. QED
    BY <1>4, <2>1
<1>7. g = F(g)
  <2>1. \A i \in 0 .. N : i = 0 \/ i \in 1 .. N
    BY <1>1
  <2>2. \A i \in 0 .. N : g[i] = IF i = 0 THEN <<>> ELSE g[i - 1] \o I(i)
    BY <1>4, <1>6, <2>1
  <2>3. QED
    BY <2>2
<1> DEFINE u == Upto(m)
<1>8. u = F(u)
  <2> HIDE DEF F
  <2>1. QED
    BY <1>2, <1>7 DEF F
<1>9. u[0] = <<>> /\ \A i \in 1 .. N : u[i] = u[i - 1] \o I(i)
  <2> HIDE DEF F, u
  <2>1. QED
    BY <1>5, <1>8
<1>10. \A i \in 0 .. N : u[i] \in Seq(Nat)
  <2> DEFINE T == { i \in 0 .. N : u[i] \in Seq(Nat) }
  <2> HIDE DEF u
  <2>1. 0 \in T
    <3>1. 0 \in 0 .. N /\ <<>> \in Seq(Nat)
      BY <1>1
    <3>2. QED
      BY <1>9, <3>1
  <2>2. ASSUME NEW n \in T, n < N PROVE n + 1 \in T
    <3>1. n + 1 \in 1 .. N /\ n + 1 \in 0 .. N /\ (n + 1) - 1 = n
      BY <1>1, <2>2
    <3>2. u[n + 1] = u[n] \o I(n + 1)
      BY <1>9, <3>1
    <3>3. u[n] \in Seq(Nat) /\ I(n + 1) \in Seq(Nat)
      BY <1>1, <2>2, <3>1
    <3>4. u[n] \o I(n + 1) \in Seq(Nat)
      BY <3>3, ConcatProperties
    <3>5. QED
      BY <3>1, <3>2, <3>4
  <2>3. 0 .. N \subseteq T
    <3>1. T \in SUBSET Nat
      OBVIOUS
    <3> HIDE DEF T
    <3>2. QED
      BY <1>1, <2>1, <2>2, <3>1, UpTo
  <2>4. QED
    BY <2>3
<1>11. QED
  BY <1>9, <1>10 DEF N, I

------------------------------------------------------------------------------
(* The buffer                                                               *)

LEMMA CountNone ==
  ASSUME NEW s \in Seq(Nat), NEW i, \A b \in DOMAIN s : s[b] # i
  PROVE  Count(s, i) = 0
<1>1. { b \in DOMAIN s : s[b] = i } = {}
  OBVIOUS
<1>2. QED
  BY <1>1, FS_EmptySet DEF Count

\* t is s, of length n, with l times k after it.
Longer(t, s, n, k, l) ==
  /\ n = Len(s) /\ Len(t) = n + l
  /\ DOMAIN s = 1 .. n /\ DOMAIN t = 1 .. n + l
  /\ \A b \in 1 .. n : t[b] = s[b]
  /\ \A b \in n + 1 .. n + l : t[b] = k

LEMMA Appended ==
  ASSUME NEW s \in Seq(Nat), NEW k \in Nat, NEW l \in Nat
  PROVE  \E n \in Nat : Longer(s \o Item(k, l), s, n, k, l)
<1> DEFINE t == Item(k, l)
<1>1. t \in Seq(Nat) /\ Len(t) = l /\ \A b \in 1 .. l : t[b] = k
  BY ItemType
<1> HIDE DEF t
<1>2. /\ s \o t \in Seq(Nat)
      /\ Len(s \o t) = Len(s) + Len(t)
      /\ \A b \in 1 .. Len(s) + Len(t) : (s \o t)[b] = IF b <= Len(s) THEN s[b] ELSE t[b - Len(s)]
  BY <1>1, ConcatProperties
<1>3. PICK n \in Nat : n = Len(s)
  OBVIOUS
<1>4. DOMAIN s = 1 .. n /\ DOMAIN (s \o t) = 1 .. n + l
  BY <1>1, <1>2, <1>3
<1>5. \A b \in 1 .. n : b \in 1 .. n + l /\ b <= n
  OBVIOUS
<1>6. \A b \in n + 1 .. n + l : b \in 1 .. n + l /\ ~(b <= n) /\ b - n \in 1 .. l
  OBVIOUS
<1>7. \A b \in 1 .. n : (s \o t)[b] = s[b]
  BY <1>1, <1>2, <1>3, <1>5
<1>8. \A b \in n + 1 .. n + l : (s \o t)[b] = k
  BY <1>1, <1>2, <1>3, <1>6
<1>9. Len(s \o t) = n + l
  BY <1>1, <1>2, <1>3
<1>10. QED
  BY <1>3, <1>4, <1>7, <1>8, <1>9 DEF t, Longer

LEMMA CountNew ==
  ASSUME NEW s \in Seq(Nat), NEW k \in Nat, NEW l \in Nat, \A b \in DOMAIN s : s[b] # k
  PROVE  Count(s \o Item(k, l), k) = l
<1> DEFINE t == s \o Item(k, l)
<1>0. PICK n \in Nat : Longer(t, s, n, k, l)
  BY Appended
<1> HIDE DEF t
<1>1. /\ DOMAIN s = 1 .. n /\ DOMAIN t = 1 .. n + l
      /\ \A b \in 1 .. n : t[b] = s[b]
      /\ \A b \in n + 1 .. n + l : t[b] = k
  BY <1>0 DEF Longer
<1>2. \A b \in 1 .. n + l : b \in 1 .. n \/ b \in n + 1 .. n + l
  OBVIOUS
<1>3. \A b \in n + 1 .. n + l : b \in 1 .. n + l
  OBVIOUS
<1>4. { b \in DOMAIN t : t[b] = k } = n + 1 .. n + l
  BY <1>1, <1>2, <1>3
<1>5. Cardinality(n + 1 .. n + l) = IF n + 1 > n + l THEN 0 ELSE (n + l) - (n + 1) + 1
  BY FS_Interval
<1>6. Cardinality(n + 1 .. n + l) = l
  BY <1>5
<1>7. QED
  BY <1>4, <1>6 DEF Count, t

LEMMA CountOld ==
  ASSUME NEW s \in Seq(Nat), NEW k \in Nat, NEW l \in Nat, NEW i, i # k
  PROVE  Count(s \o Item(k, l), i) = Count(s, i)
<1> DEFINE t == s \o Item(k, l)
<1>0. PICK n \in Nat : Longer(t, s, n, k, l)
  BY Appended
<1> HIDE DEF t
<1>1. /\ DOMAIN s = 1 .. n /\ DOMAIN t = 1 .. n + l
      /\ \A b \in 1 .. n : t[b] = s[b]
      /\ \A b \in n + 1 .. n + l : t[b] = k
  BY <1>0 DEF Longer
<1>2. \A b \in 1 .. n + l : b \in 1 .. n \/ b \in n + 1 .. n + l
  OBVIOUS
<1>3. \A b \in 1 .. n : b \in 1 .. n + l
  OBVIOUS
<1>4. { b \in DOMAIN t : t[b] = i } = { b \in DOMAIN s : s[b] = i }
  BY <1>1, <1>2, <1>3
<1>5. QED
  BY <1>4 DEF Count, t

LEMMA FilledNone ==
  ASSUME TypeInv, NEW m \in DOMAIN members
  PROVE  Filled(<<>>, m, 0)
<1>1. DOMAIN <<>> = {} /\ Len(<<>>) = 0 /\ (1 .. 0) = {}
  OBVIOUS
<1>2. QED
  BY <1>1, UptoIs, M2FAssumption DEF Filled

\* One more item: it goes in whole, or there is no room for it.
LEMMA FilledMore ==
  ASSUME TypeInv, NEW m \in DOMAIN members, NEW k \in Nat, k + 1 \in 1 .. Size(m),
         NEW buffer \in Seq(Nat), Filled(buffer, m, k)
  PROVE  Filled(BufferWrite(buffer, Item(k + 1, LenOf(m, k + 1))), m, k + 1)
<1> DEFINE l == LenOf(m, k + 1)
           u == Upto(m)
           t == buffer \o Item(k + 1, l)
<1>1. l \in Nat /\ Size(m) \in Nat /\ \A i \in 1 .. k + 1 : LenOf(m, i) \in Nat
  <2>1. Size(m) \in Nat /\ \A i \in 1 .. Size(m) : LenOf(m, i) \in Nat
    BY ItemLengths
  <2>2. \A i \in 1 .. k + 1 : i \in 1 .. Size(m)
    BY <2>1
  <2>3. QED
    BY <2>1, <2>2
<1>2. Len(Item(k + 1, l)) = l /\ Item(k + 1, l) \in Seq(Nat)
  BY <1>1, ItemType
<1>3. /\ u[k + 1] = u[k] \o Item(k + 1, l)
      /\ u[k] \in Seq(Nat)
  <2>1. k \in 0 .. Size(m) /\ (k + 1) - 1 = k
    BY <1>1
  <2>2. QED
    BY <2>1, UptoIs
<1> HIDE DEF l, u, t
<1>4. /\ \A b \in DOMAIN buffer : buffer[b] \in 1 .. k
      /\ \A i, j \in DOMAIN buffer : i < j => buffer[i] <= buffer[j]
      /\ \A i \in 1 .. k :
           \/ Count(buffer, i) = LenOf(m, i)
           \/ Count(buffer, i) = 0 /\ Len(buffer) + LenOf(m, i) > MaxTextFileSize
      /\ Len(buffer) <= MaxTextFileSize
      /\ Len(u[k]) <= MaxTextFileSize => buffer = u[k]
  BY DEF Filled, u
<1>5. /\ Len(u[k + 1]) = Len(u[k]) + l /\ Len(u[k]) \in Nat
      /\ Len(buffer) \in Nat
  <2>0. u[k] \in Seq(Nat) /\ k + 1 \in Nat /\ l \in Nat
    BY <1>1, <1>3
  <2>1. PICK n \in Nat : Longer(u[k] \o Item(k + 1, l), u[k], n, k + 1, l)
    BY <2>0, Appended
  <2>2. Longer(u[k + 1], u[k], n, k + 1, l)
    BY <1>3, <2>1
  <2>3. Len(buffer) \in Nat
    OBVIOUS
  <2>4. QED
    BY <2>2, <2>3 DEF Longer
<1>6. MaxTextFileSize \in Nat
  BY M2FAssumption
<1>7. \A b \in DOMAIN buffer : buffer[b] # k + 1 /\ buffer[b] \in 1 .. k + 1
  BY <1>4
<1>8. \A i \in 1 .. k + 1 : i \in 1 .. k \/ i = k + 1
  OBVIOUS
<1>9. CASE Len(buffer) + l > MaxTextFileSize
  <2>1. BufferWrite(buffer, Item(k + 1, l)) = buffer
    BY <1>2, <1>9 DEF BufferWrite
  <2>2. Count(buffer, k + 1) = 0
    BY <1>7, CountNone
  <2>3. ~(Len(u[k + 1]) <= MaxTextFileSize)
    <3>1. CASE Len(u[k]) <= MaxTextFileSize
      <4>1. Len(u[k + 1]) = Len(buffer) + l
        BY <1>4, <1>5, <3>1
      <4>2. QED
        BY <1>1, <1>5, <1>6, <1>9, <4>1
    <3>2. CASE ~(Len(u[k]) <= MaxTextFileSize)
      BY <1>1, <1>5, <1>6, <3>2
    <3>3. QED
      BY <3>1, <3>2
  <2>4. \A i \in 1 .. k + 1 :
           \/ Count(buffer, i) = LenOf(m, i)
           \/ Count(buffer, i) = 0 /\ Len(buffer) + LenOf(m, i) > MaxTextFileSize
    BY <1>4, <1>8, <1>9, <2>2 DEF l
  <2>5. Filled(buffer, m, k + 1)
    BY <1>4, <1>7, <2>3, <2>4 DEF Filled, u
  <2>6. QED
    BY <2>1, <2>5 DEF l
<1>10. CASE ~(Len(buffer) + l > MaxTextFileSize)
  <2>1. BufferWrite(buffer, Item(k + 1, l)) = t
    BY <1>2, <1>10 DEF BufferWrite, t
  <2>2. PICK n \in Nat : Longer(t, buffer, n, k + 1, l)
    BY <1>1, Appended DEF t
  <2>3. /\ n = Len(buffer) /\ Len(t) = n + l /\ DOMAIN buffer = 1 .. n /\ DOMAIN t = 1 .. n + l
        /\ \A b \in 1 .. n : t[b] = buffer[b]
        /\ \A b \in n + 1 .. n + l : t[b] = k + 1
    BY <2>2 DEF Longer
  <2>4. \A b \in 1 .. n + l : b \in 1 .. n \/ b \in n + 1 .. n + l
    BY <1>1
  <2>5. \A b \in DOMAIN t : t[b] \in 1 .. k + 1
    BY <1>7, <2>3, <2>4
  <2>6. ASSUME NEW i \in DOMAIN t, NEW j \in DOMAIN t, i < j PROVE t[i] <= t[j]
    <3>1. CASE j \in 1 .. n
      <4>1. i \in 1 .. n
        BY <1>1, <2>3, <2>6, <3>1
      <4>2. QED
        BY <1>4, <2>3, <2>6, <3>1, <4>1
    <3>2. CASE j \in n + 1 .. n + l
      <4>1. t[j] = k + 1 /\ t[i] \in 1 .. k + 1
        BY <2>3, <2>5, <3>2
      <4>2. QED
        BY <4>1
    <3>3. QED
      BY <2>3, <2>4, <3>1, <3>2
  <2>7. ASSUME NEW i \in 1 .. k + 1
        PROVE  \/ Count(t, i) = LenOf(m, i)
               \/ Count(t, i) = 0 /\ Len(t) + LenOf(m, i) > MaxTextFileSize
    <3>1. CASE i = k + 1
      <4>1. Count(buffer \o Item(k + 1, l), k + 1) = l
        BY <1>1, <1>7, CountNew
      <4>2. QED
        BY <3>1, <4>1 DEF t, l
    <3>2. CASE i \in 1 .. k
      <4>1. Count(buffer \o Item(k + 1, l), i) = Count(buffer, i)
        <5>1. i # k + 1 /\ k + 1 \in Nat
          BY <3>2
        <5>2. QED
          BY <1>1, <5>1, CountOld
      <4>2. \/ Count(t, i) = LenOf(m, i)
            \/ Count(t, i) = 0 /\ n + LenOf(m, i) > MaxTextFileSize
        BY <1>4, <2>3, <3>2, <4>1 DEF t
      <4>3. n + LenOf(m, i) > MaxTextFileSize => (n + l) + LenOf(m, i) > MaxTextFileSize
        BY <1>1, <1>6
      <4>4. QED
        BY <2>3, <4>2, <4>3
    <3>3. QED
      BY <1>8, <3>1, <3>2
  <2>8. Len(t) <= MaxTextFileSize
    BY <1>1, <1>6, <1>10, <2>3
  <2>9. Len(u[k + 1]) <= MaxTextFileSize => t = u[k + 1]
    <3>1. Len(u[k + 1]) <= MaxTextFileSize => Len(u[k]) <= MaxTextFileSize
      BY <1>1, <1>5, <1>6
    <3>2. QED
      BY <1>3, <1>4, <3>1 DEF t
  <2>10. Filled(t, m, k + 1)
    BY <2>5, <2>6, <2>7, <2>8, <2>9 DEF Filled, u
  <2>11. QED
    BY <2>1, <2>10 DEF l
<1>11. QED
  BY <1>9, <1>10

\* The bytes that a member should have do not change.
LEMMA FilledKept ==
  ASSUME UNCHANGED members, NEW bytes, NEW m, NEW k
  PROVE  Filled(bytes, m, k) <=> Filled(bytes, m, k)'
BY DEF Filled, LenOf, Upto

\* Record r + 1 and its newline.
LEMMA FilledRecord ==
  ASSUME TypeInv, NEW m \in DOMAIN members, NEW r \in Nat, r < Len(members[m].lens),
         NEW buffer \in Seq(Nat), Filled(buffer, m, 2 * r)
  PROVE  Filled(BufferWrite(BufferWrite(buffer, Item(2 * r + 1, members[m].lens[r + 1])),
                            Item(2 * r + 2, 1)), m, 2 * (r + 1))
<1>1. PICK n \in Nat : n = Len(members[m].lens)
  BY MemberTypes
<1>2. /\ 2 * r \in Nat /\ 2 * r + 1 \in Nat
      /\ 2 * r + 1 \in 1 .. Size(m) /\ (2 * r + 1) + 1 \in 1 .. Size(m)
      /\ (2 * r + 1) + 1 = 2 * r + 2 /\ 2 * (r + 1) = 2 * r + 2
      /\ (2 * r + 1) % 2 # 0 /\ ((2 * r + 1) + 1) \div 2 = r + 1 /\ (2 * r + 2) % 2 = 0
  <2>1. /\ 2 * r \in Nat /\ 2 * r + 1 \in Nat
        /\ 2 * r + 1 \in 1 .. 2 * n /\ (2 * r + 1) + 1 \in 1 .. 2 * n
        /\ (2 * r + 1) + 1 = 2 * r + 2 /\ 2 * (r + 1) = 2 * r + 2
    BY <1>1
  <2>2. /\ (2 * r + 1) % 2 # 0 /\ ((2 * r + 1) + 1) \div 2 = r + 1 /\ (2 * r + 2) % 2 = 0
    OBVIOUS
  <2>3. QED
    BY <1>1, <2>1, <2>2 DEF Size
<1>3. LenOf(m, 2 * r + 1) = members[m].lens[r + 1] /\ LenOf(m, 2 * r + 2) = 1
  BY <1>2 DEF LenOf
<1>4. LenOf(m, 2 * r + 1) \in Nat
  BY <1>2, ItemLengths
<1> DEFINE line == BufferWrite(buffer, Item(2 * r + 1, LenOf(m, 2 * r + 1)))
<1>5. line \in Seq(Nat)
  BY <1>2, <1>4, BufferWriteType
<1>6. Filled(line, m, 2 * r + 1)
  BY <1>2, FilledMore
<1> HIDE DEF line
<1>7. Filled(BufferWrite(line, Item((2 * r + 1) + 1, LenOf(m, (2 * r + 1) + 1))), m, (2 * r + 1) + 1)
  <2> DEFINE k == 2 * r + 1
  <2>1. k \in Nat /\ k + 1 \in 1 .. Size(m) /\ Filled(line, m, k)
    BY <1>2, <1>6
  <2> HIDE DEF k
  <2>2. Filled(BufferWrite(line, Item(k + 1, LenOf(m, k + 1))), m, k + 1)
    BY <1>5, <2>1, FilledMore
  <2>3. QED
    BY <2>2 DEF k
<1>8. Filled(BufferWrite(line, Item(2 * r + 2, LenOf(m, 2 * r + 2))), m, 2 * (r + 1))
  BY <1>2, <1>7
<1>9. QED
  BY <1>3, <1>8 DEF line

LEMMA BufferStep == ControlInv /\ BufferInv /\ [Next]_vars => BufferInv'
<1> SUFFICES ASSUME ControlInv, BufferInv, [Next]_vars PROVE BufferInv'
  OBVIOUS
<1>0. /\ TypeInv /\ UNCHANGED <<members, existing>>
      /\ InWork => cur \in DOMAIN members
      /\ Len(members) \in Nat /\ DOMAIN members = 1 .. Len(members)
  BY OthersKept, MemberTypes DEF ControlInv, TypeInv
<1>1. CASE pc' \in {"open", "member", "done"}
  BY <1>1 DEF BufferInv
<1>2. CASE OpenFileCreate
  BY <1>2 DEF OpenFileCreate, BufferInv
<1>3. PICK B, m, r : B = file_buffer /\ m = cur /\ r = rec
  OBVIOUS
\* In terms of the values before the step.
<1>4. ASSUME NEW C, NEW q, UNCHANGED cur, file_buffer' = C, rec' = q, m \in DOMAIN members,
             pc' \in {"read", "write"}, q <= Len(members[m].lens), Filled(C, m, 2 * q),
             pc' = "write" /\ "read" \notin failed'[m] => q = Len(members[m].lens)
      PROVE  BufferInv'
  <2>0. Filled(C, cur, 2 * q) /\ UNCHANGED <<members, cur>>
    BY <1>0, <1>3, <1>4
  <2>1. Upto(cur)' = Upto(cur)
    BY <2>0 DEF Upto, LenOf
  <2>2. file_buffer' = C /\ rec' = q
    BY <1>4
  <2>3. Filled(file_buffer, cur, 2 * rec)'
    BY <2>0, <2>1, <2>2 DEF Filled, LenOf
  <2>4. members'[cur'].lens = members[m].lens
    BY <1>0, <1>3, <1>4
  <2>5. QED
    BY <1>3, <1>4, <2>3, <2>4 DEF BufferInv, Member
<1>5. CASE FindMember
  <2>1. /\ file_buffer' = <<>> /\ rec' = 0 /\ pc' = "read" /\ UNCHANGED <<members, cur>>
        /\ m \in DOMAIN members
    BY <1>0, <1>3, <1>5 DEF FindMember, BufferInv, InWork, input
  <2>2. Filled(<<>>, m, 2 * 0)
    BY <1>0, <2>1, FilledNone
  <2>3. 0 <= Len(members[m].lens)
    BY <1>0, <2>1, MemberTypes
  <2>4. QED
    BY <1>4, <2>1, <2>2, <2>3
<1>6. CASE ReadRecord
  <2>1. /\ UNCHANGED <<pc, cur>> /\ pc = "read" /\ r < Len(members[m].lens) /\ rec' = r + 1
        /\ m \in DOMAIN members
        /\ file_buffer' = BufferWrite(BufferWrite(B, Item(2 * r + 1, members[m].lens[r + 1])),
                                      Item(2 * r + 2, 1))
        /\ Filled(B, m, 2 * r)
    BY <1>0, <1>3, <1>6 DEF ReadRecord, BufferInv, InWork, Member
  <2>2. r \in Nat /\ B \in Seq(Nat)
    BY <1>0, <1>3 DEF TypeInv
  <2>3. Filled(BufferWrite(BufferWrite(B, Item(2 * r + 1, members[m].lens[r + 1])),
                           Item(2 * r + 2, 1)), m, 2 * (r + 1))
    BY <1>0, <2>1, <2>2, FilledRecord
  <2>4. r + 1 <= Len(members[m].lens)
    BY <1>0, <2>1, <2>2, MemberTypes
  <2>5. PICK C : C = BufferWrite(BufferWrite(B, Item(2 * r + 1, members[m].lens[r + 1])),
                                 Item(2 * r + 2, 1))
    OBVIOUS
  <2>6. pc' = "read" /\ file_buffer' = C /\ Filled(C, m, 2 * (r + 1))
    BY <2>1, <2>3, <2>5
  <2>7. QED
    BY <1>4, <2>1, <2>4, <2>6
<1>7. CASE ReadEnds
  <2>1. /\ UNCHANGED <<cur, rec, file_buffer>> /\ pc = "read" /\ pc' = "write"
        /\ m \in DOMAIN members /\ r <= Len(members[m].lens) /\ Filled(B, m, 2 * r)
        /\ r # Len(members[m].lens) => Fails("read")
    BY <1>0, <1>3, <1>7 DEF ReadEnds, BufferInv, InWork, Member
  <2>2. Fails("read") => "read" \in failed'[m]
    <3>1. m \in DOMAIN failed
      BY <1>0, <2>1 DEF TypeInv
    <3>2. QED
      BY <1>3, <3>1 DEF Fails
  <2>3. QED
    BY <1>3, <1>4, <2>1, <2>2
<1>8. CASE UNCHANGED vars
  <2>1. UNCHANGED <<pc, cur, rec, file_buffer, failed>>
    BY <1>8 DEF vars
  <2>2. CASE pc \in {"open", "member", "done", "find"}
    BY <2>1, <2>2 DEF BufferInv
  <2>3. CASE pc \in {"read", "write"}
    <3>1. /\ m \in DOMAIN members /\ r <= Len(members[m].lens) /\ Filled(B, m, 2 * r)
          /\ pc = "write" /\ "read" \notin failed[m] => r = Len(members[m].lens)
      BY <1>0, <1>3, <2>3 DEF BufferInv, InWork, Member
    <3>2. QED
      BY <1>3, <1>4, <2>1, <2>3, <3>1
  <2>4. QED
    BY <1>0, <2>2, <2>3 DEF TypeInv
<1>9. QED
  BY <1>1, <1>2, <1>5, <1>6, <1>7, <1>8
  DEF Next, Finished, OpenFails, Open, ListEnds, SkipAlias, OpenFileCreateFails, FindMemberFails,
      WriteAndClose, NextMember

------------------------------------------------------------------------------
(* The files                                                                *)

LEMMA FileEmpty ==
  ASSUME TypeInv, NEW m \in DOMAIN members, NEW calls, NEW behind, ~behind \/ calls # {}
  PROVE  FileInv(m, <<>>, calls, behind)
<1>1. DOMAIN <<>> = {} /\ 0 \in 0 .. Size(m)
  BY ItemLengths
<1>2. Filled(<<>>, m, 0)
  BY FilledNone
<1>3. QED
  BY <1>1, <1>2 DEF FileInv

LEMMA FilledRange ==
  ASSUME TypeInv, NEW m \in DOMAIN members, NEW bytes, NEW k \in 0 .. Size(m), Filled(bytes, m, k)
  PROVE  /\ \A b \in DOMAIN bytes : bytes[b] \in 1 .. Size(m)
         /\ \A i, j \in DOMAIN bytes : i < j => bytes[i] <= bytes[j]
<1>1. Size(m) \in Nat
  BY ItemLengths
<1>2. \A i \in 1 .. k : i \in 1 .. Size(m)
  BY <1>1
<1>3. QED
  BY <1>2 DEF Filled

\* The file is written.
LEMMA FileWritten ==
  ASSUME TypeInv, NEW m \in DOMAIN members, NEW bytes, NEW k \in 0 .. Size(m),
         Filled(bytes, m, k), NEW calls, NEW behind, calls = {} => k = Size(m)
  PROVE  FileInv(m, bytes, calls, behind)
BY FilledRange DEF FileInv

\* A part of it is written.
LEMMA FileCut ==
  ASSUME TypeInv, NEW m \in DOMAIN members, NEW bytes \in Seq(Nat), NEW k \in 0 .. Size(m),
         Filled(bytes, m, k), NEW calls, "write" \in calls, NEW behind,
         NEW n \in 0 .. Len(bytes)
  PROVE  FileInv(m, SubSeq(bytes, 1, n), calls, behind)
<1> DEFINE part == SubSeq(bytes, 1, n)
<1>1. DOMAIN part = 1 .. n /\ \A b \in 1 .. n : part[b] = bytes[b]
  OBVIOUS
<1>2. \A b \in 1 .. n : b \in DOMAIN bytes
  OBVIOUS
<1> HIDE DEF part
<1>3. \A b \in DOMAIN part : part[b] \in 1 .. Size(m)
  BY <1>1, <1>2, FilledRange
<1>4. \A i, j \in DOMAIN part : i < j => part[i] <= part[j]
  BY <1>1, <1>2, FilledRange
<1>5. FileInv(m, part, calls, behind)
  BY <1>3, <1>4 DEF FileInv
<1>6. QED
  BY <1>5 DEF part

LEMMA FileKept ==
  ASSUME UNCHANGED members, NEW m, NEW bytes, NEW calls, NEW behind
  PROVE  FileInv(m, bytes, calls, behind) <=> FileInv(m, bytes, calls, behind)'
<1>1. \A k : Filled(bytes, m, k) <=> Filled(bytes, m, k)'
  BY FilledKept
<1>2. Size(m)' = Size(m)
  BY DEF Size
<1>3. QED
  BY <1>1, <1>2 DEF FileInv

LEMMA FilesStep == ControlInv /\ BufferInv /\ FilesInv /\ [Next]_vars => FilesInv'
<1> SUFFICES ASSUME ControlInv, BufferInv, FilesInv, [Next]_vars PROVE FilesInv'
  OBVIOUS
<1>0. /\ TypeInv /\ HandleInv /\ MembersInv /\ UNCHANGED <<members, existing>>
      /\ Len(members) \in Nat /\ DOMAIN members = 1 .. Len(members)
      /\ cur \in Nat
      /\ files \in [DOMAIN members -> [is : {"none", "old", "new"}, bytes : Seq(Nat)]]
      /\ failed \in [DOMAIN members -> SUBSET {"create", "find", "read", "write"}]
  BY OthersKept, MemberTypes DEF ControlInv, TypeInv
<1> SUFFICES ASSUME NEW m \in DOMAIN members, files'[m].is = "new"
             PROVE  FileInv(m, files[m].bytes, failed[m], m < cur)'
  <2>1. DOMAIN members' = DOMAIN members
    BY <1>0
  <2>2. QED
    BY <2>1 DEF FilesInv
\* In terms of the values after the step.
<1>1. ASSUME NEW bytes, NEW calls, NEW behind, FileInv(m, bytes, calls, behind),
             files'[m].bytes = bytes, failed'[m] = calls, (m < cur') = behind
      PROVE  FileInv(m, files[m].bytes, failed[m], m < cur)'
  <2>1. FileInv(m, bytes, calls, behind)'
    BY <1>0, <1>1, FileKept
  <2>2. QED
    BY <1>1, <2>1 DEF FileInv
<1>2. CASE files'[m] = files[m] /\ failed'[m] = failed[m] /\ (m < cur') = (m < cur)
  <2>1. FileInv(m, files[m].bytes, failed[m], m < cur)
    BY <1>2 DEF FilesInv
  <2>2. PICK bytes, calls, behind : bytes = files[m].bytes /\ calls = failed[m] /\ behind = (m < cur)
    OBVIOUS
  <2>3. FileInv(m, bytes, calls, behind)
    BY <2>1, <2>2
  <2>4. files'[m].bytes = bytes /\ failed'[m] = calls /\ (m < cur') = behind
    BY <1>2, <2>2
  <2>5. QED
    BY <1>1, <2>3, <2>4
<1>3. CASE m # cur
  <2>1. files'[m] = files[m] /\ failed'[m] = failed[m]
    BY <1>0, <1>3, OthersKept
  <2>2. cur' = cur \/ cur' = cur + 1
    BY DEF Next, OpenFails, Open, SkipAlias, OpenFileCreate, OpenFileCreateFails, FindMember,
           FindMemberFails, ReadRecord, ReadEnds, WriteAndClose, ListEnds, Finished, NextMember, vars
  <2>3. (m < cur') = (m < cur)
    BY <1>0, <1>3, <2>2
  <2>4. QED
    BY <1>2, <2>1, <2>3
<1>4. CASE OpenFails \/ Open \/ ListEnds \/ FindMember \/ ReadRecord \/ UNCHANGED vars
  <2>1. UNCHANGED <<files, failed, cur>>
    BY <1>4 DEF OpenFails, Open, ListEnds, FindMember, ReadRecord, vars
  <2>2. QED
    BY <1>2, <2>1
\* The file in work is empty.
<1>5. ASSUME m = cur, InWork
      PROVE  files[m] = New(<<>>) /\ failed[m] \subseteq {"read"}
  BY <1>0, <1>5 DEF MembersInv, MemberInv, InProgress
<1>6. ASSUME m = cur, pc = "member" PROVE files[m].is # "new"
  BY <1>0, <1>6 DEF MembersInv, MemberInv, Untouched, Old, None
<1>7. ASSUME files'[m] = New(<<>>), ~(m < cur') \/ failed'[m] # {}
      PROVE  FileInv(m, files[m].bytes, failed[m], m < cur)'
  <2>1. PICK calls, behind : calls = failed'[m] /\ behind = (m < cur')
    OBVIOUS
  <2>2. FileInv(m, <<>>, calls, behind)
    BY <1>0, <1>7, <2>1, FileEmpty
  <2>3. files'[m].bytes = <<>>
    BY <1>7 DEF New
  <2>4. QED
    BY <1>1, <2>1, <2>2, <2>3
<1>8. CASE m = cur /\ SkipAlias
  BY <1>6, <1>8 DEF SkipAlias
<1>9. CASE m = cur /\ OpenFileCreate
  <2>1. files'[m] = New(<<>>) /\ cur' = cur
    BY <1>0, <1>9 DEF OpenFileCreate
  <2>2. QED
    BY <1>0, <1>7, <1>9, <2>1
<1>10. CASE m = cur /\ OpenFileCreateFails
  <2>1. /\ files' = files \/ files'[m] = New(<<>>)
        /\ cur' = cur /\ pc = "member"
    BY <1>0, <1>10 DEF OpenFileCreateFails
  <2>2. files'[m] = New(<<>>)
    BY <1>6, <1>10, <2>1
  <2>3. QED
    BY <1>0, <1>7, <1>10, <2>1, <2>2
<1>11. CASE m = cur /\ FindMemberFails
  <2>1. files' = files /\ failed'[m] # {} /\ InWork
    BY <1>0, <1>11 DEF FindMemberFails, Fails, InWork
  <2>2. QED
    BY <1>5, <1>7, <1>11, <2>1
<1>12. CASE m = cur /\ ReadEnds
  <2>1. files' = files /\ cur' = cur /\ InWork
    BY <1>12 DEF ReadEnds, InWork
  <2>2. QED
    BY <1>0, <1>5, <1>7, <1>12, <2>1
<1>13. CASE m = cur /\ WriteAndClose
  <2>1. PICK B, r, calls, behind :
          B = file_buffer /\ r = rec /\ calls = failed'[m] /\ behind = (m < cur')
    OBVIOUS
  <2>2. /\ B \in Seq(Nat) /\ r \in Nat /\ r <= Len(members[m].lens) /\ Filled(B, m, 2 * r)
        /\ "read" \notin failed[m] => r = Len(members[m].lens)
    BY <1>0, <1>13, <2>1 DEF WriteAndClose, BufferInv, TypeInv, Member
  <2>3. 2 * r \in 0 .. Size(m)
    <3>1. PICK n \in Nat : n = Len(members[m].lens)
      BY <1>0, MemberTypes
    <3>2. 2 * r \in 0 .. 2 * n
      BY <2>2, <3>1
    <3>3. QED
      BY <3>1, <3>2 DEF Size
  <2>4. CASE files' = [files EXCEPT ![cur] = New(B)] /\ UNCHANGED failed
    <3>1. files'[m].bytes = B
      BY <1>0, <1>13, <2>4 DEF New
    <3>2. calls = {} => 2 * r = Size(m)
      BY <2>1, <2>2, <2>4 DEF Size
    <3>3. FileInv(m, B, calls, behind)
      BY <1>0, <2>2, <2>3, <3>2, FileWritten
    <3>4. QED
      BY <1>1, <2>1, <3>1, <3>3
  <2>5. CASE Fails("write") /\ \E n \in 0 .. Len(B) :
               files' = [files EXCEPT ![cur] = New(SubSeq(B, 1, n))]
    <3>1. PICK n \in 0 .. Len(B) : files' = [files EXCEPT ![cur] = New(SubSeq(B, 1, n))]
      BY <2>5
    <3>2. files'[m].bytes = SubSeq(B, 1, n)
      BY <1>0, <1>13, <3>1 DEF New
    <3>3. "write" \in calls
      BY <1>0, <1>13, <2>1, <2>5 DEF Fails
    <3>4. FileInv(m, SubSeq(B, 1, n), calls, behind)
      BY <1>0, <2>2, <2>3, <3>3, FileCut
    <3>5. PICK bytes : bytes = SubSeq(B, 1, n)
      OBVIOUS
    <3>6. FileInv(m, bytes, calls, behind) /\ files'[m].bytes = bytes
      BY <3>2, <3>4, <3>5
    <3>7. QED
      BY <1>1, <2>1, <3>6
  <2>6. QED
    BY <1>13, <2>1, <2>4, <2>5 DEF WriteAndClose
<1>14. QED
  BY <1>3, <1>4, <1>8, <1>9, <1>10, <1>11, <1>12, <1>13 DEF Next, Finished

LEMMA FilesInit == Init => IInv
<1> SUFFICES ASSUME Init PROVE IInv
  OBVIOUS
<1>1. ControlInv
  BY ControlInit
<1>2. BufferInv
  BY DEF Init, BufferInv
<1>3. \A m \in DOMAIN members : files[m].is # "new"
  BY DEF Init, Old, None
<1>4. QED
  BY <1>1, <1>2, <1>3 DEF IInv, FilesInv

\* IInv is an invariant: a file holds what the buffer held when it was written,
\* and the buffer, item by item, what was read and had room.
THEOREM Inductive == Spec => []IInv
<1>1. IInv /\ [Next]_vars => IInv'
  <2>1. ControlInv /\ [Next]_vars => ControlInv'
    BY TypeStep, HandleStep, MembersStep DEF ControlInv
  <2>2. QED
    BY <2>1, BufferStep, FilesStep DEF IInv
<1>2. QED
  BY <1>1, FilesInit, PTL DEF Spec

LEMMA FilesFollow == IInv => FileIsMember
<1> SUFFICES ASSUME IInv, NEW m \in DOMAIN members, files[m].is = "new"
             PROVE  LET bytes   == files[m].bytes
                        missing == { i \in Items(m) : Count(bytes, i) < LenOf(m, i) }
                        closed  == m < cur /\ failed[m] = {}
                    IN  /\ \A b \in DOMAIN bytes : bytes[b] \in Items(m)
                        /\ \A i, j \in DOMAIN bytes : i < j => bytes[i] <= bytes[j]
                        /\ "write" \notin failed[m] => \A i \in missing : Count(bytes, i) = 0
                        /\ closed => \A i \in missing : Len(bytes) + LenOf(m, i) > MaxTextFileSize
                        /\ closed => (bytes = Text(m) <=> Len(Text(m)) <= MaxTextFileSize)
  BY DEF FileIsMember
<1> DEFINE bytes   == files[m].bytes
           missing == { i \in Items(m) : Count(bytes, i) < LenOf(m, i) }
           closed  == m < cur /\ failed[m] = {}
<1>0. TypeInv
  BY DEF IInv, ControlInv
<1>1. /\ Size(m) \in Nat /\ Items(m) = 1 .. Size(m)
      /\ \A i \in 1 .. Size(m) : LenOf(m, i) \in Nat
  BY <1>0, ItemLengths
<1>2. FileInv(m, bytes, failed[m], m < cur)
  BY DEF IInv, FilesInv
<1>3. bytes \in Seq(Nat)
  BY <1>0 DEF TypeInv
<1> HIDE DEF bytes
<1>4. /\ \A b \in DOMAIN bytes : bytes[b] \in Items(m)
      /\ \A i, j \in DOMAIN bytes : i < j => bytes[i] <= bytes[j]
  BY <1>1, <1>2 DEF FileInv
<1>5. ASSUME "write" \notin failed[m], NEW i \in missing PROVE Count(bytes, i) = 0
  <2>1. PICK k \in 0 .. Size(m) : Filled(bytes, m, k)
    BY <1>2, <1>5 DEF FileInv
  <2>2. i \in 1 .. Size(m) /\ Count(bytes, i) < LenOf(m, i) /\ LenOf(m, i) \in Nat
    BY <1>1
  <2>3. CASE i \in 1 .. k
    <3>1. Count(bytes, i) = LenOf(m, i) \/ Count(bytes, i) = 0
      BY <2>1, <2>3 DEF Filled
    <3>2. QED
      BY <2>2, <3>1
  <2>4. CASE i > k
    <3>1. \A b \in DOMAIN bytes : bytes[b] # i
      BY <2>1, <2>4 DEF Filled
    <3>2. QED
      BY <1>3, <3>1, CountNone
  <2>5. QED
    BY <2>2, <2>3, <2>4
<1>6. ASSUME closed PROVE Filled(bytes, m, Size(m))
  BY <1>2, <1>6 DEF FileInv
<1>7. ASSUME closed, NEW i \in missing PROVE Len(bytes) + LenOf(m, i) > MaxTextFileSize
  <2>1. i \in 1 .. Size(m) /\ Count(bytes, i) < LenOf(m, i) /\ LenOf(m, i) \in Nat
    BY <1>1
  <2>2. \/ Count(bytes, i) = LenOf(m, i)
        \/ Len(bytes) + LenOf(m, i) > MaxTextFileSize
    BY <1>6, <1>7, <2>1 DEF Filled
  <2>3. QED
    BY <2>1, <2>2
<1>8. ASSUME closed PROVE bytes = Text(m) <=> Len(Text(m)) <= MaxTextFileSize
  <2>1. Text(m) = Upto(m)[Size(m)]
    BY DEF Text, Size
  <2>2. Len(bytes) <= MaxTextFileSize /\ (Len(Text(m)) <= MaxTextFileSize => bytes = Text(m))
    BY <1>6, <1>8, <2>1 DEF Filled
  <2>3. QED
    BY <2>2
<1>9. QED
  BY <1>4, <1>5, <1>7, <1>8 DEF bytes

\* FileIsMember: a file has bytes of its member only, in order, whole items where
\* no write failed, and is the member exactly if that fits into the buffer.
THEOREM FilesAreMembers == Spec => []FileIsMember
BY Inductive, FilesFollow, PTL
===============================================================================
