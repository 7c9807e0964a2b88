------------------------------- MODULE M2FCopy -------------------------------
(***************************************************************************)
(* sample/src/m2f.c with the output half of sample/src/fsio.c: the members *)
(* of a dataset are copied to files of a directory.  A file is collected   *)
(* in a buffer of fixed size, record by record with a newline after each,  *)
(* and written at the end.  Members come in the order of the member list   *)
(* (MemberList), records in the order in which read_record_direct answers  *)
(* them (BpamRead).                                                        *)
(*                                                                         *)
(* A byte of a file is known by its item: item 2r-1 is record r of the     *)
(* member, item 2r the newline after it.  What main makes of the return    *)
(* codes is left out: it answers 0.                                        *)
(***************************************************************************)
EXTENDS Integers, Sequences, FiniteSets

CONSTANTS
  Kinds,            \* members: [alias, the lengths of the records]
  MaxMembers,       \* bound: members of the dataset
  MaxTextFileSize   \* MAX_TEXT_FILE_SIZE, in bytes

ASSUME M2FAssumption ==
  /\ Kinds \subseteq [alias : BOOLEAN, lens : Seq(Nat)]
  /\ MaxMembers \in Nat
  /\ MaxTextFileSize \in Nat \ {0}

VARIABLES
  members,       \* what openmemdir lists
  existing,      \* members whose file name is taken before m2f runs
  pc,
  cur,           \* the current member, from 1
  rec,           \* records read of it
  file_buffer,   \* fh.file_buffer up to file_buffer_cur
  files,         \* per member: "none", "old", or "new" with the bytes
  fds,           \* members whose file and buffer are open
  bh,            \* "none", "open", "closed": the handle of the dataset
  failed         \* history: per member the calls that failed

input == <<members, existing>>
vars == <<input, pc, cur, rec, file_buffer, files, fds, bh, failed>>

None == [is |-> "none", bytes |-> <<>>]
Old  == [is |-> "old", bytes |-> <<>>]
New(bytes) == [is |-> "new", bytes |-> bytes]

Member == members[cur]

Item(item, len) == [b \in 1 .. len |-> item]

Fails(call) == failed' = [failed EXCEPT ![cur] = @ \cup {call}]

------------------------------------------------------------------------------
(* fsio.c                                                                   *)

\* Mutant: a byte too few fits.
MutBufferWrite(buffer, bytes) ==
  IF Len(buffer) + Len(bytes) >= MaxTextFileSize THEN buffer ELSE buffer \o bytes

\* buffer_write: all of it or nothing.
BufferWrite(buffer, bytes) ==
  IF Len(buffer) + Len(bytes) > MaxTextFileSize THEN buffer ELSE buffer \o bytes

\* Mutant: O_EXCL is left out.
MutCanCreate == TRUE

\* open with O_CREAT and O_EXCL.
CanCreate == cur \notin existing

OpenFileCreate ==
  /\ pc = "member"
  /\ cur <= Len(members)
  /\ ~Member.alias
  /\ CanCreate
  /\ files' = [files EXCEPT ![cur] = New(<<>>)]
  /\ fds' = fds \cup {cur}
  /\ file_buffer' = <<>>
  /\ pc' = "find"
  /\ UNCHANGED <<input, cur, rec, bh, failed>>

\* open fails, or the tag cannot be set or read or there is no buffer, after the
\* file was created.  copy_members_to_files returns 12: the list and the handle
\* of the dataset stay.
OpenFileCreateFails ==
  /\ pc = "member"
  /\ cur <= Len(members)
  /\ ~Member.alias
  /\ \/ UNCHANGED files
     \/ CanCreate /\ files' = [files EXCEPT ![cur] = New(<<>>)]
  /\ Fails("create")
  /\ pc' = "done"
  /\ UNCHANGED <<input, cur, rec, file_buffer, fds, bh>>

------------------------------------------------------------------------------
(* copy_members_to_files                                                    *)

NextMember == cur' = cur + 1 /\ pc' = "member"

\* openmemdir or open_pds_for_read answers NULL.
OpenFails ==
  /\ pc = "open"
  /\ pc' = "done"
  /\ UNCHANGED <<input, cur, rec, file_buffer, files, fds, bh, failed>>

Open ==
  /\ pc = "open"
  /\ bh' = "open"
  /\ pc' = "member"
  /\ UNCHANGED <<input, cur, rec, file_buffer, files, fds, failed>>

\* For an alias a line is printed.
SkipAlias ==
  /\ pc = "member"
  /\ cur <= Len(members)
  /\ Member.alias
  /\ NextMember
  /\ UNCHANGED <<input, rec, file_buffer, files, fds, bh, failed>>

FindMember ==
  /\ pc = "find"
  /\ rec' = 0
  /\ pc' = "read"
  /\ UNCHANGED <<input, cur, file_buffer, files, fds, bh, failed>>

\* The file and the buffer stay open.
FindMemberFails ==
  /\ pc = "find"
  /\ Fails("find")
  /\ NextMember
  /\ UNCHANGED <<input, rec, file_buffer, files, fds, bh>>

ReadRecord ==
  /\ pc = "read"
  /\ rec < Len(Member.lens)
  /\ rec' = rec + 1
  /\ file_buffer' = BufferWrite(BufferWrite(file_buffer, Item(2 * rec + 1, Member.lens[rec + 1])),
                                Item(2 * rec + 2, 1))
  /\ UNCHANGED <<input, pc, cur, files, fds, bh, failed>>

\* An error of CHECK looks like the end.
ReadEnds ==
  /\ pc = "read"
  /\ IF rec = Len(Member.lens) THEN UNCHANGED failed ELSE Fails("read")
  /\ pc' = "write"
  /\ UNCHANGED <<input, cur, rec, file_buffer, files, fds, bh>>

\* write_file and close_file, and nobody looks at what they answer.
WriteAndClose ==
  /\ pc = "write"
  /\ \/ /\ files' = [files EXCEPT ![cur] = New(file_buffer)]
        /\ UNCHANGED failed
     \/ /\ \E n \in 0 .. Len(file_buffer) :
             files' = [files EXCEPT ![cur] = New(SubSeq(file_buffer, 1, n))]
        /\ Fails("write")
  /\ fds' = fds \ {cur}
  /\ NextMember
  /\ UNCHANGED <<input, rec, file_buffer, bh>>

\* closememdir and close_pds, which takes the handle also when it fails.
ListEnds ==
  /\ pc = "member"
  /\ cur > Len(members)
  /\ bh' = "closed"
  /\ pc' = "done"
  /\ UNCHANGED <<input, cur, rec, file_buffer, files, fds, failed>>

Finished == pc = "done" /\ UNCHANGED vars

Init ==
  /\ members \in UNION { [1 .. n -> Kinds] : n \in 1 .. MaxMembers }
  /\ existing \in SUBSET DOMAIN members
  /\ pc = "open"
  /\ cur = 1
  /\ rec = 0
  /\ file_buffer = <<>>
  /\ files = [m \in DOMAIN members |-> IF m \in existing THEN Old ELSE None]
  /\ fds = {}
  /\ bh = "none"
  /\ failed = [m \in DOMAIN members |-> {}]

Next ==
  \/ OpenFails \/ Open
  \/ SkipAlias \/ OpenFileCreate \/ OpenFileCreateFails
  \/ FindMember \/ FindMemberFails \/ ReadRecord \/ ReadEnds \/ WriteAndClose
  \/ ListEnds
  \/ Finished

Spec == Init /\ [][Next]_vars

------------------------------------------------------------------------------
(* Properties                                                               *)

LenOf(m, item) == IF item % 2 = 0 THEN 1 ELSE members[m].lens[(item + 1) \div 2]

Items(m) == 1 .. 2 * Len(members[m].lens)

\* The bytes of the first i items of member m.
Upto(m) == LET upto[i \in 0 .. 2 * Len(members[m].lens)] ==
                 IF i = 0 THEN <<>> ELSE upto[i - 1] \o Item(i, LenOf(m, i))
           IN  upto

\* All bytes of member m, a newline after each record.
Text(m) == Upto(m)[2 * Len(members[m].lens)]

Count(bytes, item) == Cardinality({ b \in DOMAIN bytes : bytes[b] = item })

\* A file has bytes of its member only, in their order; nothing of a record is
\* cut off, except by a write that failed.  Where no call failed an item is
\* missing only because it is longer than the room that is left in the end, so
\* that the file is the member exactly if the member fits into the buffer.
FileIsMember ==
  \A m \in DOMAIN members : files[m].is = "new" =>
    LET bytes   == files[m].bytes
        missing == { i \in Items(m) : Count(bytes, i) < LenOf(m, i) }
        closed  == m < cur /\ failed[m] = {}
    IN  /\ \A b \in DOMAIN bytes : bytes[b] \in Items(m)
        /\ \A i, j \in DOMAIN bytes : i < j => bytes[i] <= bytes[j]
        /\ "write" \notin failed[m] => \A i \in missing : Count(bytes, i) = 0
        /\ closed => \A i \in missing : Len(bytes) + LenOf(m, i) > MaxTextFileSize
        /\ closed => (bytes = Text(m) <=> Len(Text(m)) <= MaxTextFileSize)

\* A file that was there is left as it is.  Once the list is open, m2f stops
\* short of a member only behind one whose file could not be created, because it
\* was there or for lack of something, and then leaves the handle open; it leaves
\* open the files of the members that were not found, and no other.
EveryMemberTried ==
  /\ \A m \in existing : files[m] = Old
  /\ pc = "done" /\ bh # "none" =>
       LET plain   == { m \in DOMAIN members : ~members[m].alias }
           refused == { m \in plain : "create" \in failed[m] }
       IN  /\ \A m \in plain : files[m].is # "new" => \E r \in refused : r <= m
           /\ \A m \in existing \cap plain : \E r \in refused : r <= m
           /\ bh = "open" <=> refused # {}
           /\ fds = { m \in plain : "find" \in failed[m] }
==============================================================================
