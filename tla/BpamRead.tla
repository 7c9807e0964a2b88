------------------------------ MODULE BpamRead ------------------------------
(***************************************************************************)
(* The input side of services/src/bpamio.c: find_member, read_block,       *)
(* next_record, read_record_direct and read_record on a handle that        *)
(* open_pds_for_read returned.                                             *)
(*                                                                         *)
(* The member that FIND located is a sequence of records, each in one of   *)
(* its blocks, in the order of the blocks up to the end-of-file mark.  A   *)
(* record is known by its place in the member, the offset it starts at in  *)
(* its block and the distance to the next one (the record descriptor word, *)
(* or dcblrecl).  The reader is not told where the records are: it derives *)
(* that from the descriptor words.                                         *)
(*                                                                         *)
(* READ and CHECK are services of the system.  A call brings in the next   *)
(* block, ends at the end-of-file mark (EODAD, 1), or fails: READ itself,  *)
(* with nothing done, or CHECK (SYNAD, 2), with the area and the position  *)
(* as before or as after the block.                                        *)
(***************************************************************************)
EXTENDS Integers, Sequences

CONSTANTS
  Datasets,     \* the datasets a handle may be opened on, with their members
  MaxLens,      \* the sizes of the buffers given to read_record
  MaxReads      \* bound: records answered since a member was located

BDW_SIZE == 4
RDW_SIZE == 4

MemberRecord == [blk : Nat \ {0}, off : Nat, stride : Nat]
Member       == [sizes : Seq(Nat), recs : Seq(MemberRecord)]

StartIn(d) == IF d.recfm = "V" THEN BDW_SIZE ELSE 0

\* Every block holds records, and they tile it: what validate_var_block checks
\* when a block is written.
WellFormed(d, m) ==
  /\ \A b \in DOMAIN m.sizes :
       /\ m.sizes[b] <= d.blksi
       /\ \E i \in DOMAIN m.recs : m.recs[i].blk = b
  /\ \A i \in DOMAIN m.recs :
       LET r == m.recs[i]
           first == i = 1 \/ m.recs[i - 1].blk # r.blk
           last  == i = Len(m.recs) \/ m.recs[i + 1].blk # r.blk
       IN /\ r.blk = IF i = 1 THEN 1
                     ELSE m.recs[i - 1].blk + (IF first THEN 1 ELSE 0)
          /\ r.blk \in DOMAIN m.sizes
          /\ IF d.recfm = "V" THEN RDW_SIZE <= r.stride ELSE r.stride = d.lrecl
          /\ first => r.off = StartIn(d)
          /\ r.off + r.stride = IF last THEN m.sizes[r.blk] ELSE m.recs[i + 1].off

DatasetType == [recfm : {"F", "V"}, lrecl : Nat \ {0}, blksi : Nat,
                members : SUBSET Member]

ASSUME ReaderAssumption ==
  /\ Datasets \subseteq DatasetType
  /\ \A d \in Datasets : \A m \in d.members : WellFormed(d, m)
  /\ MaxLens \subseteq Nat
  /\ MaxReads \in Nat

VARIABLES
  dataset,              \* the dataset behind the DD
  member,               \* the member located last
  position,             \* blocks of it that the device has passed
  area,                 \* handle->block: the block it holds
  residual,             \* iobcsw.iobresct of the last READ
  next_record_start,
  next_record_len,
  line_num,
  read,                 \* history: the records answered since FIND
  state                 \* history: has a member been located, is it being
                        \* read, and why could nothing be read

cursor == <<next_record_start, next_record_len, line_num>>
vars   == <<dataset, member, position, area, residual, cursor, read, state>>

NULL == -1

BlockOf(m, b) ==
  [size |-> m.sizes[b],
   recs |-> { [id |-> i, off |-> m.recs[i].off, stride |-> m.recs[i].stride] :
                i \in { j \in DOMAIN m.recs : m.recs[j].blk = b } }]

NoMember == [sizes |-> <<>>, recs |-> <<>>]

\* The area before the first READ: storage from malloc.
NoBlock == [size |-> 0, recs |-> {}]

IsVar == dataset.recfm = "V"

ReaderStart == StartIn(dataset)

TypeOK ==
  /\ dataset \in Datasets
  /\ member \in dataset.members \cup {NoMember}
  /\ position \in 0 .. Len(member.sizes)
  /\ area.size \in 0 .. dataset.blksi
  /\ area.recs \subseteq [id : Nat, off : Nat, stride : Nat]
  /\ residual \in 0 .. dataset.blksi
  /\ next_record_start \in Nat \cup {NULL}
  /\ next_record_len \in Nat
  /\ line_num \in Nat
  /\ read \in Seq([id : Nat, len : Nat])
  /\ state \in {"idle", "reading", "ended", "stopped"}

------------------------------------------------------------------------------
(* next_record                                                              *)

RecordsAt(b, off) == { r \in b.recs : r.off = off }

\* The halfword at off: a record descriptor word, or any value.
DescriptorsAt(b, off) ==
  IF RecordsAt(b, off) = {} THEN RDW_SIZE .. dataset.blksi
  ELSE { r.stride : r \in RecordsAt(b, off) }

\* Where the block ends: its descriptor word, or what the READ left over.
\* Mutant: the short last block of an F member is not allowed for.
MutBytesInBlock(b, left) == IF IsVar THEN b.size ELSE dataset.blksi

BytesInBlock(b, left) == IF IsVar THEN b.size ELSE dataset.blksi - left

\* Past the current record, or past the block descriptor word.
\* Mutant: the length of the record is taken to count its descriptor word.
MutAdvance(start, len) ==
  IF start = NULL THEN ReaderStart ELSE start + len - (IF IsVar THEN RDW_SIZE ELSE 0)

Advance(start, len) == IF start = NULL THEN ReaderStart ELSE start + len

\* The answers of next_record, with the cursor that each leaves behind.
NextRecord(b, left, start, len) ==
  LET at == Advance(start, len)
  IN  IF at >= BytesInBlock(b, left)
        THEN {[found |-> FALSE, start |-> at, len |-> len]}
      ELSE IF IsVar
        THEN {[found |-> TRUE, start |-> at + RDW_SIZE, len |-> rdw - RDW_SIZE] :
                rdw \in DescriptorsAt(b, at)}
      ELSE {[found |-> TRUE, start |-> at, len |-> dataset.lrecl]}

\* What the caller gets for a record that starts at start: the identity tells
\* a record from bytes that are none.
NoRecord == 0

Answered(b, n) ==
  LET off == IF IsVar THEN n.start - RDW_SIZE ELSE n.start
  IN  [id  |-> IF RecordsAt(b, off) = {} THEN NoRecord
               ELSE (CHOOSE r \in RecordsAt(b, off) : TRUE).id,
       len |-> n.len]

------------------------------------------------------------------------------
(* read_record_direct and read_record                                       *)

\* MaxReads bounds the calls that the model makes.  The callers in the repository
\* do not read again after they were told that nothing could be read.
MayRead ==
  /\ Len(read) < MaxReads
  /\ state = "reading"

NoLimit == dataset.blksi

\* A record longer than the buffer is passed over and answered with -1.
Answer(b, n, limit) ==
  /\ next_record_start' = n.start
  /\ next_record_len' = n.len
  /\ IF n.len > limit
       THEN state' = "stopped" /\ UNCHANGED read
       ELSE read' = Append(read, Answered(b, n)) /\ UNCHANGED state

\* The block in the area has a record left.
ReadNextRecord(limit) ==
  /\ MayRead
  /\ line_num # 0
  /\ \E n \in NextRecord(area, residual, next_record_start, next_record_len) :
       n.found /\ Answer(area, n, limit)
  /\ UNCHANGED <<dataset, member, position, area, residual, line_num>>

\* read_block is called; next_record has moved the cursor unless line_num is 0.
BlockNeeded ==
  /\ MayRead
  /\ \/ line_num = 0
     \/ \E n \in NextRecord(area, residual, next_record_start, next_record_len) :
          ~n.found

\* The next block is brought in.  Whether it holds a record is not looked at.
ReadNextBlock(limit) ==
  /\ BlockNeeded
  /\ position < Len(member.sizes)
  /\ position' = position + 1
  /\ area' = BlockOf(member, position + 1)
  /\ residual' = dataset.blksi - area'.size
  /\ \E n \in NextRecord(area', residual', NULL, 0) : Answer(area', n, limit)
  /\ line_num' = line_num + 1
  /\ UNCHANGED <<dataset, member>>

\* CHECK answered that there is no block, or not this one: the cursor is reset.
\* What the residual count is then is up to the system.
CheckFailed ==
  /\ next_record_start' = NULL
  /\ next_record_len' = 0
  /\ residual' \in 0 .. dataset.blksi
  /\ UNCHANGED <<dataset, member, line_num, read>>

ReadEnd ==
  /\ BlockNeeded
  /\ position = Len(member.sizes)
  /\ state' = "ended"
  /\ CheckFailed
  /\ UNCHANGED <<position, area>>

ReadCheckFailed ==
  /\ BlockNeeded
  /\ position < Len(member.sizes)
  /\ state' = "stopped"
  /\ CheckFailed
  /\ \/ UNCHANGED position
     \/ position' = position + 1
  /\ area' \in {area, BlockOf(member, position + 1)}

\* READ failed: only the cursor has moved.
ReadFailed ==
  /\ BlockNeeded
  /\ next_record_start' =
       IF line_num = 0 THEN next_record_start
       ELSE Advance(next_record_start, next_record_len)
  /\ state' = "stopped"
  /\ UNCHANGED <<dataset, member, position, area, residual, next_record_len, line_num, read>>

ReadRecord ==
  \/ \E limit \in MaxLens \cup {NoLimit} : ReadNextRecord(limit) \/ ReadNextBlock(limit)
  \/ ReadEnd
  \/ ReadCheckFailed
  \/ ReadFailed

------------------------------------------------------------------------------
(* find_member                                                              *)

\* Callers locate another member once they are done with this one.
MayFind == state # "reading"

\* Mutant: line_num is not reset.
MutFindMember ==
  /\ MayFind
  /\ member' \in dataset.members
  /\ position' = 0
  /\ next_record_start' = NULL
  /\ next_record_len' = 0
  /\ read' = <<>>
  /\ state' = "reading"
  /\ UNCHANGED <<dataset, area, residual, line_num>>

FindMember ==
  /\ MayFind
  /\ member' \in dataset.members
  /\ position' = 0
  /\ next_record_start' = NULL
  /\ next_record_len' = 0
  /\ line_num' = 0
  /\ read' = <<>>
  /\ state' = "reading"
  /\ UNCHANGED <<dataset, area, residual>>

\* FIND failed: the handle is as it was, and callers do not read.
FindFailed ==
  /\ MayFind
  /\ state' = "idle"
  /\ UNCHANGED <<dataset, member, position, area, residual, cursor, read>>

\* The handle that open_pds_for_read returns.
OpenPdsForRead ==
  /\ member = NoMember
  /\ position = 0
  /\ area = NoBlock
  /\ residual = 0
  /\ next_record_start = NULL
  /\ next_record_len = 0
  /\ line_num = 0
  /\ read = <<>>
  /\ state = "idle"

Init == dataset \in Datasets /\ OpenPdsForRead

Next == ReadRecord \/ FindMember \/ FindFailed

\* The loops of the callers wait for nothing.
Spec == Init /\ [][Next]_vars /\ WF_vars(ReadRecord)

------------------------------------------------------------------------------
(* Properties                                                               *)

ContentOf(d, m) ==
  LET Length(r) == IF d.recfm = "V" THEN r.stride - RDW_SIZE ELSE r.stride
  IN  [i \in DOMAIN m.recs |-> [id |-> i, len |-> Length(m.recs[i])]]

\* The handle implements the record cursor of bpamio.h: every record of the
\* member once and in order, from its first byte and in its length, whatever
\* the blocks; and when the member ends, all of them were answered.
Cursor == INSTANCE RecordCursor WITH
            Contents <- UNION { { ContentOf(d, m) : m \in d.members } : d \in Datasets },
            content  <- ContentOf(dataset, member)

ImplementsCursor == Cursor!Spec

\* After an answered record the cursor stands behind the start of a record in
\* the area that came in last, never in a block of another member.
CursorInBlock ==
  line_num # 0 /\ next_record_start # NULL /\ state = "reading" =>
    /\ position # 0
    /\ area = BlockOf(member, position)
    /\ next_record_start + next_record_len <= area.size

\* The loops of m2f.c and readwriterec.c over the records of a member end.
LoopsEnd == []<>(state # "reading")
=============================================================================
