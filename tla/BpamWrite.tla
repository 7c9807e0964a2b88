------------------------------ MODULE BpamWrite ------------------------------
(***************************************************************************)
(* The output side of services/src/bpamio.c: one FM_BPAMHandle opened by   *)
(* open_pds_for_write, the block that write_record fills, and the blocks   *)
(* that WRITE and CHECK put on the dataset.                                *)
(*                                                                         *)
(* A record is known by the length the caller passed (given), the number   *)
(* of its leading bytes the block holds (kept), the offset it starts at    *)
(* (off) and the distance to the next record that a reader derives: the    *)
(* record descriptor word of a V record, dcblrecl for an F record          *)
(* (stride).  The bytes themselves are left out.                           *)
(*                                                                         *)
(* WRITE and CHECK are services of the system: each call either puts the   *)
(* whole block behind the last one or fails and puts nothing.              *)
(***************************************************************************)
EXTENDS Integers, Sequences

CONSTANTS
  Datasets,     \* the datasets a handle may be opened on
  RecLens,      \* the lengths passed to write_record (a size_t)
  MaxRecords    \* bound: records in the block and on the dataset

HalfWord == 65536        \* the values of an unsigned short
BDW_SIZE == 4            \* block descriptor word
RDW_SIZE == 4            \* record descriptor word

\* Return codes of write_record; flush and the others use the first two.
Failed == -1
Ok     == 0
Cut    == 1

DatasetType == [recfm : {"F", "V"}, lrecl : Nat, blksi : Nat]

\* The system allocates no dataset whose block cannot hold one record of the
\* longest length, with the descriptor words that precede it.
ASSUME DatasetAssumption ==
  /\ Datasets \subseteq DatasetType
  /\ \A d \in Datasets :
       /\ d.blksi < HalfWord
       /\ d.recfm = "F" => 0 < d.lrecl /\ d.lrecl <= d.blksi
       /\ d.recfm = "V" => RDW_SIZE <= d.lrecl /\ d.lrecl + BDW_SIZE <= d.blksi

\* The length plus a descriptor word does not wrap in an unsigned short: the
\* callers pass at most REC_LEN = 32760 bytes (sample/include/fm.h).
ASSUME LengthAssumption ==
  /\ RecLens \subseteq Nat
  /\ \A len \in RecLens : (len % HalfWord) + RDW_SIZE < HalfWord

ASSUME BoundAssumption == MaxRecords \in Nat

VARIABLES
  dataset,             \* attributes of the dataset behind the DD
  is_open,             \* the caller holds a handle
  dcbblksi,            \* block length in the DCB, changed by each write of F
  block_size,          \* block length when the handle was opened
  bytes_used,          \* bytes filled in the block
  block,               \* the records in the block
  memstart_ttr,        \* TTR to be put in the directory
  memstart_ttr_known,
  opened_at,           \* history: the number of blocks when the handle opened
  medium,              \* the records on the dataset, with the TTR of their block
  blocks,              \* per TTR: what the system was told about the block
  ret                  \* the answer to the last call

handle == <<is_open, dcbblksi, block_size, bytes_used, block,
            memstart_ttr, memstart_ttr_known, opened_at>>
device == <<medium, blocks>>
vars   == <<dataset, handle, device, ret>>

BlockRecord  == [given : Nat, kept : Nat, off : Nat, stride : Nat]
MediumRecord == [ttr : Nat, rec : BlockRecord]
BlockLabel   == [size : Nat, blksi : Nat]

TypeOK ==
  /\ dataset \in Datasets
  /\ is_open \in BOOLEAN
  /\ dcbblksi \in Nat
  /\ block_size \in Nat
  /\ bytes_used \in Nat
  /\ block \in Seq(BlockRecord)
  /\ memstart_ttr \in Nat
  /\ memstart_ttr_known \in BOOLEAN
  /\ opened_at \in Nat
  /\ medium \in Seq(MediumRecord)
  /\ blocks \in Seq(BlockLabel)
  /\ ret \in {Failed, Ok, Cut}

------------------------------------------------------------------------------
(* copy_record_to_block: where a record goes and how much of it.            *)

IsVar == dataset.recfm = "V"

\* usr_rec_len is an unsigned short: the caller's size_t is narrowed.
UsrRecLen(len) == len % HalfWord

\* disk_len, also an unsigned short.
DiskLen(len) ==
  IF IsVar THEN (UsrRecLen(len) + RDW_SIZE) % HalfWord ELSE UsrRecLen(len)

Truncated(len) == DiskLen(len) > dataset.lrecl

RecLen(len) ==
  IF ~Truncated(len) THEN UsrRecLen(len)
  ELSE IF IsVar THEN dataset.lrecl - RDW_SIZE ELSE dataset.lrecl

\* Mutant: a cut record keeps the length it came with in its descriptor word.
MutStride(len) == IF IsVar THEN DiskLen(len) ELSE dataset.lrecl

\* What a reader adds to the start of the record to find the next one.
Stride(len) ==
  IF IsVar /\ ~Truncated(len) THEN DiskLen(len) ELSE dataset.lrecl

\* Mutant: no room is left for the block descriptor word.
MutRecordStart(used) == used

\* The first V record of a block goes behind the block descriptor word.
RecordStart(used) == IF IsVar /\ used = 0 THEN BDW_SIZE ELSE used

\* Bytes taken: descriptor word and data, or data and padding to dcblrecl.
RecordSize(len) == IF IsVar THEN RDW_SIZE + RecLen(len) ELSE dataset.lrecl

Placed(used, len) == [given  |-> len,
                      kept   |-> RecLen(len),
                      off    |-> RecordStart(used),
                      stride |-> Stride(len)]

\* Copying a record into a block that holds recs in its first used bytes.
CopyRecordToBlock(recs, used, len) ==
  /\ block' = Append(recs, Placed(used, len))
  /\ bytes_used' = RecordStart(used) + RecordSize(len)
  /\ ret' = IF Truncated(len) THEN Cut ELSE Ok

------------------------------------------------------------------------------
(* write_block on a block that is not empty.                                *)

\* Mutant: the block length of the dataset for F too.
MutBlockLength == block_size

\* The length given to WRITE: the block length of the dataset for V, whose
\* block carries its own length, and the bytes used for F.
BlockLength == IF IsVar THEN block_size ELSE bytes_used

AtTtr(recs, ttr) == [i \in DOMAIN recs |-> [ttr |-> ttr, rec |-> recs[i]]]

NextTtr == Len(blocks) + 1

\* Mutant: memstart_ttr_known is not looked at.
MutMemStartTtr == NextTtr

MemStartTtr == IF memstart_ttr_known THEN memstart_ttr ELSE NextTtr

BlockWritten ==
  /\ dcbblksi' = BlockLength
  /\ medium' = medium \o AtTtr(block, NextTtr)
  /\ blocks' = Append(blocks, [size |-> bytes_used, blksi |-> BlockLength])
  /\ memstart_ttr' = MemStartTtr
  /\ memstart_ttr_known' = TRUE

\* Mutant: the block is given up.
MutBlockDropped ==
  /\ dcbblksi' = BlockLength
  /\ ret' = Failed
  /\ bytes_used' = 0
  /\ block' = <<>>
  /\ UNCHANGED <<memstart_ttr, memstart_ttr_known, device>>

\* Mutant: the return code of WRITE or CHECK is passed on.
MutRawReturnCode ==
  /\ dcbblksi' = BlockLength
  /\ ret' = 4
  /\ UNCHANGED <<bytes_used, block, memstart_ttr, memstart_ttr_known, device>>

\* WRITE or CHECK failed: only the DCB has been touched.
BlockNotWritten ==
  /\ dcbblksi' = BlockLength
  /\ ret' = Failed
  /\ UNCHANGED <<bytes_used, block, memstart_ttr, memstart_ttr_known, device>>

------------------------------------------------------------------------------
(* write_record                                                             *)

\* Mutant: the record descriptor word is not counted.
MutCanAdd(len) ==
  (IF IsVar THEN len ELSE dataset.lrecl) + bytes_used <= block_size

CanAddRecordToBlock(len) ==
  (IF IsVar THEN len + RDW_SIZE ELSE dataset.lrecl) + bytes_used <= block_size

\* write_block does nothing for an empty block.
MustWriteBlock(len) == ~CanAddRecordToBlock(len) /\ bytes_used # 0

\* MaxRecords bounds the model, not the code.
RoomInModel == Len(medium) + Len(block) < MaxRecords

WriteRecordBuffered(len) ==
  /\ is_open /\ RoomInModel
  /\ ~MustWriteBlock(len)
  /\ CopyRecordToBlock(block, bytes_used, len)
  /\ UNCHANGED <<dataset, is_open, dcbblksi, block_size, memstart_ttr,
                 memstart_ttr_known, opened_at, device>>

WriteRecordSpilled(len) ==
  /\ is_open /\ RoomInModel
  /\ MustWriteBlock(len)
  /\ BlockWritten
  /\ CopyRecordToBlock(<<>>, 0, len)
  /\ UNCHANGED <<dataset, is_open, block_size, opened_at>>

WriteRecordFailed(len) ==
  /\ is_open /\ RoomInModel
  /\ MustWriteBlock(len)
  /\ BlockNotWritten
  /\ UNCHANGED <<dataset, is_open, block_size, opened_at>>

WriteRecord(len) ==
  WriteRecordBuffered(len) \/ WriteRecordSpilled(len) \/ WriteRecordFailed(len)

------------------------------------------------------------------------------
(* flush                                                                    *)

FlushNothing ==
  /\ is_open
  /\ bytes_used = 0
  /\ ret' = Ok
  /\ UNCHANGED <<dataset, handle, device>>

FlushBlock ==
  /\ is_open
  /\ bytes_used # 0
  /\ BlockWritten
  /\ bytes_used' = 0
  /\ block' = <<>>
  /\ ret' = Ok
  /\ UNCHANGED <<dataset, is_open, block_size, opened_at>>

FlushFailed ==
  /\ is_open
  /\ bytes_used # 0
  /\ BlockNotWritten
  /\ UNCHANGED <<dataset, is_open, block_size, opened_at>>

Flush == FlushNothing \/ FlushBlock \/ FlushFailed

------------------------------------------------------------------------------
(* open_pds_for_write and close_pds                                         *)

\* A new handle comes from calloc; bpam_open sets what it needs.
OpenPdsForWrite ==
  /\ ~is_open
  /\ is_open' = TRUE
  /\ dcbblksi' = dataset.blksi
  /\ block_size' = dataset.blksi
  /\ bytes_used' = 0
  /\ block' = <<>>
  /\ memstart_ttr' = 0
  /\ memstart_ttr_known' = FALSE
  /\ opened_at' = Len(blocks)
  /\ ret' = Ok
  /\ UNCHANGED <<dataset, device>>

\* Allocation or OPEN failed: the caller gets no handle.
OpenPdsFailed ==
  /\ ~is_open
  /\ ret' = Failed
  /\ UNCHANGED <<dataset, handle, device>>

\* CLOSE, ddfree and free: the block is not written first.  The handle is
\* gone whether or not ddfree succeeds.
ClosePds ==
  /\ is_open
  /\ is_open' = FALSE
  /\ bytes_used' = 0
  /\ block' = <<>>
  /\ ret' \in {Ok, Failed}
  /\ UNCHANGED <<dataset, dcbblksi, block_size, memstart_ttr,
                 memstart_ttr_known, opened_at, device>>

\* CLOSE failed: close_pds returns before it frees the DD and the handle.
ClosePdsFailed ==
  /\ is_open
  /\ ret' = Failed
  /\ UNCHANGED <<dataset, handle, device>>

Init ==
  /\ dataset \in Datasets
  /\ is_open = FALSE
  /\ dcbblksi = 0
  /\ block_size = 0
  /\ bytes_used = 0
  /\ block = <<>>
  /\ memstart_ttr = 0
  /\ memstart_ttr_known = FALSE
  /\ opened_at = 0
  /\ medium = <<>>
  /\ blocks = <<>>
  /\ ret = Ok

Next ==
  \/ \E len \in RecLens : WriteRecord(len)
  \/ Flush
  \/ OpenPdsForWrite
  \/ OpenPdsFailed
  \/ ClosePds
  \/ ClosePdsFailed

Spec == Init /\ [][Next]_vars

------------------------------------------------------------------------------
(* Properties                                                               *)

\* The block is never overrun.  can_add_record_to_block forgets the block
\* descriptor word of an empty block and tests the length before it is cut,
\* so that this rests on the cut to dcblrecl in copy_record_to_block.
BlockFits == is_open => bytes_used <= block_size

\* Where a reader, and validate_var_block, look for the first record.
ReaderStart == IF IsVar THEN BDW_SIZE ELSE 0

\* Records tile the block: each starts where the stride of the one before it
\* leads, the first one where a reader starts, the last one ends at bytes_used.
Chain(recs, used) ==
  /\ used = 0 <=> recs = <<>>
  /\ \A i \in DOMAIN recs :
       LET next == recs[i].off + recs[i].stride
       IN /\ i = 1 => recs[i].off = ReaderStart
          /\ next = IF i = Len(recs) THEN used ELSE recs[i + 1].off

BlockChain == Chain(block, bytes_used)

\* Every block on the dataset passes validate_var_block and leads a reader
\* through exactly the records written to it: they start behind the block
\* descriptor word and the last one ends at the size of the block.
MediumChain ==
  \A i \in DOMAIN medium :
    LET m == medium[i]
        next == m.rec.off + m.rec.stride
        last == i = Len(medium) \/ medium[i + 1].ttr # m.ttr
        first == i = 1 \/ medium[i - 1].ttr # m.ttr
    IN /\ m.ttr \in DOMAIN blocks
       /\ first => m.rec.off = ReaderStart
       /\ next = IF last THEN blocks[m.ttr].size ELSE medium[i + 1].rec.off

\* Blocks follow each other on the dataset in the order they were filled, none
\* of them empty.  WRITE was given a length that covers the block and, for F,
\* nothing behind its last record.
MediumOrder ==
  /\ \A i \in 1 .. Len(medium) - 1 : medium[i].ttr <= medium[i + 1].ttr
  /\ \A t \in DOMAIN blocks :
       /\ \E i \in DOMAIN medium : medium[i].ttr = t
       /\ 0 < blocks[t].size /\ blocks[t].size <= blocks[t].blksi
       /\ blocks[t].blksi <= dataset.blksi
       /\ ~IsVar => blocks[t].size = blocks[t].blksi

\* The TTR kept for the directory is that of the first block written through
\* the handle, and it is known as soon as there is one.
MemStart ==
  is_open => /\ memstart_ttr_known <=> Len(blocks) > opened_at
             /\ memstart_ttr = IF memstart_ttr_known THEN opened_at + 1 ELSE 0

\* The handle implements the record log of bpamio.h.
Logical(rec) == [given |-> rec.given, kept |-> rec.kept]

LogOf(recs) == [i \in DOMAIN recs |-> Logical(recs[i])]
StoredOf(recs) == [i \in DOMAIN recs |-> Logical(recs[i].rec)]

RecordCapacity == IF IsVar THEN dataset.lrecl - RDW_SIZE ELSE dataset.lrecl

Reply == IF ret = Ok THEN "ok" ELSE IF ret = Cut THEN "truncated" ELSE "failed"

Log == INSTANCE RecordLog WITH
         Lens     <- RecLens,
         capacity <- RecordCapacity,
         stored   <- StoredOf(medium),
         pending  <- LogOf(block),
         open     <- is_open,
         reply    <- Reply

ImplementsLog == Log!Spec
==============================================================================
