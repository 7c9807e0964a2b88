------------------------------ MODULE RoundTrip ------------------------------
(***************************************************************************)
(* A member written through one handle of BpamWrite and read back through  *)
(* one of BpamRead.  FIND and NOTE are services of the system: NOTE counts  *)
(* blocks from 1, and FIND leads a reader to the block whose TTR is in the *)
(* directory and on to the first end-of-file mark behind it.  The reader   *)
(* is given nothing else: this is where the layout that                    *)
(* copy_record_to_block makes and the one that next_record takes for       *)
(* granted meet.                                                           *)
(***************************************************************************)
EXTENDS BpamWrite

CONSTANT MaxLens       \* the sizes of the buffers given to read_record

VARIABLES
  published,           \* the member is in the directory
  end_of_file,         \* blocks before the end-of-file mark that it leads to
  member, position, area, residual,
  next_record_start, next_record_len, line_num, read, state

reader == <<member, position, area, residual,
            next_record_start, next_record_len, line_num, read, state>>

\* The blocks before the member: the TTR of a member without blocks is 0, and
\* stands before the first block of the dataset.
BlocksBefore == IF memstart_ttr = 0 THEN 0 ELSE memstart_ttr - 1

\* The number of records in the first blocks.
RecordsIn(blks) ==
  LET within == { i \in DOMAIN medium : medium[i].ttr <= blks }
  IN  IF within = {} THEN 0 ELSE CHOOSE i \in within : \A j \in within : j <= i

\* The member as BpamRead sees it.
Written ==
  LET first == BlocksBefore
      n == RecordsIn(first)
      BlockSize(b) == blocks[first + b].size
      RecordAt(i) == [blk    |-> medium[n + i].ttr - first,
                      off    |-> medium[n + i].rec.off,
                      stride |-> medium[n + i].rec.stride]
  IN  [sizes |-> [b \in 1 .. end_of_file - first |-> BlockSize(b)],
       recs  |-> [i \in 1 .. RecordsIn(end_of_file) - n |-> RecordAt(i)]]

Readable == [recfm   |-> dataset.recfm,
             lrecl   |-> dataset.lrecl,
             blksi   |-> dataset.blksi,
             members |-> {Written}]

Reader == INSTANCE BpamRead WITH
            dataset  <- Readable,
            Datasets <- {},
            MaxReads <- MaxRecords + 1

\* What callers do before they write the directory entry: flush, and go on only
\* if it succeeded.  memstart_ttr is stowed as it is, and the end-of-file mark is
\* put behind the last block of the member.  If it has none, the entry leads to a
\* mark that an earlier member has, or that was there before.
\* Then the member is closed, and opened for read.
Publish ==
  /\ ~published
  /\ is_open /\ block = <<>>
  /\ published' = TRUE
  /\ end_of_file' \in IF memstart_ttr = 0 THEN 0 .. Len(blocks) ELSE {Len(blocks)}
  /\ is_open' = FALSE
  /\ UNCHANGED <<dataset, dcbblksi, block_size, bytes_used, block, memstart_ttr,
                 memstart_ttr_known, opened_at, device, ret, reader>>

Write ==
  /\ ~published
  /\ Next
  /\ UNCHANGED <<published, end_of_file, reader>>

Read ==
  /\ published
  /\ UNCHANGED <<vars, published, end_of_file>>
  /\ Reader!Next

InitBoth == Init /\ published = FALSE /\ end_of_file = 0 /\ Reader!OpenPdsForRead

NextBoth == Write \/ Publish \/ Read

varsBoth == <<vars, published, end_of_file, reader>>

SpecBoth == InitBoth /\ [][NextBoth]_varsBoth

------------------------------------------------------------------------------
(* Properties                                                               *)

\* What the reader takes for granted of a member holds of whatever the entry
\* of a member leads it to: a member written through the handle, or, where nothing
\* was written, the blocks of others.
WrittenIsWellFormed == published => Reader!WellFormed(Readable, Written)

\* The length of a record as it is read back: V as it was kept, F padded.
KeptLength(m) == IF IsVar THEN m.rec.kept ELSE dataset.lrecl

\* The records stored through earlier handles, and through this one.
Earlier == CHOOSE n \in 0 .. Len(medium) :
             \A i \in DOMAIN medium : medium[i].ttr > opened_at <=> i > n

KeptLengths ==
  [i \in 1 .. Len(medium) - Earlier |-> KeptLength(medium[Earlier + i])]

\* Every record stored through the handle is read back as it was kept, in order,
\* and the member ends behind the last of them,
\* whatever was cut, spilled or padded when it was written.
ReadAsKept ==
  /\ \A i \in DOMAIN read : read[i].id = i /\ i \in DOMAIN KeptLengths
  /\ [i \in DOMAIN read |-> read[i].len] = SubSeq(KeptLengths, 1, Len(read))
  /\ state = "ended" => Len(read) = Len(KeptLengths)

\* What is read are the first records of the dataset, which belong to others.
ReadOfOthers ==
  /\ Len(read) <= Earlier
  /\ \A i \in DOMAIN read : read[i] = [id |-> i, len |-> KeptLength(medium[i])]

\* A member with records is read back as it was kept.  One without is not empty
\* for a reader: write_member_dir_entry stows the TTR 0 it found in the handle,
\* and where FIND takes it the reader gets records of other members.
ReadBack ==
  published => IF KeptLengths # <<>> THEN ReadAsKept ELSE ReadOfOthers
==============================================================================
