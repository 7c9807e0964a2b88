--------------------------- MODULE BpamWrite_proofs ---------------------------
(***************************************************************************)
(* Proofs about BpamWrite, for every set of datasets and record lengths    *)
(* that its assumptions allow, and about RoundTrip, which reads back what  *)
(* it wrote.                                                               *)
(***************************************************************************)
EXTENDS RoundTrip, SequenceTheorems, Lemmas, TLAPS

------------------------------------------------------------------------------
(* What copy_record_to_block makes of a length                              *)

LEMMA CopyLengths ==
  ASSUME dataset \in Datasets, NEW len \in RecLens
  PROVE  /\ RecLen(len) \in Nat
         /\ RecordSize(len) \in Nat
         /\ 0 < RecordSize(len)
         /\ RecordSize(len) <= dataset.lrecl
         /\ Stride(len) = RecordSize(len)
         /\ IsVar => RecordSize(len) <= len + RDW_SIZE
<1> DEFINE u == UsrRecLen(len)
<1>1. /\ len \in Nat
      /\ u \in Nat
      /\ u <= len
      /\ u + RDW_SIZE < HalfWord
  BY LengthAssumption DEF HalfWord, RDW_SIZE, UsrRecLen
<1>2. /\ dataset.lrecl \in Nat
      /\ dataset.recfm \in {"F", "V"}
      /\ ~IsVar => 0 < dataset.lrecl
      /\ IsVar => RDW_SIZE <= dataset.lrecl
  BY DatasetAssumption DEF DatasetType, IsVar
<1>3. DiskLen(len) = IF IsVar THEN u + RDW_SIZE ELSE u
  BY <1>1 DEF DiskLen, HalfWord, RDW_SIZE
<1>4. QED
  BY <1>1, <1>2, <1>3 DEF RecLen, RecordSize, Stride, Truncated, RDW_SIZE

\* A record goes into an empty block, or into one that can_add_record_to_block
\* accepted, without passing its end.
LEMMA CopyFits ==
  ASSUME dataset \in Datasets, NEW len \in RecLens, NEW used \in Nat,
         \/ used = 0
         \/ (IF IsVar THEN len + RDW_SIZE ELSE dataset.lrecl) + used
              <= dataset.blksi
  PROVE  /\ RecordStart(used) \in Nat
         /\ RecordStart(used) + RecordSize(len) \in Nat
         /\ used < RecordStart(used) + RecordSize(len)
         /\ RecordStart(used) + RecordSize(len) <= dataset.blksi
<1>1. /\ RecordSize(len) \in Nat
      /\ 0 < RecordSize(len)
      /\ RecordSize(len) <= dataset.lrecl
      /\ IsVar => RecordSize(len) <= len + RDW_SIZE
  BY CopyLengths
<1>2. /\ len \in Nat
      /\ dataset.lrecl \in Nat
      /\ dataset.blksi \in Nat
      /\ ~IsVar => dataset.lrecl <= dataset.blksi
      /\ IsVar => dataset.lrecl + BDW_SIZE <= dataset.blksi
  BY LengthAssumption, DatasetAssumption DEF DatasetType, IsVar
<1>3. RecordStart(used) = IF IsVar /\ used = 0 THEN BDW_SIZE ELSE used
  BY DEF RecordStart
<1>4. QED
  BY <1>1, <1>2, <1>3 DEF BDW_SIZE, RDW_SIZE

LEMMA PlacedType ==
  ASSUME dataset \in Datasets, NEW len \in RecLens, NEW used \in Nat
  PROVE  Placed(used, len) \in BlockRecord
<1>1. RecLen(len) \in Nat /\ Stride(len) \in Nat
  BY CopyLengths
<1>2. len \in Nat /\ RecordStart(used) \in Nat
  BY LengthAssumption DEF RecordStart, BDW_SIZE
<1>3. QED
  BY <1>1, <1>2 DEF Placed, BlockRecord

------------------------------------------------------------------------------
(* The inductive invariant                                                  *)

\* A handle works with the block length of its dataset; without a handle
\* nothing is buffered.
HandleState ==
  /\ is_open => block_size = dataset.blksi
  /\ ~is_open => bytes_used = 0 /\ block = <<>>

IInv == TypeOK /\ HandleState /\ BlockFits /\ BlockChain

\* What a copy leaves in the block.
LEMMA CopyKeepsChain ==
  ASSUME dataset \in Datasets, dataset' = dataset, NEW len \in RecLens,
         NEW recs \in Seq(BlockRecord), NEW used \in Nat, Chain(recs, used),
         \/ used = 0
         \/ (IF IsVar THEN len + RDW_SIZE ELSE dataset.lrecl) + used
              <= dataset.blksi,
         CopyRecordToBlock(recs, used, len)
  PROVE  /\ block' \in Seq(BlockRecord)
         /\ bytes_used' \in Nat
         /\ bytes_used' <= dataset.blksi
         /\ BlockChain'
         /\ ret' \in {Ok, Cut}
<1> DEFINE new == Placed(used, len)
<1>1. new \in BlockRecord
  BY PlacedType
<1>2. /\ block' = Append(recs, new)
      /\ bytes_used' = RecordStart(used) + RecordSize(len)
      /\ ret' \in {Ok, Cut}
  BY DEF CopyRecordToBlock
<1>3. /\ RecordStart(used) \in Nat
      /\ bytes_used' \in Nat
      /\ used < bytes_used'
      /\ bytes_used' <= dataset.blksi
  BY <1>2, CopyFits
<1>4. /\ block' \in Seq(BlockRecord)
      /\ Len(block') = Len(recs) + 1
      /\ DOMAIN block' = 1 .. Len(recs) + 1
      /\ \A i \in 1 .. Len(recs) : block'[i] = recs[i]
      /\ block'[Len(recs) + 1] = new
  BY <1>1, <1>2
<1>5. /\ new.off = RecordStart(used)
      /\ new.off + new.stride = bytes_used'
  BY <1>2, CopyLengths DEF Placed
<1>6. BlockChain'
  <2>1. ReaderStart' = ReaderStart
    BY DEF ReaderStart, IsVar
  <2>2. bytes_used' # 0 /\ block' # <<>>
    BY <1>3, <1>4
  <2>3. ASSUME NEW i \in DOMAIN block'
        PROVE  /\ i = 1 => block'[i].off = ReaderStart
               /\ block'[i].off + block'[i].stride =
                    IF i = Len(block') THEN bytes_used' ELSE block'[i + 1].off
    <3>1. CASE i = Len(recs) + 1
      <4>1. i = 1 => recs = <<>>
        BY <3>1
      <4>2. i = 1 => used = 0
        BY <4>1 DEF Chain
      <4>3. i = 1 => RecordStart(used) = ReaderStart
        BY <4>2 DEF RecordStart, ReaderStart
      <4>4. QED
        BY <3>1, <4>3, <1>4, <1>5
    <3>2. CASE i \in 1 .. Len(recs)
      <4>1. /\ i = 1 => recs[i].off = ReaderStart
            /\ recs[i].off + recs[i].stride =
                 IF i = Len(recs) THEN used ELSE recs[i + 1].off
        BY <3>2 DEF Chain
      <4>2. CASE i = Len(recs)
        <5>1. used # 0
          BY <3>2 DEF Chain
        <5>2. RecordStart(used) = used
          BY <5>1 DEF RecordStart
        <5>3. QED
          BY <4>1, <4>2, <5>2, <1>4, <1>5, <3>2
      <4>3. CASE i # Len(recs)
        BY <4>1, <4>3, <1>4, <3>2
      <4>4. QED
        BY <4>2, <4>3
    <3>3. QED
      BY <1>4, <2>3, <3>1, <3>2
  <2>4. QED
    BY <2>1, <2>2, <2>3 DEF BlockChain, Chain
<1>7. QED
  BY <1>2, <1>3, <1>4, <1>6

\* The records of a block, labelled with its TTR.
LEMMA AtTtrSeq ==
  ASSUME NEW recs \in Seq(BlockRecord), NEW ttr \in Nat
  PROVE  /\ AtTtr(recs, ttr) \in Seq(MediumRecord)
         /\ Len(AtTtr(recs, ttr)) = Len(recs)
         /\ \A i \in 1 .. Len(recs) :
              AtTtr(recs, ttr)[i] = [ttr |-> ttr, rec |-> recs[i]]
<1>1. Len(recs) \in Nat /\ DOMAIN recs = 1 .. Len(recs)
  OBVIOUS
<1>2. \A i \in 1 .. Len(recs) : [ttr |-> ttr, rec |-> recs[i]] \in MediumRecord
  BY DEF MediumRecord
<1>3. AtTtr(recs, ttr) = [i \in 1 .. Len(recs) |-> [ttr |-> ttr, rec |-> recs[i]]]
  BY <1>1 DEF AtTtr
<1>4. AtTtr(recs, ttr) \in [1 .. Len(recs) -> MediumRecord]
  BY <1>2, <1>3
<1>5. AtTtr(recs, ttr) \in Seq(MediumRecord)
  BY <1>1, <1>4
<1>6. QED
  BY <1>1, <1>3, <1>5

\* What writing a block leaves of the types.
LEMMA BlockWrittenType ==
  ASSUME TypeOK, BlockWritten
  PROVE  /\ dcbblksi' \in Nat
         /\ medium' \in Seq(MediumRecord)
         /\ blocks' \in Seq(BlockLabel)
         /\ memstart_ttr' \in Nat
         /\ memstart_ttr_known' \in BOOLEAN
<1>1. BlockLength \in Nat /\ NextTtr \in Nat
  BY DEF TypeOK, BlockLength, NextTtr
<1>2. AtTtr(block, NextTtr) \in Seq(MediumRecord)
  BY <1>1, AtTtrSeq DEF TypeOK
<1>3. [size |-> bytes_used, blksi |-> BlockLength] \in BlockLabel
  BY <1>1 DEF TypeOK, BlockLabel
<1>4. QED
  BY <1>1, <1>2, <1>3 DEF TypeOK, BlockWritten, MemStartTtr

\* can_add_record_to_block, or the empty block, justifies a buffered record.
LEMMA BufferedFits ==
  ASSUME IInv, is_open, NEW len \in RecLens, ~MustWriteBlock(len)
  PROVE  \/ bytes_used = 0
         \/ (IF IsVar THEN len + RDW_SIZE ELSE dataset.lrecl) + bytes_used
              <= dataset.blksi
BY DEF IInv, HandleState, MustWriteBlock, CanAddRecordToBlock

LEMMA EmptyChain == Chain(<<>>, 0)
BY DEF Chain

\* Steps that leave the block alone, or empty it, keep the chain.
LEMMA SameChain ==
  ASSUME BlockChain, dataset' = dataset,
         \/ block' = block /\ bytes_used' = bytes_used
         \/ block' = <<>> /\ bytes_used' = 0
  PROVE  BlockChain'
<1>1. ReaderStart' = ReaderStart
  BY DEF ReaderStart, IsVar
<1>2. CASE block' = block /\ bytes_used' = bytes_used
  BY <1>1, <1>2 DEF BlockChain, Chain
<1>3. CASE block' = <<>> /\ bytes_used' = 0
  BY <1>3 DEF BlockChain, Chain
<1>4. QED
  BY <1>2, <1>3

LEMMA EmptySequences ==
  /\ <<>> \in Seq(BlockRecord)
  /\ <<>> \in Seq(MediumRecord)
  /\ <<>> \in Seq(BlockLabel)
OBVIOUS

LEMMA InitIInv == Init => IInv
<1> SUFFICES ASSUME Init PROVE IInv
  OBVIOUS
<1>1. TypeOK
  BY EmptySequences DEF Init, TypeOK
<1>2. HandleState /\ BlockFits
  BY DEF Init, HandleState, BlockFits
<1>3. BlockChain
  BY EmptyChain DEF Init, BlockChain
<1>4. QED
  BY <1>1, <1>2, <1>3 DEF IInv

LEMMA NextIInv == IInv /\ [Next]_vars => IInv'
<1> SUFFICES ASSUME IInv, [Next]_vars PROVE IInv'
  OBVIOUS
<1> USE DEF IInv
<1>d. dataset.blksi \in Nat
  BY DatasetAssumption DEF TypeOK, DatasetType
<1>1. ASSUME NEW len \in RecLens, WriteRecordBuffered(len) PROVE IInv'
  <2>1. /\ block' \in Seq(BlockRecord)
        /\ bytes_used' \in Nat
        /\ bytes_used' <= dataset.blksi
        /\ BlockChain'
        /\ ret' \in {Ok, Cut}
    BY <1>1, BufferedFits, CopyKeepsChain
       DEF WriteRecordBuffered, TypeOK, BlockChain
  <2>2. TypeOK'
    BY <1>1, <2>1 DEF WriteRecordBuffered, TypeOK, device
  <2>3. HandleState' /\ BlockFits'
    BY <1>1, <2>1 DEF WriteRecordBuffered, HandleState, BlockFits
  <2>4. QED
    BY <2>1, <2>2, <2>3
<1>2. ASSUME NEW len \in RecLens, WriteRecordSpilled(len) PROVE IInv'
  <2>1. /\ block' \in Seq(BlockRecord)
        /\ bytes_used' \in Nat
        /\ bytes_used' <= dataset.blksi
        /\ BlockChain'
        /\ ret' \in {Ok, Cut}
    <3>1. <<>> \in Seq(BlockRecord)
      OBVIOUS
    <3>2. QED
      BY <1>2, <3>1, EmptyChain, CopyKeepsChain DEF WriteRecordSpilled, TypeOK
  <2>2. TypeOK'
    BY <1>2, <2>1, BlockWrittenType DEF WriteRecordSpilled, TypeOK
  <2>3. HandleState' /\ BlockFits'
    BY <1>2, <2>1 DEF WriteRecordSpilled, HandleState, BlockFits
  <2>4. QED
    BY <2>1, <2>2, <2>3
<1>3. ASSUME BlockNotWritten, UNCHANGED <<dataset, is_open, block_size, opened_at>>
      PROVE  IInv'
  <2>1. BlockLength \in Nat
    BY DEF TypeOK, BlockLength
  <2>2. TypeOK'
    BY <1>3, <2>1 DEF BlockNotWritten, TypeOK, device
  <2>3. HandleState' /\ BlockFits'
    BY <1>3 DEF BlockNotWritten, HandleState, BlockFits
  <2>4. BlockChain'
    BY <1>3, SameChain DEF BlockNotWritten
  <2>5. QED
    BY <2>2, <2>3, <2>4
<1>4. ASSUME NEW len \in RecLens, WriteRecordFailed(len) PROVE IInv'
  BY <1>3, <1>4 DEF WriteRecordFailed
<1>5. CASE FlushNothing
  <2>1. TypeOK' /\ HandleState' /\ BlockFits'
    BY <1>5 DEF FlushNothing, TypeOK, HandleState, BlockFits, handle, device
  <2>2. BlockChain'
    BY <1>5, SameChain DEF FlushNothing, handle
  <2>3. QED
    BY <2>1, <2>2
<1>6. CASE FlushBlock
  <2>1. TypeOK'
    BY <1>6, BlockWrittenType DEF FlushBlock, TypeOK
  <2>2. HandleState' /\ BlockFits'
    BY <1>6, <1>d DEF FlushBlock, HandleState, BlockFits
  <2>3. BlockChain'
    BY <1>6, SameChain DEF FlushBlock
  <2>4. QED
    BY <2>1, <2>2, <2>3
<1>7. CASE FlushFailed
  BY <1>3, <1>7 DEF FlushFailed
<1>8. CASE OpenPdsForWrite
  <2>t. Len(blocks) \in Nat /\ 0 \in Nat
    BY DEF TypeOK
  <2>1. TypeOK'
    BY <1>8, <1>d, <2>t, EmptySequences DEF OpenPdsForWrite, TypeOK, device
  <2>2. HandleState' /\ BlockFits'
    BY <1>8, <1>d DEF OpenPdsForWrite, HandleState, BlockFits
  <2>3. BlockChain'
    BY <1>8, SameChain DEF OpenPdsForWrite
  <2>4. QED
    BY <2>1, <2>2, <2>3
<1>9. CASE OpenPdsFailed \/ ClosePdsFailed
  <2>1. TypeOK' /\ HandleState' /\ BlockFits'
    BY <1>9 DEF OpenPdsFailed, ClosePdsFailed, TypeOK, HandleState, BlockFits,
                handle, device
  <2>2. BlockChain'
    BY <1>9, SameChain DEF OpenPdsFailed, ClosePdsFailed, handle
  <2>3. QED
    BY <2>1, <2>2
<1>10. CASE ClosePds
  <2>1. TypeOK'
    BY <1>10, EmptySequences DEF ClosePds, TypeOK, device
  <2>2. HandleState' /\ BlockFits'
    BY <1>10 DEF ClosePds, HandleState, BlockFits
  <2>3. BlockChain'
    BY <1>10, SameChain DEF ClosePds
  <2>4. QED
    BY <2>1, <2>2, <2>3
<1>11. CASE UNCHANGED vars
  <2>1. TypeOK' /\ HandleState' /\ BlockFits'
    BY <1>11 DEF vars, TypeOK, HandleState, BlockFits, handle, device
  <2>2. BlockChain'
    BY <1>11, SameChain DEF vars, handle
  <2>3. QED
    BY <2>1, <2>2
<1>12. QED
  BY <1>1, <1>2, <1>4, <1>5, <1>6, <1>7, <1>8, <1>9, <1>10, <1>11
     DEF Next, WriteRecord, Flush

LEMMA IInvHolds == Spec => []IInv
<1>1. QED
  BY InitIInv, NextIInv, PTL DEF Spec

\* Every variable keeps its type, in particular the offsets computed in
\* unsigned shorts stay natural numbers.
THEOREM TypeCorrect == Spec => []TypeOK
<1>1. IInv => TypeOK
  BY DEF IInv
<1>2. QED
  BY <1>1, IInvHolds, PTL

\* No sequence of write_record, flush, open and close calls, with write errors
\* at any point, fills more of the block than was allocated for it.
THEOREM BlockNeverOverrun == Spec => []BlockFits
<1>1. IInv => BlockFits
  BY DEF IInv
<1>2. QED
  BY <1>1, IInvHolds, PTL

\* The records in the block always tile it: validate_var_block cannot fail,
\* and a reader that follows the descriptor words sees each record once.
THEOREM BlockStaysChained == Spec => []BlockChain
<1>1. IInv => BlockChain
  BY DEF IInv
<1>2. QED
  BY <1>1, IInvHolds, PTL

------------------------------------------------------------------------------
(* The blocks on the dataset                                                *)

LEMMA ConcatFacts ==
  ASSUME NEW S, NEW s \in Seq(S), NEW t \in Seq(S)
  PROVE  /\ s \o t \in Seq(S)
         /\ Len(s) \in Nat /\ Len(t) \in Nat
         /\ Len(s \o t) = Len(s) + Len(t)
         /\ DOMAIN (s \o t) = 1 .. Len(s) + Len(t)
         /\ \A i \in 1 .. Len(s) : (s \o t)[i] = s[i]
         /\ \A i \in 1 .. Len(t) : (s \o t)[Len(s) + i] = t[i]
<1>1. Len(s) \in Nat /\ Len(t) \in Nat
  OBVIOUS
<1>2. s \o t \in Seq(S) /\ Len(s \o t) = Len(s) + Len(t)
  OBVIOUS
<1>3. DOMAIN (s \o t) = 1 .. Len(s) + Len(t)
  BY <1>2
<1>4. \A i \in 1 .. Len(s) : (s \o t)[i] = s[i]
  OBVIOUS
<1>5. \A i \in 1 .. Len(t) : (s \o t)[Len(s) + i] = t[i]
  OBVIOUS
<1>6. QED
  BY <1>1, <1>2, <1>3, <1>4, <1>5

\* BlockWritten puts the records of the block, under a new TTR, behind the
\* records that were there.
LEMMA BlockWrittenMedium ==
  ASSUME TypeOK, BlockWritten
  PROVE  /\ Len(medium) \in Nat /\ Len(block) \in Nat
         /\ Len(medium') = Len(medium) + Len(block)
         /\ DOMAIN medium' = 1 .. Len(medium) + Len(block)
         /\ \A i \in 1 .. Len(medium) : medium'[i] = medium[i]
         /\ \A i \in 1 .. Len(block) :
              /\ medium'[Len(medium) + i].ttr = Len(blocks) + 1
              /\ medium'[Len(medium) + i].rec = block[i]
         /\ Len(blocks) \in Nat
         /\ DOMAIN blocks' = 1 .. Len(blocks) + 1
         /\ \A t \in 1 .. Len(blocks) : blocks'[t] = blocks[t]
         /\ blocks'[Len(blocks) + 1].size = bytes_used
         /\ blocks'[Len(blocks) + 1].blksi = BlockLength
<1> DEFINE new == AtTtr(block, NextTtr)
           label == [size |-> bytes_used, blksi |-> BlockLength]
<1>1. /\ NextTtr \in Nat
      /\ NextTtr = Len(blocks) + 1
      /\ Len(blocks) \in Nat
      /\ BlockLength \in Nat
  BY DEF TypeOK, NextTtr, BlockLength
<1>2. /\ new \in Seq(MediumRecord)
      /\ Len(new) = Len(block)
      /\ \A i \in 1 .. Len(block) : new[i] = [ttr |-> NextTtr, rec |-> block[i]]
  BY <1>1, AtTtrSeq DEF TypeOK
<1>3. medium' = medium \o new /\ blocks' = Append(blocks, label)
  BY DEF BlockWritten
<1>4. /\ Len(medium) \in Nat /\ Len(block) \in Nat
      /\ Len(medium') = Len(medium) + Len(block)
      /\ DOMAIN medium' = 1 .. Len(medium) + Len(block)
      /\ \A i \in 1 .. Len(medium) : medium'[i] = medium[i]
      /\ \A i \in 1 .. Len(block) : medium'[Len(medium) + i] = new[i]
  <2>1. medium \in Seq(MediumRecord)
    BY DEF TypeOK
  <2>2. new \in Seq(MediumRecord)
    BY <1>2
  <2> HIDE DEF new
  <2>3. /\ Len(medium \o new) = Len(medium) + Len(new)
        /\ Len(medium) \in Nat /\ Len(new) \in Nat
        /\ DOMAIN (medium \o new) = 1 .. Len(medium) + Len(new)
        /\ \A i \in 1 .. Len(medium) : (medium \o new)[i] = medium[i]
        /\ \A i \in 1 .. Len(new) : (medium \o new)[Len(medium) + i] = new[i]
    BY <2>1, <2>2, ConcatFacts
  <2>4. medium' = medium \o new /\ Len(new) = Len(block)
    BY <1>2, <1>3
  <2>5. QED
    BY <2>3, <2>4
<1>5. label \in BlockLabel
  BY <1>1 DEF TypeOK, BlockLabel
<1>6. /\ DOMAIN blocks' = 1 .. Len(blocks) + 1
      /\ \A t \in 1 .. Len(blocks) : blocks'[t] = blocks[t]
      /\ blocks'[Len(blocks) + 1] = label
  BY <1>3, <1>5 DEF TypeOK
<1>7. \A i \in 1 .. Len(block) :
        /\ medium'[Len(medium) + i].ttr = Len(blocks) + 1
        /\ medium'[Len(medium) + i].rec = block[i]
  <2> SUFFICES ASSUME NEW i \in 1 .. Len(block)
               PROVE  /\ medium'[Len(medium) + i].ttr = Len(blocks) + 1
                      /\ medium'[Len(medium) + i].rec = block[i]
    OBVIOUS
  <2>1. medium'[Len(medium) + i] = new[i]
    BY <1>4
  <2>2. new[i] = [ttr |-> NextTtr, rec |-> block[i]]
    BY <1>2
  <2> HIDE DEF new
  <2>3. QED
    BY <1>1, <2>1, <2>2
<1>8. QED
  BY <1>1, <1>4, <1>6, <1>7

MediumInv == MediumChain /\ MediumOrder

LEMMA BlockWrittenKeepsChain ==
  ASSUME IInv, MediumInv, BlockWritten, dataset' = dataset, bytes_used # 0
  PROVE  MediumChain'
<1> DEFINE n == Len(medium)
           k == Len(block)
           ttr == Len(blocks) + 1
<1>1. /\ n \in Nat /\ k \in Nat
      /\ Len(medium') = n + k
      /\ DOMAIN medium' = 1 .. n + k
      /\ \A i \in 1 .. n : medium'[i] = medium[i]
      /\ \A i \in 1 .. k : /\ medium'[n + i].ttr = ttr
                           /\ medium'[n + i].rec = block[i]
      /\ Len(blocks) \in Nat
      /\ DOMAIN blocks' = 1 .. ttr
      /\ \A t \in 1 .. Len(blocks) : blocks'[t] = blocks[t]
      /\ blocks'[ttr].size = bytes_used
  BY BlockWrittenMedium DEF IInv
<1>2. ReaderStart' = ReaderStart
  BY DEF ReaderStart, IsVar
<1>3. k > 0
  BY <1>1 DEF IInv, TypeOK, BlockChain, Chain
<1>4. ASSUME NEW i \in 1 .. n
      PROVE  /\ medium[i].ttr \in 1 .. Len(blocks)
             /\ i = 1 \/ medium[i - 1].ttr # medium[i].ttr
                  => medium[i].rec.off = ReaderStart
             /\ medium[i].rec.off + medium[i].rec.stride =
                  IF i = n \/ medium[i + 1].ttr # medium[i].ttr
                    THEN blocks[medium[i].ttr].size
                    ELSE medium[i + 1].rec.off
  <2>1. i \in DOMAIN medium /\ DOMAIN blocks = 1 .. Len(blocks)
    BY <1>4 DEF IInv, TypeOK
  <2>2. QED
    BY <2>1 DEF MediumInv, MediumChain
<1>5. ASSUME NEW i \in 1 .. n + k
      PROVE  LET m == medium'[i]
                 last == i = n + k \/ medium'[i + 1].ttr # m.ttr
                 first == i = 1 \/ medium'[i - 1].ttr # m.ttr
             IN /\ m.ttr \in 1 .. ttr
                /\ first => m.rec.off = ReaderStart
                /\ m.rec.off + m.rec.stride =
                     IF last THEN blocks'[m.ttr].size ELSE medium'[i + 1].rec.off
  <2>1. CASE i \in 1 .. n
    <3>1. medium'[i] = medium[i] /\ medium[i].ttr \in 1 .. Len(blocks)
      BY <1>1, <1>4, <2>1
    <3>2. i # 1 => medium'[i - 1] = medium[i - 1]
      BY <1>1, <2>1
    <3>3. CASE i # n
      <4>1. medium'[i + 1] = medium[i + 1] /\ i # n + k
        <5> HIDE DEF n, k
        <5>1. i \in 1 .. n /\ i # n /\ n \in Nat /\ k \in Nat
          BY <1>1, <2>1, <3>3
        <5>2. i + 1 \in 1 .. n /\ i # n + k
          BY <5>1
        <5>3. QED
          BY <1>1, <5>2
      <4>2. blocks'[medium[i].ttr] = blocks[medium[i].ttr]
        BY <1>1, <3>1
      <4>3. medium[i].rec.off + medium[i].rec.stride =
              IF medium[i + 1].ttr # medium[i].ttr
                THEN blocks[medium[i].ttr].size ELSE medium[i + 1].rec.off
        BY <1>4, <2>1, <3>3
      <4>4. i = 1 \/ medium[i - 1].ttr # medium[i].ttr
              => medium[i].rec.off = ReaderStart
        BY <1>4, <2>1
      <4>5. medium[i].ttr \in 1 .. ttr
        BY <1>1, <3>1
      <4>6. QED
        BY <3>1, <3>2, <4>1, <4>2, <4>3, <4>4, <4>5
    <3>4. CASE i = n
      <4>1. medium'[i + 1].ttr = ttr /\ i # n + k
        BY <1>1, <1>3, <3>4
      <4>2. medium'[i + 1].ttr # medium'[i].ttr
        BY <1>1, <3>1, <4>1
      <4>3. blocks'[medium[i].ttr] = blocks[medium[i].ttr]
        BY <1>1, <3>1
      <4>4. medium[i].rec.off + medium[i].rec.stride = blocks[medium[i].ttr].size
        BY <1>4, <2>1, <3>4
      <4>5. i = 1 \/ medium[i - 1].ttr # medium[i].ttr
              => medium[i].rec.off = ReaderStart
        BY <1>4, <2>1
      <4>6. medium[i].ttr \in 1 .. ttr
        BY <1>1, <3>1
      <4>7. QED
        BY <3>1, <3>2, <4>2, <4>3, <4>4, <4>5, <4>6
    <3>5. QED
      BY <3>3, <3>4
  <2>2. CASE i \in n + 1 .. n + k
    <3> DEFINE j == i - n
    <3>1. /\ j \in 1 .. k
          /\ i = n + j
          /\ medium'[i].ttr = ttr
          /\ medium'[i].rec = block[j]
      BY <1>1, <2>2
    <3>2. /\ j = 1 => block[j].off = ReaderStart
          /\ block[j].off + block[j].stride =
               IF j = k THEN bytes_used ELSE block[j + 1].off
      <4> HIDE DEF j
      <4>1. DOMAIN block = 1 .. k
        BY DEF IInv, TypeOK
      <4>2. Chain(block, bytes_used)
        BY DEF IInv, BlockChain
      <4>3. QED
        BY <3>1, <4>1, <4>2 DEF Chain
    <3>3. i = 1 \/ medium'[i - 1].ttr # ttr => j = 1
      <4>1. SUFFICES ASSUME j # 1 PROVE i # 1 /\ medium'[i - 1].ttr = ttr
        OBVIOUS
      <4>2. /\ i # 1
            /\ j - 1 \in 1 .. k
            /\ i - 1 = n + (j - 1)
        <5> HIDE DEF j, n, k
        <5>1. n \in Nat /\ k \in Nat /\ j \in 1 .. k /\ i = n + j
          BY <1>1, <3>1
        <5>2. QED
          BY <5>1, <4>1
      <4>3. medium'[n + (j - 1)].ttr = ttr
        BY <1>1, <4>2
      <4>4. QED
        BY <4>2, <4>3
    <3>4. CASE j = k
      BY <1>1, <3>1, <3>2, <3>3, <3>4
    <3>5. CASE j # k
      <4>1. /\ j + 1 \in 1 .. k
            /\ i + 1 = n + (j + 1)
            /\ i # n + k
        <5> HIDE DEF j, n, k
        <5>1. n \in Nat /\ k \in Nat /\ j \in 1 .. k /\ i = n + j
          BY <1>1, <3>1
        <5>2. QED
          BY <5>1, <3>5
      <4>2. medium'[i + 1].ttr = ttr /\ medium'[i + 1].rec = block[j + 1]
        BY <1>1, <4>1
      <4>3. QED
        BY <1>1, <3>1, <3>2, <3>3, <3>5, <4>1, <4>2
    <3>6. QED
      BY <3>4, <3>5
  <2>3. QED
    BY <1>1, <2>1, <2>2
<1>6. QED
  BY <1>1, <1>2, <1>5 DEF MediumChain

LEMMA BlockWrittenKeepsOrder ==
  ASSUME IInv, MediumInv, BlockWritten, dataset' = dataset, is_open,
         bytes_used # 0
  PROVE  MediumOrder'
<1> DEFINE n == Len(medium)
           k == Len(block)
           ttr == Len(blocks) + 1
<1>1. /\ n \in Nat /\ k \in Nat
      /\ Len(medium') = n + k
      /\ DOMAIN medium' = 1 .. n + k
      /\ \A i \in 1 .. n : medium'[i] = medium[i]
      /\ \A i \in 1 .. k : medium'[n + i].ttr = ttr
      /\ Len(blocks) \in Nat
      /\ DOMAIN blocks' = 1 .. ttr
      /\ \A t \in 1 .. Len(blocks) : blocks'[t] = blocks[t]
      /\ blocks'[ttr].size = bytes_used /\ blocks'[ttr].blksi = BlockLength
  BY BlockWrittenMedium DEF IInv
<1>2. k > 0
  BY <1>1 DEF IInv, TypeOK, BlockChain, Chain
<1>3. \A i \in 1 .. n : medium[i].ttr \in 1 .. Len(blocks)
  BY <1>1 DEF MediumInv, MediumChain, IInv, TypeOK
<1>4. ASSUME NEW i \in 1 .. n + k - 1
      PROVE  medium'[i].ttr <= medium'[i + 1].ttr
  <2>1. CASE i \in 1 .. n - 1
    <3>1. i \in 1 .. n /\ i + 1 \in 1 .. n
      <4> HIDE DEF n
      <4>1. n \in Nat
        BY <1>1
      <4>2. QED
        BY <2>1, <4>1
    <3>2. medium'[i] = medium[i] /\ medium'[i + 1] = medium[i + 1]
      BY <1>1, <3>1
    <3>3. QED
      BY <1>1, <2>1, <3>2 DEF MediumInv, MediumOrder
  <2>2. CASE i = n
    <3>1. medium'[i + 1].ttr = ttr
      BY <1>1, <1>2, <2>2
    <3>2. medium'[i].ttr \in 1 .. Len(blocks)
      BY <1>1, <1>3, <2>2
    <3>3. QED
      BY <1>1, <3>1, <3>2
  <2>3. CASE i \in n + 1 .. n + k - 1
    <3> DEFINE j == i - n
    <3>1. /\ j \in 1 .. k /\ j + 1 \in 1 .. k
          /\ i = n + j /\ i + 1 = n + (j + 1)
      BY <1>1, <2>3
    <3>2. medium'[i].ttr = ttr /\ medium'[i + 1].ttr = ttr
      BY <1>1, <3>1
    <3>3. QED
      BY <1>1, <3>2
  <2>4. QED
    BY <1>1, <2>1, <2>2, <2>3
<1>5. /\ 0 < bytes_used /\ bytes_used <= BlockLength
      /\ BlockLength <= dataset.blksi
      /\ ~IsVar => bytes_used = BlockLength
  BY DatasetAssumption
     DEF IInv, TypeOK, HandleState, BlockFits, BlockLength, DatasetType
<1>6. ASSUME NEW t \in 1 .. ttr
      PROVE  /\ \E i \in 1 .. n + k : medium'[i].ttr = t
             /\ 0 < blocks'[t].size /\ blocks'[t].size <= blocks'[t].blksi
             /\ blocks'[t].blksi <= dataset.blksi
             /\ ~IsVar => blocks'[t].size = blocks'[t].blksi
  <2>1. CASE t \in 1 .. Len(blocks)
    <3>0. t \in DOMAIN blocks /\ DOMAIN medium = 1 .. n
      BY <2>1 DEF IInv, TypeOK
    <3>1. PICK i \in 1 .. n : medium[i].ttr = t
      BY <3>0 DEF MediumInv, MediumOrder
    <3>2. i \in 1 .. n + k /\ medium'[i].ttr = t
      BY <1>1, <3>1
    <3>3. /\ 0 < blocks[t].size /\ blocks[t].size <= blocks[t].blksi
          /\ blocks[t].blksi <= dataset.blksi
          /\ ~IsVar => blocks[t].size = blocks[t].blksi
      BY <3>0 DEF MediumInv, MediumOrder
    <3>4. QED
      BY <1>1, <2>1, <3>2, <3>3
  <2>2. CASE t = ttr
    <3>1. n + 1 \in 1 .. n + k /\ medium'[n + 1].ttr = ttr
      BY <1>1, <1>2
    <3>2. QED
      BY <1>1, <1>5, <2>2, <3>1
  <2>3. QED
    BY <1>1, <2>1, <2>2
<1>7. DOMAIN blocks' = 1 .. ttr /\ DOMAIN medium' = 1 .. n + k
      /\ Len(medium') = n + k
  BY <1>1
<1>8. \A i \in 1 .. Len(medium') - 1 : medium'[i].ttr <= medium'[i + 1].ttr
  <2> SUFFICES ASSUME NEW i \in 1 .. Len(medium') - 1
               PROVE  medium'[i].ttr <= medium'[i + 1].ttr
    OBVIOUS
  <2>1. i \in 1 .. n + k - 1
    BY <1>7
  <2>2. QED
    BY <1>4, <2>1
<1>9. \A t \in DOMAIN blocks' :
        /\ \E i \in DOMAIN medium' : medium'[i].ttr = t
        /\ 0 < blocks'[t].size /\ blocks'[t].size <= blocks'[t].blksi
        /\ blocks'[t].blksi <= dataset'.blksi
        /\ ~IsVar' => blocks'[t].size = blocks'[t].blksi
  <2>1. IsVar' = IsVar
    BY DEF IsVar
  <2> HIDE DEF n, k, ttr
  <2>2. QED
    BY <1>6, <1>7, <2>1
<1> HIDE DEF n, k, ttr
<1>10. QED
  BY <1>8, <1>9 DEF MediumOrder

LEMMA SameMedium ==
  ASSUME MediumInv, medium' = medium, blocks' = blocks, dataset' = dataset
  PROVE  MediumInv'
<1>1. ReaderStart' = ReaderStart
  BY DEF ReaderStart, IsVar
<1>2. MediumChain'
  BY <1>1 DEF MediumInv, MediumChain
<1>3. MediumOrder'
  BY DEF MediumInv, MediumOrder, IsVar
<1>4. QED
  BY <1>2, <1>3 DEF MediumInv

\* Whatever the step, either nothing reaches the dataset or the block does.
LEMMA StepOnMedium ==
  ASSUME [Next]_vars
  PROVE  /\ dataset' = dataset
         /\ \/ medium' = medium /\ blocks' = blocks
            \/ BlockWritten /\ is_open /\ bytes_used # 0
<1> USE DEF handle, device
<1> DEFINE Goal == /\ dataset' = dataset
                   /\ \/ medium' = medium /\ blocks' = blocks
                      \/ BlockWritten /\ is_open /\ bytes_used # 0
<1>1. ASSUME NEW len \in RecLens, WriteRecord(len) PROVE Goal
  BY <1>1 DEF WriteRecord, WriteRecordBuffered, WriteRecordSpilled,
              WriteRecordFailed, BlockNotWritten, MustWriteBlock
<1>2. CASE Flush
  BY <1>2 DEF Flush, FlushNothing, FlushBlock, FlushFailed, BlockNotWritten
<1>3. CASE OpenPdsForWrite \/ OpenPdsFailed \/ ClosePds \/ ClosePdsFailed
  BY <1>3 DEF OpenPdsForWrite, OpenPdsFailed, ClosePds, ClosePdsFailed
<1>4. CASE UNCHANGED vars
  BY <1>4 DEF vars
<1>5. QED
  BY <1>1, <1>2, <1>3, <1>4 DEF Next

LEMMA NextMediumInv == IInv /\ MediumInv /\ [Next]_vars => MediumInv'
<1> SUFFICES ASSUME IInv, MediumInv, [Next]_vars PROVE MediumInv'
  OBVIOUS
<1>1. CASE medium' = medium /\ blocks' = blocks
  BY <1>1, StepOnMedium, SameMedium
<1>2. CASE BlockWritten /\ is_open /\ bytes_used # 0
  BY <1>2, StepOnMedium, BlockWrittenKeepsChain, BlockWrittenKeepsOrder
     DEF MediumInv
<1>3. QED
  BY <1>1, <1>2, StepOnMedium

LEMMA InitMediumInv == Init => MediumInv
<1> SUFFICES ASSUME Init PROVE MediumInv
  OBVIOUS
<1>1. DOMAIN medium = {} /\ Len(medium) = 0 /\ DOMAIN blocks = {}
  BY DEF Init
<1>2. QED
  BY <1>1 DEF MediumInv, MediumChain, MediumOrder

\* Each block on the dataset can be taken apart again into the records that
\* were put in it, by validate_var_block or by a reader.
THEOREM MediumStaysChained == Spec => []MediumChain
<1>1. MediumInv => MediumChain
  BY DEF MediumInv
<1>2. QED
  BY <1>1, InitMediumInv, NextMediumInv, IInvHolds, PTL DEF Spec

\* No block is written empty, longer than WRITE was told or longer than a block
\* of the dataset, and records stay in the order of their blocks.
THEOREM MediumStaysOrdered == Spec => []MediumOrder
<1>1. MediumInv => MediumOrder
  BY DEF MediumInv
<1>2. QED
  BY <1>1, InitMediumInv, NextMediumInv, IInvHolds, PTL DEF Spec

------------------------------------------------------------------------------
(* The TTR for the directory                                                *)

StartInv == MemStart /\ (is_open => opened_at <= Len(blocks))

LEMMA NextStartInv == IInv /\ StartInv /\ [Next]_vars => StartInv'
<1> SUFFICES ASSUME IInv, StartInv, [Next]_vars PROVE StartInv'
  OBVIOUS
<1> USE DEF StartInv, MemStart
<1>t. Len(blocks) \in Nat /\ opened_at \in Nat
  BY DEF IInv, TypeOK
<1>w. ASSUME BlockWritten, is_open, is_open' = is_open, opened_at' = opened_at
      PROVE  StartInv'
  <2>1. Len(blocks') = Len(blocks) + 1
    BY <1>w DEF BlockWritten, IInv, TypeOK
  <2>2. /\ memstart_ttr_known' = TRUE
        /\ memstart_ttr' = IF memstart_ttr_known THEN memstart_ttr
                                                 ELSE Len(blocks) + 1
    BY <1>w DEF BlockWritten, MemStartTtr, NextTtr
  <2>3. memstart_ttr' = opened_at + 1
    BY <1>w, <1>t, <2>2
  <2>4. QED
    BY <1>w, <1>t, <2>1, <2>2, <2>3
<1>u. ASSUME blocks' = blocks, is_open' = is_open, opened_at' = opened_at,
             memstart_ttr' = memstart_ttr,
             memstart_ttr_known' = memstart_ttr_known
      PROVE  StartInv'
  BY <1>u
<1>1. ASSUME NEW len \in RecLens, WriteRecord(len) PROVE StartInv'
  BY <1>1, <1>w, <1>u
     DEF WriteRecord, WriteRecordBuffered, WriteRecordSpilled,
         WriteRecordFailed, BlockNotWritten, device
<1>2. CASE Flush
  BY <1>2, <1>w, <1>u
     DEF Flush, FlushNothing, FlushBlock, FlushFailed, BlockNotWritten, handle,
         device
<1>3. CASE OpenPdsForWrite
  <2>1. /\ memstart_ttr_known' = FALSE /\ memstart_ttr' = 0
        /\ opened_at' = Len(blocks) /\ blocks' = blocks
    BY <1>3 DEF OpenPdsForWrite, device
  <2>2. QED
    BY <1>t, <2>1
<1>4. CASE OpenPdsFailed \/ ClosePdsFailed
  BY <1>4, <1>u DEF OpenPdsFailed, ClosePdsFailed, handle, device
<1>5. CASE ClosePds
  BY <1>5 DEF ClosePds
<1>6. CASE UNCHANGED vars
  BY <1>6, <1>u DEF vars, handle, device
<1>7. QED
  BY <1>1, <1>2, <1>3, <1>4, <1>5, <1>6 DEF Next

\* The TTR that write_member_dir_entry finds in the handle is the TTR of the
\* first block written since the handle was opened.
THEOREM MemStartCorrect == Spec => []MemStart
<1>1. Init => StartInv
  BY DEF Init, StartInv, MemStart
<1>2. StartInv => MemStart
  BY DEF StartInv
<1>3. QED
  BY <1>1, <1>2, NextStartInv, IInvHolds, PTL DEF Spec

------------------------------------------------------------------------------
(* The record log                                                           *)

LogRecord == [given : Nat, kept : Nat]

LEMMA LogOfSeq ==
  ASSUME NEW recs \in Seq(BlockRecord)
  PROVE  /\ LogOf(recs) \in Seq(LogRecord)
         /\ Len(LogOf(recs)) = Len(recs)
         /\ Len(recs) \in Nat
         /\ \A i \in 1 .. Len(recs) : LogOf(recs)[i] = Logical(recs[i])
<1>1. Len(recs) \in Nat /\ DOMAIN recs = 1 .. Len(recs)
  OBVIOUS
<1>2. ASSUME NEW i \in 1 .. Len(recs) PROVE Logical(recs[i]) \in LogRecord
  <2>1. recs[i] \in BlockRecord
    BY <1>1
  <2>2. QED
    BY <2>1 DEF Logical, LogRecord, BlockRecord
<1>3. LogOf(recs) \in [1 .. Len(recs) -> LogRecord]
  BY <1>1, <1>2 DEF LogOf
<1>4. LogOf(recs) \in Seq(LogRecord)
  BY <1>1, <1>3
<1>5. QED
  BY <1>1, <1>3, <1>4 DEF LogOf

LEMMA LogOfAppend ==
  ASSUME NEW recs \in Seq(BlockRecord), NEW rec \in BlockRecord
  PROVE  LogOf(Append(recs, rec)) = Append(LogOf(recs), Logical(rec))
<1> DEFINE s == LogOf(Append(recs, rec))
           t == Append(LogOf(recs), Logical(rec))
<1>1. /\ Append(recs, rec) \in Seq(BlockRecord)
      /\ Len(Append(recs, rec)) = Len(recs) + 1
      /\ Len(recs) \in Nat
      /\ \A i \in 1 .. Len(recs) : Append(recs, rec)[i] = recs[i]
      /\ Append(recs, rec)[Len(recs) + 1] = rec
  BY AppendProperties
<1>2. Logical(rec) \in LogRecord
  BY DEF Logical, LogRecord, BlockRecord
<1>3. /\ s \in Seq(LogRecord)
      /\ Len(s) = Len(recs) + 1
      /\ \A i \in 1 .. Len(recs) + 1 : s[i] = Logical(Append(recs, rec)[i])
  BY <1>1, LogOfSeq
<1>4. /\ LogOf(recs) \in Seq(LogRecord)
      /\ Len(LogOf(recs)) = Len(recs)
      /\ \A i \in 1 .. Len(recs) : LogOf(recs)[i] = Logical(recs[i])
  BY LogOfSeq
<1>5. /\ t \in Seq(LogRecord)
      /\ Len(t) = Len(recs) + 1
      /\ \A i \in 1 .. Len(recs) : t[i] = LogOf(recs)[i]
      /\ t[Len(recs) + 1] = Logical(rec)
  BY <1>2, <1>4, AppendProperties
<1> HIDE DEF s, t
<1>6. ASSUME NEW i \in 1 .. Len(s) PROVE s[i] = t[i]
  <2>1. CASE i \in 1 .. Len(recs)
    BY <1>1, <1>3, <1>4, <1>5, <2>1
  <2>2. CASE i = Len(recs) + 1
    BY <1>1, <1>3, <1>5, <2>2
  <2>3. QED
    BY <1>1, <1>3, <2>1, <2>2
<1>7. s = t
  BY <1>3, <1>5, <1>6, SeqEqual
<1>8. QED
  BY <1>7 DEF s, t

LEMMA StoredOfSeq ==
  ASSUME NEW recs \in Seq(MediumRecord)
  PROVE  /\ StoredOf(recs) \in Seq(LogRecord)
         /\ Len(StoredOf(recs)) = Len(recs)
         /\ Len(recs) \in Nat
         /\ \A i \in 1 .. Len(recs) : StoredOf(recs)[i] = Logical(recs[i].rec)
<1>1. Len(recs) \in Nat /\ DOMAIN recs = 1 .. Len(recs)
  OBVIOUS
<1>2. ASSUME NEW i \in 1 .. Len(recs) PROVE Logical(recs[i].rec) \in LogRecord
  <2>1. recs[i] \in MediumRecord
    BY <1>1
  <2>2. recs[i].rec \in BlockRecord
    BY <2>1 DEF MediumRecord
  <2>3. QED
    BY <2>2 DEF Logical, LogRecord, BlockRecord
<1>3. StoredOf(recs) \in [1 .. Len(recs) -> LogRecord]
  BY <1>1, <1>2 DEF StoredOf
<1>4. StoredOf(recs) \in Seq(LogRecord)
  BY <1>1, <1>3
<1>5. QED
  BY <1>1, <1>3, <1>4 DEF StoredOf

\* Writing the block moves the buffered records behind the stored ones.
LEMMA BlockWrittenStores ==
  ASSUME TypeOK, BlockWritten
  PROVE  StoredOf(medium') = StoredOf(medium) \o LogOf(block)
<1> DEFINE s == StoredOf(medium')
           a == StoredOf(medium)
           b == LogOf(block)
           n == Len(medium)
           k == Len(block)
<1>1. /\ n \in Nat /\ k \in Nat
      /\ Len(medium') = n + k
      /\ \A i \in 1 .. n : medium'[i] = medium[i]
      /\ \A i \in 1 .. k : medium'[n + i].rec = block[i]
  BY BlockWrittenMedium
<1>2. /\ s \in Seq(LogRecord)
      /\ Len(s) = Len(medium')
      /\ \A i \in 1 .. Len(medium') : s[i] = Logical(medium'[i].rec)
  BY BlockWrittenType, StoredOfSeq
<1>3. /\ a \in Seq(LogRecord)
      /\ Len(a) = n
      /\ \A i \in 1 .. n : a[i] = Logical(medium[i].rec)
  BY StoredOfSeq DEF TypeOK
<1>4. /\ b \in Seq(LogRecord)
      /\ Len(b) = k
      /\ \A i \in 1 .. k : b[i] = Logical(block[i])
  BY LogOfSeq DEF TypeOK
<1> HIDE DEF s, a, b, n, k
<1>5. /\ a \o b \in Seq(LogRecord)
      /\ Len(a \o b) = n + k
      /\ \A i \in 1 .. n : (a \o b)[i] = a[i]
      /\ \A i \in 1 .. k : (a \o b)[n + i] = b[i]
  <2>0. a \in Seq(LogRecord) /\ b \in Seq(LogRecord)
    BY <1>3, <1>4
  <2>1. /\ a \o b \in Seq(LogRecord)
        /\ Len(a \o b) = Len(a) + Len(b)
        /\ \A i \in 1 .. Len(a) : (a \o b)[i] = a[i]
        /\ \A i \in 1 .. Len(b) : (a \o b)[Len(a) + i] = b[i]
    BY <2>0, ConcatFacts
  <2>2. Len(a) = n /\ Len(b) = k
    BY <1>3, <1>4
  <2>3. QED
    BY <2>1, <2>2
<1>6. ASSUME NEW i \in 1 .. Len(s) PROVE s[i] = (a \o b)[i]
  <2>0. i \in 1 .. n + k
    BY <1>1, <1>2
  <2>1. CASE i \in 1 .. n
    <3>1. s[i] = Logical(medium[i].rec)
      BY <1>1, <1>2, <2>0, <2>1
    <3>2. QED
      BY <1>3, <1>5, <2>1, <3>1
  <2>2. CASE i \in n + 1 .. n + k
    <3>1. PICK j \in 1 .. k : i = n + j
      <4>1. i - n \in 1 .. k /\ i = n + (i - n)
        BY <1>1, <2>2
      <4>2. QED
        BY <4>1
    <3>2. s[i] = Logical(block[j])
      BY <1>1, <1>2, <2>0, <3>1
    <3>3. (a \o b)[i] = Logical(block[j])
      BY <1>4, <1>5, <3>1
    <3>4. QED
      BY <3>2, <3>3
  <2>3. i \in 1 .. n \/ i \in n + 1 .. n + k
    BY <1>1, <2>0
  <2>4. QED
    BY <2>1, <2>2, <2>3
<1>7. s = a \o b
  <2>1. Len(s) = Len(a \o b)
    BY <1>1, <1>2, <1>5
  <2> DEFINE t == a \o b
  <2>2. t \in Seq(LogRecord) /\ Len(s) = Len(t)
        /\ \A i \in 1 .. Len(s) : s[i] = t[i]
    BY <1>5, <1>6, <2>1
  <2> HIDE DEF t
  <2>3. s = t
    BY <1>2, <2>2, SeqEqual
  <2>4. QED
    BY <2>3 DEF t
<1>8. QED
  BY <1>7 DEF s, a, b

\* A length that an unsigned short holds is logged as the record log says.
LEMMA LoggedAsPromised ==
  ASSUME dataset \in Datasets, NEW len \in RecLens, NEW used \in Nat,
         len < HalfWord
  PROVE  /\ Logical(Placed(used, len)) = Log!Logged(len)
         /\ Truncated(len) <=> len > RecordCapacity
         /\ Log!ReplyTo(len) = IF Truncated(len) THEN "truncated" ELSE "ok"
<1>1. /\ len \in Nat
      /\ UsrRecLen(len) = len
      /\ len + RDW_SIZE < HalfWord
  BY LengthAssumption DEF UsrRecLen, HalfWord
<1>2. /\ dataset.lrecl \in Nat
      /\ IsVar => RDW_SIZE <= dataset.lrecl
  BY DatasetAssumption DEF DatasetType, IsVar
<1>3. DiskLen(len) = IF IsVar THEN len + RDW_SIZE ELSE len
  BY <1>1 DEF DiskLen, HalfWord, RDW_SIZE
<1>4. Truncated(len) <=> len > RecordCapacity
  BY <1>1, <1>2, <1>3 DEF Truncated, RecordCapacity, RDW_SIZE
<1>5. RecLen(len) = IF len > RecordCapacity THEN RecordCapacity ELSE len
  BY <1>1, <1>4 DEF RecLen, RecordCapacity
<1>6. Logical(Placed(used, len)) = Log!Logged(len)
  BY <1>5 DEF Logical, Placed, Log!Logged
<1>7. QED
  BY <1>4, <1>6 DEF Log!ReplyTo

\* A copied record is the last one of the log, and the answer is the promised one.
LEMMA CopyAppends ==
  ASSUME dataset \in Datasets, NEW len \in RecLens, len < HalfWord,
         NEW recs \in Seq(BlockRecord), NEW used \in Nat,
         CopyRecordToBlock(recs, used, len)
  PROVE  /\ LogOf(block') = Append(LogOf(recs), Log!Logged(len))
         /\ Reply' = Log!ReplyTo(len)
<1>1. block' = Append(recs, Placed(used, len)) /\ Placed(used, len) \in BlockRecord
  BY PlacedType DEF CopyRecordToBlock
<1>2. LogOf(block') = Append(LogOf(recs), Logical(Placed(used, len)))
  BY <1>1, LogOfAppend
<1>3. LogOf(block') = Append(LogOf(recs), Log!Logged(len))
  BY <1>2, LoggedAsPromised
<1>4. Reply' = IF Truncated(len) THEN "truncated" ELSE "ok"
  BY DEF CopyRecordToBlock, Reply, Ok, Cut
<1>5. QED
  BY <1>3, <1>4, LoggedAsPromised

LEMMA LogOfEmpty == LogOf(<<>>) = <<>> /\ StoredOf(<<>>) = <<>>
<1>1. /\ LogOf(<<>>) \in Seq(LogRecord) /\ Len(LogOf(<<>>)) = 0
      /\ StoredOf(<<>>) \in Seq(LogRecord) /\ Len(StoredOf(<<>>)) = 0
  BY EmptySequences, LogOfSeq, StoredOfSeq
<1>2. QED
  BY <1>1, EmptySeq

LEMMA InitLog == Init => Log!Init
<1> SUFFICES ASSUME Init PROVE Log!Init
  OBVIOUS
<1>1. RecordCapacity \in Nat
  BY DatasetAssumption
     DEF Init, RecordCapacity, IsVar, DatasetType, RDW_SIZE
<1>2. /\ StoredOf(medium) = <<>> /\ LogOf(block) = <<>>
      /\ is_open = FALSE /\ Reply = "ok"
  BY LogOfEmpty DEF Init, Reply
<1>3. QED
  BY <1>1, <1>2 DEF Log!Init

LEMMA StepLog ==
  ASSUME \A len \in RecLens : len < HalfWord, IInv, [Next]_vars
  PROVE  [Log!Next]_(Log!lvars)
<1>c. RecordCapacity' = RecordCapacity
  BY StepOnMedium DEF RecordCapacity, IsVar
<1>t. /\ dataset \in Datasets /\ bytes_used \in Nat
      /\ block \in Seq(BlockRecord) /\ 0 \in Nat
  BY DEF IInv, TypeOK
<1>w. BlockWritten => StoredOf(medium') = StoredOf(medium) \o LogOf(block)
  BY BlockWrittenStores DEF IInv
<1>1. ASSUME NEW len \in RecLens, WriteRecordBuffered(len) PROVE Log!Next
  <2>1. /\ LogOf(block') = Append(LogOf(block), Log!Logged(len))
        /\ Reply' = Log!ReplyTo(len)
    BY <1>1, <1>t, CopyAppends DEF WriteRecordBuffered
  <2>2. StoredOf(medium)' = StoredOf(medium)
    BY <1>1 DEF WriteRecordBuffered, device
  <2>3. Log!Accept(len)
    BY <1>1, <1>c, <2>1, <2>2 DEF Log!Accept, WriteRecordBuffered
  <2>4. QED
    BY <2>3 DEF Log!Next
<1>2. ASSUME NEW len \in RecLens, WriteRecordSpilled(len) PROVE Log!Next
  <2>1. /\ LogOf(block') = Append(LogOf(<<>>), Log!Logged(len))
        /\ Reply' = Log!ReplyTo(len)
    BY <1>2, <1>t, EmptySequences, CopyAppends DEF WriteRecordSpilled
  <2>2. LogOf(block') = <<Log!Logged(len)>>
    <3>1. \A x : Append(<<>>, x) = <<x>>
      OBVIOUS
    <3>2. LogOf(block') = Append(<<>>, Log!Logged(len))
      BY <2>1, LogOfEmpty
    <3>3. QED
      BY <3>1, <3>2
  <2>3. StoredOf(medium') = StoredOf(medium) \o LogOf(block)
    BY <1>2, <1>w DEF WriteRecordSpilled
  <2>4. Log!StoreAndAccept(len)
    BY <1>2, <1>c, <2>1, <2>2, <2>3 DEF Log!StoreAndAccept, WriteRecordSpilled
  <2>5. QED
    BY <2>4 DEF Log!Next
<1>3. ASSUME ret' = Failed, block' = block, medium' = medium, is_open' = is_open
      PROVE  Log!Next
  <2>1. Reply' = "failed"
    BY <1>3 DEF Reply, Failed, Ok, Cut
  <2>2. Log!Refuse
    BY <1>3, <1>c, <2>1 DEF Log!Refuse
  <2>3. QED
    BY <2>2 DEF Log!Next
<1>4. ASSUME NEW len \in RecLens, WriteRecordFailed(len) PROVE Log!Next
  BY <1>3, <1>4 DEF WriteRecordFailed, BlockNotWritten, device
<1>5. CASE FlushBlock
  <2>1. Reply' = "ok" /\ LogOf(block') = <<>>
    BY <1>5, LogOfEmpty DEF FlushBlock, Reply
  <2>2. StoredOf(medium') = StoredOf(medium) \o LogOf(block)
    BY <1>5, <1>w DEF FlushBlock
  <2>3. Log!Store
    BY <1>5, <1>c, <2>1, <2>2 DEF Log!Store, FlushBlock
  <2>4. QED
    BY <2>3 DEF Log!Next
<1>6. CASE FlushFailed
  BY <1>3, <1>6 DEF FlushFailed, BlockNotWritten, device
<1>7. CASE FlushNothing
  <2>1. block = <<>> /\ block' = <<>> /\ StoredOf(medium)' = StoredOf(medium)
    BY <1>7 DEF FlushNothing, handle, device, IInv, BlockChain, Chain
  <2>2. StoredOf(medium) \in Seq(LogRecord)
    BY StoredOfSeq DEF IInv, TypeOK
  <2>3. StoredOf(medium)' = StoredOf(medium) \o LogOf(block)
    BY <2>1, <2>2, LogOfEmpty, ConcatEmptySeq
  <2>4. Reply' = "ok" /\ LogOf(block') = <<>> /\ is_open /\ is_open' = is_open
    BY <1>7, <2>1, LogOfEmpty DEF FlushNothing, handle, Reply
  <2>5. Log!Store
    BY <1>c, <2>3, <2>4 DEF Log!Store
  <2>6. QED
    BY <2>5 DEF Log!Next
<1>8. CASE OpenPdsForWrite
  <2>1. Reply' = "ok" /\ LogOf(block') = <<>>
    BY <1>8, LogOfEmpty DEF OpenPdsForWrite, Reply
  <2>2. Log!Open
    BY <1>8, <1>c, <2>1 DEF Log!Open, OpenPdsForWrite, device
  <2>3. QED
    BY <2>2 DEF Log!Next
<1>9. CASE ClosePds
  <2>1. Reply' \in {"ok", "failed"} /\ LogOf(block') = <<>>
    BY <1>9, LogOfEmpty DEF ClosePds, Reply, Failed, Ok, Cut
  <2>2. Log!Close
    BY <1>9, <1>c, <2>1 DEF Log!Close, ClosePds, device
  <2>3. QED
    BY <2>2 DEF Log!Next
<1>10. CASE OpenPdsFailed \/ ClosePdsFailed
  BY <1>3, <1>10 DEF OpenPdsFailed, ClosePdsFailed, handle, device
<1>11. CASE UNCHANGED vars
  BY <1>11, <1>c DEF vars, handle, device, Log!lvars, Reply
<1>12. QED
  BY <1>1, <1>2, <1>4, <1>5, <1>6, <1>7, <1>8, <1>9, <1>10, <1>11
     DEF Next, WriteRecord, Flush

\* For callers whose lengths fit in an unsigned short the buffering is
\* invisible: every accepted record is stored or pending exactly once, in call
\* order and cut to the capacity; a failed call costs only its own record, and
\* a cut is reported.
THEOREM Refinement ==
  ASSUME \A len \in RecLens : len < HalfWord
  PROVE  Spec => ImplementsLog
<1>1. IInv /\ [Next]_vars => [Log!Next]_(Log!lvars)
  BY StepLog
<1>2. QED
  BY <1>1, InitLog, IInvHolds, PTL DEF Spec, ImplementsLog, Log!Spec

------------------------------------------------------------------------------
(* RoundTrip: what the writer leaves                                        *)

\* The descriptor word of a V record counts itself and the bytes kept; F records
\* have one length.
StrideIs(rec) == rec.stride = IF IsVar THEN rec.kept + RDW_SIZE ELSE dataset.lrecl

StrideInv ==
  /\ \A i \in DOMAIN block : StrideIs(block[i])
  /\ \A i \in DOMAIN medium : StrideIs(medium[i].rec)

LEMMA PlacedStride ==
  ASSUME dataset \in Datasets, NEW len \in RecLens, NEW used \in Nat
  PROVE  StrideIs(Placed(used, len))
<1>1. Stride(len) = RecordSize(len) /\ RecLen(len) \in Nat
  BY CopyLengths
<1>2. RecordSize(len) = IF IsVar THEN RecLen(len) + RDW_SIZE ELSE dataset.lrecl
  BY <1>1 DEF RecordSize, RDW_SIZE
<1>3. Placed(used, len).stride = Stride(len) /\ Placed(used, len).kept = RecLen(len)
  BY DEF Placed
<1>4. QED
  BY <1>1, <1>2, <1>3 DEF StrideIs

\* What a step leaves in the block: the records it had, none, or a new last one.
LEMMA StepOnBlock ==
  ASSUME IInv, [Next]_vars
  PROVE  \/ block' = block
         \/ block' = <<>>
         \/ \E len \in RecLens, used \in Nat : \/ block' = Append(block, Placed(used, len))
                                               \/ block' = Append(<<>>, Placed(used, len))
<1> DEFINE Goal == \/ block' = block
                   \/ block' = <<>>
                   \/ \E len \in RecLens, used \in Nat :
                        \/ block' = Append(block, Placed(used, len))
                        \/ block' = Append(<<>>, Placed(used, len))
<1>t. bytes_used \in Nat /\ 0 \in Nat
  BY DEF IInv, TypeOK
<1>1. ASSUME NEW len \in RecLens, WriteRecord(len) PROVE Goal
  <2>1. CASE WriteRecordBuffered(len)
    BY <1>t, <2>1 DEF WriteRecordBuffered, CopyRecordToBlock
  <2>2. CASE WriteRecordSpilled(len)
    BY <1>t, <2>2 DEF WriteRecordSpilled, CopyRecordToBlock
  <2>3. CASE WriteRecordFailed(len)
    BY <2>3 DEF WriteRecordFailed, BlockNotWritten
  <2>4. QED
    BY <1>1, <2>1, <2>2, <2>3 DEF WriteRecord
<1>2. CASE Flush
  BY <1>2 DEF Flush, FlushNothing, FlushBlock, FlushFailed, BlockNotWritten, handle
<1>3. CASE OpenPdsForWrite \/ OpenPdsFailed \/ ClosePds \/ ClosePdsFailed
  BY <1>3 DEF OpenPdsForWrite, OpenPdsFailed, ClosePds, ClosePdsFailed, handle
<1>4. CASE UNCHANGED vars
  BY <1>4 DEF vars, handle
<1>5. QED
  BY <1>1, <1>2, <1>3, <1>4 DEF Next

LEMMA NextStrideInv == IInv /\ StrideInv /\ [Next]_vars => StrideInv'
<1> SUFFICES ASSUME IInv, StrideInv, [Next]_vars PROVE StrideInv'
  OBVIOUS
<1>1. dataset \in Datasets /\ dataset' = dataset /\ block \in Seq(BlockRecord)
      /\ medium \in Seq(MediumRecord)
  BY StepOnMedium DEF IInv, TypeOK
<1>2. \A r : StrideIs(r)' <=> StrideIs(r)
  BY <1>1 DEF StrideIs, IsVar
<1>3. \A i \in DOMAIN block' : StrideIs(block'[i])
  <2>1. ASSUME NEW recs \in {block, <<>>}, NEW len \in RecLens, NEW used \in Nat,
               block' = Append(recs, Placed(used, len))
        PROVE  \A i \in DOMAIN block' : StrideIs(block'[i])
    <3>1. Placed(used, len) \in BlockRecord /\ recs \in Seq(BlockRecord)
      BY <1>1, PlacedType, EmptySequences
    <3>2. /\ DOMAIN block' = 1 .. Len(recs) + 1 /\ Len(recs) \in Nat
          /\ block'[Len(recs) + 1] = Placed(used, len)
          /\ \A i \in 1 .. Len(recs) : block'[i] = recs[i]
      BY <2>1, <3>1
    <3>3. \A i \in 1 .. Len(recs) : StrideIs(recs[i])
      BY <1>1 DEF StrideInv
    <3>4. StrideIs(Placed(used, len))
      BY <1>1, PlacedStride
    <3>5. QED
      BY <3>2, <3>3, <3>4
  <2>2. CASE block' = block
    BY <2>2 DEF StrideInv
  <2>3. CASE block' = <<>>
    BY <2>3
  <2>4. QED
    BY <2>1, <2>2, <2>3, StepOnBlock
<1>4. \A i \in DOMAIN medium' : StrideIs(medium'[i].rec)
  <2>1. CASE medium' = medium
    BY <2>1 DEF StrideInv
  <2>2. CASE BlockWritten
    <3>1. /\ Len(medium) \in Nat /\ Len(block) \in Nat
          /\ DOMAIN medium' = 1 .. Len(medium) + Len(block)
          /\ \A i \in 1 .. Len(medium) : medium'[i] = medium[i]
          /\ \A i \in 1 .. Len(block) : medium'[Len(medium) + i].rec = block[i]
      BY <2>2, BlockWrittenMedium DEF IInv
    <3>2. /\ \A i \in 1 .. Len(medium) : StrideIs(medium[i].rec)
          /\ \A i \in 1 .. Len(block) : StrideIs(block[i])
      BY <1>1 DEF StrideInv
    <3>3. ASSUME NEW i \in 1 .. Len(medium) + Len(block) PROVE StrideIs(medium'[i].rec)
      <4>1. CASE i \in 1 .. Len(medium)
        BY <3>1, <3>2, <4>1
      <4>2. CASE i - Len(medium) \in 1 .. Len(block)
        <5>1. i = Len(medium) + (i - Len(medium))
          BY <3>1
        <5>2. PICK j \in 1 .. Len(block) : i = Len(medium) + j
          BY <4>2, <5>1
        <5>3. QED
          BY <3>1, <3>2, <5>2
      <4>3. QED
        BY <3>1, <4>1, <4>2
    <3>4. QED
      BY <3>1, <3>3
  <2>3. QED
    BY <2>1, <2>2, StepOnMedium
<1>5. QED
  BY <1>2, <1>3, <1>4 DEF StrideInv

LEMMA MediumTypes ==
  ASSUME IInv, MediumInv
  PROVE  /\ Len(medium) \in Nat /\ DOMAIN medium = 1 .. Len(medium)
         /\ Len(blocks) \in Nat /\ DOMAIN blocks = 1 .. Len(blocks)
         /\ \A i \in 1 .. Len(medium) :
              /\ medium[i].ttr \in 1 .. Len(blocks)
              /\ medium[i].rec.off \in Nat /\ medium[i].rec.kept \in Nat
              /\ medium[i].rec.stride \in Nat
         /\ \A t \in 1 .. Len(blocks) : blocks[t].size \in Nat /\ blocks[t].size <= dataset.blksi
         /\ dataset \in DatasetType
<1>1. medium \in Seq(MediumRecord) /\ blocks \in Seq(BlockLabel) /\ dataset \in DatasetType
  BY DatasetAssumption DEF IInv, TypeOK
<1>2. /\ Len(medium) \in Nat /\ DOMAIN medium = 1 .. Len(medium)
      /\ Len(blocks) \in Nat /\ DOMAIN blocks = 1 .. Len(blocks)
  BY <1>1
<1>3. ASSUME NEW i \in 1 .. Len(medium)
      PROVE  /\ medium[i].ttr \in 1 .. Len(blocks)
             /\ medium[i].rec.off \in Nat /\ medium[i].rec.kept \in Nat
             /\ medium[i].rec.stride \in Nat
  <2>1. medium[i] \in MediumRecord
    BY <1>1
  <2>2. medium[i].rec \in BlockRecord
    BY <2>1 DEF MediumRecord
  <2>3. medium[i].ttr \in 1 .. Len(blocks)
    BY <1>2 DEF MediumInv, MediumChain
  <2>4. QED
    BY <2>2, <2>3 DEF BlockRecord
<1>4. ASSUME NEW t \in 1 .. Len(blocks)
      PROVE  blocks[t].size \in Nat /\ blocks[t].size <= dataset.blksi
  <2>1. blocks[t] \in BlockLabel
    BY <1>1
  <2>2. blocks[t].size <= blocks[t].blksi /\ blocks[t].blksi <= dataset.blksi
    BY <1>2 DEF MediumInv, MediumOrder
  <2>3. QED
    BY <1>1, <2>1, <2>2 DEF BlockLabel, DatasetType
<1>5. QED
  BY <1>1, <1>2, <1>3, <1>4

LEMMA TtrRises ==
  ASSUME IInv, MediumInv
  PROVE  \A i, j \in 1 .. Len(medium) : i <= j => medium[i].ttr <= medium[j].ttr
<1>1. PICK L, m : L = Len(medium) /\ m = medium
  OBVIOUS
<1>2. L \in Nat /\ \A i \in 1 .. L : m[i].ttr \in Nat
  BY <1>1, MediumTypes
<1>3. \A i \in 1 .. L - 1 : m[i].ttr <= m[i + 1].ttr
  BY <1>1 DEF MediumInv, MediumOrder
<1> DEFINE k == [i \in 1 .. L |-> m[i].ttr]
<1>4. k \in [1 .. L -> Int] /\ \A i \in 1 .. L - 1 : i \in 1 .. L /\ i + 1 \in 1 .. L
  BY <1>2
<1>5. \A i \in 1 .. L - 1 : k[i] <= k[i + 1]
  BY <1>3, <1>4
<1>6. \A i, j \in 1 .. L : i <= j => k[i] <= k[j]
  <2> HIDE DEF k
  <2>1. QED
    BY <1>2, <1>4, <1>5, Rising
<1>7. QED
  BY <1>1, <1>6

\* No block is empty, so the records of neighbouring blocks are neighbours.
LEMMA TtrSteps ==
  ASSUME IInv, MediumInv, NEW i \in 1 .. Len(medium) - 1
  PROVE  medium[i + 1].ttr = medium[i].ttr \/ medium[i + 1].ttr = medium[i].ttr + 1
<1>1. PICK L, m, B : L = Len(medium) /\ m = medium /\ B = Len(blocks)
  OBVIOUS
<1>2. L \in Nat /\ B \in Nat /\ \A j \in 1 .. L : m[j].ttr \in 1 .. B
  BY <1>1, MediumTypes
<1>3. i \in 1 .. L /\ i + 1 \in 1 .. L
  BY <1>1, <1>2
<1>4. \A j, k \in 1 .. L : j <= k => m[j].ttr <= m[k].ttr
  BY <1>1, TtrRises
<1>5. m[i].ttr <= m[i + 1].ttr
  BY <1>2, <1>3, <1>4
<1>6. ~(m[i].ttr + 1 < m[i + 1].ttr)
  <2> SUFFICES ASSUME m[i].ttr + 1 < m[i + 1].ttr PROVE FALSE
    OBVIOUS
  <2>1. m[i].ttr + 1 \in 1 .. B
    BY <1>2, <1>3
  <2>2. PICK k \in 1 .. L : m[k].ttr = m[i].ttr + 1
    BY <1>1, <2>1, MediumTypes DEF MediumInv, MediumOrder
  <2>3. k <= i \/ i + 1 <= k
    BY <1>2, <1>3
  <2>4. QED
    BY <1>2, <1>3, <1>4, <2>2, <2>3
<1>7. QED
  BY <1>1, <1>2, <1>3, <1>5, <1>6

\* The first n records lie in the first blocks, the others behind them.
Divides(n, first) ==
  n \in 0 .. Len(medium) /\ \A i \in 1 .. Len(medium) : medium[i].ttr > first <=> i > n

LEMMA OneDivision ==
  ASSUME IInv, NEW first \in Nat, NEW n, NEW k, Divides(n, first), Divides(k, first)
  PROVE  n = k
<1>1. PICK L : L = Len(medium)
  OBVIOUS
<1>2. L \in Nat /\ n \in 0 .. L /\ k \in 0 .. L /\ \A i \in 1 .. L : i > n <=> i > k
  BY <1>1 DEF IInv, TypeOK, Divides
<1>3. (n # 0 => ~(n > k)) /\ (k # 0 => ~(k > n))
  BY <1>2
<1>4. QED
  BY <1>2, <1>3

\* RecordsIn counts the records of the first blocks.
LEMMA Division ==
  ASSUME IInv, MediumInv, NEW first \in Nat
  PROVE  Divides(RecordsIn(first), first)
<1> DEFINE within == { i \in DOMAIN medium : medium[i].ttr <= first }
<1>0. PICK before : before = within
  OBVIOUS
<1>9. RecordsIn(first) = IF before = {} THEN 0 ELSE CHOOSE i \in before : \A j \in before : j <= i
  BY <1>0 DEF RecordsIn
<1>1. PICK L, m : L = Len(medium) /\ m = medium
  OBVIOUS
<1>2. L \in Nat /\ DOMAIN m = 1 .. L /\ \A i \in 1 .. L : m[i].ttr \in Nat
  BY <1>1, MediumTypes
<1>3. \A i, j \in 1 .. L : i <= j => m[i].ttr <= m[j].ttr
  BY <1>1, TtrRises
<1>4. before = { i \in 1 .. L : m[i].ttr <= first }
  BY <1>0, <1>1, <1>2
<1> HIDE DEF within
<1>5. CASE before = {}
  <2>1. \A i \in 1 .. L : m[i].ttr > first /\ i > 0
    BY <1>2, <1>4, <1>5
  <2>2. QED
    BY <1>1, <1>2, <1>5, <1>9, <2>1 DEF Divides
<1>6. CASE before # {}
  <2> DEFINE S == { L - i : i \in before }
  <2>1. S \in SUBSET Nat /\ S # {}
    BY <1>2, <1>4, <1>6
  <2>2. PICK d \in S : \A c \in S : d <= c
    <3> HIDE DEF S
    <3>1. QED
      BY <2>1, SmallestNat
  <2>3. PICK k \in before : d = L - k
    OBVIOUS
  <2>4. \A j \in before : j <= k
    <3> TAKE j \in before
    <3>1. d <= L - j
      BY <2>2
    <3>2. QED
      BY <1>2, <1>4, <2>3, <3>1
  <2> DEFINE n == CHOOSE i \in before : \A j \in before : j <= i
  <2>5. n \in before /\ \A j \in before : j <= n
    BY <2>4
  <2> HIDE DEF n, S
  <2>6. n \in 1 .. L /\ m[n].ttr <= first
    BY <1>4, <2>5
  <2>7. ASSUME NEW i \in 1 .. L PROVE m[i].ttr > first <=> i > n
    <3>1. CASE i <= n
      BY <1>2, <1>3, <2>6, <3>1
    <3>2. CASE i > n
      <4>1. i \notin before
        BY <1>2, <2>5, <2>6, <3>2
      <4>2. QED
        BY <1>2, <1>4, <3>2, <4>1
    <3>3. QED
      BY <1>2, <2>6, <3>1, <3>2
  <2>8. Divides(n, first)
    BY <1>1, <1>2, <2>6, <2>7 DEF Divides
  <2>9. QED
    BY <1>6, <1>9, <2>8 DEF n
<1>7. QED
  BY <1>5, <1>6

\* Written, with the blocks and the records before the member and the last ones
\* it leads to.
WrittenFrom(n, first, k, last) ==
  [sizes |-> [b \in 1 .. last - first |-> blocks[first + b].size],
   recs  |-> [i \in 1 .. k - n |->
                [blk |-> medium[n + i].ttr - first, off |-> medium[n + i].rec.off,
                 stride |-> medium[n + i].rec.stride]]]

\* Where the member begins and ends.
Bounds(n, first, k, last) ==
  /\ Divides(n, first) /\ Divides(k, last)
  /\ first \in Nat /\ last \in Nat /\ first <= last /\ last <= Len(blocks)

LEMMA BoundsRise ==
  ASSUME IInv, MediumInv, NEW n, NEW first, NEW k, NEW last, Bounds(n, first, k, last)
  PROVE  /\ n \in 0 .. Len(medium) /\ k \in 0 .. Len(medium) /\ n <= k
         /\ \A i \in 1 .. Len(medium) : i <= k <=> medium[i].ttr <= last
<1>1. PICK L, m : L = Len(medium) /\ m = medium
  OBVIOUS
<1>2. /\ L \in Nat /\ n \in 0 .. L /\ k \in 0 .. L
      /\ \A i \in 1 .. L : m[i].ttr > first <=> i > n
      /\ \A i \in 1 .. L : m[i].ttr > last <=> i > k
      /\ \A i \in 1 .. L : m[i].ttr \in Nat
      /\ first \in Nat /\ last \in Nat /\ first <= last
  BY <1>1, MediumTypes DEF Divides, Bounds
<1>3. n <= k
  <2>1. ASSUME n > k PROVE FALSE
    <3>1. n \in 1 .. L
      BY <1>2, <2>1
    <3>2. m[n].ttr > last /\ ~(m[n].ttr > first) /\ m[n].ttr \in Nat
      BY <1>2, <2>1, <3>1
    <3>3. QED
      BY <1>2, <3>2
  <2>2. QED
    BY <1>2, <2>1
<1>4. \A i \in 1 .. L : i <= k <=> m[i].ttr <= last
  BY <1>2
<1>5. QED
  BY <1>1, <1>2, <1>3, <1>4

LEMMA WrittenTypes ==
  ASSUME IInv, MediumInv, NEW n, NEW first, NEW k, NEW last, Bounds(n, first, k, last),
         NEW w, w = WrittenFrom(n, first, k, last)
  PROVE  /\ w \in Reader!Member
         /\ Len(w.sizes) = last - first /\ Len(w.recs) = k - n
         /\ Len(w.sizes) \in Nat /\ Len(w.recs) \in Nat
         /\ DOMAIN w.sizes = 1 .. Len(w.sizes) /\ DOMAIN w.recs = 1 .. Len(w.recs)
         /\ \A b \in 1 .. Len(w.sizes) : first + b \in 1 .. last
                                         /\ w.sizes[b] = blocks[first + b].size
         /\ \A i \in 1 .. Len(w.recs) :
              /\ n + i \in 1 .. k
              /\ w.recs[i].blk = medium[n + i].ttr - first
              /\ w.recs[i].off = medium[n + i].rec.off
              /\ w.recs[i].stride = medium[n + i].rec.stride
<1>1. PICK L, m, B, d : L = k /\ m = medium /\ B = last - first /\ d = blocks
  OBVIOUS
<1>2. /\ L \in Nat /\ n \in 0 .. L /\ L - n \in Nat /\ B \in Nat
      /\ \A i \in 1 .. L : m[i].ttr > first <=> i > n
      /\ \A i \in 1 .. L : m[i].ttr \in Nat /\ m[i].rec.off \in Nat /\ m[i].rec.stride \in Nat
      /\ \A b \in 1 .. B : first + b \in 1 .. last /\ d[first + b].size \in Nat
  <2>0. /\ Len(medium) \in Nat /\ k \in 0 .. Len(medium) /\ n \in 0 .. Len(medium) /\ n <= k
        /\ first \in Nat /\ last \in Nat /\ first <= last /\ last <= Len(blocks)
        /\ \A i \in 1 .. Len(medium) : medium[i].ttr > first <=> i > n
    BY BoundsRise, MediumTypes DEF Bounds, Divides
  <2>9. \A i \in 1 .. L : i \in 1 .. Len(medium)
    BY <1>1, <2>0
  <2>1. /\ L \in Nat /\ n \in 0 .. L
        /\ \A i \in 1 .. L : m[i].ttr > first <=> i > n
    BY <1>1, <2>0, <2>9
  <2>2. \A i \in 1 .. L : m[i].ttr \in Nat /\ m[i].rec.off \in Nat /\ m[i].rec.stride \in Nat
    BY <1>1, <2>9, MediumTypes
  <2>3. Len(blocks) \in Nat /\ B \in Nat
    BY <1>1, <2>0, MediumTypes
  <2>4. \A b \in 1 .. B : first + b \in 1 .. last /\ first + b \in 1 .. Len(blocks)
    BY <1>1, <2>0, <2>3
  <2>5. \A t \in 1 .. Len(blocks) : d[t].size \in Nat
    BY <1>1, MediumTypes
  <2>6. L - n \in Nat
    BY <2>1
  <2>7. \A b \in 1 .. B : d[first + b].size \in Nat
    BY <2>4, <2>5
  <2>8. QED
    BY <2>1, <2>2, <2>3, <2>4, <2>6, <2>7
<1>3. w = [sizes |-> [b \in 1 .. B |-> d[first + b].size],
           recs  |-> [i \in 1 .. L - n |-> [blk |-> m[n + i].ttr - first, off |-> m[n + i].rec.off,
                                            stride |-> m[n + i].rec.stride]]]
  BY <1>1 DEF WrittenFrom
<1>4. \A i \in 1 .. L - n : n + i \in 1 .. L /\ n + i > n
  BY <1>2
<1>5. ASSUME NEW i \in 1 .. L - n PROVE w.recs[i] \in Reader!MemberRecord
  <2>1. m[n + i].ttr - first \in Nat \ {0}
    <3>1. m[n + i].ttr > first /\ m[n + i].ttr \in Nat /\ first \in Nat
      BY <1>2, <1>4 DEF Bounds
    <3>2. QED
      BY <3>1
  <2>2. w.recs[i] = [blk |-> m[n + i].ttr - first, off |-> m[n + i].rec.off,
                     stride |-> m[n + i].rec.stride]
    BY <1>3
  <2>3. m[n + i].rec.off \in Nat /\ m[n + i].rec.stride \in Nat
    BY <1>2, <1>4
  <2>4. QED
    BY <2>1, <2>2, <2>3 DEF Reader!MemberRecord
<1>6. w.recs \in Seq(Reader!MemberRecord) /\ Len(w.recs) = L - n /\ DOMAIN w.recs = 1 .. L - n
  <2>1. w.recs \in [1 .. L - n -> Reader!MemberRecord]
    BY <1>3, <1>5
  <2>2. PICK c \in Nat : c = L - n
    BY <1>2
  <2>3. QED
    BY <2>1, <2>2
<1>7. w.sizes \in Seq(Nat) /\ Len(w.sizes) = B /\ DOMAIN w.sizes = 1 .. B
  <2>1. w.sizes = [b \in 1 .. B |-> d[first + b].size]
    BY <1>3
  <2>2. w.sizes \in [1 .. B -> Nat] /\ B \in Nat
    BY <1>2, <2>1
  <2>3. QED
    BY <2>2
<1>8. w \in Reader!Member
  <2>1. w = [sizes |-> w.sizes, recs |-> w.recs]
    BY <1>3
  <2>2. QED
    BY <1>6, <1>7, <2>1 DEF Reader!Member
<1>9. /\ \A b \in 1 .. B : w.sizes[b] = d[first + b].size
      /\ \A i \in 1 .. L - n : /\ w.recs[i].blk = m[n + i].ttr - first
                               /\ w.recs[i].off = m[n + i].rec.off
                               /\ w.recs[i].stride = m[n + i].rec.stride
  BY <1>3
<1>10. QED
  BY <1>1, <1>2, <1>4, <1>6, <1>7, <1>8, <1>9

\* The blocks of the member hold records that tile them, as the reader expects.
LEMMA WrittenTiles ==
  ASSUME IInv, MediumInv, StrideInv, NEW n, NEW first, NEW k, NEW last,
         Bounds(n, first, k, last), NEW w, w = WrittenFrom(n, first, k, last)
  PROVE  Reader!WellFormed(Readable, w)
<1>1. PICK L, m, B, d, K, C :
        /\ L = k /\ m = medium /\ B = last /\ d = blocks
        /\ K = Len(w.recs) /\ C = Len(w.sizes)
  OBVIOUS
<1>0. first \in Nat
  BY DEF Bounds
<1> USE <1>0
<1>2. /\ K = L - n /\ C = B - first /\ K \in Nat /\ C \in Nat
      /\ DOMAIN w.sizes = 1 .. C /\ DOMAIN w.recs = 1 .. K
      /\ \A b \in 1 .. C : first + b \in 1 .. B /\ w.sizes[b] = d[first + b].size
      /\ \A i \in 1 .. K :
              /\ n + i \in 1 .. L
              /\ w.recs[i].blk = m[n + i].ttr - first
              /\ w.recs[i].off = m[n + i].rec.off
              /\ w.recs[i].stride = m[n + i].rec.stride
  BY <1>1, WrittenTypes
<1>12. PICK N, T : N = Len(medium) /\ T = Len(blocks)
  OBVIOUS
<1>13. /\ N \in Nat /\ L \in 0 .. N /\ n \in 0 .. N /\ n <= L /\ T \in Nat
       /\ first \in Nat /\ B \in Nat /\ B <= T
       /\ \A i \in 1 .. N : m[i].ttr > first <=> i > n
       /\ \A i \in 1 .. N : m[i].ttr <= B <=> i <= L
       /\ \A i \in 1 .. N : m[i].ttr \in 1 .. T
  <2>1. /\ n \in 0 .. Len(medium) /\ k \in 0 .. Len(medium) /\ n <= k
        /\ \A i \in 1 .. Len(medium) : i <= k <=> medium[i].ttr <= last
    BY BoundsRise
  <2>2. /\ last \in Nat /\ last <= Len(blocks)
        /\ \A i \in 1 .. Len(medium) : medium[i].ttr > first <=> i > n
    BY DEF Bounds, Divides
  <2>3. /\ Len(medium) \in Nat /\ Len(blocks) \in Nat
        /\ \A i \in 1 .. Len(medium) : medium[i].ttr \in 1 .. Len(blocks)
    BY MediumTypes
  <2>4. \A i \in 1 .. N : m[i].ttr <= B <=> i <= L
    BY <1>1, <1>12, <2>1
  <2>5. QED
    BY <1>1, <1>12, <2>1, <2>2, <2>3, <2>4
<1>3. /\ L \in Nat /\ B \in Nat /\ n \in 0 .. L /\ first \in Nat
      /\ \A i \in 1 .. L : i \in 1 .. N
      /\ \A i \in 1 .. L : m[i].ttr > first <=> i > n
      /\ \A i \in 1 .. L : m[i].ttr \in 1 .. B
      /\ \A b \in 1 .. B : d[b].size <= dataset.blksi
      /\ dataset \in DatasetType
  <2>1. L \in Nat /\ B \in Nat /\ n \in 0 .. L /\ first \in Nat /\ \A i \in 1 .. L : i \in 1 .. N
    BY <1>13
  <2>2. \A i \in 1 .. L : (m[i].ttr > first <=> i > n) /\ m[i].ttr \in 1 .. B
    BY <1>13, <2>1
  <2>3. \A b \in 1 .. B : b \in 1 .. T
    BY <1>13
  <2>4. \A b \in 1 .. B : d[b].size <= dataset.blksi
    BY <1>1, <1>12, <2>3, MediumTypes
  <2>5. dataset \in DatasetType
    BY MediumTypes
  <2>6. QED
    BY <2>1, <2>2, <2>4, <2>5
<1>4. \A i \in 1 .. L : StrideIs(m[i].rec) /\ m[i].rec.kept \in Nat
  BY <1>1, <1>3, <1>12, MediumTypes DEF StrideInv
<1>14. \A i \in 1 .. N :
        /\ i = 1 \/ m[i - 1].ttr # m[i].ttr => m[i].rec.off = ReaderStart
        /\ m[i].rec.off + m[i].rec.stride =
             IF i = N \/ m[i + 1].ttr # m[i].ttr THEN d[m[i].ttr].size ELSE m[i + 1].rec.off
  BY <1>1, <1>12, MediumTypes DEF MediumInv, MediumChain
<1>5. \A i \in 1 .. L :
        /\ i = 1 \/ m[i - 1].ttr # m[i].ttr => m[i].rec.off = ReaderStart
        /\ m[i].rec.off + m[i].rec.stride =
             IF i = L \/ m[i + 1].ttr # m[i].ttr THEN d[m[i].ttr].size ELSE m[i + 1].rec.off
  <2> TAKE i \in 1 .. L
  <2>1. CASE i # L \/ L = N
    BY <1>3, <1>14, <2>1
  <2>2. CASE i = L /\ L # N
    <3>1. i \in 1 .. N /\ i # N /\ i + 1 \in 1 .. N /\ ~(i + 1 <= L)
      BY <1>3, <1>13, <2>2
    <3>2. ~(m[i + 1].ttr <= B) /\ m[i].ttr <= B
      BY <1>13, <2>2, <3>1
    <3>3. m[i + 1].ttr # m[i].ttr
      BY <3>2
    <3>4. QED
      BY <1>14, <2>2, <3>1, <3>3
  <2>3. QED
    BY <2>1, <2>2
<1>6. Readable.recfm = dataset.recfm /\ Readable.lrecl = dataset.lrecl
      /\ Readable.blksi = dataset.blksi
  BY DEF Readable
<1>7. ASSUME NEW b \in 1 .. C
      PROVE  w.sizes[b] <= dataset.blksi /\ \E i \in 1 .. K : w.recs[i].blk = b
  <2>1. first + b \in 1 .. B /\ first + b > first
    BY <1>2
  <2>2. PICK j \in 1 .. L : m[j].ttr = first + b
    <3>1. first + b \in 1 .. T /\ first + b <= B
      BY <1>13, <2>1
    <3>2. PICK j \in 1 .. N : m[j].ttr = first + b
      BY <1>1, <1>12, <3>1, MediumTypes DEF MediumInv, MediumOrder
    <3>3. j <= L
      BY <1>13, <3>1, <3>2
    <3>4. QED
      BY <3>2, <3>3
  <2>3. j > n
    BY <1>3, <2>1, <2>2
  <2>4. PICK i \in 1 .. K : n + i = j
    <3>1. j - n \in 1 .. K /\ n + (j - n) = j
      BY <1>2, <1>3, <2>3
    <3>2. QED
      BY <3>1
  <2>5. w.recs[i].blk = b
    <3>1. w.recs[i].blk = m[n + i].ttr - first
      BY <1>2
    <3>2. m[n + i].ttr = first + b
      BY <2>2, <2>4
    <3>3. QED
      BY <3>1, <3>2
  <2>6. QED
    BY <1>2, <1>3, <2>1, <2>5
<1>8. ASSUME K # 0 PROVE m[n + 1].ttr = first + 1
  <2>1. 1 \in 1 .. K /\ 1 \in 1 .. C /\ n + 1 \in 1 .. L
    <3>1. n + 1 \in 1 .. L
      BY <1>2, <1>3, <1>8
    <3>2. m[n + 1].ttr > first /\ m[n + 1].ttr \in 1 .. B
      BY <1>3, <3>1
    <3>3. QED
      BY <1>2, <1>3, <1>8, <3>1, <3>2
  <2>2. PICK i \in 1 .. K : w.recs[i].blk = 1
    BY <1>7, <2>1
  <2>3. m[n + i].ttr = first + 1 /\ n + i \in 1 .. L /\ n + 1 <= n + i
    <3>1. n + i \in 1 .. L /\ w.recs[i].blk = m[n + i].ttr - first
      BY <1>2
    <3>2. m[n + i].ttr \in Nat
      BY <1>3, <3>1
    <3>3. PICK x \in Nat : x = m[n + i].ttr
      BY <3>2
    <3>4. x - first = 1
      BY <2>2, <3>1, <3>3
    <3>5. x = first + 1
      BY <3>4
    <3>6. n + 1 <= n + i
      BY <1>3
    <3>7. QED
      BY <3>1, <3>3, <3>5, <3>6
  <2>4. m[n + 1].ttr <= m[n + i].ttr
    BY <1>1, <1>3, <1>12, <2>1, <2>3, TtrRises
  <2>5. m[n + 1].ttr > first
    BY <1>3, <2>1
  <2>6. m[n + 1].ttr \in Nat
    BY <1>3, <2>1
  <2>7. QED
    BY <2>3, <2>4, <2>5, <2>6
<1>9. ASSUME NEW i \in 1 .. K
      PROVE  LET r == w.recs[i]
                 starts == i = 1 \/ w.recs[i - 1].blk # r.blk
                 ends == i = K \/ w.recs[i + 1].blk # r.blk
             IN  /\ r.blk = IF i = 1 THEN 1
                            ELSE w.recs[i - 1].blk + (IF starts THEN 1 ELSE 0)
                 /\ r.blk \in 1 .. C
                 /\ IF dataset.recfm = "V" THEN Reader!RDW_SIZE <= r.stride
                                           ELSE r.stride = dataset.lrecl
                 /\ starts => r.off = ReaderStart
                 /\ r.off + r.stride = IF ends THEN w.sizes[r.blk] ELSE w.recs[i + 1].off
  <2>1. PICK j : j = n + i
    OBVIOUS
  <2>2. /\ j \in 1 .. L /\ j > n /\ w.recs[i].blk = m[j].ttr - first
        /\ w.recs[i].off = m[j].rec.off /\ w.recs[i].stride = m[j].rec.stride
        /\ m[j].ttr > first /\ m[j].ttr \in 1 .. B
    <3>1. /\ j \in 1 .. L /\ w.recs[i].blk = m[j].ttr - first
          /\ w.recs[i].off = m[j].rec.off /\ w.recs[i].stride = m[j].rec.stride
      BY <1>2, <2>1
    <3>2. j > n
      BY <1>2, <1>3, <2>1
    <3>3. m[j].ttr > first /\ m[j].ttr \in 1 .. B
      BY <1>3, <3>1, <3>2
    <3>4. QED
      BY <3>1, <3>2, <3>3
  <2>3. w.recs[i].blk \in 1 .. C
    <3>1. PICK t \in 1 .. B : t = m[j].ttr /\ t > first
      BY <2>2
    <3>2. w.recs[i].blk = t - first
      BY <2>2, <3>1
    <3>3. C = B - first /\ B \in Nat
      BY <1>2, <1>3
    <3>4. t - first \in 1 .. B - first
      BY <3>1, <3>3
    <3>5. QED
      BY <3>2, <3>3, <3>4
  <2>4. IF dataset.recfm = "V" THEN Reader!RDW_SIZE <= w.recs[i].stride
                               ELSE w.recs[i].stride = dataset.lrecl
    <3>1. StrideIs(m[j].rec) /\ m[j].rec.kept \in Nat
      BY <1>4, <2>2
    <3>2. QED
      BY <2>2, <3>1 DEF StrideIs, IsVar, RDW_SIZE, Reader!RDW_SIZE
  <2>5. w.sizes[w.recs[i].blk] = d[m[j].ttr].size
    <3>1. first + w.recs[i].blk = m[j].ttr
      BY <2>2, <1>3
    <3>2. QED
      BY <1>2, <2>3, <3>1
  <2>6. ASSUME i = 1 PROVE w.recs[i].blk = 1 /\ w.recs[i].off = ReaderStart
    <3>1. w.recs[i].blk = 1
      BY <1>8, <1>3, <2>1, <2>2, <2>6
    <3>2. j = 1 \/ m[j - 1].ttr # m[j].ttr
      <4>1. j # 1 => j - 1 \in 1 .. L /\ ~(j - 1 > n)
        BY <1>3, <2>1, <2>2, <2>6
      <4>2. j # 1 => ~(m[j - 1].ttr > first)
        BY <1>3, <4>1
      <4>3. QED
        BY <2>2, <4>2
    <3>3. w.recs[i].off = ReaderStart
      BY <1>5, <2>2, <3>2
    <3>4. QED
      BY <3>1, <3>3
  <2>7. ASSUME i # 1
        PROVE  /\ w.recs[i].blk = w.recs[i - 1].blk +
                     (IF w.recs[i - 1].blk # w.recs[i].blk THEN 1 ELSE 0)
               /\ w.recs[i - 1].blk # w.recs[i].blk => w.recs[i].off = ReaderStart
    <3>1. /\ i - 1 \in 1 .. K /\ n + (i - 1) = j - 1 /\ j - 1 \in 1 .. L - 1 /\ (j - 1) + 1 = j
          /\ j # 1
      <4>1. i \in Nat /\ i > 1 /\ i <= K /\ n \in Nat /\ L \in Nat /\ K = L - n /\ j = n + i
        BY <1>2, <1>3, <2>1, <2>7
      <4>2. QED
        BY <4>1
    <3>2. w.recs[i - 1].blk = m[j - 1].ttr - first
      BY <1>2, <3>1
    <3>3. m[j].ttr = m[j - 1].ttr \/ m[j].ttr = m[j - 1].ttr + 1
      <4>1. j - 1 \in 1 .. Len(medium) - 1
        BY <1>12, <1>13, <3>1
      <4>2. QED
        BY <1>1, <3>1, <4>1, TtrSteps
    <3>4. m[j - 1].ttr \in Nat /\ m[j].ttr \in Nat
      BY <1>3, <2>2, <3>1
    <3>5. w.recs[i - 1].blk # w.recs[i].blk <=> m[j - 1].ttr # m[j].ttr
      BY <2>2, <3>2, <3>4
    <3>6. w.recs[i].blk = w.recs[i - 1].blk +
            (IF w.recs[i - 1].blk # w.recs[i].blk THEN 1 ELSE 0)
      <4>1. PICK x, y \in Nat : x = m[j - 1].ttr /\ y = m[j].ttr
        BY <3>4
      <4>2. w.recs[i].blk = y - first /\ w.recs[i - 1].blk = x - first /\ (y = x \/ y = x + 1)
        BY <2>2, <3>2, <3>3, <4>1
      <4>3. QED
        BY <4>2
    <3>7. w.recs[i - 1].blk # w.recs[i].blk => w.recs[i].off = ReaderStart
      BY <1>5, <2>2, <3>5
    <3>8. QED
      BY <3>6, <3>7
  <2>8. w.recs[i].off + w.recs[i].stride =
          IF i = K \/ w.recs[i + 1].blk # w.recs[i].blk THEN w.sizes[w.recs[i].blk]
                                                        ELSE w.recs[i + 1].off
    <3>1. w.recs[i].off + w.recs[i].stride =
            IF j = L \/ m[j + 1].ttr # m[j].ttr THEN d[m[j].ttr].size ELSE m[j + 1].rec.off
      BY <1>5, <2>2
    <3>2. i = K <=> j = L
      <4>1. PICK a \in Nat : a = n
        BY <1>3
      <4>2. K = L - a /\ j = a + i /\ L \in Nat
        BY <1>2, <1>3, <2>1, <4>1
      <4>3. QED
        BY <4>2
    <3>3. CASE i = K
      BY <2>5, <3>1, <3>2, <3>3
    <3>4. CASE i # K
      <4>1. i + 1 \in 1 .. K /\ n + (i + 1) = j + 1 /\ j + 1 \in 1 .. L
        BY <1>2, <1>3, <2>1, <3>4
      <4>2. w.recs[i + 1].blk = m[j + 1].ttr - first /\ w.recs[i + 1].off = m[j + 1].rec.off
        BY <1>2, <4>1
      <4>3. w.recs[i + 1].blk # w.recs[i].blk <=> m[j + 1].ttr # m[j].ttr
        <5>1. m[j + 1].ttr \in Nat /\ m[j].ttr \in Nat
          BY <1>3, <2>2, <4>1
        <5>2. QED
          BY <2>2, <4>2, <5>1
      <4>4. QED
        BY <2>5, <3>1, <3>2, <3>4, <4>2, <4>3
    <3>5. QED
      BY <3>3, <3>4
  <2>9. QED
    BY <2>3, <2>4, <2>6, <2>7, <2>8
<1>10. Reader!StartIn(Readable) = ReaderStart
  BY <1>6 DEF Reader!StartIn, ReaderStart, IsVar, BDW_SIZE, Reader!BDW_SIZE
<1>11. QED
  <2>1. \A b \in DOMAIN w.sizes :
          /\ w.sizes[b] <= Readable.blksi
          /\ \E i \in DOMAIN w.recs : w.recs[i].blk = b
    BY <1>2, <1>6, <1>7
  <2>2. \A i \in DOMAIN w.recs :
       LET r == w.recs[i]
           starts == i = 1 \/ w.recs[i - 1].blk # r.blk
           ends  == i = Len(w.recs) \/ w.recs[i + 1].blk # r.blk
       IN /\ r.blk = IF i = 1 THEN 1
                     ELSE w.recs[i - 1].blk + (IF starts THEN 1 ELSE 0)
          /\ r.blk \in DOMAIN w.sizes
          /\ IF Readable.recfm = "V" THEN Reader!RDW_SIZE <= r.stride ELSE r.stride = Readable.lrecl
          /\ starts => r.off = Reader!StartIn(Readable)
          /\ r.off + r.stride = IF ends THEN w.sizes[r.blk] ELSE w.recs[i + 1].off
    <3> TAKE i \in DOMAIN w.recs
    <3>1. i \in 1 .. K
      BY <1>2
    <3> DEFINE r == w.recs[i]
               starts == i = 1 \/ w.recs[i - 1].blk # r.blk
               ends == i = K \/ w.recs[i + 1].blk # r.blk
    <3>2. r.blk = IF i = 1 THEN 1 ELSE w.recs[i - 1].blk + (IF starts THEN 1 ELSE 0)
      BY <1>9, <3>1
    <3>3. r.blk \in DOMAIN w.sizes
      BY <1>2, <1>9, <3>1
    <3>4. IF Readable.recfm = "V" THEN Reader!RDW_SIZE <= r.stride
                                  ELSE r.stride = Readable.lrecl
      BY <1>6, <1>9, <3>1
    <3>5. starts => r.off = Reader!StartIn(Readable)
      BY <1>9, <1>10, <3>1
    <3>6. r.off + r.stride = IF ends THEN w.sizes[r.blk] ELSE w.recs[i + 1].off
      BY <1>9, <3>1
    <3>7. K = Len(w.recs)
      BY <1>1
    <3>8. QED
      BY <3>2, <3>3, <3>4, <3>5, <3>6, <3>7
  <2>3. QED
    BY <2>1, <2>2 DEF Reader!WellFormed

\* While the handle is open MemStart tells where the member begins; Publish takes
\* the handle away, and what it told is kept.
PublishedInv ==
  published =>
    /\ opened_at \in Nat /\ end_of_file \in 0 .. Len(blocks)
    /\ IF memstart_ttr = 0 THEN opened_at = Len(blocks)
       ELSE /\ memstart_ttr = opened_at + 1
            /\ opened_at < Len(blocks) /\ end_of_file = Len(blocks)

WriterInv == IInv /\ MediumInv /\ StartInv /\ StrideInv /\ PublishedInv

LEMMA WriterInitial == InitBoth => WriterInv
<1> SUFFICES ASSUME InitBoth PROVE WriterInv
  OBVIOUS
<1>1. Init /\ published = FALSE
  BY DEF InitBoth
<1>2. StartInv
  BY <1>1 DEF Init, StartInv, MemStart
<1>3. StrideInv
  BY <1>1 DEF Init, StrideInv
<1>4. QED
  BY <1>1, <1>2, <1>3, InitIInv, InitMediumInv DEF WriterInv, PublishedInv

LEMMA PublishKeepsWriterInv == WriterInv /\ Publish => WriterInv'
<1> SUFFICES ASSUME WriterInv, Publish PROVE WriterInv'
  OBVIOUS
<1>1. /\ is_open /\ block = <<>> /\ is_open' = FALSE
      /\ UNCHANGED <<dataset, dcbblksi, block_size, bytes_used, block, memstart_ttr,
                     memstart_ttr_known, opened_at, medium, blocks, ret>>
  BY DEF Publish, device
<1>2. IInv'
  <2>1. bytes_used = 0
    BY <1>1 DEF WriterInv, IInv, BlockChain, Chain
  <2>2. TypeOK'
    BY <1>1 DEF WriterInv, IInv, TypeOK
  <2>3. HandleState' /\ BlockFits'
    BY <1>1, <2>1 DEF WriterInv, IInv, HandleState, BlockFits
  <2>4. BlockChain'
    BY <1>1, SameChain DEF WriterInv, IInv
  <2>5. QED
    BY <2>2, <2>3, <2>4 DEF IInv
<1>3. MediumInv'
  BY <1>1, SameMedium DEF WriterInv
<1>4. StartInv'
  BY <1>1 DEF StartInv, MemStart
<1>5. StrideInv'
  <2>1. \A r : StrideIs(r)' <=> StrideIs(r)
    BY <1>1 DEF StrideIs, IsVar
  <2>2. QED
    BY <1>1, <2>1 DEF WriterInv, StrideInv
<1>6. PublishedInv'
  <2>1. /\ opened_at \in Nat /\ Len(blocks) \in Nat /\ opened_at <= Len(blocks)
        /\ memstart_ttr_known <=> Len(blocks) > opened_at
        /\ memstart_ttr = IF memstart_ttr_known THEN opened_at + 1 ELSE 0
    BY <1>1 DEF WriterInv, StartInv, MemStart, IInv, TypeOK
  <2>2. end_of_file' \in IF memstart_ttr = 0 THEN 0 .. Len(blocks) ELSE {Len(blocks)}
    BY DEF Publish
  <2>3. CASE memstart_ttr_known
    <3>1. memstart_ttr # 0 /\ memstart_ttr = opened_at + 1 /\ end_of_file' = Len(blocks)
      BY <2>1, <2>2, <2>3
    <3>2. QED
      BY <1>1, <2>1, <2>3, <3>1 DEF PublishedInv
  <2>4. CASE ~memstart_ttr_known
    <3>1. memstart_ttr = 0 /\ opened_at = Len(blocks) /\ end_of_file' \in 0 .. Len(blocks)
      BY <2>1, <2>2, <2>4
    <3>2. QED
      BY <1>1, <2>1, <3>1 DEF PublishedInv
  <2>5. QED
    BY <2>3, <2>4
<1>7. QED
  BY <1>2, <1>3, <1>4, <1>5, <1>6 DEF WriterInv

LEMMA NextWriterInv == WriterInv /\ [NextBoth]_varsBoth => WriterInv'
<1> SUFFICES ASSUME WriterInv, [NextBoth]_varsBoth PROVE WriterInv'
  OBVIOUS
<1>1. ASSUME [Next]_vars, published' = published, end_of_file' = end_of_file,
             published => UNCHANGED vars
      PROVE  WriterInv'
  <2>1. IInv' /\ MediumInv' /\ StartInv' /\ StrideInv'
    BY <1>1, NextIInv, NextMediumInv, NextStartInv, NextStrideInv DEF WriterInv
  <2>2. PublishedInv'
    BY <1>1 DEF WriterInv, PublishedInv, vars, handle, device
  <2>3. QED
    BY <2>1, <2>2 DEF WriterInv
<1>2. CASE Write
  BY <1>1, <1>2 DEF Write
<1>3. CASE Publish
  BY <1>3, PublishKeepsWriterInv
<1>4. CASE Read
  BY <1>1, <1>4 DEF Read
<1>5. CASE UNCHANGED varsBoth
  BY <1>1, <1>5 DEF varsBoth
<1>6. QED
  BY <1>2, <1>3, <1>4, <1>5 DEF NextBoth

\* Where the entry of a published member leads.
LEMMA WhereItLeads ==
  ASSUME WriterInv, published
  PROVE  Bounds(RecordsIn(BlocksBefore), BlocksBefore, RecordsIn(end_of_file), end_of_file)
<1>1. /\ Len(blocks) \in Nat /\ BlocksBefore \in Nat /\ end_of_file \in 0 .. Len(blocks)
      /\ BlocksBefore <= end_of_file
  <2>1. Len(blocks) \in Nat
    BY DEF WriterInv, IInv, TypeOK
  <2>2. QED
    BY <2>1 DEF WriterInv, PublishedInv, BlocksBefore
<1>2. IInv /\ MediumInv
  BY DEF WriterInv
<1>3. end_of_file \in Nat
  BY <1>1
<1>4. Divides(RecordsIn(BlocksBefore), BlocksBefore) /\ Divides(RecordsIn(end_of_file), end_of_file)
  BY <1>1, <1>2, <1>3, Division
<1>5. QED
  BY <1>1, <1>3, <1>4 DEF Bounds

\* A published member, as the reader sees it.
LEMMA PublishedMember ==
  ASSUME WriterInv, published
  PROVE  \E n, k : /\ Bounds(n, BlocksBefore, k, end_of_file)
                  /\ Written = WrittenFrom(n, BlocksBefore, k, end_of_file)
                  /\ Written \in Reader!Member
                  /\ Reader!WellFormed(Readable, Written)
<1>1. PICK n, k, first, last : /\ n = RecordsIn(BlocksBefore) /\ first = BlocksBefore
                               /\ k = RecordsIn(end_of_file) /\ last = end_of_file
  OBVIOUS
<1>2. Bounds(n, first, k, last)
  BY <1>1, WhereItLeads
<1>3. IInv /\ MediumInv /\ StrideInv
  BY DEF WriterInv
<1>4. Written = WrittenFrom(n, first, k, last)
  BY <1>1 DEF Written, WrittenFrom
<1>5. PICK w : w = WrittenFrom(n, first, k, last)
  OBVIOUS
<1>6. w \in Reader!Member
  BY <1>2, <1>3, <1>5, WrittenTypes
<1>7. Reader!WellFormed(Readable, w)
  BY <1>2, <1>3, <1>5, WrittenTiles
<1>8. QED
  BY <1>1, <1>2, <1>4, <1>5, <1>6, <1>7

\* What BpamRead assumes of the members of a dataset holds of each one that was
\* written, and of the blocks that a member stowed without records leads to:
\* ReaderAssumption is what BpamWrite promises.
THEOREM WrittenMembersAreWellFormed == SpecBoth => []WrittenIsWellFormed
<1>1. WriterInv => WrittenIsWellFormed
  BY PublishedMember DEF WrittenIsWellFormed
<1>2. QED
  BY <1>1, WriterInitial, NextWriterInv, PTL DEF SpecBoth

------------------------------------------------------------------------------
(* RoundTrip: what next_record finds in the member                          *)
(*                                                                          *)
(* The argument is that of BpamRead_proofs, with the dataset that holds the *)
(* member written in the place of any dataset: the prover takes no theorem  *)
(* through an instance.                                                     *)

\* What is known of the dataset, and of a member that is read.
ReadableType ==
  Readable.recfm \in {"F", "V"} /\ Readable.lrecl \in Nat \ {0} /\ Readable.blksi \in Nat

Readers(m) == m \in Reader!Member /\ Reader!WellFormed(Readable, m)

LEMMA ReaderMemberTypes ==
  ASSUME NEW m, Readers(m)
  PROVE  /\ m.recs \in Seq(Reader!MemberRecord) /\ m.sizes \in Seq(Nat)
         /\ Len(m.recs) \in Nat /\ DOMAIN m.recs = 1 .. Len(m.recs)
         /\ Len(m.sizes) \in Nat /\ DOMAIN m.sizes = 1 .. Len(m.sizes)
         /\ Reader!WellFormed(Readable, m)
<1>1. m.recs \in Seq(Reader!MemberRecord) /\ m.sizes \in Seq(Nat)
  BY DEF Readers, Reader!Member
<1>2. QED
  BY <1>1 DEF Readers

LEMMA ReaderTiling ==
  ASSUME ReadableType, NEW m, Readers(m)
  PROVE  Tiled(m.recs, m.sizes, Reader!StartIn(Readable), Len(m.recs), Len(m.sizes))
<1>0. /\ ReadableType
      /\ m.recs \in Seq(Reader!MemberRecord) /\ m.sizes \in Seq(Nat)
      /\ DOMAIN m.recs = 1 .. Len(m.recs) /\ DOMAIN m.sizes = 1 .. Len(m.sizes)
      /\ Reader!WellFormed(Readable, m)
  BY ReaderMemberTypes
<1>1. PICK rs, sz, L, B : rs = m.recs /\ sz = m.sizes /\ L = Len(rs) /\ B = Len(sz)
  OBVIOUS
<1>2. /\ L \in Nat /\ B \in Nat /\ Reader!StartIn(Readable) \in Nat
      /\ \A b \in 1 .. B : sz[b] \in Nat
      /\ \A i \in 1 .. L : rs[i] \in Reader!MemberRecord
  BY <1>0, <1>1 DEF Reader!StartIn, Reader!BDW_SIZE
<1>3. \A i \in 1 .. L : rs[i].blk \in Nat \ {0} /\ rs[i].off \in Nat /\ rs[i].stride \in Nat
  BY <1>2 DEF Reader!MemberRecord
<1>4. \A b \in 1 .. B : \E i \in 1 .. L : rs[i].blk = b
  BY <1>0, <1>1 DEF Reader!WellFormed
<1> DEFINE First(i) == i = 1 \/ rs[i - 1].blk # rs[i].blk
           Last(i) == i = L \/ rs[i + 1].blk # rs[i].blk
<1>5. \A i \in 1 .. L :
        /\ rs[i].blk = IF i = 1 THEN 1 ELSE rs[i - 1].blk + (IF First(i) THEN 1 ELSE 0)
        /\ rs[i].blk \in 1 .. B
        /\ IF Readable.recfm = "V" THEN Reader!RDW_SIZE <= rs[i].stride
                                   ELSE rs[i].stride = Readable.lrecl
        /\ First(i) => rs[i].off = Reader!StartIn(Readable)
        /\ Behind(rs[i]) = IF Last(i) THEN sz[rs[i].blk] ELSE rs[i + 1].off
  BY <1>0, <1>1 DEF Reader!WellFormed, Behind
<1>6. \A i \in 1 .. L : rs[i].stride # 0
  BY <1>0, <1>5 DEF ReadableType, Reader!RDW_SIZE
<1>7. ASSUME L # 0
      PROVE  /\ rs[1].blk = 1 /\ rs[1].off = Reader!StartIn(Readable)
             /\ Behind(rs[L]) = sz[rs[L].blk]
  <2>1. 1 \in 1 .. L /\ L \in 1 .. L
    BY <1>2, <1>7
  <2>2. QED
    BY <1>5, <2>1
<1>8. ASSUME NEW i \in 1 .. L - 1
      PROVE  \/ rs[i + 1].blk = rs[i].blk /\ rs[i + 1].off = Behind(rs[i])
             \/ rs[i + 1].blk = rs[i].blk + 1 /\ rs[i + 1].off = Reader!StartIn(Readable)
                /\ Behind(rs[i]) = sz[rs[i].blk]
  <2>1. i \in 1 .. L /\ i + 1 \in 1 .. L /\ i # L /\ i + 1 # 1 /\ (i + 1) - 1 = i
    BY <1>2
  <2>2. First(i + 1) <=> rs[i].blk # rs[i + 1].blk
    BY <2>1
  <2>3. Last(i) <=> rs[i + 1].blk # rs[i].blk
    BY <2>1
  <2>4. rs[i + 1].blk = rs[i].blk + (IF First(i + 1) THEN 1 ELSE 0)
    BY <1>5, <2>1
  <2>5. Behind(rs[i]) = IF Last(i) THEN sz[rs[i].blk] ELSE rs[i + 1].off
    BY <1>5, <2>1
  <2>6. First(i + 1) => rs[i + 1].off = Reader!StartIn(Readable)
    BY <1>5, <2>1
  <2> HIDE DEF First, Last
  <2>7. QED
    BY <1>3, <2>1, <2>2, <2>3, <2>4, <2>5, <2>6
<1>9. Tiled(rs, sz, Reader!StartIn(Readable), L, B)
  <2> HIDE DEF First, Last
  <2>1. \A i \in 1 .. L : rs[i].blk \in 1 .. B
    BY <1>5
  <2>2. QED
    BY <1>2, <1>3, <1>4, <1>6, <1>7, <1>8, <2>1 DEF Tiled
<1>10. QED
  BY <1>1, <1>9

------------------------------------------------------------------------------
(* What next_record finds                                                   *)

\* Record i of member m: what a caller gets.
AnswerLen(r) == IF Readable.recfm = "V" THEN r.stride - Reader!RDW_SIZE ELSE r.stride

LEMMA ReaderRecordLength ==
  ASSUME ReadableType, NEW m, Readers(m), NEW i \in 1 .. Len(m.recs)
  PROVE  /\ Readable.recfm = "V" => m.recs[i].stride >= Reader!RDW_SIZE
         /\ Readable.recfm # "V" => m.recs[i].stride = Readable.lrecl
         /\ m.recs[i].blk \in 1 .. Len(m.sizes) /\ m.recs[i].off \in Nat /\ m.recs[i].stride \in Nat
         /\ m.sizes[m.recs[i].blk] \in 0 .. Readable.blksi
         /\ Reader!ContentOf(Readable, m)[i] = [id |-> i, len |-> AnswerLen(m.recs[i])]
<1>1. /\ m.recs[i] \in Reader!MemberRecord /\ i \in DOMAIN m.recs /\ m.sizes \in Seq(Nat)
      /\ Reader!WellFormed(Readable, m) /\ ReadableType
  BY ReaderMemberTypes
<1>2. IF Readable.recfm = "V" THEN Reader!RDW_SIZE <= m.recs[i].stride
                              ELSE m.recs[i].stride = Readable.lrecl
  BY <1>1 DEF Reader!WellFormed
<1>3. m.recs[i].stride \in Nat /\ m.recs[i].off \in Nat
  BY <1>1 DEF Reader!MemberRecord
<1>4. m.recs[i].blk \in DOMAIN m.sizes /\ DOMAIN m.sizes = 1 .. Len(m.sizes)
  BY <1>1, ReaderMemberTypes, ReaderTiling DEF Tiled
<1>5. /\ m.sizes[m.recs[i].blk] \in Nat /\ m.sizes[m.recs[i].blk] <= Readable.blksi
      /\ Readable.blksi \in Nat
  <2>1. \A b \in DOMAIN m.sizes : m.sizes[b] <= Readable.blksi
    BY <1>1 DEF Reader!WellFormed
  <2>2. \A b \in DOMAIN m.sizes : m.sizes[b] \in Nat
    BY <1>1
  <2>3. QED
    BY <1>1, <1>4, <2>1, <2>2 DEF ReadableType
<1>6. Reader!ContentOf(Readable, m)[i] = [id |-> i, len |-> AnswerLen(m.recs[i])]
  BY <1>1 DEF Reader!ContentOf, AnswerLen
<1>7. QED
  BY <1>2, <1>3, <1>4, <1>5, <1>6 DEF Reader!RDW_SIZE

LEMMA ReaderTheRecord ==
  ASSUME ReadableType, NEW m, Readers(m), NEW i \in 1 .. Len(m.recs)
  PROVE  Reader!RecordsAt(Reader!BlockOf(m, m.recs[i].blk), m.recs[i].off) =
           {[id |-> i, off |-> m.recs[i].off, stride |-> m.recs[i].stride]}
<1> DEFINE b == m.recs[i].blk
           off == m.recs[i].off
           Entry(j) == [id |-> j, off |-> m.recs[j].off, stride |-> m.recs[j].stride]
<1>1. DOMAIN m.recs = 1 .. Len(m.recs)
  BY ReaderMemberTypes
<1>2. Tiled(m.recs, m.sizes, Reader!StartIn(Readable), Len(m.recs), Len(m.sizes))
  BY ReaderTiling
<1>3. Reader!BlockOf(m, b).recs =
        { Entry(j) : j \in { j \in 1 .. Len(m.recs) : m.recs[j].blk = b } }
  BY <1>1 DEF Reader!BlockOf
<1>4. \A j \in 1 .. Len(m.recs) : m.recs[j].blk = b /\ m.recs[j].off = off => j = i
  BY <1>2, OnePlace
<1>5. \A j : Entry(j).off = m.recs[j].off
  OBVIOUS
<1>6. Reader!RecordsAt(Reader!BlockOf(m, b), off) =
        { r \in Reader!BlockOf(m, b).recs : r.off = off }
  BY DEF Reader!RecordsAt
<1>7. Entry(i) \in Reader!RecordsAt(Reader!BlockOf(m, b), off)
  BY <1>3, <1>5, <1>6
<1>8. ASSUME NEW r \in Reader!RecordsAt(Reader!BlockOf(m, b), off) PROVE r = Entry(i)
  <2> HIDE DEF Entry
  <2>1. PICK j \in 1 .. Len(m.recs) : m.recs[j].blk = b /\ r = Entry(j)
    BY <1>3, <1>6, <1>8
  <2>2. m.recs[j].off = off
    BY <1>5, <1>6, <1>8, <2>1
  <2>3. QED
    BY <1>4, <2>1, <2>2
<1> HIDE DEF Entry
<1>9. Reader!RecordsAt(Reader!BlockOf(m, b), off) = {Entry(i)}
  BY <1>7, <1>8
<1>10. QED
  BY <1>9 DEF Entry

\* The cursor is before record i, or behind the last record of its block.
LEMMA ReaderRecordFound ==
  ASSUME ReadableType, NEW m, Readers(m),
         NEW i \in 1 .. Len(m.recs), NEW b, b = Reader!BlockOf(m, m.recs[i].blk),
         NEW left, left = Readable.blksi - b.size,
         NEW start, NEW len, Reader!Advance(start, len) = m.recs[i].off
  PROVE  LET shift == IF Reader!IsVar THEN Reader!RDW_SIZE ELSE 0
             n == [found |-> TRUE, start |-> m.recs[i].off + shift,
                   len |-> m.recs[i].stride - shift]
         IN  /\ Reader!NextRecord(b, left, start, len) = {n}
             /\ Reader!Answered(b, n) = Reader!ContentOf(Readable, m)[i]
             /\ n.start \in Nat /\ n.len \in Nat /\ n.start + n.len = Behind(m.recs[i])
<1> DEFINE shift == IF Reader!IsVar THEN Reader!RDW_SIZE ELSE 0
           r == m.recs[i]
           n == [found |-> TRUE, start |-> r.off + shift, len |-> r.stride - shift]
           e == [id |-> i, off |-> r.off, stride |-> r.stride]
<1>1. /\ Reader!IsVar => r.stride >= Reader!RDW_SIZE
      /\ ~Reader!IsVar => r.stride = Readable.lrecl
      /\ r.off \in Nat /\ r.stride \in Nat
      /\ m.sizes[r.blk] \in 0 .. Readable.blksi /\ Readable.blksi \in Nat
      /\ Reader!ContentOf(Readable, m)[i] = [id |-> i, len |-> AnswerLen(r)]
  BY ReaderRecordLength DEF Reader!IsVar, ReadableType
<1>2. Reader!RecordsAt(b, r.off) = {e}
  BY ReaderTheRecord
<1>3. Behind(r) <= m.sizes[r.blk] /\ r.off < Behind(r)
  <2>1. Tiled(m.recs, m.sizes, Reader!StartIn(Readable), Len(m.recs), Len(m.sizes))
    BY ReaderTiling
  <2>2. Behind(r) <= m.sizes[r.blk]
    BY <2>1, InBlock
  <2>3. r.stride \in Nat \ {0}
    BY <2>1 DEF Tiled
  <2>4. QED
    BY <1>1, <2>2, <2>3 DEF Behind
<1>4. b.size = m.sizes[r.blk]
  BY DEF Reader!BlockOf
<1>5. Reader!BytesInBlock(b, left) = b.size
  BY <1>1, <1>4 DEF Reader!BytesInBlock
<1>6. ~(r.off >= Reader!BytesInBlock(b, left))
  BY <1>1, <1>3, <1>4, <1>5 DEF Behind
<1>7. Reader!DescriptorsAt(b, r.off) = {r.stride}
  BY <1>2 DEF Reader!DescriptorsAt
<1>8. Reader!NextRecord(b, left, start, len) = {n}
  BY <1>1, <1>6, <1>7 DEF Reader!NextRecord
<1>9. (IF Reader!IsVar THEN n.start - Reader!RDW_SIZE ELSE n.start) = r.off
  BY <1>1 DEF Reader!RDW_SIZE
<1>10. n.len = AnswerLen(r)
  BY <1>1 DEF AnswerLen, Reader!IsVar
<1>11. (CHOOSE q \in {e} : TRUE) = e /\ {e} # {}
  OBVIOUS
<1> DEFINE off == IF Reader!IsVar THEN n.start - Reader!RDW_SIZE ELSE n.start
<1>12. Reader!Answered(b, n) = [id |-> IF Reader!RecordsAt(b, off) = {} THEN Reader!NoRecord
                                ELSE (CHOOSE q \in Reader!RecordsAt(b, off) : TRUE).id,
                         len |-> n.len]
  BY DEF Reader!Answered
<1>13. Reader!Answered(b, n) = [id |-> i, len |-> n.len]
  <2>1. off = r.off
    BY <1>9
  <2>2. Reader!RecordsAt(b, off) = {e}
    BY <1>2, <2>1
  <2>3. e.id = i
    OBVIOUS
  <2> HIDE DEF e, off, n
  <2>4. QED
    BY <1>11, <1>12, <2>2, <2>3
<1>14. Reader!Answered(b, n) = Reader!ContentOf(Readable, m)[i]
  BY <1>1, <1>10, <1>13
<1>15. n.start \in Nat /\ n.len \in Nat /\ n.start + n.len = Behind(r)
  <2>1. PICK x, y \in Nat : x = r.off /\ y = r.stride
    BY <1>1
  <2>2. shift \in Nat /\ shift <= y
    BY <1>1, <2>1 DEF Reader!RDW_SIZE
  <2>3. n.start = x + shift /\ n.len = y - shift /\ Behind(r) = x + y
    BY <2>1 DEF Behind
  <2> HIDE DEF shift, n
  <2>4. QED
    BY <2>2, <2>3
<1>16. QED
  BY <1>8, <1>14, <1>15

LEMMA ReaderNoneFound ==
  ASSUME ReadableType, NEW b, NEW left, b.size \in 0 .. Readable.blksi,
         left = Readable.blksi - b.size, NEW start, NEW len, Reader!Advance(start, len) = b.size
  PROVE  Reader!NextRecord(b, left, start, len) = {[found |-> FALSE, start |-> b.size, len |-> len]}
<1>1. Readable.blksi \in Nat
  BY DEF ReadableType
<1>2. Reader!BytesInBlock(b, left) = b.size
  BY <1>1 DEF Reader!BytesInBlock
<1>3. QED
  BY <1>1, <1>2 DEF Reader!NextRecord

------------------------------------------------------------------------------
(* The invariant of the reader                                              *)

Shift == IF Reader!IsVar THEN Reader!RDW_SIZE ELSE 0

\* The records before the cursor were answered.
ReadInv ==
  /\ Len(read) <= Len(member.recs)
  /\ \A i \in 1 .. Len(read) : read[i] = Reader!ContentOf(Readable, member)[i]

\* The cursor is at the record answered last, the area holds the block it is in,
\* and the residual count tells the size of that block.
PlaceInv ==
  IF line_num = 0
  THEN read = <<>> /\ position = 0 /\ next_record_start = Reader!NULL
  ELSE /\ read # <<>>
       /\ position = member.recs[Len(read)].blk
       /\ area = Reader!BlockOf(member, position)
       /\ residual = Readable.blksi - area.size
       /\ next_record_start = member.recs[Len(read)].off + Shift
       /\ next_record_len = member.recs[Len(read)].stride - Shift

Answers == [id : Nat, len : Nat]

\* The handle was opened and has located nothing, or has located the member.
ReaderInv ==
  /\ ReadableType /\ Readers(Written) /\ Readers(member)
  /\ member # Written => member = Reader!NoMember /\ state = "idle"
  /\ read \in Seq(Answers) /\ line_num \in Nat
  /\ ReadInv
  /\ state = "reading" => PlaceInv
  /\ state = "ended" => Len(read) = Len(Written.recs)

LEMMA ReaderContentIs ==
  ASSUME ReadableType, NEW m, Readers(m)
  PROVE  /\ Len(m.recs) \in Nat
         /\ Reader!ContentOf(Readable, m) \in Seq(Answers)
         /\ Len(Reader!ContentOf(Readable, m)) = Len(m.recs)
<1>1. DOMAIN m.recs = 1 .. Len(m.recs) /\ Len(m.recs) \in Nat
  BY ReaderMemberTypes
<1>2. DOMAIN Reader!ContentOf(Readable, m) = 1 .. Len(m.recs)
  BY <1>1 DEF Reader!ContentOf
<1>3. \A i \in 1 .. Len(m.recs) : Reader!ContentOf(Readable, m)[i] \in Answers
  <2> TAKE i \in 1 .. Len(m.recs)
  <2>1. AnswerLen(m.recs[i]) \in Nat /\ i \in Nat
    <3>1. /\ Readable.recfm = "V" => m.recs[i].stride >= Reader!RDW_SIZE
          /\ m.recs[i].stride \in Nat
      BY ReaderRecordLength
    <3>2. i \in Nat
      BY <1>1
    <3>3. QED
      BY <3>1, <3>2 DEF AnswerLen, Reader!RDW_SIZE
  <2>2. Reader!ContentOf(Readable, m)[i] = [id |-> i, len |-> AnswerLen(m.recs[i])]
    BY ReaderRecordLength
  <2>3. QED
    BY <2>1, <2>2 DEF Answers
<1>4. Reader!ContentOf(Readable, m) = [i \in 1 .. Len(m.recs) |-> Reader!ContentOf(Readable, m)[i]]
  BY <1>1 DEF Reader!ContentOf
<1>5. PICK c, L : c = Reader!ContentOf(Readable, m) /\ L = Len(m.recs)
  OBVIOUS
<1>6. L \in Nat /\ c \in [1 .. L -> Answers]
  BY <1>1, <1>3, <1>4, <1>5
<1>7. c \in Seq(Answers) /\ Len(c) = L
  BY <1>6
<1>8. QED
  BY <1>5, <1>6, <1>7

LEMMA ReaderBlockType ==
  ASSUME ReadableType, NEW m, Readers(m), NEW b \in 1 .. Len(m.sizes)
  PROVE  /\ Reader!BlockOf(m, b).size = m.sizes[b]
         /\ m.sizes[b] \in 0 .. Readable.blksi /\ Readable.blksi \in Nat
         /\ Reader!BlockOf(m, b).recs \subseteq [id : Nat, off : Nat, stride : Nat]
<1>1. /\ DOMAIN m.recs = 1 .. Len(m.recs) /\ DOMAIN m.sizes = 1 .. Len(m.sizes)
      /\ m.sizes \in Seq(Nat) /\ Reader!WellFormed(Readable, m) /\ ReadableType
  BY ReaderMemberTypes
<1>2. \A i \in 1 .. Len(m.recs) : i \in Nat /\ m.recs[i].off \in Nat /\ m.recs[i].stride \in Nat
  <2> TAKE i \in 1 .. Len(m.recs)
  <2>1. i \in Nat
    BY <1>1, ReaderMemberTypes
  <2>2. QED
    BY <2>1, ReaderRecordLength
<1>3. m.sizes[b] \in Nat /\ m.sizes[b] <= Readable.blksi /\ Readable.blksi \in Nat
  <2>1. \A c \in DOMAIN m.sizes : m.sizes[c] <= Readable.blksi
    BY <1>1 DEF Reader!WellFormed
  <2>2. QED
    BY <1>1, <2>1 DEF ReadableType
<1>4. QED
  BY <1>1, <1>2, <1>3 DEF Reader!BlockOf

\* What next_record answers while a member is read.
LEMMA ReaderNextHere ==
  ASSUME ReaderInv, state = "reading", line_num # 0, NEW n, n = Len(read),
         NEW q \in Reader!NextRecord(area, residual, next_record_start, next_record_len)
  PROVE  /\ n \in 1 .. Len(member.recs) /\ position = member.recs[n].blk
         /\ q.found =>
              /\ n + 1 \in 1 .. Len(member.recs)
              /\ position = member.recs[n + 1].blk
              /\ q.start = member.recs[n + 1].off + Shift
              /\ q.len = member.recs[n + 1].stride - Shift
              /\ Reader!Answered(area, q) = Reader!ContentOf(Readable, member)[n + 1]
         /\ ~q.found => Behind(member.recs[n]) = member.sizes[position]
<1>1. /\ ReadableType /\ Readers(member)
      /\ read \in Seq(Answers)
      /\ ReadInv /\ read # <<>>
      /\ position = member.recs[n].blk
      /\ area = Reader!BlockOf(member, position)
      /\ residual = Readable.blksi - area.size
      /\ next_record_start = member.recs[n].off + Shift
      /\ next_record_len = member.recs[n].stride - Shift
  BY DEF ReaderInv, ReadableType, PlaceInv, Answers
<1>2. n \in 1 .. Len(member.recs)
  BY <1>1, ReaderContentIs DEF ReadInv
<1>3. PICK m, r, L : m = member /\ r = m.recs[n] /\ L = Len(m.recs)
  OBVIOUS
<1>4. /\ r.off \in Nat /\ r.stride \in Nat /\ r.stride >= Shift
      /\ m.sizes[r.blk] \in 0 .. Readable.blksi /\ r.blk \in 1 .. Len(m.sizes)
  <2>1. /\ Readable.recfm = "V" => r.stride >= Reader!RDW_SIZE
        /\ r.off \in Nat /\ r.stride \in Nat
        /\ m.sizes[r.blk] \in 0 .. Readable.blksi /\ r.blk \in 1 .. Len(m.sizes)
    BY <1>1, <1>2, <1>3, ReaderRecordLength
  <2>2. QED
    BY <2>1 DEF Shift, Reader!IsVar, Reader!RDW_SIZE
<1>5. Reader!Advance(next_record_start, next_record_len) = Behind(r)
  <2>1. PICK x, y, z \in Nat : x = r.off /\ y = r.stride /\ z = Shift
    BY <1>4 DEF Shift, Reader!RDW_SIZE
  <2>2. next_record_start = x + z /\ next_record_len = y - z /\ Behind(r) = x + y
    BY <1>1, <1>3, <2>1 DEF Behind
  <2>3. next_record_start # Reader!NULL /\ next_record_start + next_record_len = Behind(r)
    BY <2>1, <2>2 DEF Reader!NULL
  <2>4. QED
    BY <2>3 DEF Reader!Advance
<1>6. area.size = m.sizes[r.blk] /\ area.size \in 0 .. Readable.blksi
  BY <1>1, <1>3, <1>4 DEF Reader!BlockOf
<1>7. Tiled(m.recs, m.sizes, Reader!StartIn(Readable), L, Len(m.sizes))
  BY <1>1, <1>3, ReaderTiling
<1>8. Behind(r) <= m.sizes[r.blk] /\ Behind(r) \in Nat
  <2>1. \A i \in 1 .. L : Behind(m.recs[i]) <= m.sizes[m.recs[i].blk]
    BY <1>7, InBlock
  <2>2. Behind(r) <= m.sizes[r.blk]
    BY <1>2, <1>3, <2>1
  <2>3. Behind(r) \in Nat
    BY <1>4 DEF Behind
  <2>4. QED
    BY <2>2, <2>3
<1>9. CASE Behind(r) < m.sizes[r.blk]
  <2>1. n + 1 \in 1 .. L /\ m.recs[n + 1].blk = r.blk /\ m.recs[n + 1].off = Behind(r)
    BY <1>2, <1>3, <1>7, <1>9, Following
  <2>2. area = Reader!BlockOf(m, m.recs[n + 1].blk)
    BY <1>1, <1>3, <2>1
  <2>3. Reader!Advance(next_record_start, next_record_len) = m.recs[n + 1].off
    BY <1>5, <2>1
  <2> DEFINE f == [found |-> TRUE, start |-> m.recs[n + 1].off + Shift,
                   len |-> m.recs[n + 1].stride - Shift]
  <2>4. /\ Reader!NextRecord(area, residual, next_record_start, next_record_len) = {f}
        /\ Reader!Answered(area, f) = Reader!ContentOf(Readable, m)[n + 1]
    <3>1. Readers(m) /\ n + 1 \in 1 .. Len(m.recs)
      BY <1>1, <1>3, <2>1
    <3>2. residual = Readable.blksi - area.size /\ ReadableType
      BY <1>1
    <3> HIDE DEF f
    <3>3. LET shift == IF Reader!IsVar THEN Reader!RDW_SIZE ELSE 0
              g == [found |-> TRUE, start |-> m.recs[n + 1].off + shift,
                    len |-> m.recs[n + 1].stride - shift]
          IN  /\ Reader!NextRecord(area, residual, next_record_start, next_record_len) = {g}
              /\ Reader!Answered(area, g) = Reader!ContentOf(Readable, m)[n + 1]
      BY <2>2, <2>3, <3>1, <3>2, ReaderRecordFound
    <3>4. QED
      BY <3>3 DEF f, Shift
  <2>5. q = f
    BY <2>4
  <2>6. q.found
    BY <2>5
  <2>7. QED
    BY <1>1, <1>2, <1>3, <2>1, <2>4, <2>5, <2>6
<1>10. CASE Behind(r) = m.sizes[r.blk]
  <2>1. Reader!NextRecord(area, residual, next_record_start, next_record_len)
          = {[found |-> FALSE, start |-> area.size, len |-> next_record_len]}
    <3>1. Reader!Advance(next_record_start, next_record_len) = area.size
      BY <1>5, <1>6, <1>10
    <3>2. QED
      BY <1>1, <1>6, <3>1, ReaderNoneFound
  <2>2. ~q.found
    BY <2>1
  <2>3. QED
    BY <1>1, <1>2, <1>3, <1>10, <2>2
<1>11. QED
  BY <1>4, <1>8, <1>9, <1>10

\* Where a block is needed all of the block in the area was answered: record n + 1
\* is the first of the next block, if there is one.
LEMMA ReaderNextBlock ==
  ASSUME ReaderInv, Reader!BlockNeeded, NEW n, n = Len(read)
  PROVE  /\ n \in Nat
         /\ position < Len(member.sizes) =>
              /\ n + 1 \in 1 .. Len(member.recs)
              /\ member.recs[n + 1].blk = position + 1
              /\ member.recs[n + 1].off = Reader!ReaderStart
         /\ position = Len(member.sizes) => n = Len(member.recs)
<1>0. /\ ReadableType /\ Readers(member)
      /\ read \in Seq(Answers) /\ n \in Nat
      /\ state = "reading" /\ ReadInv /\ PlaceInv
  BY DEF ReaderInv, Reader!BlockNeeded, Reader!MayRead, Answers
<1>1. PICK m, L, B : m = member /\ L = Len(m.recs) /\ B = Len(m.sizes)
  OBVIOUS
<1>2. Tiled(m.recs, m.sizes, Reader!StartIn(Readable), L, B)
  BY <1>0, <1>1, ReaderTiling
<1>3. CASE line_num = 0
  <2>1. n = 0 /\ position = 0
    BY <1>0, <1>3 DEF PlaceInv
  <2>2. L \in Nat /\ B \in Nat /\ (L # 0 <=> B # 0)
    <3>1. L \in Nat /\ B \in Nat
      BY <1>2 DEF Tiled
    <3>2. L # 0 => 1 \in 1 .. L
      BY <3>1
    <3>3. B # 0 => 1 \in 1 .. B
      BY <3>1
    <3>4. QED
      BY <1>2, <3>1, <3>2, <3>3 DEF Tiled
  <2>3. L # 0 => m.recs[1].blk = 1 /\ m.recs[1].off = Reader!StartIn(Readable)
    BY <1>2 DEF Tiled
  <2>4. QED
    BY <1>1, <2>1, <2>2, <2>3 DEF Reader!ReaderStart
<1>4. CASE line_num # 0
  <2>1. PICK q \in Reader!NextRecord(area, residual, next_record_start, next_record_len) : ~q.found
    BY <1>4 DEF Reader!BlockNeeded
  <2>2. /\ n \in 1 .. L /\ position = m.recs[n].blk
        /\ Behind(m.recs[n]) = m.sizes[m.recs[n].blk]
    BY <1>0, <1>1, <1>4, <2>1, ReaderNextHere
  <2>3. /\ m.recs[n].blk # B =>
             n + 1 \in 1 .. L /\ m.recs[n + 1].blk = m.recs[n].blk + 1
             /\ m.recs[n + 1].off = Reader!StartIn(Readable)
        /\ m.recs[n].blk = B => n = L
    BY <1>2, <2>2, Following
  <2>4. QED
    BY <1>0, <1>1, <1>2, <2>2, <2>3 DEF Reader!ReaderStart, Tiled
<1>5. QED
  BY <1>3, <1>4

------------------------------------------------------------------------------
(* RoundTrip: the steps of the reader                                       *)

LEMMA SameWritten ==
  ASSUME UNCHANGED <<vars, end_of_file>>
  PROVE  Readable' = Readable /\ Written' = Written
BY DEF vars, handle, device, Readable, Written, BlocksBefore, RecordsIn

\* Record n + 1 is answered, or passed over for being too long.
LEMMA ReaderAnswerStep ==
  ASSUME ReaderInv, state = "reading", NEW n, n = Len(read), n + 1 \in 1 .. Len(member.recs),
         NEW b, b = Reader!BlockOf(member, member.recs[n + 1].blk),
         NEW q, q.start = member.recs[n + 1].off + Shift,
         q.len = member.recs[n + 1].stride - Shift,
         Reader!Answered(b, q) = Reader!ContentOf(Readable, member)[n + 1],
         NEW limit, Reader!Answer(b, q, limit), Readable' = Readable, Written' = Written,
         member' = member, position' = member.recs[n + 1].blk, area' = b,
         residual' = Readable.blksi - b.size, line_num' \in Nat \ {0}
  PROVE  ReaderInv'
<1> DEFINE content == Reader!ContentOf(Readable, member)
<1>0. /\ ReadableType /\ Readers(member) /\ Readers(Written) /\ member = Written
      /\ read \in Seq(Answers) /\ n \in Nat
      /\ ReadInv
  BY DEF ReaderInv
<1>1. content \in Seq(Answers) /\ Len(content) = Len(member.recs) /\ Len(member.recs) \in Nat
  BY <1>0, ReaderContentIs
<1>2. content' = content
  OBVIOUS
<1> HIDE DEF content
<1>3. content[n + 1] \in Answers
  BY <1>1
<1>4. /\ next_record_start' = q.start /\ next_record_len' = q.len
      /\ \/ state' = "stopped" /\ read' = read
         \/ state' = state /\ read' = Append(read, content[n + 1])
  BY DEF Reader!Answer, content
<1>5. ReadableType' /\ Readers(member)' /\ Readers(Written)' /\ member' = Written'
  BY <1>0 DEF ReadableType, Readers
<1>6. read' \in Seq(Answers)
  BY <1>0, <1>3, <1>4, AppendProperties
<1>7. CASE state' = "stopped" /\ read' = read
  <2>1. ReadInv'
    BY <1>0, <1>2, <1>7 DEF ReadInv, content
  <2>2. QED
    BY <1>5, <1>6, <1>7, <2>1 DEF ReaderInv
<1>8. CASE state' = state /\ read' = Append(read, content[n + 1])
  <2>1. /\ Len(read') = n + 1 /\ read'[n + 1] = content[n + 1]
        /\ \A i \in 1 .. n : read'[i] = read[i]
    BY <1>0, <1>3, <1>8, AppendProperties
  <2>2. \A i \in 1 .. n + 1 : i \in 1 .. n \/ i = n + 1
    BY <1>0
  <2>3. \A i \in 1 .. n + 1 : read'[i] = content[i]
    BY <1>0, <2>1, <2>2 DEF ReadInv, content
  <2>4. ReadInv'
    BY <1>1, <1>2, <2>1, <2>3 DEF ReadInv, content
  <2>5. read' # <<>>
    BY <1>0, <2>1
  <2>6. Shift' = Shift
    BY DEF Shift, Reader!IsVar
  <2>7. PlaceInv'
    BY <1>0, <1>4, <2>1, <2>5, <2>6 DEF PlaceInv
  <2>8. QED
    BY <1>5, <1>6, <1>8, <2>4, <2>7 DEF ReaderInv
<1>9. QED
  BY <1>4, <1>7, <1>8

LEMMA ReaderNextRecordStep ==
  ASSUME ReaderInv, UNCHANGED <<vars, end_of_file>>, NEW limit, Reader!ReadNextRecord(limit)
  PROVE  ReaderInv'
<1>1. PICK q \in Reader!NextRecord(area, residual, next_record_start, next_record_len) :
        q.found /\ Reader!Answer(area, q, limit)
  BY DEF Reader!ReadNextRecord
<1>2. state = "reading" /\ line_num # 0 /\ UNCHANGED <<member, position, area, residual, line_num>>
  BY DEF Reader!ReadNextRecord, Reader!MayRead
<1>3. PICK n, b : n = Len(read) /\ b = area
  OBVIOUS
<1>4. /\ n + 1 \in 1 .. Len(member.recs)
      /\ position = member.recs[n + 1].blk
      /\ q.start = member.recs[n + 1].off + Shift
      /\ q.len = member.recs[n + 1].stride - Shift
      /\ Reader!Answered(b, q) = Reader!ContentOf(Readable, member)[n + 1]
  BY <1>1, <1>2, <1>3, ReaderNextHere
<1>5. /\ b = Reader!BlockOf(member, member.recs[n + 1].blk)
      /\ residual = Readable.blksi - b.size /\ line_num \in Nat
  BY <1>2, <1>3, <1>4 DEF ReaderInv, PlaceInv
<1>6. /\ member' = member /\ position' = member.recs[n + 1].blk /\ area' = b
      /\ residual' = Readable.blksi - b.size /\ line_num' \in Nat \ {0}
      /\ Reader!Answer(b, q, limit)
  BY <1>1, <1>2, <1>3, <1>4, <1>5
<1>7. Readable' = Readable /\ Written' = Written
  BY SameWritten
<1>8. QED
  BY <1>2, <1>3, <1>4, <1>5, <1>6, <1>7, ReaderAnswerStep

LEMMA ReaderNextBlockStep ==
  ASSUME ReaderInv, UNCHANGED <<vars, end_of_file>>, NEW limit, Reader!ReadNextBlock(limit)
  PROVE  ReaderInv'
<1>0. Readable' = Readable /\ Written' = Written
  BY SameWritten
<1>1. /\ Reader!BlockNeeded /\ state = "reading" /\ position < Len(member.sizes)
      /\ position' = position + 1
      /\ area' = Reader!BlockOf(member, position + 1)
      /\ residual' = Readable.blksi - area'.size
      /\ line_num' = line_num + 1
      /\ member' = member
      /\ \E q \in Reader!NextRecord(area', residual', Reader!NULL, 0) :
           Reader!Answer(area', q, limit)
  BY DEF Reader!ReadNextBlock, Reader!BlockNeeded, Reader!MayRead
<1>2. PICK n, b, left : n = Len(read) /\ b = area' /\ left = residual'
  OBVIOUS
<1>3. /\ n \in Nat /\ n + 1 \in 1 .. Len(member.recs)
      /\ member.recs[n + 1].blk = position + 1
      /\ member.recs[n + 1].off = Reader!ReaderStart
  BY <1>1, <1>2, ReaderNextBlock
<1>4. PICK q \in Reader!NextRecord(b, left, Reader!NULL, 0) : Reader!Answer(b, q, limit)
  BY <1>1, <1>2
<1>5. b = Reader!BlockOf(member, member.recs[n + 1].blk) /\ left = Readable.blksi - b.size
  BY <1>1, <1>2, <1>3
<1>6. Reader!Advance(Reader!NULL, 0) = member.recs[n + 1].off
  BY <1>3 DEF Reader!Advance
<1>7. ReadableType /\ Readers(member) /\ line_num \in Nat
  BY DEF ReaderInv
<1> DEFINE f == [found |-> TRUE, start |-> member.recs[n + 1].off + Shift,
                 len |-> member.recs[n + 1].stride - Shift]
<1>8. /\ Reader!NextRecord(b, left, Reader!NULL, 0) = {f}
      /\ Reader!Answered(b, f) = Reader!ContentOf(Readable, member)[n + 1]
  <2>1. PICK m : m = member
    OBVIOUS
  <2>2. /\ Readers(m) /\ n + 1 \in 1 .. Len(m.recs)
        /\ b = Reader!BlockOf(m, m.recs[n + 1].blk)
        /\ Reader!Advance(Reader!NULL, 0) = m.recs[n + 1].off
    BY <1>3, <1>5, <1>6, <1>7, <2>1
  <2> HIDE DEF f
  <2>3. LET shift == IF Reader!IsVar THEN Reader!RDW_SIZE ELSE 0
            g == [found |-> TRUE, start |-> m.recs[n + 1].off + shift,
                  len |-> m.recs[n + 1].stride - shift]
        IN  /\ Reader!NextRecord(b, left, Reader!NULL, 0) = {g}
            /\ Reader!Answered(b, g) = Reader!ContentOf(Readable, m)[n + 1]
    BY <1>5, <1>7, <2>2, ReaderRecordFound
  <2>4. QED
    BY <2>1, <2>3 DEF f, Shift
<1>9. /\ q.start = member.recs[n + 1].off + Shift
      /\ q.len = member.recs[n + 1].stride - Shift
      /\ Reader!Answered(b, q) = Reader!ContentOf(Readable, member)[n + 1]
  <2>1. q = f
    <3> HIDE DEF f
    <3>1. QED
      BY <1>4, <1>8
  <2>2. Reader!Answered(b, q) = Reader!ContentOf(Readable, member)[n + 1]
    <3> HIDE DEF f
    <3>1. QED
      BY <1>8, <2>1
  <2>3. QED
    BY <2>1, <2>2
<1>10. /\ position' = member.recs[n + 1].blk /\ area' = b /\ residual' = Readable.blksi - b.size
       /\ line_num' \in Nat \ {0}
  BY <1>1, <1>2, <1>3, <1>5, <1>7
<1>11. QED
  BY <1>0, <1>1, <1>2, <1>3, <1>4, <1>5, <1>9, <1>10, ReaderAnswerStep

\* The end, a failure, another FIND: what was read is as it was, or nothing.
LEMMA ReaderOtherSteps ==
  ASSUME ReaderInv, UNCHANGED <<vars, end_of_file>>,
         \/ Reader!ReadEnd \/ Reader!ReadCheckFailed \/ Reader!ReadFailed
         \/ Reader!FindMember \/ Reader!FindFailed \/ UNCHANGED reader
  PROVE  ReaderInv'
<1>1. Readable' = Readable /\ Written' = Written
  BY SameWritten
<1>2. /\ ReadableType /\ Readers(Written) /\ Readers(member)
      /\ member # Written => member = Reader!NoMember /\ state = "idle"
      /\ read \in Seq(Answers) /\ line_num \in Nat
      /\ ReadInv /\ (state = "reading" => PlaceInv)
      /\ state = "ended" => Len(read) = Len(Written.recs)
  BY DEF ReaderInv
<1>3. ReadableType' /\ Readers(Written)'
  BY <1>1, <1>2 DEF ReadableType, Readers
<1>4. ASSUME UNCHANGED <<member, read>> PROVE Readers(member)' /\ ReadInv'
  BY <1>1, <1>2, <1>4 DEF Readers, ReadInv
<1>5. CASE Reader!ReadEnd
  <2>1. /\ Reader!BlockNeeded /\ state = "reading" /\ position = Len(member.sizes)
        /\ state' = "ended" /\ UNCHANGED <<member, line_num, read>>
    BY <1>5 DEF Reader!ReadEnd, Reader!CheckFailed, Reader!BlockNeeded, Reader!MayRead
  <2>2. member = Written /\ Len(read) = Len(member.recs)
    BY <1>2, <2>1, ReaderNextBlock
  <2>3. QED
    BY <1>1, <1>2, <1>3, <1>4, <2>1, <2>2 DEF ReaderInv
<1>6. CASE Reader!ReadCheckFailed \/ Reader!ReadFailed
  <2>1. /\ state = "reading" /\ state' = "stopped" /\ UNCHANGED <<member, line_num, read>>
    BY <1>6 DEF Reader!ReadCheckFailed, Reader!ReadFailed, Reader!CheckFailed,
                Reader!BlockNeeded, Reader!MayRead
  <2>2. QED
    BY <1>1, <1>2, <1>3, <1>4, <2>1 DEF ReaderInv
<1>7. CASE Reader!FindMember
  <2>1. /\ member' = Written /\ position' = 0 /\ next_record_start' = Reader!NULL
        /\ line_num' = 0 /\ read' = <<>> /\ state' = "reading"
    BY <1>7 DEF Reader!FindMember, Readable
  <2>2. Len(member'.recs) \in Nat
    BY <1>2, <2>1, ReaderMemberTypes
  <2>3. read' \in Seq(Answers) /\ Len(read') = 0 /\ (1 .. 0) = {}
    BY <2>1
  <2>4. ReadInv' /\ PlaceInv'
    BY <2>1, <2>2, <2>3 DEF ReadInv, PlaceInv
  <2>5. Readers(member)'
    BY <1>1, <1>2, <2>1 DEF Readers
  <2>6. QED
    BY <1>1, <1>3, <2>1, <2>3, <2>4, <2>5 DEF ReaderInv
<1>8. CASE Reader!FindFailed
  <2>1. /\ state # "reading" /\ state' = "idle" /\ UNCHANGED <<member, line_num, read>>
    BY <1>8 DEF Reader!FindFailed, Reader!MayFind, Reader!cursor
  <2>2. QED
    BY <1>1, <1>2, <1>3, <1>4, <2>1 DEF ReaderInv
<1>9. CASE UNCHANGED reader
  <2>1. UNCHANGED <<member, position, area, residual, next_record_start, next_record_len,
                    line_num, read, state>>
    BY <1>9 DEF reader
  <2>2. PlaceInv => PlaceInv'
    BY <1>1, <2>1 DEF PlaceInv, Shift, Reader!IsVar
  <2>3. QED
    BY <1>1, <1>2, <1>3, <1>4, <2>1, <2>2 DEF ReaderInv
<1>10. QED
  BY <1>5, <1>6, <1>7, <1>8, <1>9

LEMMA ReaderStep ==
  ASSUME ReaderInv, UNCHANGED <<vars, end_of_file>>, Reader!Next \/ UNCHANGED reader
  PROVE  ReaderInv'
BY ReaderNextRecordStep, ReaderNextBlockStep, ReaderOtherSteps DEF Reader!Next, Reader!ReadRecord

------------------------------------------------------------------------------
(* RoundTrip: writer and reader                                             *)

\* Until the member is published the reader has only been opened.
BothInv ==
  /\ WriterInv
  /\ IF published THEN ReaderInv ELSE Reader!OpenPdsForRead

\* The reader starts where the writer ends.
LEMMA ReaderBegins ==
  ASSUME WriterInv, published, Reader!OpenPdsForRead
  PROVE  ReaderInv
<1>1. /\ member = Reader!NoMember /\ line_num = 0 /\ read = <<>> /\ state = "idle"
  BY DEF Reader!OpenPdsForRead
<1>2. Readers(Written)
  BY PublishedMember DEF Readers
<1>3. ReadableType
  <2>1. dataset \in DatasetType /\ (dataset.recfm = "F" => 0 < dataset.lrecl)
        /\ (dataset.recfm = "V" => RDW_SIZE <= dataset.lrecl)
    BY DatasetAssumption DEF WriterInv, IInv, TypeOK
  <2>2. QED
    BY <2>1 DEF ReadableType, Readable, DatasetType, RDW_SIZE
<1>4. member.recs = <<>> /\ member.sizes = <<>>
  BY <1>1 DEF Reader!NoMember
<1>5. Readers(member)
  <2>1. member = [sizes |-> member.sizes, recs |-> member.recs]
    BY <1>1 DEF Reader!NoMember
  <2>2. member \in Reader!Member
    <3>1. <<>> \in Seq(Nat) /\ <<>> \in Seq(Reader!MemberRecord)
      OBVIOUS
    <3>2. QED
      BY <1>4, <2>1, <3>1 DEF Reader!Member
  <2>3. Reader!WellFormed(Readable, member)
    BY <1>4 DEF Reader!WellFormed
  <2>4. QED
    BY <2>2, <2>3 DEF Readers
<1>6. ReadInv /\ read \in Seq(Answers)
  BY <1>1, <1>4 DEF ReadInv
<1>7. QED
  BY <1>1, <1>2, <1>3, <1>5, <1>6 DEF ReaderInv

LEMMA NextBothInv == BothInv /\ [NextBoth]_varsBoth => BothInv'
<1> SUFFICES ASSUME BothInv, [NextBoth]_varsBoth PROVE BothInv'
  OBVIOUS
<1>1. WriterInv /\ WriterInv'
  BY NextWriterInv DEF BothInv
<1>2. CASE published /\ (Read \/ UNCHANGED varsBoth)
  <2>1. /\ published' = published /\ UNCHANGED <<vars, end_of_file>>
        /\ Reader!Next \/ UNCHANGED reader
    BY <1>2 DEF Read, varsBoth
  <2>2. ReaderInv'
    BY <1>2, <2>1, ReaderStep DEF BothInv
  <2>3. QED
    BY <1>1, <1>2, <2>1, <2>2 DEF BothInv
<1>3. CASE ~published /\ (Write \/ UNCHANGED varsBoth)
  <2>1. published' = published /\ UNCHANGED reader
    BY <1>3 DEF Write, varsBoth
  <2>2. Reader!OpenPdsForRead'
    BY <1>3, <2>1 DEF BothInv, Reader!OpenPdsForRead, reader
  <2>3. QED
    BY <1>1, <1>3, <2>1, <2>2 DEF BothInv
<1>4. CASE Publish
  <2>1. ~published /\ published' = TRUE /\ UNCHANGED reader
    BY <1>4 DEF Publish
  <2>2. Reader!OpenPdsForRead'
    BY <2>1 DEF BothInv, Reader!OpenPdsForRead, reader
  <2>3. (WriterInv /\ published /\ Reader!OpenPdsForRead => ReaderInv)'
    BY ReaderBegins, PTL
  <2>4. QED
    BY <1>1, <2>1, <2>2, <2>3 DEF BothInv
<1>5. QED
  BY <1>2, <1>3, <1>4 DEF NextBoth, Write, Read, Publish

LEMMA BothInvHolds == SpecBoth => []BothInv
<1>1. InitBoth => BothInv
  BY WriterInitial DEF InitBoth, BothInv
<1>2. QED
  BY <1>1, NextBothInv, PTL DEF SpecBoth

\* The records that the reader is led to, as they were kept.
LEMMA ContentIsKept ==
  ASSUME WriterInv, published
  PROVE  \E n, k :
           /\ Bounds(n, BlocksBefore, k, end_of_file)
           /\ Len(Written.recs) = k - n /\ DOMAIN Written.recs = 1 .. k - n
           /\ \A i \in 1 .. k - n :
                /\ n + i \in 1 .. k
                /\ Reader!ContentOf(Readable, Written)[i] = [id |-> i, len |-> KeptLength(medium[n + i])]
<1>1. PICK n, k : /\ Bounds(n, BlocksBefore, k, end_of_file)
                  /\ Written = WrittenFrom(n, BlocksBefore, k, end_of_file)
  BY PublishedMember
<1>2. PICK m, w, first, last : m = medium /\ w = Written /\ first = BlocksBefore /\ last = end_of_file
  OBVIOUS
<1>3. IInv /\ MediumInv /\ StrideInv
  BY DEF WriterInv
<1>4. /\ Len(w.recs) = k - n /\ DOMAIN w.recs = 1 .. k - n
      /\ \A i \in 1 .. k - n : n + i \in 1 .. k /\ w.recs[i].stride = m[n + i].rec.stride
  <2>1. Bounds(n, first, k, last) /\ w = WrittenFrom(n, first, k, last)
    BY <1>1, <1>2
  <2>2. QED
    BY <1>2, <1>3, <2>1, WrittenTypes
<1>5. \A j \in 1 .. k : StrideIs(m[j].rec) /\ m[j].rec.kept \in Nat
  <2>1. k \in 0 .. Len(medium) /\ Len(medium) \in Nat
    BY <1>1, <1>3, BoundsRise, MediumTypes
  <2>2. \A j \in 1 .. k : j \in 1 .. Len(medium)
    BY <2>1
  <2>3. QED
    BY <1>2, <1>3, <2>2, MediumTypes DEF StrideInv
<1>6. ASSUME NEW i \in 1 .. k - n
      PROVE  Reader!ContentOf(Readable, w)[i] = [id |-> i, len |-> KeptLength(m[n + i])]
  <2>1. StrideIs(m[n + i].rec) /\ m[n + i].rec.kept \in Nat
    BY <1>4, <1>5
  <2>2. Reader!ContentOf(Readable, w)[i] =
          [id |-> i, len |-> IF Readable.recfm = "V" THEN w.recs[i].stride - Reader!RDW_SIZE
                                                     ELSE w.recs[i].stride]
    BY <1>4 DEF Reader!ContentOf
  <2>3. (IF Readable.recfm = "V" THEN w.recs[i].stride - Reader!RDW_SIZE ELSE w.recs[i].stride)
          = KeptLength(m[n + i])
    <3>1. PICK x, y : x = m[n + i].rec.stride /\ y = m[n + i].rec.kept
      OBVIOUS
    <3>2. y \in Nat /\ x = (IF IsVar THEN y + RDW_SIZE ELSE dataset.lrecl)
      BY <2>1, <3>1 DEF StrideIs
    <3>3. w.recs[i].stride = x
      BY <1>4, <3>1
    <3>4. IsVar <=> Readable.recfm = "V"
      BY DEF IsVar, Readable
    <3>5. IsVar => x - Reader!RDW_SIZE = y
      BY <3>2 DEF RDW_SIZE, Reader!RDW_SIZE
    <3>6. KeptLength(m[n + i]) = IF IsVar THEN y ELSE x
      BY <3>1, <3>2 DEF KeptLength
    <3>7. QED
      BY <3>3, <3>4, <3>5, <3>6
  <2>4. QED
    BY <2>2, <2>3
<1>7. QED
  BY <1>1, <1>2, <1>4, <1>6

\* Earlier divides the records of this handle from those of others.
LEMMA EarlierDivides ==
  ASSUME WriterInv, published
  PROVE  Divides(Earlier, opened_at)
<1> DEFINE Split(n) == \A i \in DOMAIN medium : medium[i].ttr > opened_at <=> i > n
<1>1. opened_at \in Nat /\ IInv /\ MediumInv
  BY DEF WriterInv, PublishedInv
<1>2. PICK n : Divides(n, opened_at)
  BY <1>1, Division
<1>3. DOMAIN medium = 1 .. Len(medium)
  BY <1>1, MediumTypes
<1>4. n \in 0 .. Len(medium) /\ Split(n)
  BY <1>2, <1>3 DEF Divides
<1>5. Earlier = CHOOSE i \in 0 .. Len(medium) : Split(i)
  BY DEF Earlier
<1>6. Earlier \in 0 .. Len(medium) /\ Split(Earlier)
  <2> HIDE DEF Split
  <2>1. QED
    BY <1>4, <1>5
<1>7. QED
  BY <1>3, <1>6 DEF Divides

\* What has been read are the first records of those that the reader is led to.
LEMMA ReadIsContent ==
  ASSUME WriterInv, ReaderInv
  PROVE  /\ Len(read) \in Nat /\ DOMAIN read = 1 .. Len(read)
         /\ Len(read) <= Len(Written.recs)
         /\ \A i \in 1 .. Len(read) : read[i] = Reader!ContentOf(Readable, Written)[i]
         /\ state = "ended" => Len(read) = Len(Written.recs)
<1>1. Written \in Reader!Member
  BY DEF ReaderInv, Readers
<1>2. Len(Written.recs) \in Nat
  BY <1>1 DEF Reader!Member
<1>3. Len(read) \in Nat /\ DOMAIN read = 1 .. Len(read)
  BY DEF ReaderInv
<1>4. CASE member = Written
  BY <1>3, <1>4 DEF ReaderInv, ReadInv
<1>5. CASE member # Written
  <2>1. Len(member.recs) = 0
    BY <1>5 DEF ReaderInv, Reader!NoMember
  <2>2. Len(read) = 0
    BY <1>3, <2>1 DEF ReaderInv, ReadInv
  <2>3. state = "ended" => Len(read) = Len(Written.recs)
    BY DEF ReaderInv
  <2>4. QED
    BY <1>2, <1>3, <2>2, <2>3
<1>6. QED
  BY <1>4, <1>5

\* A member for which blocks were written: it is all that the reader is led to.
LEMMA MemberIsRead ==
  ASSUME WriterInv, published, ReaderInv, memstart_ttr # 0
  PROVE  KeptLengths # <<>> /\ ReadAsKept
<1>1. PICK n, k : /\ Bounds(n, BlocksBefore, k, end_of_file)
                  /\ Len(Written.recs) = k - n
                  /\ \A i \in 1 .. k - n :
                       /\ n + i \in 1 .. k
                       /\ Reader!ContentOf(Readable, Written)[i] =
                            [id |-> i, len |-> KeptLength(medium[n + i])]
  BY ContentIsKept
<1>2. PICK L, m, B : L = Len(medium) /\ m = medium /\ B = Len(blocks)
  OBVIOUS
<1>3. /\ IInv /\ MediumInv
      /\ opened_at \in Nat /\ BlocksBefore = opened_at /\ opened_at < B /\ end_of_file = B
  BY <1>2 DEF WriterInv, PublishedInv, BlocksBefore
<1>4. /\ L \in Nat /\ B \in Nat /\ n \in 0 .. L /\ k \in 0 .. L
      /\ \A i \in 1 .. L : m[i].ttr \in 1 .. B /\ (m[i].ttr > opened_at <=> i > n)
      /\ \A i \in 1 .. L : i <= k <=> m[i].ttr <= B
  BY <1>1, <1>2, <1>3, BoundsRise, MediumTypes DEF Bounds, Divides
<1>5. k = L
  <2>1. \A i \in 1 .. L : i <= k
    BY <1>4
  <2>2. L # 0 => L <= k
    BY <1>4, <2>1
  <2>3. QED
    BY <1>4, <2>2
<1>6. n < L
  <2>1. PICK j \in 1 .. L : m[j].ttr = opened_at + 1
    <3>1. opened_at + 1 \in 1 .. Len(blocks)
      BY <1>2, <1>3, <1>4
    <3>2. QED
      BY <1>2, <1>3, <3>1, MediumTypes DEF MediumInv, MediumOrder
  <2>2. m[j].ttr > opened_at
    BY <1>3, <2>1
  <2>3. j > n
    BY <1>4, <2>1, <2>2
  <2>4. QED
    BY <1>4, <2>1, <2>3
<1>7. Earlier = n
  <2>1. Divides(n, opened_at)
    BY <1>1, <1>3 DEF Bounds
  <2>2. QED
    BY <1>3, <2>1, EarlierDivides, OneDivision
<1>8. PICK K \in Nat : K = L - n /\ K # 0
  BY <1>4, <1>6
<1>9. KeptLengths = [i \in 1 .. K |-> KeptLength(m[n + i])]
  BY <1>2, <1>7, <1>8 DEF KeptLengths
<1>10. Len(KeptLengths) = K /\ DOMAIN KeptLengths = 1 .. K
  <2>1. DOMAIN KeptLengths = 1 .. K
    BY <1>9
  <2>2. KeptLengths \in Seq({ KeptLength(m[n + i]) : i \in 1 .. K })
    BY <1>9
  <2>3. QED
    BY <2>1, <2>2
<1>11. KeptLengths # <<>>
  BY <1>8, <1>10
<1>12. PICK N \in Nat : N = Len(read)
  BY ReadIsContent
<1>13. /\ DOMAIN read = 1 .. N /\ N <= K /\ (state = "ended" => N = K)
       /\ \A i \in 1 .. N : read[i] = Reader!ContentOf(Readable, Written)[i]
  BY <1>1, <1>5, <1>8, <1>12, ReadIsContent
<1>14. \A i \in 1 .. N : i \in 1 .. K /\ read[i].id = i /\ read[i].len = KeptLengths[i]
  <2> TAKE i \in 1 .. N
  <2>1. i \in 1 .. K
    BY <1>8, <1>13
  <2>2. read[i] = [id |-> i, len |-> KeptLength(m[n + i])]
    BY <1>1, <1>2, <1>5, <1>8, <1>13, <2>1
  <2>3. QED
    BY <1>9, <2>1, <2>2
<1>15. [i \in DOMAIN read |-> read[i].len] = SubSeq(KeptLengths, 1, N)
  <2>1. PICK lens : lens = KeptLengths
    OBVIOUS
  <2>2. SubSeq(lens, 1, N) = [i \in 1 .. N |-> lens[i]]
    <3>1. SubSeq(lens, 1, N) = [i \in 1 .. (1 + N - 1) |-> lens[i + 1 - 1]]
      BY <1>12 DEF SubSeq
    <3>2. QED
      BY <3>1
  <2>3. QED
    BY <1>13, <1>14, <2>1, <2>2
<1>16. ReadAsKept
  BY <1>10, <1>12, <1>13, <1>14, <1>15 DEF ReadAsKept
<1>17. QED
  BY <1>11, <1>16

\* A member for which none was written: the reader is led to others.
LEMMA OthersAreRead ==
  ASSUME WriterInv, published, ReaderInv, memstart_ttr = 0
  PROVE  KeptLengths = <<>> /\ ReadOfOthers
<1>1. PICK n, k : /\ Bounds(n, BlocksBefore, k, end_of_file)
                  /\ Len(Written.recs) = k - n
                  /\ \A i \in 1 .. k - n :
                       /\ n + i \in 1 .. k
                       /\ Reader!ContentOf(Readable, Written)[i] =
                            [id |-> i, len |-> KeptLength(medium[n + i])]
  BY ContentIsKept
<1>2. PICK L, m : L = Len(medium) /\ m = medium
  OBVIOUS
<1>3. IInv /\ MediumInv /\ opened_at \in Nat /\ BlocksBefore = 0 /\ opened_at = Len(blocks)
  BY DEF WriterInv, PublishedInv, BlocksBefore
<1>4. /\ L \in Nat /\ n \in 0 .. L /\ k \in 0 .. L
      /\ \A i \in 1 .. L : m[i].ttr \in 1 .. opened_at /\ (m[i].ttr > 0 <=> i > n)
  BY <1>1, <1>2, <1>3, BoundsRise, MediumTypes DEF Bounds, Divides
<1>5. n = 0
  <2>1. \A i \in 1 .. L : i > n
    BY <1>4
  <2>2. n # 0 => n > n
    BY <1>4, <2>1
  <2>3. QED
    BY <1>4, <2>2
<1>6. Earlier = L
  <2>1. Divides(L, opened_at)
    <3>1. \A i \in 1 .. L : ~(m[i].ttr > opened_at) /\ ~(i > L)
      BY <1>3, <1>4
    <3>2. QED
      BY <1>2, <1>4, <3>1 DEF Divides
  <2>2. QED
    BY <1>3, <2>1, EarlierDivides, OneDivision
<1>7. KeptLengths = <<>>
  <2>1. 1 .. Len(medium) - Earlier = {}
    BY <1>2, <1>4, <1>6
  <2>2. KeptLengths = [i \in {} |-> KeptLength(medium[Earlier + i])]
    BY <2>1 DEF KeptLengths
  <2>3. KeptLengths \in Seq({}) /\ Len(KeptLengths) = 0
    BY <2>2
  <2>4. QED
    BY <2>3
<1>8. PICK N \in Nat : N = Len(read)
  BY ReadIsContent
<1>9. /\ DOMAIN read = 1 .. N /\ N <= k
      /\ \A i \in 1 .. N : read[i] = Reader!ContentOf(Readable, Written)[i]
  BY <1>1, <1>4, <1>5, <1>8, ReadIsContent
<1>10. \A i \in 1 .. N : read[i] = [id |-> i, len |-> KeptLength(medium[i])]
  <2> TAKE i \in 1 .. N
  <2>1. i \in 1 .. k - n /\ n + i = i
    BY <1>4, <1>5, <1>8, <1>9
  <2>2. QED
    BY <1>1, <1>9, <2>1
<1>11. N <= Earlier
  BY <1>4, <1>6, <1>8, <1>9
<1>12. QED
  BY <1>7, <1>8, <1>9, <1>10, <1>11 DEF ReadOfOthers

\* ReadBack: what is read of a member with records is what was kept of them, in
\* their order, and all of it when the reader is told that the member ends; the
\* layout that copy_record_to_block makes is the one next_record follows.  Of a
\* member without, write_member_dir_entry stows the TTR 0, and what is read, if
\* anything, are the first records of the dataset.
THEOREM MembersAreReadBack == SpecBoth => []ReadBack
<1>1. BothInv => ReadBack
  <2> SUFFICES ASSUME BothInv, published
               PROVE  IF KeptLengths # <<>> THEN ReadAsKept ELSE ReadOfOthers
    BY DEF ReadBack
  <2>1. WriterInv /\ ReaderInv
    BY DEF BothInv
  <2>2. CASE memstart_ttr # 0
    BY <2>1, <2>2, MemberIsRead
  <2>3. CASE memstart_ttr = 0
    BY <2>1, <2>3, OthersAreRead
  <2>4. QED
    BY <2>2, <2>3
<1>2. QED
  BY <1>1, BothInvHolds, PTL
==============================================================================
