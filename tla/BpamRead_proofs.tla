--------------------------- MODULE BpamRead_proofs ---------------------------
(***************************************************************************)
(* Proofs about BpamRead, for all datasets, members and blocks: the handle *)
(* implements the record cursor.  And about LineReader, for all files and  *)
(* sizes of its buffers: which files are taken apart at their newlines.    *)
(***************************************************************************)
EXTENDS BpamRead, LineReader, SequenceTheorems, FiniteSetTheorems, Lemmas, TLAPS

------------------------------------------------------------------------------
(* The members of a dataset                                                 *)

LEMMA MemberTypes ==
  ASSUME NEW d \in Datasets, NEW m \in d.members \cup {NoMember}
  PROVE  /\ d \in DatasetType
         /\ m.recs \in Seq(MemberRecord) /\ m.sizes \in Seq(Nat)
         /\ Len(m.recs) \in Nat /\ DOMAIN m.recs = 1 .. Len(m.recs)
         /\ Len(m.sizes) \in Nat /\ DOMAIN m.sizes = 1 .. Len(m.sizes)
         /\ WellFormed(d, m)
<1>1. d \in DatasetType
  BY ReaderAssumption
<1>2. CASE m = NoMember
  <2>1. m.recs = <<>> /\ m.sizes = <<>>
    BY <1>2 DEF NoMember
  <2>2. WellFormed(d, m)
    BY <2>1 DEF WellFormed
  <2>3. QED
    BY <1>1, <2>1, <2>2
<1>3. CASE m \in d.members
  <2>1. m \in Member
    BY <1>1, <1>3 DEF DatasetType
  <2>2. m.recs \in Seq(MemberRecord) /\ m.sizes \in Seq(Nat)
    BY <2>1 DEF Member
  <2>3. WellFormed(d, m)
    BY <1>3, ReaderAssumption
  <2>4. QED
    BY <1>1, <2>2, <2>3
<1>4. QED
  BY <1>2, <1>3

LEMMA Tiling ==
  ASSUME NEW d \in Datasets, NEW m \in d.members \cup {NoMember}
  PROVE  Tiled(m.recs, m.sizes, StartIn(d), Len(m.recs), Len(m.sizes))
<1>0. /\ d \in DatasetType
      /\ m.recs \in Seq(MemberRecord) /\ m.sizes \in Seq(Nat)
      /\ DOMAIN m.recs = 1 .. Len(m.recs) /\ DOMAIN m.sizes = 1 .. Len(m.sizes)
      /\ WellFormed(d, m)
  BY MemberTypes
<1>1. PICK rs, sz, L, B : rs = m.recs /\ sz = m.sizes /\ L = Len(rs) /\ B = Len(sz)
  OBVIOUS
<1>2. /\ L \in Nat /\ B \in Nat /\ StartIn(d) \in Nat
      /\ \A b \in 1 .. B : sz[b] \in Nat
      /\ \A i \in 1 .. L : rs[i] \in MemberRecord
  BY <1>0, <1>1 DEF StartIn, BDW_SIZE
<1>3. \A i \in 1 .. L : rs[i].blk \in Nat \ {0} /\ rs[i].off \in Nat /\ rs[i].stride \in Nat
  BY <1>2 DEF MemberRecord
<1>4. \A b \in 1 .. B : \E i \in 1 .. L : rs[i].blk = b
  BY <1>0, <1>1 DEF WellFormed
<1> DEFINE First(i) == i = 1 \/ rs[i - 1].blk # rs[i].blk
           Last(i) == i = L \/ rs[i + 1].blk # rs[i].blk
<1>5. \A i \in 1 .. L :
        /\ rs[i].blk = IF i = 1 THEN 1 ELSE rs[i - 1].blk + (IF First(i) THEN 1 ELSE 0)
        /\ rs[i].blk \in 1 .. B
        /\ IF d.recfm = "V" THEN RDW_SIZE <= rs[i].stride ELSE rs[i].stride = d.lrecl
        /\ First(i) => rs[i].off = StartIn(d)
        /\ Behind(rs[i]) = IF Last(i) THEN sz[rs[i].blk] ELSE rs[i + 1].off
  BY <1>0, <1>1 DEF WellFormed, Behind
<1>6. \A i \in 1 .. L : rs[i].stride # 0
  BY <1>0, <1>5 DEF DatasetType, RDW_SIZE
<1>7. ASSUME L # 0 PROVE rs[1].blk = 1 /\ rs[1].off = StartIn(d) /\ Behind(rs[L]) = sz[rs[L].blk]
  <2>1. 1 \in 1 .. L /\ L \in 1 .. L
    BY <1>2, <1>7
  <2>2. QED
    BY <1>5, <2>1
<1>8. ASSUME NEW i \in 1 .. L - 1
      PROVE  \/ rs[i + 1].blk = rs[i].blk /\ rs[i + 1].off = Behind(rs[i])
             \/ rs[i + 1].blk = rs[i].blk + 1 /\ rs[i + 1].off = StartIn(d)
                /\ Behind(rs[i]) = sz[rs[i].blk]
  <2>1. i \in 1 .. L /\ i + 1 \in 1 .. L /\ i # L /\ i + 1 # 1 /\ (i + 1) - 1 = i
    BY <1>2
  <2>2. First(i + 1) <=> rs[i].blk # rs[i + 1].blk
    BY <2>1
  <2>3. Last(i) <=> rs[i + 1].blk # rs[i].blk
    BY <2>1
  <2>4. rs[i + 1].blk = rs[i].blk + (IF First(i + 1) THEN 1 ELSE 0)
    BY <1>5, <2>1
  <2>5. Behind(rs[i]) = IF Last(i) THEN sz[rs[i].blk] ELSE rs[i + 1].off
    BY <1>5, <2>1
  <2>6. First(i + 1) => rs[i + 1].off = StartIn(d)
    BY <1>5, <2>1
  <2> HIDE DEF First, Last
  <2>7. QED
    BY <1>3, <2>1, <2>2, <2>3, <2>4, <2>5, <2>6
<1>9. Tiled(rs, sz, StartIn(d), L, B)
  <2> HIDE DEF First, Last
  <2>1. \A i \in 1 .. L : rs[i].blk \in 1 .. B
    BY <1>5
  <2>2. QED
    BY <1>2, <1>3, <1>4, <1>6, <1>7, <1>8, <2>1 DEF Tiled
<1>10. QED
  BY <1>1, <1>9

------------------------------------------------------------------------------
(* What next_record finds                                                   *)

\* Record i of member m: what a caller gets.
Length(d, r) == IF d.recfm = "V" THEN r.stride - RDW_SIZE ELSE r.stride

LEMMA RecordLengthIs ==
  ASSUME NEW d \in Datasets, NEW m \in d.members \cup {NoMember}, NEW i \in 1 .. Len(m.recs)
  PROVE  /\ d.recfm = "V" => m.recs[i].stride >= RDW_SIZE
         /\ d.recfm # "V" => m.recs[i].stride = d.lrecl
         /\ m.recs[i].blk \in 1 .. Len(m.sizes) /\ m.recs[i].off \in Nat /\ m.recs[i].stride \in Nat
         /\ m.sizes[m.recs[i].blk] \in 0 .. d.blksi
         /\ ContentOf(d, m)[i] = [id |-> i, len |-> Length(d, m.recs[i])]
<1>1. m.recs[i] \in MemberRecord /\ i \in DOMAIN m.recs /\ m.sizes \in Seq(Nat) /\ WellFormed(d, m)
      /\ d \in DatasetType
  BY MemberTypes
<1>2. IF d.recfm = "V" THEN RDW_SIZE <= m.recs[i].stride ELSE m.recs[i].stride = d.lrecl
  BY <1>1 DEF WellFormed
<1>3. m.recs[i].stride \in Nat /\ m.recs[i].off \in Nat
  BY <1>1 DEF MemberRecord
<1>4. m.recs[i].blk \in DOMAIN m.sizes /\ DOMAIN m.sizes = 1 .. Len(m.sizes)
  BY <1>1, MemberTypes, Tiling DEF Tiled
<1>5. m.sizes[m.recs[i].blk] \in Nat /\ m.sizes[m.recs[i].blk] <= d.blksi /\ d.blksi \in Nat
  <2>1. \A b \in DOMAIN m.sizes : m.sizes[b] <= d.blksi
    BY <1>1 DEF WellFormed
  <2>2. \A b \in DOMAIN m.sizes : m.sizes[b] \in Nat
    BY <1>1
  <2>3. QED
    BY <1>1, <1>4, <2>1, <2>2 DEF DatasetType
<1>6. ContentOf(d, m)[i] = [id |-> i, len |-> Length(d, m.recs[i])]
  BY <1>1 DEF ContentOf, Length
<1>7. QED
  BY <1>2, <1>3, <1>4, <1>5, <1>6 DEF RDW_SIZE

LEMMA TheRecord ==
  ASSUME NEW d \in Datasets, NEW m \in d.members \cup {NoMember}, NEW i \in 1 .. Len(m.recs)
  PROVE  RecordsAt(BlockOf(m, m.recs[i].blk), m.recs[i].off) =
           {[id |-> i, off |-> m.recs[i].off, stride |-> m.recs[i].stride]}
<1> DEFINE b == m.recs[i].blk
           off == m.recs[i].off
           Entry(j) == [id |-> j, off |-> m.recs[j].off, stride |-> m.recs[j].stride]
<1>1. DOMAIN m.recs = 1 .. Len(m.recs)
  BY MemberTypes
<1>2. Tiled(m.recs, m.sizes, StartIn(d), Len(m.recs), Len(m.sizes))
  BY Tiling
<1>3. BlockOf(m, b).recs = { Entry(j) : j \in { j \in 1 .. Len(m.recs) : m.recs[j].blk = b } }
  BY <1>1 DEF BlockOf
<1>4. \A j \in 1 .. Len(m.recs) : m.recs[j].blk = b /\ m.recs[j].off = off => j = i
  BY <1>2, OnePlace
<1>5. \A j : Entry(j).off = m.recs[j].off
  OBVIOUS
<1>6. RecordsAt(BlockOf(m, b), off) = { r \in BlockOf(m, b).recs : r.off = off }
  BY DEF RecordsAt
<1>7. Entry(i) \in RecordsAt(BlockOf(m, b), off)
  BY <1>3, <1>5, <1>6
<1>8. ASSUME NEW r \in RecordsAt(BlockOf(m, b), off) PROVE r = Entry(i)
  <2> HIDE DEF Entry
  <2>1. PICK j \in 1 .. Len(m.recs) : m.recs[j].blk = b /\ r = Entry(j)
    BY <1>3, <1>6, <1>8
  <2>2. m.recs[j].off = off
    BY <1>5, <1>6, <1>8, <2>1
  <2>3. QED
    BY <1>4, <2>1, <2>2
<1> HIDE DEF Entry
<1>9. RecordsAt(BlockOf(m, b), off) = {Entry(i)}
  BY <1>7, <1>8
<1>10. QED
  BY <1>9 DEF Entry

\* The cursor is before record i, or behind the last record of its block.
LEMMA RecordFound ==
  ASSUME dataset \in Datasets, NEW m \in dataset.members \cup {NoMember},
         NEW i \in 1 .. Len(m.recs), NEW b, b = BlockOf(m, m.recs[i].blk),
         NEW left, left = dataset.blksi - b.size,
         NEW start, NEW len, Advance(start, len) = m.recs[i].off
  PROVE  LET shift == IF IsVar THEN RDW_SIZE ELSE 0
             n == [found |-> TRUE, start |-> m.recs[i].off + shift,
                   len |-> m.recs[i].stride - shift]
         IN  /\ NextRecord(b, left, start, len) = {n}
             /\ Answered(b, n) = ContentOf(dataset, m)[i]
             /\ n.start \in Nat /\ n.len \in Nat /\ n.start + n.len = Behind(m.recs[i])
<1> DEFINE shift == IF IsVar THEN RDW_SIZE ELSE 0
           r == m.recs[i]
           n == [found |-> TRUE, start |-> r.off + shift, len |-> r.stride - shift]
           e == [id |-> i, off |-> r.off, stride |-> r.stride]
<1>1. /\ IsVar => r.stride >= RDW_SIZE
      /\ ~IsVar => r.stride = dataset.lrecl
      /\ r.off \in Nat /\ r.stride \in Nat
      /\ m.sizes[r.blk] \in 0 .. dataset.blksi /\ dataset.blksi \in Nat
      /\ ContentOf(dataset, m)[i] = [id |-> i, len |-> Length(dataset, r)]
  BY RecordLengthIs, ReaderAssumption DEF IsVar, DatasetType
<1>2. RecordsAt(b, r.off) = {e}
  BY TheRecord
<1>3. Behind(r) <= m.sizes[r.blk] /\ r.off < Behind(r)
  <2>1. Tiled(m.recs, m.sizes, StartIn(dataset), Len(m.recs), Len(m.sizes))
    BY Tiling
  <2>2. Behind(r) <= m.sizes[r.blk]
    BY <2>1, InBlock
  <2>3. r.stride \in Nat \ {0}
    BY <2>1 DEF Tiled
  <2>4. QED
    BY <1>1, <2>2, <2>3 DEF Behind
<1>4. b.size = m.sizes[r.blk]
  BY DEF BlockOf
<1>5. BytesInBlock(b, left) = b.size
  BY <1>1, <1>4 DEF BytesInBlock
<1>6. ~(r.off >= BytesInBlock(b, left))
  BY <1>1, <1>3, <1>4, <1>5 DEF Behind
<1>7. DescriptorsAt(b, r.off) = {r.stride}
  BY <1>2 DEF DescriptorsAt
<1>8. NextRecord(b, left, start, len) = {n}
  BY <1>1, <1>6, <1>7 DEF NextRecord
<1>9. (IF IsVar THEN n.start - RDW_SIZE ELSE n.start) = r.off
  BY <1>1 DEF RDW_SIZE
<1>10. n.len = Length(dataset, r)
  BY <1>1 DEF Length, IsVar
<1>11. (CHOOSE q \in {e} : TRUE) = e /\ {e} # {}
  OBVIOUS
<1> DEFINE off == IF IsVar THEN n.start - RDW_SIZE ELSE n.start
<1>12. Answered(b, n) = [id |-> IF RecordsAt(b, off) = {} THEN NoRecord
                                ELSE (CHOOSE q \in RecordsAt(b, off) : TRUE).id,
                         len |-> n.len]
  BY DEF Answered
<1>13. Answered(b, n) = [id |-> i, len |-> n.len]
  <2>1. off = r.off
    BY <1>9
  <2>2. RecordsAt(b, off) = {e}
    BY <1>2, <2>1
  <2>3. e.id = i
    OBVIOUS
  <2> HIDE DEF e, off, n
  <2>4. QED
    BY <1>11, <1>12, <2>2, <2>3
<1>14. Answered(b, n) = ContentOf(dataset, m)[i]
  BY <1>1, <1>10, <1>13
<1>15. n.start \in Nat /\ n.len \in Nat /\ n.start + n.len = Behind(r)
  <2>1. PICK x, y \in Nat : x = r.off /\ y = r.stride
    BY <1>1
  <2>2. shift \in Nat /\ shift <= y
    BY <1>1, <2>1 DEF RDW_SIZE
  <2>3. n.start = x + shift /\ n.len = y - shift /\ Behind(r) = x + y
    BY <2>1 DEF Behind
  <2> HIDE DEF shift, n
  <2>4. QED
    BY <2>2, <2>3
<1>16. QED
  BY <1>8, <1>14, <1>15

LEMMA NoneFound ==
  ASSUME dataset \in Datasets, NEW b, NEW left, b.size \in 0 .. dataset.blksi,
         left = dataset.blksi - b.size, NEW start, NEW len, Advance(start, len) = b.size
  PROVE  NextRecord(b, left, start, len) = {[found |-> FALSE, start |-> b.size, len |-> len]}
<1>1. dataset.blksi \in Nat
  BY ReaderAssumption DEF DatasetType
<1>2. BytesInBlock(b, left) = b.size
  BY <1>1 DEF BytesInBlock
<1>3. QED
  BY <1>1, <1>2 DEF NextRecord

------------------------------------------------------------------------------
(* The inductive invariant                                                  *)

Shift == IF IsVar THEN RDW_SIZE ELSE 0

\* The records before the cursor were answered.
ReadInv ==
  /\ Len(read) <= Len(member.recs)
  /\ \A i \in 1 .. Len(read) : read[i] = ContentOf(dataset, member)[i]

\* The cursor is at the record answered last, the area holds the block it is in,
\* and the residual count tells the size of that block.
PlaceInv ==
  IF line_num = 0
  THEN read = <<>> /\ position = 0 /\ next_record_start = NULL
  ELSE /\ read # <<>>
       /\ position = member.recs[Len(read)].blk
       /\ area = BlockOf(member, position)
       /\ residual = dataset.blksi - area.size
       /\ next_record_start = member.recs[Len(read)].off + Shift
       /\ next_record_len = member.recs[Len(read)].stride - Shift

IInv == TypeOK /\ (state = "reading" => ReadInv /\ PlaceInv)

Content == ContentOf(dataset, member)

Reply == [id : Nat, len : Nat]

LEMMA ContentIs ==
  ASSUME NEW d \in Datasets, NEW m \in d.members \cup {NoMember}
  PROVE  /\ Len(m.recs) \in Nat
         /\ ContentOf(d, m) \in Seq(Reply)
         /\ Len(ContentOf(d, m)) = Len(m.recs)
<1>1. DOMAIN m.recs = 1 .. Len(m.recs) /\ Len(m.recs) \in Nat
  BY MemberTypes
<1>2. DOMAIN ContentOf(d, m) = 1 .. Len(m.recs)
  BY <1>1 DEF ContentOf
<1>3. \A i \in 1 .. Len(m.recs) : ContentOf(d, m)[i] \in Reply
  <2> TAKE i \in 1 .. Len(m.recs)
  <2>1. Length(d, m.recs[i]) \in Nat /\ i \in Nat
    <3>1. /\ d.recfm = "V" => m.recs[i].stride >= RDW_SIZE
          /\ m.recs[i].stride \in Nat
      BY RecordLengthIs
    <3>2. i \in Nat
      BY <1>1
    <3>3. QED
      BY <3>1, <3>2 DEF Length, RDW_SIZE
  <2>2. ContentOf(d, m)[i] = [id |-> i, len |-> Length(d, m.recs[i])]
    BY RecordLengthIs
  <2>3. QED
    BY <2>1, <2>2 DEF Reply
<1>4. ContentOf(d, m) = [i \in 1 .. Len(m.recs) |-> ContentOf(d, m)[i]]
  BY <1>1 DEF ContentOf
<1>5. PICK c, L : c = ContentOf(d, m) /\ L = Len(m.recs)
  OBVIOUS
<1>6. L \in Nat /\ c \in [1 .. L -> Reply]
  BY <1>1, <1>3, <1>4, <1>5
<1>7. c \in Seq(Reply) /\ Len(c) = L
  BY <1>6
<1>8. QED
  BY <1>5, <1>6, <1>7

LEMMA BlockType ==
  ASSUME NEW d \in Datasets, NEW m \in d.members \cup {NoMember}, NEW b \in 1 .. Len(m.sizes)
  PROVE  /\ BlockOf(m, b).size = m.sizes[b]
         /\ m.sizes[b] \in 0 .. d.blksi /\ d.blksi \in Nat
         /\ BlockOf(m, b).recs \subseteq [id : Nat, off : Nat, stride : Nat]
<1>1. /\ DOMAIN m.recs = 1 .. Len(m.recs) /\ DOMAIN m.sizes = 1 .. Len(m.sizes)
      /\ m.sizes \in Seq(Nat) /\ WellFormed(d, m) /\ d \in DatasetType
  BY MemberTypes
<1>2. \A i \in 1 .. Len(m.recs) : i \in Nat /\ m.recs[i].off \in Nat /\ m.recs[i].stride \in Nat
  <2> TAKE i \in 1 .. Len(m.recs)
  <2>1. i \in Nat
    BY <1>1, MemberTypes
  <2>2. QED
    BY <2>1, RecordLengthIs
<1>3. m.sizes[b] \in Nat /\ m.sizes[b] <= d.blksi /\ d.blksi \in Nat
  <2>1. \A c \in DOMAIN m.sizes : m.sizes[c] <= d.blksi
    BY <1>1 DEF WellFormed
  <2>2. QED
    BY <1>1, <2>1 DEF DatasetType
<1>4. QED
  BY <1>1, <1>2, <1>3 DEF BlockOf

\* What next_record answers while a member is read.
LEMMA NextHere ==
  ASSUME IInv, state = "reading", line_num # 0, NEW n, n = Len(read),
         NEW q \in NextRecord(area, residual, next_record_start, next_record_len)
  PROVE  /\ n \in 1 .. Len(member.recs) /\ position = member.recs[n].blk
         /\ q.found =>
              /\ n + 1 \in 1 .. Len(member.recs)
              /\ position = member.recs[n + 1].blk
              /\ q.start = member.recs[n + 1].off + Shift
              /\ q.len = member.recs[n + 1].stride - Shift
              /\ Answered(area, q) = Content[n + 1]
         /\ ~q.found => Behind(member.recs[n]) = member.sizes[position]
<1>1. /\ dataset \in Datasets /\ member \in dataset.members \cup {NoMember}
      /\ read \in Seq(Reply)
      /\ ReadInv /\ read # <<>>
      /\ position = member.recs[n].blk
      /\ area = BlockOf(member, position)
      /\ residual = dataset.blksi - area.size
      /\ next_record_start = member.recs[n].off + Shift
      /\ next_record_len = member.recs[n].stride - Shift
  BY DEF IInv, TypeOK, PlaceInv, Reply
<1>2. n \in 1 .. Len(member.recs)
  BY <1>1, ContentIs DEF ReadInv
<1>3. PICK m, r, L : m = member /\ r = m.recs[n] /\ L = Len(m.recs)
  OBVIOUS
<1>4. /\ r.off \in Nat /\ r.stride \in Nat /\ r.stride >= Shift
      /\ m.sizes[r.blk] \in 0 .. dataset.blksi /\ r.blk \in 1 .. Len(m.sizes)
  <2>1. /\ dataset.recfm = "V" => r.stride >= RDW_SIZE
        /\ r.off \in Nat /\ r.stride \in Nat
        /\ m.sizes[r.blk] \in 0 .. dataset.blksi /\ r.blk \in 1 .. Len(m.sizes)
    BY <1>1, <1>2, <1>3, RecordLengthIs
  <2>2. QED
    BY <2>1 DEF Shift, IsVar, RDW_SIZE
<1>5. Advance(next_record_start, next_record_len) = Behind(r)
  <2>1. PICK x, y, z \in Nat : x = r.off /\ y = r.stride /\ z = Shift
    BY <1>4 DEF Shift, RDW_SIZE
  <2>2. next_record_start = x + z /\ next_record_len = y - z /\ Behind(r) = x + y
    BY <1>1, <1>3, <2>1 DEF Behind
  <2>3. next_record_start # NULL /\ next_record_start + next_record_len = Behind(r)
    BY <2>1, <2>2 DEF NULL
  <2>4. QED
    BY <2>3 DEF Advance
<1>6. area.size = m.sizes[r.blk] /\ area.size \in 0 .. dataset.blksi
  BY <1>1, <1>3, <1>4 DEF BlockOf
<1>7. Tiled(m.recs, m.sizes, StartIn(dataset), L, Len(m.sizes))
  BY <1>1, <1>3, Tiling
<1>8. Behind(r) <= m.sizes[r.blk] /\ Behind(r) \in Nat
  <2>1. \A i \in 1 .. L : Behind(m.recs[i]) <= m.sizes[m.recs[i].blk]
    BY <1>7, InBlock
  <2>2. Behind(r) <= m.sizes[r.blk]
    BY <1>2, <1>3, <2>1
  <2>3. Behind(r) \in Nat
    BY <1>4 DEF Behind
  <2>4. QED
    BY <2>2, <2>3
<1>9. CASE Behind(r) < m.sizes[r.blk]
  <2>1. n + 1 \in 1 .. L /\ m.recs[n + 1].blk = r.blk /\ m.recs[n + 1].off = Behind(r)
    BY <1>2, <1>3, <1>7, <1>9, Following
  <2>2. area = BlockOf(m, m.recs[n + 1].blk)
    BY <1>1, <1>3, <2>1
  <2>3. Advance(next_record_start, next_record_len) = m.recs[n + 1].off
    BY <1>5, <2>1
  <2> DEFINE f == [found |-> TRUE, start |-> m.recs[n + 1].off + Shift,
                   len |-> m.recs[n + 1].stride - Shift]
  <2>4. /\ NextRecord(area, residual, next_record_start, next_record_len) = {f}
        /\ Answered(area, f) = ContentOf(dataset, m)[n + 1]
    <3>1. m \in dataset.members \cup {NoMember} /\ n + 1 \in 1 .. Len(m.recs)
      BY <1>1, <1>3, <2>1
    <3>2. residual = dataset.blksi - area.size /\ dataset \in Datasets
      BY <1>1
    <3> HIDE DEF f
    <3>3. LET shift == IF IsVar THEN RDW_SIZE ELSE 0
              g == [found |-> TRUE, start |-> m.recs[n + 1].off + shift,
                    len |-> m.recs[n + 1].stride - shift]
          IN  /\ NextRecord(area, residual, next_record_start, next_record_len) = {g}
              /\ Answered(area, g) = ContentOf(dataset, m)[n + 1]
      BY <2>2, <2>3, <3>1, <3>2, RecordFound
    <3>4. QED
      BY <3>3 DEF f, Shift
  <2>5. q = f
    BY <2>4
  <2>6. q.found
    BY <2>5
  <2>7. QED
    BY <1>1, <1>2, <1>3, <2>1, <2>4, <2>5, <2>6 DEF Content
<1>10. CASE Behind(r) = m.sizes[r.blk]
  <2>1. NextRecord(area, residual, next_record_start, next_record_len)
          = {[found |-> FALSE, start |-> area.size, len |-> next_record_len]}
    <3>1. Advance(next_record_start, next_record_len) = area.size
      BY <1>5, <1>6, <1>10
    <3>2. QED
      BY <1>1, <1>6, <3>1, NoneFound
  <2>2. ~q.found
    BY <2>1
  <2>3. QED
    BY <1>1, <1>2, <1>3, <1>10, <2>2
<1>11. QED
  BY <1>4, <1>8, <1>9, <1>10

\* Where a block is needed all of the block in the area was answered: record n + 1
\* is the first of the next block, if there is one.
LEMMA NextBlock ==
  ASSUME IInv, BlockNeeded, NEW n, n = Len(read)
  PROVE  /\ n \in Nat
         /\ position < Len(member.sizes) =>
              /\ n + 1 \in 1 .. Len(member.recs)
              /\ member.recs[n + 1].blk = position + 1
              /\ member.recs[n + 1].off = ReaderStart
         /\ position = Len(member.sizes) => n = Len(member.recs)
<1>0. /\ dataset \in Datasets /\ member \in dataset.members \cup {NoMember}
      /\ read \in Seq(Reply) /\ n \in Nat
      /\ state = "reading" /\ ReadInv /\ PlaceInv
  BY DEF IInv, TypeOK, BlockNeeded, MayRead, Reply
<1>1. PICK m, L, B : m = member /\ L = Len(m.recs) /\ B = Len(m.sizes)
  OBVIOUS
<1>2. Tiled(m.recs, m.sizes, StartIn(dataset), L, B)
  BY <1>0, <1>1, Tiling
<1>3. CASE line_num = 0
  <2>1. n = 0 /\ position = 0
    BY <1>0, <1>3 DEF PlaceInv
  <2>2. L \in Nat /\ B \in Nat /\ (L # 0 <=> B # 0)
    <3>1. L \in Nat /\ B \in Nat
      BY <1>2 DEF Tiled
    <3>2. L # 0 => 1 \in 1 .. L
      BY <3>1
    <3>3. B # 0 => 1 \in 1 .. B
      BY <3>1
    <3>4. QED
      BY <1>2, <3>1, <3>2, <3>3 DEF Tiled
  <2>3. L # 0 => m.recs[1].blk = 1 /\ m.recs[1].off = StartIn(dataset)
    BY <1>2 DEF Tiled
  <2>4. QED
    BY <1>1, <2>1, <2>2, <2>3 DEF ReaderStart
<1>4. CASE line_num # 0
  <2>1. PICK q \in NextRecord(area, residual, next_record_start, next_record_len) : ~q.found
    BY <1>4 DEF BlockNeeded
  <2>2. /\ n \in 1 .. L /\ position = m.recs[n].blk
        /\ Behind(m.recs[n]) = m.sizes[m.recs[n].blk]
    BY <1>0, <1>1, <1>4, <2>1, NextHere
  <2>3. /\ m.recs[n].blk # B =>
             n + 1 \in 1 .. L /\ m.recs[n + 1].blk = m.recs[n].blk + 1
             /\ m.recs[n + 1].off = StartIn(dataset)
        /\ m.recs[n].blk = B => n = L
    BY <1>2, <2>2, Following
  <2>4. QED
    BY <1>0, <1>1, <1>2, <2>2, <2>3 DEF ReaderStart, Tiled
<1>5. QED
  BY <1>3, <1>4

------------------------------------------------------------------------------
(* The steps                                                                *)

\* Record n + 1 is answered, or passed over for being too long.
LEMMA AnswerStep ==
  ASSUME IInv, state = "reading", NEW n, n = Len(read), n + 1 \in 1 .. Len(member.recs),
         NEW b, b = BlockOf(member, member.recs[n + 1].blk),
         NEW q, q.start = member.recs[n + 1].off + Shift,
         q.len = member.recs[n + 1].stride - Shift,
         Answered(b, q) = Content[n + 1],
         NEW limit, Answer(b, q, limit), UNCHANGED <<dataset, member>>,
         position' = member.recs[n + 1].blk, area' = b, residual' = dataset.blksi - b.size,
         line_num' \in Nat \ {0}
  PROVE  IInv' /\ Cursor!Next
<1>0. /\ dataset \in Datasets /\ member \in dataset.members \cup {NoMember}
      /\ read \in Seq(Reply) /\ n \in Nat
      /\ ReadInv
  BY DEF IInv, TypeOK, Reply
<1>1. PICK r : r = member.recs[n + 1]
  OBVIOUS
<1>2. /\ r.off \in Nat /\ r.stride \in Nat /\ r.stride >= Shift /\ r.blk \in 1 .. Len(member.sizes)
      /\ Shift \in Nat
  <2>1. /\ dataset.recfm = "V" => r.stride >= RDW_SIZE
        /\ r.off \in Nat /\ r.stride \in Nat /\ r.blk \in 1 .. Len(member.sizes)
    BY <1>0, <1>1, RecordLengthIs
  <2>2. QED
    BY <2>1 DEF Shift, IsVar, RDW_SIZE
<1>3. /\ b.size \in 0 .. dataset.blksi /\ dataset.blksi \in Nat
      /\ b.recs \subseteq [id : Nat, off : Nat, stride : Nat]
      /\ dataset.blksi - b.size \in 0 .. dataset.blksi
  <2>1. /\ b.size \in 0 .. dataset.blksi /\ dataset.blksi \in Nat
        /\ b.recs \subseteq [id : Nat, off : Nat, stride : Nat]
    BY <1>0, <1>1, <1>2, BlockType
  <2>2. dataset.blksi - b.size \in 0 .. dataset.blksi
    BY <2>1
  <2>3. QED
    BY <2>1, <2>2
<1>4. /\ Content \in Seq(Reply) /\ Len(Content) = Len(member.recs)
      /\ Len(member.recs) \in Nat
  BY <1>0, ContentIs DEF Content
<1>5. Content[n + 1] \in Reply
  BY <1>4
<1>6. /\ next_record_start' = q.start /\ next_record_len' = q.len
      /\ \/ state' = "stopped" /\ read' = read
         \/ state' = state /\ read' = Append(read, Content[n + 1])
  BY DEF Answer
<1>7. read' \in Seq(Reply)
  BY <1>0, <1>5, <1>6, AppendProperties
<1>8. /\ next_record_start' \in Nat /\ next_record_len' \in Nat
  <2>1. PICK x, y, z \in Nat : x = r.off /\ y = r.stride /\ z = Shift
    BY <1>2
  <2>2. next_record_start' = x + z /\ next_record_len' = y - z /\ y >= z
    BY <1>1, <1>2, <1>6, <2>1
  <2>3. QED
    BY <2>2
<1>9. TypeOK'
  <2>1. position' \in 0 .. Len(member'.sizes)
    BY <1>0, <1>1, <1>2, MemberTypes
  <2>2. area'.size \in 0 .. dataset'.blksi /\ residual' \in 0 .. dataset'.blksi
        /\ area'.recs \subseteq [id : Nat, off : Nat, stride : Nat]
    BY <1>3
  <2>3. state' \in {"idle", "reading", "ended", "stopped"}
    BY <1>6
  <2>4. QED
    BY <1>0, <1>7, <1>8, <2>1, <2>2, <2>3 DEF TypeOK, Reply
<1>10. CASE state' = "stopped" /\ read' = read
  <2>1. UNCHANGED Content
    BY DEF Content
  <2>2. Cursor!Stop
    BY <1>10, <2>1 DEF Cursor!Stop, Content
  <2>3. QED
    BY <1>9, <1>10, <2>2 DEF IInv, Cursor!Next
<1>11. CASE state' = state /\ read' = Append(read, Content[n + 1])
  <2>1. /\ Len(read') = n + 1 /\ read'[n + 1] = Content[n + 1]
        /\ \A i \in 1 .. n : read'[i] = read[i]
    BY <1>0, <1>5, <1>11, AppendProperties
  <2>2. \A i \in 1 .. n + 1 : i \in 1 .. n \/ i = n + 1
    BY <1>0
  <2>3. \A i \in 1 .. n + 1 : read'[i] = Content[i]
    BY <1>0, <2>1, <2>2 DEF ReadInv, Content
  <2>4. UNCHANGED Content
    BY DEF Content
  <2>5. ReadInv'
    BY <1>4, <2>1, <2>3, <2>4 DEF ReadInv, Content
  <2>6. read' # <<>>
    BY <1>0, <2>1
  <2>7. Shift' = Shift
    BY DEF Shift, IsVar
  <2>8. PlaceInv'
    BY <1>0, <1>6, <2>1, <2>6, <2>7 DEF PlaceInv
  <2>9. Cursor!Answer
    <3>1. Len(read) < Len(Content)
      BY <1>0, <1>4
    <3>2. QED
      BY <1>11, <2>4, <3>1 DEF Cursor!Answer, Content
  <2>10. QED
    BY <1>9, <2>5, <2>8, <2>9 DEF IInv, Cursor!Next
<1>12. QED
  BY <1>6, <1>10, <1>11

LEMMA ReadNextRecordStep ==
  ASSUME IInv, NEW limit, ReadNextRecord(limit)
  PROVE  IInv' /\ Cursor!Next
<1>1. PICK q \in NextRecord(area, residual, next_record_start, next_record_len) :
        q.found /\ Answer(area, q, limit)
  BY DEF ReadNextRecord
<1>2. /\ state = "reading" /\ line_num # 0 /\ UNCHANGED <<dataset, member, position, area, residual, line_num>>
  BY DEF ReadNextRecord, MayRead
<1>3. PICK n, b : n = Len(read) /\ b = area
  OBVIOUS
<1>4. /\ n + 1 \in 1 .. Len(member.recs)
      /\ position = member.recs[n + 1].blk
      /\ q.start = member.recs[n + 1].off + Shift
      /\ q.len = member.recs[n + 1].stride - Shift
      /\ Answered(b, q) = Content[n + 1]
  BY <1>1, <1>2, <1>3, NextHere
<1>5. /\ b = BlockOf(member, member.recs[n + 1].blk)
      /\ residual = dataset.blksi - b.size /\ line_num \in Nat
  BY <1>2, <1>3, <1>4 DEF IInv, PlaceInv, TypeOK
<1>6. /\ UNCHANGED <<dataset, member>> /\ position' = member.recs[n + 1].blk /\ area' = b
      /\ residual' = dataset.blksi - b.size /\ line_num' \in Nat \ {0}
      /\ Answer(b, q, limit)
  BY <1>1, <1>2, <1>3, <1>4, <1>5
<1>7. QED
  BY <1>2, <1>3, <1>4, <1>5, <1>6, AnswerStep

LEMMA ReadNextBlockStep ==
  ASSUME IInv, NEW limit, ReadNextBlock(limit)
  PROVE  IInv' /\ Cursor!Next
<1>1. /\ BlockNeeded /\ state = "reading" /\ position < Len(member.sizes)
      /\ position' = position + 1
      /\ area' = BlockOf(member, position + 1)
      /\ residual' = dataset.blksi - area'.size
      /\ line_num' = line_num + 1
      /\ UNCHANGED <<dataset, member>>
      /\ \E q \in NextRecord(area', residual', NULL, 0) : Answer(area', q, limit)
  BY DEF ReadNextBlock, BlockNeeded, MayRead
<1>2. PICK n, b, left : n = Len(read) /\ b = area' /\ left = residual'
  OBVIOUS
<1>3. /\ n \in Nat /\ n + 1 \in 1 .. Len(member.recs)
      /\ member.recs[n + 1].blk = position + 1
      /\ member.recs[n + 1].off = ReaderStart
  BY <1>1, <1>2, NextBlock
<1>4. PICK q \in NextRecord(b, left, NULL, 0) : Answer(b, q, limit)
  BY <1>1, <1>2
<1>5. b = BlockOf(member, member.recs[n + 1].blk) /\ left = dataset.blksi - b.size
  BY <1>1, <1>2, <1>3
<1>6. Advance(NULL, 0) = member.recs[n + 1].off
  BY <1>3 DEF Advance
<1>7. dataset \in Datasets /\ member \in dataset.members \cup {NoMember} /\ line_num \in Nat
  BY DEF IInv, TypeOK, Reply
<1> DEFINE f == [found |-> TRUE, start |-> member.recs[n + 1].off + Shift,
                 len |-> member.recs[n + 1].stride - Shift]
<1>8. NextRecord(b, left, NULL, 0) = {f} /\ Answered(b, f) = Content[n + 1]
  <2>1. PICK m : m = member
    OBVIOUS
  <2>2. /\ m \in dataset.members \cup {NoMember} /\ n + 1 \in 1 .. Len(m.recs)
        /\ b = BlockOf(m, m.recs[n + 1].blk) /\ Advance(NULL, 0) = m.recs[n + 1].off
    BY <1>3, <1>5, <1>6, <1>7, <2>1
  <2> HIDE DEF f
  <2>3. LET shift == IF IsVar THEN RDW_SIZE ELSE 0
            g == [found |-> TRUE, start |-> m.recs[n + 1].off + shift,
                  len |-> m.recs[n + 1].stride - shift]
        IN  /\ NextRecord(b, left, NULL, 0) = {g}
            /\ Answered(b, g) = ContentOf(dataset, m)[n + 1]
    BY <1>5, <1>7, <2>2, RecordFound
  <2>4. QED
    BY <2>1, <2>3 DEF f, Shift, Content
<1>9. /\ q.start = member.recs[n + 1].off + Shift
      /\ q.len = member.recs[n + 1].stride - Shift
      /\ Answered(b, q) = Content[n + 1]
  <2>1. q = f
    <3> HIDE DEF f
    <3>1. QED
      BY <1>4, <1>8
  <2>2. Answered(b, q) = Content[n + 1]
    <3> HIDE DEF f
    <3>1. QED
      BY <1>8, <2>1
  <2>3. QED
    BY <2>1, <2>2
<1>10. /\ position' = member.recs[n + 1].blk /\ area' = b /\ residual' = dataset.blksi - b.size
       /\ line_num' \in Nat \ {0}
  BY <1>1, <1>2, <1>3, <1>7
<1>11. QED
  BY <1>1, <1>2, <1>3, <1>4, <1>5, <1>9, <1>10, AnswerStep

LEMMA ReadEndStep ==
  ASSUME IInv, ReadEnd
  PROVE  IInv' /\ Cursor!Next
<1>1. /\ BlockNeeded /\ state = "reading" /\ position = Len(member.sizes)
      /\ state' = "ended" /\ next_record_start' = NULL /\ next_record_len' = 0
      /\ residual' \in 0 .. dataset.blksi
      /\ UNCHANGED <<dataset, member, position, area, line_num, read>>
  BY DEF ReadEnd, CheckFailed, BlockNeeded, MayRead
<1>2. /\ dataset \in Datasets /\ member \in dataset.members \cup {NoMember}
      /\ read \in Seq(Reply) /\ ReadInv
  BY <1>1 DEF IInv, TypeOK, Reply
<1>3. TypeOK'
  BY <1>1 DEF IInv, TypeOK
<1>4. read = Content
  <2>1. Len(read) = Len(member.recs)
    BY <1>1, NextBlock
  <2>2. Content \in Seq(Reply) /\ Len(Content) = Len(member.recs)
    BY <1>2, ContentIs DEF Content
  <2>3. \A i \in 1 .. Len(read) : read[i] = Content[i]
    BY <1>2 DEF ReadInv, Content
  <2>4. QED
    BY <1>2, <2>1, <2>2, <2>3, SeqEqual
<1>5. UNCHANGED Content
  BY <1>1 DEF Content
<1>6. Cursor!End
  BY <1>1, <1>4, <1>5 DEF Cursor!End, Content
<1>7. QED
  BY <1>1, <1>3, <1>6 DEF IInv, Cursor!Next

LEMMA ReadStops ==
  ASSUME IInv, ReadCheckFailed \/ ReadFailed
  PROVE  IInv' /\ Cursor!Next
<1>1. /\ state = "reading" /\ state' = "stopped"
      /\ UNCHANGED <<dataset, member, line_num, read>>
      /\ PlaceInv
      /\ dataset \in Datasets /\ member \in dataset.members \cup {NoMember}
  BY DEF ReadCheckFailed, ReadFailed, CheckFailed, BlockNeeded, MayRead, IInv, TypeOK
<1>2. UNCHANGED Content
  BY <1>1 DEF Content
<1>3. Cursor!Stop
  BY <1>1, <1>2 DEF Cursor!Stop, Content
<1>4. CASE ReadCheckFailed
  <2>1. /\ position < Len(member.sizes) /\ position' \in {position, position + 1}
        /\ area' = area \/ area' = BlockOf(member, position + 1)
        /\ next_record_start' = NULL /\ next_record_len' = 0 /\ residual' \in 0 .. dataset.blksi
    BY <1>4 DEF ReadCheckFailed, CheckFailed
  <2>2. /\ position \in 0 .. Len(member.sizes) /\ Len(member.sizes) \in Nat
        /\ area.size \in 0 .. dataset.blksi
        /\ area.recs \subseteq [id : Nat, off : Nat, stride : Nat]
    BY <1>1, MemberTypes DEF IInv, TypeOK
  <2>3. position' \in 0 .. Len(member.sizes) /\ position + 1 \in 1 .. Len(member.sizes)
    BY <2>1, <2>2
  <2>4. /\ BlockOf(member, position + 1).size \in 0 .. dataset.blksi
        /\ BlockOf(member, position + 1).recs \subseteq [id : Nat, off : Nat, stride : Nat]
    BY <1>1, <2>3, BlockType
  <2>5. area'.size \in 0 .. dataset.blksi /\ area'.recs \subseteq [id : Nat, off : Nat, stride : Nat]
    BY <2>1, <2>2, <2>4
  <2>6. TypeOK'
    BY <1>1, <2>1, <2>3, <2>5 DEF IInv, TypeOK
  <2>7. QED
    BY <1>1, <1>3, <2>6 DEF IInv, Cursor!Next
<1>5. CASE ReadFailed
  <2>1. /\ next_record_start' = IF line_num = 0 THEN next_record_start
                                ELSE Advance(next_record_start, next_record_len)
        /\ UNCHANGED <<position, area, residual, next_record_len>>
    BY <1>5 DEF ReadFailed
  <2>2. next_record_start \in Nat \cup {NULL} /\ next_record_len \in Nat
    BY DEF IInv, TypeOK
  <2>3. Advance(next_record_start, next_record_len) \in Nat
    <3>1. CASE next_record_start = NULL
      BY <3>1 DEF Advance, ReaderStart, StartIn, BDW_SIZE
    <3>2. CASE next_record_start # NULL
      BY <2>2, <3>2 DEF Advance
    <3>3. QED
      BY <3>1, <3>2
  <2>4. TypeOK'
    BY <1>1, <2>1, <2>2, <2>3 DEF IInv, TypeOK
  <2>5. QED
    BY <1>1, <1>3, <2>4 DEF IInv, Cursor!Next
<1>6. QED
  BY <1>4, <1>5

LEMMA FindMemberStep ==
  ASSUME IInv, FindMember
  PROVE  IInv' /\ Cursor!Next
<1>1. /\ member' \in dataset.members /\ position' = 0 /\ next_record_start' = NULL
      /\ next_record_len' = 0 /\ line_num' = 0 /\ read' = <<>> /\ state' = "reading"
      /\ UNCHANGED <<dataset, area, residual>>
      /\ dataset \in Datasets
  BY DEF FindMember, IInv, TypeOK
<1>2. Len(member'.sizes) \in Nat /\ Len(member'.recs) \in Nat
  BY <1>1, MemberTypes
<1>3. read' \in Seq([id : Nat, len : Nat]) /\ Len(read') = 0 /\ (1 .. 0) = {}
  BY <1>1
<1>4. TypeOK'
  BY <1>1, <1>2, <1>3 DEF IInv, TypeOK
<1>5. ReadInv' /\ PlaceInv'
  BY <1>1, <1>2, <1>3 DEF ReadInv, PlaceInv
<1>6. Cursor!Locate
  BY <1>1 DEF Cursor!Locate
<1>7. QED
  BY <1>4, <1>5, <1>6 DEF IInv, Cursor!Next

LEMMA FindFailedStep ==
  ASSUME IInv, FindFailed
  PROVE  IInv' /\ Cursor!Next
<1>1. /\ state' = "idle"
      /\ UNCHANGED <<dataset, member, position, area, residual, next_record_start,
                     next_record_len, line_num, read>>
  BY DEF FindFailed, cursor
<1>2. TypeOK'
  BY <1>1 DEF IInv, TypeOK
<1>3. UNCHANGED Content
  BY <1>1 DEF Content
<1>4. Cursor!Lose
  BY <1>1, <1>3 DEF Cursor!Lose, Content
<1>5. QED
  BY <1>1, <1>2, <1>4 DEF IInv, Cursor!Next

LEMMA Stutter == IInv /\ UNCHANGED vars => IInv' /\ UNCHANGED Cursor!cvars
<1> SUFFICES ASSUME IInv, UNCHANGED vars PROVE IInv' /\ UNCHANGED Cursor!cvars
  OBVIOUS
<1>1. UNCHANGED <<dataset, member, position, area, residual, next_record_start,
                  next_record_len, line_num, read, state>>
  BY DEF vars, cursor
<1>2. TypeOK'
  BY <1>1 DEF IInv, TypeOK
<1>3. UNCHANGED Content
  BY <1>1 DEF Content
<1>4. (ReadInv => ReadInv') /\ (PlaceInv => PlaceInv')
  BY <1>1 DEF ReadInv, PlaceInv, Shift, IsVar
<1>5. QED
  BY <1>1, <1>2, <1>3, <1>4 DEF IInv, Cursor!cvars, Content

LEMMA Initial == Init => IInv /\ Cursor!Init
<1> SUFFICES ASSUME Init PROVE IInv /\ Cursor!Init
  OBVIOUS
<1>1. /\ dataset \in Datasets /\ member = NoMember /\ position = 0 /\ area = NoBlock
      /\ residual = 0 /\ next_record_start = NULL /\ next_record_len = 0 /\ line_num = 0
      /\ read = <<>> /\ state = "idle"
  BY DEF Init, OpenPdsForRead
<1>2. dataset.blksi \in Nat /\ Len(member.sizes) = 0 /\ member.recs = <<>>
  BY <1>1, ReaderAssumption DEF DatasetType, NoMember
<1>3. TypeOK
  BY <1>1, <1>2 DEF TypeOK, NoBlock
<1>4. Content = <<>>
  BY <1>1, <1>2 DEF Content, ContentOf
<1>5. QED
  BY <1>1, <1>3, <1>4 DEF IInv, Cursor!Init, Content

LEMMA Step == IInv /\ [Next]_vars => IInv' /\ [Cursor!Next]_Cursor!cvars
BY ReadNextRecordStep, ReadNextBlockStep, ReadEndStep, ReadStops, FindMemberStep,
   FindFailedStep, Stutter DEF Next, ReadRecord

\* The handle keeps its types, and while a member is read the cursor is at the
\* record answered last, in the block that holds it.
THEOREM Inductive == Spec => []IInv
BY Initial, Step, PTL DEF Spec

\* CursorInBlock: the cursor never stands in a block of another member, or behind
\* the end of the one in the area.
THEOREM CursorStaysInBlock == Spec => []CursorInBlock
<1>1. IInv => CursorInBlock
  <2> SUFFICES ASSUME IInv, line_num # 0, next_record_start # NULL, state = "reading"
               PROVE  /\ position # 0
                      /\ area = BlockOf(member, position)
                      /\ next_record_start + next_record_len <= area.size
    BY DEF CursorInBlock
  <2>1. /\ dataset \in Datasets /\ member \in dataset.members \cup {NoMember}
        /\ read \in Seq(Reply) /\ ReadInv /\ read # <<>>
        /\ position = member.recs[Len(read)].blk
        /\ area = BlockOf(member, position)
        /\ next_record_start = member.recs[Len(read)].off + Shift
        /\ next_record_len = member.recs[Len(read)].stride - Shift
    BY DEF IInv, TypeOK, PlaceInv, Reply
  <2>2. PICK n, r : n = Len(read) /\ r = member.recs[n]
    OBVIOUS
  <2>3. n \in 1 .. Len(member.recs)
    BY <2>1, <2>2, ContentIs DEF ReadInv
  <2>4. Tiled(member.recs, member.sizes, StartIn(dataset), Len(member.recs), Len(member.sizes))
    BY <2>1, Tiling
  <2>5. Behind(r) <= member.sizes[r.blk]
    BY <2>2, <2>3, <2>4, InBlock
  <2>6. r.blk \in 1 .. Len(member.sizes) /\ r.off \in Nat /\ r.stride \in Nat
    BY <2>1, <2>2, <2>3, RecordLengthIs
  <2>7. next_record_start + next_record_len = Behind(r)
    <3>1. PICK x, y, z \in Nat : x = r.off /\ y = r.stride /\ z = Shift
      BY <2>6 DEF Shift, RDW_SIZE
    <3>2. next_record_start = x + z /\ next_record_len = y - z /\ Behind(r) = x + y
      BY <2>1, <2>2, <3>1 DEF Behind
    <3>3. QED
      BY <3>2
  <2>8. area.size = member.sizes[r.blk]
    BY <2>1, <2>2 DEF BlockOf
  <2>9. QED
    BY <2>1, <2>2, <2>5, <2>6, <2>7, <2>8
<1>2. QED
  BY <1>1, Inductive, PTL

\* ImplementsCursor: every call answers the next record of the member that was
\* located, and the end is told when all were answered.
THEOREM CursorIsImplemented == Spec => ImplementsCursor
<1>1. Spec => [][Cursor!Next]_Cursor!cvars
  BY Step, Inductive, PTL DEF Spec
<1>2. QED
  BY <1>1, Initial, PTL DEF Spec, ImplementsCursor, Cursor!Spec

------------------------------------------------------------------------------
(* LineReader: buffers                                                      *)

FileInv == size \in 0 .. MaxSize /\ newlines \subseteq 1 .. size

Buf(o, l, d) == [off |-> o, len |-> l, data |-> d]

\* A record and the newline behind it lie in the data, or just behind them.
BufferInv(b) ==
  /\ b = Buf(b.off, b.len, b.data)
  /\ b.off \in Nat /\ b.len \in Nat \cup {Wrapped}
  /\ b.data \in Seq(1 .. size) /\ Len(b.data) <= REC_LEN
  /\ b.off <= Len(b.data) + 1 /\ b.off + b.len <= Len(b.data)

LEMMA ReadFrom ==
  ASSUME FileInv, NEW from \in 0 .. size
  PROVE  LET c == Chunk(from)
         IN  /\ c \in Seq(1 .. size) /\ Len(c) \in Nat /\ Len(c) <= REC_LEN
             /\ \A k \in 1 .. Len(c) : c[k] = from + k
             /\ Len(c) = 0 <=> from = size
             /\ c = <<>> <=> from = size
             /\ from + Len(c) <= size
             /\ from + Len(c) # size => Len(c) = REC_LEN
<1> DEFINE n == IF size - from < REC_LEN THEN size - from ELSE REC_LEN
<1>1. size \in Nat /\ REC_LEN \in Nat /\ 1 < REC_LEN /\ from \in Nat /\ from <= size
  BY BufferAssumption DEF FileInv
<1>2. n \in Nat /\ n <= REC_LEN /\ from + n <= size /\ (n = 0 <=> from = size)
      /\ (from + n # size => n = REC_LEN)
  BY <1>1
<1>3. Chunk(from) = [k \in 1 .. n |-> from + k]
  BY DEF Chunk
<1> HIDE DEF n
<1>4. PICK c : c = [k \in 1 .. n |-> from + k]
  OBVIOUS
<1>5. c \in [1 .. n -> 1 .. size]
  BY <1>1, <1>2, <1>4
<1>6. c \in Seq(1 .. size) /\ Len(c) = n /\ \A k \in 1 .. n : c[k] = from + k
  BY <1>2, <1>4, <1>5
<1>7. c = <<>> <=> n = 0
  BY <1>2, <1>6
<1>8. QED
  BY <1>2, <1>3, <1>4, <1>6, <1>7

\* Reads begin at multiples of REC_LEN until the file has been read.
AtRead(p) == p = size \/ p % REC_LEN = 0

LEMMA RestIs ==
  ASSUME NEW R \in Nat, 0 < R, NEW q \in Nat, NEW r \in Nat, r < R
  PROVE  (R * q + r) % R = r
<1>1. PICK x : x = R * q + r
  OBVIOUS
<1>2. R * q \in Nat /\ x \in Nat
  BY <1>1
<1>3. PICK u \in Int, t \in Nat : x = R * u + t /\ t < R /\ t = x % R
  BY <1>2
<1>4. R * q - R * u = t - r
  BY <1>1, <1>3
<1>5. q = u
  <2>1. ASSUME q > u PROVE FALSE
    <3>1. PICK e \in Nat : e = q - u - 1
      BY <2>1
    <3>2. R * q = R * u + R * e + R
      BY <3>1
    <3>3. R * e >= 0
      OBVIOUS
    <3>4. R * q \in Int /\ R * u \in Int /\ R * e \in Int
      OBVIOUS
    <3>5. QED
      BY <1>3, <1>4, <3>2, <3>3, <3>4
  <2>2. ASSUME q < u PROVE FALSE
    <3>1. PICK e \in Nat : e = u - q - 1
      BY <2>2
    <3>2. R * u = R * q + R * e + R
      BY <3>1
    <3>3. R * e >= 0
      OBVIOUS
    <3>4. R * q \in Int /\ R * u \in Int /\ R * e \in Int
      OBVIOUS
    <3>5. QED
      BY <1>3, <1>4, <3>2, <3>3, <3>4
  <2>3. QED
    BY <2>1, <2>2
<1>6. R * q = R * u
  BY <1>5
<1>7. r = t
  BY <1>4, <1>6, <1>2
<1>8. QED
  BY <1>1, <1>3, <1>7

LEMMA Multiple ==
  ASSUME NEW p \in Nat, p % REC_LEN = 0, NEW j \in 1 .. REC_LEN
  PROVE  /\ (p + REC_LEN) % REC_LEN = 0
         /\ (p + j) % REC_LEN = 1 <=> j = 1
<1>1. REC_LEN \in Nat /\ 1 < REC_LEN
  BY BufferAssumption
<1>2. PICK R \in Nat : R = REC_LEN /\ 1 < R
  BY <1>1
<1>3. PICK q \in Nat : p = R * q
  BY <1>2
<1>4. (p + R) % R = 0
  <2>1. p + R = R * (q + 1) + 0
    BY <1>2, <1>3
  <2>2. (R * (q + 1) + 0) % R = 0
    BY <1>2, RestIs
  <2>3. QED
    BY <2>1, <2>2
<1>5. j < R => (p + j) % R = j
  BY <1>2, <1>3, RestIs
<1>6. QED
  BY <1>2, <1>4, <1>5

LEMMA ReadOnIs ==
  ASSUME FileInv, NEW from \in 0 .. size, AtRead(from)
  PROVE  AtRead(from + Len(Chunk(from)))
<1>1. PICK n : n = Len(Chunk(from))
  OBVIOUS
<1>2. n \in Nat /\ (n = 0 <=> from = size) /\ (from + n # size => n = REC_LEN)
  BY <1>1, ReadFrom
<1>3. CASE from + n = size
  BY <1>1, <1>3 DEF AtRead
<1>4. CASE from + n # size
  <2>1. n = REC_LEN /\ from # size
    BY <1>2, <1>4, BufferAssumption
  <2>2. from % REC_LEN = 0 /\ from \in Nat
    BY <2>1 DEF AtRead, FileInv
  <2>3. REC_LEN \in 1 .. REC_LEN
    BY BufferAssumption
  <2>4. (from + REC_LEN) % REC_LEN = 0
    BY <2>2, <2>3, Multiple
  <2>5. QED
    BY <1>1, <2>1, <2>4 DEF AtRead
<1>5. QED
  BY <1>3, <1>4

LEMMA ScanIs ==
  ASSUME NEW d \in Seq(Nat), NEW o \in Nat
  PROVE  LET s == ScanBuffer(d, o)
         IN  \/ /\ s = -1
                /\ \A k \in o + 1 .. Len(d) : d[k] \notin newlines
             \/ /\ s \in Nat /\ o <= s /\ s < Len(d)
                /\ d[s + 1] \in newlines
                /\ \A k \in o + 1 .. s : d[k] \notin newlines
<1> DEFINE found == { k \in o .. Len(d) - 1 : d[k + 1] \in newlines }
<1>1. ScanBuffer(d, o) = IF found = {} THEN -1 ELSE Min(found)
  BY DEF ScanBuffer
<1>2. Len(d) \in Nat
  OBVIOUS
<1>3. CASE found = {}
  <2>1. \A k \in o + 1 .. Len(d) : k - 1 \in o .. Len(d) - 1 /\ (k - 1) + 1 = k
    BY <1>2
  <2>2. \A k \in o + 1 .. Len(d) : d[k] \notin newlines
    BY <1>3, <2>1
  <2>3. QED
    BY <1>1, <1>3, <2>2
<1>4. CASE found # {}
  <2>1. found \in SUBSET Nat
    BY <1>2
  <2> HIDE DEF found
  <2>2. \E n \in found : \A m \in found : n <= m
    BY <1>4, <2>1, SmallestNat
  <2>3. PICK n : n = Min(found)
    OBVIOUS
  <2>4. n \in found /\ \A m \in found : n <= m
    BY <2>2, <2>3 DEF Min
  <2>5. n \in Nat /\ o <= n /\ n < Len(d) /\ d[n + 1] \in newlines
    BY <1>2, <2>4 DEF found
  <2>6. ASSUME NEW k \in o + 1 .. n PROVE d[k] \notin newlines
    <3>1. k - 1 \in o .. Len(d) - 1 /\ (k - 1) + 1 = k /\ k - 1 < n
      BY <1>2, <2>5
    <3>2. k - 1 \notin found
      BY <2>1, <2>4, <2>5, <3>1
    <3>3. QED
      BY <3>1, <3>2 DEF found
  <2>7. QED
    BY <1>1, <1>4, <2>3, <2>5, <2>6
<1>5. QED
  BY <1>3, <1>4

LEMMA TailIs ==
  ASSUME NEW c \in Seq(Nat)
  PROVE  LET t == TailLength(c)
         IN  /\ t \in Nat /\ t <= Len(c)
             /\ \A k \in 1 .. t : c[k] \notin newlines
             /\ t < Len(c) => c[t + 1] \in newlines
<1>1. PICK s : s = ScanBuffer(c, 0)
  OBVIOUS
<1>2. \/ s = -1 /\ \A k \in 1 .. Len(c) : c[k] \notin newlines
      \/ /\ s \in Nat /\ s < Len(c)
         /\ c[s + 1] \in newlines
         /\ \A k \in 1 .. s : c[k] \notin newlines
  BY <1>1, ScanIs
<1>3. TailLength(c) = IF s < 0 THEN Len(c) ELSE s
  BY <1>1 DEF TailLength
<1>4. Len(c) \in Nat
  OBVIOUS
<1>5. QED
  BY <1>2, <1>3, <1>4

\* What get_record leaves: either the record ends at the newline at i in the data
\* d, or it goes on for t bytes in what the next read returns.
EndsIn(o, d, i) ==
  /\ i \in Nat /\ o <= i /\ i < Len(d)
  /\ d[i + 1] \in newlines
  /\ \A k \in o + 1 .. i : d[k] \notin newlines

GoesOn(o, d) == \A k \in o + 1 .. Len(d) : d[k] \notin newlines

LEMMA GetRecordIs ==
  ASSUME NEW d \in Seq(Nat), NEW o \in Nat, NEW l, NEW from, NEW x,
         inactive = Buf(inactive.off, inactive.len, inactive.data), x = inactive.data,
         GetRecord(Buf(o, l, d), from)
  PROVE  \/ \E i \in Nat : /\ EndsIn(o, d, i)
                           /\ active' = Buf(o, i - o, d)
                           /\ inactive' = Buf(0, 0, x)
                           /\ pc' = "add_line" /\ pos' = from
         \/ /\ GoesOn(o, d)
            /\ active' = Buf(o, Len(d) - o, d)
            /\ inactive' = Buf(0, TailLength(Chunk(from)), Chunk(from))
            /\ pc' = IF Chunk(from) = <<>> /\ o > Len(d) THEN "done" ELSE "add_line"
            /\ pos' = from + Len(Chunk(from))
<1>1. PICK s : s = ScanBuffer(d, o)
  OBVIOUS
<1>2. \/ s = -1 /\ GoesOn(o, d)
      \/ s \in Nat /\ EndsIn(o, d, s)
  BY <1>1, ScanIs DEF GoesOn, EndsIn
<1>3. Buf(o, l, d).off = o /\ Buf(o, l, d).data = d
      /\ \A n : [Buf(o, l, d) EXCEPT !.len = n] = Buf(o, n, d)
  BY DEF Buf
<1>4. PICK b : b = Buf(o, l, d)
  OBVIOUS
<1>5. CASE s >= 0 /\ FullLine(b, s) /\ pos' = from
  <2>1. active' = Buf(o, s - o, d) /\ pc' = "add_line"
    BY <1>3, <1>4, <1>5 DEF FullLine
  <2>2. inactive' = Buf(0, 0, x)
    <3>1. PICK y, z : inactive = [off |-> y, len |-> z, data |-> x]
      BY DEF Buf
    <3>2. PICK b1 : b1 = [inactive EXCEPT !.off = 0]
      OBVIOUS
    <3>3. b1 = [off |-> 0, len |-> z, data |-> x]
      BY <3>1, <3>2
    <3>4. inactive' = [b1 EXCEPT !.len = 0]
      BY <1>5, <3>2 DEF FullLine
    <3>5. QED
      BY <3>3, <3>4 DEF Buf
  <2>3. QED
    BY <1>2, <1>5, <2>1, <2>2
<1>6. CASE s < 0 /\ ScatteredLine(b, Chunk(from)) /\ pos' = from + Len(Chunk(from))
  <2>1. active' = Buf(o, Len(d) - o, d) /\ inactive' = Buf(0, TailLength(Chunk(from)), Chunk(from))
    BY <1>3, <1>4, <1>6 DEF ScatteredLine, Buf
  <2>2. pc' = IF Chunk(from) = <<>> /\ o > Len(d) THEN "done" ELSE "add_line"
    BY <1>3, <1>4, <1>6 DEF ScatteredLine, AtEndOfFile
  <2>3. QED
    BY <1>2, <1>6, <2>1, <2>2
<1>7. QED
  BY <1>1, <1>3, <1>4, <1>5, <1>6 DEF GetRecord

LEMMA CopyIs ==
  ASSUME FileInv, NEW b, BufferInv(b), b.len \in Nat, NEW m \in Nat
  PROVE  LET c == CopyAtMost(b, m)
         IN  /\ c \in Seq(1 .. size) /\ Len(c) \in Nat
             /\ Len(c) = IF b.len > m THEN m ELSE b.len
             /\ \A k \in 1 .. Len(c) : c[k] = b.data[b.off + k]
<1>1. PICK n : n = IF b.len > m THEN m ELSE b.len
  OBVIOUS
<1>2. PICK d, o : d = b.data /\ o = b.off
  OBVIOUS
<1>3. n \in Nat /\ o \in Nat /\ d \in Seq(1 .. size) /\ o + n <= Len(d) /\ Len(d) \in Nat
  BY <1>1, <1>2 DEF BufferInv
<1>4. CopyAtMost(b, m) = SubSeq(d, o + 1, o + n)
  BY <1>1, <1>2 DEF CopyAtMost
<1>5. PICK c : c = SubSeq(d, o + 1, o + n)
  OBVIOUS
<1>6. \A k \in o + 1 .. o + n : d[k] \in 1 .. size
  <2>1. \A k \in o + 1 .. o + n : k \in 1 .. Len(d)
    BY <1>3
  <2>2. QED
    BY <1>3, <2>1, ElementOfSeq
<1>7. PICK p \in Int : p = o + 1
  BY <1>3
<1>8. PICK q \in Int : q = o + n
  BY <1>3
<1>9. \A k \in p .. q : d[k] \in 1 .. size
  BY <1>6, <1>7, <1>8
<1>10. /\ SubSeq(d, p, q) \in Seq(1 .. size)
       /\ Len(SubSeq(d, p, q)) = IF p <= q THEN q - p + 1 ELSE 0
       /\ \A k \in 1 .. q - p + 1 : SubSeq(d, p, q)[k] = d[p + k - 1]
  BY <1>9, SubSeqProperties
<1>11. c = SubSeq(d, p, q)
  BY <1>5, <1>7, <1>8
<1>12. Len(c) = n /\ n \in Nat
  BY <1>3, <1>7, <1>8, <1>10, <1>11
<1>13. \A k \in 1 .. n : k \in 1 .. q - p + 1 /\ p + k - 1 = o + k
  BY <1>3, <1>7, <1>8
<1>14. \A k \in 1 .. n : c[k] = d[o + k]
  BY <1>10, <1>11, <1>13
<1>15. QED
  BY <1>1, <1>2, <1>4, <1>5, <1>10, <1>11, <1>12, <1>14

\* copy_into_record_buffer.
Copied(a, b) ==
  LET start == CopyAtMost(a, Lrecl)
  IN  IF a.len = Wrapped THEN Garbage ELSE start \o CopyAtMost(b, Lrecl - Len(start))

LEMMA CopiedIs ==
  ASSUME FileInv, NEW a, BufferInv(a), NEW b, BufferInv(b), b.len \in Nat,
         NEW c, c = Copied(a, b)
  PROVE  /\ a.len = Wrapped => c = Garbage
         /\ a.len # Wrapped =>
              /\ c \in Seq(1 .. size) /\ Len(c) \in Nat
              /\ Len(c) = IF a.len + b.len > Lrecl THEN Lrecl ELSE a.len + b.len
              /\ \A k \in 1 .. Len(c) : c[k] = IF k <= a.len THEN a.data[a.off + k]
                                                             ELSE b.data[b.off + (k - a.len)]
<1>1. a.len = Wrapped => c = Garbage
  BY DEF Copied
<1>2. ASSUME a.len # Wrapped
      PROVE  /\ c \in Seq(1 .. size) /\ Len(c) \in Nat
             /\ Len(c) = IF a.len + b.len > Lrecl THEN Lrecl ELSE a.len + b.len
             /\ \A k \in 1 .. Len(c) : c[k] = IF k <= a.len THEN a.data[a.off + k]
                                                            ELSE b.data[b.off + (k - a.len)]
  <2>1. PICK s : s = CopyAtMost(a, Lrecl)
    OBVIOUS
  <2>2. a.len \in Nat /\ Lrecl \in Nat
    BY <1>2, BufferAssumption DEF BufferInv
  <2>3. /\ s \in Seq(1 .. size) /\ Len(s) \in Nat
        /\ Len(s) = IF a.len > Lrecl THEN Lrecl ELSE a.len
        /\ \A k \in 1 .. Len(s) : s[k] = a.data[a.off + k]
    BY <2>1, <2>2, CopyIs
  <2>4. Lrecl - Len(s) \in Nat
    BY <2>2, <2>3
  <2>5. PICK m \in Nat : m = Lrecl - Len(s)
    BY <2>4
  <2>6. PICK t : t = CopyAtMost(b, m)
    OBVIOUS
  <2>7. /\ t \in Seq(1 .. size) /\ Len(t) \in Nat
        /\ Len(t) = IF b.len > m THEN m ELSE b.len
        /\ \A k \in 1 .. Len(t) : t[k] = b.data[b.off + k]
    BY <2>6, CopyIs
  <2>8. c = s \o t
    BY <1>2, <2>1, <2>5, <2>6 DEF Copied
  <2>9. /\ s \o t \in Seq(1 .. size) /\ Len(s \o t) = Len(s) + Len(t)
        /\ \A k \in 1 .. Len(s) + Len(t) : (s \o t)[k] = IF k <= Len(s) THEN s[k] ELSE t[k - Len(s)]
    <3>1. s \o t \in Seq(1 .. size) /\ Len(s \o t) = Len(s) + Len(t)
      BY <2>3, <2>7, ConcatProperties
    <3>2. \A k \in 1 .. Len(s) + Len(t) : (s \o t)[k] = IF k <= Len(s) THEN s[k] ELSE t[k - Len(s)]
      BY <2>3, <2>7, ConcatProperties
    <3>3. QED
      BY <3>1, <3>2
  <2>10. Len(c) = IF a.len + b.len > Lrecl THEN Lrecl ELSE a.len + b.len
    <3>1. PICK u, v, n, k : u = a.len /\ v = b.len /\ n = Len(s) /\ k = Len(t)
      OBVIOUS
    <3>2. u \in Nat /\ v \in Nat /\ Lrecl \in Nat
      BY <2>2, <3>1
    <3>3. n = (IF u > Lrecl THEN Lrecl ELSE u) /\ k = (IF v > m THEN m ELSE v) /\ m = Lrecl - n
      BY <2>3, <2>5, <2>7, <3>1
    <3>4. n + k = IF u + v > Lrecl THEN Lrecl ELSE u + v
      BY <3>2, <3>3
    <3>5. Len(c) = n + k
      BY <2>8, <2>9, <3>1
    <3>6. QED
      BY <3>1, <3>4, <3>5
  <2>11. ASSUME NEW k \in 1 .. Len(c)
         PROVE  c[k] = IF k <= a.len THEN a.data[a.off + k] ELSE b.data[b.off + (k - a.len)]
    <3>1. k \in Nat /\ 1 <= k /\ k <= Len(s) + Len(t)
      BY <2>3, <2>7, <2>8, <2>9, <2>11
    <3>2. CASE k <= Len(s)
      <4>1. c[k] = s[k] /\ k \in 1 .. Len(s) /\ k <= a.len
        BY <2>2, <2>3, <2>8, <2>9, <3>1, <3>2
      <4>2. QED
        BY <2>3, <4>1
    <3>3. CASE k > Len(s)
      <4>1. Len(t) > 0
        BY <2>3, <2>7, <3>1, <3>3
      <4>2. Len(s) = a.len
        BY <2>2, <2>3, <2>5, <2>7, <4>1
      <4>3. k - a.len \in 1 .. Len(t) /\ ~(k <= a.len) /\ k \in 1 .. Len(s) + Len(t)
        BY <2>2, <2>7, <3>1, <3>3, <4>2
      <4>5. c[k] = t[k - a.len]
        BY <2>8, <2>9, <3>3, <4>2, <4>3
      <4>4. QED
        BY <2>7, <4>3, <4>5
    <3>4. QED
      BY <2>3, <3>1, <3>2, <3>3
  <2>12. QED
    BY <2>3, <2>7, <2>8, <2>9, <2>10, <2>11
<1>3. QED
  BY <1>1, <1>2

------------------------------------------------------------------------------
(* LineReader: types                                                        *)

RecordSet == Seq(1 .. size) \cup {Garbage}

BuffersInv ==
  /\ FileInv /\ pos \in 0 .. size /\ AtRead(pos)
  /\ BufferInv(active) /\ BufferInv(inactive) /\ inactive.len \in Nat
  /\ pc \in {"read_line", "add_line", "done"}
  /\ records \in Seq(RecordSet)
  /\ truncated \in BOOLEAN

\* A call of read_line, whose record starts at o in the data d: from bytes were
\* read before get_record reads on.
Reads(o, d, from) ==
  \/ \E i \in Nat : /\ EndsIn(o, d, i)
                    /\ active' = Buf(o, i - o, d)
                    /\ inactive' = Buf(0, 0, inactive.data)
                    /\ pc' = "add_line" /\ pos' = from
  \/ /\ GoesOn(o, d)
     /\ active' = Buf(o, Len(d) - o, d)
     /\ inactive' = Buf(0, TailLength(Chunk(from)), Chunk(from))
     /\ pc' = IF Chunk(from) = <<>> /\ o > Len(d) THEN "done" ELSE "add_line"
     /\ pos' = from + Len(Chunk(from))

LEMMA InNat == ASSUME FileInv, NEW d \in Seq(1 .. size) PROVE d \in Seq(Nat)
<1>1. \A k \in 1 .. Len(d) : d[k] \in Nat
  <2>1. \A k \in 1 .. Len(d) : d[k] \in 1 .. size
    BY ElementOfSeq
  <2>2. QED
    BY <2>1
<1>2. Len(d) \in Nat /\ d = [k \in 1 .. Len(d) |-> d[k]]
  OBVIOUS
<1>3. QED
  BY <1>1, <1>2

LEMMA FirstRead ==
  ASSUME BuffersInv, ReadFirstBuffer
  PROVE  /\ BufferIsEmpty /\ pos # size
         /\ Reads(0, Chunk(pos), pos + Len(Chunk(pos)))
<1>1. BufferIsEmpty /\ Chunk(pos) # <<>>
  BY DEF ReadFirstBuffer
<1>2. Chunk(pos) \in Seq(1 .. size) /\ pos # size
  BY <1>1, ReadFrom DEF BuffersInv
<1>3. PICK c \in Seq(Nat) : c = Chunk(pos)
  BY <1>2, InNat DEF BuffersInv
<1>4. PICK l, x : active = [off |-> 0, len |-> l, data |-> x]
  BY <1>1 DEF BuffersInv, BufferInv, Buf, BufferIsEmpty
<1>5. [active EXCEPT !.data = c] = Buf(0, l, c)
  BY <1>4 DEF Buf
<1>6. GetRecord(Buf(0, l, c), pos + Len(c))
  BY <1>3, <1>5 DEF ReadFirstBuffer
<1>7. inactive = Buf(inactive.off, inactive.len, inactive.data)
  BY DEF BuffersInv, BufferInv
<1>8. 0 \in Nat
  OBVIOUS
<1>9. Reads(0, c, pos + Len(c))
  BY <1>6, <1>7, <1>8, GetRecordIs DEF Reads
<1>10. QED
  BY <1>1, <1>2, <1>3, <1>9

LEMMA NextRead ==
  ASSUME BuffersInv, ReadOn
  PROVE  /\ ~BufferIsEmpty
         /\ active.off + active.len + 1 \in Nat
         /\ active.off + active.len + 1 <= Len(active.data) + 1
         /\ Reads(active.off + active.len + 1, active.data, pos)
<1>1. ~BufferIsEmpty
  BY DEF ReadOn
<1>2. PICK o, l, d : active = [off |-> o, len |-> l, data |-> d]
  BY DEF BuffersInv, BufferInv, Buf
<1>3. /\ o \in Nat /\ l \in Nat \cup {-1} /\ d \in Seq(1 .. size) /\ Len(d) \in Nat
      /\ o + l <= Len(d)
  BY <1>2 DEF BuffersInv, BufferInv, Wrapped
<1>4. PICK n \in Nat : n = o + l + 1
  BY <1>3
<1>5. n <= Len(d) + 1
  BY <1>3, <1>4
<1>6. [active EXCEPT !.off = n] = Buf(n, l, d)
  BY <1>2 DEF Buf
<1>7. GetRecord(Buf(n, l, d), pos)
  BY <1>2, <1>4, <1>6 DEF ReadOn, NextOffset
<1>8. inactive = Buf(inactive.off, inactive.len, inactive.data) /\ d \in Seq(Nat)
  BY <1>3, InNat DEF BuffersInv, BufferInv
<1>9. Reads(n, d, pos)
  BY <1>7, <1>8, GetRecordIs DEF Reads
<1>10. QED
  BY <1>1, <1>2, <1>4, <1>5, <1>9

LEMMA ReadsTypes ==
  ASSUME BuffersInv, NEW d \in Seq(1 .. size), Len(d) <= REC_LEN,
         NEW o \in Nat, o <= Len(d) + 1, NEW from \in 0 .. size, AtRead(from),
         Reads(o, d, from)
  PROVE  /\ BufferInv(active') /\ BufferInv(inactive') /\ inactive'.len \in Nat
         /\ pos' \in 0 .. size /\ AtRead(pos')
         /\ pc' \in {"add_line", "done"}
<1>1. FileInv /\ Len(d) \in Nat /\ size \in Nat
  BY DEF BuffersInv, FileInv
<1>2. CASE \E i \in Nat : /\ EndsIn(o, d, i)
                          /\ active' = Buf(o, i - o, d)
                          /\ inactive' = Buf(0, 0, inactive.data)
                          /\ pc' = "add_line" /\ pos' = from
  <2>1. PICK i \in Nat : /\ EndsIn(o, d, i)
                         /\ active' = Buf(o, i - o, d)
                         /\ inactive' = Buf(0, 0, inactive.data)
                         /\ pc' = "add_line" /\ pos' = from
    BY <1>2
  <2>2. i - o \in Nat /\ o + (i - o) <= Len(d)
    BY <1>1, <2>1 DEF EndsIn
  <2>3. BufferInv(Buf(o, i - o, d))
    BY <1>1, <2>2 DEF BufferInv, Buf
  <2>4. BufferInv(Buf(0, 0, inactive.data)) /\ Buf(0, 0, inactive.data).len \in Nat
    <3>1. inactive.data \in Seq(1 .. size) /\ Len(inactive.data) <= REC_LEN
          /\ Len(inactive.data) \in Nat
      BY DEF BuffersInv, BufferInv
    <3>2. QED
      BY <3>1 DEF BufferInv, Buf
  <2>5. QED
    BY <2>1, <2>3, <2>4
<1>3. CASE /\ GoesOn(o, d)
           /\ active' = Buf(o, Len(d) - o, d)
           /\ inactive' = Buf(0, TailLength(Chunk(from)), Chunk(from))
           /\ pc' = IF Chunk(from) = <<>> /\ o > Len(d) THEN "done" ELSE "add_line"
           /\ pos' = from + Len(Chunk(from))
  <2>1. PICK c : c = Chunk(from)
    OBVIOUS
  <2>2. c \in Seq(1 .. size) /\ Len(c) \in Nat /\ Len(c) <= REC_LEN /\ from + Len(c) <= size
    BY <1>1, <2>1, ReadFrom
  <2>3. PICK t : t = TailLength(c)
    OBVIOUS
  <2>4. t \in Nat /\ t <= Len(c)
    BY <1>1, <2>2, <2>3, InNat, TailIs
  <2>5. BufferInv(Buf(0, t, c)) /\ Buf(0, t, c).len \in Nat
    BY <2>2, <2>4 DEF BufferInv, Buf
  <2>6. Len(d) - o \in Nat \cup {Wrapped} /\ o + (Len(d) - o) <= Len(d)
    BY <1>1 DEF Wrapped
  <2>7. BufferInv(Buf(o, Len(d) - o, d))
    BY <2>6 DEF BufferInv, Buf
  <2>8. AtRead(from + Len(c))
    BY <1>1, <2>1, ReadOnIs
  <2>9. from + Len(c) \in 0 .. size
    BY <1>1, <2>2
  <2>10. QED
    BY <1>3, <2>1, <2>3, <2>5, <2>7, <2>8, <2>9
<1>4. QED
  BY <1>2, <1>3 DEF Reads

LEMMA RecordIs ==
  ASSUME BuffersInv
  PROVE  /\ RecordBuffer = Copied(active, inactive)
         /\ RecordBuffer \in RecordSet
         /\ Append(records, RecordBuffer) \in Seq(RecordSet)
<1>1. RecordBuffer = Copied(active, inactive)
  BY DEF RecordBuffer, Copied
<1>2. Copied(active, inactive) \in RecordSet
  BY CopiedIs DEF BuffersInv, RecordSet
<1>3. QED
  BY <1>1, <1>2, AppendProperties DEF BuffersInv

LEMMA Swapped ==
  ASSUME BuffersInv, AddLine
  PROVE  /\ active' = IF inactive.len > 0 THEN inactive ELSE active
         /\ BufferInv(active') /\ BufferInv(inactive') /\ inactive'.len \in Nat
<1>1. SwapBuffers
  BY DEF AddLine
<1>2. CASE inactive.len > 0
  <2>1. active' = inactive /\ inactive' = Buf(0, 0, active.data)
    BY <1>1, <1>2 DEF SwapBuffers, Buf
  <2>2. active.data \in Seq(1 .. size) /\ Len(active.data) <= REC_LEN /\ Len(active.data) \in Nat
    BY DEF BuffersInv, BufferInv
  <2>3. BufferInv(Buf(0, 0, active.data)) /\ Buf(0, 0, active.data).len \in Nat
    BY <2>2 DEF BufferInv, Buf
  <2>4. QED
    BY <1>2, <2>1, <2>3 DEF BuffersInv
<1>3. CASE ~(inactive.len > 0)
  BY <1>1, <1>3 DEF SwapBuffers, BuffersInv
<1>4. QED
  BY <1>2, <1>3

LEMMA BuffersInit == LineInit => BuffersInv
<1> SUFFICES ASSUME LineInit PROVE BuffersInv
  OBVIOUS
<1>1. FileInv /\ size \in Nat
  BY BufferAssumption DEF LineInit, FileInv
<1>2. <<>> \in Seq(1 .. size) /\ Len(<<>>) = 0 /\ <<>> \in Seq(RecordSet)
  OBVIOUS
<1>3. BufferInv(active) /\ BufferInv(inactive) /\ inactive.len \in Nat
  BY <1>2, BufferAssumption DEF LineInit, BufferInv, Buf
<1>4. 0 % REC_LEN = 0
  <2>1. REC_LEN * 0 + 0 = 0 /\ REC_LEN \in Nat /\ 0 < REC_LEN
    BY BufferAssumption
  <2>2. (REC_LEN * 0 + 0) % REC_LEN = 0
    BY <2>1, RestIs
  <2>3. QED
    BY <2>1, <2>2
<1>5. pos \in 0 .. size /\ AtRead(pos)
  <2>1. pos = 0
    BY DEF LineInit
  <2>2. QED
    BY <1>1, <1>4, <2>1 DEF AtRead
<1>6. records \in Seq(RecordSet) /\ truncated \in BOOLEAN
      /\ pc \in {"read_line", "add_line", "done"}
  BY <1>2 DEF LineInit
<1>7. QED
  BY <1>1, <1>3, <1>5, <1>6 DEF BuffersInv

LEMMA BuffersStep ==
  ASSUME BuffersInv, [LineNext]_lineVars
  PROVE  BuffersInv'
<1>1. UNCHANGED <<size, newlines>>
  BY DEF LineNext, lineVars, file, ReadFirstBuffer, ReadNothing, ReadOn, AddLine, Finished
<1>2. SUFFICES /\ pos' \in 0 .. size /\ AtRead(pos')
               /\ BufferInv(active') /\ BufferInv(inactive') /\ inactive'.len \in Nat
               /\ pc' \in {"read_line", "add_line", "done"}
               /\ records' \in Seq(RecordSet)
               /\ truncated' \in BOOLEAN
  BY <1>1 DEF BuffersInv, FileInv, AtRead, BufferInv, RecordSet
<1>3. CASE ReadFirstBuffer
  <2>1. PICK c : c = Chunk(pos)
    OBVIOUS
  <2>2. /\ c \in Seq(1 .. size) /\ Len(c) <= REC_LEN /\ Len(c) \in Nat
        /\ pos + Len(c) \in 0 .. size /\ AtRead(pos + Len(c))
    <3>1. FileInv /\ pos \in 0 .. size /\ AtRead(pos) /\ size \in Nat
      BY DEF BuffersInv, FileInv
    <3>2. /\ c \in Seq(1 .. size) /\ Len(c) <= REC_LEN /\ Len(c) \in Nat
          /\ pos + Len(c) <= size
      BY <2>1, <3>1, ReadFrom
    <3>3. AtRead(pos + Len(c))
      BY <2>1, <3>1, ReadOnIs
    <3>4. QED
      BY <3>1, <3>2, <3>3
  <2>3. Reads(0, c, pos + Len(c))
    BY <1>3, <2>1, FirstRead
  <2>4. UNCHANGED <<records, truncated>> /\ 0 \in Nat /\ 0 <= Len(c) + 1
    BY <1>3, <2>2 DEF ReadFirstBuffer
  <2>5. QED
    BY <2>2, <2>3, <2>4, ReadsTypes DEF BuffersInv
<1>4. CASE ReadNothing
  BY <1>4 DEF ReadNothing, BuffersInv
<1>5. CASE ReadOn
  <2>1. PICK d, o : d = active.data /\ o = active.off + active.len + 1
    OBVIOUS
  <2>2. d \in Seq(1 .. size) /\ Len(d) <= REC_LEN
    BY <2>1 DEF BuffersInv, BufferInv
  <2>3. o \in Nat /\ o <= Len(d) + 1 /\ Reads(o, d, pos)
    BY <1>5, <2>1, NextRead
  <2>4. UNCHANGED <<records, truncated>>
    BY <1>5 DEF ReadOn
  <2>5. QED
    BY <2>2, <2>3, <2>4, ReadsTypes DEF BuffersInv
<1>6. CASE AddLine
  <2>1. BufferInv(active') /\ BufferInv(inactive') /\ inactive'.len \in Nat
    BY <1>6, Swapped
  <2>2. records' \in Seq(RecordSet)
    BY <1>6, RecordIs DEF AddLine
  <2>3. truncated' \in BOOLEAN
    BY <1>6 DEF AddLine, BuffersInv
  <2>4. QED
    BY <1>6, <2>1, <2>2, <2>3 DEF AddLine, BuffersInv
<1>7. CASE Finished \/ UNCHANGED lineVars
  BY <1>7 DEF Finished, lineVars, BuffersInv
<1>8. QED
  BY <1>3, <1>4, <1>5, <1>6, <1>7 DEF LineNext

LEMMA BuffersAlways == LineSpec => []BuffersInv
<1>1. BuffersInv /\ [LineNext]_lineVars => BuffersInv'
  BY BuffersStep
<1>2. QED
  BY <1>1, BuffersInit, PTL DEF LineSpec

LEMMA InRange == ASSUME NEW S, NEW s \in Seq(S) PROVE Range(s) \subseteq S
<1>1. \A k \in 1 .. Len(s) : s[k] \in S
  BY ElementOfSeq
<1>2. DOMAIN s = 1 .. Len(s)
  OBVIOUS
<1>3. QED
  BY <1>1, <1>2 DEF Range

LEMMA BufferIs == ASSUME NEW b, BufferInv(b) PROVE IsBuffer(b)
<1>1. PICK o, l, n : o = b.off /\ l = b.len /\ n = Len(b.data)
  OBVIOUS
<1>2. /\ o \in Nat /\ l \in Nat \cup {-1} /\ n \in Nat /\ REC_LEN \in Nat /\ n <= REC_LEN
      /\ o <= n + 1 /\ o + l <= n
  BY <1>1, BufferAssumption DEF BufferInv, Wrapped
<1>3. o \in 0 .. n + 1 /\ l \in (0 .. REC_LEN) \cup {-1}
  BY <1>2
<1>4. Range(b.data) \subseteq 1 .. size
  BY InRange DEF BufferInv
<1>5. QED
  BY <1>1, <1>2, <1>3, <1>4 DEF IsBuffer, Wrapped

\* Whatever a file holds: the offsets of the pair of buffers never leave the data
\* by more than a newline, also where the length of a record has wrapped.
THEOREM BuffersAreTyped == LineSpec => []BuffersTypeOK
<1>1. ASSUME BuffersInv PROVE BuffersTypeOK
  <2>1. IsBuffer(active) /\ IsBuffer(inactive) /\ inactive.len # Wrapped
    BY <1>1, BufferIs DEF BuffersInv, Wrapped
  <2>2. active.off + active.len <= Len(active.data)
    BY <1>1 DEF BuffersInv, BufferInv
  <2>3. \A k \in DOMAIN records : records[k] = Garbage \/ Range(records[k]) \subseteq 1 .. size
    <3>1. DOMAIN records = 1 .. Len(records) /\ \A k \in 1 .. Len(records) : records[k] \in RecordSet
      BY <1>1, ElementOfSeq DEF BuffersInv
    <3>2. QED
      BY <3>1, InRange DEF RecordSet
  <2>4. QED
    BY <1>1, <2>1, <2>2, <2>3 DEF BuffersTypeOK, BuffersInv, FileInv
<1>2. QED
  BY <1>1, BuffersAlways, PTL

------------------------------------------------------------------------------
(* LineReader: the lines of a file                                          *)

StartsBefore(q) == { s \in LineStarts : s < q }
StartsUpTo(q) == { s \in LineStarts : s <= q }

LEMMA StartsAre ==
  ASSUME FileInv
  PROVE  /\ IsFiniteSet(LineStarts) /\ LineStarts \subseteq 1 .. size
         /\ Cardinality(LineStarts) \in Nat
<1>1. size \in Nat /\ LineStarts \subseteq 1 .. size
  BY BufferAssumption DEF FileInv, LineStarts
<1>2. IsFiniteSet(1 .. size)
  BY <1>1, FS_Interval
<1>3. IsFiniteSet(LineStarts)
  BY <1>1, <1>2, FS_Subset
<1>4. QED
  BY <1>1, <1>3, FS_CardinalityType

LEMMA BeforeAndUpTo ==
  ASSUME FileInv, NEW q \in LineStarts
  PROVE  /\ IsFiniteSet(StartsBefore(q)) /\ IsFiniteSet(StartsUpTo(q))
         /\ Cardinality(StartsBefore(q)) \in Nat
         /\ Cardinality(StartsUpTo(q)) = Cardinality(StartsBefore(q)) + 1
         /\ Cardinality(StartsUpTo(q)) \in 1 .. Cardinality(LineStarts)
<1>1. IsFiniteSet(LineStarts) /\ LineStarts \subseteq 1 .. size /\ size \in Nat
      /\ Cardinality(LineStarts) \in Nat
  BY StartsAre, BufferAssumption DEF FileInv
<1>2. StartsBefore(q) \in SUBSET LineStarts /\ StartsUpTo(q) \in SUBSET LineStarts
  BY DEF StartsBefore, StartsUpTo
<1>3. StartsUpTo(q) = StartsBefore(q) \cup {q} /\ q \notin StartsBefore(q)
  <2>1. q \in Nat /\ \A s \in LineStarts : s \in Nat
    BY <1>1
  <2>2. \A s \in LineStarts : s <= q <=> s < q \/ s = q
    BY <2>1
  <2>3. q <= q /\ ~(q < q)
    BY <2>1
  <2>4. QED
    BY <2>2, <2>3 DEF StartsBefore, StartsUpTo
<1>4. IsFiniteSet(StartsBefore(q)) /\ IsFiniteSet(StartsUpTo(q))
      /\ Cardinality(StartsUpTo(q)) <= Cardinality(LineStarts)
  BY <1>1, <1>2, FS_Subset
<1>5. Cardinality(StartsBefore(q)) \in Nat
  BY <1>4, FS_CardinalityType
<1>6. Cardinality(StartsUpTo(q)) = Cardinality(StartsBefore(q)) + 1
  BY <1>3, <1>4, FS_AddElement
<1>7. QED
  BY <1>1, <1>4, <1>5, <1>6

\* A line is known by the number of lines up to it.
LEMMA NthIs ==
  ASSUME FileInv, NEW q \in LineStarts
  PROVE  NthStart(Cardinality(StartsUpTo(q))) = q
<1>1. PICK n : n = Cardinality(StartsUpTo(q))
  OBVIOUS
<1>2. PICK p : p = NthStart(n)
  OBVIOUS
<1>3. p \in LineStarts /\ Cardinality(StartsUpTo(p)) = n
  BY <1>1, <1>2 DEF NthStart, StartsUpTo
<1>4. LineStarts \subseteq 1 .. size /\ size \in Nat
  BY StartsAre, BufferAssumption DEF FileInv
<1>5. IsFiniteSet(StartsUpTo(p)) /\ IsFiniteSet(StartsUpTo(q))
  BY <1>3, BeforeAndUpTo
<1>6. p \in Nat /\ q \in Nat /\ \A s \in LineStarts : s \in Nat
  BY <1>3, <1>4
<1>10. p \in StartsUpTo(p) /\ q \in StartsUpTo(q)
  BY <1>3, <1>6 DEF StartsUpTo
<1>7. ASSUME p < q PROVE FALSE
  <2>1. StartsUpTo(p) \in SUBSET StartsUpTo(q)
    <3>1. \A s \in LineStarts : s <= p => s <= q
      BY <1>6, <1>7
    <3>2. QED
      BY <3>1 DEF StartsUpTo
  <2>2. StartsUpTo(p) = StartsUpTo(q)
    BY <1>1, <1>3, <1>5, <2>1, FS_Subset
  <2>3. q <= p
    BY <1>10, <2>2 DEF StartsUpTo
  <2>4. QED
    BY <1>6, <1>7, <2>3
<1>8. ASSUME q < p PROVE FALSE
  <2>1. StartsUpTo(q) \in SUBSET StartsUpTo(p)
    <3>1. \A s \in LineStarts : s <= q => s <= p
      BY <1>6, <1>8
    <3>2. QED
      BY <3>1 DEF StartsUpTo
  <2>2. StartsUpTo(p) = StartsUpTo(q)
    BY <1>1, <1>3, <1>5, <2>1, FS_Subset
  <2>3. p <= q
    BY <1>10, <2>2 DEF StartsUpTo
  <2>4. QED
    BY <1>6, <1>8, <2>3
<1>9. QED
  BY <1>1, <1>2, <1>6, <1>7, <1>8

LEMMA LineEndIs ==
  ASSUME FileInv, NEW q \in LineStarts
  PROVE  LET e == LineEnd(q)
         IN  /\ e \in Nat /\ q - 1 <= e /\ e <= size
             /\ \A k \in q .. e : k \notin newlines
             /\ e = size \/ e + 1 \in newlines
<1>1. q \in Nat /\ 1 <= q /\ q <= size /\ size \in Nat /\ newlines \subseteq 1 .. size
  BY BufferAssumption DEF FileInv, LineStarts
<1> DEFINE ends == { p \in newlines : q <= p }
<1>2. LineEnd(q) = IF ends = {} THEN size ELSE Min(ends) - 1
  BY DEF LineEnd
<1>3. CASE ends = {}
  BY <1>1, <1>2, <1>3
<1>4. CASE ends # {}
  <2>1. ends \in SUBSET Nat
    <3>1. \A p \in newlines : p \in Nat
      BY <1>1
    <3>2. QED
      BY <3>1
  <2>2. PICK n : n = Min(ends)
    OBVIOUS
  <2>3. n \in ends /\ \A m \in ends : n <= m
    <3> HIDE DEF ends
    <3>1. \E k \in ends : \A m \in ends : k <= m
      BY <1>4, <2>1, SmallestNat
    <3>2. QED
      BY <2>2, <3>1 DEF Min
  <2>4. n \in Nat /\ q <= n /\ n <= size /\ n \in newlines
    BY <1>1, <2>3
  <2>5. \A k \in q .. n - 1 : k \notin newlines
    BY <1>1, <2>3, <2>4
  <2>6. LineEnd(q) = n - 1
    BY <1>2, <1>4, <2>2
  <2>7. QED
    BY <1>1, <2>4, <2>5, <2>6
<1>5. QED
  BY <1>3, <1>4

\* A line ends where its newline stands or the file ends.
LEMMA LineEndAt ==
  ASSUME FileInv, NEW q \in LineStarts, NEW e \in Nat, q - 1 <= e,
         \A k \in q .. e : k \notin newlines,
         e = size \/ e + 1 \in newlines
  PROVE  LineEnd(q) = e
<1>1. PICK f : f = LineEnd(q)
  OBVIOUS
<1>2. /\ f \in Nat /\ q - 1 <= f /\ f <= size
      /\ \A k \in q .. f : k \notin newlines
      /\ f = size \/ f + 1 \in newlines
  BY <1>1, LineEndIs
<1>3. q \in Nat /\ size \in Nat /\ newlines \subseteq 1 .. size
  BY BufferAssumption DEF FileInv, LineStarts
<1>4. e <= size
  BY <1>3
<1>5. ASSUME e < f PROVE FALSE
  <2>1. e + 1 \in newlines /\ e + 1 \in q .. f
    BY <1>2, <1>3, <1>5
  <2>2. QED
    BY <1>2, <2>1
<1>6. ASSUME f < e PROVE FALSE
  <2>1. f + 1 \in newlines /\ f + 1 \in q .. e
    BY <1>2, <1>3, <1>4, <1>6
  <2>2. QED
    BY <2>1
<1>7. QED
  BY <1>1, <1>2, <1>5, <1>6

Cut(n) == IF n > Lrecl THEN Lrecl ELSE n

LEMMA LineIs ==
  ASSUME FileInv, NEW q \in LineStarts
  PROVE  LET x == LineAt(q)  n == Cut(LineEnd(q) - q + 1)
         IN  /\ x \in Seq(1 .. size) /\ Len(x) = n /\ n \in Nat
             /\ \A k \in 1 .. n : x[k] = q + k - 1
<1>1. PICK e : e = LineEnd(q)
  OBVIOUS
<1>2. e \in Nat /\ q - 1 <= e /\ e <= size
  BY <1>1, LineEndIs
<1>3. q \in Nat /\ 1 <= q /\ q <= size /\ size \in Nat /\ Lrecl \in Nat
  BY BufferAssumption DEF FileInv, LineStarts
<1>4. PICK n : n = Cut(e - q + 1)
  OBVIOUS
<1>5. n \in Nat /\ q + n - 1 <= e
  BY <1>2, <1>3, <1>4 DEF Cut
<1>6. PICK to : to = IF e - q + 1 > Lrecl THEN q + Lrecl - 1 ELSE e
  OBVIOUS
<1>7. to - q + 1 = n
  BY <1>2, <1>3, <1>4, <1>6 DEF Cut
<1>8. LineAt(q) = [k \in 1 .. n |-> q + k - 1]
  BY <1>1, <1>6, <1>7 DEF LineAt, Positions
<1>9. PICK x : x = [k \in 1 .. n |-> q + k - 1]
  OBVIOUS
<1>10. x \in [1 .. n -> 1 .. size]
  BY <1>2, <1>3, <1>5, <1>9
<1>11. x \in Seq(1 .. size) /\ Len(x) = n /\ \A k \in 1 .. n : x[k] = q + k - 1
  BY <1>5, <1>9, <1>10
<1>12. QED
  BY <1>1, <1>4, <1>5, <1>8, <1>9, <1>11

\* A record that holds the bytes of a line is that line.
LEMMA IsLine ==
  ASSUME FileInv, NEW q \in LineStarts, NEW c \in Seq(1 .. size),
         Len(c) = Cut(LineEnd(q) - q + 1),
         \A k \in 1 .. Len(c) : c[k] = q + k - 1
  PROVE  c = LineAt(q)
<1>1. PICK x : x = LineAt(q)
  OBVIOUS
<1>2. x \in Seq(1 .. size) /\ Len(x) = Len(c) /\ \A k \in 1 .. Len(c) : x[k] = q + k - 1
  BY <1>1, LineIs
<1>3. \A k \in 1 .. Len(c) : c[k] = x[k]
  BY <1>2
<1>4. QED
  BY <1>1, <1>2, <1>3, SeqEqual

------------------------------------------------------------------------------
(* LineReader: the records of the lines before a position                   *)

Prefix(r, q) ==
  /\ Len(r) = Cardinality(StartsBefore(q))
  /\ \A n \in 1 .. Len(r) : r[n] = LineAt(NthStart(n))

LEMMA PrefixNext ==
  ASSUME FileInv, NEW q \in LineStarts, NEW r \in Seq(RecordSet), Prefix(r, q)
  PROVE  Prefix(Append(r, LineAt(q)), LineEnd(q) + 2)
<1>1. PICK e : e = LineEnd(q)
  OBVIOUS
<1>2. /\ e \in Nat /\ q - 1 <= e /\ e <= size
      /\ \A k \in q .. e : k \notin newlines
      /\ e = size \/ e + 1 \in newlines
  BY <1>1, LineEndIs
<1>3. q \in Nat /\ size \in Nat /\ \A s \in LineStarts : s \in 1 .. size
  BY BufferAssumption DEF FileInv, LineStarts
<1>4. StartsBefore(e + 2) = StartsUpTo(q)
  <2>1. ASSUME NEW s \in LineStarts, s < e + 2 PROVE s <= q
    <3>1. s \in 1 .. size /\ s \in Nat
      BY <1>3
    <3>2. CASE s > q
      <4>1. s - 1 \in newlines /\ s - 1 \in q .. e
        BY <1>2, <1>3, <2>1, <3>1, <3>2 DEF LineStarts
      <4>2. QED
        BY <1>2, <4>1
    <3>3. QED
      BY <1>3, <3>1, <3>2
  <2>2. ASSUME NEW s \in LineStarts, s <= q PROVE s < e + 2
    <3>1. s \in Nat
      BY <1>3
    <3>2. QED
      BY <1>2, <1>3, <2>2, <3>1
  <2>3. QED
    BY <2>1, <2>2 DEF StartsBefore, StartsUpTo
<1>5. PICK n : n = Cardinality(StartsBefore(q))
  OBVIOUS
<1>6. n \in Nat /\ Cardinality(StartsBefore(e + 2)) = n + 1 /\ Cardinality(StartsUpTo(q)) = n + 1
  BY <1>4, <1>5, BeforeAndUpTo
<1>7. NthStart(n + 1) = q
  BY <1>6, NthIs
<1>8. PICK x : x = Append(r, LineAt(q))
  OBVIOUS
<1>9. Len(r) = n /\ \A k \in 1 .. n : r[k] = LineAt(NthStart(k))
  BY <1>5 DEF Prefix
<1>10. Len(x) = n + 1 /\ (\A k \in 1 .. n : x[k] = r[k]) /\ x[n + 1] = LineAt(q)
  BY <1>6, <1>8, <1>9
<1>11. ASSUME NEW k \in 1 .. n + 1 PROVE x[k] = LineAt(NthStart(k))
  <2>1. k \in 1 .. n \/ k = n + 1
    BY <1>6
  <2>2. QED
    BY <1>7, <1>9, <1>10, <2>1
<1>12. QED
  BY <1>1, <1>6, <1>8, <1>10, <1>11 DEF Prefix

LEMMA LinesAre ==
  ASSUME FileInv
  PROVE  /\ Lines \in Seq(RecordSet) /\ Len(Lines) = Cardinality(LineStarts)
         /\ \A n \in 1 .. Cardinality(LineStarts) :
              Lines[n] = LineAt(NthStart(n)) /\ Lines[n] \in Seq(1 .. size)
         /\ \A q \in LineStarts : Lines[Cardinality(StartsUpTo(q))] = LineAt(q)
         /\ \A n \in 1 .. Cardinality(LineStarts) : \E q \in LineStarts : Lines[n] = LineAt(q)
<1>1. PICK n : n = Cardinality(LineStarts)
  OBVIOUS
<1>2. n \in Nat
  BY <1>1, StartsAre
<1>3. PICK x : x = [k \in 1 .. n |-> LineAt(NthStart(k))]
  OBVIOUS
<1>4. x = Lines
  BY <1>1, <1>3 DEF Lines
<1>5. ASSUME NEW k \in 1 .. n
      PROVE  /\ x[k] \in RecordSet /\ x[k] \in Seq(1 .. size)
             /\ \E q \in LineStarts : x[k] = LineAt(q)
  <2>1. \E q \in LineStarts : Cardinality(StartsUpTo(q)) = k
    <3> SUFFICES ASSUME \A q \in LineStarts : Cardinality(StartsUpTo(q)) # k PROVE FALSE
      OBVIOUS
    <3>1. PICK f : f = [q \in LineStarts |-> Cardinality(StartsUpTo(q))]
      OBVIOUS
    <3>2. f \in [LineStarts -> (1 .. n) \ {k}]
      BY <1>1, <3>1, BeforeAndUpTo
    <3>3. IsFiniteSet(1 .. n) /\ Cardinality(1 .. n) = n
      BY <1>2, FS_Interval
    <3>4. IsFiniteSet((1 .. n) \ {k}) /\ Cardinality((1 .. n) \ {k}) = n - 1
      BY <1>5, <3>3, FS_RemoveElement
    <3>5. PICK p, q \in LineStarts : p # q /\ f[p] = f[q]
      <4>1. Cardinality((1 .. n) \ {k}) < Cardinality(LineStarts)
        BY <1>1, <1>2, <3>4
      <4>2. QED
        BY <3>2, <3>4, <4>1, StartsAre, FS_PigeonHole
    <3>6. QED
      BY <3>1, <3>5, NthIs
  <2>2. PICK q \in LineStarts : Cardinality(StartsUpTo(q)) = k
    BY <2>1
  <2>3. x[k] = LineAt(q)
    BY <1>3, <1>5, <2>2, NthIs
  <2>4. QED
    BY <2>3, LineIs DEF RecordSet
<1>6. x \in Seq(RecordSet) /\ Len(x) = n
  BY <1>2, <1>3, <1>5
<1>7. ASSUME NEW q \in LineStarts PROVE x[Cardinality(StartsUpTo(q))] = LineAt(q)
  <2>1. PICK k : k = Cardinality(StartsUpTo(q))
    OBVIOUS
  <2>2. k \in 1 .. n /\ NthStart(k) = q
    BY <1>1, <2>1, BeforeAndUpTo, NthIs
  <2>3. QED
    BY <1>3, <2>1, <2>2
<1>8. QED
  BY <1>1, <1>3, <1>4, <1>5, <1>6, <1>7

LEMMA PrefixAll ==
  ASSUME FileInv, NEW q \in Nat, size < q, NEW r \in Seq(RecordSet), Prefix(r, q)
  PROVE  r = Lines
<1>1. size \in Nat /\ \A s \in LineStarts : s \in 1 .. size
  BY BufferAssumption DEF FileInv, LineStarts
<1>2. StartsBefore(q) = LineStarts
  <2>1. \A s \in LineStarts : s < q
    BY <1>1
  <2>2. QED
    BY <2>1 DEF StartsBefore
<1>3. PICK x : x = Lines
  OBVIOUS
<1>4. x \in Seq(RecordSet) /\ Len(x) = Len(r)
      /\ \A n \in 1 .. Len(r) : x[n] = r[n]
  BY <1>2, <1>3, LinesAre DEF Prefix
<1>5. QED
  BY <1>3, <1>4, SeqEqual

\* The line of a position that is no newline has it, if it is the first.
LEMMA ExpectedAt ==
  ASSUME FileInv, NEW n \in 1 .. Cardinality(LineStarts)
  PROVE  /\ Expected \in Seq(RecordSet) /\ Len(Expected) >= Cardinality(LineStarts)
         /\ n \in DOMAIN Expected /\ Expected[n] = Lines[n]
<1>1. PICK x : x = Lines
  OBVIOUS
<1>2. PICK m : m = Cardinality(LineStarts)
  OBVIOUS
<1>3. m \in Nat /\ x \in Seq(RecordSet) /\ Len(x) = m /\ n \in 1 .. m
  BY <1>1, <1>2, StartsAre, LinesAre
<1>4. <<>> \in RecordSet
  BY DEF RecordSet
<1>5. PICK y : y = Append(x, <<>>)
  OBVIOUS
<1>6. y \in Seq(RecordSet) /\ Len(y) = m + 1 /\ y[n] = x[n] /\ DOMAIN y = 1 .. m + 1
  BY <1>3, <1>4, <1>5
<1>7. Expected = x \/ Expected = y
  BY <1>1, <1>5 DEF Expected
<1>8. CASE Expected = x
  BY <1>1, <1>2, <1>3, <1>8
<1>9. CASE Expected = y
  <2>1. n \in 1 .. m + 1
    BY <1>3
  <2>2. QED
    BY <1>1, <1>2, <1>3, <1>6, <1>9, <2>1
<1>10. QED
  BY <1>7, <1>8, <1>9

LEMMA ExpectedLength ==
  ASSUME FileInv, NEW r \in Seq(RecordSet), Len(r) < Cardinality(LineStarts)
  PROVE  r # Expected
<1>1. Len(r) \in Nat /\ Cardinality(LineStarts) \in Nat
  BY StartsAre
<1>2. PICK n : n = Cardinality(LineStarts)
  OBVIOUS
<1>3. n \in 1 .. n /\ n \in Nat
  BY <1>1, <1>2
<1>4. Len(Expected) >= n
  BY <1>2, <1>3, ExpectedAt
<1>5. QED
  BY <1>1, <1>2, <1>4

------------------------------------------------------------------------------
(* LineReader: which files fit                                              *)

\* What Fits says of the first m bytes.
FitsUpTo(m) ==
  /\ \A n \in newlines : n <= m /\ ReadStart(n) => n = size
  /\ \A n \in 1 .. size :
       ReadStart(n) /\ n > 1 /\ n + REC_LEN <= size /\ n + REC_LEN <= m + 1 =>
         newlines \cap (n .. n + REC_LEN - 1) # {}

LEMMA FitsAll == ASSUME FileInv, FitsUpTo(size) PROVE Fits
<1>1. size \in Nat /\ REC_LEN \in Nat /\ newlines \subseteq 1 .. size
  BY BufferAssumption DEF FileInv
<1>2. \A n \in newlines : n <= size
  BY <1>1
<1>3. \A n \in 1 .. size : n + REC_LEN <= size => n + REC_LEN <= size + 1
  BY <1>1
<1>4. QED
  BY <1>2, <1>3 DEF FitsUpTo, Fits

LEMMA RestOf ==
  ASSUME NEW R \in Nat, 0 < R, NEW x \in Nat
  PROVE  \E u \in Int, t \in Nat : x = R * u + t /\ t < R /\ t = x % R
<1>1. PICK u, t : u = x \div R /\ t = x % R
  OBVIOUS
<1>2. u \in Int /\ t \in Nat /\ t < R /\ x = R * u + t
  BY <1>1
<1>3. QED
  BY <1>1, <1>2

LEMMA OneReadStart ==
  ASSUME NEW p \in Nat, p % REC_LEN = 0, NEW q \in Nat, ReadStart(q),
         q <= p + 1, p + 1 < q + REC_LEN
  PROVE  q = p + 1
<1>1. PICK R \in Nat : R = REC_LEN /\ 1 < R
  BY BufferAssumption
<1>2. q % R = 1 /\ p % R = 0
  BY <1>1 DEF ReadStart
<1>3. PICK v \in Int : q = R * v + 1
  <2>1. PICK u \in Int, t \in Nat : q = R * u + t /\ t < R /\ t = q % R
    BY <1>1, RestOf
  <2>2. QED
    BY <1>2, <2>1
<1>4. v \in Nat
  <2>1. ASSUME v < 0 PROVE FALSE
    <3>1. PICK w \in Nat : v = 0 - w - 1
      BY <2>1
    <3>2. R * v = 0 - R * w - R /\ R * w \in Nat
      BY <3>1
    <3>3. QED
      BY <1>1, <1>3, <3>2
  <2>2. QED
    BY <2>1
<1>5. PICK t \in Nat : t = p + 1 - q
  OBVIOUS
<1>6. t < R /\ p = R * v + t
  BY <1>1, <1>3, <1>5
<1>7. t = 0
  BY <1>1, <1>2, <1>4, <1>6, RestIs
<1>8. QED
  BY <1>5, <1>7

LEMMA FitsNext ==
  ASSUME FileInv, NEW p \in Nat, p % REC_LEN = 0, FitsUpTo(p),
         NEW n \in Nat, n <= REC_LEN, p + n <= size,
         p + 1 \notin newlines \/ p + 1 = size,
         p = 0 \/ p + n = size \/ newlines \cap (p + 1 .. p + REC_LEN) # {}
  PROVE  FitsUpTo(p + n)
<1>1. size \in Nat /\ newlines \subseteq 1 .. size
  BY BufferAssumption DEF FileInv
<1>2. PICK R \in Nat : R = REC_LEN /\ 1 < R
  BY BufferAssumption
<1>3. ASSUME NEW k \in newlines, k <= p + n, ReadStart(k) PROVE k = size
  <2>1. k \in Nat
    BY <1>1
  <2>2. CASE k <= p
    BY <1>3, <2>2 DEF FitsUpTo
  <2>3. CASE k > p
    <3>1. PICK j \in Nat : j = k - p
      BY <2>1, <2>3
    <3>2. j \in 1 .. REC_LEN /\ p + j = k
      BY <1>2, <1>3, <2>1, <2>3, <3>1
    <3>3. (p + j) % REC_LEN = 1
      BY <1>3, <3>2 DEF ReadStart
    <3>4. j = 1
      BY <3>2, <3>3, Multiple
    <3>5. QED
      BY <3>2, <3>4
  <2>4. QED
    BY <2>1, <2>2, <2>3
<1>4. ASSUME NEW k \in 1 .. size, ReadStart(k), k > 1, k + REC_LEN <= size,
             k + REC_LEN <= p + n + 1
      PROVE  newlines \cap (k .. k + REC_LEN - 1) # {}
  <2>1. CASE k + REC_LEN <= p + 1
    BY <1>4, <2>1 DEF FitsUpTo
  <2>2. CASE ~(k + REC_LEN <= p + 1)
    <3>1. k \in Nat /\ k <= p + 1 /\ p + 1 < k + REC_LEN
      BY <1>1, <1>2, <1>4, <2>2
    <3>2. k = p + 1
      BY <1>4, <3>1, OneReadStart
    <3>3. k .. k + REC_LEN - 1 = p + 1 .. p + REC_LEN
      BY <1>2, <3>2
    <3>4. p + n # size /\ p # 0
      BY <1>1, <1>2, <1>4, <3>2
    <3>5. QED
      BY <3>3, <3>4
  <2>3. QED
    BY <2>1, <2>2
<1>5. QED
  BY <1>3, <1>4 DEF FitsUpTo

LEMMA NewlineMisfits ==
  ASSUME FileInv, NEW p \in Nat, p % REC_LEN = 0, p + 1 \in newlines, p + 1 # size
  PROVE  ~Fits
<1>1. 1 \in 1 .. REC_LEN
  BY BufferAssumption
<1>2. (p + 1) % REC_LEN = 1
  BY <1>1, Multiple
<1>3. QED
  BY <1>2 DEF Fits, ReadStart

LEMMA LongReadMisfits ==
  ASSUME FileInv, NEW p \in Nat, p > 0, p % REC_LEN = 0, p + REC_LEN < size,
         newlines \cap (p + 1 .. p + REC_LEN) = {}
  PROVE  ~Fits
<1>1. 1 \in 1 .. REC_LEN /\ REC_LEN \in Nat /\ size \in Nat
  BY BufferAssumption DEF FileInv
<1>2. (p + 1) % REC_LEN = 1
  BY <1>1, Multiple
<1>3. p + 1 \in 1 .. size /\ p + 1 > 1 /\ (p + 1) + REC_LEN <= size
  BY <1>1
<1>4. p + 1 .. (p + 1) + REC_LEN - 1 = p + 1 .. p + REC_LEN
  BY <1>1
<1>5. PICK k : k = p + 1
  OBVIOUS
<1>6. k \in 1 .. size /\ ReadStart(k) /\ k > 1 /\ k + REC_LEN <= size
      /\ newlines \cap (k .. k + REC_LEN - 1) = {}
  BY <1>2, <1>3, <1>4, <1>5 DEF ReadStart
<1>7. QED
  BY <1>6 DEF Fits

------------------------------------------------------------------------------
(* LineReader: between two calls of read_line                               *)

IsEmpty(a) == a.off = 0 /\ a.len = 0
UsedUp(a) == a.off + a.len = Len(a.data)

\* Nothing was read.
Fresh(a, r, p) == IsEmpty(a) /\ p = 0 /\ r = <<>>

\* The lines up to a newline in the active buffer have been copied.
Running(a, r, p) ==
  \E base \in 0 .. size :
    LET nl == base + a.off + a.len + 1
    IN  /\ base % REC_LEN = 0 /\ a.data = Chunk(base) /\ p = base + Len(a.data)
        /\ a.len \in Nat /\ a.off + a.len \in 1 .. Len(a.data) - 1
        /\ nl \in newlines /\ Prefix(r, nl + 1) /\ FitsUpTo(p)

\* All lines have been copied.
Ended(a, r, p) == p = size /\ r = Expected /\ Fits /\ (IsEmpty(a) \/ UsedUp(a))

\* The file does not fit, and what comes next is not at a line: the end of the file,
\* before all lines are copied, or a length that wraps.
Doomed(a, r, p) ==
  /\ ~Fits /\ ~IsEmpty(a) /\ UsedUp(a)
  /\ p = size => Len(r) < Cardinality(LineStarts)

\* Of each read only the first newline has been taken.
OnlyNewlines(a, r, p) ==
  /\ ~Fits /\ IsEmpty(a) /\ 1 .. p \subseteq newlines
  /\ Len(r) < p /\ \A n \in 1 .. Len(r) : r[n] = <<>>

\* The byte x was read over.
LostByte(x, a, r, p) ==
  /\ x <= p /\ \A n \in 1 .. Len(r) : x \notin Range(r[n])
  /\ IsEmpty(a) \/ x \notin Range(a.data)

Lost(a, r, p) == ~Fits /\ \E x \in LineStarts \ newlines : LostByte(x, a, r, p)

\* A record has been written that is none of the file.
Wrong(r) == ~Fits /\ \E n \in 1 .. Len(r) : n \notin DOMAIN Expected \/ r[n] # Expected[n]

BetweenReads(a, r, p) ==
  \/ Fresh(a, r, p) \/ Running(a, r, p) \/ Ended(a, r, p) \/ Doomed(a, r, p)
  \/ OnlyNewlines(a, r, p) \/ Lost(a, r, p) \/ Wrong(r)

CopiedInv ==
  /\ pc = "read_line" => BetweenReads(active, records, pos)
  /\ pc = "add_line" =>
       BetweenReads(IF inactive.len > 0 THEN inactive ELSE active,
                    Append(records, Copied(active, inactive)), pos)
  /\ pc = "done" => (records = Expected <=> Fits)

------------------------------------------------------------------------------
(* LineReader: taking a line                                                *)

\* The part of the record in a buffer is that behind the first bytes of the file.
Follow(b, from) == \A k \in 1 .. b.len : b.data[b.off + k] = from + k

\* The bytes of a line in one buffer, or in both, make its record.
LEMMA LineRecord ==
  ASSUME FileInv, NEW a, BufferInv(a), a.len \in Nat, NEW b, BufferInv(b), b.len \in Nat,
         NEW q \in LineStarts, NEW from \in Nat, q = from + 1, Follow(a, from),
         NEW more, more = from + a.len, Follow(b, more),
         LineEnd(q) = more + b.len
  PROVE  Copied(a, b) = LineAt(q)
<1>1. PICK c : c = Copied(a, b)
  OBVIOUS
<1>2. PICK m \in Nat : m = a.len
  OBVIOUS
<1>3. PICK n \in Nat : n = b.len
  OBVIOUS
<1>4. a.len # Wrapped /\ Lrecl \in Nat
  BY BufferAssumption DEF Wrapped
<1>5. /\ c \in Seq(1 .. size) /\ Len(c) \in Nat
      /\ Len(c) = IF a.len + b.len > Lrecl THEN Lrecl ELSE a.len + b.len
      /\ \A k \in 1 .. Len(c) : c[k] = IF k <= a.len THEN a.data[a.off + k]
                                                     ELSE b.data[b.off + (k - a.len)]
  BY <1>1, <1>4, CopiedIs
<1>6. LineEnd(q) - q + 1 = m + n
  BY <1>2, <1>3
<1>7. Len(c) = Cut(LineEnd(q) - q + 1)
  BY <1>2, <1>3, <1>5, <1>6 DEF Cut
<1>8. ASSUME NEW k \in 1 .. Len(c) PROVE c[k] = q + k - 1
  <2>1. k \in Nat /\ 1 <= k /\ k <= m + n
    BY <1>2, <1>3, <1>4, <1>5
  <2>2. CASE k <= m
    <3>1. c[k] = a.data[a.off + k] /\ k \in 1 .. a.len
      BY <1>2, <1>5, <2>1, <2>2
    <3>2. a.data[a.off + k] = from + k
      BY <3>1 DEF Follow
    <3>3. QED
      BY <2>1, <3>1, <3>2
  <2>3. CASE k > m
    <3>1. PICK j \in Nat : j = k - m
      BY <2>1, <2>3
    <3>2. c[k] = b.data[b.off + j] /\ j \in 1 .. b.len
      <4>1. ~(k <= a.len) /\ k - a.len = j
        BY <1>2, <2>1, <2>3, <3>1
      <4>2. j \in 1 .. n
        BY <2>1, <2>3, <3>1
      <4>3. QED
        BY <1>3, <1>5, <4>1, <4>2
    <3>3. b.data[b.off + j] = more + j
      BY <3>2 DEF Follow
    <3>4. QED
      BY <1>2, <2>1, <3>1, <3>2, <3>3
  <2>4. QED
    BY <2>1, <2>2, <2>3
<1>9. QED
  BY <1>1, <1>5, <1>7, <1>8, IsLine

\* The next record starts at o in the data read from base, or behind the newline
\* that ends the file.
AtLine(base, d, o, r, p) ==
  /\ base \in 0 .. size /\ base % REC_LEN = 0 /\ d = Chunk(base) /\ p = base + Len(d)
  /\ o \in Nat /\ o <= Len(d) /\ d # <<>>
  /\ o >= 2 \/ (o = 0 /\ base = 0 /\ d[1] \notin newlines)
  /\ base + o + 1 \in LineStarts \/ (o = Len(d) /\ p = size /\ size \in newlines)
  /\ r \in Seq(RecordSet) /\ Prefix(r, base + o + 1) /\ FitsUpTo(p)

LEMMA AtLineTypes ==
  ASSUME FileInv, NEW base, NEW d, NEW o, NEW r, NEW p, AtLine(base, d, o, r, p)
  PROVE  /\ size \in Nat /\ base \in Nat /\ o \in Nat /\ p \in Nat /\ p <= size
         /\ d \in Seq(1 .. size) /\ Len(d) \in Nat /\ Len(d) <= REC_LEN /\ 0 < Len(d)
         /\ \A k \in 1 .. Len(d) : d[k] = base + k
         /\ p # size => Len(d) = REC_LEN /\ p % REC_LEN = 0
<1>1. size \in Nat /\ base \in 0 .. size /\ d = Chunk(base) /\ p = base + Len(d) /\ o \in Nat
      /\ base % REC_LEN = 0 /\ d # <<>>
  BY BufferAssumption DEF AtLine, FileInv
<1>2. /\ d \in Seq(1 .. size) /\ Len(d) \in Nat /\ Len(d) <= REC_LEN
      /\ \A k \in 1 .. Len(d) : d[k] = base + k
      /\ (d = <<>> <=> base = size) /\ (Len(d) = 0 <=> base = size)
      /\ base + Len(d) <= size
      /\ (base + Len(d) # size => Len(d) = REC_LEN)
  BY <1>1, ReadFrom
<1>3. ASSUME p # size PROVE p % REC_LEN = 0
  <2>1. AtRead(base)
    BY <1>1 DEF AtRead
  <2>2. AtRead(base + Len(d))
    BY <1>1, <2>1, ReadOnIs
  <2>3. QED
    BY <1>1, <1>3, <2>2 DEF AtRead
<1>4. QED
  BY <1>1, <1>2, <1>3

LEMMA FullLineKept ==
  ASSUME FileInv, NEW base, NEW d, NEW o, NEW r, NEW p, AtLine(base, d, o, r, p),
         NEW i \in Nat, EndsIn(o, d, i), NEW x, BufferInv(Buf(0, 0, x)),
         NEW a, a = Buf(o, i - o, d),
         NEW c, c = Copied(a, Buf(0, 0, x))
  PROVE  Running(a, Append(r, c), p)
<1>1. /\ size \in Nat /\ base \in Nat /\ o \in Nat /\ p \in Nat /\ p <= size
      /\ d \in Seq(1 .. size) /\ Len(d) \in Nat /\ Len(d) <= REC_LEN /\ 0 < Len(d)
      /\ \A k \in 1 .. Len(d) : d[k] = base + k
  BY AtLineTypes
<1>2. o <= i /\ i < Len(d) /\ d[i + 1] \in newlines /\ \A k \in o + 1 .. i : d[k] \notin newlines
  BY DEF EndsIn
<1>3. PICK q : q = base + o + 1
  OBVIOUS
<1>4. q \in LineStarts /\ q \in Nat
  BY <1>1, <1>2, <1>3 DEF AtLine
<1>5. base + i + 1 \in newlines
  <2>1. i + 1 \in 1 .. Len(d)
    BY <1>1, <1>2
  <2>2. QED
    BY <1>1, <1>2, <2>1
<1>6. LineEnd(q) = base + i
  <2>1. ASSUME NEW k \in q .. base + i PROVE k \notin newlines
    <3>1. PICK j \in Nat : j = k - base
      BY <1>1, <1>3
    <3>2. j \in o + 1 .. i /\ j \in 1 .. Len(d) /\ base + j = k
      BY <1>1, <1>2, <1>3, <3>1
    <3>3. QED
      BY <1>1, <1>2, <3>2
  <2>2. q - 1 <= base + i /\ base + i \in Nat
    BY <1>1, <1>2, <1>3
  <2>3. QED
    BY <1>4, <1>5, <2>1, <2>2, LineEndAt
<1>7. PICK m \in Nat : m = i - o
  BY <1>1, <1>2
<1>11. a.off = o /\ a.len = m /\ a.data = d
  BY <1>7 DEF Buf
<1>8. BufferInv(a)
  BY <1>1, <1>2, <1>7 DEF BufferInv, Buf
<1>9. c = LineAt(q)
  <2>1. PICK b : b = Buf(0, 0, x)
    OBVIOUS
  <2>2. BufferInv(b) /\ b.len = 0
    BY <2>1 DEF Buf
  <2>3. PICK from \in Nat : from = base + o
    BY <1>1
  <2>4. Follow(a, from)
    <3>1. ASSUME NEW k \in 1 .. m PROVE d[o + k] = from + k
      <4>1. o + k \in 1 .. Len(d)
        BY <1>1, <1>2, <1>7
      <4>2. d[o + k] = base + (o + k)
        BY <1>1, <4>1
      <4>3. QED
        BY <1>1, <2>3, <4>2
    <3>2. QED
      BY <1>11, <3>1 DEF Follow
  <2>5. PICK more \in Nat : more = from + a.len
    BY <1>11, <2>3
  <2>6. Follow(b, more)
    BY <2>2 DEF Follow
  <2>7. q = from + 1 /\ LineEnd(q) = more + b.len /\ b.len \in Nat /\ a.len \in Nat
    BY <1>1, <1>3, <1>6, <1>7, <1>11, <2>2, <2>3, <2>5
  <2>8. QED
    BY <1>4, <1>8, <2>1, <2>2, <2>4, <2>5, <2>6, <2>7, LineRecord
<1>10. Prefix(Append(r, c), base + i + 2)
  <2>1. r \in Seq(RecordSet) /\ Prefix(r, q)
    BY <1>3 DEF AtLine
  <2>2. Prefix(Append(r, LineAt(q)), LineEnd(q) + 2)
    BY <1>4, <2>1, PrefixNext
  <2>3. QED
    BY <1>6, <1>9, <2>2
<1>12. i >= 1
  <2>1. CASE o >= 2
    BY <1>1, <1>2, <2>1
  <2>2. CASE o = 0 /\ d[1] \notin newlines
    BY <1>1, <1>2, <2>2
  <2>3. QED
    BY <2>1, <2>2 DEF AtLine
<1>13. a.off + a.len = i /\ base + a.off + a.len + 1 = base + i + 1 /\ (base + i + 1) + 1 = base + i + 2
  BY <1>1, <1>7, <1>11
<1>14. a.off + a.len \in 1 .. Len(a.data) - 1
  <2>1. i \in 1 .. Len(d) - 1
    BY <1>1, <1>2, <1>12
  <2>2. QED
    BY <1>11, <1>13, <2>1
<1>15. base \in 0 .. size /\ base % REC_LEN = 0 /\ d = Chunk(base) /\ p = base + Len(d) /\ FitsUpTo(p)
  BY DEF AtLine
<1>16. PICK nl : nl = base + a.off + a.len + 1
  OBVIOUS
<1>17. nl \in newlines /\ Prefix(Append(r, c), nl + 1) /\ a.len \in Nat
  BY <1>5, <1>10, <1>11, <1>13, <1>16
<1>18. QED
  BY <1>11, <1>14, <1>15, <1>16, <1>17 DEF Running

LEMMA ScatteredKept ==
  ASSUME FileInv, NEW base, NEW d, NEW o, NEW r, NEW p, AtLine(base, d, o, r, p),
         GoesOn(o, d), NEW e, e = Chunk(p), NEW t, t = TailLength(e),
         NEW a, a = Buf(o, Len(d) - o, d), NEW b, b = Buf(0, t, e)
  PROVE  BetweenReads(IF t > 0 THEN b ELSE a, Append(r, Copied(a, b)), p + Len(e))
<1>1. /\ size \in Nat /\ base \in Nat /\ o \in Nat /\ p \in Nat /\ p <= size
      /\ d \in Seq(1 .. size) /\ Len(d) \in Nat /\ Len(d) <= REC_LEN /\ 0 < Len(d)
      /\ \A k \in 1 .. Len(d) : d[k] = base + k
  BY AtLineTypes
<1>2. p # size => p % REC_LEN = 0
  BY AtLineTypes
<1>3. base \in 0 .. size /\ base % REC_LEN = 0 /\ d = Chunk(base) /\ p = base + Len(d)
      /\ o <= Len(d) /\ (o = 0 \/ o >= 2)
  BY DEF AtLine
<1>4. /\ e \in Seq(1 .. size) /\ Len(e) \in Nat /\ Len(e) <= REC_LEN
      /\ \A k \in 1 .. Len(e) : e[k] = p + k
      /\ (Len(e) = 0 <=> p = size) /\ p + Len(e) <= size
      /\ (p + Len(e) # size => Len(e) = REC_LEN)
  <2>1. p \in 0 .. size
    BY <1>1
  <2>2. QED
    BY <2>1, ReadFrom
<1>5. /\ t \in Nat /\ t <= Len(e) /\ \A k \in 1 .. t : e[k] \notin newlines
      /\ t < Len(e) => e[t + 1] \in newlines
  <2>1. e \in Seq(Nat)
    BY <1>4, InNat
  <2>2. QED
    BY <2>1, TailIs
<1>6. \A k \in p + 1 .. p + t : k \notin newlines
  <2>1. ASSUME NEW k \in p + 1 .. p + t PROVE k \notin newlines
    <3>1. PICK j \in Nat : j = k - p
      BY <1>1
    <3>2. j \in 1 .. t /\ j \in 1 .. Len(e) /\ p + j = k
      <4>1. p \in Nat /\ t \in Nat /\ Len(e) \in Nat /\ t <= Len(e)
        BY <1>1, <1>4, <1>5
      <4>2. j \in 1 .. t /\ p + j = k
        BY <3>1, <4>1
      <4>3. QED
        BY <4>1, <4>2
    <3>3. e[j] = p + j /\ e[j] \notin newlines
      BY <1>4, <1>5, <3>2
    <3>4. QED
      BY <3>2, <3>3
  <2>2. QED
    BY <2>1
<1>7. t < Len(e) => p + t + 1 \in newlines
  <2>1. ASSUME t < Len(e) PROVE p + t + 1 \in newlines
    <3>1. t + 1 \in 1 .. Len(e) /\ e[t + 1] \in newlines
      BY <1>4, <1>5, <2>1
    <3>2. e[t + 1] = p + (t + 1)
      BY <1>4, <3>1
    <3>3. p + (t + 1) = p + t + 1
      BY <1>1, <1>5
    <3>4. QED
      BY <3>1, <3>2, <3>3
  <2>2. QED
    BY <2>1
<1>8. PICK rec : rec = Copied(a, b)
  OBVIOUS
<1>9. PICK m \in Nat : m = Len(d) - o
  <2>1. Len(d) - o \in Nat
    BY <1>1, <1>3
  <2>2. QED
    BY <2>1
<1>10. a.off = o /\ a.len = m /\ a.data = d /\ b.off = 0 /\ b.len = t /\ b.data = e
  BY <1>9 DEF Buf
<1>11. BufferInv(a) /\ BufferInv(b)
  <2>1. BufferInv(a)
    BY <1>1, <1>3, <1>9, <1>10 DEF BufferInv, Buf
  <2>2. BufferInv(b)
    BY <1>4, <1>5, <1>10 DEF BufferInv, Buf
  <2>3. QED
    BY <2>1, <2>2
<1>12. PICK q \in Nat : q = base + o + 1
  BY <1>1
<1>13. r \in Seq(RecordSet) /\ Prefix(r, q) /\ FitsUpTo(p)
       /\ (q \in LineStarts \/ (o = Len(d) /\ p = size /\ size \in newlines))
  BY <1>12 DEF AtLine
<1>14. CASE q \notin LineStarts
  <2>1. o = Len(d) /\ p = size /\ size \in newlines /\ t = 0 /\ m = 0
    BY <1>1, <1>4, <1>5, <1>9, <1>13, <1>14
  <2>2. rec = <<>>
    <3>1. a.len + b.len = 0 /\ a.len # Wrapped /\ b.len \in Nat
      BY <1>10, <2>1 DEF Wrapped
    <3>2. rec \in Seq(1 .. size) /\ Len(rec) = IF a.len + b.len > Lrecl THEN Lrecl ELSE a.len + b.len
      BY <1>8, <1>11, <3>1, CopiedIs
    <3>3. Len(rec) = 0
      BY <3>1, <3>2, BufferAssumption
    <3>4. QED
      BY <3>2, <3>3
  <2>3. r = Lines
    <3>1. size < q
      BY <1>1, <1>3, <1>12, <2>1
    <3>2. QED
      BY <1>13, <3>1, PrefixAll
  <2>4. ~ReadStart(size)
    <3>1. o >= 2 /\ o \in 1 .. REC_LEN /\ base + o = size
      BY <1>1, <1>3, <2>1
    <3>2. (base + o) % REC_LEN # 1
      BY <1>1, <1>3, <3>1, Multiple
    <3>3. QED
      BY <3>1, <3>2 DEF ReadStart
  <2>5. Append(r, rec) = Expected
    BY <2>1, <2>2, <2>3, <2>4 DEF Expected, EmptyRecordAdded
  <2>6. Fits
    BY <1>13, <2>1, FitsAll
  <2>7. p + Len(e) = size
    BY <1>1, <1>4, <2>1
  <2>8. UsedUp(a)
    BY <1>1, <1>10, <2>1 DEF UsedUp
  <2>9. Ended(a, Append(r, rec), p + Len(e))
    BY <2>5, <2>6, <2>7, <2>8 DEF Ended
  <2>10. QED
    BY <1>8, <2>1, <2>9 DEF BetweenReads
<1>18. PICK x : x = Append(r, rec)
  OBVIOUS
<1>17. CASE t > 0 /\ t = Len(e) /\ p + t # size
  <2>1. t = REC_LEN /\ p # size /\ p + REC_LEN < size /\ p > 0
    <3>1. p + Len(e) # size /\ p + Len(e) <= size /\ Len(e) = REC_LEN
      BY <1>4, <1>17
    <3>2. REC_LEN \in Nat /\ 0 < REC_LEN
      BY BufferAssumption
    <3>3. p > 0
      BY <1>1, <1>3
    <3>4. QED
      BY <1>1, <1>17, <3>1, <3>2, <3>3
  <2>2. newlines \cap (p + 1 .. p + REC_LEN) = {}
    BY <1>6, <2>1
  <2>3. ~Fits
    BY <1>1, <1>2, <2>1, <2>2, LongReadMisfits
  <2>4. ~IsEmpty(b) /\ UsedUp(b)
    BY <1>4, <1>10, <1>17 DEF IsEmpty, UsedUp
  <2>5. Doomed(b, x, p + Len(e))
    BY <1>17, <2>3, <2>4 DEF Doomed
  <2>6. QED
    BY <1>8, <1>17, <1>18, <2>5 DEF BetweenReads
<1>15. CASE q \in LineStarts /\ (t < Len(e) \/ p + t = size)
  <2>1. LineEnd(q) = p + t
    <3>1. q - 1 <= p + t /\ p + t \in Nat
      BY <1>1, <1>3, <1>5, <1>12
    <3>2. ASSUME NEW k \in q .. p + t PROVE k \notin newlines
      <4>1. CASE k > p
        <5>1. k \in p + 1 .. p + t
          BY <1>1, <1>12, <4>1
        <5>2. QED
          BY <1>6, <5>1
      <4>2. CASE k <= p
        <5>1. PICK j \in Nat : j = k - base
          BY <1>1, <1>12
        <5>2. j \in o + 1 .. Len(d) /\ j \in 1 .. Len(d) /\ base + j = k
          BY <1>1, <1>3, <1>12, <4>2, <5>1
        <5>3. d[j] = base + j /\ d[j] \notin newlines
          BY <1>1, <5>2 DEF GoesOn
        <5>4. QED
          BY <5>2, <5>3
      <4>3. QED
        BY <1>1, <1>12, <4>1, <4>2
    <3>3. p + t = size \/ p + t + 1 \in newlines
      BY <1>7, <1>15
    <3>4. QED
      BY <1>15, <3>1, <3>2, <3>3, LineEndAt
  <2>2. rec = LineAt(q)
    <3>1. PICK from \in Nat : from = base + o
      BY <1>1
    <3>2. Follow(a, from)
      <4>1. ASSUME NEW k \in 1 .. m PROVE d[o + k] = from + k
        <5>1. o + k \in 1 .. Len(d)
          BY <1>1, <1>3, <1>9
        <5>2. d[o + k] = base + (o + k)
          BY <1>1, <5>1
        <5>3. QED
          BY <1>1, <3>1, <5>2
      <4>2. QED
        BY <1>10, <4>1 DEF Follow
    <3>3. PICK more \in Nat : more = from + a.len
      BY <1>9, <1>10, <3>1
    <3>4. more = p
      BY <1>1, <1>3, <1>9, <1>10, <3>1, <3>3
    <3>5. Follow(b, more)
      <4>1. ASSUME NEW k \in 1 .. t PROVE e[0 + k] = p + k
        <5>1. k \in 1 .. Len(e) /\ 0 + k = k
          BY <1>4, <1>5
        <5>2. QED
          BY <1>4, <5>1
      <4>2. QED
        BY <1>10, <3>4, <4>1 DEF Follow
    <3>6. q = from + 1 /\ LineEnd(q) = more + b.len /\ a.len \in Nat /\ b.len \in Nat
      BY <1>5, <1>9, <1>10, <1>12, <2>1, <3>1, <3>4
    <3>7. QED
      BY <1>8, <1>11, <1>15, <3>2, <3>3, <3>5, <3>6, LineRecord
  <2>3. Prefix(Append(r, rec), p + t + 2)
    BY <1>13, <1>15, <2>1, <2>2, PrefixNext
  <2>10. x \in Seq(RecordSet) /\ Prefix(x, p + t + 2) /\ p + t + 2 \in Nat
    <3>1. rec \in RecordSet
      BY <1>15, <2>2, LineIs DEF RecordSet
    <3>2. QED
      BY <1>1, <1>5, <1>13, <2>3, <1>18, <3>1
  <2>4. CASE p + t = size
    <3>1. t = Len(e) /\ p + Len(e) = size
      <4>1. CASE t < Len(e)
        BY <1>1, <1>4, <1>5, <2>4, <4>1
      <4>2. QED
        BY <1>4, <1>5, <2>4, <4>1
    <3>2. x = Lines
      <4>1. size < p + t + 2
        BY <1>1, <2>4
      <4>2. QED
        BY <2>10, <4>1, PrefixAll
    <3>3. size \notin newlines
      <4>1. CASE t > 0
        <5>1. size \in p + 1 .. p + t
          BY <1>1, <1>5, <2>4, <4>1
        <5>2. QED
          BY <1>6, <5>1
      <4>2. CASE t = 0
        <5>1. Len(d) \in o + 1 .. Len(d) /\ Len(d) \in 1 .. Len(d)
          <6>1. q <= size
            BY <1>15 DEF LineStarts
          <6>2. QED
            BY <1>1, <1>3, <1>12, <2>4, <4>2, <6>1
        <5>2. d[Len(d)] = base + Len(d) /\ d[Len(d)] \notin newlines
          BY <1>1, <5>1 DEF GoesOn
        <5>3. base + Len(d) = size
          BY <1>1, <1>3, <2>4, <4>2
        <5>4. QED
          BY <5>2, <5>3
      <4>3. QED
        BY <1>5, <4>1, <4>2
    <3>4. x = Expected
      BY <3>2, <3>3 DEF Expected, EmptyRecordAdded
    <3>5. FitsUpTo(p + Len(e))
      <4>1. CASE Len(e) = 0
        <5>1. p + Len(e) = p
          BY <1>1, <4>1
        <5>2. QED
          BY <1>13, <5>1
      <4>2. CASE Len(e) > 0
        <5>1. p + 1 \in p + 1 .. p + t /\ p # size
          BY <1>1, <1>4, <1>5, <3>1, <4>2
        <5>2. p + 1 \notin newlines /\ p % REC_LEN = 0
          BY <1>2, <1>6, <5>1
        <5>3. QED
          BY <1>1, <1>4, <1>13, <3>1, <5>2, FitsNext
      <4>3. QED
        BY <1>4, <4>1, <4>2
    <3>6. Fits
      BY <3>1, <3>5, FitsAll
    <3>7. UsedUp(a) /\ UsedUp(b)
      BY <1>1, <1>3, <1>4, <1>9, <1>10, <3>1 DEF UsedUp
    <3>8. Ended(IF t > 0 THEN b ELSE a, x, p + Len(e))
      BY <3>1, <3>4, <3>6, <3>7 DEF Ended
    <3>9. QED
      BY <1>8, <1>18, <3>8 DEF BetweenReads
  <2>5. CASE t = 0 /\ p # size
    <3>1. p + 1 \in newlines /\ p % REC_LEN = 0 /\ p + 1 <= size /\ ~(t > 0)
      <4>1. Len(e) > 0 /\ p + 1 <= size
        BY <1>1, <1>4, <2>5
      <4>2. p + t + 1 = p + 1 /\ t < Len(e)
        BY <1>1, <2>5, <4>1
      <4>3. QED
        BY <1>2, <1>7, <2>5, <4>1, <4>2
    <3>2. UsedUp(a)
      BY <1>1, <1>3, <1>9, <1>10 DEF UsedUp
    <3>3. CASE p + 1 = size
      <4>1. p + Len(e) = size
        BY <1>1, <1>4, <2>5, <3>3
      <4>2. x = Lines
        <5>1. size < p + t + 2
          BY <1>1, <2>5, <3>3
        <5>2. QED
          BY <2>10, <5>1, PrefixAll
      <4>3. ReadStart(size)
        <5>1. 1 \in 1 .. REC_LEN
          BY BufferAssumption
        <5>2. (p + 1) % REC_LEN = 1
          BY <1>1, <3>1, <5>1, Multiple
        <5>3. QED
          BY <3>3, <5>2 DEF ReadStart
      <4>4. x = Expected
        BY <4>2, <4>3 DEF Expected, EmptyRecordAdded
      <4>5. FitsUpTo(p + Len(e))
        BY <1>1, <1>4, <1>13, <3>1, <3>3, <4>1, FitsNext
      <4>6. Fits
        BY <4>1, <4>5, FitsAll
      <4>7. Ended(a, x, p + Len(e))
        BY <3>2, <4>1, <4>4, <4>6 DEF Ended
      <4>8. QED
        BY <1>8, <1>18, <3>1, <4>7 DEF BetweenReads
    <3>4. CASE p + 1 # size
      <4>1. ~Fits
        BY <1>1, <3>1, <3>4, NewlineMisfits
      <4>2. ~IsEmpty(a)
        BY <1>1, <1>3, <1>9, <1>10 DEF IsEmpty
      <4>3. Len(x) < Cardinality(LineStarts)
        <5>1. PICK y \in Nat : y = p + 2
          BY <1>1
        <5>2. y \in LineStarts
          <6>1. y \in 1 .. size /\ y - 1 = p + 1
            BY <1>1, <3>1, <3>4, <5>1
          <6>2. QED
            BY <3>1, <6>1 DEF LineStarts
        <5>3. Len(x) = Cardinality(StartsBefore(y))
          <6>1. p + t + 2 = y
            BY <1>1, <2>5, <5>1
          <6>2. QED
            BY <2>10, <6>1 DEF Prefix
        <5>4. /\ Cardinality(StartsBefore(y)) \in Nat
              /\ Cardinality(StartsUpTo(y)) = Cardinality(StartsBefore(y)) + 1
              /\ Cardinality(StartsUpTo(y)) \in 1 .. Cardinality(LineStarts)
          BY <5>2, BeforeAndUpTo
        <5>5. Cardinality(LineStarts) \in Nat
          BY StartsAre
        <5>6. QED
          BY <5>3, <5>4, <5>5
      <4>4. Doomed(a, x, p + Len(e))
        BY <3>2, <4>1, <4>2, <4>3 DEF Doomed
      <4>5. QED
        BY <1>8, <1>18, <3>1, <4>4 DEF BetweenReads
    <3>5. QED
      BY <3>3, <3>4
  <2>7. CASE t > 0 /\ t < Len(e)
    <3>1. PICK nl \in Nat : nl = p + t + 1
      BY <1>1, <1>5
    <3>2. nl \in newlines
      BY <1>7, <2>7, <3>1
    <3>3. p # size /\ p % REC_LEN = 0 /\ p \in 0 .. size
      BY <1>1, <1>2, <1>4, <1>5, <2>7
    <3>4. p + 1 \notin newlines
      <4>1. p + 1 \in p + 1 .. p + t
        BY <1>1, <1>5, <2>7
      <4>2. QED
        BY <1>6, <4>1
    <3>5. newlines \cap (p + 1 .. p + REC_LEN) # {}
      <4>1. nl \in p + 1 .. p + REC_LEN
        <5>1. REC_LEN \in Nat
          BY BufferAssumption
        <5>2. nl <= p + REC_LEN /\ p + 1 <= nl
          <6>1. t \in Nat /\ t < Len(e) /\ Len(e) \in Nat /\ Len(e) <= REC_LEN
            BY <1>4, <1>5, <2>7
          <6>2. p \in Nat
            BY <1>1
          <6>3. QED
            BY <3>1, <5>1, <6>1, <6>2
        <5>3. QED
          BY <1>1, <5>1, <5>2
      <4>2. QED
        BY <3>2, <4>1
    <3>6. FitsUpTo(p + Len(e))
      BY <1>1, <1>4, <1>13, <3>3, <3>4, <3>5, FitsNext
    <3>7. p + b.off + b.len + 1 = nl /\ nl + 1 = p + t + 2
      <4>1. p \in Nat /\ t \in Nat
        BY <1>1, <1>5
      <4>2. p + 0 + t + 1 = nl /\ nl + 1 = p + t + 2
        BY <3>1, <4>1
      <4>3. QED
        BY <1>10, <4>2
    <3>8. b.data = Chunk(p) /\ b.len \in Nat /\ b.off + b.len \in 1 .. Len(b.data) - 1
      <4>1. t \in 1 .. Len(e) - 1 /\ 0 + t = t
        BY <1>4, <1>5, <2>7
      <4>2. QED
        BY <1>5, <1>10, <4>1
    <3>9. Prefix(x, nl + 1)
      BY <2>10, <3>7
    <3>10. p + Len(e) = p + Len(b.data)
      BY <1>10
    <3>11. Running(b, x, p + Len(e))
      BY <3>2, <3>3, <3>6, <3>7, <3>8, <3>9, <3>10 DEF Running
    <3>12. QED
      BY <1>8, <2>7, <1>18, <3>11 DEF BetweenReads
  <2>8. QED
    BY <1>1, <1>4, <1>5, <1>15, <2>4, <2>5, <2>7
<1>16. QED
  <2>1. t < Len(e) \/ t = Len(e)
    BY <1>4, <1>5
  <2>2. t > 0 \/ t = 0
    BY <1>5
  <2>3. t = 0 /\ t = Len(e) => p + t = size
    BY <1>1, <1>4
  <2>4. QED
    BY <1>14, <1>15, <1>17, <2>1, <2>2, <2>3

LEMMA NoGarbage == ASSUME FileInv, NEW s \in Seq(1 .. size) PROVE s # Garbage
<1>1. ASSUME s = Garbage PROVE FALSE
  <2>1. Len(s) = 1 /\ s[1] = 0 /\ 1 \in 1 .. Len(s)
    BY <1>1 DEF Garbage
  <2>2. s[1] \in 1 .. size
    BY <2>1, ElementOfSeq
  <2>3. QED
    BY <2>1, <2>2
<1>2. QED
  BY <1>1

\* No line holds what lies behind the data of a buffer.
LEMMA ExpectedClean ==
  ASSUME FileInv, NEW n \in DOMAIN Expected
  PROVE  Expected[n] # Garbage
<1>1. PICK m : m = Cardinality(LineStarts)
  OBVIOUS
<1>2. PICK x : x = Lines
  OBVIOUS
<1>3. /\ m \in Nat /\ x \in Seq(RecordSet) /\ Len(x) = m /\ DOMAIN x = 1 .. m
      /\ \A k \in 1 .. m : x[k] \in Seq(1 .. size)
  BY <1>1, <1>2, StartsAre, LinesAre
<1>4. \A s \in Seq(1 .. size) : s # Garbage
  BY NoGarbage
<1>5. CASE Expected = x
  BY <1>3, <1>4, <1>5
<1>6. CASE Expected = Append(x, <<>>)
  <2>1. PICK y : y = Append(x, <<>>)
    OBVIOUS
  <2>2. <<>> \in RecordSet /\ <<>> # Garbage
    BY DEF RecordSet, Garbage
  <2>3. DOMAIN y = 1 .. m + 1 /\ (\A k \in 1 .. m : y[k] = x[k]) /\ y[m + 1] = <<>>
    BY <1>3, <2>1, <2>2
  <2>4. n \in 1 .. m \/ n = m + 1
    BY <1>3, <1>6, <2>1, <2>3
  <2>5. QED
    BY <1>3, <1>4, <1>6, <2>1, <2>2, <2>3, <2>4
<1>7. QED
  BY <1>2, <1>5, <1>6 DEF Expected

LEMMA NoneBeforeTheFirst ==
  ASSUME FileInv
  PROVE  Prefix(<<>>, 1) /\ FitsUpTo(0) /\ (size > 0 => 1 \in LineStarts)
<1>1. size \in Nat /\ REC_LEN \in Nat /\ \A k \in newlines : k \in Nat /\ 1 <= k
  BY BufferAssumption DEF FileInv
<1>2. \A s \in LineStarts : s \in 1 .. size
  BY DEF LineStarts
<1>3. StartsBefore(1) = {}
  BY <1>1, <1>2 DEF StartsBefore
<1>4. Prefix(<<>>, 1)
  BY <1>3, FS_EmptySet DEF Prefix
<1>5. FitsUpTo(0)
  <2>1. \A n \in newlines : ~(n <= 0)
    BY <1>1
  <2>2. \A n \in 1 .. size : n > 1 => ~(n + REC_LEN <= 0 + 1)
    BY <1>1
  <2>3. QED
    BY <2>1, <2>2 DEF FitsUpTo
<1>6. size > 0 => 1 \in LineStarts
  BY <1>1 DEF LineStarts
<1>7. QED
  BY <1>4, <1>5, <1>6

\* A file that starts with newlines starts with empty lines.
LEMMA EmptyLines ==
  ASSUME FileInv, NEW p \in 0 .. size, 1 .. p \subseteq newlines
  PROVE  /\ p <= Cardinality(LineStarts)
         /\ \A n \in 1 .. p : Expected[n] = <<>>
<1>1. size \in Nat /\ p \in Nat /\ p <= size /\ \A s \in LineStarts : s \in 1 .. size
  BY BufferAssumption DEF FileInv, LineStarts
<1>2. \A k \in 1 .. p : k \in newlines
  OBVIOUS
<1>3. ASSUME NEW k \in 1 .. p PROVE k \in LineStarts
  <2>1. k \in 1 .. size /\ (k = 1 \/ k - 1 \in 1 .. p)
    BY <1>1
  <2>2. QED
    BY <1>2, <2>1 DEF LineStarts
<1>4. p <= Cardinality(LineStarts)
  <2>1. IsFiniteSet(1 .. p) /\ Cardinality(1 .. p) = p
    BY <1>1, FS_Interval
  <2>2. 1 .. p \in SUBSET LineStarts
    BY <1>3
  <2>3. QED
    BY <2>1, <2>2, StartsAre, FS_Subset
<1>5. ASSUME NEW n \in 1 .. p PROVE Expected[n] = <<>>
  <2>1. StartsUpTo(n) = 1 .. n
    <3>1. \A k \in 1 .. n : k \in 1 .. p /\ k <= n
      BY <1>1
    <3>2. \A s \in LineStarts : s <= n => s \in 1 .. n
      BY <1>1
    <3>3. QED
      BY <1>3, <3>1, <3>2 DEF StartsUpTo
  <2>2. Cardinality(StartsUpTo(n)) = n
    BY <1>1, <2>1, FS_Interval
  <2>3. n \in LineStarts /\ n \in 1 .. Cardinality(LineStarts)
    BY <1>3, <2>2, BeforeAndUpTo
  <2>4. Lines[n] = LineAt(n)
    BY <2>2, <2>3, LinesAre
  <2>5. LineEnd(n) = n - 1
    <3>1. PICK e : e = n - 1
      OBVIOUS
    <3>2. e \in Nat /\ n - 1 <= e /\ e + 1 \in newlines /\ \A k \in n .. e : k \notin newlines
      <4>1. e \in Nat /\ e + 1 = n /\ \A k \in n .. e : FALSE
        BY <1>1, <3>1
      <4>2. QED
        BY <1>2, <1>5, <3>1, <4>1
    <3>3. QED
      BY <2>3, <3>1, <3>2, LineEndAt
  <2>6. LineAt(n) = <<>>
    <3>1. PICK x : x = LineAt(n)
      OBVIOUS
    <3>2. x \in Seq(1 .. size) /\ Len(x) = Cut(LineEnd(n) - n + 1)
      BY <2>3, <3>1, LineIs
    <3>3. Len(x) = 0
      BY <1>1, <2>5, <3>2, BufferAssumption DEF Cut
    <3>4. QED
      BY <3>1, <3>2, <3>3
  <2>7. QED
    BY <2>3, <2>4, <2>6, ExpectedAt
<1>6. QED
  BY <1>4, <1>5

LEMMA WrongNext ==
  ASSUME NEW r \in Seq(RecordSet), NEW c, Wrong(r)
  PROVE  r # Expected /\ Wrong(Append(r, c))
<1>1. PICK n \in 1 .. Len(r) : n \notin DOMAIN Expected \/ r[n] # Expected[n]
  BY DEF Wrong
<1>2. Len(r) \in Nat /\ DOMAIN r = 1 .. Len(r)
  OBVIOUS
<1>3. PICK x : x = Append(r, c)
  OBVIOUS
<1>4. Len(x) = Len(r) + 1 /\ x[n] = r[n]
  BY <1>2, <1>3
<1>5. n \in 1 .. Len(x)
  BY <1>2, <1>4
<1>6. Wrong(x)
  BY <1>1, <1>4, <1>5 DEF Wrong
<1>7. QED
  BY <1>1, <1>2, <1>3, <1>6

LEMMA WrongNow ==
  ASSUME NEW r \in Seq(RecordSet), NEW c, ~Fits,
         Len(r) + 1 \in DOMAIN Expected => c # Expected[Len(r) + 1]
  PROVE  Wrong(Append(r, c))
<1>1. Len(r) \in Nat
  OBVIOUS
<1>2. PICK x : x = Append(r, c)
  OBVIOUS
<1>3. PICK n : n = Len(r) + 1
  OBVIOUS
<1>4. Len(x) = n /\ x[n] = c /\ n \in 1 .. Len(x)
  BY <1>1, <1>2, <1>3
<1>5. Wrong(x)
  BY <1>3, <1>4 DEF Wrong
<1>6. QED
  BY <1>2, <1>5

\* What a call of read_line must leave, given r records, the record at o in the data
\* d, from bytes read and the data x in the inactive buffer.
KeptIn(o, d, from, r, x) ==
  /\ \A i \in Nat : EndsIn(o, d, i) =>
       BetweenReads(Buf(o, i - o, d), Append(r, Copied(Buf(o, i - o, d), Buf(0, 0, x))), from)
  /\ GoesOn(o, d) =>
       \A e, t, a, b :
         e = Chunk(from) /\ t = TailLength(e) /\ a = Buf(o, Len(d) - o, d) /\ b = Buf(0, t, e) =>
           IF e = <<>> /\ o > Len(d)
             THEN r = Expected <=> Fits
             ELSE BetweenReads(IF t > 0 THEN b ELSE a, Append(r, Copied(a, b)), from + Len(e))

LEMMA KeptAtLine ==
  ASSUME FileInv, NEW base, NEW d, NEW o, NEW r, NEW p, AtLine(base, d, o, r, p),
         NEW x, BufferInv(Buf(0, 0, x))
  PROVE  KeptIn(o, d, p, r, x)
<1>1. o \in Nat /\ Len(d) \in Nat /\ ~(o > Len(d))
  BY AtLineTypes DEF AtLine
<1>2. ASSUME NEW i \in Nat, EndsIn(o, d, i)
      PROVE  BetweenReads(Buf(o, i - o, d), Append(r, Copied(Buf(o, i - o, d), Buf(0, 0, x))), p)
  <2>1. Running(Buf(o, i - o, d), Append(r, Copied(Buf(o, i - o, d), Buf(0, 0, x))), p)
    BY <1>2, FullLineKept
  <2>2. QED
    BY <2>1 DEF BetweenReads
<1>3. ASSUME GoesOn(o, d), NEW e, NEW t, NEW a, NEW b,
             e = Chunk(p), t = TailLength(e), a = Buf(o, Len(d) - o, d), b = Buf(0, t, e)
      PROVE  BetweenReads(IF t > 0 THEN b ELSE a, Append(r, Copied(a, b)), p + Len(e))
  BY <1>3, ScatteredKept
<1>4. QED
  BY <1>1, <1>2, <1>3 DEF KeptIn

LEMMA KeptWrong ==
  ASSUME NEW o, NEW d, NEW from, NEW r \in Seq(RecordSet), NEW x, Wrong(r)
  PROVE  KeptIn(o, d, from, r, x)
<1>1. ~Fits /\ r # Expected
  BY WrongNext DEF Wrong
<1>2. \A a, c, p : BetweenReads(a, Append(r, c), p)
  <2>1. \A c : Wrong(Append(r, c))
    BY WrongNext
  <2>2. QED
    BY <2>1 DEF BetweenReads
<1>3. QED
  BY <1>1, <1>2 DEF KeptIn

LEMMA LostRecord ==
  ASSUME FileInv, NEW x \in LineStarts, NEW a, BufferInv(a), x \notin Range(a.data),
         NEW b, BufferInv(b), b.len \in Nat, b.len = 0 \/ x \notin Range(b.data)
  PROVE  x \notin Range(Copied(a, b))
<1>1. PICK c : c = Copied(a, b)
  OBVIOUS
<1>2. CASE a.len = Wrapped
  <2>1. c = <<0>>
    BY <1>1, <1>2 DEF Copied, Garbage
  <2>2. x # 0
    BY DEF LineStarts
  <2>3. DOMAIN c = {1} /\ c[1] = 0
    BY <2>1
  <2>4. QED
    BY <1>1, <2>2, <2>3 DEF Range
<1>3. CASE a.len # Wrapped
  <2>1. /\ c \in Seq(1 .. size) /\ Len(c) \in Nat
        /\ Len(c) = IF a.len + b.len > Lrecl THEN Lrecl ELSE a.len + b.len
        /\ \A k \in 1 .. Len(c) : c[k] = IF k <= a.len THEN a.data[a.off + k]
                                                       ELSE b.data[b.off + (k - a.len)]
    BY <1>1, <1>3, CopiedIs
  <2>2. PICK m \in Nat : m = a.len
    BY <1>3 DEF BufferInv
  <2>3. PICK n \in Nat : n = b.len
    OBVIOUS
  <2>4. /\ a.off \in Nat /\ a.off + m <= Len(a.data) /\ Len(a.data) \in Nat
        /\ b.off \in Nat /\ b.off + n <= Len(b.data) /\ Len(b.data) \in Nat
        /\ DOMAIN a.data = 1 .. Len(a.data) /\ DOMAIN b.data = 1 .. Len(b.data)
    BY <2>2, <2>3 DEF BufferInv
  <2>5. ASSUME NEW k \in 1 .. Len(c) PROVE c[k] # x
    <3>1. k \in Nat /\ 1 <= k /\ k <= m + n
      BY <2>1, <2>2, <2>3, BufferAssumption
    <3>2. CASE k <= m
      <4>1. c[k] = a.data[a.off + k]
        BY <2>1, <2>2, <3>2
      <4>2. a.off + k \in DOMAIN a.data
        BY <2>4, <3>1, <3>2
      <4>3. QED
        BY <4>1, <4>2 DEF Range
    <3>3. CASE k > m
      <4>1. PICK j \in Nat : j = k - m
        BY <3>1, <3>3
      <4>2. ~(k <= a.len) /\ k - a.len = j
        BY <2>2, <3>1, <3>3, <4>1
      <4>3. c[k] = b.data[b.off + j]
        BY <2>1, <4>2
      <4>4. 1 <= j /\ j <= n
        BY <3>1, <3>3, <4>1
      <4>5. b.off + j \in DOMAIN b.data
        BY <2>4, <4>4
      <4>6. b.len # 0
        BY <2>3, <4>4
      <4>7. QED
        BY <4>3, <4>5, <4>6 DEF Range
    <3>4. QED
      BY <3>1, <3>2, <3>3
  <2>6. DOMAIN c = 1 .. Len(c)
    BY <2>1
  <2>7. QED
    BY <1>1, <2>5, <2>6 DEF Range
<1>4. QED
  BY <1>2, <1>3

LEMMA BuffersOf ==
  ASSUME FileInv, NEW d \in Seq(1 .. size), Len(d) <= REC_LEN, NEW o \in Nat, o <= Len(d) + 1
  PROVE  /\ BufferInv(Buf(o, Len(d) - o, d))
         /\ \A i \in Nat : EndsIn(o, d, i) => BufferInv(Buf(o, i - o, d)) /\ i - o \in Nat
<1>1. Len(d) \in Nat
  OBVIOUS
<1>2. BufferInv(Buf(o, Len(d) - o, d))
  <2>1. PICK n : n = Len(d) - o
    OBVIOUS
  <2>2. n \in Nat \cup {Wrapped} /\ o + n <= Len(d)
    BY <1>1, <2>1 DEF Wrapped
  <2>3. BufferInv(Buf(o, n, d))
    BY <1>1, <2>2 DEF BufferInv, Buf
  <2>4. QED
    BY <2>1, <2>3
<1>3. ASSUME NEW i \in Nat, EndsIn(o, d, i) PROVE BufferInv(Buf(o, i - o, d)) /\ i - o \in Nat
  <2>1. PICK n : n = i - o
    OBVIOUS
  <2>2. n \in Nat /\ o + n <= Len(d)
    BY <1>1, <1>3, <2>1 DEF EndsIn
  <2>3. BufferInv(Buf(o, n, d))
    BY <1>1, <2>2 DEF BufferInv, Buf
  <2>4. QED
    BY <2>1, <2>2, <2>3
<1>4. QED
  BY <1>2, <1>3

LEMMA TailBuffer ==
  ASSUME FileInv, NEW from \in 0 .. size, NEW e, e = Chunk(from), NEW t, t = TailLength(e)
  PROVE  BufferInv(Buf(0, t, e)) /\ t \in Nat /\ t <= Len(e)
<1>1. e \in Seq(1 .. size) /\ Len(e) \in Nat /\ Len(e) <= REC_LEN
  BY ReadFrom
<1>2. t \in Nat /\ t <= Len(e)
  BY <1>1, InNat, TailIs
<1>3. QED
  BY <1>1, <1>2 DEF BufferInv, Buf

LEMMA LostIsMissed ==
  ASSUME FileInv, NEW x \in LineStarts \ newlines, NEW r \in Seq(RecordSet),
         \A n \in 1 .. Len(r) : x \notin Range(r[n])
  PROVE  r # Expected
<1>0. x \in Nat /\ x \in 1 .. size /\ size \in Nat
  BY BufferAssumption DEF LineStarts, FileInv
<1>1. PICK n : n = Cardinality(StartsUpTo(x))
  OBVIOUS
<1>2. n \in 1 .. Cardinality(LineStarts) /\ Lines[n] = LineAt(x)
  BY <1>1, BeforeAndUpTo, LinesAre
<1>3. n \in DOMAIN Expected /\ Expected[n] = LineAt(x)
  BY <1>2, ExpectedAt
<1>4. PICK c : c = LineAt(x)
  OBVIOUS
<1>5. x \in Range(c)
  <2>1. PICK f : f = LineEnd(x)
    OBVIOUS
  <2>2. f \in Nat /\ x <= f
    <3>1. f \in Nat /\ x - 1 <= f /\ (f = size \/ f + 1 \in newlines)
      BY <2>1, LineEndIs
    <3>2. f # x - 1
      BY <1>0, <3>1
    <3>3. QED
      BY <1>0, <3>1, <3>2
  <2>3. 0 < Lrecl /\ Lrecl \in Nat
    BY BufferAssumption
  <2>4. Cut(f - x + 1) \in Nat /\ 1 <= Cut(f - x + 1)
    BY <1>0, <2>2, <2>3 DEF Cut
  <2>5. c \in Seq(1 .. size) /\ Len(c) = Cut(f - x + 1) /\ \A k \in 1 .. Len(c) : c[k] = x + k - 1
    BY <1>4, <2>1, LineIs
  <2>6. 1 \in DOMAIN c /\ c[1] = x
    BY <1>0, <2>4, <2>5
  <2>7. QED
    BY <2>6 DEF Range
<1>6. ASSUME r = Expected PROVE FALSE
  <2>1. n \in 1 .. Len(r) /\ r[n] = c
    BY <1>3, <1>4, <1>6
  <2>2. QED
    BY <1>5, <2>1
<1>7. QED
  BY <1>6

LEMMA KeptLost ==
  ASSUME FileInv, ~Fits, NEW x \in LineStarts \ newlines, NEW from \in 0 .. size, x <= from,
         NEW r \in Seq(RecordSet), \A n \in 1 .. Len(r) : x \notin Range(r[n]),
         NEW d \in Seq(1 .. size), Len(d) <= REC_LEN, x \notin Range(d),
         NEW o \in Nat, o <= Len(d) + 1, NEW y, BufferInv(Buf(0, 0, y))
  PROVE  KeptIn(o, d, from, r, y)
<1>1. x \in Nat /\ x \in 1 .. size /\ size \in Nat /\ from \in Nat
  BY BufferAssumption DEF LineStarts, FileInv
<1>2. ASSUME NEW c, x \notin Range(c), NEW p \in Nat, from <= p,
             NEW b, IsEmpty(b) \/ x \notin Range(b.data)
      PROVE  BetweenReads(b, Append(r, c), p)
  <2>1. Len(r) \in Nat
    OBVIOUS
  <2>2. PICK z : z = Append(r, c)
    OBVIOUS
  <2>3. Len(z) = Len(r) + 1 /\ (\A k \in 1 .. Len(r) : z[k] = r[k]) /\ z[Len(r) + 1] = c
    BY <2>1, <2>2
  <2>4. ASSUME NEW k \in 1 .. Len(z) PROVE x \notin Range(z[k])
    <3>1. k \in 1 .. Len(r) \/ k = Len(r) + 1
      BY <2>1, <2>3
    <3>2. QED
      BY <1>2, <2>3, <3>1
  <2>5. x <= p
    BY <1>1, <1>2
  <2>6. Lost(b, z, p)
    BY <1>2, <2>4, <2>5 DEF Lost, LostByte
  <2>7. QED
    BY <2>2, <2>6 DEF BetweenReads
<1>3. ASSUME NEW i \in Nat, EndsIn(o, d, i)
      PROVE  BetweenReads(Buf(o, i - o, d), Append(r, Copied(Buf(o, i - o, d), Buf(0, 0, y))), from)
  <2>1. PICK a, b : a = Buf(o, i - o, d) /\ b = Buf(0, 0, y)
    OBVIOUS
  <2>2. BufferInv(a) /\ a.data = d /\ BufferInv(b) /\ b.len = 0
    <3>1. BufferInv(Buf(o, i - o, d))
      BY <1>3, BuffersOf
    <3>2. QED
      BY <2>1, <3>1 DEF Buf
  <2>3. x \notin Range(Copied(a, b))
    BY <2>2, LostRecord
  <2>4. BetweenReads(a, Append(r, Copied(a, b)), from)
    BY <1>1, <1>2, <2>2, <2>3
  <2>5. QED
    BY <2>1, <2>4
<1>4. ASSUME NEW e, NEW t, NEW a, NEW b,
             e = Chunk(from), t = TailLength(e), a = Buf(o, Len(d) - o, d), b = Buf(0, t, e)
      PROVE  BetweenReads(IF t > 0 THEN b ELSE a, Append(r, Copied(a, b)), from + Len(e))
  <2>1. BufferInv(b) /\ b.len \in Nat /\ b.data = e
    <3>1. BufferInv(Buf(0, t, e)) /\ t \in Nat
      BY <1>4, TailBuffer
    <3>2. QED
      BY <1>4, <3>1 DEF Buf
  <2>2. BufferInv(a) /\ a.data = d
    <3>1. BufferInv(Buf(o, Len(d) - o, d))
      BY BuffersOf
    <3>2. QED
      BY <1>4, <3>1 DEF Buf
  <2>3. Len(e) \in Nat /\ DOMAIN e = 1 .. Len(e) /\ \A k \in 1 .. Len(e) : e[k] = from + k
    <3>1. e \in Seq(1 .. size) /\ Len(e) \in Nat /\ \A k \in 1 .. Len(e) : e[k] = from + k
      BY <1>4, ReadFrom
    <3>2. QED
      BY <3>1
  <2>4. x \notin Range(e)
    <3>1. \A k \in 1 .. Len(e) : e[k] # x
      BY <1>1, <2>3
    <3>2. QED
      BY <2>3, <3>1 DEF Range
  <2>5. x \notin Range(Copied(a, b))
    BY <2>1, <2>2, <2>4, LostRecord
  <2>6. PICK z : z = IF t > 0 THEN b ELSE a
    OBVIOUS
  <2>7. x \notin Range(z.data) /\ from + Len(e) \in Nat /\ from <= from + Len(e)
    BY <1>1, <2>1, <2>2, <2>3, <2>4, <2>6
  <2>8. BetweenReads(z, Append(r, Copied(a, b)), from + Len(e))
    BY <1>2, <2>5, <2>7
  <2>9. QED
    BY <2>6, <2>8
<1>5. r # Expected
  BY LostIsMissed
<1>6. QED
  BY <1>3, <1>4, <1>5 DEF KeptIn

\* Nothing is left of the buffer.
LEMMA KeptUsedUp ==
  ASSUME FileInv, NEW p \in 0 .. size, NEW r \in Seq(RecordSet),
         NEW a, Ended(a, r, p) \/ Doomed(a, r, p),
         NEW d \in Seq(1 .. size), Len(d) <= REC_LEN, NEW o, o = Len(d) + 1, NEW y
  PROVE  KeptIn(o, d, p, r, y)
<1>1. Len(d) \in Nat
  OBVIOUS
<1>2. \A i \in Nat : ~EndsIn(o, d, i)
  BY <1>1 DEF EndsIn
<1>3. ASSUME NEW e, NEW t, NEW b, NEW c,
             e = Chunk(p), t = TailLength(e), b = Buf(o, Len(d) - o, d), c = Buf(0, t, e)
      PROVE  IF e = <<>> /\ o > Len(d)
               THEN r = Expected <=> Fits
               ELSE BetweenReads(IF t > 0 THEN c ELSE b, Append(r, Copied(b, c)), p + Len(e))
  <2>1. o > Len(d) /\ (e = <<>> <=> p = size)
    BY <1>1, <1>3, ReadFrom
  <2>2. CASE p = size
    <3>1. CASE Ended(a, r, p)
      BY <2>1, <2>2, <3>1 DEF Ended
    <3>2. CASE Doomed(a, r, p)
      <4>1. ~Fits /\ Len(r) < Cardinality(LineStarts)
        BY <2>2, <3>2 DEF Doomed
      <4>2. r # Expected
        BY <4>1, ExpectedLength
      <4>3. QED
        BY <2>1, <2>2, <4>1, <4>2
    <3>3. QED
      BY <3>1, <3>2
  <2>3. CASE p # size
    <3>1. ~Fits
      BY <2>3 DEF Ended, Doomed
    <3>2. Copied(b, c) = Garbage
      <4>1. Len(d) - o = Wrapped
        BY <1>1 DEF Wrapped
      <4>2. b.len = Wrapped
        BY <1>3, <4>1 DEF Buf
      <4>3. QED
        BY <4>2 DEF Copied
    <3>3. Wrong(Append(r, Garbage))
      BY <3>1, ExpectedClean, WrongNow
    <3>4. QED
      BY <2>1, <2>3, <3>2, <3>3 DEF BetweenReads
  <2>4. QED
    BY <2>2, <2>3
<1>4. QED
  BY <1>2, <1>3 DEF KeptIn

\* A read that starts with a newline, after reads that did too.
LEMMA KeptNewline ==
  ASSUME FileInv, NEW p \in 0 .. size, p % REC_LEN = 0, p # size, p + 1 \in newlines,
         NEW r \in Seq(RecordSet), \A n \in 1 .. Len(r) : r[n] = <<>>,
         1 .. p \subseteq newlines, (p = 0 /\ r = <<>>) \/ (Len(r) < p /\ ~Fits),
         NEW d, d = Chunk(p), NEW x, BufferInv(Buf(0, 0, x))
  PROVE  KeptIn(0, d, p + Len(d), r, x)
<1>1. /\ size \in Nat /\ p \in Nat /\ p < size /\ Len(r) \in Nat
      /\ REC_LEN \in Nat /\ 1 < REC_LEN
  BY BufferAssumption DEF FileInv
<1>2. /\ d \in Seq(1 .. size) /\ Len(d) \in Nat /\ Len(d) <= REC_LEN
      /\ \A k \in 1 .. Len(d) : d[k] = p + k
      /\ Len(d) # 0 /\ p + Len(d) <= size
      /\ (p + Len(d) # size => Len(d) = REC_LEN)
  BY ReadFrom
<1>3. 1 \in 1 .. Len(d) /\ d[1] \in newlines
  <2>1. 1 \in 1 .. Len(d)
    BY <1>2
  <2>2. QED
    BY <1>2, <2>1
<1>4. ~GoesOn(0, d)
  <2>1. 1 \in 0 + 1 .. Len(d)
    BY <1>3
  <2>2. QED
    BY <1>3, <2>1 DEF GoesOn
<1>5. ASSUME NEW i \in Nat, EndsIn(0, d, i) PROVE i = 0
  <2>1. ASSUME i # 0 PROVE FALSE
    <3>1. 1 \in 0 + 1 .. i
      BY <2>1
    <3>2. QED
      BY <1>3, <1>5, <3>1 DEF EndsIn
  <2>2. QED
    BY <2>1
<1>6. PICK a, b : a = Buf(0, 0, d) /\ b = Buf(0, 0, x)
  OBVIOUS
<1>7. IsEmpty(a)
  BY <1>6 DEF IsEmpty, Buf
<1>8. Copied(a, b) = <<>>
  <2>1. BufferInv(a) /\ BufferInv(b) /\ a.len = 0 /\ b.len = 0
    <3>1. BufferInv(a) /\ a.len = 0
      BY <1>2, <1>6 DEF BufferInv, Buf
    <3>2. QED
      BY <1>6, <3>1 DEF Buf
  <2>2. PICK c : c = Copied(a, b)
    OBVIOUS
  <2>3. c \in Seq(1 .. size) /\ Len(c) = IF a.len + b.len > Lrecl THEN Lrecl ELSE a.len + b.len
    BY <2>1, <2>2, CopiedIs DEF Wrapped
  <2>4. Len(c) = 0
    BY <2>1, <2>3, BufferAssumption
  <2>5. QED
    BY <2>2, <2>3, <2>4
<1>9. PICK z : z = Append(r, <<>>)
  OBVIOUS
<1>10. /\ z \in Seq(RecordSet) /\ Len(z) = Len(r) + 1
       /\ \A k \in 1 .. Len(z) : z[k] = <<>>
  <2>1. <<>> \in RecordSet
    BY DEF RecordSet
  <2>2. z \in Seq(RecordSet) /\ Len(z) = Len(r) + 1 /\ (\A k \in 1 .. Len(r) : z[k] = r[k])
        /\ z[Len(r) + 1] = <<>>
    BY <1>1, <1>9, <2>1
  <2>3. ASSUME NEW k \in 1 .. Len(z) PROVE z[k] = <<>>
    <3>1. k \in 1 .. Len(r) \/ k = Len(r) + 1
      BY <1>1, <2>2
    <3>2. QED
      BY <2>2, <3>1
  <2>4. QED
    BY <2>2, <2>3
<1>11. PICK q \in Nat : q = p + Len(d)
  BY <1>1, <1>2
<1>12. BetweenReads(a, z, q)
  <2>1. CASE p = 0 /\ r = <<>> /\ size = 1
    <3>1. q = size
      BY <1>1, <1>2, <1>11, <2>1
    <3>2. 1 \in LineStarts /\ 1 \in newlines /\ Prefix(<<>>, 1) /\ FitsUpTo(0)
      <4>1. p + 1 = 1 /\ size > 0
        BY <2>1
      <4>2. QED
        BY <4>1, NoneBeforeTheFirst
    <3>3. LineEnd(1) = 0
      <4>1. 1 - 1 <= 0 /\ 0 + 1 \in newlines /\ (\A k \in 1 .. 0 : k \notin newlines) /\ 0 \in Nat
        BY <3>2
      <4>2. QED
        BY <3>2, <4>1, LineEndAt
    <3>4. LineAt(1) = <<>>
      <4>1. PICK y : y = LineAt(1)
        OBVIOUS
      <4>2. y \in Seq(1 .. size) /\ Len(y) = Cut(LineEnd(1) - 1 + 1)
        BY <3>2, <4>1, LineIs
      <4>3. Len(y) = 0
        BY <3>3, <4>2, BufferAssumption DEF Cut
      <4>4. QED
        BY <4>1, <4>2, <4>3
    <3>5. z = Lines
      <4>1. Prefix(Append(r, LineAt(1)), LineEnd(1) + 2)
        BY <2>1, <3>2, PrefixNext
      <4>2. LineEnd(1) + 2 = 2 /\ size < 2 /\ 2 \in Nat
        BY <2>1, <3>3
      <4>3. Prefix(z, 2)
        BY <1>9, <3>4, <4>1, <4>2
      <4>4. QED
        BY <1>10, <4>2, <4>3, PrefixAll
    <3>6. ReadStart(size)
      <4>1. 1 \in 1 .. REC_LEN
        BY <1>1
      <4>2. (p + 1) % REC_LEN = 1
        BY <1>1, <4>1, Multiple
      <4>3. p + 1 = size
        BY <2>1
      <4>4. QED
        BY <4>2, <4>3 DEF ReadStart
    <3>7. z = Expected
      BY <3>5, <3>6 DEF Expected, EmptyRecordAdded
    <3>8. Fits
      <4>1. p + 1 = size /\ FitsUpTo(p) /\ p + Len(d) = size
        BY <1>11, <2>1, <3>1, <3>2
      <4>2. FitsUpTo(p + Len(d))
        BY <1>1, <1>2, <4>1, FitsNext
      <4>3. QED
        BY <4>1, <4>2, FitsAll
    <3>9. Ended(a, z, q)
      BY <1>7, <3>1, <3>7, <3>8 DEF Ended
    <3>10. QED
      BY <3>9 DEF BetweenReads
  <2>2. CASE ~(p = 0 /\ r = <<>> /\ size = 1)
    <3>1. ~Fits
      <4>1. CASE p + 1 # size
        BY <1>1, <4>1, NewlineMisfits
      <4>2. CASE p + 1 = size
        <5>1. ~(p = 0 /\ r = <<>>)
          BY <2>2, <4>2
        <5>2. QED
          BY <5>1
      <4>3. QED
        BY <4>1, <4>2
    <3>2. CASE 1 .. q \subseteq newlines
      <4>1. Len(z) < q
        <5>1. CASE p = 0 /\ r = <<>>
          <6>1. Len(d) > 1
            BY <1>1, <1>2, <2>2, <5>1
          <6>2. Len(r) = 0
            BY <5>1
          <6>3. QED
            BY <1>10, <1>11, <5>1, <6>1, <6>2
        <5>2. CASE Len(r) < p
          BY <1>1, <1>2, <1>10, <1>11, <5>2
        <5>3. QED
          BY <5>1, <5>2
      <4>2. OnlyNewlines(a, z, q)
        BY <1>7, <1>10, <3>1, <3>2, <4>1 DEF OnlyNewlines
      <4>3. QED
        BY <4>2 DEF BetweenReads
    <3>3. CASE ~(1 .. q \subseteq newlines)
      <4> DEFINE S == { k \in 1 .. q : k \notin newlines }
      <4>1. S # {} /\ S \in SUBSET Nat
        BY <3>3
      <4>2. PICK y \in S : \A k \in S : y <= k
        <5> HIDE DEF S
        <5>1. QED
          BY <4>1, SmallestNat
      <4>3. y \in 1 .. q /\ y \notin newlines /\ y \in Nat /\ 1 <= y /\ y <= q
        BY <4>2
      <4>4. y > 1
        <5>1. 1 \in newlines
          <6>1. p = 0 \/ 1 \in 1 .. p
            BY <1>1
          <6>2. p = 0 => p + 1 = 1
            OBVIOUS
          <6>3. QED
            BY <6>1, <6>2
        <5>2. QED
          BY <4>3, <5>1
      <4>5. y - 1 \in newlines
        <5>1. y - 1 \in 1 .. q /\ ~(y <= y - 1)
          BY <1>11, <4>3, <4>4
        <5>2. y - 1 \notin S
          <6> HIDE DEF S
          <6>1. QED
            BY <4>2, <5>1
        <5>3. QED
          BY <5>1, <5>2
      <4>6. y \in LineStarts
        <5>1. y \in 1 .. size
          BY <1>1, <1>2, <1>11, <4>3
        <5>2. QED
          BY <4>5, <5>1 DEF LineStarts
      <4>7. \A k \in 1 .. Len(z) : y \notin Range(z[k])
        <5>1. Range(<<>>) = {}
          BY DEF Range
        <5>2. QED
          BY <1>10, <5>1
      <4>8. Lost(a, z, q)
        BY <1>7, <3>1, <4>3, <4>6, <4>7 DEF Lost, LostByte
      <4>9. QED
        BY <4>8 DEF BetweenReads
    <3>4. QED
      BY <3>2, <3>3
  <2>3. QED
    BY <2>1, <2>2
<1>13. ASSUME NEW i \in Nat, EndsIn(0, d, i)
       PROVE  BetweenReads(Buf(0, i - 0, d), Append(r, Copied(Buf(0, i - 0, d), Buf(0, 0, x))), p + Len(d))
  <2>1. i - 0 = 0
    BY <1>5, <1>13
  <2>2. QED
    BY <1>6, <1>8, <1>9, <1>11, <1>12, <2>1
<1>14. QED
  BY <1>4, <1>13 DEF KeptIn

LEMMA SomeRecord ==
  ASSUME FileInv, NEW a, BufferInv(a), a.len \in Nat, a.len > 0,
         NEW b, BufferInv(b), b.len \in Nat
  PROVE  Copied(a, b) # <<>>
<1>1. PICK c : c = Copied(a, b)
  OBVIOUS
<1>2. Len(c) = IF a.len + b.len > Lrecl THEN Lrecl ELSE a.len + b.len
  BY <1>1, CopiedIs DEF Wrapped
<1>3. Len(c) > 0
  BY <1>2, BufferAssumption
<1>4. QED
  BY <1>1, <1>3

LEMMA KeptFirst ==
  ASSUME FileInv, NEW a, IsEmpty(a), NEW p \in 0 .. size, AtRead(p), p # size,
         NEW r \in Seq(RecordSet), BetweenReads(a, r, p),
         NEW d, d = Chunk(p), NEW x, BufferInv(Buf(0, 0, x))
  PROVE  KeptIn(0, d, p + Len(d), r, x)
<1>1. /\ size \in Nat /\ p \in Nat /\ p < size /\ p % REC_LEN = 0 /\ Len(r) \in Nat
      /\ REC_LEN \in Nat /\ 1 < REC_LEN
  BY BufferAssumption DEF FileInv, AtRead
<1>2. /\ d \in Seq(1 .. size) /\ Len(d) \in Nat /\ Len(d) <= REC_LEN
      /\ \A k \in 1 .. Len(d) : d[k] = p + k
      /\ Len(d) # 0 /\ p + Len(d) <= size /\ d # <<>>
      /\ (p + Len(d) # size => Len(d) = REC_LEN)
  BY ReadFrom
<1>3. d[1] = p + 1 /\ 1 \in 1 .. Len(d)
  <2>1. 1 \in 1 .. Len(d)
    BY <1>2
  <2>2. QED
    BY <1>2, <2>1
<1>4. p + Len(d) \in 0 .. size /\ p + Len(d) \in Nat
  BY <1>1, <1>2
<1>5. CASE Fresh(a, r, p)
  <2>1. p = 0 /\ r = <<>>
    BY <1>5 DEF Fresh
  <2>2. CASE p + 1 \in newlines
    <3>1. 1 .. p \subseteq newlines /\ \A n \in 1 .. Len(r) : r[n] = <<>>
      BY <2>1
    <3>2. QED
      BY <1>1, <2>1, <2>2, <3>1, KeptNewline
  <2>3. CASE p + 1 \notin newlines
    <3>1. 1 \in LineStarts /\ Prefix(<<>>, 1) /\ FitsUpTo(0)
      BY <1>1, NoneBeforeTheFirst
    <3>2. FitsUpTo(p + Len(d))
      BY <1>1, <1>2, <2>1, <2>3, <3>1, FitsNext
    <3>3. p + 0 + 1 = 1 /\ 0 \in Nat /\ 0 <= Len(d)
      BY <1>2, <2>1
    <3>4. d[1] \notin newlines
      BY <1>3, <2>3
    <3>5. AtLine(p, d, 0, r, p + Len(d))
      BY <1>1, <1>2, <2>1, <3>1, <3>2, <3>3, <3>4 DEF AtLine
    <3>6. QED
      BY <3>5, KeptAtLine
  <2>4. QED
    BY <2>2, <2>3
<1>6. ~Running(a, r, p)
  BY DEF Running, IsEmpty
<1>7. ~Ended(a, r, p) /\ ~Doomed(a, r, p)
  BY DEF Ended, Doomed
<1>8. CASE OnlyNewlines(a, r, p)
  <2>1. /\ ~Fits /\ 1 .. p \subseteq newlines
        /\ Len(r) < p /\ \A n \in 1 .. Len(r) : r[n] = <<>>
    BY <1>8 DEF OnlyNewlines
  <2>2. CASE p + 1 \in newlines
    BY <1>1, <2>1, <2>2, KeptNewline
  <2>3. CASE p + 1 \notin newlines
    <3>1. Expected[Len(r) + 1] = <<>>
      <4>1. Len(r) + 1 \in 1 .. p
        BY <1>1, <2>1
      <4>2. QED
        BY <2>1, <4>1, EmptyLines
    <3>2. ASSUME NEW c, c # <<>>, NEW b, NEW q PROVE BetweenReads(b, Append(r, c), q)
      <4>1. Wrong(Append(r, c))
        BY <2>1, <3>1, <3>2, WrongNow
      <4>2. QED
        BY <4>1 DEF BetweenReads
    <3>3. ASSUME NEW i \in Nat, EndsIn(0, d, i)
          PROVE  BetweenReads(Buf(0, i - 0, d), Append(r, Copied(Buf(0, i - 0, d), Buf(0, 0, x))),
                              p + Len(d))
      <4>1. PICK b, c : b = Buf(0, i - 0, d) /\ c = Buf(0, 0, x)
        OBVIOUS
      <4>2. i # 0
        <5>1. i = 0 => i + 1 = 1
          OBVIOUS
        <5>2. QED
          BY <1>3, <2>3, <3>3, <5>1 DEF EndsIn
      <4>3. BufferInv(b)
        <5>1. 0 \in Nat /\ 0 <= Len(d) + 1
          BY <1>2
        <5>2. QED
          BY <1>2, <3>3, <4>1, <5>1, BuffersOf
      <4>4. b.len \in Nat /\ b.len > 0 /\ BufferInv(c) /\ c.len \in Nat
        BY <4>1, <4>2 DEF Buf
      <4>5. Copied(b, c) # <<>>
        BY <4>3, <4>4, SomeRecord
      <4>6. QED
        BY <3>2, <4>1, <4>5
    <3>4. ASSUME NEW e, NEW t, NEW b, NEW c, e = Chunk(p + Len(d)), t = TailLength(e),
                 b = Buf(0, Len(d) - 0, d), c = Buf(0, t, e)
          PROVE  BetweenReads(IF t > 0 THEN c ELSE b, Append(r, Copied(b, c)), p + Len(d) + Len(e))
      <4>1. BufferInv(c) /\ c.len \in Nat
        <5>1. BufferInv(Buf(0, t, e)) /\ t \in Nat
          BY <1>4, <3>4, TailBuffer
        <5>2. QED
          BY <3>4, <5>1 DEF Buf
      <4>2. BufferInv(b)
        <5>1. 0 \in Nat /\ 0 <= Len(d) + 1
          BY <1>2
        <5>2. QED
          BY <1>2, <3>4, <5>1, BuffersOf
      <4>3. b.len \in Nat /\ b.len > 0
        BY <1>2, <3>4 DEF Buf
      <4>4. Copied(b, c) # <<>>
        BY <4>1, <4>2, <4>3, SomeRecord
      <4>5. QED
        BY <3>2, <4>4
    <3>5. ~(0 > Len(d))
      BY <1>2
    <3>6. QED
      BY <3>3, <3>4, <3>5 DEF KeptIn
  <2>4. QED
    BY <2>2, <2>3
<1>9. CASE Lost(a, r, p)
  <2>1. PICK y \in LineStarts \ newlines : y <= p /\ \A n \in 1 .. Len(r) : y \notin Range(r[n])
    BY <1>9 DEF Lost, LostByte
  <2>2. y \in Nat /\ ~Fits
    BY <1>1, <1>9 DEF LineStarts, Lost
  <2>3. y \notin Range(d)
    <3>1. DOMAIN d = 1 .. Len(d) /\ \A k \in 1 .. Len(d) : d[k] # y
      BY <1>1, <1>2, <2>1, <2>2
    <3>2. QED
      BY <3>1 DEF Range
  <2>4. y <= p + Len(d) /\ 0 \in Nat /\ 0 <= Len(d) + 1
    BY <1>1, <1>2, <2>1, <2>2
  <2>5. QED
    BY <1>2, <1>4, <2>1, <2>2, <2>3, <2>4, KeptLost
<1>10. CASE Wrong(r)
  BY <1>10, KeptWrong
<1>11. QED
  BY <1>5, <1>6, <1>7, <1>8, <1>9, <1>10 DEF BetweenReads

LEMMA KeptNext ==
  ASSUME FileInv, NEW a, BufferInv(a), ~IsEmpty(a), NEW p \in 0 .. size,
         NEW r \in Seq(RecordSet), BetweenReads(a, r, p),
         NEW d, d = a.data, NEW o \in Nat, o = a.off + a.len + 1, o <= Len(d) + 1,
         NEW x, BufferInv(Buf(0, 0, x))
  PROVE  KeptIn(o, d, p, r, x)
<1>1. /\ size \in Nat /\ p \in Nat /\ d \in Seq(1 .. size) /\ Len(d) \in Nat /\ Len(d) <= REC_LEN
      /\ a.off \in Nat /\ a.len \in Nat \cup {-1}
  BY BufferAssumption DEF FileInv, BufferInv, Wrapped
<1>2. CASE Running(a, r, p)
  <2>1. PICK base \in 0 .. size :
          /\ base % REC_LEN = 0 /\ d = Chunk(base) /\ p = base + Len(d)
          /\ a.len \in Nat /\ a.off + a.len \in 1 .. Len(d) - 1
          /\ base + a.off + a.len + 1 \in newlines
          /\ Prefix(r, base + a.off + a.len + 1 + 1) /\ FitsUpTo(p)
    BY <1>2 DEF Running
  <2>2. base \in Nat /\ base + a.off + a.len + 1 = base + o
        /\ base + a.off + a.len + 1 + 1 = base + o + 1
        /\ o >= 2 /\ o <= Len(d)
    <3>1. base \in Nat
      BY <1>1, <2>1
    <3>2. PICK u, v \in Nat : u = a.off /\ v = a.len
      BY <1>1, <2>1
    <3>3. PICK n \in Nat : n = Len(d)
      BY <1>1
    <3>4. u + v \in 1 .. n - 1 /\ o = u + v + 1
      BY <2>1, <3>2, <3>3
    <3>5. o >= 2 /\ o <= n
      BY <3>4
    <3>6. base + u + v + 1 = base + o /\ base + u + v + 1 + 1 = base + o + 1
      BY <3>1, <3>4
    <3>7. QED
      BY <3>1, <3>2, <3>3, <3>5, <3>6
  <2>3. base + o \in newlines /\ base + o \in 1 .. size /\ Prefix(r, base + o + 1)
    BY <2>1, <2>2 DEF FileInv
  <2>4. d # <<>>
    BY <2>2
  <2>5. base + o + 1 \in LineStarts \/ (o = Len(d) /\ p = size /\ size \in newlines)
    <3>1. CASE base + o + 1 <= size
      <4>1. base + o + 1 \in 1 .. size /\ (base + o + 1) - 1 = base + o
        <5>1. base \in Nat /\ size \in Nat
          BY <1>1, <2>2
        <5>2. QED
          BY <3>1, <5>1
      <4>2. QED
        BY <2>3, <4>1 DEF LineStarts
    <3>2. CASE ~(base + o + 1 <= size)
      <4>1. base + o = size
        BY <1>1, <2>2, <2>3, <3>2
      <4>2. o = Len(d) /\ p = size
        BY <1>1, <2>1, <2>2, <4>1
      <4>3. QED
        BY <2>3, <4>1, <4>2
    <3>3. QED
      BY <3>1, <3>2
  <2>6. AtLine(base, d, o, r, p)
    BY <2>1, <2>2, <2>3, <2>4, <2>5 DEF AtLine
  <2>7. QED
    BY <2>6, KeptAtLine
<1>3. ~Fresh(a, r, p) /\ ~OnlyNewlines(a, r, p)
  BY DEF Fresh, OnlyNewlines
<1>4. CASE Ended(a, r, p) \/ Doomed(a, r, p)
  <2>1. UsedUp(a)
    BY <1>4 DEF Ended, Doomed
  <2>2. o = Len(d) + 1
    BY <1>1, <2>1 DEF UsedUp
  <2>3. QED
    BY <1>1, <1>4, <2>2, KeptUsedUp
<1>5. CASE Lost(a, r, p)
  <2>1. PICK y \in LineStarts \ newlines :
          y <= p /\ (\A n \in 1 .. Len(r) : y \notin Range(r[n])) /\ y \notin Range(d)
    BY <1>5 DEF Lost, LostByte
  <2>2. ~Fits
    BY <1>5 DEF Lost
  <2>3. QED
    BY <1>1, <2>1, <2>2, KeptLost
<1>6. CASE Wrong(r)
  BY <1>6, KeptWrong
<1>7. QED
  BY <1>2, <1>3, <1>4, <1>5, <1>6 DEF BetweenReads

------------------------------------------------------------------------------
(* LineReader: the steps                                                    *)

LEMMA SameFile ==
  ASSUME UNCHANGED <<size, newlines>>
  PROVE  /\ Expected' = Expected /\ (Fits' <=> Fits)
         /\ \A a, r, p : BetweenReads(a, r, p)' <=> BetweenReads(a, r, p)
<1>1. LineStarts' = LineStarts
  BY DEF LineStarts
<1>2. \A q : LineEnd(q)' = LineEnd(q)
  BY DEF LineEnd
<1>3. \A q : LineAt(q)' = LineAt(q)
  BY <1>2 DEF LineAt, Positions
<1>4. \A n : NthStart(n)' = NthStart(n)
  BY <1>1 DEF NthStart
<1>5. Lines' = Lines
  BY <1>1, <1>3, <1>4 DEF Lines
<1>6. Expected' = Expected
  BY <1>5 DEF Expected, EmptyRecordAdded
<1>7. Fits' <=> Fits
  BY DEF Fits, ReadStart
<1>8. \A p : FitsUpTo(p)' <=> FitsUpTo(p)
  BY DEF FitsUpTo, ReadStart
<1>9. \A q : StartsBefore(q)' = StartsBefore(q)
  BY <1>1 DEF StartsBefore
<1>10. \A r, q : Prefix(r, q)' <=> Prefix(r, q)
  BY <1>3, <1>4, <1>9 DEF Prefix
<1>11. \A q : Chunk(q)' = Chunk(q)
  BY DEF Chunk
<1>12. ASSUME NEW a, NEW r, NEW p PROVE BetweenReads(a, r, p)' <=> BetweenReads(a, r, p)
  <2>1. Fresh(a, r, p)' <=> Fresh(a, r, p)
    BY DEF Fresh
  <2>2. Running(a, r, p)' <=> Running(a, r, p)
    BY <1>8, <1>10, <1>11 DEF Running
  <2>3. Ended(a, r, p)' <=> Ended(a, r, p)
    BY <1>6, <1>7 DEF Ended
  <2>4. Doomed(a, r, p)' <=> Doomed(a, r, p)
    BY <1>1, <1>7 DEF Doomed
  <2>5. OnlyNewlines(a, r, p)' <=> OnlyNewlines(a, r, p)
    BY <1>7 DEF OnlyNewlines
  <2>6. Lost(a, r, p)' <=> Lost(a, r, p)
    BY <1>1, <1>7 DEF Lost
  <2>7. Wrong(r)' <=> Wrong(r)
    BY <1>6, <1>7 DEF Wrong
  <2>8. QED
    BY <2>1, <2>2, <2>3, <2>4, <2>5, <2>6, <2>7 DEF BetweenReads
<1>13. QED
  BY <1>6, <1>7, <1>12

LEMMA ReadKept ==
  ASSUME UNCHANGED <<size, newlines, records>>, NEW o, NEW d, NEW from,
         KeptIn(o, d, from, records, inactive.data), Reads(o, d, from)
  PROVE  CopiedInv'
<1>1. PICK r, x : r = records /\ x = inactive.data
  OBVIOUS
<1>2. ASSUME NEW a, NEW b, NEW q, active' = a, inactive' = b, pos' = q, pc' = "add_line",
             BetweenReads(IF b.len > 0 THEN b ELSE a, Append(r, Copied(a, b)), q)
      PROVE  CopiedInv'
  <2>1. PICK n, z : n = (IF b.len > 0 THEN b ELSE a) /\ z = Append(r, Copied(a, b))
    OBVIOUS
  <2>2. BetweenReads(n, z, q)'
    BY <1>2, <2>1, SameFile
  <2>3. records' = r
    BY <1>1
  <2>4. QED
    BY <1>2, <2>1, <2>2, <2>3 DEF CopiedInv
<1>3. CASE \E i \in Nat : /\ EndsIn(o, d, i)
                          /\ active' = Buf(o, i - o, d)
                          /\ inactive' = Buf(0, 0, inactive.data)
                          /\ pc' = "add_line" /\ pos' = from
  <2>1. PICK i \in Nat : /\ EndsIn(o, d, i)
                         /\ active' = Buf(o, i - o, d)
                         /\ inactive' = Buf(0, 0, inactive.data)
                         /\ pc' = "add_line" /\ pos' = from
    BY <1>3
  <2>2. PICK a, b : a = Buf(o, i - o, d) /\ b = Buf(0, 0, x)
    OBVIOUS
  <2>3. ~(b.len > 0)
    BY <2>2 DEF Buf
  <2>4. BetweenReads(a, Append(r, Copied(a, b)), from)
    BY <1>1, <2>1, <2>2 DEF KeptIn
  <2>5. active' = a /\ inactive' = b
    BY <1>1, <2>1, <2>2
  <2>6. QED
    BY <1>2, <2>1, <2>3, <2>4, <2>5
<1>4. CASE /\ GoesOn(o, d)
           /\ active' = Buf(o, Len(d) - o, d)
           /\ inactive' = Buf(0, TailLength(Chunk(from)), Chunk(from))
           /\ pc' = IF Chunk(from) = <<>> /\ o > Len(d) THEN "done" ELSE "add_line"
           /\ pos' = from + Len(Chunk(from))
  <2>1. PICK e : e = Chunk(from)
    OBVIOUS
  <2>2. PICK t : t = TailLength(e)
    OBVIOUS
  <2>3. PICK a, b : a = Buf(o, Len(d) - o, d) /\ b = Buf(0, t, e)
    OBVIOUS
  <2>4. IF e = <<>> /\ o > Len(d)
          THEN r = Expected <=> Fits
          ELSE BetweenReads(IF t > 0 THEN b ELSE a, Append(r, Copied(a, b)), from + Len(e))
    BY <1>1, <1>4, <2>1, <2>2, <2>3 DEF KeptIn
  <2>5. active' = a /\ inactive' = b /\ pos' = from + Len(e) /\ b.len = t
    BY <1>4, <2>1, <2>2, <2>3 DEF Buf
  <2>6. CASE e = <<>> /\ o > Len(d)
    <3>1. pc' = "done" /\ records' = r
      BY <1>1, <1>4, <2>1, <2>6
    <3>2. records' = Expected' <=> Fits'
      BY <2>4, <2>6, <3>1, SameFile
    <3>3. QED
      BY <3>1, <3>2 DEF CopiedInv
  <2>7. CASE ~(e = <<>> /\ o > Len(d))
    <3>1. pc' = "add_line"
      BY <1>4, <2>1, <2>7
    <3>2. BetweenReads(IF b.len > 0 THEN b ELSE a, Append(r, Copied(a, b)), from + Len(e))
      BY <2>4, <2>5, <2>7
    <3>3. QED
      BY <1>2, <2>5, <3>1, <3>2
  <2>8. QED
    BY <2>6, <2>7
<1>5. QED
  BY <1>3, <1>4 DEF Reads

LEMMA EmptyBuffer == ASSUME BuffersInv PROVE BufferInv(Buf(0, 0, inactive.data))
<1>1. inactive.data \in Seq(1 .. size) /\ Len(inactive.data) <= REC_LEN
      /\ Len(inactive.data) \in Nat
  BY DEF BuffersInv, BufferInv
<1>2. QED
  BY <1>1 DEF BufferInv, Buf

LEMMA NothingRead ==
  ASSUME BuffersInv, NEW a, IsEmpty(a), NEW r \in Seq(RecordSet), BetweenReads(a, r, size)
  PROVE  r = Expected <=> Fits
<1>1. size \in Nat /\ size \in 0 .. size /\ FileInv
  BY BufferAssumption DEF BuffersInv, FileInv
<1>2. CASE Fresh(a, r, size)
  <2>1. size = 0 /\ r = <<>>
    BY <1>2 DEF Fresh
  <2>2. Prefix(<<>>, 1) /\ FitsUpTo(0)
    BY <1>1, NoneBeforeTheFirst
  <2>3. <<>> \in Seq(RecordSet) /\ 1 \in Nat /\ size < 1
    BY <2>1
  <2>4. r = Lines
    BY <1>1, <2>1, <2>2, <2>3, PrefixAll
  <2>5. size \notin newlines
    BY <1>1, <2>1 DEF FileInv
  <2>6. r = Expected
    BY <2>4, <2>5 DEF Expected, EmptyRecordAdded
  <2>7. Fits
    BY <1>1, <2>1, <2>2, FitsAll
  <2>8. QED
    BY <2>6, <2>7
<1>3. ~Running(a, r, size)
  BY DEF Running, IsEmpty
<1>4. CASE Ended(a, r, size)
  BY <1>4 DEF Ended
<1>5. ~Doomed(a, r, size)
  BY DEF Doomed
<1>6. CASE OnlyNewlines(a, r, size)
  <2>1. ~Fits /\ 1 .. size \subseteq newlines /\ Len(r) < size
    BY <1>6 DEF OnlyNewlines
  <2>2. size <= Cardinality(LineStarts) /\ Cardinality(LineStarts) \in Nat
    BY <1>1, <2>1, EmptyLines, StartsAre
  <2>3. Len(r) \in Nat
    OBVIOUS
  <2>4. Len(r) < Cardinality(LineStarts)
    BY <1>1, <2>1, <2>2, <2>3
  <2>5. QED
    BY <1>1, <2>1, <2>4, ExpectedLength
<1>7. CASE Lost(a, r, size)
  <2>1. PICK y \in LineStarts \ newlines : \A n \in 1 .. Len(r) : y \notin Range(r[n])
    BY <1>7 DEF Lost, LostByte
  <2>2. ~Fits
    BY <1>7 DEF Lost
  <2>3. r # Expected
    BY <1>1, <2>1, LostIsMissed
  <2>4. QED
    BY <2>2, <2>3
<1>8. CASE Wrong(r)
  BY <1>8, WrongNext DEF Wrong
<1>9. QED
  BY <1>2, <1>3, <1>4, <1>5, <1>6, <1>7, <1>8 DEF BetweenReads

LEMMA CopiedInit == ASSUME LineInit PROVE CopiedInv
<1>1. pc = "read_line" /\ Fresh(active, records, pos)
  BY DEF LineInit, Fresh, IsEmpty
<1>2. QED
  BY <1>1 DEF CopiedInv, BetweenReads

LEMMA CopiedStep ==
  ASSUME BuffersInv, CopiedInv, [LineNext]_lineVars
  PROVE  CopiedInv'
<1>1. FileInv /\ pos \in 0 .. size /\ AtRead(pos) /\ records \in Seq(RecordSet)
      /\ BufferInv(active) /\ size \in Nat
  BY BufferAssumption DEF BuffersInv, FileInv
<1>2. CASE ReadFirstBuffer
  <2>1. PICK d : d = Chunk(pos)
    OBVIOUS
  <2>2. IsEmpty(active) /\ pos # size /\ Reads(0, d, pos + Len(d))
    BY <1>2, <2>1, FirstRead DEF BufferIsEmpty, IsEmpty
  <2>3. BetweenReads(active, records, pos)
    BY <1>2 DEF ReadFirstBuffer, CopiedInv
  <2>4. KeptIn(0, d, pos + Len(d), records, inactive.data)
    BY <1>1, <2>1, <2>2, <2>3, EmptyBuffer, KeptFirst
  <2>5. UNCHANGED <<size, newlines, records>>
    BY <1>2 DEF ReadFirstBuffer, file
  <2>6. QED
    BY <2>2, <2>4, <2>5, ReadKept
<1>3. CASE ReadNothing
  <2>1. IsEmpty(active) /\ pos = size
    BY <1>1, <1>3, ReadFrom DEF ReadNothing, BufferIsEmpty, IsEmpty
  <2>2. BetweenReads(active, records, size)
    BY <1>3, <2>1 DEF ReadNothing, CopiedInv
  <2>3. records = Expected <=> Fits
    BY <1>1, <2>1, <2>2, NothingRead
  <2>4. UNCHANGED <<size, newlines, records>> /\ pc' = "done"
    BY <1>3 DEF ReadNothing, file
  <2>5. records' = Expected' <=> Fits'
    BY <2>3, <2>4, SameFile
  <2>6. QED
    BY <2>4, <2>5 DEF CopiedInv
<1>4. CASE ReadOn
  <2>1. PICK d, o : d = active.data /\ o = active.off + active.len + 1
    OBVIOUS
  <2>2. ~IsEmpty(active) /\ o \in Nat /\ o <= Len(d) + 1 /\ Reads(o, d, pos)
    BY <1>4, <2>1, NextRead DEF BufferIsEmpty, IsEmpty
  <2>3. BetweenReads(active, records, pos)
    BY <1>4 DEF ReadOn, CopiedInv
  <2>4. KeptIn(o, d, pos, records, inactive.data)
    BY <1>1, <2>1, <2>2, <2>3, EmptyBuffer, KeptNext
  <2>5. UNCHANGED <<size, newlines, records>>
    BY <1>4 DEF ReadOn, file
  <2>6. QED
    BY <2>2, <2>4, <2>5, ReadKept
<1>5. CASE AddLine
  <2>1. PICK a, r, p : a = (IF inactive.len > 0 THEN inactive ELSE active)
                       /\ r = Append(records, RecordBuffer) /\ p = pos
    OBVIOUS
  <2>2. BetweenReads(a, r, p)
    BY <1>5, <2>1, RecordIs DEF AddLine, CopiedInv
  <2>3. active' = a /\ records' = r /\ pos' = p /\ pc' = "read_line"
        /\ UNCHANGED <<size, newlines>>
    BY <1>5, <2>1, Swapped DEF AddLine, file
  <2>4. BetweenReads(a, r, p)'
    BY <2>2, <2>3, SameFile
  <2>5. QED
    BY <2>3, <2>4 DEF CopiedInv
<1>6. CASE Finished \/ UNCHANGED lineVars
  <2>1. UNCHANGED lineVars
    BY <1>6 DEF Finished
  <2>2. UNCHANGED <<size, newlines>> /\ UNCHANGED <<pos, active, inactive, pc, records>>
    BY <2>1 DEF lineVars, file
  <2>3. PICK a, r, p : a = active /\ r = records /\ p = pos
    OBVIOUS
  <2>4. PICK b, z : b = (IF inactive.len > 0 THEN inactive ELSE active)
                    /\ z = Append(records, Copied(active, inactive))
    OBVIOUS
  <2>5. (BetweenReads(a, r, p)' <=> BetweenReads(a, r, p))
        /\ (BetweenReads(b, z, p)' <=> BetweenReads(b, z, p))
        /\ Expected' = Expected /\ (Fits' <=> Fits)
    BY <2>2, SameFile
  <2>6. QED
    BY <2>2, <2>3, <2>4, <2>5 DEF CopiedInv
<1>7. QED
  BY <1>2, <1>3, <1>4, <1>5, <1>6 DEF LineNext

\* For every file, whatever the sizes of buffers and records: it is copied line by line
\* exactly if no newline but its last byte starts a read, and every read but the first
\* and the last has one.
THEOREM FilesAreTakenApart == LineSpec => []CopiedIffFits
<1>1. CopiedInv => CopiedIffFits
  BY DEF CopiedInv, CopiedIffFits
<1>2. BuffersInv /\ CopiedInv /\ [LineNext]_lineVars => CopiedInv'
  BY CopiedStep
<1>3. QED
  BY <1>1, <1>2, CopiedInit, BuffersAlways, PTL DEF LineSpec

------------------------------------------------------------------------------
(* LineReader: the cuts that write_record reports                           *)

LengthOf(c) == IF c = Garbage THEN Lrecl ELSE Len(c)

SomeTooLong(r) == \E n \in 1 .. Len(r) : LengthOf(r[n]) > Capacity

CutInv == truncated <=> SomeTooLong(records)

LEMMA CutInit == ASSUME LineInit PROVE CutInv
  BY DEF LineInit, CutInv, SomeTooLong

LEMMA CutStep ==
  ASSUME BuffersInv, CutInv, [LineNext]_lineVars
  PROVE  CutInv'
<1>1. CASE AddLine
  <2>1. PICK c : c = RecordBuffer
    OBVIOUS
  <2>2. PICK r : r = records
    OBVIOUS
  <2>3. RecordLength = LengthOf(c)
    <3>1. CASE active.len = Wrapped
      <4>1. c = Garbage
        BY <2>1, <3>1 DEF RecordBuffer
      <4>2. QED
        BY <3>1, <4>1 DEF RecordLength, LengthOf
    <3>2. CASE active.len # Wrapped
      <4>1. c \in Seq(1 .. size)
        BY <2>1, <3>2, RecordIs, CopiedIs DEF BuffersInv
      <4>2. c # Garbage
        BY <4>1, NoGarbage DEF BuffersInv
      <4>3. QED
        BY <2>1, <3>2, <4>2 DEF RecordLength, LengthOf
    <3>3. QED
      BY <3>1, <3>2
  <2>4. PICK x : x = Append(r, c)
    OBVIOUS
  <2>5. r \in Seq(RecordSet) /\ Len(r) \in Nat
    BY <2>2 DEF BuffersInv
  <2>6. Len(x) = Len(r) + 1 /\ (\A k \in 1 .. Len(r) : x[k] = r[k]) /\ x[Len(r) + 1] = c
    BY <2>4, <2>5
  <2>7. SomeTooLong(x) <=> SomeTooLong(r) \/ LengthOf(c) > Capacity
    <3>1. \A k : k \in 1 .. Len(x) <=> k \in 1 .. Len(r) \/ k = Len(r) + 1
      BY <2>5, <2>6
    <3>2. QED
      BY <2>6, <3>1 DEF SomeTooLong
  <2>8. truncated' <=> truncated \/ LengthOf(c) > Capacity
    BY <1>1, <2>3 DEF AddLine
  <2>9. records' = x
    BY <1>1, <2>1, <2>2, <2>4 DEF AddLine
  <2>10. QED
    BY <2>2, <2>7, <2>8, <2>9 DEF CutInv
<1>2. CASE UNCHANGED <<records, truncated>>
  BY <1>2 DEF CutInv, SomeTooLong
<1>3. QED
  BY <1>1, <1>2 DEF LineNext, lineVars, ReadFirstBuffer, ReadNothing, ReadOn, Finished

\* A line is cut to the length of a record of the dataset, and no further.
LEMMA LongLinesAre ==
  ASSUME FileInv, Capacity < Lrecl
  PROVE  SomeTooLong(Expected) <=> LongLines # {}
<1>1. Lrecl \in Nat /\ Capacity \in Nat /\ size \in Nat
  BY BufferAssumption DEF FileInv
<1>2. PICK m : m = Cardinality(LineStarts)
  OBVIOUS
<1>3. m \in Nat
  BY <1>2, StartsAre
<1>4. \A q \in LineStarts : LengthOf(LineAt(q)) > Capacity <=> LineEnd(q) - q + 1 > Capacity
  <2>1. ASSUME NEW q \in LineStarts
        PROVE  LengthOf(LineAt(q)) > Capacity <=> LineEnd(q) - q + 1 > Capacity
    <3>1. PICK n : n = LineEnd(q) - q + 1
      OBVIOUS
    <3>2. n \in Nat
      <4>1. LineEnd(q) \in Nat /\ q - 1 <= LineEnd(q)
        BY LineEndIs
      <4>2. q \in Nat
        BY <1>1 DEF LineStarts
      <4>3. QED
        BY <3>1, <4>1, <4>2
    <3>3. LineAt(q) \in Seq(1 .. size) /\ Len(LineAt(q)) = Cut(n)
      BY <3>1, LineIs
    <3>4. LengthOf(LineAt(q)) = Cut(n)
      BY <3>3, NoGarbage DEF LengthOf
    <3>5. Cut(n) > Capacity <=> n > Capacity
      BY <1>1, <3>2 DEF Cut
    <3>6. QED
      BY <3>1, <3>4, <3>5
  <2>2. QED
    BY <2>1
<1>5. ASSUME LongLines # {} PROVE SomeTooLong(Expected)
  <2>1. PICK q \in LineStarts : LineEnd(q) - q + 1 > Capacity
    BY <1>5 DEF LongLines
  <2>2. PICK n : n = Cardinality(StartsUpTo(q))
    OBVIOUS
  <2>3. n \in 1 .. m /\ Lines[n] = LineAt(q)
    BY <1>2, <2>2, BeforeAndUpTo, LinesAre
  <2>4. Expected[n] = LineAt(q) /\ Expected \in Seq(RecordSet) /\ n \in DOMAIN Expected
    BY <1>2, <2>3, ExpectedAt
  <2>5. n \in 1 .. Len(Expected)
    BY <2>4
  <2>6. LengthOf(Expected[n]) > Capacity
    BY <1>4, <2>1, <2>4
  <2>7. QED
    BY <2>5, <2>6 DEF SomeTooLong
<1>6. ASSUME SomeTooLong(Expected) PROVE LongLines # {}
  <2>1. PICK n \in 1 .. Len(Expected) : LengthOf(Expected[n]) > Capacity
    BY <1>6 DEF SomeTooLong
  <2>2. n \in 1 .. m
    <3>1. Lines \in Seq(RecordSet) /\ Len(Lines) = m
      BY <1>2, LinesAre
    <3>2. CASE Expected = Lines
      BY <3>1, <3>2
    <3>3. CASE Expected = Append(Lines, <<>>)
      <4>1. PICK x, y : x = Lines /\ y = Append(x, <<>>)
        OBVIOUS
      <4>2. <<>> \in RecordSet
        BY DEF RecordSet
      <4>3. Len(y) = m + 1 /\ y[m + 1] = <<>> /\ y = Expected
        BY <1>3, <3>1, <3>3, <4>1, <4>2
      <4>4. LengthOf(<<>>) = 0
        BY DEF LengthOf, Garbage
      <4>5. n # m + 1
        BY <1>1, <2>1, <4>3, <4>4
      <4>6. QED
        BY <1>3, <4>3, <4>5
    <3>4. QED
      BY <3>2, <3>3 DEF Expected
  <2>3. PICK q \in LineStarts : Lines[n] = LineAt(q)
    BY <1>2, <2>2, LinesAre
  <2>4. Expected[n] = LineAt(q)
    BY <1>2, <2>2, <2>3, ExpectedAt
  <2>5. LineEnd(q) - q + 1 > Capacity
    BY <1>4, <2>1, <2>4
  <2>6. QED
    BY <2>5 DEF LongLines
<1>7. QED
  BY <1>5, <1>6

\* For every file that fits: write_record reports a cut on a V dataset exactly if a line
\* is longer than the data of a record, also a line that copy_into_record_buffer has cut
\* to the record length before.
THEOREM CutsAreReported == LineSpec => []CutIsReportedV
<1>1. ASSUME BuffersInv, CopiedInv, CutInv PROVE CutIsReportedV
  <2> SUFFICES ASSUME Capacity < Lrecl, pc = "done", Fits PROVE truncated <=> LongLines # {}
    BY DEF CutIsReportedV
  <2>1. records = Expected
    BY <1>1 DEF CopiedInv
  <2>2. SomeTooLong(Expected) <=> LongLines # {}
    BY <1>1, LongLinesAre DEF BuffersInv
  <2>3. QED
    BY <1>1, <2>1, <2>2 DEF CutInv
<1>2. BuffersInv /\ CopiedInv /\ [LineNext]_lineVars => CopiedInv'
  BY CopiedStep
<1>3. BuffersInv /\ CutInv /\ [LineNext]_lineVars => CutInv'
  BY CutStep
<1>4. QED
  BY <1>1, <1>2, <1>3, CopiedInit, CutInit, BuffersAlways, PTL DEF LineSpec

==============================================================================
