---------------------------- MODULE F2MCopy_proofs ----------------------------
(***************************************************************************)
(* Proofs about F2MCopy, for every table of files and every number of      *)
(* lines, and about FileMap, which fills that table, for every file.       *)
(***************************************************************************)
EXTENDS F2MCopy, FileMap, SequenceTheorems, FiniteSetTheorems, Lemmas, TLAPS

------------------------------------------------------------------------------
(* The inductive invariant                                                  *)

\* The file that write_member works on.
Writing(f) == pc \in {"lines", "stow"} /\ f = CurrentFile

\* f2m has not come to the end of this file, and may still do so.
Pending(f) ==
  \/ ext < ExtOf(f)
  \/ /\ ext = ExtOf(f)
     /\ pc = "open" \/ (pc \in {"file", "lines", "stow"} /\ file <= PlaceOf(f))

FailedBefore(f) ==
  \E g \in Files : ExtOf(g) = ExtOf(f) /\ ListedBefore(g, f) /\ outcome[g] = "failed"

\* Where the loops are, and which datasets they have opened.
LoopInv ==
  /\ pc = "open" => Dataset \notin opened
  /\ pc = "open" /\ ~map => opened = {}
  /\ \A d \in opened : d <= ext
  /\ pc = "close" /\ ~map => ext = Len(Table)
  /\ pc = "done" => ext = Len(Table) \/ (~map /\ opened = {})
  /\ pc = "open" /\ ~map => ext = 1

\* What is known of a file before and after the loops have passed it.
PassedInv ==
  \A f \in Files :
    IF Pending(f) THEN outcome[f] = "none"
    ELSE outcome[f] = "none" => DatasetOf(f) \notin opened \/ FailedBefore(f)

\* Records in the block are those of the file being written, at the end, and of
\* files whose flush has failed.
BlockInv ==
  /\ pc \in {"open", "stow", "done"} => block = <<>>
  /\ \A i \in 1 .. Len(block) :
       \/ /\ pc = "lines"
          /\ block[i].file = CurrentFile
          /\ \A j \in i .. Len(block) : block[j].file = CurrentFile
       \/ outcome[block[i].file] = "failed" /\ (~map \/ pc = "close")

\* Records on a dataset belong there, to files that were come to.
MediumInv ==
  \A d \in DatasetNames : \A i \in 1 .. Len(medium[d]) :
    LET f == medium[d][i].rec.file
    IN  /\ medium[d][i].ttr <= nblocks[d]
        /\ ~Pending(f) \/ Writing(f)

\* The records on the dataset and in the block, one after the other.
LogLen == Len(medium[Dataset]) + Len(block)

LogRec(i) == IF i <= Len(medium[Dataset])
               THEN medium[Dataset][i].rec
               ELSE block[i - Len(medium[Dataset])]

\* As long as no line was lost, the last records are the lines of this file.
LinesInv ==
  pc \in {"lines", "stow"} /\ ~truncated =>
    /\ line <= LogLen
    /\ \A i \in 1 .. LogLen :
         /\ LogRec(i).file = CurrentFile <=> i > LogLen - line
         /\ i > LogLen - line => LogRec(i).line = i - (LogLen - line)
    /\ pc = "stow" => line = lines[CurrentFile]

IInv ==
  /\ TypeOK /\ LoopInv /\ PassedInv /\ BlockInv /\ MediumInv /\ LinesInv
  /\ CopiedIsComplete /\ FilesKeptApart

------------------------------------------------------------------------------
(* The table                                                                *)

\* Every file has one place in the table.
LEMMA Places ==
  /\ DOMAIN Table = 1 .. Len(Table)
  /\ Len(Table) \in Nat \ {0}
  /\ \A e \in DOMAIN Table :
       /\ Len(Table[e]) \in Nat
       /\ DOMAIN Table[e] = 1 .. Len(Table[e])
       /\ \A i \in DOMAIN Table[e] :
            Table[e][i] \in Files /\ ExtOf(Table[e][i]) = e /\ PlaceOf(Table[e][i]) = i
  /\ \A f \in Files :
       /\ ExtOf(f) \in DOMAIN Table
       /\ PlaceOf(f) \in DOMAIN Table[ExtOf(f)]
       /\ Table[ExtOf(f)][PlaceOf(f)] = f
<1>1. /\ DOMAIN Table = 1 .. Len(Table)
      /\ Len(Table) \in Nat \ {0}
      /\ \A e \in DOMAIN Table : Table[e] \in Seq(Files)
  BY TableAssumption DEF IsFileTable
<1>2. ASSUME NEW f \in Files
      PROVE  /\ ExtOf(f) \in DOMAIN Table
             /\ PlaceOf(f) \in DOMAIN Table[ExtOf(f)]
             /\ Table[ExtOf(f)][PlaceOf(f)] = f
  <2>1. ExtOf(f) \in DOMAIN Table /\ \E i \in DOMAIN Table[ExtOf(f)] : Table[ExtOf(f)][i] = f
    BY TableAssumption DEF IsFileTable, ExtOf
  <2>2. QED
    BY <2>1 DEF PlaceOf
<1>3. ASSUME NEW e \in DOMAIN Table, NEW i \in DOMAIN Table[e]
      PROVE  Table[e][i] \in Files /\ ExtOf(Table[e][i]) = e /\ PlaceOf(Table[e][i]) = i
  <2>1. Table[e][i] \in Files
    BY <1>1
  <2>2. QED
    BY <2>1, <1>2, TableAssumption DEF IsFileTable
<1>4. QED
  BY <1>1, <1>2, <1>3

\* The file on which copy_files works.
LEMMA Current ==
  ASSUME TypeOK, file \in DOMAIN Table[ext]
  PROVE  /\ CurrentFile \in Files
         /\ ExtOf(CurrentFile) = ext
         /\ PlaceOf(CurrentFile) = file
         /\ DatasetOf(CurrentFile) = Dataset
         /\ \A f \in Files : ExtOf(f) = ext /\ PlaceOf(f) = file => f = CurrentFile
<1>1. ext \in DOMAIN Table
  BY Places DEF TypeOK
<1>2. QED
  BY <1>1, Places DEF CurrentFile, DatasetOf, Dataset

------------------------------------------------------------------------------
(* Types                                                                    *)

LEMMA PlacedType ==
  ASSUME NEW recs \in Seq(LineRecord), NEW ttr \in Nat
  PROVE  /\ Placed(recs, ttr) \in Seq(DiskRecord)
         /\ Len(Placed(recs, ttr)) = Len(recs)
         /\ \A i \in 1 .. Len(recs) : Placed(recs, ttr)[i] = [ttr |-> ttr, rec |-> recs[i]]
<1> USE DEF DiskRecord
<1>1. Placed(recs, ttr) = [i \in 1 .. Len(recs) |-> [ttr |-> ttr, rec |-> recs[i]]]
  BY DEF Placed
<1>2. \A i \in 1 .. Len(recs) : [ttr |-> ttr, rec |-> recs[i]] \in DiskRecord
  OBVIOUS
<1>3. Placed(recs, ttr) \in [1 .. Len(recs) -> DiskRecord]
  BY <1>1, <1>2
<1>4. QED
  BY <1>1, <1>3

LEMMA DatasetType ==
  ASSUME TypeOK
  PROVE  Dataset \in DatasetNames /\ DatasetNames \subseteq Nat
BY Places DEF TypeOK, Dataset, DatasetNames

\* What a written block leaves.
LEMMA BlockWrittenEffect ==
  ASSUME TypeOK, BlockWritten
  PROVE  LET M == medium[Dataset]
             n == nblocks[Dataset] + 1
         IN  /\ medium' \in [DatasetNames -> Seq(DiskRecord)]
             /\ nblocks' \in [DatasetNames -> Nat]
             /\ memstart_ttr' \in Nat
             /\ memstart_ttr_known' = TRUE
             /\ directory' = directory
             /\ \A d \in DatasetNames : d # Dataset => medium'[d] = medium[d] /\ nblocks'[d] = nblocks[d]
             /\ nblocks'[Dataset] = n
             /\ Len(M) \in Nat /\ Len(block) \in Nat
             /\ Len(medium'[Dataset]) = Len(M) + Len(block)
             /\ \A i \in 1 .. Len(M) : medium'[Dataset][i] = M[i]
             /\ \A i \in Len(M) + 1 .. Len(M) + Len(block) :
                  medium'[Dataset][i] = [ttr |-> n, rec |-> block[i - Len(M)]]
<1> DEFINE M == medium[Dataset]
           n == nblocks[Dataset] + 1
           P == Placed(block, n)
<1>1. /\ Dataset \in DatasetNames
      /\ M \in Seq(DiskRecord)
      /\ n \in Nat
      /\ block \in Seq(LineRecord)
  <2>1. Dataset \in DatasetNames
    BY DatasetType
  <2>2. /\ medium \in [DatasetNames -> Seq(DiskRecord)]
        /\ nblocks \in [DatasetNames -> Nat]
        /\ block \in Seq(LineRecord)
    BY DEF TypeOK
  <2>3. QED
    BY <2>1, <2>2
<1>2. /\ P \in Seq(DiskRecord)
      /\ Len(P) = Len(block)
      /\ \A i \in 1 .. Len(block) : P[i] = [ttr |-> n, rec |-> block[i]]
  BY <1>1, PlacedType
<1>3. /\ medium' = [medium EXCEPT ![Dataset] = M \o P]
      /\ nblocks' = [nblocks EXCEPT ![Dataset] = n]
      /\ memstart_ttr' = IF memstart_ttr_known THEN memstart_ttr ELSE n
      /\ memstart_ttr_known' = TRUE
      /\ directory' = directory
  BY DEF BlockWritten
<1> HIDE DEF P, n, M
<1>4. /\ M \o P \in Seq(DiskRecord)
      /\ Len(M \o P) = Len(M) + Len(block)
      /\ Len(M) \in Nat /\ Len(block) \in Nat
      /\ \A i \in 1 .. Len(M) : (M \o P)[i] = M[i]
      /\ \A i \in Len(M) + 1 .. Len(M) + Len(block) : (M \o P)[i] = P[i - Len(M)]
  <2>1. /\ M \o P \in Seq(DiskRecord)
        /\ Len(M \o P) = Len(M) + Len(P)
        /\ \A i \in 1 .. Len(M) + Len(P) :
             (M \o P)[i] = IF i <= Len(M) THEN M[i] ELSE P[i - Len(M)]
    <3>1. M \in Seq(DiskRecord) /\ P \in Seq(DiskRecord)
      BY <1>1, <1>2
    <3>2. QED
      BY <3>1, ConcatProperties
  <2>2. Len(M) \in Nat /\ Len(block) \in Nat
    BY <1>1
  <2>3. QED
    BY <2>1, <2>2, <1>2
<1>5. medium' \in [DatasetNames -> Seq(DiskRecord)]
  BY <1>1, <1>3, <1>4 DEF TypeOK
<1>6. /\ nblocks' \in [DatasetNames -> Nat]
      /\ memstart_ttr' \in Nat
  BY <1>1, <1>3 DEF TypeOK
<1>7. \A d \in DatasetNames : d # Dataset => medium'[d] = medium[d] /\ nblocks'[d] = nblocks[d]
  BY <1>1, <1>3 DEF TypeOK
<1>8. medium'[Dataset] = M \o P /\ nblocks'[Dataset] = n
  BY <1>1, <1>3 DEF TypeOK
<1>9. \A i \in Len(M) + 1 .. Len(M) + Len(block) :
        P[i - Len(M)] = [ttr |-> n, rec |-> block[i - Len(M)]]
  <2>1. TAKE i \in Len(M) + 1 .. Len(M) + Len(block)
  <2>2. i - Len(M) \in 1 .. Len(block)
    BY <1>4
  <2>3. QED
    BY <1>2, <2>2
<1>10. QED
  BY <1>3, <1>4, <1>5, <1>6, <1>7, <1>8, <1>9 DEF n, M

LEMMA BlockWrittenTypes ==
  ASSUME TypeOK, BlockWritten
  PROVE  /\ medium' \in [DatasetNames -> Seq(DiskRecord)]
         /\ nblocks' \in [DatasetNames -> Nat]
         /\ memstart_ttr' \in Nat /\ memstart_ttr_known' \in BOOLEAN
         /\ directory' \in [DatasetNames -> [Files -> Nat \cup {-1}]]
<1>1. directory' = directory /\ directory \in [DatasetNames -> [Files -> Nat \cup {-1}]]
  BY DEF BlockWritten, TypeOK
<1>2. /\ medium' \in [DatasetNames -> Seq(DiskRecord)]
      /\ nblocks' \in [DatasetNames -> Nat]
      /\ memstart_ttr' \in Nat /\ memstart_ttr_known' = TRUE
  BY BlockWrittenEffect
<1>3. QED
  BY <1>1, <1>2

\* The types that hold however far the program has come.
LEMMA CommonTypes ==
  ASSUME TypeOK
  PROVE  /\ ext \in DOMAIN Table /\ ext \in Nat /\ ext <= Len(Table)
         /\ file \in Nat \ {0}
         /\ pc \in {"lines", "stow"} => file \in DOMAIN Table[ext]
         /\ Dataset \in DatasetNames
         /\ \A f \in Files : DatasetOf(f) \in DatasetNames
BY Places, DatasetType DEF TypeOK, DatasetOf, DatasetNames

LEMMA AddLineType == TypeOK /\ AddLine => TypeOK'
<1> SUFFICES ASSUME TypeOK, AddLine PROVE TypeOK'
  OBVIOUS
<1>1. /\ pc = "lines" /\ file \in DOMAIN Table[ext] /\ line < lines[CurrentFile]
      /\ line' = line + 1
      /\ UNCHANGED <<map, lines, pc, ext, file, opened, outcome>>
  BY DEF AddLine, TypeOK
<1>2. CurrentFile \in Files /\ line \in 0 .. lines[CurrentFile] /\ lines[CurrentFile] \in Nat
  BY <1>1, Current DEF TypeOK
<1>3. CurrentFile' = CurrentFile /\ line' \in 0 .. lines'[CurrentFile']
  BY <1>1, <1>2 DEF CurrentFile
<1>4. ThisLine \in LineRecord
  BY <1>2 DEF ThisLine, LineRecord
<1>5. truncated' \in BOOLEAN
  BY DEF AddLine, AddLineDone, AddLineFailed, TypeOK
<1>6. /\ block' \in Seq(LineRecord)
      /\ memstart_ttr' \in Nat /\ memstart_ttr_known' \in BOOLEAN
      /\ medium' \in [DatasetNames -> Seq(DiskRecord)]
      /\ nblocks' \in [DatasetNames -> Nat]
      /\ directory' \in [DatasetNames -> [Files -> Nat \cup {-1}]]
  <2>1. CASE WriteRecordBuffered
    <3>1. Append(block, ThisLine) \in Seq(LineRecord)
      BY <1>4 DEF TypeOK
    <3>2. QED
      BY <2>1, <3>1 DEF WriteRecordBuffered, disk, TypeOK
  <2>2. CASE WriteRecordSpilled
    BY <2>2, <1>4, BlockWrittenTypes DEF WriteRecordSpilled
  <2>3. CASE WriteRecordFailed
    BY <2>3 DEF WriteRecordFailed, handle, disk, TypeOK
  <2>4. QED
    BY <2>1, <2>2, <2>3 DEF AddLine, AddLineDone, AddLineFailed
<1>7. QED
  BY <1>1, <1>3, <1>5, <1>6 DEF TypeOK

LEMMA FlushDoneType == TypeOK /\ FlushDone => TypeOK'
<1> SUFFICES ASSUME TypeOK, FlushDone PROVE TypeOK'
  OBVIOUS
<1>1. /\ pc = "lines" /\ pc' = "stow"
      /\ UNCHANGED <<map, lines, ext, file, line, truncated, opened, outcome>>
  BY DEF FlushDone
<1>2. CurrentFile' = CurrentFile
  BY <1>1 DEF CurrentFile
<1>3. /\ block' \in Seq(LineRecord)
      /\ memstart_ttr' \in Nat /\ memstart_ttr_known' \in BOOLEAN
      /\ medium' \in [DatasetNames -> Seq(DiskRecord)]
      /\ nblocks' \in [DatasetNames -> Nat]
      /\ directory' \in [DatasetNames -> [Files -> Nat \cup {-1}]]
  <2>1. CASE BlockWritten /\ block' = <<>>
    BY <2>1, BlockWrittenTypes
  <2>2. CASE UNCHANGED <<handle, disk>>
    BY <2>2 DEF handle, disk, TypeOK
  <2>3. QED
    BY <2>1, <2>2 DEF FlushDone
<1>4. QED
  BY <1>1, <1>2, <1>3 DEF TypeOK

\* How copy_files goes on, and how it returns.
LEMMA LoopTypes ==
  ASSUME TypeOK, NextFile \/ ReturnFromCopyFiles
  PROVE  ext' \in 1 .. Len(Table) /\ file' \in Nat \ {0} /\ pc' \in {"file", "close"}
BY Places DEF TypeOK, NextFile, ReturnFromCopyFiles

\* The end of a file, however it comes.
FileEnds(o) ==
  /\ pc \in {"file", "lines", "stow"}
  /\ file \in DOMAIN Table[ext]
  /\ outcome' = [outcome EXCEPT ![CurrentFile] = o]
  /\ UNCHANGED <<map, lines, line, truncated, handle, medium, nblocks, opened>>

LEMMA FileEndType ==
  ASSUME TypeOK, NEW o \in {"skipped", "failed", "cut", "copied"}, FileEnds(o),
         NextFile \/ ReturnFromCopyFiles,
         directory' \in [DatasetNames -> [Files -> Nat \cup {-1}]]
  PROVE  TypeOK'
<1>1. ext' \in 1 .. Len(Table) /\ file' \in Nat \ {0} /\ pc' \in {"file", "close"}
  BY LoopTypes
<1>2. outcome' \in [Files -> {"none", "skipped", "failed", "cut", "copied"}]
  BY Current DEF TypeOK, FileEnds
<1>3. QED
  BY <1>1, <1>2 DEF TypeOK, FileEnds, handle

\* The actions that end a file.
EndFile == FlushFailed \/ Stowed \/ NotStowed \/ SkipFile \/ OpenFileFailed

LEMMA FileSteps ==
  ASSUME TypeOK, EndFile
  PROVE  /\ \/ \E o \in {"skipped", "cut", "copied"} : FileEnds(o) /\ NextFile
            \/ FileEnds("failed") /\ ReturnFromCopyFiles
         /\ directory' \in [DatasetNames -> [Files -> Nat \cup {-1}]]
<1>1. CASE FlushFailed
  BY <1>1 DEF FlushFailed, FileEnds, TypeOK, disk
<1>2. CASE Stowed
  <2>1. CurrentFile \in Files /\ Dataset \in DatasetNames /\ memstart_ttr \in Nat
    BY <1>2, Current, DatasetType DEF Stowed, TypeOK
  <2>2. directory' \in [DatasetNames -> [Files -> Nat \cup {-1}]]
    BY <1>2, <2>1 DEF Stowed, TypeOK
  <2>3. QED
    BY <1>2, <2>2 DEF Stowed, MemberDone, MemberFailed, FileEnds, TypeOK
<1>3. CASE NotStowed
  BY <1>3 DEF NotStowed, MemberDone, MemberFailed, FileEnds, TypeOK, disk
<1>4. CASE SkipFile
  BY <1>4 DEF SkipFile, FileEnds, TypeOK, disk
<1>5. CASE OpenFileFailed
  BY <1>5 DEF OpenFileFailed, FileEnds, TypeOK, disk
<1>6. QED
  BY <1>1, <1>2, <1>3, <1>4, <1>5 DEF EndFile

LEMMA TypeStep == TypeOK /\ [Next]_vars => TypeOK'
<1> SUFFICES ASSUME TypeOK, [Next]_vars PROVE TypeOK'
  OBVIOUS
<1>1. CASE AddLine
  BY <1>1, AddLineType
<1>2. CASE FlushDone
  BY <1>2, FlushDoneType
<1>3. CASE EndFile
  BY <1>3, FileSteps, FileEndType
<1>4. CASE OpenFile
  <2>1. CurrentFile' = CurrentFile /\ CurrentFile \in Files /\ file \in DOMAIN Table[ext]
    BY <1>4, Current DEF OpenFile, CurrentFile
  <2>2. /\ pc' = "lines" /\ truncated' = FALSE /\ line' = 0
        /\ UNCHANGED <<map, lines, ext, file, handle, disk, opened, outcome>>
    BY <1>4 DEF OpenFile
  <2>3. file' \in DOMAIN Table[ext'] /\ line' \in 0 .. lines'[CurrentFile']
    BY <2>1, <2>2 DEF TypeOK
  <2>4. QED
    BY <2>2, <2>3 DEF TypeOK, handle, disk
<1>5. CASE LastFileDone
  <2>1. ext' \in 1 .. Len(Table) /\ file' \in Nat \ {0} /\ pc' \in {"file", "close"}
    BY <1>5, LoopTypes DEF LastFileDone
  <2>2. QED
    BY <1>5, <2>1 DEF LastFileDone, TypeOK, handle, disk
<1>6. CASE OpenDataset
  <2>1. Dataset \in DatasetNames
    BY DatasetType
  <2>2. block' \in Seq(LineRecord)
    BY <1>6 DEF OpenDataset
  <2>3. opened' \subseteq DatasetNames
    BY <1>6, <2>1 DEF OpenDataset, TypeOK
  <2>4. /\ pc' = "file" /\ file' = 1 /\ memstart_ttr' = 0 /\ memstart_ttr_known' \in BOOLEAN
        /\ UNCHANGED <<map, lines, ext, line, truncated, disk, outcome>>
    BY <1>6 DEF OpenDataset
  <2>5. QED
    BY <2>2, <2>3, <2>4 DEF TypeOK, disk
<1>7. CASE OpenDatasetFailed
  BY <1>7, Places DEF OpenDatasetFailed, NextDataset, TypeOK, handle, disk
<1>8. CASE ClosePds
  BY <1>8, Places DEF ClosePds, NextDataset, TypeOK, disk
<1>9. CASE UNCHANGED vars
  BY <1>9 DEF vars, control, handle, disk, TypeOK, CurrentFile
<1>10. QED
  BY <1>1, <1>2, <1>3, <1>4, <1>5, <1>6, <1>7, <1>8, <1>9 DEF Next, EndFile, Finished

LEMMA InitType == Init => TypeOK
<1> SUFFICES ASSUME Init PROVE TypeOK
  OBVIOUS
<1>1. block \in Seq(LineRecord)
  BY DEF Init
<1>2. medium \in [DatasetNames -> Seq(DiskRecord)]
  BY DEF Init
<1>3. /\ nblocks \in [DatasetNames -> Nat]
      /\ directory \in [DatasetNames -> [Files -> Nat \cup {-1}]]
      /\ outcome \in [Files -> {"none", "skipped", "failed", "cut", "copied"}]
  BY DEF Init
<1>4. /\ map \in BOOLEAN /\ lines \in [Files -> 0 .. MaxLines]
      /\ pc = "open" /\ ext \in 1 .. Len(Table) /\ file \in Nat \ {0}
      /\ memstart_ttr \in Nat
  BY Places DEF Init
<1>5. opened \subseteq DatasetNames
  BY DEF Init
<1>6. truncated \in BOOLEAN /\ memstart_ttr_known \in BOOLEAN
  BY DEF Init
<1>7. QED
  BY <1>1, <1>2, <1>3, <1>4, <1>5, <1>6 DEF TypeOK

\* The sets from which the variables take their values.
THEOREM TypeCorrect == Spec => []TypeOK
BY InitType, TypeStep, PTL DEF Spec

------------------------------------------------------------------------------
(* What a step does to the order of the files                               *)

\* The file that is worked on is pending.
LEMMA CurrentIsPending ==
  ASSUME TypeOK, pc \in {"file", "lines", "stow"}, file \in DOMAIN Table[ext]
  PROVE  CurrentFile \in Files /\ Pending(CurrentFile)
<1>1. CurrentFile \in Files /\ ExtOf(CurrentFile) = ext /\ PlaceOf(CurrentFile) = file
  BY Current
<1>2. file \in Nat
  BY DEF TypeOK
<1> HIDE DEF Pending
<1>3. QED
  BY <1>1, <1>2 DEF Pending

LEMMA AfterReturn ==
  ASSUME TypeOK, pc \in {"file", "lines", "stow"}, ReturnFromCopyFiles, UNCHANGED map
  PROVE  /\ Dataset' = Dataset
         /\ \A f \in Files : Pending(f)' <=> ext < ExtOf(f)
<1>1. \A f \in Files : PlaceOf(f) \in Nat \ {0} /\ ExtOf(f) \in 1 .. Len(Table)
  BY Places
<1>2. CASE ~map /\ ext < Len(Table)
  BY <1>1, <1>2 DEF ReturnFromCopyFiles, Pending, TypeOK, Dataset
<1>3. CASE ~(~map /\ ext < Len(Table))
  BY <1>1, <1>3 DEF ReturnFromCopyFiles, Pending, TypeOK, Dataset
<1>4. QED
  BY <1>2, <1>3

LEMMA AfterNextFile ==
  ASSUME TypeOK, pc \in {"file", "lines", "stow"}, file \in DOMAIN Table[ext],
         NextFile, UNCHANGED map
  PROVE  /\ Dataset' = Dataset
         /\ \A f \in Files : Pending(f)' <=> Pending(f) /\ f # CurrentFile
<1>1. \A f \in Files : PlaceOf(f) \in Nat \ {0} /\ ExtOf(f) \in 1 .. Len(Table)
  BY Places
<1>2. CurrentFile \in Files /\ \A f \in Files : f = CurrentFile <=> ExtOf(f) = ext /\ PlaceOf(f) = file
  BY Current
<1>3. QED
  BY <1>1, <1>2 DEF NextFile, Pending, TypeOK, Dataset

\* A step that passes no file.
PassesNone ==
  /\ UNCHANGED <<map, lines, outcome>>
  /\ \A f \in Files : Pending(f)' <=> Pending(f)
  /\ \A f \in Files : Writing(f) => Writing(f)'
  /\ \A d \in opened' : d \in opened \/ (pc = "open" /\ d = Dataset)

\* A step that ends one file and goes on.
PassesOne ==
  /\ UNCHANGED <<map, lines, opened>>
  /\ CurrentFile \in Files /\ Pending(CurrentFile)
  /\ \E o \in {"skipped", "cut", "copied"} : outcome' = [outcome EXCEPT ![CurrentFile] = o]
  /\ \A f \in Files : Pending(f)' <=> Pending(f) /\ f # CurrentFile

\* A step that gives up an extension, at the file it failed.
PassesFailed ==
  /\ UNCHANGED <<map, lines, opened>>
  /\ CurrentFile \in Files /\ Pending(CurrentFile) /\ ExtOf(CurrentFile) = ext
  /\ outcome' = [outcome EXCEPT ![CurrentFile] = "failed"]
  /\ \A f \in Files : Pending(f)' <=> ext < ExtOf(f)
  /\ \A f \in Files : Pending(f) => ext < ExtOf(f) \/ (ext = ExtOf(f) /\ PlaceOf(CurrentFile) <= PlaceOf(f))

\* A step that gives up an extension whose dataset was not opened.
PassesDataset ==
  /\ UNCHANGED <<map, lines, outcome, opened>>
  /\ pc = "open"
  /\ \A f \in Files : Pending(f)' <=> ext < ExtOf(f)

LEMMA StepPasses ==
  ASSUME TypeOK, [Next]_vars
  PROVE  PassesNone \/ PassesOne \/ PassesFailed \/ PassesDataset
<1>1. \A f \in Files : PlaceOf(f) \in Nat \ {0} /\ ExtOf(f) \in 1 .. Len(Table)
  BY Places
<1>2. CASE AddLine \/ FlushDone
  <2>1. /\ pc = "lines" /\ pc' \in {"lines", "stow"}
        /\ UNCHANGED <<map, lines, ext, file, opened, outcome>>
    BY <1>2 DEF AddLine, FlushDone
  <2>2. PassesNone
    BY <2>1 DEF PassesNone, Pending, Writing, CurrentFile
  <2>3. QED
    BY <2>2
<1>3. CASE EndFile
  <2>1. CASE \E o \in {"skipped", "cut", "copied"} : FileEnds(o) /\ NextFile
    <3>1. PassesOne
      BY <2>1, AfterNextFile, CurrentIsPending DEF FileEnds, PassesOne
    <3>2. QED
      BY <3>1
  <2>2. CASE FileEnds("failed") /\ ReturnFromCopyFiles
    <3>1. CurrentFile \in Files /\ ExtOf(CurrentFile) = ext /\ PlaceOf(CurrentFile) = file
      BY <2>2, Current DEF FileEnds
    <3>2. \A f \in Files : Pending(f) => ext < ExtOf(f) \/ (ext = ExtOf(f) /\ file <= PlaceOf(f))
      BY <2>2 DEF FileEnds, Pending
    <3>3. Pending(CurrentFile) /\ \A f \in Files : Pending(f)' <=> ext < ExtOf(f)
      BY <2>2, AfterReturn, CurrentIsPending DEF FileEnds
    <3>4. PassesFailed
      BY <2>2, <3>1, <3>2, <3>3 DEF FileEnds, PassesFailed
    <3>5. QED
      BY <3>4
  <2>3. QED
    BY <1>3, <2>1, <2>2, FileSteps
<1>4. CASE OpenFile
  <2>1. /\ pc = "file" /\ pc' = "lines"
        /\ UNCHANGED <<map, lines, ext, file, opened, outcome>>
    BY <1>4 DEF OpenFile
  <2>2. PassesNone
    BY <2>1 DEF PassesNone, Pending, Writing
  <2>3. QED
    BY <2>2
<1>5. CASE LastFileDone
  <2>1. /\ pc = "file" /\ file \in Nat \ {0} /\ file \notin DOMAIN Table[ext]
        /\ UNCHANGED <<map, lines, opened, outcome>>
    BY <1>5 DEF LastFileDone, TypeOK
  <2>2. \A f \in Files : Pending(f)' <=> ext < ExtOf(f)
    BY <1>5, <2>1, AfterReturn DEF LastFileDone
  <2>3. \A f \in Files : ~(ext = ExtOf(f) /\ file <= PlaceOf(f))
    BY <2>1, Places
  <2>4. \A f \in Files : Pending(f) <=> ext < ExtOf(f)
    BY <2>1, <2>3 DEF Pending
  <2>5. PassesNone
    BY <2>1, <2>2, <2>4 DEF PassesNone, Writing
  <2>6. QED
    BY <2>5
<1>6. CASE OpenDataset
  <2>1. /\ pc = "open" /\ pc' = "file" /\ file' = 1 /\ opened' = opened \cup {Dataset}
        /\ UNCHANGED <<map, lines, ext, outcome>>
    BY <1>6 DEF OpenDataset
  <2>2. \A f \in Files : Pending(f)' <=> Pending(f)
    BY <1>1, <2>1 DEF Pending
  <2>3. PassesNone
    BY <2>1, <2>2 DEF PassesNone, Writing
  <2>4. QED
    BY <2>3
<1>7. CASE OpenDatasetFailed
  <2>1. /\ pc = "open" /\ NextDataset
        /\ UNCHANGED <<map, lines, opened, outcome>>
    BY <1>7 DEF OpenDatasetFailed
  <2>2. \A f \in Files : Pending(f)' <=> ext < ExtOf(f)
    BY <1>1, <2>1 DEF Pending, NextDataset, TypeOK
  <2>3. PassesDataset
    BY <2>1, <2>2 DEF PassesDataset
  <2>4. QED
    BY <2>3
<1>8. CASE ClosePds
  <2>1. /\ pc = "close" /\ NextDataset
        /\ UNCHANGED <<map, lines, opened, outcome>>
    BY <1>8 DEF ClosePds
  <2>2. \A f \in Files : Pending(f)' <=> Pending(f)
    BY <1>1, <2>1 DEF Pending, NextDataset, TypeOK
  <2>3. PassesNone
    BY <2>1, <2>2 DEF PassesNone, Writing
  <2>4. QED
    BY <2>3
<1>9. CASE UNCHANGED vars
  <2>1. PassesNone
    BY <1>9 DEF vars, control, handle, disk, PassesNone, Pending, Writing, CurrentFile
  <2>2. QED
    BY <2>1
<1>10. QED
  BY <1>2, <1>3, <1>4, <1>5, <1>6, <1>7, <1>8, <1>9 DEF Next, EndFile, Finished

\* What every step keeps: no file becomes pending again, only a pending file
\* gets an outcome, and a file is written until it is done with.
LEMMA Progress ==
  ASSUME TypeOK, PassedInv, [Next]_vars
  PROVE  /\ UNCHANGED <<map, lines>>
         /\ \A f \in Files :
              /\ Pending(f)' => Pending(f) /\ outcome'[f] = outcome[f]
              /\ outcome[f] # "none" => ~Pending(f) /\ outcome'[f] = outcome[f]
              /\ ~Pending(f) => outcome'[f] = outcome[f]
<1>1. \A f \in Files : Pending(f) => outcome[f] = "none"
  BY DEF PassedInv
<1>2. CASE PassesNone
  BY <1>1, <1>2 DEF PassesNone
<1>3. CASE PassesOne
  <2>1. PICK o \in {"skipped", "cut", "copied"} : outcome' = [outcome EXCEPT ![CurrentFile] = o]
    BY <1>3 DEF PassesOne
  <2>2. \A f \in Files : f # CurrentFile => outcome'[f] = outcome[f]
    BY <2>1 DEF TypeOK
  <2>3. QED
    BY <1>1, <1>3, <2>2 DEF PassesOne
<1>4. CASE PassesFailed
  <2> PICK c \in Files : c = CurrentFile
    BY <1>4 DEF PassesFailed
  <2>1. \A f \in Files : f # c => outcome'[f] = outcome[f]
    BY <1>4 DEF PassesFailed, TypeOK
  <2>2. ext \in Nat /\ \A f \in Files : ExtOf(f) \in Nat
    BY CommonTypes, Places
  <2>3. Pending(c) /\ ~Pending(c)'
    BY <1>4, <2>2 DEF PassesFailed
  <2>4. \A f \in Files : Pending(f)' => Pending(f)
    BY <1>4 DEF PassesFailed, Pending
  <2>5. UNCHANGED <<map, lines>>
    BY <1>4 DEF PassesFailed
  <2>6. QED
    BY <1>1, <2>1, <2>3, <2>4, <2>5
<1>5. CASE PassesDataset
  BY <1>1, <1>5 DEF PassesDataset, Pending
<1>6. QED
  BY <1>2, <1>3, <1>4, <1>5, StepPasses

\* A failure before a file stays one.
LEMMA FailedStays ==
  ASSUME TypeOK, PassedInv, [Next]_vars, NEW f \in Files
  PROVE  FailedBefore(f) => FailedBefore(f)'
<1>1. \A g \in Files : outcome[g] = "failed" => outcome'[g] = "failed"
  BY Progress
<1>2. QED
  BY <1>1 DEF FailedBefore, ListedBefore

------------------------------------------------------------------------------
(* The files that the loops have passed                                     *)

LEMMA LoopStep == TypeOK /\ LoopInv /\ [Next]_vars => LoopInv'
<1> SUFFICES ASSUME TypeOK, LoopInv, [Next]_vars PROVE LoopInv'
  OBVIOUS
<1>1. ext \in 1 .. Len(Table) /\ opened \subseteq Nat /\ Len(Table) \in Nat
  BY Places DEF TypeOK, DatasetNames
<1>2. CASE AddLine \/ FlushDone \/ OpenFile
  <2>1. /\ pc' \in {"lines", "stow"}
        /\ UNCHANGED <<map, ext, opened>>
    BY <1>2 DEF AddLine, FlushDone, OpenFile
  <2>2. QED
    BY <2>1 DEF LoopInv
<1>3. CASE EndFile \/ LastFileDone
  <2>1. pc \in {"file", "lines", "stow"} /\ UNCHANGED <<map, opened>> /\ (NextFile \/ ReturnFromCopyFiles)
    BY <1>3, FileSteps DEF FileEnds, LastFileDone
  <2>2. CASE NextFile
    BY <2>1, <2>2 DEF LoopInv, NextFile
  <2>3. CASE ReturnFromCopyFiles
    BY <1>1, <2>1, <2>3 DEF LoopInv, ReturnFromCopyFiles
  <2>4. QED
    BY <2>1, <2>2, <2>3
<1>4. CASE OpenDataset
  BY <1>1, <1>4 DEF OpenDataset, LoopInv, Dataset
<1>5. CASE OpenDatasetFailed \/ ClosePds
  <2>1. pc \in {"open", "close"} /\ NextDataset /\ UNCHANGED <<map, opened>>
    BY <1>5 DEF OpenDatasetFailed, ClosePds
  <2>2. QED
    BY <1>1, <2>1 DEF NextDataset, LoopInv, Dataset
<1>6. CASE UNCHANGED vars
  BY <1>6 DEF vars, control, LoopInv, Dataset
<1>7. QED
  BY <1>2, <1>3, <1>4, <1>5, <1>6 DEF Next, EndFile, Finished

LEMMA PassedStep == TypeOK /\ LoopInv /\ PassedInv /\ [Next]_vars => PassedInv'
<1> SUFFICES ASSUME TypeOK, LoopInv, PassedInv, [Next]_vars, NEW f \in Files
             PROVE  IF Pending(f)' THEN outcome'[f] = "none"
                    ELSE outcome'[f] = "none" => DatasetOf(f)' \notin opened' \/ FailedBefore(f)'
  BY DEF PassedInv
<1>1. CASE Pending(f)'
  BY <1>1, Progress DEF PassedInv
<1>2. DatasetOf(f)' = DatasetOf(f)
  BY Progress DEF DatasetOf
<1>3. ext \in Nat /\ PlaceOf(f) \in Nat /\ ExtOf(f) \in 1 .. Len(Table) /\ Len(Table) \in Nat
  BY CommonTypes, Places
\* The step passes the file: it was pending before.
<1>4. ASSUME ~Pending(f)', Pending(f), outcome'[f] = "none"
      PROVE  DatasetOf(f)' \notin opened' \/ FailedBefore(f)'
  <2>1. CASE PassesNone
    BY <1>4, <2>1 DEF PassesNone
  <2>2. CASE PassesOne
    BY <1>4, <2>2 DEF PassesOne, TypeOK
  <2>3. CASE PassesFailed
    <3> DEFINE c == CurrentFile
    <3>1. /\ c \in Files /\ ExtOf(c) = ext
          /\ outcome' = [outcome EXCEPT ![c] = "failed"]
      BY <2>3 DEF PassesFailed
    <3>2. outcome'[c] = "failed" /\ c # f
      BY <1>4, <3>1 DEF TypeOK
    <3>3. ext = ExtOf(f) /\ PlaceOf(c) <= PlaceOf(f)
      BY <1>4, <2>3 DEF PassesFailed
    <3>4. PlaceOf(c) # PlaceOf(f)
      BY <3>1, <3>2, <3>3, Places
    <3> HIDE DEF c
    <3>5. PlaceOf(c) \in Nat /\ PlaceOf(c) < PlaceOf(f)
      BY <1>3, <3>1, <3>3, <3>4, Places
    <3>6. QED
      BY <3>1, <3>2, <3>3, <3>5 DEF FailedBefore, ListedBefore
  <2>4. CASE PassesDataset
    <3>1. pc = "open" /\ Dataset \notin opened /\ opened' = opened /\ ~(ext < ExtOf(f))
      BY <1>4, <2>4 DEF PassesDataset, LoopInv
    <3>2. ext = ExtOf(f)
      BY <1>3, <1>4, <3>1 DEF Pending
    <3>3. DatasetOf(f) = Dataset
      BY <3>2 DEF DatasetOf, Dataset
    <3>4. QED
      BY <1>2, <3>1, <3>3
  <2>5. QED
    BY <2>1, <2>2, <2>3, <2>4, StepPasses
\* It was passed before, and its dataset is not opened any more.
<1>5. ASSUME ~Pending(f), DatasetOf(f) \notin opened PROVE DatasetOf(f) \notin opened'
  <2>1. CASE PassesNone
    <3>1. SUFFICES ASSUME pc = "open", DatasetOf(f) = Dataset PROVE FALSE
      BY <1>5, <2>1 DEF PassesNone
    <3>2. CASE map
      BY <1>5, <3>1, <3>2 DEF DatasetOf, Dataset, Pending
    <3>3. CASE ~map
      BY <1>3, <1>5, <3>1, <3>3 DEF LoopInv, Pending
    <3>4. QED
      BY <3>2, <3>3
  <2>2. CASE UNCHANGED opened
    BY <1>5, <2>2
  <2>3. QED
    BY <2>1, <2>2, StepPasses DEF PassesOne, PassesFailed, PassesDataset
<1>6. ASSUME ~Pending(f), outcome'[f] = "none"
      PROVE  DatasetOf(f)' \notin opened' \/ FailedBefore(f)'
  <2>1. outcome[f] = "none"
    BY <1>6, Progress
  <2>2. DatasetOf(f) \notin opened \/ FailedBefore(f)
    BY <1>6, <2>1 DEF PassedInv
  <2>3. QED
    BY <1>2, <1>5, <1>6, <2>2, FailedStays
<1>7. QED
  BY <1>1, <1>4, <1>6

\* The loops end with no file passed over: whatever they did not try lies on a
\* dataset that was not opened, or after a file that failed.
LEMMA PassedIsTried == TypeOK /\ LoopInv /\ PassedInv => EveryFileTried
<1> SUFFICES ASSUME TypeOK, LoopInv, PassedInv, pc = "done",
                    NEW f \in Files, outcome[f] = "none"
             PROVE  DatasetOf(f) \notin opened \/ FailedBefore(f)
  BY DEF EveryFileTried, FailedBefore
<1>1. CASE ~Pending(f)
  BY <1>1 DEF PassedInv
<1>2. CASE Pending(f)
  <2>1. ext < ExtOf(f)
    BY <1>2 DEF Pending
  <2>2. ext # Len(Table)
    BY <2>1, Places, CommonTypes
  <2>3. QED
    BY <2>2 DEF LoopInv
<1>3. QED
  BY <1>1, <1>2

LEMMA LoopsInit == Init => LoopInv /\ PassedInv
<1> SUFFICES ASSUME Init PROVE LoopInv /\ PassedInv
  OBVIOUS
<1>1. LoopInv
  BY DEF Init, LoopInv
<1>2. ASSUME NEW f \in Files PROVE 1 < ExtOf(f) \/ 1 = ExtOf(f)
  <2>1. ExtOf(f) \in 1 .. Len(Table) /\ Len(Table) \in Nat
    BY Places
  <2>2. QED
    BY <2>1
<1>3. \A f \in Files : Pending(f)
  <2>1. ext = 1 /\ pc = "open"
    BY DEF Init
  <2>2. QED
    BY <1>2, <2>1 DEF Pending
<1>4. \A f \in Files : outcome[f] = "none"
  BY DEF Init
<1>5. QED
  BY <1>1, <1>3, <1>4 DEF PassedInv

\* f2m stops short of a file only where its dataset could not be opened or a
\* file before it in its extension failed.
THEOREM FilesAreTried == Spec => []EveryFileTried
<1>1. Init => TypeOK
  BY InitType
<1>2. TypeOK /\ LoopInv /\ PassedInv /\ [Next]_vars => (TypeOK /\ LoopInv /\ PassedInv)'
  BY TypeStep, LoopStep, PassedStep
<1>3. QED
  BY <1>1, <1>2, LoopsInit, PassedIsTried, PTL DEF Spec

------------------------------------------------------------------------------
(* The records in the block and on the medium                               *)

\* Records in the block that are not of the file being written were left there
\* by a failed flush, so they are not of a file that is pending.
LEMMA BlockFiles ==
  ASSUME TypeOK, BlockInv, NEW i \in 1 .. Len(block)
  PROVE  block[i].file \in Files
<1>1. block \in Seq(LineRecord)
  BY DEF TypeOK
<1>2. block[i] \in LineRecord
  BY <1>1
<1>3. QED
  BY <1>2 DEF LineRecord

LEMMA AppendBlock ==
  ASSUME TypeOK, ThisLine \in LineRecord, block' = Append(block, ThisLine)
  PROVE  /\ Len(block) \in Nat /\ Len(block') = Len(block) + 1
         /\ \A i \in 1 .. Len(block) : block'[i] = block[i]
         /\ block'[Len(block) + 1] = ThisLine
BY AppendProperties DEF TypeOK

LEMMA LineOfCurrent ==
  ASSUME TypeOK, AddLine
  PROVE  /\ ThisLine \in LineRecord
         /\ ThisLine.file = CurrentFile /\ ThisLine.line = line + 1
         /\ CurrentFile' = CurrentFile /\ Dataset' = Dataset
<1>1. /\ file \in DOMAIN Table[ext] /\ line \in Nat
      /\ UNCHANGED <<ext, file, map>>
  BY Current DEF AddLine, TypeOK
<1>2. CurrentFile \in Files
  BY <1>1, Current
<1>3. QED
  BY <1>1, <1>2 DEF ThisLine, LineRecord, CurrentFile, Dataset

LEMMA BlockStep == TypeOK /\ PassedInv /\ BlockInv /\ [Next]_vars => BlockInv'
<1> SUFFICES ASSUME TypeOK, PassedInv, BlockInv, [Next]_vars PROVE BlockInv'
  OBVIOUS
<1>1. CASE AddLine
  <2>1. /\ pc = "lines" /\ UNCHANGED <<map, pc, outcome>>
    BY <1>1 DEF AddLine
  <2>2. ThisLine \in LineRecord /\ ThisLine.file = CurrentFile /\ CurrentFile' = CurrentFile
    BY <1>1, LineOfCurrent
  <2>3. CASE WriteRecordBuffered
    <3>1. /\ Len(block) \in Nat /\ Len(block') = Len(block) + 1
          /\ \A i \in 1 .. Len(block) : block'[i] = block[i]
          /\ block'[Len(block) + 1] = ThisLine
      BY <2>2, <2>3, AppendBlock DEF WriteRecordBuffered
    <3>2. QED
      BY <2>1, <2>2, <3>1 DEF BlockInv
  <2>4. CASE WriteRecordSpilled
    <3>1. Len(block') = 1 /\ block'[1] = ThisLine
      BY <2>4 DEF WriteRecordSpilled
    <3>2. QED
      BY <2>1, <2>2, <3>1 DEF BlockInv
  <2>5. CASE WriteRecordFailed
    BY <2>1, <2>2, <2>5 DEF WriteRecordFailed, handle, BlockInv
  <2>6. QED
    BY <1>1, <2>3, <2>4, <2>5 DEF AddLine, AddLineDone, AddLineFailed
<1>2. CASE FlushDone \/ OpenDataset
  <2>1. block' = <<>>
    BY <1>2 DEF FlushDone, OpenDataset, handle
  <2>2. QED
    BY <2>1 DEF BlockInv
<1>3. CASE OpenDatasetFailed \/ ClosePds
  <2>1. block' = <<>>
    BY <1>3 DEF OpenDatasetFailed, ClosePds, BlockInv, handle
  <2>2. QED
    BY <2>1 DEF BlockInv
<1>4. ASSUME UNCHANGED <<block, map>>, pc' \notin {"open", "stow", "done"}, pc # "close", pc # "lines"
      PROVE  BlockInv'
  <2>1. \A i \in 1 .. Len(block) : block[i].file \in Files /\ outcome[block[i].file] = "failed" /\ ~map
    BY <1>4, BlockFiles DEF BlockInv
  <2>2. \A i \in 1 .. Len(block) : outcome'[block[i].file] = "failed"
    BY <2>1, Progress
  <2>3. QED
    BY <1>4, <2>1, <2>2 DEF BlockInv
<1>5. CASE EndFile
  <2>1. /\ UNCHANGED <<block, map>> /\ pc \in {"file", "lines", "stow"}
        /\ pc' \in {"file", "close"}
    BY <1>5, FileSteps, LoopTypes DEF FileEnds, handle
  <2>2. CASE pc # "lines"
    BY <1>4, <2>1, <2>2
  <2>3. CASE pc = "lines"
    <3>1. /\ outcome' = [outcome EXCEPT ![CurrentFile] = "failed"]
          /\ ReturnFromCopyFiles
      BY <1>5, <2>3 DEF EndFile, FlushFailed, Stowed, NotStowed, SkipFile, OpenFileFailed
    <3>2. ~map \/ pc' = "close"
      BY <3>1 DEF ReturnFromCopyFiles
    <3>3. \A i \in 1 .. Len(block) : outcome'[block[i].file] = "failed"
      BY <2>3, <3>1, BlockFiles DEF BlockInv, TypeOK
    <3>4. QED
      BY <2>1, <3>2, <3>3 DEF BlockInv
  <2>4. QED
    BY <2>2, <2>3
<1>6. CASE OpenFile \/ LastFileDone
  <2>1. UNCHANGED <<block, map>> /\ pc = "file" /\ pc' \in {"lines", "file", "close"}
    BY <1>6, LoopTypes DEF OpenFile, LastFileDone, handle
  <2>2. QED
    BY <1>4, <2>1
<1>7. CASE UNCHANGED vars
  BY <1>7 DEF vars, control, handle, BlockInv, CurrentFile
<1>8. QED
  BY <1>1, <1>2, <1>3, <1>5, <1>6, <1>7 DEF Next, EndFile, Finished

LEMMA MediumFiles ==
  ASSUME TypeOK, NEW d \in DatasetNames
  PROVE  /\ Len(medium[d]) \in Nat /\ DOMAIN medium[d] = 1 .. Len(medium[d])
         /\ nblocks[d] \in Nat
         /\ \A i \in 1 .. Len(medium[d]) :
              medium[d][i].ttr \in Nat /\ medium[d][i].rec.file \in Files
<1>1. medium[d] \in Seq(DiskRecord) /\ nblocks[d] \in Nat
  BY DEF TypeOK
<1>2. \A i \in 1 .. Len(medium[d]) : medium[d][i] \in DiskRecord
  BY <1>1
<1>3. QED
  BY <1>1, <1>2 DEF DiskRecord, LineRecord

\* A step leaves the medium alone or writes the block there.
LEMMA MediumGrows ==
  ASSUME TypeOK, [Next]_vars
  PROVE  \/ UNCHANGED <<medium, nblocks>>
         \/ pc = "lines" /\ pc' \in {"lines", "stow"}
            /\ BlockWritten /\ UNCHANGED <<map, ext, file, outcome>>
<1>1. CASE AddLine
  BY <1>1 DEF AddLine, AddLineDone, AddLineFailed, WriteRecordBuffered,
              WriteRecordSpilled, WriteRecordFailed, disk
<1>2. CASE FlushDone
  BY <1>2 DEF FlushDone, disk
<1>3. CASE EndFile
  BY <1>3, FileSteps DEF FileEnds
<1>4. CASE OpenFile \/ LastFileDone \/ OpenDataset \/ OpenDatasetFailed \/ ClosePds
  BY <1>4 DEF OpenFile, LastFileDone, OpenDataset, OpenDatasetFailed, ClosePds, disk
<1>5. CASE UNCHANGED vars
  BY <1>5 DEF vars, disk
<1>6. QED
  BY <1>1, <1>2, <1>3, <1>4, <1>5 DEF Next, EndFile, Finished

\* A record on the medium was there, or came from the block.
LEMMA NewRecord ==
  ASSUME TypeOK, BlockWritten, NEW d \in DatasetNames, NEW i \in 1 .. Len(medium'[d])
  PROVE  \/ i \in 1 .. Len(medium[d]) /\ medium'[d][i] = medium[d][i]
         \/ /\ d = Dataset /\ i > Len(medium[d])
            /\ i - Len(medium[d]) \in 1 .. Len(block)
            /\ medium'[d][i].ttr = nblocks[d] + 1
            /\ medium'[d][i].rec = block[i - Len(medium[d])]
<1>1. CASE d # Dataset
  BY <1>1, BlockWrittenEffect
<1>2. CASE d = Dataset
  <2>1. /\ Len(medium[d]) \in Nat /\ Len(block) \in Nat
        /\ Len(medium'[d]) = Len(medium[d]) + Len(block)
        /\ \A j \in 1 .. Len(medium[d]) : medium'[d][j] = medium[d][j]
        /\ \A j \in Len(medium[d]) + 1 .. Len(medium[d]) + Len(block) :
             medium'[d][j] = [ttr |-> nblocks[d] + 1, rec |-> block[j - Len(medium[d])]]
    BY <1>2, BlockWrittenEffect
  <2>2. CASE i <= Len(medium[d])
    BY <2>1, <2>2
  <2>3. CASE i > Len(medium[d])
    <3>1. i \in Len(medium[d]) + 1 .. Len(medium[d]) + Len(block)
      BY <2>1, <2>3
    <3>2. i - Len(medium[d]) \in 1 .. Len(block)
      BY <2>1, <3>1
    <3>3. medium'[d][i] = [ttr |-> nblocks[d] + 1, rec |-> block[i - Len(medium[d])]]
      BY <2>1, <3>1
    <3>4. QED
      BY <1>2, <2>3, <3>2, <3>3
  <2>4. QED
    BY <2>1, <2>2, <2>3
<1>3. QED
  BY <1>1, <1>2

LEMMA MediumStep == TypeOK /\ PassedInv /\ BlockInv /\ MediumInv /\ [Next]_vars => MediumInv'
<1> SUFFICES ASSUME TypeOK, PassedInv, BlockInv, MediumInv, [Next]_vars,
                    NEW d \in DatasetNames, NEW i \in 1 .. Len(medium'[d])
             PROVE  /\ medium'[d][i].ttr <= nblocks'[d]
                    /\ ~Pending(medium[d][i].rec.file)' \/ Writing(medium[d][i].rec.file)'
  BY DEF MediumInv
<1>1. ASSUME NEW f \in Files, ~Pending(f) \/ Writing(f)
      PROVE  ~Pending(f)' \/ Writing(f)'
  <2>1. CASE ~Pending(f)
    BY <2>1, Progress
  <2>2. CASE Writing(f)
    <3>1. CASE PassesNone
      BY <2>2, <3>1 DEF PassesNone
    <3>2. CASE PassesOne
      BY <2>2, <3>2 DEF PassesOne, Writing
    <3>3. CASE PassesFailed
      <4>1. ExtOf(f) = ext /\ ext \in Nat
        BY <2>2, <3>3, CommonTypes DEF PassesFailed, Writing
      <4>2. QED
        BY <3>3, <4>1 DEF PassesFailed
    <3>4. CASE PassesDataset
      BY <2>2, <3>4 DEF PassesDataset, Writing
    <3>5. QED
      BY <3>1, <3>2, <3>3, <3>4, StepPasses
  <2>3. QED
    BY <1>1, <2>1, <2>2
<1>2. CASE i \in 1 .. Len(medium[d]) /\ medium'[d][i] = medium[d][i]
  <2>1. medium[d][i].ttr <= nblocks[d] /\ medium[d][i].ttr \in Nat
        /\ medium[d][i].rec.file \in Files /\ nblocks[d] \in Nat
    BY <1>2, MediumFiles DEF MediumInv
  <2>2. PICK f \in Files : f = medium[d][i].rec.file
    BY <2>1
  <2>3. ~Pending(f) \/ Writing(f)
    BY <1>2, <2>2 DEF MediumInv
  <2>4. ~Pending(f)' \/ Writing(f)'
    BY <1>1, <2>3
  <2>5. nblocks'[d] \in Nat /\ nblocks[d] <= nblocks'[d]
    <3>1. CASE UNCHANGED nblocks
      BY <2>1, <3>1
    <3>2. CASE BlockWritten
      BY <2>1, <3>2, BlockWrittenEffect
    <3>3. QED
      BY <3>1, <3>2, MediumGrows
  <2>6. (medium[d][i].rec.file)' = f
    BY <1>2, <2>2
  <2>7. QED
    BY <1>2, <2>1, <2>4, <2>5, <2>6
<1>3. CASE ~(i \in 1 .. Len(medium[d]) /\ medium'[d][i] = medium[d][i])
  <2>1. /\ pc = "lines" /\ pc' \in {"lines", "stow"} /\ BlockWritten
        /\ UNCHANGED <<ext, file, outcome>>
    BY <1>3, MediumGrows
  <2> DEFINE k == i - Len(medium[d])
  <2>2. /\ d = Dataset /\ k \in 1 .. Len(block)
        /\ medium'[d][i].ttr = nblocks[d] + 1
        /\ medium'[d][i].rec = block[k]
    BY <1>3, <2>1, NewRecord
  <2>3. nblocks'[d] = nblocks[d] + 1 /\ nblocks[d] \in Nat
    BY <2>1, <2>2, BlockWrittenEffect, MediumFiles
  <2> HIDE DEF k
  <2>4. PICK f \in Files : f = block[k].file
    BY <2>2, BlockFiles
  <2>5. f = CurrentFile \/ outcome[f] = "failed"
    BY <2>1, <2>2, <2>4 DEF BlockInv
  <2>6. ~Pending(f) \/ Writing(f)
    BY <2>1, <2>5, Progress DEF Writing
  <2>7. (medium[d][i].rec.file)' = f
    BY <2>2, <2>4
  <2>8. QED
    BY <1>1, <2>2, <2>3, <2>6, <2>7
<1>4. QED
  BY <1>2, <1>3

------------------------------------------------------------------------------
(* The lines of the file being written                                      *)

LEMMA LogType ==
  ASSUME TypeOK
  PROVE  /\ LogLen \in Nat /\ Len(medium[Dataset]) \in Nat /\ Len(block) \in Nat
         /\ Len(medium[Dataset]) <= LogLen
BY DatasetType, MediumFiles DEF TypeOK, LogLen

\* A block written moves its records from the block to the dataset.
LEMMA LogWritten ==
  ASSUME TypeOK, BlockWritten, UNCHANGED <<ext, map>>
  PROVE  /\ Len(medium[Dataset])' = LogLen
         /\ \A i \in 1 .. LogLen : medium'[Dataset'][i].rec = LogRec(i)
<1>1. Dataset' = Dataset /\ Dataset \in DatasetNames
  BY DatasetType DEF Dataset
<1>2. /\ Len(medium[Dataset]) \in Nat /\ Len(block) \in Nat
      /\ Len(medium'[Dataset]) = Len(medium[Dataset]) + Len(block)
      /\ \A i \in 1 .. Len(medium[Dataset]) : medium'[Dataset][i] = medium[Dataset][i]
      /\ \A i \in Len(medium[Dataset]) + 1 .. Len(medium[Dataset]) + Len(block) :
           medium'[Dataset][i] = [ttr |-> nblocks[Dataset] + 1, rec |-> block[i - Len(medium[Dataset])]]
  BY BlockWrittenEffect
<1>3. ASSUME NEW i \in 1 .. LogLen PROVE medium'[Dataset][i].rec = LogRec(i)
  <2>1. CASE i <= Len(medium[Dataset])
    BY <1>2, <2>1 DEF LogRec, LogLen
  <2>2. CASE i > Len(medium[Dataset])
    <3>1. i \in Len(medium[Dataset]) + 1 .. Len(medium[Dataset]) + Len(block)
      BY <1>2, <2>2 DEF LogLen
    <3>2. medium'[Dataset][i] = [ttr |-> nblocks[Dataset] + 1, rec |-> block[i - Len(medium[Dataset])]]
      BY <1>2, <3>1
    <3>3. ~(i <= Len(medium[Dataset]))
      BY <1>2, <2>2, <3>1
    <3>4. QED
      BY <3>2, <3>3 DEF LogRec
  <2>3. QED
    BY <1>2, <2>1, <2>2
<1>4. QED
  BY <1>1, <1>2, <1>3 DEF LogLen

\* A line that was written is the last record of the log.
LEMMA LogGrows ==
  ASSUME TypeOK, AddLine, AddLineDone
  PROVE  /\ LogLen' = LogLen + 1
         /\ \A i \in 1 .. LogLen : LogRec(i)' = LogRec(i)
         /\ \A i \in 1 .. LogLen' : i > LogLen => LogRec(i)' = ThisLine
<1>1. /\ ThisLine \in LineRecord /\ Dataset' = Dataset /\ UNCHANGED <<ext, map>>
  BY LineOfCurrent DEF AddLine
<1>2. PICK m \in Nat, b \in Nat : m = Len(medium[Dataset]) /\ b = Len(block)
  BY LogType
<1>3. LogLen = m + b
  BY <1>2 DEF LogLen
<1>4. ASSUME NEW i \in 1 .. LogLen + 1, i > LogLen
      PROVE  i - LogLen = 1 /\ ~(i <= LogLen) /\ i - m = b + 1 /\ ~(i <= m)
  BY <1>3, <1>4
<1>5. CASE WriteRecordBuffered
  <2>1. /\ Len(block') = b + 1
        /\ \A i \in 1 .. b : block'[i] = block[i]
        /\ block'[b + 1] = ThisLine
        /\ medium' = medium
    BY <1>1, <1>2, <1>5, AppendBlock DEF WriteRecordBuffered, disk
  <2>2. LogLen' = LogLen + 1
    <3>1. LogLen' = m + (b + 1)
      BY <1>1, <1>2, <2>1 DEF LogLen
    <3>2. QED
      BY <1>3, <3>1
  <2>3. ASSUME NEW i \in 1 .. LogLen PROVE LogRec(i)' = LogRec(i)
    <3>1. CASE i <= m
      BY <1>1, <1>2, <2>1, <3>1 DEF LogRec
    <3>2. CASE ~(i <= m)
      <4>1. i - m \in 1 .. b
        BY <1>3, <3>2
      <4>2. QED
        BY <1>1, <1>2, <2>1, <3>2, <4>1 DEF LogRec
    <3>3. QED
      BY <3>1, <3>2
  <2>4. ASSUME NEW i \in 1 .. LogLen', i > LogLen PROVE LogRec(i)' = ThisLine
    <3>1. i - m = b + 1 /\ ~(i <= m)
      BY <1>4, <2>2, <2>4
    <3>2. QED
      BY <1>1, <1>2, <2>1, <3>1 DEF LogRec
  <2>5. QED
    BY <2>2, <2>3, <2>4
<1>6. CASE WriteRecordSpilled
  <2>1. /\ Len(medium[Dataset])' = LogLen
        /\ \A i \in 1 .. LogLen : medium'[Dataset'][i].rec = LogRec(i)
        /\ Len(block') = 1 /\ block'[1] = ThisLine
    BY <1>1, <1>6, LogWritten DEF WriteRecordSpilled
  <2>2. LogLen' = LogLen + 1
    BY <2>1 DEF LogLen
  <2>3. ASSUME NEW i \in 1 .. LogLen PROVE LogRec(i)' = LogRec(i)
    <3>1. i <= LogLen
      BY <1>3
    <3>2. QED
      BY <2>1, <3>1 DEF LogRec
  <2>4. ASSUME NEW i \in 1 .. LogLen', i > LogLen PROVE LogRec(i)' = ThisLine
    <3>1. i - LogLen = 1 /\ ~(i <= LogLen)
      BY <1>4, <2>2, <2>4
    <3>2. QED
      BY <2>1, <3>1 DEF LogRec
  <2>5. QED
    BY <2>2, <2>3, <2>4
<1>7. QED
  BY <1>5, <1>6 DEF AddLineDone

LEMMA LinesStep ==
  TypeOK /\ PassedInv /\ BlockInv /\ MediumInv /\ LinesInv /\ [Next]_vars => LinesInv'
<1> SUFFICES ASSUME TypeOK, PassedInv, BlockInv, MediumInv, LinesInv, [Next]_vars,
                    pc' \in {"lines", "stow"}, ~truncated'
             PROVE  /\ line' <= LogLen'
                    /\ \A i \in 1 .. LogLen' :
                         /\ LogRec(i)'.file = CurrentFile' <=> i > LogLen' - line'
                         /\ i > LogLen' - line' => LogRec(i)'.line = i - (LogLen' - line')
                    /\ pc' = "stow" => line' = lines'[CurrentFile']
  BY DEF LinesInv
<1>1. LogLen \in Nat
  BY LogType
<1>2. CASE AddLine
  <2>1. /\ pc = "lines" /\ line' = line + 1 /\ line \in Nat /\ UNCHANGED <<pc, lines>>
    BY <1>2, Current DEF AddLine, TypeOK
  <2>2. AddLineDone /\ ~truncated
    <3>1. AddLineDone
      BY <1>2 DEF AddLine, AddLineFailed
    <3>2. truncated' = truncated \/ truncated' = TRUE
      BY <3>1 DEF AddLineDone
    <3>3. ~truncated
      BY <3>2, Zenon
    <3>4. QED
      BY <3>1, <3>3
  <2>3. /\ line <= LogLen
        /\ \A i \in 1 .. LogLen :
             /\ LogRec(i).file = CurrentFile <=> i > LogLen - line
             /\ i > LogLen - line => LogRec(i).line = i - (LogLen - line)
    BY <2>1, <2>2 DEF LinesInv
  <2>4. /\ LogLen' = LogLen + 1
        /\ \A i \in 1 .. LogLen : LogRec(i)' = LogRec(i)
        /\ \A i \in 1 .. LogLen' : i > LogLen => LogRec(i)' = ThisLine
    BY <1>2, <2>2, LogGrows
  <2>5. CurrentFile' = CurrentFile /\ ThisLine.file = CurrentFile /\ ThisLine.line = line + 1
    BY <1>2, LineOfCurrent
  <2>6. LogLen' - line' = LogLen - line
    BY <1>1, <2>1, <2>4
  <2>7. ASSUME NEW i \in 1 .. LogLen'
        PROVE  /\ LogRec(i)'.file = CurrentFile' <=> i > LogLen' - line'
               /\ i > LogLen' - line' => LogRec(i)'.line = i - (LogLen' - line')
    <3>1. CASE i <= LogLen
      BY <1>1, <2>1, <2>3, <2>4, <2>5, <2>6, <3>1
    <3>2. CASE i > LogLen
      <4>1. LogRec(i)' = ThisLine /\ i = LogLen + 1
        BY <1>1, <2>4, <3>2
      <4>2. i > LogLen - line /\ i - (LogLen - line) = line + 1
        BY <1>1, <2>1, <4>1
      <4>3. QED
        BY <2>5, <2>6, <4>1, <4>2
    <3>3. QED
      BY <1>1, <3>1, <3>2
  <2>8. QED
    BY <1>1, <2>1, <2>3, <2>4, <2>7
<1>3. CASE FlushDone
  <2>1. /\ pc = "lines" /\ line = lines[CurrentFile]
        /\ UNCHANGED <<map, lines, ext, file, line, truncated>>
    BY <1>3 DEF FlushDone
  <2>2. CurrentFile' = CurrentFile /\ Dataset' = Dataset
    BY <2>1 DEF CurrentFile, Dataset
  <2>3. LogLen' = LogLen /\ \A i \in 1 .. LogLen : LogRec(i)' = LogRec(i)
    <3>1. CASE BlockWritten /\ block' = <<>>
      <4>1. /\ Len(medium[Dataset])' = LogLen /\ Len(block') = 0
            /\ \A i \in 1 .. LogLen : medium'[Dataset'][i].rec = LogRec(i)
        BY <2>1, <3>1, LogWritten
      <4>2. LogLen' = LogLen
        BY <1>1, <4>1 DEF LogLen
      <4>3. QED
        BY <1>1, <4>1, <4>2 DEF LogRec
    <3>2. CASE UNCHANGED <<handle, disk>>
      BY <2>2, <3>2 DEF handle, disk, LogLen, LogRec
    <3>3. QED
      BY <1>3, <3>1, <3>2 DEF FlushDone
  <2>4. QED
    BY <2>1, <2>2, <2>3 DEF LinesInv
<1>4. CASE OpenFile
  <2>1. /\ pc = "file" /\ file \in DOMAIN Table[ext] /\ line' = 0 /\ pc' = "lines"
        /\ UNCHANGED <<map, ext, file, handle, disk>>
    BY <1>4 DEF OpenFile
  <2>2. CurrentFile' = CurrentFile /\ Dataset' = Dataset /\ LogLen' = LogLen
        /\ \A i \in 1 .. LogLen : LogRec(i)' = LogRec(i)
    BY <2>1 DEF CurrentFile, Dataset, LogLen, LogRec, handle, disk
  <2>3. CurrentFile \in Files /\ Pending(CurrentFile) /\ outcome[CurrentFile] = "none"
    BY <2>1, CurrentIsPending DEF PassedInv
  <2>4. ASSUME NEW i \in 1 .. LogLen PROVE LogRec(i).file # CurrentFile
    <3>1. CASE i <= Len(medium[Dataset])
      <4>1. ~Pending(medium[Dataset][i].rec.file)
        BY <2>1, <3>1, DatasetType, LogType DEF MediumInv, Writing
      <4>2. QED
        BY <2>3, <3>1, <4>1 DEF LogRec
    <3>2. CASE ~(i <= Len(medium[Dataset]))
      <4>1. i - Len(medium[Dataset]) \in 1 .. Len(block)
        BY <3>2, LogType DEF LogLen
      <4>2. outcome[block[i - Len(medium[Dataset])].file] = "failed"
        BY <2>1, <4>1 DEF BlockInv
      <4>3. QED
        BY <2>3, <3>2, <4>2 DEF LogRec
    <3>3. QED
      BY <3>1, <3>2
  <2>5. LogLen' - line' = LogLen
    BY <1>1, <2>1, <2>2
  <2>6. ASSUME NEW i \in 1 .. LogLen' PROVE ~(i > LogLen) /\ i \in 1 .. LogLen
    BY <1>1, <2>2
  <2>7. QED
    BY <1>1, <2>1, <2>2, <2>4, <2>5, <2>6
<1>5. CASE EndFile \/ LastFileDone \/ OpenDataset \/ OpenDatasetFailed \/ ClosePds
  <2>1. pc' \in {"file", "close", "open", "done"}
    BY <1>5, FileSteps, LoopTypes DEF LastFileDone, OpenDataset, OpenDatasetFailed, ClosePds, NextDataset
  <2>2. QED
    BY <2>1
<1>6. CASE UNCHANGED vars
  BY <1>6 DEF vars, control, handle, disk, LinesInv, CurrentFile, LogLen, LogRec, Dataset
<1>7. QED
  BY <1>2, <1>3, <1>4, <1>5, <1>6 DEF Next, EndFile, Finished

------------------------------------------------------------------------------
(* Members that are called copied, and blocks that two files share          *)

LEMMA Growth ==
  ASSUME TypeOK, [Next]_vars, NEW d \in DatasetNames
  PROVE  /\ Len(medium'[d]) \in Nat /\ DOMAIN medium'[d] = 1 .. Len(medium'[d])
         /\ Len(medium[d]) \in Nat /\ DOMAIN medium[d] = 1 .. Len(medium[d])
         /\ \A i \in 1 .. Len(medium[d]) : i \in 1 .. Len(medium'[d]) /\ medium'[d][i] = medium[d][i]
<1>1. Len(medium[d]) \in Nat /\ DOMAIN medium[d] = 1 .. Len(medium[d])
  BY MediumFiles
<1>2. TypeOK'
  BY TypeStep
<1>3. Len(medium'[d]) \in Nat /\ DOMAIN medium'[d] = 1 .. Len(medium'[d])
  <2>1. medium'[d] \in Seq(DiskRecord)
    BY <1>2 DEF TypeOK
  <2>2. QED
    BY <2>1
<1>4. ASSUME NEW i \in 1 .. Len(medium[d])
      PROVE  i \in 1 .. Len(medium'[d]) /\ medium'[d][i] = medium[d][i]
  <2>1. CASE UNCHANGED medium
    BY <2>1
  <2>2. CASE BlockWritten /\ d # Dataset
    BY <2>2, BlockWrittenEffect
  <2>3. CASE BlockWritten /\ d = Dataset
    <3>1. /\ Len(block) \in Nat
          /\ Len(medium'[d]) = Len(medium[d]) + Len(block)
          /\ medium'[d][i] = medium[d][i]
      BY <2>3, BlockWrittenEffect
    <3>2. QED
      BY <1>1, <3>1
  <2>4. QED
    BY <2>1, <2>2, <2>3, MediumGrows
<1>5. QED
  BY <1>1, <1>3, <1>4

\* What is added to a dataset is of the file being written, or of files whose
\* flush has failed, and comes in a block of its own.
LEMMA AddedRecords ==
  ASSUME TypeOK, PassedInv, BlockInv, [Next]_vars,
         NEW d \in DatasetNames, NEW i \in 1 .. Len(medium'[d]),
         i \notin 1 .. Len(medium[d])
  PROVE  /\ pc = "lines" /\ d = Dataset /\ i > Len(medium[d])
         /\ i - Len(medium[d]) \in 1 .. Len(block)
         /\ medium'[d][i].ttr = nblocks[d] + 1
         /\ medium'[d][i].rec = block[i - Len(medium[d])]
         /\ \/ medium'[d][i].rec.file = CurrentFile
            \/ outcome[medium'[d][i].rec.file] = "failed"
<1>1. pc = "lines" /\ BlockWritten
  BY MediumGrows
<1>2. /\ d = Dataset /\ i > Len(medium[d])
      /\ i - Len(medium[d]) \in 1 .. Len(block)
      /\ medium'[d][i].ttr = nblocks[d] + 1
      /\ medium'[d][i].rec = block[i - Len(medium[d])]
  BY <1>1, NewRecord
<1>3. block[i - Len(medium[d])].file = CurrentFile \/ outcome[block[i - Len(medium[d])].file] = "failed"
  BY <1>2 DEF BlockInv
<1>4. QED
  BY <1>1, <1>2, <1>3

\* When a member begins to count as copied.
LEMMA BecomesCopied ==
  ASSUME TypeOK, [Next]_vars, NEW f \in Files, outcome'[f] = "copied", outcome[f] # "copied"
  PROVE  pc = "stow" /\ ~truncated /\ f = CurrentFile /\ UNCHANGED <<map, lines, medium>>
<1>1. EndFile
  BY DEF Next, EndFile, Finished, AddLine, FlushDone, OpenFile, LastFileDone,
         OpenDataset, OpenDatasetFailed, ClosePds, vars
<1>2. CASE FlushFailed \/ SkipFile \/ OpenFileFailed
  BY <1>2 DEF FlushFailed, SkipFile, OpenFileFailed, TypeOK
<1>3. CASE Stowed \/ NotStowed
  <2>1. pc = "stow" /\ UNCHANGED <<map, lines, medium>> /\ (MemberDone \/ MemberFailed)
    BY <1>3 DEF Stowed, NotStowed, disk
  <2>2. MemberDone
    BY <2>1 DEF MemberFailed, TypeOK
  <2>3. outcome' = [outcome EXCEPT ![CurrentFile] = IF truncated THEN "cut" ELSE "copied"]
    BY <2>2 DEF MemberDone
  <2>4. f = CurrentFile
    BY <2>3 DEF TypeOK
  <2>5. CASE truncated
    <3>1. outcome' = [outcome EXCEPT ![CurrentFile] = "cut"]
      BY <2>3, <2>5
    <3>2. QED
      BY <3>1 DEF TypeOK
  <2>6. QED
    BY <2>1, <2>4, <2>5
<1>4. QED
  BY <1>1, <1>2, <1>3 DEF EndFile

\* CopiedIsComplete for one file.
Complete(f) ==
  LET recs == medium[DatasetOf(f)]
      mine == { i \in DOMAIN recs : recs[i].rec.file = f }
  IN  \/ lines[f] = 0 /\ mine = {}
      \/ \E start \in DOMAIN recs :
           /\ mine = start .. start + lines[f] - 1
           /\ \A i \in mine : recs[i].rec.line = i - start + 1

LEMMA CopiedStep == IInv /\ [Next]_vars => CopiedIsComplete'
<1> SUFFICES ASSUME IInv, [Next]_vars, NEW f \in Files, outcome'[f] = "copied"
             PROVE  Complete(f)'
  BY DEF CopiedIsComplete, Complete
<1> USE DEF IInv
<1>1. DatasetOf(f)' = DatasetOf(f) /\ UNCHANGED lines
  BY Progress DEF DatasetOf
<1>2. PICK d \in DatasetNames : d = DatasetOf(f)
  BY CommonTypes
<1> DEFINE mine == { i \in DOMAIN medium[d] : medium[d][i].rec.file = f }
<1>3. CASE outcome[f] = "copied"
  <2>1. Complete(f)
    BY <1>3 DEF CopiedIsComplete, Complete
  <2>2. ~Pending(f)
    BY <1>3, Progress
  <2>3. ASSUME NEW i \in 1 .. Len(medium'[d]), i \notin 1 .. Len(medium[d])
        PROVE  medium'[d][i].rec.file # f
    <3>1. /\ pc = "lines"
          /\ \/ medium'[d][i].rec.file = CurrentFile
             \/ outcome[medium'[d][i].rec.file] = "failed"
      BY <2>3, AddedRecords
    <3>2. Pending(CurrentFile)
      BY <3>1, CurrentIsPending DEF TypeOK
    <3>3. QED
      BY <1>3, <2>2, <3>1, <3>2
  <2>4. /\ DOMAIN medium[d] = 1 .. Len(medium[d]) /\ DOMAIN medium'[d] = 1 .. Len(medium'[d])
        /\ \A i \in 1 .. Len(medium[d]) : i \in 1 .. Len(medium'[d]) /\ medium'[d][i] = medium[d][i]
    BY Growth
  <2>5. mine' = mine /\ \A i \in mine : medium'[d][i] = medium[d][i]
    BY <2>3, <2>4
  <2>6. \A i \in DOMAIN medium[d] : i \in DOMAIN medium'[d]
    BY <2>4
  <2>7. \/ lines[f] = 0 /\ mine = {}
        \/ \E start \in DOMAIN medium[d] :
             /\ mine = start .. start + lines[f] - 1
             /\ \A i \in mine : medium[d][i].rec.line = i - start + 1
    BY <1>2, <2>1 DEF Complete
  <2>8. \/ lines[f] = 0 /\ mine' = {}
        \/ \E start \in DOMAIN medium'[d] :
             /\ mine' = start .. start + lines[f] - 1
             /\ \A i \in mine' : medium'[d][i].rec.line = i - start + 1
    <3> HIDE DEF mine
    <3>1. QED
      BY <2>5, <2>6, <2>7
  <2>9. QED
    BY <1>1, <1>2, <2>8 DEF Complete
<1>4. CASE outcome[f] # "copied"
  <2>1. pc = "stow" /\ ~truncated /\ f = CurrentFile /\ UNCHANGED <<map, lines, medium>>
    BY <1>4, BecomesCopied
  <2>2. file \in DOMAIN Table[ext] /\ d = Dataset
    BY <1>2, <2>1, Current DEF TypeOK
  <2>3. block = <<>> /\ line = lines[f] /\ lines[f] \in Nat
    BY <2>1 DEF BlockInv, LinesInv, TypeOK
  <2>4. PICK n \in Nat : n = Len(medium[d]) /\ DOMAIN medium[d] = 1 .. n
    BY MediumFiles
  <2>5. LogLen = n
    BY <2>2, <2>3, <2>4 DEF LogLen
  <2>6. \A i \in 1 .. n : LogRec(i) = medium[d][i].rec
    BY <2>2, <2>4 DEF LogRec
  <2>7. /\ lines[f] <= n
        /\ \A i \in 1 .. n :
             /\ medium[d][i].rec.file = f <=> i > n - lines[f]
             /\ i > n - lines[f] => medium[d][i].rec.line = i - (n - lines[f])
    BY <2>1, <2>3, <2>5, <2>6 DEF LinesInv
  <2> DEFINE start == n - lines[f] + 1
  <2>8. mine = start .. n /\ start + lines[f] - 1 = n
    BY <2>3, <2>4, <2>7
  <2>9. \A i \in mine : medium[d][i].rec.line = i - start + 1
    <3>1. \A i \in 1 .. n : i - (n - lines[f]) = i - start + 1
      BY <2>3
    <3>2. \A i \in mine : i \in 1 .. n /\ i > n - lines[f]
      BY <2>4, <2>7
    <3> HIDE DEF mine, start
    <3>3. QED
      BY <2>7, <3>1, <3>2
  <2>10. lines[f] # 0 => start \in DOMAIN medium[d]
    BY <2>3, <2>4, <2>7
  <2>11. lines[f] = 0 => mine = {}
    BY <2>8
  <2>12. \/ lines[f] = 0 /\ mine = {}
         \/ \E s \in DOMAIN medium[d] :
              /\ mine = s .. s + lines[f] - 1
              /\ \A i \in mine : medium[d][i].rec.line = i - s + 1
    <3> HIDE DEF mine, start
    <3>1. QED
      BY <2>8, <2>9, <2>10, <2>11
  <2>13. QED
    BY <1>1, <1>2, <2>1, <2>12 DEF Complete
<1>5. QED
  BY <1>3, <1>4

LEMMA ApartStep == IInv /\ [Next]_vars => FilesKeptApart'
<1> SUFFICES ASSUME IInv, [Next]_vars, NEW d \in DatasetNames,
                    NEW i \in 1 .. Len(medium'[d]), NEW j \in 1 .. Len(medium'[d]),
                    i < j, medium'[d][i].ttr = medium'[d][j].ttr,
                    medium'[d][i].rec.file # medium'[d][j].rec.file
             PROVE  outcome'[medium'[d][i].rec.file] = "failed" /\ ~map'
  BY Growth DEF FilesKeptApart, IInv
<1> USE DEF IInv
<1>1. UNCHANGED map /\ \A f \in Files : outcome[f] = "failed" => outcome'[f] = "failed"
  BY Progress
<1> DEFINE n == Len(medium[d])
<1>2. /\ n \in Nat /\ \A k \in 1 .. n : medium'[d][k] = medium[d][k]
      /\ DOMAIN medium[d] = 1 .. n
  BY Growth
<1>3. CASE j \in 1 .. n
  <2>1. i \in 1 .. n
    BY <1>2, <1>3
  <2>2. outcome[medium[d][i].rec.file] = "failed" /\ ~map /\ medium[d][i].rec.file \in Files
    BY <1>2, <1>3, <2>1, MediumFiles DEF FilesKeptApart
  <2>3. QED
    BY <1>1, <1>2, <2>1, <2>2
<1>4. CASE j \notin 1 .. n /\ i \in 1 .. n
  <2>1. medium'[d][j].ttr = nblocks[d] + 1
    BY <1>4, AddedRecords
  <2>2. medium'[d][i].ttr <= nblocks[d] /\ nblocks[d] \in Nat /\ medium'[d][i].ttr \in Nat
    BY <1>2, <1>4, MediumFiles DEF MediumInv
  <2> HIDE DEF n
  <2>3. QED
    BY <2>1, <2>2
<1>5. CASE j \notin 1 .. n /\ i \notin 1 .. n
  <2>1. /\ pc = "lines"
        /\ i - n \in 1 .. Len(block) /\ medium'[d][i].rec = block[i - n]
    BY <1>5, AddedRecords
  <2>2. j - n \in 1 .. Len(block) /\ medium'[d][j].rec = block[j - n]
    BY <1>5, AddedRecords
  <2>3. j - n \in (i - n) .. Len(block)
    BY <1>2, <2>1, <2>2
  <2> HIDE DEF n
  <2>4. ~(block[i - n].file = CurrentFile /\ \A k \in (i - n) .. Len(block) : block[k].file = CurrentFile)
    BY <2>1, <2>2, <2>3
  <2>5. outcome[block[i - n].file] = "failed" /\ ~map
    BY <2>1, <2>4 DEF BlockInv
  <2>6. block[i - n].file \in Files
    BY <2>1, BlockFiles
  <2>7. QED
    BY <1>1, <2>1, <2>5, <2>6
<1>6. QED
  BY <1>3, <1>4, <1>5

LEMMA IInvInit == Init => IInv
<1> SUFFICES ASSUME Init PROVE IInv
  OBVIOUS
<1>1. TypeOK /\ LoopInv /\ PassedInv
  BY InitType, LoopsInit
<1>2. pc = "open" /\ block = <<>> /\ outcome = [f \in Files |-> "none"]
      /\ medium = [d \in DatasetNames |-> <<>>]
  BY DEF Init
<1>3. BlockInv /\ LinesInv
  BY <1>2 DEF BlockInv, LinesInv
<1>4. MediumInv /\ FilesKeptApart
  BY <1>2 DEF MediumInv, FilesKeptApart
<1>5. CopiedIsComplete
  BY <1>2 DEF CopiedIsComplete
<1>6. QED
  BY <1>1, <1>3, <1>4, <1>5 DEF IInv

\* The invariant is inductive.
THEOREM Inductive == Spec => []IInv
<1>1. IInv /\ [Next]_vars => IInv'
  BY TypeStep, LoopStep, PassedStep, BlockStep, MediumStep, LinesStep, CopiedStep, ApartStep DEF IInv
<1>2. QED
  BY <1>1, IInvInit, PTL DEF Spec

\* A member that write_member calls copied, with nothing truncated, has every
\* line of its file on the dataset: in order, once, with nothing between them,
\* whatever the files before it have left in the handle.
THEOREM CopiedMembersAreComplete == Spec => []CopiedIsComplete
<1>1. IInv => CopiedIsComplete
  BY DEF IInv
<1>2. QED
  BY <1>1, Inductive, PTL

\* Two files share a block only where one dataset takes all the files and the
\* flush for the first of the two had failed.
THEOREM BlocksAreKeptApart == Spec => []FilesKeptApart
<1>1. IInv => FilesKeptApart
  BY DEF IInv
<1>2. QED
  BY <1>1, Inductive, PTL

------------------------------------------------------------------------------
(* FileMap: searching and growing the table                                 *)

LEMMA AsSequence ==
  ASSUME NEW S, NEW n \in Nat, NEW s \in [1 .. n -> S]
  PROVE  s \in Seq(S) /\ Len(s) = n
OBVIOUS

\* A table that bsearch can search.
InOrder(t) == \A e, d \in DOMAIN t : e < d => t[e].key < t[d].key

Keys(t) == { t[e].key : e \in DOMAIN t }

TableEntry == [key : Nat, count : Nat, values : Seq(Nat)]

IsTable(t) ==
  /\ t \in Seq(TableEntry)
  /\ InOrder(t)

LEMMA FindIs ==
  ASSUME NEW t, IsTable(t), NEW key \in Nat
  PROVE  LET e == Find(key, t)
         IN  /\ e = 0 => key \notin Keys(t)
             /\ e # 0 => e \in DOMAIN t /\ t[e].key = key
<1> DEFINE n == Len(t)
           D == (1 .. n + 1) \X (0 .. n)
           mid(b) == (b[1] + b[2]) \div 2
           At(lo, hi) == { k \in lo .. hi : t[k].key = key }
           OneOf(S) == IF S = {} THEN 0 ELSE CHOOSE k \in S : TRUE
           Place(b) == OneOf(At(b[1], b[2]))
           Step(f, b) == IF b[1] > b[2] THEN 0
                         ELSE IF t[mid(b)].key = key THEN mid(b)
                         ELSE IF t[mid(b)].key < key THEN f[<<mid(b) + 1, b[2]>>]
                         ELSE f[<<b[1], mid(b) - 1>>]
           F(f) == [b \in D |-> Step(f, b)]
           g == [b \in D |-> Place(b)]
           s == CHOOSE f : f = F(f)
<1>1. Find(key, t) = s[<<1, n>>]
  BY DEF Find
<1>2. n \in Nat /\ DOMAIN t = 1 .. n /\ \A k \in 1 .. n : t[k].key \in Nat
  <2>1. t \in Seq(TableEntry)
    BY DEF IsTable
  <2>2. n \in Nat /\ DOMAIN t = 1 .. n
    BY <2>1
  <2>3. \A k \in 1 .. n : t[k] \in TableEntry
    BY <2>1, ElementOfSeq
  <2>4. QED
    BY <2>2, <2>3 DEF TableEntry
<1>3. \A k, l \in 1 .. n : k < l => t[k].key < t[l].key
  BY <1>2 DEF IsTable, InOrder
<1>4. \A lo \in 1 .. n + 1, hi \in 0 .. n : lo <= hi =>
        LET m == mid(<<lo, hi>>)
        IN  m \in lo .. hi /\ m \in 1 .. n /\ <<m + 1, hi>> \in D /\ <<lo, m - 1>> \in D
  BY <1>2
\* What the search leaves out holds no such key.
<1>5. ASSUME NEW lo \in 1 .. n + 1, NEW hi \in 0 .. n, lo <= hi, NEW m, m = mid(<<lo, hi>>)
      PROVE  /\ t[m].key < key => \A k \in lo .. hi : t[k].key = key => k \in m + 1 .. hi
             /\ t[m].key > key => \A k \in lo .. hi : t[k].key = key => k \in lo .. m - 1
  <2>1. m \in lo .. hi /\ m \in 1 .. n
    BY <1>4, <1>5
  <2> HIDE DEF n, mid
  <2>2. ASSUME NEW k \in lo .. hi, t[k].key = key
        PROVE  k \in 1 .. n /\ (t[m].key < key => ~(k <= m)) /\ (t[m].key > key => ~(m <= k))
    <3>1. k \in 1 .. n
      BY <1>2
    <3>2. (k < m => t[k].key < t[m].key) /\ (m < k => t[m].key < t[k].key)
      BY <1>3, <2>1, <3>1
    <3>3. t[k].key \in Nat /\ t[m].key \in Nat
      BY <1>2, <2>1, <3>1
    <3>4. QED
      BY <2>1, <2>2, <3>1, <3>2, <3>3
  <2>3. QED
    BY <2>1, <2>2
<1>5a. ASSUME NEW f, NEW lo \in 1 .. n + 1, NEW hi \in 0 .. n, lo <= hi,
              NEW m, m = mid(<<lo, hi>>)
       PROVE  Step(f, <<lo, hi>>) = IF t[m].key = key THEN m
                                    ELSE IF t[m].key < key THEN f[<<m + 1, hi>>]
                                    ELSE f[<<lo, m - 1>>]
  <2>1. ~(lo > hi) /\ <<lo, hi>>[1] = lo /\ <<lo, hi>>[2] = hi
    BY <1>2, <1>5a
  <2> HIDE DEF mid, n
  <2>2. QED
    BY <1>5a, <2>1
<1>6. g = F(g)
  <2>1. ASSUME NEW lo \in 1 .. n + 1, NEW hi \in 0 .. n
        PROVE  Place(<<lo, hi>>) = Step(g, <<lo, hi>>)
    <3>1. CASE lo > hi
      <4>1. At(lo, hi) = {}
        BY <3>1
      <4>2. Place(<<lo, hi>>) = 0
        BY <4>1
      <4>3. QED
        BY <3>1, <4>2
    <3>2. CASE lo <= hi
      <4>1. PICK m : m = mid(<<lo, hi>>)
        OBVIOUS
      <4>2. m \in lo .. hi /\ m \in 1 .. n /\ <<m + 1, hi>> \in D /\ <<lo, m - 1>> \in D
        BY <1>4, <3>2, <4>1
      <4>3. t[m].key \in Nat
        BY <1>2, <4>2
      <4>4. Step(g, <<lo, hi>>) = IF t[m].key = key THEN m
                                  ELSE IF t[m].key < key THEN g[<<m + 1, hi>>]
                                  ELSE g[<<lo, m - 1>>]
        <5> HIDE DEF Step, g, mid
        <5>1. QED
          BY <1>5a, <3>2, <4>1
      <4>5. g[<<m + 1, hi>>] = OneOf(At(m + 1, hi)) /\ g[<<lo, m - 1>>] = OneOf(At(lo, m - 1))
        <5> HIDE DEF OneOf, At
        <5>1. QED
          BY <4>2
      <4>6. Place(<<lo, hi>>) = OneOf(At(lo, hi))
        OBVIOUS
      <4>7. CASE t[m].key = key
        <5>1. \A k \in At(lo, hi) : k = m
          <6>1. ASSUME NEW k \in At(lo, hi) PROVE k = m
            <7>1. k \in 1 .. n /\ t[k].key = key
              BY <1>2
            <7>2. ~(k < m) /\ ~(m < k)
              BY <1>2, <1>3, <4>2, <4>7, <7>1
            <7>3. QED
              BY <4>2, <7>1, <7>2
          <6>2. QED
            BY <6>1
        <5>2. At(lo, hi) = {m}
          BY <4>2, <4>7, <5>1
        <5>3. OneOf({m}) = m
          OBVIOUS
        <5> HIDE DEF OneOf, At, Place, Step
        <5>4. QED
          BY <4>4, <4>6, <4>7, <5>2, <5>3
      <4>8. CASE t[m].key < key
        <5>1. At(lo, hi) = At(m + 1, hi)
          <6>1. At(m + 1, hi) \subseteq At(lo, hi)
            BY <4>2
          <6>2. \A k \in lo .. hi : t[k].key = key => k \in m + 1 .. hi
            BY <1>5, <3>2, <4>1, <4>8
          <6>3. QED
            BY <6>1, <6>2
        <5> HIDE DEF OneOf, At, Place, Step, g
        <5>2. QED
          BY <4>3, <4>4, <4>5, <4>6, <4>8, <5>1
      <4>9. CASE t[m].key > key
        <5>1. At(lo, hi) = At(lo, m - 1)
          <6>1. At(lo, m - 1) \subseteq At(lo, hi)
            BY <4>2
          <6>2. \A k \in lo .. hi : t[k].key = key => k \in lo .. m - 1
            BY <1>5, <3>2, <4>1, <4>9
          <6>3. QED
            BY <6>1, <6>2
        <5> HIDE DEF OneOf, At, Place, Step, g
        <5>2. QED
          BY <4>3, <4>4, <4>5, <4>6, <4>9, <5>1
      <4> HIDE DEF Place, Step
      <4>10. QED
        BY <4>3, <4>7, <4>8, <4>9
    <3> HIDE DEF Place, Step
    <3>3. QED
      BY <1>2, <3>1, <3>2
  <2>2. \A b \in D : Place(b) = Step(g, b)
    <3>1. ASSUME NEW b \in D PROVE Place(b) = Step(g, b)
      <4>1. PICK lo \in 1 .. n + 1, hi \in 0 .. n : b = <<lo, hi>>
        OBVIOUS
      <4> HIDE DEF Place, Step, g, D
      <4>2. QED
        BY <2>1, <4>1
    <3>2. QED
      BY <3>1
  <2> HIDE DEF Place, Step, D
  <2>3. [b \in D |-> Place(b)] = [b \in D |-> Step(g, b)]
    BY <2>2
  <2>4. QED
    BY <2>3
<1>7. s = F(s)
  <2> HIDE DEF F
  <2>1. QED
    BY <1>6
<1>8. \A b \in D : s[b] = Step(s, b)
  <2> HIDE DEF s
  <2>1. QED
    BY <1>7
<1> HIDE DEF s
\* By the length of what is left.
<1> DEFINE Found(lo, hi) ==
             LET e == s[<<lo, hi>>]
             IN  /\ e = 0 => \A k \in lo .. hi : t[k].key # key
                 /\ e # 0 => e \in 1 .. n /\ t[e].key = key
           T == { d \in Nat : \A lo \in 1 .. n + 1, hi \in 0 .. n : hi - lo < d => Found(lo, hi) }
<1>9. ASSUME NEW lo \in 1 .. n + 1, NEW hi \in 0 .. n, lo > hi PROVE Found(lo, hi)
  <2>1. s[<<lo, hi>>] = 0
    BY <1>8, <1>9
  <2>2. lo .. hi = {}
    BY <1>9
  <2>3. QED
    BY <2>1, <2>2
<1>10. 0 \in T
  <2> HIDE DEF Found
  <2>1. \A lo \in 1 .. n + 1, hi \in 0 .. n : hi - lo < 0 => lo > hi
    BY <1>2
  <2>2. QED
    BY <1>9, <2>1
<1>11. ASSUME NEW d \in T PROVE d + 1 \in T
  <2>1. d \in Nat /\ \A lo \in 1 .. n + 1, hi \in 0 .. n : hi - lo < d => Found(lo, hi)
    <3> HIDE DEF Found
    <3>1. QED
      BY DEF T
  <2>2. SUFFICES ASSUME NEW lo \in 1 .. n + 1, NEW hi \in 0 .. n, hi - lo < d + 1
                 PROVE  Found(lo, hi)
    <3> HIDE DEF Found
    <3>1. QED
      BY <2>1 DEF T
  <2>3. CASE lo > hi
    BY <1>9, <2>3
  <2>4. CASE lo <= hi
    <3>1. PICK m : m = mid(<<lo, hi>>)
      OBVIOUS
    <3>2. m \in lo .. hi /\ m \in 1 .. n /\ m + 1 \in 1 .. n + 1 /\ m - 1 \in 0 .. n
      BY <1>2, <1>4, <2>4, <3>1
    <3>3. hi - (m + 1) < d /\ (m - 1) - lo < d
      BY <1>2, <2>1, <2>2, <3>2
    <3>4. Found(m + 1, hi) /\ Found(lo, m - 1)
      <4> HIDE DEF Found
      <4>1. QED
        BY <2>1, <3>2, <3>3
    <3>5. s[<<lo, hi>>] = IF t[m].key = key THEN m
                          ELSE IF t[m].key < key THEN s[<<m + 1, hi>>]
                          ELSE s[<<lo, m - 1>>]
      <4>1. <<lo, hi>> \in D
        OBVIOUS
      <4> HIDE DEF Step, mid, D
      <4>2. QED
        BY <1>5a, <1>8, <2>4, <3>1, <4>1
    <3>6. t[m].key \in Nat
      BY <1>2, <3>2
    <3>7. CASE t[m].key = key
      BY <1>2, <3>2, <3>5, <3>7
    <3>8. CASE t[m].key < key
      <4>1. \A k \in lo .. hi : t[k].key = key => k \in m + 1 .. hi
        BY <1>5, <2>4, <3>1, <3>8
      <4>2. s[<<lo, hi>>] = s[<<m + 1, hi>>]
        BY <3>5, <3>6, <3>8
      <4>3. QED
        BY <3>4, <4>1, <4>2
    <3>9. CASE t[m].key > key
      <4>1. \A k \in lo .. hi : t[k].key = key => k \in lo .. m - 1
        BY <1>5, <2>4, <3>1, <3>9
      <4>2. s[<<lo, hi>>] = s[<<lo, m - 1>>]
        BY <3>5, <3>6, <3>9
      <4>3. QED
        BY <3>4, <4>1, <4>2
    <3>10. QED
      BY <3>6, <3>7, <3>8, <3>9
  <2>5. QED
    BY <1>2, <2>3, <2>4
<1>12. n + 1 \in T
  <2>1. T \in SUBSET Nat
    OBVIOUS
  <2> HIDE DEF T
  <2>2. n + 1 \in Nat /\ n + 1 \in 0 .. n + 1
    BY <1>2
  <2>3. 0 .. n + 1 \subseteq T
    BY <1>10, <1>11, <2>1, <2>2, UpTo
  <2>4. QED
    BY <2>2, <2>3
<1>13. Found(1, n)
  <2> HIDE DEF Found
  <2>1. 1 \in 1 .. n + 1 /\ n \in 0 .. n /\ n - 1 < n + 1
    BY <1>2
  <2>2. QED
    BY <1>12, <2>1
<1>14. QED
  BY <1>1, <1>2, <1>13 DEF Keys

Inserted(u, t, new) ==
  /\ Len(u) = Len(t) + 1
  /\ \E at \in 1 .. Len(u) :
       /\ u[at] = new
       /\ \A k \in 1 .. at - 1 : u[k] = t[k]
       /\ \A k \in at .. Len(t) : u[k + 1] = t[k]
       /\ \A k \in at + 1 .. Len(u) : u[k] = t[k - 1]

\* Add keeps the order and what was there.
LEMMA AddIs ==
  ASSUME NEW t, IsTable(t), NEW new \in TableEntry, new.key \notin Keys(t)
  PROVE  IsTable(Add(new, t)) /\ Inserted(Add(new, t), t, new)
<1> DEFINE n == Len(t)
           Q(k) == /\ k <= n => t[k].key > new.key
                   /\ \A j \in 1 .. k - 1 : t[j].key <= new.key
           at == CHOOSE k \in 1 .. n + 1 : Q(k)
           u == Add(new, t)
           a == SubSeq(t, 1, at - 1)
           c == SubSeq(t, at, n)
<1>1. u = a \o <<new>> \o c
  BY DEF Add, InsertAt
<1>2. t \in Seq(TableEntry) /\ n \in Nat /\ DOMAIN t = 1 .. n
  BY DEF IsTable
<1>3. \A k \in 1 .. n : t[k] \in TableEntry /\ t[k].key \in Nat
  <2>1. \A k \in 1 .. n : t[k] \in TableEntry
    BY <1>2, ElementOfSeq
  <2>2. QED
    BY <2>1 DEF TableEntry
<1>4. new.key \in Nat
  BY DEF TableEntry
<1>5. at \in 1 .. n + 1 /\ Q(at)
  <2> HIDE DEF n
  <2> DEFINE S == { k \in 1 .. n + 1 : k <= n => t[k].key > new.key }
  <2>1. S \in SUBSET Nat /\ n + 1 \in S
    BY <1>2
  <2>2. PICK k \in S : \A m \in S : k <= m
    <3> HIDE DEF S
    <3>1. S # {}
      BY <2>1
    <3>2. QED
      BY <2>1, <3>1, SmallestNat
  <2>3. ASSUME NEW j \in 1 .. k - 1 PROVE t[j].key <= new.key
    <3>1. k \in 1 .. n + 1
      OBVIOUS
    <3>2. j \in 1 .. n /\ ~(k <= j)
      BY <1>2, <3>1
    <3>3. j \notin S
      BY <2>2, <3>2
    <3>4. QED
      BY <1>2, <1>3, <1>4, <3>2, <3>3
  <2>4. k \in 1 .. n + 1 /\ Q(k)
    BY <2>3
  <2> HIDE DEF Q
  <2>5. QED
    BY <2>4
<1> HIDE DEF at, u
<1>6. PICK p \in 1 .. n + 1 : p = at
  BY <1>5
<1>7. a \in Seq(TableEntry) /\ Len(a) = p - 1 /\ \A k \in 1 .. p - 1 : a[k] = t[k]
  <2>1. p - 1 \in 0 .. n /\ 1 <= n + 1
    BY <1>2
  <2>2. \A k \in 1 .. p - 1 : k \in 1 .. n
    BY <1>2
  <2>3. QED
    BY <1>2, <1>6, <2>1, <2>2, SubSeqProperties
<1>8. c \in Seq(TableEntry) /\ Len(c) = n + 1 - p /\ \A k \in 1 .. n + 1 - p : c[k] = t[p + k - 1]
  <2>1. \A k \in p .. n : k \in 1 .. n
    BY <1>2
  <2>2. p \in 1 .. n + 1 /\ n \in p - 1 .. n
    BY <1>2
  <2>3. QED
    BY <1>2, <1>6, <2>1, <2>2, SubSeqProperties
<1>9. <<new>> \in Seq(TableEntry) /\ Len(<<new>>) = 1 /\ <<new>>[1] = new
  OBVIOUS
<1> HIDE DEF a, c
<1>10. PICK b : b = <<new>>
  OBVIOUS
<1>11. b \in Seq(TableEntry) /\ Len(b) = 1 /\ b[1] = new
  BY <1>9, <1>10
<1>12. (a \o b) \in Seq(TableEntry) /\ Len(a \o b) = p
       /\ (a \o b)[p] = new /\ \A k \in 1 .. p - 1 : (a \o b)[k] = t[k]
  <2>1. (a \o b) \in Seq(TableEntry) /\ Len(a \o b) = Len(a) + Len(b)
        /\ \A k \in 1 .. Len(a) + Len(b) : (a \o b)[k] = IF k <= Len(a) THEN a[k] ELSE b[k - Len(a)]
    BY <1>7, <1>11, ConcatProperties
  <2>2. Len(a) + Len(b) = p /\ p - Len(a) = 1 /\ p \in 1 .. p /\ ~(p <= Len(a))
    BY <1>2, <1>7, <1>11
  <2>3. (a \o b)[p] = new
    BY <1>11, <2>1, <2>2
  <2>4. \A k \in 1 .. p - 1 : (a \o b)[k] = t[k]
    BY <1>7, <2>1, <2>2
  <2>5. QED
    BY <2>1, <2>2, <2>3, <2>4
<1>13. PICK d : d = a \o b
  OBVIOUS
<1>14. u = d \o c
  BY <1>1, <1>10, <1>13
<1>15. d \in Seq(TableEntry) /\ Len(d) = p /\ d[p] = new /\ \A k \in 1 .. p - 1 : d[k] = t[k]
  BY <1>12, <1>13
<1>16. u \in Seq(TableEntry) /\ Len(u) = n + 1
       /\ \A k \in 1 .. n + 1 : u[k] = IF k <= p THEN d[k] ELSE c[k - p]
  <2>1. u \in Seq(TableEntry) /\ Len(u) = Len(d) + Len(c)
        /\ \A k \in 1 .. Len(d) + Len(c) : u[k] = IF k <= Len(d) THEN d[k] ELSE c[k - Len(d)]
    BY <1>8, <1>14, <1>15, ConcatProperties
  <2>2. Len(d) + Len(c) = n + 1
    BY <1>2, <1>8, <1>15
  <2>3. QED
    BY <1>15, <2>1, <2>2
<1>17. u[p] = new /\ \A k \in 1 .. p - 1 : u[k] = t[k]
  <2>1. p \in 1 .. n + 1 /\ \A k \in 1 .. p - 1 : k \in 1 .. n + 1 /\ k <= p
    BY <1>2
  <2>2. QED
    BY <1>15, <1>16, <2>1
<1>18. \A k \in p .. n : u[k + 1] = t[k]
  <2>1. ASSUME NEW k \in p .. n PROVE u[k + 1] = t[k]
    <3>1. k + 1 \in 1 .. n + 1 /\ ~(k + 1 <= p) /\ (k + 1) - p \in 1 .. n + 1 - p
          /\ p + ((k + 1) - p) - 1 = k
      BY <1>2
    <3>2. u[k + 1] = c[(k + 1) - p]
      BY <1>16, <3>1
    <3>3. c[(k + 1) - p] = t[k]
      BY <1>8, <3>1
    <3>4. QED
      BY <3>2, <3>3
  <2>2. QED
    BY <2>1
<1>19. \A k \in p + 1 .. n + 1 : u[k] = t[k - 1]
  <2>1. ASSUME NEW k \in p + 1 .. n + 1 PROVE u[k] = t[k - 1]
    <3>1. k - 1 \in p .. n /\ (k - 1) + 1 = k
      BY <1>2
    <3>2. QED
      BY <1>18, <3>1
  <2>2. QED
    BY <2>1
<1>20. \A k \in 1 .. n : t[k].key # new.key
  BY <1>2 DEF Keys
<1>21. /\ \A k \in 1 .. p - 1 : t[k].key < new.key
       /\ \A k \in p .. n : t[k].key > new.key
  <2>1. ASSUME NEW k \in 1 .. p - 1 PROVE t[k].key < new.key
    <3>1. k \in 1 .. n
      BY <1>2
    <3>2. t[k].key <= new.key
      BY <1>5, <1>6
    <3>3. QED
      BY <1>3, <1>4, <1>20, <3>1, <3>2
  <2>2. ASSUME NEW k \in p .. n PROVE t[k].key > new.key
    <3>1. k \in 1 .. n /\ p \in 1 .. n /\ (p = k \/ p < k) /\ p <= n
      BY <1>2
    <3>2. t[p].key > new.key
      BY <1>5, <1>6, <3>1
    <3>3. p < k => t[p].key < t[k].key
      BY <1>2, <3>1 DEF IsTable, InOrder
    <3>4. t[p].key \in Nat /\ t[k].key \in Nat
      BY <1>3, <3>1
    <3>5. QED
      BY <1>4, <3>1, <3>2, <3>3, <3>4
  <2>3. QED
    BY <2>1, <2>2
<1>22. InOrder(u)
  <2>1. DOMAIN u = 1 .. n + 1
    BY <1>2, <1>16
  <2>2. ASSUME NEW e \in 1 .. n + 1, NEW f \in 1 .. n + 1, e < f PROVE u[e].key < u[f].key
    <3>1. CASE f < p
      <4>1. e \in 1 .. p - 1 /\ f \in 1 .. p - 1 /\ e \in 1 .. n /\ f \in 1 .. n
        BY <1>2, <2>2, <3>1
      <4>2. t[e].key < t[f].key
        BY <1>2, <2>2, <4>1 DEF IsTable, InOrder
      <4>3. QED
        BY <1>17, <4>1, <4>2
    <3>2. CASE f = p
      <4>1. e \in 1 .. p - 1
        BY <2>2, <3>2
      <4>2. QED
        BY <1>17, <1>21, <3>2, <4>1
    <3>3. CASE f > p /\ e = p
      <4>1. f - 1 \in p .. n /\ f \in p + 1 .. n + 1
        BY <1>2, <3>3
      <4>2. QED
        BY <1>17, <1>19, <1>21, <3>3, <4>1
    <3>4. CASE f > p /\ e < p
      <4>1. f - 1 \in 1 .. n /\ f \in p + 1 .. n + 1 /\ e \in 1 .. p - 1 /\ e \in 1 .. n /\ e < f - 1
        BY <1>2, <3>4
      <4>2. t[e].key < t[f - 1].key
        BY <1>2, <4>1 DEF IsTable, InOrder
      <4>3. QED
        BY <1>17, <1>19, <4>1, <4>2
    <3>5. CASE f > p /\ e > p
      <4>1. f - 1 \in 1 .. n /\ f \in p + 1 .. n + 1 /\ e \in p + 1 .. n + 1
            /\ e - 1 \in 1 .. n /\ e - 1 < f - 1
        BY <1>2, <2>2, <3>5
      <4>2. t[e - 1].key < t[f - 1].key
        BY <1>2, <4>1 DEF IsTable, InOrder
      <4>3. QED
        BY <1>19, <4>1, <4>2
    <3>6. QED
      BY <1>2, <3>1, <3>2, <3>3, <3>4, <3>5
  <2>3. QED
    BY <2>1, <2>2 DEF InOrder
<1>23. QED
  <2>1. p \in 1 .. Len(u)
    BY <1>2, <1>16
  <2>2. QED
    BY <1>16, <1>17, <1>18, <1>19, <1>22, <2>1 DEF IsTable, Inserted, u, n

LEMMA Extensions ==
  ASSUME NEW p \in Paths
  PROVE  /\ Extension(p) \in Nat \cup {NULL}
         /\ HasExtension(p) <=> Extension(p) \in Nat \ {0}
<1>1. p \in [dir_ext : Nat \cup {NoDot}, base : 0 .. Bases - 1, ext : Nat \cup {NoDot}]
  BY PathAssumption
<1>2. p.dir_ext \in Nat \cup {-1} /\ p.base \in 0 .. Bases - 1 /\ p.ext \in Nat \cup {-1}
  BY <1>1 DEF NoDot
<1>3. \A n \in Nat : (Bases + 1) * n \in Nat
  BY PathAssumption
<1>4. Extension(p) \in Nat \cup {-1}
  <2>1. CASE p.ext # NoDot
    BY <1>2, <1>3, <2>1 DEF Extension, NoDot
  <2>2. CASE p.ext = NoDot /\ p.dir_ext # NoDot
    <3>1. p.dir_ext \in Nat /\ p.base \in Nat
      BY <1>2, <2>2, PathAssumption DEF NoDot
    <3>2. (Bases + 1) * p.dir_ext \in Nat
      BY <1>3, <3>1
    <3>3. (Bases + 1) * p.dir_ext + p.base + 1 \in Nat
      BY <3>1, <3>2
    <3>4. QED
      BY <2>2, <3>3 DEF Extension
  <2>3. CASE p.ext = NoDot /\ p.dir_ext = NoDot
    BY <2>3 DEF Extension, NULL
  <2>4. QED
    BY <2>1, <2>2, <2>3
<1>5. QED
  BY <1>4 DEF HasExtension, NULL

\* The files among the first n that have the extension key.
With(g, key, n) == { f \in 1 .. n : Extension(g[f]) = key }

LEMMA NoFileWith == ASSUME NEW g, NEW key PROVE With(g, key, 0) = {} /\ Cardinality(With(g, key, 0)) = 0
<1>1. With(g, key, 0) = {}
  BY DEF With
<1>2. QED
  BY <1>1, FS_EmptySet

LEMMA FilesWith ==
  ASSUME NEW g, NEW key, NEW n \in Nat
  PROVE  /\ Cardinality(With(g, key, n)) \in Nat
         /\ Extension(g[n + 1]) = key =>
              /\ With(g, key, n + 1) = With(g, key, n) \cup {n + 1}
              /\ Cardinality(With(g, key, n + 1)) = Cardinality(With(g, key, n)) + 1
         /\ Extension(g[n + 1]) # key => With(g, key, n + 1) = With(g, key, n)
<1> DEFINE W(m) == With(g, key, m)
<1>1. IsFiniteSet(W(n))
  <2>1. IsFiniteSet(1 .. n)
    BY FS_Interval
  <2>2. W(n) \in SUBSET (1 .. n)
    BY DEF With
  <2> HIDE DEF W
  <2>3. QED
    BY <2>1, <2>2, FS_Subset
<1>2. Cardinality(W(n)) \in Nat
  BY <1>1, FS_CardinalityType
<1>3. n + 1 \notin W(n) /\ \A f : f \in 1 .. n + 1 <=> f \in 1 .. n \/ f = n + 1
  BY DEF With
<1>4. ASSUME Extension(g[n + 1]) = key
      PROVE  W(n + 1) = W(n) \cup {n + 1} /\ Cardinality(W(n + 1)) = Cardinality(W(n)) + 1
  <2>1. W(n + 1) = W(n) \cup {n + 1}
    BY <1>3, <1>4 DEF With
  <2> HIDE DEF W
  <2>2. Cardinality(W(n) \cup {n + 1}) = Cardinality(W(n)) + 1
    BY <1>1, <1>3, FS_AddElement
  <2>3. QED
    BY <2>1, <2>2
<1>5. ASSUME Extension(g[n + 1]) # key PROVE W(n + 1) = W(n)
  BY <1>3, <1>5 DEF With
<1>6. QED
  BY <1>2, <1>4, <1>5

LEMMA MoreFilesWith ==
  ASSUME NEW g, NEW key, NEW m \in Nat, NEW n \in Nat, m <= n
  PROVE  Cardinality(With(g, key, m)) <= Cardinality(With(g, key, n))
<1>1. IsFiniteSet(1 .. n)
  BY FS_Interval
<1>2. With(g, key, n) \in SUBSET (1 .. n) /\ With(g, key, m) \in SUBSET With(g, key, n)
  BY DEF With
<1>3. QED
  BY <1>1, <1>2, FS_Subset

LEMMA EntryParts ==
  ASSUME NEW t, IsTable(t)
  PROVE  /\ Len(t) \in Nat /\ DOMAIN t = 1 .. Len(t)
         /\ \A e \in DOMAIN t :
              /\ t[e] = [key |-> t[e].key, count |-> t[e].count, values |-> t[e].values]
              /\ t[e].key \in Nat /\ t[e].count \in Nat /\ t[e].values \in Seq(Nat)
<1>1. t \in Seq(TableEntry)
  BY DEF IsTable
<1>2. Len(t) \in Nat /\ DOMAIN t = 1 .. Len(t)
  BY <1>1
<1>3. \A e \in 1 .. Len(t) : t[e] \in TableEntry
  BY <1>1, ElementOfSeq
<1>4. QED
  BY <1>2, <1>3 DEF TableEntry

\* One more file of an extension that the table has: counted, or filed under it.
Recounted(u, t, e) ==
  /\ Len(u) = Len(t)
  /\ \A d \in DOMAIN t : u[d].key = t[d].key /\ u[d].values = t[d].values
  /\ \A d \in DOMAIN t : u[d].count = IF d = e THEN t[d].count + 1 ELSE t[d].count

Refile(t, e, v) == [t EXCEPT ![e].values = v]

Refiled(u, t, e, v) ==
  /\ Len(u) = Len(t)
  /\ \A d \in DOMAIN t : u[d].key = t[d].key /\ u[d].count = t[d].count
  /\ \A d \in DOMAIN t : u[d].values = IF d = e THEN v ELSE t[d].values

LEMMA CountOne ==
  ASSUME NEW t, IsTable(t), NEW e \in DOMAIN t, NEW u, u = [t EXCEPT ![e].count = @ + 1]
  PROVE  IsTable(u) /\ Recounted(u, t, e)
<1>1. /\ Len(t) \in Nat /\ DOMAIN t = 1 .. Len(t)
      /\ \A d \in DOMAIN t :
           /\ t[d] = [key |-> t[d].key, count |-> t[d].count, values |-> t[d].values]
           /\ t[d].key \in Nat /\ t[d].count \in Nat /\ t[d].values \in Seq(Nat)
  BY EntryParts
<1>2. t = [d \in 1 .. Len(t) |-> t[d]]
  BY <1>1 DEF IsTable
<1>3. u[e] = [key |-> t[e].key, count |-> t[e].count + 1, values |-> t[e].values]
  BY <1>1
<1>4. \A d \in DOMAIN t : d # e => u[d] = t[d]
  BY <1>1
<1>5. DOMAIN u = 1 .. Len(t)
  BY <1>1
<1>6. \A d \in 1 .. Len(t) : u[d] \in TableEntry
  BY <1>1, <1>3, <1>4 DEF TableEntry
<1>7. u = [d \in 1 .. Len(t) |-> u[d]]
  BY <1>2, <1>5
<1>8. u \in Seq(TableEntry) /\ Len(u) = Len(t)
  <2>1. u \in [1 .. Len(t) -> TableEntry]
    BY <1>6, <1>7
  <2>2. PICK n \in Nat : n = Len(t)
    BY <1>1
  <2>3. u \in [1 .. n -> TableEntry]
    BY <2>1, <2>2
  <2>4. u \in Seq(TableEntry) /\ Len(u) = n
    BY <2>3, AsSequence, Zenon
  <2>5. QED
    BY <2>2, <2>4
<1>9. \A d \in DOMAIN t : u[d].key = t[d].key /\ u[d].values = t[d].values
                         /\ u[d].count = IF d = e THEN t[d].count + 1 ELSE t[d].count
  BY <1>3, <1>4
<1>10. InOrder(u)
  BY <1>1, <1>5, <1>9 DEF IsTable, InOrder
<1>11. QED
  BY <1>8, <1>9, <1>10 DEF IsTable, Recounted

LEMMA FileOne ==
  ASSUME NEW t, IsTable(t), NEW e \in DOMAIN t, NEW v \in Seq(Nat),
         NEW u, u = Refile(t, e, v)
  PROVE  IsTable(u) /\ Refiled(u, t, e, v)
<1>1. /\ Len(t) \in Nat /\ DOMAIN t = 1 .. Len(t)
      /\ \A d \in DOMAIN t :
           /\ t[d] = [key |-> t[d].key, count |-> t[d].count, values |-> t[d].values]
           /\ t[d].key \in Nat /\ t[d].count \in Nat /\ t[d].values \in Seq(Nat)
  BY EntryParts
<1>2. t = [d \in 1 .. Len(t) |-> t[d]]
  BY <1>1 DEF IsTable
<1>5. u = [t EXCEPT ![e].values = v]
  BY DEF Refile
<1>6. u[e] = [key |-> t[e].key, count |-> t[e].count, values |-> v]
  BY <1>1, <1>5
<1>7. \A d \in DOMAIN t : d # e => u[d] = t[d]
  BY <1>1, <1>5
<1>8. DOMAIN u = 1 .. Len(t)
  BY <1>1, <1>5
<1>9. \A d \in 1 .. Len(t) : u[d] \in TableEntry
  BY <1>1, <1>5, <1>6, <1>7 DEF TableEntry
<1>10. u = [d \in 1 .. Len(t) |-> u[d]]
  BY <1>2, <1>5, <1>8
<1>11. u \in Seq(TableEntry) /\ Len(u) = Len(t)
  <2>1. u \in [1 .. Len(t) -> TableEntry]
    BY <1>9, <1>10
  <2>2. PICK n \in Nat : n = Len(t)
    BY <1>1
  <2>3. u \in [1 .. n -> TableEntry]
    BY <2>1, <2>2
  <2>4. u \in Seq(TableEntry) /\ Len(u) = n
    BY <2>3, AsSequence, Zenon
  <2>5. QED
    BY <2>2, <2>4
<1>12. \A d \in DOMAIN t : u[d].key = t[d].key /\ u[d].count = t[d].count
                          /\ u[d].values = IF d = e THEN v ELSE t[d].values
  BY <1>6, <1>7
<1>13. InOrder(u)
  BY <1>1, <1>8, <1>12 DEF IsTable, InOrder
<1>14. QED
  BY <1>11, <1>12, <1>13 DEF IsTable, Refiled

------------------------------------------------------------------------------
\* Two files have names that agree but for case and extension.
Agree ==
  \E f, g \in FilesFound :
    /\ f # g
    /\ MapFileToMember(gl_pathv[f]) # NULL
    /\ MapFileToMember(gl_pathv[g]) # NULL
    /\ Upper[gl_pathv[f].base] = Upper[gl_pathv[g].base]

GlobInv == \E n \in Nat : gl_pathv \in [1 .. n -> Paths]

LEMMA MemberIs ==
  ASSUME NEW p \in Paths, MapFileToMember(p) # NULL
  PROVE  MapFileToMember(p) = Upper[p.base] /\ Upper[p.base] \in Nat
<1>1. p \in [dir_ext : Nat \cup {NoDot}, base : 0 .. Bases - 1, ext : Nat \cup {NoDot}]
      /\ {p.base, p.ext, p.dir_ext} \ {NoDot} \subseteq DOMAIN Upper
      /\ Upper \in [DOMAIN Upper -> Nat]
  BY PathAssumption
<1>2. p.base \in 0 .. Bases - 1 /\ p.base # NoDot
  BY <1>1 DEF NoDot
<1>3. p.base \in DOMAIN Upper
  BY <1>1, <1>2
<1>4. QED
  BY <1>1, <1>3 DEF MapFileToMember

\* Neighbours in an arrangement by member have the same member exactly if any two
\* of the files have.
LEMMA NeighboursAgree ==
  ASSUME GlobInv,
         NEW named, named = { f \in FilesFound : MapFileToMember(gl_pathv[f]) # NULL },
         NEW s \in SetToSeqs(named),
         \A k \in 1 .. Len(s) - 1 :
           MapFileToMember(gl_pathv[s[k]]) <= MapFileToMember(gl_pathv[s[k + 1]])
  PROVE  (\E k \in 1 .. Len(s) - 1 :
            MapFileToMember(gl_pathv[s[k]]) = MapFileToMember(gl_pathv[s[k + 1]]))
         <=> Agree
<1> DEFINE M(f) == MapFileToMember(gl_pathv[f])
<1>1. PICK n \in Nat : gl_pathv \in [1 .. n -> Paths]
  BY DEF GlobInv
<1>2. FilesFound = 1 .. n
  BY <1>1 DEF FilesFound
<1>3. IsFiniteSet(named)
  <2>1. IsFiniteSet(1 .. n)
    BY FS_Interval
  <2>2. named \in SUBSET (1 .. n)
    BY <1>2
  <2>3. QED
    BY <2>1, <2>2, FS_Subset
<1>4. PICK c \in Nat : c = Cardinality(named)
  BY <1>3, FS_CardinalityType
<1>5. s \in [1 .. c -> named] /\ \A i, j \in 1 .. c : i # j => s[i] # s[j]
  <2>1. Cardinality(named) = c
    BY <1>4
  <2>2. s \in { f \in [1 .. c -> named] : \A i, j \in 1 .. c : i # j => f[i] # f[j] }
    BY <2>1 DEF SetToSeqs
  <2>3. QED
    BY <2>2
<1>6. Len(s) = c
  BY <1>5, AsSequence, Zenon
<1>7. \A f \in named : f \in 1 .. n /\ gl_pathv[f] \in Paths /\ M(f) # NULL
                      /\ M(f) = Upper[gl_pathv[f].base] /\ M(f) \in Nat
  BY <1>1, <1>2, MemberIs
<1>8. \A f \in 1 .. n : M(f) # NULL => f \in named
  BY <1>2
<1>9. \A f \in named : \E i \in 1 .. c : s[i] = f
  <2>1. s \in Injection(1 .. c, named)
    BY <1>5 DEF Injection, IsInjective
  <2>2. Cardinality(1 .. c) = c
    <3>1. IsFiniteSet(1 .. c) /\ Cardinality(1 .. c) = IF 1 > c THEN 0 ELSE c - 1 + 1
      BY FS_Interval
    <3>2. QED
      BY <3>1
  <2>3. s \in Surjection(1 .. c, named)
    BY <1>3, <1>4, <2>1, <2>2, FS_Injection
  <2>4. QED
    BY <2>3 DEF Surjection
<1> HIDE DEF M
<1>10. \A k \in 1 .. c - 1 : M(s[k]) <= M(s[k + 1])
  BY <1>6 DEF M
<1>11. \A i, j \in 1 .. c : i <= j => M(s[i]) <= M(s[j])
  <2> DEFINE m == [i \in 1 .. c |-> M(s[i])]
  <2>1. m \in [1 .. c -> Int]
    <3>1. \A i \in 1 .. c : M(s[i]) \in Nat
      BY <1>5, <1>7
    <3>2. QED
      BY <3>1
  <2>2. \A i \in 1 .. c - 1 : m[i] <= m[i + 1]
    BY <1>10
  <2>3. \A i, j \in 1 .. c : i <= j => m[i] <= m[j]
    <3> HIDE DEF m
    <3>1. QED
      BY <2>1, <2>2, Rising
  <2>4. QED
    BY <2>3
<1>12. ASSUME NEW k \in 1 .. c - 1, M(s[k]) = M(s[k + 1]) PROVE Agree
  <2>1. k \in 1 .. c /\ k + 1 \in 1 .. c /\ k # k + 1
    OBVIOUS
  <2>2. s[k] \in named /\ s[k + 1] \in named /\ s[k] # s[k + 1]
    BY <1>5, <2>1
  <2>3. PICK f \in named, g \in named : f = s[k] /\ g = s[k + 1]
    BY <2>2
  <2>4. f # g /\ f \in FilesFound /\ g \in FilesFound /\ M(f) # NULL /\ M(g) # NULL
        /\ Upper[gl_pathv[f].base] = Upper[gl_pathv[g].base]
    BY <1>2, <1>7, <1>12, <2>2, <2>3
  <2>5. QED
    BY <2>4 DEF Agree, M
<1>13. ASSUME Agree PROVE \E k \in 1 .. c - 1 : M(s[k]) = M(s[k + 1])
  <2>1. PICK f \in FilesFound, g \in FilesFound :
          /\ f # g /\ M(f) # NULL /\ M(g) # NULL
          /\ Upper[gl_pathv[f].base] = Upper[gl_pathv[g].base]
    BY <1>13 DEF Agree, M
  <2>2. f \in named /\ g \in named /\ M(f) = M(g)
    BY <1>2, <1>7, <1>8, <2>1
  <2>3. PICK i \in 1 .. c, j \in 1 .. c : s[i] = f /\ s[j] = g
    BY <1>9, <2>2
  <2>4. i # j /\ M(s[i]) = M(s[j])
    BY <2>1, <2>2, <2>3
  <2>5. ASSUME NEW a \in 1 .. c, NEW b \in 1 .. c, a < b, M(s[a]) = M(s[b])
        PROVE  a \in 1 .. c - 1 /\ M(s[a]) = M(s[a + 1])
    <3>1. a \in 1 .. c - 1 /\ a + 1 \in 1 .. c /\ a + 1 <= b
      BY <2>5
    <3>2. M(s[a]) <= M(s[a + 1]) /\ M(s[a + 1]) <= M(s[b])
      BY <1>10, <1>11, <3>1
    <3>3. M(s[a]) \in Nat /\ M(s[a + 1]) \in Nat
      BY <1>5, <1>7, <3>1
    <3>4. QED
      BY <2>5, <3>1, <3>2, <3>3
  <2>6. CASE i < j
    BY <2>4, <2>5, <2>6
  <2>7. CASE j < i
    BY <2>4, <2>5, <2>7
  <2>8. QED
    BY <2>4, <2>6, <2>7
<1>14. QED
  BY <1>6, <1>12, <1>13 DEF M

------------------------------------------------------------------------------
\* The table when n of the files g have been counted, and when n of them have been
\* filed.
HasExtensionsOf(t, g, n) ==
  \A f \in 1 .. n : HasExtension(g[f]) => Extension(g[f]) \in Keys(t)

Counted(t, g, n) ==
  /\ IsTable(t) /\ Len(t) <= n
  /\ \A e \in DOMAIN t : /\ t[e].key # 0 /\ t[e].values = <<>>
                         /\ t[e].count = Cardinality(With(g, t[e].key, n))
  /\ HasExtensionsOf(t, g, n)

Lists(v, g, key, n) ==
  /\ Len(v) = Cardinality(With(g, key, n))
  /\ \A k \in 1 .. Len(v) : v[k] \in With(g, key, n)
  /\ \A f \in With(g, key, n) : \E k \in 1 .. Len(v) : v[k] = f
  /\ \A k, l \in 1 .. Len(v) : k < l => v[k] < v[l]

Filed(t, g, n) ==
  /\ IsTable(t) /\ Len(t) <= Len(g)
  /\ \A e \in DOMAIN t : /\ t[e].key # 0
                         /\ t[e].count = Cardinality(With(g, t[e].key, Len(g)))
                         /\ Lists(t[e].values, g, t[e].key, n)
  /\ HasExtensionsOf(t, g, Len(g))

LEMMA CountNext ==
  ASSUME NEW N \in Nat, NEW g \in [1 .. N -> Paths], NEW n \in 0 .. N - 1,
         NEW t, Counted(t, g, n),
         NEW x, x = Extension(g[n + 1]), NEW e, e = Find(x, t),
         NEW u, u = IF ~HasExtension(g[n + 1]) THEN t
                    ELSE IF e = 0 THEN Add([key |-> x, count |-> 1, values |-> <<>>], t)
                    ELSE [t EXCEPT ![e].count = @ + 1]
  PROVE  Counted(u, g, n + 1)
<1> DEFINE p == g[n + 1]
           C(k, m) == Cardinality(With(g, k, m))
<1>1. p \in Paths /\ n \in Nat /\ N \in Nat /\ n <= N
  BY SMT
<1>2. x \in Nat \cup {NULL} /\ (HasExtension(p) <=> x \in Nat \ {0})
  BY <1>1, Extensions
<1>3. /\ IsTable(t) /\ Len(t) <= n /\ Len(t) \in Nat /\ DOMAIN t = 1 .. Len(t)
      /\ \A d \in DOMAIN t : t[d].key # 0 /\ t[d].values = <<>> /\ t[d].count = C(t[d].key, n)
                             /\ t[d].key \in Nat /\ t[d].count \in Nat
  BY EntryParts DEF Counted
<1>4. HasExtensionsOf(t, g, n)
  BY DEF Counted
<1>5. \A k \in Nat : k # x => C(k, n + 1) = C(k, n)
  <2>1. \A k : Extension(p) # k => With(g, k, n + 1) = With(g, k, n)
    BY <1>1, FilesWith
  <2>2. QED
    BY <2>1
<1>6. x \in Nat => C(x, n + 1) = C(x, n) + 1 /\ C(x, n) \in Nat
  <2>1. \A k : /\ Cardinality(With(g, k, n)) \in Nat
               /\ Extension(p) = k =>
                    Cardinality(With(g, k, n + 1)) = Cardinality(With(g, k, n)) + 1
    BY <1>1, FilesWith
  <2>2. QED
    BY <2>1
<1> HIDE DEF p, C
<1>7. \A f \in 1 .. n + 1 : f \in 1 .. n \/ f = n + 1
  BY <1>1
<1>8. CASE ~HasExtension(p)
  <2>1. u = t
    BY <1>8 DEF p
  <2>2. x \notin Nat \ {0}
    BY <1>2, <1>8
  <2>3. \A d \in DOMAIN t : t[d].key # x
    BY <1>3, <2>2
  <2>4. \A d \in DOMAIN t : t[d].count = C(t[d].key, n + 1)
    BY <1>3, <1>5, <2>3
  <2>5. HasExtensionsOf(t, g, n + 1)
    BY <1>4, <1>7, <1>8 DEF HasExtensionsOf, p
  <2>6. Len(t) <= n + 1
    BY <1>1, <1>3
  <2>7. QED
    BY <1>3, <2>1, <2>4, <2>5, <2>6 DEF Counted, C
<1>9. CASE HasExtension(p) /\ e = 0
  <2> DEFINE new == [key |-> x, count |-> 1, values |-> <<>>]
  <2>1. x \in Nat /\ x # 0
    BY <1>2, <1>9
  <2>2. u = Add(new, t)
    BY <1>9 DEF p
  <2>3. new \in TableEntry
    BY <2>1 DEF TableEntry
  <2>4. new.key \notin Keys(t)
    BY <1>3, <1>9, <2>1, FindIs
  <2>5. new.key = x /\ new.count = 1 /\ new.values = <<>>
    OBVIOUS
  <2> HIDE DEF new
  <2>6. PICK w : w = Add(new, t)
    OBVIOUS
  <2>7. /\ IsTable(w) /\ Len(w) = Len(t) + 1
        /\ \E at \in 1 .. Len(w) :
             /\ w[at] = new
             /\ \A k \in 1 .. at - 1 : w[k] = t[k]
             /\ \A k \in at .. Len(t) : w[k + 1] = t[k]
             /\ \A k \in at + 1 .. Len(w) : w[k] = t[k - 1]
    <3>1. IsTable(w) /\ Inserted(w, t, new)
      BY <1>3, <2>3, <2>4, <2>6, AddIs
    <3>2. QED
      BY <3>1 DEF Inserted
  <2>8. u = w
    BY <2>2, <2>6
  <2>9. PICK at \in 1 .. Len(w) :
          /\ w[at] = new
          /\ \A k \in 1 .. at - 1 : w[k] = t[k]
          /\ \A k \in at .. Len(t) : w[k + 1] = t[k]
          /\ \A k \in at + 1 .. Len(w) : w[k] = t[k - 1]
    BY <2>7
  <2>10. PICK m \in Nat : m = Len(t) /\ m + 1 = Len(w)
    BY <1>3, <2>7
  <2>11. \A d \in 1 .. m + 1 : w[d] = new \/ \E c \in 1 .. m : w[d] = t[c]
    <3>1. ASSUME NEW d \in 1 .. m + 1 PROVE w[d] = new \/ \E c \in 1 .. m : w[d] = t[c]
      <4>1. CASE d < at
        BY <2>9, <2>10, <4>1
      <4>2. CASE d = at
        BY <2>9, <4>2
      <4>3. CASE d > at
        <5>1. d \in at + 1 .. Len(w) /\ d - 1 \in 1 .. m
          BY <2>10, <4>3
        <5>2. QED
          BY <2>9, <5>1
      <4>4. QED
        BY <2>10, <4>1, <4>2, <4>3
    <3>2. QED
      BY <3>1
  <2>12. \A c \in 1 .. m : \E d \in 1 .. m + 1 : w[d] = t[c]
    <3>1. ASSUME NEW c \in 1 .. m PROVE \E d \in 1 .. m + 1 : w[d] = t[c]
      <4>1. CASE c < at
        BY <2>9, <2>10, <4>1
      <4>2. CASE c >= at
        <5>1. c \in at .. Len(t) /\ c + 1 \in 1 .. m + 1
          BY <2>10, <4>2
        <5>2. QED
          BY <2>9, <5>1
      <4>3. QED
        BY <2>10, <4>1, <4>2
    <3>2. QED
      BY <3>1
  <2>13. C(x, n + 1) = 1
    <3>1. With(g, x, n) = {}
      <4>1. ASSUME NEW f \in 1 .. n, Extension(g[f]) = x PROVE FALSE
        <5>1. g[f] \in Paths
          BY <1>1
        <5>2. HasExtension(g[f])
          BY <2>1, <4>1, <5>1, Extensions
        <5>3. QED
          BY <1>4, <2>4, <2>5, <4>1, <5>2 DEF HasExtensionsOf
      <4>2. QED
        BY <4>1 DEF With
    <3>2. C(x, n) = 0
      BY <3>1, FS_EmptySet DEF C
    <3>3. QED
      BY <1>6, <2>1, <3>2
  <2>14. DOMAIN w = 1 .. m + 1 /\ DOMAIN t = 1 .. m
    BY <1>3, <2>7, <2>10, EntryParts
  <2>15. ASSUME NEW d \in DOMAIN w
         PROVE  w[d].key # 0 /\ w[d].values = <<>> /\ w[d].count = C(w[d].key, n + 1)
    <3>1. CASE w[d] = new
      BY <2>1, <2>5, <2>13, <3>1
    <3>2. ASSUME NEW c \in DOMAIN t, w[d] = t[c]
          PROVE  w[d].key # 0 /\ w[d].values = <<>> /\ w[d].count = C(w[d].key, n + 1)
      <4>1. t[c].key # x
        BY <2>4, <2>5 DEF Keys
      <4>2. QED
        BY <1>3, <1>5, <3>2, <4>1
    <3>3. QED
      BY <2>11, <2>14, <3>1, <3>2
  <2>16. x \in Keys(w) /\ Keys(t) \subseteq Keys(w)
    BY <2>5, <2>9, <2>10, <2>12, <2>14 DEF Keys
  <2>17. HasExtensionsOf(w, g, n + 1)
    BY <1>4, <1>7, <2>16 DEF HasExtensionsOf, p
  <2>18. Len(w) <= n + 1
    BY <1>1, <1>3, <2>7
  <2>19. QED
    BY <2>7, <2>8, <2>15, <2>17, <2>18 DEF Counted, C
<1>10. CASE HasExtension(p) /\ e # 0
  <2>1. x \in Nat /\ x # 0
    BY <1>2, <1>10
  <2>2. u = [t EXCEPT ![e].count = @ + 1]
    BY <1>10 DEF p
  <2>3. e \in DOMAIN t /\ t[e].key = x
    BY <1>3, <1>10, <2>1, FindIs
  <2>4. /\ IsTable(u) /\ Len(u) = Len(t)
        /\ \A d \in DOMAIN t : u[d].key = t[d].key /\ u[d].values = t[d].values
        /\ \A d \in DOMAIN t : u[d].count = IF d = e THEN t[d].count + 1 ELSE t[d].count
    <3>1. IsTable(u) /\ Recounted(u, t, e)
      BY <1>3, <2>2, <2>3, CountOne
    <3>2. QED
      BY <3>1 DEF Recounted
  <2>5. DOMAIN u = DOMAIN t
    BY <1>3, <2>4, EntryParts
  <2>6. \A d \in DOMAIN t : d # e => t[d].key # x
    <3>1. ASSUME NEW d \in DOMAIN t, d # e PROVE t[d].key # t[e].key
      <4>1. d < e \/ e < d
        BY <1>3, <2>3, <3>1
      <4>2. t[d].key < t[e].key \/ t[e].key < t[d].key
        BY <1>3, <2>3, <4>1 DEF IsTable, InOrder
      <4>3. QED
        BY <1>3, <2>3, <4>2
    <3>2. QED
      BY <2>3, <3>1
  <2>7. ASSUME NEW d \in DOMAIN t
        PROVE  u[d].count = C(u[d].key, n + 1)
    <3>1. CASE d = e
      BY <1>3, <1>6, <2>1, <2>3, <2>4, <3>1
    <3>2. CASE d # e
      BY <1>3, <1>5, <2>4, <2>6, <3>2
    <3>3. QED
      BY <3>1, <3>2
  <2>8. Keys(u) = Keys(t) /\ x \in Keys(t)
    BY <2>3, <2>4, <2>5 DEF Keys
  <2>9. HasExtensionsOf(u, g, n + 1)
    BY <1>4, <1>7, <2>8 DEF HasExtensionsOf, p
  <2>10. Len(u) <= n + 1
    BY <1>1, <1>3, <2>4
  <2>11. \A d \in DOMAIN u : u[d].key # 0 /\ u[d].values = <<>>
    BY <1>3, <2>4, <2>5
  <2>12. \A d \in DOMAIN u : u[d].count = C(u[d].key, n + 1)
    BY <2>5, <2>7
  <2>13. QED
    BY <2>4, <2>9, <2>10, <2>11, <2>12 DEF Counted, C
<1>11. QED
  BY <1>8, <1>9, <1>10

LEMMA ListsMore ==
  ASSUME NEW g, NEW key, NEW n \in Nat, Extension(g[n + 1]) = key,
         NEW v \in Seq(Nat), Lists(v, g, key, n)
  PROVE  Lists(Append(v, n + 1), g, key, n + 1)
<1> DEFINE W == With(g, key, n)
<1>1. /\ With(g, key, n + 1) = W \cup {n + 1}
      /\ Cardinality(With(g, key, n + 1)) = Cardinality(W) + 1
  BY FilesWith
<1>2. W \subseteq 1 .. n
  BY DEF With
<1>3. PICK w : w = Append(v, n + 1)
  OBVIOUS
<1>4. PICK m \in Nat : m = Len(v)
  BY LenProperties
<1>5. Len(w) = m + 1 /\ w[m + 1] = n + 1 /\ \A k \in 1 .. m : w[k] = v[k]
  BY <1>3, <1>4, AppendProperties
<1>6. /\ m = Cardinality(W)
      /\ \A k \in 1 .. m : v[k] \in W
      /\ \A f \in W : \E k \in 1 .. m : v[k] = f
      /\ \A k, l \in 1 .. m : k < l => v[k] < v[l]
  BY <1>4 DEF Lists
<1> HIDE DEF W
<1>7. \A k \in 1 .. m + 1 : k \in 1 .. m \/ k = m + 1
  OBVIOUS
<1>8. Len(w) = Cardinality(With(g, key, n + 1))
  BY <1>1, <1>5, <1>6
<1>9. \A k \in 1 .. m + 1 : w[k] \in With(g, key, n + 1)
  BY <1>1, <1>5, <1>6, <1>7
<1>10. \A f \in With(g, key, n + 1) : \E k \in 1 .. m + 1 : w[k] = f
  <2>1. m + 1 \in 1 .. m + 1 /\ \A k \in 1 .. m : k \in 1 .. m + 1
    OBVIOUS
  <2>2. QED
    BY <1>1, <1>5, <1>6, <2>1
<1>11. \A k, l \in 1 .. m + 1 : k < l => w[k] < w[l]
  <2>1. ASSUME NEW k \in 1 .. m + 1, NEW l \in 1 .. m + 1, k < l PROVE w[k] < w[l]
    <3>1. k \in 1 .. m /\ w[k] = v[k] /\ v[k] \in 1 .. n
      <4>1. k \in 1 .. m
        BY <2>1
      <4>2. v[k] \in W
        BY <1>6, <4>1
      <4>3. QED
        BY <1>2, <1>5, <4>1, <4>2
    <3>2. CASE l = m + 1
      BY <1>5, <3>1, <3>2
    <3>3. CASE l \in 1 .. m
      BY <1>5, <1>6, <2>1, <3>1, <3>3
    <3>4. QED
      BY <1>7, <3>2, <3>3
  <2>2. QED
    BY <2>1
<1>12. Lists(w, g, key, n + 1)
  BY <1>5, <1>8, <1>9, <1>10, <1>11 DEF Lists
<1>13. QED
  BY <1>3, <1>12

LEMMA FileNext ==
  ASSUME NEW N \in Nat, NEW g \in [1 .. N -> Paths], NEW n \in 0 .. N - 1,
         NEW t, Filed(t, g, n),
         NEW x, x = Extension(g[n + 1]), NEW e, e = Find(x, t),
         NEW u, u = IF ~HasExtension(g[n + 1]) \/ e = 0 THEN t
                    ELSE [t EXCEPT ![e].values = Append(@, n + 1)]
  PROVE  Filed(u, g, n + 1)
<1> DEFINE p == g[n + 1]
<1>1. p \in Paths /\ n \in Nat /\ n + 1 \in 1 .. N
  BY SMT
<1>2. x \in Nat \cup {NULL} /\ (HasExtension(p) <=> x \in Nat \ {0})
  BY <1>1, Extensions
<1>3. /\ IsTable(t) /\ Len(t) <= Len(g) /\ DOMAIN t = 1 .. Len(t) /\ Len(t) \in Nat
      /\ \A d \in DOMAIN t : /\ t[d].key # 0 /\ t[d].key \in Nat /\ t[d].values \in Seq(Nat)
                             /\ t[d].count = Cardinality(With(g, t[d].key, Len(g)))
                             /\ Lists(t[d].values, g, t[d].key, n)
  BY EntryParts DEF Filed
<1>4. HasExtensionsOf(t, g, Len(g)) /\ Len(g) = N
  <2>1. Len(g) = N
    BY AsSequence, Zenon
  <2>2. QED
    BY <2>1 DEF Filed
<1>5. \A k : k # x => With(g, k, n + 1) = With(g, k, n)
  BY <1>1, FilesWith
<1>6. \A d \in DOMAIN t : t[d].key # x => Lists(t[d].values, g, t[d].key, n + 1)
  BY <1>3, <1>5 DEF Lists
<1>7. CASE ~HasExtension(p)
  <2>1. u = t
    BY <1>7
  <2>2. \A d \in DOMAIN t : t[d].key # x
    BY <1>2, <1>3, <1>7
  <2>3. QED
    BY <1>3, <1>4, <1>6, <2>1, <2>2 DEF Filed
<1>8. CASE HasExtension(p)
  <2>1. x \in Nat /\ x # 0
    BY <1>2, <1>8
  <2>2. x \in Keys(t)
    BY <1>1, <1>4, <1>8 DEF HasExtensionsOf
  <2>3. e # 0 /\ e \in DOMAIN t /\ t[e].key = x
    BY <1>3, <2>1, <2>2, FindIs
  <2>4. u = [t EXCEPT ![e].values = Append(@, n + 1)]
    BY <1>8, <2>3
  <2>5. PICK v : v = Append(t[e].values, n + 1)
    OBVIOUS
  <2>6. IsTable(u) /\ Refiled(u, t, e, v)
    <3>1. v \in Seq(Nat)
      BY <1>1, <1>3, <2>3, <2>5, AppendProperties
    <3>2. u = Refile(t, e, v)
      BY <2>4, <2>5 DEF Refile
    <3>3. IsTable(t) /\ e \in DOMAIN t
      BY <1>3, <2>3
    <3>4. QED
      BY <3>1, <3>2, <3>3, FileOne
  <2>7. DOMAIN u = DOMAIN t
    BY <1>3, <2>6, EntryParts DEF Refiled
  <2>8. \A d \in DOMAIN t : d # e => t[d].key # x
    <3>1. ASSUME NEW d \in DOMAIN t, d # e PROVE t[d].key # t[e].key
      <4>1. d < e \/ e < d
        BY <1>3, <2>3, <3>1
      <4>2. t[d].key < t[e].key \/ t[e].key < t[d].key
        BY <1>3, <2>3, <4>1 DEF IsTable, InOrder
      <4>3. QED
        BY <1>3, <2>3, <4>2
    <3>2. QED
      BY <2>3, <3>1
  <2>9. ASSUME NEW d \in DOMAIN t PROVE Lists(u[d].values, g, u[d].key, n + 1)
    <3>1. CASE d = e
      <4>1. Lists(Append(t[e].values, n + 1), g, x, n + 1)
        BY <1>1, <1>3, <2>3, ListsMore
      <4>2. u[d].values = Append(t[e].values, n + 1) /\ u[d].key = x
        BY <2>3, <2>5, <2>6, <3>1 DEF Refiled
      <4>3. QED
        BY <4>1, <4>2
    <3>2. CASE d # e
      BY <1>6, <2>6, <2>8, <3>2 DEF Refiled
    <3>3. QED
      BY <3>1, <3>2
  <2>10. Keys(u) = Keys(t)
    BY <2>6, <2>7 DEF Keys, Refiled
  <2>11. HasExtensionsOf(u, g, Len(g))
    BY <1>4, <2>10 DEF HasExtensionsOf
  <2>12. QED
    BY <1>3, <2>6, <2>7, <2>9, <2>11 DEF Filed, Refiled
<1>9. QED
  BY <1>7, <1>8

LEMMA CountedIsFiled ==
  ASSUME NEW N \in Nat, NEW g \in [1 .. N -> Paths], NEW t, Counted(t, g, N)
  PROVE  Filed(t, g, 0)
<1>1. Len(g) = N
  BY AsSequence, Zenon
<1>2. ASSUME NEW d \in DOMAIN t PROVE Lists(t[d].values, g, t[d].key, 0)
  <2>1. t[d].values = <<>>
    BY <1>2 DEF Counted
  <2>2. With(g, t[d].key, 0) = {} /\ Cardinality(With(g, t[d].key, 0)) = 0
    BY NoFileWith
  <2>3. Len(<<>>) = 0
    OBVIOUS
  <2>4. QED
    BY <2>1, <2>2, <2>3 DEF Lists
<1>3. QED
  BY <1>1, <1>2 DEF Counted, Filed

------------------------------------------------------------------------------
\* No entry and no file is put behind the storage that was counted for it.
Bounded(t, g) ==
  /\ Len(t) <= Len(g)
  /\ \A e \in DOMAIN t : Len(t[e].values) <= t[e].count

LEMMA CountedIsBounded ==
  ASSUME NEW g, NEW n \in Nat, n <= Len(g), Len(g) \in Nat, NEW t, Counted(t, g, n)
  PROVE  Bounded(t, g)
<1>1. /\ Len(t) <= n /\ Len(t) \in Nat
      /\ \A e \in DOMAIN t : t[e].values = <<>> /\ t[e].count \in Nat
  BY EntryParts DEF Counted
<1>2. Len(<<>>) = 0
  OBVIOUS
<1>3. Len(t) <= Len(g)
  BY <1>1
<1>4. \A e \in DOMAIN t : Len(t[e].values) <= t[e].count
  BY <1>1, <1>2
<1>5. QED
  BY <1>3, <1>4 DEF Bounded

LEMMA FiledIsBounded ==
  ASSUME NEW g, NEW n \in Nat, n <= Len(g), Len(g) \in Nat, NEW t, Filed(t, g, n)
  PROVE  Bounded(t, g)
<1>1. ASSUME NEW e \in DOMAIN t PROVE Len(t[e].values) <= t[e].count
  <2>1. Len(t[e].values) = Cardinality(With(g, t[e].key, n))
        /\ t[e].count = Cardinality(With(g, t[e].key, Len(g)))
    BY <1>1 DEF Filed, Lists
  <2>2. QED
    BY <2>1, MoreFilesWith
<1>2. QED
  BY <1>1 DEF Filed, Bounded

Named(t) ==
  /\ t = [file |-> t.file, dataset |-> t.dataset, member |-> t.member]
  /\ t.file \in FilesFound
  /\ HasExtension(gl_pathv[t.file])
  /\ t.member = MapFileToMember(gl_pathv[t.file]) /\ t.member # NULL

TargetInv ==
  /\ duplicates = "found" => Agree
  /\ stage = "copied" /\ ~opts_map => ~Agree
  /\ target # {} => stage = "copied"
  /\ \A t \in target : Named(t)

PassInv ==
  /\ GlobInv /\ looked \in 0 .. Len(gl_pathv)
  /\ stage \in {"create", "fill", "filled", "exit", "refused", "copied"}
  /\ stage = "create" => Counted(entry, gl_pathv, looked)
  /\ stage \in {"fill", "filled", "refused", "copied"} => Filed(entry, gl_pathv, looked)
  /\ stage \in {"filled", "refused", "copied"} => looked = Len(gl_pathv)
  /\ stage = "exit" => Bounded(entry, gl_pathv)

FileMapInv == PassInv /\ TargetInv

LEMMA GlobIs ==
  ASSUME GlobInv
  PROVE  /\ Len(gl_pathv) \in Nat /\ gl_pathv \in [1 .. Len(gl_pathv) -> Paths]
         /\ FilesFound = 1 .. Len(gl_pathv)
<1>1. PICK n \in Nat : gl_pathv \in [1 .. n -> Paths]
  BY DEF GlobInv
<1>2. Len(gl_pathv) = n
  BY <1>1, AsSequence, Zenon
<1>3. QED
  BY <1>1, <1>2 DEF FilesFound

LEMMA FileMapInit ==
  ASSUME MapInit
  PROVE  FileMapInv
<1>1. PICK n \in Nat : gl_pathv \in [1 .. n -> Paths]
  BY DEF MapInit
<1>2. GlobInv
  BY <1>1 DEF GlobInv
<1>3. looked = 0 /\ entry = <<>> /\ target = {} /\ duplicates = "none" /\ stage = "create"
  BY DEF MapInit
<1>4. IsTable(<<>>) /\ Len(<<>>) = 0 /\ DOMAIN <<>> = {}
  BY DEF IsTable, InOrder
<1>5. Counted(entry, gl_pathv, looked)
  BY <1>3, <1>4 DEF Counted, HasExtensionsOf
<1>6. looked \in 0 .. Len(gl_pathv)
  BY <1>2, <1>3, GlobIs
<1>7. QED
  BY <1>2, <1>3, <1>5, <1>6 DEF FileMapInv, PassInv, TargetInv

\* What PassInv says depends on the table, and on how far the pass has come.
LEMMA PassStep ==
  ASSUME PassInv, [MapNext]_mapVars
  PROVE  PassInv'
<1>0. PICK N, g : N = Len(gl_pathv) /\ g = gl_pathv
  OBVIOUS
<1>1. /\ g = gl_pathv /\ N = Len(gl_pathv)
      /\ N \in Nat /\ g \in [1 .. N -> Paths]
  BY <1>0, GlobIs DEF PassInv
<1>2. gl_pathv' = gl_pathv
  BY DEF MapNext, mapVars, CreateTableFails, CountFile, TableCreated, FillTableFails,
         FillFile, TableFilled, CopyToMultipleDatasets, CopyToOneDataset, Ended
<1>3. GlobInv' /\ gl_pathv' = g /\ Len(g) = N
  BY <1>1, <1>2 DEF GlobInv, PassInv
<1>4. looked \in 0 .. N
  BY <1>1 DEF PassInv
<1>5. CASE CreateTableFails
  <2>1. stage = "create" /\ looked = 0 /\ stage' = "exit" /\ UNCHANGED <<looked, entry>>
    BY <1>5 DEF CreateTableFails
  <2>2. Counted(entry, g, 0)
    BY <1>1, <2>1 DEF PassInv
  <2>3. Bounded(entry, g)
    BY <1>1, <1>3, <2>2, CountedIsBounded
  <2>4. QED
    BY <1>1, <1>3, <2>1, <2>3 DEF PassInv
<1>6. CASE CountFile
  <2>1. stage = "create" /\ looked < N /\ looked' = looked + 1 /\ stage' = stage
    BY <1>1, <1>6 DEF CountFile
  <2>2. PICK n \in 0 .. N - 1 : n = looked
    BY <1>1, <1>4, <2>1
  <2>3. PICK t : t = entry
    OBVIOUS
  <2>4. Counted(t, g, n)
    BY <1>1, <2>1, <2>2, <2>3 DEF PassInv
  <2>5. PICK x, e : x = Extension(g[n + 1]) /\ e = Find(x, t)
    OBVIOUS
  <2>6. PICK u : u = IF ~HasExtension(g[n + 1]) THEN t
                     ELSE IF e = 0 THEN Add([key |-> x, count |-> 1, values |-> <<>>], t)
                     ELSE [t EXCEPT ![e].count = @ + 1]
    OBVIOUS
  <2>7. Counted(u, g, n + 1)
    BY <1>1, <2>2, <2>4, <2>5, <2>6, CountNext
  <2>8. entry' = u
    BY <1>1, <1>6, <2>2, <2>3, <2>5, <2>6 DEF CountFile
  <2>9. n + 1 \in 0 .. N
    BY <1>1, <2>2
  <2>10. QED
    BY <1>3, <2>1, <2>2, <2>7, <2>8, <2>9 DEF PassInv
<1>7. CASE TableCreated
  <2>1. stage = "create" /\ looked = N /\ looked' = 0 /\ stage' = "fill" /\ entry' = entry
    BY <1>1, <1>7 DEF TableCreated
  <2>2. Counted(entry, g, N)
    BY <1>1, <2>1 DEF PassInv
  <2>3. Filed(entry, g, 0)
    BY <1>1, <2>2, CountedIsFiled
  <2>4. 0 \in 0 .. N
    BY <1>1
  <2>5. QED
    BY <1>3, <2>1, <2>3, <2>4 DEF PassInv
<1>8. CASE FillTableFails
  <2>1. stage = "fill" /\ stage' = "exit" /\ UNCHANGED <<looked, entry>>
    BY <1>8 DEF FillTableFails
  <2>2. Filed(entry, g, looked)
    BY <1>1, <2>1 DEF PassInv
  <2>3. Bounded(entry, g)
    BY <1>3, <1>4, <2>2, FiledIsBounded
  <2>4. QED
    BY <1>3, <1>4, <2>1, <2>3 DEF PassInv
<1>9. CASE FillFile
  <2>1. stage = "fill" /\ looked < N /\ looked' = looked + 1 /\ stage' = stage
    BY <1>1, <1>9 DEF FillFile
  <2>2. PICK n \in 0 .. N - 1 : n = looked
    BY <1>1, <1>4, <2>1
  <2>3. PICK t : t = entry
    OBVIOUS
  <2>4. Filed(t, g, n)
    BY <1>1, <2>1, <2>2, <2>3 DEF PassInv
  <2>5. PICK x, e : x = Extension(g[n + 1]) /\ e = Find(x, t)
    OBVIOUS
  <2>6. PICK u : u = IF ~HasExtension(g[n + 1]) \/ e = 0 THEN t
                     ELSE [t EXCEPT ![e].values = Append(@, n + 1)]
    OBVIOUS
  <2>7. Filed(u, g, n + 1)
    BY <1>1, <2>2, <2>4, <2>5, <2>6, FileNext
  <2>8. entry' = u
    BY <1>1, <1>9, <2>2, <2>3, <2>5, <2>6 DEF FillFile
  <2>9. n + 1 \in 0 .. N
    BY <1>1, <2>2
  <2>10. QED
    BY <1>3, <2>1, <2>2, <2>7, <2>8, <2>9 DEF PassInv
<1>10. CASE TableFilled
  BY <1>1, <1>3, <1>10 DEF TableFilled, PassInv
<1>11. CASE CopyToMultipleDatasets
  BY <1>1, <1>3, <1>11 DEF CopyToMultipleDatasets, PassInv
<1>12. CASE CopyToOneDataset
  BY <1>1, <1>3, <1>12 DEF CopyToOneDataset, PassInv
<1>13. CASE Ended \/ UNCHANGED mapVars
  <2>1. UNCHANGED <<stage, looked, entry>>
    BY <1>13 DEF Ended, mapVars
  <2>2. QED
    BY <1>1, <1>3, <2>1 DEF PassInv
<1>14. QED
  BY <1>5, <1>6, <1>7, <1>8, <1>9, <1>10, <1>11, <1>12, <1>13 DEF MapNext

LEMMA TargetsAreNamed ==
  ASSUME PassInv, stage = "filled"
  PROVE  \A t \in Targets : Named(t)
<1>1. /\ Len(gl_pathv) \in Nat /\ gl_pathv \in [1 .. Len(gl_pathv) -> Paths]
      /\ FilesFound = 1 .. Len(gl_pathv)
  BY GlobIs DEF PassInv
<1>2. Filed(entry, gl_pathv, Len(gl_pathv))
  BY DEF PassInv
<1>3. /\ IsTable(entry)
      /\ \A e \in DOMAIN entry : /\ entry[e].key \in Nat /\ entry[e].key # 0
                                 /\ entry[e].values \in Seq(Nat)
                                 /\ Lists(entry[e].values, gl_pathv, entry[e].key, Len(gl_pathv))
  BY <1>2, EntryParts DEF Filed
<1>4. ASSUME NEW e \in DOMAIN entry, NEW f \in FilesFound, f \in ToSet(entry[e].values)
      PROVE  HasExtension(gl_pathv[f])
  <2>1. PICK v : v = entry[e].values
    OBVIOUS
  <2>2. v \in Seq(Nat) /\ Lists(v, gl_pathv, entry[e].key, Len(gl_pathv))
    BY <1>3, <2>1
  <2>3. PICK k \in DOMAIN v : f = v[k]
    BY <1>4, <2>1 DEF ToSet
  <2>4. k \in 1 .. Len(v)
    BY <2>2, <2>3
  <2>5. f \in With(gl_pathv, entry[e].key, Len(gl_pathv))
    BY <2>2, <2>3, <2>4 DEF Lists
  <2>6. Extension(gl_pathv[f]) = entry[e].key /\ gl_pathv[f] \in Paths
    BY <1>1, <2>5 DEF With
  <2>7. QED
    BY <1>3, <2>6, Extensions
<1>5. ASSUME NEW t \in Targets PROVE Named(t)
  <2> DEFINE dataset(e) == IF opts_map THEN MapExtToDataset(entry[e].key) ELSE 0
  <2>1. PICK e \in DOMAIN entry, f \in FilesFound :
          /\ f \in ToSet(entry[e].values)
          /\ MapFileToMember(gl_pathv[f]) # NULL
          /\ t = [file |-> f, dataset |-> dataset(e), member |-> MapFileToMember(gl_pathv[f])]
    <3> HIDE DEF dataset
    <3>1. QED
      BY <1>5 DEF Targets, dataset
  <2>2. t = [file |-> t.file, dataset |-> t.dataset, member |-> t.member]
        /\ t.file = f /\ t.member = MapFileToMember(gl_pathv[f])
    BY <2>1
  <2>3. HasExtension(gl_pathv[f])
    BY <1>4, <2>1
  <2>4. QED
    BY <2>1, <2>2, <2>3 DEF Named
<1>6. QED
  BY <1>5

LEMMA TargetStep ==
  ASSUME PassInv, TargetInv, [MapNext]_mapVars
  PROVE  TargetInv'
<1>1. gl_pathv' = gl_pathv /\ opts_map' = opts_map
  BY DEF MapNext, mapVars, CreateTableFails, CountFile, TableCreated, FillTableFails,
         FillFile, TableFilled, CopyToMultipleDatasets, CopyToOneDataset, Ended
<1>2. Agree' <=> Agree
  BY <1>1 DEF Agree, FilesFound, MapFileToMember
<1>3. \A t : Named(t)' <=> Named(t)
  BY <1>1 DEF Named, FilesFound, HasExtension, Extension, MapFileToMember
<1>4. ASSUME CreateTableFails \/ CountFile \/ TableCreated
             \/ FillTableFails \/ FillFile \/ TableFilled
      PROVE  TargetInv'
  <2>1. /\ UNCHANGED <<target, duplicates>> /\ stage # "copied" /\ stage' # "copied"
    BY <1>4 DEF CreateTableFails, CountFile, TableCreated,
                FillTableFails, FillFile, TableFilled
  <2>2. target = {}
    BY <2>1 DEF TargetInv
  <2>3. QED
    BY <1>2, <2>1, <2>2 DEF TargetInv
<1>5. ASSUME CopyToMultipleDatasets PROVE TargetInv'
  <2>1. stage = "filled" /\ opts_map /\ target' = Targets /\ stage' = "copied"
        /\ duplicates' = duplicates
    BY <1>5 DEF CopyToMultipleDatasets
  <2>2. \A t \in target' : Named(t)'
    BY <1>3, <2>1, TargetsAreNamed
  <2>3. QED
    BY <1>1, <1>2, <2>1, <2>2 DEF TargetInv
<1>6. ASSUME CopyToOneDataset PROVE TargetInv'
  <2> DEFINE M(f) == MapFileToMember(gl_pathv[f])
  <2>1. /\ stage = "filled" /\ CheckForDuplicateMembers
        /\ IF duplicates' = "none" THEN target' = Targets /\ stage' = "copied"
                                   ELSE stage' = "refused" /\ target' = target
    BY <1>6 DEF CopyToOneDataset
  <2>2. (duplicates' = "found" => Agree) /\ (duplicates' = "none" => ~Agree)
    <3>1. PICK named : named = { f \in FilesFound : M(f) # NULL }
      OBVIOUS
    <3>2. CASE duplicates' = "no storage"
      BY <3>2
    <3>3. CASE \E s \in SetToSeqs(named) :
                 /\ \A k \in 1 .. Len(s) - 1 : M(s[k]) <= M(s[k + 1])
                 /\ duplicates' = IF \E k \in 1 .. Len(s) - 1 : M(s[k]) = M(s[k + 1])
                                    THEN "found" ELSE "none"
      <4>1. PICK s \in SetToSeqs(named) :
              /\ \A k \in 1 .. Len(s) - 1 : M(s[k]) <= M(s[k + 1])
              /\ duplicates' = IF \E k \in 1 .. Len(s) - 1 : M(s[k]) = M(s[k + 1])
                                 THEN "found" ELSE "none"
        BY <3>3
      <4>2. GlobInv
        BY DEF PassInv
      <4>3. (\E k \in 1 .. Len(s) - 1 : M(s[k]) = M(s[k + 1])) <=> Agree
        BY <3>1, <4>1, <4>2, NeighboursAgree
      <4>4. QED
        BY <4>1, <4>3
    <3>4. QED
      BY <2>1, <3>1, <3>2, <3>3 DEF CheckForDuplicateMembers
  <2>3. target = {}
    BY <2>1 DEF TargetInv
  <2>4. target' # {} => duplicates' = "none" /\ stage' = "copied" /\ target' = Targets
    BY <2>1, <2>3
  <2>5. \A t \in target' : Named(t)'
    BY <1>3, <2>1, <2>4, TargetsAreNamed
  <2>6. stage' = "copied" => duplicates' = "none"
    BY <2>1
  <2>7. QED
    BY <1>2, <2>2, <2>4, <2>5, <2>6 DEF TargetInv
<1>7. ASSUME Ended \/ UNCHANGED mapVars PROVE TargetInv'
  <2>1. UNCHANGED <<stage, opts_map, target, duplicates>>
    BY <1>7 DEF Ended, mapVars
  <2>2. QED
    BY <1>2, <1>3, <2>1 DEF TargetInv
<1>8. QED
  BY <1>4, <1>5, <1>6, <1>7 DEF MapNext

LEMMA FileMapInvariant ==
  MapSpec => []FileMapInv
<1>1. MapInit => FileMapInv
  BY FileMapInit
<1>2. FileMapInv /\ [MapNext]_mapVars => FileMapInv'
  BY PassStep, TargetStep DEF FileMapInv
<1>3. QED
  BY <1>1, <1>2, PTL DEF MapSpec

LEMMA TableOfInv ==
  ASSUME PassInv
  PROVE  TableIsRight
<1>1. /\ Len(gl_pathv) \in Nat /\ gl_pathv \in [1 .. Len(gl_pathv) -> Paths]
      /\ FilesFound = 1 .. Len(gl_pathv)
  BY GlobIs DEF PassInv
<1>2. looked \in Nat /\ looked <= Len(gl_pathv)
  <2>1. looked \in 0 .. Len(gl_pathv)
    BY DEF PassInv
  <2>2. QED
    BY <1>1, <2>1
<1>3. Bounded(entry, gl_pathv)
  <2>1. CASE stage = "create"
    BY <1>1, <1>2, <2>1, CountedIsBounded DEF PassInv
  <2>2. CASE stage \in {"fill", "filled", "refused", "copied"}
    BY <1>1, <1>2, <2>2, FiledIsBounded DEF PassInv
  <2>3. CASE stage = "exit"
    BY <2>3 DEF PassInv
  <2>4. QED
    BY <2>1, <2>2, <2>3 DEF PassInv
<1>4. ASSUME stage \in {"filled", "refused", "copied"}
      PROVE  /\ \A e, d \in DOMAIN entry : e < d => entry[e].key < entry[d].key
             /\ \A e \in DOMAIN entry :
                  /\ entry[e].count = Len(entry[e].values)
                  /\ ToSet(entry[e].values) =
                       { f \in FilesFound : Extension(gl_pathv[f]) = entry[e].key }
                  /\ \A k, l \in DOMAIN entry[e].values :
                       k < l => entry[e].values[k] < entry[e].values[l]
             /\ \A f \in FilesFound : HasExtension(gl_pathv[f]) =>
                  \E e \in DOMAIN entry : entry[e].key = Extension(gl_pathv[f])
  <2>1. Filed(entry, gl_pathv, Len(gl_pathv))
    BY <1>4 DEF PassInv
  <2>2. \A e, d \in DOMAIN entry : e < d => entry[e].key < entry[d].key
    BY <2>1 DEF Filed, IsTable, InOrder
  <2>3. ASSUME NEW e \in DOMAIN entry
        PROVE  /\ entry[e].count = Len(entry[e].values)
               /\ ToSet(entry[e].values) =
                    { f \in FilesFound : Extension(gl_pathv[f]) = entry[e].key }
               /\ \A k, l \in DOMAIN entry[e].values :
                    k < l => entry[e].values[k] < entry[e].values[l]
    <3>1. PICK v, key : v = entry[e].values /\ key = entry[e].key
      OBVIOUS
    <3>2. v \in Seq(Nat) /\ Lists(v, gl_pathv, key, Len(gl_pathv))
          /\ entry[e].count = Cardinality(With(gl_pathv, key, Len(gl_pathv)))
      BY <2>1, <2>3, <3>1, EntryParts DEF Filed
    <3>3. DOMAIN v = 1 .. Len(v)
      BY <3>2
    <3>4. With(gl_pathv, key, Len(gl_pathv)) = { f \in FilesFound : Extension(gl_pathv[f]) = key }
      BY <1>1 DEF With
    <3>5. ToSet(v) = With(gl_pathv, key, Len(gl_pathv))
      BY <3>2, <3>3 DEF ToSet, Lists
    <3>6. QED
      BY <3>1, <3>2, <3>3, <3>4, <3>5 DEF Lists
  <2>4. \A f \in FilesFound : HasExtension(gl_pathv[f]) =>
          \E e \in DOMAIN entry : entry[e].key = Extension(gl_pathv[f])
    BY <1>1, <2>1 DEF Filed, HasExtensionsOf, Keys
  <2>5. QED
    BY <2>2, <2>3, <2>4
<1>5. QED
  BY <1>3, <1>4 DEF TableIsRight, Bounded

LEMMA MembersOfInv ==
  ASSUME PassInv, TargetInv
  PROVE  OneFilePerMember
<1>1. /\ Len(gl_pathv) \in Nat /\ gl_pathv \in [1 .. Len(gl_pathv) -> Paths]
      /\ FilesFound = 1 .. Len(gl_pathv)
  BY GlobIs DEF PassInv
<1>2. ASSUME NEW s \in target, NEW t \in target, s # t, s.dataset = t.dataset, s.member = t.member
      PROVE  opts_map
  <2>1. SUFFICES ASSUME ~opts_map PROVE FALSE
    OBVIOUS
  <2>2. ~Agree
    BY <1>2, <2>1 DEF TargetInv
  <2>3. Named(s) /\ Named(t)
    BY <1>2 DEF TargetInv
  <2>4. s = [file |-> s.file, dataset |-> s.dataset, member |-> s.member]
        /\ t = [file |-> t.file, dataset |-> t.dataset, member |-> t.member]
    BY <2>3 DEF Named
  <2>5. s.file # t.file
    BY <1>2, <2>4, Zenon
  <2>6. PICK f \in FilesFound, g \in FilesFound : f = s.file /\ g = t.file
    BY <2>3 DEF Named
  <2>7. /\ MapFileToMember(gl_pathv[f]) = MapFileToMember(gl_pathv[g])
        /\ MapFileToMember(gl_pathv[f]) # NULL
    BY <1>2, <2>3, <2>6 DEF Named
  <2>8. gl_pathv[f] \in Paths /\ gl_pathv[g] \in Paths
    BY <1>1
  <2>9. Upper[gl_pathv[f].base] = Upper[gl_pathv[g].base]
    BY <2>7, <2>8, MemberIs
  <2>10. QED
    BY <2>2, <2>5, <2>6, <2>7, <2>9 DEF Agree
<1>3. \A t \in target : HasExtension(gl_pathv[t.file])
  BY DEF TargetInv, Named
<1>4. (stage = "copied" /\ ~opts_map => ~Agree) /\ (duplicates = "found" => Agree)
  BY DEF TargetInv
<1>5. QED
  BY <1>2, <1>3, <1>4 DEF OneFilePerMember, Agree

\* Whatever files the patterns name, in whatever order: the table never
\* outgrows the storage counted for it, and when it is filled bsearch finds in
\* it each extension once, and under it the files with it.
THEOREM TheTableIsFilled ==
  MapSpec => []TableIsRight
<1>1. FileMapInv => TableIsRight
  BY TableOfInv DEF FileMapInv
<1>2. QED
  BY <1>1, FileMapInvariant, PTL

\* The files that main hands on to be copied, and under which datasets.
Listed == { f \in FilesFound : HasExtension(gl_pathv[f]) }

FilesOfEntries == [e \in DOMAIN entry |-> entry[e].values]

TableToCopy == stage = "filled" => IsFileTable(FilesOfEntries, Listed)

LEMMA TableToCopyOfInv ==
  ASSUME PassInv, stage = "filled"
  PROVE  IsFileTable(FilesOfEntries, Listed)
<1>1. PICK N, g : N = Len(gl_pathv) /\ g = gl_pathv
  OBVIOUS
<1>2. N \in Nat /\ g \in [1 .. N -> Paths] /\ FilesFound = 1 .. N /\ Filed(entry, g, N)
  BY <1>1, GlobIs DEF PassInv
<1>3. PICK t : t = entry
  OBVIOUS
<1>4. PICK files : files = FilesOfEntries
  OBVIOUS
<1>5. /\ Len(t) \in Nat /\ DOMAIN t = 1 .. Len(t) /\ InOrder(t) /\ HasExtensionsOf(t, g, N)
      /\ \A e \in DOMAIN t : /\ t[e].key \in Nat \ {0} /\ t[e].values \in Seq(Nat)
                             /\ Lists(t[e].values, g, t[e].key, N)
  <2>1. IsTable(t) /\ HasExtensionsOf(t, g, N)
        /\ \A e \in DOMAIN t : t[e].key # 0 /\ Lists(t[e].values, g, t[e].key, N)
    BY <1>1, <1>2, <1>3 DEF Filed
  <2>2. InOrder(t)
    BY <2>1 DEF IsTable
  <2>3. QED
    BY <2>1, <2>2, EntryParts
<1>6. DOMAIN files = DOMAIN t /\ \A e \in DOMAIN t : files[e] = t[e].values
  BY <1>3, <1>4 DEF FilesOfEntries
<1>7. \A e \in DOMAIN t : /\ DOMAIN files[e] = 1 .. Len(files[e]) /\ Len(files[e]) \in Nat
                          /\ \A k \in DOMAIN files[e] : files[e][k] \in With(g, t[e].key, N)
                          /\ \A k, l \in DOMAIN files[e] : k < l => files[e][k] < files[e][l]
                          /\ \A f \in With(g, t[e].key, N) : \E k \in DOMAIN files[e] : files[e][k] = f
  <2>1. ASSUME NEW e \in DOMAIN t
        PROVE  /\ DOMAIN files[e] = 1 .. Len(files[e]) /\ Len(files[e]) \in Nat
               /\ \A k \in DOMAIN files[e] : files[e][k] \in With(g, t[e].key, N)
               /\ \A k, l \in DOMAIN files[e] : k < l => files[e][k] < files[e][l]
               /\ \A f \in With(g, t[e].key, N) : \E k \in DOMAIN files[e] : files[e][k] = f
    <3>1. PICK v : v = files[e]
      OBVIOUS
    <3>2. v \in Seq(Nat) /\ Lists(v, g, t[e].key, N)
      BY <1>5, <1>6, <2>1, <3>1
    <3>3. DOMAIN v = 1 .. Len(v) /\ Len(v) \in Nat
      BY <3>2
    <3>4. QED
      BY <3>1, <3>2, <3>3 DEF Lists
  <2>2. QED
    BY <2>1
<1>8. \A e \in DOMAIN t : With(g, t[e].key, N) \subseteq Listed
  <2>1. SUFFICES ASSUME NEW e \in DOMAIN t, NEW f \in With(g, t[e].key, N) PROVE f \in Listed
    OBVIOUS
  <2>2. f \in 1 .. N /\ Extension(g[f]) = t[e].key /\ t[e].key \in Nat \ {0}
    BY <1>5, <2>1 DEF With
  <2>3. g[f] \in Paths
    BY <1>2, <2>2
  <2>4. HasExtension(g[f])
    BY <2>2, <2>3, Extensions
  <2>5. QED
    BY <1>1, <1>2, <2>2, <2>4 DEF Listed
<1>9. files \in Seq(Seq(Listed))
  <2>1. ASSUME NEW e \in DOMAIN t PROVE files[e] \in Seq(Listed)
    <3>1. PICK v, n : v = files[e] /\ n = Len(files[e])
      OBVIOUS
    <3>2. v \in Seq(Nat) /\ n = Len(v) /\ n \in Nat /\ \A k \in 1 .. n : v[k] \in Listed
      BY <1>5, <1>6, <1>7, <1>8, <2>1, <3>1
    <3>3. v \in [1 .. n -> Listed]
      BY <3>2
    <3>4. v \in Seq(Listed)
      BY <3>2, <3>3, AsSequence
    <3>5. QED
      BY <3>1, <3>4
  <2>2. PICK n \in Nat : n = Len(t)
    BY <1>5
  <2>3. files \in [1 .. n -> Seq(Listed)]
    <3>1. files = [e \in 1 .. n |-> files[e]]
      BY <1>3, <1>4, <1>5, <2>2 DEF FilesOfEntries
    <3>2. \A e \in 1 .. n : files[e] \in Seq(Listed)
      BY <1>5, <2>1, <2>2
    <3>3. QED
      BY <3>1, <3>2
  <2>4. QED
    BY <2>2, <2>3, AsSequence
<1>10. ASSUME NEW e \in DOMAIN files, NEW d \in DOMAIN files,
              NEW k \in DOMAIN files[e], NEW l \in DOMAIN files[d], files[e][k] = files[d][l]
       PROVE  e = d /\ k = l
  <2>1. files[e][k] \in With(g, t[e].key, N) /\ files[d][l] \in With(g, t[d].key, N)
    BY <1>6, <1>7, <1>10
  <2>2. t[e].key = t[d].key
    BY <1>10, <2>1 DEF With
  <2>3. e \in 1 .. Len(t) /\ d \in 1 .. Len(t) /\ t[e].key \in Nat
    BY <1>5, <1>6, <1>10
  <2>4. e = d
    <3>1. (e < d => t[e].key < t[d].key) /\ (d < e => t[d].key < t[e].key)
      BY <1>5, <1>6, <1>10 DEF InOrder
    <3>2. QED
      BY <1>5, <2>2, <2>3, <3>1
  <2>5. k \in Nat /\ l \in Nat /\ l \in DOMAIN files[e] /\ files[e][k] \in Nat
    BY <1>6, <1>7, <1>10, <2>1, <2>4, <1>2 DEF With
  <2>6. (k < l => files[e][k] < files[e][l]) /\ (l < k => files[e][l] < files[e][k])
    BY <1>6, <1>7, <1>10, <2>5
  <2>7. k = l
    BY <1>10, <2>4, <2>5, <2>6
  <2>8. QED
    BY <2>4, <2>7
<1>11. ASSUME NEW f \in Listed
       PROVE  \E e \in DOMAIN files : \E k \in DOMAIN files[e] : files[e][k] = f
  <2>1. f \in 1 .. N /\ HasExtension(g[f])
    BY <1>1, <1>2, <1>11 DEF Listed
  <2>2. PICK e \in DOMAIN t : t[e].key = Extension(g[f])
    BY <1>5, <2>1 DEF HasExtensionsOf, Keys
  <2>3. f \in With(g, t[e].key, N)
    BY <2>1, <2>2 DEF With
  <2>4. QED
    BY <1>6, <1>7, <2>2, <2>3
<1>12. IsFileTable(files, Listed)
  BY <1>9, <1>10, <1>11 DEF IsFileTable
<1>13. QED
  BY <1>4, <1>12

\* What F2MCopy assumes of its table is so of each that filemap.c fills: no file
\* is in it twice, and it has each file that has an extension.
THEOREM TheTableIsCopied ==
  MapSpec => []TableToCopy
<1>1. FileMapInv => TableToCopy
  BY TableToCopyOfInv DEF FileMapInv, TableToCopy
<1>2. QED
  BY <1>1, FileMapInvariant, PTL

\* f2m copies two files to one member only where each extension has a dataset of
\* its own; with one dataset it stops exactly for two files of one name, or for
\* want of storage.
THEOREM MembersHaveOneFile ==
  MapSpec => []OneFilePerMember
<1>1. FileMapInv => OneFilePerMember
  BY MembersOfInv DEF FileMapInv
<1>2. QED
  BY <1>1, FileMapInvariant, PTL
==============================================================================
