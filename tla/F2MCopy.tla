------------------------------- MODULE F2MCopy -------------------------------
(***************************************************************************)
(* sample/src/f2m.c from copy_files_to_members down to write_record: the   *)
(* files of a table, grouped by extension, are copied to members of one    *)
(* dataset, or of a dataset for each extension (opts->map).  All members   *)
(* of a dataset go through one handle, so that what one member leaves in   *)
(* the handle, or fails to do, reaches the next ones.                      *)
(*                                                                         *)
(* The handle is that of BpamWrite with the bytes left out: the records in *)
(* the block, the TTR kept for the directory, and the rule that a block    *)
(* which is not empty may have to be written before any record is added.   *)
(* A record is a line of a file, in the order in which read_line answers   *)
(* them (LineReader).  The return codes of the functions above             *)
(* write_member are left out: main drops them.                             *)
(***************************************************************************)
EXTENDS Integers, Sequences

CONSTANTS
  Files,       \* the files of the table
  Table,       \* FM_Table: per extension the sequence of its files
  MaxLines     \* bound: lines of a file

\* No file is there twice, and each file somewhere.
IsFileTable(table, files) ==
  /\ table \in Seq(Seq(files))
  /\ \A e, d \in DOMAIN table : \A i \in DOMAIN table[e], j \in DOMAIN table[d] :
       table[e][i] = table[d][j] => e = d /\ i = j
  /\ \A f \in files : \E e \in DOMAIN table : \E i \in DOMAIN table[e] : table[e][i] = f

ASSUME TableAssumption ==
  /\ IsFileTable(Table, Files)
  /\ Len(Table) > 0
  /\ MaxLines \in Nat

VARIABLES
  map,                 \* opts->map: a dataset for each extension
  lines,               \* per file: how many lines it has
  pc,                  \* where the program is
  ext, file,           \* loop counters, from 1
  line,                \* lines of the current file given to add_line
  truncated,           \* is the flag of write_member not zero?
  block,               \* the records in the block of the handle
  memstart_ttr, memstart_ttr_known,
  medium,              \* per dataset: its records, with the TTR of their block
  nblocks,             \* per dataset: how many blocks were written
  directory,           \* per dataset: the TTR stowed for each file, -1 for none
  opened,              \* history: the datasets that were opened
  outcome              \* history: what write_member made of each file

control == <<map, lines, pc, ext, file, line, truncated>>
handle  == <<block, memstart_ttr, memstart_ttr_known>>
disk    == <<medium, nblocks, directory>>
vars    == <<control, handle, disk, opened, outcome>>

DatasetNames == 1 .. Len(Table)

\* The dataset that is open.
Dataset == IF map THEN ext ELSE 1

CurrentFile == Table[ext][file]

LineRecord == [file : Files, line : Nat]
DiskRecord == [ttr : Nat, rec : LineRecord]

TypeOK ==
  /\ map \in BOOLEAN
  /\ lines \in [Files -> 0 .. MaxLines]
  /\ pc \in {"open", "file", "lines", "stow", "close", "done"}
  /\ ext \in 1 .. Len(Table)
  /\ file \in Nat \ {0}
  /\ pc \in {"lines", "stow"} =>
       file \in DOMAIN Table[ext] /\ line \in 0 .. lines[CurrentFile]
  /\ truncated \in BOOLEAN
  /\ block \in Seq(LineRecord)
  /\ memstart_ttr \in Nat
  /\ memstart_ttr_known \in BOOLEAN
  /\ medium \in [DatasetNames -> Seq(DiskRecord)]
  /\ nblocks \in [DatasetNames -> Nat]
  /\ directory \in [DatasetNames -> [Files -> Nat \cup {-1}]]
  /\ opened \subseteq DatasetNames
  /\ outcome \in [Files -> {"none", "skipped", "failed", "cut", "copied"}]

------------------------------------------------------------------------------
(* The handle: write_block and write_record                                 *)

Placed(recs, ttr) == [i \in DOMAIN recs |-> [ttr |-> ttr, rec |-> recs[i]]]

\* write_block on a block that is not empty; block' is up to the caller.
BlockWritten ==
  LET ttr == nblocks[Dataset] + 1
  IN  /\ block # <<>>
      /\ medium' = [medium EXCEPT ![Dataset] = @ \o Placed(block, ttr)]
      /\ nblocks' = [nblocks EXCEPT ![Dataset] = ttr]
      /\ memstart_ttr' = IF memstart_ttr_known THEN memstart_ttr ELSE ttr
      /\ memstart_ttr_known' = TRUE
      /\ UNCHANGED directory

ThisLine == [file |-> CurrentFile, line |-> line + 1]

WriteRecordBuffered ==
  /\ block' = Append(block, ThisLine)
  /\ UNCHANGED <<memstart_ttr, memstart_ttr_known, disk>>

WriteRecordSpilled == BlockWritten /\ block' = <<ThisLine>>

WriteRecordFailed == block # <<>> /\ UNCHANGED <<handle, disk>>

------------------------------------------------------------------------------
(* write_member                                                             *)

\* add_line: what write_record answers is or'ed into truncated, -1 as well.
\* Mutant: only the lines that were cut count.
MutAddLineFailed == WriteRecordFailed /\ UNCHANGED truncated

AddLineFailed == WriteRecordFailed /\ truncated' = TRUE

AddLineDone ==
  /\ WriteRecordBuffered \/ WriteRecordSpilled
  /\ truncated' \in {truncated, TRUE}

AddLine ==
  /\ pc = "lines"
  /\ line < lines[CurrentFile]
  /\ AddLineDone \/ AddLineFailed
  /\ line' = line + 1
  /\ UNCHANGED <<map, lines, pc, ext, file, opened, outcome>>

\* flush succeeded, or the block was empty.
FlushDone ==
  /\ pc = "lines"
  /\ line = lines[CurrentFile]
  /\ \/ BlockWritten /\ block' = <<>>
     \/ block = <<>> /\ UNCHANGED <<handle, disk>>
  /\ pc' = "stow"
  /\ UNCHANGED <<map, lines, ext, file, line, truncated, opened, outcome>>

\* Mutant: the counter is advanced twice.
MutNextFile ==
  /\ file' = file + 2
  /\ pc' = "file"
  /\ UNCHANGED ext

\* write_member has answered: copy_files goes on only after a zero.
NextFile ==
  /\ file' = file + 1
  /\ pc' = "file"
  /\ UNCHANGED ext

\* copy_files has returned.  With one dataset the next extension follows on the
\* same handle, however the last one ended.
\* Mutant: so it does with a dataset for each extension.
MutReturnFromCopyFiles ==
  IF ext < Len(Table)
    THEN ext' = ext + 1 /\ file' = 1 /\ pc' = "file"
    ELSE pc' = "close" /\ UNCHANGED <<ext, file>>

ReturnFromCopyFiles ==
  IF ~map /\ ext < Len(Table)
    THEN ext' = ext + 1 /\ file' = 1 /\ pc' = "file"
    ELSE pc' = "close" /\ UNCHANGED <<ext, file>>

FlushFailed ==
  /\ pc = "lines"
  /\ line = lines[CurrentFile]
  /\ block # <<>>
  /\ outcome' = [outcome EXCEPT ![CurrentFile] = "failed"]
  /\ ReturnFromCopyFiles
  /\ UNCHANGED <<map, lines, line, truncated, handle, disk, opened>>

\* memrc is not positive and close_file answered 0: the member counts as copied.
MemberDone ==
  /\ outcome' = [outcome EXCEPT ![CurrentFile] = IF truncated THEN "cut" ELSE "copied"]
  /\ NextFile

MemberFailed ==
  /\ outcome' = [outcome EXCEPT ![CurrentFile] = "failed"]
  /\ ReturnFromCopyFiles

\* STOW put the entry into the directory, under the TTR of the handle.  The
\* handle is left as it is.
Stowed ==
  /\ pc = "stow"
  /\ directory' = [directory EXCEPT ![Dataset][CurrentFile] = memstart_ttr]
  /\ MemberDone \/ MemberFailed
  /\ UNCHANGED <<map, lines, line, truncated, handle, medium, nblocks, opened>>

\* STOW, or the DESERV before the second STOW, failed.  After DESERV the return
\* code of update_pdse_member_dir_entry is not initialised: write_member takes
\* it for a failure only if it is positive.
NotStowed ==
  /\ pc = "stow"
  /\ MemberDone \/ MemberFailed
  /\ UNCHANGED <<map, lines, line, truncated, handle, disk, opened>>

------------------------------------------------------------------------------
(* copy_files                                                               *)

\* map_file_to_member finds no member name.
SkipFile ==
  /\ pc = "file"
  /\ file \in DOMAIN Table[ext]
  /\ outcome' = [outcome EXCEPT ![CurrentFile] = "skipped"]
  /\ NextFile
  /\ UNCHANGED <<map, lines, line, truncated, handle, disk, opened>>

OpenFile ==
  /\ pc = "file"
  /\ file \in DOMAIN Table[ext]
  /\ pc' = "lines"
  /\ line' = 0
  /\ truncated' = FALSE
  /\ UNCHANGED <<map, lines, ext, file, handle, disk, opened, outcome>>

OpenFileFailed ==
  /\ pc = "file"
  /\ file \in DOMAIN Table[ext]
  /\ outcome' = [outcome EXCEPT ![CurrentFile] = "failed"]
  /\ ReturnFromCopyFiles
  /\ UNCHANGED <<map, lines, line, truncated, handle, disk, opened>>

LastFileDone ==
  /\ pc = "file"
  /\ file \notin DOMAIN Table[ext]
  /\ ReturnFromCopyFiles
  /\ UNCHANGED <<map, lines, line, truncated, handle, disk, opened, outcome>>

------------------------------------------------------------------------------
(* copy_files_to_one_dataset_members, copy_files_to_multiple_dataset_members *)

OpenDataset ==
  /\ pc = "open"
  /\ opened' = opened \cup {Dataset}
  /\ block' = <<>>
  /\ memstart_ttr' = 0
  /\ memstart_ttr_known' = FALSE
  /\ pc' = "file"
  /\ file' = 1
  /\ UNCHANGED <<map, lines, ext, line, truncated, disk, outcome>>

\* Mutant: the loop goes on with the same extension.
MutNextDatasetAgain ==
  IF map /\ ext < Len(Table)
    THEN pc' = "open" /\ UNCHANGED ext
    ELSE pc' = "done" /\ UNCHANGED ext

\* With a dataset for each extension the loop goes on.
NextDataset ==
  IF map /\ ext < Len(Table)
    THEN ext' = ext + 1 /\ pc' = "open"
    ELSE pc' = "done" /\ UNCHANGED ext

\* No dataset name for the extension, or no handle.
OpenDatasetFailed ==
  /\ pc = "open"
  /\ NextDataset
  /\ UNCHANGED <<map, lines, file, line, truncated, handle, disk, opened, outcome>>

\* close_pds: the loop goes on whatever it answers; the block is not written.
ClosePds ==
  /\ pc = "close"
  /\ NextDataset
  /\ block' = <<>>
  /\ UNCHANGED <<map, lines, file, line, truncated, memstart_ttr, memstart_ttr_known,
                 disk, opened, outcome>>

Finished == pc = "done" /\ UNCHANGED vars

Init ==
  /\ map \in BOOLEAN
  /\ lines \in [Files -> 0 .. MaxLines]
  /\ pc = "open"
  /\ ext = 1
  /\ file = 1
  /\ line = 0
  /\ truncated = FALSE
  /\ block = <<>>
  /\ memstart_ttr = 0
  /\ memstart_ttr_known = FALSE
  /\ medium = [d \in DatasetNames |-> <<>>]
  /\ nblocks = [d \in DatasetNames |-> 0]
  /\ directory = [d \in DatasetNames |-> [f \in Files |-> -1]]
  /\ opened = {}
  /\ outcome = [f \in Files |-> "none"]

Next ==
  \/ AddLine \/ FlushDone \/ FlushFailed \/ Stowed \/ NotStowed
  \/ SkipFile \/ OpenFile \/ OpenFileFailed \/ LastFileDone
  \/ OpenDataset \/ OpenDatasetFailed \/ ClosePds
  \/ Finished

\* One thread that waits for nothing but the calls it makes.
Spec == Init /\ [][Next]_vars /\ WF_vars(Next)

------------------------------------------------------------------------------
(* Properties                                                               *)

\* A file has one place in the table, and goes to one dataset.
ExtOf(f) == CHOOSE e \in DOMAIN Table : \E i \in DOMAIN Table[e] : Table[e][i] = f
PlaceOf(f) == CHOOSE i \in DOMAIN Table[ExtOf(f)] : Table[ExtOf(f)][i] = f
DatasetOf(f) == IF map THEN ExtOf(f) ELSE 1

ListedBefore(f, g) ==
  ExtOf(f) < ExtOf(g) \/ (ExtOf(f) = ExtOf(g) /\ PlaceOf(f) < PlaceOf(g))

\* A member that write_member calls copied, with nothing truncated, has every
\* line of its file on the dataset: in order, once, and with no other record
\* between them.  A record lost to a failed write shows in the flag.
CopiedIsComplete ==
  \A f \in Files : outcome[f] = "copied" =>
    LET recs  == medium[DatasetOf(f)]
        mine  == { i \in DOMAIN recs : recs[i].rec.file = f }
    IN  \/ lines[f] = 0 /\ mine = {}
        \/ \E start \in DOMAIN recs :
             /\ mine = start .. start + lines[f] - 1
             /\ \A i \in mine : recs[i].rec.line = i - start + 1

\* A block holds records of two files only where one dataset takes all of them
\* and the flush for the first one had failed.
FilesKeptApart ==
  \A d \in DatasetNames : \A i, j \in DOMAIN medium[d] :
    LET f == medium[d][i].rec.file
        g == medium[d][j].rec.file
    IN  i < j /\ medium[d][i].ttr = medium[d][j].ttr /\ f # g =>
          outcome[f] = "failed" /\ ~map

\* f2m stops short of a file only if its dataset could not be opened or a file
\* before it in its extension failed.
EveryFileTried ==
  pc = "done" => \A f \in Files : outcome[f] = "none" =>
    \/ DatasetOf(f) \notin opened
    \/ \E g \in Files : ExtOf(g) = ExtOf(f) /\ ListedBefore(g, f) /\ outcome[g] = "failed"

\* f2m ends, whatever fails.
CopyEnds == <>(pc = "done")

\* f2m.c:308 on write_member: "The 'ttr' needs to be marked as unknown and the
\* underlying write_block will establish it on first block write."  So the TTR
\* in the directory is that of the first block written for the member, the more
\* so when nothing has failed.
EntryIsFirstBlock ==
  "failed" \notin { outcome[f] : f \in Files } => \A f \in Files :
    LET d == DatasetOf(f)
        mine == { i \in DOMAIN medium[d] : medium[d][i].rec.file = f }
    IN  directory[d][f] # -1 /\ mine # {} =>
          \A i \in mine : directory[d][f] <= medium[d][i].ttr
                          /\ \E j \in mine : medium[d][j].ttr = directory[d][f]
==============================================================================
