----------------------------- MODULE LineReader -----------------------------
(***************************************************************************)
(* How sample/src/f2m.c takes a text file apart into records: read_line,   *)
(* get_record and add_line with their pair of buffers.  The active buffer  *)
(* holds the start of the current record; when it runs out, the next bytes *)
(* of the file go to the inactive buffer, the record is scattered over     *)
(* both, and add_line swaps them afterwards.                               *)
(*                                                                         *)
(* A byte is known by its position in the file, so a record is the         *)
(* sequence of the positions that were copied into it.  read(2) is modelled *)
(* as it behaves on a regular file without errors: it returns as many      *)
(* bytes as there are, up to REC_LEN.                                      *)
(***************************************************************************)
EXTENDS Integers, Sequences, FiniteSets, Functions, FiniteSetsExt

CONSTANTS
  REC_LEN,     \* size of a buffer, 32760 in fm.h
  Lrecl,       \* record_length of the dataset
  Capacity,    \* data bytes of a record: Lrecl for F, 4 less for V
  MaxSize      \* bound: size of the file

ASSUME BufferAssumption ==
  /\ REC_LEN \in Nat /\ 1 < REC_LEN
  /\ Lrecl \in Nat /\ 0 < Lrecl
  /\ Capacity \in 0 .. Lrecl
  /\ MaxSize \in Nat

VARIABLES
  size,        \* size of the file
  newlines,    \* the positions of its newline characters
  pos,         \* bytes read from the file descriptor
  active,      \* FM_FileBuffer: record_offset, record_length, the data read
  inactive,
  pc,          \* which of read_line and add_line runs next
  records,     \* the records given to write_record
  truncated    \* did write_record have to cut one of them?

file == <<size, newlines>>
lineVars == <<file, pos, active, inactive, pc, records, truncated>>

\* record_length is a size_t; -1 stands for the largest one, to which
\* data_length - record_offset wraps.
Wrapped == -1

\* What a record holds when its length has wrapped: Lrecl bytes from behind the
\* data of the active buffer.
Garbage == <<0>>

IsBuffer(b) ==
  /\ b.off \in 0 .. Len(b.data) + 1
  /\ b.len \in 0 .. REC_LEN \cup {Wrapped}
  /\ Len(b.data) <= REC_LEN
  /\ Range(b.data) \subseteq 1 .. size

\* The record_offset never loses more than the newline behind the data of its
\* buffer, so that record_length wraps to the largest size_t and to no other value.
BuffersTypeOK ==
  /\ size \in 0 .. MaxSize
  /\ newlines \subseteq 1 .. size
  /\ pos \in 0 .. size
  /\ IsBuffer(active) /\ IsBuffer(inactive) /\ inactive.len # Wrapped
  /\ pc \in {"read_line", "add_line", "done"}
  /\ pc = "read_line" => active.off + active.len <= Len(active.data)
  /\ \A i \in DOMAIN records :
       records[i] = Garbage \/ Range(records[i]) \subseteq 1 .. size
  /\ truncated \in BOOLEAN

------------------------------------------------------------------------------
(* read_line and get_record                                                 *)

\* read: the positions of the bytes that read returns when from were read.
Chunk(from) ==
  [i \in 1 .. (IF size - from < REC_LEN THEN size - from ELSE REC_LEN) |-> from + i]

\* scan_buffer: the offset of the first newline from off on, or -1.
ScanBuffer(data, off) ==
  LET found == { i \in off .. Len(data) - 1 : data[i + 1] \in newlines }
  IN  IF found = {} THEN -1 ELSE Min(found)

\* Nothing was read, and the active buffer had been used up with its newline.
AtEndOfFile(buf, data) == data = <<>> /\ buf.off > Len(buf.data)

\* A newline was found in the active buffer.
FullLine(buf, newline_offset) ==
  /\ active' = [buf EXCEPT !.len = newline_offset - buf.off]
  /\ inactive' = [inactive EXCEPT !.off = 0, !.len = 0]
  /\ pc' = "add_line"

\* How far the record goes on in data.
TailLength(data) ==
  LET newline_offset == ScanBuffer(data, 0)
  IN  IF newline_offset < 0 THEN Len(data) ELSE newline_offset

\* None was found: the record goes on in what the next read returns, up to the
\* newline there or, without one, to its end.
ScatteredLine(buf, data) ==
  /\ active' = [buf EXCEPT !.len = Len(buf.data) - buf.off]
  /\ inactive' = [off |-> 0, len |-> TailLength(data), data |-> data]
  /\ pc' = IF AtEndOfFile(buf, data) THEN "done" ELSE "add_line"

GetRecord(buf, from) ==
  LET newline_offset == ScanBuffer(buf.data, buf.off)
  IN  \/ /\ newline_offset >= 0
         /\ FullLine(buf, newline_offset)
         /\ pos' = from
      \/ /\ newline_offset < 0
         /\ ScatteredLine(buf, Chunk(from))
         /\ pos' = from + Len(Chunk(from))

\* read_line takes a record of length 0 at offset 0 for an empty buffer.
BufferIsEmpty == active.off = 0 /\ active.len = 0

ReadFirstBuffer ==
  /\ pc = "read_line" /\ BufferIsEmpty
  /\ Chunk(pos) # <<>>
  /\ GetRecord([active EXCEPT !.data = Chunk(pos)], pos + Len(Chunk(pos)))
  /\ UNCHANGED <<file, records, truncated>>

\* Mutant: the read is tried again.
MutReadNothing ==
  /\ pc = "read_line" /\ BufferIsEmpty
  /\ Chunk(pos) = <<>>
  /\ UNCHANGED lineVars

ReadNothing ==
  /\ pc = "read_line" /\ BufferIsEmpty
  /\ Chunk(pos) = <<>>
  /\ pc' = "done"
  /\ UNCHANGED <<file, pos, active, inactive, records, truncated>>

\* Mutant: two bytes are taken for the newline.
MutNextOffset == active.off + active.len + 2

\* Past the record and its newline.
NextOffset == active.off + active.len + 1

ReadOn ==
  /\ pc = "read_line" /\ ~BufferIsEmpty
  /\ GetRecord([active EXCEPT !.off = NextOffset], pos)
  /\ UNCHANGED <<file, records, truncated>>

------------------------------------------------------------------------------
(* add_line                                                                 *)

\* copy_at_most: the first bytes of the part of the record that lies in buf.
CopyAtMost(buf, limit) ==
  SubSeq(buf.data, buf.off + 1,
         buf.off + (IF buf.len > limit THEN limit ELSE buf.len))

\* copy_into_record_buffer
RecordBuffer ==
  IF active.len = Wrapped THEN Garbage
  ELSE LET start == CopyAtMost(active, Lrecl)
       IN  start \o CopyAtMost(inactive, Lrecl - Len(start))

\* Mutant: bytes_used leaves out the part in the inactive buffer.
MutRecordLength == IF active.len = Wrapped THEN Lrecl ELSE Len(CopyAtMost(active, Lrecl))

\* The length given to write_record.
RecordLength == IF active.len = Wrapped THEN Lrecl ELSE Len(RecordBuffer)

\* Mutant: the data read into the inactive buffer stay there.
MutSwapBuffers ==
  /\ active' = [inactive EXCEPT !.data = active.data]
  /\ inactive' = [inactive EXCEPT !.off = 0, !.len = 0]

\* The buffers change places when the record ended in the inactive one.
SwapBuffers ==
  IF inactive.len > 0
    THEN /\ active' = inactive
         /\ inactive' = [off |-> 0, len |-> 0, data |-> active.data]
    ELSE UNCHANGED <<active, inactive>>

AddLine ==
  /\ pc = "add_line"
  /\ records' = Append(records, RecordBuffer)
  /\ truncated' = (truncated \/ RecordLength > Capacity)
  /\ SwapBuffers
  /\ pc' = "read_line"
  /\ UNCHANGED <<file, pos>>

\* write_member has left its loop.
Finished == pc = "done" /\ UNCHANGED lineVars

LineInit ==
  /\ size \in 0 .. MaxSize
  /\ newlines \in SUBSET (1 .. size)
  /\ pos = 0
  /\ active = [off |-> 0, len |-> 0, data |-> <<>>]
  /\ inactive = [off |-> 0, len |-> 0, data |-> <<>>]
  /\ pc = "read_line"
  /\ records = <<>>
  /\ truncated = FALSE

LineNext ==
  \/ ReadFirstBuffer
  \/ ReadNothing
  \/ ReadOn
  \/ AddLine
  \/ Finished

\* The loop of write_member runs without waiting for anything.
LineSpec == LineInit /\ [][LineNext]_lineVars /\ WF_lineVars(LineNext)

------------------------------------------------------------------------------
(* The lines of a file                                                      *)

\* A line starts the file or follows a newline, and takes at least one byte,
\* its newline included.
LineStarts == { p \in 1 .. size : p = 1 \/ p - 1 \in newlines }

LineEnd(start) ==
  LET ends == { p \in newlines : start <= p }
  IN  IF ends = {} THEN size ELSE Min(ends) - 1

Positions(from, to) == [i \in 1 .. to - from + 1 |-> from + i - 1]

\* A line as a record of the dataset, cut to its capacity.
LineAt(start) ==
  LET end == LineEnd(start)
  IN  Positions(start, IF end - start + 1 > Lrecl THEN start + Lrecl - 1 ELSE end)

NthStart(n) ==
  CHOOSE p \in LineStarts : Cardinality({ q \in LineStarts : q <= p }) = n

Lines == [n \in 1 .. Cardinality(LineStarts) |-> LineAt(NthStart(n))]

------------------------------------------------------------------------------
(* Properties                                                               *)

\* The file keeps clear of three places where the buffers lose their way.  A
\* newline is not the first byte that a read returns, unless it ends the file:
\* the length 0 of the line or of its tail reads as an empty buffer, or as
\* nothing to swap.  And, but for the first and the last read, no read comes
\* without a newline.
ReadStart(p) == p % REC_LEN = 1

Fits ==
  /\ \A p \in newlines : ReadStart(p) => p = size
  /\ \A p \in 1 .. size :
       ReadStart(p) /\ p > 1 /\ p + REC_LEN <= size =>
         newlines \cap (p .. p + REC_LEN - 1) # {}

\* A newline at the end of the file is followed by one more, empty record,
\* unless it was the first byte of a read.
EmptyRecordAdded == size \in newlines /\ ~ReadStart(size)

Expected == IF EmptyRecordAdded THEN Append(Lines, <<>>) ELSE Lines

\* A file that fits is copied line by line: no line is lost, split or joined
\* at a buffer boundary, whatever the position of the boundary in the line.
\* No other file is: Fits draws the line exactly.
CopiedIffFits == pc = "done" => (records = Expected <=> Fits)

\* The loop over the lines ends, for every file.
EveryFileEnds == <>(pc = "done")

\* The lines that a record of the dataset cannot hold.
LongLines == { p \in LineStarts : LineEnd(p) - p + 1 > Capacity }

\* On a V dataset write_member reports a cut exactly if a line was cut: what
\* copy_into_record_buffer cuts to record_length is still too long for a record.
CutIsReportedV ==
  Capacity < Lrecl /\ pc = "done" /\ Fits => (truncated <=> LongLines # {})

==============================================================================
