----------------------------- MODULE MCBpamWrite -----------------------------
(* Small datasets and record lengths for BpamWrite.                         *)
EXTENDS BpamWrite

\* F: two records to a block, and a block length no multiple of the record
\* length.  V: at most four bytes of data; a block that holds one longest record
\* exactly, and one that holds two of them with a byte left over.
MCDatasets ==
  { [recfm |-> "F", lrecl |-> 3, blksi |-> 6],
    [recfm |-> "F", lrecl |-> 2, blksi |-> 7],
    [recfm |-> "V", lrecl |-> 8, blksi |-> 12],
    [recfm |-> "V", lrecl |-> 8, blksi |-> 21] }

\* Empty, short, exactly full, just too long, and longer than a block.
MCRecLens == {0, 2, 4, 5, 40}
==============================================================================
