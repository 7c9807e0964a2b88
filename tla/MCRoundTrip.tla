---------------------------- MODULE MCRoundTrip ----------------------------
(* Small datasets and record lengths for RoundTrip.                         *)
EXTENDS RoundTrip

\* Two records to a block of F, one or two to a block of V.
MCDatasets ==
  { [recfm |-> "F", lrecl |-> 2, blksi |-> 5],
    [recfm |-> "V", lrecl |-> 7, blksi |-> 16] }

\* Empty, short, and longer than any record.
MCRecLens == {0, 1, 5}
=============================================================================
