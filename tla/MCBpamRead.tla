----------------------------- MODULE MCBpamRead -----------------------------
(* Small members for BpamRead.                                              *)
EXTENDS BpamRead

At(blk, off, stride) == [blk |-> blk, off |-> off, stride |-> stride]

\* An empty member, a full block, and a full block with a short one behind it.
MCFixedMembers ==
  { [sizes |-> <<>>, recs |-> <<>>],
    [sizes |-> <<6>>, recs |-> <<At(1, 0, 2), At(1, 2, 2), At(1, 4, 2)>>],
    [sizes |-> <<6, 4>>,
     recs  |-> <<At(1, 0, 2), At(1, 2, 2), At(1, 4, 2), At(2, 0, 2), At(2, 2, 2)>>] }

\* An empty member, one short block, and three blocks with empty records first,
\* last and alone in their block.
MCVariableMembers ==
  { [sizes |-> <<>>, recs |-> <<>>],
    [sizes |-> <<11>>, recs |-> <<At(1, 4, 7)>>],
    [sizes |-> <<16, 8, 15>>,
     recs  |-> <<At(1, 4, 4), At(1, 8, 8), At(2, 4, 4), At(3, 4, 7), At(3, 11, 4)>>] }

MCDatasets ==
  { [recfm |-> "F", lrecl |-> 2, blksi |-> 6, members |-> MCFixedMembers],
    [recfm |-> "V", lrecl |-> 8, blksi |-> 16, members |-> MCVariableMembers] }
=============================================================================
