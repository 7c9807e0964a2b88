------------------------------ MODULE MCM2FCopy ------------------------------
(* Members that fit, fill the buffer to the last byte, or drop a record or a *)
(* newline in between.                                                       *)
EXTENDS M2FCopy

MCKinds == { [alias |-> FALSE, lens |-> l] :
               l \in { <<>>, <<0, 1>>, <<1, 1>>, <<4, 1>>, <<2, 3, 0>>, <<5, 1>> } }
             \cup { [alias |-> TRUE, lens |-> <<>>] }
==============================================================================
