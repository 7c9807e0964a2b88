----------------------------- MODULE MCF2MCopy -----------------------------
(* Three files of two extensions for F2MCopy.                               *)
EXTENDS F2MCopy

CONSTANTS a, b, c

MCTable == <<<<a, b>>, <<c>>>>
=============================================================================
