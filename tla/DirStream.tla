------------------------------ MODULE DirStream ------------------------------
(***************************************************************************)
(* What services/include/memdir.h promises of openmemdir, readmemdir and   *)
(* closememdir: "given a dataset, and how to sort ... return a sorted list *)
(* of member name entries, or NULL if an error occurred", and "return the  *)
(* next member in the sorted list".                                        *)
(***************************************************************************)
EXTENDS Integers

CONSTANTS Entry, None

VARIABLES
  entries,   \* the entries of the directory
  key,       \* per entry: a number that says where it is to come
  stream,    \* "new", "open", "failed" or "closed"
  left,      \* the entries that were not answered yet
  answer     \* of the last call of readmemdir

vars == <<entries, key, stream, left, answer>>

Init ==
  /\ entries \subseteq Entry
  /\ key \in [entries -> Int]
  /\ stream = "new"
  /\ left = {}
  /\ answer = None

Open ==
  /\ stream = "new"
  /\ stream' = "open"
  /\ left' = entries
  /\ UNCHANGED <<entries, key, answer>>

OpenFails ==
  /\ stream = "new"
  /\ stream' = "failed"
  /\ UNCHANGED <<entries, key, left, answer>>

\* Entries with the same key may come in any order.
Read ==
  /\ stream = "open"
  /\ \E e \in left :
       /\ \A f \in left : key[e] <= key[f]
       /\ answer' = e
       /\ left' = left \ {e}
  /\ UNCHANGED <<entries, key, stream>>

ReadEnd ==
  /\ stream = "open"
  /\ left = {}
  /\ answer' = None
  /\ UNCHANGED <<entries, key, stream, left>>

Close ==
  /\ stream = "open"
  /\ stream' = "closed"
  /\ left' = {}
  /\ UNCHANGED <<entries, key, answer>>

Next == Open \/ OpenFails \/ Read \/ ReadEnd \/ Close

Spec == Init /\ [][Next]_vars
==============================================================================
