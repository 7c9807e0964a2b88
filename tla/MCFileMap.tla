------------------------------ MODULE MCFileMap ------------------------------
(* Bases 1 and 2 differ in case, and so do the extensions 1 and 2; base 4 is  *)
(* too long for a member; two directories have a '.' in their name.           *)
EXTENDS FileMap

Path(d, b, e) == [dir_ext |-> d, base |-> b, ext |-> e]

MCPaths == { Path(NoDot, b, e) : b \in {1, 2, 3}, e \in {1, 3} }
           \cup { Path(NoDot, 1, 2), Path(NoDot, 4, 3), Path(NoDot, 0, 1), Path(NoDot, 3, 0),
                  Path(NoDot, 2, NoDot), Path(3, 1, NoDot), Path(0, 1, NoDot) }

MCUpper == [c \in 0 .. 4 |-> IF c = 2 THEN 1 ELSE c]
==============================================================================
