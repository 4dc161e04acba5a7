------------------------- MODULE MCBinarySerializer -------------------------
(***************************************************************************)
(* Values for TLC: numbers and texts of bytes that differ when reversed,   *)
(* empty and longer ones of each type.                                     *)
(***************************************************************************)
EXTENDS BinarySerializer

V(type, val) == [type |-> type, val |-> val]

AllTypes ==
  { V("scalar", 6), V("string", <<1, 2>>), V("string", <<>>), V("array", <<6, 1>>),
    V("vector", <<1>>), V("vector", <<6, 1>>), V("vector", <<>>),
    V("vectors", << <<>>, <<6>> >>), V("vectors", <<>>),
    V("strings", << <<1, 2>>, <<>> >>), V("strings", << <<2, 3>> >>),
    V("object", [number |-> 6, text |-> <<1, 2>>]), V("object", [number |-> 1, text |-> <<>>]),
    V("file", [name |-> <<1, 2>>, content |-> <<3, 1>>]), V("file", [name |-> <<1>>, content |-> <<>>]) }
=============================================================================
