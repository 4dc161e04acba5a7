--------------------------- MODULE MCCommandServer ---------------------------
(* CommandServer for TLC.  The clients are interchangeable: no property     *)
(* and no constant tells them apart.                                        *)
EXTENDS CommandServer, TLC

ClientSymmetry == Permutations(Client)
==============================================================================
