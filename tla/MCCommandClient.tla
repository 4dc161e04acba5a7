--------------------------- MODULE MCCommandClient ---------------------------
(* CommandClient for TLC.                                                   *)
EXTENDS CommandClient
==============================================================================
