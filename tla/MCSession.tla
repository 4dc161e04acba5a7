------------------------------ MODULE MCSession ------------------------------
(* Session for TLC: one client that sends everything and may lose its       *)
(* patience, and one that takes its place and its home.                    *)
EXTENDS Session, TLC

CONSTANTS c1, c2

Programs == c1 :> Command @@ c2 :> {"connect", "disconnect", "setHomePosition"}
Sockets == c1 :> 2 @@ c2 :> 1
=============================================================================
