---------------------------- MODULE MCPublisher ----------------------------
(* Publisher for TLC.                                                       *)
EXTENDS Publisher

(* NoPriority, NormalPriority, CriticalPriority: both ends and a middle.    *)
ThreePriorities == {0, 2, 4}
OnePriority == {2}
=============================================================================
