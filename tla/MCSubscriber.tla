---------------------------- MODULE MCSubscriber ----------------------------
(* Topics for TLC.                                                         *)
EXTENDS Subscriber

TwoTopics == {"log", "data"}
OneTopic == {"log"}
=============================================================================
