---------------------------- MODULE CommandService ----------------------------
(***************************************************************************)
(* What the command server promises its clients, with threads, sockets,    *)
(* locks and clocks left out: a set of members, at most limit of them, and *)
(* one command at a time that is executed in a single step.  The result    *)
(* returned, the membership it was decided on and the membership it leaves *)
(* belong to that one step.                                                *)
(***************************************************************************)
EXTENDS Commands, Naturals, FiniteSets

CONSTANTS Client,     \* the client UUIDs
          MaxChoices  \* the values setMaxNumberOfClients is called with

VARIABLES members,    \* connected_clients_
          limit,      \* max_connected_clients_
          outcome     \* the executed command whose reply has not been sent

vars == <<members, limit, outcome>>

None == [from |-> "none", kind |-> "none", result |-> "none"]

Init == /\ members = {}
        /\ limit \in MaxChoices
        /\ outcome = None

(* The limit changes only while the server has no member.                  *)
SetLimit(n) == /\ members = {}
               /\ limit' = n
               /\ UNCHANGED <<members, outcome>>

Finish(c, k, r) == outcome' = [from |-> c, kind |-> k, result |-> r]

ConnectClient(c) ==
  \/ c \in members /\ Finish(c, "connect", "ALREADY_CONNECTED") /\ UNCHANGED members
  \/ /\ c \notin members
     /\ Cardinality(members) >= limit
     /\ Finish(c, "connect", "MAX_CLIENTS_REACH")
     /\ UNCHANGED members
  \/ /\ c \notin members
     /\ Cardinality(members) < limit
     /\ Finish(c, "connect", "COMMAND_OK")
     /\ members' = members \cup {c}

RefuseConnect(c) == \E k \in DOMAIN BadConnect :
                       Finish(c, k, BadConnect[k]) /\ UNCHANGED members

RefuseStranger(c) == /\ c \notin members
                     /\ \E k \in {"disconnect"} \cup DOMAIN Answers :
                           Finish(c, k, "CLIENT_NOT_CONNECTED")
                     /\ UNCHANGED members

DisconnectClient(c) == /\ c \in members
                       /\ Finish(c, "disconnect", "COMMAND_OK")
                       /\ members' = members \ {c}

ServeMember(c) == /\ c \in members
                  /\ \E k \in DOMAIN Answers : \E r \in Answers[k] : Finish(c, k, r)
                  /\ UNCHANGED members

Execute(c) == /\ outcome = None
              /\ \/ ConnectClient(c)
                 \/ RefuseConnect(c)
                 \/ RefuseStranger(c)
                 \/ DisconnectClient(c)
                 \/ ServeMember(c)
              /\ UNCHANGED limit

(* The reply leaves before anything else is executed.                      *)
Reply == outcome # None /\ outcome' = None /\ UNCHANGED <<members, limit>>

(* Members leave without asking (dead clients, the end of the service)     *)
(* only between two commands, never between an execution and its reply.    *)
Drop == /\ outcome = None
        /\ members' \in (SUBSET members) \ {members}
        /\ UNCHANGED <<limit, outcome>>

Next == \/ \E n \in MaxChoices : SetLimit(n)
        \/ \E c \in Client : Execute(c)
        \/ Reply
        \/ Drop

Spec == Init /\ [][Next]_vars
===============================================================================
