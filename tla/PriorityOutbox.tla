--------------------------- MODULE PriorityOutbox ---------------------------
(***************************************************************************)
(* What a publisher promises, with threads, locks and the socket left out: *)
(* while it is open it accepts messages up to a limit for each priority,   *)
(* and takes them one at a time, the highest priority first and in the     *)
(* order of acceptance within a priority.  Nothing is taken or in hand     *)
(* while it is closed; what was accepted before waits for it to reopen.    *)
(***************************************************************************)
EXTENDS Integers, Sequences

CONSTANTS Priority,  \* the priorities, the greatest first to go
          Topic,     \* what the messages of one priority differ in
          MaxQueue   \* kMaxSendingQueueSize

VARIABLES open,      \* whether messages are accepted and taken
          waiting,   \* for each priority, the messages accepted and not taken
          inHand     \* the message taken and not disposed of

vars == <<open, waiting, inHand>>

Nothing == [prio |-> -1, topic |-> "none"]

Init == /\ open = FALSE
        /\ waiting = [p \in Priority |-> <<>>]
        /\ inHand = Nothing

Open == ~open /\ open' = TRUE /\ UNCHANGED <<waiting, inHand>>

Close == open /\ inHand = Nothing /\ open' = FALSE /\ UNCHANGED <<waiting, inHand>>

Accept(p, t) == /\ open /\ Len(waiting[p]) < MaxQueue
                /\ waiting' = [waiting EXCEPT ![p] = Append(@, t)]
                /\ UNCHANGED <<open, inHand>>

Urgent(p) == /\ waiting[p] # <<>>
             /\ \A q \in Priority : waiting[q] # <<>> => q <= p

Take(p) == /\ open /\ inHand = Nothing /\ Urgent(p)
           /\ inHand' = [prio |-> p, topic |-> Head(waiting[p])]
           /\ waiting' = [waiting EXCEPT ![p] = Tail(@)]
           /\ UNCHANGED open

Dispose == inHand # Nothing /\ inHand' = Nothing /\ UNCHANGED <<open, waiting>>

Next == \/ Open \/ Close \/ Dispose
        \/ \E p \in Priority : Take(p)
        \/ \E p \in Priority, t \in Topic : Accept(p, t)

Spec == Init /\ [][Next]_vars
=============================================================================
