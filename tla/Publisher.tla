------------------------------ MODULE Publisher ------------------------------
(***************************************************************************)
(* PublisherBase: the threads that enqueue messages, the worker thread     *)
(* that sends them, and the owner thread that starts, stops and resets the *)
(* publisher.                                                              *)
(*                                                                         *)
(* pub_mtx_ is held by the owner inside startPublisher, stopPublisher or   *)
(* resetPublisher and by a user inside enqueueMsg, so one program counter  *)
(* serves all the threads that enqueue: PubFree says that nobody holds it. *)
(* queue_mutex_ is held by the worker from its lock to its wait or its     *)
(* pop, and by a user for the single step that inserts: QueueFree.         *)
(***************************************************************************)
EXTENDS Integers, Sequences

CONSTANTS
  Priority,    \* the values of MessagePriority in use
  Topic,       \* what messages of one priority differ in
  MaxQueue,    \* kMaxSendingQueueSize
  SendErrors   \* whether sending may throw

ASSUME PriorityAssumption == Priority \subseteq 0..4
ASSUME LimitsAssumption == MaxQueue \in Nat /\ SendErrors \in BOOLEAN

VARIABLES
  flagWorking,  \* flag_publisher_working_
  socket,       \* publisher_socket_ is not null
  stop,         \* stop_queue_worker_
  queue,        \* the queues queue_prio_*, by priority
  hand,         \* the message the worker has popped and not sent
  wpc,          \* where messageQueueWorker is
  opc,          \* where the owner thread is
  upc, umsg,    \* where the user inside enqueueMsg is, and its message
  missed        \* history: the worker was about to wait when it was told to stop

vars == <<flagWorking, socket, stop, queue, hand, wpc, opc, upc, umsg, missed>>

state == <<flagWorking, socket>>
user == <<upc, umsg>>

Nothing == [prio |-> -1, topic |-> "none"]
PublishedMessage == [prio : Priority, topic : Topic]

WorkerAt == {"none", "top", "test", "toWait", "waiting", "woken", "pick", "send",
             "failed", "aborted", "done"}
OwnerAt == {"idle", "started", "notify", "join", "hung"}

(* An aborted program takes no step.                                        *)
Running == wpc # "aborted"

PubFree == Running /\ opc = "idle" /\ upc = "idle"
QueueFree == Running /\ wpc \notin {"test", "toWait", "pick"}

Init == /\ flagWorking = FALSE /\ socket = FALSE /\ stop = FALSE
        /\ queue = [p \in Priority |-> <<>>] /\ hand = Nothing
        /\ wpc = "none" /\ opc = "idle" /\ upc = "idle" /\ umsg = Nothing
        /\ missed = FALSE
-----------------------------------------------------------------------------
(* The owner thread.                                                        *)

(* Mutant: the worker of the new session is still told to stop.             *)
StartKeepsStop == /\ ~flagWorking /\ PubFree
                  /\ \/ socket' = FALSE /\ UNCHANGED <<wpc, opc>>
                     \/ socket' = TRUE /\ wpc' = "top" /\ opc' = "started"
                  /\ UNCHANGED <<flagWorking, stop, queue, hand, user, missed>>

(* startPublisher, internalResetPublisher: with the publisher stopped there *)
(* is no socket to delete and no worker to join.  If no attempt binds,      *)
(* nothing remains; otherwise the worker runs before the flag is set.       *)
StartPublisher == /\ ~flagWorking /\ PubFree
                  /\ stop' = FALSE
                  /\ \/ socket' = FALSE /\ UNCHANGED <<wpc, opc>>
                     \/ socket' = TRUE /\ wpc' = "top" /\ opc' = "started"
                  /\ UNCHANGED <<flagWorking, queue, hand, user, missed>>

StartReturns == /\ opc = "started" /\ opc' = "idle"
                /\ flagWorking' = TRUE
                /\ UNCHANGED <<socket, stop, queue, hand, wpc, user, missed>>

(* stopPublisher, internalStopPublisher: the worker is told without the     *)
(* mutex of its condition variable, and joined with pub_mtx_ held.          *)
StopPublisher == /\ flagWorking /\ PubFree
                 /\ stop' = TRUE /\ opc' = "notify"
                 /\ UNCHANGED <<state, queue, hand, wpc, user, missed>>

Woken == IF wpc = "waiting" THEN "woken" ELSE wpc

NotifyStop == /\ Running /\ opc = "notify" /\ opc' = "join"
              /\ wpc' = Woken
              /\ missed' = (wpc = "toWait")
              /\ UNCHANGED <<state, stop, queue, hand, user>>

(* Mutant: the socket is deleted while the worker may still use it.         *)
StopReturnsAtOnce == /\ opc = "join" /\ opc' = "idle"
                     /\ flagWorking' = FALSE /\ socket' = FALSE
                     /\ UNCHANGED <<stop, queue, hand, wpc, user, missed>>

(* The join returns when the worker has ended; flag and socket go after it. *)
StopReturns == /\ opc = "join" /\ wpc = "done"
               /\ opc' = "idle" /\ wpc' = "none"
               /\ flagWorking' = FALSE /\ socket' = FALSE
               /\ missed' = FALSE
               /\ UNCHANGED <<stop, queue, hand, user>>

(* resetPublisher locks pub_mtx_ and calls internalResetPublisher, which    *)
(* locks it again.  What the second lock of a thread does is undefined: it  *)
(* blocks, or it throws, and the first lock is released on the way out.     *)
ResetPublisher == /\ PubFree
                  /\ opc' \in {"hung", "idle"}
                  /\ UNCHANGED <<state, stop, queue, hand, wpc, user, missed>>
-----------------------------------------------------------------------------
(* The users.                                                               *)

(* enqueueMsg takes pub_mtx_ and looks at the socket; with none it returns  *)
(* PUBLISHER_STOPPED.                                                       *)
EnqueueMsg(m) == /\ PubFree /\ socket
                 /\ upc' = "insert" /\ umsg' = m
                 /\ UNCHANGED <<state, stop, queue, hand, wpc, opc, missed>>

(* Mutant: the limit is off by one.                                         *)
InsertOneMore == /\ upc = "insert" /\ QueueFree
                 /\ Len(queue[umsg.prio]) <= MaxQueue
                 /\ queue' = [queue EXCEPT ![umsg.prio] = Append(@, umsg.topic)]
                 /\ upc' = "notify" /\ umsg' = Nothing
                 /\ UNCHANGED <<state, stop, hand, wpc, opc, missed>>

(* internalEnqueueMsg: the queue of the priority takes it, or is full.      *)
InternalEnqueueMsg == /\ upc = "insert" /\ QueueFree
                      /\ Len(queue[umsg.prio]) < MaxQueue
                      /\ queue' = [queue EXCEPT ![umsg.prio] = Append(@, umsg.topic)]
                      /\ upc' = "notify" /\ umsg' = Nothing
                      /\ UNCHANGED <<state, stop, hand, wpc, opc, missed>>

(* OVERFLOW_QUEUE: nobody is notified.                                      *)
QueueOverflow == /\ upc = "insert" /\ QueueFree
                 /\ Len(queue[umsg.prio]) >= MaxQueue
                 /\ upc' = "idle" /\ umsg' = Nothing
                 /\ UNCHANGED <<state, stop, queue, hand, wpc, opc, missed>>

(* Mutant: nobody is notified of an insertion.                              *)
NotifyNobody == /\ Running /\ upc = "notify" /\ upc' = "idle"
                /\ UNCHANGED <<state, stop, queue, hand, wpc, opc, umsg, missed>>

(* queue_cv_.notify_one, after queue_mutex_ has been released.              *)
NotifyMsg == /\ Running /\ upc = "notify" /\ upc' = "idle"
             /\ wpc' = Woken
             /\ UNCHANGED <<state, stop, queue, hand, opc, umsg, missed>>
-----------------------------------------------------------------------------
(* messageQueueWorker.                                                      *)

Backlog == {p \in Priority : queue[p] # <<>>}

(* The head of the loop: the flag is tested, then queue_mutex_ is taken.    *)
LoopHead == /\ wpc = "top" /\ wpc' = IF stop THEN "done" ELSE "test"
            /\ UNCHANGED <<state, stop, queue, hand, opc, user, missed>>

(* Mutant: a stop does not end the wait.                                    *)
TestBacklog == /\ wpc = "test" /\ wpc' = IF Backlog # {} THEN "pick" ELSE "toWait"
               /\ UNCHANGED <<state, stop, queue, hand, opc, user, missed>>

(* The predicate of the wait, with the mutex held.                          *)
Test == /\ wpc = "test" /\ wpc' = IF stop \/ Backlog # {} THEN "pick" ELSE "toWait"
        /\ UNCHANGED <<state, stop, queue, hand, opc, user, missed>>

(* The mutex is released and the thread put to sleep in one step, but not   *)
(* in the same step as the test of the predicate.                           *)
Block == /\ wpc = "toWait" /\ wpc' = "waiting"
         /\ UNCHANGED <<state, stop, queue, hand, opc, user, missed>>

Wake == /\ wpc = "woken" /\ wpc' = "test"
        /\ UNCHANGED <<state, stop, queue, hand, opc, user, missed>>

Break == /\ wpc = "pick" /\ stop /\ wpc' = "done"
         /\ UNCHANGED <<state, stop, queue, hand, opc, user, missed>>

(* Mutant: the least priority goes first.                                   *)
UrgentLast(p) == p \in Backlog /\ \A q \in Backlog : q >= p

(* The first queue of the chain that is not empty.  Its last branch, all of *)
(* them empty, cannot be reached: the predicate held and nobody else pops.  *)
Urgent(p) == p \in Backlog /\ \A q \in Backlog : q <= p

TakeMsg == /\ wpc = "pick" /\ ~stop
           /\ \E p \in Priority :
                /\ Urgent(p)
                /\ hand' = [prio |-> p, topic |-> Head(queue[p])]
                /\ queue' = [queue EXCEPT ![p] = Tail(@)]
           /\ wpc' = "send"
           /\ UNCHANGED <<state, stop, opc, user, missed>>

(* multipart_msg.send: sent, or no byte of it was, and the loop goes on.    *)
SendMsg == /\ wpc = "send" /\ wpc' = "top" /\ hand' = Nothing
           /\ UNCHANGED <<state, stop, queue, opc, user, missed>>

SendFails == /\ wpc = "send" /\ SendErrors
             /\ wpc' = "failed" /\ hand' = Nothing
             /\ UNCHANGED <<state, stop, queue, opc, user, missed>>

(* internalStopPublisher called by the worker.  With the flag set it joins  *)
(* its own thread: join throws, nobody catches it, the program is aborted.  *)
StopFromWorker == /\ wpc = "failed"
                  /\ stop' = (stop \/ flagWorking)
                  /\ wpc' = IF flagWorking THEN "aborted" ELSE "top"
                  /\ UNCHANGED <<state, queue, hand, opc, user, missed>>
-----------------------------------------------------------------------------
OwnerStep == \/ StartPublisher \/ StartReturns
             \/ StopPublisher \/ NotifyStop \/ StopReturns
             \/ ResetPublisher

UserStep == \/ \E m \in PublishedMessage : EnqueueMsg(m)
            \/ InternalEnqueueMsg \/ QueueOverflow \/ NotifyMsg

WorkerStep == \/ LoopHead \/ Test \/ Block \/ Wake \/ Break
              \/ TakeMsg \/ SendMsg \/ StopFromWorker

Next == OwnerStep \/ UserStep \/ WorkerStep \/ SendFails

Spec == Init /\ [][Next]_vars

(* The threads run and finish the calls they began, while the program runs. *)
(* Nobody is obliged to call, and no send has to fail.                      *)
Fairness == /\ WF_vars(WorkerStep)
            /\ WF_vars(StartReturns \/ NotifyStop \/ StopReturns)
            /\ WF_vars(NotifyMsg)

FairSpec == Spec /\ Fairness
-----------------------------------------------------------------------------
(* Properties.                                                              *)

(* Every variable holds a value the C++ object can hold, no queue longer    *)
(* than kMaxSendingQueueSize.                                               *)
TypeOK == /\ flagWorking \in BOOLEAN /\ socket \in BOOLEAN /\ stop \in BOOLEAN
          /\ queue \in [Priority -> Seq(Topic)]
          /\ \A p \in Priority : Len(queue[p]) <= MaxQueue
          /\ hand \in PublishedMessage \cup {Nothing}
          /\ wpc \in WorkerAt /\ opc \in OwnerAt
          /\ upc \in {"idle", "insert", "notify"} /\ umsg \in PublishedMessage \cup {Nothing}
          /\ missed \in BOOLEAN

(* The worker sends through publisher_socket_ without pub_mtx_: the socket  *)
(* is there as long as the worker is, through every stop and restart.       *)
SocketOutlivesWorker == wpc \notin {"none", "done"} => socket

(* The inductive invariant behind it: one worker per session, pub_mtx_ with *)
(* one holder, and what a stopped publisher is.                             *)
Sessions == /\ opc # "idle" => upc = "idle"
            /\ upc # "idle" => socket
            /\ socket <=> wpc # "none"
            /\ flagWorking => socket
            /\ socket /\ ~flagWorking => opc = "started"
            /\ opc = "started" => ~flagWorking /\ socket
            /\ opc \in {"notify", "join"} => flagWorking /\ stop
            /\ wpc = "done" => stop
            /\ stop /\ wpc \notin {"none", "aborted"} => opc \in {"notify", "join"}
            /\ upc = "insert" <=> umsg # Nothing
            /\ hand # Nothing <=> wpc = "send"
            /\ wpc = "pick" => stop \/ Backlog # {}

(* A message in any queue keeps the worker working: no notification of an   *)
(* insertion is lost.                                                       *)
BacklogIsServed == Backlog # {} ~> (hand # Nothing \/ stop \/ ~socket)

(* stopPublisher returns unless its notification came between the worker's  *)
(* test of the predicate and its wait, or a send failed meanwhile.          *)
StopReturnsOrMissed == opc = "join" ~> (opc = "idle" \/ missed \/ ~Running)

(* The publisher implements PriorityOutbox: per priority first in first     *)
(* out, the highest priority first, no message lost, doubled or taken while *)
(* the publisher is stopped.                                                *)
Outbox == INSTANCE PriorityOutbox WITH open <- socket, waiting <- queue, inHand <- hand

ImplementsOutbox == Outbox!Spec
=============================================================================
