------------------------------ MODULE Subscriber ------------------------------
(***************************************************************************)
(* SubscriberBase (subscriber_base.cpp): the thread of its owner, which    *)
(* starts, stops and changes what it listens to, its worker, the socket    *)
(* and what arrives there.  The socket of the worker and the private one   *)
(* that ends the worker are created and deleted together.                  *)
(*                                                                         *)
(* A new worker is launched only when the last one has ended.              *)
(***************************************************************************)
EXTENDS Naturals, Sequences

CONSTANTS
  Endpoint,       \* the publishers there are
  Topic,          \* what is published
  AnyTopic,       \* the empty filter, which lets everything pass
  MaxInbox,       \* bound of the messages that wait in the socket
  ZmqErrors       \* whether creating sockets and receiving may fail

ASSUME AnyTopicAssumption == AnyTopic \notin Topic
ASSUME MaxInboxAssumption == MaxInbox \in Nat
ASSUME ZmqErrorsAssumption == ZmqErrors \in BOOLEAN

VARIABLES
  working,        \* flag_working_
  publishers,     \* the endpoints in subscribed_publishers_
  filters,        \* topic_filters_
  sock,           \* socket_ and socket_pub_close_: what they listen to
  inbox,          \* what waits in the socket
  wpc,            \* where the worker is, in subscriberWorker
  opc,            \* where the owner is
  after,          \* why it is in internalStopSubscriber
  missed          \* history: a start was notified before it waited

sets == <<publishers, filters>>
vars == <<working, publishers, filters, sock, inbox, wpc, opc, after, missed>>

Filter == Topic \cup {AnyTopic}
NoSocket == [endpoints |-> {}, topics |-> {}, open |-> FALSE]
Socket(e, t) == [endpoints |-> e, topics |-> t, open |-> TRUE]

(* What a publisher may send, as far as recvFromSocket tells: data; no      *)
(* data, which makes three parts, the wrong UUID size or the reserved      *)
(* topic, all refused; parts that do not deserialize, which throw.         *)
Kind == {"data", "refused", "corrupt"}
Message == {"data", "refused", "corrupt", "exit"}

Alive == wpc \notin {"none", "done"}

Init ==
  /\ working = FALSE
  /\ publishers = {} /\ filters = {}
  /\ sock = NoSocket /\ inbox = <<>>
  /\ wpc = "none" /\ opc = "idle" /\ after = "stop"
  /\ missed = FALSE
-----------------------------------------------------------------------------
(* The owner. *)

(* startSubscriber: launch of the worker, with nobody waiting for it yet.  *)
StartSubscriber ==
  /\ opc = "idle" /\ ~working /\ ~Alive
  /\ wpc' = "reset" /\ opc' = "launched"
  /\ UNCHANGED <<working, sets, sock, inbox, after, missed>>

(* startSubscriber: the wait, without a predicate.                         *)
WaitDeployment ==
  /\ opc = "launched" /\ opc' = "waiting"
  /\ UNCHANGED <<working, sets, sock, inbox, wpc, after, missed>>

(* resetSocket of a working subscriber: internalStopSubscriber first.      *)
Reset ==
  \/ /\ working
     /\ working' = FALSE /\ opc' = "test" /\ after' = "reset"
  \/ /\ ~working
     /\ UNCHANGED <<working, opc, after>>

(* The key of the map is a UUID that is always nil: a second is not stored. *)
Subscribe(e) ==
  /\ opc = "idle" /\ e \notin publishers
  /\ publishers' = IF publishers = {} THEN {e} ELSE publishers
  /\ Reset
  /\ UNCHANGED <<filters, sock, inbox, wpc, missed>>

Unsubscribe(e) ==
  /\ opc = "idle" /\ e \in publishers
  /\ publishers' = publishers \ {e}
  /\ Reset
  /\ UNCHANGED <<filters, sock, inbox, wpc, missed>>

(* Mutant: the filter is stored, the socket not reset.                     *)
AddTopicFilterOnly(f) ==
  /\ opc = "idle" /\ f \notin filters
  /\ filters' = filters \cup {f}
  /\ UNCHANGED <<working, publishers, sock, inbox, wpc, opc, after, missed>>

AddTopicFilter(f) ==
  /\ opc = "idle" /\ f \notin filters
  /\ filters' = filters \cup {f}
  /\ Reset
  /\ UNCHANGED <<publishers, sock, inbox, wpc, missed>>

RemoveTopicFilter(f) ==
  /\ opc = "idle" /\ f \in filters
  /\ filters' = filters \ {f}
  /\ Reset
  /\ UNCHANGED <<publishers, sock, inbox, wpc, missed>>

(* stopSubscriber: internalStopSubscriber; the sets are emptied after it.   *)
StopSubscriber ==
  /\ opc = "idle"
  /\ \/ /\ working
        /\ working' = FALSE /\ opc' = "test" /\ after' = "stop"
        /\ UNCHANGED sets
     \/ /\ ~working
        /\ publishers' = {} /\ filters' = {}
        /\ UNCHANGED <<working, opc, after>>
  /\ UNCHANGED <<sock, inbox, wpc, missed>>

(* internalStopSubscriber: is the worker still active?                     *)
TestWorker ==
  /\ opc = "test"
  /\ opc' = IF Alive THEN "send" ELSE "delete"
  /\ UNCHANGED <<working, sets, sock, inbox, wpc, after, missed>>

(* Mutant: the worker is not told.                                         *)
SendNoExit ==
  /\ opc = "send" /\ opc' = "join"
  /\ UNCHANGED <<working, sets, sock, inbox, wpc, after, missed>>

(* Then the exit message, which the socket subscribed to before the other  *)
(* was bound, so that it arrives.                                          *)
SendExit ==
  /\ opc = "send" /\ opc' = "join"
  /\ inbox' = Append(inbox, "exit")
  /\ UNCHANGED <<working, sets, sock, wpc, after, missed>>

(* Mutant: the worker is not awaited.                                      *)
JoinNobody ==
  /\ opc = "join" /\ opc' = "delete"
  /\ UNCHANGED <<working, sets, sock, inbox, wpc, after, missed>>

Join ==
  /\ opc = "join" /\ ~Alive /\ opc' = "delete"
  /\ UNCHANGED <<working, sets, sock, inbox, wpc, after, missed>>

(* Mutant: what waits in the socket survives it.                           *)
DeleteSocketsOnly ==
  /\ opc = "delete"
  /\ sock' = NoSocket
  /\ \/ /\ after = "stop"
        /\ publishers' = {} /\ filters' = {} /\ opc' = "idle"
     \/ /\ after = "reset"
        /\ opc' = "create" /\ UNCHANGED sets
  /\ UNCHANGED <<working, inbox, wpc, after, missed>>

(* The sockets are deleted; stopSubscriber ends here.                      *)
DeleteSockets ==
  /\ opc = "delete"
  /\ sock' = NoSocket /\ inbox' = <<>>
  /\ \/ /\ after = "stop"
        /\ publishers' = {} /\ filters' = {} /\ opc' = "idle"
     \/ /\ after = "reset"
        /\ opc' = "create" /\ UNCHANGED sets
  /\ UNCHANGED <<working, wpc, after, missed>>

(* The rest of resetSocket: sockets for what is in the sets, or none.      *)
CreateSockets ==
  \/ sock' = Socket(publishers, filters) /\ working' = TRUE
  \/ ZmqErrors /\ sock' = NoSocket /\ working' = FALSE

(* resetSocket for the owner launches no worker.                           *)
ResetReturns ==
  /\ opc = "create" /\ opc' = "idle"
  /\ CreateSockets
  /\ UNCHANGED <<sets, inbox, wpc, after, missed>>
-----------------------------------------------------------------------------
(* The worker. *)

(* resetSocket for the worker, which finds nothing to stop.                *)
ResetSocket ==
  /\ wpc = "reset" /\ wpc' = "notify"
  /\ CreateSockets
  /\ UNCHANGED <<sets, inbox, opc, after, missed>>

(* Mutant: only success is notified.                                       *)
NotifySuccess ==
  /\ wpc = "notify" /\ wpc' = "head"
  /\ opc' = IF opc = "waiting" /\ working THEN "idle" ELSE opc
  /\ missed' = (missed \/ opc = "launched")
  /\ UNCHANGED <<working, sets, sock, inbox, after>>

(* Whoever waits for the deployment goes on; startSubscriber returns.      *)
NotifyDeployment ==
  /\ wpc = "notify" /\ wpc' = "head"
  /\ opc' = IF opc = "waiting" THEN "idle" ELSE opc
  /\ missed' = (missed \/ opc = "launched")
  /\ UNCHANGED <<working, sets, sock, inbox, after>>

LoopHead ==
  /\ wpc = "head"
  /\ wpc' = IF working /\ sock.open THEN "recv" ELSE "done"
  /\ UNCHANGED <<working, sets, sock, inbox, opc, after, missed>>

(* recvFromSocket gives a message or refuses it; the callbacks are called, *)
(* or nothing is done if the flag is down by now.                          *)
Receive ==
  /\ wpc = "recv" /\ inbox # <<>>
  /\ Head(inbox) # "corrupt"
  /\ inbox' = Tail(inbox) /\ wpc' = "process"
  /\ UNCHANGED <<working, sets, sock, opc, after, missed>>
Process ==
  /\ wpc = "process" /\ wpc' = "head"
  /\ UNCHANGED <<working, sets, sock, inbox, opc, after, missed>>

(* What fastDeserialization throws ends the worker.                        *)
ReceiveDies ==
  /\ wpc = "recv" /\ inbox # <<>>
  /\ Head(inbox) = "corrupt"
  /\ inbox' = Tail(inbox) /\ wpc' = "done"
  /\ UNCHANGED <<working, sets, sock, opc, after, missed>>

(* recv throws; the callbacks are called.                                  *)
ReceiveError ==
  /\ ZmqErrors
  /\ wpc = "recv" /\ wpc' = "process"
  /\ UNCHANGED <<working, sets, sock, inbox, opc, after, missed>>

(* A publisher the socket is connected to sends what its filters let pass, *)
(* and the reserved topic, which always passes but as no data.             *)
Publish(e, t, kind) ==
  /\ e \in sock.endpoints
  /\ kind = "data" => {t, AnyTopic} \cap sock.topics # {}
  /\ Len(inbox) < MaxInbox
  /\ inbox' = Append(inbox, kind)
  /\ UNCHANGED <<working, sets, sock, wpc, opc, after, missed>>

OwnerStep == WaitDeployment \/ TestWorker \/ SendExit \/ Join \/ DeleteSockets \/ ResetReturns
OwnerCall ==
  \/ StartSubscriber \/ StopSubscriber
  \/ \E e \in Endpoint : Subscribe(e) \/ Unsubscribe(e)
  \/ \E f \in Filter : AddTopicFilter(f) \/ RemoveTopicFilter(f)
WorkerStep == ResetSocket \/ NotifyDeployment \/ LoopHead \/ Receive \/ Process \/ ReceiveDies

Next ==
  \/ OwnerStep \/ OwnerCall
  \/ WorkerStep \/ ReceiveError
  \/ \E e \in Endpoint, t \in Topic, k \in Kind : Publish(e, t, k)

Spec == Init /\ [][Next]_vars
FairSpec == Spec /\ WF_vars(OwnerStep) /\ WF_vars(WorkerStep)
-----------------------------------------------------------------------------
(* Types; one exit message at most, and none that outlives its stop.       *)
TypeOK ==
  /\ working \in BOOLEAN /\ missed \in BOOLEAN
  /\ publishers \subseteq Endpoint /\ filters \subseteq Filter
  /\ sock \in [endpoints : SUBSET Endpoint, topics : SUBSET Filter, open : BOOLEAN]
  /\ inbox \in Seq(Message)
  /\ Len(inbox) <= MaxInbox + (IF opc \in {"join", "delete"} THEN 1 ELSE 0)
  /\ wpc \in {"none", "reset", "notify", "head", "recv", "process", "done"}
  /\ opc \in {"idle", "launched", "waiting", "test", "send", "join", "delete", "create"}
  /\ after \in {"stop", "reset"}

(***************************************************************************)
(* Whatever was subscribed, unsubscribed or filtered, before or after the  *)
(* start and by however many calls: when they have returned, a working     *)
(* subscriber listens exactly to what its sets hold, and one that does not  *)
(* work has no sockets.                                                    *)
(***************************************************************************)
SocketFollowsSets ==
  opc = "idle" => sock = IF working THEN Socket(publishers, filters) ELSE NoSocket

(***************************************************************************)
(* The worker uses the socket without a mutex, while the owner deletes and *)
(* creates sockets: never under a worker that is in its loop.  When a stop *)
(* has returned no worker is left to call a callback.                      *)
(***************************************************************************)
SocketOutlivesWorker ==
  /\ wpc \in {"recv", "process"} => sock.open
  /\ opc = "idle" /\ ~working => wpc \in {"none", "head", "done"}

(***************************************************************************)
(* A stop, or a call that resets the socket, returns, whatever waits in    *)
(* the socket and although an exception may have ended the worker.         *)
(***************************************************************************)
StopReturns == opc = "test" ~> opc = "idle"

(***************************************************************************)
(* startSubscriber returns, also when no socket could be created, but for  *)
(* one way: the worker notified before it waited.                          *)
(***************************************************************************)
StartReturnsOrMissed == opc = "launched" ~> (opc = "idle" \/ missed)

(***************************************************************************)
(* Violated: isWorking (subscriber_base.h) tells "whether the worker       *)
(* thread is currently active".                                            *)
(***************************************************************************)
WorkingHasWorker == opc = "idle" /\ working => Alive
=============================================================================
