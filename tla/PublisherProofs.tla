--------------------------- MODULE PublisherProofs ---------------------------
(* The invariants of Publisher, and that it implements PriorityOutbox, for  *)
(* any priorities, topics and queue limit.                                  *)
EXTENDS Publisher, TLAPS

USE PriorityAssumption, LimitsAssumption

LEMMA NothingIsNoMessage == Nothing \notin PublishedMessage
  BY DEF Nothing, PublishedMessage

LEMMA TypeInit == Init => TypeOK
<1> SUFFICES ASSUME Init PROVE TypeOK
  OBVIOUS
<1>1. queue \in [Priority -> Seq(Topic)]
  BY DEF Init
<1>2. \A p \in Priority : Len(queue[p]) = 0
  BY DEF Init
<1>3. \A p \in Priority : Len(queue[p]) <= MaxQueue
  <2>1. 0 <= MaxQueue
    BY LimitsAssumption
  <2> QED
    BY <1>2, <2>1
<1>4. hand = Nothing /\ umsg = Nothing
  BY DEF Init
<1>5. /\ wpc \in WorkerAt /\ opc \in OwnerAt /\ upc \in {"idle", "insert", "notify"}
      /\ flagWorking \in BOOLEAN /\ socket \in BOOLEAN /\ stop \in BOOLEAN /\ missed \in BOOLEAN
  BY DEF Init, WorkerAt, OwnerAt
<1> QED
  BY <1>1, <1>3, <1>4, <1>5 DEF TypeOK

LEMMA TypeStep == TypeOK /\ Sessions /\ [Next]_vars => TypeOK'
<1> SUFFICES ASSUME TypeOK, Sessions, [Next]_vars PROVE TypeOK'
  OBVIOUS
<1> USE DEF TypeOK, WorkerAt, OwnerAt, state, user
<1>1. ASSUME OwnerStep PROVE TypeOK'
  <2>1. CASE StartPublisher
    BY <2>1 DEF StartPublisher
  <2>2. CASE StartReturns
    BY <2>2 DEF StartReturns
  <2>3. CASE StopPublisher
    BY <2>3 DEF StopPublisher
  <2>4. CASE NotifyStop
    BY <2>4 DEF NotifyStop, Woken
  <2>5. CASE StopReturns
    BY <2>5 DEF StopReturns
  <2>6. CASE ResetPublisher
    BY <2>6 DEF ResetPublisher
  <2> QED
    BY <1>1, <2>1, <2>2, <2>3, <2>4, <2>5, <2>6 DEF OwnerStep
<1>2. ASSUME NEW m \in PublishedMessage, EnqueueMsg(m) PROVE TypeOK'
  BY <1>2 DEF EnqueueMsg
<1>3. CASE InternalEnqueueMsg
  <2>1. umsg \in PublishedMessage
    BY <1>3 DEF InternalEnqueueMsg, Sessions
  <2>2. umsg.prio \in Priority /\ umsg.topic \in Topic
    BY <2>1 DEF PublishedMessage
  <2>3. queue' \in [Priority -> Seq(Topic)]
    <3>1. Append(queue[umsg.prio], umsg.topic) \in Seq(Topic)
      BY <2>2
    <3> QED
      BY <1>3, <3>1 DEF InternalEnqueueMsg
  <2>4. ASSUME NEW p \in Priority PROVE Len(queue'[p]) <= MaxQueue
    <3>1. CASE p = umsg.prio
      <4>1. queue'[p] = Append(queue[p], umsg.topic)
        BY <1>3, <3>1 DEF InternalEnqueueMsg
      <4>2. Len(Append(queue[p], umsg.topic)) = Len(queue[p]) + 1
        BY <2>2
      <4>3. Len(queue[p]) \in Nat /\ Len(queue[p]) < MaxQueue
        BY <1>3, <3>1 DEF InternalEnqueueMsg
      <4> QED
        BY <4>1, <4>2, <4>3
    <3>2. CASE p # umsg.prio
      BY <1>3, <3>2 DEF InternalEnqueueMsg
    <3> QED
      BY <3>1, <3>2
  <2> QED
    BY <1>3, <2>3, <2>4 DEF InternalEnqueueMsg
<1>4. CASE QueueOverflow
  BY <1>4 DEF QueueOverflow
<1>5. CASE NotifyMsg
  BY <1>5 DEF NotifyMsg, Woken
<1>6. ASSUME WorkerStep PROVE TypeOK'
  <2>1. CASE LoopHead \/ Test \/ Block \/ Wake \/ Break
    BY <2>1 DEF LoopHead, Test, Block, Wake, Break
  <2>2. CASE TakeMsg
    <3>1. PICK p \in Priority :
            /\ Urgent(p)
            /\ hand' = [prio |-> p, topic |-> Head(queue[p])]
            /\ queue' = [queue EXCEPT ![p] = Tail(@)]
      BY <2>2 DEF TakeMsg
    <3>2. queue[p] \in Seq(Topic) /\ queue[p] # <<>>
      BY <3>1 DEF Urgent, Backlog
    <3>3. Head(queue[p]) \in Topic /\ Tail(queue[p]) \in Seq(Topic)
          /\ Len(Tail(queue[p])) = Len(queue[p]) - 1
      BY <3>2
    <3>4. hand' \in PublishedMessage
      BY <3>1, <3>3 DEF PublishedMessage
    <3>5. queue' \in [Priority -> Seq(Topic)]
      BY <3>1, <3>3
    <3>6. \A q \in Priority : Len(queue'[q]) <= MaxQueue
      BY <3>1, <3>2, <3>3
    <3> QED
      BY <2>2, <3>4, <3>5, <3>6 DEF TakeMsg
  <2>3. CASE SendMsg
    BY <2>3 DEF SendMsg
  <2>4. CASE StopFromWorker
    BY <2>4 DEF StopFromWorker
  <2> QED
    BY <1>6, <2>1, <2>2, <2>3, <2>4 DEF WorkerStep
<1>7. CASE SendFails
  BY <1>7 DEF SendFails
<1>8. CASE UNCHANGED vars
  BY <1>8 DEF vars
<1> QED
  BY <1>1, <1>2, <1>3, <1>4, <1>5, <1>6, <1>7, <1>8 DEF Next, UserStep

LEMMA SessionsInit == Init => Sessions
  BY DEF Init, Sessions

LEMMA SessionsStep == TypeOK /\ Sessions /\ [Next]_vars => Sessions'
<1> SUFFICES ASSUME TypeOK, Sessions, [Next]_vars PROVE Sessions'
  OBVIOUS
<1> USE DEF Sessions, state, user
<1>1. ASSUME OwnerStep PROVE Sessions'
  <2>1. CASE StartPublisher
    BY <2>1 DEF StartPublisher, PubFree, Running, Backlog
  <2>2. CASE StartReturns
    BY <2>2 DEF StartReturns, Backlog
  <2>3. CASE StopPublisher
    BY <2>3 DEF StopPublisher, PubFree, Running, Backlog
  <2>4. CASE NotifyStop
    BY <2>4 DEF NotifyStop, Woken, Running, Backlog
  <2>5. CASE StopReturns
    BY <2>5 DEF StopReturns, Backlog
  <2>6. CASE ResetPublisher
    BY <2>6 DEF ResetPublisher, PubFree, Running, Backlog
  <2> QED
    BY <1>1, <2>1, <2>2, <2>3, <2>4, <2>5, <2>6 DEF OwnerStep
<1>2. ASSUME NEW m \in PublishedMessage, EnqueueMsg(m) PROVE Sessions'
  BY <1>2, NothingIsNoMessage DEF EnqueueMsg, PubFree, Running, Backlog
<1>3. CASE InternalEnqueueMsg
  BY <1>3 DEF InternalEnqueueMsg, QueueFree, Running
<1>4. CASE QueueOverflow
  BY <1>4 DEF QueueOverflow, QueueFree, Running, Backlog
<1>5. CASE NotifyMsg
  BY <1>5 DEF NotifyMsg, Woken, Running, Backlog
<1>6. ASSUME WorkerStep PROVE Sessions'
  <2>1. CASE LoopHead \/ Test \/ Block \/ Wake \/ Break
    BY <2>1 DEF LoopHead, Test, Block, Wake, Break, Backlog
  <2>2. CASE TakeMsg
    <3>1. hand' # Nothing
      BY <2>2 DEF TakeMsg, Nothing
    <3> QED
      BY <2>2, <3>1 DEF TakeMsg
  <2>3. CASE SendMsg
    BY <2>3 DEF SendMsg
  <2>4. CASE StopFromWorker
    BY <2>4 DEF StopFromWorker, TypeOK
  <2> QED
    BY <1>6, <2>1, <2>2, <2>3, <2>4 DEF WorkerStep
<1>7. CASE SendFails
  BY <1>7 DEF SendFails
<1>8. CASE UNCHANGED vars
  BY <1>8 DEF vars, Backlog
<1> QED
  BY <1>1, <1>2, <1>3, <1>4, <1>5, <1>6, <1>7, <1>8 DEF Next, UserStep

LEMMA Inductive == Spec => [](TypeOK /\ Sessions)
  BY TypeInit, TypeStep, SessionsInit, SessionsStep, PTL DEF Spec

(* Every variable keeps its type and no queue outgrows its limit.           *)
THEOREM TypeCorrect == Spec => []TypeOK
  BY Inductive, PTL

(* One worker per session and one holder of pub_mtx_.                       *)
THEOREM OneSession == Spec => []Sessions
  BY Inductive, PTL

(* The worker never sends on a socket that has been deleted.                *)
THEOREM SocketIsThere == Spec => []SocketOutlivesWorker
<1>1. Sessions => SocketOutlivesWorker
  BY DEF Sessions, SocketOutlivesWorker
<1> QED
  BY <1>1, Inductive, PTL
------------------------------------------------------------------------------
(* The notifications.                                                       *)

(* Who is about to wake a worker that waits: with messages in the queue the *)
(* user who inserted the last one; with a stop the owner.  A stop that was  *)
(* missed has nobody left to notify.                                        *)
WakeUps == /\ wpc = "toWait" => Backlog = {}
           /\ wpc = "waiting" /\ Backlog # {} => upc = "notify"
           /\ opc = "join" /\ wpc \in {"toWait", "waiting"} => missed
           /\ missed => opc = "join" /\ wpc \in {"toWait", "waiting"}

LEMMA WakeUpsStep == TypeOK /\ Sessions /\ WakeUps /\ [Next]_vars => WakeUps'
<1> SUFFICES ASSUME TypeOK, Sessions, WakeUps, [Next]_vars PROVE WakeUps'
  OBVIOUS
<1> USE DEF WakeUps, Sessions, state, user
<1>1. ASSUME OwnerStep PROVE WakeUps'
  <2>1. CASE StartPublisher
    BY <2>1 DEF StartPublisher, PubFree, Backlog
  <2>2. CASE StartReturns \/ StopReturns \/ ResetPublisher
    BY <2>2 DEF StartReturns, StopReturns, ResetPublisher, PubFree, Backlog
  <2>3. CASE StopPublisher
    BY <2>3 DEF StopPublisher, PubFree, Backlog
  <2>4. CASE NotifyStop
    BY <2>4 DEF NotifyStop, Woken, Backlog, TypeOK
  <2> QED
    BY <1>1, <2>1, <2>2, <2>3, <2>4 DEF OwnerStep
<1>2. ASSUME UserStep PROVE WakeUps'
  <2>1. ASSUME NEW m \in PublishedMessage, EnqueueMsg(m) PROVE WakeUps'
    BY <2>1 DEF EnqueueMsg, PubFree, Backlog
  <2>2. CASE InternalEnqueueMsg
    BY <2>2 DEF InternalEnqueueMsg, QueueFree
  <2>3. CASE QueueOverflow
    BY <2>3 DEF QueueOverflow, Backlog
  <2>4. CASE NotifyMsg
    BY <2>4 DEF NotifyMsg, Woken, Backlog
  <2> QED
    BY <1>2, <2>1, <2>2, <2>3, <2>4 DEF UserStep
<1>3. ASSUME WorkerStep \/ SendFails PROVE WakeUps'
  <2>1. CASE LoopHead \/ Test \/ Block \/ Wake \/ Break
    BY <2>1 DEF LoopHead, Test, Block, Wake, Break, Backlog, TypeOK
  <2>2. CASE TakeMsg \/ SendMsg \/ SendFails \/ StopFromWorker
    BY <2>2 DEF TakeMsg, SendMsg, SendFails, StopFromWorker
  <2> QED
    BY <1>3, <2>1, <2>2 DEF WorkerStep
<1>4. CASE UNCHANGED vars
  BY <1>4 DEF vars, Backlog
<1> QED
  BY <1>1, <1>2, <1>3, <1>4 DEF Next

LEMMA WakeUpsInvariance == Spec => [](TypeOK /\ Sessions /\ WakeUps)
<1>1. Init => WakeUps
  BY DEF Init, WakeUps, Backlog
<1> QED
  BY <1>1, TypeInit, TypeStep, SessionsInit, SessionsStep, WakeUpsStep, PTL DEF Spec

(* What BacklogIsServed rests on: with a message in any queue the worker    *)
(* sleeps, or goes to sleep, only while its user is about to notify it.     *)
NoMessageIsForgotten ==
  Backlog # {} /\ wpc \in {"toWait", "waiting"} => wpc = "waiting" /\ upc = "notify"

(* For any priorities, queue limit and order of insertions, pops, stops and *)
(* restarts, no notification of an insertion is lost.                       *)
THEOREM NoLostInsertion == Spec => []NoMessageIsForgotten
<1>1. WakeUps => NoMessageIsForgotten
  BY DEF WakeUps, NoMessageIsForgotten
<1> QED
  BY <1>1, WakeUpsInvariance, PTL

(* What StopReturnsOrMissed rests on: an owner in the join has been missed  *)
(* exactly when its worker sleeps or goes to sleep, and then pub_mtx_, which *)
(* the owner holds, keeps every user from notifying.                        *)
JoinIsMissed ==
  opc = "join" => /\ missed <=> wpc \in {"toWait", "waiting"}
                  /\ missed => upc = "idle"

(* stopPublisher hangs for the notification that fell between the test and  *)
(* the wait, and for nothing else the worker does.                          *)
THEOREM StopHangsIfMissed == Spec => []JoinIsMissed
<1>1. Sessions /\ WakeUps => JoinIsMissed
  BY DEF Sessions, WakeUps, JoinIsMissed
<1> QED
  BY <1>1, WakeUpsInvariance, PTL

(* And then it hangs for ever: no step of a user or of the worker ends it.   *)
THEOREM MissedForEver == Spec => [][missed => missed']_vars
<1>1. TypeOK /\ WakeUps /\ [Next]_vars => [missed => missed']_vars
  <2> SUFFICES ASSUME TypeOK, WakeUps, [Next]_vars, missed, ~missed' PROVE FALSE
    OBVIOUS
  <2>1. opc = "join" /\ wpc \in {"toWait", "waiting"}
    BY DEF WakeUps
  <2> QED
    BY <2>1 DEF TypeOK, Next, OwnerStep, UserStep, WorkerStep, vars,
         StartPublisher, StartReturns, StopPublisher, NotifyStop, StopReturns, ResetPublisher,
         EnqueueMsg, InternalEnqueueMsg, QueueOverflow, NotifyMsg, LoopHead, Test, Block, Wake,
         Break, TakeMsg, SendMsg, SendFails, StopFromWorker
<1> QED
  BY <1>1, WakeUpsInvariance, PTL DEF Spec

(* Only a send that throws makes the worker join itself.                    *)
WorkerFails == wpc \in {"failed", "aborted"} => SendErrors

(* The program is aborted by a send error and in no other way.              *)
THEOREM AbortNeedsSendError == Spec => []WorkerFails
<1>1. Init => WorkerFails
  BY DEF Init, WorkerFails
<1>2. WorkerFails /\ [Next]_vars => WorkerFails'
  BY DEF WorkerFails, Next, OwnerStep, UserStep, WorkerStep, vars, state, user, Woken,
         StartPublisher, StartReturns, StopPublisher, NotifyStop, StopReturns, ResetPublisher,
         EnqueueMsg, InternalEnqueueMsg, QueueOverflow, NotifyMsg, LoopHead, Test, Block, Wake,
         Break, TakeMsg, SendMsg, SendFails, StopFromWorker
<1> QED
  BY <1>1, <1>2, PTL DEF Spec
------------------------------------------------------------------------------
(* The refinement.                                                          *)

LEMMA TakeRefines ==
  ASSUME TypeOK, Sessions, TakeMsg
  PROVE  \E p \in Priority : Outbox!Take(p)
<1>1. PICK p \in Priority :
        /\ Urgent(p)
        /\ hand' = [prio |-> p, topic |-> Head(queue[p])]
        /\ queue' = [queue EXCEPT ![p] = Tail(@)]
  BY DEF TakeMsg
<1>2. socket /\ hand = Nothing /\ UNCHANGED socket
  BY DEF TakeMsg, Sessions, state
<1>3. Outbox!Urgent(p)
  BY <1>1 DEF Urgent, Backlog, Outbox!Urgent
<1> QED
  BY <1>1, <1>2, <1>3 DEF Outbox!Take, Outbox!Nothing, Nothing

LEMMA InsertRefines ==
  ASSUME TypeOK, Sessions, InternalEnqueueMsg
  PROVE  \E p \in Priority, t \in Topic : Outbox!Accept(p, t)
<1>1. umsg \in PublishedMessage
  BY DEF InternalEnqueueMsg, Sessions, TypeOK
<1>2. umsg.prio \in Priority /\ umsg.topic \in Topic
  BY <1>1 DEF PublishedMessage
<1>3. Outbox!Accept(umsg.prio, umsg.topic)
  BY DEF InternalEnqueueMsg, Sessions, Outbox!Accept, state
<1> QED
  BY <1>2, <1>3

LEMMA StepRefines == TypeOK /\ Sessions /\ [Next]_vars => [Outbox!Next]_(Outbox!vars)
<1> SUFFICES ASSUME TypeOK, Sessions, [Next]_vars, ~ UNCHANGED Outbox!vars
             PROVE  Outbox!Next
  OBVIOUS
<1> USE DEF Outbox!vars, state
<1>1. CASE StartPublisher
  BY <1>1 DEF StartPublisher, Sessions, TypeOK, PubFree, Running,
              Outbox!Next, Outbox!Open
<1>2. CASE StopReturns
  <2>1. socket /\ hand = Nothing
    BY <1>2 DEF StopReturns, Sessions
  <2> QED
    BY <1>2, <2>1 DEF StopReturns, Outbox!Next, Outbox!Close, Outbox!Nothing, Nothing
<1>3. CASE InternalEnqueueMsg
  BY <1>3, InsertRefines DEF Outbox!Next
<1>4. CASE TakeMsg
  BY <1>4, TakeRefines DEF Outbox!Next
<1>5. CASE SendMsg \/ SendFails
  <2>1. hand # Nothing
    BY <1>5 DEF SendMsg, SendFails, Sessions
  <2> QED
    BY <1>5, <2>1 DEF SendMsg, SendFails, Outbox!Next, Outbox!Dispose, Outbox!Nothing, Nothing
<1>6. CASE StartReturns \/ StopPublisher \/ NotifyStop \/ ResetPublisher
  BY <1>6 DEF StartReturns, StopPublisher, NotifyStop, ResetPublisher
<1>7. ASSUME NEW m \in PublishedMessage, EnqueueMsg(m) PROVE FALSE
  BY <1>7 DEF EnqueueMsg
<1>8. CASE QueueOverflow \/ NotifyMsg
  BY <1>8 DEF QueueOverflow, NotifyMsg
<1>9. CASE LoopHead \/ Test \/ Block \/ Wake \/ Break \/ StopFromWorker
  BY <1>9 DEF LoopHead, Test, Block, Wake, Break, StopFromWorker
<1>10. CASE UNCHANGED vars
  BY <1>10 DEF vars
<1> QED
  BY <1>1, <1>2, <1>3, <1>4, <1>5, <1>6, <1>7, <1>8, <1>9, <1>10
     DEF Next, OwnerStep, UserStep, WorkerStep

LEMMA InitRefines == Init => Outbox!Init
  BY DEF Init, Outbox!Init, Outbox!Nothing, Nothing

(* The publisher with its threads is the outbox: nothing accepted is lost,  *)
(* doubled, overtaken within its priority or taken while it is stopped.     *)
THEOREM PublisherImplementsOutbox == Spec => ImplementsOutbox
  BY Inductive, InitRefines, StepRefines, PTL DEF Spec, ImplementsOutbox, Outbox!Spec
==============================================================================
