--------------------------- MODULE SubscriberProofs ---------------------------
(***************************************************************************)
(* The inductive invariant of Subscriber and what follows from it.         *)
(***************************************************************************)
EXTENDS Subscriber, TLAPS

Stopping == opc \in {"test", "send", "join", "delete"}

(* The socket is there while the subscriber works or is being stopped, and *)
(* listens to the sets whenever no reset is under way.                     *)
SocketOfSession ==
  /\ working => ~Stopping /\ opc # "create" /\ sock = Socket(publishers, filters)
  /\ Stopping => sock.open
  /\ ~working /\ ~Stopping => sock = NoSocket

(* Where the owner and the worker can be together.                         *)
Together ==
  /\ opc \in {"delete", "create"} => ~Alive
  /\ wpc \in {"recv", "process"} => working \/ opc \in {"test", "send", "join"}
  /\ wpc \in {"reset", "notify"} => opc \in {"launched", "waiting"}
  /\ wpc = "reset" => ~working

Inv == TypeOK /\ SocketOfSession /\ Together

(* The sockets there can be, and their fields.                             *)
LEMMA SocketTypes ==
  /\ NoSocket \in [endpoints : SUBSET Endpoint, topics : SUBSET Filter, open : BOOLEAN]
  /\ \A e \in SUBSET Endpoint, t \in SUBSET Filter :
       /\ Socket(e, t) \in [endpoints : SUBSET Endpoint, topics : SUBSET Filter, open : BOOLEAN]
       /\ Socket(e, t).open
  BY DEF NoSocket, Socket

LEMMA InitInv == Init => Inv
<1> SUFFICES ASSUME Init PROVE Inv
  OBVIOUS
<1>1. inbox \in Seq(Message) /\ Len(inbox) = 0
  BY DEF Init
<1>2. Len(inbox) <= MaxInbox + (IF opc \in {"join", "delete"} THEN 1 ELSE 0)
  BY <1>1, MaxInboxAssumption DEF Init
<1>3. sock \in [endpoints : SUBSET Endpoint, topics : SUBSET Filter, open : BOOLEAN]
  BY SocketTypes DEF Init
<1>4. /\ working \in BOOLEAN /\ missed \in BOOLEAN
      /\ publishers \subseteq Endpoint /\ filters \subseteq Filter
      /\ wpc = "none" /\ opc = "idle" /\ after = "stop"
  BY DEF Init
<1>5. TypeOK
  BY <1>1, <1>2, <1>3, <1>4 DEF TypeOK
<1> QED
  BY <1>5 DEF Init, Inv, SocketOfSession, Together, Stopping, Alive

(* Every call that changes a set and then resets the socket if it works.    *)
LEMMA CallStep ==
  ASSUME Inv, opc = "idle",
         publishers' \subseteq Endpoint, filters' \subseteq Filter,
         Reset, UNCHANGED <<sock, inbox, wpc, missed>>
  PROVE  Inv'
<1> USE MaxInboxAssumption
    DEF Inv, TypeOK, SocketOfSession, Together, Reset, Stopping, Alive
<1>1. CASE working
  <2>1. sock.open
    BY <1>1, SocketTypes
  <2> QED
    BY <1>1, <2>1
<1>2. CASE ~working
  BY <1>2
<1> QED
  BY <1>1, <1>2 DEF TypeOK

LEMMA OwnerCallStep == Inv /\ OwnerCall => Inv'
<1> SUFFICES ASSUME Inv, OwnerCall PROVE Inv'
  OBVIOUS
<1>1. CASE StartSubscriber
  BY <1>1, MaxInboxAssumption
  DEF StartSubscriber, Inv, TypeOK, SocketOfSession, Together, Stopping, Alive, sets
<1>2. CASE StopSubscriber
  <2> USE MaxInboxAssumption
      DEF StopSubscriber, Inv, TypeOK, SocketOfSession, Together, Stopping, Alive, sets
  <2>1. working => sock.open
    BY SocketTypes
  <2>2. CASE working
    BY <1>2, <2>1, <2>2
  <2>3. CASE ~working
    BY <1>2, <2>3
  <2> QED
    BY <2>2, <2>3 DEF TypeOK
<1>3. ASSUME NEW e \in Endpoint, Subscribe(e) \/ Unsubscribe(e) PROVE Inv'
  BY <1>3, CallStep DEF Subscribe, Unsubscribe, Inv, TypeOK
<1>4. ASSUME NEW f \in Filter, AddTopicFilter(f) \/ RemoveTopicFilter(f) PROVE Inv'
  BY <1>4, CallStep DEF AddTopicFilter, RemoveTopicFilter, Inv, TypeOK
<1> QED
  BY <1>1, <1>2, <1>3, <1>4 DEF OwnerCall

LEMMA OwnerInvStep == Inv /\ OwnerStep => Inv'
<1> SUFFICES ASSUME Inv, OwnerStep PROVE Inv'
  OBVIOUS
<1> USE MaxInboxAssumption DEF Inv, TypeOK, SocketOfSession, Together, Stopping, Alive, sets
<1>1. CASE WaitDeployment \/ TestWorker \/ Join
  BY <1>1 DEF WaitDeployment, TestWorker, Join
<1>2. CASE SendExit
  <2>1. inbox' \in Seq(Message) /\ Len(inbox') = Len(inbox) + 1
    BY <1>2 DEF SendExit, Message
  <2> QED
    BY <1>2, <2>1 DEF SendExit
<1>3. CASE DeleteSockets
  <2>1. inbox' \in Seq(Message) /\ Len(inbox') = 0
    BY <1>3 DEF DeleteSockets
  <2> QED
    BY <1>3, <2>1 DEF DeleteSockets, NoSocket
<1>4. CASE ResetReturns
  <2>1. /\ UNCHANGED <<publishers, filters, inbox, wpc, after, missed>>
        /\ opc = "create" /\ opc' = "idle" /\ CreateSockets
    BY <1>4 DEF ResetReturns
  <2>2. CASE sock' = Socket(publishers, filters) /\ working' = TRUE
    BY <2>1, <2>2, SocketTypes
  <2>3. CASE sock' = NoSocket /\ working' = FALSE
    BY <2>1, <2>3, SocketTypes
  <2> QED
    BY <2>1, <2>2, <2>3 DEF CreateSockets
<1> QED
  BY <1>1, <1>2, <1>3, <1>4 DEF OwnerStep

LEMMA WorkerInvStep == Inv /\ (WorkerStep \/ ReceiveError) => Inv'
<1> SUFFICES ASSUME Inv, WorkerStep \/ ReceiveError PROVE Inv'
  OBVIOUS
<1> USE MaxInboxAssumption DEF Inv, TypeOK, SocketOfSession, Together, Stopping, Alive, sets
<1>1. CASE ResetSocket
  <2>1. /\ UNCHANGED <<publishers, filters, inbox, opc, after, missed>>
        /\ wpc = "reset" /\ wpc' = "notify" /\ CreateSockets
    BY <1>1 DEF ResetSocket
  <2>2. CASE sock' = Socket(publishers, filters) /\ working' = TRUE
    BY <2>1, <2>2, SocketTypes
  <2>3. CASE sock' = NoSocket /\ working' = FALSE
    BY <2>1, <2>3, SocketTypes
  <2> QED
    BY <2>1, <2>2, <2>3 DEF CreateSockets
<1>2. CASE NotifyDeployment
  BY <1>2 DEF NotifyDeployment
<1>3. CASE LoopHead \/ Process \/ ReceiveError
  BY <1>3 DEF LoopHead, Process, ReceiveError
<1>4. CASE Receive \/ ReceiveDies
  <2>1. inbox # <<>> /\ inbox' = Tail(inbox)
    BY <1>4 DEF Receive, ReceiveDies
  <2>2. inbox' \in Seq(Message) /\ Len(inbox') = Len(inbox) - 1
    BY <2>1
  <2> QED
    BY <1>4, <2>2 DEF Receive, ReceiveDies
<1> QED
  BY <1>1, <1>2, <1>3, <1>4 DEF WorkerStep

LEMMA PublishStep ==
  ASSUME NEW e \in Endpoint, NEW t \in Topic, NEW k \in Kind, Inv, Publish(e, t, k)
  PROVE  Inv'
<1>1. inbox' \in Seq(Message) /\ Len(inbox') = Len(inbox) + 1
  BY DEF Publish, Kind, Message, Inv, TypeOK
<1> QED
  BY <1>1, MaxInboxAssumption
  DEF Publish, Inv, TypeOK, SocketOfSession, Together, Stopping, Alive, sets

LEMMA Invariance == Spec => []Inv
<1>1. Inv /\ UNCHANGED vars => Inv'
  BY DEF vars, sets, Inv, TypeOK, SocketOfSession, Together, Stopping, Alive
<1>2. Inv /\ [Next]_vars => Inv'
  BY <1>1, OwnerCallStep, OwnerInvStep, WorkerInvStep, PublishStep DEF Next
<1> QED
  BY InitInv, <1>2, PTL DEF Spec

(* The types hold, and no stop leaves its exit message to a later session.  *)
THEOREM TypeCorrect == Spec => []TypeOK
  BY Invariance, PTL DEF Inv

(* A working subscriber listens to exactly what its sets hold, whatever    *)
(* calls changed them; one that does not work has no socket.               *)
THEOREM SocketIsOfTheSets == Spec => []SocketFollowsSets
<1>1. Inv => SocketFollowsSets
  BY DEF Inv, SocketOfSession, Stopping, SocketFollowsSets
<1> QED
  BY <1>1, Invariance, PTL

(* No socket is deleted under a worker that uses it, though they share no  *)
(* mutex.                                                                  *)
THEOREM SocketIsThere == Spec => []SocketOutlivesWorker
<1>1. Inv => SocketOutlivesWorker
  BY DEF Inv, TypeOK, SocketOfSession, Together, Stopping, SocketOutlivesWorker, Socket
<1> QED
  BY <1>1, Invariance, PTL
-----------------------------------------------------------------------------
(* The exit message and the deployment. *)

(* A worker that is awaited and blocked in recv has its exit message before *)
(* it, and an exit message in the socket belongs to a stop under way.       *)
ExitArrives ==
  /\ opc = "join" /\ wpc = "recv" => \E i \in 1 .. Len(inbox) : inbox[i] = "exit"
  /\ \A i \in 1 .. Len(inbox) : inbox[i] = "exit" => opc \in {"join", "delete"}

(* startSubscriber is missed exactly when its worker has notified and it has *)
(* not been woken.                                                          *)
Deployment ==
  /\ missed => opc \in {"launched", "waiting"}
  /\ opc \in {"launched", "waiting"} => (missed <=> wpc \notin {"reset", "notify"})

(* What is appended is last, and what is taken was first.                   *)
LEMMA Appended ==
  ASSUME NEW S, NEW s \in Seq(S), NEW m \in S
  PROVE  /\ Len(Append(s, m)) = Len(s) + 1
         /\ Append(s, m)[Len(s) + 1] = m
         /\ \A i \in 1 .. Len(s) : Append(s, m)[i] = s[i]
  OBVIOUS

LEMMA Taken ==
  ASSUME NEW S, NEW s \in Seq(S), s # <<>>
  PROVE  /\ Len(Tail(s)) = Len(s) - 1
         /\ Head(s) = s[1]
         /\ \A i \in 1 .. Len(s) - 1 : Tail(s)[i] = s[i + 1]
  OBVIOUS

LEMMA ExitStep == Inv /\ ExitArrives /\ [Next]_vars => ExitArrives'
<1> SUFFICES ASSUME Inv, ExitArrives, [Next]_vars PROVE ExitArrives'
  OBVIOUS
<1>0. inbox \in Seq(Message) /\ Len(inbox) \in Nat
  BY DEF Inv, TypeOK
<1> USE DEF ExitArrives, sets
<1>1. CASE OwnerCall
  BY <1>1 DEF OwnerCall, Reset, StartSubscriber, StopSubscriber, Subscribe, Unsubscribe,
              AddTopicFilter, RemoveTopicFilter, Alive
<1>2. CASE WaitDeployment \/ TestWorker \/ Join \/ ResetReturns
  BY <1>2 DEF WaitDeployment, TestWorker, Join, ResetReturns, Alive, Inv, Together
<1>3. CASE SendExit
  <2>1. inbox' = Append(inbox, "exit") /\ opc' = "join"
    BY <1>3 DEF SendExit
  <2>2. Len(inbox') = Len(inbox) + 1 /\ inbox'[Len(inbox) + 1] = "exit"
    BY <2>1, <1>0, Appended DEF Message
  <2>3. Len(inbox) + 1 \in 1 .. Len(inbox')
    BY <2>2, <1>0
  <2> QED
    BY <2>1, <2>2, <2>3
<1>4. CASE DeleteSockets
  <2>1. inbox' = <<>> /\ opc' # "join"
    BY <1>4 DEF DeleteSockets
  <2> QED
    BY <2>1
<1>5. CASE ResetSocket \/ NotifyDeployment \/ LoopHead \/ Process \/ ReceiveError
  BY <1>5 DEF ResetSocket, NotifyDeployment, LoopHead, Process, ReceiveError,
              Inv, SocketOfSession, Stopping
<1>6. CASE Receive \/ ReceiveDies
  <2>1. inbox # <<>> /\ inbox' = Tail(inbox) /\ opc' = opc /\ wpc' # "recv"
    BY <1>6 DEF Receive, ReceiveDies
  <2>2. Len(inbox') = Len(inbox) - 1 /\ \A i \in 1 .. Len(inbox) - 1 : inbox'[i] = inbox[i + 1]
    BY <2>1, <1>0, Taken
  <2>3. \A i \in 1 .. Len(inbox') : i + 1 \in 1 .. Len(inbox) /\ inbox'[i] = inbox[i + 1]
    BY <2>2, <1>0
  <2> QED
    BY <2>1, <2>3
<1>7. ASSUME NEW e \in Endpoint, NEW t \in Topic, NEW k \in Kind, Publish(e, t, k)
      PROVE ExitArrives'
  <2>1. inbox' = Append(inbox, k) /\ opc' = opc /\ wpc' = wpc /\ k # "exit" /\ k \in Message
    BY <1>7 DEF Publish, Kind, Message
  <2>2. /\ Len(inbox') = Len(inbox) + 1 /\ inbox'[Len(inbox) + 1] = k
        /\ \A i \in 1 .. Len(inbox) : inbox'[i] = inbox[i]
    BY <2>1, <1>0, Appended
  <2>3. \A i \in 1 .. Len(inbox') : i = Len(inbox) + 1 \/ i \in 1 .. Len(inbox)
    BY <2>2, <1>0
  <2>4. \A i \in 1 .. Len(inbox) : i \in 1 .. Len(inbox')
    BY <2>2, <1>0
  <2>5. \A i \in 1 .. Len(inbox') : inbox'[i] = "exit" => i \in 1 .. Len(inbox) /\ inbox[i] = "exit"
    BY <2>1, <2>2, <2>3
  <2>6. \A i \in 1 .. Len(inbox) : inbox[i] = "exit" => i \in 1 .. Len(inbox') /\ inbox'[i] = "exit"
    BY <2>2, <2>4
  <2> QED
    BY <2>1, <2>5, <2>6
<1>8. CASE UNCHANGED vars
  BY <1>8 DEF vars
<1> QED
  BY <1>1, <1>2, <1>3, <1>4, <1>5, <1>6, <1>7, <1>8 DEF Next, OwnerStep, WorkerStep

LEMMA DeploymentStep == Inv /\ Deployment /\ [Next]_vars => Deployment'
<1> SUFFICES ASSUME Inv, Deployment, [Next]_vars PROVE Deployment'
  OBVIOUS
<1> USE DEF Deployment, Inv, TypeOK, sets
<1>1. CASE OwnerCall
  BY <1>1 DEF OwnerCall, Reset, StartSubscriber, StopSubscriber, Subscribe, Unsubscribe,
              AddTopicFilter, RemoveTopicFilter, Alive
<1>2. CASE OwnerStep
  BY <1>2 DEF OwnerStep, WaitDeployment, TestWorker, SendExit, Join, DeleteSockets, ResetReturns
<1>3. CASE WorkerStep \/ ReceiveError
  <2>1. CASE ResetSocket
    BY <2>1 DEF ResetSocket
  <2>2. CASE NotifyDeployment
    <3>1. CASE opc = "launched"
      BY <2>2, <3>1 DEF NotifyDeployment
    <3>2. CASE opc # "launched"
      BY <2>2, <3>2 DEF NotifyDeployment
    <3> QED
      BY <3>1, <3>2
  <2>3. CASE LoopHead \/ Receive \/ Process \/ ReceiveDies \/ ReceiveError
    BY <2>3 DEF LoopHead, Receive, Process, ReceiveDies, ReceiveError
  <2> QED
    BY <1>3, <2>1, <2>2, <2>3 DEF WorkerStep
<1>4. CASE \E e \in Endpoint, t \in Topic, k \in Kind : Publish(e, t, k)
  BY <1>4 DEF Publish
<1>5. CASE UNCHANGED vars
  BY <1>5 DEF vars
<1> QED
  BY <1>1, <1>2, <1>3, <1>4, <1>5 DEF Next

LEMMA WaitsInvariance == Spec => [](Inv /\ ExitArrives /\ Deployment)
<1>1. Init => ExitArrives /\ Deployment
  BY DEF Init, ExitArrives, Deployment
<1>2. Inv /\ [Next]_vars => Inv'
  <2>1. Inv /\ UNCHANGED vars => Inv'
    BY DEF vars, sets, Inv, TypeOK, SocketOfSession, Together, Stopping, Alive
  <2> QED
    BY <2>1, OwnerCallStep, OwnerInvStep, WorkerInvStep, PublishStep DEF Next
<1> QED
  BY <1>1, <1>2, InitInv, ExitStep, DeploymentStep, PTL DEF Spec

(* What StopReturns rests on, whatever fills the socket: an owner that joins *)
(* finds the worker on its way out or with the exit message before it, and  *)
(* the message never reaches the worker of a later session.                 *)
THEOREM ExitMessageArrives == Spec => []ExitArrives
  BY WaitsInvariance, PTL

(* What StartReturnsOrMissed rests on: a start waits for a worker that has  *)
(* still to notify it, or its notification was missed, and then it does not *)
(* return.                                                                  *)
THEOREM StartHangsIfMissed == Spec => []Deployment
  BY WaitsInvariance, PTL

(* And then it never returns: no step brings the owner back, and no worker  *)
(* is launched that could notify it.                                        *)
THEOREM MissedForEver == Spec => [][missed => missed' /\ opc' # "idle"]_vars
<1>1. missed /\ [Next]_vars => missed'
  BY DEF Next, OwnerStep, OwnerCall, WorkerStep, Reset, vars, WaitDeployment, TestWorker, SendExit,
     Join, DeleteSockets, ResetReturns, StartSubscriber, StopSubscriber, Subscribe, Unsubscribe,
     AddTopicFilter, RemoveTopicFilter, ResetSocket, NotifyDeployment, LoopHead, Receive, Process,
     ReceiveDies, ReceiveError, Publish
<1>2. Deployment' /\ missed' => opc' # "idle"
  BY DEF Deployment
<1>3. Deployment' /\ [Next]_vars => [missed => missed' /\ opc' # "idle"]_vars
  BY <1>1, <1>2
<1> QED
  BY <1>3, WaitsInvariance, PTL DEF Spec

(* The worker is gone and the subscriber works all the same, or is in the   *)
(* middle of a reset that will have it work again.                          *)
Deaf ==
  /\ ~Alive
  /\ working \/ (after = "reset" /\ opc \in {"test", "send", "join", "delete", "create"})

(* resetSocket, as every call that changes what is listened to makes it,    *)
(* returns with no worker, also where it joined one that was listening; and *)
(* a subscriber whose worker is gone stays deaf through all these calls and *)
(* the resets they make, until stopSubscriber is called or the sockets      *)
(* cannot be created, which also makes it one that does not work.          *)
THEOREM DeafUntilStopped ==
  Spec => [][/\ ResetReturns => ~Alive'
             /\ Deaf => Deaf' \/ StopSubscriber \/ (ResetReturns /\ ~working')]_vars
<1>1. ASSUME Inv, ResetReturns PROVE ~Alive'
  BY <1>1 DEF Inv, Together, ResetReturns, Alive
<1>2. ASSUME Inv, Next, Deaf PROVE Deaf' \/ StopSubscriber \/ (ResetReturns /\ ~working')
  <2> USE DEF Deaf, Alive
  <2>0. opc = "idle" => working
    BY <1>2
  <2>1. CASE OwnerCall
    <3>1. opc = "idle" /\ working
      BY <2>0, <2>1 DEF OwnerCall, StartSubscriber, StopSubscriber, Subscribe, Unsubscribe,
                        AddTopicFilter, RemoveTopicFilter
    <3>2. StopSubscriber \/ (Reset /\ wpc' = wpc)
      BY <2>1, <3>1 DEF OwnerCall, StartSubscriber, Subscribe, Unsubscribe, AddTopicFilter,
                        RemoveTopicFilter
    <3> QED
      BY <1>2, <3>1, <3>2 DEF Reset
  <2>2. CASE WaitDeployment \/ TestWorker \/ SendExit \/ Join
    BY <1>2, <2>2 DEF WaitDeployment, TestWorker, SendExit, Join, Inv, SocketOfSession, Stopping
  <2>3. CASE DeleteSockets
    BY <1>2, <2>3 DEF DeleteSockets, Inv, SocketOfSession, Stopping
  <2>4. CASE ResetReturns
    BY <1>2, <2>4 DEF ResetReturns, CreateSockets
  <2>5. CASE WorkerStep \/ ReceiveError
    BY <1>2, <2>5 DEF WorkerStep, ReceiveError, ResetSocket, NotifyDeployment, LoopHead, Receive,
                      Process, ReceiveDies
  <2>6. CASE \E e \in Endpoint, t \in Topic, k \in Kind : Publish(e, t, k)
    BY <1>2, <2>6 DEF Publish
  <2> QED
    BY <1>2, <2>1, <2>2, <2>3, <2>4, <2>5, <2>6 DEF Next, OwnerStep
<1>3. Inv /\ [Next]_vars =>
        [/\ ResetReturns => ~Alive'
         /\ Deaf => Deaf' \/ StopSubscriber \/ (ResetReturns /\ ~working')]_vars
  BY <1>1, <1>2
<1> QED
  BY <1>3, Invariance, PTL DEF Spec
=============================================================================
