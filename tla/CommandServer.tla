---------------------------- MODULE CommandServer ----------------------------
(***************************************************************************)
(* CommandServerBase: the worker thread that serves a REP socket, the      *)
(* owner thread that calls startServer, stopServer and                     *)
(* setMaxNumberOfClients, a second thread that calls the setters of the    *)
(* alive check, and the clients, which may send anything at any time.      *)
(*                                                                         *)
(* Time is counted in units of the alive timeout's resolution.  It passes  *)
(* while the worker blocks in recv with nothing to receive: the header     *)
(* (command_server_base.h, the @warning of every callback) demands         *)
(* callbacks of minimal computation time, so handling a message takes none.*)
(*                                                                         *)
(* mtx_ is not a variable.  Its critical sections are single actions,      *)
(* except stopServer's, which holds it while it waits for the worker:      *)
(* MutexFree says that no stopServer is inside.                            *)
(***************************************************************************)
EXTENDS Commands, Integers, Sequences, FiniteSets, FiniteSetsExt

CONSTANTS
  Client,        \* the UUIDs of the clients
  Kinds,         \* the kinds of message the clients send
  MaxChoices,    \* the values of max_connected_clients_
  Timeouts,      \* the values setClientAliveTimeout is called with
  CheckChoices,  \* the values setClientStatusCheck is called with
  ZmqErrors,     \* whether recv may throw (EINTR and the like)
  MaxInbox,      \* bound: requests the socket holds at a time
  AgeCap         \* bound: ages are not told apart from here on

ASSUME KindsAssumption == Kinds \subseteq AllKinds
ASSUME ConfigAssumption == /\ MaxChoices \subseteq Nat
                           /\ Timeouts \subseteq Nat
                           /\ CheckChoices \subseteq BOOLEAN
                           /\ ZmqErrors \in BOOLEAN
ASSUME BoundsAssumption == MaxInbox \in Nat /\ AgeCap \in Nat

VARIABLES
  flagWorking,   \* flag_server_working_
  socket,        \* server_socket_ is not null
  rcvtimeo,      \* ZMQ_RCVTIMEO of the socket, Forever when it never expires
  inbox,         \* the requests in the socket, as it will deliver them
  registered,    \* the keys of connected_clients_
  age,           \* for a registered client, the time since its seen_tp
  flagCheck,     \* flag_check_clients_alive_
  timeout,       \* client_alive_timeout_
  maxClients,    \* max_connected_clients_
  wpc,           \* where serverWorker is
  wait,          \* what remains of the recv in progress
  seen,          \* client_alive_timeout_ as checkClientsAliveStatus has read it
  req, res,      \* request and op_res / reply.result
  owed,          \* the REP socket has delivered a request and sent no reply
  opc,           \* where the owner thread is, in startServer or stopServer
  mpc,           \* where the other thread is, in setClientAliveTimeout
  unchecked      \* history: since the last check of the clients began, a setter
                 \* changed it or recv returned with no check made after it

vars == <<flagWorking, socket, rcvtimeo, inbox, registered, age, flagCheck, timeout,
          maxClients, wpc, wait, seen, req, res, owed, opc, mpc, unchecked>>

flags == <<flagWorking, socket, maxClients>>
setup == <<flagCheck, timeout, mpc>>
clients == <<registered, age, rcvtimeo>>
call == <<req, res, owed>>

Forever == -1
NoMsg == [from |-> "none", kind |-> "close"]
Message == [from : Client, kind : Kinds] \cup {NoMsg}

WorkerAt == {"none", "reset", "deploy", "loop", "recv", "received", "check", "dispatch",
             "checkTimeout", "sendError", "process", "connect", "disconnect", "reply", "done"}
OwnerAt == {"idle", "launched", "cvwait", "woken", "sendClose", "join"}

MutexFree == opc \notin {"sendClose", "join"}

Init == /\ flagWorking = FALSE /\ socket = FALSE
        /\ rcvtimeo = Forever /\ inbox = <<>>
        /\ registered = {} /\ age = [c \in Client |-> 0]
        /\ flagCheck = TRUE
        /\ timeout \in Timeouts \ {0}
        /\ maxClients \in MaxChoices
        /\ wpc = "none" /\ wait = Forever /\ seen = 0
        /\ req = NoMsg /\ res = "COMMAND_OK" /\ owed = FALSE
        /\ opc = "idle" /\ mpc = "idle"
        /\ unchecked = FALSE
-----------------------------------------------------------------------------
(* The owner thread.                                                        *)

(* startServer: the worker is launched before anyone waits for it.          *)
StartServer == /\ opc = "idle" /\ ~flagWorking
               /\ wpc \in {"none", "done"}
               /\ opc' = "launched" /\ wpc' = "reset"
               /\ UNCHANGED <<flags, setup, clients, call, inbox, wait, seen, unchecked>>

(* startServer: cv_server_depl_.wait(depl_lock), which has no predicate.    *)
WaitDeployment == /\ opc = "launched" /\ opc' = "cvwait"
                  /\ UNCHANGED <<flags, setup, clients, call, inbox, wpc, wait, seen, unchecked>>

StartReturns == /\ opc = "woken" /\ opc' = "idle"
                /\ UNCHANGED <<flags, setup, clients, call, inbox, wpc, wait, seen, unchecked>>

(* stopServer, internalStopServer: mtx_ is taken and the flag is cleared.   *)
StopServer == /\ opc = "idle" /\ flagWorking
              /\ flagWorking' = FALSE
              /\ opc' = IF wpc \in {"none", "done"} THEN "join" ELSE "sendClose"
              /\ UNCHANGED <<socket, maxClients, setup, clients, call, inbox, wpc, wait, seen, unchecked>>

(* Mutant: the flag alone is trusted to end the worker.                     *)
SendCloseSilent == /\ opc = "sendClose" /\ opc' = "join"
                   /\ UNCHANGED <<flags, setup, clients, call, inbox, wpc, wait, seen, unchecked>>

(* internalStopServer: the auxiliary REQ socket sends an empty message.     *)
SendClose == /\ opc = "sendClose" /\ opc' = "join"
             /\ inbox' = Append(inbox, NoMsg)
             /\ UNCHANGED <<flags, setup, clients, call, wpc, wait, seen, unchecked>>

(* Mutant: the clients of the last session are kept.                        *)
StopFinishKeepsClients ==
  /\ opc = "join" /\ wpc = "done" /\ opc' = "idle"
  /\ socket' = FALSE /\ rcvtimeo' = Forever /\ inbox' = <<>>
  /\ req' = NoMsg /\ res' = "COMMAND_OK" /\ owed' = FALSE
  /\ UNCHANGED <<flagWorking, maxClients, setup, registered, age, wpc, wait, seen, unchecked>>

(* internalStopServer: the worker has ended, so the socket and the clients  *)
(* go, and mtx_ is released.  Ages of clients that are not registered are   *)
(* kept at 0 here and below: nothing reads them.                            *)
StopFinish == /\ opc = "join" /\ wpc = "done" /\ opc' = "idle"
              /\ socket' = FALSE /\ rcvtimeo' = Forever /\ inbox' = <<>>
              /\ registered' = {} /\ age' = [c \in Client |-> 0]
              /\ req' = NoMsg /\ res' = "COMMAND_OK" /\ owed' = FALSE
              /\ UNCHANGED <<flagWorking, maxClients, setup, wpc, wait, seen, unchecked>>

SetMaxNumberOfClients(n) ==
  /\ opc = "idle" /\ ~flagWorking
  /\ maxClients' = n
  /\ UNCHANGED <<flagWorking, socket, setup, clients, call, inbox, wpc, wait, seen, opc, unchecked>>
-----------------------------------------------------------------------------
(* The thread that calls the setters of the alive check.                    *)

(* The common part of both setters, made under mtx_.  A recv in progress    *)
(* keeps the timeout it began with.                                         *)
ApplyStatusCheck(enable) ==
  /\ MutexFree
  /\ flagCheck' = enable
  /\ rcvtimeo' = IF ~socket THEN rcvtimeo ELSE IF enable THEN timeout ELSE Forever
  /\ unchecked' = TRUE

SetClientStatusCheck(enable) ==
  /\ mpc = "idle"
  /\ ApplyStatusCheck(enable)
  /\ UNCHANGED <<flags, timeout, mpc, registered, age, call, inbox, wpc, wait, seen, opc>>

(* The timeout is stored without mtx_; 0 goes on to disable the check.      *)
SetClientAliveTimeout(t) ==
  /\ mpc = "idle"
  /\ timeout' = t
  /\ mpc' = IF t = 0 THEN "disable" ELSE "idle"
  /\ unchecked' = (unchecked \/ t # timeout)
  /\ UNCHANGED <<flags, flagCheck, clients, call, inbox, wpc, wait, seen, opc>>

DisableCheck == /\ mpc = "disable" /\ mpc' = "idle"
                /\ ApplyStatusCheck(FALSE)
                /\ UNCHANGED <<flags, timeout, registered, age, call, inbox, wpc, wait, seen, opc>>
-----------------------------------------------------------------------------
(* serverWorker: deployment and the head of its loop.                       *)

(* Mutant: the flag is set before the socket is bound.                      *)
ResetSocketFlagFirst ==
  /\ wpc = "reset" /\ MutexFree
  /\ \E bound \in BOOLEAN : flagWorking' = TRUE /\ socket' = bound
  /\ rcvtimeo' = Forever /\ inbox' = <<>>
  /\ wpc' = "deploy"
  /\ UNCHANGED <<maxClients, setup, registered, age, call, wait, seen, opc, unchecked>>

(* resetSocket under mtx_: after its attempts a socket is bound, or none.   *)
ResetSocket == /\ wpc = "reset" /\ MutexFree
               /\ \E bound \in BOOLEAN : flagWorking' = bound /\ socket' = bound
               /\ rcvtimeo' = Forever /\ inbox' = <<>>
               /\ wpc' = "deploy"
               /\ UNCHANGED <<maxClients, setup, registered, age, call, wait, seen, opc, unchecked>>

(* notify_all wakes the owner only if it is already waiting.                *)
NotifyDeployment == /\ wpc = "deploy" /\ wpc' = "loop"
                    /\ opc' = IF opc = "cvwait" THEN "woken" ELSE opc
                    /\ UNCHANGED <<flags, setup, clients, call, inbox, wait, seen, unchecked>>

(* recv reads ZMQ_RCVTIMEO when it begins.                                  *)
EnterRecv == /\ wpc = "loop" /\ socket /\ flagWorking
             /\ wpc' = "recv" /\ wait' = rcvtimeo
             /\ UNCHANGED <<flags, setup, clients, call, inbox, seen, opc, unchecked>>

LeaveLoop == /\ wpc = "loop" /\ ~(socket /\ flagWorking)
             /\ wpc' = "done"
             /\ UNCHANGED <<flags, setup, clients, call, inbox, wait, seen, opc, unchecked>>
-----------------------------------------------------------------------------
(* recvFromSocket.                                                          *)

RecvResult(m) == IF m.kind = "close" /\ ~flagWorking THEN "COMMAND_OK"
                 ELSE IF m.kind \in DOMAIN Malformed THEN Malformed[m.kind]
                 ELSE "COMMAND_OK"

(* Mutant: the time of a client's last request is not recorded.             *)
RefreshNothing(m) == age' = age

(* updateClientLastConnection: anything that carries the UUID of a          *)
(* registered client is a sign of life, whatever its command.               *)
Refresh(m) == age' = IF m.kind \in Anonymous THEN age ELSE [age EXCEPT ![m.from] = 0]

Receive == /\ wpc = "recv" /\ inbox # <<>> /\ Head(inbox).kind \notin Throwing
           /\ req' = Head(inbox) /\ inbox' = Tail(inbox)
           /\ res' = RecvResult(Head(inbox))
           /\ Refresh(Head(inbox))
           /\ owed' = TRUE /\ wpc' = "received" /\ wait' = Forever
           /\ UNCHANGED <<flags, setup, registered, rcvtimeo, seen, opc, unchecked>>

(* An exception of fastDeserialization that nobody catches: serverWorker    *)
(* ends, its future holds the exception and everything else stays as it is. *)
WorkerDies == /\ wpc = "recv" /\ inbox # <<>> /\ Head(inbox).kind \in Throwing
              /\ inbox' = Tail(inbox)
              /\ Refresh(Head(inbox))
              /\ owed' = TRUE /\ wpc' = "done" /\ wait' = Forever
              /\ unchecked' = TRUE
              /\ UNCHANGED <<flags, setup, registered, rcvtimeo, req, res, seen, opc>>

ReceiveTimeout == /\ wpc = "recv" /\ inbox = <<>> /\ wait = 0
                  /\ res' = "TIMEOUT_REACHED"
                  /\ wpc' = "received" /\ wait' = Forever
                  /\ UNCHANGED <<flags, setup, clients, inbox, req, owed, seen, opc, unchecked>>

ReceiveError == /\ wpc = "recv" /\ ZmqErrors
                /\ res' = "INTERNAL_ZMQ_ERROR"
                /\ wpc' = "received" /\ wait' = Forever
                /\ UNCHANGED <<flags, setup, clients, inbox, req, owed, seen, opc, unchecked>>
-----------------------------------------------------------------------------
(* serverWorker: what follows recvFromSocket.                               *)

(* Mutant: the clients are checked only when recv times out.                *)
AfterReceiveNoCheck == /\ wpc = "received" /\ wpc' = "dispatch"
                       /\ UNCHANGED <<flags, setup, clients, call, inbox, wait, seen, opc, unchecked>>

(* checkClientsAliveStatus copies client_alive_timeout_ before it takes mtx_.*)
GoCheck(place) == wpc' = place /\ seen' = timeout

(* A good message makes the worker check the clients before it is served.   *)
AfterReceive == /\ wpc = "received"
                /\ IF res = "COMMAND_OK" /\ flagWorking /\ flagCheck
                   THEN GoCheck("check")
                   ELSE wpc' = "dispatch" /\ UNCHANGED seen
                /\ UNCHANGED <<flags, setup, clients, call, inbox, wait, opc, unchecked>>

(* Mutant: an invalid message is dropped without a reply.                   *)
InvalidUnanswered == /\ res # "COMMAND_OK" /\ ~(res = "TIMEOUT_REACHED" /\ flagCheck)
                     /\ wpc' = "loop" /\ unchecked' = TRUE /\ UNCHANGED seen

Closing == /\ res = "COMMAND_OK" /\ ~flagWorking
           /\ wpc' = "loop" /\ UNCHANGED <<seen, unchecked>>
Expired == /\ res = "TIMEOUT_REACHED" /\ flagCheck
           /\ GoCheck("checkTimeout") /\ UNCHANGED unchecked
Invalid == /\ res # "COMMAND_OK" /\ ~(res = "TIMEOUT_REACHED" /\ flagCheck)
           /\ wpc' = "sendError" /\ unchecked' = TRUE /\ UNCHANGED seen
Valid ==   /\ res = "COMMAND_OK" /\ flagWorking
           /\ wpc' = "process" /\ UNCHANGED <<seen, unchecked>>

Dispatch == /\ wpc = "dispatch"
            /\ Closing \/ Expired \/ Invalid \/ Valid
            /\ UNCHANGED <<flags, setup, clients, call, inbox, wait, opc>>

(* Mutants: off by one either way.                                          *)
DeadTooLate == {c \in registered : age[c] > seen}
DeadTooEarly == {c \in registered : age[c] + 1 >= seen}

Dead == {c \in registered : age[c] >= seen}

(* Mutant: the timeout is left set when nobody remains.                     *)
LeastRemainingAlways(R) == Min({seen} \cup {seen - age[c] : c \in R})

(* The timeout checkClientsAliveStatus leaves: the least remaining time.    *)
LeastRemaining(R) == IF R = {} THEN Forever
                     ELSE Min({seen} \cup {seen - age[c] : c \in R})

CheckClientsAliveStatus ==
  /\ wpc \in {"check", "checkTimeout"} /\ MutexFree
  /\ registered' = registered \ Dead
  /\ age' = [c \in Client |-> IF c \in Dead THEN 0 ELSE age[c]]
  /\ rcvtimeo' = LeastRemaining(registered \ Dead)
  /\ wpc' = IF wpc = "check" THEN "dispatch" ELSE "loop"
  /\ seen' = 0
  /\ unchecked' = (seen # timeout)
  /\ UNCHANGED <<flags, setup, call, inbox, wait, opc>>

(* A reply with the result alone.  Without a request to answer send throws, *)
(* onServerError is told, and the loop goes on.                             *)
SendError == /\ wpc = "sendError" /\ wpc' = "loop"
             /\ req' = NoMsg /\ res' = "COMMAND_OK" /\ owed' = FALSE
             /\ UNCHANGED <<flags, setup, clients, inbox, wait, seen, opc, unchecked>>
-----------------------------------------------------------------------------
(* processCommand and the commands.                                         *)

Answer(r) == res' = r /\ wpc' = "reply"
GoTo(place) == wpc' = place /\ UNCHANGED res

ProcessConnect == /\ req.kind \in Connect
                  /\ IF req.kind = "connect" THEN GoTo("connect")
                     ELSE Answer(BadConnect[req.kind])

ProcessStranger == /\ req.kind \notin Connect /\ req.from \notin registered
                   /\ Answer("CLIENT_NOT_CONNECTED")

(* Mutant: the registry is not consulted.                                   *)
ProcessAnyone == \/ req.kind = "disconnect" /\ GoTo("disconnect")
                 \/ /\ req.kind \in DOMAIN Answers
                    /\ \E r \in Answers[req.kind] : Answer(r)

ProcessMember == /\ req.from \in registered
                 /\ \/ req.kind = "disconnect" /\ GoTo("disconnect")
                    \/ /\ req.kind \in DOMAIN Answers
                       /\ \E r \in Answers[req.kind] : Answer(r)

ProcessCommand == /\ wpc = "process"
                  /\ ProcessConnect \/ ProcessStranger \/ ProcessMember
                  /\ UNCHANGED <<flags, setup, clients, req, owed, inbox, wait, seen, opc, unchecked>>

(* Mutant: a timeout that has already passed is not clipped to 0.           *)
ServerTimeoutUnclipped(R, a) == IF R = {} THEN Forever
                                ELSE timeout - Min({a[c] : c \in R})

(* updateServerTimeout: min_element over the time since each client was     *)
(* seen, so the client seen last decides.                                   *)
ServerTimeout(R, a) == IF R = {} THEN Forever
                       ELSE Max({0, timeout - Min({a[c] : c \in R})})

UpdateServerTimeout(R, a) ==
  rcvtimeo' = IF flagCheck THEN ServerTimeout(R, a) ELSE rcvtimeo

(* Mutant: the limit is off by one.                                         *)
ExecReqConnectOneMore ==
  /\ wpc = "connect" /\ MutexFree
  /\ \/ /\ req.from \in registered
        /\ Answer("ALREADY_CONNECTED") /\ UNCHANGED clients
     \/ /\ req.from \notin registered /\ Cardinality(registered) > maxClients
        /\ Answer("MAX_CLIENTS_REACH") /\ UNCHANGED clients
     \/ /\ req.from \notin registered /\ Cardinality(registered) <= maxClients
        /\ Answer("COMMAND_OK")
        /\ registered' = registered \cup {req.from}
        /\ age' = [age EXCEPT ![req.from] = 0]
        /\ UpdateServerTimeout(registered', age')
  /\ UNCHANGED <<flags, setup, req, owed, inbox, wait, seen, opc, unchecked>>

ExecReqConnect ==
  /\ wpc = "connect" /\ MutexFree
  /\ \/ /\ req.from \in registered
        /\ Answer("ALREADY_CONNECTED") /\ UNCHANGED clients
     \/ /\ req.from \notin registered /\ Cardinality(registered) >= maxClients
        /\ Answer("MAX_CLIENTS_REACH") /\ UNCHANGED clients
     \/ /\ req.from \notin registered /\ Cardinality(registered) < maxClients
        /\ Answer("COMMAND_OK")
        /\ registered' = registered \cup {req.from}
        /\ age' = [age EXCEPT ![req.from] = 0]
        /\ UpdateServerTimeout(registered', age')
  /\ UNCHANGED <<flags, setup, req, owed, inbox, wait, seen, opc, unchecked>>

ExecReqDisconnect ==
  /\ wpc = "disconnect" /\ MutexFree
  /\ Answer("COMMAND_OK")
  /\ registered' = registered \ {req.from}
  /\ age' = [age EXCEPT ![req.from] = 0]
  /\ UpdateServerTimeout(registered', age')
  /\ UNCHANGED <<flags, setup, req, owed, inbox, wait, seen, opc, unchecked>>

SendReply == /\ wpc = "reply" /\ wpc' = "loop"
             /\ req' = NoMsg /\ res' = "COMMAND_OK" /\ owed' = FALSE
             /\ UNCHANGED <<flags, setup, clients, inbox, wait, seen, opc, unchecked>>
-----------------------------------------------------------------------------
(* The clients and the clock.                                               *)

Submit(c, k) == /\ socket /\ Len(inbox) < MaxInbox
                /\ inbox' = Append(inbox, [from |-> c, kind |-> k])
                /\ UNCHANGED <<flags, setup, clients, call, wpc, wait, seen, opc, unchecked>>

Older(a) == IF a < AgeCap THEN a + 1 ELSE a

Tick == /\ wpc = "recv" /\ inbox = <<>> /\ wait # 0
        /\ wait' = IF wait = Forever THEN Forever ELSE wait - 1
        /\ age' = [c \in Client |-> IF c \in registered THEN Older(age[c]) ELSE age[c]]
        /\ UNCHANGED <<flags, setup, registered, rcvtimeo, call, inbox, wpc, seen, opc, unchecked>>
-----------------------------------------------------------------------------
OwnerStep == \/ StartServer \/ WaitDeployment \/ StartReturns
             \/ StopServer \/ SendClose \/ StopFinish
             \/ \E n \in MaxChoices : SetMaxNumberOfClients(n)

SetterStep == \/ \E enable \in CheckChoices : SetClientStatusCheck(enable)
              \/ \E t \in Timeouts : SetClientAliveTimeout(t)
              \/ DisableCheck

(* A thrown recv is no progress, so it is kept out of the fair steps.       *)
WorkerStep == \/ ResetSocket \/ NotifyDeployment \/ EnterRecv \/ LeaveLoop
              \/ Receive \/ WorkerDies \/ ReceiveTimeout
              \/ AfterReceive \/ Dispatch \/ CheckClientsAliveStatus \/ SendError
              \/ ProcessCommand \/ ExecReqConnect \/ ExecReqDisconnect \/ SendReply

Environment == Tick \/ \E c \in Client, k \in Kinds : Submit(c, k)

Next == OwnerStep \/ SetterStep \/ WorkerStep \/ ReceiveError \/ Environment

Spec == Init /\ [][Next]_vars

(***************************************************************************)
(* The threads run: the operating system schedules the worker, and a call  *)
(* the owner or the other thread has begun goes on.  Nobody is obliged to  *)
(* call anything, nor clients to send.  Time passes.                       *)
(***************************************************************************)
Fairness == /\ WF_vars(WorkerStep)
            /\ WF_vars(WaitDeployment \/ StartReturns \/ SendClose \/ StopFinish)
            /\ WF_vars(DisableCheck)
            /\ WF_vars(Tick)

FairSpec == Spec /\ Fairness
-----------------------------------------------------------------------------
(* Properties.                                                              *)

(* Every variable holds a value the C++ object can hold.                    *)
TypeOK == /\ flagWorking \in BOOLEAN /\ socket \in BOOLEAN
          /\ rcvtimeo \in Nat \cup {Forever} /\ wait \in Nat \cup {Forever}
          /\ inbox \in Seq(Message)
          /\ registered \subseteq Client /\ age \in [Client -> Nat]
          /\ flagCheck \in BOOLEAN /\ timeout \in Nat /\ maxClients \in Nat
          /\ seen \in Nat /\ wpc \in WorkerAt /\ opc \in OwnerAt /\ mpc \in {"idle", "disable"}
          /\ req \in Message /\ res \in Results
          /\ owed \in BOOLEAN /\ unchecked \in BOOLEAN

(* The registry never outgrows max_connected_clients_, although the limit   *)
(* is checked in execReqConnect and changed by setMaxNumberOfClients.       *)
AtMostMax == Cardinality(registered) <= maxClients

(* When the owner is in no call and the server does not work, a failed      *)
(* startServer or a finished stopServer has left no socket, no queued       *)
(* request and no client behind, and no worker that still serves.           *)
StoppedIsClean == opc = "idle" /\ ~flagWorking
                    => /\ ~socket /\ inbox = <<>> /\ registered = {}
                       /\ wpc \in {"none", "loop", "done"}

(* The REP cycle of serverWorker: it never receives again while it owes a   *)
(* reply, and what processCommand answers always answers a request.  An     *)
(* error reply answers one too, unless the recv gave none: it threw, or it   *)
(* timed out and the check was disabled by then.  Its send throws, and the  *)
(* next recv is none the worse for it.                                      *)
StrictAlternation ==
  /\ wpc = "recv" => ~owed
  /\ wpc = "reply" => owed
  /\ wpc = "sendError" => (owed <=> res \notin {"TIMEOUT_REACHED", "INTERNAL_ZMQ_ERROR"})

(* The bound on the detection of a dead client: while the check is enabled  *)
(* and every recv followed a check, a registered client has been silent for *)
(* less than twice the alive timeout, however requests of others, connects  *)
(* and disconnects moved the timeout of the socket.                         *)
DeadClientBound == flagCheck /\ ~unchecked /\ timeout > 0
                     => \A c \in registered : age[c] < 2 * timeout

(* serverWorker (comment before its loop): with no client connected it      *)
(* waits without limit, with one it waits with a timeout.                   *)
SleepsIffAlone == wpc = "recv" /\ flagCheck /\ ~unchecked
                    => (wait = Forever <=> registered = {})

(* The inductive invariant behind the properties above, in four parts.      *)

Serving == {"recv", "received", "check", "dispatch", "checkTimeout", "sendError",
            "process", "connect", "disconnect", "reply"}

(* Where the two threads can be together, and what is left when the server  *)
(* does not work.                                                           *)
Lifecycle == /\ ~MutexFree => ~flagWorking /\ wpc \in Serving \cup {"loop", "done"}
             /\ flagWorking => socket /\ wpc \notin {"none", "reset"}
             /\ ~flagWorking /\ MutexFree => /\ ~socket /\ inbox = <<>> /\ registered = {}
                                             /\ wpc \notin Serving
             /\ wpc \in {"reset", "deploy"} => opc \in {"launched", "cvwait"} /\ registered = {}
             /\ wpc = "none" => opc = "idle"

(* A reply is owed exactly from the reception of a request to its answer; a *)
(* request the closing worker has dropped, or that has ended the worker, is *)
(* owed until stopServer is done.                                           *)
ReplyCycle == /\ wpc \in {"recv", "checkTimeout"} => ~owed
              /\ wpc \in {"check", "process", "connect", "disconnect", "reply"} => owed
              /\ wpc = "check" => res = "COMMAND_OK"
              /\ wpc \in {"received", "dispatch", "sendError"} =>
                   (owed <=> res \notin {"TIMEOUT_REACHED", "INTERNAL_ZMQ_ERROR"})
              /\ owed /\ wpc \notin Serving => ~MutexFree \/ (wpc = "done" /\ flagWorking)

(* The places that are reached with the clients checked.                    *)
Checked == /\ flagWorking
           /\ \/ wpc \in {"deploy", "loop", "process", "connect", "disconnect", "reply"}
              \/ wpc = "dispatch" /\ res = "COMMAND_OK"

(* What the socket timeout, and the recv in progress, leave for the clients.*)
Timed(t) == IF registered = {} THEN t = Forever ELSE t \in 0..timeout

Timely == flagCheck /\ ~unchecked =>
            /\ wpc # "sendError"
            /\ Checked => Timed(rcvtimeo)
            /\ wpc = "recv" => Timed(wait)
            /\ timeout > 0 => \A c \in registered :
                 /\ age[c] < 2 * timeout
                 /\ Checked => age[c] < timeout
                 /\ wpc = "recv" => age[c] + wait < 2 * timeout

(* The request in the worker's hands: well formed once it is accepted, its  *)
(* sender heard of just now when the clients are checked, and registered    *)
(* when it is about to be disconnected.                                     *)
Accepted == /\ flagWorking /\ res = "COMMAND_OK"
            /\ wpc \in {"received", "check", "dispatch"}

RequestHeld == /\ Accepted \/ wpc \in {"process", "connect", "disconnect", "reply"}
                    => req.kind \notin DOMAIN Malformed \cup Throwing
               /\ Accepted /\ wpc # "dispatch" => age[req.from] = 0
               /\ wpc = "disconnect" => req.from \in registered

ServerInv == Lifecycle /\ ReplyCycle /\ Timely /\ RequestHeld

(* A client leaves the registry for a reason: it was silent for the whole   *)
(* timeout, its own disconnect is being executed, or the server stops.      *)
LeaveReasons == [][\A c \in registered : c \notin registered' =>
                     \/ wpc \in {"check", "checkTimeout"} /\ age[c] >= seen
                     \/ owed /\ req = [from |-> c, kind |-> "disconnect"]
                     \/ opc = "join"]_vars

(* The check made on the arrival of a request never drops the client that   *)
(* sent it: recvFromSocket refreshes the client before the check.           *)
RequestKeepsAlive == [][wpc = "check" /\ seen > 0 /\ req.from \in registered
                          => req.from \in registered']_vars

(* Every request serverWorker received is answered, unless the server is    *)
(* told to stop meanwhile or the request has ended the worker.              *)
AnsweredUnlessStopped == owed ~> (~owed \/ ~flagWorking \/ wpc = "done")

(* A client past the timeout is dropped, or heard of again, as long as the  *)
(* server works and every recv is followed by a check: requests of the      *)
(* others do not keep it registered.                                        *)
DeadIsDropped == \A c \in Client :
  (c \in registered /\ age[c] >= timeout)
     ~> (c \notin registered \/ age[c] < timeout \/ unchecked \/ ~flagCheck \/ ~flagWorking)

(* stopServer returns, or the worker stands before a critical section of    *)
(* mtx_, which stopServer holds: there is no other way for it to hang.      *)
StopReturnsOrBlocks ==
  opc = "join" ~> (opc = "idle" \/ wpc \in {"check", "checkTimeout", "connect", "disconnect"})

(* The server implements CommandService: registry and results behave as if  *)
(* each command were executed in one step.                                  *)
Service == INSTANCE CommandService WITH
             members <- registered,
             limit   <- maxClients,
             outcome <- IF wpc = "reply"
                        THEN [from |-> req.from, kind |-> req.kind, result |-> res]
                        ELSE [from |-> "none", kind |-> "none", result |-> "none"]

ImplementsService == Service!Spec
=============================================================================
