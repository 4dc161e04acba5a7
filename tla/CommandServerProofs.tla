------------------------- MODULE CommandServerProofs -------------------------
(* Theorems about CommandServer, for every value of its constants: its      *)
(* invariants, its action properties, and that it implements the service.   *)
EXTENDS CommandServer, FiniteSetTheorems, WellFoundedInduction, TLAPS

(* The least element of a set of naturals exists, so Min returns it.        *)
LEMMA MinOfNaturals ==
  ASSUME NEW S \in SUBSET Nat, S # {}
  PROVE  Min(S) \in S /\ \A y \in S : Min(S) <= y
<1> DEFINE Less == OpToRel(<, Nat)
<1>1. IsWellFoundedOn(Less, Nat)
  BY NatLessThanWellFounded
<1>2. \A x, y \in Nat : x < y => <<x, y>> \in Less
  BY DEF OpToRel
<1> HIDE DEF Less
<1>3. PICK x \in S : \A y \in S : ~(<<y, x>> \in Less)
  BY <1>1, WFMin, Zenon
<1>4. ASSUME NEW y \in S PROVE x <= y
  <2>1. ~(<<y, x>> \in Less)
    BY <1>3
  <2>2. x \in Nat /\ y \in Nat
    OBVIOUS
  <2>3. ~(y < x)
    BY <1>2, <2>1, <2>2, Zenon
  <2> QED
    BY <2>2, <2>3
<1> QED
  BY <1>4 DEF Min

(* The larger of two integers, as Max returns it.                           *)
LEMMA MaxWithZero ==
  ASSUME NEW n \in Int
  PROVE  Max({0, n}) \in Nat /\ (n >= 0 => Max({0, n}) = n)
<1>1. \E x \in {0, n} : \A y \in {0, n} : x >= y
  OBVIOUS
<1> QED
  BY <1>1 DEF Max

(* checkClientsAliveStatus leaves the socket without timeout when nobody    *)
(* remains, otherwise with one that is at most the timeout it read.         *)
LEMMA LeastRemainingBound ==
  ASSUME TypeOK
  PROVE  LET R == registered \ Dead
         IN  /\ R = {} => LeastRemaining(R) = Forever
             /\ R # {} => LeastRemaining(R) \in 0..seen
<1> DEFINE R == registered \ Dead
           D == {seen} \cup {seen - age[c] : c \in R}
<1>1. ASSUME NEW c \in R PROVE age[c] \in Nat /\ age[c] < seen
  BY DEF TypeOK, Dead
<1>2. seen \in Nat
  BY DEF TypeOK
<1>3. D \in SUBSET Nat /\ D # {} /\ seen \in D
  BY <1>1, <1>2
<1>4. Min(D) \in Nat /\ Min(D) <= seen
  <2> HIDE DEF D
  <2> QED BY <1>3, MinOfNaturals
<1> QED
  BY <1>2, <1>4 DEF LeastRemaining

(* updateServerTimeout never sets more than the alive timeout.              *)
LEMMA ServerTimeoutBound ==
  ASSUME timeout \in Nat, NEW R \in SUBSET Client, NEW a \in [Client -> Nat]
  PROVE  /\ R = {} => ServerTimeout(R, a) = Forever
         /\ R # {} => ServerTimeout(R, a) \in 0..timeout
<1>1. CASE R = {}
  BY <1>1 DEF ServerTimeout
<1>2. CASE R # {}
  <2> DEFINE A == {a[c] : c \in R}
  <2>1. A \in SUBSET Nat /\ A # {}
    BY <1>2
  <2>2. Min(A) \in Nat
    <3> HIDE DEF A
    <3> QED BY <2>1, MinOfNaturals
  <2> DEFINE n == timeout - Min(A)
  <2>3. n \in Int /\ n <= timeout
    BY <2>2
  <2>4. Max({0, n}) \in Nat /\ (n >= 0 => Max({0, n}) = n)
    <3> HIDE DEF n
    <3> QED BY <2>3, MaxWithZero
  <2>5. Max({0, n}) \in {0, n}
    <3>1. \E x \in {0, n} : \A y \in {0, n} : x >= y
      <4> HIDE DEF n
      <4> QED BY <2>3
    <3> HIDE DEF n
    <3> QED BY <3>1 DEF Max
  <2>6. ServerTimeout(R, a) = Max({0, n})
    BY <1>2 DEF ServerTimeout
  <2> HIDE DEF n
  <2> QED BY <1>2, <2>3, <2>4, <2>5, <2>6
<1> QED
  BY <1>1, <1>2
-----------------------------------------------------------------------------
(* Type correctness.                                                        *)

(* The message whose critical section the worker is about to enter; the     *)
(* sender of a connect request is therefore a client.                       *)
CommandMatches == /\ wpc = "connect" => req.kind = "connect"
                  /\ wpc = "disconnect" => req.kind = "disconnect"

TypeInv == TypeOK /\ CommandMatches

LEMMA NoMsgType == NoMsg \in Message
BY DEF Message

LEMMA TypeInit == Init => TypeInv
<1> SUFFICES ASSUME Init PROVE TypeInv
  OBVIOUS
<1>1. timeout \in Nat /\ maxClients \in Nat
  BY ConfigAssumption DEF Init
<1>2. inbox \in Seq(Message) /\ registered \subseteq Client /\ age \in [Client -> Nat]
  BY DEF Init
<1>3. req \in Message /\ res \in Results
  BY NoMsgType DEF Init, Results
<1>4. /\ flagWorking \in BOOLEAN /\ socket \in BOOLEAN /\ owed \in BOOLEAN
      /\ flagCheck \in BOOLEAN /\ unchecked \in BOOLEAN
  BY DEF Init
<1>5. /\ rcvtimeo \in Nat \cup {Forever} /\ wait \in Nat \cup {Forever}
      /\ seen \in Nat /\ wpc \in WorkerAt /\ opc \in OwnerAt /\ mpc \in {"idle", "disable"}
  BY DEF Init, WorkerAt, OwnerAt
<1>6. CommandMatches
  BY DEF Init, CommandMatches
<1> QED
  BY <1>1, <1>2, <1>3, <1>4, <1>5, <1>6 DEF TypeInv, TypeOK

(* What recvFromSocket and the custom functions return is a result.         *)
LEMMA RecvResultType == \A m : RecvResult(m) \in Results
BY DEF RecvResult, Malformed, Results

LEMMA AnswerType == \A k \in DOMAIN Answers : Answers[k] \subseteq Results
BY DEF Answers, Results

LEMMA BadConnectType == \A k \in DOMAIN BadConnect : BadConnect[k] \in Results
BY DEF BadConnect, Results

LEMMA TypeStep == TypeInv /\ [Next]_vars => TypeInv'
<1> SUFFICES ASSUME TypeInv, [Next]_vars PROVE TypeInv'
  OBVIOUS
<1> USE DEF TypeInv, TypeOK, CommandMatches, flags, setup, clients, call
<1>1. CASE StartServer
  BY <1>1 DEF StartServer, WorkerAt, OwnerAt
<1>2. CASE WaitDeployment
  BY <1>2 DEF WaitDeployment, OwnerAt
<1>3. CASE StartReturns
  BY <1>3 DEF StartReturns, OwnerAt
<1>4. CASE StopServer
  BY <1>4 DEF StopServer, OwnerAt
<1>5. CASE SendClose
  BY <1>5, NoMsgType DEF SendClose, OwnerAt
<1>6. CASE StopFinish
  <2>1. /\ registered' \subseteq Client /\ age' \in [Client -> Nat]
        /\ inbox' \in Seq(Message) /\ req' \in Message
        /\ rcvtimeo' \in Nat \cup {Forever}
    BY <1>6, NoMsgType DEF StopFinish
  <2> QED
    BY <1>6, <2>1 DEF StopFinish, OwnerAt, Results
<1>7. ASSUME NEW n \in MaxChoices, SetMaxNumberOfClients(n) PROVE TypeInv'
  BY <1>7, ConfigAssumption DEF SetMaxNumberOfClients
<1>8. ASSUME NEW enable \in CheckChoices, SetClientStatusCheck(enable) PROVE TypeInv'
  BY <1>8, ConfigAssumption DEF SetClientStatusCheck, ApplyStatusCheck, Forever
<1>9. ASSUME NEW t \in Timeouts, SetClientAliveTimeout(t) PROVE TypeInv'
  BY <1>9, ConfigAssumption DEF SetClientAliveTimeout
<1>10. CASE DisableCheck
  BY <1>10 DEF DisableCheck, ApplyStatusCheck, Forever
<1>11. CASE ResetSocket
  BY <1>11 DEF ResetSocket, WorkerAt, Forever
<1>12. CASE NotifyDeployment
  BY <1>12 DEF NotifyDeployment, WorkerAt, OwnerAt
<1>13. CASE EnterRecv
  BY <1>13 DEF EnterRecv, WorkerAt
<1>14. CASE LeaveLoop
  BY <1>14 DEF LeaveLoop, WorkerAt
<1>15. CASE Receive
  <2>1. Head(inbox) \in Message /\ inbox' \in Seq(Message)
    BY <1>15 DEF Receive
  <2>2. age' \in [Client -> Nat]
    BY <1>15 DEF Receive, Refresh
  <2> QED
    BY <1>15, <2>1, <2>2, RecvResultType DEF Receive, WorkerAt, Forever
<1>16. CASE ReceiveTimeout
  BY <1>16 DEF ReceiveTimeout, WorkerAt, Results, Forever
<1>17. CASE ReceiveError
  BY <1>17 DEF ReceiveError, WorkerAt, Results, Forever
<1>18. CASE AfterReceive
  BY <1>18 DEF AfterReceive, GoCheck, WorkerAt
<1>19. CASE Dispatch
  BY <1>19 DEF Dispatch, Closing, Expired, Invalid, Valid, GoCheck, WorkerAt
<1>20. CASE CheckClientsAliveStatus
  <2>1. rcvtimeo' \in Nat \cup {Forever}
    BY <1>20, LeastRemainingBound DEF CheckClientsAliveStatus
  <2>2. age' \in [Client -> Nat] /\ registered' \subseteq Client
    BY <1>20 DEF CheckClientsAliveStatus
  <2> QED
    BY <1>20, <2>1, <2>2 DEF CheckClientsAliveStatus, WorkerAt
<1>21. CASE SendError
  BY <1>21, NoMsgType DEF SendError, WorkerAt, Results
<1>22. CASE ProcessCommand
  BY <1>22, AnswerType, BadConnectType DEF ProcessCommand, ProcessConnect, ProcessStranger, ProcessMember, Connect,
     Answer, GoTo, WorkerAt, Results
<1>23. CASE ExecReqConnect
  <2>1. req.from \in Client
    BY <1>23 DEF ExecReqConnect, Message, NoMsg
  <2>2. registered' \subseteq Client /\ age' \in [Client -> Nat]
    BY <1>23, <2>1 DEF ExecReqConnect
  <2>3. ServerTimeout(registered', age') \in Nat \cup {Forever}
    BY <2>2, ServerTimeoutBound
  <2>4. rcvtimeo' \in Nat \cup {Forever}
    BY <1>23, <2>3 DEF ExecReqConnect, UpdateServerTimeout
  <2> QED
    BY <1>23, <2>2, <2>4 DEF ExecReqConnect, Answer, WorkerAt, Results
<1>24. CASE ExecReqDisconnect
  <2>1. registered' \subseteq Client /\ age' \in [Client -> Nat]
    BY <1>24 DEF ExecReqDisconnect
  <2>2. ServerTimeout(registered', age') \in Nat \cup {Forever}
    BY <2>1, ServerTimeoutBound
  <2>3. rcvtimeo' \in Nat \cup {Forever}
    BY <1>24, <2>2 DEF ExecReqDisconnect, UpdateServerTimeout
  <2> QED
    BY <1>24, <2>1, <2>3 DEF ExecReqDisconnect, Answer, WorkerAt, Results
<1>25. CASE SendReply
  BY <1>25, NoMsgType DEF SendReply, WorkerAt, Results
<1>26. CASE Tick
  BY <1>26, BoundsAssumption DEF Tick, Older, Forever
<1>27. ASSUME NEW c \in Client, NEW k \in Kinds, Submit(c, k) PROVE TypeInv'
  BY <1>27 DEF Submit, Message
<1>28. CASE UNCHANGED vars
  BY <1>28 DEF vars
<1>29. CASE WorkerDies
  <2>1. inbox' \in Seq(Message)
    BY <1>29 DEF WorkerDies
  <2>2. age' \in [Client -> Nat]
    BY <1>29 DEF WorkerDies, Refresh
  <2> QED
    BY <1>29, <2>1, <2>2 DEF WorkerDies, WorkerAt, Forever
<1> QED
  BY <1>1, <1>2, <1>3, <1>4, <1>5, <1>6, <1>7, <1>8, <1>9, <1>10, <1>11, <1>12, <1>13, <1>14, <1>15, <1>16, <1>17, <1>18, <1>19, <1>20, <1>21, <1>22, <1>23, <1>24, <1>25, <1>26, <1>27, <1>28, <1>29
     DEF Next, OwnerStep, SetterStep, WorkerStep, Environment

(* Every variable keeps a value the C++ object can hold, for any clients,   *)
(* any limit, any timeouts and any messages.                                *)
THEOREM TypeCorrect == Spec => []TypeOK
<1> QED
  BY TypeInit, TypeStep, PTL DEF Spec, TypeInv
-----------------------------------------------------------------------------
(* The threads: where the owner and the worker can be together.             *)

LEMMA LifecycleInit == Init => Lifecycle
BY DEF Init, Lifecycle, MutexFree, Serving

LEMMA LifecycleStep == TypeOK /\ Lifecycle /\ [Next]_vars => Lifecycle'
<1> SUFFICES ASSUME TypeOK, Lifecycle, [Next]_vars PROVE Lifecycle'
  OBVIOUS
<1> USE DEF Lifecycle, MutexFree, Serving, flags, setup, clients, call
<1>1. CASE StartServer
  BY <1>1 DEF StartServer
<1>2. CASE WaitDeployment
  BY <1>2 DEF WaitDeployment
<1>3. CASE StartReturns
  BY <1>3 DEF StartReturns
<1>4. CASE StopServer
  BY <1>4 DEF StopServer, TypeOK, WorkerAt
<1>5. CASE SendClose
  BY <1>5 DEF SendClose
<1>6. CASE StopFinish
  BY <1>6 DEF StopFinish
<1>7. ASSUME NEW n \in MaxChoices, SetMaxNumberOfClients(n) PROVE Lifecycle'
  BY <1>7 DEF SetMaxNumberOfClients
<1>8. ASSUME NEW enable \in CheckChoices,
     SetClientStatusCheck(enable) PROVE Lifecycle'
  BY <1>8 DEF SetClientStatusCheck, ApplyStatusCheck
<1>9. ASSUME NEW t \in Timeouts, SetClientAliveTimeout(t) PROVE Lifecycle'
  BY <1>9 DEF SetClientAliveTimeout
<1>10. CASE DisableCheck
  BY <1>10 DEF DisableCheck, ApplyStatusCheck
<1>11. CASE ResetSocket
  BY <1>11 DEF ResetSocket
<1>12. CASE NotifyDeployment
  BY <1>12 DEF NotifyDeployment
<1>13. CASE EnterRecv
  BY <1>13 DEF EnterRecv
<1>14. CASE LeaveLoop
  BY <1>14 DEF LeaveLoop
<1>15. CASE Receive
  BY <1>15 DEF Receive, Refresh
<1>16. CASE ReceiveTimeout
  BY <1>16 DEF ReceiveTimeout
<1>17. CASE ReceiveError
  BY <1>17 DEF ReceiveError
<1>18. CASE AfterReceive
  BY <1>18 DEF AfterReceive, GoCheck
<1>19. CASE Dispatch
  BY <1>19 DEF Dispatch, Closing, Expired, Invalid, Valid, GoCheck
<1>20. CASE CheckClientsAliveStatus
  BY <1>20 DEF CheckClientsAliveStatus
<1>21. CASE SendError
  BY <1>21 DEF SendError
<1>22. CASE ProcessCommand
  BY <1>22 DEF ProcessCommand, ProcessConnect, ProcessStranger, ProcessMember,
     Answer, GoTo
<1>23. CASE ExecReqConnect
  BY <1>23 DEF ExecReqConnect, Answer
<1>24. CASE ExecReqDisconnect
  BY <1>24 DEF ExecReqDisconnect, Answer
<1>25. CASE SendReply
  BY <1>25 DEF SendReply
<1>26. ASSUME NEW c \in Client, NEW k \in Kinds, Submit(c, k) PROVE Lifecycle'
  BY <1>26 DEF Submit
<1>27. CASE Tick
  BY <1>27 DEF Tick
<1>28. CASE UNCHANGED vars
  BY <1>28 DEF vars
<1>29. CASE WorkerDies
  BY <1>29 DEF WorkerDies, Refresh
<1> QED
  BY <1>1, <1>2, <1>3, <1>4, <1>5, <1>6, <1>7, <1>8, <1>9, <1>10, <1>11, <1>12,
     <1>13, <1>14, <1>15, <1>16, <1>17, <1>18, <1>19, <1>20, <1>21, <1>22, <1>23,
     <1>24, <1>25, <1>26, <1>27, <1>28, <1>29
     DEF Next, OwnerStep, SetterStep, WorkerStep, Environment

-----------------------------------------------------------------------------
(* The REP cycle.                                                           *)

LEMMA ReplyCycleInit == Init => ReplyCycle
BY DEF Init, ReplyCycle, MutexFree, Serving

LEMMA RecvResultIsReceived ==
  \A m : RecvResult(m) \notin {"TIMEOUT_REACHED", "INTERNAL_ZMQ_ERROR"}
BY DEF RecvResult, Malformed

LEMMA ReplyCycleStep == TypeOK /\ Lifecycle /\ ReplyCycle /\ [Next]_vars => ReplyCycle'
<1> SUFFICES ASSUME TypeOK, Lifecycle, ReplyCycle, [Next]_vars PROVE ReplyCycle'
  OBVIOUS
<1> USE DEF Lifecycle, ReplyCycle, MutexFree, Serving, flags, setup, clients, call
<1>1. CASE StartServer
  BY <1>1 DEF StartServer
<1>2. CASE WaitDeployment
  BY <1>2 DEF WaitDeployment
<1>3. CASE StartReturns
  BY <1>3 DEF StartReturns
<1>4. CASE StopServer
  BY <1>4 DEF StopServer
<1>5. CASE SendClose
  BY <1>5 DEF SendClose
<1>6. CASE StopFinish
  BY <1>6 DEF StopFinish
<1>7. ASSUME NEW n \in MaxChoices, SetMaxNumberOfClients(n) PROVE ReplyCycle'
  BY <1>7 DEF SetMaxNumberOfClients
<1>8. ASSUME NEW enable \in CheckChoices,
     SetClientStatusCheck(enable) PROVE ReplyCycle'
  BY <1>8 DEF SetClientStatusCheck, ApplyStatusCheck
<1>9. ASSUME NEW t \in Timeouts, SetClientAliveTimeout(t) PROVE ReplyCycle'
  BY <1>9 DEF SetClientAliveTimeout
<1>10. CASE DisableCheck
  BY <1>10 DEF DisableCheck, ApplyStatusCheck
<1>11. CASE ResetSocket
  BY <1>11 DEF ResetSocket
<1>12. CASE NotifyDeployment
  BY <1>12 DEF NotifyDeployment
<1>13. CASE EnterRecv
  BY <1>13 DEF EnterRecv
<1>14. CASE LeaveLoop
  BY <1>14 DEF LeaveLoop
<1>15. CASE Receive
  BY <1>15, RecvResultIsReceived DEF Receive, Refresh
<1>16. CASE ReceiveTimeout
  BY <1>16 DEF ReceiveTimeout
<1>17. CASE ReceiveError
  BY <1>17 DEF ReceiveError
<1>18. CASE AfterReceive
  BY <1>18 DEF AfterReceive, GoCheck
<1>19. CASE Dispatch
  BY <1>19 DEF Dispatch, Closing, Expired, Invalid, Valid, GoCheck
<1>20. CASE CheckClientsAliveStatus
  BY <1>20 DEF CheckClientsAliveStatus
<1>21. CASE SendError
  BY <1>21 DEF SendError
<1>22. CASE ProcessCommand
  BY <1>22 DEF ProcessCommand, ProcessConnect, ProcessStranger, ProcessMember,
     Answer, GoTo
<1>23. CASE ExecReqConnect
  BY <1>23 DEF ExecReqConnect, Answer
<1>24. CASE ExecReqDisconnect
  BY <1>24 DEF ExecReqDisconnect, Answer
<1>25. CASE SendReply
  BY <1>25 DEF SendReply
<1>26. ASSUME NEW c \in Client, NEW k \in Kinds, Submit(c, k) PROVE ReplyCycle'
  BY <1>26 DEF Submit
<1>27. CASE Tick
  BY <1>27 DEF Tick
<1>28. CASE UNCHANGED vars
  BY <1>28 DEF vars
<1>29. CASE WorkerDies
  BY <1>29 DEF WorkerDies, Refresh
<1> QED
  BY <1>1, <1>2, <1>3, <1>4, <1>5, <1>6, <1>7, <1>8, <1>9, <1>10, <1>11, <1>12,
     <1>13, <1>14, <1>15, <1>16, <1>17, <1>18, <1>19, <1>20, <1>21, <1>22, <1>23,
     <1>24, <1>25, <1>26, <1>27, <1>28, <1>29
     DEF Next, OwnerStep, SetterStep, WorkerStep, Environment

-----------------------------------------------------------------------------
(* The timeout of the socket and the age of the clients.                    *)

LEMMA TimelyInit == Init => Timely
BY DEF Init, Timely, Checked, Timed

LEMMA TimelyStep == TypeInv /\ Lifecycle /\ Timely /\ [Next]_vars => Timely'
<1> SUFFICES ASSUME TypeInv, Lifecycle, Timely, [Next]_vars PROVE Timely'
  OBVIOUS
<1> USE DEF Timely, Checked, Timed, TypeInv, TypeOK, flags, setup, clients, call
<1>1. CASE StartServer
  BY <1>1 DEF StartServer, Lifecycle, MutexFree
<1>2. CASE WaitDeployment
  BY <1>2 DEF WaitDeployment
<1>3. CASE StartReturns
  BY <1>3 DEF StartReturns
<1>4. CASE StopServer
  BY <1>4 DEF StopServer, Lifecycle
<1>5. CASE SendClose
  BY <1>5 DEF SendClose
<1>6. CASE StopFinish
  BY <1>6 DEF StopFinish, Lifecycle
<1>7. ASSUME NEW n \in MaxChoices, SetMaxNumberOfClients(n) PROVE Timely'
  BY <1>7 DEF SetMaxNumberOfClients
<1>8. ASSUME NEW enable \in CheckChoices, SetClientStatusCheck(enable) PROVE Timely'
  BY <1>8 DEF SetClientStatusCheck, ApplyStatusCheck
<1>9. ASSUME NEW t \in Timeouts, SetClientAliveTimeout(t) PROVE Timely'
  BY <1>9 DEF SetClientAliveTimeout
<1>10. CASE DisableCheck
  BY <1>10 DEF DisableCheck, ApplyStatusCheck
<1>11. CASE ResetSocket
  BY <1>11 DEF ResetSocket, Lifecycle, MutexFree
<1>12. CASE NotifyDeployment
  BY <1>12 DEF NotifyDeployment, Lifecycle
<1>13. CASE EnterRecv
  BY <1>13 DEF EnterRecv, Lifecycle, Forever
<1>14. CASE LeaveLoop
  BY <1>14 DEF LeaveLoop
<1>15. CASE Receive
  BY <1>15 DEF Receive, Refresh, Message, NoMsg, Anonymous
<1>16. CASE ReceiveTimeout
  BY <1>16 DEF ReceiveTimeout
<1>17. CASE ReceiveError
  BY <1>17 DEF ReceiveError
<1>18. CASE AfterReceive
  BY <1>18 DEF AfterReceive, GoCheck
<1>19. CASE Dispatch
  BY <1>19 DEF Dispatch, Closing, Expired, Invalid, Valid, GoCheck
<1>20. CASE CheckClientsAliveStatus
  <2>1. CASE seen = timeout
    <3>1. Timed(rcvtimeo)' /\ timeout' = timeout
      BY <1>20, <2>1, LeastRemainingBound DEF CheckClientsAliveStatus
    <3>2. ASSUME NEW c \in registered' PROVE age'[c] \in Nat /\ age'[c] < timeout
      BY <1>20, <2>1 DEF CheckClientsAliveStatus, Dead
    <3>3. wpc' \in {"dispatch", "loop"}
      BY <1>20 DEF CheckClientsAliveStatus
    <3> QED
      BY <3>1, <3>2, <3>3
  <2>2. CASE seen # timeout
    BY <1>20, <2>2 DEF CheckClientsAliveStatus
  <2> QED
    BY <2>1, <2>2
<1>21. CASE SendError
  BY <1>21 DEF SendError
<1>22. CASE ProcessCommand
  BY <1>22 DEF ProcessCommand, ProcessConnect, ProcessStranger, ProcessMember,
     Answer, GoTo
<1>23. CASE ExecReqConnect
  <2>1. CASE UNCHANGED clients
    BY <1>23, <2>1 DEF ExecReqConnect, Answer
  <2>2. CASE /\ registered' = registered \cup {req.from}
             /\ age' = [age EXCEPT ![req.from] = 0]
             /\ UpdateServerTimeout(registered', age')
    <3>1. req.from \in Client
      BY <1>23 DEF ExecReqConnect, CommandMatches, Message, NoMsg
    <3>2. registered' \in SUBSET Client /\ age' \in [Client -> Nat] /\ registered' # {}
      BY <2>2, <3>1
    <3>3. ServerTimeout(registered', age') \in 0..timeout
      BY <3>2, ServerTimeoutBound
    <3>4. flagCheck => rcvtimeo' \in 0..timeout
      BY <2>2, <3>3 DEF UpdateServerTimeout
    <3>5. timeout' = timeout /\ flagCheck' = flagCheck /\ unchecked' = unchecked
          /\ flagWorking' = flagWorking /\ wpc = "connect" /\ wpc' = "reply"
      BY <1>23 DEF ExecReqConnect, Answer
    <3>6. flagCheck /\ ~unchecked /\ timeout > 0 =>
            \A c \in registered' : /\ age'[c] < 2 * timeout
                                   /\ flagWorking => age'[c] < timeout
      BY <2>2, <3>1, <3>5
    <3> QED
      BY <3>2, <3>4, <3>5, <3>6
  <2> QED
    BY <1>23, <2>1, <2>2 DEF ExecReqConnect
<1>24. CASE ExecReqDisconnect
  <2>1. /\ registered' = registered \ {req.from}
        /\ age' = [age EXCEPT ![req.from] = 0]
        /\ UpdateServerTimeout(registered', age')
    BY <1>24 DEF ExecReqDisconnect
  <2>2. registered' \in SUBSET Client /\ age' \in [Client -> Nat]
    BY <2>1
  <2>3. /\ registered' = {} => ServerTimeout(registered', age') = Forever
        /\ registered' # {} => ServerTimeout(registered', age') \in 0..timeout
    BY <2>2, ServerTimeoutBound
  <2>4. timeout' = timeout /\ flagCheck' = flagCheck /\ unchecked' = unchecked
        /\ flagWorking' = flagWorking /\ wpc = "disconnect" /\ wpc' = "reply"
    BY <1>24 DEF ExecReqDisconnect, Answer
  <2>5. flagCheck => Timed(rcvtimeo)'
    BY <2>1, <2>3, <2>4 DEF UpdateServerTimeout
  <2>6. flagCheck /\ ~unchecked /\ timeout > 0 =>
          \A c \in registered' : /\ age'[c] < 2 * timeout
                                 /\ flagWorking => age'[c] < timeout
    BY <2>1, <2>4
  <2> QED
    BY <2>4, <2>5, <2>6
<1>25. CASE SendReply
  BY <1>25 DEF SendReply
<1>26. ASSUME NEW c \in Client, NEW k \in Kinds, Submit(c, k) PROVE Timely'
  BY <1>26 DEF Submit
<1>27. CASE Tick
  BY <1>27, BoundsAssumption DEF Tick, Older, Forever
<1>28. CASE UNCHANGED vars
  BY <1>28 DEF vars
<1>29. CASE WorkerDies
  BY <1>29 DEF WorkerDies, Refresh
<1> QED
  BY <1>1, <1>2, <1>3, <1>4, <1>5, <1>6, <1>7, <1>8, <1>9, <1>10, <1>11, <1>12,
     <1>13, <1>14, <1>15, <1>16, <1>17, <1>18, <1>19, <1>20, <1>21, <1>22, <1>23,
     <1>24, <1>25, <1>26, <1>27, <1>28, <1>29
     DEF Next, OwnerStep, SetterStep, WorkerStep, Environment

-----------------------------------------------------------------------------
(* The request the worker holds.                                            *)

LEMMA RequestHeldInit == Init => RequestHeld
BY DEF Init, RequestHeld, Accepted

LEMMA AcceptedIsWellFormed ==
  \A m : RecvResult(m) = "COMMAND_OK" /\ flagWorking => m.kind \notin DOMAIN Malformed
BY DEF RecvResult, Malformed

LEMMA RequestHeldStep == TypeInv /\ Lifecycle /\ ReplyCycle /\ RequestHeld /\ [Next]_vars => RequestHeld'
<1> SUFFICES ASSUME TypeInv, Lifecycle, ReplyCycle, RequestHeld,
     [Next]_vars PROVE RequestHeld'
  OBVIOUS
<1> USE DEF RequestHeld, Accepted, flags, setup, clients, call
<1>1. CASE StartServer
  BY <1>1 DEF StartServer
<1>2. CASE WaitDeployment
  BY <1>2 DEF WaitDeployment
<1>3. CASE StartReturns
  BY <1>3 DEF StartReturns
<1>4. CASE StopServer
  BY <1>4 DEF StopServer
<1>5. CASE SendClose
  BY <1>5 DEF SendClose
<1>6. CASE StopFinish
  BY <1>6 DEF StopFinish, Lifecycle, Serving, MutexFree
<1>7. ASSUME NEW n \in MaxChoices, SetMaxNumberOfClients(n) PROVE RequestHeld'
  BY <1>7 DEF SetMaxNumberOfClients
<1>8. ASSUME NEW enable \in CheckChoices,
     SetClientStatusCheck(enable) PROVE RequestHeld'
  BY <1>8 DEF SetClientStatusCheck, ApplyStatusCheck
<1>9. ASSUME NEW t \in Timeouts, SetClientAliveTimeout(t) PROVE RequestHeld'
  BY <1>9 DEF SetClientAliveTimeout
<1>10. CASE DisableCheck
  BY <1>10 DEF DisableCheck, ApplyStatusCheck
<1>11. CASE ResetSocket
  BY <1>11 DEF ResetSocket, Lifecycle, MutexFree
<1>12. CASE NotifyDeployment
  BY <1>12 DEF NotifyDeployment
<1>13. CASE EnterRecv
  BY <1>13 DEF EnterRecv
<1>14. CASE LeaveLoop
  BY <1>14 DEF LeaveLoop
<1>15. CASE Receive
  BY <1>15, AcceptedIsWellFormed DEF Receive, Refresh, TypeInv, TypeOK, Message,
     Anonymous, Malformed, Throwing, NoMsg
<1>16. CASE ReceiveTimeout
  BY <1>16 DEF ReceiveTimeout, ReplyCycle
<1>17. CASE ReceiveError
  BY <1>17 DEF ReceiveError
<1>18. CASE AfterReceive
  BY <1>18 DEF AfterReceive, GoCheck
<1>19. CASE Dispatch
  BY <1>19 DEF Dispatch, Closing, Expired, Invalid, Valid, GoCheck
<1>20. CASE CheckClientsAliveStatus
  BY <1>20 DEF CheckClientsAliveStatus, ReplyCycle
<1>21. CASE SendError
  BY <1>21 DEF SendError
<1>22. CASE ProcessCommand
  BY <1>22 DEF ProcessCommand, ProcessConnect, ProcessStranger, ProcessMember,
     Answer, GoTo, Connect, BadConnect, Malformed
<1>23. CASE ExecReqConnect
  BY <1>23 DEF ExecReqConnect, Answer
<1>24. CASE ExecReqDisconnect
  BY <1>24 DEF ExecReqDisconnect, Answer
<1>25. CASE SendReply
  BY <1>25 DEF SendReply
<1>26. ASSUME NEW c \in Client, NEW k \in Kinds, Submit(c, k) PROVE RequestHeld'
  BY <1>26 DEF Submit
<1>27. CASE Tick
  BY <1>27 DEF Tick
<1>28. CASE UNCHANGED vars
  BY <1>28 DEF vars
<1>29. CASE WorkerDies
  BY <1>29 DEF WorkerDies, Refresh
<1> QED
  BY <1>1, <1>2, <1>3, <1>4, <1>5, <1>6, <1>7, <1>8, <1>9, <1>10, <1>11, <1>12,
     <1>13, <1>14, <1>15, <1>16, <1>17, <1>18, <1>19, <1>20, <1>21, <1>22, <1>23,
     <1>24, <1>25, <1>26, <1>27, <1>28, <1>29
     DEF Next, OwnerStep, SetterStep, WorkerStep, Environment

-----------------------------------------------------------------------------
(* The size of the registry.  It is finite because it grows by one client   *)
(* at a time: nothing is assumed of Client.                                 *)

RegistryInv == IsFiniteSet(registered) /\ AtMostMax

LEMMA RegistryInit == Init => RegistryInv
BY ConfigAssumption, FS_EmptySet DEF Init, RegistryInv, AtMostMax

LEMMA RegistryStep == TypeOK /\ Lifecycle /\ RegistryInv /\ [Next]_vars => RegistryInv'
<1> SUFFICES ASSUME TypeOK, Lifecycle, RegistryInv, [Next]_vars PROVE RegistryInv'
  OBVIOUS
<1> USE DEF RegistryInv, AtMostMax, flags, setup, clients, call
<1>1. CASE StartServer
  BY <1>1 DEF StartServer
<1>2. CASE WaitDeployment
  BY <1>2 DEF WaitDeployment
<1>3. CASE StartReturns
  BY <1>3 DEF StartReturns
<1>4. CASE StopServer
  BY <1>4 DEF StopServer
<1>5. CASE SendClose
  BY <1>5 DEF SendClose
<1>6. CASE StopFinish
  BY <1>6, FS_EmptySet DEF StopFinish, TypeOK
<1>7. ASSUME NEW n \in MaxChoices, SetMaxNumberOfClients(n) PROVE RegistryInv'
  BY <1>7, ConfigAssumption, FS_EmptySet DEF SetMaxNumberOfClients, Lifecycle,
     MutexFree
<1>8. ASSUME NEW enable \in CheckChoices,
     SetClientStatusCheck(enable) PROVE RegistryInv'
  BY <1>8 DEF SetClientStatusCheck, ApplyStatusCheck
<1>9. ASSUME NEW t \in Timeouts, SetClientAliveTimeout(t) PROVE RegistryInv'
  BY <1>9 DEF SetClientAliveTimeout
<1>10. CASE DisableCheck
  BY <1>10 DEF DisableCheck, ApplyStatusCheck
<1>11. CASE ResetSocket
  BY <1>11 DEF ResetSocket
<1>12. CASE NotifyDeployment
  BY <1>12 DEF NotifyDeployment
<1>13. CASE EnterRecv
  BY <1>13 DEF EnterRecv
<1>14. CASE LeaveLoop
  BY <1>14 DEF LeaveLoop
<1>15. CASE Receive
  BY <1>15 DEF Receive, Refresh
<1>16. CASE ReceiveTimeout
  BY <1>16 DEF ReceiveTimeout
<1>17. CASE ReceiveError
  BY <1>17 DEF ReceiveError
<1>18. CASE AfterReceive
  BY <1>18 DEF AfterReceive, GoCheck
<1>19. CASE Dispatch
  BY <1>19 DEF Dispatch, Closing, Expired, Invalid, Valid, GoCheck
<1>20. CASE CheckClientsAliveStatus
  <2>1. registered' \in SUBSET registered /\ maxClients' = maxClients
    BY <1>20 DEF CheckClientsAliveStatus
  <2>2. IsFiniteSet(registered') /\ Cardinality(registered') <= Cardinality(registered)
    BY <2>1, FS_Subset
  <2>3. Cardinality(registered) \in Nat /\ Cardinality(registered') \in Nat
    BY <2>2, FS_CardinalityType
  <2> QED
    BY <2>1, <2>2, <2>3 DEF TypeOK
<1>21. CASE SendError
  BY <1>21 DEF SendError
<1>22. CASE ProcessCommand
  BY <1>22 DEF ProcessCommand, ProcessConnect, ProcessStranger, ProcessMember,
     Answer, GoTo
<1>23. CASE ExecReqConnect
  <2>1. CASE UNCHANGED clients
    BY <1>23, <2>1 DEF ExecReqConnect
  <2>2. CASE /\ req.from \notin registered /\ Cardinality(registered) < maxClients
             /\ registered' = registered \cup {req.from}
    <3>1. /\ IsFiniteSet(registered')
          /\ Cardinality(registered') = Cardinality(registered) + 1
      BY <2>2, FS_AddElement
    <3>2. Cardinality(registered) \in Nat
      BY FS_CardinalityType
    <3>3. maxClients' = maxClients
      BY <1>23 DEF ExecReqConnect
    <3> QED
      BY <2>2, <3>1, <3>2, <3>3 DEF TypeOK
  <2> QED
    BY <1>23, <2>1, <2>2 DEF ExecReqConnect
<1>24. CASE ExecReqDisconnect
  <2>1. registered' \in SUBSET registered /\ maxClients' = maxClients
    BY <1>24 DEF ExecReqDisconnect
  <2>2. IsFiniteSet(registered') /\ Cardinality(registered') <= Cardinality(registered)
    BY <2>1, FS_Subset
  <2>3. Cardinality(registered) \in Nat /\ Cardinality(registered') \in Nat
    BY <2>2, FS_CardinalityType
  <2> QED
    BY <2>1, <2>2, <2>3 DEF TypeOK
<1>25. CASE SendReply
  BY <1>25 DEF SendReply
<1>26. ASSUME NEW c \in Client, NEW k \in Kinds, Submit(c, k) PROVE RegistryInv'
  BY <1>26 DEF Submit
<1>27. CASE Tick
  BY <1>27 DEF Tick
<1>28. CASE UNCHANGED vars
  BY <1>28 DEF vars
<1>29. CASE WorkerDies
  BY <1>29 DEF WorkerDies, Refresh
<1> QED
  BY <1>1, <1>2, <1>3, <1>4, <1>5, <1>6, <1>7, <1>8, <1>9, <1>10, <1>11, <1>12,
     <1>13, <1>14, <1>15, <1>16, <1>17, <1>18, <1>19, <1>20, <1>21, <1>22, <1>23,
     <1>24, <1>25, <1>26, <1>27, <1>28, <1>29
     DEF Next, OwnerStep, SetterStep, WorkerStep, Environment

-----------------------------------------------------------------------------
(* The theorems.                                                            *)

Inv == TypeInv /\ ServerInv /\ RegistryInv

THEOREM Inductive == Spec => []Inv
<1>1. Init => Inv
  BY TypeInit, LifecycleInit, ReplyCycleInit, TimelyInit, RequestHeldInit, RegistryInit
     DEF Inv, ServerInv
<1>2. Inv /\ [Next]_vars => Inv'
  BY TypeStep, LifecycleStep, ReplyCycleStep, TimelyStep, RequestHeldStep, RegistryStep
     DEF Inv, ServerInv, TypeInv
<1> QED
  BY <1>1, <1>2, PTL DEF Spec

(* Threads, REP cycle, bounds on silence and the request in hand agree.     *)
THEOREM ServerInvariant == Spec => []ServerInv
<1>1. Inv => ServerInv
  BY DEF Inv
<1> QED
  BY <1>1, Inductive, PTL

(* The registry never outgrows the limit.                                   *)
THEOREM RegistryBounded == Spec => []AtMostMax
<1>1. Inv => AtMostMax
  BY DEF Inv, RegistryInv
<1> QED
  BY <1>1, Inductive, PTL

(* A stopped server holds nothing.                                          *)
THEOREM StoppedServerIsClean == Spec => []StoppedIsClean
<1>1. Inv => StoppedIsClean
  BY DEF Inv, TypeInv, TypeOK, WorkerAt, ServerInv, Lifecycle, StoppedIsClean, MutexFree, Serving
<1> QED
  BY <1>1, Inductive, PTL

(* The worker keeps the REP cycle.                                          *)
THEOREM RepCycleKept == Spec => []StrictAlternation
<1>1. Inv => StrictAlternation
  BY DEF Inv, ServerInv, ReplyCycle, StrictAlternation
<1> QED
  BY <1>1, Inductive, PTL

(* A dead client is detected before it has been silent for two timeouts.    *)
THEOREM DeadClientDetected == Spec => []DeadClientBound
<1>1. Inv => DeadClientBound
  BY DEF Inv, ServerInv, Timely, DeadClientBound
<1> QED
  BY <1>1, Inductive, PTL

(* The worker sleeps without limit only when no client is registered.       *)
THEOREM SleepsOnlyAlone == Spec => []SleepsIffAlone
<1>1. Inv => SleepsIffAlone
  BY DEF Inv, TypeInv, TypeOK, ServerInv, Timely, Timed, SleepsIffAlone, Forever
<1> QED
  BY <1>1, Inductive, PTL

(* A client leaves the registry only because it was silent, because it asks *)
(* to, or because the server stops.                                         *)
THEOREM LeavesForAReason == Spec => LeaveReasons
<1> DEFINE Reasons == \A c \in registered : c \notin registered' =>
                        \/ wpc \in {"check", "checkTimeout"} /\ age[c] >= seen
                        \/ owed /\ req = [from |-> c, kind |-> "disconnect"]
                        \/ opc = "join"
<1>1. Inv /\ [Next]_vars => [Reasons]_vars
  <2> SUFFICES ASSUME Inv, [Next]_vars, NEW c \in registered, c \notin registered'
               PROVE  \/ wpc \in {"check", "checkTimeout"} /\ age[c] >= seen
                      \/ owed /\ req = [from |-> c, kind |-> "disconnect"]
                      \/ opc = "join"
    OBVIOUS
  <2>1. CASE StopFinish
    BY <2>1 DEF StopFinish
  <2>2. CASE CheckClientsAliveStatus
    BY <2>2 DEF CheckClientsAliveStatus, Dead
  <2>3. CASE ExecReqDisconnect
    <3>1. owed /\ req.kind = "disconnect" /\ req.from = c
      BY <2>3 DEF ExecReqDisconnect, Inv, TypeInv, CommandMatches, ServerInv, ReplyCycle
    <3>2. req \in Message
      BY DEF Inv, TypeInv, TypeOK
    <3>3. req = [from |-> req.from, kind |-> req.kind]
      BY <3>2 DEF Message, NoMsg
    <3> QED
      BY <3>1, <3>3
  <2>4. registered' # registered =>
          StopFinish \/ CheckClientsAliveStatus \/ ExecReqDisconnect \/ ExecReqConnect
    BY DEF Next, OwnerStep, SetterStep, WorkerStep, Environment, vars, clients,
           StartServer, WaitDeployment, StartReturns, StopServer, SendClose,
           SetMaxNumberOfClients, SetClientStatusCheck, SetClientAliveTimeout, DisableCheck,
           ResetSocket, NotifyDeployment, EnterRecv, LeaveLoop, Receive, WorkerDies, ReceiveTimeout,
           ReceiveError, AfterReceive, Dispatch, SendError, ProcessCommand, SendReply,
           Submit, Tick
  <2>5. ~ExecReqConnect
    BY DEF ExecReqConnect, clients
  <2> QED
    BY <2>1, <2>2, <2>3, <2>4, <2>5
<1> QED
  BY <1>1, Inductive, PTL DEF Spec, LeaveReasons

(* A request keeps its sender registered through the check it triggers.     *)
THEOREM SenderSurvivesCheck == Spec => RequestKeepsAlive
<1> DEFINE Kept == wpc = "check" /\ seen > 0 /\ req.from \in registered
                     => req.from \in registered'
<1>1. Inv /\ [Next]_vars => [Kept]_vars
  <2> SUFFICES ASSUME Inv, [Next]_vars, wpc = "check", seen > 0, req.from \in registered
               PROVE  req.from \in registered'
    OBVIOUS
  <2>1. CASE CheckClientsAliveStatus
    <3>1. flagWorking /\ res = "COMMAND_OK"
      BY <2>1 DEF CheckClientsAliveStatus, Inv, ServerInv, Lifecycle, ReplyCycle, Serving
    <3>2. age[req.from] = 0
      BY <3>1 DEF Inv, ServerInv, RequestHeld, Accepted
    <3>3. seen \in Nat
      BY DEF Inv, TypeInv, TypeOK
    <3> QED
      BY <2>1, <3>2, <3>3 DEF CheckClientsAliveStatus, Dead
  <2>2. registered' # registered => CheckClientsAliveStatus
    BY DEF Next, OwnerStep, SetterStep, WorkerStep, Environment, vars, clients,
           StartServer, WaitDeployment, StartReturns, StopServer, SendClose, StopFinish,
           SetMaxNumberOfClients, SetClientStatusCheck, SetClientAliveTimeout, DisableCheck,
           ResetSocket, NotifyDeployment, EnterRecv, LeaveLoop, Receive, WorkerDies, ReceiveTimeout,
           ReceiveError, AfterReceive, Dispatch, SendError, ProcessCommand, SendReply,
           ExecReqConnect, ExecReqDisconnect, Submit, Tick
  <2> QED
    BY <2>1, <2>2
<1> QED
  BY <1>1, Inductive, PTL DEF Spec, RequestKeepsAlive
------------------------------------------------------------------------------
(* What the two waits of the owner rest on.                                 *)

(* The close message is in the socket as long as a worker that is awaited   *)
(* blocks in recv.                                                          *)
CloseArrives ==
  opc = "join" /\ wpc = "recv" => \E i \in 1 .. Len(inbox) : inbox[i] = NoMsg

LEMMA Appended ==
  ASSUME NEW S, NEW s \in Seq(S), NEW m \in S
  PROVE  /\ Len(s) \in Nat /\ Len(Append(s, m)) = Len(s) + 1
         /\ Append(s, m)[Len(s) + 1] = m
         /\ \A i \in 1 .. Len(s) : Append(s, m)[i] = s[i]
  OBVIOUS

LEMMA CloseArrivesStep == TypeOK /\ Lifecycle /\ CloseArrives /\ [Next]_vars => CloseArrives'
<1> SUFFICES ASSUME TypeOK, Lifecycle, CloseArrives, [Next]_vars PROVE CloseArrives'
  OBVIOUS
<1>1. inbox \in Seq(Message)
  BY DEF TypeOK
<1>2. CASE SendClose
  <2>1. inbox' = Append(inbox, NoMsg)
    BY <1>2 DEF SendClose
  <2>2. Len(inbox) + 1 \in 1 .. Len(inbox') /\ inbox'[Len(inbox) + 1] = NoMsg
    BY <1>1, <2>1, NoMsgType, Appended
  <2> QED  BY <2>2 DEF CloseArrives
<1>3. ASSUME NEW c \in Client, NEW k \in Kinds, Submit(c, k) PROVE CloseArrives'
  <2> DEFINE m == [from |-> c, kind |-> k]
  <2>1. inbox' = Append(inbox, m) /\ opc' = opc /\ wpc' = wpc /\ m \in Message
    BY <1>3 DEF Submit, Message
  <2>2. \A i \in 1 .. Len(inbox) : i \in 1 .. Len(inbox') /\ inbox'[i] = inbox[i]
    BY <1>1, <2>1, Appended
  <2> QED  BY <2>1, <2>2 DEF CloseArrives
<1>4. CASE Receive \/ WorkerDies
  BY <1>4 DEF Receive, WorkerDies, CloseArrives
<1>5. CASE EnterRecv
  BY <1>5 DEF EnterRecv, CloseArrives, Lifecycle, MutexFree
<1>6. CASE StopServer
  BY <1>6 DEF StopServer, CloseArrives
<1>7. CASE ~SendClose /\ ~Receive /\ ~WorkerDies /\ ~EnterRecv /\ ~StopServer
           /\ ~(\E c \in Client, k \in Kinds : Submit(c, k))
  <2>1. \/ opc' # "join" \/ wpc' # "recv"
        \/ UNCHANGED <<inbox, opc, wpc>>
    BY <1>7 DEF Next, OwnerStep, SetterStep, WorkerStep, Environment, vars, flags, setup, clients,
         StartServer, WaitDeployment, StartReturns, StopServer, StopFinish,
         SetMaxNumberOfClients, SetClientStatusCheck, SetClientAliveTimeout, DisableCheck,
         ResetSocket, NotifyDeployment, EnterRecv, LeaveLoop, ReceiveTimeout, ReceiveError,
         AfterReceive, GoCheck, Dispatch, Closing, Expired, Invalid, Valid,
         CheckClientsAliveStatus, SendError, ProcessCommand, ProcessConnect,
         ProcessStranger, ProcessMember, Answer, GoTo, ExecReqConnect, ExecReqDisconnect,
         SendReply, Tick
  <2> QED  BY <2>1 DEF CloseArrives
<1> QED
  BY <1>2, <1>3, <1>4, <1>5, <1>6, <1>7

(* What StopReturnsOrBlocks rests on: an owner that joins finds the close   *)
(* message before a worker in recv, also when the socket has no timeout.    *)
THEOREM CloseMessageArrives == Spec => []CloseArrives
<1>1. Init => CloseArrives
  BY DEF Init, CloseArrives
<1>2. Inv /\ CloseArrives /\ [Next]_vars => CloseArrives'
  BY CloseArrivesStep DEF Inv, TypeInv, ServerInv
<1> QED
  BY <1>1, <1>2, Inductive, PTL DEF Spec

(* The worker stands before a critical section of mtx_, which a stopServer  *)
(* that waits for the worker holds.                                         *)
Blocked == ~MutexFree /\ wpc \in {"check", "checkTimeout", "connect", "disconnect"}

(* The one exception of StopReturnsOrBlocks is a deadlock: nothing that any *)
(* thread, client or clock does ends it.                                    *)
THEOREM BlockedForEver == Spec => [][Blocked => Blocked']_vars
<1>1. [Next]_vars => [Blocked => Blocked']_vars
  BY DEF Blocked, MutexFree, ApplyStatusCheck, Next, OwnerStep, SetterStep, WorkerStep, Environment, vars, flags, setup, clients,
         StartServer, WaitDeployment, StartReturns, StopServer, SendClose, StopFinish,
         SetMaxNumberOfClients, SetClientStatusCheck, SetClientAliveTimeout, DisableCheck,
         ResetSocket, NotifyDeployment, EnterRecv, LeaveLoop, Receive, WorkerDies,
         ReceiveTimeout, ReceiveError, AfterReceive, Dispatch, CheckClientsAliveStatus,
         SendError, ProcessCommand, ExecReqConnect, ExecReqDisconnect, SendReply,
         Submit, Tick
<1> QED
  BY <1>1, PTL DEF Spec

(* The worker has notified its deployment and startServer does not know.    *)
StartMissed == opc \in {"launched", "cvwait"} /\ wpc \notin {"reset", "deploy"}

(* A startServer that waits for its worker either is still to be notified,  *)
(* or has missed it and then does not return: nothing notifies it again.    *)
THEOREM MissedForEver == Spec => [][StartMissed => StartMissed']_vars
<1>1. [Next]_vars => [StartMissed => StartMissed']_vars
  BY DEF StartMissed, Next, OwnerStep, SetterStep, WorkerStep, Environment, vars, flags, setup, clients,
         StartServer, WaitDeployment, StartReturns, StopServer, SendClose, StopFinish,
         SetMaxNumberOfClients, SetClientStatusCheck, SetClientAliveTimeout, DisableCheck,
         ResetSocket, NotifyDeployment, EnterRecv, LeaveLoop, Receive, WorkerDies,
         ReceiveTimeout, ReceiveError, AfterReceive, Dispatch, CheckClientsAliveStatus,
         SendError, ProcessCommand, ExecReqConnect, ExecReqDisconnect, SendReply,
         Submit, Tick,
         GoCheck, Closing, Expired, Invalid, Valid, ProcessConnect, ProcessStranger,
         ProcessMember, Answer, GoTo
<1> QED
  BY <1>1, PTL DEF Spec
------------------------------------------------------------------------------
(* CommandServer implements CommandService: each step of the threads is a   *)
(* step of the abstract service or leaves it as it is.                     *)


(* The abstract outcome.                                                    *)
Outcome == IF wpc = "reply"
           THEN [from |-> req.from, kind |-> req.kind, result |-> res]
           ELSE [from |-> "none", kind |-> "none", result |-> "none"]

LEMMA InitRefines == Init => Service!Init
BY DEF Init, Service!Init, Service!None

(* A request that is executed comes from a client.                          *)
LEMMA SenderIsClient ==
  ASSUME Inv, wpc \in {"process", "connect", "disconnect", "reply"}
  PROVE  req \in [from : Client, kind : Kinds]
<1>1. req.kind \notin DOMAIN Malformed
  BY DEF Inv, ServerInv, RequestHeld
<1>2. req # NoMsg
  BY <1>1 DEF NoMsg, Malformed
<1> QED
  BY <1>2 DEF Inv, TypeInv, TypeOK, Message

(* An outcome is never mistaken for the absence of one.                     *)
LEMMA OutcomePending ==
  ASSUME Inv, wpc = "reply"
  PROVE  Outcome # [from |-> "none", kind |-> "none", result |-> "none"]
<1>1. req.kind \in AllKinds
  BY SenderIsClient, KindsAssumption
<1>2. "none" \notin AllKinds
  BY DEF AllKinds, Malformed, Throwing, Connect, BadConnect, Answers
<1> QED
  BY <1>1, <1>2 DEF Outcome

(* The instance has the vocabulary of Commands under names of its own.      *)
LEMMA SameVocabulary == Service!BadConnect = BadConnect /\ Service!Answers = Answers
BY DEF Service!BadConnect, BadConnect, Service!Answers, Answers

LEMMA SameCardinality == ASSUME NEW S PROVE Service!Cardinality(S) = Cardinality(S)
BY DEF Service!Cardinality, Cardinality

(* A step that leaves a result behind finishes the command it was given.    *)
LEMMA FinishRefines ==
  ASSUME wpc' = "reply", req' = req
  PROVE  Service!Finish(req.from, req.kind, res')
BY DEF Service!Finish

(* processCommand, where it decides the result itself.                      *)
LEMMA ProcessRefines ==
  ASSUME Inv, ProcessCommand
  PROVE  [Service!Next]_(Service!vars)
<1> DEFINE c == req.from
<1>1. c \in Client /\ req.kind \in AllKinds /\ req.kind \notin DOMAIN Malformed \cup Throwing
  <2>1. wpc = "process"
    BY DEF ProcessCommand
  <2> QED
    BY <2>1, SenderIsClient, KindsAssumption DEF Inv, ServerInv, RequestHeld
<1>2. /\ wpc = "process" /\ UNCHANGED <<registered, maxClients>> /\ req' = req
      /\ ProcessConnect \/ ProcessStranger \/ ProcessMember
  BY DEF ProcessCommand, flags, clients
<1>3. CASE wpc' # "reply"
  BY <1>2, <1>3 DEF Service!vars
<1>4. CASE wpc' = "reply"
  <2>1. Service!Finish(c, req.kind, res')
    BY <1>2, <1>4, FinishRefines
  <2>2. ASSUME ProcessConnect PROVE Service!RefuseConnect(c)
    <3>1. req.kind \in DOMAIN BadConnect /\ res' = BadConnect[req.kind]
      BY <1>4, <2>2 DEF ProcessConnect, Connect, Answer, GoTo
    <3> QED
      BY <1>2, <2>1, <3>1, SameVocabulary DEF Service!RefuseConnect
  <2>3. ASSUME ProcessStranger PROVE Service!RefuseStranger(c)
    <3>1. c \notin registered /\ res' = "CLIENT_NOT_CONNECTED" /\ req.kind \notin Connect
      BY <2>3 DEF ProcessStranger, Answer
    <3>2. req.kind \in {"disconnect"} \cup DOMAIN Answers
      BY <1>1, <3>1 DEF AllKinds
    <3> QED
      BY <1>2, <2>1, <3>1, <3>2, SameVocabulary DEF Service!RefuseStranger
  <2>4. ASSUME ProcessMember PROVE Service!ServeMember(c)
    <3>1. /\ c \in registered
          /\ req.kind \in DOMAIN Answers /\ res' \in Answers[req.kind]
      BY <1>4, <2>4 DEF ProcessMember, Answer, GoTo
    <3> QED
      BY <1>2, <2>1, <3>1, SameVocabulary DEF Service!ServeMember
  <2>5. Service!Execute(c)
    BY <1>2, <2>2, <2>3, <2>4 DEF Service!Execute, Service!None
  <2> QED
    BY <1>1, <2>5 DEF Service!Next
<1> QED
  BY <1>3, <1>4

LEMMA ConnectRefines ==
  ASSUME Inv, ExecReqConnect
  PROVE  [Service!Next]_(Service!vars)
<1> DEFINE c == req.from
<1>1. wpc = "connect" /\ wpc' = "reply" /\ maxClients' = maxClients /\ req' = req
  BY DEF ExecReqConnect, Answer, flags
<1>2. c \in Client /\ req.kind = "connect"
  BY <1>1, SenderIsClient DEF Inv, TypeInv, CommandMatches
<1>3. Service!Finish(c, "connect", res')
  BY <1>1, <1>2, FinishRefines
<1>4. \/ c \in registered /\ res' = "ALREADY_CONNECTED" /\ registered' = registered
      \/ /\ c \notin registered /\ Cardinality(registered) >= maxClients
         /\ res' = "MAX_CLIENTS_REACH" /\ registered' = registered
      \/ /\ c \notin registered /\ Cardinality(registered) < maxClients
         /\ res' = "COMMAND_OK" /\ registered' = registered \cup {c}
  BY DEF ExecReqConnect, Answer, clients
<1>5. Service!ConnectClient(c)
  BY <1>3, <1>4, SameCardinality DEF Service!ConnectClient
<1>6. Service!Execute(c)
  BY <1>1, <1>5 DEF Service!Execute, Service!None
<1> QED
  BY <1>2, <1>6 DEF Service!Next

LEMMA DisconnectRefines ==
  ASSUME Inv, ExecReqDisconnect
  PROVE  [Service!Next]_(Service!vars)
<1> DEFINE c == req.from
<1>1. /\ wpc = "disconnect" /\ wpc' = "reply" /\ UNCHANGED <<maxClients, req>>
      /\ registered' = registered \ {c} /\ res' = "COMMAND_OK"
  BY DEF ExecReqDisconnect, Answer, flags
<1>2. c \in Client /\ req.kind = "disconnect" /\ c \in registered
  BY <1>1, SenderIsClient DEF Inv, TypeInv, CommandMatches, ServerInv, RequestHeld
<1>3. Service!Finish(c, "disconnect", res')
  BY <1>1, <1>2 DEF Service!Finish
<1>4. Service!DisconnectClient(c)
  BY <1>1, <1>2, <1>3 DEF Service!DisconnectClient
<1>5. Service!Execute(c)
  BY <1>1, <1>4 DEF Service!Execute, Service!None
<1> QED
  BY <1>2, <1>5 DEF Service!Next

(* The registry loses clients while no reply is pending.                    *)
LEMMA DropRefines ==
  ASSUME wpc # "reply", wpc' # "reply", registered' \subseteq registered,
         maxClients' = maxClients
  PROVE  [Service!Next]_(Service!vars)
<1>1. CASE registered' = registered
  BY <1>1 DEF Service!vars
<1>2. CASE registered' # registered
  BY <1>2 DEF Service!Next, Service!Drop, Service!None
<1> QED
  BY <1>1, <1>2

LEMMA StepRefines == Inv /\ [Next]_vars => [Service!Next]_(Service!vars)
<1> SUFFICES ASSUME Inv, [Next]_vars PROVE [Service!Next]_(Service!vars)
  OBVIOUS
<1>1. CASE ProcessCommand
  BY <1>1, ProcessRefines
<1>2. CASE ExecReqConnect
  BY <1>2, ConnectRefines
<1>3. CASE ExecReqDisconnect
  BY <1>3, DisconnectRefines
<1>4. CASE CheckClientsAliveStatus
  BY <1>4, DropRefines DEF CheckClientsAliveStatus, flags
<1>5. CASE StopFinish
  BY <1>5, DropRefines DEF StopFinish
<1>6. CASE SendReply
  <2>1. Service!Reply
    BY <1>6, OutcomePending
       DEF SendReply, Outcome, Service!Reply, Service!None, flags, clients
  <2> QED
    BY <2>1 DEF Service!Next
<1>7. ASSUME NEW n \in MaxChoices, SetMaxNumberOfClients(n)
      PROVE  [Service!Next]_(Service!vars)
  <2>1. registered = {}
    BY <1>7 DEF SetMaxNumberOfClients, Inv, ServerInv, Lifecycle, MutexFree
  <2>2. Service!SetLimit(n)
    BY <1>7, <2>1 DEF SetMaxNumberOfClients, Service!SetLimit, clients, call
  <2> QED
    BY <2>2 DEF Service!Next
<1>8. CASE UNCHANGED <<registered, maxClients>> /\ wpc # "reply" /\ wpc' # "reply"
  BY <1>8, DropRefines
<1>9. CASE UNCHANGED <<registered, maxClients, wpc, req, res>>
  BY <1>9 DEF Service!vars
<1> QED
  BY <1>1, <1>2, <1>3, <1>4, <1>5, <1>6, <1>7, <1>8, <1>9
     DEF Next, OwnerStep, SetterStep, WorkerStep, Environment, vars, flags, clients, call,
         StartServer, WaitDeployment, StartReturns, StopServer, SendClose,
         SetClientStatusCheck, SetClientAliveTimeout, DisableCheck,
         ResetSocket, NotifyDeployment, EnterRecv, LeaveLoop, Receive, ReceiveTimeout,
         ReceiveError, WorkerDies, AfterReceive, GoCheck, Dispatch, Closing, Expired, Invalid, Valid, SendError,
         Submit, Tick

(* The server implements the service: registry and results are those of     *)
(* commands executed one at a time, each in a single step.                  *)
THEOREM ServerImplementsService == Spec => ImplementsService
<1> QED
  BY InitRefines, StepRefines, Inductive, PTL DEF Spec, ImplementsService, Service!Spec
==============================================================================
