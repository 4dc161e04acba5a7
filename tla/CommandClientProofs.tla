------------------------- MODULE CommandClientProofs -------------------------
(***************************************************************************)
(* What holds of the client for either value of its constants.  The        *)
(* inductive invariant is TypeOK with five parts:                          *)
(*   ReturnsHome      a stop returns to where its thread came from;        *)
(*   OneWorker        two workers only while the user waits in Assign;     *)
(*   WaitingInPoll    the waiting flag is set only within a wait;          *)
(*   NoSelfWait       the user never waits for its own wait;               *)
(*   CloseMsgIsFresh  a close message belongs to a stop in progress.       *)
(* On it rest the theorems on sockets, on the mutexes and on who waits.    *)
(***************************************************************************)
EXTENDS CommandClient, TLAPS

(* flag_waiting_cmd_reply_ is set only while the user is in recvFromSocket  *)
(* or has just left it.  A worker's failure may clear it earlier.           *)
WaitingInPoll == waiting => pc["user"] \in {"poll", "received", "crashed"}

(* A thread goes back where it came from when a stop returns.               *)
ReturnsHome == /\ \A t \in Caller : pc[t] \in Stopping => ret[t] \in {"idle", "failed", "result"}
               /\ \A w \in Worker : pc[w] \in Stopping => ret[w] \in {"none", "loop"}

Inv == TypeOK /\ ReturnsHome /\ OneWorker /\ WaitingInPoll /\ NoSelfWait /\ CloseMsgIsFresh

(* The part of TypeOK on the threads' places.                               *)
PlaceOK == /\ pc \in [Thread -> UserAt \cup WorkerAt]
           /\ \A t \in Caller : pc[t] \in UserAt
           /\ \A w \in Worker : pc[w] \in WorkerAt
           /\ ret \in [Thread -> {"idle", "failed", "result", "none", "loop"}]

(* A thread that moves to a place of its own keeps it.                      *)
LEMMA MoveType ==
  ASSUME PlaceOK, NEW t \in Thread, NEW l \in UserAt \cup WorkerAt,
         t \in Caller => l \in UserAt, t \in Worker => l \in WorkerAt,
         pc' = [pc EXCEPT ![t] = l], ret' = ret
  PROVE  PlaceOK'
  BY DEF PlaceOK

(* Every value and set the threads' places are made of.                     *)
USE DEF Thread, Caller, Worker, UserAt, WorkerAt, Stopping, Command, Reply, Result,
        Goto, Running, flags, pair, call

-----------------------------------------------------------------------------
(* What each step does to the invariant.                                   *)

(* The client that has just been constructed satisfies the invariant.       *)
LEMMA InitInv == Init => Inv
  BY ClientAssumption DEF Init, Inv, TypeOK, ReturnsHome, OneWorker, WaitingInPoll,
                          NoSelfWait, CloseMsgIsFresh

(* Each step of internalStopClient keeps the invariant, whoever runs it. A  *)
(* close message is sent only on the way to the drain, and goes with the    *)
(* sockets.                                                                 *)
LEMMA StopSteps ==
  ASSUME Inv, NEW t \in Thread,
         StopTest(t) \/ StopClear(t) \/ StopClose(t) \/ StopDrain(t) \/ StopAlive(t)
           \/ StopDelete(t)
  PROVE  Inv'
<1>1. CASE StopTest(t)
  <2>1. TypeOK'
    <3>1. PlaceOK'
      BY <1>1, MoveType DEF StopTest, EnterStop, Return, Inv, TypeOK, ReturnsHome, PlaceOK
    <3>2. QED  BY <3>1, <1>1 DEF StopTest, EnterStop, Return, Inv, TypeOK, PlaceOK
  <2>2. OneWorker'
    BY <1>1 DEF StopTest, EnterStop, Return, Inv, TypeOK, OneWorker
  <2>3. WaitingInPoll'
    BY <1>1 DEF StopTest, EnterStop, Return, Inv, TypeOK, WaitingInPoll
  <2>4. NoSelfWait'
    BY <1>1 DEF StopTest, EnterStop, Return, Inv, TypeOK, WaitingInPoll, NoSelfWait
  <2>5. CloseMsgIsFresh'
    BY <1>1 DEF StopTest, EnterStop, Return, Inv, TypeOK, CloseMsgIsFresh
  <2>6. ReturnsHome'
    BY <1>1 DEF StopTest, EnterStop, Return, Inv, TypeOK, ReturnsHome
  <2> QED  BY <2>1, <2>2, <2>3, <2>4, <2>5, <2>6 DEF Inv
<1>2. CASE StopClear(t)
  <2>1. TypeOK'
    <3>1. PlaceOK'
      BY <1>2, MoveType DEF StopClear, Inv, TypeOK, ReturnsHome, PlaceOK
    <3>2. QED  BY <3>1, <1>2 DEF StopClear, Inv, TypeOK, PlaceOK
  <2>2. OneWorker'
    BY <1>2 DEF StopClear, Inv, TypeOK, OneWorker
  <2>3. WaitingInPoll'
    BY <1>2 DEF StopClear, Inv, TypeOK, WaitingInPoll
  <2>4. NoSelfWait'
    BY <1>2 DEF StopClear, Inv, TypeOK, WaitingInPoll, NoSelfWait
  <2>5. CloseMsgIsFresh'
    BY <1>2 DEF StopClear, Inv, TypeOK, CloseMsgIsFresh
  <2>6. ReturnsHome'
    BY <1>2 DEF StopClear, Inv, TypeOK, ReturnsHome
  <2> QED  BY <2>1, <2>2, <2>3, <2>4, <2>5, <2>6 DEF Inv
<1>3. CASE StopClose(t)
  <2>1. TypeOK'
    <3>1. PlaceOK'
      BY <1>3, MoveType DEF StopClose, Inv, TypeOK, ReturnsHome, PlaceOK
    <3>2. QED  BY <3>1, <1>3 DEF StopClose, Inv, TypeOK, PlaceOK
  <2>2. OneWorker'
    BY <1>3 DEF StopClose, Inv, TypeOK, OneWorker
  <2>3. WaitingInPoll'
    BY <1>3 DEF StopClose, Inv, TypeOK, WaitingInPoll
  <2>4. NoSelfWait'
    BY <1>3 DEF StopClose, Inv, TypeOK, WaitingInPoll, NoSelfWait
  <2>5. CloseMsgIsFresh'
    BY <1>3 DEF StopClose, Inv, TypeOK, CloseMsgIsFresh
  <2>6. ReturnsHome'
    BY <1>3 DEF StopClose, Inv, TypeOK, ReturnsHome
  <2> QED  BY <2>1, <2>2, <2>3, <2>4, <2>5, <2>6 DEF Inv
<1>4. CASE StopDrain(t)
  BY <1>4 DEF StopDrain, Inv, TypeOK, ReturnsHome, OneWorker, WaitingInPoll, NoSelfWait,
              CloseMsgIsFresh
<1>5. CASE StopAlive(t)
  <2>1. TypeOK'
    <3>1. PlaceOK'
      BY <1>5, MoveType DEF StopAlive, Inv, TypeOK, ReturnsHome, PlaceOK
    <3>2. QED  BY <3>1, <1>5 DEF StopAlive, Inv, TypeOK, PlaceOK
  <2>2. OneWorker'
    BY <1>5 DEF StopAlive, Inv, TypeOK, OneWorker
  <2>3. WaitingInPoll'
    BY <1>5 DEF StopAlive, Inv, TypeOK, WaitingInPoll
  <2>4. NoSelfWait'
    BY <1>5 DEF StopAlive, Inv, TypeOK, WaitingInPoll, NoSelfWait
  <2>5. CloseMsgIsFresh'
    BY <1>5 DEF StopAlive, Inv, TypeOK, CloseMsgIsFresh
  <2>6. ReturnsHome'
    BY <1>5 DEF StopAlive, Inv, TypeOK, ReturnsHome
  <2> QED  BY <2>1, <2>2, <2>3, <2>4, <2>5, <2>6 DEF Inv
<1>6. CASE StopDelete(t)
  <2>1. TypeOK'
    <3>1. PlaceOK'
      BY <1>6, MoveType DEF StopDelete, Delete, Return, Inv, TypeOK, ReturnsHome, PlaceOK
    <3>2. QED  BY <3>1, <1>6 DEF StopDelete, Delete, Return, Inv, TypeOK, PlaceOK
  <2>2. OneWorker'
    BY <1>6 DEF StopDelete, Delete, Return, Inv, TypeOK, OneWorker
  <2>3. WaitingInPoll'
    BY <1>6 DEF StopDelete, Delete, Return, Inv, TypeOK, WaitingInPoll
  <2>4. NoSelfWait'
    BY <1>6 DEF StopDelete, Delete, Return, Inv, TypeOK, WaitingInPoll, NoSelfWait
  <2>5. CloseMsgIsFresh'
    BY <1>6 DEF StopDelete, Delete, Return, Inv, TypeOK, CloseMsgIsFresh
  <2>6. ReturnsHome'
    BY <1>6 DEF StopDelete, Delete, Return, Inv, TypeOK, ReturnsHome
  <2> QED  BY <2>1, <2>2, <2>3, <2>4, <2>5, <2>6 DEF Inv
<1> QED  BY <1>1, <1>2, <1>3, <1>4, <1>5, <1>6

(* Each step of sendCommand, doConnect and doDisconnect keeps the           *)
(* invariant. A second worker is launched only on the way to the            *)
(* assignment, which ends with one.                                         *)
LEMMA UserSteps ==
  ASSUME Inv, NEW r \in Result, NEW why \in BOOLEAN,
         Start \/ Send \/ SendToNothing \/ SendFails(why) \/ ReturnFailed \/ Wait
           \/ PollAnswered(r) \/ PollReturns(r) \/ PollFails(why) \/ PollCrashes
           \/ StopWaiting \/ ReturnStopped \/ ReturnTimeout \/ Reset \/ ReturnBad
           \/ ReturnOk \/ StartAutoAlive \/ Assign
  PROVE  Inv'
<1>1. CASE Start
  BY <1>1 DEF Start, InternalResetClient, Delete, Inv, TypeOK, ReturnsHome, OneWorker,
              WaitingInPoll, NoSelfWait, CloseMsgIsFresh
<1>2. CASE Send
  BY <1>2 DEF Send, Inv, TypeOK, ReturnsHome, OneWorker, WaitingInPoll, NoSelfWait,
              CloseMsgIsFresh
<1>3. CASE SendToNothing
  BY <1>3 DEF SendToNothing, Inv, TypeOK, ReturnsHome, OneWorker, WaitingInPoll,
              NoSelfWait, CloseMsgIsFresh
<1>4. CASE SendFails(why)
  BY <1>4 DEF SendFails, EnterStop, Inv, TypeOK, ReturnsHome, OneWorker, WaitingInPoll,
              NoSelfWait, CloseMsgIsFresh
<1>5. CASE ReturnFailed
  BY <1>5 DEF ReturnFailed, Finish, Inv, TypeOK, ReturnsHome, OneWorker, WaitingInPoll,
              NoSelfWait, CloseMsgIsFresh
<1>6. CASE Wait
  BY <1>6 DEF Wait, Inv, TypeOK, ReturnsHome, OneWorker, WaitingInPoll, NoSelfWait,
              CloseMsgIsFresh
<1>7. CASE PollAnswered(r)
  BY <1>7 DEF PollAnswered, Received, Inv, TypeOK, ReturnsHome, OneWorker, WaitingInPoll,
              NoSelfWait, CloseMsgIsFresh
<1>8. CASE PollReturns(r)
  BY <1>8 DEF PollReturns, Stopped, TimedOut, Inv, TypeOK, ReturnsHome, OneWorker,
              WaitingInPoll, NoSelfWait, CloseMsgIsFresh
<1>9. CASE PollFails(why)
  BY <1>9 DEF PollFails, EnterStop, Inv, TypeOK, ReturnsHome, OneWorker, WaitingInPoll,
              NoSelfWait, CloseMsgIsFresh
<1>10. CASE PollCrashes
  BY <1>10 DEF PollCrashes, Inv, TypeOK, ReturnsHome, OneWorker, WaitingInPoll,
               NoSelfWait, CloseMsgIsFresh
<1>11. CASE StopWaiting
  BY <1>11 DEF StopWaiting, Inv, TypeOK, ReturnsHome, OneWorker, WaitingInPoll,
               NoSelfWait, CloseMsgIsFresh
<1>12. CASE ReturnStopped
  BY <1>12 DEF ReturnStopped, Finish, Inv, TypeOK, ReturnsHome, OneWorker, WaitingInPoll,
               NoSelfWait, CloseMsgIsFresh
<1>13. CASE ReturnTimeout
  BY <1>13 DEF ReturnTimeout, Inv, TypeOK, ReturnsHome, OneWorker, WaitingInPoll,
               NoSelfWait, CloseMsgIsFresh
<1>14. CASE Reset
  <2>1. TypeOK'
    <3>1. PlaceOK'
      BY <1>14 DEF Reset, InternalResetClient, Delete, Finish, Inv, TypeOK, ReturnsHome,
                   PlaceOK
    <3>2. QED  BY <3>1, <1>14 DEF Reset, InternalResetClient, Delete, Finish, Inv, TypeOK,
                                  PlaceOK
  <2>2. OneWorker'
    BY <1>14 DEF Reset, InternalResetClient, Delete, Finish, Inv, TypeOK, OneWorker
  <2>3. WaitingInPoll'
    BY <1>14 DEF Reset, InternalResetClient, Delete, Finish, Inv, TypeOK, WaitingInPoll
  <2>4. NoSelfWait'
    BY <1>14 DEF Reset, InternalResetClient, Delete, Finish, Inv, TypeOK, WaitingInPoll,
                 NoSelfWait
  <2>5. CloseMsgIsFresh'
    BY <1>14 DEF Reset, InternalResetClient, Delete, Finish, Inv, TypeOK, CloseMsgIsFresh
  <2>6. ReturnsHome'
    BY <1>14 DEF Reset, InternalResetClient, Delete, Finish, Inv, TypeOK, ReturnsHome
  <2> QED  BY <2>1, <2>2, <2>3, <2>4, <2>5, <2>6 DEF Inv
<1>15. CASE ReturnBad
  BY <1>15 DEF ReturnBad, Finish, Inv, TypeOK, ReturnsHome, OneWorker, WaitingInPoll,
               NoSelfWait, CloseMsgIsFresh
<1>16. CASE ReturnOk
  BY <1>16 DEF ReturnOk, Finish, Inv, TypeOK, ReturnsHome, OneWorker, WaitingInPoll,
               NoSelfWait, CloseMsgIsFresh
<1>17. CASE StartAutoAlive
  BY <1>17 DEF StartAutoAlive, Launch, Inv, TypeOK, ReturnsHome, OneWorker, WaitingInPoll,
               NoSelfWait, CloseMsgIsFresh
<1>18. CASE Assign
  BY <1>18 DEF Assign, Finish, Inv, TypeOK, ReturnsHome, OneWorker, WaitingInPoll,
               NoSelfWait, CloseMsgIsFresh
<1> QED  BY <1>1, <1>2, <1>3, <1>4, <1>5, <1>6, <1>7, <1>8, <1>9, <1>10, <1>11,
            <1>12, <1>13, <1>14, <1>15, <1>16, <1>17, <1>18

(* Each call of a user or of the stopping thread keeps the invariant.       *)
LEMMA CallSteps ==
  ASSUME Inv, NEW c \in Command, NEW t \in Caller,
         StartClient \/ DisableAutoAlive \/ SendCommand(c) \/ StopClient(t)
  PROVE  Inv'
<1>1. CASE StartClient
  BY <1>1 DEF StartClient, Inv, TypeOK, ReturnsHome, OneWorker, WaitingInPoll, NoSelfWait,
              CloseMsgIsFresh
<1>2. CASE DisableAutoAlive
  BY <1>2 DEF DisableAutoAlive, Inv, TypeOK, ReturnsHome, OneWorker, WaitingInPoll,
              NoSelfWait, CloseMsgIsFresh
<1>3. CASE SendCommand(c)
  BY <1>3 DEF SendCommand, Finish, Inv, TypeOK, ReturnsHome, OneWorker, WaitingInPoll,
              NoSelfWait, CloseMsgIsFresh
<1>4. CASE StopClient(t)
  BY <1>4 DEF StopClient, EnterStop, Inv, TypeOK, ReturnsHome, OneWorker, WaitingInPoll,
              NoSelfWait, CloseMsgIsFresh
<1> QED  BY <1>1, <1>2, <1>3, <1>4

(* Each step of the alive worker keeps the invariant.                       *)
LEMMA AliveSteps ==
  ASSUME Inv, NEW w \in Worker,
         Create(w) \/ Head(w) \/ Period(w) \/ SendAlive(w) \/ SendAliveFails(w)
           \/ Fail(w) \/ AliveAnswered(w) \/ AlivePollReturns(w) \/ AlivePollFails(w)
           \/ AliveStopped(w) \/ AliveTimeout(w) \/ AliveReset(w)
  PROVE  Inv'
<1>1. CASE Create(w)
  BY <1>1 DEF Create, Inv, TypeOK, ReturnsHome, OneWorker, WaitingInPoll, NoSelfWait,
              CloseMsgIsFresh
<1>2. CASE Head(w)
  <2>1. TypeOK'
    <3>1. PlaceOK'
      BY <1>2, MoveType DEF Head, Inv, TypeOK, ReturnsHome, PlaceOK
    <3>2. QED  BY <3>1, <1>2 DEF Head, Inv, TypeOK, PlaceOK
  <2>2. OneWorker'
    BY <1>2 DEF Head, Inv, TypeOK, OneWorker
  <2>3. WaitingInPoll'
    BY <1>2 DEF Head, Inv, TypeOK, WaitingInPoll
  <2>4. NoSelfWait'
    BY <1>2 DEF Head, Inv, TypeOK, WaitingInPoll, NoSelfWait
  <2>5. CloseMsgIsFresh'
    BY <1>2 DEF Head, Inv, TypeOK, CloseMsgIsFresh
  <2>6. ReturnsHome'
    BY <1>2 DEF Head, Inv, TypeOK, ReturnsHome
  <2> QED  BY <2>1, <2>2, <2>3, <2>4, <2>5, <2>6 DEF Inv
<1>3. CASE Period(w)
  BY <1>3 DEF Period, Inv, TypeOK, ReturnsHome, OneWorker, WaitingInPoll, NoSelfWait,
              CloseMsgIsFresh
<1>4. CASE SendAlive(w)
  <2>1. TypeOK'
    <3>1. PlaceOK'
      BY <1>4, MoveType DEF SendAlive, Inv, TypeOK, ReturnsHome, PlaceOK
    <3>2. QED  BY <3>1, <1>4 DEF SendAlive, Inv, TypeOK, PlaceOK
  <2>2. OneWorker'
    BY <1>4 DEF SendAlive, Inv, TypeOK, OneWorker
  <2>3. WaitingInPoll'
    BY <1>4 DEF SendAlive, Inv, TypeOK, WaitingInPoll
  <2>4. NoSelfWait'
    BY <1>4 DEF SendAlive, Inv, TypeOK, WaitingInPoll, NoSelfWait
  <2>5. CloseMsgIsFresh'
    BY <1>4 DEF SendAlive, Inv, TypeOK, CloseMsgIsFresh
  <2>6. ReturnsHome'
    BY <1>4 DEF SendAlive, Inv, TypeOK, ReturnsHome
  <2> QED  BY <2>1, <2>2, <2>3, <2>4, <2>5, <2>6 DEF Inv
<1>5. CASE SendAliveFails(w)
  BY <1>5 DEF SendAliveFails, Inv, TypeOK, ReturnsHome, OneWorker, WaitingInPoll,
              NoSelfWait, CloseMsgIsFresh
<1>6. CASE Fail(w)
  <2>1. TypeOK'
    BY <1>6 DEF Fail, EnterStop, Inv, TypeOK, ReturnsHome, OneWorker, WaitingInPoll,
                NoSelfWait, CloseMsgIsFresh
  <2>2. OneWorker'
    BY <1>6 DEF Fail, EnterStop, Inv, TypeOK, OneWorker
  <2>3. WaitingInPoll'
    BY <1>6 DEF Fail, EnterStop, Inv, TypeOK, WaitingInPoll
  <2>4. NoSelfWait'
    BY <1>6 DEF Fail, EnterStop, Inv, TypeOK, WaitingInPoll, NoSelfWait
  <2>5. CloseMsgIsFresh'
    BY <1>6 DEF Fail, EnterStop, Inv, TypeOK, CloseMsgIsFresh
  <2>6. ReturnsHome'
    BY <1>6 DEF Fail, EnterStop, Inv, TypeOK, ReturnsHome
  <2> QED  BY <2>1, <2>2, <2>3, <2>4, <2>5, <2>6 DEF Inv
<1>7. CASE AliveAnswered(w)
  BY <1>7 DEF AliveAnswered, Received, Inv, TypeOK, ReturnsHome, OneWorker, WaitingInPoll,
              NoSelfWait, CloseMsgIsFresh
<1>8. CASE AlivePollReturns(w)
  <2>1. TypeOK'
    <3>1. PlaceOK'
      BY <1>8, MoveType DEF AlivePollReturns, Stopped, TimedOut, Inv, TypeOK, ReturnsHome,
                            PlaceOK
    <3>2. QED  BY <3>1, <1>8 DEF AlivePollReturns, Stopped, TimedOut, Inv, TypeOK, PlaceOK
  <2>2. OneWorker'
    BY <1>8 DEF AlivePollReturns, Stopped, TimedOut, Inv, TypeOK, OneWorker
  <2>3. WaitingInPoll'
    BY <1>8 DEF AlivePollReturns, Stopped, TimedOut, Inv, TypeOK, WaitingInPoll
  <2>4. NoSelfWait'
    BY <1>8 DEF AlivePollReturns, Stopped, TimedOut, Inv, TypeOK, WaitingInPoll,
                NoSelfWait
  <2>5. CloseMsgIsFresh'
    BY <1>8 DEF AlivePollReturns, Stopped, TimedOut, Inv, TypeOK, CloseMsgIsFresh
  <2>6. ReturnsHome'
    BY <1>8 DEF AlivePollReturns, Stopped, TimedOut, Inv, TypeOK, ReturnsHome
  <2> QED  BY <2>1, <2>2, <2>3, <2>4, <2>5, <2>6 DEF Inv
<1>9. CASE AlivePollFails(w)
  <2>1. TypeOK'
    <3>1. PlaceOK'
      BY <1>9, MoveType DEF AlivePollFails, EnterStop, Inv, TypeOK, ReturnsHome, PlaceOK
    <3>2. QED  BY <3>1, <1>9 DEF AlivePollFails, EnterStop, Inv, TypeOK, PlaceOK
  <2>2. OneWorker'
    BY <1>9 DEF AlivePollFails, EnterStop, Inv, TypeOK, OneWorker
  <2>3. WaitingInPoll'
    BY <1>9 DEF AlivePollFails, EnterStop, Inv, TypeOK, WaitingInPoll
  <2>4. NoSelfWait'
    BY <1>9 DEF AlivePollFails, EnterStop, Inv, TypeOK, WaitingInPoll, NoSelfWait
  <2>5. CloseMsgIsFresh'
    BY <1>9 DEF AlivePollFails, EnterStop, Inv, TypeOK, CloseMsgIsFresh
  <2>6. ReturnsHome'
    BY <1>9 DEF AlivePollFails, EnterStop, Inv, TypeOK, ReturnsHome
  <2> QED  BY <2>1, <2>2, <2>3, <2>4, <2>5, <2>6 DEF Inv
<1>10. CASE AliveStopped(w)
  <2>1. TypeOK'
    <3>1. PlaceOK'
      BY <1>10, MoveType DEF AliveStopped, Inv, TypeOK, ReturnsHome, PlaceOK
    <3>2. QED  BY <3>1, <1>10 DEF AliveStopped, Inv, TypeOK, PlaceOK
  <2>2. OneWorker'
    BY <1>10 DEF AliveStopped, Inv, TypeOK, OneWorker
  <2>3. WaitingInPoll'
    BY <1>10 DEF AliveStopped, Inv, TypeOK, WaitingInPoll
  <2>4. NoSelfWait'
    BY <1>10 DEF AliveStopped, Inv, TypeOK, WaitingInPoll, NoSelfWait
  <2>5. CloseMsgIsFresh'
    BY <1>10 DEF AliveStopped, Inv, TypeOK, CloseMsgIsFresh
  <2>6. ReturnsHome'
    BY <1>10 DEF AliveStopped, Inv, TypeOK, ReturnsHome
  <2> QED  BY <2>1, <2>2, <2>3, <2>4, <2>5, <2>6 DEF Inv
<1>11. CASE AliveTimeout(w)
  <2>1. TypeOK'
    <3>1. PlaceOK'
      BY <1>11, MoveType DEF AliveTimeout, Inv, TypeOK, ReturnsHome, PlaceOK
    <3>2. QED  BY <3>1, <1>11 DEF AliveTimeout, Inv, TypeOK, PlaceOK
  <2>2. OneWorker'
    BY <1>11 DEF AliveTimeout, Inv, TypeOK, OneWorker
  <2>3. WaitingInPoll'
    BY <1>11 DEF AliveTimeout, Inv, TypeOK, WaitingInPoll
  <2>4. NoSelfWait'
    BY <1>11 DEF AliveTimeout, Inv, TypeOK, WaitingInPoll, NoSelfWait
  <2>5. CloseMsgIsFresh'
    BY <1>11 DEF AliveTimeout, Inv, TypeOK, CloseMsgIsFresh
  <2>6. ReturnsHome'
    BY <1>11 DEF AliveTimeout, Inv, TypeOK, ReturnsHome
  <2> QED  BY <2>1, <2>2, <2>3, <2>4, <2>5, <2>6 DEF Inv
<1>12. CASE AliveReset(w)
  <2>1. TypeOK'
    <3>1. PlaceOK'
      BY <1>12, MoveType DEF AliveReset, InternalResetClient, Delete, Inv, TypeOK,
                             ReturnsHome, PlaceOK
    <3>2. QED  BY <3>1, <1>12 DEF AliveReset, InternalResetClient, Delete, Inv, TypeOK,
                                  PlaceOK
  <2>2. OneWorker'
    BY <1>12 DEF AliveReset, InternalResetClient, Delete, Inv, TypeOK, OneWorker
  <2>3. WaitingInPoll'
    BY <1>12 DEF AliveReset, InternalResetClient, Delete, Inv, TypeOK, WaitingInPoll
  <2>4. NoSelfWait'
    BY <1>12 DEF AliveReset, InternalResetClient, Delete, Inv, TypeOK, WaitingInPoll,
                 NoSelfWait
  <2>5. CloseMsgIsFresh'
    BY <1>12 DEF AliveReset, InternalResetClient, Delete, Inv, TypeOK, CloseMsgIsFresh
  <2>6. ReturnsHome'
    BY <1>12 DEF AliveReset, InternalResetClient, Delete, Inv, TypeOK, ReturnsHome
  <2> QED  BY <2>1, <2>2, <2>3, <2>4, <2>5, <2>6 DEF Inv
<1> QED  BY <1>1, <1>2, <1>3, <1>4, <1>5, <1>6, <1>7, <1>8, <1>9, <1>10, <1>11, <1>12

(* Every step of the client keeps the invariant.                            *)
LEMMA NextInv == Inv /\ [Next]_vars => Inv'
<1> SUFFICES ASSUME Inv, [Next]_vars PROVE Inv'
  OBVIOUS
<1>1. ASSUME NEW t \in Thread, InternalStopClient(t) PROVE Inv'
  BY <1>1, StopSteps DEF InternalStopClient
<1>2. CASE UserStep
  <2>1. owed["user"] \in BOOLEAN /\ gone \in BOOLEAN
    BY DEF Inv, TypeOK
  <2> QED  BY <1>1, <1>2, <2>1, UserSteps DEF UserStep
<1>3. CASE UserCall
  BY <1>3, CallSteps DEF UserCall
<1>4. CASE OtherStep
  BY <1>1, <1>4 DEF OtherStep
<1>5. ASSUME NEW w \in Worker, AliveStep(w) PROVE Inv'
  BY <1>1, <1>5, AliveSteps DEF AliveStep
<1>7. CASE Answer
  BY <1>7, UserSteps, AliveSteps DEF Answer
<1>8. CASE Fault
  BY <1>8, UserSteps, AliveSteps, ClientAssumption DEF Fault
<1>6. CASE UNCHANGED vars
  BY <1>6 DEF Inv, TypeOK, ReturnsHome, OneWorker, WaitingInPoll, NoSelfWait,
              CloseMsgIsFresh, vars
<1> QED  BY <1>2, <1>3, <1>4, <1>5, <1>6, <1>7, <1>8 DEF Next

(* The invariant holds in every state of every behaviour.                   *)
THEOREM Invariant == Spec => []Inv
  BY InitInv, NextInv, PTL DEF Spec
-----------------------------------------------------------------------------
(* Every variable holds a value the C++ object and its threads can hold.    *)
THEOREM TypeCorrect == Spec => []TypeOK
<1>1. Inv => TypeOK
  BY DEF Inv
<1> QED  BY <1>1, Invariant, PTL

(* stopAutoAlive waits for no worker, and still two run only while          *)
(* startAutoAlive waits for the first of them to end.                       *)
THEOREM OneWorkerAtATime == Spec => []OneWorker
<1>1. Inv => OneWorker
  BY DEF Inv
<1> QED  BY <1>1, Invariant, PTL

(* internalStopClient never waits for the wait of the thread that runs it.  *)
THEOREM UserNeverAwaitsItself == Spec => []NoSelfWait
<1>1. Inv => NoSelfWait
  BY DEF Inv
<1> QED  BY <1>1, Invariant, PTL

(* The close message of a stop is gone when the stop has returned.          *)
THEOREM CloseMessageIsConsumed == Spec => []CloseMsgIsFresh
<1>1. Inv => CloseMsgIsFresh
  BY DEF Inv
<1> QED  BY <1>1, Invariant, PTL
-----------------------------------------------------------------------------
(* The sockets and the mutexes.                                             *)

(* A close message waits in a socket that exists; a user polls sockets that *)
(* exist or have been deleted under the poll; and a request is owed its     *)
(* answer only on a socket that was created for it.                         *)
SocketsInUse ==
  /\ closeMsg => sockets
  /\ gone => pc["user"] \in {"poll", "crashed"}
  /\ pc["user"] = "poll" /\ ~sockets => gone
  /\ owed["user"] => sockets
  /\ \A w \in Worker : \/ pc[w] \in {"none", "create", "createFailed"}
                       \/ pc[w] \in Stopping /\ ret[w] = "none"
                       => ~owed[w]

(* One caller at most holds client_close_mtx_, and one worker mtx_.         *)
InStop(t, back) == pc[t] \in Stopping /\ ret[t] = back
OneHolder ==
  /\ ~(InStop("user", "idle") /\ InStop("other", "idle"))
  /\ ~(InStop("new", "none") /\ InStop("old", "none"))

LEMMA StopKeepsSockets ==
  ASSUME Inv, SocketsInUse, NEW t \in Thread,
         StopTest(t) \/ StopClear(t) \/ StopClose(t) \/ StopDrain(t) \/ StopAlive(t)
           \/ StopDelete(t)
  PROVE  SocketsInUse'
<1> USE DEF SocketsInUse, Inv, TypeOK, ReturnsHome
<1>1. CASE StopTest(t)
  BY <1>1 DEF StopTest, Return
<1>2. CASE StopClear(t)
  BY <1>2 DEF StopClear
<1>3. CASE StopClose(t)
  BY <1>3 DEF StopClose
<1>4. CASE StopDrain(t)
  BY <1>4 DEF StopDrain
<1>5. CASE StopAlive(t)
  BY <1>5 DEF StopAlive
<1>6. CASE StopDelete(t)
  BY <1>6 DEF StopDelete, Delete, Return
<1> QED  BY <1>1, <1>2, <1>3, <1>4, <1>5, <1>6

LEMMA UserKeepsSockets ==
  ASSUME Inv, SocketsInUse, NEW r \in Result, NEW why \in BOOLEAN,
         Start \/ Send \/ SendToNothing \/ SendFails(why) \/ ReturnFailed
           \/ Wait \/ PollAnswered(r) \/ PollReturns(r) \/ PollFails(why) \/ PollCrashes
           \/ StopWaiting \/ ReturnStopped \/ ReturnTimeout \/ Reset \/ ReturnBad
           \/ ReturnOk \/ StartAutoAlive \/ Assign
  PROVE  SocketsInUse'
<1> USE DEF SocketsInUse, Inv, TypeOK, ReturnsHome
<1>1. CASE Start
  BY <1>1 DEF Start, InternalResetClient, Delete
<1>2. CASE Send
  BY <1>2 DEF Send
<1>3. CASE SendToNothing
  BY <1>3 DEF SendToNothing
<1>4. CASE SendFails(why)
  BY <1>4 DEF SendFails, EnterStop
<1>5. CASE ReturnFailed
  BY <1>5 DEF ReturnFailed, Finish
<1>6. CASE Wait
  BY <1>6 DEF Wait
<1>7. CASE PollAnswered(r)
  BY <1>7 DEF PollAnswered, Received
<1>8. CASE PollReturns(r)
  BY <1>8 DEF PollReturns, Stopped, TimedOut
<1>9. CASE PollFails(why)
  BY <1>9 DEF PollFails, EnterStop
<1>10. CASE PollCrashes
  BY <1>10 DEF PollCrashes
<1>11. CASE StopWaiting
  BY <1>11 DEF StopWaiting
<1>12. CASE ReturnStopped
  BY <1>12 DEF ReturnStopped, Finish
<1>13. CASE ReturnTimeout
  BY <1>13 DEF ReturnTimeout
<1>14. CASE Reset
  BY <1>14 DEF Reset, InternalResetClient, Delete, Finish
<1>15. CASE ReturnBad
  BY <1>15 DEF ReturnBad, Finish
<1>16. CASE ReturnOk
  BY <1>16 DEF ReturnOk, Finish
<1>17. CASE StartAutoAlive
  BY <1>17 DEF StartAutoAlive, Launch
<1>18. CASE Assign
  BY <1>18 DEF Assign, Finish
<1> QED  BY <1>1, <1>2, <1>3, <1>4, <1>5, <1>6, <1>7, <1>8, <1>9, <1>10, <1>11, <1>12, <1>13, <1>14, <1>15, <1>16, <1>17, <1>18

LEMMA CallKeepsSockets ==
  ASSUME Inv, SocketsInUse, NEW c \in Command, NEW t \in Caller,
         StartClient \/ DisableAutoAlive \/ SendCommand(c) \/ StopClient(t)
  PROVE  SocketsInUse'
<1> USE DEF SocketsInUse, Inv, TypeOK, ReturnsHome
<1>1. CASE StartClient
  BY <1>1 DEF StartClient
<1>2. CASE DisableAutoAlive
  BY <1>2 DEF DisableAutoAlive
<1>3. CASE SendCommand(c)
  BY <1>3 DEF SendCommand, Finish
<1>4. CASE StopClient(t)
  BY <1>4 DEF StopClient, EnterStop, CloseFree
<1> QED  BY <1>1, <1>2, <1>3, <1>4

LEMMA AliveKeepsSockets ==
  ASSUME Inv, SocketsInUse, NEW w \in Worker,
         Create(w) \/ Head(w) \/ Period(w) \/ SendAlive(w) \/ SendAliveFails(w)
           \/ Fail(w) \/ AliveAnswered(w) \/ AlivePollReturns(w) \/ AlivePollFails(w) \/ AliveStopped(w)
           \/ AliveTimeout(w) \/ AliveReset(w)
  PROVE  SocketsInUse'
<1> USE DEF SocketsInUse, Inv, TypeOK, ReturnsHome
<1>1. CASE Create(w)
  BY <1>1 DEF Create
<1>2. CASE Head(w)
  BY <1>2 DEF Head
<1>3. CASE Period(w)
  BY <1>3 DEF Period
<1>4. CASE SendAlive(w)
  BY <1>4 DEF SendAlive
<1>5. CASE SendAliveFails(w)
  BY <1>5 DEF SendAliveFails
<1>6. CASE Fail(w)
  BY <1>6 DEF Fail, EnterStop, MtxFree
<1>7. CASE AliveAnswered(w)
  BY <1>7 DEF AliveAnswered, Received
<1>8. CASE AlivePollReturns(w)
  BY <1>8 DEF AlivePollReturns, Stopped, TimedOut
<1>9. CASE AlivePollFails(w)
  BY <1>9 DEF AlivePollFails, EnterStop
<1>10. CASE AliveStopped(w)
  BY <1>10 DEF AliveStopped
<1>11. CASE AliveTimeout(w)
  BY <1>11 DEF AliveTimeout
<1>12. CASE AliveReset(w)
  BY <1>12 DEF AliveReset, InternalResetClient, Delete
<1> QED  BY <1>1, <1>2, <1>3, <1>4, <1>5, <1>6, <1>7, <1>8, <1>9, <1>10, <1>11, <1>12

LEMMA StopKeepsHolders ==
  ASSUME Inv, OneHolder, NEW t \in Thread,
         StopTest(t) \/ StopClear(t) \/ StopClose(t) \/ StopDrain(t) \/ StopAlive(t)
           \/ StopDelete(t)
  PROVE  OneHolder'
<1> USE DEF OneHolder, InStop, Inv, TypeOK, ReturnsHome
<1>1. CASE StopTest(t)
  BY <1>1 DEF StopTest, Return
<1>2. CASE StopClear(t)
  BY <1>2 DEF StopClear
<1>3. CASE StopClose(t)
  BY <1>3 DEF StopClose
<1>4. CASE StopDrain(t)
  BY <1>4 DEF StopDrain
<1>5. CASE StopAlive(t)
  BY <1>5 DEF StopAlive
<1>6. CASE StopDelete(t)
  BY <1>6 DEF StopDelete, Delete, Return
<1> QED  BY <1>1, <1>2, <1>3, <1>4, <1>5, <1>6

LEMMA UserKeepsHolders ==
  ASSUME Inv, OneHolder, NEW r \in Result, NEW why \in BOOLEAN,
         Start \/ Send \/ SendToNothing \/ SendFails(why) \/ ReturnFailed
           \/ Wait \/ PollAnswered(r) \/ PollReturns(r) \/ PollFails(why) \/ PollCrashes
           \/ StopWaiting \/ ReturnStopped \/ ReturnTimeout \/ Reset \/ ReturnBad
           \/ ReturnOk \/ StartAutoAlive \/ Assign
  PROVE  OneHolder'
<1> USE DEF OneHolder, InStop, Inv, TypeOK, ReturnsHome
<1>1. CASE Start
  BY <1>1 DEF Start, InternalResetClient, Delete
<1>2. CASE Send
  BY <1>2 DEF Send
<1>3. CASE SendToNothing
  BY <1>3 DEF SendToNothing
<1>4. CASE SendFails(why)
  BY <1>4 DEF SendFails, EnterStop
<1>5. CASE ReturnFailed
  BY <1>5 DEF ReturnFailed, Finish
<1>6. CASE Wait
  BY <1>6 DEF Wait
<1>7. CASE PollAnswered(r)
  BY <1>7 DEF PollAnswered, Received
<1>8. CASE PollReturns(r)
  BY <1>8 DEF PollReturns, Stopped, TimedOut
<1>9. CASE PollFails(why)
  BY <1>9 DEF PollFails, EnterStop
<1>10. CASE PollCrashes
  BY <1>10 DEF PollCrashes
<1>11. CASE StopWaiting
  BY <1>11 DEF StopWaiting
<1>12. CASE ReturnStopped
  BY <1>12 DEF ReturnStopped, Finish
<1>13. CASE ReturnTimeout
  BY <1>13 DEF ReturnTimeout
<1>14. CASE Reset
  BY <1>14 DEF Reset, InternalResetClient, Delete, Finish
<1>15. CASE ReturnBad
  BY <1>15 DEF ReturnBad, Finish
<1>16. CASE ReturnOk
  BY <1>16 DEF ReturnOk, Finish
<1>17. CASE StartAutoAlive
  BY <1>17 DEF StartAutoAlive, Launch
<1>18. CASE Assign
  BY <1>18 DEF Assign, Finish
<1> QED  BY <1>1, <1>2, <1>3, <1>4, <1>5, <1>6, <1>7, <1>8, <1>9, <1>10, <1>11, <1>12, <1>13, <1>14, <1>15, <1>16, <1>17, <1>18

LEMMA CallKeepsHolders ==
  ASSUME Inv, OneHolder, NEW c \in Command, NEW t \in Caller,
         StartClient \/ DisableAutoAlive \/ SendCommand(c) \/ StopClient(t)
  PROVE  OneHolder'
<1> USE DEF OneHolder, InStop, Inv, TypeOK, ReturnsHome
<1>1. CASE StartClient
  BY <1>1 DEF StartClient
<1>2. CASE DisableAutoAlive
  BY <1>2 DEF DisableAutoAlive
<1>3. CASE SendCommand(c)
  BY <1>3 DEF SendCommand, Finish
<1>4. CASE StopClient(t)
  BY <1>4 DEF StopClient, EnterStop, CloseFree
<1> QED  BY <1>1, <1>2, <1>3, <1>4

LEMMA AliveKeepsHolders ==
  ASSUME Inv, OneHolder, NEW w \in Worker,
         Create(w) \/ Head(w) \/ Period(w) \/ SendAlive(w) \/ SendAliveFails(w)
           \/ Fail(w) \/ AliveAnswered(w) \/ AlivePollReturns(w) \/ AlivePollFails(w) \/ AliveStopped(w)
           \/ AliveTimeout(w) \/ AliveReset(w)
  PROVE  OneHolder'
<1> USE DEF OneHolder, InStop, Inv, TypeOK, ReturnsHome
<1>1. CASE Create(w)
  BY <1>1 DEF Create
<1>2. CASE Head(w)
  BY <1>2 DEF Head
<1>3. CASE Period(w)
  BY <1>3 DEF Period
<1>4. CASE SendAlive(w)
  BY <1>4 DEF SendAlive
<1>5. CASE SendAliveFails(w)
  BY <1>5 DEF SendAliveFails
<1>6. CASE Fail(w)
  BY <1>6 DEF Fail, EnterStop, MtxFree
<1>7. CASE AliveAnswered(w)
  BY <1>7 DEF AliveAnswered, Received
<1>8. CASE AlivePollReturns(w)
  BY <1>8 DEF AlivePollReturns, Stopped, TimedOut
<1>9. CASE AlivePollFails(w)
  BY <1>9 DEF AlivePollFails, EnterStop
<1>10. CASE AliveStopped(w)
  BY <1>10 DEF AliveStopped
<1>11. CASE AliveTimeout(w)
  BY <1>11 DEF AliveTimeout
<1>12. CASE AliveReset(w)
  BY <1>12 DEF AliveReset, InternalResetClient, Delete
<1> QED  BY <1>1, <1>2, <1>3, <1>4, <1>5, <1>6, <1>7, <1>8, <1>9, <1>10, <1>11, <1>12

(* A step after which a poll that was told to end, or that lost its sockets, *)
(* still is; and a stop that starts to wait for a poll has told it.         *)
Wakes ==
  /\ pc["user"] = "poll" /\ (closeMsg \/ gone) /\ pc'["user"] = "poll" => closeMsg' \/ gone'
  /\ \A s \in Thread : pc[s] = "close" /\ pc'[s] = "drain" /\ pc["user"] = "poll" => closeMsg'

LEMMA StopWakes ==
  ASSUME Inv, SocketsInUse, NEW t \in Thread,
         StopTest(t) \/ StopClear(t) \/ StopClose(t) \/ StopDrain(t) \/ StopAlive(t)
           \/ StopDelete(t)
  PROVE  Wakes
<1> USE DEF SocketsInUse, Wakes, Inv, TypeOK, ReturnsHome
<1>1. CASE StopTest(t)
  BY <1>1 DEF StopTest, Return
<1>2. CASE StopClear(t)
  BY <1>2 DEF StopClear
<1>3. CASE StopClose(t)
  BY <1>3 DEF StopClose
<1>4. CASE StopDrain(t)
  BY <1>4 DEF StopDrain
<1>5. CASE StopAlive(t)
  BY <1>5 DEF StopAlive
<1>6. CASE StopDelete(t)
  BY <1>6 DEF StopDelete, Delete, Return
<1> QED  BY <1>1, <1>2, <1>3, <1>4, <1>5, <1>6

LEMMA UserWakes ==
  ASSUME Inv, SocketsInUse, NEW r \in Result, NEW why \in BOOLEAN,
         Start \/ Send \/ SendToNothing \/ SendFails(why) \/ ReturnFailed
           \/ Wait \/ PollAnswered(r) \/ PollReturns(r) \/ PollFails(why) \/ PollCrashes
           \/ StopWaiting \/ ReturnStopped \/ ReturnTimeout \/ Reset \/ ReturnBad
           \/ ReturnOk \/ StartAutoAlive \/ Assign
  PROVE  Wakes
<1> USE DEF SocketsInUse, Wakes, Inv, TypeOK, ReturnsHome
<1>1. CASE Start
  BY <1>1 DEF Start, InternalResetClient, Delete
<1>2. CASE Send
  BY <1>2 DEF Send
<1>3. CASE SendToNothing
  BY <1>3 DEF SendToNothing
<1>4. CASE SendFails(why)
  BY <1>4 DEF SendFails, EnterStop
<1>5. CASE ReturnFailed
  BY <1>5 DEF ReturnFailed, Finish
<1>6. CASE Wait
  BY <1>6 DEF Wait
<1>7. CASE PollAnswered(r)
  BY <1>7 DEF PollAnswered, Received
<1>8. CASE PollReturns(r)
  BY <1>8 DEF PollReturns, Stopped, TimedOut
<1>9. CASE PollFails(why)
  BY <1>9 DEF PollFails, EnterStop
<1>10. CASE PollCrashes
  BY <1>10 DEF PollCrashes
<1>11. CASE StopWaiting
  BY <1>11 DEF StopWaiting
<1>12. CASE ReturnStopped
  BY <1>12 DEF ReturnStopped, Finish
<1>13. CASE ReturnTimeout
  BY <1>13 DEF ReturnTimeout
<1>14. CASE Reset
  BY <1>14 DEF Reset, InternalResetClient, Delete, Finish
<1>15. CASE ReturnBad
  BY <1>15 DEF ReturnBad, Finish
<1>16. CASE ReturnOk
  BY <1>16 DEF ReturnOk, Finish
<1>17. CASE StartAutoAlive
  BY <1>17 DEF StartAutoAlive, Launch
<1>18. CASE Assign
  BY <1>18 DEF Assign, Finish
<1> QED  BY <1>1, <1>2, <1>3, <1>4, <1>5, <1>6, <1>7, <1>8, <1>9, <1>10, <1>11, <1>12, <1>13, <1>14, <1>15, <1>16, <1>17, <1>18

LEMMA CallWakes ==
  ASSUME Inv, SocketsInUse, NEW c \in Command, NEW t \in Caller,
         StartClient \/ DisableAutoAlive \/ SendCommand(c) \/ StopClient(t)
  PROVE  Wakes
<1> USE DEF SocketsInUse, Wakes, Inv, TypeOK, ReturnsHome
<1>1. CASE StartClient
  BY <1>1 DEF StartClient
<1>2. CASE DisableAutoAlive
  BY <1>2 DEF DisableAutoAlive
<1>3. CASE SendCommand(c)
  BY <1>3 DEF SendCommand, Finish
<1>4. CASE StopClient(t)
  BY <1>4 DEF StopClient, EnterStop
<1> QED  BY <1>1, <1>2, <1>3, <1>4

LEMMA AliveWakes ==
  ASSUME Inv, SocketsInUse, NEW w \in Worker,
         Create(w) \/ Head(w) \/ Period(w) \/ SendAlive(w) \/ SendAliveFails(w)
           \/ Fail(w) \/ AliveAnswered(w) \/ AlivePollReturns(w) \/ AlivePollFails(w) \/ AliveStopped(w)
           \/ AliveTimeout(w) \/ AliveReset(w)
  PROVE  Wakes
<1> USE DEF SocketsInUse, Wakes, Inv, TypeOK, ReturnsHome
<1>1. CASE Create(w)
  BY <1>1 DEF Create
<1>2. CASE Head(w)
  BY <1>2 DEF Head
<1>3. CASE Period(w)
  BY <1>3 DEF Period
<1>4. CASE SendAlive(w)
  BY <1>4 DEF SendAlive
<1>5. CASE SendAliveFails(w)
  BY <1>5 DEF SendAliveFails
<1>6. CASE Fail(w)
  BY <1>6 DEF Fail, EnterStop
<1>7. CASE AliveAnswered(w)
  BY <1>7 DEF AliveAnswered, Received
<1>8. CASE AlivePollReturns(w)
  BY <1>8 DEF AlivePollReturns, Stopped, TimedOut
<1>9. CASE AlivePollFails(w)
  BY <1>9 DEF AlivePollFails, EnterStop
<1>10. CASE AliveStopped(w)
  BY <1>10 DEF AliveStopped
<1>11. CASE AliveTimeout(w)
  BY <1>11 DEF AliveTimeout
<1>12. CASE AliveReset(w)
  BY <1>12 DEF AliveReset, InternalResetClient, Delete
<1> QED  BY <1>1, <1>2, <1>3, <1>4, <1>5, <1>6, <1>7, <1>8, <1>9, <1>10, <1>11, <1>12

(* What holds of the steps of every thread holds of Next.                   *)
LEMMA NextKeeps ==
  Inv /\ SocketsInUse /\ OneHolder /\ [Next]_vars => SocketsInUse' /\ OneHolder' /\ Wakes
<1> SUFFICES ASSUME Inv, SocketsInUse, OneHolder, [Next]_vars
             PROVE  SocketsInUse' /\ OneHolder' /\ Wakes
  OBVIOUS
<1>1. ASSUME NEW t \in Thread, InternalStopClient(t) PROVE SocketsInUse' /\ OneHolder' /\ Wakes
  BY <1>1, StopKeepsSockets, StopKeepsHolders, StopWakes DEF InternalStopClient
<1>2. CASE UserStep
  <2>1. owed["user"] \in BOOLEAN /\ gone \in BOOLEAN
    BY DEF Inv, TypeOK
  <2> QED  BY <1>1, <1>2, <2>1, UserKeepsSockets, UserKeepsHolders, UserWakes DEF UserStep
<1>3. CASE UserCall
  BY <1>3, CallKeepsSockets, CallKeepsHolders, CallWakes DEF UserCall
<1>4. CASE OtherStep
  BY <1>1, <1>4 DEF OtherStep
<1>5. ASSUME NEW w \in Worker, AliveStep(w) PROVE SocketsInUse' /\ OneHolder' /\ Wakes
  BY <1>1, <1>5, AliveKeepsSockets, AliveKeepsHolders, AliveWakes DEF AliveStep
<1>6. CASE Answer
  BY <1>6, UserKeepsSockets, UserKeepsHolders, UserWakes,
     AliveKeepsSockets, AliveKeepsHolders, AliveWakes DEF Answer
<1>7. CASE Fault
  BY <1>7, ClientAssumption, UserKeepsSockets, UserKeepsHolders, UserWakes,
     AliveKeepsSockets, AliveKeepsHolders, AliveWakes DEF Fault
<1>8. CASE UNCHANGED vars
  BY <1>8 DEF SocketsInUse, OneHolder, InStop, Wakes, vars
<1> QED  BY <1>2, <1>3, <1>4, <1>5, <1>6, <1>7, <1>8 DEF Next

LEMMA SocketsInvariance == Spec => [](Inv /\ SocketsInUse /\ OneHolder)
<1>1. Init => SocketsInUse /\ OneHolder
  BY DEF Init, SocketsInUse, OneHolder, InStop
<1> QED  BY <1>1, InitInv, NextInv, NextKeeps, PTL DEF Spec

(* The sockets change under a thread that uses them, because nothing but    *)
(* their replacement is guarded: still no close message outlives its pair,  *)
(* a poll that lost its sockets is known to have, and no REQ socket that is *)
(* new, of the user or of a worker, owes an answer.                         *)
THEOREM SocketsAreInUse == Spec => []SocketsInUse
  BY SocketsInvariance, PTL

(* client_close_mtx_ and mtx_ have one holder each.                         *)
THEOREM OneHolderEach == Spec => []OneHolder
  BY SocketsInvariance, PTL

(* What StopClientReturns and CommandReturns rest on: once a stop waits, the *)
(* poll it waits for has been told, and no deletion or replacement of the   *)
(* sockets by another thread takes that back before the poll has returned.  *)
THEOREM StopWakesThePoll == Spec => [][Wakes]_vars
<1>1. Inv /\ SocketsInUse /\ OneHolder /\ [Next]_vars => [Wakes]_vars
  BY NextKeeps
<1> QED  BY <1>1, SocketsInvariance, PTL DEF Spec

(* Who waits with a mutex: a stop, for a user in its poll or just out of it, *)
(* where it needs none; and the user waits for an old worker only when      *)
(* nobody has to wait for the user.                                         *)
NoCircularWait ==
  /\ \A t \in Thread : pc[t] = "drain" /\ waiting => t # "user" /\ pc["user"] \in {"poll", "received", "crashed"}
  /\ pc["user"] = "assign" => ~waiting

(* No two threads of the client wait for each other.                        *)
THEOREM NoTwoWait == Spec => []NoCircularWait
<1>1. Inv => NoCircularWait
  BY DEF Inv, TypeOK, WaitingInPoll, NoSelfWait, NoCircularWait
<1> QED  BY <1>1, Invariant, PTL
=============================================================================
