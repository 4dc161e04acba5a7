---------------------------- MODULE CommandClient ----------------------------
(***************************************************************************)
(* CommandClientBase: the user that sends commands, another thread that    *)
(* may stop the client, and the worker that sends alive messages, before a *)
(* server of which only the answers and the silence are seen.              *)
(*                                                                         *)
(* Nothing is guarded by one mutex: mtx_ covers the replacement of the     *)
(* sockets by internalResetClient but neither their use nor their deletion *)
(* by internalStopClient, client_close_mtx_ only the callers of stopClient.*)
(* stopAutoAlive does not wait for the worker (it sends first on a REP     *)
(* socket, which throws), so a second worker may be launched while the     *)
(* first runs: there are places for a new and an old worker.               *)
(***************************************************************************)
EXTENDS Naturals

CONSTANTS
  Stopper,    \* whether a thread other than the user's calls stopClient
  ZmqErrors   \* whether sockets may fail to be created, to send and to poll

ASSUME ClientAssumption == Stopper \in BOOLEAN /\ ZmqErrors \in BOOLEAN

VARIABLES
  working,    \* flag_client_working_
  connected,  \* flag_server_connected_
  autoalive,  \* flag_autoalive_enabled_
  waiting,    \* flag_waiting_cmd_reply_
  sockets,    \* the client's three sockets exist
  closeMsg,   \* a close message waits in recv_close_socket_
  gone,       \* the sockets the user polls have been deleted
  owed,       \* by thread: its REQ socket has sent and not received
  cmd, res,   \* the command and reply in the user's sendCommand
  pc,         \* where each thread is
  ret         \* where each thread goes on when internalStopClient returns

vars == <<working, connected, autoalive, waiting, sockets, closeMsg, gone, owed,
          cmd, res, pc, ret>>

flags == <<working, connected, autoalive, waiting>>
pair == <<sockets, closeMsg, gone>>
call == <<cmd, res>>

(* The worker that auto_alive_future_ stands for, or is to stand for, and   *)
(* the one it stood for before.                                             *)
Worker == {"new", "old"}
Caller == {"user", "other"}
Thread == Caller \cup Worker

Command == {"connect", "connectAuto", "disconnect", "other"}

(* What a server's reply can say, as far as the client tells it apart, and  *)
(* what recvFromSocket says by itself.                                      *)
Reply == {"COMMAND_OK", "CLIENT_NOT_CONNECTED", "BAD"}
Result == Reply \cup {"CLIENT_STOPPED", "TIMEOUT_REACHED", "INTERNAL_ZMQ_ERROR"}

Stopping == {"stop", "clear", "close", "drain", "alive", "delete"}
UserAt == {"idle", "start", "send", "failed", "sent", "poll", "received", "result", "reset",
           "assign", "crashed"} \cup Stopping
WorkerAt == {"none", "create", "first", "loop", "period", "send", "sendFailed",
             "createFailed", "poll", "stopped", "timeout", "reset", "crashed"} \cup Stopping

Running == \A t \in Thread : pc[t] # "crashed"

(* client_close_mtx_ is held in stopClient, mtx_ by a worker that stops the *)
(* client because it could not be created or could not send.                *)
CloseFree == \A t \in Caller : ~(pc[t] \in Stopping /\ ret[t] = "idle")
MtxFree == \A w \in Worker : ~(pc[w] \in Stopping /\ ret[w] = "none")

(* A crash of one thread ends the program.                                  *)
Goto(t, l) == Running /\ pc' = [pc EXCEPT ![t] = l]

Init == /\ working = FALSE /\ connected = FALSE /\ autoalive = FALSE /\ waiting = FALSE
        /\ sockets = FALSE /\ closeMsg = FALSE /\ gone = FALSE
        /\ owed = [t \in Thread |-> FALSE]
        /\ cmd = "none" /\ res = "none"
        /\ pc = [t \in Thread |-> IF t \in Caller THEN "idle" ELSE "none"]
        /\ ret = [t \in Thread |-> "idle"]
-----------------------------------------------------------------------------
(* The sockets.                                                             *)

(* deleteSockets, and with them what they held.  A poll goes on with the    *)
(* pointers it began with.                                                  *)
Delete == /\ gone' = (gone \/ (sockets /\ pc["user"] = "poll"))
          /\ closeMsg' = FALSE
          /\ owed' = [owed EXCEPT !["user"] = FALSE]

(* internalResetClient, under mtx_: delete and create, or fail to create.   *)
InternalResetClient(t, next) ==
  /\ MtxFree /\ Delete
  /\ \/ working' = TRUE /\ sockets' = TRUE
     \/ ZmqErrors /\ working' = FALSE /\ sockets' = FALSE
  /\ Goto(t, next)
  /\ UNCHANGED <<connected, autoalive, waiting, ret>>
-----------------------------------------------------------------------------
(* internalStopClient, run by any of the threads.                           *)

EnterStop(t, back) == Goto(t, "stop") /\ ret' = [ret EXCEPT ![t] = back]

(* Mutant: every stop returns as stopClient does.                           *)
ReturnToUser(t) == Goto(t, "idle") /\ ret' = [ret EXCEPT ![t] = "idle"]

Return(t) == Goto(t, ret[t]) /\ ret' = [ret EXCEPT ![t] = "idle"]

(* The flag is tested and cleared in two steps.                             *)
StopTest(t) == /\ pc[t] = "stop"
               /\ IF working THEN Goto(t, "clear") /\ UNCHANGED ret ELSE Return(t)
               /\ UNCHANGED <<flags, pair, owed, call>>

StopClear(t) == /\ pc[t] = "clear" /\ Goto(t, "close")
                /\ working' = FALSE
                /\ UNCHANGED <<connected, autoalive, waiting, pair, owed, call, ret>>

(* A user that waits for a reply is sent a close message; the socket for it *)
(* may have been deleted by another thread.                                 *)
StopClose(t) ==
  /\ pc[t] = "close"
  /\ \/ waiting /\ sockets /\ closeMsg' = TRUE /\ Goto(t, "drain")
     \/ waiting /\ ~sockets /\ Goto(t, "crashed") /\ UNCHANGED closeMsg
     \/ ~waiting /\ Goto(t, "alive") /\ UNCHANGED closeMsg
  /\ UNCHANGED <<flags, sockets, gone, owed, call, ret>>

StopDrain(t) == /\ pc[t] = "drain" /\ ~waiting /\ Goto(t, "alive")
                /\ UNCHANGED <<flags, pair, owed, call, ret>>

(* stopAutoAlive: the worker is told and not awaited.                       *)
StopAlive(t) == /\ pc[t] = "alive" /\ Goto(t, "delete")
                /\ autoalive' = FALSE
                /\ UNCHANGED <<working, connected, waiting, pair, owed, call, ret>>

(* Mutant: the pair of close sockets is kept.                               *)
StopDeleteKeepsPair(t) ==
  /\ pc[t] = "delete" /\ Return(t)
  /\ gone' = (gone \/ (sockets /\ pc["user"] = "poll"))
  /\ owed' = [owed EXCEPT !["user"] = FALSE]
  /\ sockets' = FALSE
  /\ UNCHANGED <<closeMsg, flags, call>>

StopDelete(t) == /\ pc[t] = "delete" /\ Return(t)
                 /\ Delete /\ sockets' = FALSE
                 /\ UNCHANGED <<flags, call>>

InternalStopClient(t) == \/ StopTest(t) \/ StopClear(t) \/ StopClose(t)
                         \/ StopDrain(t) \/ StopAlive(t) \/ StopDelete(t)
-----------------------------------------------------------------------------
(* recvFromSocket.  A poll ends with a reply, with a close message, or at   *)
(* its timeout; it then looks at the flag before anything else.             *)

Told(t) == ~working \/ (t = "user" /\ closeMsg)

(* A fresh REQ socket, or one that got its reply, receives nothing.         *)
Received(t, r) == /\ owed[t] /\ ~Told(t) /\ r \in Reply
                  /\ owed' = [owed EXCEPT ![t] = FALSE]

Stopped(t) == Told(t) /\ UNCHANGED owed

(* Mutant: a poll without a timeout.                                        *)
NeverExpires(t) == Told(t) /\ UNCHANGED owed

TimedOut(t) == ~Told(t) /\ UNCHANGED owed
-----------------------------------------------------------------------------
(* The user.                                                                *)

(* sendCommand or startClient returns.                                      *)
Finish == Goto("user", "idle") /\ cmd' = "none" /\ res' = "none"

(* startClient with no socket, or resetClient.                              *)
StartClient == /\ pc["user"] = "idle" /\ Goto("user", "start")
               /\ UNCHANGED <<flags, pair, owed, call, ret>>

Start == pc["user"] = "start" /\ InternalResetClient("user", "idle") /\ UNCHANGED call

StopClient(t) == /\ pc[t] = "idle" /\ working /\ CloseFree
                 /\ t = "other" => Stopper
                 /\ EnterStop(t, "idle")
                 /\ UNCHANGED <<flags, pair, owed, call>>

DisableAutoAlive == /\ Running /\ pc["user"] = "idle" /\ MtxFree
                    /\ autoalive' = FALSE
                    /\ UNCHANGED <<working, connected, waiting, pair, owed, call, pc, ret>>

(* sendCommand, which returns CLIENT_STOPPED without sockets.  doDisconnect *)
(* begins with stopAutoAlive in any case.                                   *)
SendCommand(c) ==
  /\ pc["user"] = "idle"
  /\ sockets \/ c = "disconnect"
  /\ autoalive' = (autoalive /\ c # "disconnect")
  /\ IF sockets THEN Goto("user", "send") /\ cmd' = c /\ UNCHANGED res ELSE Finish
  /\ UNCHANGED <<working, connected, waiting, pair, owed, ret>>

(* The socket may have been deleted since it was looked at.                 *)
Send == /\ pc["user"] = "send" /\ sockets /\ ~owed["user"]
        /\ owed' = [owed EXCEPT !["user"] = TRUE] /\ Goto("user", "sent")
        /\ UNCHANGED <<flags, pair, call, ret>>

SendToNothing == /\ pc["user"] \in {"send", "sent"} /\ ~sockets
                 /\ Goto("user", "crashed")
                 /\ UNCHANGED <<flags, pair, owed, call, ret>>

(* A REQ socket that waits for a reply refuses to send, or ZeroMQ fails.     *)
SendFails(why) == /\ pc["user"] = "send" /\ sockets /\ why
                  /\ EnterStop("user", "failed")
                  /\ UNCHANGED <<flags, pair, owed, call>>

ReturnFailed == /\ pc["user"] = "failed" /\ Finish
                /\ UNCHANGED <<flags, pair, owed, ret>>

Wait == /\ pc["user"] = "sent" /\ sockets /\ Goto("user", "poll")
        /\ waiting' = TRUE
        /\ UNCHANGED <<working, connected, autoalive, pair, owed, call, ret>>

PollAnswered(r) == /\ pc["user"] = "poll" /\ ~gone /\ Goto("user", "received")
                   /\ Received("user", r) /\ res' = r
                   /\ UNCHANGED <<flags, pair, cmd, ret>>

PollReturns(r) == /\ pc["user"] = "poll" /\ ~gone /\ Goto("user", "received")
                  /\ \/ r = "CLIENT_STOPPED" /\ Stopped("user")
                     \/ r = "TIMEOUT_REACHED" /\ TimedOut("user")
                  /\ res' = r
                  /\ UNCHANGED <<flags, pair, cmd, ret>>

(* Mutant: the user that stops the client seems to wait for a reply still.  *)
PollFailsWaiting(why) == /\ pc["user"] = "poll" /\ why
                         /\ gone' = FALSE /\ res' = "INTERNAL_ZMQ_ERROR"
                         /\ EnterStop("user", "result")
                         /\ UNCHANGED <<flags, sockets, closeMsg, owed, cmd>>

(* A poll of deleted sockets throws, or worse.                              *)
PollFails(why) ==
  /\ pc["user"] = "poll" /\ why
  /\ waiting' = FALSE /\ gone' = FALSE /\ res' = "INTERNAL_ZMQ_ERROR"
  /\ EnterStop("user", "result")
  /\ UNCHANGED <<working, connected, autoalive, sockets, closeMsg, owed, cmd>>

PollCrashes == /\ pc["user"] = "poll" /\ gone /\ Goto("user", "crashed")
               /\ UNCHANGED <<flags, pair, owed, call, ret>>

(* Mutant: the flag is left set.                                            *)
KeepWaiting == /\ pc["user"] = "received" /\ Goto("user", "result")
               /\ UNCHANGED <<flags, pair, owed, call, ret>>

StopWaiting == /\ pc["user"] = "received" /\ Goto("user", "result")
               /\ waiting' = FALSE
               /\ UNCHANGED <<working, connected, autoalive, pair, owed, call, ret>>

(* The results that end the command, and with it the alive messages.        *)
ReturnStopped == /\ pc["user"] = "result" /\ Finish
                 /\ res \in {"CLIENT_STOPPED", "INTERNAL_ZMQ_ERROR"}
                 /\ autoalive' = FALSE
                 /\ UNCHANGED <<working, connected, waiting, pair, owed, ret>>

ReturnTimeout == /\ pc["user"] = "result" /\ res = "TIMEOUT_REACHED"
                 /\ connected' = FALSE /\ Goto("user", "reset")
                 /\ UNCHANGED <<working, autoalive, waiting, pair, owed, call, ret>>

Reset == pc["user"] = "reset" /\ InternalResetClient("user", "idle") /\ Finish

(* Replies of the server.  mtx_ is taken for the time of the last one.      *)
ReturnBad == /\ pc["user"] = "result" /\ res \in {"BAD", "CLIENT_NOT_CONNECTED"} /\ MtxFree
             /\ connected' = (connected /\ res = "BAD") /\ Finish
             /\ UNCHANGED <<working, autoalive, waiting, pair, owed, ret>>

(* doConnect, doDisconnect and the others after COMMAND_OK.                 *)
ReturnOk == /\ pc["user"] = "result" /\ res = "COMMAND_OK" /\ MtxFree
            /\ ~(cmd = "connectAuto" /\ ~autoalive)
            /\ connected' = CASE cmd \in {"connect", "connectAuto"} -> TRUE
                              [] cmd = "disconnect" -> FALSE
                              [] OTHER -> connected
            /\ Finish
            /\ UNCHANGED <<working, autoalive, waiting, pair, owed, ret>>

Launch(f, v) == [f EXCEPT !["new"] = v, !["old"] = f["new"]]

(* startAutoAlive launches a worker and assigns its future.                 *)
StartAutoAlive == /\ Running /\ pc["user"] = "result" /\ res = "COMMAND_OK" /\ MtxFree
                  /\ cmd = "connectAuto" /\ ~autoalive
                  /\ autoalive' = TRUE
                  /\ pc' = [Launch(pc, "create") EXCEPT !["user"] = "assign"]
                  /\ owed' = Launch(owed, FALSE) /\ ret' = Launch(ret, "idle")
                  /\ UNCHANGED <<working, connected, waiting, pair, call>>

(* Mutant: the assignment does not wait.                                    *)
AssignAtOnce == /\ pc["user"] = "assign" /\ Finish
                /\ connected' = TRUE
                /\ UNCHANGED <<working, autoalive, waiting, pair, owed, ret>>

(* The assignment releases the future of the last worker, which blocks      *)
(* until that worker has ended.  doConnect sets the flag after it.          *)
Assign == /\ pc["user"] = "assign"
          /\ pc["old"] = "none"
          /\ connected' = TRUE /\ Finish
          /\ UNCHANGED <<working, autoalive, waiting, pair, owed, ret>>
-----------------------------------------------------------------------------
(* aliveWorker.                                                             *)

Create(w) == /\ pc[w] = "create"
             /\ \/ Goto(w, "first")
                \/ ZmqErrors /\ Goto(w, "createFailed")
             /\ UNCHANGED <<flags, pair, owed, call, ret>>

(* Mutant: the flag is not looked at again.                                 *)
HeadForEver(w) == /\ pc[w] \in {"first", "loop"}
                  /\ Goto(w, IF pc[w] = "first" THEN "send" ELSE "period")
                  /\ UNCHANGED <<flags, pair, owed, call, ret>>

(* The head of the loop, and its end with the deletion of the worker's own  *)
(* sockets.  The first alive message is sent without waiting.               *)
Head(w) == /\ pc[w] \in {"first", "loop"}
           /\ IF autoalive
                THEN Goto(w, IF pc[w] = "first" THEN "send" ELSE "period") /\ UNCHANGED owed
                ELSE Goto(w, "none") /\ owed' = [owed EXCEPT ![w] = FALSE]
           /\ UNCHANGED <<flags, pair, call, ret>>

(* The wait for the period ends at its timeout, or by a notification, which *)
(* may come of itself and may be missed.                                    *)
Period(w) == /\ pc[w] = "period" /\ \E l \in {"loop", "send"} : Goto(w, l)
             /\ UNCHANGED <<flags, pair, owed, call, ret>>

SendAlive(w) == /\ pc[w] = "send"
                /\ IF working /\ ~owed[w]
                     THEN Goto(w, "poll") /\ owed' = [owed EXCEPT ![w] = TRUE]
                     ELSE Goto(w, IF working THEN "sendFailed" ELSE "loop") /\ UNCHANGED owed
                /\ UNCHANGED <<flags, pair, call, ret>>

SendAliveFails(w) == /\ pc[w] = "send" /\ working /\ ZmqErrors /\ Goto(w, "sendFailed")
                     /\ UNCHANGED <<flags, pair, owed, call, ret>>

(* mtx_ is taken and the client stopped with it.                            *)
Fail(w) == /\ pc[w] \in {"createFailed", "sendFailed"} /\ MtxFree
           /\ connected' = (connected /\ pc[w] = "createFailed")
           /\ autoalive' = FALSE /\ EnterStop(w, "none")
           /\ owed' = [owed EXCEPT ![w] = FALSE]
           /\ UNCHANGED <<working, waiting, pair, call>>

AliveAnswered(w) == /\ pc[w] = "poll" /\ Goto(w, "loop")
                    /\ \E r \in Reply : Received(w, r)
                    /\ UNCHANGED <<flags, pair, call, ret>>

AlivePollReturns(w) == /\ pc[w] = "poll"
                       /\ \/ Stopped(w) /\ Goto(w, "stopped")
                          \/ TimedOut(w) /\ Goto(w, "timeout")
                       /\ UNCHANGED <<flags, pair, call, ret>>

AlivePollFails(w) == /\ pc[w] = "poll" /\ ZmqErrors /\ EnterStop(w, "loop")
                     /\ waiting' = FALSE
                     /\ UNCHANGED <<working, connected, autoalive, pair, owed, call>>

AliveStopped(w) == /\ pc[w] = "stopped" /\ Goto(w, "loop") /\ autoalive' = FALSE
                   /\ UNCHANGED <<working, connected, waiting, pair, owed, call, ret>>

AliveTimeout(w) == /\ pc[w] = "timeout" /\ Goto(w, "reset")
                   /\ connected' = FALSE /\ autoalive' = FALSE
                   /\ UNCHANGED <<working, waiting, pair, owed, call, ret>>

AliveReset(w) == pc[w] = "reset" /\ InternalResetClient(w, "loop") /\ UNCHANGED call
-----------------------------------------------------------------------------
(* What the threads do by themselves.                                       *)
UserStep == \/ Start \/ Send \/ SendToNothing \/ SendFails(owed["user"]) \/ ReturnFailed
            \/ Wait \/ \E r \in Result : PollReturns(r)
            \/ PollFails(gone) \/ PollCrashes \/ StopWaiting
            \/ ReturnStopped \/ ReturnTimeout \/ Reset \/ ReturnBad \/ ReturnOk
            \/ StartAutoAlive \/ Assign \/ InternalStopClient("user")

OtherStep == InternalStopClient("other")

AliveStep(w) == \/ Create(w) \/ Head(w) \/ Period(w) \/ SendAlive(w) \/ Fail(w)
                \/ AlivePollReturns(w) \/ AliveStopped(w) \/ AliveTimeout(w) \/ AliveReset(w)
                \/ InternalStopClient(w)

(* What the program decides, the server answers and ZeroMQ fails to do.     *)
UserCall == \/ StartClient \/ DisableAutoAlive
            \/ \E c \in Command : SendCommand(c)
            \/ \E t \in Caller : StopClient(t)

Answer == (\E r \in Reply : PollAnswered(r)) \/ \E w \in Worker : AliveAnswered(w)

Fault == \/ SendFails(ZmqErrors) \/ PollFails(ZmqErrors)
         \/ \E w \in Worker : SendAliveFails(w) \/ AlivePollFails(w)

Next == UserStep \/ OtherStep \/ (\E w \in Worker : AliveStep(w)) \/ UserCall \/ Answer \/ Fault

Spec == Init /\ [][Next]_vars

(* Every thread runs and finishes what it began.  Nobody is obliged to call *)
(* or to answer, and nothing has to fail.                                   *)
Fairness == /\ WF_vars(UserStep) /\ WF_vars(OtherStep)
            /\ \A w \in Worker : WF_vars(AliveStep(w))

FairSpec == Spec /\ Fairness
-----------------------------------------------------------------------------
(* Properties.                                                              *)

(* Every variable holds a value the C++ object and its threads can hold.    *)
TypeOK == /\ {working, connected, autoalive, waiting, sockets, closeMsg, gone} \subseteq BOOLEAN
          /\ owed \in [Thread -> BOOLEAN]
          /\ cmd \in Command \cup {"none"} /\ res \in Result \cup {"none"}
          /\ pc \in [Thread -> UserAt \cup WorkerAt]
          /\ \A t \in Caller : pc[t] \in UserAt
          /\ \A w \in Worker : pc[w] \in WorkerAt
          /\ ret \in [Thread -> {"idle", "failed", "result", "none", "loop"}]

(* Two workers run only while startAutoAlive waits for the first to end,    *)
(* although stopAutoAlive waits for none.                                   *)
OneWorker == pc["old"] # "none" => pc["user"] = "assign"

(* A user that stops the client itself, its poll having failed, does not    *)
(* wait for its own wait to end, nor does stopClient when it calls that.    *)
NoSelfWait == pc["user"] # "drain"

(* The close message of one stop never ends a command of the next session:  *)
(* it is gone with its sockets when the stop returns.                       *)
CloseMsgIsFresh == closeMsg => \E t \in Thread : pc[t] \in {"drain", "alive", "delete"}

(* A command sent returns, whatever the server and the other threads do,    *)
(* or gets as far as the launch of the alive worker.                        *)
CommandReturns == pc["user"] = "send" ~> (pc["user"] \in {"idle", "assign"} \/ ~Running)

(* A worker told to end does end, though nobody waits for it, unless it is  *)
(* stopping the client itself and the user keeps on sending meanwhile.      *)
WorkersEnd == ~autoalive ~> \/ autoalive \/ ~Running
                            \/ \A w \in Worker : pc[w] \in {"none", "drain"}

(* A stop made while the user waits for a reply ends that wait and returns, *)
(* unless the user sends again before the stop has seen the wait end.       *)
StopClientReturns ==
  pc["other"] = "drain" ~> (pc["other"] = "idle" \/ pc["user"] = "send" \/ ~Running)
-----------------------------------------------------------------------------
(* What the documentation says and the code does not do.                    *)

(* disableAutoAlive (command_client_base.h): "For enabling the process      *)
(* again, it is necessary to disconnect and connect again."  Then doConnect *)
(* must return.                                                             *)
ReconnectReturns == pc["user"] = "assign" ~> (pc["user"] = "idle" \/ ~Running)
=============================================================================
