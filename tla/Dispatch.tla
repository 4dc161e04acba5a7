------------------------------ MODULE Dispatch -------------------------------
(***************************************************************************)
(* From a message to the callback registered for it: CallbackHandler        *)
(* (callback_handler.h), whose mutex is held while a callback runs, and    *)
(* what the worker of a server (clbk_command_server_base.h) or of a        *)
(* subscriber (clbk_subscriber_base.h) does with a request or a published  *)
(* message, while other threads register and remove callbacks and delete   *)
(* the objects these belong to.                                            *)
(***************************************************************************)
EXTENDS Naturals

CONSTANTS
  User,         \* the other threads
  Id,           \* custom commands, or topics
  Inputs,       \* those whose callback takes parameters
  Object,       \* the objects whose methods are the callbacks
  NoObject,
  Payload,      \* the parameters or data of a message
  Good,         \* those that deserialise as the callback's arguments
  NoData,
  MaxOps        \* bound: how many calls the users make

ASSUME DispatchAssumption ==
  /\ Id # {} /\ Inputs \subseteq Id /\ Good \subseteq Payload
  /\ NoObject \notin Object /\ NoData \notin Payload
  /\ MaxOps \in Nat

VARIABLES
  side,         \* "server" or "subscriber"
  owner, fits,  \* callback_map_: the object, and whether the any_cast succeeds
  mtx,          \* whether a running callback holds the mutex of CallbackHandler
  functions,    \* process_fnc_map_: who has a process function
  errorClbk,    \* error_callback_
  alive,        \* the objects that exist
  upc, uid,     \* what a user is in the middle of, and for which id
  ops,          \* how many calls the users have made
  wpc,          \* where the worker is
  received,     \* the message that is being processed, as it came
  msg,          \* the request, or the PublishedMessage, it is kept in
  result,       \* reply.result, or what the error callback is told
  callee,       \* the object whose callback runs
  given         \* history: the data a callback that returned was given, if one has

registry == <<owner, fits, mtx, functions, errorClbk>>
users == <<alive, upc, uid, ops>>
worker == <<wpc, received, msg, result, callee, given>>
vars == <<side, registry, users, worker>>

Message == [id : Id, publisher : {"right", "wrong"}, parts : {3, 4, 5}, data : Payload \cup {NoData}]
Content == [id : Id, publisher : {"right", "wrong"}, data : Payload \cup {NoData}]
ContentOf(m) == [id |-> m.id, publisher |-> m.publisher, data |-> m.data]

(* A request, and what prepareMessage of a publisher makes: three parts     *)
(* without data, four with.                                                *)
Ours(m) == m.parts = IF m.data = NoData THEN 3 ELSE 4

Init ==
  /\ side \in {"server", "subscriber"}
  /\ owner = [i \in Id |-> NoObject] /\ fits = [i \in Id |-> FALSE]
  /\ mtx = FALSE /\ functions = {} /\ errorClbk = "none"
  /\ alive = Object
  /\ upc = [u \in User |-> "idle"] /\ uid = [u \in User |-> CHOOSE i \in Id : TRUE] /\ ops = 0
  /\ wpc = "idle" /\ result = "OK" /\ callee = NoObject /\ given = {}
  /\ received = {} /\ msg \in {m \in Content : m.publisher = "right" /\ m.data = NoData}

Running == wpc # "crashed"
-----------------------------------------------------------------------------
(* CallbackHandler, and who registers in it. *)

Begin(u, at) ==
  /\ Running /\ upc[u] = "idle" /\ ops < MaxOps
  /\ ops' = ops + 1
  /\ upc' = [upc EXCEPT ![u] = at]

(* registerCallback, alone or in registerCbAndReqProcFunc, which has the   *)
(* process function to enter yet.                                          *)
RegisterCallback(u, i, o, f) ==
  /\ \/ Begin(u, "idle") /\ UNCHANGED uid
     \/ Begin(u, "insert") /\ uid' = [uid EXCEPT ![u] = i]
  /\ ~mtx /\ o \in alive
  /\ owner' = [owner EXCEPT ![i] = o]
  /\ fits' = [fits EXCEPT ![i] = f]
  /\ UNCHANGED <<side, mtx, functions, errorClbk, alive, worker>>

(* registerReqProcFunc, which no mutex guards.                             *)
InsertFunction(u) ==
  /\ Running
  /\ \/ upc[u] = "insert" /\ upc' = [upc EXCEPT ![u] = "inserting"] /\ UNCHANGED functions
     \/ /\ upc[u] = "inserting" /\ upc' = [upc EXCEPT ![u] = "idle"]
        /\ functions' = functions \cup {uid[u]}
  /\ UNCHANGED <<side, owner, fits, mtx, errorClbk, alive, uid, ops, worker>>

(* Neither does one guard setErrorCallback.                                *)
SetErrorCallback(u) ==
  /\ \/ side = "subscriber" /\ Begin(u, "setting") /\ errorClbk' = "torn"
     \/ /\ Running /\ upc[u] = "setting" /\ upc' = [upc EXCEPT ![u] = "idle"]
        /\ errorClbk' = "set" /\ UNCHANGED ops
  /\ UNCHANGED <<side, owner, fits, mtx, functions, alive, uid, worker>>

(* removeCallback of one, or clearCallbacks.                               *)
Remove(u, S) ==
  /\ Begin(u, "idle") /\ ~mtx
  /\ owner' = [i \in Id |-> IF i \in S THEN NoObject ELSE owner[i]]
  /\ fits' = [i \in Id |-> i \notin S /\ fits[i]]
  /\ UNCHANGED <<side, mtx, functions, errorClbk, alive, uid, worker>>

(* Users delete an object when none of its callbacks is registered, and    *)
(* may make another in its place.                                          *)
DeleteObject(u, o) ==
  /\ Begin(u, "idle") /\ o \in alive /\ \A i \in Id : owner[i] # o
  /\ alive' = alive \ {o}
  /\ UNCHANGED <<side, registry, uid, worker>>

MakeObject(u, o) ==
  /\ Begin(u, "idle") /\ o \notin alive
  /\ alive' = alive \cup {o}
  /\ UNCHANGED <<side, registry, uid, worker>>
-----------------------------------------------------------------------------
(* The worker receives. *)

(* Mutant: the containers of the server's worker are not cleaned.          *)
ReceiveUncleaned(m) ==
  /\ side = "server" /\ wpc = "idle" /\ Ours(m) /\ m.publisher = "right"
  /\ received' = {m}
  /\ msg' = IF m.data = NoData THEN [msg EXCEPT !.id = m.id] ELSE ContentOf(m)
  /\ result' = "OK" /\ given' = {} /\ wpc' = "find"
  /\ UNCHANGED <<side, registry, users, callee>>

(* A server cleans its containers, and checks and answers what is not a    *)
(* custom command of a connected client before it comes here.              *)
ReceiveRequest(m) ==
  /\ side = "server" /\ wpc = "idle" /\ Ours(m) /\ m.publisher = "right"
  /\ received' = {m} /\ msg' = ContentOf(m)
  /\ result' = "OK" /\ given' = {} /\ wpc' = "find"
  /\ UNCHANGED <<side, registry, users, callee>>

(* What recvFromSocket of a subscriber returns for a message, and what it   *)
(* has stored by then in one that still holds the last.                    *)
RecvResult(m) ==
  CASE m.parts = 3 -> "INVALID_PARTS"
    [] m.parts # 3 /\ m.publisher = "wrong" -> "INVALID_PUB_UUID"
    [] m.parts = 4 /\ m.publisher = "right" /\ m.data = NoData -> "EMPTY_PARAMS"
    [] OTHER -> "OK"

Stored(m) ==
  CASE m.parts = 3 -> msg
    [] m.parts # 3 /\ m.publisher = "wrong" -> [msg EXCEPT !.id = m.id]
    [] m.parts = 4 /\ m.publisher = "right" /\ m.data # NoData -> ContentOf(m)
    [] OTHER -> [msg EXCEPT !.id = m.id, !.publisher = m.publisher]

RecvFromSocket(m) ==
  /\ side = "subscriber" /\ wpc = "idle"
  /\ received' = {m} /\ msg' = Stored(m)
  /\ result' = RecvResult(m) /\ given' = {}
  /\ wpc' = IF RecvResult(m) = "OK" THEN "find" ELSE "invalid"
  /\ UNCHANGED <<side, registry, users, callee>>
-----------------------------------------------------------------------------
(* The worker processes. *)

Fail(r) == result' = r /\ wpc' = IF side = "server" THEN "done" ELSE "error"

(* The process function.  A search of a map that is being written to may   *)
(* find anything, or end the process.                                      *)
Find ==
  /\ wpc = "find"
  /\ \/ msg.id \in functions /\ wpc' = "params" /\ UNCHANGED result
     \/ msg.id \notin functions /\ Fail("NOT_IMPLEMENTED")
     \/ /\ \E u \in User : upc[u] = "inserting"
        /\ wpc' = "crashed" /\ UNCHANGED result
  /\ UNCHANGED <<side, registry, users, received, msg, callee, given>>

(* processClbkRequest: the parameters...                                   *)
TakeParameters ==
  /\ wpc = "params"
  /\ \/ msg.id \in Inputs /\ msg.data = NoData /\ Fail("EMPTY_PARAMS")
     \/ msg.id \in Inputs /\ msg.data \in Payload \ Good /\ Fail("BAD_PARAMETERS")
     \/ /\ msg.id \in Inputs => msg.data \in Good
        /\ wpc' = "check" /\ UNCHANGED result
  /\ UNCHANGED <<side, registry, users, received, msg, callee, given>>

(* ...hasCallback...                                                       *)
CheckCallback ==
  /\ wpc = "check" /\ ~mtx
  /\ IF owner[msg.id] = NoObject THEN Fail("EMPTY_EXT_CALLBACK")
     ELSE wpc' = "invoke" /\ UNCHANGED result
  /\ UNCHANGED <<side, registry, users, received, msg, callee, given>>

(* Mutant: the callback is called without the mutex.                       *)
InvokeUnlocked ==
  /\ wpc = "invoke" /\ ~mtx
  /\ IF owner[msg.id] # NoObject /\ fits[msg.id]
     THEN wpc' = "run" /\ callee' = owner[msg.id] /\ UNCHANGED result
     ELSE Fail("INVALID_EXT_CALLBACK") /\ UNCHANGED callee
  /\ UNCHANGED <<side, registry, users, received, msg, given>>

(* Mutant: the mutex stays locked if there is no callback, or a wrong one. *)
InvokeStaysLocked ==
  /\ wpc = "invoke" /\ ~mtx
  /\ mtx' = TRUE
  /\ IF owner[msg.id] # NoObject /\ fits[msg.id]
     THEN wpc' = "run" /\ callee' = owner[msg.id] /\ UNCHANGED result
     ELSE Fail("INVALID_EXT_CALLBACK") /\ UNCHANGED callee
  /\ UNCHANGED <<side, owner, fits, functions, errorClbk, users, received, msg, given>>

(* ...and invokeCallback, which throws if the callback has been removed     *)
(* since, or is of another type.                                           *)
InvokeCallback ==
  /\ wpc = "invoke" /\ ~mtx
  /\ IF owner[msg.id] # NoObject /\ fits[msg.id]
     THEN wpc' = "run" /\ mtx' = TRUE /\ callee' = owner[msg.id] /\ UNCHANGED result
     ELSE Fail("INVALID_EXT_CALLBACK") /\ UNCHANGED <<mtx, callee>>
  /\ UNCHANGED <<side, owner, fits, functions, errorClbk, users, received, msg, given>>

(* Mutant: what the callback throws leaves the result as it was.           *)
ThrowUnnoticed ==
  /\ wpc = "run"
  /\ \/ wpc' = "done" /\ given' = {msg.data} /\ mtx' = FALSE /\ UNCHANGED result
     \/ wpc' = "done" /\ mtx' = FALSE /\ UNCHANGED <<result, given>>
     \/ wpc' = "stuck" /\ UNCHANGED <<mtx, result, given>>
  /\ callee' = IF wpc' = "stuck" THEN callee ELSE NoObject
  /\ UNCHANGED <<side, owner, fits, functions, errorClbk, users, received, msg>>

(* The callback returns, throws, or calls CallbackHandler, whose mutex its *)
(* own thread holds.                                                       *)
RunCallback ==
  /\ wpc = "run"
  /\ \/ wpc' = "done" /\ given' = {msg.data} /\ mtx' = FALSE /\ UNCHANGED result
     \/ Fail("INVALID_EXT_CALLBACK") /\ mtx' = FALSE /\ UNCHANGED given
     \/ wpc' = "stuck" /\ UNCHANGED <<mtx, result, given>>
  /\ callee' = IF wpc' = "stuck" THEN callee ELSE NoObject
  /\ UNCHANGED <<side, owner, fits, functions, errorClbk, users, received, msg>>

(* The error callback of a subscriber, if there is one.                    *)
TellError ==
  /\ wpc \in {"invalid", "error"}
  /\ \/ wpc' = "done"
     \/ errorClbk = "torn" /\ wpc' = "crashed"
  /\ UNCHANGED <<side, registry, users, received, msg, result, callee, given>>

(* A server sends its reply, with data if the result is COMMAND_OK.        *)
Done ==
  /\ wpc = "done" /\ wpc' = "idle" /\ result' = "OK"
  /\ received' = {} /\ given' = {}
  /\ UNCHANGED <<side, registry, users, msg, callee>>

Process ==
  \/ Find \/ TakeParameters \/ CheckCallback \/ InvokeCallback \/ RunCallback
  \/ TellError \/ Done

Next ==
  \/ \E u \in User :
       \/ \E i \in Id, o \in Object, f \in BOOLEAN : RegisterCallback(u, i, o, f)
       \/ \E S \in {{i} : i \in Id} \cup {Id} : Remove(u, S)
       \/ \E o \in Object : DeleteObject(u, o) \/ MakeObject(u, o)
       \/ InsertFunction(u) \/ SetErrorCallback(u)
  \/ \E m \in Message : ReceiveRequest(m) \/ RecvFromSocket(m)
  \/ Process

(* The worker runs, and a callback of its returns, throws or is stuck.     *)
Spec == Init /\ [][Next]_vars /\ WF_vars(Process)
-----------------------------------------------------------------------------
Result == {"OK", "INVALID_PARTS", "INVALID_PUB_UUID", "EMPTY_PARAMS", "NOT_IMPLEMENTED",
           "BAD_PARAMETERS", "EMPTY_EXT_CALLBACK", "INVALID_EXT_CALLBACK"}
Place == {"idle", "find", "params", "check", "invoke", "run", "stuck", "invalid", "error",
          "done", "crashed"}

TypeOK ==
  /\ side \in {"server", "subscriber"}
  /\ owner \in [Id -> Object \cup {NoObject}] /\ fits \in [Id -> BOOLEAN]
  /\ mtx \in BOOLEAN /\ functions \subseteq Id /\ errorClbk \in {"none", "torn", "set"}
  /\ alive \subseteq Object
  /\ upc \in [User -> {"idle", "insert", "inserting", "setting"}] /\ uid \in [User -> Id]
  /\ ops \in 0 .. MaxOps
  /\ wpc \in Place /\ result \in Result
  /\ received \subseteq Message /\ msg \in Content
  /\ callee \in Object \cup {NoObject} /\ given \subseteq Payload \cup {NoData}

(***************************************************************************)
(* Users who delete an object as soon as removeCallback, clearCallbacks or  *)
(* the registration of another in its place has returned never delete one  *)
(* whose callback runs: invokeCallback holds the mutex until it has ended. *)
(***************************************************************************)
RunsAlive == wpc \in {"run", "stuck"} => callee \in alive

(***************************************************************************)
(* The result begins as COMMAND_OK, and every path that does not end in a  *)
(* callback that returns has to change it; a callback that is there when    *)
(* it is looked for may be gone when it is invoked.  The client is told OK, *)
(* or the error callback nothing, only if a callback had the parameters    *)
(* and returned.                                                           *)
(***************************************************************************)
OkMeansReturned ==
  wpc = "done" /\ result = "OK" =>
    /\ given # {}
    /\ msg.id \in Inputs => given \subseteq Good

(***************************************************************************)
(* The subscriber's worker keeps every message in the same container,       *)
(* which it never clears.  A callback that takes parameters is still given  *)
(* those of the message that came, whatever came before, if that is one a  *)
(* request or a publisher makes.                                           *)
(***************************************************************************)
GivenIsReceived == \A m \in received : Ours(m) => given \subseteq {m.data}

(***************************************************************************)
(* However users register and remove callbacks meanwhile, the worker comes  *)
(* back for the next message, unless a callback calls CallbackHandler or a  *)
(* registration without a mutex ends the process.                          *)
(***************************************************************************)
Returns == wpc = "find" ~> wpc \in {"idle", "stuck", "crashed"}
=============================================================================
