--------------------------- MODULE LifetimeProofs ---------------------------
(***************************************************************************)
(* That what threads share outlives its users: the objects of callbacks     *)
(* (Dispatch), for any threads, objects and messages, and the context of    *)
(* all sockets (Endpoints), for any endpoints, UUIDs and hosts.  With the   *)
(* one, that what the client or the error callback is told is what          *)
(* happened; with the other, when UUIDs differ.                             *)
(***************************************************************************)
EXTENDS Dispatch, Endpoints, TLAPS

(* No callback of an object that is gone is registered, and the mutex keeps *)
(* the one that runs in the map.                                           *)
Registered ==
  /\ \A i \in Id : owner[i] # NoObject => owner[i] \in alive
  /\ wpc \in {"run", "stuck"} => mtx /\ callee = owner[msg.id] /\ callee # NoObject

(* The parameters are checked before a callback is looked for, and a        *)
(* callback that has returned leads straight to the end.                   *)
Checked ==
  /\ wpc \in {"invalid", "error"} => result # "OK"
  /\ wpc \in {"check", "invoke", "run", "stuck"} \/ given # {} => (msg.id \in Inputs => msg.data \in Good)
  /\ given # {} => wpc = "done"
  /\ given \subseteq {msg.data}
  /\ wpc = "done" /\ result = "OK" => given # {}

(* What a container that is not cleaned still holds of the last message is  *)
(* overwritten before anything looks at it.                                *)
Fresh ==
  /\ wpc \in {"find", "params", "check", "invoke", "run", "stuck"} \/ given # {} =>
       \A m \in received : Ours(m) => msg.data = m.data
  /\ given # {} => wpc = "done"
  /\ given \subseteq {msg.data}

-----------------------------------------------------------------------------
LEMMA TypeStep == TypeOK /\ [Next]_vars => TypeOK'
<1> SUFFICES ASSUME TypeOK, [Next]_vars PROVE TypeOK'
  OBVIOUS
<1> USE DispatchAssumption DEF TypeOK, Result, Place, registry, users, worker
<1>1. CASE \E u \in User, i \in Id, o \in Object, f \in BOOLEAN : RegisterCallback(u, i, o, f)
  BY <1>1 DEF RegisterCallback, Begin
<1>2. CASE \E u \in User : \E S \in {{i} : i \in Id} \cup {Id} : Remove(u, S)
  <2> PICK u \in User, S \in {{i} : i \in Id} \cup {Id} : Remove(u, S)
    BY <1>2
  <2>1. fits' \in [Id -> BOOLEAN] /\ owner' \in [Id -> Object \cup {NoObject}]
    BY Zenon DEF Remove
  <2> QED BY <2>1 DEF Remove, Begin
<1>3. CASE \E u \in User, o \in Object : DeleteObject(u, o)
  BY <1>3 DEF DeleteObject, Begin
<1>4. CASE \E u \in User, o \in Object : MakeObject(u, o)
  BY <1>4 DEF MakeObject, Begin
<1>5. CASE \E u \in User : InsertFunction(u)
  BY <1>5 DEF InsertFunction
<1>6. CASE \E u \in User : SetErrorCallback(u)
  BY <1>6 DEF SetErrorCallback, Begin
<1>7. CASE \E m \in Message : ReceiveRequest(m)
  BY <1>7 DEF ReceiveRequest, Message, Content, ContentOf
<1>8. CASE \E m \in Message : RecvFromSocket(m)
  <2> PICK m \in Message : RecvFromSocket(m)
    BY <1>8
  <2>1. RecvResult(m) \in Result /\ Stored(m) \in Content
    BY DEF RecvResult, Stored, Message, Content, ContentOf
  <2> QED BY <2>1 DEF RecvFromSocket
<1>9. CASE Find
  BY <1>9 DEF Find, Fail
<1>10. CASE TakeParameters
  BY <1>10 DEF TakeParameters, Fail
<1>11. CASE CheckCallback
  BY <1>11 DEF CheckCallback, Fail
<1>12. CASE InvokeCallback
  <2>1. owner[msg.id] \in Object \cup {NoObject}
    BY DEF Content
  <2> QED BY <1>12, <2>1 DEF InvokeCallback, Fail
<1>13. CASE RunCallback
  <2>1. msg.data \in Payload \cup {NoData}
    BY DEF Content
  <2>2. given' = {msg.data} \/ given' = given
    BY <1>13 DEF RunCallback, Fail
  <2>3. given' \subseteq Payload \cup {NoData}
    BY <2>1, <2>2
  <2>4. callee' \in Object \cup {NoObject} /\ wpc' \in Place /\ result' \in Result
    BY <1>13 DEF RunCallback, Fail
  <2>5. mtx' \in BOOLEAN
    BY <1>13 DEF RunCallback
  <2> QED BY <1>13, <2>3, <2>4, <2>5 DEF RunCallback
<1>14. CASE TellError
  BY <1>14 DEF TellError
<1>15. CASE Done
  BY <1>15 DEF Done
<1>16. CASE UNCHANGED vars
  BY <1>16 DEF vars, registry, users, worker
<1> QED BY <1>1, <1>2, <1>3, <1>4, <1>5, <1>6, <1>7, <1>8, <1>9, <1>10, <1>11, <1>12, <1>13, <1>14, <1>15, <1>16 DEF Next, Process

LEMMA RegisteredStep == TypeOK /\ Registered /\ [Next]_vars => Registered'
<1> SUFFICES ASSUME TypeOK, Registered, [Next]_vars PROVE Registered'
  OBVIOUS
<1> USE DispatchAssumption DEF TypeOK, Registered, registry, users, worker
<1>1. CASE \E u \in User, i \in Id, o \in Object, f \in BOOLEAN : RegisterCallback(u, i, o, f)
  BY <1>1 DEF RegisterCallback, Begin
<1>2. CASE \E u \in User : \E S \in {{i} : i \in Id} \cup {Id} : Remove(u, S)
  BY <1>2 DEF Remove, Begin
<1>3. CASE \E u \in User, o \in Object : DeleteObject(u, o)
  BY <1>3 DEF DeleteObject, Begin
<1>4. CASE \E u \in User, o \in Object : MakeObject(u, o)
  BY <1>4 DEF MakeObject, Begin
<1>5. CASE \E u \in User : InsertFunction(u)
  BY <1>5 DEF InsertFunction
<1>6. CASE \E u \in User : SetErrorCallback(u)
  BY <1>6 DEF SetErrorCallback, Begin
<1>7. CASE \E m \in Message : ReceiveRequest(m)
  BY <1>7 DEF ReceiveRequest
<1>8. CASE \E m \in Message : RecvFromSocket(m)
  BY <1>8 DEF RecvFromSocket
<1>9. CASE Find
  BY <1>9 DEF Find, Fail
<1>10. CASE TakeParameters
  BY <1>10 DEF TakeParameters, Fail
<1>11. CASE CheckCallback
  BY <1>11 DEF CheckCallback, Fail
<1>12. CASE InvokeCallback
  BY <1>12 DEF InvokeCallback, Fail
<1>13. CASE RunCallback
  BY <1>13 DEF RunCallback, Fail
<1>14. CASE TellError
  BY <1>14 DEF TellError
<1>15. CASE Done
  BY <1>15 DEF Done
<1>16. CASE UNCHANGED vars
  BY <1>16 DEF vars, registry, users, worker
<1> QED BY <1>1, <1>2, <1>3, <1>4, <1>5, <1>6, <1>7, <1>8, <1>9, <1>10, <1>11, <1>12, <1>13, <1>14, <1>15, <1>16 DEF Next, Process

LEMMA CheckedStep == TypeOK /\ Checked /\ [Next]_vars => Checked'
<1> SUFFICES ASSUME TypeOK, Checked, [Next]_vars PROVE Checked'
  OBVIOUS
<1> USE DispatchAssumption DEF TypeOK, Checked, registry, users, worker
<1>1. CASE \E u \in User, i \in Id, o \in Object, f \in BOOLEAN : RegisterCallback(u, i, o, f)
  BY <1>1 DEF RegisterCallback, Begin
<1>2. CASE \E u \in User : \E S \in {{i} : i \in Id} \cup {Id} : Remove(u, S)
  BY <1>2 DEF Remove, Begin
<1>3. CASE \E u \in User, o \in Object : DeleteObject(u, o)
  BY <1>3 DEF DeleteObject, Begin
<1>4. CASE \E u \in User, o \in Object : MakeObject(u, o)
  BY <1>4 DEF MakeObject, Begin
<1>5. CASE \E u \in User : InsertFunction(u)
  BY <1>5 DEF InsertFunction
<1>6. CASE \E u \in User : SetErrorCallback(u)
  BY <1>6 DEF SetErrorCallback, Begin
<1>7. CASE \E m \in Message : ReceiveRequest(m)
  BY <1>7 DEF ReceiveRequest
<1>8. CASE \E m \in Message : RecvFromSocket(m)
  BY <1>8 DEF RecvFromSocket
<1>9. CASE Find
  BY <1>9 DEF Find, Fail
<1>10. CASE TakeParameters
  BY <1>10 DEF TakeParameters, Fail
<1>11. CASE CheckCallback
  BY <1>11 DEF CheckCallback, Fail
<1>12. CASE InvokeCallback
  BY <1>12 DEF InvokeCallback, Fail
<1>13. CASE RunCallback
  BY <1>13 DEF RunCallback, Fail
<1>14. CASE TellError
  BY <1>14 DEF TellError
<1>15. CASE Done
  BY <1>15 DEF Done
<1>16. CASE UNCHANGED vars
  BY <1>16 DEF vars, registry, users, worker
<1> QED BY <1>1, <1>2, <1>3, <1>4, <1>5, <1>6, <1>7, <1>8, <1>9, <1>10, <1>11, <1>12, <1>13, <1>14, <1>15, <1>16 DEF Next, Process

LEMMA FreshStep == TypeOK /\ Fresh /\ [Next]_vars => Fresh'
<1> SUFFICES ASSUME TypeOK, Fresh, [Next]_vars PROVE Fresh'
  OBVIOUS
<1> USE DispatchAssumption DEF TypeOK, Fresh, registry, users, worker
<1>1. CASE \E u \in User, i \in Id, o \in Object, f \in BOOLEAN : RegisterCallback(u, i, o, f)
  BY <1>1 DEF RegisterCallback, Begin
<1>2. CASE \E u \in User : \E S \in {{i} : i \in Id} \cup {Id} : Remove(u, S)
  BY <1>2 DEF Remove, Begin
<1>3. CASE \E u \in User, o \in Object : DeleteObject(u, o)
  BY <1>3 DEF DeleteObject, Begin
<1>4. CASE \E u \in User, o \in Object : MakeObject(u, o)
  BY <1>4 DEF MakeObject, Begin
<1>5. CASE \E u \in User : InsertFunction(u)
  BY <1>5 DEF InsertFunction
<1>6. CASE \E u \in User : SetErrorCallback(u)
  BY <1>6 DEF SetErrorCallback, Begin
<1>7. CASE \E m \in Message : ReceiveRequest(m)
  BY <1>7 DEF ReceiveRequest, Message, ContentOf
<1>8. CASE \E m \in Message : RecvFromSocket(m)
  <2> PICK m \in Message : RecvFromSocket(m)
    BY <1>8
  <2>1. RecvResult(m) = "OK" /\ Ours(m) => Stored(m).data = m.data
    BY DEF RecvResult, Stored, Ours, Message, ContentOf
  <2> QED BY <2>1 DEF RecvFromSocket
<1>9. CASE Find
  BY <1>9 DEF Find, Fail
<1>10. CASE TakeParameters
  BY <1>10 DEF TakeParameters, Fail
<1>11. CASE CheckCallback
  BY <1>11 DEF CheckCallback, Fail
<1>12. CASE InvokeCallback
  BY <1>12 DEF InvokeCallback, Fail
<1>13. CASE RunCallback
  BY <1>13 DEF RunCallback, Fail
<1>14. CASE TellError
  BY <1>14 DEF TellError
<1>15. CASE Done
  BY <1>15 DEF Done
<1>16. CASE UNCHANGED vars
  BY <1>16 DEF vars, registry, users, worker
<1> QED BY <1>1, <1>2, <1>3, <1>4, <1>5, <1>6, <1>7, <1>8, <1>9, <1>10, <1>11, <1>12, <1>13, <1>14, <1>15, <1>16 DEF Next, Process

(***************************************************************************)
(* Every variable keeps its type: at most MaxOps calls, and a result that   *)
(* is one of those the code gives.                                         *)
(***************************************************************************)
THEOREM DispatchTypeCorrect == Spec => []TypeOK
<1>1. Init => TypeOK
  <2> SUFFICES ASSUME Init PROVE TypeOK
    OBVIOUS
  <2>1. uid \in [User -> Id]
    BY DispatchAssumption DEF Init
  <2>2. msg \in Content
    BY DEF Init
  <2>3. 0 \in 0 .. MaxOps
    BY DispatchAssumption
  <2> QED BY <2>1, <2>2, <2>3 DEF Init, TypeOK, Result, Place
<1> QED BY <1>1, TypeStep, PTL DEF Spec

(***************************************************************************)
(* However many threads register and remove callbacks, no callback runs on  *)
(* an object its owner has deleted after unregistering it.                 *)
(***************************************************************************)
THEOREM CallbackObjectLives == Spec => []RunsAlive
<1>1. Init => Registered
  BY DEF Init, Registered
<1>2. TypeOK /\ Registered => RunsAlive
  BY DEF TypeOK, Registered, RunsAlive, Content
<1> QED BY <1>1, <1>2, RegisteredStep, DispatchTypeCorrect, PTL DEF Spec

(***************************************************************************)
(* An OK is not told for a callback that did not run, threw, or had not     *)
(* the parameters it takes.                                                *)
(***************************************************************************)
THEOREM OkIsTrue == Spec => []OkMeansReturned
<1>1. Init => Checked
  BY DEF Init, Checked
<1>2. Checked => OkMeansReturned
  BY DEF Checked, OkMeansReturned
<1> QED BY <1>1, <1>2, CheckedStep, DispatchTypeCorrect, PTL DEF Spec

(***************************************************************************)
(* Whatever messages came before, a callback is given the data of this one. *)
(***************************************************************************)
THEOREM CallbackIsGivenItsMessage == Spec => []GivenIsReceived
<1>1. Init => Fresh
  BY DEF Init, Fresh
<1>2. TypeOK /\ Fresh => GivenIsReceived
  BY DEF TypeOK, Fresh, GivenIsReceived
<1> QED BY <1>1, <1>2, FreshStep, DispatchTypeCorrect, PTL DEF Spec
-----------------------------------------------------------------------------
(* What the exceptions of Returns are. *)

(* The mutex is held while a callback runs and at no other time; and only a *)
(* registration that no mutex guards, still under way, ends the process.    *)
Guarded ==
  /\ mtx <=> wpc \in {"run", "stuck"}
  /\ errorClbk = "torn" => \E u \in User : upc[u] = "setting"
  /\ wpc = "crashed" => \E u \in User : upc[u] \in {"inserting", "setting"}

LEMMA GuardedStep == TypeOK /\ Guarded /\ [Next]_vars => Guarded'
<1> SUFFICES ASSUME TypeOK, Guarded, [Next]_vars PROVE Guarded'
  OBVIOUS
<1> USE DispatchAssumption DEF TypeOK, Guarded, Running, registry, users, worker
<1>1. CASE \E u \in User, i \in Id, o \in Object, f \in BOOLEAN : RegisterCallback(u, i, o, f)
  BY <1>1 DEF RegisterCallback, Begin
<1>2. CASE \E u \in User : \E S \in {{i} : i \in Id} \cup {Id} : Remove(u, S)
  BY <1>2 DEF Remove, Begin
<1>3. CASE \E u \in User, o \in Object : DeleteObject(u, o)
  BY <1>3 DEF DeleteObject, Begin
<1>4. CASE \E u \in User, o \in Object : MakeObject(u, o)
  BY <1>4 DEF MakeObject, Begin
<1>5. CASE \E u \in User : InsertFunction(u)
  BY <1>5 DEF InsertFunction
<1>6. CASE \E u \in User : SetErrorCallback(u)
  BY <1>6 DEF SetErrorCallback, Begin
<1>7. CASE \E m \in Message : ReceiveRequest(m)
  BY <1>7 DEF ReceiveRequest
<1>8. CASE \E m \in Message : RecvFromSocket(m)
  BY <1>8 DEF RecvFromSocket
<1>9. CASE Find
  BY <1>9 DEF Find, Fail
<1>10. CASE TakeParameters
  BY <1>10 DEF TakeParameters, Fail
<1>11. CASE CheckCallback
  BY <1>11 DEF CheckCallback, Fail
<1>12. CASE InvokeCallback
  BY <1>12 DEF InvokeCallback, Fail
<1>13. CASE RunCallback
  BY <1>13 DEF RunCallback, Fail
<1>14. CASE TellError
  BY <1>14 DEF TellError
<1>15. CASE Done
  BY <1>15 DEF Done
<1>16. CASE UNCHANGED vars
  BY <1>16 DEF vars
<1> QED BY <1>1, <1>2, <1>3, <1>4, <1>5, <1>6, <1>7, <1>8, <1>9, <1>10, <1>11, <1>12, <1>13, <1>14, <1>15, <1>16 DEF Next, Process

(* Nobody waits for the mutex of CallbackHandler but during a callback, the *)
(* worker that runs it least of all; and the process is ended by nothing    *)
(* but a process function or an error callback that is being entered.       *)
THEOREM MutexIsTheCallbacks == Spec => []Guarded
<1>1. Init => Guarded
  BY DEF Init, Guarded
<1>2. TypeOK /\ Guarded /\ [Next]_vars => Guarded'
  BY GuardedStep
<1> QED BY <1>1, <1>2, DispatchTypeCorrect, PTL DEF Spec

(* A callback that called its CallbackHandler never returns, and from then  *)
(* on nobody registers or removes a callback: every user who tries waits.   *)
THEOREM StuckForEver ==
  Spec => [][wpc = "stuck" => wpc' = "stuck" /\ UNCHANGED <<owner, fits>>]_vars
<1>1. Guarded /\ [Next]_vars => [wpc = "stuck" => wpc' = "stuck" /\ UNCHANGED <<owner, fits>>]_vars
  BY DEF Guarded, Next, Process, vars, registry, users, worker, RegisterCallback, Begin, Remove,
     DeleteObject, MakeObject, InsertFunction, SetErrorCallback, ReceiveRequest, RecvFromSocket,
     Find, TakeParameters, CheckCallback, InvokeCallback, RunCallback, TellError, Done
<1> QED BY <1>1, MutexIsTheCallbacks, PTL DEF Spec
-----------------------------------------------------------------------------
(* Endpoints. *)

Busy == InHandler \cup InDestructor
Listed(e) == pc[e] \notin Busy \cup {"none"}

(* Handlers come and go one at a time, and the context follows the list.   *)
OneContext ==
  ~raced =>
    /\ ~crashed
    /\ \A e, f \in Endpoint : e # f => ~(pc[e] \in Busy /\ pc[f] \in Busy)
    /\ \A e \in Endpoint :
         /\ e \in instances <=> Listed(e)
         /\ sock[e] # "none" => sock[e] = "open" /\ pc[e] = "live"
         /\ pc[e] \in {"create", "drop"} => instances = {}
         /\ pc[e] \in {"create", "release"} => ~context
         /\ pc[e] \in {"read", "append", "drop"} => context
         /\ pc[e] = "append" => seen[e] = instances
         /\ pc[e] # "replace"
         /\ Listed(e) => context
    /\ context => \E e \in Endpoint : Listed(e) \/ pc[e] \in {"read", "append", "drop"}

(* A UUID that is given alone is new; one that was given is known.         *)
Assigned(e) == pc[e] = "live" \/ (pc[e] = "check" /\ kind[e] # "subscriber")
Unseen ==
  /\ \A e \in Endpoint :
       /\ Assigned(e) => uuid[e] \in generated
       /\ alone[e] /\ pc[e] \in InGenerator => ~Others(e, InGenerator)
       /\ alone[e] /\ pc[e] \in {"insert", "inserting"} => uuid[e] \notin generated
       /\ pc[e] \in {"insert", "inserting"} => uuid[e] \in UUID
  /\ \A e, f \in Endpoint :
       e # f /\ Assigned(e) /\ Assigned(f) /\ uuid[e] = uuid[f] => ~(alone[e] /\ alone[f])

Inv == ETypeOK /\ OneContext /\ Unseen
-----------------------------------------------------------------------------
LEMMA ETypeStep == ETypeOK /\ Unseen /\ [ENext]_evars => ETypeOK'
<1> SUFFICES ASSUME ETypeOK, Unseen, [ENext]_evars PROVE ETypeOK'
  OBVIOUS
<1> USE DEF ETypeOK, Stage, InHandler, InDestructor, InGenerator, Kind, handler, generator
<1>1. ASSUME NEW e \in Endpoint, NEW k \in Kind, Test(e, k) PROVE ETypeOK'
  BY <1>1 DEF Test, At, Go, Others, ETypeOK
<1>2. ASSUME NEW e \in Endpoint, NEW u \in UUID, Draw(e, u) PROVE ETypeOK'
  BY <1>2 DEF Draw, At, Go, NotFound, Others, ETypeOK
<1>3. ASSUME NEW e \in Endpoint, Create(e) PROVE ETypeOK'
  BY <1>3 DEF Create, At, Go, Orphaned, ETypeOK
<1>4. ASSUME NEW e \in Endpoint, Replace(e) PROVE ETypeOK'
  BY <1>4 DEF Replace, At, Go, Ended, ETypeOK
<1>5. ASSUME NEW e \in Endpoint, ReadInstances(e) PROVE ETypeOK'
  BY <1>5 DEF ReadInstances, At, Go, ETypeOK
<1>6. ASSUME NEW e \in Endpoint, Enlist(e) PROVE ETypeOK'
  BY <1>6 DEF Enlist, At, Go, BeginBody, BeginDraw, Others, ETypeOK
<1>7. ASSUME NEW e \in Endpoint, Insert(e) PROVE ETypeOK'
  BY <1>7 DEF Insert, At, Go, Others, ETypeOK
<1>8. ASSUME NEW e \in Endpoint, Inserted(e) PROVE ETypeOK'
  BY <1>8 DEF Inserted, At, Go, ETypeOK, Unseen
<1>9. ASSUME NEW e \in Endpoint, Check(e) PROVE ETypeOK'
  BY <1>9 DEF Check, At, Go, BeginDraw, Others, ETypeOK
<1>10. ASSUME NEW e \in Endpoint, OpenSocket(e) PROVE ETypeOK'
  BY <1>10 DEF OpenSocket, At, Go, ETypeOK
<1>11. ASSUME NEW e \in Endpoint, CloseSocket(e) PROVE ETypeOK'
  BY <1>11 DEF CloseSocket, At, Go, ETypeOK
<1>12. ASSUME NEW e \in Endpoint, Unregister(e) PROVE ETypeOK'
  BY <1>12 DEF Unregister, At, Go, Others, ETypeOK
<1>13. ASSUME NEW e \in Endpoint, Drop(e) PROVE ETypeOK'
  BY <1>13 DEF Drop, At, Go, Orphaned, ETypeOK
<1>14. ASSUME NEW e \in Endpoint, Release(e) PROVE ETypeOK'
  BY <1>14 DEF Release, At, Go, Ended, ETypeOK
<1>15. CASE UNCHANGED evars
  BY <1>15 DEF evars, ETypeOK
<1> QED BY <1>1, <1>2, <1>3, <1>4, <1>5, <1>6, <1>7, <1>8, <1>9, <1>10, <1>11, <1>12, <1>13, <1>14, <1>15 DEF ENext

LEMMA OneContextStep == ETypeOK /\ OneContext /\ [ENext]_evars => OneContext'
<1> SUFFICES ASSUME ETypeOK, OneContext, [ENext]_evars PROVE OneContext'
  OBVIOUS
<1> USE DEF OneContext, Listed, Busy, InHandler, InDestructor, InGenerator, handler, generator
<1>1. ASSUME NEW e \in Endpoint, NEW k \in Kind, Test(e, k) PROVE OneContext'
  <2> USE DEF ETypeOK
  <2> SUFFICES ASSUME ~raced' PROVE OneContext'
    OBVIOUS
  <2>1. ~raced /\ \A f \in Endpoint \ {e} : pc[f] \notin Busy
    BY <1>1 DEF Test, Others
  <2>2. pc[e] = "none" /\ ~crashed /\ UNCHANGED <<context, instances, seen, sock, crashed>>
    BY <1>1 DEF Test, At
  <2>3. CASE instances = {} /\ pc' = [pc EXCEPT ![e] = "create"]
    <3>1. \A f \in Endpoint : ~Listed(f)
      BY <2>1, <2>3
    <3>2. ~context
      BY <2>1, <2>2, <3>1
    <3> QED BY <2>1, <2>2, <2>3, <3>1, <3>2
  <2>4. CASE instances # {} /\ pc' = [pc EXCEPT ![e] = "read"]
    <3>1. PICK f \in Endpoint : Listed(f) /\ f # e
      BY <2>1, <2>2, <2>4
    <3>2. context /\ Listed(f)'
      BY <2>1, <2>4, <3>1
    <3> QED BY <2>1, <2>2, <2>4, <3>2
  <2> QED BY <1>1, <2>3, <2>4 DEF Test, Go
<1>2. ASSUME NEW e \in Endpoint, NEW u \in UUID, Draw(e, u) PROVE OneContext'
  BY <1>2 DEF Draw, At, Go, NotFound, Others, ETypeOK
<1>3. ASSUME NEW e \in Endpoint, Create(e) PROVE OneContext'
  BY <1>3 DEF Create, At, Go, Orphaned, ETypeOK
<1>4. ASSUME NEW e \in Endpoint, Replace(e) PROVE OneContext'
  BY <1>4 DEF Replace, At, Go, Ended, ETypeOK
<1>5. ASSUME NEW e \in Endpoint, ReadInstances(e) PROVE OneContext'
  BY <1>5 DEF ReadInstances, At, Go, ETypeOK
<1>6. ASSUME NEW e \in Endpoint, Enlist(e) PROVE OneContext'
  BY <1>6 DEF Enlist, At, Go, BeginBody, BeginDraw, Others, ETypeOK
<1>7. ASSUME NEW e \in Endpoint, Insert(e) PROVE OneContext'
  BY <1>7 DEF Insert, At, Go, Others, ETypeOK
<1>8. ASSUME NEW e \in Endpoint, Inserted(e) PROVE OneContext'
  BY <1>8 DEF Inserted, At, Go, ETypeOK
<1>9. ASSUME NEW e \in Endpoint, Check(e) PROVE OneContext'
  BY <1>9 DEF Check, At, Go, BeginDraw, Others, ETypeOK
<1>10. ASSUME NEW e \in Endpoint, OpenSocket(e) PROVE OneContext'
  BY <1>10 DEF OpenSocket, At, Go, ETypeOK
<1>11. ASSUME NEW e \in Endpoint, CloseSocket(e) PROVE OneContext'
  BY <1>11 DEF CloseSocket, At, Go, ETypeOK
<1>12. ASSUME NEW e \in Endpoint, Unregister(e) PROVE OneContext'
  BY <1>12 DEF Unregister, At, Go, Others, ETypeOK
<1>13. ASSUME NEW e \in Endpoint, Drop(e) PROVE OneContext'
  BY <1>13 DEF Drop, At, Go, Orphaned, ETypeOK
<1>14. ASSUME NEW e \in Endpoint, Release(e) PROVE OneContext'
  BY <1>14 DEF Release, At, Go, Ended, ETypeOK
<1>15. CASE UNCHANGED evars
  BY <1>15 DEF evars, ETypeOK
<1> QED BY <1>1, <1>2, <1>3, <1>4, <1>5, <1>6, <1>7, <1>8, <1>9, <1>10, <1>11, <1>12, <1>13, <1>14, <1>15 DEF ENext

LEMMA UnseenStep == ETypeOK /\ Unseen /\ [ENext]_evars => Unseen'
<1> SUFFICES ASSUME ETypeOK, Unseen, [ENext]_evars PROVE Unseen'
  OBVIOUS
<1> USE DEF Unseen, Assigned, InGenerator, handler, generator
<1>1. ASSUME NEW e \in Endpoint, NEW k \in Kind, Test(e, k) PROVE Unseen'
  BY <1>1 DEF Test, At, Go, Others, ETypeOK, Others
<1>2. ASSUME NEW e \in Endpoint, NEW u \in UUID, Draw(e, u) PROVE Unseen'
  BY <1>2 DEF Draw, At, Go, NotFound, Others, ETypeOK, Others
<1>3. ASSUME NEW e \in Endpoint, Create(e) PROVE Unseen'
  BY <1>3 DEF Create, At, Go, Orphaned, ETypeOK, Others
<1>4. ASSUME NEW e \in Endpoint, Replace(e) PROVE Unseen'
  BY <1>4 DEF Replace, At, Go, Ended, ETypeOK, Others
<1>5. ASSUME NEW e \in Endpoint, ReadInstances(e) PROVE Unseen'
  BY <1>5 DEF ReadInstances, At, Go, ETypeOK, Others
<1>6. ASSUME NEW e \in Endpoint, Enlist(e) PROVE Unseen'
  BY <1>6 DEF Enlist, At, Go, BeginBody, BeginDraw, Others, ETypeOK, Others
<1>7. ASSUME NEW e \in Endpoint, Insert(e) PROVE Unseen'
  BY <1>7 DEF Insert, At, Go, Others, ETypeOK, Others
<1>8. ASSUME NEW e \in Endpoint, Inserted(e) PROVE Unseen'
  BY <1>8 DEF Inserted, At, Go, Others, ETypeOK, Others
<1>9. ASSUME NEW e \in Endpoint, Check(e) PROVE Unseen'
  BY <1>9 DEF Check, At, Go, BeginDraw, Others, ETypeOK, Others
<1>10. ASSUME NEW e \in Endpoint, OpenSocket(e) PROVE Unseen'
  BY <1>10 DEF OpenSocket, At, Go, ETypeOK, Others
<1>11. ASSUME NEW e \in Endpoint, CloseSocket(e) PROVE Unseen'
  BY <1>11 DEF CloseSocket, At, Go, ETypeOK, Others
<1>12. ASSUME NEW e \in Endpoint, Unregister(e) PROVE Unseen'
  BY <1>12 DEF Unregister, At, Go, Others, ETypeOK, Others
<1>13. ASSUME NEW e \in Endpoint, Drop(e) PROVE Unseen'
  BY <1>13 DEF Drop, At, Go, Orphaned, ETypeOK, Others
<1>14. ASSUME NEW e \in Endpoint, Release(e) PROVE Unseen'
  BY <1>14 DEF Release, At, Go, Ended, ETypeOK, Others
<1>15. CASE UNCHANGED evars
  BY <1>15 DEF evars, ETypeOK, Others
<1> QED BY <1>1, <1>2, <1>3, <1>4, <1>5, <1>6, <1>7, <1>8, <1>9, <1>10, <1>11, <1>12, <1>13, <1>14, <1>15 DEF ENext
-----------------------------------------------------------------------------
LEMMA InitInv == EInit => Inv
BY NoUUIDAssumption DEF EInit, Inv, ETypeOK, Stage, Kind, OneContext, Listed, Busy, Unseen, Assigned,
   InHandler, InDestructor, InGenerator

LEMMA InvStep == Inv /\ [ENext]_evars => Inv'
BY ETypeStep, OneContextStep, UnseenStep DEF Inv

LEMMA Invariance == ESpec => []Inv
BY InitInv, InvStep, PTL DEF ESpec

(* Type correctness: what is kept as a UUID is one, and never nil.         *)
THEOREM EndpointTypeCorrect == ESpec => []ETypeOK
<1>1. Inv => ETypeOK
  BY DEF Inv
<1> QED BY Invariance, <1>1, PTL

(* While handlers come and go one at a time, the context is there for all  *)
(* who use it, and goes with the last.                                     *)
THEOREM ContextOutlivesAllUsers == ESpec => []ContextOutlivesUsers
<1>1. Inv => ContextOutlivesUsers
  <2> SUFFICES ASSUME OneContext, ETypeOK, ~raced
               PROVE  /\ ~crashed
                      /\ \A e \in Endpoint : /\ pc[e] \notin Busy \cup {"none"} => context
                                             /\ sock[e] # "old"
                      /\ (\A e \in Endpoint : pc[e] = "none") => ~context
    BY DEF Inv, ContextOutlivesUsers, Busy
  <2>1. ~crashed /\ \A e \in Endpoint : pc[e] \notin Busy \cup {"none"} => context
    BY DEF OneContext, Listed
  <2>2. \A e \in Endpoint : sock[e] # "old"
    BY DEF OneContext, ETypeOK
  <2>3. (\A e \in Endpoint : pc[e] = "none") => ~context
    BY DEF OneContext, Listed, Busy
  <2> QED BY <2>1, <2>2, <2>3
<1> QED BY Invariance, <1>1, PTL

(* However the generation of UUIDs is interleaved, only one that met        *)
(* another can have given a UUID twice.                                    *)
THEOREM DistinctWhenAlone == ESpec => []DistinctIfAlone
<1>1. Inv => DistinctIfAlone
  BY DEF Inv, Unseen, Assigned, DistinctIfAlone
<1> QED BY Invariance, <1>1, PTL
-----------------------------------------------------------------------------
(* What holds also when handlers race: who waits for the end of a context    *)
(* waits for sockets of endpoints that live, which close them without a     *)
(* mutex; one destructor at a time holds the handler's mutex, and one       *)
(* thread at a time the generator's.                                        *)
Waits ==
  /\ \A e \in Endpoint : sock[e] # "none" => pc[e] = "live"
  /\ \A e, f \in Endpoint :
       e # f => /\ ~(pc[e] \in InDestructor /\ pc[f] \in InDestructor)
                /\ ~(pc[e] = "inserting" /\ pc[f] = "inserting")

LEMMA WaitsStep == ETypeOK /\ Waits /\ [ENext]_evars => Waits'
<1> SUFFICES ASSUME ETypeOK, Waits, [ENext]_evars PROVE Waits'
  OBVIOUS
<1> USE DEF Waits, ETypeOK, Others, InDestructor, handler, generator
<1>1. ASSUME NEW e \in Endpoint, NEW k \in Kind, Test(e, k) PROVE Waits'
  BY <1>1 DEF Test, At, Go
<1>2. ASSUME NEW e \in Endpoint, NEW u \in UUID, Draw(e, u) PROVE Waits'
  BY <1>2 DEF Draw, At, Go
<1>3. ASSUME NEW e \in Endpoint, Create(e) PROVE Waits'
  BY <1>3 DEF Create, At, Go, Orphaned
<1>4. ASSUME NEW e \in Endpoint, Replace(e) PROVE Waits'
  BY <1>4 DEF Replace, At, Go
<1>5. ASSUME NEW e \in Endpoint, ReadInstances(e) PROVE Waits'
  BY <1>5 DEF ReadInstances, At, Go
<1>6. ASSUME NEW e \in Endpoint, Enlist(e) PROVE Waits'
  BY <1>6 DEF Enlist, At, Go, BeginBody, BeginDraw
<1>7. ASSUME NEW e \in Endpoint, Insert(e) PROVE Waits'
  BY <1>7 DEF Insert, At, Go
<1>8. ASSUME NEW e \in Endpoint, Inserted(e) PROVE Waits'
  BY <1>8 DEF Inserted, At, Go
<1>9. ASSUME NEW e \in Endpoint, Check(e) PROVE Waits'
  BY <1>9 DEF Check, At, Go, BeginDraw
<1>10. ASSUME NEW e \in Endpoint, OpenSocket(e) PROVE Waits'
  BY <1>10 DEF OpenSocket, At
<1>11. ASSUME NEW e \in Endpoint, CloseSocket(e) PROVE Waits'
  BY <1>11 DEF CloseSocket, At
<1>12. ASSUME NEW e \in Endpoint, Unregister(e) PROVE Waits'
  BY <1>12 DEF Unregister, At, Go
<1>13. ASSUME NEW e \in Endpoint, Drop(e) PROVE Waits'
  BY <1>13 DEF Drop, At, Go, Orphaned
<1>14. ASSUME NEW e \in Endpoint, Release(e) PROVE Waits'
  BY <1>14 DEF Release, At, Go
<1>15. CASE UNCHANGED evars
  BY <1>15 DEF evars
<1> QED BY <1>1, <1>2, <1>3, <1>4, <1>5, <1>6, <1>7, <1>8, <1>9, <1>10, <1>11, <1>12, <1>13, <1>14, <1>15 DEF ENext

(* However constructors and destructors race, the end of a context that is  *)
(* waited for needs nothing of the thread that waits, and no two threads    *)
(* write to the set of UUIDs at once.                                       *)
THEOREM EndWaitsForTheLiving == ESpec => []Waits
<1>1. EInit => Waits
  BY DEF EInit, Waits, InDestructor
<1>2. ETypeOK /\ Waits /\ [ENext]_evars => Waits'
  BY WaitsStep
<1>3. Inv => ETypeOK
  BY DEF Inv
<1> QED BY <1>1, <1>2, <1>3, Invariance, PTL DEF ESpec
=============================================================================
