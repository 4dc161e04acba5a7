------------------------------ MODULE Endpoints ------------------------------
(***************************************************************************)
(* What every server, client, publisher and subscriber goes through before  *)
(* and after its own life: ZMQContextHandler (zmq_context_handler.cpp),    *)
(* whose context all sockets of the process share, UUIDGenerator           *)
(* (uuid_generator.cpp) and the choice of network adapters.  Each endpoint  *)
(* is constructed, used and destroyed by a thread of its own.              *)
(***************************************************************************)
EXTENDS Naturals, Sequences

CONSTANTS
  Endpoint,     \* the objects, each of which may be constructed again
  UUID,         \* what 122 random bits may give
  NoUUID,       \* the nil UUID of an object that has none yet
  Host,         \* lists of the interfaces a host may have
  Interface     \* the names and addresses that a constructor may be given

ASSUME NoUUIDAssumption == NoUUID \notin UUID

VARIABLES
  context,      \* whether context_ holds a context
  instances,    \* instances_
  pc,           \* where each endpoint is in its constructor or destructor
  seen,         \* what push_back has read of instances_
  kind,         \* what is being constructed
  sock,         \* its socket: none, of the context, or of one that is being ended
  uuid,         \* its UUID
  generated,    \* generated_uuids_
  alone,        \* history: no other UUID was being generated meanwhile
  raced,        \* history: a handler was constructed during another's construction or destruction
  crashed       \* a null context was used

handler == <<context, instances, seen, raced>>
generator == <<uuid, generated, alone>>
evars == <<handler, generator, pc, kind, sock, crashed>>

Kind == {"server", "publisher", "client", "subscriber"}

InHandler == {"create", "replace", "read", "append"}
InDestructor == {"drop", "release"}
InGenerator == {"draw", "insert", "inserting"}
Stage == InHandler \cup InDestructor \cup InGenerator \cup {"none", "check", "live", "unwind"}

(* Names with an E, that a module may extend Dispatch as well.             *)
EInit ==
  /\ context = FALSE /\ instances = {} /\ raced = FALSE
  /\ pc = [e \in Endpoint |-> "none"]
  /\ seen = [e \in Endpoint |-> {}]
  /\ kind = [e \in Endpoint |-> "server"]
  /\ sock = [e \in Endpoint |-> "none"]
  /\ uuid = [e \in Endpoint |-> NoUUID] /\ generated = {}
  /\ alone = [e \in Endpoint |-> FALSE]
  /\ crashed = FALSE

At(e, from) == ~crashed /\ pc[e] = from
Go(e, to) == pc' = [pc EXCEPT ![e] = to]
Others(e, places) == \E f \in Endpoint \ {e} : pc[f] \in places
-----------------------------------------------------------------------------
(* ZMQContextHandler. *)

(* The sockets of a context that is ended: its end waits for them.         *)
Orphaned == [e \in Endpoint |-> IF sock[e] = "open" THEN "old" ELSE sock[e]]

(* The constructor tests the list without the mutex.                       *)
Test(e, k) ==
  /\ At(e, "none")
  /\ kind' = [kind EXCEPT ![e] = k]
  /\ raced' = (raced \/ Others(e, InHandler \cup InDestructor))
  /\ Go(e, IF instances = {} THEN "create" ELSE "read")
  /\ UNCHANGED <<context, instances, seen, generator, sock, crashed>>

(* make_unique, and the end of the context there was.                      *)
Create(e) ==
  /\ At(e, "create")
  /\ context' = TRUE
  /\ sock' = IF context THEN Orphaned ELSE sock
  /\ Go(e, IF context THEN "replace" ELSE "read")
  /\ UNCHANGED <<instances, seen, raced, generator, kind, crashed>>

(* The end of a context blocks while one of its sockets is open.           *)
Ended == \A e \in Endpoint : sock[e] # "old"

Replace(e) ==
  /\ At(e, "replace") /\ Ended /\ Go(e, "read")
  /\ UNCHANGED <<handler, generator, kind, sock, crashed>>

(* push_back, which reads and then writes what others may write meanwhile. *)
ReadInstances(e) ==
  /\ At(e, "read")
  /\ seen' = [seen EXCEPT ![e] = instances]
  /\ Go(e, "append")
  /\ UNCHANGED <<context, instances, raced, generator, kind, sock, crashed>>

(* generateUUIDv4 begins.                                                  *)
BeginDraw(e) ==
  /\ Go(e, "draw")
  /\ alone' = [f \in Endpoint |->
                 IF f = e THEN ~Others(e, InGenerator)
                 ELSE alone[f] /\ pc[f] \notin InGenerator]

(* The body of the derived constructor: the subscriber alone looks at the  *)
(* adapters first.                                                         *)
BeginBody(e) ==
  IF kind[e] = "subscriber" THEN Go(e, "check") /\ UNCHANGED alone ELSE BeginDraw(e)

(* Mutant: the handler is not entered in the list.                         *)
EnlistNothing(e) ==
  /\ At(e, "append")
  /\ BeginBody(e)
  /\ UNCHANGED <<handler, uuid, generated, kind, sock, crashed>>

Enlist(e) ==
  /\ At(e, "append")
  /\ instances' = seen[e] \cup {e}
  /\ seen' = [seen EXCEPT ![e] = {}]
  /\ BeginBody(e)
  /\ UNCHANGED <<context, raced, uuid, generated, kind, sock, crashed>>

(* Mutant: the destructor leaves the context.                              *)
UnregisterOnly(e) ==
  /\ \/ At(e, "live")
     \/ At(e, "unwind")
  /\ sock[e] = "none" /\ ~Others(e, InDestructor)
  /\ instances' = instances \ {e}
  /\ raced' = (raced \/ Others(e, InHandler))
  /\ uuid' = [uuid EXCEPT ![e] = NoUUID] /\ alone' = [alone EXCEPT ![e] = FALSE]
  /\ Go(e, "none")
  /\ UNCHANGED <<context, seen, generated, kind, sock, crashed>>

(* The destructor holds the mutex; the derived one has closed the socket.  *)
(* An exception in the derived constructor leads here too.                 *)
Unregister(e) ==
  /\ \/ At(e, "live")
     \/ At(e, "unwind")
  /\ sock[e] = "none" /\ ~Others(e, InDestructor)
  /\ instances' = instances \ {e}
  /\ raced' = (raced \/ Others(e, InHandler))
  /\ uuid' = [uuid EXCEPT ![e] = NoUUID] /\ alone' = [alone EXCEPT ![e] = FALSE]
  /\ Go(e, IF instances \ {e} = {} THEN "drop" ELSE "none")
  /\ UNCHANGED <<context, seen, generated, kind, sock, crashed>>

Drop(e) ==
  /\ At(e, "drop")
  /\ context' = FALSE
  /\ sock' = Orphaned
  /\ Go(e, "release")
  /\ UNCHANGED <<instances, seen, raced, generator, kind, crashed>>

Release(e) ==
  /\ At(e, "release") /\ Ended /\ Go(e, "none")
  /\ UNCHANGED <<handler, generator, kind, sock, crashed>>
-----------------------------------------------------------------------------
(* UUIDGenerator. *)

(* The set is searched without the mutex: while another thread inserts,    *)
(* the search may find or miss anything.                                   *)
NotFound(e, u) == u \notin generated \/ Others(e, {"inserting"})

Draw(e, u) ==
  /\ At(e, "draw") /\ NotFound(e, u)
  /\ uuid' = [uuid EXCEPT ![e] = u]
  /\ Go(e, "insert")
  /\ UNCHANGED <<handler, generated, alone, kind, sock, crashed>>

Insert(e) ==
  /\ At(e, "insert") /\ ~Others(e, {"inserting"})
  /\ Go(e, "inserting")
  /\ UNCHANGED <<handler, generator, kind, sock, crashed>>

(* Mutant: what was generated is not kept.                                 *)
InsertNothing(e) ==
  /\ At(e, "inserting")
  /\ Go(e, IF kind[e] = "subscriber" THEN "live" ELSE "check")
  /\ UNCHANGED <<handler, generator, kind, sock, crashed>>

Inserted(e) ==
  /\ At(e, "inserting")
  /\ generated' = generated \cup {uuid[e]}
  /\ Go(e, IF kind[e] = "subscriber" THEN "live" ELSE "check")
  /\ UNCHANGED <<handler, uuid, alone, kind, sock, crashed>>
-----------------------------------------------------------------------------
(* The adapters. *)

(* getHostIPsWithInterfaces: the IPv4 addresses, up to the first whose name *)
(* is not found; none if the system call fails.                            *)
HostIPs(host, found) == SelectSeq(SubSeq(host, 1, found), LAMBDA a : a.family = "inet")

Resolved(i) == IF i = "localhost" THEN "127.0.0.1" ELSE i

(* What the constructor takes of them; it throws if that is nothing.       *)
Adapters(k, i, ips) ==
  CASE k = "subscriber" -> ips
    [] k = "client" /\ i = "" -> IF ips = <<>> THEN <<>> ELSE <<Head(ips)>>
    [] k = "client" /\ i # "" -> SelectSeq(ips, LAMBDA a : a.name = i)
    [] i = "" -> <<>>
    [] i = "*" -> ips
    [] OTHER -> SelectSeq(ips, LAMBDA a : Resolved(i) \in {a.ip, a.name})

(* A client may be refused for its server's endpoint, too.                 *)
Check(e) ==
  /\ At(e, "check")
  /\ \E host \in Host, i \in Interface : \E found \in 0 .. Len(host) :
       IF Adapters(kind[e], i, HostIPs(host, found)) = <<>>
       THEN Go(e, "unwind") /\ UNCHANGED alone
       ELSE \/ kind[e] = "subscriber" /\ BeginDraw(e)
            \/ kind[e] # "subscriber" /\ Go(e, "live") /\ UNCHANGED alone
            \/ kind[e] = "client" /\ Go(e, "unwind") /\ UNCHANGED alone
  /\ UNCHANGED <<handler, uuid, generated, kind, sock, crashed>>
-----------------------------------------------------------------------------
(* The sockets, which start, stop, reset and the destructors make and      *)
(* delete.                                                                 *)

OpenSocket(e) ==
  /\ At(e, "live") /\ sock[e] = "none"
  /\ IF context THEN sock' = [sock EXCEPT ![e] = "open"] /\ UNCHANGED crashed
     ELSE crashed' = TRUE /\ UNCHANGED sock
  /\ UNCHANGED <<handler, generator, pc, kind>>

CloseSocket(e) ==
  /\ At(e, "live") /\ sock[e] # "none"
  /\ sock' = [sock EXCEPT ![e] = "none"]
  /\ UNCHANGED <<handler, generator, pc, kind, crashed>>

ENext ==
  \E e \in Endpoint :
    \/ \E k \in Kind : Test(e, k)
    \/ Create(e) \/ Replace(e) \/ ReadInstances(e) \/ Enlist(e)
    \/ \E u \in UUID : Draw(e, u)
    \/ Insert(e) \/ Inserted(e) \/ Check(e)
    \/ OpenSocket(e) \/ CloseSocket(e)
    \/ Unregister(e) \/ Drop(e) \/ Release(e)

ESpec == EInit /\ [][ENext]_evars
-----------------------------------------------------------------------------
ETypeOK ==
  /\ context \in BOOLEAN /\ raced \in BOOLEAN /\ crashed \in BOOLEAN
  /\ instances \subseteq Endpoint /\ generated \subseteq UUID
  /\ pc \in [Endpoint -> Stage]
  /\ seen \in [Endpoint -> SUBSET Endpoint]
  /\ kind \in [Endpoint -> Kind]
  /\ sock \in [Endpoint -> {"none", "open", "old"}]
  /\ uuid \in [Endpoint -> UUID \cup {NoUUID}] /\ alone \in [Endpoint -> BOOLEAN]

(***************************************************************************)
(* The constructor of ZMQContextHandler takes no mutex.  As long as nobody  *)
(* constructs an endpoint during the construction or destruction of        *)
(* another one's handler, however constructors fail and in whatever order  *)
(* objects go: every endpoint and every socket has the one context, which  *)
(* no end of a context ever waits for, and the last to go takes it away.   *)
(***************************************************************************)
ContextOutlivesUsers ==
  ~raced =>
    /\ ~crashed
    /\ \A e \in Endpoint :
         /\ pc[e] \notin InHandler \cup InDestructor \cup {"none"} => context
         /\ sock[e] # "old"
    /\ (\A e \in Endpoint : pc[e] = "none") => ~context

(***************************************************************************)
(* generateUUIDv4 looks for a UUID before it takes the mutex to insert it. *)
(* Two endpoints, which a registry or a log tells by their UUIDs, have the *)
(* same only if one of them was given it while another was generated.      *)
(***************************************************************************)
DistinctIfAlone ==
  \A e, f \in Endpoint :
    e # f /\ pc[e] = "live" /\ pc[f] = "live" /\ uuid[e] = uuid[f] => ~(alone[e] /\ alone[f])
=============================================================================
