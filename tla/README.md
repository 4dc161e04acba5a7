# LibZMQUtils in TLA+

LibZMQUtils offers two patterns over ZeroMQ: a command server with its clients
(request/reply) and publishers with subscribers (publish/subscribe).  Each side
runs a worker thread over a socket, and most of what can go wrong is in the
meeting of that thread with the threads that start, stop and configure it, with
the clock and with what arrives at the socket.  This directory holds
specifications of these parts, the instances TLC checks, and proofs of their
main properties for every instance.  Paths below are relative to
`src/LibZMQUtils`; `cpp` and `.h` stand for
`sources/CommandServerClient/command_server/command_server_base.cpp` and
`includes/LibZMQUtils/CommandServerClient/command_server/command_server_base.h`.

## The system

| Component | State | Operations | What makes it correct |
|---|---|---|---|
| `CommandServerBase` | working flag, REP socket and its receive timeout, registry of clients with the time each was last seen, alive check flag and timeout, limit of clients | start, stop, setters; the worker's receive, alive check, dispatch, connect, disconnect, other commands, reply | one reply per request; at most the limit of clients; dead clients found in bounded time, live ones never dropped; nothing left after a stop; start and stop return |
| `ClbkCommandServerBase` | map of callbacks by command | process a custom command with a callback | a missing or failing callback becomes a result, never the end of the worker |
| `CommandClientBase` | working, closed, connected, auto-alive and waiting flags; REQ socket, a PUSH/PULL pair to interrupt a wait | start, stop, reset, `doConnect`, `doDisconnect`, other commands; the alive worker | one request in flight; a stop interrupts a wait; connected means the server has the client, up to one timeout |
| `PublisherBase` | five bounded queues by priority, worker, PUB socket | enqueue, worker step, start, stop, reset | published in order of priority, nothing twice, nothing refused but for a full queue, stop returns |
| `SubscriberBase`, `ClbkSubscriberBase` | publishers, topic filters, worker, SUB socket and a private PUB socket that tells the worker to end | start, stop, (un)subscribe, filters, receive and dispatch | the socket has the filters and endpoints of the sets; a working subscriber has a worker |
| `CallbackHandler` | map id to callback, mutex | register, remove, has, invoke | no invocation of a removed callback, no self-deadlock |
| `UUIDGenerator` | set of generated UUIDs, mutex | generate | no UUID twice |
| `BinarySerializer` | buffer, size, read offset | write, read, release, move | read gives back what was written, no read past the end |
| `ZMQContextHandler` | shared context, list of users, mutex | construct, destroy | the context lives as long as a user |
| `ConsoleConfig` | saved settings of the terminal, close flag, exit callback, two mutexes, signal handler | configure, restore, set the exit callback, wait for the close; the handler | the terminal is given back, a closing signal ends the program, the exit callback finds its object |
| Network helper | none | `getHostIPsWithInterfaces`, which every constructor but the server's asks | an object without an adapter is not made |
| Amelas examples | home position of the controller; each main has one object of the library | the controller's commands and their clients; the four mains | OK means done, at the server, for this call |
| Console redirection, file, string and date helpers, unit test framework, debug classes | none that other parts rely on | input and output | outside this project |

Interactions.  Client and server meet only in messages: a client sends from two
REQ sockets under one UUID (its user's thread and its alive worker), the server
answers each request once.  Publisher and subscriber meet in messages too, over
sockets that lose what nobody is yet subscribed to.  Inside one object, threads
meet in a mutex, in atomic flags and in condition variables without predicates;
user code runs as callbacks on the worker thread, sometimes with a mutex held.  All
objects of a process share one ZeroMQ context and one generator of UUIDs, and a
program that uses them shares its main thread, or its object, with a signal handler.

Hard behaviours: a start or stop that meets its worker halfway (lost wakeups,
waits with a mutex held), the alive check with its moving socket timeout and
its settings changed by another thread, malformed messages in a socket with a
strict send/receive cycle, exceptions that end a worker, replies later than the
client's patience, requests that are later still, objects that come and go while a
callback runs, and a signal at any moment.  `PROJECT.json` lists them one by one under `hazards`.

## Modules

| Module | What it is |
|---|---|
| `Commands` | kinds of request and their results, as the server tells them apart (`recvFromSocket`, `processCommand`, `command_server_client_data.h`) |
| `CommandService` | the abstract server: members, limit, one command executed per step |
| `CommandServer` | `CommandServerBase` with its worker, its owner, a thread that calls setters, its clients and the clock; properties; refinement mapping |
| `MCCommandServer` | symmetry for TLC; used by the configurations `server_*.cfg` |
| `CommandServerProofs` | the inductive invariant of the server, the theorems that follow from it, and that it implements `CommandService` |
| `PriorityOutbox` | the abstract publisher: a bounded queue for each priority, the most urgent message goes first |
| `Publisher` | `PublisherBase` with its worker, its owner and the threads that enqueue; properties; refinement mapping |
| `MCPublisher` | priorities for TLC; used by `publisher_working.cfg` |
| `PublisherProofs` | the inductive invariant, and that `Publisher` implements `PriorityOutbox` |
| `CommandClient` | `CommandClientBase` with the user that sends commands, a thread that stops the client, its alive workers, and a server seen by its answers and its silence |
| `MCCommandClient` | the same for TLC; used by the configurations `client_*.cfg` |
| `CommandClientProofs` | the inductive invariant of the client and the theorems that follow from it |
| `Subscriber` | `SubscriberBase` with its owner, its worker, both sockets and what publishers send |
| `MCSubscriber` | topics for TLC; used by the configurations `subscriber_*.cfg` |
| `SubscriberProofs` | the inductive invariant of the subscriber and the theorems that follow from it |
| `BinaryFormat` | the layout and size of each type, and its read, as functions of the bytes and the byte order |
| `BinarySerializer` | `BinarySerializer`: the buffer, the threads that write to it, the reads, and its bytes sent to another host |
| `MCBinarySerializer` | values for TLC; used by `serializer_working.cfg` |
| `SerializerProofs` | that sizes are exact and reads give back what was written, for values of any length, and the inductive invariants of a serializer |
| `Session` | the Amelas clients, each a `CommandClientBase` as its user sees it, in front of `CommandService` with the Amelas controller behind its callbacks; the messages between them |
| `MCSession` | clients for TLC; used by `session_working.cfg` |
| `SessionProofs` | the inductive invariant of the sessions and the theorems that follow from it |
| `Dispatch` | `CallbackHandler` and the workers that call it (`ClbkCommandServerBase`, `ClbkSubscriberBase`), with the threads that register and remove callbacks |
| `Endpoints` | constructors and destructors of all objects: `ZMQContextHandler`, `UUIDGenerator`, the choice of adapters |
| `MCEndpoints` | hosts and interfaces for TLC; used by `endpoints_working.cfg` |
| `LifetimeProofs` | the inductive invariants of dispatch and of the endpoints, that the objects of callbacks and the shared context outlive their users, and what else follows |
| `Application` | the four mains of the Amelas examples with `ConsoleConfig` and its signal handler |
| `ApplicationProofs` | the inductive invariant of a program and the theorems that follow from it |

Composition: `CommandServer` implements `CommandService` (checked and proved), so
`Session` takes `CommandService` for the server (INSTANCE) and needs none of its
worker.  `Publisher` implements `PriorityOutbox` in the same way.  `Dispatch` is
what the step of `CommandServer` or `Subscriber` that processes a message consists
of, `Endpoints` what comes before and after the life each of them models, and
`Application` what goes on around one of them.

### CommandServer and the code

`wpc` is where the worker is in `serverWorker`, `opc` where the owner's thread is
in `startServer` or `stopServer`, `mpc` where the second thread is in
`setClientAliveTimeout`.  The other variables are members of the class or locals
of the worker, named beside their declaration.

| Action | Code |
|---|---|
| `StartServer`, `WaitDeployment`, `StartReturns` | `startServer`: launch, wait on the condition variable, return |
| `StopServer`, `SendClose`, `StopFinish` | `stopServer` and `internalStopServer`: lock and clear the flag; send the empty message; wait for the worker, delete the socket and the clients, unlock |
| `SetMaxNumberOfClients`, `SetClientStatusCheck`, `SetClientAliveTimeout`, `DisableCheck` | the setters; the second half of `setClientAliveTimeout(0)` is a step of its own |
| `ResetSocket`, `NotifyDeployment`, `EnterRecv`, `LeaveLoop` | start of the worker and head of its loop |
| `Receive`, `ReceiveTimeout`, `ReceiveError`, `WorkerDies` | the ways out of `recvFromSocket`: a message, `EAGAIN`, another error, an exception nobody catches |
| `AfterReceive`, `Dispatch` | the two decisions after a reception, each of which reads the flags anew |
| `CheckClientsAliveStatus` | the alive check; the timeout it reads before it has the mutex is `seen`, set by the step before |
| `SendError`, `SendReply` | the two replies |
| `ProcessCommand`, `ExecReqConnect`, `ExecReqDisconnect` | `processCommand` and the commands that change the registry; the others answer with a result of `Answers` |
| `Submit`, `Tick` | a client's request reaches the socket; time passes |

`mtx_` is not a variable: its critical sections are single actions, except that
of `stopServer`, which waits inside it, and `MutexFree` tells when it does not.

Abstractions, and what they leave out:

- **Requests** are a sender and a kind.  The inbox is the order in which the REP
  socket delivers; it delivers what arrived, once, as ZeroMQ does.  Anyone may
  send at any time, so a client that sends from two sockets, repeats itself,
  or uses the UUID of another is included.
- **Time** passes only while `recv` blocks with nothing to receive.  The header
  asks for callbacks that do not block (`.h:230-234`), so the handling of a
  message takes none.  Slow callbacks are a listed hazard, not modelled.
- **One owner thread** calls start, stop and the limit, one other thread the
  setters.  A start is not made while a worker of an earlier, failed start is
  still at the head of its loop.
- `flag_check_clients_alive_` at a check and the copy of the timeout that follows
  it are read in one step.  The copy and the use under the mutex are two.
- A condition variable does not wake spuriously (with wakeups the lost
  notification of `startServer` would sometimes be repaired by chance).
- The socket is bound or not in one step, after all the attempts `resetSocket`
  makes.  It is a nondeterministic choice.
- Getters and the `alive` callbacks' flag are left out; the constructor and the
  destructor, as far as other objects notice them, are in `Endpoints`, and what
  `processCommand` does with a custom command in `Dispatch`.

Bounds: `MaxInbox` requests waiting, ages not told apart from `AgeCap` on.  A
configuration has `AgeCap` above everything its properties compare an age with
(twice the timeout, for `DeadClientBound`).  The proofs have no such bounds.

### Publisher and the code

`pub` stands for `sources/PublisherSubscriber/publisher/publisher_base.cpp`.  `wpc`
is where the worker is in `messageQueueWorker`, `opc` where the owner is in
`startPublisher`, `stopPublisher` or `resetPublisher`, `upc` where the user that holds
`pub_mtx_` is in `enqueueMsg`.

| Action | Code |
|---|---|
| `StartPublisher`, `StartReturns` | `internalResetPublisher` with no socket and no worker to remove: bind, launch; set the flag, unlock |
| `StopPublisher`, `NotifyStop`, `StopReturns` | `internalStopPublisher`: set `stop_queue_worker_`; notify; join, clear the flag, delete the socket |
| `ResetPublisher` | the two locks of `pub_mtx_` by one thread |
| `EnqueueMsg`, `InternalEnqueueMsg`, `QueueOverflow`, `NotifyMsg` | `enqueueMsg`: lock and look at the socket; insert or refuse under `queue_mutex_`; notify after it |
| `LoopHead`, `Test`, `Block`, `Wake`, `Break` | the head of the loop and the wait with its predicate |
| `TakeMsg`, `SendMsg`, `SendFails`, `StopFromWorker` | the chain of queues; the send; its exception |

The two mutexes are read off the program counters (`PubFree`, `QueueFree`).  That the
worker releases `queue_mutex_` and sleeps in one step, but not in the step that
tests the predicate, is what a condition variable guarantees, and what a
notification without the mutex can fall between.

Abstractions, and what they leave out:

- A **message** is its priority and a topic that tells it from others; what
  `prepareMessage` makes of it, and whether a subscriber is there to receive
  it, are left out.  A send that sends no byte is a send: the loop goes on.
- **One owner thread.**  The threads that enqueue are any number, one at a time in
  `enqueueMsg` as `pub_mtx_` makes them.
- The attempts to bind are one nondeterministic step.  Locking `pub_mtx_` twice is
  undefined: it is a choice between blocking and the exception that common
  libraries throw.  An attempt to join itself does throw (the standard says so),
  and the program is `aborted`.
- No spurious wakeups: one would sometimes repair the notification a stop loses.

`MaxQueue` stands for `kMaxSendingQueueSize`: the code only asks whether a queue
is full and takes from its head, so queues of 2 show full, not full and order.
Three priorities are the two ends of `MessagePriority` and one between.

### CommandClient and the code

`cli` stands for `sources/CommandServerClient/command_client/command_client_base.cpp`.
`pc` is where each thread is: the user in `sendCommand` or `doConnect`, the other
thread in `stopClient`, a worker in `aliveWorker`, any of them in
`internalStopClient`, and `ret` is where it goes on after that.

| Action | Code |
|---|---|
| `StartClient`, `Start` | `startClient` (without sockets) or `resetClient`, and `internalResetClient` |
| `StopClient`, `StopTest` ... `StopDelete` | `stopClient`; `internalStopClient` step by step: test the flag, clear it, send the close message if a wait seems to go on, wait for its end, `stopAutoAlive`, delete the sockets |
| `DisableAutoAlive` | `disableAutoAlive`, and `stopAutoAlive` in it |
| `SendCommand`, `Send`, `SendToNothing`, `SendFails`, `ReturnFailed`, `Wait` | `sendCommand` up to `recvFromSocket` |
| `PollAnswered`, `PollReturns`, `PollFails`, `PollCrashes` | `recvFromSocket` for the user: a reply, a close message, the timeout; an error, which stops the client; a poll of deleted sockets |
| `StopWaiting`, `ReturnStopped`, `ReturnTimeout`, `Reset`, `ReturnBad`, `ReturnOk` | the rest of `sendCommand`, by result, with the ends of `doConnect` and `doDisconnect` |
| `StartAutoAlive`, `Assign` | `startAutoAlive`: launch of the worker, and the assignment of its future, which waits for the worker of the last future |
| `Create`, `Head`, `Period`, `SendAlive`, `SendAliveFails`, `Fail`, `AliveAnswered`, `AlivePollReturns`, `AlivePollFails`, `AliveStopped`, `AliveTimeout`, `AliveReset` | `aliveWorker`, and `recvFromSocket` for it |

`mtx_` and `client_close_mtx_` are read off the program counters (`MtxFree`,
`CloseFree`): the only sections of several steps are those of a worker, or of
`stopClient`, that runs `internalStopClient`.

Abstractions, and what they leave out:

- The **server** may give any answer, or none, at any time.  Answers are told apart as
  the client does: `COMMAND_OK`, `CLIENT_NOT_CONNECTED` and the others, among
  which are malformed ones.  That a reply comes only after a command is a
  property of the REQ socket; a reply to a socket that was deleted is lost.
- `stopAutoAlive` creates a REP socket and sends on it.  A REP socket that has received
  nothing refuses to send, the exception is caught, and nobody is told or awaited
  (`cli:325-333`).  So it only clears the flag, and there are places for two workers,
  the one the future stands for and the one it stood for before.
- The condition variable of the worker may wake it at any time and may miss any
  notification.  Periods and timeouts are steps that may be taken at any time.
- `deleteSockets` is one step.  Sending to deleted sockets, or sending the close
  message through one, ends the program (`crashed`).  A poll that goes on with deleted
  sockets, which is undefined, ends with an error or ends the program.
- `setServerAliveTimeout` and `setSendAlivePeriod` are covered by steps that take any
  time; `flag_client_closed_` and the record of when the server was seen are read by
  nobody.  Left out: the getters, the data of replies
  (`fastDeserialization` may throw out of `doConnect`, `cli:895`), and the race of
  `stopAutoAlive` with `startAutoAlive` on `auto_alive_future_`.
- One user thread.  `doConnect` and the others take no lock, so two users share a
  REQ socket; ZeroMQ forbids that.

### Subscriber and the code

`sub` stands for `sources/PublisherSubscriber/subscriber/subscriber_base.cpp`.  `opc` is
where the owner is in `startSubscriber`, `internalStopSubscriber` or `resetSocket`, and
`after` which of `stopSubscriber` and `resetSocket` goes on after that; `wpc` is where
the worker is in `subscriberWorker`.

| Action | Code |
|---|---|
| `StartSubscriber`, `WaitDeployment` | `startSubscriber`: launch, wait without a predicate |
| `Subscribe`, `Unsubscribe`, `AddTopicFilter`, `RemoveTopicFilter`, `StopSubscriber` | the change of a set, and the first step of `internalStopSubscriber` if the flag is set |
| `TestWorker`, `SendExit`, `Join`, `DeleteSockets` | the rest of `internalStopSubscriber`: look at the future, send the exit message, wait, delete |
| `ResetReturns`, `ResetSocket` | the rest of `resetSocket`, for the owner and for the worker: new sockets from the sets, the flag |
| `NotifyDeployment`, `LoopHead`, `Receive`, `Process`, `ReceiveError`, `ReceiveDies` | `subscriberWorker` and the ways out of `recvFromSocket` |
| `Publish` | a message reaches the socket |

Abstractions, and what they leave out:

- **One owner thread**, as only start and stop take the mutex.  It does not start a
  worker while that of a failed start is still at the head of its loop.
- The **exit message** arrives: the SUB socket connects and subscribes before the
  private PUB socket is bound (`sub:478-496`), and has the pipe to itself.  In which
  order the socket delivers it and what publishers sent makes no difference.
- A **message** is a kind: data, what `recvFromSocket` refuses (also the reserved topic
  of a publisher), what throws when it is deserialized.  A filter, a prefix in ZeroMQ,
  is the whole topic or empty.
- Creating both sockets succeeds or not, in one step; a connection that comes up late
  is a message that is not sent.
- What `Process` hands to process functions and callbacks is in `Dispatch`.  Left out:
  the destructor, which is a stop without its callback.

`MaxInbox` bounds what waits in the socket; an exit message comes on top.

### BinarySerializer and the code

`BinaryFormat` has one operator per `writeSingle` and `readSingle` (or two, where the
code branches on trivial types), and `SerializedSize` for the overloads of
`serializedSizeSingle`.  In `BinarySerializer`, `todo` is what a thread has still to
do in `write`.

| Action | Code |
|---|---|
| `Write` | `write` with one or two arguments, or `writeFile`: the sizes are added up |
| `Reserve`, `Grow` | `reserve`: the comparison without the mutex, the new buffer with it |
| `AppendBytes` | a section of `writeSingle` under the mutex: a value, or the size, one string of a `vector<string>`, one member of a `Serializable` |
| `Read` | `read` or `readFile` of one value, with its checks, early returns and exceptions |
| `ResetReading`, `ClearData` | the same, or what `moveUnique` and `release` leave |
| `Send` | `moveUnique` or `release`, and the constructors that take or copy bytes |

Abstractions, and what they leave out:

- A byte has 4 values, a `SizeUnit` and a number two bytes, so that sizes of up to 15
  and reversed bytes can be told.  The largest of them are in the place of the sizes near
  2^64 that make `offset_ + size` wrap (`Left`, modulo `Word`): the check passes, and then
  `resize` throws, as no container holds as many, or, for the length of a file
  (`binary_serializer.cpp:287`), nothing refuses it and the read is undefined.  Sums
  with `sizeof` or the size of a variable (`There`) do not wrap, as both are in memory.
- Reads are made in the order and of the types that were written, as
  `binary_serializer.h:600` demands, or past the end.  A read that threw halfway is
  followed by no other before a rewind.
- A `Serializable` has a number and a text and is written as the tests do
  (`write` in `serialize`, `read` in `deserialize`, `calcSizeHelper`).
- No thread reads, clears or moves the buffer while another writes: `readSingle` of a
  vector does not hold the mutex (`binary_serializer.tpp:709`), and the class
  gives no promise about reading what is half written.
- That `reserve` reads the size and the capacity is one step.
- Left out: the overloads for `filesystem::path`, which only MinGW compiles, serialize
  functions outside of a class, tuples (a `write` or `read` of several values), the
  JSON and hexadecimal forms.

The properties follow three history variables: which values are in the buffer, which
of them is next, and whether a read threw halfway.

### Session and the code

`AmelasControllerClient` and `AmelasControllerServer` (`examples/CommandServerClient/ServerClientAmelas`)
in front of each other.  `cl` is `ExampleClientAmelas.cpp` there; the other code is the
client's and the server's base class, the server's subclass and the controller.

| Action | Code |
|---|---|
| `DoConnect`, `DoDisconnect`, `DoAlive`, `DoGetServerTime`, `DoPing`, `SetHomePosition`, `GetHomePosition`, `DoOpenSearchTelescope`, `DoExampleNotImp` | `parseCommand` of the example, the method of the client, `executeCommand`, and `sendCommand` up to the wait |
| `ParseCommand` | a line that leads to no command |
| `Serve` | `processCommand`, with the callback and the controller's method in it |
| `Reply` | the reply of the server's worker |
| `Drop` | the alive check |
| `Restart` | the server's program ends and is run again |
| `Answered` | the rest of `sendCommand`, `doConnect`, `doDisconnect` and `executeCommand` |
| `TimeOut`, `AliveTimeOut` | the timeout of a command or of the alive worker, and the reset of the client |
| `Tell` | the program tells its user |

Abstractions, and what they leave out:

- The **server** is `CommandService`: a request is executed in one step.  Its callbacks
  stay registered, and do not throw.  A restart comes between two commands; what it
  had received and not begun may be lost.
- A **socket** of a client is a number.  A reset takes the next; what the old one has sent
  may or may not arrive, and requests of different sockets, which are different
  connections, arrive in any order.  `MaxSockets` bounds how often a client loses its
  patience: one that has no socket left waits for its answer.
- The **alive worker** gives the server up only between commands, as that it may do so
  while a command waits is the matter of `CommandClient`.  Its messages change nothing
  that is said here: to be late is the matter of `Drop`, which may come at any time.
- A position is right or wrong.  Formats and texts are left out.  The client has a valid
  address, so `sendCommand` fails in no other way.

Two things this makes plain, both of which the code allows and the properties leave
room for.  A `setHomePosition` that timed out may be executed after a later one that
was confirmed, and a `disconnect` that timed out may undo a later `connect`: nothing
in a request tells which socket of the client it is from, and the server cannot
refuse an old one.  `OkMeansDone` therefore speaks of this very call, and
`SessionsAgree` of the time until the doubt is settled.  Apart from the model,
`std::stod` takes `nan` for a number (`cl:219`), and no comparison with `nan` holds, so
the range check of the controller lets it pass.

### Dispatch and the code

| Action | Code |
|---|---|
| `RegisterCallback`, `InsertFunction` | `registerCallback` under the mutex, and `registerReqProcFunc`, in two steps, as no mutex guards it |
| `SetErrorCallback` | `setErrorCallback`, in two steps for the same reason |
| `Remove` | `removeCallback`, `clearCallbacks` |
| `MakeObject`, `DeleteObject` | users, with the objects their callbacks belong to |
| `ReceiveRequest`, `RecvFromSocket` | what the worker of a server, or of a subscriber, holds after a reception |
| `Find` | `processCommand`, or `subscriberWorker`: the search of the process function |
| `TakeParameters`, `CheckCallback`, `InvokeCallback`, `RunCallback` | `processClbkRequest` of either side: deserialize, `hasCallback`, `invokeCallback` with the mutex held while the callback runs |
| `TellError`, `Done` | the error callback of a subscriber; the reply of a server and the next message |

Abstractions, and what they leave out:

- One module for both sides: they differ in what is received (a server clears its
  containers, a subscriber keeps its `PublishedMessage`) and in whom an error is told.
- The checks of a server before a custom command, the exit message of a subscriber and
  the errors of ZeroMQ are in the modules of the workers.
- Data is absent, right for the callback's parameters, or wrong.  A callback returns,
  throws, or calls back into `CallbackHandler`, whose mutex is not recursive.
- Users delete an object only after its callbacks have been removed: that this is
  enough is what `RunsAlive` says.
- An `unordered_map` or `std::function` that is read while it is written is undefined:
  the search finds, does not find, or ends the program (`crashed`).

### Endpoints and the code

Its initial states, steps and specification are `EInit`, `ENext` and `ESpec`, so that one
module can extend `Dispatch` and `Endpoints`, which have no variable in common.

| Action | Code |
|---|---|
| `Test`, `Create`, `Replace`, `ReadInstances`, `Enlist` | the constructor of `ZMQContextHandler`, which takes no mutex: the test of the list, `make_unique`, `push_back` in its read and its write |
| `Unregister`, `Drop`, `Release` | its destructor, with the mutex; `Release` is the end of a context, which waits for its sockets |
| `Draw`, `Insert`, `Inserted` | `generateUUIDv4`: draw and search without the mutex, insert with it |
| `Check` | `getHostIPsWithInterfaces` and what the derived constructor makes of it: it throws if there is no adapter |
| `OpenSocket`, `CloseSocket` | start, stop, reset and the derived destructors, which close the socket first |

Abstractions: an object is constructed, used and destroyed by one thread.  The list of
users is a set; two that are appended at once keep one of the two.  A null context that is
used ends the program (`crashed`).  The 122 random bits are any member of `UUID`.  A
search while another thread inserts finds or misses anything.  `raced` and `alone` are
history variables: they tell whether two handlers, or two generators, were at work at once.

### Application and the code

`con` is `sources/Utilities/console_config.cpp`.  `pc` is where main is, `hpc` where the
handler is.

| Action | Code |
|---|---|
| `ConfigureConsole`, `SetExitCallback`, `RestoreConsole`, `WaitForClose`, `Finish` | the same of `ConsoleConfig`, step by step; its destructor |
| `Construct`, `Start`, `Call`, `Stop`, `Destroy` | the object of main; each call takes the object's mutex and returns |
| `Failed`, `Loop`, `Read`, `EndRead` | the rest of the mains: a failed start, the loop, a line of the user or the end of the input |
| `Press` | Ctrl+C |
| `Handle`, `RunCallback`, `EndCallback`, `Notify` | `consoleCtrlHandler` (`con:138`) or `signalHandler` (`con:244`): flag, exit callback, notification |

Abstractions, and what they leave out:

- On Windows the handler is a thread; elsewhere it **interrupts main**, which does not move
  until it ends, and a mutex that main holds is never free for it.  To lock a mutex or
  notify in such a handler is undefined by POSIX; the model takes it to work when the
  mutex is free.
- Ctrl+C only: `SIGTERM` on top of it and the other console events are left out.
- The assignment of the exit callback takes two steps; a handler that reads it half
  written finds it, does not, or ends the program.
- What a constructor throws nobody catches: the program is `aborted`.  A read of a line
  ends in a line, in the end of the input, or in the signal.  Whatever calls of the object
  a line makes are one call.
- After a failed start the server's main restores the console, asks for Enter and restores
  it no more; the subscriber's asks for Enter and leaves the restoring to `Finish`.

`MaxPresses` bounds how often the user presses Ctrl+C.

## Properties and runs

Deadlock is checked in `serializer_working` and `session_working`.  It is not in the others,
which may really stop: `stopServer` and the worker of a server block each other
(`StopReturnsOrBlocks` says that it is the only way), a start whose notification came
first waits for ever, a stop of a publisher whose notification was missed and a reset
stop it, a callback waits for the mutex its own thread holds, and a program that has
ended or crashed does nothing.  The liveness properties tell which of these ends a call
may come to.

| Run | Instance | What it shows |
|---|---|---|
| `server_working` | 2 clients, limits 0, 1 and 2, timeouts 0, 1, 2 and both settings of the check changed at any moment, malformed and corrupt requests, `recv` may throw | nothing is left after a stop (`StoppedIsClean`), one reply per request, and an error reply without one only if `recv` gave none (`StrictAlternation`), when the dead are found (`DeadClientBound`) and that nobody else is dropped (`LeaveReasons`, `RequestKeepsAlive`); `ImplementsService` |
| `server_liveness` | 2 clients, fair threads, timeouts 0 and 2 | `AnsweredUnlessStopped`, `DeadIsDropped`, `StopReturnsOrBlocks` |
| `publisher_working` | priorities 0, 2 and 4, 2 topics, queues of 2, sends that fail, fair threads | `SocketOutlivesWorker`; `ImplementsOutbox`: order, limit, no loss or repetition, across restarts; `BacklogIsServed`, `StopReturnsOrMissed` |
| `subscriber_working` | 2 endpoints, 2 topics and the empty filter, every kind of message, sockets that fail, fair threads | `SocketFollowsSets`, `SocketOutlivesWorker`; `StopReturns`, `StartReturnsOrMissed` |
| `subscriber_goes_deaf` | 1 endpoint, 1 topic, no messages, no failures | one divergence |
| `client_working` | a second thread that stops, sockets that fail to be created, to send and to poll, fair threads | `OneWorker`, `CloseMsgIsFresh`; `CommandReturns`, `WorkersEnd`, `StopClientReturns` |
| `client_reconnect_hangs` | one thread, no failures | one divergence |
| `serializer_working` | 15 values, at least two of each type but scalars and arrays, buffer of 12 bytes, both byte orders, initial capacity too small or ample | `TypeOK`, `DataFits`, `SizesAreExact`, `OffsetIsExact`, `ReadsBack`, `ThrowsPastTheEnd` |
| `session_working` | 2 clients, room for one; the first sends every command and may lose its patience once, the second takes its place and its home | `TypeOK` with one message per socket, `SessionsAgree`, `OkMeansDone` |
| `dispatch_working` | 2 users, 2 commands of which one has parameters, 2 objects, data right, wrong and absent, 3 calls of users | `RunsAlive`, `OkMeansReturned`, `GivenIsReceived`, `Returns` |
| `endpoints_working` | 3 objects, 2 UUIDs, a host with and one without adapters | `ContextOutlivesUsers`, `DistinctIfAlone` |
| `application_working` | both builds, the four mains, Ctrl+C up to 3 times | `CallbackInTime`, `ConsoleRestored`, `CloseEnds` |

In `session_working` two sockets of one client are what it takes for a late request to meet
a newer one; the server tells clients apart by their UUIDs only, so a second client is
all that others can be to the first.  In `dispatch_working` three calls are what it takes to
register, remove and delete an object, or to put another in its place, around one message;
the callbacks of a third command would be those of the second.  Three endpoints are
two that overlap and one that has been there before; with two UUIDs the third has to take
one that was given.  The third Ctrl+C finds a handler at work, on Windows one that waits for
the mutex and one that will.

The client has no bounds: its state is finite, with two places for workers, which
are enough because `startAutoAlive` launches the next worker only from the user's
thread, and that waits until only the new one is left.

A buffer of 12 bytes holds three numbers, or one of the longest values and a shorter
one: enough for a value that is read after another of each kind, for a buffer that
grows between two writes, and for a read past the end.

Two clients are needed for anything in the registry to depend on another client
(the moving timeout, the limit, requests of others); no code compares three.  A
limit of 1 makes the second client exceed it.  A timeout of 2 lets a client be
younger, as old and older than it.

`DeadClientBound` deserves a word.  A connect or a disconnect sets the socket
timeout for the client seen last (`cpp:923`), not for the client next to expire,
so a silent client is found late, but never later than twice the timeout.  It is
stated for the stretches in which the check is enabled and every reception was
followed by a check: `unchecked` is a history variable that records when a setter
or an invalid message broke such a stretch (an invalid message is answered
without a check, so a stream of them postpones the detection).

### Fairness

`FairSpec` has weak fairness of the worker's steps (the operating system runs the
thread; a `recv` that throws is not such a step), of what remains of a call the
owner or the setter thread has begun, and of time.  Nobody is obliged to call
anything, and no client to send.  For the publisher `FairSpec` has weak fairness of
the worker's steps and of what remains of a call of the owner or of a user; no
user has to enqueue and no send has to fail.  For the client `FairSpec` has weak fairness
of what remains of a call of the user or of the stopping thread, and of each worker's
steps, but not of the answers of the server nor of failures of ZeroMQ.  A poll that is
neither answered nor told to end does end, at its timeout.
For the subscriber `FairSpec` has
weak fairness of the worker's steps but `ReceiveError`, and of what remains of a call
of the owner.  `Dispatch` has weak fairness of the worker from a message it has found to its
end: callbacks return or are stuck, users need not call anything.  `Application` has weak
fairness of main and of the handler: the calls of the object return, the user need not
type, and reads of a line that nobody ends are not steps of main.  `Session` states safety
only: messages may be late for ever.
The loops that sample a flag (`cli:704`) are weakly fair: they may never look
while the flag is down, so `StopClientReturns` and `WorkersEnd` except a user that
sends again and again.  `WorkersEnd` does not say that a worker ends when its flag
is set again: then it goes on, which is the divergence below.

### Divergences

| Run | Documented | The code |
|---|---|---|
| `subscriber_goes_deaf` | `subscriber_base.h:130` tells whether the worker thread is active | `sub:181`, `:204`, `:216`, `:228` `resetSocket` ends the worker, launches no other and sets the flag |
| `client_reconnect_hangs` | `command_client_base.h:157` disconnect and connect to enable the alive messages again | `cli:303` the worker was not awaited, sees the flag set again, goes on, and the assignment of the new future waits for it for ever |

Others are plain in the code, or told by a property that holds, and the model
follows them without a run:

- The loop of the server can be stopped safely (`cpp:506`), but `cpp:342` waits with the
  mutex the worker needs: `StopReturnsOrBlocks` says that this is the only way not to
  return.
- A send error stops the publisher for safety (`pub:279`): its worker joins itself
  (`pub:281`, `pub:538`), which throws, and the program is `aborted`.
- `startServer` returns whether the server started (`.h:434`), but `cpp:241` waits, without a
  predicate, for a notification that may have been given before: `WaitDeployment` is a
  state that nothing then leaves.
- A working server processes connections (`.h:353`); an exception (`cpp:697`, `cpp:713`) ends
  the worker, which `WorkerDies` follows, and the flag stays set.
- `startSubscriber` may miss its notification (`sub:132`), as `startServer` does;
  `StartReturnsOrMissed` says that this is the only way.
- A second `subscribe` is lost, as all publishers are stored under the nil UUID (`sub:176`),
  and the socket of a working subscriber is reset for it all the same.
- A publisher that sends no data sends three parts, which `sub:401` refuses.  A message
  that does not deserialize (`sub:415`, `sub:432`) ends the worker, and the subscriber
  says that it works.
- A limit of 0 clients means no limit by `.h:392`; `cpp:405` refuses every client.
- `stopPublisher` may join for ever (`pub:535`): the worker misses flag and
  notification between its test and its wait.  `StopReturnsOrMissed` says that this
  is the only way.
- A command or alive message that timed out before a stop of the client resets it
  after the stop (`cli:224`): it has sockets and works again.
- `updateServerTimeout` says that it calculates the minor timeout (`cpp:922`) and
  takes the greatest, that of the client seen last (`cpp:923`), which is why
  `DeadClientBound` is twice the timeout.
- A timeout of 0 disables the checks by `.h:370`, but `cpp:158` stores it before the
  check is disabled: a check made in between drops every client.
- A `recv` that times out after the check was disabled is answered with an error
  (`cpp:533`) although nobody asked; the REP socket refuses that reply.
- `resetPublisher`, which restarts the publisher by `publisher_base.h:118`, locks
  `pub_mtx_` twice (`pub:339`, `pub:448`), so it never resets one.
- `isConnected` of the client: a stop leaves it true (`cli:690`), so does an alive
  message answered `CLIENT_NOT_CONNECTED` (`cli:860`), and a connect sets it after the
  alive worker may already have found the server dead (`cli:893`).
- `stopAutoAlive` is to wait for the worker (`cli:324`) and never does.
- The serializer is thread safe (`binary_serializer.h:247`), but `binary_serializer.cpp:99`
  compares the capacity without the mutex and each write reserves for itself alone: with
  two writers in `Thread`, `AppendBytes` runs past the buffer.
- The reads give the original items back (`binary_serializer.h:447`), but the size of the
  elements of an empty vector is written and not read (`binary_serializer.tpp:697`, `:768`):
  what follows is read from the wrong bytes.  `OffsetIsExact` leaves it out.
- The serializer adjusts to the byte order (`binary_serializer.h:255`), and so a text
  written on a little-endian host is reversed on a big-endian one.  An empty text
  or sequence is not stored in the variable, which keeps what it held
  (`binary_serializer.cpp:419`).  A `Serializable` is refused if the variable that
  it is read into happens to hold a larger one (`binary_serializer.cpp:395`).
- The UUID generator is thread safe and gives unique UUIDs (`uuid_generator.h:207`, `:227`); it
  searches what it has given before it takes its mutex (`uuid_generator.cpp:118`), so two
  threads may be given the same.  `DistinctIfAlone` says that this is the only way.
- The invalid message that an error callback is given (`subscriber_base.h:261`) is the
  container of the message before, or half of each: `sub:330` declares it once and nothing
  clears it.  `GivenIsReceived` says that no other callback is given old data.
- `waitForClose` blocks until the closing signal (`console_config.h:127`); the handler
  sets the flag and notifies without the mutex of the wait (`con:167`), so a signal between
  the two is lost.  `CloseEnds` says that this, a handler that waits for the main it
  interrupts, and an object that is gone are the only ways not to end.
- `restoreConsole` restores the cursor (`console_config.h:246`); on POSIX it does not, which is why
  `ConsoleRestored` asks it of Windows only.

## Proofs

`CommandServerProofs` proves, for any set of clients, kinds, limits and timeouts
that satisfy the assumptions in `CommandServer`, with `FiniteSetTheorems` and the
SMT and PTL back ends:

- The inductive invariant `Inv` is `TypeInv` (types, and a finite registry, which
  `Cardinality` needs), `RegistryInv` (the limit, and that it does not move while
  anyone is registered) and `ServerInv`, whose four parts are `Lifecycle` (where owner
  and worker can be together, and what a server that does not work holds),
  `ReplyCycle` (when a reply is owed), `Timely` (what the socket timeout and the
  receive in progress leave for the clients) and `RequestHeld` (what is known of
  the request in hand).  None of the properties is inductive alone.  For instance
  `DeadClientBound` needs that the age of a client and what remains of the receive
  in progress stay below twice the timeout, that a receive begins with a timeout
  no greater than the alive timeout, and that every client is younger than the
  timeout then; and that needs what a check leaves (`LeastRemainingBound`) and
  what a connect or disconnect leaves (`ServerTimeoutBound`).
- From it follow `TypeCorrect`, `ServerInvariant`, `RegistryBounded`,
  `StoppedServerIsClean`, `RepCycleKept`, `DeadClientDetected`, `SleepsOnlyAlone`,
  and the action properties `LeavesForAReason` and `SenderSurvivesCheck`.
- It proves `ServerImplementsService` too: the initial states map to initial states
  and each step to a step of `CommandService` or a stutter.
  The invariant is needed where the service only drops members or moves the
  limit with no command pending, and where a disconnect runs for a member.

- `SessionProofs` proves `TypeCorrect`, `SessionsInAgreement` and `OkWasDone`, for any
  clients, positions, limit of the server and number of sockets a client may use up.  None
  of the three is inductive alone, and the invariant adds three parts.  `Exchange` is what
  keeps requests, results and calls apart: a message of a client's current socket belongs to
  the call that it waits for and is the only one, those of earlier sockets are requests that
  nobody waits for, and a reply to them is dropped.  `Executed` says of a result on its way
  what `OkMeansDone` says of one that has arrived, with the home of the telescope among those
  the call has seen.  `Agreement` says of a client without a doubt that no request of an
  earlier socket is on its way, and that its flag agrees with the registry, or will when the
  result on its way is there (`Flag`).  An answer settles
  a doubt only if no older request was left when the server gave it, and then none can be
  executed after it.
- `SessionUsesService` proves that the server of a session, with its restarts, is the service
  that `CommandServer` implements, so that the theorems on sessions hold of the server as it is.

- `PublisherProofs` proves, for any priorities, topics and limit, `TypeCorrect`,
  `OneSession`, `SocketIsThere` and `PublisherImplementsOutbox`.  The inductive invariant
  is `TypeOK /\ Sessions`.  `SocketOutlivesWorker` follows from it and is not inductive
  alone: that the socket is deleted only when the worker is done needs the one
  holder of `pub_mtx_`, and that a worker told to stop belongs to the session that
  is being stopped.  The refinement needs it where the publisher closes (nothing
  in hand) and where the worker picks (some queue is not empty).

- `CommandClientProofs` proves `TypeCorrect`, `OneWorkerAtATime`,
  `UserNeverAwaitsItself` and `CloseMessageIsConsumed` for both values of both
  constants.  The inductive invariant adds to these properties `WaitingInPoll`
  (the waiting flag is set only within a wait, which is why a user that stops the
  client never drains itself) and `ReturnsHome` (where a stop goes back to, without
  which types are not inductive).

- `SubscriberProofs` proves, for any endpoints, topics and bound, `TypeCorrect`,
  `SocketIsOfTheSets` and `SocketIsThere`.  The inductive invariant adds `SocketOfSession` (the
  socket of a subscriber that works or is being stopped) and `Together` (where owner
  and worker can be together).  `SocketOutlivesWorker` needs that a worker in its loop
  means a flag that is set or a stop that has not yet waited for it.

- `LifetimeProofs` proves `EndpointTypeCorrect`, `ContextOutlivesAllUsers` and
  `DistinctWhenAlone`, for any number of objects, any UUIDs and hosts.  The inductive invariant
  adds to the types `OneContext` (while no two constructions overlap: which objects are in
  the list, and at which step the context is there) and `Unseen` (what a UUID given to one
  generator at work alone is to those given before).

- `ApplicationProofs` proves `TypeCorrect`, `CallbackFindsObject` and `ConsoleIsRestored`, for
  any set of builds and mains and any number of signals.  The inductive invariant adds `Mutex`
  (who holds the mutex of `ConsoleConfig`, which is what makes `restoreConsole` wait for the
  handler), `Reach` (what has to have happened for a callback to be there) and `Console`
  (what was saved).

- Of `Dispatch` it proves `DispatchTypeCorrect`, `CallbackObjectLives`, `OkIsTrue` and
  `CallbackIsGivenItsMessage`, for any users, commands, objects and data.  Each of the last three
  has an inductive invariant of its own: `Registered` (a callback in the map has its object,
  and the one that runs is in the map, as the mutex is held), `Checked` (parameters
  first, callback last) and `Fresh` (the container holds the data of the message by the
  time a process function is found).

- `SerializerProofs` proves `TypeCorrect` for any threads, and of a serializer that one thread
  writes to (`OneWriter`) `WritesFit`, `SizesAddUp`, `OffsetsAddUp`, `ThrowsOnlyThere` and
  `WrittenIsRead`: all that `serializer_working` checks, for any values, capacities, hosts and
  length of arrays.  With a second writer `DataFits` is refuted at once
  (`binary_serializer.cpp:99`, see Divergences).
  - *The format.*  `SizeIsExact`: the bytes of a value are as many as `serializedSize` says,
    for every type.  `ReadStays`: a read of any bytes, as any type and into any variable,
    gives a value or throws, with the offset where it was or further on within the bytes; or it
    is undefined, and then the bytes are `MisSized`: a size of elements larger than theirs, a
    count larger than the array, or the length of a file that wraps, which the code accepts
    (`binary_serializer.tpp:672`, `:729`, `:819`, `binary_serializer.cpp:287`).  That includes
    sizes whose sum or product wraps, but for the width of a `SizeUnit`.  `ReadIs`: what a read makes of the bytes of a value, into any variable and on either
    host, and how far it goes, exceptions apart (`RefusedThrows`, `NothingLeft`).
  - *The writer.*  `WriterInv` adds to types and `DataFits` what a write in progress has before
    it: `Room` (what remains to be appended fits, or will after the `reserve` or the growth that
    comes first), `Layout` (the bytes there are and those to come are those of the values
    written and to be completed) and `Bounded`.  `DataFits` alone is not inductive: that a
    section fits was settled by a `reserve` several steps before.
  - *The reader.*  `ReaderInv` adds `Cursor`: if no read threw halfway and none was of an empty
    vector, the offset is the sum of the sizes of the values read.  It is at the same time what
    the next read needs, by `PlaceIs`, to find its value.
  - *Induction over data.*  The theorems of the library that would give it cannot be used, as
    they take an operator.  `NatSetInduction` has a set in its place, and comes from
    the well-foundedness of `<`.  With it, each fold (`Total`, `FlattenSeq`) and each recursive
    function (`Subvectors`, `Elements`) is shown to be the last of what the prefixes of its
    data give, and to be the only such thing; what follows needs no induction but for that.
  - *Assumptions.*  A value is one that a variable of its type can hold
    (`ValueAssumption`; a file that could be opened has a name), sizes are naturals, and
    the buffer is not larger than a `SizeUnit` can say (`SizeAssumption`): 15 bytes here, where
    a `SizeUnit` has two bytes of four values each, and what no memory can reach in the code.

### What the liveness properties rest on

That something happens eventually is out of the prover's reach, but what a liveness
property says of this code has two halves that are not: whoever waits is still to be woken by
somebody who is on the way, and the exceptions that the property makes are the only
ones, and real.  These are invariants and action properties, proved for every
value of the constants; TLC adds that the one who is on the way arrives.

| Liveness property | Nobody waits in vain | The exceptions |
|---|---|---|
| `StopReturnsOrBlocks` (server) | `CloseMessageArrives`: a worker in `recv` that is awaited has the close message before it, also if the socket never times out | `BlockedForEver`: a worker before a section of `mtx_` that `stopServer` holds (`cpp:342`) stays there |
| start of the server (no run: refuted) | | `MissedForEver`: a start that missed its notification (`cpp:241`) does not return |
| `BacklogIsServed` (publisher) | `NoLostInsertion`: with a message in a queue the worker sleeps only if a user is about to notify it | |
| `StopReturnsOrMissed` (publisher) | `StopHangsIfMissed`: an owner in the join waits for a sleeping worker exactly if the notification was missed | `MissedForEver`: as the owner holds `pub_mtx_`, no user's notification comes instead.  `AbortNeedsSendError`: the program is aborted by a send error only |
| `StopReturns` (subscriber) | `ExitMessageArrives`: the worker is on its way out or has the exit message before it, and that message is never left to a later session | |
| `StartReturnsOrMissed` (subscriber) | `StartHangsIfMissed`: a start waits for a worker that still has to notify it, unless it was missed | `MissedForEver` |
| `CommandReturns`, `StopClientReturns` | `StopWakesThePoll`: a stop that waits has told the poll it waits for, and no replacement of the sockets by another thread takes that back; `SocketsAreInUse`, `OneHolderEach`, on which it rests; `NoTwoWait` | |
| `CloseEnds` (programs) | `CloseIsNoticed`: with the flag set main sleeps only if the running handler has still to notify it, or missed it; `MutexesInOrder` | `HandlerIsStuckOrCrashed`: a handler does not end only if it interrupted a call of the object or the assignment of its callback, or came after `restoreConsole` |
| `Returns` (dispatch) | `MutexIsTheCallbacks`: the mutex is held only while a callback runs | `StuckForEver`: a callback that calls its `CallbackHandler` does not return, and nobody registers or removes one any more |

The finding of `subscriber_goes_deaf` has such a theorem as well: `DeafUntilStopped` proves
that `resetSocket` returns with no worker, whatever worker there was before, and that a
subscriber without one stays so through every subscribe, filter and message and through each
step of the resets these make (`Deaf` covers them, as `working` is false meanwhile), until
`stopSubscriber` is called or the sockets cannot be created.  `EndWaitsForTheLiving` proves what holds of constructors and destructors also
when they race: the end of a context waits only for sockets that others can close.

The theorems on hangs assume, as the models do, that a condition variable does not wake
by chance; in the client, where it may, none is stated.

### Only model-checked

The type invariants of the modules with proofs are proved and not run (but that of
`Session`, which is both), as are `ServerInv`, `AtMostMax`, `SleepsIffAlone` (server), `Sessions` (publisher) and
`NoSelfWait` (client), on which the others rest.

The liveness properties (`AnsweredUnlessStopped`,
`DeadIsDropped`, `StopReturnsOrBlocks`, `BacklogIsServed`,
`StopReturnsOrMissed`, `CommandReturns`, `WorkersEnd`, `StopClientReturns`,
`StopReturns`, `StartReturnsOrMissed`, `CloseEnds`, `Returns`) are, as
fairness is out of the prover's reach; so are the divergences, which are counterexamples.
Every invariant and every action property of a passing run is proved.  What the theorems on
the serializer do not cover is a second writer, and other widths of a byte, a number and
a `SizeUnit` than those of the model.

## Not modelled

- **Debug command server and client, debug publisher and subscriber**: callbacks that
  print what they are given and return.
- **Console redirection, string and date helpers, unit test framework**: input, output and
  formatting, by one thread, with no state that another part reads.
- **Getters** of all components.  Two of them return references to containers that the worker
  changes; a race on a container has no states that a model could tell apart.
- **Callbacks that take time, stop their own object or take its mutex**: the headers forbid
  the first, and the others wait for themselves at once.
- **Two owners of one object**, and the hazards that come with them (`cpp:236`): the model of
  each object has one thread that starts and stops it, but for the client, which has two.
- **The JSON and hexadecimal forms of the serializer, paths**.
- **The Amelas loggers** of the publisher and subscriber examples: they enqueue what the
  user types and print what is received.

## Plan

In the order of what matters most to a user of the library:

1. `CommandServer`, its abstract service and its proofs (done, above).
2. `CommandClient` and its proofs (done, above).
3. `Session`: the client and the server's abstract service over messages that are late, lost or
   overtaken, and its proofs (done, above); left: liveness under clients that are patient.
4. `Publisher` with the priority outbox it implements, `Subscriber`, and their proofs
   (done, above); left: their composition `PubSub`, that is, what a subscriber is given, in
   order of priority, and that nothing its filters exclude reaches it.
5. `BinarySerializer` and its proofs (done, above).
6. `Endpoints`, `Dispatch` and `Application`, with their proofs (done, above).
7. The server's left-overs: two owners, a start over the worker of a failed start,
   callbacks that take time or the mutex.
