------------------------------- MODULE Session -------------------------------
(***************************************************************************)
(* Command clients and a command server with the messages between them:    *)
(* AmelasControllerClient and AmelasControllerServer, in front of an       *)
(* AmelasController.  The server is CommandService, which CommandServer    *)
(* implements.  A client's command is a request on its current REQ socket; *)
(* at the end of its patience the client throws that socket away, but not  *)
(* what the socket has sent: requests of different sockets are different   *)
(* connections, which nothing orders, and a late one is still served.      *)
(***************************************************************************)
EXTENDS Commands, Naturals

CONSTANTS
  Client,
  MaxClients,   \* setMaxNumberOfClients
  Position,     \* AltAzPos
  Wrong,        \* those out of range
  Unset,        \* AltAzPos(): (-1, -1), where home_pos_ begins as well
  Asks,         \* by client: the commands its program sends
  MaxSockets    \* bound, by client: how many sockets it uses

ASSUME SessionAssumption ==
  /\ Wrong \subseteq Position /\ Unset \in Wrong
  /\ MaxClients \in Nat /\ MaxSockets \in [Client -> Nat \ {0}]

VARIABLES
  members, limit, outcome,  \* the server, see CommandService
  home,                     \* home_pos_ of the controller
  answer,                   \* the reply to outcome, as the server will send it
  requests, replies,        \* in transit
  sock,                     \* by client: which of its sockets client_socket_ is
  connected,                \* by client: flag_server_connected_
  call,                     \* by client: its command and, when it returns, the result
  homes, times,             \* history: where home was and how often the command ran, since its call
  doubt                     \* history: see SessionsAgree

server == <<members, limit, outcome, home, answer>>
client == <<sock, connected, call>>
history == <<homes, times, doubt>>
vars == <<server, requests, replies, client, history>>

Service == INSTANCE CommandService WITH MaxChoices <- {MaxClients}

(* What the server takes each command for.  The program registers callbacks *)
(* for three of its own and none for the fourth.                           *)
KindOf == [ connect |-> "connect", disconnect |-> "disconnect", alive |-> "alive",
            getServerTime |-> "time", ping |-> "ping",
            setHomePosition |-> "callback", getHomePosition |-> "callback",
            openSearchTelescope |-> "callback", exampleNotImp |-> "unmapped" ]

Command == DOMAIN KindOf

(* A client that sends nothing, and a call as long as it has no result: the *)
(* containers it passes hold INVALID_ERROR and (-1, -1).                   *)
Pending == [op |-> "none", error |-> "INVALID_ERROR", position |-> Unset]
Idle == [command |-> "none", position |-> Unset, result |-> Pending]

Init ==
  /\ Service!Init /\ home = Unset /\ answer = {}
  /\ requests = {} /\ replies = {}
  /\ sock = [c \in Client |-> 1]
  /\ connected = [c \in Client |-> FALSE]
  /\ call = [c \in Client |-> Idle]
  /\ homes = [c \in Client |-> {}] /\ times = [c \in Client |-> 0]
  /\ doubt = [c \in Client |-> FALSE]
-----------------------------------------------------------------------------
(* The client's program. *)

(* sendCommand: one request with the client's UUID, of three parts or, with *)
(* parameters, four.                                                       *)
Request(c, k, p) == [from |-> c, sock |-> sock[c], command |-> k, position |-> p]

Send(c, k, p) ==
  /\ call[c] = Idle /\ k \in Asks[c]
  /\ call' = [call EXCEPT ![c] = [Idle EXCEPT !.command = k, !.position = p]]
  /\ requests' = requests \cup {Request(c, k, p)}
  /\ homes' = [homes EXCEPT ![c] = {home}] /\ times' = [times EXCEPT ![c] = 0]
  /\ UNCHANGED <<server, replies, sock, connected, doubt>>

DoConnect(c) == Send(c, "connect", Unset)
DoDisconnect(c) == Send(c, "disconnect", Unset)
DoAlive(c) == Send(c, "alive", Unset)
DoGetServerTime(c) == Send(c, "getServerTime", Unset)
DoPing(c) == Send(c, "ping", Unset)
SetHomePosition(c) == \E p \in Position : Send(c, "setHomePosition", p)
GetHomePosition(c) == Send(c, "getHomePosition", Unset)
DoOpenSearchTelescope(c) == Send(c, "openSearchTelescope", Unset)
DoExampleNotImp(c) == Send(c, "exampleNotImp", Unset)

(* A line that is no command, or has no two numbers for a position: nothing *)
(* is sent.                                                                *)
ParseCommand(c) ==
  /\ call[c] = Idle
  /\ \E r \in {"UNKNOWN_COMMAND", "NOT_IMPLEMENTED", "BAD_PARAMETERS"} :
       call' = [call EXCEPT ![c].command = "none", ![c].result.op = r]
  /\ UNCHANGED <<server, requests, replies, sock, connected, history>>

(* The program has told its user how it went.                              *)
Tell(c) ==
  /\ call[c].result # Pending
  /\ call' = [call EXCEPT ![c] = Idle]
  /\ homes' = [homes EXCEPT ![c] = {}] /\ times' = [times EXCEPT ![c] = 0]
  /\ UNCHANGED <<server, requests, replies, sock, connected, doubt>>

Waits(c) == call[c].command # "none" /\ call[c].result = Pending

(* "Executed successfully", to the user.                                   *)
Successful(r) == r.op = "COMMAND_OK" /\ r.error = "SUCCESS"
-----------------------------------------------------------------------------
(* The server, with the controller behind its callbacks. *)

(* setHomePosition, getHomePosition and doOpenSearchTelescope of the        *)
(* controller: where home is then, the error, and the position returned.   *)
PutHome(p) == IF p \in Wrong THEN [home |-> home, error |-> "INVALID_POSITION", position |-> Unset]
                             ELSE [home |-> p, error |-> "SUCCESS", position |-> Unset]
ReadHome == [home |-> home, error |-> "SUCCESS", position |-> home]
OpenSearch == [home |-> home, error |-> "SUCCESS", position |-> Unset]

(* What a command that the server executes does; one without a callback    *)
(* leaves the containers of the client's call as they are.                 *)
Effect(m) ==
  CASE m.command = "setHomePosition" -> PutHome(m.position)
    [] m.command = "getHomePosition" -> ReadHome
    [] m.command = "openSearchTelescope" -> OpenSearch
    [] OTHER -> [home |-> home, error |-> "INVALID_ERROR", position |-> Unset]

(* Since this request is answered, c's flag says what the server says, or   *)
(* will once the answer has come.                                          *)
Settled(m, r) ==
  /\ m.sock = sock[m.from]
  /\ \A n \in requests : n.from = m.from => n = m
  /\ \/ m.command \in {"connect", "disconnect"} /\ r = "COMMAND_OK"
     \/ r = "CLIENT_NOT_CONNECTED"

(* processCommand.  The callbacks stay registered, so that a member's       *)
(* command is executed.                                                    *)
Serve(m) ==
  /\ Service!Execute(m.from) /\ outcome'.kind = KindOf[m.command]
  /\ KindOf[m.command] = "callback" => outcome'.result \in {"COMMAND_OK", "CLIENT_NOT_CONNECTED"}
  /\ requests' = requests \ {m}
  /\ LET e == IF outcome'.result = "COMMAND_OK" THEN Effect(m)
              ELSE [home |-> home, error |-> "INVALID_ERROR", position |-> Unset]
     IN /\ home' = e.home
        /\ answer' = {[to |-> m.from, sock |-> m.sock,
                       result |-> [op |-> outcome'.result, error |-> e.error,
                                   position |-> e.position]]}
  /\ homes' = [c \in Client |-> IF Waits(c) THEN homes[c] \cup {home'} ELSE homes[c]]
  /\ times' = IF Waits(m.from) /\ m.sock = sock[m.from]
              THEN [times EXCEPT ![m.from] = @ + 1] ELSE times
  /\ doubt' = [doubt EXCEPT ![m.from] = @ /\ ~Settled(m, outcome'.result)]
  /\ UNCHANGED <<replies, client>>

(* A reply to a socket that is no more goes nowhere.                       *)
Reply ==
  /\ Service!Reply
  /\ replies' = replies \cup {a \in answer : a.sock = sock[a.to]} /\ answer' = {}
  /\ UNCHANGED <<home, requests, client, history>>

(* The server finds clients dead.                                          *)
Drop ==
  /\ Service!Drop
  /\ doubt' = [c \in Client |-> doubt[c] \/ c \in members \ members']
  /\ UNCHANGED <<home, answer, requests, replies, client, homes, times>>

(* The server's program ends, having answered what it was executing, and is *)
(* run again.  What it had received and not begun is lost.                 *)
Restart ==
  /\ outcome = Service!None
  /\ members' = {} /\ home' = Unset
  /\ requests' \in SUBSET requests
  /\ homes' = [c \in Client |-> IF Waits(c) THEN homes[c] \cup {Unset} ELSE homes[c]]
  /\ doubt' = [c \in Client |-> doubt[c] \/ c \in members]
  /\ UNCHANGED <<limit, outcome, answer, replies, client, times>>
-----------------------------------------------------------------------------
(* The client's command returns. *)

(* Mutant: the flag is kept when the server says that it has no such client. *)
AnsweredStaysConnected(a) ==
  LET c == a.to
  IN /\ Waits(c) /\ a.sock = sock[c]
     /\ replies' = replies \ {a}
     /\ call' = [call EXCEPT ![c].result = a.result]
     /\ connected' = [connected EXCEPT ![c] =
          CASE call[c].command = "connect" /\ a.result.op = "COMMAND_OK" -> TRUE
            [] call[c].command = "disconnect" /\ a.result.op = "COMMAND_OK" -> FALSE
            [] OTHER -> @]
     /\ UNCHANGED <<server, requests, sock, history>>

(* sendCommand, and what doConnect, doDisconnect and executeCommand make of *)
(* its reply.                                                              *)
Answered(a) ==
  LET c == a.to
      forced == a.result.op = "CLIENT_NOT_CONNECTED" /\ connected[c]
  IN /\ Waits(c) /\ a.sock = sock[c]
     /\ replies' = replies \ {a}
     /\ call' = [call EXCEPT ![c].result =
                   IF forced THEN [a.result EXCEPT !.op = "DISCONNECTED_FROM_SERVER"] ELSE a.result]
     /\ connected' = [connected EXCEPT ![c] =
          CASE call[c].command = "connect" /\ a.result.op = "COMMAND_OK" -> TRUE
            [] call[c].command = "disconnect" /\ a.result.op = "COMMAND_OK" -> FALSE
            [] OTHER -> @ /\ ~forced]
     /\ UNCHANGED <<server, requests, sock, history>>

(* Mutant: the socket is kept, and with it the reply that is late.          *)
TimeOutKeepsSocket(c) ==
  /\ Waits(c)
  /\ call' = [call EXCEPT ![c].result.op = "TIMEOUT_REACHED"]
  /\ connected' = [connected EXCEPT ![c] = FALSE]
  /\ doubt' = [doubt EXCEPT ![c] = TRUE]
  /\ UNCHANGED <<server, sock, requests, replies, homes, times>>

(* internalResetClient: a new socket; what the old one had not sent yet is  *)
(* lost (its linger is 0), what it had sent is not.                        *)
NewSocket(c) ==
  /\ sock[c] < MaxSockets[c] /\ sock' = [sock EXCEPT ![c] = @ + 1]
  /\ \/ UNCHANGED requests
     \/ requests' = {m \in requests : ~(m.from = c /\ m.sock = sock[c])}
  /\ replies' = {a \in replies : a.to # c}

TimeOut(c) ==
  /\ Waits(c) /\ NewSocket(c)
  /\ call' = [call EXCEPT ![c].result.op = "TIMEOUT_REACHED"]
  /\ connected' = [connected EXCEPT ![c] = FALSE]
  /\ doubt' = [doubt EXCEPT ![c] = TRUE]
  /\ UNCHANGED <<server, homes, times>>

(* The alive worker, on a socket of its own, gives the server up.  Whether  *)
(* there is one, and that it may do so while a command waits, is the matter *)
(* of CommandClient; its messages change nothing that is said here.         *)
AliveTimeOut(c) ==
  /\ call[c] = Idle /\ NewSocket(c)
  /\ connected' = [connected EXCEPT ![c] = FALSE]
  /\ doubt' = [doubt EXCEPT ![c] = @ \/ connected[c]]
  /\ UNCHANGED <<server, call, homes, times>>

Next ==
  \/ \E c \in Client :
       \/ DoConnect(c) \/ DoDisconnect(c) \/ DoAlive(c) \/ DoGetServerTime(c) \/ DoPing(c)
       \/ SetHomePosition(c) \/ GetHomePosition(c) \/ DoOpenSearchTelescope(c)
       \/ DoExampleNotImp(c) \/ ParseCommand(c) \/ Tell(c)
       \/ TimeOut(c) \/ AliveTimeOut(c)
  \/ \E m \in requests : Serve(m)
  \/ \E a \in replies : Answered(a)
  \/ Reply \/ Drop \/ Restart

Spec == Init /\ [][Next]_vars
-----------------------------------------------------------------------------
OpResult == Results \cup {"none", "DISCONNECTED_FROM_SERVER"}
ReplyContent == [op : OpResult, error : {"INVALID_ERROR", "SUCCESS", "INVALID_POSITION"},
                 position : Position]

(* The types; that the controller's home is the one it began with or one in *)
(* its range; and that a REQ socket has at most one request or reply.      *)
TypeOK ==
  /\ members \subseteq Client /\ limit = MaxClients
  /\ home \in (Position \ Wrong) \cup {Unset}
  /\ requests \subseteq [from : Client, sock : Nat, command : Command,
                         position : Position]
  /\ answer \cup replies \subseteq [to : Client, sock : Nat, result : ReplyContent]
  /\ \A m, n \in requests : m.from = n.from /\ m.sock = n.sock => m = n
  /\ \A a, b \in answer \cup replies : a.to = b.to /\ a.sock = b.sock => a = b
  /\ sock \in [Client -> Nat] /\ \A c \in Client : sock[c] \in 1 .. MaxSockets[c]
  /\ connected \in [Client -> BOOLEAN]
  /\ call \in [Client -> [command : Command \cup {"none"}, position : Position,
                          result : ReplyContent]]
  /\ homes \in [Client -> SUBSET Position] /\ times \in [Client -> Nat]
  /\ doubt \in [Client -> BOOLEAN]

(***************************************************************************)
(* isConnected and the server's registry part ways when a command times    *)
(* out, when the server drops the client or is restarted, and when a late  *)
(* request of an earlier socket is served after all.  They meet again: a   *)
(* connect or disconnect that is answered with OK, or any command that is  *)
(* answered CLIENT_NOT_CONNECTED, restores the agreement, if no request of *)
(* an earlier socket is still on its way.                                  *)
(***************************************************************************)
SessionsAgree ==
  \A c \in Client : ~doubt[c] /\ ~Waits(c) => (connected[c] <=> c \in members)

(***************************************************************************)
(* Whatever is late, lost or asked by others meanwhile, a command returns  *)
(* OK only if the server has executed it, that is this very call, once,    *)
(* before it returned: a position that is said to be set was home, one in  *)
(* the range is not refused, and the position got was home during the call.*)
(***************************************************************************)
OkMeansDone ==
  \A c \in Client : LET r == call[c].result IN
    r.op = "COMMAND_OK" =>
      /\ times[c] = 1
      /\ call[c].command = "setHomePosition" =>
           IF call[c].position \in Wrong THEN r.error = "INVALID_POSITION"
           ELSE Successful(r) /\ call[c].position \in homes[c]
      /\ call[c].command = "getHomePosition" => Successful(r) /\ r.position \in homes[c]
=============================================================================
