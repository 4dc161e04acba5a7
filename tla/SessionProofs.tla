---------------------------- MODULE SessionProofs ----------------------------
(* That a client and a server agree on their session, that OK means done,   *)
(* and that the server of Session is the service, for any clients, sockets *)
(* and positions.                                                          *)
EXTENDS Session, TLAPS

InTransit == answer \cup replies

(* A message to or from the current socket of a client belongs to the       *)
(* command that the client waits for, and it is the only one there is; a    *)
(* reply to an earlier socket does not leave the server.                    *)
Exchange ==
  /\ answer = {} <=> outcome = Service!None
  /\ (\A a, b \in answer : a = b) /\ answer \cap replies = {}
  /\ \A m \in requests :
       /\ m.sock <= sock[m.from]
       /\ m.sock = sock[m.from] =>
            /\ Waits(m.from)
            /\ m.command = call[m.from].command /\ m.position = call[m.from].position
  /\ \A a \in InTransit : a.sock <= sock[a.to] /\ (a.sock = sock[a.to] => Waits(a.to))
  /\ \A a \in replies : a.sock = sock[a.to]
  /\ \A m \in requests, a \in InTransit : ~(m.from = a.to /\ m.sock = a.sock)

(* What a result of OK says of the call it is for.                          *)
Done(c, r) ==
  r.op = "COMMAND_OK" =>
    /\ times[c] = 1
    /\ call[c].command = "setHomePosition" =>
         IF call[c].position \in Wrong THEN r.error = "INVALID_POSITION"
         ELSE Successful(r) /\ call[c].position \in homes[c]
    /\ call[c].command = "getHomePosition" => Successful(r) /\ r.position \in homes[c]

(* It is so already when the server executes the command.                   *)
Executed ==
  /\ \A c \in Client : Waits(c) => home \in homes[c]
  /\ \A m \in requests : m.sock = sock[m.from] => times[m.from] = 0
  /\ \A a \in InTransit : a.sock = sock[a.to] => Done(a.to, a.result)
  /\ \A c \in Client : Done(c, call[c].result)

(* The flag that the answer will leave.                                     *)
Flag(c, r) ==
  CASE call[c].command = "connect" /\ r.op = "COMMAND_OK" -> TRUE
    [] call[c].command = "disconnect" /\ r.op = "COMMAND_OK" -> FALSE
    [] OTHER -> connected[c] /\ r.op # "CLIENT_NOT_CONNECTED"

(* Without a doubt no request of an earlier socket is on its way, and the   *)
(* flag agrees with the registry, or will when the answer has come.         *)
Agreement ==
  \A c \in Client : ~doubt[c] =>
    /\ \A m \in requests : m.from = c => m.sock = sock[c]
    /\ \A a \in InTransit : a.to = c /\ a.sock = sock[c] => (Flag(c, a.result) <=> c \in members)
    /\ (\A a \in InTransit : ~(a.to = c /\ a.sock = sock[c])) => (connected[c] <=> c \in members)

Inv == TypeOK /\ Exchange /\ Executed /\ Agreement
-----------------------------------------------------------------------------
(* The vocabulary of the program, and of the service it is handed to.       *)
LEMMA CommandKinds ==
  /\ Command = { "connect", "disconnect", "alive", "getServerTime", "ping", "setHomePosition",
                 "getHomePosition", "openSearchTelescope", "exampleNotImp" }
  /\ \A k \in Command : KindOf[k] \in {"connect", "disconnect"} \cup DOMAIN Service!Answers
  /\ \A k \in Command : KindOf[k] = "connect" <=> k = "connect"
  /\ \A k \in Command : KindOf[k] = "disconnect" <=> k = "disconnect"
BY DEF Command, KindOf, Service!Answers

(* What the service does with a command of one of these kinds.              *)
LEMMA Executes ==
  ASSUME members \subseteq Client, NEW c \in Client, NEW k \in Command,
         Service!Execute(c), outcome'.kind = KindOf[k]
  PROVE  /\ outcome = Service!None /\ outcome' # Service!None
         /\ outcome'.result \in Results
         /\ members' \subseteq Client
         /\ limit' = limit
         /\ \A d \in Client : d # c => (d \in members' <=> d \in members)
         /\ IF outcome'.result = "COMMAND_OK" /\ k \in {"connect", "disconnect"}
            THEN c \in members' <=> k = "connect"
            ELSE c \in members' <=> c \in members
         /\ outcome'.result = "CLIENT_NOT_CONNECTED" => c \notin members'
<1> USE DEF Service!Finish
<1>1. outcome = Service!None /\ limit' = limit
  BY DEF Service!Execute
<1>2. KindOf[k] # "none" /\ KindOf[k] \notin DOMAIN Service!BadConnect
  BY CommandKinds DEF Service!BadConnect, Service!Answers
<1>3. outcome' # Service!None
  BY <1>2 DEF Service!None
<1>4. CASE Service!ConnectClient(c)
  <2>1. KindOf[k] = "connect" /\ k = "connect"
    BY <1>4, CommandKinds DEF Service!ConnectClient
  <2> QED BY <1>1, <1>3, <1>4, <2>1 DEF Service!ConnectClient, Results
<1>5. CASE Service!RefuseConnect(c)
  BY <1>2, <1>5 DEF Service!RefuseConnect
<1>6. CASE Service!RefuseStranger(c)
  BY <1>1, <1>3, <1>6 DEF Service!RefuseStranger, Results
<1>7. CASE Service!DisconnectClient(c)
  <2>1. KindOf[k] = "disconnect" /\ k = "disconnect"
    BY <1>7, CommandKinds DEF Service!DisconnectClient
  <2> QED BY <1>1, <1>3, <1>7, <2>1 DEF Service!DisconnectClient, Results
<1>8. CASE Service!ServeMember(c)
  <2> PICK j \in DOMAIN Service!Answers : \E r \in Service!Answers[j] : Service!Finish(c, j, r)
    BY <1>8 DEF Service!ServeMember
  <2> PICK r \in Service!Answers[j] : Service!Finish(c, j, r)
    OBVIOUS
  <2>1. r \in Results /\ r # "CLIENT_NOT_CONNECTED"
    BY DEF Service!Answers, Results
  <2>2. j \notin {"connect", "disconnect"} /\ j = KindOf[k]
    BY DEF Service!Answers
  <2>3. k \notin {"connect", "disconnect"}
    BY <2>2, CommandKinds
  <2> QED BY <1>1, <1>3, <1>8, <2>1, <2>3 DEF Service!ServeMember
<1> QED BY <1>4, <1>5, <1>6, <1>7, <1>8 DEF Service!Execute

(* What a command that is executed leaves and says.                         *)
LEMMA EffectIs ==
  ASSUME home \in (Position \ Wrong) \cup {Unset}, NEW m, m.position \in Position
  PROVE  /\ Effect(m).home \in (Position \ Wrong) \cup {Unset}
         /\ Effect(m).error \in {"INVALID_ERROR", "SUCCESS", "INVALID_POSITION"}
         /\ Effect(m).position \in Position
         /\ m.command = "setHomePosition" =>
              IF m.position \in Wrong THEN Effect(m).error = "INVALID_POSITION"
              ELSE Effect(m).error = "SUCCESS" /\ Effect(m).home = m.position
         /\ m.command = "getHomePosition" =>
              Effect(m).error = "SUCCESS" /\ Effect(m).position = Effect(m).home
<1> USE SessionAssumption DEF Effect, PutHome, ReadHome, OpenSearch
<1>1. CASE m.command = "setHomePosition"
  BY <1>1
<1>2. CASE m.command = "getHomePosition"
  BY <1>2
<1>3. CASE m.command \notin {"setHomePosition", "getHomePosition"}
  BY <1>3
<1> QED BY <1>1, <1>2, <1>3

(* A request that is served, and the answer to it.                          *)
LEMMA Serves ==
  ASSUME TypeOK, Exchange, NEW m \in requests, Serve(m)
  PROVE  \E a : 
    /\ answer = {} /\ answer' = {a}
    /\ a \in [to : {m.from}, sock : {m.sock}, result : ReplyContent]
    /\ a.result.op = outcome'.result /\ outcome' # Service!None
    /\ home' \in (Position \ Wrong) \cup {Unset}
    /\ a.result.op = "COMMAND_OK" =>
         /\ m.command = "setHomePosition" =>
              IF m.position \in Wrong THEN a.result.error = "INVALID_POSITION"
              ELSE a.result.error = "SUCCESS" /\ home' = m.position
         /\ m.command = "getHomePosition" =>
              a.result.error = "SUCCESS" /\ a.result.position = home'
<1>1. m \in [from : Client, sock : Nat, command : Command, position : Position]
  BY DEF TypeOK
<1>2. answer = {} /\ outcome' # Service!None /\ outcome'.result \in Results
  BY <1>1, Executes DEF Serve, Exchange, TypeOK
<1> DEFINE Plain == [home |-> home, error |-> "INVALID_ERROR", position |-> Unset]
           e == IF outcome'.result = "COMMAND_OK" THEN Effect(m) ELSE Plain
           a == [to |-> m.from, sock |-> m.sock,
                 result |-> [op |-> outcome'.result, error |-> e.error, position |-> e.position]]
<1>3. home' = e.home /\ answer' = {a}
  BY DEF Serve
<1>4. /\ e.home \in (Position \ Wrong) \cup {Unset}
      /\ e.error \in {"INVALID_ERROR", "SUCCESS", "INVALID_POSITION"}
      /\ e.position \in Position
  <2>1. CASE outcome'.result = "COMMAND_OK"
    BY <1>1, <2>1, EffectIs DEF TypeOK
  <2>2. CASE outcome'.result # "COMMAND_OK"
    BY <2>2, SessionAssumption DEF TypeOK
  <2> QED BY <2>1, <2>2
<1>5. outcome'.result = "COMMAND_OK" => e = Effect(m)
  OBVIOUS
<1> HIDE DEF e
<1>6. a \in [to : {m.from}, sock : {m.sock}, result : ReplyContent]
  BY <1>2, <1>4 DEF ReplyContent, OpResult
<1>7. a.result = [op |-> outcome'.result, error |-> e.error, position |-> e.position]
  OBVIOUS
<1>8. a.result.op = "COMMAND_OK" =>
         /\ m.command = "setHomePosition" =>
              IF m.position \in Wrong THEN a.result.error = "INVALID_POSITION"
              ELSE a.result.error = "SUCCESS" /\ home' = m.position
         /\ m.command = "getHomePosition" =>
              a.result.error = "SUCCESS" /\ a.result.position = home'
  BY <1>1, <1>3, <1>5, <1>7, EffectIs DEF TypeOK
<1> HIDE DEF a
<1> QED
  <2>1. a.result.op = outcome'.result
    BY <1>7
  <2> QED BY <1>2, <1>3, <1>4, <1>6, <1>8, <2>1

(* A step of the program is one of ten.                                     *)
Sends == \E c \in Client, k \in Command, p \in Position : Send(c, k, p)
Step ==
  \/ Sends
  \/ \E c \in Client : ParseCommand(c) \/ Tell(c) \/ TimeOut(c) \/ AliveTimeOut(c)
  \/ \E m \in requests : Serve(m)
  \/ \E a \in replies : Answered(a)
  \/ Reply \/ Drop \/ Restart

LEMMA NextIsStep == Next => Step
<1> SUFFICES ASSUME Next PROVE Step
  OBVIOUS
<1>1. ASSUME NEW c \in Client,
             \/ DoConnect(c) \/ DoDisconnect(c) \/ DoAlive(c) \/ DoGetServerTime(c) \/ DoPing(c)
             \/ SetHomePosition(c) \/ GetHomePosition(c) \/ DoOpenSearchTelescope(c)
             \/ DoExampleNotImp(c)
      PROVE  Sends
  <2>1. Unset \in Position
    BY SessionAssumption
  <2> QED
    BY <1>1, <2>1, CommandKinds
       DEF Sends, DoConnect, DoDisconnect, DoAlive, DoGetServerTime, DoPing, SetHomePosition,
           GetHomePosition, DoOpenSearchTelescope, DoExampleNotImp
<1> QED BY <1>1 DEF Next, Step

(* The results of calls, and calls, as the program changes them.            *)
Calls == [command : Command \cup {"none"}, position : Position, result : ReplyContent]

LEMMA ResultType ==
  ASSUME NEW r \in ReplyContent, NEW o \in OpResult
  PROVE  [r EXCEPT !.op = o] \in ReplyContent
BY DEF ReplyContent

LEMMA CallType ==
  ASSUME call \in [Client -> Calls], NEW c \in Client
  PROVE  /\ \A o \in OpResult : [call EXCEPT ![c].result.op = o] \in [Client -> Calls]
         /\ \A r \in ReplyContent : [call EXCEPT ![c].result = r] \in [Client -> Calls]
         /\ \A o \in OpResult :
              [call EXCEPT ![c].command = "none", ![c].result.op = o] \in [Client -> Calls]
<1>1. ASSUME NEW o \in OpResult PROVE [call EXCEPT ![c].result.op = o] \in [Client -> Calls]
  <2>1. [call[c].result EXCEPT !.op = o] \in ReplyContent
    BY ResultType DEF Calls
  <2> QED BY <2>1 DEF Calls
<1>2. ASSUME NEW r \in ReplyContent PROVE [call EXCEPT ![c].result = r] \in [Client -> Calls]
  BY DEF Calls
<1>3. ASSUME NEW o \in OpResult
      PROVE  [call EXCEPT ![c].command = "none", ![c].result.op = o] \in [Client -> Calls]
  <2>1. [call[c].result EXCEPT !.op = o] \in ReplyContent
    BY ResultType DEF Calls
  <2> QED BY <2>1 DEF Calls
<1> QED BY <1>1, <1>2, <1>3

LEMMA TypeStep == TypeOK /\ Exchange /\ [Next]_vars => TypeOK'
<1> SUFFICES ASSUME TypeOK, Exchange, [Next]_vars PROVE TypeOK'
  OBVIOUS
<1> USE SessionAssumption DEF TypeOK, server, client, history
<1>1. ASSUME NEW c \in Client, NEW k \in Command, NEW p \in Position, Send(c, k, p)
      PROVE  TypeOK'
  <2>1. ~Waits(c) /\ requests' = requests \cup {Request(c, k, p)}
    BY <1>1 DEF Send, Waits, Idle
  <2>2. Request(c, k, p) \in [from : Client, sock : Nat, command : Command, position : Position]
    BY DEF Request
  <2>3. \A m \in requests : ~(m.from = c /\ m.sock = sock[c])
    BY <2>1 DEF Exchange
  <2>4. \A m, n \in requests' : m.from = n.from /\ m.sock = n.sock => m = n
    BY <2>1, <2>3 DEF Request
  <2>5. call' \in [Client -> [command : Command \cup {"none"}, position : Position,
                              result : ReplyContent]]
    BY <1>1 DEF Send, Idle, Pending, ReplyContent, OpResult
  <2>6. homes' \in [Client -> SUBSET Position]
    BY <1>1 DEF Send
  <2> QED BY <1>1, <2>1, <2>2, <2>4, <2>5, <2>6 DEF Send
<1>2. ASSUME NEW c \in Client, ParseCommand(c) PROVE TypeOK'
  <2> PICK r \in {"UNKNOWN_COMMAND", "NOT_IMPLEMENTED", "BAD_PARAMETERS"} :
             call' = [call EXCEPT ![c].command = "none", ![c].result.op = r]
    BY <1>2 DEF ParseCommand
  <2>1. r \in OpResult
    BY DEF OpResult, Results
  <2>2. call' \in [Client -> Calls]
    BY <2>1, CallType DEF Calls
  <2> QED BY <1>2, <2>2 DEF ParseCommand, Calls
<1>3. ASSUME NEW c \in Client, Tell(c) PROVE TypeOK'
  BY <1>3 DEF Tell, Idle, Pending, ReplyContent, OpResult
<1>4. ASSUME NEW c \in Client, TimeOut(c) PROVE TypeOK'
  <2>1. "TIMEOUT_REACHED" \in OpResult
    BY DEF OpResult, Results
  <2>2. call' \in [Client -> Calls]
    BY <1>4, <2>1, CallType DEF TimeOut, Calls
  <2> QED BY <1>4, <2>2 DEF TimeOut, NewSocket, Calls
<1>5. ASSUME NEW c \in Client, AliveTimeOut(c) PROVE TypeOK'
  BY <1>5 DEF AliveTimeOut, NewSocket
<1>6. ASSUME NEW m \in requests, Serve(m) PROVE TypeOK'
  <2>1. m.from \in Client /\ m.command \in Command
    OBVIOUS
  <2>2. members' \subseteq Client /\ limit' = limit
    BY <1>6, <2>1, Executes DEF Serve
  <2> PICK a : /\ answer = {} /\ answer' = {a}
               /\ a \in [to : {m.from}, sock : {m.sock}, result : ReplyContent]
               /\ home' \in (Position \ Wrong) \cup {Unset}
    BY <1>6, Serves
  <2>3. \A b \in replies : ~(b.to = a.to /\ b.sock = a.sock)
    BY DEF Exchange, InTransit
  <2>4. \A x, y \in (answer \cup replies)' : x.to = y.to /\ x.sock = y.sock => x = y
    BY <1>6, <2>3 DEF Serve
  <2>5. (answer \cup replies)' \subseteq [to : Client, sock : Nat, result : ReplyContent]
    BY <1>6, <2>1 DEF Serve
  <2>6. homes' \in [Client -> SUBSET Position] /\ times' \in [Client -> Nat] /\ doubt' \in [Client -> BOOLEAN]
    <3>1. home' \in Position
      OBVIOUS
    <3>2. homes' \in [Client -> SUBSET Position]
      BY <1>6, <3>1 DEF Serve
    <3>3. times' \in [Client -> Nat]
      BY <1>6 DEF Serve
    <3>4. doubt' \in [Client -> BOOLEAN]
      <4>1. doubt' = [doubt EXCEPT ![m.from] = @ /\ ~Settled(m, outcome'.result)]
        BY <1>6 DEF Serve
      <4> QED BY <4>1, Zenon DEF TypeOK
    <3> QED BY <3>2, <3>3, <3>4
  <2>7. requests' \subseteq requests /\ UNCHANGED <<sock, connected, call>>
    BY <1>6 DEF Serve
  <2> QED BY <2>2, <2>4, <2>5, <2>6, <2>7
<1>7. ASSUME NEW a \in replies, Answered(a) PROVE TypeOK'
  <2>1. a.to \in Client /\ a.result \in ReplyContent
    OBVIOUS
  <2>2. call' \in [Client -> Calls]
    <3>1. [a.result EXCEPT !.op = "DISCONNECTED_FROM_SERVER"] \in ReplyContent
      BY <2>1, ResultType DEF OpResult
    <3> QED BY <1>7, <2>1, <3>1, CallType DEF Answered, Calls
  <2>3. connected' \in [Client -> BOOLEAN]
    BY <1>7, <2>1 DEF Answered
  <2> QED BY <1>7, <2>2, <2>3 DEF Answered, Calls
<1>8. CASE Reply
  BY <1>8 DEF Reply, Service!Reply
<1>9. CASE Drop
  BY <1>9 DEF Drop, Service!Drop
<1>10. CASE Restart
  BY <1>10 DEF Restart
<1>11. CASE UNCHANGED vars
  BY <1>11 DEF vars
<1> QED
  BY NextIsStep, <1>1, <1>2, <1>3, <1>4, <1>5, <1>6, <1>7, <1>8, <1>9, <1>10, <1>11 DEF Step, Sends

LEMMA ExchangeStep == TypeOK /\ Exchange /\ [Next]_vars => Exchange'
<1> SUFFICES ASSUME TypeOK, Exchange, [Next]_vars PROVE Exchange'
  OBVIOUS
<1> USE DEF TypeOK, Exchange, InTransit, Waits, server, client, history
<1>1. ASSUME NEW c \in Client, NEW k \in Command, NEW p \in Position, Send(c, k, p)
      PROVE  Exchange'
  <2>1. requests' = requests \cup {Request(c, k, p)} /\ call[c] = Idle
    BY <1>1 DEF Send
  <2>2. /\ call' = [call EXCEPT ![c] = [Idle EXCEPT !.command = k, !.position = p]]
        /\ UNCHANGED <<outcome, answer, replies, sock>>
    BY <1>1 DEF Send
  <2>3. call'[c].command = k /\ call'[c].position = p /\ call'[c].result = Pending /\ k # "none"
    BY <2>2, CommandKinds DEF Idle
  <2>4. \A a \in InTransit : ~(a.to = c /\ a.sock = sock[c])
    BY <2>1 DEF Idle
  <2>5. \A m \in requests : ~(m.from = c /\ m.sock = sock[c])
    BY <2>1 DEF Idle
  <2>6. \A m \in requests' : m.from # c \/ m.sock # sock[c] => m \in requests
    BY <2>1 DEF Request
  <2>7. \A m \in requests' : m.from = c /\ m.sock = sock[c] => m.command = k /\ m.position = p
    BY <2>1, <2>5 DEF Request
  <2>8. \A d \in Client : d # c => call'[d] = call[d]
    BY <2>2
  <2>9. \A m \in requests' : m.from \in Client /\ m.sock <= sock[m.from]
    BY <2>1 DEF Request
  <2>10. ASSUME NEW m \in requests', m.sock = sock[m.from]
         PROVE  Waits(m.from)' /\ m.command = call'[m.from].command /\ m.position = call'[m.from].position
    <3>1. CASE m.from = c
      BY <2>3, <2>7, <2>10, <3>1
    <3>2. CASE m.from # c
      BY <2>6, <2>8, <2>9, <2>10, <3>2
    <3> QED BY <3>1, <3>2
  <2>11. ASSUME NEW a \in InTransit PROVE a.sock = sock[a.to] => Waits(a.to)'
    BY <2>4, <2>8
  <2>12. \A m \in requests', a \in InTransit : ~(m.from = a.to /\ m.sock = a.sock)
    BY <2>4, <2>6
  <2> QED BY <2>2, <2>9, <2>10, <2>11, <2>12
<1>2. ASSUME NEW c \in Client, ParseCommand(c) \/ Tell(c) PROVE Exchange'
  <2>1. ~Waits(c) /\ UNCHANGED <<outcome, answer, requests, replies, sock>>
    BY <1>2 DEF ParseCommand, Tell, Idle
  <2>2. \A d \in Client : d # c => call'[d] = call[d]
    BY <1>2 DEF ParseCommand, Tell
  <2>3. \A m \in requests : m.sock = sock[m.from] => m.from # c
    BY <2>1
  <2>4. \A a \in InTransit : a.sock = sock[a.to] => a.to # c
    BY <2>1
  <2> QED BY <2>1, <2>2, <2>3, <2>4
<1>3. ASSUME NEW c \in Client, TimeOut(c) \/ AliveTimeOut(c) PROVE Exchange'
  <2>1. /\ sock' = [sock EXCEPT ![c] = @ + 1]
        /\ requests' \subseteq requests /\ replies' = {a \in replies : a.to # c}
        /\ UNCHANGED <<outcome, answer>>
    BY <1>3 DEF TimeOut, AliveTimeOut, NewSocket
  <2>2. \A d \in Client : d # c => call'[d] = call[d] /\ sock'[d] = sock[d]
    BY <1>3, <2>1 DEF TimeOut, AliveTimeOut
  <2>3. \A m \in requests' : m.from = c => m.sock < sock'[c]
    BY <2>1
  <2>4. \A a \in InTransit' : a.to = c => a.sock < sock'[c]
    BY <2>1
  <2>5. InTransit' \subseteq InTransit
    BY <2>1
  <2> QED BY <2>1, <2>2, <2>3, <2>4, <2>5
<1>4. ASSUME NEW m \in requests, Serve(m) PROVE Exchange'
  <2> PICK a : /\ answer = {} /\ answer' = {a}
               /\ a \in [to : {m.from}, sock : {m.sock}, result : ReplyContent]
               /\ outcome' # Service!None
    BY <1>4, Serves
  <2>1. requests' = requests \ {m} /\ UNCHANGED <<replies, sock, call>>
    BY <1>4 DEF Serve
  <2>2. \A n \in requests' : ~(n.from = a.to /\ n.sock = a.sock)
    BY <2>1
  <2> QED BY <2>1, <2>2
<1>5. ASSUME NEW a \in replies, Answered(a) PROVE Exchange'
  <2>1. /\ replies' = replies \ {a} /\ a.sock = sock[a.to]
        /\ UNCHANGED <<outcome, answer, requests, sock>>
    BY <1>5 DEF Answered
  <2>2. \A d \in Client : d # a.to => call'[d] = call[d]
    BY <1>5 DEF Answered
  <2>3. \A m \in requests : m.sock = sock[m.from] => m.from # a.to
    BY <2>1
  <2>4. \A b \in InTransit' : b.sock = sock[b.to] => b.to # a.to
    BY <2>1
  <2> QED BY <2>1, <2>2, <2>3, <2>4
<1>6. CASE Reply
  BY <1>6 DEF Reply, Service!Reply
<1>7. CASE Drop
  BY <1>7 DEF Drop, Service!Drop
<1>8. CASE Restart
  BY <1>8 DEF Restart
<1>9. CASE UNCHANGED vars
  BY <1>9 DEF vars
<1> QED
  BY NextIsStep, <1>1, <1>2, <1>3, <1>4, <1>5, <1>6, <1>7, <1>8, <1>9 DEF Step, Sends

LEMMA ExecutedStep == TypeOK /\ Exchange /\ Executed /\ [Next]_vars => Executed'
<1> SUFFICES ASSUME TypeOK, Exchange, Executed, [Next]_vars PROVE Executed'
  OBVIOUS
<1> USE DEF InTransit, server, client, history
<1>1. ASSUME NEW c \in Client, NEW k \in Command, NEW p \in Position, Send(c, k, p)
      PROVE  Executed'
  <2> USE <1>1 DEF Send
  <2>1. ~Waits(c) /\ requests' = requests \cup {Request(c, k, p)}
    BY DEF Waits, Idle
  <2>2. call'[c].result.op # "COMMAND_OK" /\ times'[c] = 0 /\ homes'[c] = {home}
    BY DEF TypeOK, Idle, Pending
  <2>3. \A d \in Client : d # c => call'[d] = call[d] /\ times'[d] = times[d] /\ homes'[d] = homes[d]
    BY DEF TypeOK
  <2>4. \A a \in InTransit : a.to \in Client /\ (a.sock = sock[a.to] => a.to # c)
    BY <2>1 DEF Exchange, TypeOK
  <2>5. \A d \in Client : Waits(d)' => home \in homes'[d]
    BY <2>2, <2>3 DEF Waits, Executed
  <2>6. \A m \in requests' : m.sock = sock[m.from] => times'[m.from] = 0
    BY <2>1, <2>2, <2>3 DEF Executed, TypeOK, Request
  <2>7. \A a \in InTransit : a.sock = sock[a.to] => Done(a.to, a.result)'
    BY <2>3, <2>4 DEF Executed, Done, Successful
  <2>8. \A d \in Client : Done(d, call[d].result)'
    BY <2>2, <2>3 DEF Executed, Done, Successful
  <2> QED BY <2>5, <2>6, <2>7, <2>8 DEF Executed
<1>2. ASSUME NEW c \in Client, ParseCommand(c) \/ Tell(c) PROVE Executed'
  <2>1. ~Waits(c) /\ ~Waits(c)' /\ call'[c].result.op # "COMMAND_OK"
    BY <1>2 DEF ParseCommand, Tell, Waits, Idle, Pending, TypeOK
  <2>2. UNCHANGED <<home, requests, answer, replies, sock>>
    BY <1>2 DEF ParseCommand, Tell
  <2>3. \A d \in Client : d # c => call'[d] = call[d] /\ times'[d] = times[d] /\ homes'[d] = homes[d]
    BY <1>2 DEF ParseCommand, Tell, TypeOK
  <2>4. \A a \in InTransit : a.to \in Client /\ (a.sock = sock[a.to] => a.to # c)
    BY <2>1 DEF Exchange, TypeOK
  <2>5. \A m \in requests : m.from \in Client /\ (m.sock = sock[m.from] => m.from # c)
    BY <2>1 DEF Exchange, TypeOK
  <2>6. \A d \in Client : Waits(d)' => home \in homes'[d]
    BY <2>1, <2>3 DEF Waits, Executed
  <2>7. \A a \in InTransit : a.sock = sock[a.to] => Done(a.to, a.result)'
    BY <2>3, <2>4 DEF Executed, Done, Successful
  <2>8. \A d \in Client : Done(d, call[d].result)'
    BY <2>1, <2>3 DEF Executed, Done, Successful
  <2> QED BY <2>2, <2>3, <2>5, <2>6, <2>7, <2>8 DEF Executed
<1>3. ASSUME NEW c \in Client, TimeOut(c) \/ AliveTimeOut(c) PROVE Executed'
  <2>1. /\ sock' = [sock EXCEPT ![c] = @ + 1]
        /\ requests' \subseteq requests /\ replies' \subseteq replies
        /\ UNCHANGED <<home, answer, homes, times>>
    BY <1>3 DEF TimeOut, AliveTimeOut, NewSocket
  <2>2. \A d \in Client : d # c => call'[d] = call[d] /\ sock'[d] = sock[d]
    BY <1>3, <2>1 DEF TimeOut, AliveTimeOut, TypeOK
  <2>3. ~Waits(c)' /\ call'[c].result.op # "COMMAND_OK"
    BY <1>3 DEF TimeOut, AliveTimeOut, Waits, Idle, Pending, TypeOK
  <2>4. \A m \in requests' : m.from \in Client /\ (m.sock = sock'[m.from] => m.from # c)
    BY <2>1 DEF Exchange, TypeOK
  <2>5. \A a \in InTransit' : a.to \in Client /\ (a.sock = sock'[a.to] => a.to # c)
    BY <2>1 DEF Exchange, TypeOK
  <2>6. \A d \in Client : Waits(d)' => home' \in homes'[d]
    BY <2>1, <2>2, <2>3 DEF Waits, Executed
  <2>7. \A m \in requests' : m.sock = sock'[m.from] => times'[m.from] = 0
    BY <2>1, <2>2, <2>4 DEF Executed
  <2>8. \A a \in InTransit' : a.sock = sock'[a.to] => Done(a.to, a.result)'
    BY <2>1, <2>2, <2>5 DEF Executed, Done, Successful
  <2>9. \A d \in Client : Done(d, call[d].result)'
    BY <2>1, <2>2, <2>3 DEF Executed, Done, Successful
  <2> QED BY <2>6, <2>7, <2>8, <2>9 DEF Executed
<1>4. ASSUME NEW m \in requests, Serve(m) PROVE Executed'
  <2> DEFINE c == m.from
  <2> PICK a :
        /\ answer = {} /\ answer' = {a}
        /\ a \in [to : {c}, sock : {m.sock}, result : ReplyContent]
        /\ a.result.op = "COMMAND_OK" =>
             /\ m.command = "setHomePosition" =>
                  IF m.position \in Wrong THEN a.result.error = "INVALID_POSITION"
                  ELSE a.result.error = "SUCCESS" /\ home' = m.position
             /\ m.command = "getHomePosition" =>
                  a.result.error = "SUCCESS" /\ a.result.position = home'
    BY <1>4, Serves
  <2>1. c \in Client
    BY DEF TypeOK
  <2>2. requests' = requests \ {m} /\ UNCHANGED <<replies, sock, call>>
    BY <1>4 DEF Serve
  <2>3. \A d \in Client : homes'[d] = IF Waits(d) THEN homes[d] \cup {home'} ELSE homes[d]
    BY <1>4 DEF Serve
  <2>4. \A d \in Client : ~(d = c /\ m.sock = sock[c]) => times'[d] = times[d]
    BY <1>4 DEF Serve, TypeOK
  <2>5. m.sock = sock[c] => times'[c] = 1 /\ Waits(c)
    BY <1>4, <2>1 DEF Serve, TypeOK, Exchange, Executed
  <2>6. \A d \in Client : Waits(d)' <=> Waits(d)
    BY <2>2 DEF Waits
  <2>7. \A d \in Client : Waits(d)' => home' \in homes'[d]
    BY <2>3, <2>6
  <2>8. \A n \in requests' : n.sock = sock[n.from] => times'[n.from] = 0
    BY <2>2, <2>4 DEF Executed, TypeOK
  <2>9. ASSUME m.sock = sock[c] PROVE Done(c, a.result)'
    <3>1. m.command = call[c].command /\ m.position = call[c].position /\ home' \in homes'[c]
      BY <2>1, <2>3, <2>5, <2>9 DEF Exchange
    <3> QED BY <2>2, <2>5, <2>9, <3>1 DEF Done, Successful
  <2>10. ASSUME NEW b \in replies, b.sock = sock[b.to] PROVE Done(b.to, b.result)'
    <3>1. b.to \in Client /\ ~(b.to = c /\ m.sock = sock[c])
      BY <2>10 DEF Exchange, TypeOK
    <3>2. times'[b.to] = times[b.to] /\ homes[b.to] \subseteq homes'[b.to]
      BY <2>3, <2>4, <3>1
    <3> QED BY <2>2, <2>10, <3>1, <3>2 DEF Executed, Done, Successful
  <2>11. \A b \in InTransit' : b.sock = sock[b.to] => Done(b.to, b.result)'
    BY <2>2, <2>9, <2>10
  <2>12. ASSUME NEW d \in Client PROVE Done(d, call[d].result)'
    <3>1. CASE Waits(d)
      BY <2>2, <3>1 DEF Done, Waits, Pending
    <3>2. CASE ~Waits(d)
      <4>1. times'[d] = times[d] /\ homes'[d] = homes[d]
        BY <2>3, <2>4, <2>5, <3>2
      <4> QED BY <2>2, <4>1 DEF Executed, Done, Successful
    <3> QED BY <3>1, <3>2
  <2> QED BY <2>2, <2>7, <2>8, <2>11, <2>12 DEF Executed
<1>5. ASSUME NEW a \in replies, Answered(a) PROVE Executed'
  <2>1. a.to \in Client /\ Waits(a.to) /\ a.sock = sock[a.to]
    BY <1>5 DEF Answered, TypeOK
  <2>2. replies' \subseteq replies /\ UNCHANGED <<home, answer, requests, sock, homes, times>>
    BY <1>5 DEF Answered
  <2>3. \A d \in Client : d # a.to => call'[d] = call[d]
    BY <1>5 DEF Answered, TypeOK
  <2>4. /\ call'[a.to].command = call[a.to].command /\ call'[a.to].position = call[a.to].position
        /\ call'[a.to].result.op = "COMMAND_OK" => call'[a.to].result = a.result
    BY <1>5, <2>1 DEF Answered, TypeOK
  <2>5. \A d \in Client : Waits(d)' => Waits(d)
    BY <2>1, <2>3 DEF Waits
  <2>6. \A d \in Client : Waits(d)' => home' \in homes'[d]
    BY <2>2, <2>5 DEF Executed
  <2>7. \A d \in Client : Done(d, call[d].result)'
    BY <2>1, <2>2, <2>3, <2>4 DEF Executed, Done, Successful
  <2>8. \A b \in InTransit' : b.sock = sock[b.to] => Done(b.to, b.result)'
    <3> SUFFICES ASSUME NEW b \in InTransit, b.sock = sock[b.to] PROVE Done(b.to, b.result)'
      BY <2>2
    <3>1. b.to \in Client /\ Done(b.to, b.result)
      BY DEF Executed, TypeOK
    <3>2. call'[b.to].command = call[b.to].command /\ call'[b.to].position = call[b.to].position
      BY <2>3, <2>4, <3>1
    <3> QED BY <2>2, <3>1, <3>2 DEF Done, Successful
  <2> QED BY <2>2, <2>6, <2>7, <2>8 DEF Executed
<1>6. CASE Reply
  <2>1. InTransit' \subseteq InTransit /\ UNCHANGED <<home, requests, sock, call, homes, times>>
    BY <1>6 DEF Reply
  <2> QED BY <2>1 DEF Executed, Done, Successful, Waits
<1>7. CASE Drop
  BY <1>7 DEF Drop, Executed, Done, Successful, Waits
<1>8. CASE Restart
  <2>1. /\ requests' \subseteq requests /\ UNCHANGED <<answer, replies, sock, call, times>>
        /\ \A d \in Client : homes'[d] = IF Waits(d) THEN homes[d] \cup {home'} ELSE homes[d]
    BY <1>8 DEF Restart
  <2>2. \A d \in Client : homes[d] \subseteq homes'[d] /\ (Waits(d) => home' \in homes'[d])
    BY <2>1
  <2>3. \A a \in InTransit : a.to \in Client
    BY DEF TypeOK
  <2> QED BY <2>1, <2>2, <2>3 DEF Executed, Done, Successful, Waits
<1>9. CASE UNCHANGED vars
  BY <1>9 DEF vars, Executed, Done, Successful, Waits
<1> QED
  BY NextIsStep, <1>1, <1>2, <1>3, <1>4, <1>5, <1>6, <1>7, <1>8, <1>9 DEF Step, Sends

LEMMA AgreementStep == TypeOK /\ Exchange /\ Agreement /\ [Next]_vars => Agreement'
<1> SUFFICES ASSUME TypeOK, Exchange, Agreement, [Next]_vars PROVE Agreement'
  OBVIOUS
<1> USE DEF InTransit, server, client, history
<1>1. ASSUME NEW c \in Client, NEW k \in Command, NEW p \in Position, Send(c, k, p)
      PROVE  Agreement'
  <2> USE <1>1 DEF Send
  <2>1. ~Waits(c) /\ requests' = requests \cup {Request(c, k, p)}
    BY DEF Waits, Idle
  <2>2. UNCHANGED <<members, answer, replies, sock, connected, doubt>>
    OBVIOUS
  <2>3. \A d \in Client : d # c => call'[d] = call[d]
    BY DEF TypeOK
  <2>4. \A a \in InTransit : a.to \in Client /\ (a.sock = sock[a.to] => a.to # c)
    BY <2>1 DEF Exchange, TypeOK
  <2>5. \A m \in requests' : m \in requests \/ m.sock = sock[m.from]
    BY <2>1 DEF Request
  <2> QED BY <2>2, <2>3, <2>4, <2>5 DEF Agreement, Flag
<1>2. ASSUME NEW c \in Client, ParseCommand(c) \/ Tell(c) PROVE Agreement'
  <2>1. ~Waits(c) /\ UNCHANGED <<members, requests, answer, replies, sock, connected, doubt>>
    BY <1>2 DEF ParseCommand, Tell, Waits, Idle
  <2>2. \A d \in Client : d # c => call'[d] = call[d]
    BY <1>2 DEF ParseCommand, Tell, TypeOK
  <2>3. \A a \in InTransit : a.to \in Client /\ (a.sock = sock[a.to] => a.to # c)
    BY <2>1 DEF Exchange, TypeOK
  <2> QED BY <2>1, <2>2, <2>3 DEF Agreement, Flag
<1>3. ASSUME NEW c \in Client, TimeOut(c) \/ AliveTimeOut(c) PROVE Agreement'
  <2>1. /\ sock' = [sock EXCEPT ![c] = @ + 1] /\ connected' = [connected EXCEPT ![c] = FALSE]
        /\ requests' \subseteq requests /\ replies' = {a \in replies : a.to # c}
        /\ UNCHANGED <<members, answer>>
    BY <1>3 DEF TimeOut, AliveTimeOut, NewSocket
  <2>2. \A d \in Client : d # c => /\ call'[d] = call[d] /\ sock'[d] = sock[d]
                                  /\ connected'[d] = connected[d] /\ doubt'[d] = doubt[d]
    BY <1>3, <2>1 DEF TimeOut, AliveTimeOut, TypeOK
  <2>3. ~doubt'[c] => ~Waits(c) /\ ~connected[c] /\ ~doubt[c]
    BY <1>3 DEF TimeOut, AliveTimeOut, Waits, Idle, TypeOK
  <2>4. \A a \in InTransit' : a.to = c => a.sock # sock'[c]
    BY <2>1 DEF Exchange, TypeOK
  <2>5. ~connected'[c]
    BY <2>1 DEF TypeOK
  <2>6. ASSUME ~doubt'[c]
        PROVE  (\A m \in requests' : m.from # c) /\ c \notin members
    <3>1. \A m \in requests : m.from # c
      BY <2>3, <2>6 DEF Agreement, Exchange
    <3>2. \A a \in InTransit : ~(a.to = c /\ a.sock = sock[c])
      BY <2>3, <2>6 DEF Exchange
    <3> QED BY <2>1, <2>3, <2>6, <3>1, <3>2 DEF Agreement
  <2>7. ASSUME NEW d \in Client, d # c, ~doubt'[d]
        PROVE  /\ \A m \in requests' : m.from = d => m.sock = sock'[d]
               /\ \A a \in InTransit' : a.to = d /\ a.sock = sock'[d] => (Flag(d, a.result)' <=> d \in members')
               /\ (\A a \in InTransit' : ~(a.to = d /\ a.sock = sock'[d])) => (connected'[d] <=> d \in members')
    BY <2>1, <2>2, <2>7 DEF Agreement, Flag
  <2> QED BY <2>1, <2>4, <2>5, <2>6, <2>7 DEF Agreement
<1>4. ASSUME NEW m \in requests, Serve(m) PROVE Agreement'
  <2> DEFINE c == m.from
  <2> PICK a : /\ answer = {} /\ answer' = {a}
               /\ a.to = c /\ a.sock = m.sock /\ a.result.op = outcome'.result
    BY <1>4, Serves, Zenon
  <2>1. c \in Client /\ m.command \in Command
    BY DEF TypeOK
  <2>2. /\ \A d \in Client : d # c => (d \in members' <=> d \in members)
        /\ IF a.result.op = "COMMAND_OK" /\ m.command \in {"connect", "disconnect"}
           THEN c \in members' <=> m.command = "connect"
           ELSE c \in members' <=> c \in members
        /\ a.result.op = "CLIENT_NOT_CONNECTED" => c \notin members'
    BY <1>4, <2>1, Executes DEF Serve, TypeOK
  <2>3. requests' = requests \ {m} /\ UNCHANGED <<replies, sock, call, connected>>
    BY <1>4 DEF Serve
  <2>4. \A d \in Client : d # c => doubt'[d] = doubt[d]
    BY <1>4 DEF Serve, TypeOK
  <2>5. ASSUME ~doubt'[c]
        PROVE  /\ m.sock = sock[c]
               /\ \A n \in requests' : n.from = c => n.sock = sock[c]
               /\ Flag(c, a.result) <=> c \in members'
    <3>1. \/ ~doubt[c]
          \/ Settled(m, outcome'.result)
      BY <1>4, <2>1, <2>5 DEF Serve, TypeOK
    <3>2. m.sock = sock[c] /\ \A n \in requests' : n.from = c => n.sock = sock[c]
      BY <2>1, <2>3, <3>1 DEF Settled, Agreement
    <3>3. m.command = call[c].command
      BY <3>2 DEF Exchange
    <3>4. CASE ~doubt[c]
      <4>1. connected[c] <=> c \in members
        BY <2>1, <3>2, <3>4 DEF Agreement, Exchange
      <4> QED BY <2>2, <3>2, <3>3, <4>1 DEF Flag
    <3>5. CASE Settled(m, outcome'.result)
      <4>1. \/ a.result.op = "COMMAND_OK" /\ m.command \in {"connect", "disconnect"}
            \/ a.result.op = "CLIENT_NOT_CONNECTED"
        BY <3>5 DEF Settled
      <4> QED BY <2>2, <3>2, <3>3, <4>1 DEF Flag
    <3> QED BY <3>1, <3>4, <3>5
  <2>6. \A r : \A d \in Client : Flag(d, r)' <=> Flag(d, r)
    BY <2>3 DEF Flag
  <2>7. ASSUME ~doubt'[c]
        PROVE  \A b \in InTransit' : b.to = c /\ b.sock = sock'[c] => (Flag(c, b.result)' <=> c \in members')
    <3>1. \A b \in replies : ~(b.to = c /\ b.sock = sock[c])
      BY <2>5, <2>7 DEF Exchange
    <3> QED BY <2>1, <2>3, <2>5, <2>6, <2>7, <3>1
  <2>8. ASSUME ~doubt'[c]
        PROVE  \E b \in InTransit' : b.to = c /\ b.sock = sock'[c]
    BY <2>3, <2>5, <2>8
  <2>9. ASSUME NEW d \in Client, d # c, ~doubt'[d]
        PROVE  /\ \A n \in requests' : n.from = d => n.sock = sock'[d]
               /\ \A b \in InTransit' : b.to = d /\ b.sock = sock'[d] => (Flag(d, b.result)' <=> d \in members')
               /\ (\A b \in InTransit' : ~(b.to = d /\ b.sock = sock'[d])) => (connected'[d] <=> d \in members')
    BY <2>2, <2>3, <2>4, <2>6, <2>9 DEF Agreement
  <2> QED BY <2>3, <2>5, <2>7, <2>8, <2>9 DEF Agreement
<1>5. ASSUME NEW a \in replies, Answered(a) PROVE Agreement'
  <2> DEFINE c == a.to
  <2>1. c \in Client /\ a.sock = sock[c]
    BY <1>5 DEF Answered, TypeOK
  <2>2. replies' = replies \ {a} /\ UNCHANGED <<members, answer, requests, sock, doubt>>
    BY <1>5 DEF Answered
  <2>3. \A d \in Client : d # c => call'[d] = call[d] /\ connected'[d] = connected[d]
    BY <1>5 DEF Answered, TypeOK
  <2>4. connected'[c] <=> Flag(c, a.result)
    BY <1>5, <2>1 DEF Answered, Flag, TypeOK
  <2>5. \A b \in InTransit' : ~(b.to = c /\ b.sock = sock[c])
    BY <2>1, <2>2 DEF Exchange, TypeOK
  <2>6. ~doubt[c] => /\ \A n \in requests : n.from = c => n.sock = sock[c]
                     /\ connected'[c] <=> c \in members
    BY <2>1, <2>4 DEF Agreement
  <2>7. ASSUME NEW d \in Client, d # c, ~doubt[d]
        PROVE  /\ \A n \in requests' : n.from = d => n.sock = sock'[d]
               /\ \A b \in InTransit' : b.to = d /\ b.sock = sock'[d] => (Flag(d, b.result)' <=> d \in members')
               /\ (\A b \in InTransit' : ~(b.to = d /\ b.sock = sock'[d])) => (connected'[d] <=> d \in members')
    BY <2>2, <2>3, <2>7 DEF Agreement, Flag
  <2> QED BY <2>2, <2>5, <2>6, <2>7 DEF Agreement
<1>6. CASE Reply
  <2>1. /\ InTransit' \subseteq InTransit
        /\ \A a \in InTransit : a.sock = sock[a.to] => a \in InTransit'
        /\ UNCHANGED <<members, requests, sock, call, connected, doubt>>
    BY <1>6 DEF Reply, Service!Reply
  <2>2. \A c \in Client : \A r : Flag(c, r)' <=> Flag(c, r)
    BY <2>1 DEF Flag
  <2> QED BY <2>1, <2>2 DEF Agreement
<1>7. CASE Drop
  <2>1. \A c \in Client : ~doubt'[c] => ~doubt[c] /\ (c \in members' <=> c \in members)
    BY <1>7 DEF Drop, Service!Drop
  <2>2. UNCHANGED <<requests, answer, replies, sock, call, connected>>
    BY <1>7 DEF Drop
  <2> QED BY <2>1, <2>2 DEF Agreement, Flag
<1>8. CASE Restart
  <2>1. \A c \in Client : ~doubt'[c] => ~doubt[c] /\ (c \in members' <=> c \in members)
    BY <1>8 DEF Restart
  <2>2. requests' \subseteq requests /\ UNCHANGED <<answer, replies, sock, call, connected>>
    BY <1>8 DEF Restart
  <2> QED BY <2>1, <2>2 DEF Agreement, Flag
<1>9. CASE UNCHANGED vars
  BY <1>9 DEF vars, Agreement, Flag
<1> QED
  BY NextIsStep, <1>1, <1>2, <1>3, <1>4, <1>5, <1>6, <1>7, <1>8, <1>9 DEF Step, Sends
-----------------------------------------------------------------------------
LEMMA InitInv == Init => Inv
<1> SUFFICES ASSUME Init PROVE Inv
  OBVIOUS
<1> USE SessionAssumption DEF Init, Service!Init, Idle, Pending
<1>1. TypeOK
  BY DEF TypeOK, ReplyContent, OpResult
<1>2. Exchange /\ Executed /\ Agreement
  BY DEF Exchange, Executed, Agreement, InTransit, Waits, Done
<1> QED BY <1>1, <1>2 DEF Inv

LEMMA InvStep == Inv /\ [Next]_vars => Inv'
BY TypeStep, ExchangeStep, ExecutedStep, AgreementStep DEF Inv

LEMMA Invariance == Spec => []Inv
BY InitInv, InvStep, PTL DEF Spec

(* Types, a home that is in the range once it was set, and at most one      *)
(* request or answer for each REQ socket, whatever is late or lost.         *)
THEOREM TypeCorrect == Spec => []TypeOK
<1>1. Inv => TypeOK
  BY DEF Inv
<1> QED BY <1>1, Invariance, PTL

(* isConnected says what the server's registry says unless a timeout, a     *)
(* drop, a restart or a late request has put that in doubt; and an answer   *)
(* to connect or disconnect, or a refusal, settles the doubt if no request  *)
(* of an earlier socket is still on its way.                                *)
THEOREM SessionsInAgreement == Spec => []SessionsAgree
<1>1. Inv => SessionsAgree
  <2> SUFFICES ASSUME Inv, NEW c \in Client, ~doubt[c], ~Waits(c)
               PROVE  connected[c] <=> c \in members
    BY DEF SessionsAgree
  <2>1. \A a \in InTransit : ~(a.to = c /\ a.sock = sock[c])
    BY DEF Inv, Exchange
  <2> QED BY <2>1 DEF Inv, Agreement
<1> QED BY <1>1, Invariance, PTL

(* A client that is told OK had its very call executed, once: its position  *)
(* was home, or the position it got was, during the call.                   *)
THEOREM OkWasDone == Spec => []OkMeansDone
<1>1. Inv => OkMeansDone
  BY DEF Inv, Executed, Done, OkMeansDone
<1> QED BY <1>1, Invariance, PTL

(* Whatever the clients and the network do, and also when its program is    *)
(* restarted, the server of the session is the service that CommandServer   *)
(* implements: nothing else is assumed of it.                               *)
THEOREM SessionUsesService == Spec => Service!Spec
<1>1. Init => Service!Init
  BY DEF Init
<1>2. Inv /\ [Next]_vars => [Service!Next]_(Service!vars)
  <2> SUFFICES ASSUME Inv, [Next]_vars PROVE [Service!Next]_(Service!vars)
    OBVIOUS
  <2> USE DEF Service!Next, Service!vars, server, client, history
  <2>1. CASE Sends
    BY <2>1 DEF Sends, Send
  <2>2. CASE \E c \in Client : ParseCommand(c) \/ Tell(c) \/ TimeOut(c) \/ AliveTimeOut(c)
    BY <2>2 DEF ParseCommand, Tell, TimeOut, AliveTimeOut
  <2>3. ASSUME NEW m \in requests, Serve(m) PROVE [Service!Next]_(Service!vars)
    <3>1. m.from \in Client
      BY DEF Inv, TypeOK
    <3> QED BY <2>3, <3>1 DEF Serve
  <2>4. CASE \E a \in replies : Answered(a)
    BY <2>4 DEF Answered
  <2>5. CASE Reply \/ Drop
    BY <2>5 DEF Reply, Drop
  <2>6. CASE Restart
    <3>1. CASE members = {}
      BY <2>6, <3>1 DEF Restart
    <3>2. CASE members # {}
      BY <2>6, <3>2 DEF Restart, Service!Drop
    <3> QED BY <3>1, <3>2
  <2>7. CASE UNCHANGED vars
    BY <2>7 DEF vars
  <2> QED BY NextIsStep, <2>1, <2>2, <2>3, <2>4, <2>5, <2>6, <2>7 DEF Step
<1> QED BY <1>1, <1>2, Invariance, PTL DEF Spec, Service!Spec
=============================================================================
