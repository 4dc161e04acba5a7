------------------------------- MODULE Commands -------------------------------
(***************************************************************************)
(* The vocabulary of the command protocol (command_server_client_data.h):  *)
(* what a request can be, as far as the server tells requests apart, and   *)
(* the result it gets when the answer does not depend on the server's      *)
(* state.  A "kind" stands for a class of multipart messages: the command  *)
(* code together with the way its parts and its parameters are formed.     *)
(***************************************************************************)

(***************************************************************************)
(* Messages recvFromSocket refuses, with the result it returns.  "close"   *)
(* is the single empty part internalStopServer sends; a working server     *)
(* takes it for one more message with the wrong number of parts.           *)
(***************************************************************************)
Malformed == [ close      |-> "INVALID_PARTS",
               badparts   |-> "INVALID_PARTS",
               baduuid    |-> "INVALID_CLIENT_UUID",
               badcommand |-> "INVALID_MSG",
               badtime    |-> "INVALID_MSG",
               emptyparam |-> "EMPTY_PARAMS" ]

(***************************************************************************)
(* Messages with a UUID or a command part of the right size that does not  *)
(* deserialize: fastDeserialization throws and recvFromSocket, which       *)
(* catches the exceptions of the timestamp only, lets it through.          *)
(***************************************************************************)
Throwing == {"corruptuuid", "corruptcommand"}

(* The kinds that fail before the client's UUID has been read.             *)
Anonymous == {"close", "badparts", "baduuid", "corruptuuid"}

(* REQ_CONNECT requests whose parameters execReqConnect refuses.           *)
BadConnect == [ connectempty |-> "EMPTY_PARAMS",
                connectbadip |-> "INVALID_CLIENT_IP",
                connectbad   |-> "BAD_PARAMETERS" ]

Connect == {"connect"} \cup DOMAIN BadConnect

(***************************************************************************)
(* What a connected client can be answered.  "custom" is a custom command  *)
(* with a registered function, which sets the result; "callback" is one    *)
(* that ClbkCommandServerBase hands to a registered callback; "unmapped"   *)
(* one the subclass validates but registers no function for; "unknown" one *)
(* the subclass does not validate.                                         *)
(***************************************************************************)
Answers == [ alive    |-> {"COMMAND_OK"},
             time     |-> {"COMMAND_OK", "COMMAND_FAILED"},
             ping     |-> {"COMMAND_OK"},
             custom   |-> {"COMMAND_OK", "COMMAND_FAILED"},
             callback |-> {"COMMAND_OK", "EMPTY_PARAMS", "BAD_PARAMETERS",
                           "EMPTY_EXT_CALLBACK", "INVALID_EXT_CALLBACK"},
             unmapped |-> {"NOT_IMPLEMENTED"},
             unknown  |-> {"UNKNOWN_COMMAND"} ]

AllKinds == DOMAIN Malformed \cup Throwing \cup Connect \cup {"disconnect"} \cup DOMAIN Answers

Results == { "COMMAND_OK", "COMMAND_FAILED", "INTERNAL_ZMQ_ERROR",
             "TIMEOUT_REACHED", "INVALID_PARTS", "INVALID_CLIENT_UUID",
             "INVALID_MSG", "EMPTY_PARAMS", "INVALID_CLIENT_IP",
             "BAD_PARAMETERS", "ALREADY_CONNECTED", "MAX_CLIENTS_REACH",
             "CLIENT_NOT_CONNECTED", "NOT_IMPLEMENTED", "UNKNOWN_COMMAND",
             "EMPTY_EXT_CALLBACK", "INVALID_EXT_CALLBACK" }
===============================================================================
