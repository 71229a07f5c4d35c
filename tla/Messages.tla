------------------------------ MODULE Messages ------------------------------
(***************************************************************************)
(* The JSON-RPC messages of src/src/base: JsonRpcRequest.ts and            *)
(* JsonRpcResponse.ts.  What tells messages apart is their `id`: a request *)
(* without one is a notification, and a response to a request whose id     *)
(* could not be read has the empty string for id.  Methods, parameters,    *)
(* results and errors are abstracted: a response carries the request whose *)
(* execution it reports (`of`) and whether that succeeded.                 *)
(***************************************************************************)
CONSTANTS
    Requests,    \* ids of the calls made; uid.generate never repeats one
    Undefined,   \* the id of a notification
    Empty,       \* the id of a response to a request that cannot be read
    Nothing      \* no request was executed

ASSUME MessagesAssumption ==
    /\ Undefined \notin Requests /\ Empty \notin Requests
    /\ Nothing \notin Requests
    /\ Undefined # Empty

(* What a client sends: calls and notifications, both well formed; and what *)
(* a foreign peer may write on the same connection.                         *)
Request(id) == [id |-> id, valid |-> TRUE]
Malformed == [id |-> Undefined, valid |-> FALSE]

ToServer == {Request(id) : id \in Requests \cup {Undefined}} \cup {Malformed}

(* What a server sends: responses, with a result or an error, to a request  *)
(* or to something that could not be read; and notifications.               *)
Response(id, of, ok) == [id |-> id, of |-> of, ok |-> ok]
Unreadable == Response(Empty, Nothing, FALSE)
Notification == [id |-> Undefined, of |-> Nothing, ok |-> TRUE]

ToClient == {Response(r, r, ok) : r \in Requests, ok \in BOOLEAN}
              \cup {Unreadable, Notification}
=============================================================================
