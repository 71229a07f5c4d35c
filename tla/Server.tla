------------------------------- MODULE Server -------------------------------
(***************************************************************************)
(* The base `Server` (src/src/base/Server.ts): `receive` dispatches each   *)
(* request to the server's executor and answers with one response, unless  *)
(* the result cannot be written.  It is asynchronous: requests are executed*)
(* side by side, and answered in the order in which the executor finishes. *)
(***************************************************************************)
EXTENDS Messages, Integers

VARIABLES
    executing,   \* requests in `await this.executor.dispatch(..)`
    executed,    \* how often each request was dispatched
    toClient,    \* messages the server has handed to its transport
    unwritten    \* requests whose result JSON.stringify refused: no response

serverVars == <<executing, executed, toClient, unwritten>>

ServerInit ==
    /\ executing = {}
    /\ executed = [r \in Requests |-> 0]
    /\ toClient = {}
    /\ unwritten = {}

(* A request that cannot be read is answered with an error and no id.       *)
ReceiveMalformed(m) ==
    /\ ~m.valid
    /\ toClient' = toClient \cup {Unreadable}
    /\ UNCHANGED <<executing, executed, unwritten>>

(* A notification goes to executor.notified, and nothing is returned.       *)
ReceiveNotification(m) ==
    /\ m.valid
    /\ m.id = Undefined
    /\ UNCHANGED serverVars

ReceiveCall(m) ==
    /\ m.valid
    /\ m.id # Undefined
    /\ executing' = executing \cup {m.id}
    /\ executed' = [executed EXCEPT ![m.id] = @ + 1]
    /\ UNCHANGED <<toClient, unwritten>>

ReceiveRequest(m) ==
    ReceiveMalformed(m) \/ ReceiveNotification(m) \/ ReceiveCall(m)

(* Mutant of Finish: an error is answered without the id of its request.    *)
FinishNoId(r) ==
    /\ r \in executing
    /\ executing' = executing \ {r}
    /\ \/ toClient' = toClient \cup {Response(r, r, TRUE)}
       \/ toClient' = toClient \cup {Response(Empty, r, FALSE)}
    /\ UNCHANGED <<executed, unwritten>>

(* Mutant of Finish: when the executor throws, nothing is answered.         *)
FinishSilently(r) ==
    /\ r \in executing
    /\ executing' = executing \ {r}
    /\ toClient' \in {toClient, toClient \cup {Response(r, r, TRUE)}}
    /\ UNCHANGED <<executed, unwritten>>

(* The executor has finished, or thrown: the response has the request's id. *)
(* A result that cannot be written as JSON (a cycle, a BigInt) is refused   *)
(* after the `try`: receive rejects, a stream or WebSocket server logs it,  *)
(* and nothing is sent (over HTTP it becomes an error, ok = FALSE).         *)
Finish(r) ==
    /\ r \in executing
    /\ executing' = executing \ {r}
    /\ \/ /\ \E ok \in BOOLEAN : toClient' = toClient \cup {Response(r, r, ok)}
          /\ UNCHANGED unwritten
       \/ /\ unwritten' = unwritten \cup {r}
          /\ UNCHANGED toClient
    /\ UNCHANGED executed

(* notify: a notification for this client, one at a time in flight.         *)
NotifyClient ==
    /\ Notification \notin toClient
    /\ toClient' = toClient \cup {Notification}
    /\ UNCHANGED <<executing, executed, unwritten>>
=============================================================================
