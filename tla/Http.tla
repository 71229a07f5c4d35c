-------------------------------- MODULE Http --------------------------------
(***************************************************************************)
(* A call over HTTP: what HttpServer (src/src/http/HttpServer.ts) replies  *)
(* to a request, and what HttpClient (src/src/http/HttpClient.ts) makes of *)
(* the reply, with the two protocols that both know.  `jsonrpc` posts a    *)
(* whole JSON-RPC request to the root, `restful` the params to a route     *)
(* named after the method.                                                 *)
(***************************************************************************)
EXTENDS Dispatch

CONSTANTS
    Texts,       \* results that are strings
    Plain,       \* those that are JSON when they are put between quotes
    Others,      \* results that are neither strings nor null
    Empty        \* the object {}

(* JSON-RPC responses, and what becomes of a call.                          *)
Success(value) == [kind |-> "result", of |-> value]
Failure(code) == [kind |-> "error", of |-> code]
Responses == {Success(v) : v \in Texts \cup Others} \cup {Failure(c) : c \in Codes}

(* A reply: its body is a response, a result, an error, or not JSON.        *)
Reply(status, is, of) == [status |-> status, is |-> is, of |-> of]

Requests == [token : {"none", "valid", "invalid"},   \* in a header or the query
             route : {"root", "method", "unknown"},
             body : {"request", "json", "bad"},       \* not read, if it is bad ...
             statusCode : (400..599) \cup {Undefined}] \* ... with an error of this status

-----------------------------------------------------------------------------
(* onRequest: JWT verification.                                             *)
Unauthorized == Reply(401, "response", Failure(InvalidRequest))

(* errorHandler: the status is that of the error, if it has one.            *)
ErrorHandler(statusCode) ==
    Reply(IF statusCode # Undefined THEN statusCode ELSE 500, "response", Failure(ServerError))

NotFound == Reply(404, "error", InvalidRequest)

(* POST /                                                                   *)
Root(request, response) ==
    IF request.body = "request" THEN Reply(200, "response", response)
    ELSE Reply(400, "text", Undefined)

(* POST /<method>: strings are put between quotes as they are.              *)
Wrap(response) ==
    IF response.kind = "error"
    THEN Reply(IF response.of < InternalError THEN 400 ELSE 500, "error", response.of)
    ELSE Reply(200, IF response.of \in Texts \ Plain THEN "text" ELSE "result",
               response.of)

(* ... when the executor's response to the request is `response`.           *)
Serve(request, response) ==
    IF request.token = "invalid" THEN Unauthorized
    ELSE IF request.body = "bad" THEN ErrorHandler(request.statusCode)
    ELSE IF request.route = "unknown" THEN NotFound
    ELSE IF request.route = "root" THEN Root(request, response)
    ELSE Wrap(response)

-----------------------------------------------------------------------------
(* send: a body that is not JSON is taken for {}.  For `restful` it is an   *)
(* error or a result by the reply's status, ...                             *)
ReadRestful(reply) ==
    IF reply.status >= 400
    THEN Failure(IF reply.is = "error" THEN reply.of ELSE Undefined)
    ELSE Success(IF reply.is = "result" THEN reply.of ELSE Empty)

(* ... for `jsonrpc` it is a response, with a result, an error or neither.  *)
ReadJsonRpc(reply) ==
    IF reply.is = "response" THEN reply.of ELSE Success(Undefined)

Read(protocol, reply) ==
    IF protocol = "restful" THEN ReadRestful(reply) ELSE ReadJsonRpc(reply)

(* What the caller gets.                                                    *)
Call(protocol, request, response) == Read(protocol, Serve(request, response))

(* The request that a client makes of a server that is at its address.      *)
Sent(protocol, request) ==
    /\ request \in Requests
    /\ request.body = IF protocol = "restful" THEN "json" ELSE "request"
    /\ request.route \in {"unknown", IF protocol = "restful" THEN "method" ELSE "root"}
=============================================================================
