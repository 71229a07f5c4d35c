-------------------------- MODULE OperatorTheorems --------------------------
(***************************************************************************)
(* Theorems about what the code computes without keeping any state.        *)
(*                                                                         *)
(* First, what becomes of a call on its way: of its parameters (Dispatch), *)
(* of its error, at the Worker, and over HTTP (Http).  Then, what is lost, *)
(* and what is not, between an address, its URL, the port that a server    *)
(* listens on and the client that is made of it (Addresses).               *)
(***************************************************************************)
EXTENDS Http, Addresses, TLAPS

(* Arguments with which a method of Executor may be called.                 *)
Arguments(method) ==
    {args \in [DOMAIN Forwarded[method] -> Values \cup {Undefined}] :
        \A i \in DOMAIN args : Signature[method][i].required => args[i] # Undefined}

-----------------------------------------------------------------------------
(* The methods that Executor's own implementations pass on.                 *)
LEMMA ForwardedMethods ==
    DOMAIN Forwarded = {"decode", "encode", "query", "compile", "build",
                        "execute", "begin", "end", "pipe"}
BY DEF Forwarded

(* The names by which a method passes its arguments on are those under      *)
(* which dispatch takes them, in the same order, and differ.                *)
LEMMA SameNames ==
    ASSUME NEW method \in DOMAIN Forwarded
    PROVE  /\ method \in Methods
           /\ DOMAIN Signature[method] = DOMAIN Forwarded[method]
           /\ \A i \in DOMAIN Forwarded[method] :
                 /\ Signature[method][i].name = Forwarded[method][i]
                 /\ Forwarded[method][i] \in Names
           /\ \A i, j \in DOMAIN Forwarded[method] :
                 Forwarded[method][i] = Forwarded[method][j] => i = j
<1>1. CASE method = "decode" BY <1>1 DEF Forwarded, Signature, Methods, Slot, Node, Names
<1>2. CASE method = "encode" BY <1>2 DEF Forwarded, Signature, Methods, Slot, Node, Names
<1>3. CASE method = "query" BY <1>3 DEF Forwarded, Signature, Methods, Slot, Node, Names
<1>4. CASE method \in {"compile", "build"}
      BY <1>4 DEF Forwarded, Signature, Methods, Slot, Node, Names
<1>5. CASE method = "execute" BY <1>5 DEF Forwarded, Signature, Methods, Slot, Node, Names
<1>6. CASE method = "begin" BY <1>6 DEF Forwarded, Signature, Methods, Slot, Node, Names
<1>7. CASE method = "end" BY <1>7 DEF Forwarded, Signature, Methods, Slot, Node, Names
<1>8. CASE method = "pipe" BY <1>8 DEF Forwarded, Signature, Methods, Slot, Node, Names
<1> QED BY <1>1, <1>2, <1>3, <1>4, <1>5, <1>6, <1>7, <1>8, ForwardedMethods

(* Each argument is under its own name in the params of a forwarded call.   *)
LEMMA ForwardedByName ==
    ASSUME NEW method \in DOMAIN Forwarded, NEW args,
           DOMAIN args = DOMAIN Forwarded[method],
           NEW i \in DOMAIN args
    PROVE  Forward(method, args).named[Forwarded[method][i]] = args[i]
<1> DEFINE name == Forwarded[method][i]
           Is(j) == Forwarded[method][j] = name
           k == CHOOSE j \in DOMAIN args : Is(j)
<1>1. k \in DOMAIN args /\ Is(k)
  <2>1. \E j \in DOMAIN args : Is(j) OBVIOUS
  <2> HIDE DEF Is
  <2> QED BY <2>1
<1>2. k = i BY <1>1, SameNames
<1>3. name \in Names BY SameNames
<1>4. Forward(method, args).named[name] = args[k] BY <1>3 DEF Forward
<1> QED BY <1>2, <1>4

(* A call that an executor passes on by name, as proxies do, reaches the    *)
(* same method with the same arguments where it is dispatched.              *)
THEOREM ForwardedReaches ==
    ASSUME NEW method \in DOMAIN Forwarded, NEW args \in Arguments(method)
    PROVE  Dispatch(method, Forward(method, args)) = Invoke(method, args)
<1> DEFINE params == Forward(method, args)
           Taken(i) == Param(params, Signature[method][i])
<1>1. /\ DOMAIN args = DOMAIN Forwarded[method]
      /\ args = [i \in DOMAIN args |-> args[i]]
      /\ \A i \in DOMAIN args : Signature[method][i].required => args[i] # Undefined
      BY DEF Arguments
<1>2. \A slot : params.at[slot] = Undefined \/ slot \notin 0..3 BY DEF Forward
<1>3. \A i \in DOMAIN args : Signature[method][i].index \in 0..3
  <2>1. method \in Methods /\ DOMAIN args = DOMAIN Signature[method] BY <1>1, SameNames
  <2>2. \A m \in DOMAIN Forwarded : \A i \in DOMAIN Signature[m] : Signature[m][i].index \in 0..3
        BY SMTT(30), ForwardedMethods DEF Signature, Slot, Node
  <2> QED BY <2>1, <2>2
<1>4. \A i \in DOMAIN args : Taken(i) = args[i]
  <2>1. TAKE i \in DOMAIN args
  <2>2. params.named[Signature[method][i].name] = args[i] BY <1>1, ForwardedByName, SameNames
  <2>3. params.at[Signature[method][i].index] = Undefined BY <1>2, <1>3
  <2> HIDE DEF params
  <2> QED BY <2>2, <2>3 DEF Param, Or
<1>5. DOMAIN Signature[method] = DOMAIN args /\ method \in Methods BY <1>1, SameNames
<1>6. ~ Missing(method, params)
  <2> HIDE DEF params
  <2> QED BY <1>1, <1>4, <1>5 DEF Missing
<1>7. [i \in DOMAIN Signature[method] |-> Taken(i)] = args BY <1>1, <1>4, <1>5
<1>8. Dispatch(method, params) = Invoke(method, args)
  <2> HIDE DEF params
  <2> QED BY <1>5, <1>6, <1>7 DEF Dispatch
<1> QED BY <1>8
-----------------------------------------------------------------------------
(* Whatever claims a request comes with, by name or by position, the method *)
(* gets those of the server that received it.                               *)
THEOREM ClaimsAreTheServers ==
    ASSUME NEW method \in Methods, NEW params \in Params,
           NEW claims, claims # Undefined,
           ~ Missing(method, WithClaims(params, claims)),
           NEW i \in DOMAIN Signature[method], Signature[method][i].name = "claims"
    PROVE  Dispatch(method, WithClaims(params, claims)).args[i] = claims
<1> DEFINE received == WithClaims(params, claims)
<1>1. received.named["claims"] = claims BY DEF WithClaims, Params, Names
<1> HIDE DEF received
<1>2. Param(received, Signature[method][i]) = claims BY <1>1 DEF Param, Or
<1>3. ~ Missing(method, received) BY DEF received
<1>4. Dispatch(method, received).args[i] = claims
      BY <1>2, <1>3 DEF Dispatch, Invoke
<1> QED BY <1>4 DEF received

(* In a pipe the value piped is the first argument of each method that has  *)
(* one, unless the call names that parameter itself.                        *)
THEOREM PipeFeedsFirst ==
    ASSUME NEW method \in Methods \ {"manifest"}, NEW params \in Params,
           NEW value, value # Undefined,
           params.named[Signature[method][1].name] = Undefined,
           params.at[0] = Undefined,
           ~ Missing(method, Piped(value, params))
    PROVE  Dispatch(method, Piped(value, params)).args[1] = value
<1> DEFINE piped == Piped(value, params)
<1>1. /\ piped.at[0] = value
      /\ piped.named = params.named
      BY DEF Piped, Params, Or
<1>2. 1 \in DOMAIN Signature[method] /\ Signature[method][1].index = 0
      BY DEF Signature, Methods, Slot, Node
<1> HIDE DEF piped
<1>3. Param(piped, Signature[method][1]) = value BY <1>1, <1>2 DEF Param, Or
<1>4. ~ Missing(method, piped) BY DEF piped
<1>5. Dispatch(method, piped).args[1] = value
      BY <1>2, <1>3, <1>4 DEF Dispatch, Invoke
<1> QED BY <1>5 DEF piped

(* Of a query whose arguments are given by position the text is taken for   *)
(* the language too, so that the Worker refuses it.                         *)
THEOREM PositionalQueryRefused ==
    ASSUME NEW params \in Params,
           params.named["lang"] = Undefined, params.named["query"] = Undefined,
           ~ Missing("query", params),
           params.at[1] \notin Paths
    PROVE  Work("query", Dispatch("query", params).args) = NoCapability
<1>1. /\ Signature["query"][2] = Slot(1, "query", TRUE)
      /\ Signature["query"][3] = Slot(1, "lang", FALSE)
      /\ DOMAIN Signature["query"] = 1..3
      /\ "query" \in Methods
      BY DEF Signature, Methods
<1>2. params.at[1] # Undefined BY <1>1 DEF Missing, Param, Or, Slot
<1>3. Dispatch("query", params).args[3] = params.at[1]
      BY <1>1 DEF Dispatch, Invoke, Param, Or, Slot
<1> QED BY <1>2, <1>3 DEF Work, Query, Or, Paths, NoCapability

-----------------------------------------------------------------------------
(* What becomes of an error that a server sends to a client.                *)
Hop(error) == ToError(FromError(error))

(* The code that a server sends is there at its client.  If the client's    *)
(* executor serves others in turn, then a second hop leaves an error of     *)
(* capability what it is and makes every other a server error, whatever it  *)
(* was: toError gives back the object that was parsed, which fromError does *)
(* not know for a JsonRpcError.                                             *)
THEOREM CodesCrossOneHop ==
    ASSUME NEW error \in Errors
    PROVE  /\ FromError(error) \in Codes
           /\ Hop(error) # NoCapability => Hop(error).code = FromError(error)
           /\ Hop(Hop(error)) = IF FromError(error) = CapabilityError THEN NoCapability
                                ELSE Throw("object", ServerError)
<1>1. FromError(error) \in Codes BY DEF Errors, Codes, FromError, Throw
<1>2. CASE FromError(error) = CapabilityError
  <2>1. Hop(error) = NoCapability BY <1>2 DEF Hop, ToError, NoCapability
  <2>2. Hop(NoCapability) = NoCapability BY DEF Hop, ToError, FromError, NoCapability, Throw
  <2> QED BY <1>1, <1>2, <2>1, <2>2
<1>3. CASE FromError(error) # CapabilityError
  <2>1. Hop(error) = Throw("object", FromError(error)) BY <1>3 DEF Hop, ToError
  <2>2. FromError(Hop(error)) = ServerError BY <2>1 DEF FromError, Throw
  <2>3. Hop(Hop(error)) = Throw("object", ServerError)
        BY <2>2 DEF Hop, ToError, ServerError, CapabilityError
  <2>4. Hop(error).code = FromError(error) BY <2>1 DEF Throw
  <2> QED BY <1>1, <1>3, <2>3, <2>4
<1> QED BY <1>2, <1>3

(* ... and an error is one of capability at the far end, where a Delegator  *)
(* or a Queuer tells it from others by its class, exactly if it was.        *)
THEOREM IncapableStaysIncapable ==
    ASSUME NEW error \in Errors
    PROVE  ToError(FromError(error)).class = "CapabilityError"
             <=> error \in {NoCapability, Throw("JsonRpcError", CapabilityError)}
<1>1. CASE error.class = "JsonRpcError"
      BY <1>1 DEF Errors, Codes, FromError, ToError, Throw, NoCapability, CapabilityError
<1>2. CASE error.class # "JsonRpcError"
      BY <1>2 DEF Errors, Codes, FromError, ToError, Throw, NoCapability, ParseError,
           InvalidRequest, MethodNotFound, InvalidParams, InternalError, ServerError,
           CapabilityError
<1> QED BY <1>1, <1>2

-----------------------------------------------------------------------------
(* The Worker does what its manifest says that it can, of calls made by     *)
(* name, but for encoding to a destination and executing what is not an     *)
(* object: its manifest admits both, and it refuses them.                   *)
THEOREM WorkerKeepsItsWord ==
    ASSUME NEW method \in Methods, NEW params \in Params,
           Capable(method, params),
           method = "encode" => params.named["dest"] = Undefined /\ params.at[1] = Undefined,
           method = "execute" => /\ params.named["node"].type # "primitive"
                                 /\ params.named["session"] = Undefined
                                 /\ params.at[1] = Undefined
    PROVE  Work(method, Dispatch(method, params).args) # NoCapability
<1> DEFINE args == [i \in DOMAIN Signature[method] |-> Param(params, Signature[method][i])]
<1>0. \A m, a : Invoke(m, a) # NoCapability BY DEF Invoke, NoCapability, Throw
<1>1. CASE method \in {"manifest", "pipe"} BY <1>0, <1>1 DEF Work
<1>2. CASE method = "decode"
  <2>1. /\ DOMAIN Signature["decode"] = 1..2
        /\ Signature["decode"][1] = Slot(0, "source", TRUE)
        /\ Signature["decode"][2] = Slot(1, "format", FALSE)
        BY DEF Signature
  <2>2. Given(params, {"source", "format"}) /\ params.named["format"] = "json"
        BY <1>2 DEF Capable
  <2>3. Dispatch("decode", params) = Invoke("decode", args)
        BY SMTT(30), <1>2, <2>1, <2>2 DEF Dispatch, Missing, Given, Param, Or, Slot
  <2>4. args[2] = "json" BY <1>2, <2>1, <2>2 DEF Given, Param, Or, Slot
  <2> QED BY <1>0, <1>2, <2>3, <2>4 DEF Work, Decode, Invoke
<1>3. CASE method = "encode"
  <2>1. /\ DOMAIN Signature["encode"] = 1..3
        /\ Signature["encode"][1] = Slot(0, "node", TRUE)
        /\ Signature["encode"][2] = Slot(1, "dest", FALSE)
        /\ Signature["encode"][3] = Slot(2, "format", FALSE)
        BY DEF Signature, Node
  <2>2. Given(params, {"node", "format"}) /\ params.named["format"] = "json"
        BY <1>3 DEF Capable
  <2>3. Dispatch("encode", params) = Invoke("encode", args)
        BY SMTT(30), <1>3, <2>1, <2>2 DEF Dispatch, Missing, Given, Param, Or, Slot
  <2>4. args[3] = "json" /\ args[2] = Undefined
        BY <1>3, <2>1, <2>2 DEF Given, Param, Or, Slot
  <2> QED BY <1>0, <1>3, <2>3, <2>4 DEF Work, Encode, Invoke
<1>4. CASE method = "query"
  <2>1. /\ DOMAIN Signature["query"] = 1..3
        /\ Signature["query"][1] = Slot(0, "node", TRUE)
        /\ Signature["query"][2] = Slot(1, "query", TRUE)
        /\ Signature["query"][3] = Slot(1, "lang", FALSE)
        BY DEF Signature, Node
  <2>2. Given(params, {"node", "query", "lang"}) /\ params.named["lang"] \in Paths
        BY <1>4 DEF Capable
  <2>3. Dispatch("query", params) = Invoke("query", args)
        BY SMTT(30), <1>4, <2>1, <2>2 DEF Dispatch, Missing, Given, Param, Or, Slot
  <2>4. args[3] # Undefined /\ args[3] \in Paths
        BY <1>4, <2>1, <2>2 DEF Given, Param, Or, Slot
  <2> QED BY <1>0, <1>4, <2>3, <2>4 DEF Work, Query, Invoke, Or
<1>5. CASE method = "execute"
  <2>1. /\ DOMAIN Signature["execute"] = 1..4
        /\ Signature["execute"][1] = Slot(0, "node", TRUE)
        /\ Signature["execute"][2] = Slot(1, "session", FALSE)
        /\ \A i \in 1..4 : Signature["execute"][i].required => i = 1
        BY DEF Signature, Node, Slot
  <2>2. Given(params, {"node"}) /\ Expression(params.named["node"])
        BY <1>5 DEF Capable
  <2>3. ~ Missing("execute", params)
        BY <2>1, <2>2 DEF Missing, Given, Param, Or, Slot
  <2>4. Dispatch("execute", params) = Invoke("execute", args)
        BY <1>5, <2>3 DEF Dispatch
  <2>5. args[1] = params.named["node"] /\ args[2] = Undefined
        BY <1>5, <2>1, <2>2 DEF Given, Param, Or, Slot
  <2> QED BY <1>0, <1>5, <2>2, <2>4, <2>5 DEF Work, Execute, Expression, Invoke
<1> QED BY <1>1, <1>2, <1>3, <1>4, <1>5 DEF Capable

(* A call of Executor.execute has session, claims and job among its params, *)
(* if only undefined, and the Worker's manifest admits none of them: who    *)
(* asks the manifest first, as a Delegator does, never has it execute.      *)
THEOREM ExecuteNeverOffered ==
    ASSUME NEW args \in Arguments("execute")
    PROVE  ~ Capable("execute", Forward("execute", args))
<1>1. DOMAIN args = 1..4 BY DEF Arguments, Forwarded
<1>2. Forwarded["execute"][2] = "session" BY DEF Forwarded
<1>3. "session" \in Forward("execute", args).keys BY <1>1, <1>2 DEF Forward
<1> QED BY <1>3 DEF Capable
-----------------------------------------------------------------------------
(* A call over HTTP.  With `jsonrpc` the caller gets what the server's      *)
(* executor responded; ...                                                  *)
THEOREM RpcIsTransparent ==
    ASSUME NEW response \in Responses, NEW request \in Requests,
           Sent("jsonrpc", request), request.token # "invalid", request.route = "root"
    PROVE  Call("jsonrpc", request, response) = response
BY DEF Sent, Call, Serve, Root, Read, ReadJsonRpc, Reply

(* ... with `restful` too, but for a string that is not JSON between        *)
(* quotes, which comes as {}, as if the method had succeeded with that.     *)
THEOREM RestfulIsTransparent ==
    ASSUME NEW response \in Responses, NEW request \in Requests,
           Sent("restful", request), request.token # "invalid", request.route = "method"
    PROVE  Call("restful", request, response) =
             IF response.kind = "result" /\ response.of \in Texts \ Plain
             THEN Success(Empty) ELSE response
<1>1. Call("restful", request, response) = ReadRestful(Wrap(response))
      BY DEF Sent, Call, Serve, Read
<1>2. CASE response \in {Failure(code) : code \in Codes}
      BY <1>1, <1>2 DEF Failure, Wrap, ReadRestful, Reply
<1>3. CASE response \in {Success(value) : value \in Texts \cup Others}
      BY <1>1, <1>3 DEF Success, Wrap, ReadRestful, Reply
<1> QED BY <1>2, <1>3 DEF Responses

(* With either protocol a call with a token that is not valid fails, and so *)
(* does one whose body cannot be read.                                      *)
THEOREM RefusedCallsFail ==
    ASSUME NEW protocol \in {"jsonrpc", "restful"}, NEW response, NEW request \in Requests,
           request.token = "invalid" \/ request.body = "bad"
    PROVE  Call(protocol, request, response).kind = "error"
<1>1. CASE request.token = "invalid"
  <2>1. Serve(request, response) = Unauthorized BY <1>1 DEF Serve
  <2> QED BY <2>1 DEF Call, Read, ReadRestful, ReadJsonRpc, Unauthorized, Failure, Reply
<1>2. CASE request.token # "invalid"
  <2>1. Serve(request, response) = ErrorHandler(request.statusCode) BY <1>2 DEF Serve
  <2>2. request.statusCode # Undefined => request.statusCode \in 400..599 BY DEF Requests
  <2> QED BY <2>1, <2>2 DEF Call, Read, ReadRestful, ReadJsonRpc, ErrorHandler, Failure, Reply
<1> QED BY <1>1, <1>2

(* A route that the server does not have fails a restful call, but goes     *)
(* unnoticed in a jsonrpc one, which ends well, with an undefined result.   *)
THEOREM WrongRoute ==
    ASSUME NEW protocol \in {"jsonrpc", "restful"}, NEW response, NEW request \in Requests,
           Sent(protocol, request), request.token # "invalid", request.route = "unknown"
    PROVE  Call(protocol, request, response) =
             IF protocol = "restful" THEN Failure(InvalidRequest) ELSE Success(Undefined)
<1>1. Serve(request, response) = NotFound BY DEF Sent, Serve
<1> QED BY <1>1 DEF Call, Read, ReadRestful, ReadJsonRpc, NotFound, Reply

(* No call ends with a result that its method did not have: it is the       *)
(* executor's, or none at all.                                              *)
THEOREM NoFalseResult ==
    ASSUME NEW protocol \in {"jsonrpc", "restful"},
           NEW response \in Responses, NEW request \in Requests, Sent(protocol, request),
           Call(protocol, request, response).kind = "result"
    PROVE  \/ Call(protocol, request, response) = response
           \/ Call(protocol, request, response).of \in {Empty, Undefined}
<1>1. CASE request.token = "invalid" BY <1>1, RefusedCallsFail
      DEF Success
<1>2. CASE request.token # "invalid" /\ request.route = "unknown"
      BY <1>2, WrongRoute DEF Success, Failure
<1>3. CASE request.token # "invalid" /\ request.route # "unknown"
  <2>1. CASE protocol = "jsonrpc" BY <1>3, <2>1, RpcIsTransparent DEF Sent
  <2>2. CASE protocol = "restful"
        BY <1>3, <2>2, RestfulIsTransparent DEF Sent, Success
  <2> QED BY <2>1, <2>2
<1> QED BY <1>1, <1>2, <1>3

-----------------------------------------------------------------------------
(* What the theorems suppose of the constants.                              *)
Distinct ==
    /\ Undefined \notin Hosts \cup Schemes \cup Ports
    /\ \A n, t : Path(n, t) # Undefined
    /\ Local # "0.0.0.0"
    /\ Domains \cap (Numeric \cup {"localhost"}) = {}

(* Defaults of a kind of address.                                           *)
Defaults == {TcpDefaults, HttpDefaults, WebSocketDefaults, ExpandDefaults}

-----------------------------------------------------------------------------
(* What a URL leaves out is put back when it is read.                       *)
LEMMA ReadBack ==
    ASSUME Distinct, NEW a \in AddressSet, NEW d \in Defaults, Readable(Deparse(a))
    PROVE  LET b == Merge(Parse(Deparse(a)), d)
           IN  /\ b.scheme = a.scheme
               /\ b.host = a.host
               /\ b.port = a.port
               /\ b.path = IF a.scheme = "tcp" \/ a.path = Undefined THEN Undefined
                           ELSE IF a.path.slashes = 0 THEN a.path
                           ELSE Path(a.path.slashes - 1, a.path.text)
               /\ b = Address(b.scheme, b.host, b.port, b.path)
<1> DEFINE url == Deparse(a)
           b == Merge(Parse(url), d)
<1>1. /\ a.scheme \in Schemes /\ a.host \in Hosts /\ a.port \in Ports
      /\ a.path = Undefined \/ (a.path.slashes \in Nat /\ a.path = Path(a.path.slashes, a.path.text))
      BY DEF AddressSet, Address, PathSet, Path
<1>2. d.path = Undefined
      BY DEF Defaults, TcpDefaults, HttpDefaults, WebSocketDefaults, ExpandDefaults, Address
<1>3. /\ url.scheme = a.scheme
      /\ url.host = a.host
      /\ url.port = IF NeedsPort(a.scheme, a.port) THEN a.port ELSE Undefined
      BY DEF Deparse, Address
<1>4. url.path = IF a.scheme = "tcp" \/ a.path = Undefined THEN Undefined
                 ELSE IF a.path.slashes = 0 THEN Path(1, a.path.text) ELSE a.path
      BY DEF Deparse, Address
<1>5. url = Address(url.scheme, url.host, url.port, url.path) BY DEF Deparse, Address
<1>0. Readable(url) OBVIOUS
<1> HIDE DEF url
<1>6. /\ Parse(url).scheme = a.scheme
      /\ Parse(url).host = a.host
      /\ Parse(url).port = url.port
      BY <1>0, <1>3, <1>5 DEF Parse, Address
<1>7. Parse(url).path = IF url.path = Undefined THEN Undefined
                       ELSE Path(url.path.slashes - 1, url.path.text)
      BY <1>0, <1>5 DEF Parse, Address
<1>8. b.scheme = a.scheme /\ b.host = a.host
      BY <1>1, <1>6 DEF Merge, Address, Or, Distinct
<1>9. b.port = a.port
  <2>1. Or(Parse(url).scheme, d.scheme) = a.scheme BY <1>1, <1>6 DEF Or, Distinct
  <2>2. b.port = Or(url.port, InferPort(a.scheme, d.port)) BY <1>6, <2>1 DEF Merge, Address
  <2>3. CASE NeedsPort(a.scheme, a.port) BY <1>1, <1>3, <2>2, <2>3 DEF Or, Distinct
  <2>4. CASE ~ NeedsPort(a.scheme, a.port)
        BY <1>1, <1>3, <2>2, <2>4 DEF Or, NeedsPort, InferPort, Schemes, Secure
  <2> QED BY <2>3, <2>4
<1>10. b.path = Or(Parse(url).path, Undefined) BY <1>2 DEF Merge, Address
<1>11. b.path = IF a.scheme = "tcp" \/ a.path = Undefined THEN Undefined
                ELSE IF a.path.slashes = 0 THEN a.path
                ELSE Path(a.path.slashes - 1, a.path.text)
  <2>1. CASE a.scheme = "tcp" \/ a.path = Undefined BY <1>4, <1>7, <1>10, <2>1 DEF Or
  <2>2. CASE ~ (a.scheme = "tcp" \/ a.path = Undefined)
    <3>1. url.path # Undefined BY <1>1, <1>4, <2>2 DEF Distinct
    <3>2. b.path = Path(url.path.slashes - 1, url.path.text)
          BY <1>7, <1>10, <3>1 DEF Or
    <3>3. CASE a.path.slashes = 0 BY <1>1, <1>4, <2>2, <3>2, <3>3 DEF Path
    <3>4. CASE a.path.slashes # 0 BY <1>1, <1>4, <2>2, <3>2, <3>4 DEF Path
    <3> QED BY <3>3, <3>4
  <2> QED BY <2>1, <2>2
<1>12. b = Address(b.scheme, b.host, b.port, b.path) BY DEF Merge, Address
<1> QED BY <1>8, <1>9, <1>11, <1>12 DEF url

(* deparseTcpAddress is the inverse of parseTcpAddress, as its comment      *)
(* says, for addresses whose path, if any, begins with no slash and is not  *)
(* empty: what it writes of an empty one cannot be read.                    *)
THEOREM AddressRoundTrip ==
    ASSUME Distinct, NEW a \in AddressSet, NEW d \in Defaults, Readable(Deparse(a)),
           a.path # Undefined => a.scheme # "tcp" /\ a.path.slashes = 0
    PROVE  Merge(Parse(Deparse(a)), d) = a
<1>1. a = Address(a.scheme, a.host, a.port, a.path) BY DEF AddressSet, Address
<1> QED BY <1>1, ReadBack

(* ... and for any address whose URL can be read, doing so and writing it   *)
(* again gives the same URL, wherever it has at most one slash to lose.     *)
THEOREM UrlRoundTrip ==
    ASSUME Distinct, NEW a \in AddressSet, NEW d \in Defaults, Readable(Deparse(a)),
           a.path # Undefined => a.path.slashes <= 1
    PROVE  Deparse(Merge(Parse(Deparse(a)), d)) = Deparse(a)
<1> DEFINE b == Merge(Parse(Deparse(a)), d)
<1>1. a.path = Undefined \/ (a.path.slashes \in {0, 1} /\ a.path = Path(a.path.slashes, a.path.text))
      BY DEF AddressSet, Address, PathSet, Path
<1>2. b.scheme = a.scheme /\ b.host = a.host /\ b.port = a.port BY ReadBack
<1>3. b.path = IF a.scheme = "tcp" \/ a.path = Undefined THEN Undefined
               ELSE IF a.path.slashes = 0 THEN a.path
               ELSE Path(a.path.slashes - 1, a.path.text)
      BY ReadBack
<1> HIDE DEF b
<1>4. Deparse(b) = Deparse(a)
  <2>1. CASE a.scheme = "tcp" \/ a.path = Undefined BY <1>2, <1>3, <2>1 DEF Deparse
  <2>2. CASE ~ (a.scheme = "tcp" \/ a.path = Undefined) /\ a.path.slashes = 0
        BY <1>2, <1>3, <2>2 DEF Deparse
  <2>3. CASE ~ (a.scheme = "tcp" \/ a.path = Undefined) /\ a.path.slashes = 1
    <3>1. b.path = Path(0, a.path.text) /\ b.path # Undefined BY <1>3, <2>3 DEF Distinct
    <3>2. Path(1, b.path.text) = a.path BY <1>1, <2>3, <3>1 DEF Path
    <3>3. b.path.slashes = 0 BY <3>1 DEF Path
    <3> QED BY <1>2, <2>3, <3>1, <3>2, <3>3 DEF Deparse
  <2> QED BY <1>1, <2>1, <2>2, <2>3
<1> QED BY <1>4 DEF b

(* The URLs that cannot be read are those whose path is empty or a slash:   *)
(* the address of a server with a trailing slash is refused.                *)
THEOREM UnreadableUrls ==
    ASSUME Distinct, NEW a \in AddressSet
    PROVE  ~ Readable(Deparse(a))
             <=> /\ a.scheme # "tcp" /\ a.path # Undefined
                 /\ a.path.slashes <= 1 /\ a.path.text = NoText
<1> DEFINE url == Deparse(a)
<1>1. a.path = Undefined \/ (a.path.slashes \in Nat /\ a.path = Path(a.path.slashes, a.path.text))
      BY DEF AddressSet, Address, PathSet, Path
<1>2. url.path = IF a.scheme = "tcp" \/ a.path = Undefined THEN Undefined
                 ELSE IF a.path.slashes = 0 THEN Path(1, a.path.text) ELSE a.path
      BY DEF Deparse, Address
<1> HIDE DEF url
<1>3. ~ Readable(url)
             <=> /\ a.scheme # "tcp" /\ a.path # Undefined
                 /\ a.path.slashes <= 1 /\ a.path.text = NoText
  <2>1. CASE a.scheme = "tcp" \/ a.path = Undefined BY <1>2, <2>1 DEF Readable
  <2>2. CASE ~ (a.scheme = "tcp" \/ a.path = Undefined) /\ a.path.slashes = 0
    <3>1. url.path = Path(1, a.path.text) /\ url.path # Undefined BY <1>2, <2>2 DEF Distinct
    <3> QED BY <2>2, <3>1 DEF Readable, Path
  <2>3. CASE ~ (a.scheme = "tcp" \/ a.path = Undefined) /\ a.path.slashes # 0
    <3>1. url.path = a.path BY <1>2, <2>3
    <3> QED BY <1>1, <2>3, <3>1 DEF Readable
  <2> QED BY <2>1, <2>2, <2>3
<1> QED BY <1>3 DEF url

-----------------------------------------------------------------------------
(* A server's own URL can be read: it has no path.                          *)
LEMMA ServerReadBack ==
    ASSUME Distinct, NEW a \in ServerAddresses, NEW d \in Defaults
    PROVE  Merge(Parse(Deparse(a)), d) = a
<1>1. a \in AddressSet /\ a.path = Undefined BY DEF ServerAddresses
<1>2. Readable(Deparse(a)) BY <1>1 DEF Readable, Deparse, Address
<1> QED BY <1>1, <1>2, AddressRoundTrip

(* Only a TCP server ever listens on a privileged port, and an HTTP or      *)
(* WebSocket server whose address has the scheme of TCP.                    *)
THEOREM ListensUnprivileged ==
    ASSUME NEW type \in {"http", "ws"}, NEW a \in ServerAddresses, a.scheme # "tcp"
    PROVE  Listening(type, a).port >= 1024
<1>1. a.scheme \in Schemes /\ a.port \in Nat
      BY DEF ServerAddresses, AddressSet, Address, Ports
<1> QED BY <1>1 DEF Listening, ListeningAddress

(* A server tells its peers to reach it at 0.0.0.0 exactly if its host is a *)
(* name and the machine's global address could not be found: expandAddress  *)
(* compares what it got instead with the host alone.                        *)
THEOREM AnyAddressAdvertised ==
    ASSUME Distinct, NEW a \in ServerAddresses
    PROVE  (\E url \in Advertised(a) : url.host = "0.0.0.0")
             <=> a.host \in Domains /\ Global = "0.0.0.0"
<1>1. Advertised(a) = {Deparse(c) : c \in Expand(a)}
      BY ServerReadBack DEF Advertised, Defaults
<1>2. a = Address(a.scheme, a.host, a.port, a.path) /\ a.host \in Hosts
      BY DEF ServerAddresses, AddressSet, Address
<1>3. \A h : At(a, h).host = h /\ At(Insecure(a), h).host = h
      BY <1>2 DEF At, Insecure, Address
<1>4. \A c : Deparse(c).host = c.host BY DEF Deparse, Address
<1>5. \A c \in Near(a) : c.host # "0.0.0.0" BY <1>3 DEF Near, Distinct
<1>6. (\E c \in Expand(a) : c.host = "0.0.0.0") <=> a.host \in Domains /\ Global = "0.0.0.0"
  <2>1. CASE a.host \in {"127.0.0.1", "localhost"}
        BY <2>1 DEF Expand, Distinct, Numeric
  <2>2. CASE a.host \in Numeric \ {"127.0.0.1", "0.0.0.0"}
        BY <1>5, <2>2 DEF Expand, Distinct, Numeric
  <2>3. CASE a.host \in Domains \cup {"0.0.0.0"}
    <3>1. a.host \notin {"127.0.0.1", "localhost"} BY <2>3 DEF Distinct, Numeric
    <3>2. a.host \notin Numeric \ {"0.0.0.0"} BY <2>3 DEF Distinct
    <3>3. Expand(a) = Near(a) \cup {At(a, h) : h \in ({a.host} \ {"0.0.0.0"})
                                                       \cup ({Global} \ {a.host})}
          BY <3>1, <3>2 DEF Expand
    <3>4. "0.0.0.0" \notin Domains BY DEF Distinct, Numeric
    <3>5. CASE a.host = "0.0.0.0"
      <4>1. \A c \in Expand(a) : c \in Near(a) \/ (c = At(a, Global) /\ Global # "0.0.0.0")
            BY <3>3, <3>5
      <4> QED BY <1>3, <1>5, <3>4, <3>5, <4>1
    <3>6. CASE a.host \in Domains
      <4>1. a.host # "0.0.0.0" /\ Global # a.host
            BY <3>4, <3>6 DEF Distinct, Numeric
      <4>2. Expand(a) = Near(a) \cup {At(a, a.host), At(a, Global)} BY <3>3, <4>1
      <4> QED BY <1>3, <1>5, <3>6, <4>1, <4>2
    <3> QED BY <2>3, <3>5, <3>6
  <2> QED BY <1>2, <2>1, <2>2, <2>3 DEF Hosts
<1> QED BY <1>1, <1>4, <1>6

(* The peers of a server's machine are told of its local addresses.  With   *)
(* HTTP or WebSockets one that uses such a URL finds the server exactly if  *)
(* the server's scheme is secure and its port is the privileged one that    *)
(* listeningAddress replaces (or happens to be the replacement), or its     *)
(* scheme is not secure and its port is not replaced.  A TCP server listens *)
(* on what its name stands for, and is found there only.                    *)
THEOREM NearPeersFind ==
    ASSUME Distinct, NEW type \in ServerTypes, NEW a \in ServerAddresses, NEW d \in Defaults,
           a.host \in Domains \cup {"0.0.0.0"},
           NEW n \in Near(a)
    PROVE  /\ Deparse(n) \in Advertised(a)
           /\ Finds(Merge(Parse(Deparse(n)), d), Listening(type, a)) <=>
                 IF type = "tcp"
                 THEN /\ a.scheme \in Secure => a.port = Insecure(a).port
                      /\ a.host # "0.0.0.0" => Resolved[a.host] \in {"0.0.0.0", n.host}
                 ELSE IF a.scheme \in Secure
                 THEN a.port < 1024 \/ a.port = Insecure(a).port
                 ELSE a.port >= 1024 \/ a.scheme = "tcp"
<1>1. /\ a.scheme \in Schemes /\ a.port \in Ports
      /\ a = Address(a.scheme, a.host, a.port, Undefined)
      BY DEF ServerAddresses, AddressSet, Address
<1>2. PICK h \in {Local, "127.0.0.1"} : n = At(Insecure(a), h) BY DEF Near
<1>3. /\ n.scheme = IF a.scheme = "https" THEN "http"
                    ELSE IF a.scheme = "wss" THEN "ws" ELSE a.scheme
      /\ n.port = IF a.scheme = "https" THEN 8000
                  ELSE IF a.scheme = "wss" THEN 9000 ELSE a.port
      /\ n = Address(n.scheme, h, n.port, Undefined)
      /\ n.port = Insecure(a).port
  <2> DEFINE c == Insecure(a)
  <2>1. /\ c.scheme = IF a.scheme = "https" THEN "http"
                      ELSE IF a.scheme = "wss" THEN "ws" ELSE a.scheme
        /\ c.port = IF a.scheme = "https" THEN 8000
                    ELSE IF a.scheme = "wss" THEN 9000 ELSE a.port
        /\ c = Address(c.scheme, c.host, c.port, Undefined)
    <3>1. CASE a.scheme = "https" BY <1>1, <3>1 DEF Insecure, Address
    <3>2. CASE a.scheme = "wss" BY <1>1, <3>2 DEF Insecure, Address
    <3>3. CASE a.scheme \notin {"https", "wss"} BY <1>1, <3>3 DEF Insecure
    <3> QED BY <3>1, <3>2, <3>3
  <2> HIDE DEF c
  <2>2. n = [c EXCEPT !.host = h] BY <1>2 DEF At, c
  <2>3. n = Address(n.scheme, h, n.port, Undefined) /\ n.scheme = c.scheme /\ n.port = c.port
        BY <2>1, <2>2 DEF Address
  <2> QED BY <2>1, <2>3 DEF c
<1>4. n.port \in Ports /\ n.scheme \in Schemes /\ h \in Hosts
      BY <1>1, <1>3 DEF Ports, Schemes, Secure, Hosts, Numeric
<1>5. n \in ServerAddresses
      BY <1>3, <1>4 DEF ServerAddresses, AddressSet, PathSet, Address
<1>6. Deparse(n) \in Advertised(a)
  <2>1. Merge(Parse(Deparse(a)), ExpandDefaults) = a BY ServerReadBack DEF Defaults
  <2>2. a.host \notin {"127.0.0.1", "localhost"} BY DEF Distinct, Numeric
  <2>3. n \in Expand(a) BY <2>2 DEF Expand
  <2> QED BY <2>1, <2>3 DEF Advertised
<1>7. Merge(Parse(Deparse(n)), d) = n BY <1>5, ServerReadBack
<1>8. a.host = "0.0.0.0" \/ (a.host \in Domains /\ a.host # "0.0.0.0")
      OBVIOUS
<1>9. "0.0.0.0" \notin Domains /\ "localhost" \notin Domains
      BY DEF Distinct, Numeric
<1>10. n.host = h BY <1>3 DEF Address
<1>11. CASE type = "tcp"
  <2>1. Listening(type, a).host = a.host /\ Listening(type, a).port = a.port
        BY <1>11 DEF Listening
  <2>2. Bound(a.host) = IF a.host = "0.0.0.0" THEN "0.0.0.0" ELSE Resolved[a.host]
        BY <1>8, <1>9 DEF Bound
  <2>3. n.port = a.port <=> (a.scheme \in Secure => a.port = Insecure(a).port)
        BY <1>3 DEF Secure
  <2> QED BY <1>6, <1>7, <1>11, <2>1, <2>2, <2>3 DEF Finds
<1>12. CASE type # "tcp"
  <2>0. Listening(type, a) = ListeningAddress(a) BY <1>12 DEF Listening
  <2>1. Listening(type, a).host = "0.0.0.0"
    <3>1. CASE a.host = "0.0.0.0" BY <2>0, <3>1 DEF ListeningAddress, Numeric
    <3>2. CASE a.host \notin Numeric \cup {"localhost"} BY <2>0, <3>2 DEF ListeningAddress
    <3>3. a.host = "0.0.0.0" \/ a.host \notin Numeric \cup {"localhost"}
          BY <1>8 DEF Distinct
    <3> QED BY <3>1, <3>2, <3>3
  <2>2. Bound("0.0.0.0") = "0.0.0.0" BY <1>9 DEF Bound
  <2>3. Finds(n, Listening(type, a)) <=> n.port = Listening(type, a).port
        BY <2>1, <2>2 DEF Finds
  <2>4. Listening(type, a).port = IF a.port >= 1024 \/ a.scheme = "tcp" THEN a.port
                            ELSE IF a.scheme \in {"http", "https"} THEN 8000 ELSE 9000
        BY <2>0 DEF ListeningAddress
  <2>5. a.port \in Nat BY <1>1 DEF Ports
  <2>6. n.port = Listening(type, a).port <=>
                 IF a.scheme \in Secure THEN a.port < 1024 \/ a.port = Insecure(a).port
                 ELSE a.port >= 1024 \/ a.scheme = "tcp"
        BY <1>1, <1>3, <2>4, <2>5 DEF Schemes, Secure
  <2> QED BY <1>6, <1>7, <1>12, <2>3, <2>6
<1> QED BY <1>11, <1>12

-----------------------------------------------------------------------------
(* No address string yields a TCP, WebSocket, direct or Vsock client, also  *)
(* where those types are available: of those parseAddress knows nothing.    *)
THEOREM SomeTypesOnlyDiscovered ==
    ASSUME NEW scheme, NEW types, NEW discovered,
           Undefined \notin DOMAIN TransportToClientType
    PROVE  AddressToClients(scheme, FALSE, types, discovered)
             \subseteq {"StdioClient", "HttpClient", "PipeClient"}
<1>1. DOMAIN TransportOf = {"docker", "stdio", "http", "https", "pipe"} BY DEF TransportOf
<1>2. \A s \in DOMAIN TransportOf : TransportOf[s] \in {"stdio", "http", "pipe"}
      BY DEF TransportOf
<1>3. \A t \in {"stdio", "http", "pipe"} :
         TransportToClientType[t] \in {"StdioClient", "HttpClient", "PipeClient"}
      BY DEF TransportToClientType
<1> QED BY <1>1, <1>2, <1>3 DEF AddressToClients
=============================================================================
