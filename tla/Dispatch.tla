------------------------------ MODULE Dispatch ------------------------------
(***************************************************************************)
(* How a call travels by name: the methods of Executor and their           *)
(* parameters (src/src/base/Executor.ts), the error of a call that fails   *)
(* (src/src/base/JsonRpcError.ts), and the executor at the end of the way, *)
(* Worker (src/src/base/Worker.ts), with what it says it can do.           *)
(***************************************************************************)
EXTENDS Integers, Sequences, Optional

CONSTANT Values   \* what a parameter may be

-----------------------------------------------------------------------------
(* Executor.dispatch: how it takes each parameter of a method.              *)
Slot(index, name, required) == [index |-> index, name |-> name, required |-> required]

Node == Slot(0, "node", TRUE)

Signature ==
    [manifest |-> <<>>,
     decode   |-> <<Slot(0, "source", TRUE), Slot(1, "format", FALSE)>>,
     encode   |-> <<Node, Slot(1, "dest", FALSE), Slot(2, "format", FALSE)>>,
     query    |-> <<Node, Slot(1, "query", TRUE), Slot(1, "lang", FALSE)>>,
     compile  |-> <<Node>>,
     build    |-> <<Node>>,
     execute  |-> <<Node, Slot(1, "session", FALSE), Slot(2, "claims", FALSE),
                    Slot(3, "job", FALSE)>>,
     begin    |-> <<Node, Slot(1, "claims", FALSE)>>,
     end      |-> <<Node, Slot(1, "claims", FALSE)>>,
     pipe     |-> <<Node, Slot(1, "calls", TRUE)>>,
     cancel   |-> <<Slot(0, "job", TRUE)>>]

Methods == DOMAIN Signature

Names == {"source", "format", "node", "dest", "query", "lang", "session",
          "claims", "job", "calls"}

(* Params are given by name or by index; `keys` are the names that are      *)
(* there, if only with an undefined value.                                  *)
Params == [named : [Names -> Values \cup {Undefined}],
           at : [0..3 -> Values \cup {Undefined}],
           keys : SUBSET Names]

Param(params, slot) == Or(params.named[slot.name], params.at[slot.index])

Missing(method, params) ==
    \E i \in DOMAIN Signature[method] :
        LET slot == Signature[method][i]
        IN  slot.required /\ Param(params, slot) = Undefined

Invoke(method, args) == [method |-> method, args |-> args]
Throw(class, code) == [class |-> class, code |-> code]

Dispatch(method, params) ==
    IF method \notin Methods THEN Throw("MethodUnknownError", Undefined)
    ELSE IF Missing(method, params) THEN Throw("ParamRequiredError", Undefined)
    ELSE Invoke(method, [i \in DOMAIN Signature[method] |->
                            Param(params, Signature[method][i])])

-----------------------------------------------------------------------------
(* The methods of Executor: each passes its arguments to `call` by name.    *)
Forwarded ==
    [decode  |-> <<"source", "format">>,
     encode  |-> <<"node", "dest", "format">>,
     query   |-> <<"node", "query", "lang">>,
     compile |-> <<"node">>,
     build   |-> <<"node">>,
     execute |-> <<"node", "session", "claims", "job">>,
     begin   |-> <<"node", "claims">>,
     end     |-> <<"node", "claims">>,
     pipe    |-> <<"node", "calls">>]

Forward(method, args) ==
    [named |-> [name \in Names |->
                  IF \E i \in DOMAIN args : Forwarded[method][i] = name
                  THEN args[CHOOSE i \in DOMAIN args : Forwarded[method][i] = name]
                  ELSE Undefined],
     at |-> [k \in 0..3 |-> Undefined],
     keys |-> {Forwarded[method][i] : i \in DOMAIN args}]

(* Server.receive: the server's claims replace those of the request.        *)
WithClaims(params, claims) ==
    [params EXCEPT !.named["claims"] = claims, !.keys = @ \cup {"claims"}]

-----------------------------------------------------------------------------
(* JsonRpcError: the code with which an error is sent, and the error that   *)
(* is made of it at the other end.  That is the object that was read from   *)
(* JSON, of no class of its own, but for an error of capability.            *)
ParseError == -32700
InvalidRequest == -32600
MethodNotFound == -32601
InvalidParams == -32602
InternalError == -32603
ServerError == -32000
CapabilityError == -32005

Codes == {ParseError, InvalidRequest, MethodNotFound, InvalidParams,
          InternalError, ServerError, CapabilityError}

Errors == {Throw("JsonRpcError", code) : code \in Codes}
            \cup {Throw("object", code) : code \in (Codes \ {CapabilityError}) \cup {Undefined}}
            \cup {Throw(class, Undefined) : class \in
                    {"MethodUnknownError", "ParamRequiredError", "CapabilityError", "Error"}}

FromError(error) ==
    IF error.class = "JsonRpcError" THEN error.code
    ELSE IF error.class = "MethodUnknownError" THEN MethodNotFound
    ELSE IF error.class = "ParamRequiredError" THEN InvalidParams
    ELSE IF error.class = "CapabilityError" THEN CapabilityError
    ELSE ServerError

ToError(code) ==
    IF code = CapabilityError THEN Throw("CapabilityError", Undefined)
    ELSE Throw("object", code)

(* Executor.call: what a method falls back to.                              *)
NoCapability == Throw("CapabilityError", Undefined)

-----------------------------------------------------------------------------
(* Worker.  Of a node it looks at the type, and of code at its language.    *)
JavaScript == {"js", "javascript"}
Uppercase == {"JS", "JavaScript"}       \* the same in other letters
Paths == {"jmp", "jmes-path", "jpo", "json-pointer"}

Given(params, names) == \A name \in names : params.named[name] # Undefined

(* capabilities: the JSON Schema of each method; a schema says nothing of a *)
(* node that is not an object.                                              *)
Expression(node) ==
    /\ node.type = "CodeExpression"
    /\ node.lang \in JavaScript
    /\ node.text # Undefined

Capable(method, params) ==
    \/ method \in {"manifest", "pipe"}
    \/ /\ method = "decode"
       /\ Given(params, {"source", "format"}) /\ params.named["format"] = "json"
    \/ /\ method = "encode"
       /\ Given(params, {"node", "format"}) /\ params.named["format"] = "json"
    \/ /\ method = "query"
       /\ Given(params, {"node", "query", "lang"}) /\ params.named["lang"] \in Paths
    \/ /\ method = "execute"
       /\ Given(params, {"node"}) /\ params.keys \subseteq {"node"}
       /\ params.named["node"].type # "primitive" => Expression(params.named["node"])

Decode(args) ==
    IF args[2] = "json" THEN Invoke("decode", args) ELSE NoCapability

Encode(args) ==
    IF args[3] = "json" /\ args[2] = Undefined THEN Invoke("encode", args)
    ELSE NoCapability

Query(args) ==
    IF Or(args[3], "jmes-path") \in Paths THEN Invoke("query", args)
    ELSE NoCapability

Execute(args) ==
    IF /\ args[1].type = "CodeExpression"
       /\ args[1].lang \in JavaScript \cup Uppercase
       /\ args[2] = Undefined
    THEN Invoke("execute", args) ELSE NoCapability

(* What the worker does when a method is invoked.                           *)
Work(method, args) ==
    IF method = "decode" THEN Decode(args)
    ELSE IF method = "encode" THEN Encode(args)
    ELSE IF method = "query" THEN Query(args)
    ELSE IF method = "execute" THEN Execute(args)
    ELSE IF method \in {"manifest", "pipe", "cancel"} THEN Invoke(method, args)
    ELSE NoCapability

(* A call in a pipe: the value piped is the first of its params.            *)
Piped(value, params) == [params EXCEPT !.at[0] = Or(params.at[0], value)]
=============================================================================
