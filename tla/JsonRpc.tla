------------------------------ MODULE JsonRpc -------------------------------
(***************************************************************************)
(* A Client and a Server joined by a transport: every method call of a     *)
(* remote executor.  The transports of Executa differ in whether they keep *)
(* messages in order; here any message in flight may be delivered next,    *)
(* which covers them all.  A connection that breaks loses messages both    *)
(* ways.  Nothing is ever sent twice: neither the clients nor the servers  *)
(* retry a message.                                                        *)
(***************************************************************************)
EXTENDS Client, Server

CONSTANT
    MaxNotifications   \* bound on the notifications delivered to the client

VARIABLES
    toServer,          \* messages the client has handed to its transport
    connection         \* has the connection ever broken?

vars == <<clientVars, serverVars, toServer, connection>>

ASSUME JsonRpcAssumption == MaxNotifications \in Nat

Init ==
    /\ ClientInit
    /\ ServerInit
    /\ toServer = {}
    /\ connection = "up"

-----------------------------------------------------------------------------
CallMethod(r) == Call(r) /\ UNCHANGED <<serverVars, toServer, connection>>

WriteRequest(r) ==
    /\ Write(r)
    /\ toServer' = toServer \cup {Request(r)}
    /\ UNCHANGED <<serverVars, connection>>

FinishSend(r) ==
    /\ SendReturns(r) \/ SendThrows(r)
    /\ UNCHANGED <<serverVars, toServer, connection>>

(* Client.notify, and a foreign peer writing on the connection.             *)
OtherMessage ==
    \E m \in {Request(Undefined), Malformed} :
       /\ m \notin toServer
       /\ toServer' = toServer \cup {m}
       /\ UNCHANGED <<clientVars, serverVars, connection>>

Deliver(m) ==
    /\ m \in toServer
    /\ ReceiveRequest(m)
    /\ toServer' = toServer \ {m}
    /\ UNCHANGED <<clientVars, connection>>

FinishExecution(r) == Finish(r) /\ UNCHANGED <<clientVars, toServer, connection>>

Notify ==
    /\ count < MaxNotifications
    /\ NotifyClient
    /\ UNCHANGED <<clientVars, toServer, connection>>

DeliverReply(m) ==
    /\ m \in toClient
    /\ Receive(m)
    /\ toClient' = toClient \ {m}
    /\ UNCHANGED <<executing, executed, unwritten, toServer, connection>>

Stop == StopClient /\ UNCHANGED <<serverVars, toServer, connection>>

(* The connection breaks: some of what was in flight does not arrive.       *)
Break ==
    /\ connection' = "broken"
    /\ toServer' \in SUBSET toServer
    /\ toClient' \in SUBSET toClient
    /\ UNCHANGED <<clientVars, executing, executed, unwritten>>

Next ==
    \/ \E r \in Requests : \/ CallMethod(r) \/ WriteRequest(r)
                           \/ FinishSend(r) \/ FinishExecution(r)
    \/ \E m \in toServer : Deliver(m)
    \/ \E m \in toClient : DeliverReply(m)
    \/ OtherMessage \/ Notify \/ Stop \/ Break

Spec == Init /\ [][Next]_vars

(* Sends return, messages in flight arrive and the executor finishes what   *)
(* it was given; nothing is assumed of callers, of notifications or `stop`. *)
Fairness ==
    /\ WF_vars(\E r \in Requests : WriteRequest(r) \/ FinishSend(r))
    /\ WF_vars(\E r \in Requests : Deliver(Request(r)))
    /\ WF_vars(\E r \in Requests : FinishExecution(r))
    /\ WF_vars(\E r \in Requests, ok \in BOOLEAN :
                  DeliverReply(Response(r, r, ok)))

FairSpec == Spec /\ Fairness

-----------------------------------------------------------------------------
TypeOK ==
    /\ ClientTypeOK
    /\ executing \subseteq Requests
    /\ executed \in [Requests -> Nat]
    /\ unwritten \subseteq Requests
    /\ toServer \subseteq ToServer
    /\ toClient \subseteq ToClient
    /\ connection \in {"up", "broken"}

(* A call that resolves does so with the result of its own execution, and   *)
(* that was the only one, however responses are ordered, lost or late.      *)
ResultIsOwn ==
    \A r \in Requests :
       Outcome(r) = "resolved" => answer[r] = r /\ executed[r] = 1

(* A request is executed at most once, even if its send fails or its client *)
(* stops meanwhile.                                                         *)
AtMostOnce == \A r \in Requests : executed[r] <= 1

(* JSON-RPC implements remote calls as Rpc promises them.                   *)
Abstract == INSTANCE Rpc WITH outcome <- [r \in Requests |-> Outcome(r)],
                              runs <- executed
ImplementsRpc == Abstract!Spec

(* On a connection that does not break every call comes to an outcome, but  *)
(* for one whose result the server could not write: that is the only way in *)
(* which a request may be lost between two peers that both run.             *)
CallsSettle ==
    \A r \in Requests :
       Outcome(r) = "pending" ~>
          \/ Outcome(r) \in {"resolved", "rejected"}
          \/ connection = "broken"
          \/ r \in unwritten
=============================================================================
