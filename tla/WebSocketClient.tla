--------------------------- MODULE WebSocketClient --------------------------
(***************************************************************************)
(* The life of the connections of a `WebSocketClient`                      *)
(* (src/src/ws/WebSocketClient.ts, src/src/ws/util.ts): starting just in   *)
(* time for a request, requests that wait for the socket to open,          *)
(* reconnecting with retries, and stopping.                                *)
(*                                                                         *)
(* `start` makes a new WebSocket each time; the handlers of older ones go  *)
(* on firing.  A socket has one `onopen` handler: the one of `start`,      *)
(* until `untilOpen` puts the one of a waiting request in its place.       *)
(*                                                                         *)
(* An action is one event: a call, a socket event, a timer.  What a        *)
(* settled promise sets off (Resume, RetryDone, RetryFailed) runs before   *)
(* the next event: events wait until nothing is left to run (Quiet).       *)
(***************************************************************************)
EXTENDS Integers, FiniteSets

CONSTANTS
    Sends,        \* the requests sent
    Retries,      \* options.retries
    MaxSockets,   \* bound on the WebSockets made
    MaxStarts     \* bound on the starts that are asked for from outside

ASSUME WebSocketClientAssumption ==
    /\ Retries \in Nat /\ MaxSockets \in Nat /\ MaxStarts \in Nat
    /\ "start" \notin Sends

Sockets == 1..MaxSockets

VARIABLES
    sock,         \* the state of each WebSocket
    startP,       \* the promise of the `start` that made it
    onopen,       \* whose onopen handler it has: "start" or a request
    current,      \* this.socket, 0 if undefined
    isStopped,    \* this.isStopped
    isRetrying,   \* this.isRetrying
    retryOf,      \* the socket whose `start` waits for the retries, or 0
    retryCur,     \* the socket of the current retry, 0 in the pause before it
    retriesLeft,  \* retries that remain
    send,         \* how far each `send` is
    sendOn,       \* the socket it waits for
    asked         \* starts that a caller asked for, itself or by sending

retrying == <<isRetrying, retryOf, retryCur, retriesLeft>>
sending == <<send, sendOn>>
vars == <<sock, startP, onopen, current, isStopped, retrying, sending, asked>>

Init ==
    /\ sock = [a \in Sockets |-> "none"]
    /\ startP = [a \in Sockets |-> "none"]
    /\ onopen = [a \in Sockets |-> "start"]
    /\ current = 0
    /\ isStopped = FALSE
    /\ isRetrying = "undefined"
    /\ retryOf = 0 /\ retryCur = 0 /\ retriesLeft = 0
    /\ send = [s \in Sends |-> "idle"]
    /\ sendOn = [s \in Sends |-> 0]
    /\ asked = 0

-----------------------------------------------------------------------------
Made == {a \in Sockets : sock[a] # "none"}
Live == {a \in Sockets : sock[a] \in {"connecting", "open"}}

(* A promise keeps the first outcome it is given.                           *)
Settled(promises, a, outcome) ==
    [promises EXCEPT ![a] = IF @ = "pending" THEN outcome ELSE @]

Resumable(s) == send[s] = "starting" /\ startP[sendOn[s]] # "pending"
RetrySettled == retryCur # 0 /\ startP[retryCur] # "pending"
Quiet == ~RetrySettled /\ \A s \in Sends : ~Resumable(s)

(* The part of `start` that makes the WebSocket: socket n, in the states    *)
(* given of the others.                                                     *)
MakeSocket(n, socks, promises) ==
    /\ n = Cardinality(Made) + 1
    /\ n \in Sockets
    /\ sock' = [socks EXCEPT ![n] = "connecting"]
    /\ startP' = [promises EXCEPT ![n] = "pending"]
    /\ current' = n

-----------------------------------------------------------------------------
(* start, called from outside.                                              *)
Start ==
    /\ Quiet
    /\ asked < MaxStarts
    /\ \E n \in Sockets : MakeSocket(n, sock, startP)
    /\ asked' = asked + 1
    /\ UNCHANGED <<onopen, isStopped, retrying, sending>>

(* util.send on this.socket: throw, wait until it is open, or write.        *)
SendOnCurrent(s) ==
    \/ /\ sock[current] \in {"closing", "aborting", "closed"}
       /\ send' = [send EXCEPT ![s] = "failed"]
       /\ UNCHANGED <<sendOn, onopen>>
    \/ /\ sock[current] = "connecting"
       /\ send' = [send EXCEPT ![s] = "waiting"]
       /\ sendOn' = [sendOn EXCEPT ![s] = current]
       /\ onopen' = [onopen EXCEPT ![current] = s]
    \/ /\ sock[current] = "open"
       /\ send' = [send EXCEPT ![s] = "written"]
       /\ UNCHANGED <<sendOn, onopen>>

(* `await this.start()` in send.                                            *)
StartFor(s) ==
    \E n \in Sockets :
       /\ MakeSocket(n, sock, startP)
       /\ send' = [send EXCEPT ![s] = "starting"]
       /\ sendOn' = [sendOn EXCEPT ![s] = n]
       /\ asked' = asked + 1
       /\ UNCHANGED onopen

(* Mutant of Send: start the client unless its socket is open.              *)
SendStartsAgain(s) ==
    /\ Quiet
    /\ send[s] = "idle"
    /\ IF current = 0 THEN StartFor(s)
       ELSE IF sock[current] = "connecting"
         THEN /\ \E n \in Sockets : MakeSocket(n, sock, startP)
              /\ send' = [send EXCEPT ![s] = "starting"]
              /\ sendOn' = [sendOn EXCEPT ![s] = current']
              /\ UNCHANGED <<onopen, asked>>
         ELSE SendOnCurrent(s) /\ UNCHANGED <<sock, startP, current, asked>>
    /\ UNCHANGED <<isStopped, retrying>>

(* send: start the client first if it has no socket.                        *)
Send(s) ==
    /\ Quiet
    /\ send[s] = "idle"
    /\ IF current = 0
         THEN StartFor(s)
         ELSE SendOnCurrent(s) /\ UNCHANGED <<sock, startP, current, asked>>
    /\ UNCHANGED <<isStopped, retrying>>

(* `await this.start()` of a send is over.                                  *)
Resume(s) ==
    /\ Resumable(s)
    /\ IF startP[sendOn[s]] = "rejected"
         THEN /\ send' = [send EXCEPT ![s] = "failed"]
              /\ UNCHANGED <<sendOn, onopen>>
         ELSE SendOnCurrent(s)
    /\ UNCHANGED <<sock, startP, current, isStopped, retrying, asked>>

(* The timeout of untilOpen: its own handler has not run.                   *)
SendTimeout(s) ==
    /\ Quiet
    /\ send[s] = "waiting"
    /\ send' = [send EXCEPT ![s] = "failed"]
    /\ UNCHANGED <<sock, startP, onopen, current, isStopped, retrying, sendOn,
                   asked>>

(* stop: close the current socket, which aborts one that is connecting.     *)
Stop ==
    /\ Quiet
    /\ isStopped' = TRUE
    /\ sock' = [a \in Sockets |->
          IF a = current /\ sock[a] = "connecting" THEN "aborting"
          ELSE IF a = current /\ sock[a] = "open" THEN "closing"
          ELSE sock[a]]
    /\ UNCHANGED <<startP, onopen, current, retrying, sending, asked>>

-----------------------------------------------------------------------------
MayRetry == Retries > 0 /\ isRetrying = "undefined"

(* Mutant of Reconnect: the process is not marked as begun.                 *)
ReconnectUnmarked(a, state, promises) ==
    \E n \in Sockets :
       /\ MakeSocket(n, [sock EXCEPT ![a] = state], promises)
       /\ retryCur' = n
       /\ retryOf' = a
       /\ retriesLeft' = Retries
       /\ UNCHANGED isRetrying

(* retryConnect: p-retry calls `start` at once for the first attempt, while *)
(* the socket that was lost is closed, or still closing.                    *)
Reconnect(a, state, promises) ==
    \E n \in Sockets :
       /\ MakeSocket(n, [sock EXCEPT ![a] = state], promises)
       /\ isRetrying' = "true"
       /\ retryOf' = a
       /\ retryCur' = n
       /\ retriesLeft' = Retries

(* The socket is open: its one onopen handler runs.                         *)
Open(a) ==
    /\ Quiet
    /\ sock[a] = "connecting"
    /\ sock' = [sock EXCEPT ![a] = "open"]
    /\ IF onopen[a] = "start"
         THEN /\ isStopped' = FALSE
              /\ startP' = Settled(startP, a, "resolved")
              /\ UNCHANGED send
         ELSE /\ send' = [send EXCEPT
                   ![onopen[a]] = IF @ = "waiting" THEN "written" ELSE @]
              /\ UNCHANGED <<isStopped, startP>>
    /\ UNCHANGED <<onopen, current, retrying, sendOn, asked>>

(* Mutant of ConnectFails: onerror leaves the promise to onclose.           *)
ConnectFailsSilently(a) ==
    /\ Quiet
    /\ sock[a] \in {"connecting", "aborting"}
    /\ IF MayRetry
         THEN Reconnect(a, "closed", IF isStopped THEN Settled(startP, a, "resolved")
                                                  ELSE startP)
         ELSE /\ sock' = [sock EXCEPT ![a] = "closed"]
              /\ UNCHANGED <<startP, current, retrying>>
    /\ UNCHANGED <<onopen, isStopped, sending, asked>>

(* The connection attempt fails: `error`, then `close`.  onerror reconnects *)
(* or rejects, whether or not the client is stopped; after it, onclose only *)
(* resolves the promise if the client is stopped.                           *)
ConnectFails(a) ==
    /\ Quiet
    /\ sock[a] \in {"connecting", "aborting"}
    /\ IF MayRetry
         THEN Reconnect(a, "closed", IF isStopped THEN Settled(startP, a, "resolved")
                                                  ELSE startP)
         ELSE /\ sock' = [sock EXCEPT ![a] = "closed"]
              /\ startP' = Settled(startP, a, "rejected")
              /\ UNCHANGED <<current, retrying>>
    /\ UNCHANGED <<onopen, isStopped, sending, asked>>

(* An error on a socket that has been open: onerror as above, and the       *)
(* socket is closing, with its `close` to come.                             *)
Fault(a) ==
    /\ Quiet
    /\ sock[a] \in {"open", "closing"}
    /\ IF MayRetry
         THEN Reconnect(a, "closing", startP)
         ELSE /\ sock' = [sock EXCEPT ![a] = "closing"]
              /\ startP' = Settled(startP, a, "rejected")
              /\ UNCHANGED <<current, retrying>>
    /\ UNCHANGED <<onopen, isStopped, sending, asked>>

(* An open socket closes: because of `stop`, because authentication failed  *)
(* (code 4001), or otherwise.                                               *)
Close(a) ==
    /\ Quiet
    /\ sock[a] \in {"open", "closing"}
    /\ \E code \in {1006, 4001} :
         LET promises == IF code = 4001 THEN Settled(startP, a, "rejected")
                                        ELSE startP
         IN  IF isStopped
               THEN /\ sock' = [sock EXCEPT ![a] = "closed"]
                    /\ startP' = Settled(startP, a, "resolved")
                    /\ UNCHANGED <<current, retrying>>
               ELSE IF MayRetry
               THEN Reconnect(a, "closed", promises)
               ELSE /\ sock' = [sock EXCEPT ![a] = "closed"]
                    /\ startP' = IF isRetrying = "true" THEN promises
                                 ELSE Settled(promises, a, "rejected")
                    /\ UNCHANGED <<current, retrying>>
    /\ UNCHANGED <<onopen, isStopped, sending, asked>>

-----------------------------------------------------------------------------
(* The pause before the next retry is over.                                 *)
Retry ==
    /\ Quiet
    /\ isRetrying = "true" /\ retryCur = 0
    /\ \E n \in Sockets : MakeSocket(n, sock, startP) /\ retryCur' = n
    /\ UNCHANGED <<onopen, isStopped, isRetrying, retryOf, retriesLeft, sending,
                   asked>>

RetryDone ==
    /\ RetrySettled
    /\ startP[retryCur] = "resolved"
    /\ startP' = Settled(startP, retryOf, "resolved")
    /\ isRetrying' = "false" /\ retryOf' = 0 /\ retryCur' = 0
    /\ UNCHANGED <<sock, onopen, current, isStopped, retriesLeft, sending,
                   asked>>

(* Mutant of RetryFailed: the retries are not counted down.                 *)
RetryFailedUncounted ==
    /\ RetrySettled
    /\ startP[retryCur] = "rejected"
    /\ retryCur' = 0
    /\ UNCHANGED <<startP, isRetrying, retryOf, retriesLeft>>
    /\ UNCHANGED <<sock, onopen, current, isStopped, sending, asked>>

RetryFailed ==
    /\ RetrySettled
    /\ startP[retryCur] = "rejected"
    /\ retryCur' = 0
    /\ IF retriesLeft > 0
         THEN /\ retriesLeft' = retriesLeft - 1
              /\ UNCHANGED <<startP, isRetrying, retryOf>>
         ELSE /\ startP' = Settled(startP, retryOf, "rejected")
              /\ isRetrying' = "false" /\ retryOf' = 0
              /\ UNCHANGED retriesLeft
    /\ UNCHANGED <<sock, onopen, current, isStopped, sending, asked>>

-----------------------------------------------------------------------------
Next ==
    \/ Start \/ Stop \/ Retry \/ RetryDone \/ RetryFailed
    \/ \E s \in Sends : Send(s) \/ Resume(s) \/ SendTimeout(s)
    \/ \E a \in Sockets : Open(a) \/ ConnectFails(a) \/ Fault(a) \/ Close(a)

Spec == Init /\ [][Next]_vars

(* Connection attempts end, the pause between retries ends, and settled     *)
(* promises set off what awaits them.                                       *)
Fairness ==
    /\ WF_vars(RetryDone \/ RetryFailed)
    /\ WF_vars(\E s \in Sends : Resume(s))
    /\ SF_vars(Retry)
    /\ SF_vars(\E a \in Sockets : Open(a) \/ ConnectFails(a))

FairSpec == Spec /\ Fairness

-----------------------------------------------------------------------------
TypeOK ==
    /\ sock \in [Sockets -> {"none", "connecting", "open", "closing",
                             "aborting", "closed"}]
    /\ startP \in [Sockets -> {"none", "pending", "resolved", "rejected"}]
    /\ onopen \in [Sockets -> {"start"} \cup Sends]
    /\ current \in {0} \cup Made
    /\ isStopped \in BOOLEAN
    /\ isRetrying \in {"undefined", "true", "false"}
    /\ retryOf \in {0} \cup Made /\ retryCur \in {0} \cup Made
    /\ isRetrying = "true" <=> retryOf # 0
    /\ retriesLeft \in 0..Retries
    /\ send \in [Sends -> {"idle", "starting", "waiting", "written", "failed"}]
    /\ sendOn \in [Sends -> {0} \cup Made]
    /\ asked \in Nat

(* A server that is away is not tried for ever: besides the connections     *)
(* that were asked for there are only those of one series of retries.       *)
AttemptsBounded == Cardinality(Made) <= asked + Retries + 1

(* The promise of `start` settles by the time its socket is closed, unless  *)
(* it waits for the retries; provided nobody took its onopen handler.       *)
StartSettles ==
    Quiet => \A a \in Made :
       sock[a] = "closed" /\ onopen[a] = "start" /\ a # retryOf
         => startP[a] # "pending"

(* Requests, failures, retries and `stop` never leave the client with more  *)
(* connections than starts were asked for: one, unless callers call `start` *)
(* again themselves.                                                        *)
ConnectionsAskedFor == Cardinality(Live) <= asked

(* Reconnecting comes to an end, with a connection or without, unless a     *)
(* request took the onopen handler that one of the retries waits for.       *)
RetriesEnd ==
    isRetrying = "true" ~>
       isRetrying = "false" \/ \E a \in Sockets : onopen[a] # "start"

(* "Will wait until the socket is open before attempting to send the data"  *)
(* (WebSocketClient.ts:196): once it is open nobody waits for that.         *)
WaitersServed ==
    Quiet => \A s \in Sends :
       send[s] \in {"starting", "waiting"} => sock[sendOn[s]] # "open"
=============================================================================
