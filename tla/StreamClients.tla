---------------------------- MODULE StreamClients ---------------------------
(***************************************************************************)
(* The clients that talk through a pair of streams                         *)
(* (src/src/stream/StreamClient.ts): a StdioClient, to a child process     *)
(* (src/src/stdio/StdioClient.ts), or a PipeClient, through named pipes    *)
(* that other clients, in this process and in others, may use as well      *)
(* (src/src/pipe/PipeClient.ts).                                           *)
(*                                                                         *)
(* A client that was stopped is started again, with new streams, by its    *)
(* next request.  The events of the old ones still come, and their         *)
(* handlers stop the client, whatever it uses by then.                     *)
(***************************************************************************)
EXTENDS Integers

CONSTANTS
    Procs,       \* processes (and their pids)
    Clients,     \* clients, all of one address
    Proc,        \* the process of each client
    Requests,    \* the requests that are sent
    ClientOf,    \* the client of each
    MaxStreams,  \* bound on the pairs of streams each client makes
    None, Empty  \* no lock file, and one with no pid in it

Gens == 1..MaxStreams

ASSUME StreamsAssumption ==
    /\ Proc \in [Clients -> Procs]
    /\ ClientOf \in [Requests -> Clients]
    /\ MaxStreams \in Nat
    /\ None \notin Procs \cup Clients \cup {Empty}
    /\ Empty \notin Procs

VARIABLES
    kind,       \* "stdio" or "pipe": set for good
    stream,     \* the streams each client uses, or 0 (this.child, this.encoder)
    made,       \* how many it has made
    up,         \* those at whose other end someone answers
    alone,      \* those of a pipe that nobody has opened at the other end
    due,        \* their event that is yet to come
    request,    \* what has become of each request
    via,        \* the streams it was written to
    opening,    \* the client of each process that is in `start`, or None
    step,       \* ... and where
    listed,     \* is the address in PipeClient.addresses?
    lock,       \* the lock file: None, Empty, or a pid
    alive,      \* the processes that run
    raced,      \* history: a lock was tested while it was being taken
    robbed      \* history: a client without the pipe removed the lock

streams == <<stream, made, up, alone, due>>
requests == <<request, via>>
locks == <<opening, step, listed, lock>>
history == <<raced, robbed>>
vars == <<kind, streams, requests, locks, alive, history>>

Init ==
    /\ kind \in {"stdio", "pipe"}
    /\ stream = [c \in Clients |-> 0]
    /\ made = [c \in Clients |-> 0]
    /\ up = [c \in Clients |-> {}] /\ alone = [c \in Clients |-> {}]
    /\ due = [c \in Clients |-> [g \in Gens |-> "none"]]
    /\ request = [r \in Requests |-> "none"]
    /\ via = [r \in Requests |-> 0]
    /\ opening = [p \in Procs |-> None]
    /\ step = [p \in Procs |-> "none"]
    /\ listed = [p \in Procs |-> FALSE]
    /\ lock = None
    /\ alive = Procs
    /\ raced = FALSE /\ robbed = FALSE

(* The process runs, and is not in the middle of a start.                   *)
Free(c) == Proc[c] \in alive /\ opening[Proc[c]] = None

-----------------------------------------------------------------------------
With(sets, c, g) == [sets EXCEPT ![c] = @ \cup {g}]

(* Mutant of Begin: the streams are not told from those before.             *)
BeginAgain(c, end) ==
    LET g == made[c] + 1 IN
    /\ made' = [made EXCEPT ![c] = IF @ = 0 THEN 1 ELSE @]
    /\ stream' = [stream EXCEPT ![c] = g]
    /\ up' = IF end = "up" THEN With(up, c, g) ELSE up
    /\ alone' = IF end = "alone" THEN With(alone, c, g) ELSE alone
    /\ due' = [due EXCEPT ![c][g] = IF end = "error" THEN "error" ELSE "none"]

(* StreamClient.start, with streams that were just made and what there is   *)
(* at their other end: the requests that waited for it are written.         *)
Begin(c, end) ==
    LET g == made[c] + 1 IN
    /\ made' = [made EXCEPT ![c] = g]
    /\ stream' = [stream EXCEPT ![c] = g]
    /\ up' = IF end = "up" THEN With(up, c, g) ELSE up
    /\ alone' = IF end = "alone" THEN With(alone, c, g) ELSE alone
    /\ due' = [due EXCEPT ![c][g] = IF end = "error" THEN "error" ELSE "none"]

(* start of a StdioClient: spawn a child, or fail to: an `error` event.     *)
Spawn(c) ==
    /\ kind = "stdio" /\ made[c] < MaxStreams
    /\ \E end \in {"up", "error"} : Begin(c, end)
    /\ UNCHANGED <<locks, history>>

(* start of a PipeClient: take the address ...                              *)
Register(c) ==
    /\ kind = "pipe" /\ made[c] < MaxStreams
    /\ ~listed[Proc[c]]
    /\ listed' = [listed EXCEPT ![Proc[c]] = TRUE]
    /\ opening' = [opening EXCEPT ![Proc[c]] = c]
    /\ step' = [step EXCEPT ![Proc[c]] = "test"]
    /\ UNCHANGED <<streams, lock, history>>

(* A client that is not in use may be started ahead of its first request.   *)
Start(c) ==
    /\ Free(c) /\ stream[c] = 0
    /\ Spawn(c) \/ Register(c)
    /\ UNCHANGED <<kind, requests, alive>>

(* send, with streams ...                                                   *)
Send(r) ==
    /\ Free(ClientOf[r]) /\ request[r] = "none"
    /\ stream[ClientOf[r]] # 0
    /\ request' = [request EXCEPT ![r] = "pending"]
    /\ via' = [via EXCEPT ![r] = stream[ClientOf[r]]]
    /\ UNCHANGED <<kind, streams, locks, alive, history>>

(* ... and without: the client is started first.  start throws if the       *)
(* address is taken already.                                                *)
SendStart(r) ==
    LET c == ClientOf[r] IN
    /\ Free(c) /\ request[r] = "none"
    /\ stream[c] = 0
    /\ \/ /\ Spawn(c)
          /\ request' = [request EXCEPT ![r] = "pending"]
          /\ via' = [via EXCEPT ![r] = made[c] + 1]
       \/ /\ Register(c)
          /\ request' = [request EXCEPT ![r] = "starting"]
          /\ UNCHANGED via
       \/ /\ kind = "pipe" /\ listed[Proc[c]]
          /\ request' = [request EXCEPT ![r] = "rejected"]
          /\ UNCHANGED <<via, streams, locks, history>>
    /\ UNCHANGED <<kind, alive>>

-----------------------------------------------------------------------------
Opens(c, at) ==
    /\ Proc[c] \in alive
    /\ opening[Proc[c]] = c /\ step[Proc[c]] = at

Taking == {p \in Procs \cap alive : step[p] \in {"create", "write"}}

(* What becomes of the request that a start was for.                        *)
Started(c, outcome) ==
    /\ request' = [r \in Requests |->
          IF ClientOf[r] = c /\ request[r] = "starting" THEN outcome ELSE request[r]]
    /\ via' = [r \in Requests |->
          IF /\ ClientOf[r] = c /\ request[r] = "starting"
             /\ outcome = "pending"
          THEN made[c] + 1 ELSE via[r]]

(* ... test that no running process has the lock ...                        *)
Test(c) ==
    /\ Opens(c, "test")
    /\ lock \notin alive
    /\ step' = [step EXCEPT ![Proc[c]] = "create"]
    /\ raced' = (raced \/ Taking # {})
    /\ UNCHANGED <<kind, streams, requests, opening, listed, lock, alive, robbed>>

(* If one has, the address stays taken, and the request is dropped.         *)
Blocked(c) ==
    /\ Opens(c, "test")
    /\ lock \in alive
    /\ opening' = [opening EXCEPT ![Proc[c]] = None]
    /\ step' = [step EXCEPT ![Proc[c]] = "none"]
    /\ Started(c, "dropped")
    /\ UNCHANGED <<kind, streams, listed, lock, alive, history>>

(* ... create the file ...                                                  *)
Create(c) ==
    /\ Opens(c, "create")
    /\ step' = [step EXCEPT ![Proc[c]] = "write"]
    /\ lock' = Empty
    /\ UNCHANGED <<kind, streams, requests, opening, listed, alive, history>>

(* Mutant of Write: the pid is not written.                                 *)
WriteNoPid(c) ==
    /\ Opens(c, "write")
    /\ opening' = [opening EXCEPT ![Proc[c]] = None]
    /\ step' = [step EXCEPT ![Proc[c]] = "none"]
    /\ \E end \in {"up", "alone"} : Begin(c, end)
    /\ Started(c, "pending")
    /\ UNCHANGED <<kind, listed, lock, alive, history>>

(* ... write the pid and open the streams.  If nobody has the pipe open at  *)
(* its other end, this blocks, outside of the program: what is written is   *)
(* kept, and no event comes.                                                *)
Write(c) ==
    /\ Opens(c, "write")
    /\ opening' = [opening EXCEPT ![Proc[c]] = None]
    /\ step' = [step EXCEPT ![Proc[c]] = "none"]
    /\ lock' = Proc[c]
    /\ \E end \in {"up", "alone"} : Begin(c, end)
    /\ Started(c, "pending")
    /\ UNCHANGED <<kind, listed, alive, history>>

-----------------------------------------------------------------------------
Answer(r) ==
    /\ request[r] = "pending"
    /\ via[r] \in up[ClientOf[r]]
    /\ request' = [request EXCEPT ![r] = "answered"]
    /\ UNCHANGED <<kind, streams, via, locks, alive, history>>

(* Somebody opens the pipe at its other end.                                *)
Open(c, g) ==
    /\ g \in alone[c]
    /\ alone' = [alone EXCEPT ![c] = @ \ {g}]
    /\ up' = With(up, c, g)
    /\ UNCHANGED <<kind, stream, made, due, requests, locks, alive, history>>

(* The child exits, or one of the pipes is closed at its other end.         *)
Break(c, g) ==
    /\ g \in up[c]
    /\ up' = [up EXCEPT ![c] = @ \ {g}]
    /\ due' = [due EXCEPT ![c][g] = IF kind = "stdio" THEN "exit" ELSE "close"]
    /\ UNCHANGED <<kind, stream, made, alone, requests, locks, alive, history>>

(* The events that are due once the streams in use were given up, when one  *)
(* of them was already: the child is killed, its `exit` no longer listened  *)
(* to; the streams of a pipe are destroyed and close, both of them unless   *)
(* it is the `close` of one that is being handled (those that nobody had    *)
(* opened at the other end only when somebody does).                        *)
Left(c, event) ==
    IF kind = "stdio" THEN IF event = "error" THEN "error" ELSE "none"
    ELSE IF stream[c] \in up[c] \cup alone[c] \/ event = "close" THEN "closes"
    ELSE "close"

(* Mutant of Reject: super.stop is not called.                              *)
RejectNone(c) == UNCHANGED requests

(* Client.stop: all outstanding requests are rejected.                      *)
Reject(c) ==
    /\ request' = [r \in Requests |->
          IF ClientOf[r] = c /\ request[r] \in {"pending", "dropped"} THEN "rejected"
          ELSE request[r]]
    /\ UNCHANGED via

(* Mutant of StopWith: the child is not killed.                             *)
StopWithLeft(c, events) ==
    /\ stream' = [stream EXCEPT ![c] = 0]
    /\ due' = [due EXCEPT ![c] = events]
    /\ Reject(c)
    /\ UNCHANGED <<kind, made, up, alone, locks, alive, history>>

(* stop, when `events` are still due.  A PipeClient takes its address off   *)
(* the list and removes the lock, whosever they are.                        *)
StopWith(c, events) ==
    /\ stream' = [stream EXCEPT ![c] = 0]
    /\ up' = [up EXCEPT ![c] = @ \ {stream[c]}]
    /\ alone' = [alone EXCEPT ![c] = @ \ {stream[c]}]
    /\ due' = [due EXCEPT ![c] = [g \in Gens |->
                  IF g = stream[c] THEN Left(c, events[g]) ELSE events[g]]]
    /\ Reject(c)
    /\ IF kind = "stdio" THEN UNCHANGED <<listed, lock, robbed>>
       ELSE /\ listed' = [listed EXCEPT ![Proc[c]] = FALSE]
            /\ lock' = None
            /\ robbed' = (robbed \/ (lock # None /\ stream[c] = 0))
    /\ UNCHANGED <<kind, made, opening, step, alive, raced>>

Stop(c) == Free(c) /\ StopWith(c, due[c])

(* An event of the streams g: its handler stops the client.                 *)
Event(c, g) ==
    /\ Free(c) /\ due[c][g] # "none"
    /\ StopWith(c, [due[c] EXCEPT ![g] = IF @ = "closes" THEN "close" ELSE "none"])

(* A process ends without stopping its clients: the lock stays.             *)
Crash(p) ==
    /\ p \in alive
    /\ alive' = alive \ {p}
    /\ stream' = [c \in Clients |-> IF Proc[c] = p THEN 0 ELSE stream[c]]
    /\ up' = [c \in Clients |-> IF Proc[c] = p THEN {} ELSE up[c]]
    /\ alone' = [c \in Clients |-> IF Proc[c] = p THEN {} ELSE alone[c]]
    /\ due' = [c \in Clients |->
                  IF Proc[c] = p THEN [g \in Gens |-> "none"] ELSE due[c]]
    /\ request' = [r \in Requests |->
          IF Proc[ClientOf[r]] = p THEN "lost" ELSE request[r]]
    /\ UNCHANGED <<kind, made, via, locks, history>>

Next ==
    \/ \E c \in Clients :
          \/ Start(c) \/ Stop(c)
          \/ Test(c) \/ Blocked(c) \/ Create(c) \/ Write(c)
          \/ \E g \in Gens : Open(c, g) \/ Break(c, g) \/ Event(c, g)
    \/ \E r \in Requests : Send(r) \/ SendStart(r) \/ Answer(r)
    \/ \E p \in Procs : Crash(p)

Spec == Init /\ [][Next]_vars

-----------------------------------------------------------------------------
TypeOK ==
    /\ kind \in {"stdio", "pipe"}
    /\ stream \in [Clients -> 0..MaxStreams] /\ made \in [Clients -> 0..MaxStreams]
    /\ \A c \in Clients : stream[c] \in {0, made[c]}
    /\ up \in [Clients -> SUBSET Gens] /\ alone \in [Clients -> SUBSET Gens]
    /\ kind = "stdio" => \A c \in Clients : alone[c] = {}
    /\ due \in [Clients -> [Gens -> {"none", "error", "exit", "close", "closes"}]]
    /\ request \in [Requests -> {"none", "starting", "pending", "dropped",
                                 "answered", "rejected", "lost"}]
    /\ via \in [Requests -> 0..MaxStreams]
    /\ opening \in [Procs -> Clients \cup {None}]
    /\ step \in [Procs -> {"none", "test", "create", "write"}]
    /\ listed \in [Procs -> BOOLEAN]
    /\ lock \in Procs \cup {None, Empty}
    /\ alive \subseteq Procs
    /\ raced \in BOOLEAN /\ robbed \in BOOLEAN

(* A request that is pending has been written to the streams in use, and    *)
(* someone is there to answer, or an event will come that rejects it:       *)
(* whatever events of older streams come between.  Only a pipe that nobody  *)
(* has opened at its other end keeps a request without either, until        *)
(* somebody does or the client is stopped.                                  *)
PendingIsServed ==
    \A r \in Requests : request[r] = "pending" =>
       LET c == ClientOf[r] IN
       /\ via[r] = stream[c]
       /\ \/ via[r] \in up[c]
          \/ due[c][via[r]] # "none"
          \/ kind = "pipe" /\ via[r] \in alone[c]

(* No child process, and no pipe, stays in use by a client that has         *)
(* forgotten it.                                                            *)
NoOrphans == \A c \in Clients : up[c] \cup alone[c] \subseteq {stream[c]}

Connected == {c \in Clients : stream[c] # 0}

(* start obtains "a lock on the connection" (PipeClient.ts:47-49).          *)
OneClientPerPipe ==
    kind = "pipe" => \A c, d \in Connected : c = d

(* It does unless two processes take the lock at the same time, or a client *)
(* that is not connected, or no longer, is stopped.  A crash does no harm.  *)
LockExcludes == raced \/ robbed \/ OneClientPerPipe
=============================================================================
