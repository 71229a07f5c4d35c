------------------------------ MODULE Listener ------------------------------
(***************************************************************************)
(* The process of a `Listener` (src/src/base/Listener.ts; a Manager is     *)
(* one) with a server whose connections are those of Connections.  `run`   *)
(* starts it; it stops and exits on SIGINT or SIGTERM, when there was no   *)
(* request for `timeout` seconds, and when it has run for `timelimit`.     *)
(*                                                                         *)
(* Time is counted in seconds, up to MaxTime.  The checks of the interval  *)
(* come when they can; what happens between two seconds comes in any       *)
(* order.                                                                  *)
(***************************************************************************)
EXTENDS Connections

CONSTANTS
    Signals,    \* the signals that come, each once (a bound)
    Requests,   \* the requests that clients make
    Limits,     \* records of a timeout and a timelimit
    MaxTime     \* the seconds that are counted (a bound)

ASSUME ListenerAssumption ==
    /\ "interval" \notin Signals
    /\ MaxTime \in Nat
    /\ Limits \subseteq [timeout : 0..(MaxTime - 1), timelimit : 0..(MaxTime - 1)]

Stops == Signals \cup {"interval"}

VARIABLES
    limit,      \* the timeout and timelimit of this process: set for good
    process,    \* "idle" until `run`, "running", or "exited"
    ticking,    \* is the interval set?
    age, idle,  \* seconds since it was started, and since the heartbeat
    stopping,   \* how far each call of `stop` is
    request,    \* how far each request is; one begun after a stop is "late"
    elapsed     \* seconds since each request began

timers == <<limit, ticking, age, idle>>
requests == <<request, elapsed>>
listenerVars == <<vars, timers, requests, process, stopping>>

ListenerInit ==
    /\ Init
    /\ limit \in Limits
    /\ process = "idle" /\ ticking = FALSE
    /\ age = 0 /\ idle = 0
    /\ stopping = [s \in Stops |-> "no"]
    /\ request = [r \in Requests |-> "none"]
    /\ elapsed = [r \in Requests |-> 0]

Stopping == \E s \in Stops : stopping[s] # "no"

-----------------------------------------------------------------------------
(* run: set the interval, if there is a limit, and start the server.        *)
Run ==
    /\ process = "idle"
    /\ Start
    /\ process' = "running"
    /\ age' = 0 /\ idle' = 0
    /\ ticking' = (limit.timeout > 0 \/ limit.timelimit > 0)
    /\ UNCHANGED <<limit, stopping, requests>>

(* A program that does not use run starts and stops the listener itself.    *)
Embedded == process = "idle" /\ Next /\ UNCHANGED <<timers, requests, process, stopping>>

(* What clients and the server's socket do while the process runs.          *)
Traffic ==
    /\ process = "running"
    /\ \/ Stopped
       \/ \E c \in Conns, i \in Ids : Connect(c, i)
       \/ \E c \in Conns : Closing(c) \/ Close(c) \/ Refuse(c)
    /\ UNCHANGED <<timers, requests, process, stopping>>

-----------------------------------------------------------------------------
(* Mutant of Begin: the heartbeat is left alone.                            *)
BeginSilently(r) ==
    /\ process = "running"
    /\ request[r] = "none"
    /\ \E c \in Conns : socket[c] \in {"open", "closing"}
    /\ request' = [request EXCEPT ![r] = IF Stopping THEN "late" ELSE "running"]
    /\ elapsed' = [elapsed EXCEPT ![r] = 0]
    /\ UNCHANGED <<vars, limit, ticking, age, idle, process, stopping>>

(* dispatch, which sets the heartbeat: of a request that comes on a         *)
(* connection, even one that is being ended (its other half is open).       *)
Begin(r) ==
    /\ process = "running"
    /\ request[r] = "none"
    /\ \E c \in Conns : socket[c] \in {"open", "closing"}
    /\ request' = [request EXCEPT ![r] = IF Stopping THEN "late" ELSE "running"]
    /\ elapsed' = [elapsed EXCEPT ![r] = 0]
    /\ idle' = 0
    /\ UNCHANGED <<vars, limit, ticking, age, process, stopping>>

Answer(r) ==
    /\ process = "running"
    /\ request[r] \in {"running", "late"}
    /\ request' = [request EXCEPT ![r] = "answered"]
    /\ UNCHANGED <<vars, timers, elapsed, process, stopping>>

(* notified, which sets the heartbeat too.                                  *)
Notified ==
    /\ process = "running"
    /\ \E c \in Conns : socket[c] \in {"open", "closing"}
    /\ idle' = 0
    /\ UNCHANGED <<vars, limit, ticking, age, requests, process, stopping>>

-----------------------------------------------------------------------------
(* stop: all servers are asked to stop, if they are not off.                *)
Ask(s) ==
    /\ stopping[s] = "no"
    /\ stopping' = [stopping EXCEPT ![s] = "servers"]
    /\ IF server = "off" THEN UNCHANGED vars ELSE Stop

(* SIGINT or SIGTERM.                                                       *)
Signal(s) ==
    /\ process = "running"
    /\ Ask(s)
    /\ UNCHANGED <<timers, requests, process>>

Later(n) == IF n < MaxTime THEN n + 1 ELSE n

Second ==
    /\ process = "running"
    /\ age' = Later(age) /\ idle' = Later(idle)
    /\ elapsed' = [r \in Requests |->
          IF request[r] \in {"running", "late"} THEN Later(elapsed[r]) ELSE elapsed[r]]
    /\ UNCHANGED <<vars, limit, ticking, request, process, stopping>>

(* Mutant of Due: both have to be exceeded.                                 *)
DueBoth == idle > limit.timeout /\ age > limit.timelimit

(* A limit that was not set is zero, and exceeded at the first tick.         *)
Due == idle > limit.timeout \/ age > limit.timelimit

(* The interval's check, when it stops the process.                         *)
Tick ==
    /\ process = "running"
    /\ ticking /\ Due
    /\ ticking' = FALSE
    /\ Ask("interval")
    /\ UNCHANGED <<limit, age, idle, requests, process>>

(* ... and then, Manager.stop: the delegator and, after it, the queuer.  If *)
(* another server, or a client of the delegator, cannot be stopped, the     *)
(* error is logged, and this call comes to nothing.                         *)
GoOn(s) ==
    /\ process = "running"
    /\ \/ /\ stopping[s] = "servers" /\ server = "off"
          /\ stopping' = [stopping EXCEPT ![s] = "delegator"]
       \/ /\ stopping[s] = "delegator"
          /\ stopping' = [stopping EXCEPT ![s] = "queuer"]
       \/ /\ stopping[s] \in {"servers", "delegator"}
          /\ stopping' = [stopping EXCEPT ![s] = "failed"]
    /\ UNCHANGED <<vars, timers, requests, process>>

(* process.exit: what is in progress is cut off.                            *)
Exit(s) ==
    /\ process = "running"
    /\ stopping[s] = "queuer"
    /\ process' = "exited"
    /\ request' = [r \in Requests |->
          IF request[r] = "running" THEN "cut" ELSE request[r]]
    /\ UNCHANGED <<vars, timers, elapsed, stopping>>

ListenerNext ==
    \/ Run \/ Embedded \/ Traffic
    \/ \E r \in Requests : Begin(r) \/ Answer(r)
    \/ Notified \/ Second \/ Tick
    \/ \E s \in Signals : Signal(s)
    \/ \E s \in Stops : GoOn(s) \/ Exit(s)

ListenerSpec == ListenerInit /\ [][ListenerNext]_listenerVars

(* The calls of stop go on, and the server learns that nobody is connected. *)
Shut ==
    \/ \E s \in Stops : GoOn(s) \/ Exit(s)
    \/ /\ process = "running"
       /\ Stopped
       /\ UNCHANGED <<timers, requests, process, stopping>>

(* Time passes, and intervals run.  Nothing is assumed of the clients: one  *)
(* may keep its half of a connection open for ever.                         *)
ListenerFairSpec ==
    /\ ListenerSpec
    /\ WF_listenerVars(Shut)
    /\ WF_listenerVars(Second) /\ WF_listenerVars(Tick)

-----------------------------------------------------------------------------
ListenerTypeOK ==
    /\ TypeOK
    /\ limit \in Limits
    /\ process \in {"idle", "running", "exited"}
    /\ ticking \in BOOLEAN
    /\ age \in 0..MaxTime /\ idle \in 0..MaxTime
    /\ stopping \in [Stops -> {"no", "servers", "delegator", "queuer", "failed"}]
    /\ request \in [Requests -> {"none", "running", "late", "answered", "cut"}]
    /\ elapsed \in [Requests -> 0..MaxTime]

(* Both limits are set, or none is.  With one of them alone, zero does not  *)
(* mean "no limit" (config.ts:65, 72): the process stops at the first tick, *)
(* which nothing below speaks for.                                          *)
ZeroIsNoLimit == limit.timeout > 0 <=> limit.timelimit > 0

(* Without a signal, a request that was taken while nothing was being       *)
(* stopped is only cut off when it has lasted for longer than a `timeout`,  *)
(* or the process for longer than a `timelimit`, that was set: each request *)
(* puts off the end (Listener.ts:81), and none is taken once it was         *)
(* decided.  What lasts for longer than `timeout` is not safe: the          *)
(* heartbeat is set when a request begins and not while it runs.            *)
NotCutEarly ==
    ZeroIsNoLimit =>
       \A r \in Requests : request[r] = "cut" =>
          \/ \E s \in Signals : stopping[s] # "no"
          \/ limit.timeout > 0 /\ elapsed[r] > limit.timeout
          \/ limit.timelimit > 0 /\ age > limit.timelimit

Told == process = "running" /\ (Stopping \/ (ticking /\ limit.timelimit > 0))

(* A process with a time limit, or that was told to stop, exits in the end  *)
(* however often it is asked.  Only two things keep it: a client of a       *)
(* TcpServer that never closes its half of a connection that was ended      *)
(* (TcpServer.ts:189), and a failure of every call of stop that there was   *)
(* or will be (Listener.ts:148).                                            *)
RunEnds ==
    \/ []<>~Told
    \/ \E c \in Conns : <>[](server = "closing" /\ socket[c] = "closing")
    \/ <>[](~ticking /\ \A s \in Stops : stopping[s] \in {"no", "failed"})
=============================================================================
