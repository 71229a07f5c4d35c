--------------------------- MODULE ListenerProofs ---------------------------
(***************************************************************************)
(* Proofs about Connections and about Listener, for every set of ids,      *)
(* number of connections, requests and limits.                             *)
(*                                                                         *)
(* The table of connections and the sockets are tied together by           *)
(* EntriesAreLive one way and by OpenIsKnown the other; the second needs   *)
(* that ids are never used twice, which only a TcpServer makes sure of.    *)
(* All that a Listener does to its connections is what Connections says;   *)
(* its invariant adds what the decision to stop says of the requests that  *)
(* are running.                                                            *)
(***************************************************************************)
EXTENDS Listener, TLAPS

LEMMA ConnsFacts == Absent \notin Conns
  BY ConnectionsAssumption DEF Conns, Absent

-----------------------------------------------------------------------------
LEMMA InitTypes == Init => TypeOK
  <1>1. (CHOOSE i \in Ids : TRUE) \in Ids
    BY ConnectionsAssumption
  <1> QED BY <1>1, ConnectionsAssumption DEF Init, TypeOK

LEMMA StepTypes == TypeOK /\ [Next]_vars => TypeOK'
  <1> SUFFICES ASSUME TypeOK, [Next]_vars PROVE TypeOK'
    OBVIOUS
  <1> USE ConnectionsAssumption DEF TypeOK
  <1>1. CASE Start BY <1>1 DEF Start
  <1>2. CASE Stop BY <1>2 DEF Stop
  <1>3. CASE Stopped BY <1>3 DEF Stopped
  <1>4. ASSUME NEW c \in Conns, NEW i \in Ids, Connect(c, i) PROVE TypeOK'
    BY <1>4 DEF Connect
  <1>5. ASSUME NEW c \in Conns, Closing(c) PROVE TypeOK'
    BY <1>5 DEF Closing
  <1>6. ASSUME NEW c \in Conns, Close(c) PROVE TypeOK'
    BY <1>6 DEF Close
  <1>7. CASE UNCHANGED vars BY <1>7 DEF vars
  <1>8. ASSUME NEW c \in Conns, Refuse(c) PROVE TypeOK'
    BY <1>8 DEF Refuse, Made
  <1> QED BY <1>1, <1>2, <1>3, <1>4, <1>5, <1>6, <1>7, <1>8
      DEF Next

(* The fields of a server are well formed, and only a TcpServer is ever     *)
(* between stopping and stopped.                                            *)
THEOREM TypeCorrect == Spec => []TypeOK
  BY InitTypes, StepTypes, PTL DEF Spec

-----------------------------------------------------------------------------
LEMMA StepEntries == TypeOK /\ EntriesAreLive /\ [Next]_vars => EntriesAreLive'
  <1> SUFFICES ASSUME TypeOK, EntriesAreLive, [Next]_vars PROVE EntriesAreLive'
    OBVIOUS
  <1> USE ConnsFacts DEF TypeOK, EntriesAreLive
  <1>1. CASE Start BY <1>1 DEF Start
  <1>2. CASE Stop BY <1>2 DEF Stop
  <1>3. CASE Stopped BY <1>3 DEF Stopped
  <1>4. ASSUME NEW c \in Conns, NEW i \in Ids, Connect(c, i)
        PROVE EntriesAreLive'
    BY <1>4 DEF Connect, Made
  <1>5. ASSUME NEW c \in Conns, Closing(c) PROVE EntriesAreLive'
    BY <1>5 DEF Closing
  <1>6. ASSUME NEW c \in Conns, Close(c) PROVE EntriesAreLive'
    BY <1>6 DEF Close
  <1>7. CASE UNCHANGED vars BY <1>7 DEF vars
  <1>8. ASSUME NEW c \in Conns, Refuse(c) PROVE EntriesAreLive'
    BY <1>8 DEF Refuse, Made
  <1> QED BY <1>1, <1>2, <1>3, <1>4, <1>5, <1>6, <1>7, <1>8
      DEF Next

(* A late `close` event, of whichever transport, never leaves the table     *)
(* with an entry whose connection is gone: nothing is sent on it.           *)
THEOREM EntriesLive == Spec => []EntriesAreLive
  <1>1. Init => EntriesAreLive
    BY DEF Init, EntriesAreLive
  <1> QED BY <1>1, TypeCorrect, StepEntries, PTL DEF Spec

-----------------------------------------------------------------------------
(* Each connection that was made has an id of its own.                      *)
OwnIds == \A c, d \in Made : id[c] = id[d] => c = d

Inv ==
    /\ TypeOK /\ EntriesAreLive /\ StopEndsAll
    /\ transport = "tcp" => OwnIds /\ OpenIsKnown

LEMMA StepTransport == [Next]_vars => transport' = transport
  BY DEF Next, Start, Stop, Stopped, Connect, Closing, Close, Refuse, vars

LEMMA StepOwnIds ==
  ASSUME transport = "tcp", TypeOK, OwnIds, [Next]_vars PROVE OwnIds'
  <1> USE DEF TypeOK, OwnIds, Made
  <1>1. CASE Start BY <1>1 DEF Start
  <1>2. CASE Stop
    BY <1>2 DEF Stop, Ended
  <1>3. CASE Stopped BY <1>3 DEF Stopped
  <1>4. ASSUME NEW c \in Conns, NEW i \in Ids, Connect(c, i) PROVE OwnIds'
    BY <1>4 DEF Connect, FreshId
  <1>5. ASSUME NEW c \in Conns, Closing(c) PROVE OwnIds'
    BY <1>5 DEF Closing
  <1>6. ASSUME NEW c \in Conns, Close(c) PROVE OwnIds'
    BY <1>6 DEF Close
  <1>7. CASE UNCHANGED vars BY <1>7 DEF vars
  <1>8. ASSUME NEW c \in Conns, Refuse(c) PROVE OwnIds'
    BY <1>8 DEF Refuse, Made
  <1> QED BY <1>1, <1>2, <1>3, <1>4, <1>5, <1>6, <1>7, <1>8
      DEF Next

LEMMA StepOpen ==
  ASSUME transport = "tcp", TypeOK, OwnIds, OpenIsKnown, [Next]_vars
  PROVE OpenIsKnown'
  <1> USE DEF TypeOK, OpenIsKnown
  <1>1. CASE Start
    BY <1>1 DEF Start
  <1>2. CASE Stop
    <2>1. ASSUME NEW c \in Conns PROVE socket'[c] # "open"
      BY <1>2 DEF Stop, Ended, Made
    <2> QED BY <2>1, <1>2 DEF Stop
  <1>3. CASE Stopped BY <1>3 DEF Stopped
  <1>4. ASSUME NEW c \in Conns, NEW i \in Ids, Connect(c, i)
        PROVE OpenIsKnown'
    BY <1>4 DEF Connect, FreshId, Made
  <1>5. ASSUME NEW c \in Conns, Closing(c) PROVE OpenIsKnown'
    BY <1>5 DEF Closing
  <1>6. ASSUME NEW c \in Conns, Close(c) PROVE OpenIsKnown'
    BY <1>6 DEF Close, OwnIds, Made
  <1>7. CASE UNCHANGED vars BY <1>7 DEF vars
  <1>8. ASSUME NEW c \in Conns, Refuse(c) PROVE OpenIsKnown'
    BY <1>8 DEF Refuse, Made
  <1> QED BY <1>1, <1>2, <1>3, <1>4, <1>5, <1>6, <1>7, <1>8
      DEF Next

LEMMA StepStop ==
  ASSUME TypeOK, StopEndsAll, transport = "tcp" => OpenIsKnown, [Next]_vars
  PROVE StopEndsAll'
  <1> USE DEF TypeOK, StopEndsAll
  <1>1. CASE Start
    BY <1>1 DEF Start
  <1>2. CASE Stop
    <2>1. ASSUME NEW c \in Conns PROVE socket'[c] # "open"
      BY <1>2 DEF Stop, Ended, Made, OpenIsKnown
    <2> QED BY <2>1
  <1>3. CASE Stopped BY <1>3 DEF Stopped
  <1>4. ASSUME NEW c \in Conns, NEW i \in Ids, Connect(c, i)
        PROVE StopEndsAll'
    BY <1>4 DEF Connect
  <1>5. ASSUME NEW c \in Conns, Closing(c) PROVE StopEndsAll'
    BY <1>5 DEF Closing
  <1>6. ASSUME NEW c \in Conns, Close(c) PROVE StopEndsAll'
    BY <1>6 DEF Close
  <1>7. CASE UNCHANGED vars BY <1>7 DEF vars
  <1>8. ASSUME NEW c \in Conns, Refuse(c) PROVE StopEndsAll'
    BY <1>8 DEF Refuse, Made
  <1> QED BY <1>1, <1>2, <1>3, <1>4, <1>5, <1>6, <1>7, <1>8
      DEF Next

LEMMA Invariant == Spec => []Inv
  <1>1. Init => Inv
    BY InitTypes
    DEF Init, Inv, EntriesAreLive, OwnIds, Made, OpenIsKnown, StopEndsAll
  <1>2. Inv /\ [Next]_vars => Inv'
    <2> SUFFICES ASSUME Inv, [Next]_vars PROVE Inv'
      OBVIOUS
    <2>1. TypeOK' /\ EntriesAreLive' /\ StopEndsAll'
      BY StepTypes, StepEntries, StepStop DEF Inv
    <2>2. CASE transport = "tcp"
      BY <2>1, <2>2, StepOwnIds, StepOpen DEF Inv
    <2>3. CASE transport # "tcp"
      BY <2>1, <2>3, StepTransport DEF Inv
    <2> QED BY <2>2, <2>3
  <1> QED BY <1>1, <1>2, PTL DEF Spec

(* A TcpServer always knows its open connections, so that it can notify all *)
(* clients: however late it learns that a connection is gone, that takes    *)
(* no other connection out of the table.                                    *)
THEOREM TcpNotifiesAll == Spec => []TcpOpenIsKnown
  <1>1. Inv => TcpOpenIsKnown
    BY DEF Inv, TcpOpenIsKnown
  <1> QED BY <1>1, Invariant, PTL

(* A server that was stopped has no open connection left: `stop` of a       *)
(* TcpServer found them all in the table.                                   *)
THEOREM StopLeavesNoneOpen == Spec => []StopEndsAll
  <1>1. Inv => StopEndsAll
    BY DEF Inv
  <1> QED BY <1>1, Invariant, PTL

-----------------------------------------------------------------------------
(* Every step of a Listener is one of Connections, or changes nothing of    *)
(* it.                                                                      *)
LEMMA ConnectionsStep == [ListenerNext]_listenerVars => [Next]_vars
<1> SUFFICES ASSUME [ListenerNext]_listenerVars PROVE [Next]_vars
  OBVIOUS
<1>1. CASE Run BY <1>1 DEF Run, Next
<1>2. CASE Embedded BY <1>2 DEF Embedded
<1>3. CASE Traffic BY <1>3 DEF Traffic, Next
<1>4. ASSUME NEW s \in Stops, Ask(s) PROVE [Next]_vars
  BY <1>4 DEF Ask, Next
<1>5. ASSUME NEW s \in Signals, Signal(s) PROVE [Next]_vars
  BY <1>4, <1>5 DEF Signal, Stops
<1>6. CASE Tick BY <1>4, <1>6 DEF Tick, Stops
<1>7. ASSUME NEW r \in Requests, Begin(r) \/ Answer(r) PROVE [Next]_vars
  BY <1>7 DEF Begin, Answer
<1>8. CASE Notified \/ Second BY <1>8 DEF Notified, Second
<1>9. ASSUME NEW s \in Stops, GoOn(s) \/ Exit(s) PROVE [Next]_vars
  BY <1>9 DEF GoOn, Exit
<1>10. CASE UNCHANGED listenerVars BY <1>10 DEF listenerVars
<1> QED
  BY <1>1, <1>2, <1>3, <1>5, <1>6, <1>7, <1>8, <1>9, <1>10 DEF ListenerNext

LEMMA ListenerImplementsConnections == ListenerSpec => Spec
<1>1. ListenerInit => Init BY DEF ListenerInit
<1> QED BY <1>1, ConnectionsStep, PTL DEF ListenerSpec, Spec

(* The server of a process that is being stopped, or was, has no open       *)
(* connection, and a TcpServer that runs knows all of them.                 *)
THEOREM ListenerConnections ==
    ListenerSpec => [](EntriesAreLive /\ TcpOpenIsKnown /\ StopEndsAll)
BY ListenerImplementsConnections, EntriesLive, TcpNotifiesAll, StopLeavesNoneOpen, PTL

-----------------------------------------------------------------------------
LEMMA LaterFacts ==
    ASSUME NEW n \in 0..MaxTime
    PROVE  /\ Later(n) \in 0..MaxTime
           /\ \A m \in 0..(MaxTime - 1) : n > m => Later(n) > m
           /\ \A k \in 0..MaxTime : k <= n => Later(k) <= Later(n)
BY ListenerAssumption DEF Later

LEMMA LimitFacts ==
    ASSUME limit \in Limits
    PROVE  limit.timeout \in 0..(MaxTime - 1) /\ limit.timelimit \in 0..(MaxTime - 1)
BY ListenerAssumption

(* The timers, requests and calls of stop of a Listener are well formed.    *)
THEOREM ListenerTypes == ListenerSpec => []ListenerTypeOK
<1>1. ListenerInit => ListenerTypeOK
  <2>1. 0 \in 0..MaxTime
    BY ListenerAssumption
  <2> QED BY <2>1, InitTypes DEF ListenerInit, ListenerTypeOK
<1>2. ListenerTypeOK /\ [ListenerNext]_listenerVars => ListenerTypeOK'
  <2> SUFFICES ASSUME ListenerTypeOK, [ListenerNext]_listenerVars PROVE ListenerTypeOK'
    OBVIOUS
  <2>0. TypeOK' BY StepTypes, ConnectionsStep DEF ListenerTypeOK
  <2> USE <2>0, ListenerAssumption DEF ListenerTypeOK
  <2>1. CASE Run BY <2>1 DEF Run, requests
  <2>2. CASE Embedded BY <2>2 DEF Embedded, timers, requests
  <2>3. CASE Traffic BY <2>3 DEF Traffic, timers, requests
  <2>4. ASSUME NEW s \in Stops, Ask(s)
        PROVE stopping' \in [Stops -> {"no", "servers", "delegator", "queuer", "failed"}]
    BY <2>4 DEF Ask
  <2>5. ASSUME NEW s \in Signals, Signal(s) PROVE ListenerTypeOK'
    BY <2>4, <2>5 DEF Signal, Stops, timers, requests
  <2>6. CASE Tick BY <2>4, <2>6 DEF Tick, Stops, requests
  <2>7. ASSUME NEW r \in Requests, Begin(r) PROVE ListenerTypeOK'
    BY <2>7 DEF Begin
  <2>8. ASSUME NEW r \in Requests, Answer(r) PROVE ListenerTypeOK'
    BY <2>8 DEF Answer, timers
  <2>9. CASE Notified BY <2>9 DEF Notified, requests
  <2>10. CASE Second BY <2>10 DEF Second, Later
  <2>11. ASSUME NEW s \in Stops, GoOn(s) PROVE ListenerTypeOK'
    BY <2>11 DEF GoOn, timers, requests
  <2>12. ASSUME NEW s \in Stops, Exit(s) PROVE ListenerTypeOK'
    BY <2>12 DEF Exit, timers
  <2>13. CASE UNCHANGED listenerVars
    BY <2>13 DEF listenerVars, timers, requests
  <2> QED
    BY <2>1, <2>2, <2>3, <2>5, <2>6, <2>7, <2>8, <2>9, <2>10, <2>11, <2>12, <2>13
    DEF ListenerNext
<1> QED BY <1>1, <1>2, PTL DEF ListenerSpec

-----------------------------------------------------------------------------
Overdue(r) ==
    \/ limit.timeout > 0 /\ elapsed[r] > limit.timeout
    \/ limit.timelimit > 0 /\ age > limit.timelimit

(* A request that is running when the interval decides to stop is overdue:  *)
(* the process was never idle for longer than it has lasted.  None runs     *)
(* before `run`, and there is no interval unless a limit is set.            *)
DueInv ==
    /\ process = "idle" => /\ \A r \in Requests : request[r] = "none"
                           /\ \A s \in Stops : stopping[s] = "no"
    /\ \A r \in Requests : request[r] = "running" => idle <= elapsed[r]
    /\ ticking => limit.timeout > 0 \/ limit.timelimit > 0
    /\ ZeroIsNoLimit /\ stopping["interval"] # "no" =>
          \A r \in Requests : request[r] = "running" => Overdue(r)
    /\ NotCutEarly

LEMMA DueSteps ==
    ASSUME ListenerTypeOK, ListenerTypeOK', DueInv, [ListenerNext]_listenerVars
    PROVE  DueInv'
<1> USE DEF DueInv, Overdue, NotCutEarly, ZeroIsNoLimit
<1>0. /\ "interval" \in Stops /\ \A s \in Signals : s \in Stops /\ s # "interval"
      /\ elapsed \in [Requests -> Nat] /\ age \in Nat /\ idle \in Nat
      /\ limit.timeout \in Nat /\ limit.timelimit \in Nat
  BY ListenerAssumption DEF ListenerTypeOK, Stops
<1>1. CASE Run BY <1>1 DEF Run, requests
<1>2. CASE Embedded BY <1>2 DEF Embedded, timers, requests
<1>3. CASE Traffic BY <1>3 DEF Traffic, timers, requests
<1>4. ASSUME NEW s \in Stops, Ask(s)
      PROVE  \A t \in Stops : IF t = s THEN stopping'[t] # "no"
                              ELSE stopping'[t] = stopping[t]
  BY <1>4 DEF Ask, ListenerTypeOK
<1>5. ASSUME NEW s \in Signals, Signal(s) PROVE DueInv'
  BY <1>0, <1>4, <1>5 DEF Signal, timers, requests
<1>6. CASE Tick
  <2>1. ZeroIsNoLimit => \A r \in Requests : request[r] = "running" => Overdue(r)
    BY <1>0, <1>6 DEF Tick, Due
  <2>2. /\ stopping'["interval"] # "no" /\ ticking' = FALSE
        /\ \A t \in Signals : stopping'[t] = stopping[t]
        /\ UNCHANGED <<limit, age, idle, request, elapsed, process>>
    BY <1>0, <1>4, <1>6 DEF Tick, requests
  <2>3. process' = "running"
    BY <1>6, <2>2 DEF Tick
  <2> QED BY <2>1, <2>2, <2>3
<1>7. ASSUME NEW r \in Requests, Begin(r) PROVE DueInv'
  BY <1>0, <1>7 DEF Begin, Stopping, ListenerTypeOK
<1>8. ASSUME NEW r \in Requests, Answer(r) PROVE DueInv'
  BY <1>0, <1>8 DEF Answer, timers, ListenerTypeOK
<1>9. CASE Notified BY <1>0, <1>9 DEF Notified, requests
<1>10. CASE Second
  <2>1. /\ age' = Later(age) /\ idle' = Later(idle)
        /\ \A r \in Requests : elapsed'[r] = IF request[r] \in {"running", "late"}
                                             THEN Later(elapsed[r]) ELSE elapsed[r]
        /\ UNCHANGED <<limit, ticking, request, process, stopping>>
    BY <1>10 DEF Second
  <2>2. process = "running"
    BY <1>10 DEF Second
  <2>3. age > limit.timelimit => age' > limit.timelimit
    BY <2>1, LaterFacts, LimitFacts DEF ListenerTypeOK
  <2>4. \A r \in Requests : elapsed[r] > limit.timeout => elapsed'[r] > limit.timeout
    BY <2>1, LaterFacts, LimitFacts DEF ListenerTypeOK
  <2>5. \A r \in Requests : request[r] = "running" => idle' <= elapsed'[r]
    BY <2>1, LaterFacts DEF ListenerTypeOK
  <2> QED BY <2>1, <2>2, <2>3, <2>4, <2>5
<1>11. ASSUME NEW s \in Stops, GoOn(s) PROVE DueInv'
  <2>1. \A t \in Stops : stopping'[t] = "no" <=> stopping[t] = "no"
    BY <1>11 DEF GoOn, ListenerTypeOK
  <2> QED BY <1>0, <1>11, <2>1 DEF GoOn, timers, requests
<1>12. ASSUME NEW s \in Stops, Exit(s) PROVE DueInv'
  <2>1. /\ process' = "exited" /\ UNCHANGED <<limit, ticking, age, idle, elapsed, stopping>>
        /\ stopping[s] = "queuer"
        /\ \A r \in Requests :
              request'[r] = IF request[r] = "running" THEN "cut" ELSE request[r]
    BY <1>12 DEF Exit, timers, ListenerTypeOK
  <2>2. s = "interval" \/ s \in Signals
    BY DEF Stops
  <2> QED BY <1>0, <2>1, <2>2
<1>13. CASE UNCHANGED listenerVars
  BY <1>13 DEF listenerVars, timers, requests
<1> QED
  BY <1>1, <1>2, <1>3, <1>5, <1>6, <1>7, <1>8, <1>9, <1>10, <1>11, <1>12, <1>13
  DEF ListenerNext

(* If both limits are set or none is, a process without a signal cuts a     *)
(* request off only when that request lasted longer than a timeout that is  *)
(* set, or the process than a time limit that is set.                       *)
THEOREM RequestsHaveTheirTime == ListenerSpec => []NotCutEarly
<1>1. ListenerInit => DueInv
  BY DEF ListenerInit, DueInv, NotCutEarly, Stops
<1>2. DueInv => NotCutEarly
  BY DEF DueInv
<1> QED BY <1>1, <1>2, ListenerTypes, DueSteps, PTL DEF ListenerSpec
=============================================================================
