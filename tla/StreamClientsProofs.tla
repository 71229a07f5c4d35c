------------------------ MODULE StreamClientsProofs -------------------------
(***************************************************************************)
(* Proofs about StreamClients, for any number of processes, clients,       *)
(* requests and streams.                                                   *)
(***************************************************************************)
EXTENDS StreamClients, TLAPS

(* A client in `start` is one of a pipe, has no streams and may make some.  *)
OpeningOK ==
    \A p \in Procs : opening[p] # None =>
       /\ kind = "pipe" /\ Proc[opening[p]] = p
       /\ stream[opening[p]] = 0
       /\ made[opening[p]] < MaxStreams

(* Requests are only pending on streams that were made.                     *)
PendingOK == \A r \in Requests : request[r] = "pending" => via[r] # 0

(* Someone is at the other end of the streams g, or an event will come that *)
(* says that nobody is, or they are of a pipe that nobody has opened there. *)
Served(c, g) ==
    \/ g \in up[c]
    \/ due[c][g] # "none"
    \/ kind = "pipe" /\ g \in alone[c]

StreamsServed ==
    \A c \in Clients : stream[c] # 0 => Served(c, stream[c])

Inv == TypeOK /\ OpeningOK /\ PendingOK /\ StreamsServed /\ NoOrphans /\ PendingIsServed

Events == {"none", "error", "exit", "close", "closes"}
Outcomes == {"none", "starting", "pending", "dropped", "answered", "rejected", "lost"}

LEMMA Constants ==
    /\ \A c \in Clients : Proc[c] \in Procs /\ c # None
    /\ \A r \in Requests : ClientOf[r] \in Clients
    /\ None \notin Procs /\ None # Empty /\ Empty \notin Procs
    /\ MaxStreams \in Nat
    /\ \A n \in 0..MaxStreams : n < MaxStreams => n + 1 \in Gens
    /\ \A g \in Gens : g \in 0..MaxStreams /\ g # 0
BY StreamsAssumption DEF Gens

LEMMA TypesFacts ==
    ASSUME TypeOK
    PROVE  /\ \A c \in Clients : /\ stream[c] \in 0..MaxStreams /\ made[c] \in 0..MaxStreams
                                 /\ stream[c] = 0 \/ stream[c] = made[c]
                                 /\ stream[c] = 0 \/ stream[c] \in Gens
                                 /\ up[c] \subseteq Gens /\ alone[c] \subseteq Gens
                                 /\ due[c] \in [Gens -> Events]
           /\ \A r \in Requests : request[r] \in Outcomes /\ via[r] \in 0..MaxStreams
BY DEF TypeOK, Events, Outcomes, Gens

-----------------------------------------------------------------------------
LEMMA InitInv == Init => Inv
<1> SUFFICES ASSUME Init PROVE Inv
  OBVIOUS
<1>1. 0 \in 0..MaxStreams
  BY Constants
<1>2. TypeOK
  BY <1>1 DEF Init, TypeOK
<1> QED
  BY <1>2 DEF Init, Inv, OpeningOK, PendingOK, StreamsServed, NoOrphans, PendingIsServed

(* New streams, for a client that has none.                                 *)
LEMMA BeginFacts ==
    ASSUME TypeOK, NoOrphans, NEW c \in Clients, NEW end \in {"up", "alone", "error"},
           end = "alone" => kind = "pipe", UNCHANGED kind,
           stream[c] = 0, made[c] < MaxStreams, Begin(c, end)
    PROVE  /\ stream' \in [Clients -> 0..MaxStreams] /\ made' \in [Clients -> 0..MaxStreams]
           /\ \A d \in Clients : stream'[d] \in {0, made'[d]}
           /\ up' \in [Clients -> SUBSET Gens] /\ alone' \in [Clients -> SUBSET Gens]
           /\ kind' = "stdio" => \A d \in Clients : alone'[d] = {}
           /\ due' \in [Clients -> [Gens -> Events]]
           /\ stream'[c] = made[c] + 1 /\ made[c] + 1 \in Gens
           /\ \A d \in Clients \ {c} :
                 /\ stream'[d] = stream[d] /\ made'[d] = made[d]
                 /\ up'[d] = up[d] /\ alone'[d] = alone[d] /\ due'[d] = due[d]
           /\ up'[c] \cup alone'[c] \subseteq {stream'[c]}
           /\ Served(c, stream[c])'
<1> USE Constants, TypesFacts
<1> DEFINE g == made[c] + 1
<1>1. g \in Gens
  OBVIOUS
<1>2. up[c] = {} /\ alone[c] = {}
  BY DEF NoOrphans
<1>3. /\ due' = [due EXCEPT ![c][g] = IF end = "error" THEN "error" ELSE "none"]
      /\ up' = IF end = "up" THEN With(up, c, g) ELSE up
      /\ alone' = IF end = "alone" THEN With(alone, c, g) ELSE alone
      /\ stream' = [stream EXCEPT ![c] = g] /\ made' = [made EXCEPT ![c] = g]
  BY DEF Begin
<1> HIDE DEF g
<1>4. /\ due' \in [Clients -> [Gens -> Events]]
      /\ end = "error" => due'[c][g] = "error"
      /\ \A d \in Clients \ {c} : due'[d] = due[d]
  <2>1. due \in [Clients -> [Gens -> Events]]
    BY DEF TypeOK
  <2>2. (IF end = "error" THEN "error" ELSE "none") \in Events
    BY DEF Events
  <2> QED BY <1>1, <1>3, <2>1, <2>2
<1>5. /\ up' \in [Clients -> SUBSET Gens] /\ alone' \in [Clients -> SUBSET Gens]
      /\ up'[c] = IF end = "up" THEN {g} ELSE {}
      /\ alone'[c] = IF end = "alone" THEN {g} ELSE {}
      /\ \A d \in Clients \ {c} : up'[d] = up[d] /\ alone'[d] = alone[d]
  <2>1. up \in [Clients -> SUBSET Gens] /\ alone \in [Clients -> SUBSET Gens]
    BY DEF TypeOK
  <2>2. /\ With(up, c, g) \in [Clients -> SUBSET Gens] /\ With(up, c, g)[c] = {g}
        /\ \A d \in Clients \ {c} : With(up, c, g)[d] = up[d]
    BY <1>1, <1>2, <2>1 DEF With
  <2>3. /\ With(alone, c, g) \in [Clients -> SUBSET Gens] /\ With(alone, c, g)[c] = {g}
        /\ \A d \in Clients \ {c} : With(alone, c, g)[d] = alone[d]
    BY <1>1, <1>2, <2>1 DEF With
  <2>4. /\ up' \in [Clients -> SUBSET Gens] /\ up'[c] = IF end = "up" THEN {g} ELSE {}
        /\ \A d \in Clients \ {c} : up'[d] = up[d]
    BY <1>2, <1>3, <2>1, <2>2
  <2>5. /\ alone' \in [Clients -> SUBSET Gens] /\ alone'[c] = IF end = "alone" THEN {g} ELSE {}
        /\ \A d \in Clients \ {c} : alone'[d] = alone[d]
    BY <1>2, <1>3, <2>1, <2>3
  <2> QED BY <2>4, <2>5
<1>6. kind' = "stdio" => \A d \in Clients : alone'[d] = {}
  BY <1>5 DEF TypeOK
<1>7. /\ stream' \in [Clients -> 0..MaxStreams] /\ made' \in [Clients -> 0..MaxStreams]
      /\ stream'[c] = g /\ made'[c] = g
      /\ \A d \in Clients \ {c} : stream'[d] = stream[d] /\ made'[d] = made[d]
  BY <1>1, <1>3 DEF TypeOK
<1>8. \A d \in Clients : stream'[d] \in {0, made'[d]}
  BY <1>7 DEF TypeOK
<1>9. Served(c, stream[c])'
  BY <1>4, <1>5, <1>7 DEF Served
<1> QED
  BY <1>1, <1>4, <1>5, <1>6, <1>7, <1>8, <1>9 DEF g

(* ... on which the requests of that client may wait from now on.           *)
LEMMA BeginServes ==
    ASSUME Inv, NEW c \in Clients, NEW end \in {"up", "alone", "error"},
           end = "alone" => kind = "pipe", UNCHANGED kind,
           stream[c] = 0, made[c] < MaxStreams, Begin(c, end),
           \A r \in Requests : request'[r] = "pending" =>
              \/ request[r] = "pending" /\ via'[r] = via[r]
              \/ ClientOf[r] = c /\ via'[r] = made[c] + 1
    PROVE  NoOrphans' /\ PendingIsServed' /\ PendingOK' /\ StreamsServed'
<1> USE DEF Inv
<1>0. /\ stream'[c] = made[c] + 1 /\ made[c] + 1 \in Gens /\ Served(c, stream[c])'
      /\ up'[c] \cup alone'[c] \subseteq {stream'[c]}
      /\ \A d \in Clients \ {c} :
            /\ stream'[d] = stream[d] /\ up'[d] = up[d]
            /\ alone'[d] = alone[d] /\ due'[d] = due[d]
  BY BeginFacts
<1>1. NoOrphans'
  BY <1>0 DEF NoOrphans
<1>2. ASSUME NEW r \in Requests, request'[r] = "pending"
      PROVE  /\ via'[r] # 0 /\ via'[r] = stream'[ClientOf[r]]
             /\ Served(ClientOf[r], via[r])'
  <2>1. CASE request[r] = "pending" /\ via'[r] = via[r]
    <3>1. ClientOf[r] # c /\ ClientOf[r] \in Clients
      BY <2>1, Constants DEF PendingOK, PendingIsServed
    <3> QED BY <2>1, <3>1, <1>0 DEF PendingOK, PendingIsServed, Served
  <2>2. CASE ClientOf[r] = c /\ via'[r] = made[c] + 1
    BY <2>2, <1>0, Constants DEF Served
  <2> QED BY <1>2, <2>1, <2>2
<1>3. StreamsServed'
  BY <1>0 DEF StreamsServed, Served
<1> QED BY <1>1, <1>2, <1>3 DEF PendingIsServed, PendingOK, Served

LEMMA SpawnStep ==
    ASSUME Inv, NEW c \in Clients, Spawn(c), Free(c), stream[c] = 0, UNCHANGED <<kind, alive>>,
           request' \in [Requests -> Outcomes], via' \in [Requests -> 0..MaxStreams],
           \A r \in Requests : request'[r] = "pending" =>
              \/ request[r] = "pending" /\ via'[r] = via[r]
              \/ ClientOf[r] = c /\ via'[r] = made[c] + 1
    PROVE  Inv'
<1> PICK end \in {"up", "error"} : Begin(c, end)
  BY DEF Spawn
<1>1. made[c] < MaxStreams /\ UNCHANGED <<locks, history>>
  BY DEF Spawn
<1>2. NoOrphans' /\ PendingIsServed' /\ PendingOK' /\ StreamsServed'
  BY <1>1, BeginServes
<1>3. TypeOK'
  BY <1>1, BeginFacts DEF Inv, TypeOK, locks, history, Events, Outcomes
<1>4. OpeningOK'
  <2> SUFFICES ASSUME NEW p \in Procs, opening'[p] # None
               PROVE  /\ kind' = "pipe"
                      /\ Proc[opening'[p]] = p /\ stream'[opening'[p]] = 0
                      /\ made'[opening'[p]] < MaxStreams
    BY DEF OpeningOK
  <2>1. opening'[p] = opening[p] /\ opening[p] \in Clients
    BY <1>1 DEF locks, Inv, TypeOK
  <2>2. opening[p] # c
    BY <2>1 DEF Free, Inv, OpeningOK
  <2> QED BY <1>1, <2>1, <2>2, BeginFacts DEF Inv, OpeningOK
<1> QED BY <1>2, <1>3, <1>4 DEF Inv

LEMMA RegisterStep ==
    ASSUME Inv, NEW c \in Clients, Register(c), stream[c] = 0, UNCHANGED <<kind, alive, via>>,
           request' \in [Requests -> Outcomes],
           \A r \in Requests : request'[r] = "pending" => request[r] = "pending"
    PROVE  Inv'
<1> USE Constants DEF Inv, Register, streams, history
<1>1. TypeOK'
  BY DEF TypeOK, Outcomes
<1>2. OpeningOK'
  BY DEF TypeOK, OpeningOK
<1>3. PendingOK' /\ PendingIsServed' /\ NoOrphans' /\ StreamsServed'
  BY DEF PendingOK, PendingIsServed, NoOrphans, StreamsServed, Served
<1> QED BY <1>1, <1>2, <1>3

(* A client that stops has nothing pending.                                 *)
LEMMA StopStep ==
    ASSUME Inv, NEW c \in Clients, NEW events \in [Gens -> Events], StopWith(c, events)
    PROVE  Inv'
<1> USE Constants DEF Inv, StopWith
<1>1. due' = [due EXCEPT ![c] = [g \in Gens |->
                 IF g = stream[c] THEN Left(c, events[g]) ELSE events[g]]]
  OBVIOUS
<1>2. [g \in Gens |-> IF g = stream[c] THEN Left(c, events[g]) ELSE events[g]]
         \in [Gens -> Events]
  BY DEF Left, Events
<1>3. due' \in [Clients -> [Gens -> Events]]
  BY <1>1, <1>2 DEF TypeOK, Events
<1>4. /\ stream' = [stream EXCEPT ![c] = 0]
      /\ up' = [up EXCEPT ![c] = @ \ {stream[c]}]
      /\ alone' = [alone EXCEPT ![c] = @ \ {stream[c]}]
      /\ UNCHANGED <<kind, made, opening, step, alive, raced, via>>
  BY DEF locks, history, Reject
<1>5. /\ listed' \in [Procs -> BOOLEAN] /\ lock' \in Procs \cup {None, Empty}
      /\ robbed' \in BOOLEAN
  BY DEF TypeOK
<1>6. request' = [r \in Requests |->
         IF ClientOf[r] = c /\ request[r] \in {"pending", "dropped"} THEN "rejected"
         ELSE request[r]]
  BY DEF Reject
<1>7. TypeOK'
  BY <1>3, <1>4, <1>5, <1>6 DEF TypeOK, Events
<1>8. OpeningOK'
  BY <1>4 DEF TypeOK, OpeningOK
<1>9. NoOrphans'
  BY <1>4 DEF TypeOK, NoOrphans
<1>10. \A r \in Requests : request'[r] = "pending" => request[r] = "pending" /\ ClientOf[r] # c
  BY <1>6 DEF TypeOK
<1>11. \A d \in Clients \ {c} : /\ stream'[d] = stream[d] /\ up'[d] = up[d]
                                /\ alone'[d] = alone[d] /\ due'[d] = due[d]
  BY <1>1, <1>4 DEF TypeOK
<1>12. PendingOK' /\ PendingIsServed' /\ StreamsServed'
  BY <1>4, <1>10, <1>11 DEF PendingOK, PendingIsServed, StreamsServed, Served, TypeOK
<1> QED BY <1>7, <1>8, <1>9, <1>12

LEMMA WriteStep ==
    ASSUME Inv, NEW c \in Clients, Write(c)
    PROVE  Inv'
<1> USE Constants
<1>0. PICK end \in {"up", "alone"} : Begin(c, end)
  BY DEF Write
<1>1. /\ opening[Proc[c]] = c /\ Started(c, "pending")
      /\ opening' = [opening EXCEPT ![Proc[c]] = None]
      /\ step' = [step EXCEPT ![Proc[c]] = "none"]
      /\ lock' = Proc[c] /\ UNCHANGED <<kind, listed, alive, raced, robbed>>
  BY DEF Write, Opens, history
<1>2. stream[c] = 0 /\ made[c] < MaxStreams /\ kind = "pipe" /\ UNCHANGED kind
  BY <1>1 DEF Inv, OpeningOK
<1>3. \A r \in Requests :
         /\ request'[r] \in Outcomes /\ via'[r] \in 0..MaxStreams
         /\ request'[r] = "pending" =>
               \/ request[r] = "pending" /\ via'[r] = via[r]
               \/ ClientOf[r] = c /\ via'[r] = made[c] + 1
  <2>1. made[c] + 1 \in 0..MaxStreams
    BY <1>2, TypesFacts DEF Inv
  <2>2. \A r \in Requests : request[r] \in Outcomes /\ via[r] \in 0..MaxStreams
    BY TypesFacts DEF Inv
  <2>3. \A r \in Requests : \/ /\ ClientOf[r] = c /\ request'[r] = "pending"
                               /\ via'[r] = made[c] + 1
                            \/ request'[r] = request[r] /\ via'[r] = via[r]
    BY <1>1 DEF Started
  <2> QED BY <2>1, <2>2, <2>3 DEF Outcomes
<1>4. NoOrphans' /\ PendingIsServed' /\ PendingOK' /\ StreamsServed'
  BY <1>0, <1>2, <1>3, BeginServes
<1>5. TypeOK'
  <2>1. request' \in [Requests -> Outcomes] /\ via' \in [Requests -> 0..MaxStreams]
    BY <1>1, <1>3 DEF Started
  <2> QED BY <1>0, <1>1, <1>2, <2>1, BeginFacts DEF Inv, TypeOK, Events, Outcomes
<1>6. OpeningOK'
  <2> SUFFICES ASSUME NEW p \in Procs, opening'[p] # None
               PROVE  /\ kind' = "pipe"
                      /\ Proc[opening'[p]] = p /\ stream'[opening'[p]] = 0
                      /\ made'[opening'[p]] < MaxStreams
    BY DEF OpeningOK
  <2>1. p # Proc[c] /\ opening'[p] = opening[p] /\ opening[p] \in Clients
    BY <1>1 DEF Inv, TypeOK
  <2>2. opening[p] # c
    BY <2>1 DEF Inv, OpeningOK
  <2> QED BY <1>0, <1>1, <1>2, <2>1, <2>2, BeginFacts DEF Inv, OpeningOK
<1> QED BY <1>4, <1>5, <1>6 DEF Inv

LEMMA SendStartStep ==
    ASSUME Inv, NEW r \in Requests, SendStart(r)
    PROVE  Inv'
<1> USE Constants
<1> DEFINE c == ClientOf[r]
<1>1. c \in Clients /\ Free(c) /\ stream[c] = 0 /\ UNCHANGED <<kind, alive>>
  BY DEF SendStart
<1>2. ASSUME Spawn(c), request' = [request EXCEPT ![r] = "pending"],
             via' = [via EXCEPT ![r] = made[c] + 1]
      PROVE  Inv'
  <2>1. made[c] + 1 \in 0..MaxStreams
    BY <1>1, <1>2, TypesFacts DEF Spawn, Inv
  <2>2. request' \in [Requests -> Outcomes] /\ via' \in [Requests -> 0..MaxStreams]
    BY <1>2, <2>1 DEF Inv, TypeOK, Outcomes
  <2>3. \A q \in Requests : request'[q] = "pending" =>
           \/ request[q] = "pending" /\ via'[q] = via[q]
           \/ ClientOf[q] = c /\ via'[q] = made[c] + 1
    BY <1>2 DEF Inv, TypeOK
  <2> QED BY <1>1, <1>2, <2>2, <2>3, SpawnStep
<1>3. ASSUME Register(c), request' = [request EXCEPT ![r] = "starting"], UNCHANGED via
      PROVE  Inv'
  <2>1. request' \in [Requests -> Outcomes]
    BY <1>3 DEF Inv, TypeOK, Outcomes
  <2>2. \A q \in Requests : request'[q] = "pending" => request[q] = "pending"
    BY <1>3 DEF Inv, TypeOK
  <2> QED BY <1>1, <1>3, <2>1, <2>2, RegisterStep
<1>4. ASSUME request' = [request EXCEPT ![r] = "rejected"],
             UNCHANGED <<via, streams, locks, history>>
      PROVE  Inv'
  BY <1>1, <1>4 DEF Inv, TypeOK, OpeningOK, PendingOK, StreamsServed, Served, PendingIsServed,
     NoOrphans, streams, locks, history
<1> QED BY <1>2, <1>3, <1>4 DEF SendStart

LEMMA CrashStep ==
    ASSUME Inv, NEW p \in Procs, Crash(p)
    PROVE  Inv'
<1> USE Constants DEF Inv, Crash, locks, history
<1>1. due' \in [Clients -> [Gens -> Events]]
  BY DEF TypeOK, Events
<1>2. TypeOK'
  BY <1>1 DEF TypeOK, Events
<1>3. OpeningOK'
  BY DEF TypeOK, OpeningOK
<1>4. NoOrphans'
  BY DEF NoOrphans
<1>5. PendingOK' /\ PendingIsServed' /\ StreamsServed'
  BY DEF PendingOK, PendingIsServed, StreamsServed, Served, TypeOK
<1> QED BY <1>2, <1>3, <1>4, <1>5

LEMMA BreakStep ==
    ASSUME Inv, NEW c \in Clients, NEW g \in Gens, Break(c, g)
    PROVE  Inv'
<1> USE Constants DEF Inv
<1>1. PICK event \in {"exit", "close"} : due' = [due EXCEPT ![c][g] = event]
  BY DEF Break
<1>2. /\ due' \in [Clients -> [Gens -> Events]]
      /\ due'[c][g] # "none"
      /\ \A h \in Gens \ {g} : due'[c][h] = due[c][h]
      /\ \A d \in Clients \ {c} : due'[d] = due[d]
  BY <1>1 DEF TypeOK, Events
<1>3. /\ up' = [up EXCEPT ![c] = @ \ {g}]
      /\ UNCHANGED <<kind, stream, made, alone, requests, locks, alive, history>>
  BY DEF Break
<1>4. TypeOK'
  BY <1>2, <1>3 DEF TypeOK, Events, requests, locks, history
<1>5. OpeningOK'
  BY <1>3 DEF OpeningOK, locks
<1>6. NoOrphans'
  BY <1>3 DEF NoOrphans, TypeOK
<1>7. PendingOK'
  BY <1>3 DEF PendingOK, requests
<1>8. ASSUME NEW d \in Clients, NEW h \in Gens, Served(d, h) PROVE Served(d, h)'
  <2>1. h \in up[d] => h \in up'[d] \/ (d = c /\ h = g)
    BY <1>3 DEF TypeOK
  <2>2. CASE d = c /\ h = g BY <1>2, <2>2 DEF Served
  <2>3. CASE ~(d = c /\ h = g)
    <3>1. due'[d][h] = due[d][h]
      BY <1>2, <2>3
    <3> QED BY <1>3, <1>8, <2>1, <2>3, <3>1 DEF Served
  <2> QED BY <2>2, <2>3
<1>9. StreamsServed'
  BY <1>3, <1>8, TypesFacts DEF StreamsServed
<1>10. PendingIsServed'
  <2> SUFFICES ASSUME NEW r \in Requests, request'[r] = "pending"
               PROVE  via'[r] = stream'[ClientOf[r]] /\ Served(ClientOf[r], via[r])'
    BY DEF PendingIsServed, Served
  <2>1. /\ request[r] = "pending" /\ via'[r] = via[r] /\ via[r] = stream[ClientOf[r]]
        /\ stream' = stream
    BY <1>3 DEF requests, PendingIsServed
  <2>2. ClientOf[r] \in Clients /\ stream[ClientOf[r]] # 0
    BY <2>1 DEF PendingOK
  <2>3. Served(ClientOf[r], stream[ClientOf[r]])'
    BY <1>9, <2>1, <2>2 DEF StreamsServed
  <2> QED BY <2>1, <2>3 DEF Served
<1> QED BY <1>4, <1>5, <1>6, <1>7, <1>9, <1>10

LEMMA OpenStep ==
    ASSUME Inv, NEW c \in Clients, NEW g \in Gens, Open(c, g)
    PROVE  Inv'
<1> USE Constants DEF Inv
<1>1. /\ up' = [up EXCEPT ![c] = @ \cup {g}] /\ alone' = [alone EXCEPT ![c] = @ \ {g}]
      /\ g \in alone[c]
      /\ UNCHANGED <<kind, stream, made, due, request, via, locks, alive, history>>
  BY DEF Open, With, requests
<1>2. /\ up' \in [Clients -> SUBSET Gens] /\ alone' \in [Clients -> SUBSET Gens]
      /\ \A d \in Clients : /\ up'[d] \cup alone'[d] = up[d] \cup alone[d]
                            /\ up[d] \subseteq up'[d]
                            /\ alone'[d] \subseteq alone[d]
  BY <1>1 DEF TypeOK
<1>3. TypeOK'
  BY <1>1, <1>2 DEF TypeOK, locks, history
<1>4. OpeningOK' /\ NoOrphans' /\ PendingOK'
  BY <1>1, <1>2 DEF OpeningOK, NoOrphans, PendingOK, locks
<1>5. \A d \in Clients, h \in Gens : Served(d, h) => Served(d, h)'
  BY <1>1, <1>2 DEF Served
<1>6. StreamsServed'
  BY <1>1, <1>5, TypesFacts DEF StreamsServed
<1>7. PendingIsServed'
  <2> SUFFICES ASSUME NEW r \in Requests, request'[r] = "pending"
               PROVE  via'[r] = stream'[ClientOf[r]] /\ Served(ClientOf[r], via[r])'
    BY DEF PendingIsServed, Served
  <2>1. /\ request[r] = "pending" /\ via'[r] = via[r] /\ via[r] = stream[ClientOf[r]]
        /\ Served(ClientOf[r], via[r]) /\ via[r] \in Gens /\ ClientOf[r] \in Clients
    BY <1>1, TypesFacts DEF PendingIsServed, PendingOK, Served
  <2>2. Served(ClientOf[r], via[r])'
    BY <1>1, <1>2, <2>1 DEF Served
  <2> QED BY <1>1, <2>1, <2>2
<1> QED BY <1>3, <1>4, <1>6, <1>7

LEMMA StepInv == Inv /\ [Next]_vars => Inv'
<1> SUFFICES ASSUME Inv, [Next]_vars PROVE Inv'
  OBVIOUS
<1> USE Constants
<1>1. ASSUME NEW c \in Clients, Start(c) PROVE Inv'
  <2>1. /\ stream[c] = 0 /\ Free(c) /\ UNCHANGED <<kind, alive, via, request>>
        /\ Spawn(c) \/ Register(c)
    BY <1>1 DEF Start, requests
  <2>2. request' \in [Requests -> Outcomes] /\ via' \in [Requests -> 0..MaxStreams]
    BY <2>1 DEF Inv, TypeOK, Outcomes
  <2> QED BY <2>1, <2>2, SpawnStep, RegisterStep
<1>2. ASSUME NEW c \in Clients, Stop(c) PROVE Inv'
  BY <1>2, TypesFacts, StopStep DEF Stop, Inv
<1>3. ASSUME NEW c \in Clients, Test(c) PROVE Inv'
  BY <1>3 DEF Test, Opens, Inv, TypeOK, OpeningOK, PendingOK, PendingIsServed, NoOrphans,
     StreamsServed, Served, streams, requests
<1>4. ASSUME NEW c \in Clients, Blocked(c) PROVE Inv'
  <2>1. \A r \in Requests : /\ via'[r] = via[r]
                            /\ request'[r] = request[r] \/ request'[r] = "dropped"
    BY <1>4 DEF Blocked, Started
  <2>2. request' \in [Requests -> Outcomes] /\ via' \in [Requests -> 0..MaxStreams]
    BY <1>4, <2>1, TypesFacts DEF Blocked, Started, Inv, Outcomes
  <2>3. TypeOK'
    BY <1>4, <2>2 DEF Blocked, Inv, TypeOK, Outcomes, streams, history
  <2>4. OpeningOK'
    BY <1>4 DEF Blocked, Inv, TypeOK, OpeningOK, streams
  <2>5. NoOrphans' /\ PendingIsServed' /\ PendingOK' /\ StreamsServed'
    BY <1>4, <2>1 DEF Blocked, Inv, NoOrphans, PendingIsServed, PendingOK, StreamsServed, Served, streams
  <2> QED BY <2>3, <2>4, <2>5 DEF Inv
<1>5. ASSUME NEW c \in Clients, Create(c) PROVE Inv'
  BY <1>5 DEF Create, Opens, Inv, TypeOK, OpeningOK, PendingOK, PendingIsServed, NoOrphans,
     StreamsServed, Served, streams, requests, history
<1>6. ASSUME NEW c \in Clients, Write(c) PROVE Inv'
  BY <1>6, WriteStep
<1>7. ASSUME NEW c \in Clients, NEW g \in Gens, Break(c, g) \/ Open(c, g) PROVE Inv'
  BY <1>7, BreakStep, OpenStep
<1>8. ASSUME NEW c \in Clients, NEW g \in Gens, Event(c, g) PROVE Inv'
  <2>1. [due[c] EXCEPT ![g] = IF @ = "closes" THEN "close" ELSE "none"] \in [Gens -> Events]
    BY TypesFacts DEF Inv, Events
  <2> QED BY <1>8, <2>1, StopStep DEF Event
<1>9. ASSUME NEW r \in Requests, Send(r) PROVE Inv'
  <2> DEFINE c == ClientOf[r]
  <2>1. /\ request' = [request EXCEPT ![r] = "pending"] /\ via' = [via EXCEPT ![r] = stream[c]]
        /\ stream[c] # 0 /\ Free(c)
        /\ UNCHANGED <<kind, streams, locks, alive, history>>
    BY <1>9 DEF Send
  <2>2. TypeOK'
    BY <2>1, TypesFacts DEF Inv, TypeOK, streams, locks, history
  <2>3. OpeningOK' /\ NoOrphans' /\ StreamsServed'
    BY <2>1 DEF Inv, OpeningOK, NoOrphans, StreamsServed, Served, streams, locks
  <2>4. Served(c, stream[c])
    BY <2>1 DEF Inv, StreamsServed
  <2> QED BY <2>1, <2>2, <2>3, <2>4 DEF Inv, TypeOK, PendingOK, PendingIsServed, Served, streams
<1>10. ASSUME NEW r \in Requests, SendStart(r) PROVE Inv'
  BY <1>10, SendStartStep
<1>11. ASSUME NEW r \in Requests, Answer(r) PROVE Inv'
  BY <1>11 DEF Answer, Inv, TypeOK, OpeningOK, PendingOK, PendingIsServed, NoOrphans,
     StreamsServed, Served, streams, locks, history
<1>12. ASSUME NEW p \in Procs, Crash(p) PROVE Inv'
  BY <1>12, CrashStep
<1>13. CASE UNCHANGED vars
  BY <1>13 DEF vars, Inv, TypeOK, OpeningOK, PendingOK, PendingIsServed, NoOrphans,
     StreamsServed, Served, streams, requests, locks, history
<1> QED
  BY <1>1, <1>2, <1>3, <1>4, <1>5, <1>6, <1>7, <1>8, <1>9, <1>10, <1>11, <1>12, <1>13
  DEF Next

LEMMA Invariance == Spec => []Inv
BY InitInv, StepInv, PTL DEF Spec

(* All that the clients keep is well formed; the streams in use are those   *)
(* that were made last.                                                     *)
THEOREM TypeCorrect == Spec => []TypeOK
<1>1. Inv => TypeOK
  BY DEF Inv
<1> QED BY <1>1, Invariance, PTL

(* A pending request was written to the streams in use, and will be         *)
(* answered or an event will reject it: late events of old streams, and     *)
(* the restarts between them, leave no request with nobody to settle it.    *)
THEOREM RequestsServed == Spec => []PendingIsServed
<1>1. Inv => PendingIsServed
  BY DEF Inv
<1> QED BY <1>1, Invariance, PTL

(* No client forgets a child process or a pipe that is still in use.        *)
THEOREM NothingOrphaned == Spec => []NoOrphans
<1>1. Inv => NoOrphans
  BY DEF Inv
<1> QED BY <1>1, Invariance, PTL

-----------------------------------------------------------------------------
(* While nobody raced or was robbed: a pipe is connected to by the client   *)
(* whose running process has the lock, and by no one while it is being      *)
(* taken, which one process does.                                           *)
LockInv ==
    \/ raced \/ robbed \/ kind = "stdio"
    \/ /\ \A c \in Connected : lock = Proc[c] /\ Proc[c] \in alive
       /\ \A c, d \in Connected : c = d
       /\ Taking # {} => Connected = {}
       /\ \A p, q \in Taking : p = q

(* Steps that connect nobody and take no lock.                              *)
LEMMA LockStays ==
    ASSUME LockInv, UNCHANGED <<kind, lock>>,
           raced => raced', robbed => robbed',
           Connected' \subseteq Connected, Taking' \subseteq Taking,
           \A c \in Connected' : Proc[c] \in alive'
    PROVE  LockInv'
<1>1. CASE raced \/ robbed \/ kind = "stdio"
  BY <1>1 DEF LockInv
<1>2. CASE ~(raced \/ robbed \/ kind = "stdio")
  BY <1>2 DEF LockInv
<1> QED BY <1>1, <1>2

LEMMA LockStop ==
    ASSUME Inv, LockInv, NEW c \in Clients, NEW events, StopWith(c, events)
    PROVE  LockInv'
<1> USE Constants
<1>1. /\ stream' = [stream EXCEPT ![c] = 0]
      /\ UNCHANGED <<kind, step, alive, raced>>
  BY DEF StopWith
<1>2. Taking' = Taking /\ Connected' = Connected \ {c}
  BY <1>1 DEF Taking, Connected, Inv, TypeOK
<1>3. CASE raced \/ kind = "stdio" BY <1>1, <1>3 DEF LockInv
<1>4. CASE kind = "pipe" /\ ~ raced
  <2>1. lock' = None /\ robbed' = (robbed \/ (lock # None /\ stream[c] = 0))
    BY <1>4 DEF StopWith
  <2>2. CASE robbed' BY <2>2 DEF LockInv
  <2>3. CASE ~ robbed'
    <3>1. lock = None \/ c \in Connected
      BY <2>1, <2>3 DEF Connected
    <3>2. /\ \A d \in Connected : d \in Clients /\ lock = Proc[d]
          /\ \A d, e \in Connected : d = e
      BY <1>4, <2>1, <2>3 DEF LockInv, Connected, Inv, TypeOK
    <3>3. lock = None => Connected = {}
      BY <3>2
    <3>4. Connected' = {}
      BY <1>2, <3>1, <3>2, <3>3
    <3> QED BY <1>1, <1>2, <1>4, <2>1, <2>3, <3>4 DEF LockInv
  <2> QED BY <2>2, <2>3
<1> QED BY <1>3, <1>4 DEF Inv, TypeOK

LEMMA LockStep == Inv /\ LockInv /\ [Next]_vars => LockInv'
<1> SUFFICES ASSUME Inv, LockInv, [Next]_vars PROVE LockInv'
  OBVIOUS
<1> USE Constants
<1>1. \A c \in Connected : kind = "stdio" \/ raced \/ robbed \/ Proc[c] \in alive
  BY DEF LockInv
<1>2. ASSUME NEW c \in Clients, Spawn(c), UNCHANGED kind PROVE LockInv'
  BY <1>2 DEF Spawn, LockInv
<1>3. ASSUME NEW c \in Clients, Register(c), Free(c), UNCHANGED <<kind, alive>>
      PROVE  LockInv'
  <2>1. Connected' = Connected /\ Taking' \subseteq Taking /\ UNCHANGED <<lock, raced, robbed>>
    BY <1>3 DEF Register, Connected, Taking, streams, history, Inv, TypeOK
  <2> QED BY <1>3, <2>1 DEF LockInv
<1>4. ASSUME NEW c \in Clients, Start(c) PROVE LockInv'
  BY <1>2, <1>3, <1>4 DEF Start
<1>5. ASSUME NEW r \in Requests, SendStart(r) PROVE LockInv'
  <2>1. ASSUME UNCHANGED <<kind, streams, locks, history, alive>> PROVE LockInv'
    BY <2>1 DEF LockInv, Connected, Taking, streams, locks, history
  <2> QED BY <1>2, <1>3, <1>5, <2>1 DEF SendStart
<1>6. ASSUME NEW c \in Clients, Stop(c) PROVE LockInv'
  BY <1>6, LockStop DEF Stop
<1>7. ASSUME NEW c \in Clients, NEW g \in Gens, Event(c, g) PROVE LockInv'
  BY <1>7, LockStop DEF Event
<1>8. ASSUME NEW c \in Clients, Test(c) PROVE LockInv'
  <2>1. /\ UNCHANGED <<kind, streams, lock, alive, robbed>> /\ lock \notin alive
        /\ raced' = (raced \/ Taking # {})
    BY <1>8 DEF Test
  <2>2. Connected' = Connected /\ Taking' \subseteq Taking \cup {Proc[c]}
    BY <1>8 DEF Test, Connected, Taking, streams, Inv, TypeOK
  <2> QED BY <2>1, <2>2 DEF LockInv
<1>9. ASSUME NEW c \in Clients, Blocked(c) PROVE LockInv'
  <2>1. UNCHANGED <<kind, streams, lock, alive, raced, robbed>>
    BY <1>9 DEF Blocked, history
  <2>2. Connected' = Connected /\ Taking' \subseteq Taking
    BY <1>9 DEF Blocked, Connected, Taking, streams, Inv, TypeOK
  <2> QED BY <2>1, <2>2 DEF LockInv
<1>10. ASSUME NEW c \in Clients, Create(c) PROVE LockInv'
  <2>1. UNCHANGED <<kind, streams, alive, raced, robbed>> /\ Proc[c] \in Taking
    BY <1>10 DEF Create, Opens, Taking, history
  <2>2. Connected' = Connected /\ Taking' \subseteq Taking
    BY <1>10 DEF Create, Opens, Connected, Taking, streams, Inv, TypeOK
  <2> QED BY <2>1, <2>2 DEF LockInv
<1>11. ASSUME NEW c \in Clients, Write(c) PROVE LockInv'
  <2>1. /\ UNCHANGED <<kind, alive, raced, robbed>> /\ Proc[c] \in Taking
        /\ lock' = Proc[c] /\ Proc[c] \in alive
    BY <1>11 DEF Write, Opens, Taking, history
  <2>2. Connected' \subseteq Connected \cup {c}
    BY <1>11 DEF Write, Begin, Connected, Inv, TypeOK
  <2>3. Taking' \subseteq Taking \ {Proc[c]}
    BY <1>11 DEF Write, Taking, Inv, TypeOK
  <2> QED BY <2>1, <2>2, <2>3 DEF LockInv
<1>12. ASSUME NEW p \in Procs, Crash(p) PROVE LockInv'
  <2>1. /\ UNCHANGED <<kind, lock, raced, robbed>>
        /\ alive' = alive \ {p} /\ Taking' \subseteq Taking
        /\ \A c \in Connected' : c \in Connected /\ Proc[c] # p
    BY <1>12 DEF Crash, locks, history, Taking, Connected
  <2> QED BY <2>1 DEF LockInv
<1>13. ASSUME NEW r \in Requests, Send(r) \/ Answer(r) PROVE LockInv'
  BY <1>13 DEF Send, Answer, LockInv, Connected, Taking, streams, locks, history
<1>14. ASSUME NEW c \in Clients, NEW g \in Gens, Break(c, g) \/ Open(c, g)
       PROVE  LockInv'
  BY <1>14 DEF Break, Open, LockInv, Connected, Taking, locks, history
<1>15. CASE UNCHANGED vars
  BY <1>15 DEF vars, LockInv, Connected, Taking, streams, locks, history
<1> QED
  BY <1>4, <1>5, <1>6, <1>7, <1>8, <1>9, <1>10, <1>11, <1>12, <1>13, <1>14, <1>15
  DEF Next

(* A pipe has one client at a time, in whichever process, although they may *)
(* crash: unless two processes were taking the lock at once, or a client    *)
(* that did not have the pipe removed it.                                   *)
THEOREM LockIsExclusive == Spec => []LockExcludes
<1>1. Init => LockInv
  BY DEF Init, LockInv, Connected, Taking
<1>2. Inv /\ LockInv => LockExcludes
  BY DEF Inv, TypeOK, LockInv, LockExcludes, OneClientPerPipe
<1> QED BY <1>1, <1>2, Invariance, LockStep, PTL DEF Spec
=============================================================================
