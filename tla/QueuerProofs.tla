---------------------------- MODULE QueuerProofs ----------------------------
(* Proofs about the Queuer for every set of calls, every assignment of job  *)
(* ids, every number of overlapping passes and every queue length.          *)
EXTENDS Queuer, SequenceTheorems, TLAPS

(* Each call is queued at most once.                                        *)
Distinct == \A i, k \in 1..Len(queue) : queue[i] = queue[k] => i = k

(* Only calls that were made and accepted are queued or cancelled.          *)
Known ==
    \A c \in Calls :
       Queued(c) \/ c \in cancelled => promise[c] \notin {"none", "refused"}

Inv == TypeOK /\ Distinct /\ Known /\ NoLostJob /\ QueueBound

(* The list that splice(i, 1) leaves of q.                                  *)
Without(q, i) == SubSeq(q, 1, i - 1) \o SubSeq(q, i + 1, Len(q))

(* It is the list with the elements after i moved up by one, and has none   *)
(* of them twice if q has none.                                             *)
LEMMA RemovalLemma ==
    ASSUME NEW S, NEW q \in Seq(S), NEW i \in 1..Len(q),
           NEW r, r = Without(q, i)
    PROVE  /\ r \in Seq(S) /\ Len(r) = Len(q) - 1
           /\ \A k \in 1..Len(r) : r[k] = IF k < i THEN q[k] ELSE q[k + 1]
           /\ (\A k, l \in 1..Len(q) : q[k] = q[l] => k = l)
                => \A k, l \in 1..Len(r) : r[k] = r[l] => k = l
<1>. DEFINE a == SubSeq(q, 1, i - 1)
            b == SubSeq(q, i + 1, Len(q))
            from(k) == IF k < i THEN k ELSE k + 1
<1>1. /\ a \in Seq(S) /\ b \in Seq(S)
      /\ Len(q) \in Nat /\ i \in Nat /\ Len(a) = i - 1 /\ Len(b) = Len(q) - i
  OBVIOUS
<1>2. /\ \A k \in 1..(i - 1) : a[k] = q[k]
      /\ \A k \in 1..(Len(q) - i) : b[k] = q[k + i]
  OBVIOUS
<1>3. r = a \o b
  BY DEF Without
<1>. HIDE DEF a, b
<1>4. /\ r \in Seq(S)
      /\ Len(r) = Len(a) + Len(b)
      /\ \A k \in 1..(Len(a) + Len(b)) :
            r[k] = IF k <= Len(a) THEN a[k] ELSE b[k - Len(a)]
  <2>1. /\ a \o b \in Seq(S) /\ Len(a \o b) = Len(a) + Len(b)
        /\ \A k \in 1..(Len(a) + Len(b)) :
              (a \o b)[k] = IF k <= Len(a) THEN a[k] ELSE b[k - Len(a)]
    BY <1>1, ConcatProperties, Zenon
  <2>. QED
    BY <1>3, <2>1, Zenon
<1>5. Len(a) + Len(b) = Len(q) - 1
  BY <1>1
<1>6. Len(r) = Len(q) - 1
  BY <1>4, <1>5
<1>7. ASSUME NEW k \in 1..Len(r)
      PROVE  from(k) \in 1..Len(q) /\ r[k] = q[from(k)]
  <2>1. k \in 1..(Len(q) - 1) /\ r[k] = IF k <= i - 1 THEN a[k] ELSE b[k - (i - 1)]
    BY <1>1, <1>4, <1>5, <1>6
  <2>2. CASE k < i
    BY <1>1, <1>2, <2>1, <2>2
  <2>3. CASE ~(k < i)
    <3>1. ~(k <= i - 1) /\ k - (i - 1) \in 1..(Len(q) - i) /\ (k - (i - 1)) + i = k + 1
      BY <1>1, <2>1, <2>3
    <3>. QED
      BY <1>1, <1>2, <2>1, <2>3, <3>1
  <2>. QED
    BY <2>2, <2>3
<1>8. \A k, l \in 1..Len(r) : from(k) = from(l) => k = l
  BY <1>1, <1>6
<1>9. \A k \in 1..Len(r) : r[k] = IF k < i THEN q[k] ELSE q[k + 1]
  BY <1>7
<1>. HIDE DEF from
<1>10. ASSUME \A k, l \in 1..Len(q) : q[k] = q[l] => k = l
       PROVE  \A k, l \in 1..Len(r) : r[k] = r[l] => k = l
  <2>1. SUFFICES ASSUME NEW k \in 1..Len(r), NEW l \in 1..Len(r), r[k] = r[l]
                 PROVE  k = l
    OBVIOUS
  <2>2. /\ from(k) \in 1..Len(q) /\ from(l) \in 1..Len(q)
        /\ q[from(k)] = q[from(l)]
    BY <1>7, <2>1
  <2>3. from(k) = from(l)
    BY <1>10, <2>2
  <2>. QED
    BY <1>8, <2>3
<1>. QED
  BY <1>4, <1>6, <1>9, <1>10

(* Taking a job off the queue by its id keeps every call that has another   *)
(* id, and takes off a call whose id is its own.                            *)
LEMMA SpliceLemma ==
    ASSUME TypeOK, Distinct, NEW j, Splice(j)
    PROVE  /\ queue' \in Seq(Calls)
           /\ Distinct'
           /\ Len(queue') <= Len(queue)
           /\ \A c \in Calls : Queued(c)' => Queued(c)
           /\ \A c \in Calls : Queued(c) /\ JobId[c] # j => Queued(c)'
           /\ \A c \in Calls : Unshared(c) /\ JobId[c] = j => ~Queued(c)'
<1>0. queue \in Seq(Calls)
  BY DEF TypeOK
<1>1. CASE \E i \in 1..Len(queue) :
          /\ IsFirst(j, i)
          /\ queue' = SubSeq(queue, 1, i - 1) \o SubSeq(queue, i + 1, Len(queue))
  <2>1. PICK i \in 1..Len(queue) :
          /\ IsFirst(j, i)
          /\ queue' = SubSeq(queue, 1, i - 1) \o SubSeq(queue, i + 1, Len(queue))
    BY <1>1
  <2>2. /\ queue' \in Seq(Calls)
        /\ Len(queue') = Len(queue) - 1
        /\ \A k \in 1..Len(queue') :
              queue'[k] = IF k < i THEN queue[k] ELSE queue[k + 1]
    <3>1. queue' = Without(queue, i)
      BY <2>1 DEF Without
    <3>. QED
      BY <1>0, <3>1, RemovalLemma
  <2>3. JobId[queue[i]] = j
    BY <2>1 DEF IsFirst
  <2>4. Distinct'
    <3>1. queue' = Without(queue, i)
      BY <2>1 DEF Without
    <3>2. \A k, l \in 1..Len(queue) : queue[k] = queue[l] => k = l
      BY DEF Distinct
    <3>3. \A k, l \in 1..Len(queue') : queue'[k] = queue'[l] => k = l
      BY <1>0, <3>1, <3>2, RemovalLemma
    <3>. QED
      BY <3>3 DEF Distinct
  <2>5. ASSUME NEW c \in Calls, Queued(c)'
        PROVE  Queued(c) /\ c # queue[i]
    BY <1>0, <2>2, <2>5 DEF Distinct, Queued
  <2>6. ASSUME NEW c \in Calls, Queued(c), JobId[c] # j
        PROVE  Queued(c)'
    <3>1. PICK k \in 1..Len(queue) : queue[k] = c
      BY <2>6 DEF Queued
    <3>2. CASE k < i
      BY <1>0, <2>2, <3>1, <3>2 DEF Queued
    <3>3. CASE k > i
      <4>1. k - 1 \in 1..Len(queue') /\ queue'[k - 1] = queue[k]
        BY <1>0, <2>2, <3>1, <3>3
      <4>. QED
        BY <4>1, <3>1 DEF Queued
    <3>. QED
      BY <1>0, <2>3, <2>6, <3>1, <3>2, <3>3
  <2>7. ASSUME NEW c \in Calls, Unshared(c), JobId[c] = j
        PROVE  ~Queued(c)'
    <3>1. queue[i] = c
      BY <1>0, <2>3, <2>7 DEF Unshared
    <3>. QED
      BY <2>5, <3>1
  <2>. QED
    BY <2>2, <2>4, <2>5, <2>6, <2>7, <1>0
<1>2. CASE /\ \A i \in 1..Len(queue) : JobId[queue[i]] # j
           /\ queue' = queue
  BY <1>0, <1>2 DEF Distinct, Queued
<1>. QED
  BY <1>1, <1>2 DEF Splice

(* Settling a job keeps the part of the invariant about queue and promises. *)
LEMMA SettleLemma ==
    ASSUME Inv, NEW c \in Calls, NEW outcome \in Settled,
           Settle(c, outcome), UNCHANGED cancelled
    PROVE  /\ queue' \in Seq(Calls)
           /\ promise' \in [Calls -> {"none", "pending", "refused"} \cup Settled]
           /\ Distinct' /\ Known' /\ NoLostJob' /\ QueueBound'
<1>. USE DEF Inv
<1>1. Splice(JobId[c])
  BY DEF Settle
<1>2. /\ queue' \in Seq(Calls)
      /\ Distinct'
      /\ Len(queue') <= Len(queue)
      /\ \A d \in Calls : Queued(d)' => Queued(d)
      /\ \A d \in Calls : Queued(d) /\ JobId[d] # JobId[c] => Queued(d)'
      /\ \A d \in Calls : Unshared(d) /\ JobId[d] = JobId[c] => ~Queued(d)'
  BY <1>1, SpliceLemma
<1>3. promise' = [promise EXCEPT
                    ![c] = IF @ = "pending" THEN outcome ELSE @]
  BY DEF Settle
<1>4. promise' \in [Calls -> {"none", "pending", "refused"} \cup Settled]
  BY <1>3 DEF TypeOK
<1>5. \A d \in Calls : promise'[d] \in {"none", "refused"}
                         <=> promise[d] \in {"none", "refused"}
  BY <1>3 DEF TypeOK, Settled
<1>6. Known'
  BY <1>2, <1>5 DEF Known
<1>7. NoLostJob'
  <2>1. SUFFICES ASSUME NEW d \in Calls, Unshared(d)
                 PROVE  Queued(d)' <=> promise'[d] = "pending" /\ d \notin cancelled
    BY DEF NoLostJob, Unshared
  <2>2. CASE d = c
    BY <1>2, <1>3, <2>1, <2>2 DEF TypeOK, Settled
  <2>3. CASE d # c
    <3>1. JobId[d] # JobId[c]
      BY <2>1, <2>3 DEF Unshared
    <3>. QED
      BY <1>2, <1>3, <2>1, <2>3, <3>1 DEF NoLostJob, TypeOK
  <2>. QED
    BY <2>2, <2>3
<1>8. QueueBound'
  BY <1>2, QueuerAssumption DEF QueueBound, TypeOK
<1>. QED
  BY <1>2, <1>4, <1>6, <1>7, <1>8

(* The activations of `reduce` stay well formed when one starts, goes on    *)
(* and ends.                                                                *)
PassState == [active : BOOLEAN, first : BOOLEAN, todo : Seq(Calls)]

(* What a pass does to the queue and the promise of the call it is at.      *)
LEMMA PassLemma ==
    ASSUME TypeOK, NEW p \in Passes
    PROVE  /\ \A first \in BOOLEAN :
                 StartPass(p, first) => passes' \in [Passes -> PassState]
           /\ InFlight(p) /\ Advance(p) => passes' \in [Passes -> PassState]
           /\ passes' = [passes EXCEPT ![p] = Idle]
                 => passes' \in [Passes -> PassState]
<1>0. passes \in [Passes -> PassState] /\ queue \in Seq(Calls)
  BY DEF TypeOK, PassState
<1>1. ASSUME NEW first \in BOOLEAN, StartPass(p, first)
      PROVE  passes' \in [Passes -> PassState]
  <2>1. [active |-> TRUE, first |-> first, todo |-> queue] \in PassState
    BY <1>0 DEF PassState
  <2>. QED
    BY <1>0, <1>1, <2>1 DEF StartPass
<1>2. ASSUME InFlight(p), Advance(p)
      PROVE  passes' \in [Passes -> PassState]
  <2>1. passes[p] \in PassState /\ passes[p].todo # <<>>
    BY <1>0, <1>2 DEF InFlight
  <2>2. Tail(passes[p].todo) \in Seq(Calls)
    BY <2>1 DEF PassState
  <2>3. [passes[p] EXCEPT !.todo = Tail(@)] \in PassState
    BY <2>1, <2>2 DEF PassState
  <2>4. passes' = [passes EXCEPT ![p] = [passes[p] EXCEPT !.todo = Tail(@)]]
    BY <1>0, <1>2 DEF Advance
  <2>. QED
    BY <1>0, <2>3, <2>4
<1>3. Idle \in PassState
  BY DEF Idle, PassState
<1>. QED
  BY <1>0, <1>1, <1>2, <1>3

-----------------------------------------------------------------------------
(* At first nothing is queued and no call is made.                          *)
LEMMA InitInv == Init => Inv
<1>. SUFFICES ASSUME Init PROVE Inv
  OBVIOUS
<1>1. TypeOK
  <2>1. Idle \in PassState
    BY DEF Idle, PassState
  <2>2. passes \in [Passes -> PassState]
    BY <2>1 DEF Init
  <2>3. queue \in Seq(Calls) /\ cancelled \subseteq Calls
        /\ stale \subseteq Calls
    BY DEF Init
  <2>4. promise \in [Calls -> {"none", "pending", "refused"} \cup Settled]
    BY DEF Init
  <2>5. /\ checks = 0 /\ checkHandle = "none" /\ cleans = 0 /\ cleanHandle = "none"
        /\ Named("none") = 0 /\ stopAt = 0
    BY DEF Init, Named
  <2>. QED
    BY <2>2, <2>3, <2>4, <2>5 DEF TypeOK, PassState
<1>2. ASSUME NEW c \in Calls
      PROVE  ~Queued(c) /\ promise[c] = "none" /\ c \notin cancelled
  <2>1. Len(queue) = 0
    BY DEF Init
  <2>2. promise[c] = "none" /\ c \notin cancelled
    BY DEF Init
  <2>. QED
    BY <2>1, <2>2 DEF Queued
<1>3. Distinct /\ QueueBound
  BY QueuerAssumption DEF Init, Distinct, QueueBound
<1>. QED
  BY <1>1, <1>2, <1>3 DEF Inv, Known, NoLostJob

(* No operation of the Queuer breaks Inv.                                   *)
LEMMA NextInv == Inv /\ [Next]_vars => Inv'
<1>. SUFFICES ASSUME Inv, [Next]_vars PROVE Inv'
  OBVIOUS
<1>. USE DEF Inv
<1>q. queue \in Seq(Calls) /\ Len(queue) \in Nat
  BY DEF TypeOK
<1>1. ASSUME NEW c \in Calls, Refuse(c) PROVE Inv'
  <2>1. TypeOK'
    BY <1>1 DEF Refuse, TypeOK, timers
  <2>2. ~Queued(c) /\ c \notin cancelled
    BY <1>1 DEF Refuse, Known, Queued
  <2>3. Known' /\ NoLostJob'
    BY <1>1, <1>q, <2>2 DEF Refuse, TypeOK, Known, NoLostJob, Queued, Unshared
  <2>. QED
    BY <1>1, <2>1, <2>3 DEF Refuse, Distinct, QueueBound
<1>2. ASSUME NEW c \in Calls, Call(c) PROVE Inv'
  <2>1. TypeOK'
    BY <1>2 DEF Call, TypeOK, timers
  <2>2. ~Queued(c) /\ c \notin cancelled
    BY <1>2 DEF Call, Known, Queued
  <2>3. /\ Len(queue') = Len(queue) + 1
        /\ \A i \in 1..Len(queue) : queue'[i] = queue[i]
        /\ queue'[Len(queue) + 1] = c
    BY <1>2, <1>q DEF Call
  <2>4. \A d \in Calls : Queued(d)' <=> Queued(d) \/ d = c
    BY <1>q, <2>3 DEF Queued
  <2>5. Distinct'
    BY <1>q, <2>2, <2>3 DEF Distinct, Queued
  <2>6. Known'
    BY <1>2, <2>4 DEF Call, Known, TypeOK
  <2>7. NoLostJob'
    BY <1>2, <2>2, <2>4 DEF Call, NoLostJob, Unshared, TypeOK
  <2>8. QueueBound'
    BY <1>2, <1>q, <2>3, QueuerAssumption DEF Call, QueueBound
  <2>. QED
    BY <2>1, <2>5, <2>6, <2>7, <2>8
<1>3. ASSUME NEW c \in Calls, Age(c) PROVE Inv'
  <2>1. TypeOK'
    BY <1>3 DEF Age, TypeOK, timers
  <2>2. Distinct' /\ QueueBound'
    BY <1>3 DEF Age, Distinct, QueueBound
  <2>3. Known' /\ NoLostJob'
    BY <1>3 DEF Age, TypeOK, Known, NoLostJob, Queued, Unshared
  <2> QED
    BY <2>1, <2>2, <2>3
<1>4. ASSUME NEW j \in Jobs, Cancel(j) PROVE Inv'
  <2>1. Splice(j)
    BY <1>4 DEF Cancel
  <2>2. /\ queue' \in Seq(Calls)
        /\ Distinct'
        /\ Len(queue') <= Len(queue)
        /\ \A d \in Calls : Queued(d)' => Queued(d)
        /\ \A d \in Calls : Queued(d) /\ JobId[d] # j => Queued(d)'
        /\ \A d \in Calls : Unshared(d) /\ JobId[d] = j => ~Queued(d)'
    BY <2>1, SpliceLemma
  <2>3. TypeOK'
    BY <1>4, <2>2 DEF Cancel, TypeOK, timers
  <2>4. \A d \in cancelled' : d \in cancelled \/ (Queued(d) /\ JobId[d] = j)
    BY <1>4 DEF Cancel, IsFirst, Queued
  <2>5. Known'
    BY <1>4, <2>2, <2>4 DEF Known, Cancel
  <2>6. ASSUME NEW d \in Calls, Unshared(d), Queued(d), JobId[d] = j
        PROVE  d \in cancelled'
    <3>1. PICK i \in 1..Len(queue) : queue[i] = d
      BY <2>6 DEF Queued
    <3>2. IsFirst(j, i)
      <4>1. ASSUME NEW k \in 1..(i - 1) PROVE JobId[queue[k]] # j
        <5>1. k \in 1..Len(queue) /\ k # i /\ queue[k] \in Calls
          BY <1>q
        <5>. QED
          BY <2>6, <3>1, <5>1 DEF Unshared, Distinct
      <4>. QED
        BY <2>6, <3>1, <4>1 DEF IsFirst
    <3>. QED
      BY <1>4, <3>1, <3>2 DEF Cancel
  <2>7. NoLostJob'
    <3>1. SUFFICES ASSUME NEW d \in Calls, Unshared(d)
                   PROVE  Queued(d)' <=> promise'[d] = "pending" /\ d \notin cancelled'
      BY DEF NoLostJob, Unshared
    <3>2. promise' = promise /\ cancelled \subseteq cancelled'
      BY <1>4 DEF Cancel
    <3>3. CASE JobId[d] = j
      BY <2>2, <2>6, <3>1, <3>2, <3>3 DEF NoLostJob
    <3>4. CASE JobId[d] # j
      BY <2>2, <2>4, <3>1, <3>2, <3>4 DEF NoLostJob
    <3>. QED
      BY <3>3, <3>4
  <2>8. QueueBound'
    BY <1>q, <2>2, QueuerAssumption DEF QueueBound
  <2>. QED
    BY <2>2, <2>3, <2>5, <2>7, <2>8
<1>5. ASSUME NEW p \in Passes, Check(p) \/ Tick(p) PROVE Inv'
  <2>0. passes' \in [Passes -> PassState]
    BY <1>5, PassLemma DEF Check, Tick
  <2>1. TypeOK'
    BY <1>5, <2>0 DEF Check, Tick, TypeOK, PassState, timers
  <2>. QED
    BY <1>5, <2>1 DEF Check, Tick, Distinct, Known, NoLostJob, QueueBound,
                      Queued, Unshared
<1>6. ASSUME NEW p \in Passes, Answer(p) PROVE Inv'
  <2>1. Head(passes[p].todo) \in Calls
    BY <1>6 DEF Answer, InFlight, TypeOK
  <2>2. PICK outcome \in Settled : Settle(Head(passes[p].todo), outcome)
    BY <1>6 DEF Answer
  <2>3. /\ queue' \in Seq(Calls)
        /\ promise' \in [Calls -> {"none", "pending", "refused"} \cup Settled]
        /\ Distinct' /\ Known' /\ NoLostJob' /\ QueueBound'
    BY <1>6, <2>1, <2>2, SettleLemma DEF Answer
  <2>4. passes' \in [Passes -> PassState]
    BY <1>6, PassLemma DEF Answer
  <2>5. TypeOK'
    BY <1>6, <2>3, <2>4 DEF Answer, TypeOK, PassState, timers
  <2>. QED
    BY <2>3, <2>5
<1>7. ASSUME NEW p \in Passes, Incapable(p) PROVE Inv'
  <2>1. passes' \in [Passes -> PassState]
    BY <1>7, PassLemma DEF Incapable
  <2>. QED
    BY <1>7, <2>1 DEF Incapable, TypeOK, PassState, Distinct, Known, NoLostJob,
                      QueueBound, Queued, Unshared, timers
<1>8. ASSUME NEW p \in Passes, EndPass(p) PROVE Inv'
  <2>0. passes' \in [Passes -> PassState]
    BY <1>8, PassLemma DEF EndPass
  <2>1. TypeOK'
    <3>1. CASE passes[p].first
      <4>1. checks' \in Nat /\ checks' > 0 /\ checkHandle' = "live"
        BY <1>8, <3>1 DEF EndPass, TypeOK
      <4>. QED
        BY <1>8, <2>0, <4>1 DEF EndPass, TypeOK, PassState, Named
    <3>2. CASE ~passes[p].first
      BY <1>8, <2>0, <3>2 DEF EndPass, TypeOK, PassState
    <3>. QED
      BY <3>1, <3>2
  <2>. QED
    BY <1>8, <2>1 DEF EndPass, Distinct, Known, NoLostJob, QueueBound, Queued,
                      Unshared
<1>9. ASSUME Clean PROVE Inv'
  <2>1. PICK n \in 0..Len(queue) :
          /\ \A i \in 1..Len(queue) : i <= n <=> queue[i] \in stale
          /\ queue' = SubSeq(queue, n + 1, Len(queue))
    BY <1>9 DEF Clean, DropStale
  <2>2. /\ queue' \in Seq(Calls)
        /\ Len(queue') = Len(queue) - n
        /\ \A i \in 1..(Len(queue) - n) : queue'[i] = queue[i + n]
    BY <1>q, <2>1
  <2>3. TypeOK'
    BY <1>9, <2>2 DEF Clean, TypeOK, Settled, timers
  <2>4. \A c \in Calls : Queued(c)' <=> Queued(c) /\ c \notin stale
    <3>1. ASSUME NEW c \in Calls, Queued(c)'
          PROVE  Queued(c) /\ c \notin stale
      <4>1. PICK i \in 1..Len(queue') : queue'[i] = c
        BY <3>1 DEF Queued
      <4>2. i + n \in 1..Len(queue) /\ ~(i + n <= n) /\ queue[i + n] = c
        BY <1>q, <2>2, <4>1
      <4>. QED
        BY <2>1, <4>2 DEF Queued
    <3>2. ASSUME NEW c \in Calls, Queued(c), c \notin stale
          PROVE  Queued(c)'
      <4>1. PICK i \in 1..Len(queue) : queue[i] = c
        BY <3>2 DEF Queued
      <4>2. ~(i <= n)
        BY <2>1, <3>2, <4>1
      <4>3. i - n \in 1..Len(queue') /\ (i - n) + n = i
        BY <1>q, <2>2, <4>2
      <4>. QED
        BY <2>2, <4>1, <4>3 DEF Queued
    <3>. QED
      BY <3>1, <3>2
  <2>5. Distinct'
    BY <1>q, <2>2 DEF Distinct
  <2>6. \A c \in Calls : promise'[c] = IF promise[c] = "pending" /\ c \in stale /\ Queued(c)
                                           THEN "rejected" ELSE promise[c]
    BY <1>9 DEF Clean
  <2>7. NoLostJob'
    BY <1>9, <2>4, <2>6 DEF Clean, NoLostJob, Unshared
  <2>8. Known'
    BY <1>9, <2>4, <2>6 DEF Clean, Known
  <2>9. QueueBound'
    BY <1>q, <2>2, QueuerAssumption DEF QueueBound
  <2>. QED
    BY <2>3, <2>5, <2>7, <2>8, <2>9
<1>10. ASSUME Start \/ Stop \/ StopEnd PROVE Inv'
  <2>1. TypeOK'
    <3>1. CASE Start
      <4>1. /\ cleans' \in Nat /\ cleanHandle' = "live"
            /\ Named(cleanHandle') <= cleans'
        BY <3>1 DEF Start, TypeOK, Named
      <4>. QED
        BY <3>1, <4>1, Zenon DEF Start, TypeOK
    <3>2. CASE Stop
      <4>1. /\ cleans' \in Nat /\ checks' \in Nat
            /\ Cleared(cleanHandle) \in {"none", "dead"}
            /\ Cleared(checkHandle) \in {"none", "dead"}
            /\ Cleared(cleanHandle) = "none" <=> cleanHandle = "none"
            /\ Cleared(checkHandle) = "none" <=> checkHandle = "none"
            /\ cleans' <= cleans /\ checks' <= checks
        BY <3>2 DEF Stop, TypeOK, Named, Cleared
      <4>2. /\ Named(cleanHandle') = 0 /\ Named(checkHandle') = 0
        BY <3>2, <4>1 DEF Stop, Named
      <4>3. /\ cleans' > 0 => cleanHandle' # "none"
            /\ checks' > 0 => checkHandle' # "none"
        BY <3>2, <4>1 DEF Stop, TypeOK
      <4>4. /\ queue' \in Seq(Calls) /\ stopAt' \in Nat
            /\ UNCHANGED <<queue, promise, cancelled, stale, passes>>
        BY <3>2 DEF Stop, TypeOK
      <4>. QED
        BY <3>2, <4>1, <4>2, <4>3, <4>4 DEF Stop, TypeOK
    <3>3. CASE StopEnd
      BY <3>3 DEF StopEnd, TypeOK, timers
    <3>. QED
      BY <1>10, <3>1, <3>2, <3>3
  <2>. QED
    BY <1>10, <2>1 DEF Start, Stop, StopEnd, Distinct, Known, NoLostJob,
                       QueueBound, Queued, Unshared
<1>11. ASSUME StopNext PROVE Inv'
  <2>1. queue[stopAt] \in Calls /\ Settle(queue[stopAt], "rejected")
    BY <1>11, <1>q DEF StopNext
  <2>2. /\ queue' \in Seq(Calls)
        /\ promise' \in [Calls -> {"none", "pending", "refused"} \cup Settled]
        /\ Distinct' /\ Known' /\ NoLostJob' /\ QueueBound'
    BY <1>11, <2>1, SettleLemma DEF StopNext, Settled
  <2>3. TypeOK'
    BY <1>11, <2>2 DEF StopNext, TypeOK, timers
  <2>. QED
    BY <2>2, <2>3
<1>12. ASSUME UNCHANGED vars PROVE Inv'
  BY <1>12 DEF vars, timers, TypeOK, Distinct, Known, NoLostJob, QueueBound,
               Queued, Unshared
<1>. QED
  BY <1>1, <1>2, <1>3, <1>4, <1>5, <1>6, <1>7, <1>8, <1>9, <1>10, <1>11, <1>12
     DEF Next

(* The invariant holds in every reachable state.                            *)
LEMMA Invariance == Spec => []Inv
BY InitInv, NextInv, PTL DEF Spec

(* The fields of the Queuer, its jobs and its timers stay well formed; in   *)
(* particular an interval that a field still names (Queuer.ts:213) is among *)
(* those that are alive, and none is that no field ever named.              *)
THEOREM TypeCorrect == Spec => []TypeOK
BY Invariance, PTL DEF Inv

(* However passes, timers, cancellations and `stop` interleave, a call with *)
(* a job id of its own is queued exactly while it is outstanding.           *)
THEOREM NoJobIsLost == Spec => []NoLostJob
BY Invariance, PTL DEF Inv

(* The queue never exceeds the configured length.                           *)
THEOREM QueueIsBounded == Spec => []QueueBound
BY Invariance, PTL DEF Inv

-----------------------------------------------------------------------------
(* The first n jobs of the queue are its stale ones.                        *)
StaleAre(n) == \A i \in 1..Len(queue) : i <= n <=> queue[i] \in stale

StaleFirst == \E n \in 0..Len(queue) : StaleAre(n)

(* Only calls that were made and accepted grow stale.                       *)
StaleKnown == \A c \in stale : promise[c] \notin {"none", "refused"}

DateInv == StaleFirst /\ StaleKnown

(* Taking off the first job with an id moves those behind it up by one.     *)
LEMMA SpliceMoves ==
    ASSUME TypeOK, NEW j, Splice(j)
    PROVE  \/ queue' = queue
           \/ \E i \in 1..Len(queue) :
                 /\ IsFirst(j, i) /\ Len(queue') = Len(queue) - 1
                 /\ \A k \in 1..Len(queue') :
                       queue'[k] = IF k < i THEN queue[k] ELSE queue[k + 1]
<1>1. queue \in Seq(Calls)
  BY DEF TypeOK
<1>2. ASSUME NEW i \in 1..Len(queue), IsFirst(j, i),
             queue' = SubSeq(queue, 1, i - 1) \o SubSeq(queue, i + 1, Len(queue))
      PROVE  /\ Len(queue') = Len(queue) - 1
             /\ \A k \in 1..Len(queue') :
                   queue'[k] = IF k < i THEN queue[k] ELSE queue[k + 1]
  <2>1. queue' = Without(queue, i)
    BY <1>2 DEF Without
  <2>. QED
    BY <1>1, <2>1, RemovalLemma
<1>. QED
  BY <1>2 DEF Splice

(* ... and leaves the stale jobs in front.                                  *)
LEMMA SpliceStale ==
    ASSUME TypeOK, StaleFirst, NEW j, Splice(j), stale' = stale
    PROVE  StaleFirst'
<1>1. queue \in Seq(Calls) /\ Len(queue) \in Nat
  BY DEF TypeOK
<1>2. CASE queue' = queue
  BY <1>2 DEF StaleFirst, StaleAre
<1>3. ASSUME NEW i \in 1..Len(queue), Len(queue') = Len(queue) - 1,
             \A k \in 1..Len(queue') :
                queue'[k] = IF k < i THEN queue[k] ELSE queue[k + 1]
      PROVE  StaleFirst'
  <2>1. PICK n \in 0..Len(queue) : StaleAre(n)
    BY DEF StaleFirst
  <2>2. PICK m \in 0..Len(queue') : m = IF i <= n THEN n - 1 ELSE n
    BY <1>1, <1>3, <2>1
  <2>3. ASSUME NEW k \in 1..Len(queue')
        PROVE  k <= m <=> queue'[k] \in stale
    <3>1. k \in 1..Len(queue) /\ k + 1 \in 1..Len(queue)
      BY <1>1, <1>3
    <3>2. (k <= n <=> queue[k] \in stale) /\ (k + 1 <= n <=> queue[k + 1] \in stale)
      BY <2>1, <3>1 DEF StaleAre
    <3>3. queue'[k] = IF k < i THEN queue[k] ELSE queue[k + 1]
      BY <1>3
    <3>4. CASE k < i
      BY <2>2, <3>2, <3>3, <3>4
    <3>5. CASE ~(k < i)
      BY <2>2, <3>2, <3>3, <3>5
    <3>. QED
      BY <3>4, <3>5
  <2>. QED
    BY <2>2, <2>3 DEF StaleFirst, StaleAre
<1>. QED
  BY <1>2, <1>3, SpliceMoves

LEMMA DateNext == Inv /\ DateInv /\ [Next]_vars => DateInv'
<1>. SUFFICES ASSUME Inv, StaleFirst, StaleKnown, [Next]_vars PROVE DateInv'
  BY DEF DateInv
<1>1. /\ TypeOK /\ queue \in Seq(Calls) /\ Len(queue) \in Nat
      /\ promise \in [Calls -> {"none", "pending", "refused"} \cup Settled]
      /\ stale \subseteq Calls
  BY DEF Inv, TypeOK
<1>2. CASE queue' = queue /\ stale' = stale /\ promise' = promise
  BY <1>2 DEF DateInv, StaleFirst, StaleAre, StaleKnown
<1>3. ASSUME NEW c \in Calls, Refuse(c) PROVE DateInv'
  BY <1>1, <1>3 DEF Refuse, DateInv, StaleFirst, StaleAre, StaleKnown
<1>4. ASSUME NEW c \in Calls, Call(c) PROVE DateInv'
  <2>1. c \notin stale /\ stale' = stale
    BY <1>4 DEF Call, StaleKnown
  <2>2. /\ Len(queue') = Len(queue) + 1
        /\ \A i \in 1..Len(queue) : queue'[i] = queue[i]
        /\ queue'[Len(queue) + 1] = c
    BY <1>1, <1>4 DEF Call
  <2>3. StaleKnown'
    BY <1>1, <1>4, <2>1 DEF Call, StaleKnown
  <2>4. PICK n \in 0..Len(queue) : StaleAre(n)
    BY DEF StaleFirst
  <2>5. ASSUME NEW i \in 1..Len(queue')
        PROVE  i <= n <=> queue'[i] \in stale
    <3>1. CASE i = Len(queue) + 1
      BY <1>1, <2>1, <2>2, <3>1
    <3>2. CASE i # Len(queue) + 1
      <4>1. i \in 1..Len(queue) /\ queue'[i] = queue[i]
        BY <1>1, <2>2, <3>2
      <4>. QED
        BY <2>4, <4>1 DEF StaleAre
    <3>. QED
      BY <3>1, <3>2
  <2>6. n \in 0..Len(queue')
    BY <1>1, <2>2
  <2>. QED
    BY <2>1, <2>3, <2>5, <2>6 DEF DateInv, StaleFirst, StaleAre
<1>5. ASSUME NEW c \in Calls, Age(c) PROVE DateInv'
  <2>1. PICK n \in 0..Len(queue) : StaleAre(n)
    BY DEF StaleFirst
  <2>2. PICK i \in 1..Len(queue) :
           queue[i] = c /\ \A k \in 1..(i - 1) : queue[k] \in stale
    BY <1>5 DEF Age
  <2>3. /\ queue' = queue /\ promise' = promise
        /\ stale' = stale \cup {c} /\ c \notin stale
    BY <1>5 DEF Age
  <2>4. ~(i <= n)
    BY <2>1, <2>2, <2>3 DEF StaleAre
  <2>5. \A k \in 1..(i - 1) : k <= n
    BY <1>1, <2>1, <2>2 DEF StaleAre
  <2>6. i = n + 1
    BY <1>1, <2>4, <2>5
  <2>7. ASSUME NEW k \in 1..Len(queue)
        PROVE  k <= n + 1 <=> queue[k] \in stale'
    <3>1. CASE k = i
      BY <2>2, <2>3, <2>6, <3>1
    <3>2. CASE k # i
      <4>1. k <= n + 1 <=> k <= n
        BY <2>6, <3>2
      <4>2. queue[k] # c
        BY <2>2, <3>2 DEF Inv, Distinct
      <4>. QED
        BY <2>1, <2>3, <4>1, <4>2 DEF StaleAre
    <3>. QED
      BY <3>1, <3>2
  <2>8. n + 1 \in 0..Len(queue)
    BY <1>1, <2>6
  <2>9. StaleFirst'
    BY <2>3, <2>7, <2>8 DEF StaleFirst, StaleAre
  <2>10. StaleKnown'
    BY <2>2, <2>3 DEF Inv, Known, Queued, StaleKnown
  <2>. QED
    BY <2>9, <2>10 DEF DateInv
<1>6. ASSUME NEW j \in Jobs, Cancel(j) PROVE DateInv'
  <2>1. Splice(j) /\ stale' = stale /\ promise' = promise
    BY <1>6 DEF Cancel
  <2>. QED
    BY <1>1, <2>1, SpliceStale DEF DateInv, StaleKnown
<1>7. ASSUME NEW c \in Calls, NEW outcome \in Settled, Settle(c, outcome),
             stale' = stale
      PROVE  DateInv'
  <2>1. Splice(JobId[c])
    BY <1>7 DEF Settle
  <2>2. StaleKnown'
    BY <1>1, <1>7 DEF Settle, StaleKnown, Settled
  <2>. QED
    BY <1>1, <1>7, <2>1, <2>2, SpliceStale DEF DateInv
<1>8. ASSUME NEW p \in Passes, Answer(p) PROVE DateInv'
  <2>1. Head(passes[p].todo) \in Calls
    BY <1>8 DEF Answer, InFlight, Inv, TypeOK
  <2>. QED
    BY <1>7, <1>8, <2>1 DEF Answer
<1>9. CASE StopNext
  BY <1>1, <1>7, <1>9 DEF StopNext, Settled
<1>10. CASE Clean
  <2>1. PICK n \in 0..Len(queue) :
          /\ \A i \in 1..Len(queue) : i <= n <=> queue[i] \in stale
          /\ queue' = SubSeq(queue, n + 1, Len(queue))
    BY <1>10 DEF Clean, DropStale
  <2>2. /\ Len(queue') = Len(queue) - n
        /\ \A i \in 1..(Len(queue) - n) : queue'[i] = queue[i + n]
    BY <1>1, <2>1
  <2>3. stale' = stale
    BY <1>10 DEF Clean
  <2>4. ASSUME NEW i \in 1..Len(queue')
        PROVE  i <= 0 <=> queue'[i] \in stale
    <3>1. i + n \in 1..Len(queue) /\ ~(i + n <= n) /\ ~(i <= 0)
      BY <1>1, <2>2
    <3>. QED
      BY <2>1, <2>2, <3>1
  <2>5. 0 \in 0..Len(queue')
    BY <1>1, <2>2
  <2>6. StaleFirst'
    BY <2>3, <2>4, <2>5 DEF StaleFirst, StaleAre
  <2>7. StaleKnown'
    BY <1>1, <1>10 DEF Clean, StaleKnown
  <2>. QED
    BY <2>6, <2>7 DEF DateInv
<1>. QED
  BY <1>2, <1>3, <1>4, <1>5, <1>6, <1>8, <1>9, <1>10
     DEF Next, Check, Tick, Incapable, EndPass, Start, Stop, StopEnd, vars

LEMMA DateInit == Init => DateInv
<1>. SUFFICES ASSUME Init PROVE DateInv
  OBVIOUS
<1>1. queue = <<>> /\ stale = {} /\ Len(queue) = 0
  BY DEF Init
<1>. QED
  BY <1>1 DEF DateInv, StaleFirst, StaleAre, StaleKnown

(* `clean` (Queuer.ts:187) always finds the stale jobs at the front of the  *)
(* queue, whatever was put on it and taken off it since: so those that it   *)
(* takes off are the ones it rejects, and it never has to wait.             *)
THEOREM StaleComeFirst == Spec => []StaleFirst
BY DateInit, DateNext, Invariance, PTL DEF Spec, DateInv

(* `stop` (Queuer.ts:209) goes on to the next index of an array that its    *)
(* own rejection has just shortened: the job behind the one it rejects,     *)
(* unless jobs share an id, takes that one's place and is passed over.  Of  *)
(* the jobs on the queue only every other one is rejected.                  *)
THEOREM StopPassesOver ==
    Spec => [][StopNext /\ Unshared(queue[stopAt]) =>
                  /\ Len(queue') = Len(queue) - 1
                  /\ stopAt' = stopAt + 1
                  /\ \A k \in 1..Len(queue') :
                        queue'[k] = queue[IF k < stopAt THEN k ELSE k + 1]]_vars
<1>1. TypeOK /\ Distinct /\ [Next]_vars =>
         [StopNext /\ Unshared(queue[stopAt]) =>
             /\ Len(queue') = Len(queue) - 1
             /\ stopAt' = stopAt + 1
             /\ \A k \in 1..Len(queue') :
                   queue'[k] = queue[IF k < stopAt THEN k ELSE k + 1]]_vars
  <2>. SUFFICES ASSUME TypeOK, Distinct, StopNext, Unshared(queue[stopAt])
                PROVE  /\ Len(queue') = Len(queue) - 1
                       /\ stopAt' = stopAt + 1
                       /\ \A k \in 1..Len(queue') :
                             queue'[k] = queue[IF k < stopAt THEN k ELSE k + 1]
    OBVIOUS
  <2>1. /\ stopAt \in 1..Len(queue) /\ stopAt' = stopAt + 1
        /\ Splice(JobId[queue[stopAt]])
    BY DEF StopNext, Settle
  <2>2. queue \in Seq(Calls)
    BY DEF TypeOK
  <2>3. \A i \in 1..Len(queue) : IsFirst(JobId[queue[stopAt]], i) => i = stopAt
    BY <2>1, <2>2 DEF IsFirst, Unshared, Distinct
  <2>4. ~ \A i \in 1..Len(queue) : JobId[queue[i]] # JobId[queue[stopAt]]
    BY <2>1
  <2>5. PICK i \in 1..Len(queue) :
           /\ IsFirst(JobId[queue[stopAt]], i)
           /\ queue' = SubSeq(queue, 1, i - 1) \o SubSeq(queue, i + 1, Len(queue))
    BY <2>1, <2>4 DEF Splice
  <2>6. queue' = Without(queue, stopAt)
    BY <2>3, <2>5 DEF Without
  <2>7. /\ Len(queue') = Len(queue) - 1
        /\ \A k \in 1..Len(queue') :
              queue'[k] = IF k < stopAt THEN queue[k] ELSE queue[k + 1]
    <3>1. stopAt \in 1..Len(queue)
      BY <2>1
    <3>2. \A q \in Seq(Calls) : \A n \in 1..Len(q) : \A r : r = Without(q, n) =>
             /\ Len(r) = Len(q) - 1
             /\ \A k \in 1..Len(r) : r[k] = IF k < n THEN q[k] ELSE q[k + 1]
      BY RemovalLemma
    <3>. QED
      BY <2>2, <2>6, <3>1, <3>2, Zenon
  <2>8. \A k \in 1..Len(queue') :
           queue'[k] = queue[IF k < stopAt THEN k ELSE k + 1]
    BY <2>7
  <2>. QED
    BY <2>1, <2>7, <2>8
<1>. QED
  BY <1>1, Invariance, PTL DEF Spec, Inv
=============================================================================
