-------------------------- MODULE DelegatorProofs ---------------------------
(***************************************************************************)
(* Proofs about Delegator, for any peers, calls and manifests.  The        *)
(* inductive invariant Inv says of suspended calls and cancellations what  *)
(* still holds of the peer they work with when they go on.  The last part  *)
(* proves that Delegator implements Delegation.                            *)
(***************************************************************************)
EXTENDS Delegator, SequenceTheorems, TLAPS

Trying == {"fetching", "judging", "connecting", "stopping", "connected",
           "calling"}

(* Who tries a peer, or has been rejected by it, has that peer in `todo`.   *)
HasPeer == \A a \in Activities :
    at[a].pc \in Trying \cup {"rejected"} => todo[a] # <<>>

(* Only fetches and calls wait for a client.                                *)
Waits ==
    /\ \A a \in Activities : at[a].via # 0 => at[a].pc \in {"fetching", "calling"}
    /\ \A p \in Peers : reconnect[p].via # 0 => reconnect[p].pc = "fetching"

Made == {p \in Peers : reconnect[p].pc # "none"}

(* Peers are made before they are listed, tried or noted for a job.         *)
Known ==
    /\ \A i \in 1..Len(peers) : peers[i] \in Made
    /\ \A a \in Activities : \A i \in 1..Len(todo[a]) : todo[a][i] \in Made
    /\ \A j \in Jobs : jobs[j] # None => jobs[j] \in Made
    /\ \A p \in Peers \ Made : manifest[p] = None

(* A peer has a manifest or a client to get one from.                       *)
Startable == \A p \in Made : manifest[p] # None \/ client[p] # 0

(* A peer that a job was passed to, or will be, has a client for good.      *)
HasClient ==
    /\ \A c \in Calls : at[c].pc = "connected" => client[Peer(c)] # 0
    /\ \A j \in Jobs : jobs[j] # None => client[jobs[j]] # 0
    /\ \A j \in Cancels : todo[j] # <<>> => client[Peer(j)] # 0

(* A cancellation has at most one peer to ask.                              *)
AskOne == \A j \in Cancels : Len(todo[j]) <= 1

(* A cancellation has found a peer only if its job was passed to it.        *)
CancelsAfterCalls ==
    \A c \in Calls :
       Unshared(c) /\ JobId[c] \in Cancels /\ todo[JobId[c]] # <<>>
         => /\ at[c].pc \in {"calling", "resolved", "rejected"}
            /\ Peer(JobId[c]) = Peer(c)

(* The manifests that those at work have, or will get, are the current one. *)
ManifestsCurrent ==
    /\ \A a \in Activities :
          at[a].pc = "judging" /\ Peer(a) \notin overtaken
            => at[a].with = manifest[Peer(a)]
    /\ \A a \in Activities : at[a].pc = "judging" => at[a].with # None
    /\ \A a \in Activities :
          at[a].pc = "fetching" /\ Peer(a) \notin overtaken
            => manifest[Peer(a)] \in {None, Remote[Peer(a)]}
    /\ \A p \in Peers \ overtaken :
          reconnect[p].pc = "fetching" => manifest[p] \in {None, Remote[p]}

Inv == /\ TypeOK /\ HasPeer /\ Waits /\ Known /\ Startable /\ HasClient
       /\ AskOne /\ JobsTrackCalls /\ CancelsAfterCalls /\ AlwaysConnected
       /\ ManifestsCurrent /\ ValidatorsCurrent
-----------------------------------------------------------------------------
(* What the records that say where someone is are made of.                  *)
LEMMA WhereFacts ==
    ASSUME NEW S, NEW pc \in S,
           NEW with \in Manifests \cup {None}, NEW via \in {0} \cup Clients
    PROVE  /\ At(pc, with, via) \in Where(S) /\ Here(pc) \in Where(S)
           /\ At(pc, with, via).pc = pc /\ At(pc, with, via).with = with
           /\ At(pc, with, via).via = via
           /\ Here(pc).pc = pc /\ Here(pc).with = None /\ Here(pc).via = 0
BY DEF At, Here, Where

(* The method that an activity calls is one.                                *)
LEMMA MethodFacts ==
    ASSUME NEW a \in Activities PROVE Method(a) \in Methods
BY DEF Activities, Method, Methods

(* Calls and cancellations are different activities, clients are numbered   *)
(* from 1.                                                                  *)
LEMMA ActivityFacts ==
    /\ \A c \in Calls : c \in Activities /\ c \notin Cancels /\ JobId[c] \in Jobs
    /\ \A j \in Cancels : j \in Activities /\ j \notin Calls /\ j \in Jobs
    /\ 0 \notin Clients
    /\ None \notin Peers /\ None \notin Manifests
    /\ \A p \in Peers : Remote[p] \in Manifests
BY DelegatorAssumption DEF Activities, Clients

(* Nothing is known, made or called at first.                               *)
LEMMA InitInv == Init => Inv
<1>. SUFFICES ASSUME Init PROVE Inv
  OBVIOUS
<1>. USE DelegatorAssumption, ActivityFacts DEF Init
<1>1. /\ peers \in Seq(Peers)
      /\ \A i, k \in 1..Len(peers) : peers[i] = peers[k] => i = k
      /\ todo \in [Activities -> Seq(Peers)]
  OBVIOUS
<1>2. /\ jobs \in [Jobs -> Peers \cup {None}]
      /\ kind \in [Clients -> Types \cup {None}]
      /\ client \in [Peers -> {0} \cup Clients]
      /\ manifest \in [Peers -> Manifests \cup {None}]
  OBVIOUS
<1>3. validators \in [Peers -> [Methods -> Manifests \cup {None}]]
  OBVIOUS
<1>4. /\ reconnect \in [Peers -> Where(ReconnectPcs)]
      /\ at \in [Activities -> Where(AtPcs)]
  BY DEF Where, Here, At, AtPcs, ReconnectPcs
<1>5. overtaken \subseteq Peers /\ updates \in 0..MaxUpdates
  OBVIOUS
<1>6. TypeOK
  BY <1>1, <1>2, <1>3, <1>4, <1>5 DEF TypeOK, AtPcs, ReconnectPcs
<1>7. /\ \A a \in Activities : at[a].pc = "idle" /\ at[a].via = 0 /\ todo[a] = <<>>
      /\ \A p \in Peers : reconnect[p].pc = "none" /\ reconnect[p].via = 0
  BY DEF Here, At
<1>8. HasPeer /\ Waits /\ Known /\ Startable /\ HasClient /\ AskOne
  BY <1>7 DEF HasPeer, Waits, Known, Startable, HasClient, AskOne, Made, Trying
<1>9. JobsTrackCalls /\ CancelsAfterCalls /\ AlwaysConnected
  BY <1>7 DEF JobsTrackCalls, CancelsAfterCalls, AlwaysConnected
<1>10. ManifestsCurrent /\ ValidatorsCurrent
  BY <1>7 DEF ManifestsCurrent, ValidatorsCurrent
<1>. QED
  BY <1>6, <1>8, <1>9, <1>10 DEF Inv

-----------------------------------------------------------------------------
(* What stopping clients does to one who awaits the answer of one.          *)
Dropped(s, r) ==
    \/ r = s
    \/ s.pc = "fetching" /\ r = Here("failed")
    \/ s.pc = "calling" /\ r = Here("rejected")

(* Only those who await the answer of a client are rejected.                *)
LEMMA RejectedFacts ==
    ASSUME NEW K \in SUBSET Clients, NEW s,
           s.via # 0 => s.pc \in {"fetching", "calling"}
    PROVE  Dropped(s, Rejected(K, s))
BY ActivityFacts DEF Dropped, Rejected

(* Those who lose an answer, and the clients that reject, among others.     *)
LEMMA LossFacts ==
    ASSUME NEW K
    PROVE  /\ Waiting(K) \subseteq Activities \cup Peers
           /\ K \in SUBSET Clients => Rejecting(K) \in SUBSET Clients
BY DEF Waiting, Rejecting

(* A reconnection that goes on, or fails, after its manifest was fetched.   *)
Further(p) ==
    \/ reconnect'[p] = reconnect[p]
    \/ /\ reconnect[p].pc # "none" /\ reconnect'[p].pc \notin {"none", "fetching"}
       /\ reconnect'[p].via = 0

(* Everything said of calls and cancellations survives both.                *)
LEMMA DroppedInv ==
    ASSUME Inv, at' \in [Activities -> Where(AtPcs)],
           reconnect' \in [Peers -> Where(ReconnectPcs)],
           \A a \in Activities : Dropped(at[a], at'[a]),
           \A p \in Peers : Further(p),
           UNCHANGED <<peers, jobs, peer, todo, overtaken, updates>>,
           lost' \subseteq Activities \cup Peers
    PROVE  Inv'
<1>. USE ActivityFacts DEF peer, history
<1>1. \A a \in Activities :
         \/ at'[a] = at[a]
         \/ /\ at'[a].with = None /\ at'[a].via = 0
            /\ \/ at[a].pc = "fetching" /\ at'[a].pc = "failed"
               \/ at[a].pc = "calling" /\ at'[a].pc = "rejected"
  BY DEF Dropped, Here, At
<1>2. TypeOK'
  BY DEF Inv, TypeOK
<1>3. HasPeer' /\ HasClient' /\ AskOne'
  BY <1>1 DEF Inv, HasPeer, HasClient, AskOne, Trying, Peer
<1>4. Waits'
  BY <1>1 DEF Inv, Waits, Further
<1>5. Known' /\ Startable'
  <2>1. Made' = Made
    BY DEF Made, Further
  <2>. QED
    BY <2>1 DEF Inv, Known, Startable
<1>6. JobsTrackCalls' /\ CancelsAfterCalls' /\ AlwaysConnected'
  BY <1>1 DEF Inv, JobsTrackCalls, CancelsAfterCalls, AlwaysConnected, Unshared, Peer
<1>7. ManifestsCurrent' /\ ValidatorsCurrent'
  BY <1>1 DEF Inv, ManifestsCurrent, ValidatorsCurrent, Peer, Further
<1>. QED
  BY <1>2, <1>3, <1>4, <1>5, <1>6, <1>7 DEF Inv

(* The peer that an activity works with, and the peer of a job, are peers.  *)
LEMMA UsedPeers ==
    ASSUME TypeOK
    PROVE  /\ \A a \in Activities : todo[a] # <<>> => Peer(a) \in Peers
           /\ \A a \in Activities : \A i \in 1..Len(todo[a]) : todo[a][i] \in Peers
           /\ \A j \in Jobs : jobs[j] # None => jobs[j] \in Peers
           /\ \A i \in 1..Len(peers) : peers[i] \in Peers
BY DEF TypeOK, Peer

-----------------------------------------------------------------------------
(* What making a client changes: it is never taken away again.              *)
LEMMA NewClientFacts ==
    ASSUME TypeOK, NEW p \in Peers, NEW t \in Types, NewClient(p, t)
    PROVE  /\ kind' \in [Clients -> Types \cup {None}]
           /\ client' \in [Peers -> {0} \cup Clients]
           /\ client'[p] \in Clients /\ client'[p] # 0
           /\ \A q \in Peers : q # p => client'[q] = client[q]
BY ActivityFacts DEF TypeOK, NewClient

(* Listing a peer that is not listed yet, at the end or for another.        *)
LEMMA ListFacts ==
    ASSUME TypeOK, NEW p \in Peers, ~InTable(p),
           \/ peers' = Append(peers, p)
           \/ \E n \in 1..Len(peers) : peers' = [peers EXCEPT ![n] = p]
    PROVE  /\ peers' \in Seq(Peers)
           /\ \A i, k \in 1..Len(peers') : peers'[i] = peers'[k] => i = k
           /\ \A i \in 1..Len(peers') :
                 peers'[i] = p \/ \E k \in 1..Len(peers) : peers'[i] = peers[k]
<1>1. /\ peers \in Seq(Peers) /\ Len(peers) \in Nat
      /\ \A i, k \in 1..Len(peers) : peers[i] = peers[k] => i = k
      /\ \A i \in 1..Len(peers) : peers[i] # p
  BY DEF TypeOK, InTable
<1>. HIDE DEF InTable
<1>2. CASE peers' = Append(peers, p)
  <2>1. /\ peers' \in Seq(Peers) /\ Len(peers') = Len(peers) + 1
        /\ \A i \in 1..Len(peers') :
              peers'[i] = IF i <= Len(peers) THEN peers[i] ELSE p
    BY <1>1, <1>2
  <2>2. \A i \in 1..Len(peers') :
           \/ i \in 1..Len(peers) /\ peers'[i] = peers[i]
           \/ i = Len(peers') /\ peers'[i] = p
    BY <1>1, <2>1
  <2>. QED
    BY <1>1, <2>1, <2>2
<1>3. CASE \E n \in 1..Len(peers) : peers' = [peers EXCEPT ![n] = p]
  <2>1. PICK n \in 1..Len(peers) : peers' = [peers EXCEPT ![n] = p]
    BY <1>3
  <2>2. peers' \in Seq(Peers) /\ Len(peers') = Len(peers)
    BY <1>1, <2>1
  <2>3. \A i \in 1..Len(peers) : peers'[i] = IF i = n THEN p ELSE peers[i]
    BY <1>1, <2>1
  <2>. QED
    BY <1>1, <2>2, <2>3
<1>. QED
  BY <1>2, <1>3

(* Nobody works with a peer that was not made.                              *)
LEMMA Unmade ==
    ASSUME Inv, NEW p \in Peers, reconnect[p].pc = "none"
    PROVE  /\ ~InTable(p) /\ manifest[p] = None /\ reconnect[p].via = 0
           /\ \A m \in Methods : validators[p][m] = None \/ p \in overtaken
           /\ \A j \in Jobs : jobs[j] # p
           /\ \A a \in Activities : todo[a] # <<>> => Peer(a) # p
<1>1. ~InTable(p) /\ manifest[p] = None /\ \A j \in Jobs : jobs[j] # p
  BY ActivityFacts DEF Inv, Known, Made, InTable
<1>2. reconnect[p].via = 0
  BY DEF Inv, Waits
<1>3. \A m \in Methods : validators[p][m] = None \/ p \in overtaken
  BY <1>1 DEF Inv, ValidatorsCurrent
<1>4. \A a \in Activities : todo[a] # <<>> => Peer(a) # p
  BY DEF Inv, TypeOK, Known, Made, Peer
<1>. QED
  BY <1>1, <1>2, <1>3, <1>4

(* add (Delegator.ts:320): the new peer is unused, and has a client.        *)
LEMMA AddInv == ASSUME Inv, NEW p \in Peers, Add(p) PROVE Inv'
<1>. USE ActivityFacts DEF peer, history
<1>1. PICK t \in Types : NewClient(p, t)
  BY DEF Add
<1>2. /\ reconnect[p].pc = "none"
      /\ \/ peers' = Append(peers, p)
         \/ \E n \in 1..Len(peers) : peers' = [peers EXCEPT ![n] = p]
      /\ reconnect' = [reconnect EXCEPT ![p] = At("fetching", None, client'[p])]
      /\ UNCHANGED <<jobs, manifest, validators, at, todo, history>>
  BY DEF Add
<1>3. TypeOK
  BY DEF Inv
<1>4. /\ kind' \in [Clients -> Types \cup {None}]
      /\ client' \in [Peers -> {0} \cup Clients]
      /\ client'[p] \in Clients /\ client'[p] # 0
      /\ \A q \in Peers : q # p => client'[q] = client[q]
  BY <1>1, <1>3, NewClientFacts
<1>5. \A q \in Peers : client[q] # 0 => client'[q] # 0
  BY <1>4
<1>6. /\ peers' \in Seq(Peers)
      /\ \A i, k \in 1..Len(peers') : peers'[i] = peers'[k] => i = k
      /\ \A i \in 1..Len(peers') :
            peers'[i] = p \/ \E k \in 1..Len(peers) : peers'[i] = peers[k]
  BY <1>2, <1>3, Unmade, ListFacts
<1>7. /\ At("fetching", None, client'[p]) \in Where(ReconnectPcs)
      /\ At("fetching", None, client'[p]).pc = "fetching"
  BY <1>4 DEF At, Where, ReconnectPcs
<1>8. /\ reconnect' \in [Peers -> Where(ReconnectPcs)]
      /\ reconnect'[p].pc = "fetching"
      /\ \A q \in Peers : q # p => reconnect'[q] = reconnect[q]
  BY <1>2, <1>3, <1>7 DEF TypeOK, ReconnectPcs
<1>9. TypeOK'
  BY <1>2, <1>3, <1>4, <1>6, <1>8 DEF TypeOK
<1>10. HasPeer' /\ AskOne' /\ JobsTrackCalls' /\ CancelsAfterCalls' /\ AlwaysConnected'
  BY <1>2 DEF Inv, HasPeer, AskOne, JobsTrackCalls, CancelsAfterCalls,
              AlwaysConnected, Unshared, Peer
<1>11. Waits' /\ Startable'
  BY <1>2, <1>4, <1>8 DEF Inv, Waits, Startable, Made
<1>12. Known'
  <2>1. Made \subseteq Made' /\ p \in Made'
    BY <1>8 DEF Made
  <2>2. \A i \in 1..Len(peers') : peers'[i] \in Made'
    BY <1>6, <2>1 DEF Inv, Known
  <2>. QED
    BY <1>2, <2>1, <2>2 DEF Inv, Known
<1>13. HasClient'
  BY <1>2, <1>3, <1>5, UsedPeers DEF Inv, HasPeer, Trying, HasClient, Peer
<1>14. ManifestsCurrent' /\ ValidatorsCurrent'
  BY <1>2, <1>8, Unmade DEF Inv, ManifestsCurrent, ValidatorsCurrent, Peer
<1>. QED
  BY <1>9, <1>10, <1>11, <1>12, <1>13, <1>14 DEF Inv

(* update with a new id (Delegator.ts:335): the new peer has a manifest.    *)
LEMMA AddManifestInv ==
    ASSUME Inv, NEW p \in Peers, NEW m \in Manifests, AddManifest(p, m)
    PROVE  Inv'
<1>. USE ActivityFacts DEF peer, history
<1>1. /\ reconnect[p].pc = "none" /\ peers' = Append(peers, p)
      /\ manifest' = [manifest EXCEPT ![p] = m]
      /\ reconnect' = [reconnect EXCEPT ![p] = At("ready", m, 0)]
      /\ UNCHANGED <<jobs, client, kind, validators, at, todo, history>>
  BY DEF AddManifest
<1>2. TypeOK
  BY DEF Inv
<1>3. /\ peers' \in Seq(Peers)
      /\ \A i, k \in 1..Len(peers') : peers'[i] = peers'[k] => i = k
      /\ \A i \in 1..Len(peers') :
            peers'[i] = p \/ \E k \in 1..Len(peers) : peers'[i] = peers[k]
  BY <1>1, <1>2, Unmade, ListFacts
<1>4. /\ At("ready", m, 0) \in Where(ReconnectPcs)
      /\ At("ready", m, 0).pc = "ready" /\ At("ready", m, 0).via = 0
  BY DEF At, Where, ReconnectPcs
<1>5. /\ reconnect' \in [Peers -> Where(ReconnectPcs)]
      /\ reconnect'[p].pc = "ready" /\ reconnect'[p].via = 0
      /\ \A q \in Peers : q # p => reconnect'[q] = reconnect[q]
  BY <1>1, <1>2, <1>4 DEF TypeOK, ReconnectPcs
<1>6. /\ manifest' \in [Peers -> Manifests \cup {None}]
      /\ manifest'[p] = m /\ m # None
      /\ \A q \in Peers : q # p => manifest'[q] = manifest[q]
  BY <1>1, <1>2 DEF TypeOK
<1>7. TypeOK'
  BY <1>1, <1>2, <1>3, <1>5, <1>6 DEF TypeOK
<1>8. /\ HasPeer' /\ AskOne' /\ HasClient'
      /\ JobsTrackCalls' /\ CancelsAfterCalls' /\ AlwaysConnected'
  BY <1>1 DEF Inv, HasPeer, AskOne, HasClient, JobsTrackCalls,
              CancelsAfterCalls, AlwaysConnected, Unshared, Peer
<1>9. Waits' /\ Startable'
  BY <1>1, <1>5, <1>6 DEF Inv, Waits, Startable, Made
<1>10. Known'
  <2>1. Made' = Made \cup {p}
    BY <1>5 DEF Made
  <2>2. \A i \in 1..Len(peers') : peers'[i] \in Made'
    BY <1>3, <2>1 DEF Inv, Known
  <2>. QED
    BY <1>1, <1>6, <2>1, <2>2 DEF Inv, Known
<1>11. ManifestsCurrent'
  BY <1>1, <1>2, <1>5, <1>6, Unmade, UsedPeers
     DEF Inv, HasPeer, Trying, ManifestsCurrent, Peer
<1>12. ValidatorsCurrent'
  BY <1>1, <1>6, Unmade DEF Inv, ValidatorsCurrent
<1>. QED
  BY <1>7, <1>8, <1>9, <1>10, <1>11, <1>12 DEF Inv

(* update (Delegator.ts:329): whoever used the manifest is overtaken.       *)
LEMMA UpdateInv ==
    ASSUME Inv, NEW p \in Peers, NEW m \in Manifests, Update(p, m)
    PROVE  Inv'
<1>. USE ActivityFacts DEF peer, history
<1>1. /\ InTable(p)
      /\ manifest' = [manifest EXCEPT ![p] = m]
      /\ validators' = [validators EXCEPT ![p] = [x \in Methods |-> None]]
      /\ updates < MaxUpdates /\ updates' = updates + 1
      /\ overtaken' = IF InUse(p) THEN overtaken \cup {p} ELSE overtaken
      /\ UNCHANGED <<peers, jobs, client, kind, reconnect, at, todo, lost>>
  BY DEF Update
<1>2. TypeOK
  BY DEF Inv
<1>3. p \in Made
  BY <1>1 DEF Inv, Known, InTable
<1>4. /\ manifest' \in [Peers -> Manifests \cup {None}]
      /\ manifest'[p] = m /\ m # None
      /\ \A q \in Peers : q # p => manifest'[q] = manifest[q]
  BY <1>1, <1>2 DEF TypeOK
<1>5. /\ validators' \in [Peers -> [Methods -> Manifests \cup {None}]]
      /\ \A x \in Methods : validators'[p][x] = None
      /\ \A q \in Peers : q # p => validators'[q] = validators[q]
  BY <1>1, <1>2 DEF TypeOK
<1>6. overtaken' \subseteq Peers /\ updates' \in 0..MaxUpdates
  BY <1>1, <1>2, DelegatorAssumption DEF TypeOK
<1>7. TypeOK'
  BY <1>1, <1>2, <1>4, <1>5, <1>6 DEF TypeOK
<1>8. /\ HasPeer' /\ AskOne' /\ HasClient' /\ Waits'
      /\ JobsTrackCalls' /\ CancelsAfterCalls' /\ AlwaysConnected'
  BY <1>1 DEF Inv, HasPeer, AskOne, HasClient, Waits, JobsTrackCalls,
              CancelsAfterCalls, AlwaysConnected, Unshared, Peer
<1>9. Startable' /\ Known'
  BY <1>1, <1>3, <1>4 DEF Inv, Startable, Known, Made
<1>10. /\ overtaken \subseteq overtaken'
       /\ p \notin overtaken' =>
             /\ reconnect[p].pc # "fetching"
             /\ \A a \in Activities :
                   at[a].pc \in {"fetching", "judging"} => Peer(a) # p
  BY <1>1 DEF InUse
<1>11. ManifestsCurrent'
  BY <1>1, <1>2, <1>4, <1>10, UsedPeers
     DEF Inv, HasPeer, Trying, ManifestsCurrent, Peer
<1>12. ValidatorsCurrent'
  BY <1>4, <1>5, <1>10 DEF Inv, ValidatorsCurrent
<1>. QED
  BY <1>7, <1>8, <1>9, <1>11, <1>12 DEF Inv

(* The list that splice(i, 1) leaves of q.                                  *)
Without(q, i) == SubSeq(q, 1, i - 1) \o SubSeq(q, i + 1, Len(q))

(* It is the list with the elements after i moved up by one, and has none   *)
(* of them twice if q has none.                                             *)
LEMMA RemovalLemma ==
    ASSUME NEW S, NEW q \in Seq(S), NEW i \in 1..Len(q),
           NEW r, r = Without(q, i)
    PROVE  /\ r \in Seq(S) /\ Len(r) = Len(q) - 1
           /\ \A k \in 1..Len(r) : r[k] = IF k < i THEN q[k] ELSE q[k + 1]
           /\ (\A k, l \in 1..Len(q) : q[k] = q[l] => k = l)
                => \A k, l \in 1..Len(r) : r[k] = r[l] => k = l
<1>. DEFINE a == SubSeq(q, 1, i - 1)
            b == SubSeq(q, i + 1, Len(q))
            from(k) == IF k < i THEN k ELSE k + 1
<1>1. /\ a \in Seq(S) /\ b \in Seq(S)
      /\ Len(q) \in Nat /\ i \in Nat /\ Len(a) = i - 1 /\ Len(b) = Len(q) - i
  OBVIOUS
<1>2. /\ \A k \in 1..(i - 1) : a[k] = q[k]
      /\ \A k \in 1..(Len(q) - i) : b[k] = q[k + i]
  OBVIOUS
<1>3. r = a \o b
  BY DEF Without
<1>. HIDE DEF a, b
<1>4. /\ r \in Seq(S)
      /\ Len(r) = Len(a) + Len(b)
      /\ \A k \in 1..(Len(a) + Len(b)) :
            r[k] = IF k <= Len(a) THEN a[k] ELSE b[k - Len(a)]
  <2>1. /\ a \o b \in Seq(S) /\ Len(a \o b) = Len(a) + Len(b)
        /\ \A k \in 1..(Len(a) + Len(b)) :
              (a \o b)[k] = IF k <= Len(a) THEN a[k] ELSE b[k - Len(a)]
    BY <1>1, ConcatProperties, Zenon
  <2>. QED
    BY <1>3, <2>1, Zenon
<1>5. Len(a) + Len(b) = Len(q) - 1
  BY <1>1
<1>6. Len(r) = Len(q) - 1
  BY <1>4, <1>5
<1>7. ASSUME NEW k \in 1..Len(r)
      PROVE  from(k) \in 1..Len(q) /\ r[k] = q[from(k)]
  <2>1. k \in 1..(Len(q) - 1) /\ r[k] = IF k <= i - 1 THEN a[k] ELSE b[k - (i - 1)]
    BY <1>1, <1>4, <1>5, <1>6
  <2>2. CASE k < i
    BY <1>1, <1>2, <2>1, <2>2
  <2>3. CASE ~(k < i)
    <3>1. ~(k <= i - 1) /\ k - (i - 1) \in 1..(Len(q) - i) /\ (k - (i - 1)) + i = k + 1
      BY <1>1, <2>1, <2>3
    <3>. QED
      BY <1>1, <1>2, <2>1, <2>3, <3>1
  <2>. QED
    BY <2>2, <2>3
<1>8. \A k, l \in 1..Len(r) : from(k) = from(l) => k = l
  BY <1>1, <1>6
<1>9. \A k \in 1..Len(r) : r[k] = IF k < i THEN q[k] ELSE q[k + 1]
  BY <1>7
<1>. HIDE DEF from
<1>10. ASSUME \A k, l \in 1..Len(q) : q[k] = q[l] => k = l
       PROVE  \A k, l \in 1..Len(r) : r[k] = r[l] => k = l
  <2>1. SUFFICES ASSUME NEW k \in 1..Len(r), NEW l \in 1..Len(r), r[k] = r[l]
                 PROVE  k = l
    OBVIOUS
  <2>2. /\ from(k) \in 1..Len(q) /\ from(l) \in 1..Len(q)
        /\ q[from(k)] = q[from(l)]
    BY <1>7, <2>1
  <2>3. from(k) = from(l)
    BY <1>10, <2>2
  <2>. QED
    BY <1>8, <2>3
<1>. QED
  BY <1>4, <1>6, <1>9, <1>10

(* remove (Delegator.ts:341): the other peers stay listed once.             *)
LEMMA RemoveInv == ASSUME Inv, NEW p \in Peers, Remove(p) PROVE Inv'
<1>. USE ActivityFacts DEF peer, history
<1>1. PICK i \in 1..Len(peers) :
         peers' = SubSeq(peers, 1, i - 1) \o SubSeq(peers, i + 1, Len(peers))
  BY DEF Remove
<1>2. UNCHANGED <<jobs, peer, reconnect, at, todo, history>>
  BY DEF Remove
<1>3. peers \in Seq(Peers) /\ Len(peers) \in Nat
  BY DEF Inv, TypeOK
<1>4. peers' = Without(peers, i)
  BY <1>1 DEF Without
<1>5. /\ peers' \in Seq(Peers)
      /\ \A k, l \in 1..Len(peers') : peers'[k] = peers'[l] => k = l
  BY <1>3, <1>4, RemovalLemma DEF Inv, TypeOK
<1>6. TypeOK'
  BY <1>2, <1>5 DEF Inv, TypeOK
<1>7. Known'
  <2>1. \A k \in 1..Len(peers) : peers[k] \in Made
    BY DEF Inv, Known
  <2>2. /\ Len(peers') = Len(peers) - 1
        /\ \A k \in 1..Len(peers') :
              peers'[k] = IF k < i THEN peers[k] ELSE peers[k + 1]
    BY <1>3, <1>4, RemovalLemma
  <2>3. \A k \in 1..Len(peers') : k \in 1..Len(peers) /\ k + 1 \in 1..Len(peers)
    BY <1>3, <2>2
  <2>4. \A k \in 1..Len(peers') : peers'[k] \in Made
    BY <2>1, <2>2, <2>3
  <2>. QED
    BY <1>2, <2>4 DEF Inv, Known, Made
<1>8. /\ HasPeer' /\ Waits' /\ Startable' /\ HasClient' /\ AskOne'
      /\ JobsTrackCalls' /\ CancelsAfterCalls' /\ AlwaysConnected'
  BY <1>2 DEF Inv, HasPeer, Waits, Startable, Made, HasClient, AskOne,
              JobsTrackCalls, CancelsAfterCalls, AlwaysConnected, Unshared, Peer
<1>9. ManifestsCurrent' /\ ValidatorsCurrent'
  BY <1>2 DEF Inv, ManifestsCurrent, ValidatorsCurrent, Peer
<1>. QED
  BY <1>6, <1>7, <1>8, <1>9 DEF Inv

-----------------------------------------------------------------------------
(* Those who are rejected are somewhere still.                              *)
LEMMA RejectedTypes ==
    ASSUME NEW K \in SUBSET Clients
    PROVE  /\ \A s \in Where(AtPcs) : Rejected(K, s) \in Where(AtPcs)
           /\ \A s \in Where(ReconnectPcs) :
                 (s.via # 0 => s.pc = "fetching")
                    => Rejected(K, s) \in Where(ReconnectPcs)
BY ActivityFacts DEF Rejected, Where, AtPcs, Ended, ReconnectPcs, Here, At

(* stop (Delegator.ts:349): whoever awaited a client that rejects fails.    *)
LEMMA StopInv == ASSUME Inv, Stop PROVE Inv'
<1>. DEFINE K == {client[p] : p \in {q \in Peers : InTable(q)}} \ {0}
<1>. DEFINE R == Rejecting(K)
<1>1. /\ at' = [a \in Activities |-> Rejected(R, at[a])]
      /\ reconnect' = [p \in Peers |-> Rejected(R, reconnect[p])]
      /\ lost' = lost \cup Waiting(Losing(K))
      /\ UNCHANGED <<peers, jobs, peer, todo, overtaken, updates>>
  BY DEF Stop
<1>2. R \in SUBSET Clients /\ lost' \subseteq Activities \cup Peers
  <2>1. K \in SUBSET Clients /\ lost \subseteq Activities \cup Peers
    BY DEF Inv, TypeOK
  <2>. HIDE DEF K
  <2>. QED
    BY <1>1, <2>1, LossFacts
<1>. HIDE DEF K, R
<1>3. /\ at \in [Activities -> Where(AtPcs)]
      /\ reconnect \in [Peers -> Where(ReconnectPcs)]
  BY DEF Inv, TypeOK, AtPcs, ReconnectPcs
<1>4. /\ at' \in [Activities -> Where(AtPcs)]
      /\ reconnect' \in [Peers -> Where(ReconnectPcs)]
  BY <1>1, <1>2, <1>3, RejectedTypes DEF Inv, Waits
<1>5. \A a \in Activities : Dropped(at[a], at'[a])
  BY <1>1, <1>2, RejectedFacts DEF Inv, Waits
<1>6. ASSUME NEW p \in Peers PROVE Further(p)
  <2>1. Dropped(reconnect[p], reconnect'[p])
    BY <1>1, <1>2, RejectedFacts DEF Inv, Waits
  <2>2. reconnect[p].pc # "calling"
    BY <1>3 DEF Where, ReconnectPcs
  <2>. QED
    BY <2>1, <2>2 DEF Dropped, Further, Here, At
<1>. QED
  BY <1>1, <1>2, <1>4, <1>5, <1>6, DroppedInv

(* An answer that does not come changes nothing else.                       *)
LEMMA LoseInv == ASSUME Inv, NEW a \in Activities, Lose(a) PROVE Inv'
<1>1. /\ at' = at /\ reconnect' = reconnect /\ lost' = lost \cup {a}
      /\ UNCHANGED <<peers, jobs, peer, todo, overtaken, updates>>
  BY DEF Lose
<1>2. /\ at' \in [Activities -> Where(AtPcs)]
      /\ reconnect' \in [Peers -> Where(ReconnectPcs)]
      /\ lost' \subseteq Activities \cup Peers
  BY <1>1 DEF Inv, TypeOK, AtPcs, ReconnectPcs
<1>3. /\ \A b \in Activities : Dropped(at[b], at'[b])
      /\ \A p \in Peers : Further(p)
  BY <1>1 DEF Dropped, Further
<1>. QED
  BY <1>1, <1>2, <1>3, DroppedInv

(* A fetch sets the manifest of a peer that has none, or the same.          *)
LEMMA ReconnectFetchedInv ==
    ASSUME Inv, NEW p \in Peers, ReconnectFetched(p) PROVE Inv'
<1>. USE ActivityFacts DEF peer, history
<1>1. /\ reconnect[p].pc = "fetching"
      /\ UNCHANGED <<peers, jobs, client, kind, validators, at, todo, history>>
  BY DEF ReconnectFetched
<1>2. /\ TypeOK /\ reconnect \in [Peers -> Where(ReconnectPcs)]
      /\ Remote[p] \in Manifests /\ Remote[p] # None
  BY DEF Inv, TypeOK, ReconnectPcs
<1>3. CASE /\ reconnect' = [reconnect EXCEPT ![p] = Here("failed")]
           /\ UNCHANGED manifest
  <2>1. /\ Here("failed") \in Where(ReconnectPcs)
        /\ Here("failed").pc = "failed" /\ Here("failed").via = 0
    BY DEF Where, ReconnectPcs, Here, At
  <2>2. /\ reconnect' \in [Peers -> Where(ReconnectPcs)]
        /\ \A q \in Peers : Further(q)
    BY <1>1, <1>2, <1>3, <2>1 DEF Further
  <2>3. /\ at' \in [Activities -> Where(AtPcs)]
        /\ \A a \in Activities : Dropped(at[a], at'[a])
    BY <1>1 DEF Inv, TypeOK, AtPcs, Dropped
  <2>4. lost' \subseteq Activities \cup Peers
    BY <1>1, <1>2 DEF TypeOK
  <2>. QED
    BY <1>1, <1>3, <2>2, <2>3, <2>4, DroppedInv
<1>4. CASE /\ manifest' = [manifest EXCEPT ![p] = Remote[p]]
           /\ reconnect' = [reconnect EXCEPT ![p] = At("ready", Remote[p], 0)]
  <2>1. /\ At("ready", Remote[p], 0) \in Where(ReconnectPcs)
        /\ At("ready", Remote[p], 0).pc = "ready"
        /\ At("ready", Remote[p], 0).via = 0
    BY <1>2 DEF Where, ReconnectPcs, At
  <2>2. /\ reconnect' \in [Peers -> Where(ReconnectPcs)]
        /\ reconnect'[p].pc = "ready" /\ reconnect'[p].via = 0
        /\ \A q \in Peers : q # p => reconnect'[q] = reconnect[q]
    BY <1>2, <1>4, <2>1
  <2>3. /\ manifest' \in [Peers -> Manifests \cup {None}]
        /\ manifest'[p] = Remote[p]
        /\ \A q \in Peers : q # p => manifest'[q] = manifest[q]
    BY <1>2, <1>4 DEF TypeOK
  <2>4. TypeOK'
    BY <1>1, <1>2, <2>2, <2>3 DEF TypeOK
  <2>5. /\ HasPeer' /\ AskOne' /\ HasClient'
        /\ JobsTrackCalls' /\ CancelsAfterCalls' /\ AlwaysConnected'
    BY <1>1 DEF Inv, HasPeer, AskOne, HasClient, JobsTrackCalls,
                CancelsAfterCalls, AlwaysConnected, Unshared, Peer
  <2>6. Made' = Made
    BY <1>1, <2>2 DEF Made
  <2>7. Waits' /\ Startable' /\ Known'
    BY <1>1, <1>2, <2>2, <2>3, <2>6 DEF Inv, Waits, Startable, Known, Made
  <2>8. p \in overtaken \/ manifest[p] \in {None, Remote[p]}
    BY <1>1 DEF Inv, ManifestsCurrent
  <2>9. ManifestsCurrent'
    BY <1>1, <1>2, <2>2, <2>3, <2>8, UsedPeers
       DEF Inv, HasPeer, Trying, ManifestsCurrent, Peer
  <2>10. ValidatorsCurrent'
    BY <1>1, <2>3, <2>8 DEF Inv, ValidatorsCurrent
  <2>. QED
    BY <2>4, <2>5, <2>7, <2>9, <2>10 DEF Inv
<1>. QED
  BY <1>3, <1>4 DEF ReconnectFetched

(* A client made by a reconnection.                                         *)
LEMMA ReconnectedInv ==
    ASSUME Inv, NEW p \in Peers, NEW t \in Types, NewClient(p, t),
           reconnect[p].pc # "none",
           reconnect' = [reconnect EXCEPT ![p] = Here("done")],
           UNCHANGED <<peers, jobs, manifest, validators, at, todo, history>>
    PROVE  Inv'
<1>. USE ActivityFacts DEF peer, history
<1>1. TypeOK
  BY DEF Inv
<1>2. /\ kind' \in [Clients -> Types \cup {None}]
      /\ client' \in [Peers -> {0} \cup Clients]
      /\ \A q \in Peers : client[q] # 0 => client'[q] # 0
  BY <1>1, NewClientFacts
<1>3. /\ Here("done") \in Where(ReconnectPcs)
      /\ Here("done").pc = "done" /\ Here("done").via = 0
  BY DEF Where, ReconnectPcs, Here, At
<1>4. /\ reconnect' \in [Peers -> Where(ReconnectPcs)]
      /\ \A q \in Peers : Further(q)
  BY <1>1, <1>3 DEF TypeOK, ReconnectPcs, Further
<1>5. TypeOK'
  BY <1>1, <1>2, <1>4 DEF TypeOK
<1>6. /\ HasPeer' /\ AskOne'
      /\ JobsTrackCalls' /\ CancelsAfterCalls' /\ AlwaysConnected'
  BY DEF Inv, HasPeer, AskOne, JobsTrackCalls,
         CancelsAfterCalls, AlwaysConnected, Unshared, Peer
<1>7. Made' = Made
  BY <1>4 DEF Made, Further
<1>8. Waits' /\ Startable' /\ Known'
  BY <1>2, <1>4, <1>7 DEF Inv, Waits, Startable, Known, Made, Further
<1>9. HasClient'
  BY <1>1, <1>2, UsedPeers DEF Inv, HasPeer, Trying, HasClient, Peer
<1>10. ManifestsCurrent' /\ ValidatorsCurrent'
  BY <1>4 DEF Inv, ManifestsCurrent, ValidatorsCurrent, Peer, Further
<1>. QED
  BY <1>5, <1>6, <1>8, <1>9, <1>10 DEF Inv

(* connect(true) (Delegator.ts:183): it has nothing to do, makes a client, or*)
(* stops one, from under the calls that await it.                           *)
LEMMA ReconnectInv == ASSUME Inv, NEW p \in Peers, Reconnect(p) PROVE Inv'
<1>. DEFINE m == reconnect[p].with
<1>1. /\ reconnect[p].pc = "ready"
      /\ UNCHANGED <<peers, jobs, manifest, validators, todo, overtaken, updates>>
  BY DEF Reconnect
<1>2. /\ TypeOK /\ reconnect \in [Peers -> Where(ReconnectPcs)]
      /\ at \in [Activities -> Where(AtPcs)]
  BY DEF Inv, TypeOK, AtPcs, ReconnectPcs
<1>3. /\ Here("done") \in Where(ReconnectPcs)
      /\ Here("done").pc = "done" /\ Here("done").via = 0
      /\ At("stopping", m, 0) \in Where(ReconnectPcs)
      /\ At("stopping", m, 0).pc = "stopping" /\ At("stopping", m, 0).via = 0
  BY <1>2 DEF Where, ReconnectPcs, Here, At
<1>. HIDE DEF m
<1>4. CASE /\ reconnect' = [reconnect EXCEPT ![p] = Here("done")]
           /\ UNCHANGED <<client, kind, at, lost>>
  <2>1. /\ reconnect' \in [Peers -> Where(ReconnectPcs)]
        /\ \A q \in Peers : Further(q)
    BY <1>1, <1>2, <1>3, <1>4 DEF Further
  <2>2. /\ at' \in [Activities -> Where(AtPcs)]
        /\ \A a \in Activities : Dropped(at[a], at'[a])
    BY <1>2, <1>4 DEF Dropped
  <2>3. lost' \subseteq Activities \cup Peers
    BY <1>2, <1>4 DEF TypeOK
  <2>. QED
    BY <1>1, <1>4, <2>1, <2>2, <2>3, DroppedInv DEF peer
<1>5. CASE /\ \E t \in Types : NewClient(p, t)
           /\ reconnect' = [reconnect EXCEPT ![p] = Here("done")]
           /\ UNCHANGED <<at, lost>>
  BY <1>1, <1>5, ReconnectedInv DEF history
<1>6. CASE /\ client[p] # 0
           /\ at' = [a \in Activities |-> Rejected(Rejecting({client[p]}), at[a])]
           /\ reconnect' = [reconnect EXCEPT ![p] = At("stopping", m, 0)]
           /\ lost' = lost \cup Waiting(Losing({client[p]}))
           /\ UNCHANGED <<client, kind>>
  <2>1. /\ Rejecting({client[p]}) \in SUBSET Clients
        /\ lost' \subseteq Activities \cup Peers
    BY <1>2, <1>6, LossFacts DEF TypeOK
  <2>2. /\ at' \in [Activities -> Where(AtPcs)]
        /\ \A a \in Activities : Dropped(at[a], at'[a])
    BY <1>2, <1>6, <2>1, RejectedTypes, RejectedFacts DEF Inv, Waits
  <2>3. /\ reconnect' \in [Peers -> Where(ReconnectPcs)]
        /\ \A q \in Peers : Further(q)
    BY <1>1, <1>2, <1>3, <1>6 DEF Further
  <2>. QED
    BY <1>1, <1>6, <2>1, <2>2, <2>3, DroppedInv DEF peer
<1>. QED
  BY <1>4, <1>5, <1>6 DEF Reconnect, m

-----------------------------------------------------------------------------
(* call (Delegator.ts:299) begins with the peers that are listed.           *)
LEMMA CallInv == ASSUME Inv, NEW c \in Calls, Call(c) PROVE Inv'
<1>. USE ActivityFacts DEF peer, history
<1>1. /\ at[c].pc = "idle" /\ at' = [at EXCEPT ![c] = Here("next")]
      /\ todo' = [todo EXCEPT ![c] = peers]
      /\ UNCHANGED <<peers, jobs, peer, reconnect, history>>
  BY DEF Call
<1>2. /\ TypeOK /\ at \in [Activities -> Where(AtPcs)]
      /\ Here("next") \in Where(AtPcs) /\ Here("next").pc = "next"
      /\ Here("next").via = 0
  BY DEF Inv, TypeOK, Where, AtPcs, Here, At
<1>3. /\ at' \in [Activities -> Where(AtPcs)]
      /\ at'[c].pc = "next" /\ at'[c].via = 0
      /\ \A a \in Activities : a # c => at'[a] = at[a]
  BY <1>1, <1>2
<1>4. /\ todo' \in [Activities -> Seq(Peers)]
      /\ todo'[c] = peers
      /\ \A a \in Activities : a # c => todo'[a] = todo[a]
  BY <1>1, <1>2 DEF TypeOK
<1>5. TypeOK'
  BY <1>1, <1>2, <1>3, <1>4 DEF TypeOK
<1>6. HasPeer' /\ Waits' /\ AskOne' /\ AlwaysConnected'
  BY <1>1, <1>3, <1>4 DEF Inv, HasPeer, Trying, Waits, AskOne, AlwaysConnected
<1>7. Known' /\ Startable'
  BY <1>1, <1>4 DEF Inv, Known, Startable, Made
<1>8. HasClient'
  BY <1>1, <1>3, <1>4 DEF Inv, HasClient, Peer
<1>9. JobsTrackCalls'
  BY <1>1, <1>3, <1>4 DEF Inv, JobsTrackCalls, Unshared, Peer
<1>10. CancelsAfterCalls'
  <2>1. /\ \A d \in Calls \ {c} : at'[d].pc = at[d].pc /\ Peer(d)' = Peer(d)
        /\ \A j \in Cancels : todo'[j] = todo[j]
    BY <1>3, <1>4 DEF Peer
  <2>. QED
    BY <1>1, <2>1 DEF Inv, CancelsAfterCalls, Unshared, Peer
<1>11. ManifestsCurrent' /\ ValidatorsCurrent'
  BY <1>1, <1>3, <1>4 DEF Inv, ManifestsCurrent, ValidatorsCurrent, Peer
<1>. QED
  BY <1>5, <1>6, <1>7, <1>8, <1>9, <1>10, <1>11 DEF Inv

(* cancel (Delegator.ts:284) begins with the peer of the job, if it has one.*)
LEMMA CancelInv == ASSUME Inv, NEW j \in Cancels, Cancel(j) PROVE Inv'
<1>. USE ActivityFacts DEF peer, history
<1>. DEFINE ask == IF jobs[j] = None THEN <<>> ELSE <<jobs[j]>>
<1>1. /\ at[j].pc = "idle" /\ at' = [at EXCEPT ![j] = Here("next")]
      /\ todo' = [todo EXCEPT ![j] = ask]
      /\ UNCHANGED <<peers, jobs, peer, reconnect, history>>
  BY DEF Cancel
<1>2. /\ TypeOK /\ at \in [Activities -> Where(AtPcs)]
      /\ Here("next") \in Where(AtPcs) /\ Here("next").pc = "next"
      /\ Here("next").via = 0
  BY DEF Inv, TypeOK, Where, AtPcs, Here, At
<1>3. /\ at' \in [Activities -> Where(AtPcs)]
      /\ at'[j].pc = "next" /\ at'[j].via = 0
      /\ \A a \in Activities : a # j => at'[a] = at[a]
  BY <1>1, <1>2
<1>4. /\ ask \in Seq(Peers) /\ Len(ask) <= 1
      /\ ask # <<>> => /\ jobs[j] \in Made /\ client[jobs[j]] # 0
                       /\ jobs[j] # None /\ Head(ask) = jobs[j]
      /\ \A i \in 1..Len(ask) : ask[i] \in Made
  BY <1>2 DEF Inv, TypeOK, Known, HasClient
<1>. HIDE DEF ask
<1>5. /\ todo' \in [Activities -> Seq(Peers)]
      /\ todo'[j] = ask
      /\ \A a \in Activities : a # j => todo'[a] = todo[a]
  BY <1>1, <1>2, <1>4 DEF TypeOK
<1>6. TypeOK'
  BY <1>1, <1>2, <1>3, <1>5 DEF TypeOK
<1>7. HasPeer' /\ Waits' /\ AskOne' /\ AlwaysConnected'
  BY <1>1, <1>3, <1>4, <1>5 DEF Inv, HasPeer, Trying, Waits, AskOne, AlwaysConnected
<1>8. Known' /\ Startable'
  BY <1>1, <1>4, <1>5 DEF Inv, Known, Startable, Made
<1>9. HasClient'
  BY <1>1, <1>3, <1>4, <1>5 DEF Inv, HasClient, Peer
<1>10. JobsTrackCalls'
  BY <1>1, <1>3, <1>5 DEF Inv, JobsTrackCalls, Unshared, Peer
<1>11. CancelsAfterCalls'
  <2>1. ASSUME NEW c \in Calls, Unshared(c), JobId[c] = j, ask # <<>>
        PROVE  /\ at[c].pc \in {"calling", "rejected"}
               /\ jobs[j] = Peer(c)
    BY <1>4, <2>1 DEF Inv, JobsTrackCalls
  <2>. QED
    BY <1>1, <1>3, <1>4, <1>5, <2>1 DEF Inv, CancelsAfterCalls, Unshared, Peer
<1>12. ManifestsCurrent' /\ ValidatorsCurrent'
  BY <1>1, <1>3, <1>5 DEF Inv, ManifestsCurrent, ValidatorsCurrent, Peer
<1>. QED
  BY <1>6, <1>7, <1>8, <1>9, <1>10, <1>11, <1>12 DEF Inv

(* What a step of one activity leaves alone.                                *)
Goes(a, s) ==
    /\ at' \in [Activities -> Where(AtPcs)] /\ at'[a] = s
    /\ \A b \in Activities : b # a => at'[b] = at[b]

(* An assignment of where one activity is has that effect.                  *)
LEMMA GoesFacts ==
    ASSUME Inv, NEW a \in Activities, NEW s \in Where(AtPcs),
           at' = [at EXCEPT ![a] = s]
    PROVE  Goes(a, s)
BY DEF Inv, TypeOK, AtPcs, Goes

(* start (Delegator.ts:72): a peer without a manifest has a client.         *)
LEMMA TryInv == ASSUME Inv, NEW a \in Activities, Try(a) PROVE Inv'
<1>. USE ActivityFacts DEF peer, history
<1>. DEFINE s == IF todo[a] = <<>> THEN Here("unable")
                 ELSE IF manifest[Peer(a)] # None
                      THEN At("judging", manifest[Peer(a)], 0)
                 ELSE At("fetching", None, client[Peer(a)])
<1>1. /\ at[a].pc = "next" /\ at' = [at EXCEPT ![a] = s]
      /\ UNCHANGED <<peers, jobs, peer, reconnect, todo, history>>
  BY DEF Try
<1>2. TypeOK /\ (todo[a] # <<>> => Peer(a) \in Made)
  <2>1. todo[a] \in Seq(Peers) /\ \A i \in 1..Len(todo[a]) : todo[a][i] \in Made
    BY DEF Inv, Known, TypeOK
  <2>2. todo[a] # <<>> => Peer(a) = todo[a][1] /\ 1 \in 1..Len(todo[a])
    BY <2>1 DEF Peer
  <2>. QED
    BY <2>1, <2>2 DEF Inv
<1>3. /\ s \in Where(AtPcs) /\ s.pc \in {"unable", "judging", "fetching"}
      /\ s.pc # "unable" => todo[a] # <<>>
      /\ s.via # 0 => s.pc = "fetching"
      /\ s.pc = "judging" => s.with # None /\ s.with = manifest[Peer(a)]
      /\ s.pc = "fetching" => /\ manifest[Peer(a)] = None
                              /\ s.via = client[Peer(a)] /\ s.via # 0
  <2>1. todo[a] # <<>> => /\ Peer(a) \in Peers /\ client[Peer(a)] \in {0} \cup Clients
                          /\ manifest[Peer(a)] \in Manifests \cup {None}
                          /\ manifest[Peer(a)] # None \/ client[Peer(a)] # 0
    BY <1>2, UsedPeers DEF Inv, TypeOK, Startable
  <2>. QED
    BY <2>1 DEF At, Here, Where, AtPcs, Ended
<1>. HIDE DEF s
<1>4. Goes(a, s)
  BY <1>1, <1>3, GoesFacts
<1>. USE DEF Goes
<1>5. TypeOK'
  BY <1>1, <1>2, <1>4 DEF TypeOK
<1>6. HasPeer' /\ Waits' /\ AskOne' /\ AlwaysConnected'
  BY <1>1, <1>3, <1>4 DEF Inv, HasPeer, Trying, Waits, AskOne, AlwaysConnected
<1>7. Known' /\ Startable' /\ HasClient'
  BY <1>1, <1>3, <1>4 DEF Inv, Known, Startable, Made, HasClient, Peer
<1>8. JobsTrackCalls'
  BY <1>1, <1>3, <1>4 DEF Inv, JobsTrackCalls, Unshared, Peer
<1>9. CancelsAfterCalls'
  BY <1>1, <1>3, <1>4 DEF Inv, CancelsAfterCalls, Unshared, Peer
<1>10. ManifestsCurrent' /\ ValidatorsCurrent'
  BY <1>1, <1>3, <1>4 DEF Inv, ManifestsCurrent, ValidatorsCurrent, Peer
<1>. QED
  BY <1>5, <1>6, <1>7, <1>8, <1>9, <1>10 DEF Inv

(* start (Delegator.ts:77): a manifest is fetched for a peer that has none, or*)
(* that has the same, unless it was updated meanwhile.                      *)
LEMMA FetchedInv == ASSUME Inv, NEW a \in Activities, Fetched(a) PROVE Inv'
<1>. USE ActivityFacts DEF peer, history
<1>. DEFINE p == Peer(a)
<1>1. /\ at[a].pc = "fetching"
      /\ UNCHANGED <<peers, jobs, client, kind, validators, reconnect, todo,
                     history>>
  BY DEF Fetched
<1>2. TypeOK /\ todo[a] # <<>> /\ p \in Peers /\ Remote[p] \in Manifests
  BY <1>1, UsedPeers DEF Inv, HasPeer, Trying
<1>3. CASE at' = [at EXCEPT ![a] = Here("failed")] /\ UNCHANGED manifest
  <2>1. Here("failed") \in Where(AtPcs)
    BY DEF Where, AtPcs, Ended, Here, At
  <2>2. Goes(a, Here("failed"))
    BY <1>3, <2>1, GoesFacts
  <2>3. \A b \in Activities : Dropped(at[b], at'[b])
    BY <1>1, <2>2 DEF Goes, Dropped
  <2>4. /\ at' \in [Activities -> Where(AtPcs)]
        /\ reconnect' \in [Peers -> Where(ReconnectPcs)]
        /\ \A q \in Peers : Further(q)
    BY <1>1, <1>2, <2>2 DEF Goes, Further, TypeOK, ReconnectPcs
  <2>5. lost' \subseteq Activities \cup Peers
    BY <1>1, <1>2 DEF TypeOK
  <2>. QED
    BY <1>1, <1>3, <2>3, <2>4, <2>5, DroppedInv
<1>4. CASE /\ manifest' = [manifest EXCEPT ![p] = Remote[p]]
           /\ at' = [at EXCEPT ![a] = At("judging", Remote[p], 0)]
  <2>. DEFINE s == At("judging", Remote[p], 0)
  <2>1. /\ s \in Where(AtPcs) /\ s.pc = "judging" /\ s.via = 0
        /\ s.with = Remote[p] /\ s.with # None
    BY <1>2 DEF Where, AtPcs, At
  <2>. HIDE DEF s
  <2>2. Goes(a, s)
    BY <1>4, <2>1, GoesFacts DEF s
  <2>. USE DEF Goes
  <2>3. /\ manifest' \in [Peers -> Manifests \cup {None}]
        /\ manifest'[p] = Remote[p] /\ manifest'[p] # None
        /\ \A q \in Peers : q # p => manifest'[q] = manifest[q]
    BY <1>2, <1>4 DEF TypeOK
  <2>4. TypeOK'
    <3>1. /\ at' \in [Activities -> Where(AtPcs)]
          /\ manifest' \in [Peers -> Manifests \cup {None}]
      BY <2>2, <2>3
    <3>. QED
      BY <1>1, <1>2, <3>1 DEF TypeOK
  <2>5. HasPeer' /\ Waits' /\ AskOne' /\ AlwaysConnected'
    BY <1>1, <1>2, <2>1, <2>2 DEF Inv, HasPeer, Trying, Waits, AskOne, AlwaysConnected
  <2>6. p \in Made
    BY <1>2 DEF Inv, Known, TypeOK, Peer
  <2>7. Known' /\ Startable'
    BY <1>1, <1>2, <2>3, <2>6 DEF Inv, Known, Startable, Made
  <2>8. HasClient'
    BY <1>1, <2>1, <2>2 DEF Inv, HasClient, Peer
  <2>9. JobsTrackCalls'
    BY <1>1, <2>1, <2>2 DEF Inv, JobsTrackCalls, Unshared, Peer
  <2>10. CancelsAfterCalls'
    BY <1>1, <2>1, <2>2 DEF Inv, CancelsAfterCalls, Unshared, Peer
  <2>11. p \in overtaken \/ manifest[p] \in {None, Remote[p]}
    BY <1>1 DEF Inv, ManifestsCurrent
  <2>12. \A b \in Activities : todo[b] # <<>> => Peer(b) \in Peers
    BY <1>2, UsedPeers
  <2>13. ManifestsCurrent'
    <3>1. ASSUME NEW b \in Activities, at'[b].pc = "judging"
          PROVE  /\ at'[b].with # None
                 /\ Peer(b) \notin overtaken => at'[b].with = manifest'[Peer(b)]
      <4>1. CASE b = a
        BY <2>1, <2>2, <2>3, <4>1
      <4>2. CASE b # a
        <5>1. at[b].pc = "judging" /\ at'[b] = at[b] /\ todo[b] # <<>>
          BY <2>2, <3>1, <4>2 DEF Inv, HasPeer, Trying
        <5>. QED
          BY <5>1, <2>3, <2>11, <2>12 DEF Inv, ManifestsCurrent
      <4>. QED
        BY <4>1, <4>2
    <3>2. ASSUME NEW b \in Activities, at'[b].pc = "fetching", Peer(b) \notin overtaken
          PROVE  manifest'[Peer(b)] \in {None, Remote[Peer(b)]}
      <4>1. at[b].pc = "fetching" /\ todo[b] # <<>>
        BY <2>1, <2>2, <3>2 DEF Inv, HasPeer, Trying
      <4>. QED
        BY <4>1, <2>3, <2>12, <3>2 DEF Inv, ManifestsCurrent
    <3>3. \A q \in Peers \ overtaken :
             reconnect[q].pc = "fetching" => manifest'[q] \in {None, Remote[q]}
      BY <2>3 DEF Inv, ManifestsCurrent
    <3>. QED
      BY <1>1, <3>1, <3>2, <3>3 DEF ManifestsCurrent, Peer
  <2>14. ValidatorsCurrent'
    BY <1>1, <2>3, <2>11 DEF Inv, ValidatorsCurrent
  <2>. QED
    BY <2>4, <2>5, <2>7, <2>8, <2>9, <2>10, <2>13, <2>14 DEF Inv
<1>. QED
  BY <1>3, <1>4 DEF Fetched

(* The peers that are left when the first has been tried.                   *)
LEMMA TailFacts ==
    ASSUME Inv, NEW a \in Activities, todo[a] # <<>>,
           todo' = [todo EXCEPT ![a] = Tail(@)]
    PROVE  /\ todo' \in [Activities -> Seq(Peers)]
           /\ \A b \in Activities : b # a => todo'[b] = todo[b]
           /\ \A i \in 1..Len(todo'[a]) : todo'[a][i] \in Made
           /\ a \in Cancels => todo'[a] = <<>>
<1>1. /\ todo \in [Activities -> Seq(Peers)]
      /\ todo[a] \in Seq(Peers) /\ todo'[a] = Tail(todo[a])
      /\ \A b \in Activities : b # a => todo'[b] = todo[b]
      /\ \A i \in 1..Len(todo[a]) : todo[a][i] \in Made
      /\ a \in Cancels => Len(todo[a]) <= 1
  BY DEF Inv, TypeOK, Known, AskOne
<1>2. /\ Tail(todo[a]) \in Seq(Peers) /\ Len(Tail(todo[a])) = Len(todo[a]) - 1
      /\ \A i \in 1..Len(Tail(todo[a])) : /\ Tail(todo[a])[i] = todo[a][i + 1]
                                          /\ i + 1 \in 1..Len(todo[a])
  BY <1>1
<1>3. todo' \in [Activities -> Seq(Peers)]
  BY <1>1, <1>2
<1>4. \A i \in 1..Len(todo'[a]) : todo'[a][i] \in Made
  BY <1>1, <1>2
<1>5. Len(todo[a]) <= 1 => todo'[a] = <<>>
  BY <1>1, <1>2
<1>. QED
  BY <1>1, <1>3, <1>4, <1>5

(* The step to the next peer, after one that is not capable or that cannot  *)
(* be connected to.                                                         *)
LEMMA NextPeerInv ==
    ASSUME Inv, NEW a \in Activities, at[a].pc \in {"judging", "connecting"},
           at' = [at EXCEPT ![a] = Here("next")],
           todo' = [todo EXCEPT ![a] = Tail(@)],
           validators' \in [Peers -> [Methods -> Manifests \cup {None}]],
           ValidatorsCurrent',
           UNCHANGED <<peers, jobs, client, kind, manifest, reconnect, history>>
    PROVE  Inv'
<1>. USE ActivityFacts DEF history
<1>1. TypeOK /\ todo[a] # <<>>
  BY DEF Inv, HasPeer, Trying
<1>2. /\ Here("next") \in Where(AtPcs) /\ Here("next").pc = "next"
      /\ Here("next").via = 0
  BY DEF Where, AtPcs, Here, At
<1>3. Goes(a, Here("next"))
  BY <1>2, GoesFacts
<1>. USE DEF Goes
<1>4. /\ todo' \in [Activities -> Seq(Peers)]
      /\ \A b \in Activities : b # a => todo'[b] = todo[b]
      /\ \A i \in 1..Len(todo'[a]) : todo'[a][i] \in Made
      /\ a \in Cancels => todo'[a] = <<>>
  BY <1>1, TailFacts
<1>5. TypeOK'
  BY <1>1, <1>3, <1>4 DEF TypeOK
<1>6. HasPeer' /\ Waits' /\ AskOne' /\ AlwaysConnected'
  BY <1>2, <1>3, <1>4 DEF Inv, HasPeer, Trying, Waits, AskOne, AlwaysConnected
<1>7. Known' /\ Startable'
  BY <1>4 DEF Inv, Known, Startable, Made
<1>8. HasClient'
  BY <1>2, <1>3, <1>4 DEF Inv, HasClient, Peer
<1>9. \A c \in Calls \ {a} : at'[c].pc = at[c].pc /\ Peer(c)' = Peer(c)
  BY <1>3, <1>4 DEF Peer
<1>10. JobsTrackCalls'
  BY <1>2, <1>3, <1>9 DEF Inv, JobsTrackCalls, Unshared
<1>11. CancelsAfterCalls'
  BY <1>3, <1>4, <1>9 DEF Inv, CancelsAfterCalls, Unshared, Peer
<1>12. ManifestsCurrent'
  BY <1>2, <1>3, <1>4 DEF Inv, ManifestsCurrent, Peer
<1>. QED
  BY <1>5, <1>6, <1>7, <1>8, <1>10, <1>11, <1>12 DEF Inv

(* capable (Delegator.ts:124), and to connect, to cancel or to the next peer.*)
LEMMA JudgeInv == ASSUME Inv, NEW a \in Activities, Judge(a) PROVE Inv'
<1>. USE ActivityFacts DEF peer, history
<1>. DEFINE p == Peer(a)
<1>1. /\ at[a].pc = "judging"
      /\ validators' = [validators EXCEPT ![p][Method(a)] = Validator(a)]
      /\ UNCHANGED <<peers, jobs, client, kind, manifest, reconnect, history>>
  BY DEF Judge
<1>2. /\ TypeOK /\ todo[a] # <<>> /\ p \in Peers /\ Method(a) \in Methods
      /\ at[a] \in Where(AtPcs) /\ at[a].with \in Manifests
      /\ client[p] \in {0} \cup Clients /\ manifest[p] \in Manifests \cup {None}
  BY <1>1, UsedPeers, MethodFacts
     DEF Inv, HasPeer, Trying, ManifestsCurrent, TypeOK, AtPcs, Where
<1>3. /\ Validator(a) \in Manifests \cup {None}
      /\ p \notin overtaken => Validator(a) \in {None, manifest[p]}
  <2>1. validators[p][Method(a)] \in Manifests \cup {None}
    BY <1>2 DEF TypeOK
  <2>2. p \notin overtaken => /\ validators[p][Method(a)] \in {None, manifest[p]}
                              /\ at[a].with = manifest[p]
    BY <1>1, <1>2 DEF Inv, ManifestsCurrent, ValidatorsCurrent
  <2>. QED
    BY <1>2, <2>1, <2>2 DEF Validator
<1>. HIDE DEF p
<1>4. /\ validators' \in [Peers -> [Methods -> Manifests \cup {None}]]
      /\ \A q \in Peers, m \in Methods :
            \/ validators'[q][m] = validators[q][m]
            \/ q = p /\ validators'[q][m] = Validator(a)
  BY <1>1, <1>2, <1>3 DEF TypeOK
<1>5. ValidatorsCurrent'
  BY <1>1, <1>3, <1>4 DEF Inv, ValidatorsCurrent
<1>6. CASE /\ at' = [at EXCEPT ![a] = Here("next")]
           /\ todo' = [todo EXCEPT ![a] = Tail(@)]
  BY <1>1, <1>2, <1>4, <1>5, <1>6, NextPeerInv
<1>7. ASSUME UNCHANGED todo, NEW s \in Where(AtPcs), at' = [at EXCEPT ![a] = s],
             \/ /\ a \in Calls /\ s.via = 0
                /\ \/ s.pc = "connected" /\ client[p] # 0
                   \/ s.pc = "connecting"
             \/ a \in Cancels /\ s.pc = "calling" /\ s.via = client[p]
      PROVE  Inv'
  <2>1. Goes(a, s)
    BY <1>7, GoesFacts
  <2>. USE DEF Goes
  <2>2. TypeOK'
    <3>1. /\ at' \in [Activities -> Where(AtPcs)]
          /\ validators' \in [Peers -> [Methods -> Manifests \cup {None}]]
      BY <1>4, <2>1
    <3>2. UNCHANGED <<peers, jobs, client, kind, manifest, reconnect, todo, history>>
      BY <1>1, <1>7
    <3>. QED
      BY <1>2, <3>1, <3>2 DEF TypeOK
  <2>3. HasPeer' /\ Waits' /\ AskOne'
    BY <1>1, <1>2, <1>7, <2>1 DEF Inv, HasPeer, Trying, Waits, AskOne
  <2>4. AlwaysConnected'
    <3>1. a \in Cancels => client[p] # 0
      BY <1>2 DEF Inv, HasClient, p
    <3>. QED
      BY <1>7, <2>1, <3>1 DEF Inv, AlwaysConnected
  <2>5. Known' /\ Startable'
    BY <1>1, <1>7 DEF Inv, Known, Startable, Made
  <2>6. HasClient'
    BY <1>1, <1>7, <2>1 DEF Inv, HasClient, Peer, p
  <2>7. JobsTrackCalls'
    BY <1>1, <1>7, <2>1 DEF Inv, JobsTrackCalls, Unshared, Peer
  <2>8. CancelsAfterCalls'
    BY <1>1, <1>7, <2>1 DEF Inv, CancelsAfterCalls, Unshared, Peer
  <2>9. ManifestsCurrent'
    BY <1>1, <1>7, <2>1 DEF Inv, ManifestsCurrent, Peer
  <2>. QED
    BY <1>5, <2>2, <2>3, <2>4, <2>5, <2>6, <2>7, <2>8, <2>9 DEF Inv
<1>8. CASE /\ a \in Calls /\ UNCHANGED todo
           /\ at' = [at EXCEPT ![a] =
                 IF client[p] # 0 THEN Here("connected")
                 ELSE At("connecting", manifest[p], 0)]
  <2>1. /\ Here("connected") \in Where(AtPcs)
        /\ Here("connected").pc = "connected" /\ Here("connected").via = 0
        /\ At("connecting", manifest[p], 0) \in Where(AtPcs)
        /\ At("connecting", manifest[p], 0).pc = "connecting"
        /\ At("connecting", manifest[p], 0).via = 0
    BY <1>2 DEF Where, AtPcs, Here, At, p
  <2>2. CASE client[p] # 0
    BY <1>7, <1>8, <2>1, <2>2
  <2>3. CASE client[p] = 0
    BY <1>7, <1>8, <2>1, <2>3
  <2>. QED
    BY <2>2, <2>3
<1>9. CASE /\ a \in Cancels /\ UNCHANGED todo
           /\ at' = [at EXCEPT ![a] = At("calling", None, client[p])]
  <2>1. /\ At("calling", None, client[p]) \in Where(AtPcs)
        /\ At("calling", None, client[p]).pc = "calling"
        /\ At("calling", None, client[p]).via = client[p]
    BY <1>2 DEF Where, AtPcs, At, p
  <2>. QED
    BY <1>7, <1>9, <2>1
<1>. QED
  BY <1>6, <1>8, <1>9 DEF Judge, p

(* A call that has a client, made for it or its peer's already.             *)
LEMMA ConnectedInv ==
    ASSUME Inv, NEW c \in Calls, NEW t \in Types, NewClient(Peer(c), t),
           at[c].pc \in {"connecting", "stopping"},
           at' = [at EXCEPT ![c] = Here("connected")],
           UNCHANGED <<peers, jobs, manifest, validators, reconnect, todo, history>>
    PROVE  Inv'
<1>. USE ActivityFacts DEF history
<1>1. TypeOK /\ todo[c] # <<>> /\ Peer(c) \in Peers
  BY UsedPeers DEF Inv, HasPeer, Trying
<1>2. /\ kind' \in [Clients -> Types \cup {None}]
      /\ client' \in [Peers -> {0} \cup Clients] /\ client'[Peer(c)] # 0
      /\ \A q \in Peers : client[q] # 0 => client'[q] # 0
  BY <1>1, NewClientFacts
<1>3. /\ Here("connected") \in Where(AtPcs) /\ Here("connected").pc = "connected"
      /\ Here("connected").via = 0
  BY DEF Where, AtPcs, Here, At
<1>4. Goes(c, Here("connected"))
  BY <1>3, GoesFacts
<1>. USE DEF Goes
<1>5. TypeOK'
  BY <1>1, <1>2, <1>4 DEF TypeOK
<1>6. HasPeer' /\ Waits' /\ AskOne' /\ AlwaysConnected'
  BY <1>1, <1>3, <1>4 DEF Inv, HasPeer, Trying, Waits, AskOne, AlwaysConnected
<1>7. Known' /\ Startable'
  BY <1>2 DEF Inv, Known, Startable, Made
<1>8. HasClient'
  BY <1>1, <1>2, <1>3, <1>4, UsedPeers DEF Inv, HasPeer, Trying, HasClient, Peer
<1>9. JobsTrackCalls'
  BY <1>3, <1>4 DEF Inv, JobsTrackCalls, Unshared, Peer
<1>10. CancelsAfterCalls'
  BY <1>3, <1>4 DEF Inv, CancelsAfterCalls, Unshared, Peer
<1>11. ManifestsCurrent' /\ ValidatorsCurrent'
  BY <1>3, <1>4 DEF Inv, ManifestsCurrent, ValidatorsCurrent, Peer
<1>. QED
  BY <1>5, <1>6, <1>7, <1>8, <1>9, <1>10, <1>11 DEF Inv

(* connect (Delegator.ts:154): no address, a new client, or the client another*)
(* call has made is stopped.                                                *)
LEMMA ConnectInv == ASSUME Inv, NEW c \in Calls, Connect(c) PROVE Inv'
<1>. USE ActivityFacts DEF peer, history
<1>. DEFINE p == Peer(c)
            m == at[c].with
<1>1. /\ at[c].pc = "connecting"
      /\ UNCHANGED <<peers, jobs, manifest, validators, reconnect, overtaken, updates>>
  BY DEF Connect
<1>2. /\ TypeOK /\ todo[c] # <<>> /\ p \in Peers
      /\ at \in [Activities -> Where(AtPcs)]
  BY <1>1, UsedPeers DEF Inv, HasPeer, Trying, TypeOK, AtPcs
<1>. HIDE DEF p, m
<1>3. CASE /\ at' = [at EXCEPT ![c] = Here("next")]
           /\ todo' = [todo EXCEPT ![c] = Tail(@)]
           /\ UNCHANGED <<client, kind, lost>>
  <2>1. /\ ValidatorsCurrent'
        /\ validators' \in [Peers -> [Methods -> Manifests \cup {None}]]
    BY <1>1, <1>2 DEF Inv, ValidatorsCurrent, TypeOK
  <2>. QED
    BY <1>1, <1>3, <2>1, NextPeerInv
<1>4. CASE /\ \E t \in Types : NewClient(p, t)
           /\ at' = [at EXCEPT ![c] = Here("connected")]
           /\ UNCHANGED <<todo, lost>>
  BY <1>1, <1>4, ConnectedInv DEF p
<1>5. CASE /\ client[p] # 0
           /\ at' = [a \in Activities |-> IF a = c THEN At("stopping", m, 0)
                                          ELSE Rejected(Rejecting({client[p]}), at[a])]
           /\ lost' = lost \cup Waiting(Losing({client[p]}))
           /\ UNCHANGED <<client, kind, todo>>
  <2>1. /\ Rejecting({client[p]}) \in SUBSET Clients
        /\ lost' \subseteq Activities \cup Peers
    BY <1>2, <1>5, LossFacts DEF TypeOK
  <2>2. /\ at[c] \in Where(AtPcs) /\ at[c].via = 0
        /\ At("stopping", m, 0) \in Where(AtPcs)
        /\ At("stopping", m, 0).pc = "stopping" /\ At("stopping", m, 0).via = 0
    BY <1>1, <1>2 DEF Inv, Waits, Where, AtPcs, At, m
  <2>3. /\ at' \in [Activities -> Where(AtPcs)]
        /\ at'[c].pc = "stopping" /\ at'[c].via = 0
    BY <1>2, <1>5, <2>1, <2>2, RejectedTypes
  <2>4. ASSUME NEW b \in Activities, b # c
        PROVE  \/ at'[b] = at[b]
               \/ /\ at'[b].with = None /\ at'[b].via = 0
                  /\ \/ at[b].pc = "fetching" /\ at'[b].pc = "failed"
                     \/ at[b].pc = "calling" /\ at'[b].pc = "rejected"
    <3>1. Dropped(at[b], at'[b])
      BY <1>5, <2>1, <2>4, RejectedFacts DEF Inv, Waits
    <3>. QED
      BY <3>1 DEF Dropped, Here, At
  <2>5. TypeOK'
    BY <1>1, <1>2, <1>5, <2>1, <2>3 DEF TypeOK
  <2>6. UNCHANGED <<client, kind, todo>>
    BY <1>5
  <2>7. HasPeer' /\ Waits' /\ AskOne' /\ AlwaysConnected'
    <3>1. HasPeer'
      BY <1>2, <2>6, <2>3, <2>4 DEF Inv, HasPeer, Trying
    <3>2. Waits' /\ AskOne'
      BY <1>1, <2>6, <2>3, <2>4 DEF Inv, Waits, AskOne
    <3>3. AlwaysConnected'
      BY <2>3, <2>4 DEF Inv, AlwaysConnected
    <3>. QED
      BY <3>1, <3>2, <3>3
  <2>8. Known' /\ Startable'
    BY <1>1, <1>5 DEF Inv, Known, Startable, Made
  <2>9. HasClient'
    BY <1>1, <2>6, <2>3, <2>4 DEF Inv, HasClient, Peer
  <2>10. JobsTrackCalls'
    BY <1>1, <2>6, <2>3, <2>4 DEF Inv, JobsTrackCalls, Unshared, Peer
  <2>11. CancelsAfterCalls'
    BY <1>1, <2>6, <2>3, <2>4 DEF Inv, CancelsAfterCalls, Unshared, Peer
  <2>12. ManifestsCurrent' /\ ValidatorsCurrent'
    <3>1. ValidatorsCurrent'
      BY <1>1 DEF Inv, ValidatorsCurrent
    <3>2. \A b \in Activities :
             at'[b].pc \in {"judging", "fetching"} => at'[b] = at[b]
      BY <2>3, <2>4
    <3>3. ManifestsCurrent'
      BY <1>1, <2>6, <3>2 DEF Inv, ManifestsCurrent, Peer
    <3>. QED
      BY <3>1, <3>3
  <2>. QED
    BY <2>5, <2>7, <2>8, <2>9, <2>10, <2>11, <2>12 DEF Inv
<1>. QED
  BY <1>3, <1>4, <1>5 DEF Connect, p, m

(* The entry in `jobs` (Delegator.ts:304) names the peer that gets the call.*)
LEMMA DelegateInv == ASSUME Inv, NEW c \in Calls, Delegate(c) PROVE Inv'
<1>. USE ActivityFacts DEF peer, history
<1>. DEFINE p == Peer(c)
            s == At("calling", None, client[p])
<1>1. /\ at[c].pc = "connected"
      /\ jobs' = [jobs EXCEPT ![JobId[c]] = p]
      /\ at' = [at EXCEPT ![c] = s]
      /\ UNCHANGED <<peers, peer, reconnect, todo, history>>
  BY DEF Delegate
<1>2. TypeOK /\ todo[c] # <<>> /\ p \in Peers /\ client[p] \in Clients
  BY <1>1, UsedPeers DEF Inv, HasPeer, Trying, HasClient, TypeOK
<1>3. p \in Made
  <2>1. todo[c] \in Seq(Peers) /\ \A i \in 1..Len(todo[c]) : todo[c][i] \in Made
    BY <1>2 DEF Inv, Known, TypeOK
  <2>2. p = todo[c][1] /\ 1 \in 1..Len(todo[c])
    BY <1>2, <2>1 DEF Peer
  <2>. QED
    BY <2>1, <2>2
<1>4. /\ s \in Where(AtPcs) /\ s.pc = "calling" /\ s.via # 0
  BY <1>2 DEF Where, AtPcs, At
<1>. HIDE DEF s
<1>5. Goes(c, s)
  BY <1>1, <1>4, GoesFacts
<1>. USE DEF Goes
<1>6. /\ jobs' \in [Jobs -> Peers \cup {None}] /\ jobs'[JobId[c]] = p
      /\ \A j \in Jobs : j # JobId[c] => jobs'[j] = jobs[j]
  BY <1>1, <1>2 DEF TypeOK
<1>. HIDE DEF p
<1>7. TypeOK'
  BY <1>1, <1>2, <1>5, <1>6 DEF TypeOK
<1>8. HasPeer' /\ Waits' /\ AskOne' /\ AlwaysConnected'
  BY <1>1, <1>2, <1>4, <1>5 DEF Inv, HasPeer, Trying, Waits, AskOne, AlwaysConnected
<1>9. Known' /\ Startable'
  BY <1>1, <1>3, <1>6 DEF Inv, Known, Startable, Made
<1>10. HasClient'
  BY <1>1, <1>2, <1>4, <1>5, <1>6 DEF Inv, HasClient, Peer
<1>11. JobsTrackCalls'
  BY <1>1, <1>4, <1>5, <1>6 DEF Inv, JobsTrackCalls, Unshared, Peer, p
<1>12. CancelsAfterCalls'
  BY <1>1, <1>4, <1>5 DEF Inv, CancelsAfterCalls, Unshared, Peer
<1>13. ManifestsCurrent' /\ ValidatorsCurrent'
  BY <1>1, <1>4, <1>5 DEF Inv, ManifestsCurrent, ValidatorsCurrent, Peer
<1>. QED
  BY <1>7, <1>8, <1>9, <1>10, <1>11, <1>12, <1>13 DEF Inv

(* The answer of a peer (Delegator.ts:307).                                 *)
LEMMA AnswerInv == ASSUME Inv, NEW a \in Activities, Answer(a) PROVE Inv'
<1>. USE ActivityFacts DEF peer, history
<1>1. /\ at[a].pc = "calling"
      /\ UNCHANGED <<peers, peer, reconnect, todo, history>>
  BY DEF Answer
<1>2. TypeOK
  BY DEF Inv
<1>3. CASE at' = [at EXCEPT ![a] = Here("rejected")] /\ UNCHANGED jobs
  <2>1. Here("rejected") \in Where(AtPcs)
    BY DEF Where, AtPcs, Ended, Here, At
  <2>2. Goes(a, Here("rejected"))
    BY <1>3, <2>1, GoesFacts
  <2>3. \A b \in Activities : Dropped(at[b], at'[b])
    BY <1>1, <2>2 DEF Goes, Dropped
  <2>4. /\ at' \in [Activities -> Where(AtPcs)]
        /\ reconnect' \in [Peers -> Where(ReconnectPcs)]
        /\ \A q \in Peers : Further(q)
    BY <1>1, <1>2, <2>2 DEF Goes, Further, TypeOK, ReconnectPcs
  <2>5. lost' \subseteq Activities \cup Peers
    BY <1>1, <1>2 DEF TypeOK
  <2>. QED
    BY <1>1, <1>3, <2>3, <2>4, <2>5, DroppedInv
<1>4. CASE /\ at' = [at EXCEPT ![a] = Here("resolved")]
           /\ jobs' = IF a \in Calls THEN [jobs EXCEPT ![JobId[a]] = None]
                                     ELSE jobs
  <2>1. /\ Here("resolved") \in Where(AtPcs) /\ Here("resolved").pc = "resolved"
        /\ Here("resolved").via = 0
    BY DEF Where, AtPcs, Ended, Here, At
  <2>2. Goes(a, Here("resolved"))
    BY <1>4, <2>1, GoesFacts
  <2>. USE DEF Goes
  <2>3. /\ jobs' \in [Jobs -> Peers \cup {None}]
        /\ a \in Calls => jobs'[JobId[a]] = None
        /\ \A j \in Jobs : jobs'[j] = jobs[j] \/ jobs'[j] = None
        /\ \A j \in Jobs : a \notin Calls \/ j # JobId[a] => jobs'[j] = jobs[j]
    BY <1>2, <1>4 DEF TypeOK
  <2>4. TypeOK'
    BY <1>1, <1>2, <2>2, <2>3 DEF TypeOK
  <2>5. HasPeer' /\ Waits' /\ AskOne' /\ AlwaysConnected'
    BY <1>1, <2>1, <2>2 DEF Inv, HasPeer, Trying, Waits, AskOne, AlwaysConnected
  <2>6. Known' /\ Startable'
    BY <1>1, <2>3 DEF Inv, Known, Startable, Made
  <2>7. HasClient'
    BY <1>1, <2>1, <2>2, <2>3 DEF Inv, HasClient, Peer
  <2>8. JobsTrackCalls'
    BY <1>1, <2>1, <2>2, <2>3 DEF Inv, JobsTrackCalls, Unshared, Peer
  <2>9. CancelsAfterCalls'
    BY <1>1, <2>1, <2>2 DEF Inv, CancelsAfterCalls, Unshared, Peer
  <2>10. ManifestsCurrent' /\ ValidatorsCurrent'
    BY <1>1, <2>1, <2>2 DEF Inv, ManifestsCurrent, ValidatorsCurrent, Peer
  <2>. QED
    BY <2>4, <2>5, <2>6, <2>7, <2>8, <2>9, <2>10 DEF Inv
<1>. QED
  BY <1>3, <1>4 DEF Answer

(* Steps of others change nothing.                                          *)
LEMMA StutterInv == ASSUME Inv, UNCHANGED vars PROVE Inv'
<1>. USE DEF vars, peer, history
<1>1. TypeOK'
  BY DEF Inv, TypeOK
<1>2. HasPeer' /\ Waits' /\ AskOne' /\ AlwaysConnected'
  BY DEF Inv, HasPeer, Waits, AskOne, AlwaysConnected
<1>3. Known' /\ Startable' /\ HasClient'
  BY DEF Inv, Known, Startable, Made, HasClient, Peer
<1>4. JobsTrackCalls' /\ CancelsAfterCalls'
  BY DEF Inv, JobsTrackCalls, CancelsAfterCalls, Unshared, Peer
<1>5. ManifestsCurrent' /\ ValidatorsCurrent'
  BY DEF Inv, ManifestsCurrent, ValidatorsCurrent, Peer
<1>. QED
  BY <1>1, <1>2, <1>3, <1>4, <1>5 DEF Inv

(* No step breaks Inv.                                                      *)
LEMMA NextInv == Inv /\ [Next]_vars => Inv'
<1>. SUFFICES ASSUME Inv, [Next]_vars PROVE Inv'
  OBVIOUS
<1>1. CASE UNCHANGED vars
  BY <1>1, StutterInv
<1>2. ASSUME NEW p \in Peers, Add(p) PROVE Inv'
  BY <1>2, AddInv
<1>3. ASSUME NEW p \in Peers, Remove(p) PROVE Inv'
  BY <1>3, RemoveInv
<1>4. ASSUME NEW p \in Peers, ReconnectFetched(p) PROVE Inv'
  BY <1>4, ReconnectFetchedInv
<1>5. ASSUME NEW p \in Peers, Reconnect(p) PROVE Inv'
  BY <1>5, ReconnectInv
<1>6. ASSUME NEW p \in Peers, Reconnected(p) PROVE Inv'
  BY <1>6, ReconnectedInv DEF Reconnected
<1>7. ASSUME NEW p \in Peers, NEW m \in Manifests, AddManifest(p, m) PROVE Inv'
  BY <1>7, AddManifestInv
<1>8. ASSUME NEW p \in Peers, NEW m \in Manifests, Update(p, m) PROVE Inv'
  BY <1>8, UpdateInv
<1>9. CASE Stop
  BY <1>9, StopInv
<1>10. ASSUME NEW c \in Calls, Call(c) PROVE Inv'
  BY <1>10, CallInv
<1>11. ASSUME NEW c \in Calls, Connect(c) PROVE Inv'
  BY <1>11, ConnectInv
<1>12. ASSUME NEW c \in Calls, Connected(c) PROVE Inv'
  BY <1>12, ConnectedInv DEF Connected
<1>13. ASSUME NEW c \in Calls, Delegate(c) PROVE Inv'
  BY <1>13, DelegateInv
<1>14. ASSUME NEW j \in Cancels, Cancel(j) PROVE Inv'
  BY <1>14, CancelInv
<1>15. ASSUME NEW a \in Activities, Try(a) PROVE Inv'
  BY <1>15, TryInv
<1>16. ASSUME NEW a \in Activities, Fetched(a) PROVE Inv'
  BY <1>16, FetchedInv
<1>17. ASSUME NEW a \in Activities, Judge(a) PROVE Inv'
  BY <1>17, JudgeInv
<1>18. ASSUME NEW a \in Activities, Answer(a) PROVE Inv'
  BY <1>18, AnswerInv
<1>19. ASSUME NEW a \in Activities, Lose(a) PROVE Inv'
  BY <1>19, LoseInv
<1>. QED
  BY <1>1, <1>2, <1>3, <1>4, <1>5, <1>6, <1>7, <1>8, <1>9, <1>10, <1>11,
     <1>12, <1>13, <1>14, <1>15, <1>16, <1>17, <1>18, <1>19 DEF Next

(* Inv holds of every state.                                                *)
THEOREM Invariance == Spec => []Inv
BY InitInv, NextInv, PTL DEF Spec

-----------------------------------------------------------------------------
(* Delegator.ts: what Peer and Delegator keep is well formed, and no peer   *)
(* is listed twice.                                                         *)
THEOREM TypeCorrect == Spec => []TypeOK
<1>1. Inv => TypeOK
  BY DEF Inv
<1>. QED
  BY <1>1, Invariance, PTL

(* `jobs` (Delegator.ts:248): the job of a call is known exactly from its   *)
(* delegation to its result, and names the peer that works on it.           *)
THEOREM JobsTracked == Spec => []JobsTrackCalls
<1>1. Inv => JobsTrackCalls
  BY DEF Inv
<1>. QED
  BY <1>1, Invariance, PTL

(* cancel (Delegator.ts:284): a cancellation is only ever passed to the     *)
(* peer that the job itself was passed to.                                  *)
THEOREM CancelsFollow == Spec => []CancelsFollowCalls
<1>1. Inv => CancelsFollowCalls
  BY ActivityFacts DEF Inv, CancelsFollowCalls, CancelsAfterCalls, HasPeer, Trying
<1>. QED
  BY <1>1, Invariance, PTL

(* Peer.call (Delegator.ts:211) and Peer.start (Delegator.ts:78) always     *)
(* find a client, so their internal errors are never thrown.                *)
THEOREM Connection == Spec => []AlwaysConnected
<1>1. Inv => AlwaysConnected
  BY DEF Inv
<1>. QED
  BY <1>1, Invariance, PTL

(* capable and update (Delegator.ts:137, 93): outside of the window that    *)
(* `overtaken` records, no validator is of an older manifest.               *)
THEOREM Validators == Spec => []ValidatorsCurrent
<1>1. Inv => ValidatorsCurrent
  BY DEF Inv
<1>. QED
  BY <1>1, Invariance, PTL

-----------------------------------------------------------------------------
(* How far a call or a cancellation is from its end: what it has to do at   *)
(* most with the peer that it tries, and as much with each one after that.  *)
Stage == [next |-> 7, fetching |-> 6, judging |-> 5, connecting |-> 4,
          stopping |-> 3, connected |-> 2, calling |-> 1,
          unable |-> 0, failed |-> 0, resolved |-> 0, rejected |-> 0]

Effort(a) == 8 * Len(todo[a]) + Stage[at[a].pc]

(* It goes on with the peer that it tries, or to the next one.              *)
Onward(a) ==
    /\ at[a].pc # "idle" /\ at'[a].pc # "idle"
    /\ \/ todo'[a] = todo[a] /\ Stage[at'[a].pc] < Stage[at[a].pc]
       \/ /\ todo[a] # <<>> /\ todo'[a] = Tail(todo[a])
          /\ at[a].pc \in {"judging", "connecting"} /\ at'[a].pc = "next"

LEMMA StageFacts == \A pc \in AtPcs \ {"idle"} : Stage[pc] \in 0..7
BY DEF Stage, AtPcs, Ended

LEMMA OnwardEffort ==
    ASSUME TypeOK, TypeOK', NEW a \in Activities, Onward(a)
    PROVE  Effort(a)' < Effort(a)
<1>1. /\ todo[a] \in Seq(Peers) /\ todo'[a] \in Seq(Peers)
      /\ at[a].pc \in AtPcs /\ at'[a].pc \in AtPcs
  BY DEF TypeOK, Where
<1>2. Stage[at[a].pc] \in 0..7 /\ Stage[at'[a].pc] \in 0..7
  BY <1>1, StageFacts DEF Onward
<1>3. Effort(a) = 8 * Len(todo[a]) + Stage[at[a].pc]
  BY DEF Effort
<1>4. Effort(a)' = 8 * Len(todo'[a]) + Stage[at'[a].pc]
  BY DEF Effort
<1>5. Len(todo[a]) \in Nat /\ Len(todo'[a]) \in Nat
  BY <1>1
<1>6. CASE todo'[a] = todo[a] /\ Stage[at'[a].pc] < Stage[at[a].pc]
  <2>1. Effort(a)' = 8 * Len(todo[a]) + Stage[at'[a].pc]
    BY <1>4, <1>6
  <2>2. \A n \in Nat : \A s, t \in 0..7 : t < s => 8 * n + t < 8 * n + s
    OBVIOUS
  <2>. QED
    BY <1>2, <1>3, <1>5, <1>6, <2>1, <2>2
<1>7. CASE /\ todo[a] # <<>> /\ todo'[a] = Tail(todo[a])
           /\ at[a].pc \in {"judging", "connecting"} /\ at'[a].pc = "next"
  <2>1. Len(todo'[a]) = Len(todo[a]) - 1
    BY <1>1, <1>7
  <2>2. Stage[at[a].pc] >= 4 /\ Stage[at'[a].pc] = 7
    BY <1>7 DEF Stage
  <2>. QED
    BY <1>2, <1>3, <1>4, <1>5, <2>1, <2>2
<1>. QED
  BY <1>6, <1>7 DEF Onward

(* Its own steps take it onward.                                            *)
LEMMA ProgressOnward ==
    ASSUME Inv, NEW a \in Activities, Progress(a)
    PROVE  Onward(a)
<1>. USE DEF Here, At, Stage
<1>1. at \in [Activities -> Where(AtPcs)] /\ todo \in [Activities -> Seq(Peers)]
  BY DEF Inv, TypeOK
<1>2. at[a].pc \in Trying => todo[a] # <<>>
  BY DEF Inv, HasPeer
<1>3. CASE Try(a)
  BY <1>1, <1>3 DEF Try, Onward
<1>4. CASE Fetched(a)
  BY <1>1, <1>4 DEF Fetched, Onward
<1>5. CASE Judge(a)
  BY <1>1, <1>2, <1>5 DEF Judge, Onward, Trying
<1>6. CASE Answer(a)
  BY <1>1, <1>6 DEF Answer, Onward
<1>7. CASE a \in Calls /\ Connect(a)
  BY <1>1, <1>2, <1>7 DEF Connect, Onward, Trying
<1>8. CASE a \in Calls /\ (Connected(a) \/ Delegate(a))
  BY <1>1, <1>8 DEF Connected, Delegate, Onward
<1>. QED
  BY <1>3, <1>4, <1>5, <1>6, <1>7, <1>8 DEF Progress

(* Whoever loses the client that it waits for is at its end.                *)
LEMMA DroppedOnward ==
    ASSUME NEW a \in Activities, Dropped(at[a], at'[a]), todo' = todo
    PROVE  (at'[a] = at[a] /\ todo'[a] = todo[a]) \/ Onward(a)
BY DEF Dropped, Onward, Here, At, Stage

(* Other steps leave it where it is, or take its client away.               *)
LEMMA StepOnward ==
    ASSUME Inv, Next, NEW a \in Activities, at[a].pc # "idle"
    PROVE  (at'[a] = at[a] /\ todo'[a] = todo[a]) \/ Onward(a)
<1>1. at \in [Activities -> Where(AtPcs)] /\ todo \in [Activities -> Seq(Peers)]
  BY DEF Inv, TypeOK
<1>2. ASSUME NEW K \in SUBSET Clients
      PROVE  Dropped(at[a], Rejected(Rejecting(K), at[a]))
  BY <1>2, RejectedFacts, LossFacts DEF Inv, Waits
<1>3. CASE Progress(a)
  BY <1>3, ProgressOnward
<1>4. CASE at' = at /\ todo' = todo
  BY <1>4
<1>5. ASSUME NEW b \in Activities, b # a,
             \/ Try(b) \/ Fetched(b) \/ Judge(b) \/ Answer(b)
             \/ b \in Calls /\ (Call(b) \/ Connected(b) \/ Delegate(b))
             \/ b \in Cancels /\ Cancel(b)
      PROVE  at'[a] = at[a] /\ todo'[a] = todo[a]
  BY <1>1, <1>5 DEF Try, Fetched, Judge, Answer, Call, Connected, Delegate, Cancel
<1>6. CASE Stop
  <2>1. {client[p] : p \in {q \in Peers : InTable(q)}} \ {0} \in SUBSET Clients
    BY DEF Inv, TypeOK
  <2>2. Dropped(at[a], at'[a]) /\ todo' = todo
    BY <1>2, <1>6, <2>1 DEF Stop
  <2>. QED
    BY <2>2, DroppedOnward
<1>7. ASSUME NEW p \in Peers, Reconnect(p), at' # at
      PROVE  (at'[a] = at[a] /\ todo'[a] = todo[a]) \/ Onward(a)
  <2>1. /\ at' = [b \in Activities |-> Rejected(Rejecting({client[p]}), at[b])]
        /\ client[p] # 0 /\ todo' = todo
    BY <1>7 DEF Reconnect
  <2>2. {client[p]} \in SUBSET Clients
    BY <2>1 DEF Inv, TypeOK
  <2>. QED
    BY <1>2, <2>1, <2>2, DroppedOnward
<1>8. ASSUME NEW c \in Calls, c # a, Connect(c)
      PROVE  (at'[a] = at[a] /\ todo'[a] = todo[a]) \/ Onward(a)
  <2>1. todo'[a] = todo[a]
    BY <1>1, <1>8 DEF Connect
  <2>2. \/ at'[a] = at[a]
        \/ /\ at'[a] = Rejected(Rejecting({client[Peer(c)]}), at[a])
           /\ client[Peer(c)] # 0 /\ todo' = todo
    BY <1>1, <1>8 DEF Connect
  <2>3. at[c].pc = "connecting"
    BY <1>8 DEF Connect
  <2>4. Peer(c) \in Peers
    BY <2>3, UsedPeers, ActivityFacts DEF Inv, HasPeer, Trying
  <2>5. client[Peer(c)] # 0 => {client[Peer(c)]} \in SUBSET Clients
    BY <2>4 DEF Inv, TypeOK
  <2>. QED
    BY <1>2, <2>1, <2>2, <2>5, DroppedOnward
<1>9. ASSUME NEW p \in Peers,
             \/ Add(p) \/ Remove(p) \/ ReconnectFetched(p) \/ Reconnected(p)
             \/ \E m \in Manifests : AddManifest(p, m) \/ Update(p, m)
      PROVE  at' = at /\ todo' = todo
  BY <1>9 DEF Add, Remove, ReconnectFetched, Reconnected, AddManifest, Update
<1>10. ASSUME NEW p \in Peers, Reconnect(p)
       PROVE  (at'[a] = at[a] /\ todo'[a] = todo[a]) \/ Onward(a)
  <2>1. todo' = todo
    BY <1>10 DEF Reconnect
  <2>. QED
    BY <1>7, <1>10, <2>1
<1>11. ASSUME \/ a \in Calls /\ Call(a)
              \/ a \in Cancels /\ Cancel(a)
       PROVE  FALSE
  BY <1>11 DEF Call, Cancel
<1>12. CASE \E c \in Calls : Call(c) \/ Connect(c) \/ Connected(c) \/ Delegate(c)
  BY <1>3, <1>5, <1>8, <1>11, <1>12, ActivityFacts DEF Progress
<1>13. CASE \E j \in Cancels : Cancel(j)
  BY <1>5, <1>11, <1>13, ActivityFacts
<1>14. CASE \E b \in Activities : Try(b) \/ Fetched(b) \/ Judge(b) \/ Answer(b)
  BY <1>3, <1>5, <1>14 DEF Progress
<1>15. CASE \E b \in Activities : Lose(b)
  BY <1>4, <1>15 DEF Lose
<1>. QED
  BY <1>4, <1>6, <1>9, <1>10, <1>12, <1>13, <1>14, <1>15 DEF Next

(* Each step of a call or a cancellation (Delegator.ts:284-316) brings it   *)
(* closer to its end, and whatever peers, clients and other calls do takes  *)
(* it no further away, though clients may be replaced under it again and    *)
(* again: it ends after 8 steps for each peer there was when it began, and  *)
(* 7.  All that CallsEnd needs beyond this is that the steps are taken,     *)
(* which they are unless an answer is lost.                                 *)
THEOREM CallsComeCloser ==
    Spec => [][\A a \in Activities : at[a].pc # "idle" =>
                  /\ Effort(a)' <= Effort(a)
                  /\ Progress(a) => Effort(a)' < Effort(a)]_vars
<1>1. Inv /\ Inv' /\ [Next]_vars =>
         [\A a \in Activities : at[a].pc # "idle" =>
             /\ Effort(a)' <= Effort(a)
             /\ Progress(a) => Effort(a)' < Effort(a)]_vars
  <2>. SUFFICES ASSUME Inv, Inv', Next, NEW a \in Activities, at[a].pc # "idle"
                PROVE  /\ Effort(a)' <= Effort(a)
                       /\ Progress(a) => Effort(a)' < Effort(a)
    OBVIOUS
  <2>1. TypeOK /\ TypeOK'
    BY DEF Inv
  <2>2. Effort(a) \in Int /\ Effort(a)' \in Int
    <3>1. /\ Len(todo[a]) \in Nat /\ at[a].pc \in AtPcs
          /\ Len(todo'[a]) \in Nat /\ at'[a].pc \in AtPcs
      BY <2>1 DEF TypeOK, Where
    <3>2. at'[a].pc # "idle"
      BY StepOnward DEF Onward
    <3>3. Stage[at[a].pc] \in 0..7 /\ Stage[at'[a].pc] \in 0..7
      BY <3>1, <3>2, StageFacts
    <3>4. \A n \in Nat : \A t \in 0..7 : 8 * n + t \in Int
      OBVIOUS
    <3>. QED
      BY <3>1, <3>3, <3>4 DEF Effort
  <2>3. CASE Onward(a)
    <3>1. Effort(a)' < Effort(a)
      BY <2>1, <2>3, OnwardEffort
    <3>. QED
      BY <2>2, <3>1
  <2>4. CASE at'[a] = at[a] /\ todo'[a] = todo[a] /\ ~Onward(a)
    <3>1. Effort(a)' = Effort(a)
      BY <2>4 DEF Effort
    <3>2. ~Progress(a)
      BY <2>4, ProgressOnward
    <3>. QED
      BY <2>2, <3>1, <3>2
  <2>. QED
    BY <2>3, <2>4, StepOnward
<1>. QED
  BY <1>1, Invariance, PTL DEF Spec

-----------------------------------------------------------------------------
(* Delegator implements Delegation.  That rests on the invariant too: who   *)
(* is rejected was waiting for a client, and who works has a peer.          *)

LEMMA PhaseFacts ==
    /\ PhaseOf("calling") = "working"
    /\ \A pc \in {"idle"} \cup Ended : PhaseOf(pc) = pc
    /\ \A pc \in {"next", "fetching", "judging", "connecting", "stopping",
                  "connected"} : PhaseOf(pc) = "finding"
BY DEF PhaseOf, Ended

(* What Delegation sees of an activity.                                     *)
LEMMA SeenFacts ==
    ASSUME NEW a \in Activities
    PROVE  /\ phases[a] = PhaseOf(at[a].pc)
           /\ a \in Cancels => workers[a] = IF todo[a] = <<>> THEN None ELSE Peer(a)
           /\ a \in Calls => workers[a] =
                 IF at[a].pc \in {"calling", "resolved", "rejected"} THEN Peer(a)
                                                                     ELSE None
BY ActivityFacts DEF phases, workers

LEMMA SeenFactsNext ==
    ASSUME NEW a \in Activities
    PROVE  /\ phases'[a] = PhaseOf(at'[a].pc)
           /\ a \in Cancels => workers'[a] = IF todo'[a] = <<>> THEN None ELSE Peer(a)'
           /\ a \in Calls => workers'[a] =
                 IF at'[a].pc \in {"calling", "resolved", "rejected"} THEN Peer(a)'
                                                                      ELSE None
BY ActivityFacts DEF phases, workers

(* A step of one activity changes what is seen of that one.                 *)
LEMMA OneStep ==
    ASSUME NEW a \in Activities,
           \A b \in Activities \ {a} : at'[b] = at[b] /\ todo'[b] = todo[b]
    PROVE  /\ phases' = [phases EXCEPT ![a] = PhaseOf(at'[a].pc)]
           /\ workers' = [workers EXCEPT ![a] = workers'[a]]
<1>1. \A b \in Activities \ {a} : phases'[b] = phases[b] /\ workers'[b] = workers[b]
  BY DEF phases, workers, Peer
<1>2. /\ phases = [b \in Activities |-> phases[b]]
      /\ phases' = [b \in Activities |-> phases'[b]]
      /\ workers = [b \in Activities |-> workers[b]]
      /\ workers' = [b \in Activities |-> workers'[b]]
  BY DEF phases, workers
<1>3. phases'[a] = PhaseOf(at'[a].pc)
  BY SeenFactsNext
<1>. HIDE DEF phases, workers
<1>. QED
  BY <1>1, <1>2, <1>3

(* Nothing is seen of a step that leaves what is seen of the one it is of.  *)
LEMMA UnseenStep ==
    ASSUME NEW a \in Activities, jobs' = jobs,
           \A b \in Activities \ {a} : at'[b] = at[b] /\ todo'[b] = todo[b],
           phases'[a] = phases[a], workers'[a] = workers[a]
    PROVE  UNCHANGED Abstract!delegation
<1>1. /\ phases' = [phases EXCEPT ![a] = phases'[a]]
      /\ workers' = [workers EXCEPT ![a] = workers'[a]]
  BY OneStep, SeenFactsNext
<1>2. /\ phases = [b \in Activities |-> phases[b]]
      /\ workers = [b \in Activities |-> workers[b]]
  BY DEF phases, workers
<1>. HIDE DEF phases, workers
<1>3. phases' = phases /\ workers' = workers
  BY <1>1, <1>2
<1>. QED
  BY <1>3 DEF Abstract!delegation

(* Those who are rejected drop out, several at once.                        *)
LEMMA DropStep ==
    ASSUME Inv, jobs' = jobs, todo' = todo,
           \A a \in Activities :
              \/ Dropped(at[a], at'[a])
              \/ at[a].pc = "connecting" /\ at'[a].pc = "stopping"
    PROVE  [Abstract!Next]_Abstract!delegation
<1>. DEFINE S == {a \in Activities : phases'[a] # phases[a]}
<1>1. \A a \in Activities :
         \/ at'[a].pc = at[a].pc
         \/ at[a].pc = "fetching" /\ at'[a].pc = "failed"
         \/ at[a].pc = "calling" /\ at'[a].pc = "rejected"
         \/ at[a].pc = "connecting" /\ at'[a].pc = "stopping"
  BY DEF Dropped, Here, At
<1>2. \A a \in Activities :
         \/ phases'[a] = phases[a]
         \/ phases[a] = "finding" /\ phases'[a] = "failed"
         \/ phases[a] = "working" /\ phases'[a] = "rejected"
  BY <1>1, SeenFacts, SeenFactsNext, PhaseFacts DEF Ended
<1>3. ASSUME NEW a \in Activities PROVE workers'[a] = workers[a]
  <2>1. Peer(a)' = Peer(a)
    BY DEF Peer
  <2>2. CASE a \in Cancels
    BY <2>1, <2>2, SeenFacts, SeenFactsNext
  <2>3. CASE a \in Calls
    <3>1. at'[a].pc \in {"calling", "resolved", "rejected"}
             <=> at[a].pc \in {"calling", "resolved", "rejected"}
      BY <1>1
    <3>. QED
      BY <2>1, <2>3, <3>1, SeenFacts, SeenFactsNext
  <2>. QED
    BY <2>2, <2>3 DEF Activities
<1>4. /\ workers' = [a \in Activities |-> workers'[a]]
      /\ workers = [a \in Activities |-> workers[a]]
      /\ phases' = [a \in Activities |-> phases'[a]]
  BY DEF phases, workers
<1>. HIDE DEF phases, workers
<1>5. workers' = workers
  BY <1>3, <1>4
<1>6. \A a \in S : phases[a] \in {"finding", "working"}
  BY <1>2
<1>7. phases' = [a \in Activities |->
          IF a \notin S THEN phases[a]
          ELSE IF phases[a] = "working" THEN "rejected" ELSE "failed"]
  BY <1>2, <1>4
<1>8. S \in SUBSET Abstract!Busy
  BY <1>6 DEF Abstract!Busy, Abstract!Activities, Activities
<1>. HIDE DEF S
<1>9. Abstract!Drop(S)
  BY <1>5, <1>7 DEF Abstract!Drop, Abstract!Activities, Activities
<1>. QED
  BY <1>8, <1>9 DEF Abstract!Next, Abstract!Proceed

-----------------------------------------------------------------------------
LEMMA InitRefines == Init => Abstract!Init
BY PhaseFacts DEF Init, Abstract!Init, phases, workers, PhaseOf, Here, At,
   Abstract!Activities, Activities

(* What the actions do to the one that they are of.                         *)
Only(a, s, t) ==
    /\ at' = [at EXCEPT ![a] = s]
    /\ todo' = [todo EXCEPT ![a] = t]

LEMMA OnlyFacts ==
    ASSUME TypeOK, NEW a \in Activities, NEW s, NEW t, Only(a, s, t)
    PROVE  /\ at'[a] = s /\ todo'[a] = t
           /\ \A b \in Activities \ {a} : at'[b] = at[b] /\ todo'[b] = todo[b]
           /\ todo[a] \in Seq(Peers)
BY DEF Only, TypeOK

(* Going on with the same peer, or a call with another, is not seen.        *)
LEMMA SearchStep ==
    ASSUME TypeOK, jobs' = jobs, NEW a \in Activities, NEW s, NEW t, Only(a, s, t),
           phases[a] = "finding", PhaseOf(s.pc) = "finding",
           t = todo[a] \/ a \in Calls
    PROVE  UNCHANGED Abstract!delegation
<1>1. /\ at'[a] = s /\ todo'[a] = t
      /\ \A b \in Activities \ {a} : at'[b] = at[b] /\ todo'[b] = todo[b]
  BY OnlyFacts
<1>2. phases'[a] = phases[a]
  BY <1>1, SeenFactsNext
<1>3. \A pc : PhaseOf(pc) = "finding" => pc \notin {"calling", "resolved", "rejected"}
  BY PhaseFacts DEF Ended
<1>4. workers'[a] = workers[a]
  <2>1. CASE a \in Calls
    BY <1>1, <1>3, <2>1, SeenFacts, SeenFactsNext
  <2>2. CASE a \in Cancels
    BY <1>1, <2>2, SeenFacts, SeenFactsNext, ActivityFacts DEF Peer
  <2>. QED
    BY <2>1, <2>2 DEF Activities
<1>. QED
  BY <1>1, <1>2, <1>4, UnseenStep

(* call and cancel.                                                         *)
LEMMA AskStep ==
    ASSUME Inv, NEW a \in Activities,
           (a \in Calls /\ Call(a)) \/ (a \in Cancels /\ Cancel(a))
    PROVE  Abstract!Ask(a)
<1>1. PICK t : /\ at[a].pc = "idle" /\ Only(a, Here("next"), t) /\ jobs' = jobs
               /\ a \in Cancels => t = IF jobs[a] = None THEN <<>> ELSE <<jobs[a]>>
  BY ActivityFacts DEF Call, Cancel, Only
<1>2. /\ at'[a] = Here("next") /\ todo'[a] = t
      /\ \A b \in Activities \ {a} : at'[b] = at[b] /\ todo'[b] = todo[b]
  BY <1>1, OnlyFacts DEF Inv
<1>3. phases[a] = "idle" /\ PhaseOf(at'[a].pc) = "finding" /\ at'[a].pc = "next"
  BY <1>1, <1>2, SeenFacts, PhaseFacts DEF Here, At
<1>4. workers'[a] = IF a \in Cancels THEN jobs[a] ELSE None
  <2>1. CASE a \in Cancels
    <3>1. jobs[a] # None => t # <<>> /\ Head(t) = jobs[a]
      BY <1>1, <2>1
    <3>2. workers'[a] = IF t = <<>> THEN None ELSE Head(t)
      BY <1>2, <2>1, SeenFactsNext DEF Peer
    <3>. QED
      BY <1>1, <2>1, <3>1, <3>2
  <2>2. CASE a \in Calls
    BY <1>3, <2>2, SeenFactsNext, ActivityFacts
  <2>. QED
    BY <2>1, <2>2 DEF Activities
<1>5. /\ phases' = [phases EXCEPT ![a] = "finding"]
      /\ workers' = [workers EXCEPT ![a] = IF a \in Cancels THEN jobs[a] ELSE None]
  BY <1>2, <1>3, <1>4, OneStep
<1>. QED
  BY <1>1, <1>3, <1>5 DEF Abstract!Ask

(* The peer that an activity tries is one.                                  *)
LEMMA Tried ==
    ASSUME Inv, NEW a \in Activities, at[a].pc \in Trying
    PROVE  todo[a] # <<>> /\ Peer(a) \in Peers /\ Peer(a) # None
<1>1. todo[a] # <<>> /\ todo[a] \in Seq(Peers)
  BY DEF Inv, HasPeer, TypeOK
<1>. QED
  BY <1>1, ActivityFacts DEF Peer

LEMMA TryStep ==
    ASSUME Inv, NEW a \in Activities, Try(a)
    PROVE  [Abstract!Next]_Abstract!delegation
<1>1. PICK s : /\ at[a].pc = "next" /\ Only(a, s, todo[a]) /\ jobs' = jobs
               /\ IF todo[a] = <<>> THEN s = Here("unable")
                  ELSE s.pc \in {"judging", "fetching"}
  <2>1. at[a].pc = "next" /\ todo' = todo /\ jobs' = jobs
    BY DEF Try
  <2>2. todo' = [todo EXCEPT ![a] = todo[a]]
    BY <2>1 DEF Inv, TypeOK
  <2>. DEFINE s == IF todo[a] = <<>> THEN Here("unable")
                   ELSE IF manifest[Peer(a)] # None
                     THEN At("judging", manifest[Peer(a)], 0)
                   ELSE At("fetching", None, client[Peer(a)])
  <2>3. at' = [at EXCEPT ![a] = s]
    BY DEF Try
  <2>4. todo[a] # <<>> => s.pc \in {"judging", "fetching"}
    BY DEF At
  <2>5. todo[a] = <<>> => s = Here("unable")
    OBVIOUS
  <2>. HIDE DEF s
  <2>. QED
    BY <2>1, <2>2, <2>3, <2>4, <2>5 DEF Only
<1>2. /\ at'[a] = s /\ todo'[a] = todo[a]
      /\ \A b \in Activities \ {a} : at'[b] = at[b] /\ todo'[b] = todo[b]
  BY <1>1, OnlyFacts DEF Inv
<1>3. phases[a] = "finding"
  BY <1>1, SeenFacts, PhaseFacts
<1>4. CASE todo[a] # <<>>
  <2>1. PhaseOf(s.pc) = "finding"
    BY <1>1, <1>4, PhaseFacts
  <2>. QED
    BY <1>1, <1>3, <2>1, SearchStep DEF Inv
<1>5. CASE todo[a] = <<>>
  <2>1. s = Here("unable") /\ s.pc = "unable" /\ PhaseOf(s.pc) = "unable"
    BY <1>1, <1>5, PhaseFacts DEF Here, At, Ended
  <2>2. workers[a] = None /\ workers'[a] = None
    BY <1>1, <1>2, <1>5, <2>1, SeenFacts, SeenFactsNext DEF Activities
  <2>3. phases' = [phases EXCEPT ![a] = "unable"]
        /\ workers' = [workers EXCEPT ![a] = None]
    BY <1>2, <2>1, <2>2, OneStep
  <2>4. workers' = workers
    BY <2>2, <2>3 DEF workers
  <2>5. Abstract!GiveUp(a)
    BY <1>1, <1>3, <2>2, <2>3, <2>4 DEF Abstract!GiveUp
  <2>. QED
    BY <2>5 DEF Abstract!Next, Abstract!Proceed, Abstract!Activities, Activities
<1>. QED
  BY <1>4, <1>5

LEMMA FetchedStep ==
    ASSUME Inv, NEW a \in Activities, Fetched(a)
    PROVE  [Abstract!Next]_Abstract!delegation
<1>1. at[a].pc = "fetching" /\ todo' = todo /\ jobs' = jobs
  BY DEF Fetched
<1>2. todo' = [todo EXCEPT ![a] = todo[a]]
  BY <1>1 DEF Inv, TypeOK
<1>3. CASE at' = [at EXCEPT ![a] = At("judging", Remote[Peer(a)], 0)]
  <2>1. Only(a, At("judging", Remote[Peer(a)], 0), todo[a])
    BY <1>2, <1>3 DEF Only
  <2>2. /\ phases[a] = "finding"
        /\ PhaseOf(At("judging", Remote[Peer(a)], 0).pc) = "finding"
    BY <1>1, SeenFacts, PhaseFacts DEF At
  <2>. QED
    BY <1>1, <2>1, <2>2, SearchStep DEF Inv
<1>4. CASE at' = [at EXCEPT ![a] = Here("failed")]
  <2>1. \A b \in Activities : Dropped(at[b], at'[b])
    BY <1>1, <1>4 DEF Dropped, Inv, TypeOK
  <2>. QED
    BY <1>1, <2>1, DropStep
<1>. QED
  BY <1>3, <1>4 DEF Fetched

(* A cancellation has one peer: when that is not capable, none is left.     *)
LEMMA JudgeStep ==
    ASSUME Inv, NEW a \in Activities, Judge(a)
    PROVE  [Abstract!Next]_Abstract!delegation
<1>1. at[a].pc = "judging" /\ jobs' = jobs /\ phases[a] = "finding"
  BY SeenFacts, PhaseFacts DEF Judge
<1>2. todo[a] # <<>> /\ Peer(a) \in Peers /\ Peer(a) # None
  BY <1>1, Tried DEF Trying
<1>3. todo = [todo EXCEPT ![a] = todo[a]]
  BY DEF Inv, TypeOK
<1>4. CASE Only(a, Here("next"), Tail(todo[a]))
  <2>1. /\ at'[a] = Here("next") /\ todo'[a] = Tail(todo[a])
        /\ \A b \in Activities \ {a} : at'[b] = at[b] /\ todo'[b] = todo[b]
        /\ todo[a] \in Seq(Peers)
    BY <1>4, OnlyFacts DEF Inv
  <2>2. PhaseOf(Here("next").pc) = "finding"
    BY PhaseFacts DEF Here, At
  <2>3. CASE a \in Calls
    BY <1>1, <1>4, <2>2, <2>3, SearchStep DEF Inv
  <2>4. CASE a \in Cancels
    <3>1. todo'[a] = <<>>
      BY <1>2, <2>1, <2>4 DEF Inv, AskOne
    <3>2. workers[a] # None /\ workers'[a] = None /\ phases'[a] = phases[a]
      BY <1>1, <1>2, <2>1, <2>2, <2>4, <3>1, SeenFacts, SeenFactsNext
    <3>3. phases' = [phases EXCEPT ![a] = phases[a]]
          /\ workers' = [workers EXCEPT ![a] = None]
      BY <2>1, <3>2, OneStep, SeenFactsNext
    <3>4. phases' = phases
      BY <3>3 DEF phases
    <3>5. Abstract!Incapable(a)
      BY <1>1, <3>2, <3>3, <3>4 DEF Abstract!Incapable
    <3>. QED
      BY <2>4, <3>5 DEF Abstract!Next, Abstract!Proceed
  <2>. QED
    BY <2>3, <2>4 DEF Activities
<1>5. CASE \E s : /\ s.pc \in {"connected", "connecting"} /\ Only(a, s, todo[a])
  <2>1. PICK s : s.pc \in {"connected", "connecting"} /\ Only(a, s, todo[a])
    BY <1>5
  <2>2. PhaseOf(s.pc) = "finding"
    BY <2>1, PhaseFacts
  <2>. QED
    BY <1>1, <2>1, <2>2, SearchStep DEF Inv
<1>6. CASE a \in Cancels /\ Only(a, At("calling", None, client[Peer(a)]), todo[a])
  <2>1. /\ at'[a].pc = "calling" /\ todo'[a] = todo[a]
        /\ \A b \in Activities \ {a} : at'[b] = at[b] /\ todo'[b] = todo[b]
    BY <1>6, OnlyFacts DEF Inv, At
  <2>2. workers[a] # None /\ workers'[a] = workers[a]
    BY <1>2, <1>6, <2>1, SeenFacts, SeenFactsNext DEF Peer
  <2>3. phases' = [phases EXCEPT ![a] = "working"]
        /\ workers' = [workers EXCEPT ![a] = workers[a]]
    BY <2>1, <2>2, OneStep, PhaseFacts
  <2>4. workers' = workers
    BY <2>3 DEF workers
  <2>5. Abstract!Forward(a)
    BY <1>1, <2>2, <2>3, <2>4 DEF Abstract!Forward
  <2>. QED
    BY <1>6, <2>5 DEF Abstract!Next, Abstract!Proceed
<1>7. \/ Only(a, Here("next"), Tail(todo[a]))
      \/ \E s : s.pc \in {"connected", "connecting"} /\ Only(a, s, todo[a])
      \/ a \in Cancels /\ Only(a, At("calling", None, client[Peer(a)]), todo[a])
  <2>1. CASE Only(a, Here("next"), Tail(todo[a]))
    BY <2>1
  <2>2. CASE /\ a \in Calls /\ todo' = todo
             /\ at' = [at EXCEPT ![a] =
                   IF client[Peer(a)] # 0 THEN Here("connected")
                   ELSE At("connecting", manifest[Peer(a)], 0)]
    <3>. DEFINE s == IF client[Peer(a)] # 0 THEN Here("connected")
                     ELSE At("connecting", manifest[Peer(a)], 0)
    <3>1. s.pc \in {"connected", "connecting"}
      BY DEF Here, At
    <3>2. Only(a, s, todo[a])
      BY <1>3, <2>2 DEF Only
    <3>. HIDE DEF s
    <3>. QED
      BY <3>1, <3>2
  <2>3. CASE /\ a \in Cancels /\ todo' = todo
             /\ at' = [at EXCEPT ![a] = At("calling", None, client[Peer(a)])]
    BY <1>3, <2>3 DEF Only
  <2>. QED
    BY <2>1, <2>2, <2>3 DEF Judge, Only
<1>. QED
  BY <1>4, <1>5, <1>6, <1>7

-----------------------------------------------------------------------------
(* connect: a client that is stopped takes those who await it with it.      *)
LEMMA ConnectStep ==
    ASSUME Inv, NEW c \in Calls, Connect(c) \/ Connected(c)
    PROVE  [Abstract!Next]_Abstract!delegation
<1>1. /\ c \in Activities /\ jobs' = jobs
      /\ at[c].pc \in {"connecting", "stopping"} /\ phases[c] = "finding"
  BY SeenFacts, PhaseFacts, ActivityFacts DEF Connect, Connected
<1>2. todo = [todo EXCEPT ![c] = todo[c]]
  BY DEF Inv, TypeOK
<1>3. CASE \E s, t : s.pc \in {"next", "connected"} /\ Only(c, s, t)
  BY <1>1, <1>3, PhaseFacts, SearchStep DEF Inv
<1>4. CASE /\ at[c].pc = "connecting" /\ todo' = todo
           /\ \E K \in SUBSET Clients : \E m :
                 at' = [a \in Activities |-> IF a = c THEN At("stopping", m, 0)
                                             ELSE Rejected(K, at[a])]
  <2>1. at'[c].pc = "stopping"
    BY <1>1, <1>4 DEF At
  <2>2. \A a \in Activities \ {c} : Dropped(at[a], at'[a])
    BY <1>1, <1>4, RejectedFacts DEF Inv, Waits
  <2>. QED
    BY <1>1, <1>4, <2>1, <2>2, DropStep
<1>5. CASE Connected(c)
  <2>1. Only(c, Here("connected"), todo[c]) /\ Here("connected").pc = "connected"
    BY <1>2, <1>5 DEF Connected, Only, Here, At
  <2>. QED
    BY <1>3, <2>1
<1>6. CASE Connect(c)
  <2>1. CASE Only(c, Here("next"), Tail(todo[c]))
    BY <1>3, <2>1 DEF Here, At
  <2>2. CASE Only(c, Here("connected"), todo[c])
    BY <1>3, <2>2 DEF Here, At
  <2>3. CASE /\ client[Peer(c)] # 0 /\ todo' = todo
             /\ at' = [a \in Activities |->
                   IF a = c THEN At("stopping", at[c].with, 0)
                   ELSE Rejected(Rejecting({client[Peer(c)]}), at[a])]
    <3>1. /\ at[c].pc = "connecting"
          /\ Rejecting({client[Peer(c)]}) \in SUBSET Clients
      BY <1>1, <1>6, <2>3, Tried, LossFacts DEF Connect, Trying, Inv, TypeOK
    <3>. QED
      BY <1>4, <2>3, <3>1
  <2>. QED
    BY <1>2, <1>6, <2>1, <2>2, <2>3 DEF Connect, Only
<1>. QED
  BY <1>5, <1>6

LEMMA DelegateStep ==
    ASSUME Inv, NEW c \in Calls, Delegate(c)
    PROVE  [Abstract!Next]_Abstract!delegation
<1>1. /\ c \in Activities /\ at[c].pc = "connected" /\ phases[c] = "finding"
      /\ jobs' = [jobs EXCEPT ![JobId[c]] = Peer(c)]
  BY SeenFacts, PhaseFacts, ActivityFacts DEF Delegate
<1>2. Peer(c) \in Peers
  BY <1>1, Tried DEF Trying
<1>3. Only(c, At("calling", None, client[Peer(c)]), todo[c])
  BY DEF Delegate, Only, Inv, TypeOK
<1>4. /\ at'[c].pc = "calling" /\ todo'[c] = todo[c]
      /\ \A b \in Activities \ {c} : at'[b] = at[b] /\ todo'[b] = todo[b]
  BY <1>1, <1>3, OnlyFacts DEF Inv, At
<1>5. workers'[c] = Peer(c)
  BY <1>1, <1>4, SeenFactsNext DEF Peer
<1>6. phases' = [phases EXCEPT ![c] = "working"]
      /\ workers' = [workers EXCEPT ![c] = Peer(c)]
  BY <1>1, <1>4, <1>5, OneStep, PhaseFacts
<1>7. Abstract!Pass(c, Peer(c))
  BY <1>1, <1>6 DEF Abstract!Pass
<1>. QED
  BY <1>2, <1>7 DEF Abstract!Next, Abstract!Proceed

LEMMA AnswerStep ==
    ASSUME Inv, NEW a \in Activities, Answer(a)
    PROVE  [Abstract!Next]_Abstract!delegation
<1>1. at[a].pc = "calling" /\ phases[a] = "working" /\ todo' = todo
  BY SeenFacts, PhaseFacts DEF Answer
<1>2. CASE /\ at' = [at EXCEPT ![a] = Here("resolved")]
           /\ jobs' = IF a \in Calls THEN [jobs EXCEPT ![JobId[a]] = None] ELSE jobs
  <2>1. Only(a, Here("resolved"), todo[a])
    BY <1>1, <1>2 DEF Only, Inv, TypeOK
  <2>2. /\ at'[a].pc = "resolved" /\ todo'[a] = todo[a]
        /\ \A b \in Activities \ {a} : at'[b] = at[b] /\ todo'[b] = todo[b]
    BY <2>1, OnlyFacts DEF Inv, Here, At
  <2>3. workers'[a] = workers[a]
    BY <1>1, <2>2, SeenFacts, SeenFactsNext DEF Peer, Activities
  <2>4. phases' = [phases EXCEPT ![a] = "resolved"]
        /\ workers' = [workers EXCEPT ![a] = workers[a]]
    BY <2>2, <2>3, OneStep, PhaseFacts DEF Ended
  <2>5. workers' = workers
    BY <2>4 DEF workers
  <2>6. Abstract!Return(a)
    BY <1>1, <1>2, <2>4, <2>5 DEF Abstract!Return
  <2>. QED
    BY <2>6 DEF Abstract!Next, Abstract!Proceed, Abstract!Activities, Activities
<1>3. CASE at' = [at EXCEPT ![a] = Here("rejected")] /\ jobs' = jobs
  <2>1. \A b \in Activities : Dropped(at[b], at'[b])
    BY <1>1, <1>3 DEF Dropped, Inv, TypeOK
  <2>. QED
    BY <1>1, <1>3, <2>1, DropStep
<1>. QED
  BY <1>2, <1>3 DEF Answer

(* Clients that stop take those who await them with them; nothing else that *)
(* happens to peers is seen.                                                *)
LEMMA PeersStep ==
    ASSUME Inv,
           \/ Stop \/ UNCHANGED vars
           \/ \E a \in Activities : Lose(a)
           \/ \E p \in Peers : \/ Add(p) \/ Remove(p) \/ ReconnectFetched(p)
                               \/ Reconnect(p) \/ Reconnected(p)
           \/ \E p \in Peers, m \in Manifests : AddManifest(p, m) \/ Update(p, m)
    PROVE  [Abstract!Next]_Abstract!delegation
<1>1. jobs' = jobs /\ todo' = todo
  BY DEF Stop, Add, Remove, ReconnectFetched, Reconnect, Reconnected, AddManifest,
         Update, Lose, vars
<1>2. CASE at' = at
  BY <1>1, <1>2, DropStep DEF Dropped
<1>3. CASE \E K \in SUBSET Clients : at' = [a \in Activities |->
                                           Rejected(Rejecting(K), at[a])]
  <2>1. \A a \in Activities : Dropped(at[a], at'[a])
    BY <1>3, RejectedFacts, LossFacts DEF Inv, Waits
  <2>. QED
    BY <1>1, <2>1, DropStep
<1>4. CASE Stop
  <2>1. {client[p] : p \in {q \in Peers : InTable(q)}} \ {0} \in SUBSET Clients
    BY DEF Inv, TypeOK
  <2>. QED
    BY <1>3, <1>4, <2>1 DEF Stop
<1>5. ASSUME NEW p \in Peers, Reconnect(p), at' # at PROVE [Abstract!Next]_Abstract!delegation
  <2>1. client[p] # 0 /\ at' = [a \in Activities |-> Rejected(Rejecting({client[p]}), at[a])]
    BY <1>5 DEF Reconnect
  <2>2. {client[p]} \in SUBSET Clients
    BY <2>1 DEF Inv, TypeOK
  <2>. QED
    BY <1>3, <2>1, <2>2
<1>. QED
  BY <1>2, <1>4, <1>5 DEF Add, Remove, ReconnectFetched, Reconnected, AddManifest,
                          Update, Lose, vars

LEMMA StepRefines == Inv /\ [Next]_vars => [Abstract!Next]_Abstract!delegation
<1>. SUFFICES ASSUME Inv, [Next]_vars PROVE [Abstract!Next]_Abstract!delegation
  OBVIOUS
<1>1. ASSUME NEW a \in Activities, (a \in Calls /\ Call(a)) \/ (a \in Cancels /\ Cancel(a))
      PROVE  [Abstract!Next]_Abstract!delegation
  BY <1>1, AskStep DEF Abstract!Next, Abstract!Activities, Activities
<1>2. ASSUME NEW c \in Calls, Call(c) PROVE [Abstract!Next]_Abstract!delegation
  BY <1>1, <1>2, ActivityFacts
<1>3. ASSUME NEW j \in Cancels, Cancel(j) PROVE [Abstract!Next]_Abstract!delegation
  BY <1>1, <1>3, ActivityFacts
<1>. QED
  BY <1>2, <1>3, TryStep, FetchedStep, JudgeStep, ConnectStep, DelegateStep,
     AnswerStep, PeersStep DEF Next

(* Delegator implements Delegation (Delegator.ts:284-316).                  *)
THEOREM Refinement == Spec => ImplementsDelegation
BY InitRefines, StepRefines, Invariance, PTL DEF Spec, ImplementsDelegation,
   Abstract!Spec
=============================================================================
