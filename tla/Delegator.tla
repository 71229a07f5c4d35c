----------------------------- MODULE Delegator ------------------------------
(***************************************************************************)
(* `Delegator` and `Peer` (src/src/base/Delegator.ts): calls are passed to *)
(* the first peer that is capable of them and can be connected to, and     *)
(* the cancellation of a job to the peer it was passed to.                 *)
(*                                                                         *)
(* Every `await` lets other callbacks in: the reconnection that each Peer  *)
(* begins when it is made, other calls, updates of manifests, `stop`.  An  *)
(* action is what happens between two awaits.  A client need not answer:   *)
(* HttpClient only logs a failed fetch, a connection may break, a result   *)
(* may be one that cannot be written; and not every client that is stopped *)
(* rejects what it was asked (see JsonRpc).                                *)
(***************************************************************************)
EXTENDS Integers, Sequences

CONSTANTS
    Peers,        \* Peer objects
    Remote,       \* the manifest that the executor of each peer answers with
    Calls,        \* the invocations of Delegator.call
    Jobs,         \* job ids
    Cancels,      \* the jobs that are cancelled (once each: a bound)
    JobId,        \* the id each call has: params.job, or a generated one
    Manifests,    \* the manifests there are, of the form of Manifest
    ClientTypes,  \* the sequence of client types, in order of preference
    StopRejects,  \* the types whose stop reaches Client.stop
    MaxClients,   \* bound on the clients made
    MaxUpdates,   \* bound on the updates of manifests
    None

Types == {ClientTypes[i] : i \in 1..Len(ClientTypes)}
Methods == Calls \cup {"cancel"}

(* A manifest has schemas for some methods, which accept the parameters of  *)
(* some calls, and addresses for some types of client.                      *)
Manifest == [declares : SUBSET Methods, accepts : SUBSET Methods,
             addresses : SUBSET Types]

ASSUME DelegatorAssumption ==
    /\ JobId \in [Calls -> Jobs]
    /\ Cancels \subseteq Jobs /\ Calls \cap Jobs = {}
    /\ Peers \cap (Calls \cup Jobs) = {}
    /\ StopRejects \subseteq Types
    /\ Manifests \subseteq Manifest
    /\ Remote \in [Peers -> Manifests]
    /\ MaxClients \in Nat /\ MaxUpdates \in Nat
    /\ None \notin Manifests /\ None \notin Peers /\ None \notin Types

Clients == 1..MaxClients
Activities == Calls \cup Cancels

VARIABLES
    peers,       \* this.peers of the Delegator, in the order of insertion
    jobs,        \* this.jobs of the Delegator
    kind,        \* the type of each client made
    client,      \* the `client` of each Peer, 0 if undefined
    manifest,    \* the `manifest` of each Peer
    validators,  \* the manifest each of its validators was compiled from
    reconnect,   \* where the `connect(true)` of each Peer is: see At
    at,          \* where each call and each cancel is
    todo,        \* the peers it has to try, the current one first
    overtaken,   \* history: peers updated while an earlier manifest was in use
    updates,     \* updates made of the manifests of peers
    lost         \* calls, cancels and reconnections that no answer will come to

peer == <<client, kind, manifest, validators>>
history == <<overtaken, updates, lost>>
vars == <<peers, jobs, peer, reconnect, at, todo, history>>

(* A suspended function: where it is, the manifest that `start` gave it and *)
(* the client whose answer it awaits.                                       *)
At(pc, with, via) == [pc |-> pc, with |-> with, via |-> via]
Here(pc) == At(pc, None, 0)

Init ==
    /\ peers = <<>>
    /\ jobs = [j \in Jobs |-> None]
    /\ kind = [k \in Clients |-> None]
    /\ client = [p \in Peers |-> 0]
    /\ manifest = [p \in Peers |-> None]
    /\ validators = [p \in Peers |-> [m \in Methods |-> None]]
    /\ reconnect = [p \in Peers |-> Here("none")]
    /\ at = [a \in Activities |-> Here("idle")]
    /\ todo = [a \in Activities |-> <<>>]
    /\ overtaken = {}
    /\ updates = 0
    /\ lost = {}

-----------------------------------------------------------------------------
Peer(a) == Head(todo[a])
Method(a) == IF a \in Calls THEN a ELSE "cancel"
InTable(p) == \E i \in 1..Len(peers) : peers[i] = p

(* A manifest of p is being fetched, or was read by one who has still to    *)
(* compile a validator from it.                                             *)
InUse(p) ==
    \/ reconnect[p].pc = "fetching"
    \/ \E a \in Activities :
          at[a].pc \in {"fetching", "judging"} /\ Peer(a) = p

(* The first of the client types that the manifest has an address for.      *)
Preferred(m, t) ==
    \E i \in 1..Len(ClientTypes) :
       /\ t = ClientTypes[i] /\ t \in m.addresses
       /\ \A k \in 1..(i - 1) : ClientTypes[k] \notin m.addresses

(* `new ClientType(address)`, assigned to this.client.                      *)
NewClient(p, t) ==
    \E k \in Clients :
       /\ kind[k] = None /\ \A l \in 1..(k - 1) : kind[l] # None
       /\ kind' = [kind EXCEPT ![k] = t]
       /\ client' = [client EXCEPT ![p] = k]

(* What awaits an answer that one of the clients K was asked for.           *)
Waiting(K) == {a \in Activities : at[a].via \in K}
                \cup {p \in Peers : reconnect[p].via \in K}

(* Client.stop rejects what is outstanding, but not every type reaches it:  *)
(* what the others were asked is lost (TcpClient, WebSocketClient, Vsock-). *)
Rejecting(K) == {k \in K : kind[k] \in StopRejects}
Losing(K) == K \ Rejecting(K)

(* Where a rejection by the clients K leaves those who await their answers. *)
Rejected(K, s) ==
    IF s.via \notin K THEN s
    ELSE IF s.pc = "fetching" THEN Here("failed") ELSE Here("rejected")

-----------------------------------------------------------------------------
(* add: a Peer with a client, whose manifest its reconnection fetches.  If  *)
(* its id is known it replaces the peer that had it.                        *)
Add(p) ==
    /\ reconnect[p].pc = "none"
    /\ \E t \in Types : NewClient(p, t)
    /\ \/ peers' = Append(peers, p)
       \/ \E i \in 1..Len(peers) : peers' = [peers EXCEPT ![i] = p]
    /\ reconnect' = [reconnect EXCEPT ![p] = At("fetching", None, client'[p])]
    /\ UNCHANGED <<jobs, manifest, validators, at, todo, history>>

(* Mutant of AddManifest: a known id gets another entry.                    *)
AddManifestAgain(p, m) ==
    /\ peers' = Append(peers, p)
    /\ manifest' = [manifest EXCEPT ![p] = m]
    /\ reconnect' = [reconnect EXCEPT ![p] = At("ready", m, 0)]
    /\ UNCHANGED <<jobs, client, kind, validators, at, todo, history>>

(* update, with an id that is unknown: a Peer that has only a manifest.     *)
AddManifest(p, m) ==
    /\ reconnect[p].pc = "none"
    /\ peers' = Append(peers, p)
    /\ manifest' = [manifest EXCEPT ![p] = m]
    /\ reconnect' = [reconnect EXCEPT ![p] = At("ready", m, 0)]
    /\ UNCHANGED <<jobs, client, kind, validators, at, todo, history>>

(* Mutant of Update: the validators made before stay.                       *)
UpdateManifest(p, m) ==
    /\ InTable(p)
    /\ manifest' = [manifest EXCEPT ![p] = m]
    /\ updates < MaxUpdates /\ updates' = updates + 1
    /\ overtaken' = IF InUse(p) THEN overtaken \cup {p} ELSE overtaken
    /\ UNCHANGED <<peers, jobs, client, kind, validators, reconnect, at, todo,
                   lost>>

(* update, with the id of a peer.                                           *)
Update(p, m) ==
    /\ InTable(p)
    /\ manifest' = [manifest EXCEPT ![p] = m]
    /\ validators' = [validators EXCEPT ![p] = [x \in Methods |-> None]]
    /\ updates < MaxUpdates /\ updates' = updates + 1
    /\ overtaken' = IF InUse(p) THEN overtaken \cup {p} ELSE overtaken
    /\ UNCHANGED <<peers, jobs, client, kind, reconnect, at, todo, lost>>

(* remove: the peer is forgotten; its client is not stopped.                *)
Remove(p) ==
    /\ \E i \in 1..Len(peers) :
          /\ peers[i] = p
          /\ peers' = SubSeq(peers, 1, i - 1) \o SubSeq(peers, i + 1, Len(peers))
    /\ UNCHANGED <<jobs, peer, reconnect, at, todo, history>>

(* stop: the clients of the peers in the table are stopped.                 *)
Stop ==
    LET K == {client[p] : p \in {q \in Peers : InTable(q)}} \ {0} IN
    /\ at' = [a \in Activities |-> Rejected(Rejecting(K), at[a])]
    /\ reconnect' = [p \in Peers |-> Rejected(Rejecting(K), reconnect[p])]
    /\ lost' = lost \cup Waiting(Losing(K))
    /\ UNCHANGED <<peers, jobs, peer, todo, overtaken, updates>>

(* An answer does not come, and nobody is told.  (That of a reconnection    *)
(* needs no action: nothing says that ReconnectFetched ever happens.)       *)
Lose(a) ==
    /\ a \in Waiting(Clients)
    /\ lost' = lost \cup {a}
    /\ UNCHANGED <<peers, jobs, peer, reconnect, at, todo, overtaken, updates>>

-----------------------------------------------------------------------------
(* The `connect(true)` of the constructor: the manifest has been fetched.   *)
ReconnectFetched(p) ==
    /\ reconnect[p].pc = "fetching" /\ p \notin lost
    /\ \/ /\ manifest' = [manifest EXCEPT ![p] = Remote[p]]
          /\ reconnect' = [reconnect EXCEPT ![p] = At("ready", Remote[p], 0)]
       \/ /\ reconnect' = [reconnect EXCEPT ![p] = Here("failed")]
          /\ UNCHANGED manifest
    /\ UNCHANGED <<peers, jobs, client, kind, validators, at, todo, history>>

(* ... it connects, unless it has a client of the preferred type already,   *)
(* which it stops first if the type is another.                             *)
Reconnect(p) ==
    LET m == reconnect[p].with IN
    /\ reconnect[p].pc = "ready"
    /\ \/ /\ \A t \in Types : Preferred(m, t) =>
                client[p] # 0 /\ kind[client[p]] = t
          /\ reconnect' = [reconnect EXCEPT ![p] = Here("done")]
          /\ UNCHANGED <<client, kind, at, lost>>
       \/ /\ client[p] = 0
          /\ \E t \in Types : Preferred(m, t) /\ NewClient(p, t)
          /\ reconnect' = [reconnect EXCEPT ![p] = Here("done")]
          /\ UNCHANGED <<at, lost>>
       \/ /\ client[p] # 0
          /\ \E t \in Types : Preferred(m, t) /\ kind[client[p]] # t
          /\ at' = [a \in Activities |-> Rejected(Rejecting({client[p]}), at[a])]
          /\ reconnect' = [reconnect EXCEPT ![p] = At("stopping", m, 0)]
          /\ lost' = lost \cup Waiting(Losing({client[p]}))
          /\ UNCHANGED <<client, kind>>
    /\ UNCHANGED <<peers, jobs, manifest, validators, todo, overtaken, updates>>

(* ... the old client has stopped.                                          *)
Reconnected(p) ==
    /\ reconnect[p].pc = "stopping"
    /\ \E t \in Types : Preferred(reconnect[p].with, t) /\ NewClient(p, t)
    /\ reconnect' = [reconnect EXCEPT ![p] = Here("done")]
    /\ UNCHANGED <<peers, jobs, manifest, validators, at, todo, history>>

-----------------------------------------------------------------------------
(* call: it will try the peers there are now.                               *)
Call(c) ==
    /\ at[c].pc = "idle"
    /\ at' = [at EXCEPT ![c] = Here("next")]
    /\ todo' = [todo EXCEPT ![c] = peers]
    /\ UNCHANGED <<peers, jobs, peer, reconnect, history>>

(* cancel: it asks only the peer that the job was passed to, if any.        *)
Cancel(j) ==
    /\ at[j].pc = "idle"
    /\ at' = [at EXCEPT ![j] = Here("next")]
    /\ todo' = [todo EXCEPT ![j] = IF jobs[j] = None THEN <<>> ELSE <<jobs[j]>>]
    /\ UNCHANGED <<peers, jobs, peer, reconnect, history>>

(* The loop of `call`, and the begin of `capable`: start has the manifest,  *)
(* or fetches it through the client.                                        *)
Try(a) ==
    /\ at[a].pc = "next"
    /\ at' = [at EXCEPT ![a] =
          IF todo[a] = <<>> THEN Here("unable")
          ELSE IF manifest[Peer(a)] # None THEN At("judging", manifest[Peer(a)], 0)
          ELSE At("fetching", None, client[Peer(a)])]
    /\ UNCHANGED <<peers, jobs, peer, reconnect, todo, history>>

Fetched(a) ==
    /\ at[a].pc = "fetching" /\ a \notin lost
    /\ \/ /\ manifest' = [manifest EXCEPT ![Peer(a)] = Remote[Peer(a)]]
          /\ at' = [at EXCEPT ![a] = At("judging", Remote[Peer(a)], 0)]
       \/ /\ at' = [at EXCEPT ![a] = Here("failed")]
          /\ UNCHANGED manifest
    /\ UNCHANGED <<peers, jobs, client, kind, validators, reconnect, todo,
                   history>>

(* The rest of `capable`: the validator of the method, compiled if need be. *)
Validator(a) ==
    IF validators[Peer(a)][Method(a)] # None THEN validators[Peer(a)][Method(a)]
    ELSE IF Method(a) \in at[a].with.declares THEN at[a].with
    ELSE None

Capable(a) == Validator(a) # None /\ Method(a) \in Validator(a).accepts

(* Mutant of Judge: the loop stays with a peer that is not capable.         *)
JudgeAgain(a) ==
    /\ at[a].pc = "judging"
    /\ validators' = [validators EXCEPT ![Peer(a)][Method(a)] = Validator(a)]
    /\ at' = [at EXCEPT ![a] =
          IF ~Capable(a) THEN Here("next")
          ELSE IF a \in Cancels THEN At("calling", None, client[Peer(a)])
          ELSE IF client[Peer(a)] # 0 THEN Here("connected")
          ELSE At("connecting", manifest[Peer(a)], 0)]
    /\ UNCHANGED <<peers, jobs, client, kind, manifest, reconnect, todo, history>>

(* ... and what follows: the next peer, or `connect`, or to pass on the     *)
(* cancellation.                                                            *)
Judge(a) ==
    /\ at[a].pc = "judging"
    /\ validators' = [validators EXCEPT ![Peer(a)][Method(a)] = Validator(a)]
    /\ \/ /\ ~Capable(a)
          /\ at' = [at EXCEPT ![a] = Here("next")]
          /\ todo' = [todo EXCEPT ![a] = Tail(@)]
       \/ /\ Capable(a) /\ a \in Calls
          /\ at' = [at EXCEPT ![a] =
                IF client[Peer(a)] # 0 THEN Here("connected")
                ELSE At("connecting", manifest[Peer(a)], 0)]
          /\ UNCHANGED todo
       \/ /\ Capable(a) /\ a \in Cancels
          /\ at' = [at EXCEPT ![a] = At("calling", None, client[Peer(a)])]
          /\ UNCHANGED todo
    /\ UNCHANGED <<peers, jobs, client, kind, manifest, reconnect, history>>

(* Mutant of Connect: without an address, too, it answers true.             *)
ConnectAlways(c) ==
    LET p == Peer(c) m == at[c].with IN
    /\ at[c].pc = "connecting"
    /\ at' = [at EXCEPT ![c] = Here("connected")]
    /\ \/ (\A t \in Types : ~Preferred(m, t)) /\ UNCHANGED <<client, kind>>
       \/ \E t \in Types : Preferred(m, t) /\ NewClient(p, t)
    /\ UNCHANGED <<peers, jobs, manifest, validators, reconnect, todo, history>>

(* `connect()`: as Reconnect, but a client that another call has made       *)
(* meanwhile is stopped whatever its type.                                  *)
Connect(c) ==
    LET p == Peer(c) m == at[c].with IN
    /\ at[c].pc = "connecting"
    /\ \/ /\ \A t \in Types : ~Preferred(m, t)
          /\ at' = [at EXCEPT ![c] = Here("next")]
          /\ todo' = [todo EXCEPT ![c] = Tail(@)]
          /\ UNCHANGED <<client, kind, lost>>
       \/ /\ client[p] = 0
          /\ \E t \in Types : Preferred(m, t) /\ NewClient(p, t)
          /\ at' = [at EXCEPT ![c] = Here("connected")]
          /\ UNCHANGED <<todo, lost>>
       \/ /\ client[p] # 0
          /\ \E t \in Types : Preferred(m, t)
          /\ at' = [a \in Activities |-> IF a = c THEN At("stopping", m, 0)
                             ELSE Rejected(Rejecting({client[p]}), at[a])]
          /\ lost' = lost \cup Waiting(Losing({client[p]}))
          /\ UNCHANGED <<client, kind, todo>>
    /\ UNCHANGED <<peers, jobs, manifest, validators, reconnect, overtaken,
                   updates>>

Connected(c) ==
    /\ at[c].pc = "stopping"
    /\ \E t \in Types : Preferred(at[c].with, t) /\ NewClient(Peer(c), t)
    /\ at' = [at EXCEPT ![c] = Here("connected")]
    /\ UNCHANGED <<peers, jobs, manifest, validators, reconnect, todo, history>>

(* Mutant of Delegate: the entry is made when the peer has answered.        *)
DelegateUnnoted(c) ==
    /\ at[c].pc = "connected"
    /\ at' = [at EXCEPT ![c] = At("calling", None, client[Peer(c)])]
    /\ UNCHANGED <<peers, jobs, peer, reconnect, todo, history>>

(* Mutant of Delegate: the entry is that of the first peer there is.        *)
DelegateFirst(c) ==
    /\ at[c].pc = "connected"
    /\ peers # <<>>
    /\ jobs' = [jobs EXCEPT ![JobId[c]] = Head(peers)]
    /\ at' = [at EXCEPT ![c] = At("calling", None, client[Peer(c)])]
    /\ UNCHANGED <<peers, peer, reconnect, todo, history>>

(* The call is passed to the peer, through the client it has by now.        *)
Delegate(c) ==
    /\ at[c].pc = "connected"
    /\ jobs' = [jobs EXCEPT ![JobId[c]] = Peer(c)]
    /\ at' = [at EXCEPT ![c] = At("calling", None, client[Peer(c)])]
    /\ UNCHANGED <<peers, peer, reconnect, todo, history>>

(* The peer has answered.  An error leaves the entry in `jobs`.             *)
Answer(a) ==
    /\ at[a].pc = "calling" /\ a \notin lost
    /\ \/ /\ at' = [at EXCEPT ![a] = Here("resolved")]
          /\ jobs' = IF a \in Calls THEN [jobs EXCEPT ![JobId[a]] = None]
                                    ELSE jobs
       \/ /\ at' = [at EXCEPT ![a] = Here("rejected")]
          /\ UNCHANGED jobs
    /\ UNCHANGED <<peers, peer, reconnect, todo, history>>

-----------------------------------------------------------------------------
Next ==
    \/ \E p \in Peers : \/ Add(p) \/ Remove(p)
                        \/ ReconnectFetched(p) \/ Reconnect(p) \/ Reconnected(p)
    \/ \E p \in Peers, m \in Manifests : AddManifest(p, m) \/ Update(p, m)
    \/ Stop
    \/ \E c \in Calls : Call(c) \/ Connect(c) \/ Connected(c) \/ Delegate(c)
    \/ \E j \in Cancels : Cancel(j)
    \/ \E a \in Activities : Try(a) \/ Fetched(a) \/ Judge(a) \/ Answer(a)
                            \/ Lose(a)

Spec == Init /\ [][Next]_vars

Progress(a) ==
    \/ Try(a) \/ Fetched(a) \/ Judge(a) \/ Answer(a)
    \/ a \in Calls /\ (Connect(a) \/ Connected(a) \/ Delegate(a))

(* Clients answer, or fail, unless the answer is lost; and stopping one     *)
(* comes to its end.                                                        *)
Fairness == WF_vars(\E a \in Activities : Progress(a))

FairSpec == Spec /\ Fairness

-----------------------------------------------------------------------------
Ended == {"unable", "failed", "resolved", "rejected"}

(* Where calls and cancellations, and where reconnections are.              *)
AtPcs == {"idle", "next", "fetching", "judging", "connecting", "stopping",
          "connected", "calling"} \cup Ended
ReconnectPcs == {"none", "fetching", "failed", "ready", "stopping", "done"}

Where(pcs) == [pc : pcs, with : Manifests \cup {None}, via : {0} \cup Clients]

TypeOK ==
    /\ peers \in Seq(Peers)
    /\ \A i, k \in 1..Len(peers) : peers[i] = peers[k] => i = k
    /\ jobs \in [Jobs -> Peers \cup {None}]
    /\ kind \in [Clients -> Types \cup {None}]
    /\ client \in [Peers -> {0} \cup Clients]
    /\ manifest \in [Peers -> Manifests \cup {None}]
    /\ validators \in [Peers -> [Methods -> Manifests \cup {None}]]
    /\ reconnect \in [Peers -> Where(ReconnectPcs)]
    /\ at \in [Activities -> Where(AtPcs)]
    /\ todo \in [Activities -> Seq(Peers)]
    /\ overtaken \subseteq Peers
    /\ updates \in 0..MaxUpdates
    /\ lost \subseteq Activities \cup Peers

Unshared(c) == \A d \in Calls : JobId[d] = JobId[c] => d = c

(* A job whose id is its own has an entry exactly while the peer it names   *)
(* works on it (or after that peer's error, when the entry is left behind). *)
JobsTrackCalls ==
    \A c \in Calls : Unshared(c) =>
       jobs[JobId[c]] = IF at[c].pc \in {"calling", "rejected"} THEN Peer(c)
                                                            ELSE None

(* A cancellation on its way, and the job it is for, are with one peer.     *)
CancelsFollowCalls ==
    \A c \in Calls :
       /\ Unshared(c) /\ at[c].pc = "calling"
       /\ JobId[c] \in Cancels /\ at[JobId[c]].pc = "calling"
       => Peer(JobId[c]) = Peer(c)

(* Peer.call never throws `Not connected yet` (Delegator.ts:218), however   *)
(* reconnections, stops and updates come between `connect` and the call.    *)
AlwaysConnected ==
    \A a \in Activities : at[a].pc \in {"fetching", "calling"} => at[a].via # 0

(* Requests are judged by the manifest a peer has now, unless it was        *)
(* updated while one was being fetched or compiled.                         *)
ValidatorsCurrent ==
    \A p \in Peers \ overtaken, m \in Methods :
       validators[p][m] \in {None, manifest[p]}

(* Every call comes to an end: no peer left to try, an answer, or an error, *)
(* although reconnections and stops take clients away from under it.  The   *)
(* one way to wait for ever is for an answer that was lost: because it did  *)
(* not come, or because its client was stopped and does not reject.         *)
CallsEnd == \A c \in Calls : at[c].pc = "next" ~> at[c].pc \in Ended \/ c \in lost

-----------------------------------------------------------------------------
(* Where Delegation sees a call or a cancellation to be.                    *)
PhaseOf(pc) ==
    IF pc = "calling" THEN "working"
    ELSE IF pc \in {"idle"} \cup Ended THEN pc ELSE "finding"

phases == [a \in Activities |-> PhaseOf(at[a].pc)]

(* ... and the peer that it is passed to: a cancellation has its peer from  *)
(* the begin.                                                               *)
workers == [a \in Activities |->
    IF a \in Cancels
      THEN IF todo[a] = <<>> THEN None ELSE Peer(a)
      ELSE IF at[a].pc \in {"calling", "resolved", "rejected"} THEN Peer(a)
                                                              ELSE None]

Abstract == INSTANCE Delegation WITH phase <- phases, worker <- workers

(* Delegator is an implementation of Delegation: however peers are found,   *)
(* reconnected, updated and stopped, a call has one peer, which the table   *)
(* names from then until it answers.                                        *)
ImplementsDelegation == Abstract!Spec
=============================================================================
