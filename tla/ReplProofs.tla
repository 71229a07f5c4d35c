----------------------------- MODULE ReplProofs -----------------------------
(***************************************************************************)
(* Proofs about Manager and Repl, for any documents, walks and peers.      *)
(*                                                                         *)
(* The theorems about the walks are proved of ManagerSpec.  Every step of  *)
(* the REPL is one of the Manager or changes nothing that the Manager has, *)
(* so they hold of the REPL too.                                           *)
(***************************************************************************)
EXTENDS Repl, SequenceTheorems, TLAPS

(* Only code nodes are passed to the delegator.                             *)
CodeOnly ==
    \A w \in Walks, n \in Nodes : phase[<<w, n>>] # "idle" => n \in Code

(* Nothing is delegated for a walk before it begins.                        *)
BegunFirst ==
    \A w \in Walks, n \in Nodes : state[w] = "idle" => phase[<<w, n>>] = "idle"

ManagerInv == ManagerTypeOK /\ CodeOnly /\ BegunFirst /\ OneAtATime /\ JobsTrackWalks

-----------------------------------------------------------------------------
(* What calls and cancellations are.                                        *)
LEMMA CallFacts ==
    /\ \A w \in Walks, n \in Nodes : <<w, n>> \in Calls
    /\ \A c \in Calls : \E w \in Walks, n \in Nodes : c = <<w, n>>
    /\ \A v, w \in Walks, m, n \in Nodes : <<v, m>> = <<w, n>> => v = w /\ m = n
    /\ \A c \in Calls : c \notin Cancels /\ JobId[c] \in Jobs
    /\ D!Activities = Calls \cup Cancels
    /\ Cancels \subseteq Jobs /\ None \notin Peers
    /\ "idle" \notin Active /\ Active \subseteq D!Phases
<1>1. /\ \A w \in Walks, n \in Nodes : <<w, n>> \in Calls
      /\ \A c \in Calls : \E w \in Walks, n \in Nodes : c = <<w, n>>
      /\ \A v, w \in Walks, m, n \in Nodes : <<v, m>> = <<w, n>> => v = w /\ m = n
  BY DEF Calls
<1>2. /\ \A c \in Calls : c \notin Cancels /\ JobId[c] \in Jobs
      /\ Cancels \subseteq Jobs /\ None \notin Peers
  BY ManagerAssumption
<1>3. /\ D!Activities = Calls \cup Cancels
      /\ "idle" \notin Active /\ Active \subseteq D!Phases
  BY DEF D!Activities, D!Phases, Active
<1>. QED
  BY <1>1, <1>2, <1>3

(* What has become of the node that a walk visits is no walk's business but *)
(* its own, and the nodes of a list are nodes.                              *)
LEMMA VisitFacts ==
    ASSUME ManagerTypeOK, NEW w \in Walks, Visiting(w)
    PROVE  /\ Node(w) \in Nodes /\ Tail(todo[w]) \in Seq(Nodes)
           /\ \A inside \in Seq(Nodes) : inside \o Tail(todo[w]) \in Seq(Nodes)
<1>1. todo[w] \in Seq(Nodes) /\ todo[w] # <<>>
  BY DEF ManagerTypeOK, Visiting
<1>2. Head(todo[w]) \in Nodes /\ Tail(todo[w]) \in Seq(Nodes)
  BY <1>1
<1>. QED
  BY <1>2, ConcatProperties DEF Node

DelegatedTypeOK ==
    /\ jobs \in [Jobs -> Peers \cup {None}]
    /\ phase \in [D!Activities -> D!Phases]
    /\ worker \in [D!Activities -> Peers \cup {None}]

(* The delegator goes on with what is active only, and that is all it may   *)
(* leave active.                                                            *)
LEMMA ProceedFacts ==
    ASSUME DelegatedTypeOK, D!Proceed
    PROVE  /\ DelegatedTypeOK'
           /\ \A a \in D!Activities : phase'[a] # phase[a] =>
                 phase[a] \in Active /\ phase'[a] # "idle"
<1>. USE DEF DelegatedTypeOK, D!Phases, D!Ended, Active
<1>1. ASSUME NEW c \in Calls, NEW p \in Peers, D!Pass(c, p)
      PROVE  /\ DelegatedTypeOK'
             /\ \A a \in D!Activities : phase'[a] # phase[a] =>
                   phase[a] \in Active /\ phase'[a] # "idle"
  BY <1>1, CallFacts DEF D!Pass
<1>2. ASSUME NEW j \in Cancels, D!Forward(j) \/ D!Incapable(j)
      PROVE  /\ DelegatedTypeOK'
             /\ \A a \in D!Activities : phase'[a] # phase[a] =>
                   phase[a] \in Active /\ phase'[a] # "idle"
  BY <1>2, CallFacts DEF D!Forward, D!Incapable
<1>3. ASSUME NEW a \in D!Activities, D!GiveUp(a)
      PROVE  /\ DelegatedTypeOK'
             /\ \A b \in D!Activities : phase'[b] # phase[b] =>
                   phase[b] \in Active /\ phase'[b] # "idle"
  BY <1>3 DEF D!GiveUp
<1>4. ASSUME NEW a \in D!Activities, D!Return(a)
      PROVE  /\ DelegatedTypeOK'
             /\ \A b \in D!Activities : phase'[b] # phase[b] =>
                   phase[b] \in Active /\ phase'[b] # "idle"
  BY <1>4, CallFacts DEF D!Return
<1>5. ASSUME NEW S \in SUBSET D!Busy, D!Drop(S)
      PROVE  /\ DelegatedTypeOK'
             /\ \A b \in D!Activities : phase'[b] # phase[b] =>
                   phase[b] \in Active /\ phase'[b] # "idle"
  BY <1>5 DEF D!Drop, D!Busy
<1>. QED
  BY <1>1, <1>2, <1>3, <1>4, <1>5 DEF D!Proceed

-----------------------------------------------------------------------------
(* A walk none of whose nodes is being executed may move on.                *)
LEMMA MoveOnInv ==
    ASSUME ManagerInv, NEW w \in Walks, UNCHANGED delegated,
           \A n \in Nodes : phase[<<w, n>>] \notin Active,
           state' \in [Walks -> {"idle", "walking", "done", "rejected"}],
           todo' \in [Walks -> Seq(Nodes)],
           \A v \in Walks : v # w => state'[v] = state[v] /\ todo'[v] = todo[v],
           state'[w] # "idle"
    PROVE  ManagerInv'
<1>1. phase' = phase /\ jobs' = jobs /\ worker' = worker
  BY DEF delegated
<1>2. ManagerTypeOK'
  BY <1>1 DEF ManagerInv, ManagerTypeOK
<1>3. CodeOnly' /\ BegunFirst'
  BY <1>1 DEF ManagerInv, CodeOnly, BegunFirst
<1>4. \A v \in Walks : v # w => Visiting(v)' = Visiting(v) /\ Node(v)' = Node(v)
  BY DEF Visiting, Node
<1>5. OneAtATime'
  BY <1>1, <1>4 DEF ManagerInv, OneAtATime
<1>6. JobsTrackWalks'
  BY <1>1 DEF ManagerInv, JobsTrackWalks, OwnJobs
<1>. QED
  BY <1>2, <1>3, <1>5, <1>6 DEF ManagerInv

(* A walk that visits a node whose call has ended, or that is not code, has *)
(* nothing that is being executed; nor has one that visits no node.         *)
LEMMA NothingActive ==
    ASSUME ManagerInv, NEW w \in Walks,
           Visiting(w) => \/ Node(w) \notin Code
                          \/ Outcome(w) \notin Active
    PROVE  \A n \in Nodes : phase[<<w, n>>] \notin Active
BY CallFacts DEF ManagerInv, OneAtATime, CodeOnly, Outcome

(* What a walk goes into takes the place of the node that it visits.        *)
LEMMA GoIntoInv ==
    ASSUME ManagerInv, NEW w \in Walks, Visiting(w), NEW inside \in Seq(Nodes),
           GoInto(w, inside),
           Node(w) \notin Code \/ Outcome(w) \notin Active
    PROVE  ManagerInv'
<1>1. /\ todo \in [Walks -> Seq(Nodes)]
      /\ state \in [Walks -> {"idle", "walking", "done", "rejected"}]
  BY DEF ManagerInv, ManagerTypeOK
<1>2. inside \o Tail(todo[w]) \in Seq(Nodes)
  BY VisitFacts DEF ManagerInv
<1>3. /\ todo' = [todo EXCEPT ![w] = inside \o Tail(todo[w])]
      /\ state' = state /\ UNCHANGED delegated
  BY DEF GoInto
<1>4. state[w] = "walking"
  BY DEF Visiting
<1>5. todo' \in [Walks -> Seq(Nodes)] /\ \A v \in Walks : v # w => todo'[v] = todo[v]
  BY <1>1, <1>2, <1>3
<1>. QED
  BY <1>1, <1>3, <1>4, <1>5, MoveOnInv, NothingActive

LEMMA WalkInv == ASSUME ManagerInv, NEW w \in Walks, Walk(w) PROVE ManagerInv'
<1>1. state[w] = "idle"
  BY DEF Walk
<1>2. \A n \in Nodes : phase[<<w, n>>] \notin Active
  BY <1>1, NothingActive DEF Visiting
<1>3. <<Root[w]>> \in Seq(Nodes)
  BY ManagerAssumption
<1>4. /\ state' \in [Walks -> {"idle", "walking", "done", "rejected"}]
      /\ todo' \in [Walks -> Seq(Nodes)]
      /\ \A v \in Walks : v # w => state'[v] = state[v] /\ todo'[v] = todo[v]
      /\ state'[w] = "walking"
  BY <1>3 DEF Walk, ManagerInv, ManagerTypeOK
<1>5. UNCHANGED delegated
  BY DEF Walk
<1>. QED
  BY <1>2, <1>4, <1>5, MoveOnInv

LEMMA PassInv == ASSUME ManagerInv, NEW w \in Walks, Pass(w) PROVE ManagerInv'
<1>1. Visiting(w) /\ Node(w) \notin Code /\ GoInto(w, Children[Node(w)])
  BY DEF Pass
<1>2. Children[Node(w)] \in Seq(Nodes)
  BY <1>1, VisitFacts, ManagerAssumption DEF ManagerInv
<1>. QED
  BY <1>1, <1>2, GoIntoInv

LEMMA ExecutedInv == ASSUME ManagerInv, NEW w \in Walks, Executed(w) PROVE ManagerInv'
<1>1. Visiting(w) /\ Node(w) \in Code /\ Outcome(w) \notin Active
  BY DEF Executed, Active
<1>2. PICK inside \in Results[Node(w)] : GoInto(w, inside)
  BY DEF Executed
<1>3. inside \in Seq(Nodes)
  BY <1>1, ManagerAssumption
<1>. QED
  BY <1>1, <1>2, <1>3, GoIntoInv

LEMMA UnchangedInv == ASSUME ManagerInv, NEW w \in Walks, Unchanged(w) PROVE ManagerInv'
<1>1. /\ Visiting(w) /\ Outcome(w) \notin Active
      /\ GoInto(w, Children[Node(w)])
  BY DEF Unchanged, Active
<1>2. Children[Node(w)] \in Seq(Nodes)
  BY <1>1, VisitFacts, ManagerAssumption DEF ManagerInv
<1>. QED
  BY <1>1, <1>2, GoIntoInv

(* A walk that ends, by an error or with its last node.                     *)
LEMMA EndInv ==
    ASSUME ManagerInv, NEW w \in Walks, Fail(w) \/ Finish(w)
    PROVE  ManagerInv'
<1>1. Visiting(w) => Outcome(w) \notin Active
  BY DEF Fail, Finish, Visiting, Active
<1>2. /\ state' \in [Walks -> {"idle", "walking", "done", "rejected"}]
      /\ todo' = todo /\ todo' \in [Walks -> Seq(Nodes)]
      /\ \A v \in Walks : v # w => state'[v] = state[v]
      /\ state'[w] # "idle"
  BY DEF Fail, Finish, ManagerInv, ManagerTypeOK
<1>3. UNCHANGED delegated
  BY DEF Fail, Finish
<1>. QED
  BY <1>1, <1>2, <1>3, MoveOnInv, NothingActive

-----------------------------------------------------------------------------
(* A call or a cancellation that is asked for.                              *)
LEMMA AskFacts ==
    ASSUME ManagerInv, NEW a \in D!Activities, D!Ask(a), UNCHANGED walks
    PROVE  /\ ManagerTypeOK'
           /\ phase[a] = "idle" /\ phase'[a] = "finding"
           /\ \A b \in D!Activities : b # a =>
                 phase'[b] = phase[b] /\ worker'[b] = worker[b]
           /\ state' = state /\ todo' = todo /\ jobs' = jobs
<1>1. /\ jobs \in [Jobs -> Peers \cup {None}]
      /\ phase \in [D!Activities -> D!Phases]
      /\ worker \in [D!Activities -> Peers \cup {None}]
  BY DEF ManagerInv, ManagerTypeOK
<1>2. /\ phase[a] = "idle" /\ jobs' = jobs
      /\ phase' = [phase EXCEPT ![a] = "finding"]
      /\ worker' = [worker EXCEPT ![a] = IF a \in Cancels THEN jobs[a] ELSE None]
  BY DEF D!Ask
<1>3. (IF a \in Cancels THEN jobs[a] ELSE None) \in Peers \cup {None}
  BY <1>1, CallFacts
<1>4. /\ phase' \in [D!Activities -> D!Phases]
      /\ worker' \in [D!Activities -> Peers \cup {None}]
  BY <1>1, <1>2, <1>3 DEF D!Phases
<1>5. state' = state /\ todo' = todo
  BY DEF walks
<1>6. ManagerTypeOK'
  BY <1>1, <1>2, <1>4, <1>5 DEF ManagerInv, ManagerTypeOK
<1>. QED
  BY <1>1, <1>2, <1>5, <1>6

(* The node that a walk visits may be passed to the delegator.              *)
LEMMA DelegateInv == ASSUME ManagerInv, NEW w \in Walks, Delegate(w) PROVE ManagerInv'
<1>1. /\ Visiting(w) /\ Node(w) \in Code
      /\ D!Ask(<<w, Node(w)>>) /\ UNCHANGED walks
  BY DEF Delegate
<1>2. Node(w) \in Nodes /\ <<w, Node(w)>> \in D!Activities
  BY <1>1, CallFacts, VisitFacts DEF ManagerInv
<1>3. /\ ManagerTypeOK'
      /\ state' = state /\ todo' = todo /\ jobs' = jobs
      /\ phase'[<<w, Node(w)>>] = "finding"
      /\ \A v \in Walks, n \in Nodes : v # w \/ n # Node(w) =>
            /\ phase'[<<v, n>>] = phase[<<v, n>>]
            /\ worker'[<<v, n>>] = worker[<<v, n>>]
  BY <1>1, <1>2, AskFacts, CallFacts
<1>4. \A v \in Walks : Visiting(v)' = Visiting(v) /\ Node(v)' = Node(v)
  BY <1>3 DEF Visiting, Node
<1>5. CodeOnly' /\ BegunFirst'
  BY <1>1, <1>3 DEF ManagerInv, CodeOnly, BegunFirst, Visiting
<1>6. OneAtATime'
  BY <1>1, <1>3, <1>4 DEF ManagerInv, OneAtATime
<1>7. JobsTrackWalks'
  BY <1>3 DEF ManagerInv, JobsTrackWalks, OwnJobs
<1>. QED
  BY <1>3, <1>5, <1>6, <1>7 DEF ManagerInv

(* A cancellation is no call.                                               *)
LEMMA CancelInv == ASSUME ManagerInv, NEW j \in Cancels, Cancel(j) PROVE ManagerInv'
<1>1. D!Ask(j) /\ UNCHANGED walks /\ j \in D!Activities
  BY CallFacts DEF Cancel
<1>2. /\ ManagerTypeOK'
      /\ state' = state /\ todo' = todo /\ jobs' = jobs
      /\ \A v \in Walks, n \in Nodes :
            /\ phase'[<<v, n>>] = phase[<<v, n>>]
            /\ worker'[<<v, n>>] = worker[<<v, n>>]
  BY <1>1, AskFacts, CallFacts
<1>3. \A v \in Walks : Visiting(v)' = Visiting(v) /\ Node(v)' = Node(v)
  BY <1>2 DEF Visiting, Node
<1>4. CodeOnly' /\ BegunFirst' /\ OneAtATime' /\ JobsTrackWalks'
  BY <1>2, <1>3 DEF ManagerInv, CodeOnly, BegunFirst, OneAtATime, JobsTrackWalks,
                    OwnJobs
<1>. QED
  BY <1>2, <1>4 DEF ManagerInv

(* The delegator goes on.  The entry of a walk's job is overwritten, or     *)
(* taken away, only for the node that the walk visits.                      *)
LEMMA ProceedInv ==
    ASSUME ManagerInv, D!Proceed, UNCHANGED walks
    PROVE  ManagerInv'
<1>1. state' = state /\ todo' = todo
  BY DEF walks
<1>2. /\ DelegatedTypeOK'
      /\ \A a \in D!Activities : phase'[a] # phase[a] =>
            phase[a] \in Active /\ phase'[a] # "idle"
  BY ProceedFacts DEF ManagerInv, ManagerTypeOK, DelegatedTypeOK
<1>3. ManagerTypeOK'
  BY <1>1, <1>2 DEF ManagerInv, ManagerTypeOK, DelegatedTypeOK
<1>4. \A v \in Walks, n \in Nodes :
         /\ phase[<<v, n>>] = "idle" <=> phase'[<<v, n>>] = "idle"
         /\ phase'[<<v, n>>] \in Active => phase[<<v, n>>] \in Active
  <2>1. \A a \in D!Activities : /\ phase[a] = "idle" <=> phase'[a] = "idle"
                                /\ phase'[a] \in Active => phase[a] \in Active
    BY <1>2, CallFacts
  <2>2. \A v \in Walks, n \in Nodes : <<v, n>> \in D!Activities
    BY CallFacts
  <2>. QED
    BY <2>1, <2>2
<1>5. \A v \in Walks : Visiting(v)' = Visiting(v) /\ Node(v)' = Node(v)
  BY <1>1 DEF Visiting, Node
<1>6. CodeOnly' /\ BegunFirst'
  BY <1>1, <1>4 DEF ManagerInv, CodeOnly, BegunFirst
<1>7. OneAtATime'
  BY <1>4, <1>5 DEF ManagerInv, OneAtATime
<1>8. JobsTrackWalks'
  <2>1. SUFFICES ASSUME NEW w \in Walks, NEW n \in Nodes, OwnJobs(w),
                        phase'[<<w, n>>] = "working"
                 PROVE  jobs'[JobId[<<w, n>>]] = worker'[<<w, n>>]
    BY DEF JobsTrackWalks, OwnJobs
  <2>2. <<w, n>> \in Calls /\ n = Node(w)
    BY <1>4, <2>1, CallFacts DEF ManagerInv, OneAtATime, Active
  <2>3. ASSUME NEW c \in Calls, JobId[c] = JobId[<<w, n>>], phase[c] \in Active
        PROVE  c = <<w, n>>
    BY <2>1, <2>2, <2>3, CallFacts DEF OwnJobs, ManagerInv, OneAtATime
  <2>4. /\ jobs \in [Jobs -> Peers \cup {None}]
        /\ phase \in [D!Activities -> D!Phases]
        /\ worker \in [D!Activities -> Peers \cup {None}]
    BY DEF ManagerInv, ManagerTypeOK
  <2>5. phase[<<w, n>>] = "working" => jobs[JobId[<<w, n>>]] = worker[<<w, n>>]
    BY <2>1 DEF ManagerInv, JobsTrackWalks
  <2>6. ASSUME NEW c \in Calls, NEW p \in Peers, D!Pass(c, p)
        PROVE  jobs'[JobId[<<w, n>>]] = worker'[<<w, n>>]
    <3>1. CASE c = <<w, n>>
      BY <2>4, <2>6, <3>1, CallFacts DEF D!Pass
    <3>2. CASE c # <<w, n>>
      <4>1. JobId[c] # JobId[<<w, n>>]
        BY <2>3, <2>6, <3>2 DEF D!Pass, Active
      <4>. QED
        BY <2>1, <2>2, <2>4, <2>5, <2>6, <3>2, <4>1, CallFacts DEF D!Pass
    <3>. QED
      BY <3>1, <3>2
  <2>7. ASSUME NEW j \in Cancels, D!Forward(j) \/ D!Incapable(j)
        PROVE  jobs'[JobId[<<w, n>>]] = worker'[<<w, n>>]
    BY <2>1, <2>2, <2>4, <2>5, <2>7, CallFacts DEF D!Forward, D!Incapable
  <2>8. ASSUME NEW a \in D!Activities, D!GiveUp(a)
        PROVE  jobs'[JobId[<<w, n>>]] = worker'[<<w, n>>]
    BY <2>1, <2>2, <2>4, <2>5, <2>8, CallFacts DEF D!GiveUp
  <2>9. ASSUME NEW a \in D!Activities, D!Return(a)
        PROVE  jobs'[JobId[<<w, n>>]] = worker'[<<w, n>>]
    <3>1. a # <<w, n>> /\ phase[<<w, n>>] = "working"
      BY <2>1, <2>2, <2>4, <2>9, CallFacts DEF D!Return
    <3>2. a \in Calls => JobId[a] # JobId[<<w, n>>]
      BY <2>3, <2>9, <3>1 DEF D!Return, Active
    <3>. QED
      BY <2>2, <2>4, <2>5, <2>9, <3>1, <3>2, CallFacts DEF D!Return
  <2>10. ASSUME NEW S \in SUBSET D!Busy, D!Drop(S)
         PROVE  jobs'[JobId[<<w, n>>]] = worker'[<<w, n>>]
    BY <2>1, <2>2, <2>4, <2>5, <2>10, CallFacts DEF D!Drop
  <2>. QED
    BY <2>6, <2>7, <2>8, <2>9, <2>10 DEF D!Proceed
<1>. QED
  BY <1>3, <1>6, <1>7, <1>8 DEF ManagerInv

-----------------------------------------------------------------------------
(* At first no walk has begun.                                              *)
LEMMA ManagerInitInv == ManagerInit => ManagerInv
<1>. SUFFICES ASSUME ManagerInit PROVE ManagerInv
  OBVIOUS
<1>. USE DEF ManagerInit, D!Init
<1>1. ManagerTypeOK
  BY DEF ManagerTypeOK, D!Phases
<1>2. \A w \in Walks, n \in Nodes : phase[<<w, n>>] = "idle"
  BY CallFacts
<1>3. CodeOnly /\ BegunFirst /\ OneAtATime /\ JobsTrackWalks
  BY <1>2 DEF CodeOnly, BegunFirst, OneAtATime, JobsTrackWalks, Active
<1>. QED
  BY <1>1, <1>3 DEF ManagerInv

LEMMA ManagerNextInv == ManagerInv /\ [ManagerNext]_managerVars => ManagerInv'
<1>. SUFFICES ASSUME ManagerInv, [ManagerNext]_managerVars PROVE ManagerInv'
  OBVIOUS
<1>1. CASE UNCHANGED managerVars
  <2>1. /\ phase' = phase /\ jobs' = jobs /\ worker' = worker
        /\ state' = state /\ todo' = todo
    BY <1>1 DEF managerVars, delegated, walks
  <2>2. \A w \in Walks : Visiting(w)' = Visiting(w) /\ Node(w)' = Node(w)
    BY <2>1 DEF Visiting, Node
  <2>. QED
    BY <2>1, <2>2 DEF ManagerInv, ManagerTypeOK, CodeOnly, BegunFirst, OneAtATime,
                      JobsTrackWalks, OwnJobs
<1>2. CASE \E w \in Walks : Walk(w) \/ Advance(w)
  BY <1>2, WalkInv, PassInv, DelegateInv, ExecutedInv, UnchangedInv, EndInv
     DEF Advance
<1>3. CASE \E j \in Cancels : Cancel(j)
  BY <1>3, CancelInv
<1>4. CASE D!Proceed /\ UNCHANGED walks
  BY <1>4, ProceedInv
<1>. QED
  BY <1>1, <1>2, <1>3, <1>4 DEF ManagerNext, Work

LEMMA ManagerInvariance == ManagerSpec => []ManagerInv
BY ManagerInitInv, ManagerNextInv, PTL DEF ManagerSpec

-----------------------------------------------------------------------------
(* What a walk has yet to visit is in the order of the document, and comes  *)
(* after all that it has passed to the delegator, but for the node that it  *)
(* is visiting.                                                             *)
InOrderFrom(w) ==
    /\ \A i, k \in 1..Len(todo[w]) : i < k => Last[todo[w][i]] < todo[w][k]
    /\ \A n \in Nodes : phase[<<w, n>>] # "idle" =>
          \A i \in 1..Len(todo[w]) : n <= todo[w][i]

OrderInv == \A w \in Walks : InOrderFrom(w)

(* If the first node of such a list makes room for nodes inside it, in      *)
(* their order, the list is in order, and all of it comes after that node.  *)
LEMMA NestedOrder ==
    ASSUME NEW q \in Seq(Nodes), q # <<>>, NEW inside \in Seq(Nodes),
           \A i, k \in 1..Len(q) : i < k => Last[q[i]] < q[k],
           Nested(Head(q), inside),
           NEW r, r = inside \o Tail(q)
    PROVE  /\ \A i, k \in 1..Len(r) : i < k => Last[r[i]] < r[k]
           /\ \A i \in 1..Len(r) : Head(q) < r[i]
<1>. DEFINE h == Head(q)
            N == Len(inside)
            rest == Tail(q)
<1>1. /\ Nodes \subseteq Int /\ Last \in [Nodes -> Int]
      /\ \A n \in Nodes : n <= Last[n]
  BY OrderAssumption
<1>2. /\ Len(q) \in Nat /\ Len(q) >= 1 /\ h = q[1] /\ h \in Nodes
      /\ rest \in Seq(Nodes) /\ Len(rest) = Len(q) - 1
      /\ \A i \in 1..Len(rest) : rest[i] = q[i + 1]
      /\ N \in Nat
  OBVIOUS
<1>3. /\ Len(r) = N + Len(rest)
      /\ \A i \in 1..(N + Len(rest)) :
            r[i] = IF i <= N THEN inside[i] ELSE rest[i - N]
  BY <1>2, ConcatProperties
<1>4. \A i \in 1..N :
         /\ inside[i] \in Nodes
         /\ h < inside[i] /\ Last[inside[i]] <= Last[h]
         /\ \A k \in 1..N : i < k => Last[inside[i]] < inside[k]
  BY DEF Nested
<1>5. \A i \in 1..Len(rest) :
         /\ rest[i] \in Nodes /\ Last[h] < rest[i]
         /\ \A k \in 1..Len(rest) : i < k => Last[rest[i]] < rest[k]
  BY <1>2
<1>. HIDE DEF h, N, rest
<1>6. /\ Len(rest) \in Nat /\ h \in Int /\ Last[h] \in Int /\ h <= Last[h]
      /\ \A n \in Nodes : n \in Int /\ Last[n] \in Int
  BY <1>1, <1>2
<1>7. \A i \in 1..Len(r) :
         \/ i \in 1..N /\ r[i] = inside[i]
         \/ i > N /\ i - N \in 1..Len(rest) /\ r[i] = rest[i - N]
  BY <1>2, <1>3, <1>6
<1>8. ASSUME NEW i \in 1..Len(r)
      PROVE  h < r[i] /\ r[i] \in Int
  <2>1. CASE i \in 1..N /\ r[i] = inside[i]
    <3>1. inside[i] \in Nodes /\ h < inside[i]
      BY <1>4, <2>1
    <3>. QED
      BY <1>6, <2>1, <3>1
  <2>2. CASE i - N \in 1..Len(rest) /\ r[i] = rest[i - N]
    <3>1. r[i] \in Nodes /\ Last[h] < r[i]
      BY <1>5, <2>2
    <3>2. r[i] \in Int
      BY <1>6, <3>1
    <3>3. \A x, y, z \in Int : x <= y /\ y < z => x < z
      OBVIOUS
    <3>. QED
      BY <1>6, <3>1, <3>2, <3>3, Zenon
  <2>. QED
    BY <1>7, <2>1, <2>2
<1>9. ASSUME NEW i \in 1..Len(r), NEW k \in 1..Len(r), i < k
      PROVE  Last[r[i]] < r[k]
  <2>0. i \in Int /\ k \in Int /\ N \in Int
    BY <1>2
  <2>1. CASE i \in 1..N /\ r[i] = inside[i] /\ k \in 1..N /\ r[k] = inside[k]
    BY <1>4, <1>9, <2>1
  <2>2. CASE /\ i \in 1..N /\ r[i] = inside[i]
             /\ k - N \in 1..Len(rest) /\ r[k] = rest[k - N]
    <3>1. Last[r[i]] <= Last[h] /\ r[i] \in Nodes
      BY <1>4, <2>2
    <3>2. Last[h] < r[k] /\ r[k] \in Nodes
      BY <1>5, <2>2
    <3>3. Last[r[i]] \in Int /\ r[k] \in Int /\ Last[h] \in Int
      BY <1>6, <3>1, <3>2
    <3>4. \A x, y, z \in Int : x <= y /\ y < z => x < z
      OBVIOUS
    <3>. QED
      BY <3>1, <3>2, <3>3, <3>4, Zenon
  <2>3. CASE /\ i - N \in 1..Len(rest) /\ r[i] = rest[i - N]
             /\ k - N \in 1..Len(rest) /\ r[k] = rest[k - N]
    <3>1. i - N < k - N
      BY <1>9, <2>0
    <3>. QED
      BY <1>5, <2>3, <3>1
  <2>4. ~(i > N /\ k \in 1..N)
    BY <1>9, <2>0
  <2>. QED
    BY <1>7, <2>1, <2>2, <2>3, <2>4
<1>. QED
  BY <1>8, <1>9 DEF h

(* Steps that begin no call of a walk and leave its list alone keep its     *)
(* order.                                                                   *)
LEMMA OrderKept ==
    ASSUME OrderInv, NEW w \in Walks, todo'[w] = todo[w],
           \A n \in Nodes : phase[<<w, n>>] = "idle" => phase'[<<w, n>>] = "idle"
    PROVE  InOrderFrom(w)'
BY DEF OrderInv, InOrderFrom

(* What a walk goes into has not been passed to the delegator yet.          *)
LEMMA GoIntoOrder ==
    ASSUME ManagerInv, OrderInv, NEW w \in Walks, Visiting(w),
           NEW inside \in Seq(Nodes), Nested(Node(w), inside), GoInto(w, inside)
    PROVE  /\ OrderInv'
           /\ \A n \in Nodes : phase[<<w, n>>] # "idle" =>
                 \A i \in 1..Len(todo'[w]) : n < todo'[w][i]
<1>1. /\ todo \in [Walks -> Seq(Nodes)]
      /\ todo[w] \in Seq(Nodes) /\ todo[w] # <<>>
  BY DEF ManagerInv, ManagerTypeOK, Visiting
<1>2. /\ todo'[w] = inside \o Tail(todo[w]) /\ phase' = phase
      /\ \A v \in Walks : v # w => todo'[v] = todo[v]
  BY <1>1 DEF GoInto, delegated
<1>3. \A i, k \in 1..Len(todo[w]) : i < k => Last[todo[w][i]] < todo[w][k]
  BY DEF OrderInv, InOrderFrom
<1>4. Nested(Head(todo[w]), inside)
  BY DEF Node
<1>5. /\ \A i, k \in 1..Len(todo'[w]) : i < k => Last[todo'[w][i]] < todo'[w][k]
      /\ \A i \in 1..Len(todo'[w]) : Head(todo[w]) < todo'[w][i]
  BY <1>1, <1>2, <1>3, <1>4, NestedOrder
<1>6. ASSUME NEW n \in Nodes, phase[<<w, n>>] # "idle", NEW i \in 1..Len(todo'[w])
      PROVE  n <= todo'[w][i] /\ n < todo'[w][i]
  <2>1. Len(todo[w]) \in Nat /\ 1 \in 1..Len(todo[w]) /\ Head(todo[w]) = todo[w][1]
        /\ Head(todo[w]) \in Nodes
    BY <1>1
  <2>2. n <= Head(todo[w])
    BY <1>6, <2>1 DEF OrderInv, InOrderFrom
  <2>3. todo'[w] \in Seq(Nodes)
    <3>1. inside \o Tail(todo[w]) \in Seq(Nodes)
      BY VisitFacts DEF ManagerInv
    <3>. QED
      BY <1>2, <3>1
  <2>4. n \in Int /\ Head(todo[w]) \in Int /\ todo'[w][i] \in Int
    <3>1. todo'[w][i] \in Nodes
      BY <2>3
    <3>. QED
      BY <2>1, <3>1, OrderAssumption
  <2>5. Head(todo[w]) < todo'[w][i]
    BY <1>5
  <2>6. \A x, y, z \in Int : x <= y /\ y < z => x <= z /\ x < z
    OBVIOUS
  <2>. QED
    BY <2>2, <2>4, <2>5, <2>6, Zenon
<1>7. InOrderFrom(w)'
  BY <1>2, <1>5, <1>6 DEF InOrderFrom
<1>8. OrderInv'
  BY <1>2, <1>7, OrderKept DEF OrderInv
<1>. QED
  BY <1>6, <1>8

(* The node that a walk visits comes first of those it has yet to visit.    *)
LEMMA NodeIsFirst ==
    ASSUME ManagerInv, OrderInv, NEW w \in Walks, Visiting(w)
    PROVE  \A i \in 1..Len(todo[w]) : Node(w) <= todo[w][i]
<1>1. /\ todo[w] \in Seq(Nodes) /\ todo[w] # <<>>
  BY DEF ManagerInv, ManagerTypeOK, Visiting
<1>2. /\ Len(todo[w]) \in Nat /\ 1 \in 1..Len(todo[w])
      /\ Node(w) = todo[w][1] /\ Node(w) \in Nodes
  BY <1>1 DEF Node
<1>3. Node(w) \in Int /\ Last[Node(w)] \in Int /\ Node(w) <= Last[Node(w)]
  BY <1>2, OrderAssumption
<1>. SUFFICES ASSUME NEW i \in 1..Len(todo[w])
              PROVE  Node(w) <= todo[w][i]
  OBVIOUS
<1>4. CASE i = 1
  BY <1>2, <1>3, <1>4
<1>5. CASE i # 1
  <2>1. 1 < i
    BY <1>2, <1>5
  <2>2. Last[Node(w)] < todo[w][i]
    BY <1>2, <2>1 DEF OrderInv, InOrderFrom
  <2>3. todo[w][i] \in Int
    BY <1>1, OrderAssumption
  <2>4. \A x, y, z \in Int : x <= y /\ y < z => x <= z
    OBVIOUS
  <2>. QED
    BY <1>3, <2>2, <2>3, <2>4, Zenon
<1>. QED
  BY <1>4, <1>5

LEMMA OrderInit == ManagerInit => OrderInv
BY CallFacts DEF ManagerInit, D!Init, OrderInv, InOrderFrom

LEMMA OrderNext ==
    ASSUME ManagerInv, OrderInv, [ManagerNext]_managerVars
    PROVE  OrderInv'
<1>1. ASSUME NEW w \in Walks, Walk(w)
      PROVE  OrderInv'
  <2>1. /\ phase' = phase /\ todo'[w] = <<Root[w]>> /\ state[w] = "idle"
        /\ \A v \in Walks : v # w => todo'[v] = todo[v]
    BY <1>1 DEF Walk, delegated, ManagerInv, ManagerTypeOK
  <2>2. \A n \in Nodes : phase'[<<w, n>>] = "idle"
    BY <2>1 DEF ManagerInv, BegunFirst
  <2>3. InOrderFrom(w)'
    BY <2>1, <2>2 DEF InOrderFrom
  <2>. QED
    BY <2>1, <2>3, OrderKept DEF OrderInv
<1>2. ASSUME NEW w \in Walks, Pass(w) \/ Unchanged(w)
      PROVE  OrderInv'
  <2>1. Visiting(w) /\ GoInto(w, Children[Node(w)])
    BY <1>2 DEF Pass, Unchanged
  <2>2. Node(w) \in Nodes
    BY <2>1, VisitFacts DEF ManagerInv
  <2>3. Children[Node(w)] \in Seq(Nodes) /\ Nested(Node(w), Children[Node(w)])
    BY <2>2, ManagerAssumption, OrderAssumption
  <2>. QED
    BY <2>1, <2>3, GoIntoOrder
<1>3. ASSUME NEW w \in Walks, Executed(w)
      PROVE  OrderInv'
  <2>1. Visiting(w) /\ Node(w) \in Code
    BY <1>3 DEF Executed
  <2>2. PICK inside \in Results[Node(w)] : GoInto(w, inside)
    BY <1>3 DEF Executed
  <2>3. inside \in Seq(Nodes) /\ Nested(Node(w), inside)
    BY <2>1, ManagerAssumption, OrderAssumption
  <2>. QED
    BY <2>1, <2>2, <2>3, GoIntoOrder
<1>4. ASSUME NEW w \in Walks, Delegate(w)
      PROVE  OrderInv'
  <2>1. Visiting(w) /\ D!Ask(<<w, Node(w)>>) /\ UNCHANGED walks
    BY <1>4 DEF Delegate
  <2>2. Node(w) \in Nodes /\ <<w, Node(w)>> \in D!Activities
    BY <2>1, CallFacts, VisitFacts DEF ManagerInv
  <2>3. /\ todo' = todo
        /\ \A v \in Walks, n \in Nodes : v # w \/ n # Node(w) =>
              phase'[<<v, n>>] = phase[<<v, n>>]
    BY <2>1, <2>2, AskFacts, CallFacts
  <2>4. InOrderFrom(w)'
    BY <2>1, <2>3, NodeIsFirst DEF OrderInv, InOrderFrom
  <2>. QED
    BY <2>3, <2>4, OrderKept DEF OrderInv
<1>5. ASSUME \/ \E w \in Walks : Fail(w) \/ Finish(w)
             \/ UNCHANGED managerVars
      PROVE  OrderInv'
  <2>1. todo' = todo /\ phase' = phase
    BY <1>5 DEF Fail, Finish, managerVars, delegated, walks
  <2>. QED
    BY <2>1, OrderKept DEF OrderInv
<1>6. ASSUME NEW j \in Cancels, Cancel(j)
      PROVE  OrderInv'
  <2>1. D!Ask(j) /\ UNCHANGED walks /\ j \in D!Activities
    BY <1>6, CallFacts DEF Cancel
  <2>2. /\ todo' = todo
        /\ \A v \in Walks, n \in Nodes : phase'[<<v, n>>] = phase[<<v, n>>]
    BY <2>1, AskFacts, CallFacts
  <2>. QED
    BY <2>2, OrderKept DEF OrderInv
<1>7. ASSUME D!Proceed, UNCHANGED walks
      PROVE  OrderInv'
  <2>1. \A a \in D!Activities : phase[a] = "idle" => phase'[a] = "idle"
    BY <1>7, ProceedFacts, CallFacts
       DEF ManagerInv, ManagerTypeOK, DelegatedTypeOK
  <2>2. todo' = todo /\ \A v \in Walks, n \in Nodes : <<v, n>> \in D!Activities
    BY <1>7, CallFacts DEF walks
  <2>. QED
    BY <2>1, <2>2, OrderKept DEF OrderInv
<1>. QED
  BY <1>1, <1>2, <1>3, <1>4, <1>5, <1>6, <1>7 DEF ManagerNext, Work, Advance

LEMMA OrderInvariance == ManagerSpec => []OrderInv
BY ManagerInvariance, OrderInit, OrderNext, PTL DEF ManagerSpec

-----------------------------------------------------------------------------
(* The REPL uses the Manager as anybody may.                                *)
LEMMA StepOfManager == [Next]_vars => [ManagerNext]_managerVars
<1>1. ASSUME NEW l \in Lines, Evaluate(l)
      PROVE  ManagerNext
  BY <1>1 DEF Evaluate, ManagerNext, Lines
<1>2. ASSUME Interrupt
      PROVE  ManagerNext
  BY <1>2 DEF Interrupt, ManagerNext
<1>3. ASSUME Work
      PROVE  ManagerNext
  BY <1>3 DEF ManagerNext
<1>4. ASSUME \/ \E l \in Lines : Hold(l) \/ Ignore(l) \/ Evaluated(l) \/ Encoded(l)
             \/ Close \/ UNCHANGED vars
      PROVE  UNCHANGED managerVars
  BY <1>4 DEF Hold, Ignore, Evaluated, Encoded, Close, vars
<1>. QED
  BY <1>1, <1>2, <1>3, <1>4 DEF Next, Progress

(* Whatever is entered, interrupted or closed, what the Manager and its     *)
(* delegator see of the REPL is a behaviour that ManagerSpec allows.        *)
THEOREM ReplUsesManager == Spec => ManagerSpec
<1>1. Init => ManagerInit
  BY DEF Init
<1>. QED
  BY <1>1, StepOfManager, PTL DEF Spec, ManagerSpec

(* Of each document no more than one node is being executed, the one that   *)
(* its walk has come to, whatever fails or is cancelled meanwhile.          *)
THEOREM OneNodeAtATime == Spec => []OneAtATime
BY ReplUsesManager, ManagerInvariance, PTL DEF ManagerInv

(* While a node is at work the table of jobs names its peer, although all   *)
(* nodes of a document share one job and each that ends takes its entry     *)
(* away.                                                                    *)
THEOREM JobsFollowWalks == Spec => []JobsTrackWalks
BY ReplUsesManager, ManagerInvariance, PTL DEF ManagerInv

(* A code node is begun before all those that come after it, also those     *)
(* that the execution of an earlier one has added.                          *)
THEOREM CodeInOrder == Spec => InOrder
<1>1. ManagerInv /\ OrderInv /\ [Next]_vars =>
         [\A w \in Walks : \A m, n \in Nodes :
            m < n /\ phase[<<w, n>>] # "idle" /\ phase[<<w, m>>] = "idle"
               => phase'[<<w, m>>] = "idle"]_vars
  <2>. SUFFICES ASSUME ManagerInv, OrderInv, [ManagerNext]_managerVars,
                       NEW w \in Walks, NEW m \in Nodes, NEW n \in Nodes,
                       m < n, phase[<<w, n>>] # "idle", phase[<<w, m>>] = "idle",
                       phase'[<<w, m>>] # "idle"
                PROVE  FALSE
    BY StepOfManager
  <2>0. <<w, m>> \in D!Activities /\ m \in Int /\ n \in Int
    BY CallFacts, OrderAssumption
  <2>1. phase' # phase
    OBVIOUS
  <2>2. ASSUME D!Proceed
        PROVE  FALSE
    BY <2>0, <2>2, ProceedFacts, CallFacts
       DEF ManagerInv, ManagerTypeOK, DelegatedTypeOK
  <2>3. ASSUME NEW j \in Cancels, Cancel(j)
        PROVE  FALSE
    BY <2>0, <2>3, AskFacts, CallFacts DEF Cancel
  <2>4. ASSUME NEW v \in Walks, Delegate(v)
        PROVE  FALSE
    <3>1. Visiting(v) /\ D!Ask(<<v, Node(v)>>) /\ UNCHANGED walks
      BY <2>4 DEF Delegate
    <3>2. Node(v) \in Nodes /\ <<v, Node(v)>> \in D!Activities
      BY <3>1, CallFacts, VisitFacts DEF ManagerInv
    <3>3. v = w /\ Node(v) = m
      BY <2>0, <3>1, <3>2, AskFacts, CallFacts
    <3>4. todo[w] \in Seq(Nodes) /\ todo[w] # <<>>
      BY <3>1, <3>3 DEF Visiting, ManagerInv, ManagerTypeOK
    <3>5. 1 \in 1..Len(todo[w]) /\ todo[w][1] = m
      BY <3>3, <3>4 DEF Node
    <3>6. n <= m
      BY <3>5 DEF OrderInv, InOrderFrom
    <3>. QED
      BY <2>0, <3>6
  <2>. QED
    BY <2>1, <2>2, <2>3, <2>4
       DEF ManagerNext, Work, Advance, Walk, Pass, Executed, Unchanged, GoInto,
           Fail, Finish, managerVars, delegated
<1>. QED
  BY <1>1, ReplUsesManager, ManagerInvariance, OrderInvariance, PTL
     DEF Spec, InOrder

(* No node of a document is executed twice: when a walk comes to a node, it *)
(* was not passed to the delegator before, so that the outcome a walk goes  *)
(* by is that of the call it makes then.                                    *)
THEOREM VisitsAreFresh ==
    Spec => [][\A w \in Walks : todo'[w] # todo[w] /\ Visiting(w)' =>
                  phase'[<<w, Node(w)'>>] = "idle"]_vars
<1>1. ManagerInv /\ ManagerInv' /\ OrderInv /\ OrderInv' /\ [Next]_vars =>
         [\A w \in Walks : todo'[w] # todo[w] /\ Visiting(w)' =>
             phase'[<<w, Node(w)'>>] = "idle"]_vars
  <2>. SUFFICES ASSUME ManagerInv, ManagerInv', OrderInv, [ManagerNext]_managerVars,
                       NEW w \in Walks, todo'[w] # todo[w], Visiting(w)'
                PROVE  phase'[<<w, Node(w)'>>] = "idle"
    BY StepOfManager
  <2>1. todo'[w] \in Seq(Nodes) /\ todo'[w] # <<>>
    BY DEF Visiting, ManagerInv, ManagerTypeOK
  <2>2. /\ Node(w)' \in Nodes /\ Node(w)' = todo'[w][1] /\ 1 \in 1..Len(todo'[w])
        /\ ~(Node(w)' < Node(w)')
    <3>1. Node(w)' \in Nodes /\ Node(w)' = todo'[w][1] /\ 1 \in 1..Len(todo'[w])
      BY <2>1 DEF Node
    <3>2. Node(w)' \in Int
      BY <3>1, OrderAssumption
    <3>3. \A x \in Int : ~(x < x)
      OBVIOUS
    <3>. QED
      BY <3>1, <3>2, <3>3, Zenon
  <2>3. ASSUME NEW inside \in Seq(Nodes), Visiting(w), GoInto(w, inside),
               Nested(Node(w), inside)
        PROVE  phase'[<<w, Node(w)'>>] = "idle"
    <3>1. phase' = phase
      BY <2>3 DEF GoInto, delegated
    <3>. QED
      BY <2>2, <2>3, <3>1, GoIntoOrder
  <2>4. CASE Walk(w)
    <3>1. state[w] = "idle" /\ phase' = phase
      BY <2>4 DEF Walk, delegated
    <3>. QED
      BY <2>2, <3>1 DEF ManagerInv, BegunFirst
  <2>5. CASE Pass(w) \/ Unchanged(w)
    <3>1. Visiting(w) /\ GoInto(w, Children[Node(w)])
      BY <2>5 DEF Pass, Unchanged
    <3>2. Node(w) \in Nodes
      BY <3>1, VisitFacts DEF ManagerInv
    <3>3. Children[Node(w)] \in Seq(Nodes) /\ Nested(Node(w), Children[Node(w)])
      BY <3>2, ManagerAssumption, OrderAssumption
    <3>. QED
      BY <2>3, <3>1, <3>3
  <2>6. CASE Executed(w)
    <3>1. Visiting(w) /\ Node(w) \in Code
      BY <2>6 DEF Executed
    <3>2. PICK inside \in Results[Node(w)] : GoInto(w, inside)
      BY <2>6 DEF Executed
    <3>3. inside \in Seq(Nodes) /\ Nested(Node(w), inside)
      BY <3>1, ManagerAssumption, OrderAssumption
    <3>. QED
      BY <2>3, <3>1, <3>2, <3>3
  <2>7. ASSUME NEW v \in Walks, v # w,
               Walk(v) \/ Pass(v) \/ Executed(v) \/ Unchanged(v)
        PROVE  FALSE
    <3>1. \E list : todo' = [todo EXCEPT ![v] = list]
      BY <2>7 DEF Walk, Pass, Executed, Unchanged, GoInto
    <3>. QED
      BY <2>7, <3>1 DEF ManagerInv, ManagerTypeOK
  <2>8. ASSUME \/ \E v \in Walks : Delegate(v) \/ Fail(v) \/ Finish(v)
               \/ \E j \in Cancels : Cancel(j)
               \/ D!Proceed /\ UNCHANGED walks
               \/ UNCHANGED managerVars
        PROVE  FALSE
    BY <2>8 DEF Delegate, Fail, Finish, Cancel, walks, managerVars
  <2>. QED
    BY <2>4, <2>5, <2>6, <2>7, <2>8 DEF ManagerNext, Work, Advance
<1>. QED
  BY <1>1, ReplUsesManager, ManagerInvariance, OrderInvariance, PTL DEF Spec

-----------------------------------------------------------------------------
(* A walk goes on only while its line is being evaluated.                   *)
WalksOfLines == \A l \in Lines : state[l] = "walking" => line[l] = "evaluating"

ReplInv == ManagerInv /\ TypeOK /\ WalksOfLines /\ InterruptsLine

LEMMA ReplInitInv == Init => ReplInv
<1>. SUFFICES ASSUME Init PROVE ReplInv
  OBVIOUS
<1>1. ManagerInv
  BY ManagerInitInv DEF Init
<1>2. open \in BOOLEAN /\ overlapped \in BOOLEAN
  BY Zenon DEF Init
<1>3. TypeOK
  BY <1>1, <1>2 DEF Init, TypeOK, ManagerInv
<1>4. WalksOfLines
  BY DEF Init, ManagerInit, WalksOfLines, Lines
<1>5. InterruptsLine
  BY DEF Init, InterruptsLine, Evaluating
<1>. QED
  BY <1>1, <1>3, <1>4, <1>5 DEF ReplInv

(* A line that is held back or ignored was not being evaluated, nor was one *)
(* whose outputs have been encoded: what is evaluated stays the same.       *)
LEMMA OtherLinesInv ==
    ASSUME ReplInv, NEW l \in Lines, Hold(l) \/ Ignore(l) \/ Encoded(l)
    PROVE  TypeOK' /\ WalksOfLines' /\ InterruptsLine'
<1>1. /\ job' = job /\ open' = open /\ overlapped' = overlapped
      /\ UNCHANGED managerVars
  BY DEF Hold, Ignore, Encoded
<1>2. /\ line[l] # "evaluating" /\ line'[l] # "evaluating"
      /\ \A m \in Lines : m # l => line'[m] = line[m]
      /\ line' \in [Lines -> {"unread", "held", "evaluating", "encoding", "done",
                              "aborted"}]
  BY DEF Hold, Ignore, Encoded, ReplInv, TypeOK
<1>3. buffer' \in Seq(Lines)
  <2>1. buffer \in Seq(Lines)
    BY DEF ReplInv, TypeOK
  <2>2. buffer' \in {buffer, <<>>, Append(buffer, l)}
    BY DEF Hold, Ignore, Encoded
  <2>3. Append(buffer, l) \in Seq(Lines) /\ <<>> \in Seq(Lines)
    BY <2>1, AppendProperties
  <2>. QED
    BY <2>1, <2>2, <2>3
<1>4. Evaluating' = Evaluating
  BY <1>2 DEF Evaluating
<1>5. ManagerTypeOK' /\ state' = state
  BY <1>1 DEF ReplInv, TypeOK, ManagerTypeOK, managerVars, delegated, walks
<1>6. TypeOK'
  BY <1>1, <1>2, <1>3, <1>5 DEF ReplInv, TypeOK
<1>7. WalksOfLines'
  BY <1>2, <1>5 DEF ReplInv, WalksOfLines
<1>8. InterruptsLine'
  BY <1>1, <1>4 DEF ReplInv, InterruptsLine
<1>. QED
  BY <1>6, <1>7, <1>8

(* A line that is evaluated is what an interrupt cancels from now on.       *)
LEMMA EvaluateInv ==
    ASSUME ReplInv, ManagerTypeOK', NEW l \in Lines, Evaluate(l)
    PROVE  TypeOK' /\ WalksOfLines' /\ InterruptsLine'
<1>1. /\ line' = [line EXCEPT ![l] = "evaluating"]
      /\ buffer' = <<>> /\ job' = JobOf[l] /\ open' = open
      /\ overlapped' = (overlapped \/ Evaluating # {})
      /\ Walk(l)
  BY DEF Evaluate
<1>2. /\ line' \in [Lines -> {"unread", "held", "evaluating", "encoding", "done",
                              "aborted"}]
      /\ line'[l] = "evaluating"
      /\ \A m \in Lines : m # l => line'[m] = line[m]
  BY <1>1 DEF ReplInv, TypeOK
<1>3. overlapped' \in BOOLEAN
  BY <1>1, Zenon
<1>4. job' \in Jobs
  BY <1>1, ReplAssumption
<1>5. TypeOK'
  BY <1>1, <1>2, <1>3, <1>4 DEF ReplInv, TypeOK
<1>6. \A m \in Lines : m # l => state'[m] = state[m]
  BY <1>1 DEF Walk, Lines, ReplInv, TypeOK, ManagerTypeOK
<1>7. WalksOfLines'
  BY <1>2, <1>6 DEF ReplInv, WalksOfLines
<1>8. l \in Evaluating'
  BY <1>2 DEF Evaluating
<1>9. ~overlapped' => Evaluating' \subseteq {l}
  BY <1>1, <1>2 DEF Evaluating
<1>10. InterruptsLine'
  BY <1>1, <1>8, <1>9 DEF InterruptsLine
<1>. QED
  BY <1>5, <1>7, <1>10

(* When the execution of a line has ended nothing is left to be cancelled,  *)
(* and as long as no lines have overlapped nothing else is evaluated.       *)
LEMMA EvaluatedInv ==
    ASSUME ReplInv, NEW l \in Lines, Evaluated(l)
    PROVE  TypeOK' /\ WalksOfLines' /\ InterruptsLine'
<1>1. /\ line[l] = "evaluating" /\ state[l] \in {"done", "rejected"}
      /\ job' = None /\ buffer' = buffer /\ open' = open /\ overlapped' = overlapped
      /\ UNCHANGED managerVars
  BY DEF Evaluated
<1>2. /\ line' \in [Lines -> {"unread", "held", "evaluating", "encoding", "done",
                              "aborted"}]
      /\ line'[l] # "evaluating"
      /\ \A m \in Lines : m # l => line'[m] = line[m]
  BY DEF Evaluated, ReplInv, TypeOK
<1>3. ManagerTypeOK' /\ state' = state
  BY <1>1 DEF ReplInv, TypeOK, ManagerTypeOK, managerVars, delegated, walks
<1>4. TypeOK'
  BY <1>1, <1>2, <1>3 DEF ReplInv, TypeOK
<1>5. WalksOfLines'
  BY <1>1, <1>2, <1>3 DEF ReplInv, WalksOfLines
<1>6. overlapped \/ Evaluating' = {}
  <2>1. SUFFICES ASSUME ~overlapped, NEW m \in Lines, line'[m] = "evaluating"
                 PROVE  FALSE
    BY DEF Evaluating
  <2>2. m # l /\ line[m] = "evaluating"
    BY <1>2, <2>1
  <2>3. JobOf[m] = job /\ JobOf[l] = job
    BY <1>1, <2>1, <2>2 DEF ReplInv, InterruptsLine, Evaluating
  <2>. QED
    BY <2>2, <2>3, ReplAssumption
<1>7. InterruptsLine'
  BY <1>1, <1>6 DEF InterruptsLine
<1>. QED
  BY <1>4, <1>5, <1>7

(* Executing goes on, or is interrupted, within the Manager.                *)
LEMMA WithinInv ==
    ASSUME ReplInv, ManagerTypeOK', Work \/ Interrupt, UNCHANGED repl
    PROVE  TypeOK' /\ WalksOfLines' /\ InterruptsLine'
<1>1. /\ job' = job /\ line' = line /\ buffer' = buffer
      /\ open' = open /\ overlapped' = overlapped
  BY DEF repl
<1>2. TypeOK'
  BY <1>1 DEF ReplInv, TypeOK
<1>3. Evaluating' = Evaluating
  BY <1>1 DEF Evaluating
<1>4. InterruptsLine'
  BY <1>1, <1>3 DEF ReplInv, InterruptsLine
<1>5. \A w \in Walks : state'[w] = "walking" => state[w] = "walking"
  <2>1. CASE state' = state
    BY <2>1
  <2>2. CASE \E w \in Walks : Fail(w) \/ Finish(w)
    BY <2>2 DEF Fail, Finish, ReplInv, TypeOK, ManagerTypeOK
  <2>. QED
    BY <2>1, <2>2 DEF Work, Interrupt, Cancel, Advance, Pass, Delegate, Executed,
                      Unchanged, GoInto, walks
<1>6. WalksOfLines'
  BY <1>1, <1>5 DEF ReplInv, WalksOfLines, Lines
<1>. QED
  BY <1>2, <1>4, <1>6

LEMMA ReplNextInv == ReplInv /\ [Next]_vars => ReplInv'
<1>. SUFFICES ASSUME ReplInv, [Next]_vars PROVE ReplInv'
  OBVIOUS
<1>1. ManagerInv'
  BY StepOfManager, ManagerNextInv DEF ReplInv
<1>2. ManagerTypeOK'
  BY <1>1 DEF ManagerInv
<1>3. CASE \E l \in Lines : Hold(l) \/ Ignore(l) \/ Encoded(l)
  BY <1>1, <1>3, OtherLinesInv DEF ReplInv
<1>4. CASE \E l \in Lines : Evaluate(l) \/ Evaluated(l)
  BY <1>1, <1>2, <1>4, EvaluateInv, EvaluatedInv DEF ReplInv
<1>5. CASE (Work /\ UNCHANGED repl) \/ Interrupt
  <2>1. UNCHANGED repl
    BY <1>5 DEF Interrupt
  <2>. QED
    BY <1>1, <1>2, <1>5, <2>1, WithinInv DEF ReplInv
<1>6. CASE Close \/ UNCHANGED vars
  <2>1. /\ job' = job /\ line' = line /\ buffer' = buffer
        /\ overlapped' = overlapped /\ state' = state
        /\ open' \in {FALSE, open}
    BY <1>6 DEF Close, vars, repl, managerVars, walks
  <2>2. open' \in BOOLEAN
    BY <2>1, Zenon DEF ReplInv, TypeOK
  <2>3. TypeOK'
    BY <1>2, <2>1, <2>2 DEF ReplInv, TypeOK
  <2>4. WalksOfLines' /\ InterruptsLine'
    BY <2>1 DEF ReplInv, WalksOfLines, InterruptsLine, Evaluating
  <2>. QED
    BY <1>1, <2>3, <2>4 DEF ReplInv
<1>. QED
  BY <1>3, <1>4, <1>5, <1>6 DEF Next, Progress

LEMMA ReplInvariance == Spec => []ReplInv
BY ReplInitInv, ReplNextInv, PTL DEF Spec

(* Every variable of the REPL, of the Manager and of its delegator keeps    *)
(* its type.                                                                *)
THEOREM TypeCorrect == Spec => []TypeOK
BY ReplInvariance, PTL DEF ReplInv

(* What an interrupt would cancel is a line that is being evaluated; and as *)
(* long as no lines have overlapped it is the line that is being evaluated. *)
THEOREM InterruptsFindLine == Spec => []InterruptsLine
BY ReplInvariance, PTL DEF ReplInv

(* An interrupt goes to the peer that is at work on the line it is meant    *)
(* for: from the keyboard over `job` and the table of jobs, without an      *)
(* await in between (repl.ts:152, Manager.ts:97, Delegator.ts:285).         *)
THEOREM InterruptsReachPeer ==
    Spec => [][\A l \in Lines, n \in Nodes :
                  Interrupt /\ phase[<<l, n>>] = "working"
                            /\ (~overlapped \/ job = JobOf[l])
                     => worker'[job] = worker[<<l, n>>]]_vars
<1>1. ReplInv /\ [Next]_vars =>
         [\A l \in Lines, n \in Nodes :
             Interrupt /\ phase[<<l, n>>] = "working"
                       /\ (~overlapped \/ job = JobOf[l])
                => worker'[job] = worker[<<l, n>>]]_vars
  <2>. SUFFICES ASSUME ReplInv, NEW l \in Lines, NEW n \in Nodes, Interrupt,
                       phase[<<l, n>>] = "working",
                       ~overlapped \/ job = JobOf[l]
                PROVE  worker'[job] = worker[<<l, n>>]
    OBVIOUS
  <2>1. l \in Walks /\ line[l] = "evaluating"
    BY DEF Lines, ReplInv, ManagerInv, OneAtATime, Active, Visiting, WalksOfLines
  <2>2. job = JobOf[l]
    BY <2>1 DEF ReplInv, InterruptsLine, Evaluating
  <2>3. OwnJobs(l) /\ JobId[<<l, n>>] = JobOf[l]
    BY <2>1, ReplAssumption DEF OwnJobs, Lines
  <2>4. jobs[job] = worker[<<l, n>>]
    BY <2>1, <2>2, <2>3 DEF ReplInv, ManagerInv, JobsTrackWalks
  <2>5. job \in Cancels /\ worker' = [worker EXCEPT ![job] =
           IF job \in Cancels THEN jobs[job] ELSE None]
    BY DEF Interrupt, Cancel, D!Ask
  <2>6. job \in D!Activities
    BY <2>5, CallFacts
  <2>. QED
    BY <2>4, <2>5, <2>6 DEF ReplInv, TypeOK, ManagerTypeOK
<1>. QED
  BY <1>1, ReplInvariance, PTL DEF Spec
=============================================================================
