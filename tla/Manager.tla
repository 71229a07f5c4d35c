------------------------------ MODULE Manager -------------------------------
(***************************************************************************)
(* `Manager` (src/src/base/Manager.ts): a document is compiled or executed *)
(* by walking it, depth first.  The code nodes met on the way are passed   *)
(* to the delegator, one after the other, under the job id of the          *)
(* execution; the walk goes on into what has become of a node.             *)
(*                                                                         *)
(* The delegator is what Delegation says of it; Delegator implements that. *)
(***************************************************************************)
EXTENDS Integers, Sequences

CONSTANTS
    Peers, Jobs, Cancels, None,   \* as in Delegation
    Walks,      \* the invocations of compile and execute
    Nodes,      \* the nodes they may meet
    Code,       \* CodeChunks and CodeExpressions, which are delegated
    Children,   \* the nodes inside each node
    Results,    \* those inside what a peer may make of a code node
    Root,       \* the node that each walk is given
    JobId       \* the id of each delegated call: the job of its execution,
                \* or a generated one if there is none (compile)

Calls == Walks \X Nodes

ASSUME ManagerAssumption ==
    /\ Code \subseteq Nodes
    /\ Children \in [Nodes -> Seq(Nodes)]
    /\ Results \in [Code -> SUBSET Seq(Nodes)]
    /\ Root \in [Walks -> Nodes]
    /\ JobId \in [Calls -> Jobs]
    /\ Cancels \subseteq Jobs /\ Calls \cap Jobs = {}
    /\ None \notin Peers

VARIABLES
    jobs, phase, worker,   \* of Delegation
    state,                 \* how far each walk is
    todo                   \* the nodes it has to visit, in order

D == INSTANCE Delegation

delegated == <<jobs, phase, worker>>
walks == <<state, todo>>
managerVars == <<delegated, walks>>

ManagerInit ==
    /\ D!Init
    /\ state = [w \in Walks |-> "idle"]
    /\ todo = [w \in Walks |-> <<>>]

-----------------------------------------------------------------------------
Node(w) == Head(todo[w])
Visiting(w) == state[w] = "walking" /\ todo[w] # <<>>

Walk(w) ==
    /\ state[w] = "idle"
    /\ state' = [state EXCEPT ![w] = "walking"]
    /\ todo' = [todo EXCEPT ![w] = <<Root[w]>>]
    /\ UNCHANGED delegated

(* Mutant of GoInto: the walk is breadth first.                             *)
GoIntoLater(w, inside) ==
    /\ todo' = [todo EXCEPT ![w] = Tail(@) \o inside]
    /\ UNCHANGED <<state, delegated>>

(* The node that was visited is replaced by those inside it.                *)
GoInto(w, inside) ==
    /\ todo' = [todo EXCEPT ![w] = inside \o Tail(@)]
    /\ UNCHANGED <<state, delegated>>

(* A node that is not code is left as it is.                                *)
Pass(w) == Visiting(w) /\ Node(w) \notin Code /\ GoInto(w, Children[Node(w)])

(* Mutant of Delegate: code nodes do not wait for those before them.        *)
DelegateAhead(w) ==
    /\ Visiting(w)
    /\ \E i \in 1..Len(todo[w]) : todo[w][i] \in Code /\ D!Ask(<<w, todo[w][i]>>)
    /\ UNCHANGED walks

(* A code node is passed to the delegator.                                  *)
Delegate(w) ==
    /\ Visiting(w) /\ Node(w) \in Code
    /\ D!Ask(<<w, Node(w)>>)
    /\ UNCHANGED walks

Outcome(w) == phase[<<w, Node(w)>>]

(* ... and has been executed.                                               *)
Executed(w) ==
    /\ Visiting(w) /\ Node(w) \in Code
    /\ Outcome(w) = "resolved"
    /\ \E inside \in Results[Node(w)] : GoInto(w, inside)

(* ... nobody is capable of it: it is left as it is.  A CapabilityError may *)
(* come from the delegator, or from the peer.                               *)
Unchanged(w) ==
    /\ Visiting(w) /\ Node(w) \in Code
    /\ Outcome(w) \in {"unable", "rejected", "failed"}
    /\ GoInto(w, Children[Node(w)])

(* ... any other error ends the walk.                                       *)
Fail(w) ==
    /\ Visiting(w) /\ Node(w) \in Code
    /\ Outcome(w) \in {"rejected", "failed"}
    /\ state' = [state EXCEPT ![w] = "rejected"]
    /\ UNCHANGED <<todo, delegated>>

Finish(w) ==
    /\ state[w] = "walking" /\ todo[w] = <<>>
    /\ state' = [state EXCEPT ![w] = "done"]
    /\ UNCHANGED <<todo, delegated>>

(* cancel, which the delegator does.                                        *)
Cancel(j) == D!Ask(j) /\ UNCHANGED walks

Advance(w) ==
    \/ Pass(w) \/ Delegate(w) \/ Executed(w) \/ Unchanged(w) \/ Fail(w)
    \/ Finish(w)

(* What goes on by itself.                                                  *)
Work ==
    \/ \E w \in Walks : Advance(w)
    \/ D!Proceed /\ UNCHANGED walks

ManagerNext ==
    \/ \E w \in Walks : Walk(w)
    \/ \E j \in Cancels : Cancel(j)
    \/ Work

ManagerSpec == ManagerInit /\ [][ManagerNext]_managerVars

-----------------------------------------------------------------------------
ManagerTypeOK ==
    /\ jobs \in [Jobs -> Peers \cup {None}]
    /\ phase \in [D!Activities -> D!Phases]
    /\ worker \in [D!Activities -> Peers \cup {None}]
    /\ state \in [Walks -> {"idle", "walking", "done", "rejected"}]
    /\ todo \in [Walks -> Seq(Nodes)]

Active == {"finding", "working"}

(* A walk "awaits for the result of transformation of each child"           *)
(* (Manager.ts:130): only the node that is visited is being executed.       *)
OneAtATime ==
    \A w \in Walks, n \in Nodes :
       phase[<<w, n>>] \in Active => Visiting(w) /\ n = Node(w)

(* The ids of the walk's calls are those of no other walk.                  *)
OwnJobs(w) ==
    \A m, n \in Nodes, v \in Walks : JobId[<<v, m>>] = JobId[<<w, n>>] => v = w

(* All calls of an execution have its job, and each that ends takes the     *)
(* entry of that job away (Delegator.ts:304-310).  Still, while one of them *)
(* is at work the table names its peer: `cancel` finds it.                  *)
JobsTrackWalks ==
    \A w \in Walks, n \in Nodes :
       OwnJobs(w) /\ phase[<<w, n>>] = "working"
         => jobs[JobId[<<w, n>>]] = worker[<<w, n>>]
=============================================================================
