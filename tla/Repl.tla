-------------------------------- MODULE Repl --------------------------------
(***************************************************************************)
(* The REPL of the command line (src/src/cli/repl.ts), as                  *)
(* src/src/cli/execute.ts runs it: each line that is evaluated is a code   *)
(* chunk that the Manager executes under a job of its own.                 *)
(*                                                                         *)
(* `readline` is not paused while a line is evaluated, so that Ctrl+C gets *)
(* through: the next line may be entered, and evaluated, before that.      *)
(* The settings made by %commands are left out.                            *)
(***************************************************************************)
EXTENDS Manager

CONSTANTS
    JobOf,   \* the id that `handleLine` generates for each line
    Last     \* nodes are numbered in the order in which a document has them:
             \* the last of those that are, or may come to be, inside each node

Lines == Walks

ASSUME ReplAssumption ==
    /\ JobOf \in [Lines -> Jobs]
    /\ \A l, m \in Lines : JobOf[l] = JobOf[m] => l = m
    /\ \A l \in Lines, n \in Nodes : JobId[<<l, n>>] = JobOf[l]
    /\ None \notin Jobs

(* The nodes of a list are inside n, each one with what is inside it before *)
(* the next.                                                                *)
Nested(n, inside) ==
    \A i \in 1..Len(inside) :
       /\ n < inside[i] /\ Last[inside[i]] <= Last[n]
       /\ \A k \in 1..Len(inside) : i < k => Last[inside[i]] < inside[k]

ASSUME OrderAssumption ==
    /\ Nodes \subseteq Int /\ Last \in [Nodes -> Int]
    /\ \A n \in Nodes : n <= Last[n] /\ Nested(n, Children[n])
    /\ \A n \in Code : \A inside \in Results[n] : Nested(n, inside)

VARIABLES
    job,         \* `job`: the id of the line that an interrupt cancels
    line,        \* what has become of each line
    buffer,      \* `buffer`: the lines held back to be continued
    open,        \* is `readline` open?
    overlapped   \* history: a line was evaluated while another one was

repl == <<job, line, buffer, open, overlapped>>
vars == <<managerVars, repl>>

Init ==
    /\ ManagerInit
    /\ job = None
    /\ line = [l \in Lines |-> "unread"]
    /\ buffer = <<>>
    /\ open = TRUE
    /\ overlapped = FALSE

Evaluating == {l \in Lines : line[l] = "evaluating"}

-----------------------------------------------------------------------------
(* A line ends with a backslash or `...`.                                   *)
Hold(l) ==
    /\ open /\ line[l] = "unread"
    /\ line' = [line EXCEPT ![l] = "held"]
    /\ buffer' = Append(buffer, l)
    /\ UNCHANGED <<managerVars, job, open, overlapped>>

(* A %command, or nothing but whitespace, which clears the buffer.          *)
Ignore(l) ==
    /\ open /\ line[l] = "unread"
    /\ line' = [line EXCEPT ![l] = "done"]
    /\ buffer' \in {buffer, <<>>}
    /\ UNCHANGED <<managerVars, job, open, overlapped>>

(* Mutant of Evaluate: the line is taken for its id.                        *)
EvaluateNames(l) ==
    /\ open /\ line[l] = "unread"
    /\ line' = [line EXCEPT ![l] = "evaluating"]
    /\ buffer' = <<>>
    /\ job' = l
    /\ overlapped' = (overlapped \/ Evaluating # {})
    /\ Walk(l)
    /\ UNCHANGED open

(* Any other line is evaluated, together with what the buffer holds.        *)
Evaluate(l) ==
    /\ open /\ line[l] = "unread"
    /\ line' = [line EXCEPT ![l] = "evaluating"]
    /\ buffer' = <<>>
    /\ job' = JobOf[l]
    /\ overlapped' = (overlapped \/ Evaluating # {})
    /\ Walk(l)
    /\ UNCHANGED open

(* Mutant of Evaluated: `job` is not cleared when the execution fails.      *)
EvaluatedKeeps(l) ==
    /\ line[l] = "evaluating"
    /\ \/ /\ state[l] \in {"done", "rejected"}
          /\ line' = [line EXCEPT ![l] = "done"]
       \/ /\ state[l] = "done"
          /\ line' = [line EXCEPT ![l] = "encoding"]
    /\ job' = IF state[l] = "done" THEN None ELSE job
    /\ UNCHANGED <<managerVars, buffer, open, overlapped>>


(* The execution has ended: `job` is cleared.  Then the outputs, if there   *)
(* are any, and no errors, are encoded.                                     *)
Evaluated(l) ==
    /\ line[l] = "evaluating"
    /\ \/ /\ state[l] \in {"done", "rejected"}
          /\ line' = [line EXCEPT ![l] = "done"]
       \/ /\ state[l] = "done"
          /\ line' = [line EXCEPT ![l] = "encoding"]
    /\ job' = None
    /\ UNCHANGED <<managerVars, buffer, open, overlapped>>

(* The outputs are shown with a new prompt; if they can not be encoded the  *)
(* spinner goes on and there is no prompt.                                  *)
Encoded(l) ==
    /\ line[l] = "encoding"
    /\ \E end \in {"done", "aborted"} : line' = [line EXCEPT ![l] = end]
    /\ UNCHANGED <<managerVars, job, buffer, open, overlapped>>

-----------------------------------------------------------------------------
(* Ctrl+C, while there is a job: cancel it (bounds: once, and for some jobs *)
(* only).                                                                   *)
Interrupt ==
    /\ open /\ job \in Cancels
    /\ Cancel(job)
    /\ UNCHANGED repl

(* Ctrl+C, while there is none, or Ctrl+D.                                  *)
Close ==
    /\ open
    /\ open' = FALSE
    /\ UNCHANGED <<managerVars, job, line, buffer, overlapped>>

Progress ==
    \/ Work /\ UNCHANGED repl
    \/ \E l \in Lines : Evaluated(l) \/ Encoded(l)

Next ==
    \/ \E l \in Lines : Hold(l) \/ Ignore(l) \/ Evaluate(l)
    \/ Interrupt \/ Close
    \/ Progress

Spec == Init /\ [][Next]_vars

(* Callbacks run.  Nothing is assumed of the calls that are delegated: an   *)
(* answer may be lost without an error (see Delegator).                     *)
Callbacks ==
    \/ \E w \in Walks : Advance(w) /\ UNCHANGED repl
    \/ \E l \in Lines : Evaluated(l) \/ Encoded(l)

FairSpec == Spec /\ WF_vars(Callbacks)

-----------------------------------------------------------------------------
TypeOK ==
    /\ ManagerTypeOK
    /\ job \in Jobs \cup {None}
    /\ line \in [Lines -> {"unread", "held", "evaluating", "encoding", "done",
                           "aborted"}]
    /\ buffer \in Seq(Lines)
    /\ open \in BOOLEAN /\ overlapped \in BOOLEAN

(* An interrupt "cancels the current request" (repl.ts:141): what it would  *)
(* cancel is being evaluated, whatever lines overlap; and as long as none   *)
(* have, the line that is evaluated is what it cancels: Ctrl+C does not     *)
(* close the REPL instead.                                                  *)
InterruptsLine ==
    /\ job # None => \E l \in Evaluating : JobOf[l] = job
    /\ overlapped \/ \A l \in Evaluating : job = JobOf[l]


(* The nodes of a document are executed in the order in which they appear   *)
(* (Manager.ts:135), those that an execution adds where it adds them: no    *)
(* node is begun after one that comes later.                                *)
InOrder ==
    [][\A w \in Walks : \A m, n \in Nodes :
          m < n /\ phase[<<w, n>>] # "idle" /\ phase[<<w, m>>] = "idle"
            => phase'[<<w, m>>] = "idle"]_vars
=============================================================================
