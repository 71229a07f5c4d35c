----------------------------- MODULE Delegation -----------------------------
(***************************************************************************)
(* What `Delegator` (src/src/base/Delegator.ts) promises to those who call *)
(* it: a call is passed to one peer, which the table of jobs names while   *)
(* the peer works on it; the cancellation of a job goes to the peer that   *)
(* the table named when it was asked for.  How a peer is found, connected  *)
(* to and judged is left to Delegator, which implements this module.       *)
(***************************************************************************)
EXTENDS Integers

CONSTANTS
    Peers,    \* Peer objects
    Calls,    \* the invocations of Delegator.call
    Jobs,     \* job ids
    Cancels,  \* the jobs that are cancelled (once each)
    JobId,    \* the id that each call has
    None

VARIABLES
    jobs,     \* this.jobs: the peer of each job, or None
    phase,    \* what has become of each call and each cancellation
    worker    \* the peer that it was passed to, or is to go to

delegation == <<jobs, phase, worker>>

Activities == Calls \cup Cancels
Ended == {"unable", "failed", "resolved", "rejected"}
Phases == {"idle", "finding", "working"} \cup Ended

Init ==
    /\ jobs = [j \in Jobs |-> None]
    /\ phase = [a \in Activities |-> "idle"]
    /\ worker = [a \in Activities |-> None]

-----------------------------------------------------------------------------
(* call and cancel: the table is looked up before the first await.          *)
Ask(a) ==
    /\ phase[a] = "idle"
    /\ phase' = [phase EXCEPT ![a] = "finding"]
    /\ worker' = [worker EXCEPT ![a] = IF a \in Cancels THEN jobs[a] ELSE None]
    /\ UNCHANGED jobs

(* Mutant of Pass: the table is left as it was.                             *)
PassUnnoted(c, p) ==
    /\ phase[c] = "finding"
    /\ phase' = [phase EXCEPT ![c] = "working"]
    /\ worker' = [worker EXCEPT ![c] = p]
    /\ UNCHANGED jobs

(* A call is passed to a peer.                                              *)
Pass(c, p) ==
    /\ phase[c] = "finding"
    /\ phase' = [phase EXCEPT ![c] = "working"]
    /\ worker' = [worker EXCEPT ![c] = p]
    /\ jobs' = [jobs EXCEPT ![JobId[c]] = p]

(* A cancellation is passed on.                                             *)
Forward(j) ==
    /\ phase[j] = "finding" /\ worker[j] # None
    /\ phase' = [phase EXCEPT ![j] = "working"]
    /\ UNCHANGED <<jobs, worker>>

(* The peer of a job is not capable of cancelling it.                       *)
Incapable(j) ==
    /\ phase[j] = "finding" /\ worker[j] # None
    /\ worker' = [worker EXCEPT ![j] = None]
    /\ UNCHANGED <<jobs, phase>>

(* No peer is left: a CapabilityError, or false for a cancellation.         *)
GiveUp(a) ==
    /\ phase[a] = "finding" /\ worker[a] = None
    /\ phase' = [phase EXCEPT ![a] = "unable"]
    /\ UNCHANGED <<jobs, worker>>

(* The peer has answered.                                                   *)
Return(a) ==
    /\ phase[a] = "working"
    /\ phase' = [phase EXCEPT ![a] = "resolved"]
    /\ jobs' = IF a \in Calls THEN [jobs EXCEPT ![JobId[a]] = None] ELSE jobs
    /\ UNCHANGED worker

Busy == {a \in Activities : phase[a] \in {"finding", "working"}}

(* An error, or a client that stops with all who await it.  The entries in  *)
(* the table stay.                                                          *)
Drop(S) ==
    /\ phase' = [a \in Activities |->
          IF a \notin S THEN phase[a]
          ELSE IF phase[a] = "working" THEN "rejected" ELSE "failed"]
    /\ UNCHANGED <<jobs, worker>>

-----------------------------------------------------------------------------
(* What happens once a call or a cancellation was asked for.                *)
Proceed ==
    \/ \E c \in Calls, p \in Peers : Pass(c, p)
    \/ \E j \in Cancels : Forward(j) \/ Incapable(j)
    \/ \E a \in Activities : GiveUp(a) \/ Return(a)
    \/ \E S \in SUBSET Busy : Drop(S)

Next == Proceed \/ \E a \in Activities : Ask(a)

Spec == Init /\ [][Next]_delegation
=============================================================================
