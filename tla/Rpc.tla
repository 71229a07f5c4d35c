-------------------------------- MODULE Rpc ---------------------------------
(***************************************************************************)
(* What JSON-RPC promises the caller of a method of a remote executor:     *)
(* the method runs at most once for a call; the call comes to one outcome, *)
(* which never changes; and it succeeds only if the method has run.  A     *)
(* call may fail whether or not the method has run or will run.            *)
(***************************************************************************)
EXTENDS Integers

CONSTANT Requests

VARIABLES
    outcome,   \* what each call has come to
    runs       \* how often its method has run

rpcVars == <<outcome, runs>>

Init ==
    /\ outcome = [r \in Requests |-> "none"]
    /\ runs = [r \in Requests |-> 0]

Invoke(r) ==
    /\ outcome[r] = "none"
    /\ outcome' = [outcome EXCEPT ![r] = "pending"]
    /\ UNCHANGED runs

Run(r) ==
    /\ outcome[r] # "none"
    /\ runs[r] = 0
    /\ runs' = [runs EXCEPT ![r] = 1]
    /\ UNCHANGED outcome

Succeed(r) ==
    /\ outcome[r] = "pending"
    /\ runs[r] = 1
    /\ outcome' = [outcome EXCEPT ![r] = "resolved"]
    /\ UNCHANGED runs

(* Several calls fail at once when their client stops.                      *)
Fail(failed) ==
    /\ \A r \in failed : outcome[r] = "pending"
    /\ outcome' = [r \in Requests |->
                     IF r \in failed THEN "rejected" ELSE outcome[r]]
    /\ UNCHANGED runs

Next ==
    \/ \E r \in Requests : Invoke(r) \/ Run(r) \/ Succeed(r)
    \/ \E failed \in SUBSET Requests : Fail(failed)

Spec == Init /\ [][Next]_rpcVars
=============================================================================
