------------------------------- MODULE Queuer -------------------------------
(***************************************************************************)
(* The base `Queuer` (src/src/base/Queuer.ts): an Executor that puts each  *)
(* call on a queue, offers the queued jobs to another executor in passes   *)
(* started by a timer, and rejects the jobs that have grown stale.         *)
(*                                                                         *)
(* JavaScript runs one callback at a time, so an action is what happens    *)
(* between two suspension points.  A pass (`reduce`) suspends at every     *)
(* `await executor.dispatch(..)`, so passes overlap each other, the calls, *)
(* the cancellations and the timers.  `stop` does not suspend, but its     *)
(* loop changes the array it iterates; it is modelled one iteration per    *)
(* step, and no other callback runs until it has finished.                 *)
(***************************************************************************)
EXTENDS Integers, Sequences

CONSTANTS
    Calls,        \* the invocations of Queuer.call
    Jobs,         \* job ids
    JobId,        \* the id each call has: params.job, or a generated one
    Passes,       \* activations of `reduce` that may overlap (a bound)
    QueueLength,  \* config.queueLength
    MaxTimers     \* bound on live intervals of each of the two kinds

ASSUME QueuerAssumption ==
    /\ JobId \in [Calls -> Jobs]
    /\ QueueLength \in Nat
    /\ MaxTimers \in Nat

VARIABLES
    queue,        \* this.queue, as the sequence of its calls
    promise,      \* what each call's promise has come to
    cancelled,    \* calls taken off the queue by `cancel`
    stale,        \* calls at least config.queueStale seconds old
    passes,       \* the state of each activation of `reduce`
    checks,       \* live intervals that call `reduce`
    checkHandle,  \* what this.checkInterval names: a live one, a dead one or none
    cleans,       \* live intervals that call `clean`
    cleanHandle,  \* what this.cleanInterval names
    stopAt        \* next index of the loop in `stop`, 0 outside it

timers == <<checks, checkHandle, cleans, cleanHandle>>
vars == <<queue, promise, cancelled, stale, passes, timers, stopAt>>

Settled == {"resolved", "rejected"}
Idle == [active |-> FALSE, first |-> FALSE, todo |-> <<>>]

Queued(c) == \E i \in 1..Len(queue) : queue[i] = c

-----------------------------------------------------------------------------
(* The position findIndex returns: the first job with id j.                 *)
IsFirst(j, i) ==
    /\ i \in 1..Len(queue)
    /\ JobId[queue[i]] = j
    /\ \A k \in 1..(i - 1) : JobId[queue[k]] # j

(* Mutant of Splice: findIndex's -1 is not tested, so an unknown id splices  *)
(* off the last job.                                                        *)
SpliceUntested(j) ==
    \/ \E i \in 1..Len(queue) :
          /\ IsFirst(j, i)
          /\ queue' = SubSeq(queue, 1, i - 1) \o SubSeq(queue, i + 1, Len(queue))
    \/ /\ \A i \in 1..Len(queue) : JobId[queue[i]] # j
       /\ queue' = SubSeq(queue, 1, Len(queue) - 1)

(* `cancel`: take the first job with id j off the queue, if there is one.   *)
Splice(j) ==
    \/ \E i \in 1..Len(queue) :
          /\ IsFirst(j, i)
          /\ queue' = SubSeq(queue, 1, i - 1) \o SubSeq(queue, i + 1, Len(queue))
    \/ /\ \A i \in 1..Len(queue) : JobId[queue[i]] # j
       /\ queue' = queue

(* The `resolve` and `reject` of a job cancel its id, then settle its       *)
(* promise, which keeps the first outcome it is given.                      *)
Settle(c, outcome) ==
    /\ Splice(JobId[c])
    /\ promise' = [promise EXCEPT
                     ![c] = IF @ = "pending" THEN outcome ELSE @]

-----------------------------------------------------------------------------
Init ==
    /\ queue = <<>>
    /\ promise = [c \in Calls |-> "none"]
    /\ cancelled = {}
    /\ stale = {}
    /\ passes = [p \in Passes |-> Idle]
    /\ checks = 0 /\ checkHandle = "none"
    /\ cleans = 0 /\ cleanHandle = "none"
    /\ stopAt = 0

Running == stopAt = 0

(* call: a full queue throws a CapabilityError.                             *)
Refuse(c) ==
    /\ Running
    /\ promise[c] = "none"
    /\ Len(queue) >= QueueLength
    /\ promise' = [promise EXCEPT ![c] = "refused"]
    /\ UNCHANGED <<queue, cancelled, stale, passes, timers, stopAt>>

(* Mutant of Call: the length is compared with > instead of >=.             *)
CallOneMore(c) ==
    /\ Running
    /\ promise[c] = "none"
    /\ Len(queue) <= QueueLength
    /\ queue' = Append(queue, c)
    /\ promise' = [promise EXCEPT ![c] = "pending"]
    /\ UNCHANGED <<cancelled, stale, passes, timers, stopAt>>

(* call: put the job on the queue.  `notifyDelegator` then notifies the     *)
(* job's `delegator`, a field no job has: it changes nothing.               *)
Call(c) ==
    /\ Running
    /\ promise[c] = "none"
    /\ Len(queue) < QueueLength
    /\ queue' = Append(queue, c)
    /\ promise' = [promise EXCEPT ![c] = "pending"]
    /\ UNCHANGED <<cancelled, stale, passes, timers, stopAt>>

(* cancel, called from outside: the promise of the job stays as it was.     *)
Cancel(j) ==
    /\ Running
    /\ Splice(j)
    /\ cancelled' = cancelled \cup
          {c \in Calls : \E i \in 1..Len(queue) : IsFirst(j, i) /\ queue[i] = c}
    /\ UNCHANGED <<promise, stale, passes, timers, stopAt>>

(* Time passes: jobs are queued in the order of their dates, so the oldest  *)
(* reaches queueStale first.                                                *)
Age(c) ==
    /\ c \notin stale
    /\ \E i \in 1..Len(queue) :
          /\ queue[i] = c
          /\ \A k \in 1..(i - 1) : queue[k] \in stale
    /\ stale' = stale \cup {c}
    /\ UNCHANGED <<queue, promise, cancelled, passes, timers, stopAt>>

-----------------------------------------------------------------------------
(* reduce: a pass over a copy of the queue.                                 *)
StartPass(p, first) ==
    /\ ~passes[p].active
    /\ passes' = [passes EXCEPT
                    ![p] = [active |-> TRUE, first |-> first, todo |-> queue]]

(* check: a first pass, whose end sets the interval.                        *)
Check(p) ==
    /\ Running
    /\ checks < MaxTimers
    /\ \A q \in Passes : ~passes[q].first
    /\ StartPass(p, TRUE)
    /\ UNCHANGED <<queue, promise, cancelled, stale, timers, stopAt>>

(* The check interval fires; it does not wait for an earlier pass.          *)
Tick(p) ==
    /\ Running
    /\ checks > 0
    /\ StartPass(p, FALSE)
    /\ UNCHANGED <<queue, promise, cancelled, stale, timers, stopAt>>

Advance(p) == passes' = [passes EXCEPT ![p].todo = Tail(@)]

InFlight(p) == passes[p].active /\ passes[p].todo # <<>>

(* The dispatched job was answered with a result, or with an error that is  *)
(* not a CapabilityError.                                                   *)
Answer(p) ==
    /\ Running
    /\ InFlight(p)
    /\ \E outcome \in Settled : Settle(Head(passes[p].todo), outcome)
    /\ Advance(p)
    /\ UNCHANGED <<cancelled, stale, timers, stopAt>>

(* A CapabilityError, or the result `undefined`: the job stays queued.      *)
Incapable(p) ==
    /\ Running
    /\ InFlight(p)
    /\ Advance(p)
    /\ UNCHANGED <<queue, promise, cancelled, stale, timers, stopAt>>

(* Mutant of EndPass: a pass started by the interval assigns the timer field *)
(* again.                                                                   *)
EndPassAssigns(p) ==
    /\ Running
    /\ passes[p].active
    /\ passes[p].todo = <<>>
    /\ passes' = [passes EXCEPT ![p] = Idle]
    /\ checks' = IF passes[p].first THEN checks + 1 ELSE checks
    /\ checkHandle' = "live"
    /\ UNCHANGED <<queue, promise, cancelled, stale, cleans,
                   cleanHandle, stopAt>>

(* The pass is over; the first one of a `check` sets the interval.          *)
EndPass(p) ==
    /\ Running
    /\ passes[p].active
    /\ passes[p].todo = <<>>
    /\ passes' = [passes EXCEPT ![p] = Idle]
    /\ IF passes[p].first
         THEN checks' = checks + 1 /\ checkHandle' = "live"
         ELSE UNCHANGED <<checks, checkHandle>>
    /\ UNCHANGED <<queue, promise, cancelled, stale, cleans,
                   cleanHandle, stopAt>>

-----------------------------------------------------------------------------
(* The stale jobs are the first ones of the queue, so the jobs that their   *)
(* rejections take off it are the stale jobs themselves.                    *)
DropStale ==
    \E n \in 0..Len(queue) :
       /\ \A i \in 1..Len(queue) : i <= n <=> queue[i] \in stale
       /\ queue' = SubSeq(queue, n + 1, Len(queue))

(* Mutant of Clean: the promises are rejected, the jobs are not cancelled.  *)
CleanKeeps ==
    /\ Running
    /\ cleans > 0
    /\ promise' = [c \in Calls |->
          IF promise[c] = "pending" /\ c \in stale /\ Queued(c)
            THEN "rejected" ELSE promise[c]]
    /\ UNCHANGED <<queue, cancelled, stale, passes, timers, stopAt>>

Clean ==
    /\ Running
    /\ cleans > 0
    /\ DropStale
    /\ promise' = [c \in Calls |->
          IF promise[c] = "pending" /\ c \in stale /\ Queued(c)
            THEN "rejected" ELSE promise[c]]
    /\ UNCHANGED <<cancelled, stale, passes, timers, stopAt>>

Start ==
    /\ Running
    /\ cleans < MaxTimers
    /\ cleans' = cleans + 1
    /\ cleanHandle' = "live"
    /\ UNCHANGED <<queue, promise, cancelled, stale, passes, checks,
                   checkHandle, stopAt>>

(* clearInterval: the interval a field names is cleared, and the field goes *)
(* on naming it.                                                            *)
Named(handle) == IF handle = "live" THEN 1 ELSE 0
Cleared(handle) == IF handle = "none" THEN "none" ELSE "dead"

(* stop: clear the two intervals named by the fields, then enter the loop.  *)
Stop ==
    /\ Running
    /\ cleans' = cleans - Named(cleanHandle)
    /\ checks' = checks - Named(checkHandle)
    /\ cleanHandle' = Cleared(cleanHandle)
    /\ checkHandle' = Cleared(checkHandle)
    /\ stopAt' = 1
    /\ UNCHANGED <<queue, promise, cancelled, stale, passes>>

(* `for (const { reject } of this.queue)`: the array shrinks under the      *)
(* iteration, whose index moves on all the same.                            *)
StopNext ==
    /\ stopAt \in 1..Len(queue)
    /\ Settle(queue[stopAt], "rejected")
    /\ stopAt' = stopAt + 1
    /\ UNCHANGED <<cancelled, stale, passes, timers>>

StopEnd ==
    /\ stopAt > Len(queue)
    /\ stopAt' = 0
    /\ UNCHANGED <<queue, promise, cancelled, stale, passes, timers>>

-----------------------------------------------------------------------------
Next ==
    \/ \E c \in Calls : Refuse(c) \/ Call(c) \/ Age(c)
    \/ \E j \in Jobs : Cancel(j)
    \/ \E p \in Passes :
          Check(p) \/ Tick(p) \/ Answer(p) \/ Incapable(p) \/ EndPass(p)
    \/ Clean \/ Start \/ Stop \/ StopNext \/ StopEnd

Spec == Init /\ [][Next]_vars

(* Time passes, the loop in `stop` ends, and a live interval keeps firing:  *)
(* strongly, because the steps of the loop only disable it by being split.  *)
(* Nothing is assumed of the executor the jobs are dispatched to.           *)
Fairness ==
    /\ WF_vars(\E c \in Calls : Age(c))
    /\ WF_vars(StopNext \/ StopEnd)
    /\ SF_vars(Clean)

FairSpec == Spec /\ Fairness

-----------------------------------------------------------------------------
TypeOK ==
    /\ queue \in Seq(Calls)
    /\ promise \in [Calls -> {"none", "pending", "refused"} \cup Settled]
    /\ cancelled \subseteq Calls
    /\ stale \subseteq Calls
    /\ passes \in [Passes -> [active : BOOLEAN, first : BOOLEAN,
                              todo : Seq(Calls)]]
    /\ checks \in Nat /\ checkHandle \in {"none", "live", "dead"}
    /\ cleans \in Nat /\ cleanHandle \in {"none", "live", "dead"}
    /\ Named(checkHandle) <= checks /\ (checks > 0 => checkHandle # "none")
    /\ Named(cleanHandle) <= cleans /\ (cleans > 0 => cleanHandle # "none")
    /\ stopAt \in Nat

(* No other call was made with the same job id.                             *)
Unshared(c) == \A d \in Calls : JobId[d] = JobId[c] => d = c

(* A call whose job id no other call shares is on the queue exactly while   *)
(* its promise is pending and nobody has cancelled it, whatever passes,     *)
(* timers and `stop` interleave: no job is lost, none is kept once settled. *)
NoLostJob ==
    \A c \in Calls :
       Unshared(c) =>
          (Queued(c) <=> promise[c] = "pending" /\ c \notin cancelled)

(* `call` lets no burst of requests make the queue longer than queueLength. *)
QueueBound == Len(queue) <= QueueLength

(* While a clean interval lives, every queued job leaves the queue in the   *)
(* end, even if the executor never answers and passes never finish.         *)
StaleJobsLeave ==
    \A c \in Calls : (Queued(c) /\ cleans > 0) ~> (~Queued(c) \/ cleans = 0)

-----------------------------------------------------------------------------
(* The following is what a comment says and the code does not do.           *)

(* `stop` rejects all outstanding jobs (Queuer.ts:209-210): when its loop   *)
(* is over the queue is empty.                                              *)
StopRejectsAll == [][StopEnd => queue = <<>>]_vars
=============================================================================
