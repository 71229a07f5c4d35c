------------------------------- MODULE Client -------------------------------
(***************************************************************************)
(* The base `Client` (src/src/base/Client.ts): it keeps a table of the     *)
(* requests it has sent, matches responses to it, caches notifications and *)
(* rejects what is outstanding when it stops.                              *)
(*                                                                         *)
(* `call` creates the promise of a request, awaits `send`, which the       *)
(* transport implements, and only then hands the promise to its caller: a  *)
(* response, or `stop`, may settle the promise while `send` is pending     *)
(* (DirectClient and HttpClient always receive the response inside it).    *)
(*                                                                         *)
(* The subclasses Stream-, Stdio-, Pipe-, Http- and DirectClient reach the *)
(* `stop` of the base class; Tcp-, WebSocket- and VsockFirecrackerClient   *)
(* override it without calling super.stop: SuperStop tells which is meant. *)
(***************************************************************************)
EXTENDS Messages, Integers, Sequences

CONSTANTS
    SuperStop,            \* does the subclass's stop call Client.stop?
    NotificationsLength   \* Client.notificationsLength, 1000 in the code

ASSUME ClientAssumption ==
    /\ SuperStop \in BOOLEAN
    /\ NotificationsLength \in Nat

VARIABLES
    requests,      \* this.requests: the ids that are keys of the table
    promise,       \* what the promise of each request has come to
    answer,        \* the execution whose result resolved it
    sends,         \* how far `await this.send(request)` is
    notifications, \* this.notifications, as the ids given to them
    count,         \* this.notificationsCount
    stopped        \* `stop` has run, and no `call` since

table == <<requests, promise, answer, sends>>
cache == <<notifications, count>>
clientVars == <<table, cache, stopped>>

ClientInit ==
    /\ requests = {}
    /\ promise = [r \in Requests |-> "none"]
    /\ answer = [r \in Requests |-> Nothing]
    /\ sends = [r \in Requests |-> "none"]
    /\ notifications = <<>>
    /\ count = 0
    /\ stopped = FALSE

(* What the caller of `call` sees: nothing before `send` has returned.      *)
Outcome(r) ==
    CASE sends[r] = "none" -> "none"
      [] sends[r] = "failed" -> "rejected"
      [] sends[r] = "sent" -> promise[r]
      [] OTHER -> "pending"

-----------------------------------------------------------------------------
(* Mutant of Call: no entry is made before the request is sent.             *)
CallLate(r) ==
    /\ sends[r] = "none"
    /\ promise' = [promise EXCEPT ![r] = "pending"]
    /\ sends' = [sends EXCEPT ![r] = "sending"]
    /\ stopped' = FALSE
    /\ UNCHANGED <<requests, answer, cache>>

(* call: the entry is made before the request is sent.                      *)
Call(r) ==
    /\ sends[r] = "none"
    /\ requests' = requests \cup {r}
    /\ promise' = [promise EXCEPT ![r] = "pending"]
    /\ sends' = [sends EXCEPT ![r] = "sending"]
    /\ stopped' = FALSE
    /\ UNCHANGED <<answer, cache>>

(* Mutant of Write: a request that was taken may be written again.          *)
WriteAgain(r) ==
    /\ sends[r] = "sending"
    /\ UNCHANGED clientVars

(* The transport has taken the request; `send` has not returned yet.        *)
Write(r) ==
    /\ sends[r] = "sending"
    /\ sends' = [sends EXCEPT ![r] = "written"]
    /\ UNCHANGED <<requests, promise, answer, cache, stopped>>

SendReturns(r) ==
    /\ sends[r] = "written"
    /\ sends' = [sends EXCEPT ![r] = "sent"]
    /\ UNCHANGED <<requests, promise, answer, cache, stopped>>

(* `send` throws, before or after the request was taken: so does `call`,    *)
(* and the entry stays in the table.                                        *)
SendThrows(r) ==
    /\ sends[r] \in {"sending", "written"}
    /\ sends' = [sends EXCEPT ![r] = "failed"]
    /\ UNCHANGED <<requests, promise, answer, cache, stopped>>

-----------------------------------------------------------------------------
(* Mutant of Notified: the array is cut before the notification is pushed.  *)
NotifiedCutFirst ==
    /\ count' = count + 1
    /\ notifications' =
         LET kept == IF Len(notifications) > NotificationsLength
                       THEN Tail(notifications) ELSE notifications
         IN  Append(kept, count + 1)
    /\ UNCHANGED <<table, stopped>>

(* notified: push the notification and cut the array to its maximal length. *)
Notified ==
    /\ count' = count + 1
    /\ notifications' =
         LET all == Append(notifications, count + 1)
         IN  IF Len(all) > NotificationsLength
               THEN SubSeq(all, Len(all) - NotificationsLength + 1, Len(all))
               ELSE all
    /\ UNCHANGED <<table, stopped>>

(* Mutant of Respond: the first entry of the table takes the response.      *)
RespondAny(m) ==
    /\ m.id \in requests
    /\ \E r \in requests :
          /\ IF promise[r] = "pending"
               THEN /\ promise' = [promise EXCEPT
                          ![r] = IF m.ok THEN "resolved" ELSE "rejected"]
                    /\ answer' = [answer EXCEPT ![r] = m.of]
               ELSE UNCHANGED <<promise, answer>>
          /\ requests' = requests \ {r}
    /\ UNCHANGED <<sends, cache, stopped>>

(* Mutant of Respond: a late response overrides an earlier outcome.         *)
RespondOverride(m) ==
    /\ m.id \in requests
    /\ promise' = [promise EXCEPT
                     ![m.id] = IF m.ok THEN "resolved" ELSE "rejected"]
    /\ answer' = [answer EXCEPT ![m.id] = m.of]
    /\ requests' = requests \ {m.id}
    /\ UNCHANGED <<sends, cache, stopped>>

(* receive: a response to a request in the table settles its promise and    *)
(* deletes the entry.                                                       *)
Respond(m) ==
    /\ m.id \in requests
    /\ IF promise[m.id] = "pending"
         THEN /\ promise' = [promise EXCEPT
                    ![m.id] = IF m.ok THEN "resolved" ELSE "rejected"]
              /\ answer' = [answer EXCEPT ![m.id] = m.of]
         ELSE UNCHANGED <<promise, answer>>
    /\ requests' = requests \ {m.id}
    /\ UNCHANGED <<sends, cache, stopped>>

(* receive: a response with an empty or an unknown id is only logged.       *)
Discard(m) ==
    /\ m.id # Undefined
    /\ m.id \notin requests
    /\ UNCHANGED clientVars

Receive(m) ==
    \/ m.id = Undefined /\ Notified
    \/ m.id # Undefined /\ Respond(m)
    \/ Discard(m)

(* Mutant of StopClient: only one of the requests is rejected.              *)
StopClientOne ==
    /\ \E first \in Requests :
          promise' = [r \in Requests |->
             IF SuperStop /\ r = first /\ promise[r] = "pending"
               THEN "rejected" ELSE promise[r]]
    /\ stopped' = TRUE
    /\ UNCHANGED <<requests, answer, sends, cache>>

(* stop: reject every request of the table, which keeps its entries.        *)
StopClient ==
    /\ promise' = [r \in Requests |->
          IF SuperStop /\ r \in requests /\ promise[r] = "pending"
            THEN "rejected" ELSE promise[r]]
    /\ stopped' = TRUE
    /\ UNCHANGED <<requests, answer, sends, cache>>

-----------------------------------------------------------------------------
ClientTypeOK ==
    /\ requests \subseteq Requests
    /\ promise \in [Requests -> {"none", "pending", "resolved", "rejected"}]
    /\ answer \in [Requests -> Requests \cup {Nothing}]
    /\ sends \in [Requests -> {"none", "sending", "written", "sent", "failed"}]
    /\ notifications \in Seq(Nat)
    /\ count \in Nat
    /\ stopped \in BOOLEAN

(* A pending promise can still be settled: its request is in the table, so  *)
(* a response or `stop` will find it.                                       *)
PendingHasEntry == \A r \in Requests : promise[r] = "pending" => r \in requests

(* `stop` leaves no request outstanding, so that nobody can await for ever  *)
(* after the client has stopped (Client.ts:217-225).                        *)
StopRejectsAll == stopped => \A r \in Requests : promise[r] # "pending"

(* The cache holds the latest notifications, in order, and no more of them  *)
(* than notificationsLength (Client.ts:61-67).                              *)
LatestNotifications ==
    /\ Len(notifications) =
         IF count < NotificationsLength THEN count ELSE NotificationsLength
    /\ \A i \in 1..Len(notifications) :
          notifications[i] = count - Len(notifications) + i
=============================================================================
