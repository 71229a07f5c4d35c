---------------------------- MODULE JsonRpcProofs ---------------------------
(* Proofs about JsonRpc for every set of requests, on a connection that may *)
(* break or not, with a client that may stop at any time.                   *)
EXTENDS JsonRpc, TLAPS

(* A promise exists from the moment its request is being sent.              *)
Begun == \A r \in Requests : sends[r] = "none" <=> promise[r] = "none"

(* A request that the transport was given is in flight, lost, or executed;  *)
(* one that is in flight was not executed yet.                              *)
Once ==
    \A r \in Requests :
       /\ Request(r) \in toServer => executed[r] = 0
       /\ Request(r) \in toServer \/ executed[r] # 0
            => sends[r] \notin {"none", "sending"}
       /\ executed[r] \in {0, 1}

(* What is being executed or reported has been executed, and is reported    *)
(* under its own id.                                                        *)
Truthful ==
    /\ \A r \in executing : executed[r] = 1
    /\ \A m \in toClient : m.id \in Requests => m.of = m.id /\ executed[m.id] = 1
    /\ \A r \in Requests :
          promise[r] = "resolved" => answer[r] = r /\ executed[r] = 1

Inv == TypeOK /\ Begun /\ PendingHasEntry /\ Once /\ Truthful

-----------------------------------------------------------------------------
(* What the messages are made of, and that messages with different ids      *)
(* differ.                                                                  *)
LEMMA MessageFacts ==
    /\ Unreadable \in ToClient /\ Unreadable.id \notin Requests
    /\ Notification \in ToClient /\ Notification.id \notin Requests
    /\ \A r \in Requests, ok \in BOOLEAN :
          /\ Response(r, r, ok) \in ToClient
          /\ Response(r, r, ok).id = r /\ Response(r, r, ok).of = r
    /\ Request(Undefined) \in ToServer /\ Malformed \in ToServer
    /\ \A r \in Requests : Request(r) \in ToServer
    /\ \A r \in Requests : /\ Request(r) # Request(Undefined)
                            /\ Request(r) # Malformed
    /\ \A m \in ToServer : m.valid /\ m.id # Undefined
                              => m.id \in Requests /\ m = Request(m.id)
    /\ \A m \in ToClient : m.id \in Requests => m.of = m.id
    /\ \A r, q \in Requests : Request(r) = Request(q) => r = q
<1>. USE MessagesAssumption
<1>1. Unreadable \in ToClient /\ Unreadable.id \notin Requests
  BY DEF Unreadable, ToClient, Response
<1>2. Notification \in ToClient /\ Notification.id \notin Requests
  BY DEF Notification, ToClient
<1>3. \A r \in Requests, ok \in BOOLEAN :
          /\ Response(r, r, ok) \in ToClient
          /\ Response(r, r, ok).id = r /\ Response(r, r, ok).of = r
  BY DEF Response, ToClient
<1>4. Request(Undefined) \in ToServer /\ Malformed \in ToServer
  BY DEF ToServer
<1>5. \A r \in Requests : Request(r) \in ToServer
  BY DEF ToServer
<1>6. \A r \in Requests : /\ Request(r) # Request(Undefined)
                          /\ Request(r) # Malformed
  BY DEF Request, Malformed
<1>7. \A m \in ToServer : m.valid /\ m.id # Undefined
                             => m.id \in Requests /\ m = Request(m.id)
  BY DEF ToServer, Request, Malformed
<1>8. \A m \in ToClient : m.id \in Requests => m.of = m.id
  BY DEF ToClient, Response, Unreadable, Notification
<1>9. \A r, q \in Requests : Request(r) = Request(q) => r = q
  BY DEF Request
<1>. QED
  BY <1>1, <1>2, <1>3, <1>4, <1>5, <1>6, <1>7, <1>8, <1>9

-----------------------------------------------------------------------------
(* At first nothing is called, in flight or executed.                       *)
LEMMA InitInv == Init => Inv
<1>. SUFFICES ASSUME Init PROVE Inv
  OBVIOUS
<1>. USE DEF Init, ClientInit, ServerInit
<1>1. stopped \in BOOLEAN
  BY Zenon
<1>2. /\ requests \subseteq Requests /\ notifications \in Seq(Nat)
      /\ count \in Nat /\ executing \subseteq Requests
      /\ toServer \subseteq ToServer /\ toClient \subseteq ToClient
  OBVIOUS
<1>3. /\ promise \in [Requests -> {"none", "pending", "resolved", "rejected"}]
      /\ sends \in [Requests -> {"none", "sending", "written", "sent", "failed"}]
  OBVIOUS
<1>4. /\ answer \in [Requests -> Requests \cup {Nothing}]
      /\ executed \in [Requests -> Nat]
  OBVIOUS
<1>5. TypeOK
  BY <1>1, <1>2, <1>3, <1>4 DEF TypeOK, ClientTypeOK
<1>6. \A r \in Requests :
        promise[r] = "none" /\ sends[r] = "none" /\ executed[r] = 0
  OBVIOUS
<1>7. executing = {} /\ toClient = {} /\ toServer = {}
  OBVIOUS
<1>. HIDE DEF Init, ClientInit, ServerInit
<1>. QED
  BY <1>5, <1>6, <1>7 DEF Inv, Begun, PendingHasEntry, Once, Truthful

(* call: the entry is made with the promise.                                *)
LEMMA CallStep ==
    ASSUME Inv, NEW r \in Requests, CallMethod(r)
    PROVE  Inv'
<1>. USE DEF Inv, CallMethod, Call, serverVars, cache
<1>1. stopped' \in BOOLEAN
  BY Zenon
<1>2. TypeOK'
  BY <1>1, Zenon DEF TypeOK, ClientTypeOK
<1>3. Begun' /\ PendingHasEntry'
  BY DEF TypeOK, ClientTypeOK, Begun, PendingHasEntry
<1>4. Once'
  BY DEF TypeOK, ClientTypeOK, Once
<1>5. Truthful'
  BY DEF TypeOK, ClientTypeOK, Truthful
<1>. QED
  BY <1>2, <1>3, <1>4, <1>5

(* A request is written once, after its entry was made.                     *)
LEMMA WriteStep ==
    ASSUME Inv, NEW r \in Requests, WriteRequest(r)
    PROVE  Inv'
<1>. USE DEF Inv, WriteRequest, Write, serverVars, cache
<1>1. TypeOK'
  BY MessageFacts DEF TypeOK, ClientTypeOK
<1>2. Begun' /\ PendingHasEntry'
  BY DEF TypeOK, ClientTypeOK, Begun, PendingHasEntry
<1>3. executed[r] = 0
  BY DEF Once
<1>4. \A q \in Requests : q # r => (Request(q) \in toServer' => Request(q) \in toServer)
  BY MessageFacts
<1>5. \A q \in Requests : sends'[q] = IF q = r THEN "written" ELSE sends[q]
  BY DEF TypeOK, ClientTypeOK
<1>6. executed' = executed
  OBVIOUS
<1>7. Once'
  <2>1. SUFFICES ASSUME NEW q \in Requests
        PROVE  /\ Request(q) \in toServer' => executed[q] = 0
               /\ Request(q) \in toServer' \/ executed[q] # 0
                    => sends'[q] \notin {"none", "sending"}
               /\ executed[q] \in {0, 1}
    BY <1>6 DEF Once
  <2>2. CASE q = r
    BY <1>3, <1>5, <2>2
  <2>3. CASE q # r
    BY <1>4, <1>5, <2>3 DEF Once
  <2>. QED
    BY <2>2, <2>3
<1>8. Truthful'
  BY DEF Truthful
<1>. QED
  BY <1>1, <1>2, <1>7, <1>8

(* The end of `send`, with or without an error, which rejects.              *)
LEMMA FinishSendStep ==
    ASSUME Inv, NEW r \in Requests, FinishSend(r)
    PROVE  Inv'
<1>. USE DEF Inv, FinishSend, SendReturns, SendThrows, serverVars, cache
<1>1. TypeOK'
  BY DEF TypeOK, ClientTypeOK
<1>2. Begun' /\ PendingHasEntry'
  BY DEF TypeOK, ClientTypeOK, Begun, PendingHasEntry
<1>3. Once'
  BY DEF TypeOK, ClientTypeOK, Once
<1>4. Truthful'
  BY DEF Truthful
<1>. QED
  BY <1>1, <1>2, <1>3, <1>4

(* A request is executed once, or refused.                                  *)
LEMMA DeliverStep ==
    ASSUME Inv, NEW m \in toServer, Deliver(m)
    PROVE  Inv'
<1>. USE DEF Inv, Deliver, clientVars, table, cache
<1>1. Begun' /\ PendingHasEntry'
  BY DEF Begun, PendingHasEntry
<1>2. CASE ReceiveMalformed(m) \/ ReceiveNotification(m)
  <2>. USE <1>2 DEF ReceiveMalformed, ReceiveNotification, serverVars
  <2>1. TypeOK'
    BY MessageFacts DEF TypeOK, ClientTypeOK
  <2>2. Once'
    BY DEF Once
  <2>3. Truthful'
    BY MessageFacts DEF Truthful
  <2>. QED
    BY <1>1, <2>1, <2>2, <2>3
<1>3. CASE ReceiveCall(m)
  <2>1. PICK r \in Requests : r = m.id /\ m = Request(r)
    BY <1>3, MessageFacts DEF ReceiveCall, TypeOK
  <2>2. executed[r] = 0 /\ sends[r] \notin {"none", "sending"}
    BY <2>1 DEF Once
  <2>3. /\ executed' = [executed EXCEPT ![r] = @ + 1]
        /\ executing' = executing \cup {r}
        /\ toClient' = toClient /\ unwritten' = unwritten
        /\ toServer' = toServer \ {Request(r)}
    BY <1>3, <2>1 DEF ReceiveCall
  <2>4. \A q \in Requests : executed'[q] = IF q = r THEN 1 ELSE executed[q]
    BY <2>2, <2>3 DEF TypeOK
  <2>5. TypeOK'
    BY <2>3 DEF TypeOK, ClientTypeOK
  <2>6. Once'
    BY <2>2, <2>3, <2>4, MessageFacts DEF Once
  <2>7. Truthful'
    BY <2>3, <2>4 DEF Truthful, TypeOK
  <2>. QED
    BY <1>1, <2>5, <2>6, <2>7
<1>. QED
  BY <1>2, <1>3 DEF ReceiveRequest

(* What was executed is reported under its own id.                          *)
LEMMA FinishExecutionStep ==
    ASSUME Inv, NEW r \in Requests, FinishExecution(r)
    PROVE  Inv'
<1>. USE DEF Inv, FinishExecution, Finish, clientVars, table, cache
<1>1. /\ toClient' \subseteq toClient \cup {Response(r, r, ok) : ok \in BOOLEAN}
      /\ unwritten' \subseteq unwritten \cup {r}
  OBVIOUS
<1>2. TypeOK'
  BY <1>1, MessageFacts DEF TypeOK, ClientTypeOK
<1>3. Begun' /\ PendingHasEntry' /\ Once'
  BY DEF Begun, PendingHasEntry, Once
<1>4. Truthful'
  BY <1>1, MessageFacts DEF Truthful
<1>. QED
  BY <1>2, <1>3, <1>4

(* A response settles the promise of its own request.                       *)
LEMMA DeliverReplyStep ==
    ASSUME Inv, NEW m \in toClient, DeliverReply(m)
    PROVE  Inv'
<1>. USE DEF Inv, DeliverReply
<1>0. m \in ToClient
  BY DEF TypeOK
<1>1. CASE m.id = Undefined /\ Notified
  <2>. USE <1>1 DEF Notified, table
  <2>0. count \in Nat /\ notifications \in Seq(Nat)
    BY DEF TypeOK, ClientTypeOK
  <2>. DEFINE all == Append(notifications, count + 1)
              cut == SubSeq(all, Len(all) - NotificationsLength + 1, Len(all))
  <2>a. all \in Seq(Nat) /\ Len(all) \in Nat
    BY <2>0
  <2>b. notifications' = IF Len(all) > NotificationsLength THEN cut ELSE all
    OBVIOUS
  <2>. HIDE DEF all
  <2>c. Len(all) > NotificationsLength => cut \in Seq(Nat)
    BY <2>a, ClientAssumption
  <2>d. count' \in Nat
    BY <2>0
  <2>. HIDE DEF cut
  <2>1. notifications' \in Seq(Nat) /\ count' \in Nat
    BY <2>a, <2>b, <2>c, <2>d, Zenon
  <2>2. TypeOK'
    BY <2>1 DEF TypeOK, ClientTypeOK
  <2>3. Begun' /\ PendingHasEntry' /\ Once'
    BY DEF Begun, PendingHasEntry, Once
  <2>4. Truthful'
    BY DEF Truthful
  <2>. QED
    BY <2>2, <2>3, <2>4
<1>2. CASE Respond(m)
  <2>. USE <1>2 DEF Respond, cache
  <2>1. PICK r \in Requests : r = m.id /\ m.of = r /\ executed[r] = 1
    BY MessageFacts, <1>0 DEF TypeOK, ClientTypeOK, Truthful
  <2>2. \A q \in Requests : q # r => promise'[q] = promise[q] /\ answer'[q] = answer[q]
    BY <2>1 DEF TypeOK, ClientTypeOK
  <2>3. promise'[r] # "pending" /\ (promise'[r] = "none" <=> promise[r] = "none")
    BY <2>1 DEF TypeOK, ClientTypeOK
  <2>4. promise'[r] = "resolved" => answer'[r] = r
    BY <2>1 DEF TypeOK, ClientTypeOK, Truthful
  <2>5. TypeOK'
    BY <2>1 DEF TypeOK, ClientTypeOK
  <2>6. Begun' /\ PendingHasEntry'
    BY <2>1, <2>2, <2>3 DEF Begun, PendingHasEntry
  <2>7. Once'
    BY DEF Once
  <2>8. Truthful'
    BY <2>1, <2>2, <2>4 DEF Truthful
  <2>. QED
    BY <2>5, <2>6, <2>7, <2>8
<1>3. CASE Discard(m)
  <2>. USE <1>3 DEF Discard, clientVars, table, cache
  <2>1. TypeOK' /\ Begun' /\ PendingHasEntry' /\ Once'
    BY DEF TypeOK, ClientTypeOK, Begun, PendingHasEntry, Once
  <2>2. Truthful'
    BY DEF Truthful
  <2>. QED
    BY <2>1, <2>2
<1>. QED
  BY <1>1, <1>2, <1>3 DEF Receive

(* stop: every entry is rejected.                                           *)
LEMMA StopStep ==
    ASSUME Inv, Stop
    PROVE  Inv'
<1>. USE DEF Inv, Stop, StopClient, serverVars, cache
<1>1. stopped' \in BOOLEAN
  BY Zenon
<1>2. \A r \in Requests : /\ promise'[r] \in {promise[r], "rejected"}
                          /\ promise'[r] # promise[r] => promise[r] = "pending"
  OBVIOUS
<1>3. promise' \in [Requests -> {"none", "pending", "resolved", "rejected"}]
  BY DEF TypeOK, ClientTypeOK
<1>4. TypeOK'
  BY <1>1, <1>3, Zenon DEF TypeOK, ClientTypeOK
<1>5. Begun' /\ PendingHasEntry'
  BY <1>2 DEF Begun, PendingHasEntry
<1>6. Once'
  BY DEF Once
<1>7. Truthful'
  BY <1>2 DEF Truthful
<1>. QED
  BY <1>4, <1>5, <1>6, <1>7

(* Notifications and malformed requests leave the calls alone.              *)
LEMMA OtherStep ==
    ASSUME Inv, OtherMessage \/ Notify \/ Break
    PROVE  Inv'
<1>. USE DEF Inv, OtherMessage, Notify, NotifyClient, Break, clientVars, table,
             cache, serverVars
<1>1. TypeOK'
  BY MessageFacts DEF TypeOK, ClientTypeOK
<1>2. Begun' /\ PendingHasEntry'
  BY DEF Begun, PendingHasEntry
<1>3. Once'
  BY MessageFacts DEF Once
<1>4. Truthful'
  BY MessageFacts DEF Truthful
<1>. QED
  BY <1>1, <1>2, <1>3, <1>4

(* No step of client, server or network breaks Inv.                         *)
LEMMA NextInv == Inv /\ [Next]_vars => Inv'
<1>. SUFFICES ASSUME Inv, [Next]_vars PROVE Inv'
  OBVIOUS
<1>1. CASE UNCHANGED vars
  <2>. USE <1>1 DEF Inv, vars, clientVars, table, cache, serverVars
  <2>1. TypeOK' /\ Begun' /\ PendingHasEntry' /\ Once'
    BY DEF TypeOK, ClientTypeOK, Begun, PendingHasEntry, Once
  <2>2. Truthful'
    BY DEF Truthful
  <2>. QED
    BY <2>1, <2>2
<1>. QED
  BY <1>1, CallStep, WriteStep, FinishSendStep, DeliverStep, FinishExecutionStep,
     DeliverReplyStep, StopStep, OtherStep DEF Next

(* Inv holds of every state.                                                *)
LEMMA Invariance == Spec => []Inv
BY InitInv, NextInv, PTL DEF Spec

(* The client's table, the server's executions and the messages in flight   *)
(* stay well formed: in particular every response in flight carries the id  *)
(* of the request it answers.                                               *)
THEOREM TypeCorrect == Spec => []TypeOK
BY Invariance, PTL DEF Inv

(* While a call is outstanding its request is in the table, so a response   *)
(* or `stop` can still settle it.                                           *)
THEOREM PendingFound == Spec => []PendingHasEntry
BY Invariance, PTL DEF Inv

(* No request is executed twice, whatever fails, breaks or stops.           *)
THEOREM ExecutedOnce == Spec => []AtMostOnce
<1>1. Inv => AtMostOnce
  <2>1. \A n \in {0, 1} : n <= 1
    OBVIOUS
  <2>. QED
    BY <2>1 DEF Inv, Once, AtMostOnce
<1>. QED
  BY <1>1, Invariance, PTL

(* A call that resolves has the result of its own, only execution.          *)
THEOREM ResultsMatch == Spec => []ResultIsOwn
<1>1. Inv => ResultIsOwn
  BY DEF Inv, Truthful, ResultIsOwn, Outcome
<1>. QED
  BY <1>1, Invariance, PTL

-----------------------------------------------------------------------------
(* When a subclass's `stop` reaches Client.stop, nothing is outstanding     *)
(* after it, whatever was being sent, executed or delivered at the time.    *)
THEOREM StopLeavesNothing ==
    ASSUME SuperStop
    PROVE  Spec => []StopRejectsAll
<1>1. Init => StopRejectsAll
  BY DEF Init, ClientInit, StopRejectsAll
<1>2. Inv /\ StopRejectsAll /\ [Next]_vars => StopRejectsAll'
  <2>. SUFFICES ASSUME Inv, StopRejectsAll, [Next]_vars, stopped',
                       NEW r \in Requests
                PROVE  promise'[r] # "pending"
    BY DEF StopRejectsAll
  <2>1. CASE Stop
    BY <2>1 DEF Stop, StopClient, Inv, PendingHasEntry
  <2>2. CASE \E q \in Requests : CallMethod(q)
    BY <2>2 DEF CallMethod, Call
  <2>3. CASE promise' = promise /\ stopped' = stopped
    BY <2>3 DEF StopRejectsAll
  <2>4. CASE \E m \in toClient : DeliverReply(m)
    <3>1. PICK m \in toClient : Receive(m)
      BY <2>4 DEF DeliverReply
    <3>2. stopped' = stopped
      BY <3>1 DEF Receive, Notified, Respond, Discard, clientVars
    <3>3. promise'[r] # promise[r] => promise'[r] \in {"resolved", "rejected"}
      BY <3>1 DEF Receive, Notified, Respond, Discard, clientVars, table, Inv,
                  TypeOK, ClientTypeOK
    <3>. QED
      BY <3>2, <3>3 DEF StopRejectsAll
  <2>5. CASE \E q \in Requests : WriteRequest(q) \/ FinishSend(q)
                                   \/ FinishExecution(q)
    BY <2>3, <2>5 DEF WriteRequest, Write, FinishSend, SendReturns, SendThrows,
                      FinishExecution, clientVars, table
  <2>6. CASE \/ \E m \in toServer : Deliver(m)
             \/ OtherMessage \/ Notify \/ Break \/ UNCHANGED vars
    BY <2>3, <2>6 DEF Deliver, OtherMessage, Notify, Break, vars, clientVars,
                      table
  <2>. QED
    BY <2>1, <2>2, <2>4, <2>5, <2>6 DEF Next
<1>. QED
  BY <1>1, <1>2, Invariance, PTL DEF Spec

-----------------------------------------------------------------------------
(* The last N elements of a list, for the cache that `notified` cuts.       *)
LEMMA SuffixFacts ==
    ASSUME NEW q \in Seq(Nat), NEW N \in Nat, Len(q) > N
    PROVE  LET kept == SubSeq(q, Len(q) - N + 1, Len(q))
           IN  /\ Len(kept) = N
               /\ \A i \in 1..N : kept[i] = q[Len(q) - N + i]
OBVIOUS

(* A notification is appended to the cache, and the oldest one leaves it if *)
(* it is full.                                                              *)
LEMMA NotifiedKeepsLatest ==
    ASSUME ClientTypeOK, LatestNotifications, Notified
    PROVE  LatestNotifications'
<1>. DEFINE all == Append(notifications, count + 1)
            N == NotificationsLength
<1>1. count \in Nat /\ notifications \in Seq(Nat) /\ N \in Nat /\ count' = count + 1
  BY ClientAssumption DEF ClientTypeOK, Notified
<1>2. notifications' = IF Len(all) > N THEN SubSeq(all, Len(all) - N + 1, Len(all))
                                       ELSE all
  BY DEF Notified
<1>3. /\ Len(notifications) = IF count < N THEN count ELSE N
      /\ \A i \in 1..Len(notifications) :
            notifications[i] = count - Len(notifications) + i
  BY DEF LatestNotifications
<1>4. all \in Seq(Nat) /\ Len(all) = Len(notifications) + 1
  BY <1>1
<1>5. \A i \in 1..Len(all) : all[i] = (count + 1) - Len(all) + i
  <2>. DEFINE n == Len(notifications)
  <2>1. n \in Nat /\ Len(all) = n + 1
    BY <1>1, <1>4
  <2>2. \A i \in 1..n : all[i] = notifications[i]
    BY <1>1
  <2>3. all[n + 1] = count + 1
    BY <1>1
  <2>4. \A i \in 1..n : all[i] = count - n + i
    BY <1>3, <2>2
  <2>. HIDE DEF all, n, N
  <2>. QED
    BY <1>1, <2>1, <2>3, <2>4
<1>. HIDE DEF all, N
<1>6. CASE Len(all) > N
  <2>1. Len(all) = N + 1 /\ ~(count + 1 < N)
    BY <1>1, <1>3, <1>4, <1>6
  <2>2. /\ Len(notifications') = N
        /\ \A i \in 1..N : notifications'[i] = all[Len(all) - N + i]
    BY <1>1, <1>2, <1>4, <1>6, SuffixFacts
  <2>3. \A i \in 1..N : notifications'[i] = (count + 1) - N + i
    BY <1>1, <1>5, <2>1, <2>2
  <2>. QED
    BY <1>1, <2>1, <2>2, <2>3 DEF LatestNotifications, N
<1>7. CASE ~(Len(all) > N)
  <2>1. Len(all) = count + 1 /\ (count + 1 < N \/ count + 1 = N)
    BY <1>1, <1>3, <1>4, <1>7
  <2>. QED
    BY <1>1, <1>2, <1>5, <1>7, <2>1 DEF LatestNotifications, N
<1>. QED
  BY <1>6, <1>7

(* Whatever else goes on, the cache holds the latest notifications, without *)
(* a gap and in order: nothing but `notified` touches it.                   *)
THEOREM CacheIsLatest == Spec => []LatestNotifications
<1>1. Init => LatestNotifications
  BY ClientAssumption DEF Init, ClientInit, LatestNotifications
<1>2. Inv /\ LatestNotifications /\ [Next]_vars => LatestNotifications'
  <2>. SUFFICES ASSUME Inv, LatestNotifications, [Next]_vars
                PROVE  LatestNotifications'
    OBVIOUS
  <2>1. CASE UNCHANGED cache
    BY <2>1 DEF cache, LatestNotifications
  <2>2. CASE \E m \in toClient : DeliverReply(m)
    <3>1. Notified \/ UNCHANGED cache
      BY <2>2 DEF DeliverReply, Receive, Respond, Discard, clientVars
    <3>. QED
      BY <2>1, <3>1, NotifiedKeepsLatest DEF Inv, TypeOK
  <2>3. CASE \E r \in Requests : \/ CallMethod(r) \/ WriteRequest(r)
                                 \/ FinishSend(r) \/ FinishExecution(r)
    BY <2>1, <2>3 DEF CallMethod, Call, WriteRequest, Write, FinishSend,
                      SendReturns, SendThrows, FinishExecution, clientVars
  <2>4. CASE \/ \E m \in toServer : Deliver(m)
             \/ OtherMessage \/ Notify \/ Stop \/ Break \/ UNCHANGED vars
    BY <2>1, <2>4 DEF Deliver, OtherMessage, Notify, Stop, StopClient, Break,
                      vars, clientVars
  <2>. QED
    BY <2>2, <2>3, <2>4 DEF Next
<1>. QED
  BY <1>1, <1>2, Invariance, PTL DEF Spec

-----------------------------------------------------------------------------
(* The message or the execution that a promise waits for, or what became of *)
(* it.                                                                      *)
Kept(r) ==
    \/ Request(r) \in toServer
    \/ r \in executing
    \/ \E m \in toClient : m.id = r
    \/ r \in unwritten

PendingIsKept ==
    connection = "up" => \A r \in Requests :
       promise[r] = "pending" /\ sends[r] \notin {"sending", "failed"} => Kept(r)

(* A request that the server takes is executed, then answered or refused.    *)
LEMMA ServerKeeps ==
    ASSUME Inv, NEW r \in Requests, Kept(r),
           \/ \E m \in toServer : Deliver(m)
           \/ \E q \in Requests : FinishExecution(q)
    PROVE  Kept(r)'
<1>1. CASE \E m \in toServer : Deliver(m)
  <2>1. PICK m \in toServer : Deliver(m)
    BY <1>1
  <2>2. /\ executing \subseteq executing' /\ toClient \subseteq toClient'
        /\ unwritten' = unwritten
        /\ toServer' = toServer \ {m}
    BY <2>1 DEF Deliver, ReceiveRequest, ReceiveMalformed, ReceiveNotification,
                ReceiveCall, serverVars
  <2>3. m = Request(r) => r \in executing'
    BY <2>1, MessagesAssumption DEF Deliver, ReceiveRequest, ReceiveMalformed,
       ReceiveNotification, ReceiveCall, Request
  <2>. QED
    BY <2>2, <2>3 DEF Kept
<1>2. CASE \E q \in Requests : FinishExecution(q)
  <2>1. PICK q \in Requests : FinishExecution(q)
    BY <1>2
  <2>2. /\ executing' = executing \ {q} /\ toServer' = toServer
        /\ toClient \subseteq toClient' /\ unwritten \subseteq unwritten'
    BY <2>1 DEF FinishExecution, Finish
  <2>3. (\E m \in toClient' : m.id = q) \/ q \in unwritten'
    BY <2>1, MessageFacts DEF FinishExecution, Finish
  <2>. QED
    BY <2>2, <2>3 DEF Kept
<1>. QED
  BY <1>1, <1>2

(* A reply settles the promise that waits for it.                           *)
LEMMA ReplyKeeps ==
    ASSUME Inv, NEW r \in Requests, Kept(r), NEW m \in toClient, DeliverReply(m),
           promise'[r] = "pending"
    PROVE  promise[r] = "pending" /\ Kept(r)'
<1>1. m \in ToClient /\ m.id = r => Respond(m)
  BY MessagesAssumption DEF DeliverReply, Receive, Discard, Notified, Inv,
     PendingHasEntry, Respond, clientVars, table
<1>2. m \in ToClient
  BY DEF Inv, TypeOK
<1>3. promise'[r] = "pending" => promise[r] = "pending" /\ ~(m.id = r)
  BY <1>1, <1>2 DEF DeliverReply, Receive, Discard, Notified, Respond, clientVars,
     table, Inv, TypeOK, ClientTypeOK
<1>4. /\ toServer' = toServer /\ executing' = executing
      /\ toClient' = toClient \ {m} /\ unwritten' = unwritten
  BY DEF DeliverReply
<1>. QED
  BY <1>3, <1>4 DEF Kept

LEMMA KeptNext ==
    ASSUME Inv, Inv', PendingIsKept, [Next]_vars
    PROVE  PendingIsKept'
<1>. SUFFICES ASSUME connection' = "up", NEW r \in Requests,
                     promise'[r] = "pending", sends'[r] \notin {"sending", "failed"}
              PROVE  Kept(r)'
  BY DEF PendingIsKept
<1>1. connection = "up"
  BY DEF Next, CallMethod, WriteRequest, FinishSend, FinishExecution, Deliver,
         DeliverReply, OtherMessage, Notify, Stop, Break, vars
<1>2. ASSUME promise[r] = "pending", sends[r] \notin {"sending", "failed"}
      PROVE  Kept(r)
  BY <1>1, <1>2 DEF PendingIsKept
<1>3. CASE \E q \in Requests : CallMethod(q)
  <2>1. PICK q \in Requests : CallMethod(q)
    BY <1>3
  <2>2. q # r
    BY <2>1 DEF CallMethod, Call, Inv, TypeOK, ClientTypeOK
  <2>3. promise'[r] = promise[r] /\ sends'[r] = sends[r]
    BY <2>1, <2>2 DEF CallMethod, Call, Inv, TypeOK, ClientTypeOK
  <2>4. /\ toServer' = toServer /\ executing' = executing /\ toClient' = toClient
        /\ unwritten' = unwritten
    BY <2>1 DEF CallMethod, serverVars
  <2>. QED
    BY <1>2, <2>3, <2>4 DEF Kept
<1>4. CASE \E q \in Requests : WriteRequest(q) \/ FinishSend(q)
  <2>1. PICK q \in Requests : WriteRequest(q) \/ FinishSend(q)
    BY <1>4
  <2>2. /\ promise' = promise /\ executing' = executing /\ toClient' = toClient
        /\ unwritten' = unwritten
        /\ toServer \subseteq toServer'
        /\ WriteRequest(q) => Request(q) \in toServer'
    BY <2>1 DEF WriteRequest, Write, FinishSend, SendReturns, SendThrows, serverVars
  <2>3. /\ r # q => sends'[r] = sends[r]
        /\ FinishSend(q) /\ r = q => sends[r] = "written"
    BY <2>1 DEF WriteRequest, Write, FinishSend, SendReturns, SendThrows, Inv,
                TypeOK, ClientTypeOK
  <2>. QED
    BY <1>2, <2>1, <2>2, <2>3 DEF Kept
<1>5. CASE \/ \E m \in toServer : Deliver(m)
           \/ \E q \in Requests : FinishExecution(q)
  <2>1. promise' = promise /\ sends' = sends
    BY <1>5 DEF Deliver, FinishExecution, clientVars, table
  <2>. QED
    BY <1>2, <1>5, <2>1, ServerKeeps
<1>6. CASE \E m \in toClient : DeliverReply(m)
  <2>1. sends' = sends
    BY <1>6 DEF DeliverReply, Receive, Notified, Respond, Discard, clientVars, table
  <2>2. promise[r] = "pending"
    BY <1>6 DEF DeliverReply, Receive, Notified, Respond, Discard, clientVars, table,
                Inv, TypeOK, ClientTypeOK
  <2>. QED
    BY <1>2, <1>6, <2>1, <2>2, ReplyKeeps
<1>7. CASE OtherMessage \/ Notify \/ Stop \/ UNCHANGED vars
  <2>1. sends' = sends /\ promise[r] = "pending"
    BY <1>7 DEF OtherMessage, Notify, Stop, StopClient, vars, clientVars, table
  <2>2. /\ toServer \subseteq toServer' /\ executing' = executing
        /\ toClient \subseteq toClient' /\ unwritten' = unwritten
    BY <1>7 DEF OtherMessage, Notify, NotifyClient, Stop, vars, serverVars
  <2>. QED
    BY <1>2, <2>1, <2>2 DEF Kept
<1>8. ~Break
  BY DEF Break
<1>. QED
  BY <1>3, <1>4, <1>5, <1>6, <1>7, <1>8 DEF Next

(* On a connection that has not broken nobody waits for nothing: as long as *)
(* a call is pending, its send has not returned, or its request or response *)
(* is in flight, or it is being executed; only a request whose result could *)
(* not be written is forgotten (what CallsSettle builds on).                *)
THEOREM OnlyUnwrittenIsForgotten ==
    Spec => [](connection = "up" => \A r \in Requests : Outcome(r) = "pending" =>
                  \/ sends[r] \in {"sending", "written"}
                  \/ Request(r) \in toServer
                  \/ r \in executing
                  \/ \E m \in toClient : m.id = r
                  \/ r \in unwritten)
<1>1. Init => PendingIsKept
  BY DEF Init, ClientInit, PendingIsKept
<1>2. Inv /\ PendingIsKept =>
        (connection = "up" => \A r \in Requests : Outcome(r) = "pending" =>
            \/ sends[r] \in {"sending", "written"}
            \/ Request(r) \in toServer
            \/ r \in executing
            \/ \E m \in toClient : m.id = r
            \/ r \in unwritten)
  BY DEF Inv, TypeOK, ClientTypeOK, PendingIsKept, Outcome, Kept
<1>. QED
  BY <1>1, <1>2, KeptNext, Invariance, PTL DEF Spec

-----------------------------------------------------------------------------
(* A step that leaves the sends alone and settles pending promises only     *)
(* changes the outcome of a call from pending to that of its promise.       *)
LEMMA OutcomeFacts ==
    ASSUME Inv, NEW r \in Requests
    PROVE  /\ Outcome(r) = "none" <=> sends[r] = "none"
           /\ sends[r] \in {"sending", "written"} => Outcome(r) = "pending"
           /\ sends[r] = "sent" => Outcome(r) = promise[r]
           /\ sends[r] = "failed" => Outcome(r) = "rejected"
BY DEF Inv, Begun, TypeOK, ClientTypeOK, Outcome

(* The same of the next state.                                              *)
LEMMA OutcomeFactsNext ==
    ASSUME Inv', NEW r \in Requests
    PROVE  /\ Outcome(r)' = "none" <=> sends'[r] = "none"
           /\ sends'[r] \in {"sending", "written"} => Outcome(r)' = "pending"
           /\ sends'[r] = "sent" => Outcome(r)' = promise'[r]
           /\ sends'[r] = "failed" => Outcome(r)' = "rejected"
BY DEF Inv, Begun, TypeOK, ClientTypeOK, Outcome

(* At first no call of Rpc was made.                                        *)
LEMMA InitRefines == Init => Abstract!Init
BY DEF Init, ClientInit, ServerInit, Abstract!Init, Outcome

(* A step of JsonRpc is one of Rpc, or changes nothing that Rpc sees.       *)
LEMMA StepRefines ==
    ASSUME Inv, Inv', [Next]_vars
    PROVE  [Abstract!Next]_Abstract!rpcVars
<1>. DEFINE out == [r \in Requests |-> Outcome(r)]
<1>0. out' = [r \in Requests |-> Outcome(r)']
  OBVIOUS
<1>s. ASSUME executed' = executed, sends' = sends, promise' = promise
      PROVE  [Abstract!Next]_Abstract!rpcVars
  BY <1>s DEF Abstract!rpcVars, Outcome
<1>f. ASSUME executed' = executed, NEW S \in SUBSET Requests,
             \A r \in S : Outcome(r) = "pending" /\ Outcome(r)' = "rejected",
             \A r \in Requests \ S : Outcome(r)' = Outcome(r)
      PROVE  [Abstract!Next]_Abstract!rpcVars
  <2>1. out' = [r \in Requests |-> IF r \in S THEN "rejected" ELSE out[r]]
    BY <1>0, <1>f
  <2>2. \A r \in S : out[r] = "pending"
    BY <1>f
  <2>3. Abstract!Fail(S)
    BY <1>f, <2>1, <2>2 DEF Abstract!Fail
  <2>. QED
    BY <2>3 DEF Abstract!Next
<1>1. ASSUME NEW r \in Requests, CallMethod(r)
      PROVE  Abstract!Invoke(r)
  <2>1. sends[r] = "none" /\ sends' = [sends EXCEPT ![r] = "sending"]
        /\ promise' = [promise EXCEPT ![r] = "pending"] /\ executed' = executed
    BY <1>1 DEF CallMethod, Call, serverVars
  <2>2. Outcome(r) = "none" /\ Outcome(r)' = "pending"
    BY <2>1, OutcomeFacts, OutcomeFactsNext DEF Inv, TypeOK, ClientTypeOK
  <2>3. \A q \in Requests : q # r => Outcome(q)' = Outcome(q)
    BY <2>1 DEF Inv, TypeOK, ClientTypeOK, Outcome
  <2>4. out' = [out EXCEPT ![r] = "pending"]
    BY <1>0, <2>2, <2>3
  <2>. QED
    BY <2>1, <2>2, <2>4 DEF Abstract!Invoke
<1>2. ASSUME NEW r \in Requests, WriteRequest(r)
      PROVE  [Abstract!Next]_Abstract!rpcVars
  <2>1. sends[r] = "sending" /\ sends' = [sends EXCEPT ![r] = "written"]
        /\ promise' = promise /\ executed' = executed
    BY <1>2 DEF WriteRequest, Write, serverVars
  <2>2. \A q \in Requests : Outcome(q)' = Outcome(q)
    BY <2>1 DEF Inv, TypeOK, ClientTypeOK, Outcome
  <2>. QED
    BY <2>1, <2>2 DEF Abstract!rpcVars
<1>r. ASSUME executed' = executed, NEW r \in Requests, executed[r] = 1,
             Outcome(r) = "pending", Outcome(r)' = "resolved",
             \A q \in Requests : q # r => Outcome(q)' = Outcome(q)
      PROVE  [Abstract!Next]_Abstract!rpcVars
  <2>1. out' = [out EXCEPT ![r] = "resolved"] /\ out[r] = "pending"
    BY <1>0, <1>r
  <2>2. Abstract!Succeed(r)
    BY <1>r, <2>1 DEF Abstract!Succeed
  <2>. QED
    BY <2>2 DEF Abstract!Next
<1>3. ASSUME NEW r \in Requests, FinishSend(r)
      PROVE  [Abstract!Next]_Abstract!rpcVars
  <2>1. /\ sends[r] \in {"sending", "written"}
        /\ sends' \in {[sends EXCEPT ![r] = "sent"], [sends EXCEPT ![r] = "failed"]}
        /\ promise' = promise /\ executed' = executed
    BY <1>3 DEF FinishSend, SendReturns, SendThrows, serverVars
  <2>2. \A q \in Requests : q # r => Outcome(q)' = Outcome(q)
    BY <2>1 DEF Inv, TypeOK, ClientTypeOK, Outcome
  <2>3. Outcome(r) = "pending" /\ Outcome(r)' \in {"pending", "resolved", "rejected"}
    BY <2>1, OutcomeFacts, OutcomeFactsNext DEF Inv, TypeOK, ClientTypeOK, Begun
  <2>4. CASE Outcome(r)' = "pending"
    <3>1. out' = out
      BY <1>0, <2>2, <2>3, <2>4
    <3>. QED
      BY <2>1, <3>1 DEF Abstract!rpcVars
  <2>5. CASE Outcome(r)' = "rejected"
    <3>1. {r} \in SUBSET Requests
      OBVIOUS
    <3>. QED
      BY <1>f, <2>1, <2>2, <2>3, <2>5, <3>1
  <2>6. CASE Outcome(r)' = "resolved"
    <3>1. promise'[r] = "resolved"
      BY <2>1, <2>6, OutcomeFactsNext DEF Inv, TypeOK, ClientTypeOK
    <3>2. executed[r] = 1
      BY <2>1, <3>1 DEF Inv, Truthful
    <3>. QED
      BY <1>r, <2>1, <2>2, <2>3, <2>6, <3>2
  <2>. QED
    BY <2>3, <2>4, <2>5, <2>6
<1>4. ASSUME NEW m \in toServer, Deliver(m)
      PROVE  [Abstract!Next]_Abstract!rpcVars
  <2>1. sends' = sends /\ promise' = promise
    BY <1>4 DEF Deliver, clientVars, table
  <2>2. out' = out
    BY <2>1 DEF Outcome
  <2>3. CASE ReceiveMalformed(m) \/ ReceiveNotification(m)
    BY <1>s, <2>1, <2>3 DEF ReceiveMalformed, ReceiveNotification, serverVars
  <2>4. CASE ReceiveCall(m)
    <3>1. PICK r \in Requests : r = m.id /\ m = Request(r)
      BY <2>4, MessageFacts DEF ReceiveCall, Inv, TypeOK
    <3>2. executed[r] = 0 /\ sends[r] # "none"
      BY <3>1 DEF Inv, Once
    <3>3. executed' = [executed EXCEPT ![r] = 1]
      <4>1. executed' = [executed EXCEPT ![r] = executed[r] + 1]
        BY <2>4, <3>1 DEF ReceiveCall
      <4>2. executed[r] + 1 = 1
        BY <3>2
      <4>. QED
        BY <4>1, <4>2
    <3>4. out[r] # "none"
      BY <3>2, OutcomeFacts
    <3>5. Abstract!Run(r)
      BY <2>2, <3>2, <3>3, <3>4 DEF Abstract!Run
    <3>. QED
      BY <3>5 DEF Abstract!Next
  <2>. QED
    BY <1>4, <2>3, <2>4 DEF Deliver, ReceiveRequest
<1>5. ASSUME NEW m \in toClient, DeliverReply(m)
      PROVE  [Abstract!Next]_Abstract!rpcVars
  <2>1. executed' = executed
    BY <1>5 DEF DeliverReply
  <2>2. CASE Notified \/ Discard(m)
    BY <1>s, <2>1, <2>2 DEF Notified, Discard, clientVars, table
  <2>3. CASE Respond(m)
    <3>1. PICK r \in Requests : r = m.id /\ executed[r] = 1
      BY <1>5, <2>3, MessageFacts DEF Respond, Inv, TypeOK, ClientTypeOK, Truthful
    <3>2. sends' = sends
      BY <2>3 DEF Respond
    <3>3. \A q \in Requests : q # r => promise'[q] = promise[q]
      BY <2>3, <3>1 DEF Respond, Inv, TypeOK, ClientTypeOK
    <3>4. \A q \in Requests : q # r => Outcome(q)' = Outcome(q)
      BY <3>2, <3>3 DEF Outcome
    <3>5. \/ promise'[r] = promise[r]
          \/ promise[r] = "pending" /\ promise'[r] \in {"resolved", "rejected"}
      BY <2>3, <3>1 DEF Respond, Inv, TypeOK, ClientTypeOK
    <3>6. CASE promise'[r] = promise[r] \/ sends[r] # "sent"
      <4>1. Outcome(r)' = Outcome(r)
        BY <3>2, <3>6 DEF Outcome
      <4>2. out' = out
        BY <1>0, <3>4, <4>1
      <4>. QED
        BY <2>1, <4>2 DEF Abstract!rpcVars
    <3>7. CASE /\ sends[r] = "sent" /\ promise[r] = "pending"
               /\ promise'[r] \in {"resolved", "rejected"}
      <4>1. Outcome(r) = "pending" /\ Outcome(r)' = promise'[r]
        BY <3>2, <3>7, OutcomeFacts, OutcomeFactsNext
      <4>2. CASE promise'[r] = "rejected"
        <5>1. {r} \in SUBSET Requests
          OBVIOUS
        <5>. QED
          BY <1>f, <2>1, <3>4, <4>1, <4>2, <5>1
      <4>3. CASE promise'[r] = "resolved"
        BY <1>r, <2>1, <3>1, <3>4, <4>1, <4>3
      <4>. QED
        BY <3>7, <4>2, <4>3
    <3>. QED
      BY <3>5, <3>6, <3>7
  <2>. QED
    BY <1>5, <2>2, <2>3 DEF DeliverReply, Receive
<1>6. ASSUME Stop
      PROVE  [Abstract!Next]_Abstract!rpcVars
  <2>. DEFINE S == {r \in Requests : Outcome(r)' # Outcome(r)}
  <2>1. executed' = executed /\ sends' = sends
    BY <1>6 DEF Stop, StopClient, serverVars
  <2>2. \A r \in Requests : promise'[r] # promise[r] =>
           promise[r] = "pending" /\ promise'[r] = "rejected"
    BY <1>6 DEF Stop, StopClient
  <2>3. \A r \in S : Outcome(r) = "pending" /\ Outcome(r)' = "rejected"
    <3>1. SUFFICES ASSUME NEW r \in Requests, Outcome(r)' # Outcome(r)
                   PROVE  Outcome(r) = "pending" /\ Outcome(r)' = "rejected"
      OBVIOUS
    <3>2. sends[r] = "sent"
      BY <2>1, <3>1 DEF Outcome
    <3>3. Outcome(r) = promise[r] /\ Outcome(r)' = promise'[r]
      BY <2>1, <3>2, OutcomeFacts, OutcomeFactsNext
    <3>. QED
      BY <2>2, <3>1, <3>3
  <2>4. S \in SUBSET Requests
    OBVIOUS
  <2>5. \A r \in Requests \ S : Outcome(r)' = Outcome(r)
    OBVIOUS
  <2>. HIDE DEF S
  <2>. QED
    BY <1>f, <2>1, <2>3, <2>4, <2>5
<1>7. ASSUME \/ \E r \in Requests : FinishExecution(r)
             \/ OtherMessage \/ Notify \/ Break \/ UNCHANGED vars
      PROVE  [Abstract!Next]_Abstract!rpcVars
  BY <1>s, <1>7 DEF FinishExecution, Finish, OtherMessage, Notify, NotifyClient,
                    Break, vars, clientVars, serverVars, table
<1>. QED
  BY <1>1, <1>2, <1>3, <1>4, <1>5, <1>6, <1>7 DEF Next, Abstract!Next

(* Every behaviour of a client and a server on an unreliable connection is  *)
(* one that the abstract specification of remote calls allows.              *)
THEOREM Refinement == Spec => ImplementsRpc
<1>1. Inv /\ Inv' /\ [Next]_vars => [Abstract!Next]_Abstract!rpcVars
  BY StepRefines
<1>. QED
  BY <1>1, InitRefines, Invariance, PTL DEF Spec, ImplementsRpc, Abstract!Spec

(* What its caller has been told of a call is final: no late response, send *)
(* that fails after all, or stop takes it back.                             *)
THEOREM OutcomesAreFinal ==
    Spec => [][\A r \in Requests : Outcome(r) \in {"resolved", "rejected"} =>
                  Outcome(r)' = Outcome(r)]_vars
<1>1. Inv /\ Inv' /\ [Next]_vars =>
         [\A r \in Requests : Outcome(r) \in {"resolved", "rejected"} =>
             Outcome(r)' = Outcome(r)]_vars
  <2>. SUFFICES ASSUME Inv, Inv', [Next]_vars, NEW r \in Requests,
                       Outcome(r) \in {"resolved", "rejected"}
                PROVE  Outcome(r)' = Outcome(r)
    OBVIOUS
  <2>. DEFINE out == [q \in Requests |-> Outcome(q)]
  <2>1. out[r] = Outcome(r) /\ out'[r] = Outcome(r)'
    OBVIOUS
  <2>2. [Abstract!Next]_Abstract!rpcVars
    BY StepRefines
  <2>. HIDE DEF out
  <2>. QED
    BY <2>1, <2>2
       DEF Abstract!Next, Abstract!rpcVars, Abstract!Invoke, Abstract!Run,
           Abstract!Succeed, Abstract!Fail
<1>. QED
  BY <1>1, Invariance, PTL DEF Spec
=============================================================================
