------------------------ MODULE WebSocketClientProofs -----------------------
(***************************************************************************)
(* Proofs about WebSocketClient, for any number of requests, retries,      *)
(* starts and sockets.  The counting argument is that each retry comes     *)
(* after the socket of the one before it, or the one whose loss set off    *)
(* the retries, was closing.                                               *)
(***************************************************************************)
EXTENDS WebSocketClient, FiniteSetTheorems, TLAPS

States == {"none", "connecting", "open", "closing", "aborting", "closed"}
Promises == {"none", "pending", "resolved", "rejected"}
Progress == {"idle", "starting", "waiting", "written", "failed"}

(* Connections that are gone, or about to be.                               *)
Over == {"closing", "aborting", "closed"}
Shut == {a \in Sockets : sock[a] \in Over}

(* Sockets are numbered one after the other.                                *)
Numbered == Made = 1..Cardinality(Made)

(* A promise is rejected when the connection is gone.                       *)
RejectedShut == \A a \in Sockets : startP[a] = "rejected" => sock[a] \in Over

Now == IF retryCur = 0 THEN 0 ELSE 1

(* The sockets that nobody asked for, and as many that are closed.          *)
Counted ==
    /\ isRetrying = "undefined" => Cardinality(Made) = asked /\ retryCur = 0
    /\ isRetrying = "true" =>
          /\ Cardinality(Made) = asked + (Retries - retriesLeft) + Now
          /\ Cardinality(Shut \ {retryCur}) >= (Retries - retriesLeft) + 1
          /\ sock[retryOf] \in Over
    /\ isRetrying = "false" =>
          /\ Cardinality(Made) <= asked + Retries + 1
          /\ Cardinality(Live) <= asked
          /\ retryCur = 0

(* The promises of sockets that are, or were, open, but for the one that    *)
(* waits for the retries.                                                   *)
SettledOnce ==
    \A a \in Made :
       sock[a] \in {"open", "closing", "closed"} /\ onopen[a] = "start" /\ a # retryOf
         => startP[a] # "pending"

Inv == TypeOK /\ Numbered /\ RejectedShut /\ Counted /\ SettledOnce

-----------------------------------------------------------------------------
LEMMA Constants == /\ Retries \in Nat /\ MaxSockets \in Nat /\ "start" \notin Sends
                   /\ 0 \notin Sockets /\ Sockets \subseteq Nat
BY WebSocketClientAssumption DEF Sockets

LEMMA Finite ==
    ASSUME NEW S \in SUBSET Sockets
    PROVE  IsFiniteSet(S) /\ Cardinality(S) \in Nat
<1>1. IsFiniteSet(Sockets)
  BY WebSocketClientAssumption, FS_Interval DEF Sockets
<1> QED BY <1>1, FS_Subset, FS_CardinalityType

LEMMA FiniteSets ==
    /\ IsFiniteSet(Made) /\ Cardinality(Made) \in Nat
    /\ IsFiniteSet(Live) /\ Cardinality(Live) \in Nat
    /\ IsFiniteSet(Shut) /\ Cardinality(Shut) \in Nat
BY Finite DEF Made, Live, Shut

LEMMA FiniteSetsNext ==
    /\ IsFiniteSet(Made') /\ Cardinality(Made') \in Nat
    /\ IsFiniteSet(Live') /\ Cardinality(Live') \in Nat
    /\ IsFiniteSet(Shut') /\ Cardinality(Shut') \in Nat
BY Finite DEF Made, Live, Shut

(* No more sockets are alive than are made and not closed.                  *)
LEMMA LiveOrShut ==
    Cardinality(Live) + Cardinality(Shut) <= Cardinality(Made)
<1>1. Live \subseteq Made \ Shut /\ Shut \subseteq Made
  BY DEF Live, Made, Shut, Over
<1>2. Cardinality(Made \ Shut) = Cardinality(Made) - Cardinality(Made \cap Shut)
  BY FiniteSets, FS_Difference
<1>3. Made \cap Shut = Shut
  BY <1>1
<1>4. IsFiniteSet(Made \ Shut)
  BY FiniteSets, FS_Difference
<1>5. Cardinality(Live) <= Cardinality(Made \ Shut)
  BY <1>1, <1>4, FS_Subset
<1>6. Cardinality(Made \ Shut) = Cardinality(Made) - Cardinality(Shut)
  BY <1>2, <1>3
<1> QED BY <1>5, <1>6, FiniteSets

LEMMA ConnectionsBounded == Inv => AttemptsBounded /\ ConnectionsAskedFor
<1> SUFFICES ASSUME Inv PROVE AttemptsBounded /\ ConnectionsAskedFor
  OBVIOUS
<1>0. /\ Retries \in Nat /\ asked \in Nat /\ retriesLeft \in 0..Retries
      /\ isRetrying \in {"undefined", "true", "false"}
  BY Constants DEF Inv, TypeOK
<1>1. CASE isRetrying = "undefined"
  BY <1>0, <1>1, FiniteSets, LiveOrShut DEF Inv, Counted, AttemptsBounded, ConnectionsAskedFor
<1>2. CASE isRetrying = "true"
  <2>1. Cardinality(Shut \ {retryCur}) <= Cardinality(Shut) /\ Cardinality(Shut \ {retryCur}) \in Nat
    BY FiniteSets, FS_Subset, FS_RemoveElement, FS_CardinalityType
  <2> QED
    BY <1>0, <1>2, <2>1, FiniteSets, LiveOrShut
    DEF Inv, Counted, Now, AttemptsBounded, ConnectionsAskedFor
<1>3. CASE isRetrying = "false"
  BY <1>3 DEF Inv, Counted, AttemptsBounded, ConnectionsAskedFor
<1> QED BY <1>0, <1>1, <1>2, <1>3

-----------------------------------------------------------------------------
LEMMA InitInv == Init => Inv
<1> SUFFICES ASSUME Init PROVE Inv
  OBVIOUS
<1>1. Made = {}
  BY DEF Init, Made
<1>2. Cardinality(Made) = 0 /\ 1..0 = {}
  BY <1>1, FS_EmptySet
<1>3. TypeOK
  <2>1. 0 \in 0..Retries
    BY Constants
  <2> QED BY <2>1 DEF Init, TypeOK
<1>4. Numbered
  BY <1>1, <1>2 DEF Numbered
<1>5. RejectedShut /\ Counted /\ SettledOnce
  BY <1>1, <1>2 DEF Init, RejectedShut, Counted, SettledOnce
<1> QED BY <1>3, <1>4, <1>5 DEF Inv

(* One more socket, when the others are in the states `socks`.              *)
LEMMA MakeFacts ==
    ASSUME Inv, NEW n \in Sockets, NEW socks \in [Sockets -> States],
           NEW promises \in [Sockets -> Promises],
           {a \in Sockets : socks[a] # "none"} = Made,
           MakeSocket(n, socks, promises)
    PROVE  /\ n \notin Made /\ Made' = Made \cup {n} /\ Numbered'
           /\ Cardinality(Made') = Cardinality(Made) + 1
           /\ sock' \in [Sockets -> States] /\ startP' \in [Sockets -> Promises]
           /\ sock'[n] = "connecting" /\ startP'[n] = "pending"
           /\ \A a \in Sockets \ {n} : sock'[a] = socks[a] /\ startP'[a] = promises[a]
           /\ current' = n
<1>1. /\ n = Cardinality(Made) + 1 /\ current' = n
      /\ sock' = [socks EXCEPT ![n] = "connecting"]
      /\ startP' = [promises EXCEPT ![n] = "pending"]
  BY DEF MakeSocket
<1>2. n \notin Made
  BY <1>1, FiniteSets DEF Inv, Numbered
<1>3. /\ sock' \in [Sockets -> States] /\ startP' \in [Sockets -> Promises]
      /\ sock'[n] = "connecting" /\ startP'[n] = "pending"
      /\ \A a \in Sockets \ {n} : sock'[a] = socks[a] /\ startP'[a] = promises[a]
  BY <1>1 DEF States, Promises
<1>4. Made' = Made \cup {n}
  BY <1>3 DEF Made
<1>5. Cardinality(Made') = Cardinality(Made) + 1
  BY <1>2, <1>4, FiniteSets, FS_AddElement
<1>6. Made' = 1..Cardinality(Made')
  BY <1>1, <1>4, <1>5, FiniteSets DEF Inv, Numbered
<1> QED BY <1>1, <1>2, <1>3, <1>4, <1>5, <1>6 DEF Numbered

(* A step that makes no socket, revives none, and leaves the retries alone. *)
LEMMA CountedStays ==
    ASSUME Inv, TypeOK', Made' = Made, Live' \subseteq Live, Shut \subseteq Shut',
           UNCHANGED <<retrying, asked>>
    PROVE  Numbered' /\ Counted'
<1>1. Numbered'
  BY DEF Inv, Numbered
<1>2. Cardinality(Live') <= Cardinality(Live)
  BY FiniteSets, FS_Subset
<1>3. IsFiniteSet(Shut' \ {retryCur}) /\ Cardinality(Shut' \ {retryCur}) \in Nat
  BY FiniteSetsNext, FS_Difference, FS_CardinalityType
<1>4. IsFiniteSet(Shut \ {retryCur}) /\ Cardinality(Shut \ {retryCur}) \in Nat
  BY FiniteSets, FS_Difference, FS_CardinalityType
<1>5. Cardinality(Shut \ {retryCur}) <= Cardinality(Shut' \ {retryCur})
  BY <1>3, FS_Subset
<1>6. /\ UNCHANGED <<isRetrying, retryOf, retryCur, retriesLeft, asked>>
      /\ asked \in Nat /\ Retries \in Nat /\ retriesLeft \in 0..Retries
      /\ isRetrying = "true" => retryOf \in Sockets
  BY Constants DEF retrying, Inv, TypeOK, Made
<1>7. isRetrying = "undefined" => Counted'
  BY <1>6 DEF Inv, Counted
<1>8. isRetrying = "true" => Counted'
  <2>1. isRetrying = "true" /\ sock[retryOf] \in Over => sock'[retryOf] \in Over
    BY <1>6 DEF Shut
  <2> QED BY <1>3, <1>4, <1>5, <1>6, <2>1 DEF Inv, Counted, Now
<1>9. isRetrying = "false" => Counted'
  BY <1>2, <1>6, FiniteSets, FiniteSetsNext DEF Inv, Counted
<1>10. Counted'
  BY <1>7, <1>8, <1>9 DEF Inv, TypeOK
<1> QED BY <1>1, <1>10

-----------------------------------------------------------------------------
LEMMA SendOnCurrentStep ==
    ASSUME Inv, NEW s \in Sends, SendOnCurrent(s),
           UNCHANGED <<sock, startP, current, isStopped, retrying, asked>>
    PROVE  Inv'
<1> USE Constants
<1>1. Made' = Made /\ Live' = Live /\ Shut' = Shut
  BY DEF Made, Live, Shut
<1>2. /\ send' \in [Sends -> Progress] /\ sendOn' \in [Sends -> {0} \cup Made]
      /\ onopen' \in [Sockets -> {"start"} \cup Sends]
      /\ \A a \in Sockets : onopen'[a] = "start" => onopen[a] = "start"
  BY DEF SendOnCurrent, Inv, TypeOK, Progress
<1>3. TypeOK'
  BY <1>1, <1>2 DEF Inv, TypeOK, Progress, retrying
<1>4. Numbered' /\ Counted'
  BY <1>1, <1>3, CountedStays
<1>5. RejectedShut' /\ SettledOnce'
  BY <1>1, <1>2 DEF Inv, RejectedShut, SettledOnce, retrying, Made
<1> QED BY <1>3, <1>4, <1>5 DEF Inv

(* A socket is made for a start that somebody asked for.                    *)
LEMMA StartStep ==
    ASSUME Inv, NEW n \in Sockets, MakeSocket(n, sock, startP), asked' = asked + 1,
           UNCHANGED <<onopen, isStopped, retrying>>,
           send' \in [Sends -> Progress], sendOn' \in [Sends -> {0, n} \cup Made]
    PROVE  Inv'
<1> USE Constants
<1>0. UNCHANGED <<isRetrying, retryOf, retryCur, retriesLeft>>
  BY DEF retrying
<1>1. /\ n \notin Made /\ Made' = Made \cup {n} /\ Numbered'
      /\ Cardinality(Made') = Cardinality(Made) + 1
      /\ sock' \in [Sockets -> States] /\ startP' \in [Sockets -> Promises]
      /\ sock'[n] = "connecting" /\ startP'[n] = "pending"
      /\ \A a \in Sockets \ {n} : sock'[a] = sock[a] /\ startP'[a] = startP[a]
      /\ current' = n
  BY MakeFacts DEF Inv, TypeOK, States, Promises, Made
<1>2. TypeOK'
  BY <1>0, <1>1 DEF Inv, TypeOK, States, Promises, Progress
<1>3. RejectedShut' /\ SettledOnce'
  <2>1. Made \subseteq Sockets
    BY DEF Made
  <2>2. RejectedShut'
    BY <1>1 DEF Inv, RejectedShut
  <2>3. SettledOnce'
    BY <1>0, <1>1, <2>1 DEF Inv, SettledOnce
  <2> QED BY <2>2, <2>3
<1>4. Shut' = Shut /\ Live' = Live \cup {n}
  <2>1. sock[n] = "none"
    BY <1>1 DEF Made
  <2> QED BY <1>1, <2>1 DEF Shut, Over, Live
<1>5. Cardinality(Live') <= Cardinality(Live) + 1
  <2>1. Cardinality(Live \cup {n}) = IF n \in Live THEN Cardinality(Live) ELSE Cardinality(Live) + 1
    BY FiniteSets, FS_AddElement
  <2> QED BY <1>4, <2>1, FiniteSets
<1>6. /\ asked \in Nat /\ Retries \in Nat /\ retriesLeft \in 0..Retries
      /\ isRetrying = "true" => retryOf \in Made
  BY DEF Inv, TypeOK
<1>7. isRetrying = "undefined" => Counted'
  BY <1>0, <1>1, <1>6, FiniteSets DEF Inv, Counted
<1>8. isRetrying = "true" => Counted'
  <2>1. isRetrying = "true" /\ sock[retryOf] \in Over => sock'[retryOf] \in Over
    BY <1>1, <1>6 DEF Made
  <2>2. Cardinality(Shut' \ {retryCur'}) = Cardinality(Shut \ {retryCur})
    BY <1>0, <1>4
  <2> QED BY <1>0, <1>1, <1>6, <2>1, <2>2, FiniteSets DEF Inv, Counted, Now
<1>9. isRetrying = "false" => Counted'
  BY <1>0, <1>1, <1>5, <1>6, FiniteSets, FiniteSetsNext DEF Inv, Counted
<1>10. Counted'
  BY <1>7, <1>8, <1>9 DEF Inv, TypeOK
<1> QED BY <1>1, <1>2, <1>3, <1>10 DEF Inv

(* A socket is gone, or going, without a retry.                             *)
LEMMA ShutStep ==
    ASSUME Inv, NEW a \in Made, NEW state \in {"closing", "closed"},
           sock' = [sock EXCEPT ![a] = state],
           startP' \in [Sockets -> Promises],
           \A b \in Sockets \ {a} : startP'[b] = startP[b],
           onopen[a] = "start" /\ a # retryOf => startP'[a] # "pending",
           UNCHANGED <<onopen, current, isStopped, retrying, sending, asked>>
    PROVE  Inv'
<1> USE Constants
<1>0. UNCHANGED <<isRetrying, retryOf, retryCur, retriesLeft, send, sendOn>>
  BY DEF retrying, sending
<1>1. /\ sock' \in [Sockets -> States] /\ sock'[a] = state
      /\ \A b \in Sockets \ {a} : sock'[b] = sock[b]
  BY DEF Inv, TypeOK, States, Made
<1>2. Made' = Made /\ Live' \subseteq Live /\ Shut \subseteq Shut'
  BY <1>1 DEF Made, Live, Shut, Over
<1>3. TypeOK'
  BY <1>0, <1>1, <1>2 DEF Inv, TypeOK, States, Promises
<1>4. Numbered' /\ Counted'
  BY <1>2, <1>3, CountedStays
<1>5. RejectedShut' /\ SettledOnce'
  BY <1>0, <1>1, <1>2 DEF Inv, RejectedShut, SettledOnce, Made, Over
<1> QED BY <1>3, <1>4, <1>5 DEF Inv

(* A socket is gone, and the first retry begins at once.                    *)
LEMMA ReconnectStep ==
    ASSUME Inv, NEW a \in Made, NEW state \in {"closing", "closed"},
           NEW promises \in [Sockets -> Promises],
           isRetrying = "undefined", Reconnect(a, state, promises),
           \A b \in Sockets \ {a} : promises[b] = startP[b],
           UNCHANGED <<onopen, isStopped, sending, asked>>
    PROVE  Inv'
<1> USE Constants
<1> DEFINE socks == [sock EXCEPT ![a] = state]
<1>1. PICK n \in Sockets : /\ MakeSocket(n, socks, promises) /\ isRetrying' = "true"
                           /\ retryOf' = a /\ retryCur' = n /\ retriesLeft' = Retries
  BY DEF Reconnect
<1>2. /\ socks \in [Sockets -> States] /\ socks[a] = state
      /\ \A b \in Sockets \ {a} : socks[b] = sock[b]
  BY DEF Inv, TypeOK, States, Made
<1> HIDE DEF socks
<1>3. {b \in Sockets : socks[b] # "none"} = Made
  BY <1>2 DEF Made
<1>4. /\ n \notin Made /\ Made' = Made \cup {n} /\ Numbered'
      /\ Cardinality(Made') = Cardinality(Made) + 1
      /\ sock' \in [Sockets -> States] /\ startP' \in [Sockets -> Promises]
      /\ sock'[n] = "connecting" /\ startP'[n] = "pending"
      /\ \A b \in Sockets \ {n} : sock'[b] = socks[b] /\ startP'[b] = promises[b]
      /\ current' = n
  BY <1>1, <1>2, <1>3, MakeFacts
<1>5. a # n /\ sock'[a] \in Over /\ a # 0 /\ n # 0 /\ retryOf = 0
  BY <1>2, <1>4 DEF Made, Inv, TypeOK, Over
<1>6. TypeOK'
  <2>1. Retries \in 0..Retries
    OBVIOUS
  <2> QED BY <1>1, <1>4, <1>5, <2>1 DEF Inv, TypeOK, States, Promises, sending
<1>7. RejectedShut' /\ SettledOnce'
  BY <1>1, <1>2, <1>4, <1>5 DEF Inv, RejectedShut, SettledOnce, Made
<1>8. Cardinality(Shut' \ {n}) >= 1
  <2>1. a \in Shut' \ {n}
    BY <1>5 DEF Shut, Made
  <2>2. IsFiniteSet(Shut' \ {n})
    BY FiniteSetsNext, FS_Difference
  <2>3. Cardinality(Shut' \ {n}) # 0 /\ Cardinality(Shut' \ {n}) \in Nat
    BY <2>1, <2>2, FS_EmptySet, FS_CardinalityType
  <2> QED BY <2>3
<1>9. Counted'
  <2>1. asked \in Nat /\ Cardinality(Made) = asked
    BY DEF Inv, TypeOK, Counted
  <2> QED BY <1>1, <1>4, <1>5, <1>8, <2>1 DEF Counted, Now
<1> QED BY <1>4, <1>6, <1>7, <1>9 DEF Inv

(* The pause is over: one more socket, that nobody asked for.               *)
LEMMA RetryStep ==
    ASSUME Inv, Retry
    PROVE  Inv'
<1> USE Constants
<1>1. PICK n \in Sockets : MakeSocket(n, sock, startP) /\ retryCur' = n
  BY DEF Retry
<1>2. /\ isRetrying = "true" /\ retryCur = 0
      /\ UNCHANGED <<onopen, isStopped, isRetrying, retryOf, retriesLeft, send, sendOn, asked>>
  BY DEF Retry, sending
<1>3. /\ n \notin Made /\ Made' = Made \cup {n} /\ Numbered'
      /\ Cardinality(Made') = Cardinality(Made) + 1
      /\ sock' \in [Sockets -> States] /\ startP' \in [Sockets -> Promises]
      /\ sock'[n] = "connecting" /\ startP'[n] = "pending"
      /\ \A a \in Sockets \ {n} : sock'[a] = sock[a] /\ startP'[a] = startP[a]
      /\ current' = n
  BY <1>1, MakeFacts DEF Inv, TypeOK, States, Promises, Made
<1>4. TypeOK'
  BY <1>1, <1>2, <1>3 DEF Inv, TypeOK, States, Promises
<1>5. Made \subseteq Sockets
  BY DEF Made
<1>6. RejectedShut' /\ SettledOnce'
  BY <1>2, <1>3, <1>5 DEF Inv, RejectedShut, SettledOnce
<1>7. Shut' \ {retryCur'} = Shut \ {retryCur}
  <2>1. n \notin Shut /\ retryCur \notin Shut
    BY <1>2, <1>3 DEF Made, Shut, Over
  <2> QED BY <1>1, <1>3, <2>1 DEF Shut
<1>8. Counted'
  <2>1. asked \in Nat /\ retriesLeft \in 0..Retries /\ retryOf \in Made /\ n # 0
    BY <1>2, <1>3 DEF Inv, TypeOK
  <2>2. sock'[retryOf] \in Over
    BY <1>2, <1>3, <1>5, <2>1 DEF Inv, Counted
  <2>3. /\ Cardinality(Made) = asked + (Retries - retriesLeft) + 0
        /\ Cardinality(Shut \ {retryCur}) >= (Retries - retriesLeft) + 1
    BY <1>2 DEF Inv, Counted, Now
  <2>4. Cardinality(Made') = asked + (Retries - retriesLeft) + 1
    BY <1>3, <2>1, <2>3, FiniteSets
  <2>5. Cardinality(Shut' \ {retryCur'}) >= (Retries - retriesLeft) + 1
    BY <1>7, <2>3
  <2>6. Now' = 1 /\ isRetrying' = "true"
    BY <1>1, <1>2, <2>1 DEF Now
  <2> QED BY <1>2, <2>2, <2>4, <2>5, <2>6 DEF Counted
<1> QED BY <1>3, <1>4, <1>6, <1>8 DEF Inv

(* The retries end: their outcome is that of the start that waits for them. *)
LEMMA EndStep ==
    ASSUME Inv, isRetrying = "true", retryCur # 0,
           NEW outcome \in {"resolved", "rejected"},
           startP' = Settled(startP, retryOf, outcome),
           isRetrying' = "false", retryOf' = 0, retryCur' = 0,
           UNCHANGED <<sock, onopen, current, isStopped, retriesLeft, sending, asked>>
    PROVE  Inv'
<1> USE Constants
<1>1. Made' = Made /\ Live' = Live /\ Made \subseteq Sockets
  BY DEF Made, Live
<1>2. /\ startP' \in [Sockets -> Promises] /\ startP'[retryOf] # "pending"
      /\ startP'[retryOf] = "rejected" => sock[retryOf] \in Over
      /\ \A a \in Sockets \ {retryOf} : startP'[a] = startP[a]
  BY <1>1 DEF Settled, Inv, TypeOK, Promises, Counted
<1>3. TypeOK'
  BY <1>1, <1>2 DEF Inv, TypeOK, Promises, sending
<1>4. RejectedShut' /\ SettledOnce'
  BY <1>1, <1>2 DEF Inv, RejectedShut, SettledOnce
<1>5. Counted'
  <2>1. asked \in Nat /\ retriesLeft \in 0..Retries
    BY DEF Inv, TypeOK
  <2>2. /\ Cardinality(Made) = asked + (Retries - retriesLeft) + 1
        /\ Cardinality(Shut \ {retryCur}) >= (Retries - retriesLeft) + 1
    BY DEF Inv, Counted, Now
  <2>3. Cardinality(Shut \ {retryCur}) <= Cardinality(Shut) /\ Cardinality(Shut \ {retryCur}) \in Nat
    BY FiniteSets, FS_Subset, FS_RemoveElement, FS_CardinalityType
  <2>4. Cardinality(Live) <= asked /\ Cardinality(Made) <= asked + Retries + 1
    BY <2>1, <2>2, <2>3, FiniteSets, LiveOrShut
  <2>5. Cardinality(Made') = Cardinality(Made) /\ Cardinality(Live') = Cardinality(Live)
    BY <1>1
  <2>6. UNCHANGED asked
    OBVIOUS
  <2> QED BY <2>4, <2>5, <2>6 DEF Counted
<1> QED BY <1>1, <1>3, <1>4, <1>5 DEF Inv, Numbered

(* One of the retries has failed, and its socket is gone.                   *)
LEMMA RetryFailedStep ==
    ASSUME Inv, RetryFailed
    PROVE  Inv'
<1> USE Constants
<1>1. /\ retryCur # 0 /\ startP[retryCur] = "rejected" /\ retryCur' = 0
      /\ UNCHANGED <<sock, onopen, current, isStopped, sending, asked>>
  BY DEF RetryFailed, RetrySettled
<1>2. isRetrying = "true" /\ retryCur \in Made /\ Made \subseteq Sockets
  BY <1>1 DEF Inv, TypeOK, Counted, Made
<1>3. CASE retriesLeft > 0
  <2>1. retriesLeft' = retriesLeft - 1 /\ UNCHANGED <<startP, isRetrying, retryOf>>
    BY <1>3 DEF RetryFailed
  <2>2. Made' = Made /\ Shut' = Shut
    BY <1>1 DEF Made, Shut
  <2>3. asked \in Nat /\ retriesLeft \in 0..Retries /\ retriesLeft' \in 0..Retries
    BY <1>3, <2>1 DEF Inv, TypeOK
  <2>4. TypeOK'
    BY <1>1, <2>1, <2>2, <2>3 DEF Inv, TypeOK, sending
  <2>5. RejectedShut' /\ SettledOnce' /\ Numbered'
    BY <1>1, <2>1, <2>2 DEF Inv, RejectedShut, SettledOnce, Numbered
  <2>6. Cardinality(Shut \ {retryCur}) = Cardinality(Shut) - 1
    <3>1. retryCur \in Shut
      BY <1>1, <1>2 DEF Inv, RejectedShut, Shut
    <3> QED BY <3>1, FiniteSets, FS_RemoveElement
  <2>7. Shut' \ {retryCur'} = Shut
    BY <1>1, <2>2 DEF Shut
  <2>8. Counted'
    <3>1. /\ Cardinality(Made) = asked + (Retries - retriesLeft) + 1
          /\ Cardinality(Shut \ {retryCur}) >= (Retries - retriesLeft) + 1
          /\ sock[retryOf] \in Over
      BY <1>1, <1>2 DEF Inv, Counted, Now
    <3>2. Cardinality(Made) = asked + (Retries - (retriesLeft - 1)) + 0
      BY <2>3, <3>1, FiniteSets
    <3>3. Cardinality(Shut) >= (Retries - (retriesLeft - 1)) + 1
      BY <2>3, <2>6, <3>1, FiniteSets
    <3>4. Now' = 0 /\ isRetrying' = "true" /\ sock'[retryOf'] \in Over
      BY <1>1, <1>2, <2>1, <3>1 DEF Now
    <3>5. Cardinality(Made') = asked' + (Retries - retriesLeft') + Now'
      BY <1>1, <2>1, <2>2, <3>2, <3>4
    <3>6. Cardinality(Shut' \ {retryCur'}) >= (Retries - retriesLeft') + 1
      BY <2>1, <2>7, <3>3
    <3> QED BY <3>4, <3>5, <3>6 DEF Counted
  <2> QED BY <2>4, <2>5, <2>8 DEF Inv
<1>4. CASE ~(retriesLeft > 0)
  BY <1>1, <1>2, <1>4, EndStep DEF RetryFailed
<1> QED BY <1>3, <1>4

LEMMA CloseStep ==
    ASSUME Inv, NEW a \in Sockets, ConnectFails(a) \/ Fault(a) \/ Close(a)
    PROVE  Inv'
<1> USE Constants
<1>0. /\ a \in Made /\ sock[a] \in {"open", "closing", "connecting", "aborting"}
      /\ UNCHANGED <<onopen, isStopped, sending, asked>>
  BY DEF ConnectFails, Fault, Close, Made
<1>1. \A outcome \in {"resolved", "rejected"} :
         /\ Settled(startP, a, outcome) \in [Sockets -> Promises]
         /\ Settled(startP, a, outcome)[a] # "pending"
         /\ \A b \in Sockets \ {a} : Settled(startP, a, outcome)[b] = startP[b]
  BY DEF Settled, Inv, TypeOK, Promises
<1>2. startP \in [Sockets -> Promises]
  BY DEF Inv, TypeOK, Promises
<1>3. CASE ConnectFails(a)
  <2>1. CASE MayRetry
    <3> DEFINE promises == IF isStopped THEN Settled(startP, a, "resolved") ELSE startP
    <3>1. /\ promises \in [Sockets -> Promises]
          /\ \A b \in Sockets \ {a} : promises[b] = startP[b]
      BY <1>1, <1>2
    <3>2. Reconnect(a, "closed", promises) /\ isRetrying = "undefined"
      BY <1>3, <2>1 DEF ConnectFails, MayRetry
    <3> HIDE DEF promises
    <3> QED BY <1>0, <3>1, <3>2, ReconnectStep
  <2>2. CASE ~MayRetry
    <3>1. /\ sock' = [sock EXCEPT ![a] = "closed"] /\ startP' = Settled(startP, a, "rejected")
          /\ UNCHANGED <<current, retrying>>
      BY <1>3, <2>2 DEF ConnectFails
    <3> QED BY <1>0, <1>1, <3>1, ShutStep
  <2> QED BY <2>1, <2>2
<1>4. CASE Close(a)
  <2>1. sock[a] \in {"open", "closing"}
    BY <1>4 DEF Close
  <2>2. PICK promises \in {startP, Settled(startP, a, "rejected")} :
           IF isStopped
             THEN /\ sock' = [sock EXCEPT ![a] = "closed"]
                  /\ startP' = Settled(startP, a, "resolved")
                  /\ UNCHANGED <<current, retrying>>
             ELSE IF MayRetry
             THEN Reconnect(a, "closed", promises)
             ELSE /\ sock' = [sock EXCEPT ![a] = "closed"]
                  /\ startP' = IF isRetrying = "true" THEN promises
                               ELSE Settled(promises, a, "rejected")
                  /\ UNCHANGED <<current, retrying>>
    BY <1>4 DEF Close
  <2>3. /\ promises \in [Sockets -> Promises]
        /\ \A b \in Sockets \ {a} : promises[b] = startP[b]
        /\ startP[a] # "pending" => promises[a] # "pending"
    BY <1>1, <1>2, <2>2
  <2>4. CASE isStopped
    BY <1>0, <1>1, <2>2, <2>4, ShutStep
  <2>5. CASE ~isStopped /\ MayRetry
    BY <1>0, <2>2, <2>3, <2>5, ReconnectStep DEF MayRetry
  <2>6. CASE ~isStopped /\ ~MayRetry
    <3>1. /\ Settled(promises, a, "rejected") \in [Sockets -> Promises]
          /\ Settled(promises, a, "rejected")[a] # "pending"
          /\ \A b \in Sockets \ {a} : Settled(promises, a, "rejected")[b] = startP[b]
      BY <2>3 DEF Settled, Promises
    <3>2. onopen[a] = "start" /\ a # retryOf => startP[a] # "pending"
      BY <1>0, <2>1 DEF Inv, SettledOnce
    <3>3. /\ startP' \in [Sockets -> Promises]
          /\ \A b \in Sockets \ {a} : startP'[b] = startP[b]
          /\ onopen[a] = "start" /\ a # retryOf => startP'[a] # "pending"
      BY <2>2, <2>3, <2>6, <3>1, <3>2
    <3> QED BY <1>0, <2>2, <2>6, <3>3, ShutStep
  <2> QED BY <2>4, <2>5, <2>6
<1>5. CASE Fault(a)
  <2>1. CASE MayRetry
    <3>1. Reconnect(a, "closing", startP) /\ isRetrying = "undefined"
      BY <1>5, <2>1 DEF Fault, MayRetry
    <3> QED BY <1>0, <1>2, <3>1, ReconnectStep
  <2>2. CASE ~MayRetry
    <3>1. /\ sock' = [sock EXCEPT ![a] = "closing"] /\ startP' = Settled(startP, a, "rejected")
          /\ UNCHANGED <<current, retrying>>
      BY <1>5, <2>2 DEF Fault
    <3> QED BY <1>0, <1>1, <3>1, ShutStep
  <2> QED BY <2>1, <2>2
<1> QED BY <1>3, <1>4, <1>5
-----------------------------------------------------------------------------
LEMMA StepInv == Inv /\ [Next]_vars => Inv'
<1> SUFFICES ASSUME Inv, [Next]_vars PROVE Inv'
  OBVIOUS
<1> USE Constants
<1>1. CASE Start
  <2>1. PICK n \in Sockets : MakeSocket(n, sock, startP)
    BY <1>1 DEF Start
  <2>2. /\ asked' = asked + 1 /\ UNCHANGED <<onopen, isStopped, retrying>>
        /\ send' \in [Sends -> Progress] /\ sendOn' \in [Sends -> {0, n} \cup Made]
    BY <1>1 DEF Start, sending, Inv, TypeOK, Progress
  <2> QED BY <2>1, <2>2, StartStep
<1>2. CASE Stop
  <2>1. /\ sock' \in [Sockets -> States] /\ isStopped' = TRUE
        /\ UNCHANGED <<startP, onopen, current, isRetrying, retryOf, retryCur,
                      retriesLeft, send, sendOn, asked>>
    BY <1>2 DEF Stop, Inv, TypeOK, States, retrying, sending
  <2>2. \A a \in Sockets :
           \/ sock'[a] = sock[a]
           \/ sock[a] = "connecting" /\ sock'[a] = "aborting"
           \/ sock[a] = "open" /\ sock'[a] = "closing"
    BY <1>2 DEF Stop
  <2>3. Made' = Made /\ Live' \subseteq Live /\ Shut \subseteq Shut'
    BY <2>2 DEF Made, Live, Shut, Over
  <2>4. TypeOK'
    BY <2>1, <2>3 DEF Inv, TypeOK, States
  <2>5. Numbered' /\ Counted'
    BY <2>1, <2>3, <2>4, CountedStays DEF retrying
  <2>6. RejectedShut' /\ SettledOnce'
    BY <2>1, <2>2, <2>3 DEF Inv, RejectedShut, SettledOnce, Made, Over
  <2> QED BY <2>4, <2>5, <2>6 DEF Inv
<1>3. CASE Retry
  BY <1>3, RetryStep
<1>4. CASE RetryDone
  <2>1. isRetrying = "true" /\ retryCur # 0
    BY <1>4 DEF RetryDone, RetrySettled, Inv, TypeOK, Counted
  <2> QED BY <1>4, <2>1, EndStep DEF RetryDone
<1>5. CASE RetryFailed
  BY <1>5, RetryFailedStep
<1>6. ASSUME NEW s \in Sends, Send(s)
      PROVE  Inv'
  <2>1. UNCHANGED <<isStopped, retrying>>
    BY <1>6 DEF Send
  <2>2. CASE current = 0
    <3>1. StartFor(s)
      BY <1>6, <2>2 DEF Send
    <3>2. PICK n \in Sockets :
             /\ MakeSocket(n, sock, startP) /\ asked' = asked + 1 /\ UNCHANGED onopen
             /\ send' = [send EXCEPT ![s] = "starting"]
             /\ sendOn' = [sendOn EXCEPT ![s] = n]
      BY <3>1 DEF StartFor
    <3>3. send' \in [Sends -> Progress] /\ sendOn' \in [Sends -> {0, n} \cup Made]
      BY <3>2 DEF Inv, TypeOK, Progress
    <3> QED BY <2>1, <3>2, <3>3, StartStep
  <2>3. CASE current # 0
    BY <1>6, <2>1, <2>3, SendOnCurrentStep DEF Send
  <2> QED BY <2>2, <2>3
<1>7. ASSUME NEW s \in Sends, Resume(s) \/ SendTimeout(s)
      PROVE  Inv'
  <2>1. UNCHANGED <<sock, startP, current, isStopped, retrying, asked>>
    BY <1>7 DEF Resume, SendTimeout
  <2>2. CASE SendOnCurrent(s)
    BY <2>1, <2>2, SendOnCurrentStep
  <2>3. CASE send' = [send EXCEPT ![s] = "failed"] /\ UNCHANGED <<sendOn, onopen>>
    <3>1. Made' = Made /\ Live' = Live /\ Shut' = Shut
      BY <2>1 DEF Made, Live, Shut
    <3>2. TypeOK'
      BY <2>1, <2>3, <3>1 DEF Inv, TypeOK, retrying
    <3>3. Numbered' /\ Counted'
      BY <2>1, <3>1, <3>2, CountedStays
    <3>4. RejectedShut' /\ SettledOnce'
      BY <2>1, <2>3, <3>1 DEF Inv, RejectedShut, SettledOnce, retrying
    <3> QED BY <3>2, <3>3, <3>4 DEF Inv
  <2> QED BY <1>7, <2>2, <2>3 DEF Resume, SendTimeout
<1>8. ASSUME NEW a \in Sockets, Open(a)
      PROVE  Inv'
  <2>1. /\ sock[a] = "connecting" /\ sock' = [sock EXCEPT ![a] = "open"]
        /\ UNCHANGED <<onopen, current, retrying, sendOn, asked>>
    BY <1>8 DEF Open
  <2>2. /\ sock' \in [Sockets -> States] /\ sock'[a] = "open"
        /\ \A b \in Sockets \ {a} : sock'[b] = sock[b]
    BY <2>1 DEF Inv, TypeOK, States
  <2>3. Made' = Made /\ Live' = Live /\ Shut' = Shut
    BY <2>1, <2>2 DEF Made, Live, Shut, Over
  <2>4. /\ startP' \in [Sockets -> Promises] /\ isStopped' \in BOOLEAN
        /\ send' \in [Sends -> Progress]
        /\ \A b \in Sockets \ {a} : startP'[b] = startP[b]
        /\ startP'[a] = "rejected" => startP[a] = "rejected"
        /\ onopen[a] = "start" => startP'[a] # "pending"
    BY <1>8 DEF Open, Settled, Inv, TypeOK, Promises, Progress
  <2>5. TypeOK'
    BY <2>1, <2>2, <2>3, <2>4 DEF Inv, TypeOK, States, Promises, Progress, retrying
  <2>6. Numbered' /\ Counted'
    BY <2>1, <2>3, <2>5, CountedStays
  <2>7. RejectedShut' /\ SettledOnce'
    BY <2>1, <2>2, <2>3, <2>4 DEF Inv, RejectedShut, SettledOnce, retrying, Made, Over
  <2> QED BY <2>5, <2>6, <2>7 DEF Inv
<1>9. ASSUME NEW a \in Sockets, ConnectFails(a) \/ Fault(a) \/ Close(a)
      PROVE  Inv'
  BY <1>9, CloseStep
<1>10. CASE UNCHANGED vars
  <2>1. Made' = Made /\ Live' = Live /\ Shut' = Shut
    BY <1>10 DEF vars, Made, Live, Shut
  <2>2. TypeOK'
    BY <1>10, <2>1 DEF vars, retrying, sending, Inv, TypeOK
  <2>3. Numbered' /\ Counted'
    BY <1>10, <2>1, <2>2, CountedStays DEF vars
  <2>4. RejectedShut' /\ SettledOnce'
    BY <1>10, <2>1 DEF vars, retrying, Inv, RejectedShut, SettledOnce
  <2> QED BY <2>2, <2>3, <2>4 DEF Inv
<1> QED
  BY <1>1, <1>2, <1>3, <1>4, <1>5, <1>6, <1>7, <1>8, <1>9, <1>10 DEF Next

LEMMA Invariance == Spec => []Inv
<1> QED BY InitInv, StepInv, PTL DEF Spec

-----------------------------------------------------------------------------
(* The values of the client's fields: socket, promise, retries, requests    *)
(* (WebSocketClient.ts:43-72).                                              *)
THEOREM TypeCorrect == Spec => []TypeOK
<1>1. Inv => TypeOK
  BY DEF Inv
<1> QED BY <1>1, Invariance, PTL

(* Whatever is lost, sent, stopped or started, retryConnect                 *)
(* (WebSocketClient.ts:88-125) makes no more than one series of             *)
(* connections that nobody asked for.                                       *)
THEOREM AttemptsAreBounded == Spec => []AttemptsBounded
<1> QED BY ConnectionsBounded, Invariance, PTL

(* The connections that are alive at once are at most the starts asked for, *)
(* although each retry replaces this.socket (WebSocketClient.ts:140)        *)
(* without a look at the one before.                                        *)
THEOREM NoUnaskedConnections == Spec => []ConnectionsAskedFor
<1> QED BY ConnectionsBounded, Invariance, PTL

(* A closed socket leaves no start waiting but the one that waits for the   *)
(* retries, however its error and close handlers (WebSocketClient.ts:153-   *)
(* 189) are ordered with stop and the retries.                              *)
THEOREM StartsSettle == Spec => []StartSettles
<1>1. Inv => StartSettles
  BY DEF Inv, SettledOnce, StartSettles
<1> QED BY <1>1, Invariance, PTL
=============================================================================
