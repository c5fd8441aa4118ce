----------------------- MODULE TrafficControllerProofs -----------------------
(***************************************************************************)
(* Proofs about TrafficController, for any finite set of tasks, any keys   *)
(* and any limits of the bucket, the semaphore, the retries and the        *)
(* breaker.                                                                *)
(***************************************************************************)
EXTENDS TrafficController, FiniteSetTheorems, TLAPS

Holders == {t \in Tasks : pc[t] \in Holding}

FlightType ==
  /\ pc \in [Tasks -> {"idle", "wait"} \cup Leading]
  /\ call \in [Tasks -> Calls \cup {None}]
  /\ \A t \in Tasks : IF pc[t] = "idle" THEN call[t] = None ELSE call[t] \in Calls
  /\ inflight \in [Keys -> Tasks \cup {None}]

FlightInv == FlightType /\ OneFlightPerKey

PermitInv == permits \in 0 .. MaxConcurrent /\ PermitsConserved

RestType == cache \in SUBSET Keys /\ tokens \in 0 .. Burst /\ paused \in BOOLEAN

\* A probe is counted while half-open only: any other call past an open breaker finds
\* none counted.
BreakerInv == BreakerTypeOK /\ SingleProbe /\ (~half => admitted = 0)

Inv == FlightInv /\ PermitInv /\ RestType /\ BreakerInv

-----------------------------------------------------------------------------
(* The breaker. *)

\* An error keeps the breaker's invariant: it resets the count when it opens.
LEMMA ErrorKeeps ==
  ASSUME BreakerInv, NEW code \in Codes, RecordError(code)
  PROVE  BreakerInv'
<1> DEFINE w == Append(window, code)
<1>1. w \in Seq(Codes) /\ Len(w) = Len(window) + 1 /\ Len(window) <= LimitErrors
  BY DEF BreakerInv, BreakerTypeOK
<1>2. window' \in Seq(Codes) /\ Len(window') <= LimitErrors
  <2>1. CASE Len(w) > LimitErrors
    <3>1. window' = Tail(w) /\ w # <<>>
      BY <1>1, <2>1, BreakerAssumption DEF RecordError, Latest
    <3> QED
      BY <1>1, <3>1, BreakerAssumption
  <2>2. CASE ~(Len(w) > LimitErrors)
    <3>1. window' = w
      BY <2>2 DEF RecordError, Latest
    <3> QED
      BY <1>1, <2>2, <3>1, BreakerAssumption
  <2> QED
    BY <2>1, <2>2
<1>3. half' = half /\ open' \in BOOLEAN /\ cooled' \in BOOLEAN
  BY Zenon DEF BreakerInv, BreakerTypeOK, RecordError
<1>4. admitted' = admitted \/ admitted' = 0
  BY DEF RecordError
<1> QED
  BY <1>2, <1>3, <1>4 DEF BreakerInv, BreakerTypeOK, SingleProbe

\* So does a success.
LEMMA SuccessKeeps == ASSUME BreakerInv, OnSuccess PROVE BreakerInv'
<1>1. window' \in Seq(Codes) /\ Len(window') <= LimitErrors
  BY BreakerAssumption DEF OnSuccess
<1>2. open' = FALSE /\ half' = FALSE /\ cooled' = cooled /\ admitted' = 0
  BY DEF OnSuccess
<1>3. open' \in BOOLEAN /\ half' \in BOOLEAN /\ cooled' \in BOOLEAN
  BY <1>2, Zenon DEF BreakerInv, BreakerTypeOK
<1>4. admitted' \in Nat /\ admitted' <= 1
  BY <1>2
<1> QED
  BY <1>1, <1>2, <1>3, <1>4 DEF BreakerInv, BreakerTypeOK, SingleProbe

\* A call that is let through is the first, or the breaker is not open.
LEMMA AdmitKeeps == ASSUME BreakerInv, Admit PROVE BreakerInv'
<1>1. CASE UNCHANGED breakerVars
  BY <1>1 DEF BreakerInv, BreakerTypeOK, SingleProbe, breakerVars
<1>2. CASE MayProbe /\ half' = TRUE /\ admitted' = admitted + 1
           /\ UNCHANGED <<open, window, cooled>>
  BY <1>2 DEF BreakerInv, BreakerTypeOK, SingleProbe, MayProbe
<1> QED
  BY <1>1, <1>2 DEF Admit

\* The clock and force_open.
LEMMA ClockKeeps == ASSUME BreakerInv, Forget \/ Cool \/ ForceOpen PROVE BreakerInv'
<1>1. CASE Forget
  <2>1. window' \in Seq(Codes) /\ Len(window') <= LimitErrors
    BY <1>1, BreakerAssumption DEF Forget, BreakerInv, BreakerTypeOK
  <2> QED
    BY <1>1, <2>1 DEF Forget, BreakerInv, BreakerTypeOK, SingleProbe
<1>2. CASE Cool
  BY <1>2 DEF Cool, BreakerInv, BreakerTypeOK, SingleProbe
<1>3. CASE ForceOpen
  <2>1. /\ open' = TRUE /\ half' = FALSE /\ admitted' = 0
        /\ window' = window /\ cooled' = cooled
    BY <1>3 DEF ForceOpen
  <2>2. open' \in BOOLEAN /\ half' \in BOOLEAN /\ cooled' \in BOOLEAN
    BY <2>1, Zenon DEF BreakerInv, BreakerTypeOK
  <2>3. admitted' \in Nat /\ admitted' <= 1
    BY <2>1
  <2> QED
    BY <2>1, <2>2, <2>3 DEF BreakerInv, BreakerTypeOK, SingleProbe
<1> QED
  BY <1>1, <1>2, <1>3

-----------------------------------------------------------------------------
(* The semaphore. *)

\* Places are conserved by a step that takes none, takes one, or gives one back.
LEMMA PlacesStay ==
  ASSUME PermitInv, Holders' = Holders, permits' = permits
  PROVE  PermitInv'
  BY DEF PermitInv, PermitsConserved, Holders

\* Who takes a place takes a permit,
LEMMA PlaceTaken ==
  ASSUME PermitInv, permits > 0, permits' = permits - 1,
         NEW t \in Tasks, t \notin Holders, Holders' = Holders \cup {t}
  PROVE  PermitInv'
<1>1. IsFiniteSet(Holders)
  BY ControllerAssumption, FS_Subset DEF Holders
<1>2. Cardinality(Holders') = Cardinality(Holders) + 1 /\ Cardinality(Holders) \in Nat
  BY <1>1, FS_AddElement, FS_CardinalityType
<1>3. permits \in 0 .. MaxConcurrent /\ permits + Cardinality(Holders) = MaxConcurrent
  BY DEF PermitInv, PermitsConserved, Holders
<1>4. permits' \in 0 .. MaxConcurrent /\ permits' + Cardinality(Holders') = MaxConcurrent
  BY <1>2, <1>3, ControllerAssumption
<1> QED
  BY <1>4 DEF PermitInv, PermitsConserved, Holders

\* and who gives it back returns one.
LEMMA PlaceGivenBack ==
  ASSUME PermitInv, permits' = permits + 1,
         NEW t \in Tasks, t \in Holders, Holders' = Holders \ {t}
  PROVE  PermitInv'
<1>1. IsFiniteSet(Holders)
  BY ControllerAssumption, FS_Subset DEF Holders
<1>2. /\ Cardinality(Holders') = Cardinality(Holders) - 1
      /\ Cardinality(Holders) \in Nat /\ Cardinality(Holders') \in Nat
  BY <1>1, FS_RemoveElement, FS_CardinalityType, FS_Subset
<1>3. permits \in 0 .. MaxConcurrent /\ permits + Cardinality(Holders) = MaxConcurrent
  BY DEF PermitInv, PermitsConserved, Holders
<1>4. permits' \in 0 .. MaxConcurrent /\ permits' + Cardinality(Holders') = MaxConcurrent
  BY <1>2, <1>3, ControllerAssumption
<1> QED
  BY <1>4 DEF PermitInv, PermitsConserved, Holders

\* A task enters the semaphore at once or queues for it.
LEMMA EnterKeeps ==
  ASSUME FlightType, PermitInv, NEW t \in Tasks, t \notin Holders, Enter(t)
  PROVE  /\ PermitInv'
         /\ \E p \in {"run", "sem"} : pc' = [pc EXCEPT ![t] = p]
<1>1. CASE permits > 0 /\ permits' = permits - 1 /\ pc' = [pc EXCEPT ![t] = "run"]
  <2>1. Holders' = Holders \cup {t}
    BY <1>1 DEF FlightType, Holders, Holding
  <2> QED
    BY <1>1, <2>1, PlaceTaken
<1>2. CASE pc' = [pc EXCEPT ![t] = "sem"] /\ UNCHANGED permits
  <2>1. Holders' = Holders
    BY <1>2 DEF FlightType, Holders, Holding
  <2> QED
    BY <1>2, <2>1, PlacesStay
<1> QED
  BY <1>1, <1>2 DEF Enter

-----------------------------------------------------------------------------
(* Flights. *)

\* A task that changes where it awaits, within the call it has.
LEMMA MoveKeeps ==
  ASSUME FlightInv, NEW t \in Tasks, pc[t] \in Leading, NEW p \in Leading,
         pc' = [pc EXCEPT ![t] = p], UNCHANGED <<call, inflight>>
  PROVE  FlightInv'
<1>1. FlightType'
  BY DEF FlightInv, FlightType, Leading
<1>2. OneFlightPerKey'
  BY DEF FlightInv, FlightType, OneFlightPerKey
<1> QED
  BY <1>1, <1>2 DEF FlightInv

\* The tasks in ts return, and other tasks stay where they are.
LEMMA ReturnKeeps ==
  ASSUME FlightType, NEW ts \in SUBSET Tasks, Returning(ts),
         inflight' \in [Keys -> Tasks \cup {None}]
  PROVE  /\ FlightType'
         /\ \A s \in Tasks \ ts : pc'[s] = pc[s] /\ call'[s] = call[s]
         /\ \A s \in ts : pc'[s] = "idle"
<1>1. /\ pc' \in [Tasks -> {"idle", "wait"} \cup Leading]
      /\ call' \in [Tasks -> Calls \cup {None}]
  BY DEF FlightType, Returning
<1>2. \A s \in Tasks \ ts : pc'[s] = pc[s] /\ call'[s] = call[s]
  BY DEF FlightType, Returning
<1>3. \A s \in ts : pc'[s] = "idle" /\ call'[s] = None
  BY DEF FlightType, Returning
<1> QED
  BY <1>1, <1>2, <1>3 DEF FlightType

\* A leader ends its flight: no other task leads one of that key, and only the leader can
\* have held a place.
LEMMA WakeKeeps ==
  ASSUME FlightInv, NEW t \in Tasks, pc[t] \in Leading, Wake(t)
  PROVE  FlightInv' /\ Holders' = Holders \ {t}
<1> DEFINE ts == {t} \cup Waiters(call[t].key)
<1>1. call[t].key \in Keys
  BY DEF FlightInv, FlightType, Leading, Calls
<1>2. Returning(ts) /\ inflight' = [inflight EXCEPT ![call[t].key] = None]
  BY DEF Wake
<1>3. ts \in SUBSET Tasks
  BY DEF Waiters
<1>4. inflight' \in [Keys -> Tasks \cup {None}]
  BY <1>1, <1>2 DEF FlightInv, FlightType
<1> HIDE DEF ts
<1>5. /\ FlightType'
      /\ \A s \in Tasks \ ts : pc'[s] = pc[s] /\ call'[s] = call[s]
      /\ \A s \in ts : pc'[s] = "idle"
  BY <1>2, <1>3, <1>4, ReturnKeeps DEF FlightInv
<1>6. ASSUME NEW s \in Tasks, pc'[s] \in Leading PROVE inflight'[call'[s].key] = s
  <2>1. s \notin ts
    BY <1>5, <1>6 DEF Leading
  <2>2. pc[s] \in Leading /\ call'[s] = call[s] /\ s # t
    BY <1>5, <1>6, <2>1 DEF ts
  <2>3. inflight[call[s].key] = s /\ inflight[call[t].key] = t
    BY <2>2 DEF FlightInv, OneFlightPerKey
  <2>4. call[s].key \in Keys
    BY <2>2 DEF FlightInv, FlightType, Leading, Calls
  <2> QED
    BY <1>1, <1>2, <2>2, <2>3, <2>4 DEF FlightInv, FlightType
<1>7. \A s \in ts \ {t} : pc[s] \notin Holding
  BY DEF ts, Waiters, Holding
<1>8. \A s \in Tasks : s \in Holders' <=> s \in Holders \ {t}
  <2> SUFFICES ASSUME NEW s \in Tasks PROVE s \in Holders' <=> s \in Holders \ {t}
    OBVIOUS
  <2>1. CASE s \in ts
    BY <1>5, <1>7, <2>1 DEF Holders, Holding
  <2>2. CASE s \notin ts
    BY <1>5, <2>2 DEF Holders, ts
  <2> QED
    BY <2>1, <2>2
<1>9. Holders' = Holders \ {t}
  BY <1>8 DEF Holders
<1> QED
  BY <1>5, <1>6, <1>9 DEF FlightInv, OneFlightPerKey

-----------------------------------------------------------------------------
\* The executor loop ended: the place is given back, the flight is over.
LEMMA EndFlightKeeps ==
  ASSUME FlightInv, PermitInv, RestType, NEW t \in Tasks, pc[t] \in Holding,
         NEW got \in BOOLEAN, EndFlight(t, got)
  PROVE  FlightInv' /\ PermitInv' /\ cache' \in SUBSET Keys
<1>1. FlightInv' /\ Holders' = Holders \ {t}
  BY WakeKeeps DEF EndFlight, Holding, Leading
<1>2. permits' = permits + 1
  BY DEF EndFlight, Leave
<1>3. PermitInv'
  BY <1>1, <1>2, PlaceGivenBack DEF Holders
<1>4. call[t].key \in Keys
  BY DEF FlightInv, FlightType, Holding, Leading, Calls
<1>5. cache' \in SUBSET Keys
  BY <1>4 DEF EndFlight, RestType
<1> QED
  BY <1>1, <1>3, <1>5

\* The attempts that are left are at most those of a call.
LEMMA RetriesBounded ==
  /\ MaxRetries \in Nat
  /\ \A g \in Groups : Retries(g) \in 0 .. MaxRetries
  BY ControllerAssumption DEF MaxRetries, Retries

\* request() up to its first await.
LEMMA StartKeeps ==
  ASSUME Inv, NEW t \in Tasks, NEW k \in Keys, NEW g \in Groups, NEW c \in BOOLEAN,
         Start(t, k, g, c)
  PROVE  Inv'
<1> DEFINE new == [key |-> k, cached |-> c, left |-> Retries(g)]
<1>1. /\ pc[t] = "idle" /\ Admit /\ call' = [call EXCEPT ![t] = new]
      /\ JoinOrLead(t, k) /\ cache' = cache /\ paused' = paused
  BY DEF Start
<1>2. BreakerInv'
  BY <1>1, AdmitKeeps DEF Inv
<1>3. new \in Calls /\ new.key = k
  BY RetriesBounded DEF Calls
<1> HIDE DEF new
<1>4. /\ call' \in [Tasks -> Calls \cup {None}]
      /\ call'[t] = new /\ \A s \in Tasks \ {t} : call'[s] = call[s]
  BY <1>1, <1>3 DEF Inv, FlightInv, FlightType
<1>5. t \notin Holders
  BY <1>1 DEF Holders, Holding
<1>6. ASSUME NEW p \in {"wait"} \cup Leading, pc' = [pc EXCEPT ![t] = p],
             inflight' \in [Keys -> Tasks \cup {None}],
             p \in Leading => inflight'[k] = t,
             \A x \in Keys : inflight'[x] = inflight[x] \/ inflight[x] = None
      PROVE  FlightInv'
  <2>1. pc' \in [Tasks -> {"idle", "wait"} \cup Leading]
    BY <1>6 DEF Inv, FlightInv, FlightType, Leading
  <2>2. pc'[t] = p /\ p # "idle" /\ \A s \in Tasks \ {t} : pc'[s] = pc[s]
    BY <1>6 DEF Inv, FlightInv, FlightType, Leading
  <2>3. FlightType'
    BY <1>3, <1>4, <1>6, <2>1, <2>2 DEF Inv, FlightInv, FlightType
  <2>4. ASSUME NEW s \in Tasks, pc'[s] \in Leading PROVE inflight'[call'[s].key] = s
    <3>1. CASE s = t
      BY <1>3, <1>4, <1>6, <2>2, <2>4, <3>1
    <3>2. CASE s # t
      <4>1. pc[s] \in Leading /\ call'[s] = call[s]
        BY <1>4, <2>2, <2>4, <3>2
      <4>2. inflight[call[s].key] = s /\ call[s].key \in Keys
        BY <4>1 DEF Inv, FlightInv, FlightType, OneFlightPerKey, Leading, Calls
      <4> QED
        BY <1>6, <4>1, <4>2, ControllerAssumption
    <3> QED
      BY <3>1, <3>2
  <2> QED
    BY <2>3, <2>4 DEF FlightInv, OneFlightPerKey
<1>7. CASE pc' = [pc EXCEPT ![t] = "wait"] /\ UNCHANGED <<inflight, tokens, permits>>
  <2>1. Holders' = Holders
    BY <1>1, <1>7 DEF Inv, FlightInv, FlightType, Holders, Holding
  <2>2. FlightInv'
    BY <1>6, <1>7 DEF Inv, FlightInv, FlightType, Leading
  <2> QED
    BY <1>1, <1>2, <1>7, <2>1, <2>2, PlacesStay DEF Inv, RestType
<1>8. CASE /\ inflight[k] = None /\ inflight' = [inflight EXCEPT ![k] = t]
           /\ TakeToken(t)
  <2>1. /\ inflight' \in [Keys -> Tasks \cup {None}] /\ inflight'[k] = t
        /\ \A x \in Keys : inflight'[x] = inflight[x] \/ inflight[x] = None
    BY <1>8 DEF Inv, FlightInv, FlightType
  <2>2. CASE tokens > 0 /\ tokens' = tokens - 1 /\ Enter(t)
    <3>1. PermitInv' /\ \E p \in {"run", "sem"} : pc' = [pc EXCEPT ![t] = p]
      BY <1>5, <2>2, EnterKeeps DEF Inv, FlightInv
    <3>2. FlightInv'
      BY <1>6, <2>1, <3>1 DEF Leading
    <3>3. tokens' \in 0 .. Burst
      BY <2>2, ControllerAssumption DEF Inv, RestType
    <3> QED
      BY <1>1, <1>2, <3>1, <3>2, <3>3 DEF Inv, RestType
  <2>3. CASE pc' = [pc EXCEPT ![t] = "bucket"] /\ UNCHANGED <<tokens, permits>>
    <3>1. Holders' = Holders
      BY <1>1, <2>3 DEF Inv, FlightInv, FlightType, Holders, Holding
    <3>2. FlightInv'
      BY <1>6, <2>1, <2>3 DEF Leading
    <3> QED
      BY <1>1, <1>2, <2>3, <3>1, <3>2, PlacesStay DEF Inv, RestType
  <2> QED
    BY <1>8, <2>2, <2>3 DEF TakeToken
<1> QED
  BY <1>1, <1>7, <1>8 DEF JoinOrLead

\* A leader in the bucket takes a token, or gives up.
LEMMA BucketKeeps ==
  ASSUME Inv, NEW t \in Tasks, PollBucket(t) \/ RateLimited(t)
  PROVE  Inv'
<1>1. pc[t] = "bucket" /\ t \notin Holders /\ pc[t] \in Leading
  BY DEF PollBucket, RateLimited, Holders, Holding, Leading
<1>2. BreakerInv'
  BY DEF PollBucket, RateLimited, Inv, BreakerInv, BreakerTypeOK, SingleProbe, breakerVars
<1>3. CASE PollBucket(t)
  <2>1. PermitInv' /\ \E p \in {"run", "sem"} : pc' = [pc EXCEPT ![t] = p]
    BY <1>1, <1>3, EnterKeeps DEF PollBucket, Inv, FlightInv
  <2>2. FlightInv'
    BY <1>1, <1>3, <2>1, MoveKeeps DEF PollBucket, Inv, Leading
  <2>3. RestType'
    BY <1>3, ControllerAssumption DEF PollBucket, Inv, RestType
  <2> QED
    BY <1>2, <2>1, <2>2, <2>3 DEF Inv
<1>4. CASE RateLimited(t)
  <2>1. FlightInv' /\ Holders' = Holders
    BY <1>1, <1>4, WakeKeeps DEF RateLimited, Inv
  <2>2. PermitInv'
    BY <1>4, <2>1, PlacesStay DEF RateLimited, Inv
  <2>3. RestType'
    BY <1>4 DEF RateLimited, Inv, RestType
  <2> QED
    BY <1>2, <2>1, <2>2, <2>3 DEF Inv
<1> QED
  BY <1>3, <1>4

\* The first of the queue gets a place; a sleep before a retry ends in the place it has.
LEMMA ResumeKeeps ==
  ASSUME Inv, NEW t \in Tasks, GetPermit(t) \/ Retry(t)
  PROVE  Inv'
<1>1. /\ pc' = [pc EXCEPT ![t] = "run"] /\ pc[t] \in {"sem", "retry"}
      /\ UNCHANGED <<call, inflight, cache, tokens, paused>>
  BY DEF GetPermit, Retry
<1>2. BreakerInv' /\ RestType'
  BY <1>1 DEF GetPermit, Retry, Inv, BreakerInv, BreakerTypeOK, SingleProbe, breakerVars, RestType
<1>3. FlightInv'
  BY <1>1, MoveKeeps DEF Inv, Leading
<1>4. CASE GetPermit(t)
  <2>1. Holders' = Holders \cup {t} /\ t \notin Holders
    BY <1>4 DEF GetPermit, Inv, FlightInv, FlightType, Holders, Holding
  <2> QED
    BY <1>2, <1>3, <1>4, <2>1, PlaceTaken DEF GetPermit, Inv
<1>5. CASE Retry(t)
  <2>1. Holders' = Holders
    BY <1>5 DEF Retry, Inv, FlightInv, FlightType, Holders, Holding
  <2> QED
    BY <1>2, <1>3, <1>5, <2>1, PlacesStay DEF Retry, Inv
<1> QED
  BY <1>4, <1>5

\* The executor succeeds or fails, with attempts left or not.
LEMMA AnswerKeeps ==
  ASSUME Inv, NEW t \in Tasks, Answer(t)
  PROVE  Inv'
<1>1. ASSUME NEW got \in BOOLEAN, Succeed(t, got) PROVE Inv'
  <2>1. BreakerInv'
    BY <1>1, SuccessKeeps DEF Succeed, Inv
  <2>2. FlightInv' /\ PermitInv' /\ cache' \in SUBSET Keys
    BY <1>1, EndFlightKeeps DEF Succeed, Inv, Holding
  <2> QED
    BY <1>1, <2>1, <2>2 DEF Succeed, Inv, RestType
<1>2. ASSUME NEW code \in Codes, Fail(t, code) PROVE Inv'
  <2>1. BreakerInv'
    BY <1>2, ErrorKeeps DEF Fail, Inv
  <2>2. CASE call[t].left = 0 /\ EndFlight(t, FALSE)
    <3>1. FlightInv' /\ PermitInv' /\ cache' \in SUBSET Keys
      BY <1>2, <2>2, EndFlightKeeps DEF Fail, Inv, Holding
    <3> QED
      BY <1>2, <2>1, <3>1 DEF Fail, Inv, RestType
  <2>3. CASE /\ call[t].left > 0 /\ call' = [call EXCEPT ![t].left = @ - 1]
             /\ pc' = [pc EXCEPT ![t] = "retry"]
             /\ UNCHANGED <<inflight, cache, permits>>
    <3>1. call[t] \in Calls /\ pc[t] = "run"
      BY <1>2 DEF Fail, Inv, FlightInv, FlightType
    <3> DEFINE next == [call[t] EXCEPT !.left = @ - 1]
    <3>2. next \in Calls /\ next.key = call[t].key
      BY <2>3, <3>1, RetriesBounded DEF Calls
    <3>3. call' = [call EXCEPT ![t] = next]
      BY <2>3
    <3> HIDE DEF next
    <3>4. FlightType'
      BY <2>3, <3>2, <3>3 DEF Inv, FlightInv, FlightType, Leading
    <3>5. OneFlightPerKey'
      BY <2>3, <3>1, <3>2, <3>3 DEF Inv, FlightInv, FlightType, OneFlightPerKey, Leading
    <3>6. Holders' = Holders
      BY <2>3, <3>1 DEF Inv, FlightInv, FlightType, Holders, Holding
    <3>7. PermitInv'
      BY <2>3, <3>6, PlacesStay DEF Inv
    <3> QED
      BY <1>2, <2>1, <2>3, <3>4, <3>5, <3>7 DEF Fail, Inv, FlightInv, RestType
  <2> QED
    BY <1>2, <2>2, <2>3 DEF Fail
<1> QED
  BY <1>1, <1>2 DEF Answer

\* A cancelled task leaves its flight behind unless it was inside the semaphore.
LEMMA CancelKeeps ==
  ASSUME Inv, NEW t \in Tasks, Cancelled(t)
  PROVE  Inv'
<1>1. BreakerInv' /\ RestType'
  BY DEF Cancelled, Inv, BreakerInv, BreakerTypeOK, SingleProbe, breakerVars, RestType
<1>2. CASE /\ pc[t] \in {"wait", "bucket", "sem"} /\ Returning({t})
           /\ UNCHANGED <<inflight, cache, permits>>
  <2>1. /\ FlightType'
        /\ \A s \in Tasks \ {t} : pc'[s] = pc[s] /\ call'[s] = call[s]
        /\ pc'[t] = "idle"
    BY <1>2, ReturnKeeps DEF Inv, FlightInv, FlightType
  <2>2. OneFlightPerKey'
    BY <1>2, <2>1 DEF Inv, FlightInv, OneFlightPerKey, Leading
  <2>3. Holders' = Holders
    BY <1>2, <2>1 DEF Holders, Holding
  <2> QED
    BY <1>1, <1>2, <2>1, <2>2, <2>3, PlacesStay DEF Inv, FlightInv
<1>3. CASE pc[t] \in Holding /\ permits' = permits + 1 /\ Wake(t)
  <2>1. FlightInv' /\ Holders' = Holders \ {t}
    BY <1>3, WakeKeeps DEF Inv, Holding, Leading
  <2>2. PermitInv'
    BY <1>3, <2>1, PlaceGivenBack DEF Inv, Holders
  <2> QED
    BY <1>1, <2>1, <2>2 DEF Inv
<1> QED
  BY <1>2, <1>3 DEF Cancelled

\* Time and operators.
LEMMA TickKeeps == ASSUME Inv, Tick PROVE Inv'
<1>1. FlightInv' /\ PermitInv'
  BY DEF Tick, Inv, FlightInv, FlightType, OneFlightPerKey, PermitInv, PermitsConserved
<1>2. CASE (Forget \/ Cool \/ ForceOpen) /\ UNCHANGED <<tokens, cache, paused>>
  BY <1>1, <1>2, ClockKeeps DEF Inv, RestType
<1>3. CASE tokens < Burst /\ tokens' = tokens + 1 /\ UNCHANGED <<breakerVars, cache, paused>>
  <2>1. BreakerInv'
    BY <1>3 DEF Inv, BreakerInv, BreakerTypeOK, SingleProbe, breakerVars
  <2>2. RestType'
    BY <1>3, ControllerAssumption DEF Inv, RestType
  <2> QED
    BY <1>1, <2>1, <2>2 DEF Inv
<1>4. CASE \E k \in cache : /\ cache' = cache \ {k}
                           /\ UNCHANGED <<breakerVars, tokens, paused>>
  BY <1>1, <1>4 DEF Inv, RestType, BreakerInv, BreakerTypeOK, SingleProbe, breakerVars
<1>5. CASE paused' = ~paused /\ UNCHANGED <<breakerVars, tokens, cache>>
  BY <1>1, <1>5 DEF Inv, RestType, BreakerInv, BreakerTypeOK, SingleProbe, breakerVars
<1> QED
  BY <1>2, <1>3, <1>4, <1>5 DEF Tick, Environment

-----------------------------------------------------------------------------
\* The initial state satisfies the invariant.
LEMMA InitInv == Init => Inv
<1> SUFFICES ASSUME Init PROVE Inv
  OBVIOUS
<1>1. FlightInv
  BY DEF Init, FlightInv, FlightType, OneFlightPerKey, Leading
<1>2. PermitInv
  <2>1. {t \in Tasks : pc[t] \in Holding} = {}
    BY DEF Init, Holding
  <2>2. permits = MaxConcurrent /\ permits \in 0 .. MaxConcurrent
    BY ControllerAssumption DEF Init
  <2>3. permits + 0 = MaxConcurrent
    BY <2>2, ControllerAssumption
  <2> QED
    BY <2>1, <2>2, <2>3, FS_EmptySet DEF PermitInv, PermitsConserved
<1>3. RestType
  <2>1. tokens \in 0 .. Burst
    BY ControllerAssumption DEF Init
  <2>2. cache \in SUBSET Keys /\ paused \in BOOLEAN
    BY Zenon DEF Init
  <2> QED
    BY <2>1, <2>2 DEF RestType
<1>4. BreakerInv
  <2>1. window \in Seq(Codes) /\ Len(window) <= LimitErrors
    BY BreakerAssumption DEF Init, BreakerInit
  <2>2. admitted \in Nat /\ admitted <= 1 /\ admitted = 0
    BY DEF Init, BreakerInit
  <2> QED
    BY <2>1, <2>2 DEF Init, BreakerInit, BreakerInv, BreakerTypeOK, SingleProbe
<1> QED
  BY <1>1, <1>2, <1>3, <1>4 DEF Inv

\* Every step keeps the invariant.
LEMMA NextInv == Inv /\ [Next]_vars => Inv'
<1> SUFFICES ASSUME Inv, [Next]_vars PROVE Inv'
  OBVIOUS
<1>1. ASSUME NEW t \in Tasks, NEW k \in Keys, NEW g \in Groups, NEW c \in BOOLEAN,
             Start(t, k, g, c)
      PROVE  Inv'
  BY <1>1, StartKeeps
<1>2. ASSUME NEW t \in Tasks, PollBucket(t) \/ RateLimited(t) PROVE Inv'
  BY <1>2, BucketKeeps
<1>3. ASSUME NEW t \in Tasks, GetPermit(t) \/ Retry(t) PROVE Inv'
  BY <1>3, ResumeKeeps
<1>4. ASSUME NEW t \in Tasks, Answer(t) PROVE Inv'
  BY <1>4, AnswerKeeps
<1>5. ASSUME NEW t \in Tasks, Cancelled(t) PROVE Inv'
  BY <1>5, CancelKeeps
<1>6. CASE Tick
  BY <1>6, TickKeeps
<1>7. CASE UNCHANGED vars
  BY <1>7 DEF vars, breakerVars, Inv, FlightInv, FlightType, OneFlightPerKey, PermitInv,
              PermitsConserved, RestType, BreakerInv, BreakerTypeOK, SingleProbe
<1> QED
  BY <1>1, <1>2, <1>3, <1>4, <1>5, <1>6, <1>7 DEF Next

\* The invariant holds in every reachable state.
LEMMA Invariance == Spec => []Inv
  BY InitInv, NextInv, PTL DEF Spec

-----------------------------------------------------------------------------
\* The controller's and the breaker's variables keep their types
\* (BybitTrafficController.__init__).
THEOREM TypeCorrect == Spec => []TypeOK
<1>1. Inv => TypeOK
  BY DEF Inv, FlightInv, FlightType, PermitInv, RestType, BreakerInv, TypeOK
<1> QED
  BY <1>1, Invariance, PTL

\* Singleflight: no key ever has two leaders (BybitTrafficController.request).
THEOREM Singleflight == Spec => []OneFlightPerKey
<1>1. Inv => OneFlightPerKey
  BY DEF Inv, FlightInv
<1> QED
  BY <1>1, Invariance, PTL

\* The places of the semaphore are all held or free
\* (BybitTrafficController.request, async with self._semaphore).
THEOREM PlacesConserved == Spec => []PermitsConserved
<1>1. Inv => PermitsConserved
  BY DEF Inv, PermitInv
<1> QED
  BY <1>1, Invariance, PTL

\* One probe at most passes an open breaker (CircuitBreaker.try_half_open).
THEOREM OneProbe == Spec => []SingleProbe
<1>1. Inv => SingleProbe
  BY DEF Inv, BreakerInv
<1> QED
  BY <1>1, Invariance, PTL

-----------------------------------------------------------------------------
(* Who waits is led.                                                       *)

\* A flight in the table is somebody's, and a key that is waited for is in the table.
LedInv ==
  /\ \A k \in Keys : inflight[k] # None =>
       pc[inflight[k]] \in Leading /\ call[inflight[k]].key = k
  /\ \A t \in Tasks : pc[t] = "wait" => inflight[call[t].key] # None

\* A call joins a flight that is led, or leads.
LEMMA StartLed ==
  ASSUME FlightInv, LedInv, NEW t \in Tasks, NEW k \in Keys, NEW g \in Groups,
         NEW c \in BOOLEAN, Start(t, k, g, c)
  PROVE  LedInv'
<1>1. /\ pc[t] = "idle" /\ call'[t].key = k
      /\ \A s \in Tasks \ {t} : call'[s] = call[s]
  BY DEF Start, FlightInv, FlightType
<1>2. \A x \in Keys : inflight[x] # None => inflight[x] \in Tasks \ {t}
  BY <1>1 DEF LedInv, FlightInv, FlightType, Leading
<1>3. \A s \in Tasks : pc[s] = "wait" => call[s].key \in Keys
  BY DEF FlightInv, FlightType, Calls
<1>4. CASE inflight[k] # None /\ pc' = [pc EXCEPT ![t] = "wait"] /\ UNCHANGED inflight
  <2>1. pc'[t] = "wait" /\ \A s \in Tasks \ {t} : pc'[s] = pc[s]
    BY <1>4 DEF FlightInv, FlightType
  <2> QED BY <1>1, <1>2, <1>4, <2>1 DEF LedInv
<1>5. CASE inflight[k] = None /\ inflight' = [inflight EXCEPT ![k] = t] /\ TakeToken(t)
  <2>1. pc'[t] \in Leading /\ pc'[t] # "wait" /\ \A s \in Tasks \ {t} : pc'[s] = pc[s]
    BY <1>5 DEF TakeToken, Enter, FlightInv, FlightType, Leading
  <2>2. inflight'[k] = t /\ \A x \in Keys \ {k} : inflight'[x] = inflight[x]
    BY <1>5 DEF FlightInv, FlightType
  <2>3. t # None
    BY ControllerAssumption
  <2> QED BY <1>1, <1>2, <1>3, <2>1, <2>2, <2>3 DEF LedInv
<1> QED BY <1>4, <1>5 DEF Start, JoinOrLead

\* A leader goes on leading,
LEMMA MoveLed ==
  ASSUME FlightInv, LedInv, NEW t \in Tasks, pc[t] \in Leading, NEW p \in Leading,
         pc' = [pc EXCEPT ![t] = p], UNCHANGED inflight,
         \A s \in Tasks : pc[s] # "idle" => call'[s].key = call[s].key
  PROVE  LedInv'
<1>1. /\ pc'[t] \in Leading /\ pc'[t] # "wait" /\ \A s \in Tasks \ {t} : pc'[s] = pc[s]
  BY DEF FlightInv, FlightType, Leading
<1>2. \A x \in Keys : inflight[x] # None => inflight[x] \in Tasks /\ pc[inflight[x]] # "idle"
  BY DEF LedInv, FlightInv, FlightType, Leading
<1> QED BY <1>1, <1>2 DEF LedInv

\* or takes all who wait with it.
LEMMA WakeLed ==
  ASSUME FlightInv, LedInv, NEW t \in Tasks, pc[t] \in Leading, Wake(t)
  PROVE  LedInv'
<1> DEFINE k == call[t].key
           ts == {t} \cup Waiters(k)
<1>1. /\ Returning(ts) /\ inflight' = [inflight EXCEPT ![k] = None] /\ ts \in SUBSET Tasks
      /\ k \in Keys
  BY DEF Wake, Waiters, FlightInv, FlightType, Calls, Leading
<1>2. /\ \A s \in Tasks \ ts : pc'[s] = pc[s] /\ call'[s] = call[s]
      /\ \A s \in ts : pc'[s] = "idle"
  BY <1>1 DEF Returning
<1>3. inflight'[k] = None /\ \A x \in Keys \ {k} : inflight'[x] = inflight[x]
  BY <1>1 DEF FlightInv, FlightType
<1>4. ASSUME NEW x \in Keys, inflight'[x] # None
      PROVE  pc'[inflight'[x]] \in Leading /\ call'[inflight'[x]].key = x
  <2>1. x # k /\ inflight'[x] = inflight[x] /\ inflight[x] \in Tasks
    BY <1>3, <1>4 DEF FlightInv, FlightType
  <2>2. pc[inflight[x]] \in Leading /\ call[inflight[x]].key = x
    BY <1>4, <2>1 DEF LedInv
  <2>3. inflight[x] \notin ts
    BY <2>1, <2>2 DEF Waiters, Leading
  <2> QED BY <1>2, <2>1, <2>2, <2>3
<1>5. ASSUME NEW s \in Tasks, pc'[s] = "wait" PROVE inflight'[call'[s].key] # None
  <2>1. s \notin ts /\ pc[s] = "wait" /\ call'[s] = call[s]
    BY <1>2, <1>5
  <2>2. call[s].key # k /\ call[s].key \in Keys
    BY <2>1 DEF Waiters, FlightInv, FlightType, Calls
  <2> QED BY <1>3, <2>1, <2>2 DEF LedInv
<1> QED BY <1>4, <1>5 DEF LedInv

\* Without cancellation every step keeps it.
LEMMA LedStep == ASSUME ~MayCancel, FlightInv, LedInv, [Next]_vars PROVE LedInv'
<1>1. ASSUME NEW t \in Tasks, NEW k \in Keys, NEW g \in Groups, NEW c \in BOOLEAN,
             Start(t, k, g, c)
      PROVE  LedInv'
  BY <1>1, StartLed
<1>2. ASSUME NEW t \in Tasks, PollBucket(t) \/ GetPermit(t) \/ Retry(t) PROVE LedInv'
  <2>1. pc[t] \in Leading /\ UNCHANGED <<call, inflight>>
    BY <1>2 DEF PollBucket, GetPermit, Retry, Leading
  <2>2. \E p \in Leading : pc' = [pc EXCEPT ![t] = p]
    BY <1>2 DEF PollBucket, GetPermit, Retry, Enter, Leading
  <2> QED BY <2>1, <2>2, MoveLed
<1>3. ASSUME NEW t \in Tasks, RateLimited(t) PROVE LedInv'
  BY <1>3, WakeLed DEF RateLimited, Leading
<1>4. ASSUME NEW t \in Tasks, NEW got \in BOOLEAN, pc[t] = "run", EndFlight(t, got) PROVE LedInv'
  BY <1>4, WakeLed DEF EndFlight, Leading
<1>5. ASSUME NEW t \in Tasks, Answer(t) PROVE LedInv'
  <2>1. ASSUME NEW got \in BOOLEAN, Succeed(t, got) PROVE LedInv'
    BY <1>4, <2>1 DEF Succeed
  <2>2. ASSUME NEW code \in Codes, Fail(t, code) PROVE LedInv'
    <3>1. CASE call[t].left = 0 /\ EndFlight(t, FALSE)
      BY <1>4, <2>2, <3>1 DEF Fail
    <3>2. CASE /\ call' = [call EXCEPT ![t].left = @ - 1]
               /\ pc' = [pc EXCEPT ![t] = "retry"] /\ UNCHANGED inflight
      <4>1. pc[t] = "run" /\ call[t] \in Calls
        BY <2>2 DEF Fail, FlightInv, FlightType
      <4>2. \A s \in Tasks : call'[s].key = call[s].key
        BY <3>2, <4>1 DEF FlightInv, FlightType, Calls
      <4> QED BY <3>2, <4>1, <4>2, MoveLed DEF Leading
    <3> QED BY <2>2, <3>1, <3>2 DEF Fail
  <2> QED BY <1>5, <2>1, <2>2 DEF Answer
<1>6. CASE Tick \/ UNCHANGED vars
  BY <1>6 DEF Tick, vars, LedInv
<1> QED BY <1>1, <1>2, <1>3, <1>5, <1>6 DEF Next, Cancelled

\* Unless tasks are cancelled, who waits for a flight waits for one that a task is at:
\* the cancellation of a leader is the only way to the waiters nobody wakes
\* (BybitTrafficController.request).
THEOREM WaitersAreLed == ~MayCancel => (Spec => []WaiterHasLeader)
<1> SUFFICES ASSUME ~MayCancel PROVE Spec => []WaiterHasLeader
  OBVIOUS
<1>1. Init => LedInv
  BY DEF Init, LedInv
<1>2. Inv /\ LedInv /\ [Next]_vars => LedInv'
  BY LedStep DEF Inv
<1>3. Inv /\ LedInv => WaiterHasLeader
  <2>1. ASSUME Inv, LedInv, NEW t \in Tasks, pc[t] = "wait"
        PROVE  \E l \in Tasks : /\ inflight[call[t].key] = l
                                /\ pc[l] \in Leading /\ call[l].key = call[t].key
    <3>1. call[t].key \in Keys /\ inflight[call[t].key] # None
      BY <2>1 DEF Inv, FlightInv, FlightType, Calls, LedInv
    <3> QED BY <2>1, <3>1 DEF Inv, FlightInv, FlightType, LedInv
  <2> QED BY <2>1 DEF WaiterHasLeader
<1> QED BY <1>1, <1>2, <1>3, Invariance, PTL DEF Spec

\* A task that resumes by itself: its sleep or its executor ends, or there is a place for it.
Resumes(t) == pc[t] \in {"bucket", "run", "retry"} \/ (pc[t] = "sem" /\ permits > 0)

SomebodyResumes == (\E t \in Tasks : pc[t] # "idle") => \E t \in Tasks : Resumes(t)

\* Nor do all calls wait for each other, in flights and for places of the semaphore, as
\* long as none is cancelled: the safety half of CallsReturn
\* (BybitTrafficController.request).
THEOREM CallsDoNotDeadlock == ~MayCancel => (Spec => []SomebodyResumes)
<1> SUFFICES ASSUME ~MayCancel PROVE Spec => []SomebodyResumes
  OBVIOUS
<1>1. ASSUME Inv, WaiterHasLeader, NEW t \in Tasks, pc[t] # "idle"
      PROVE  \E s \in Tasks : Resumes(s)
  <2>1. PICK l \in Tasks : pc[l] \in Leading
    BY <1>1 DEF Inv, FlightInv, FlightType, WaiterHasLeader
  <2>2. CASE pc[l] = "sem" /\ permits = 0
    <3>1. Cardinality(Holders) = MaxConcurrent
      BY <1>1, <2>2, FS_Subset, FS_CardinalityType, ControllerAssumption
      DEF Inv, PermitInv, PermitsConserved, Holders
    <3>2. Holders # {}
      BY <3>1, FS_EmptySet, ControllerAssumption
    <3> QED BY <3>2 DEF Holders, Holding, Resumes
  <2>3. CASE ~(pc[l] = "sem" /\ permits = 0)
    <3>1. permits \in Nat
      BY <1>1, ControllerAssumption DEF Inv, PermitInv
    <3> QED BY <2>1, <2>3, <3>1 DEF Leading, Resumes
  <2> QED BY <2>2, <2>3
<1>2. Inv /\ WaiterHasLeader => SomebodyResumes
  BY <1>1 DEF SomebodyResumes
<1> QED BY <1>2, Invariance, WaitersAreLed, PTL
=============================================================================
