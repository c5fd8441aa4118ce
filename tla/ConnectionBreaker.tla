-------------------------- MODULE ConnectionBreaker --------------------------
(***************************************************************************)
(* The asynchronous CircuitBreaker of execution/circuit_breaker.py, which  *)
(* concurrent calls enter and leave as a context manager.  Its lock is     *)
(* never held across an await, so entering and leaving are atomic; what    *)
(* the caller awaits in between is not: a call that entered in one state   *)
(* may leave in another.                                                   *)
(***************************************************************************)
EXTENDS Naturals, FiniteSets

CONSTANTS
  Tasks,      \* tasks that make guarded calls
  Threshold,  \* failure_threshold
  MaxHalf,    \* half_open_max_calls
  Manual      \* record_success, record_failure and reset are called

ASSUME BreakerAssumption ==
  /\ IsFiniteSet(Tasks)
  /\ Threshold \in Nat \ {0} /\ MaxHalf \in Nat \ {0}
  /\ Manual \in BOOLEAN

VARIABLES
  state,      \* _state
  failures,   \* _failures, up to Threshold: it is only compared with it
  halfCalls,  \* _half_calls
  elapsed,    \* recovery_timeout_s have passed since _last_opened
  inside,     \* tasks between __aenter__ and __aexit__
  probing     \* history: entered in the current half-open period

vars == <<state, failures, halfCalls, elapsed, inside, probing>>

Init ==
  /\ state = "closed" /\ failures = 0 /\ halfCalls = 0 /\ elapsed = TRUE
  /\ inside = {} /\ probing = {}

-----------------------------------------------------------------------------
\* Mutants: a success only clears the count; the threshold is off by one.
ClearCount == failures' = 0 /\ UNCHANGED <<state, probing>>
TripsEarly(n) == n + 1 >= Threshold

Closes == state' = "closed" /\ failures' = 0 /\ probing' = {}

Opens == state' = "open" /\ elapsed' = FALSE /\ probing' = {}

Trips(n) == n >= Threshold

SlotFree(n) == n < MaxHalf

Count == failures' = IF failures < Threshold THEN failures + 1 ELSE failures

\* __aenter__: an open circuit whose recovery time has passed turns half-open, and
\* a half-open one admits MaxHalf calls; any other call raises CircuitOpenError.
Probe(t, slots) ==
  /\ SlotFree(slots)
  /\ halfCalls' = slots + 1
  /\ state' = "half_open"

Enter(t) ==
  /\ t \notin inside
  /\ inside' = inside \cup {t}
  /\ \/ state = "closed" /\ UNCHANGED <<state, halfCalls, probing>>
     \/ state = "open" /\ elapsed /\ Probe(t, 0) /\ probing' = {t}
     \/ state = "half_open" /\ Probe(t, halfCalls) /\ probing' = probing \cup {t}
  /\ UNCHANGED <<failures, elapsed>>

Leave(t) ==
  /\ t \in inside
  /\ inside' = inside \ {t}
  /\ UNCHANGED halfCalls

\* __aexit__ without an exception closes the circuit, whatever its state.
ExitOk(t) ==
  /\ Leave(t)
  /\ Closes
  /\ UNCHANGED elapsed

\* __aexit__ with an exception, a cancellation included.
ExitError(t) ==
  /\ Leave(t)
  /\ Count
  /\ \/ (state = "half_open" \/ Trips(failures')) /\ Opens
     \/ ~(state = "half_open" \/ Trips(failures')) /\ UNCHANGED <<state, elapsed, probing>>

RecordSuccess ==
  /\ Manual
  /\ Closes
  /\ UNCHANGED <<halfCalls, elapsed, inside>>

RecordFailure ==
  /\ Manual
  /\ Count
  /\ \/ Trips(failures') /\ Opens
     \/ ~Trips(failures') /\ UNCHANGED <<state, elapsed, probing>>
  /\ UNCHANGED <<halfCalls, inside>>

\* reset() also forgets _last_opened, which is read in the open state only.
Reset ==
  /\ Manual
  /\ Closes
  /\ elapsed' = TRUE
  /\ UNCHANGED <<halfCalls, inside>>

Elapse ==
  /\ ~elapsed
  /\ elapsed' = TRUE
  /\ UNCHANGED <<state, failures, halfCalls, inside, probing>>

Next ==
  \/ \E t \in Tasks : Enter(t) \/ ExitOk(t) \/ ExitError(t)
  \/ RecordSuccess \/ RecordFailure \/ Reset \/ Elapse

Spec == Init /\ [][Next]_vars

-----------------------------------------------------------------------------
(* Properties. *)

\* Every variable keeps to the values the code can give it (type invariant).
TypeOK ==
  /\ state \in {"closed", "open", "half_open"}
  /\ failures \in 0 .. Threshold /\ halfCalls \in 0 .. MaxHalf
  /\ elapsed \in BOOLEAN
  /\ inside \in SUBSET Tasks /\ probing \in SUBSET Tasks

\* A half-open circuit always has a probe in progress whose end will close or open
\* it, and the slots taken are exactly the probes of this period: it cannot get
\* stuck refusing calls, although calls of earlier periods end meanwhile.
HalfOpenHasProbe ==
  state = "half_open" =>
    probing # {} /\ probing \subseteq inside /\ Cardinality(probing) = halfCalls

\* The circuit blocks calls only after Threshold failures without a success in
\* between (threshold and resets of __aexit__, record_failure and reset agree).
BlocksAfterFailures == state # "closed" => failures = Threshold
=============================================================================
