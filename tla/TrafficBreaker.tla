---------------------------- MODULE TrafficBreaker ----------------------------
(***************************************************************************)
(* The CircuitBreaker of core/bybit_traffic_controller.py: a window of     *)
(* recent errors that opens it, one half-open probe after a recovery time, *)
(* closed again by any success.  Its methods never await; the module that  *)
(* extends this one calls them from its own actions.                       *)
(***************************************************************************)
EXTENDS Naturals, Sequences

CONSTANTS
  Limit429,     \* cfg.cb_429_threshold
  LimitErrors,  \* cfg.cb_error_threshold
  Enabled,      \* cfg.circuit_breaker_enabled
  MayForce      \* force_open is called

ASSUME BreakerAssumption ==
  /\ Limit429 \in Nat \ {0} /\ LimitErrors \in Nat \ {0}
  /\ Limit429 <= LimitErrors
  /\ Enabled \in BOOLEAN /\ MayForce \in BOOLEAN

VARIABLES
  open,      \* _open
  half,      \* _half_open
  window,    \* codes of the errors of _error_times, the latest LimitErrors
  cooled,    \* cb_recovery_seconds have passed since _opened_at
  admitted   \* history: calls let through since the breaker opened

breakerVars == <<open, half, window, cooled, admitted>>

Codes == {"429", "other"}   \* 10006 and network errors count alike

BreakerInit ==
  /\ open = FALSE /\ half = FALSE /\ window = <<>> /\ cooled = TRUE
  /\ admitted = 0

\* The breaker's part of the type invariant.
BreakerTypeOK ==
  /\ open \in BOOLEAN /\ half \in BOOLEAN /\ cooled \in BOOLEAN
  /\ window \in Seq(Codes) /\ Len(window) <= LimitErrors
  /\ admitted \in Nat

Latest(w) == IF Len(w) > LimitErrors THEN Tail(w) ELSE w

Trips(w, code) == (code = "429" /\ Len(w) >= Limit429) \/ Len(w) >= LimitErrors

\* record_error: it opens a breaker that is neither open nor half-open, and does
\* nothing else, not even when the half-open probe is what failed.
RecordError(code) ==
  LET w     == Append(window, code)
      trips == ~open /\ ~half /\ Trips(w, code)
  IN /\ window'   = Latest(w)
     /\ open'     = (open \/ trips)
     /\ cooled'   = (cooled /\ ~trips)
     /\ admitted' = IF trips THEN 0 ELSE admitted
     /\ UNCHANGED half

OnSuccess ==
  /\ open' = FALSE /\ half' = FALSE /\ window' = <<>> /\ admitted' = 0
  /\ UNCHANGED cooled

\* Mutant: a probe in progress is not looked at.
MayProbeAgain == cooled

MayProbe == ~half /\ cooled

\* try_half_open, as request() calls it: TRUE when the call may go on.
Admit ==
  \/ ~(Enabled /\ open) /\ UNCHANGED breakerVars
  \/ /\ Enabled /\ open /\ MayProbe
     /\ half' = TRUE
     /\ admitted' = admitted + 1
     /\ UNCHANGED <<open, window, cooled>>

\* force_open does not set _opened_at.
ForceOpen ==
  /\ MayForce
  /\ open' = TRUE /\ half' = FALSE /\ admitted' = 0
  /\ UNCHANGED <<window, cooled>>

\* The clock: the oldest error leaves the window; the recovery time passes.
Forget == window # <<>> /\ window' = Tail(window)
          /\ UNCHANGED <<open, half, cooled, admitted>>

Cool == ~cooled /\ cooled' = TRUE
        /\ UNCHANGED <<open, half, window, admitted>>
=============================================================================
