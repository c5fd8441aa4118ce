----------------------------- MODULE Reoptimizer -----------------------------
(***************************************************************************)
(* Re-optimisation of the pairs' parameters: the requests of               *)
(* api/optimizer.py, AutoReoptimizer.run_now and run_loop                  *)
(* (backtest/auto_reoptimizer.py) and the grid search they await           *)
(* (backtest/param_grid_optimizer.py).                                     *)
(*                                                                         *)
(* A request only checks the flag; its background task sets it later.  The *)
(* weekly loop does not look at it.  Runs share one AutoReoptimizer and    *)
(* interleave while engines run in threads and while alerts are awaited.   *)
(* What the engine measures is a choice.                                   *)
(***************************************************************************)
EXTENDS Naturals, FiniteSets

CONSTANTS
  Manual,     \* requests for a run
  Scheduled,  \* runs of run_loop
  Pairs,
  None

VARIABLES
  flag,     \* _optimizer_state["running"]
  dry,      \* _dry_run
  phase,    \* of a run: "off", "accepted", "search", "judge", "done"
  found,    \* what a run's search found for a pair, None while it searches
  judged,   \* pairs run_now has come to
  config,   \* config/pairs/PAIR.json: the run whose parameters it holds, or None
  before,   \* history: config when a run began
  beside    \* history: the runs that a run ran beside

search  == <<found, judged, config>>
history == <<before, beside>>
vars    == <<flag, dry, phase, search, history>>

Runs    == Manual \cup Scheduled
Going   == {"search", "judge"}
Passed  == {"good", "weak"}       \* the walk-forward test; a weak one has a low Sharpe
Found   == Passed \cup {"unfit", "failed"}   \* overfit or degraded; the search raised
Nothing == [p \in Pairs |-> None]

Init ==
  /\ flag = FALSE /\ dry \in BOOLEAN
  /\ phase = [r \in Runs |-> "off"]
  /\ found = [r \in Runs |-> Nothing]
  /\ judged = [r \in Runs |-> {}]
  /\ config = Nothing
  /\ before = [r \in Runs |-> Nothing] /\ beside = [r \in Runs |-> {}]

-----------------------------------------------------------------------------
(* POST /run and the two ways into run_now. *)

Accept(r) ==
  /\ phase[r] = "off" /\ ~flag
  /\ phase' = [phase EXCEPT ![r] = "accepted"]
  /\ UNCHANGED <<flag, dry, search, history>>

Started(r) ==
  LET others == {q \in Runs : phase[q] \in Going} IN
  /\ phase' = [phase EXCEPT ![r] = "search"]
  /\ before' = [before EXCEPT ![r] = config]
  /\ beside' = [q \in Runs |-> IF q = r THEN others
                               ELSE IF q \in others THEN beside[q] \cup {r} ELSE beside[q]]
  /\ UNCHANGED search

\* _bg_run sets the flag and the fields of the reoptimizer; d is the request's dry_run.
Begin(r, d) ==
  /\ phase[r] = "accepted"
  /\ flag' = TRUE /\ dry' = d
  /\ Started(r)

Schedule(r) ==
  /\ phase[r] = "off"
  /\ \A q \in Scheduled : phase[q] \notin Going
  /\ Started(r)
  /\ UNCHANGED <<flag, dry>>

-----------------------------------------------------------------------------
(* _optimize_pair, _write_pair_config and _apply_params. *)

\* Mutant: the search writes what it found, whether it passed or not.
WriteFound(r, p, v) ==
  config' = IF v # "failed" THEN [config EXCEPT ![p] = r] ELSE config

\* The search writes what passed the test: it does not know of dry runs.
WriteIfPassed(r, p, v) ==
  config' = IF v \in Passed THEN [config EXCEPT ![p] = r] ELSE config

OptimizePair(r, p, v) ==
  /\ phase[r] = "search" /\ found[r][p] = None
  /\ found' = [found EXCEPT ![r][p] = v]
  /\ WriteIfPassed(r, p, v)
  /\ UNCHANGED <<flag, dry, phase, judged, history>>

-----------------------------------------------------------------------------
(* run_now after the search. *)

\* A pair whose search raised has no result to judge.
Searched(r) ==
  /\ phase[r] = "search" /\ \A p \in Pairs : found[r][p] # None
  /\ phase' = [phase EXCEPT ![r] = "judge"]
  /\ judged' = [judged EXCEPT ![r] = {p \in Pairs : found[r][p] = "failed"}]
  /\ UNCHANGED <<flag, dry, found, config, history>>

\* A pair is applied, unfit or unchanged (weak); _dry_run is read now.
Judge(r, p) ==
  /\ phase[r] = "judge" /\ p \notin judged[r]
  /\ judged' = [judged EXCEPT ![r] = @ \cup {p}]
  /\ config' = IF found[r][p] = "good" /\ ~dry THEN [config EXCEPT ![p] = r] ELSE config
  /\ UNCHANGED <<flag, dry, phase, found, history>>

\* The `finally` of _bg_run; run_loop has none.
Ended(r) ==
  /\ phase' = [phase EXCEPT ![r] = "done"]
  /\ flag' = IF r \in Manual THEN FALSE ELSE flag
  /\ found' = [found EXCEPT ![r] = Nothing] /\ judged' = [judged EXCEPT ![r] = {}]
  /\ UNCHANGED <<dry, config, history>>

Finish(r) == phase[r] = "judge" /\ judged[r] = Pairs /\ Ended(r)

\* A report or the history cannot be written.
Fail(r) == phase[r] \in Going /\ Ended(r)

-----------------------------------------------------------------------------
Next ==
  \/ \E r \in Manual : Accept(r) \/ \E d \in BOOLEAN : Begin(r, d)
  \/ \E r \in Scheduled : Schedule(r)
  \/ \E r \in Runs :
       \/ Searched(r) \/ Finish(r) \/ Fail(r)
       \/ \E p \in Pairs : Judge(r, p) \/ \E v \in Found : OptimizePair(r, p, v)

Spec == Init /\ [][Next]_vars

TypeOK ==
  /\ flag \in BOOLEAN /\ dry \in BOOLEAN
  /\ phase \in [Runs -> {"off", "accepted", "search", "judge", "done"}]
  /\ found \in [Runs -> [Pairs -> Found \cup {None}]]
  /\ judged \in [Runs -> SUBSET Pairs]
  /\ config \in [Pairs -> Runs \cup {None}]

\* What a run reports of a pair can only be belied by a run beside it: an applied pair
\* holds the run's parameters, an unfit one ("Parametrii actuali PASTRATI") and one whose
\* search raised what it held before, or what such a run has written since.
ReportIsTrue ==
  \A r \in Runs : phase[r] = "judge" => \A p \in judged[r] :
    /\ found[r][p] = "good" /\ ~dry => config[p] \in {r} \cup beside[r]
    /\ found[r][p] \in {"unfit", "failed"} => config[p] \in {before[r][p]} \cup beside[r]

\* A dry run simulates "fara a scrie config": the pairs keep their configurations, unless
\* a run beside it writes them.  (The search writes what passed, applied or unchanged.)
DryRunWritesNothing ==
  \A r \in Runs : phase[r] = "judge" /\ dry /\ beside[r] = {} => config = before[r]
=============================================================================
