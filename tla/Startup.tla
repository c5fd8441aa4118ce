------------------------------ MODULE Startup ------------------------------
(***************************************************************************)
(* The startup workflow: WorkflowOrchestrator.run_startup_workflow with    *)
(* the PositionScanner, ResumeManager and AdoptionEngine it runs in turn   *)
(* against the exchange, and the one row of PositionCheckpoint, which      *)
(* survives a restart.  The process can be restarted at any await, and the *)
(* positions of the account change under the workflow's feet.  Quantities  *)
(* are signed: negative is short.                                          *)
(***************************************************************************)
EXTENDS Integers, FiniteSets

CONSTANTS
  Symbols,    \* normalised symbols of the account
  MaxQty,     \* bound on a position
  Rows,       \* what the checkpoint may hold when the first startup begins
  NoRow,      \* load() returns None
  Failed,     \* _fetch_position returns None
  DiskFails,  \* SQLite may raise
  MaxStarts,  \* bound on the startups
  MaxMoves    \* bound on the changes other parties make to the account

Qty == -MaxQty..MaxQty
Row == [y : Symbols, x : Symbols, qy : Qty \ {0}, qx : Qty]
Decision == {"MONITOR_ONLY", "CLOSE_NOW", "ADOPT"}

ASSUME StartupAssumption ==
  /\ MaxQty \in Nat /\ MaxStarts \in Nat /\ MaxMoves \in Nat
  /\ DiskFails \in BOOLEAN
  /\ NoRow \notin Row /\ Rows \subseteq Row \cup {NoRow}
  /\ Failed \notin Int

VARIABLES
  ccxt,     \* the exchange given to the constructor is a ccxt one; without one the
            \* workflow builds a BybitOrderRouter (_build_shared_exchange)
  venue,    \* what the exchange holds, by symbol
  row,      \* the checkpoint's row
  pc,       \* phase of the workflow
  scanned,  \* the scan report has no scan_error
  orphans,  \* ctx.scan_report.orphans still to process
  readY,    \* real_y
  readX,    \* real_x
  resumed,  \* ctx.reconcile_result.position
  results,  \* ctx.adoption_results
  starts,   \* startups so far
  moves,    \* changes by other parties so far
  before,   \* history: the row when this startup began
  held,     \* history: the quantities each symbol had since then
  blind     \* history: this startup could not read the checkpoint when it had to

account == <<ccxt, venue, moves, held>>
memory  == <<scanned, orphans, readY, readX, resumed, results>>
process == <<pc, memory, starts, before, blind>>
vars    == <<account, row, process>>

Abs(q) == IF q < 0 THEN -q ELSE q

Legs(r) == IF r = NoRow THEN {} ELSE {r.y, r.x}

\* _within_tolerance, with the default qty_tolerance of 5 %.
Within(actual, expected) ==
  IF expected = 0 THEN actual = 0 ELSE 20 * Abs(actual - expected) <= expected

\* What _fetch_position can return, as the quantity its "contracts" gives: a ccxt
\* exchange raises on an error, the router answers with no position; and the
\* router's positions have a "size" but no "contracts".
Answers(s) == IF ccxt THEN {venue[s], Failed} ELSE {0}

Seen(answer) == IF answer = Failed THEN 0 ELSE Abs(answer)

\* An exchange position found by the scan, and the row save_open_single makes of it.
Position(s) == [sym |-> s, qty |-> venue[s]]
Single(o)   == [y |-> o.sym, x |-> o.sym, qy |-> o.qty, qx |-> 0]

Init ==
  /\ ccxt \in BOOLEAN
  /\ venue \in [Symbols -> Qty]
  /\ row \in Rows
  /\ pc = "health" /\ scanned = FALSE /\ orphans = {} /\ results = {}
  /\ readY = Failed /\ readX = Failed /\ resumed = NoRow
  /\ starts = 1 /\ moves = 0 /\ blind = FALSE
  /\ before = row /\ held = [s \in Symbols |-> {venue[s]}]

-----------------------------------------------------------------------------
\* Mutants: the scan knows only the first leg; only the first leg is compared.
KnownFirst(r) == IF r = NoRow THEN {} ELSE {r.y}
AgreesFirst(r, y, x) == Within(Seen(y), Abs(r.qy))

\* Symbols the checkpoint accounts for.
KnownSymbols(r) == Legs(r)

\* What load() can return.
Loaded == {row} \cup IF DiskFails THEN {NoRow} ELSE {}

\* What the row can be after a save of r, whose errors are only logged.
Saved(r) == {r} \cup IF DiskFails THEN {row} ELSE {}

Gone(y, x) == Seen(y) = 0 /\ Seen(x) = 0

Agrees(r, y, x) == Within(Seen(y), Abs(r.qy)) /\ Within(Seen(x), Abs(r.qx))

Halt == pc' = "halted" /\ UNCHANGED row

\* Mutant: the first orphan ends the loop.
FirstOnly(o) == orphans' = {}

Processed(o) == orphans' = orphans \ {o}

\* The position v after a reduce-only order for a position q, which is rejected
\* when the position has changed side.
Reduce(v, q) ==
  CASE v > 0 /\ q > 0 -> IF v > q THEN v - q ELSE 0
    [] v < 0 /\ q < 0 -> IF v < q THEN v - q ELSE 0
    [] OTHER -> v

-----------------------------------------------------------------------------
\* Phase 0: the health check, whose critical failures halt.
HealthPasses ==
  /\ pc = "health" /\ pc' = "scan"
  /\ UNCHANGED <<account, row, memory, starts, before, blind>>

HealthFails ==
  /\ pc = "health" /\ Halt
  /\ UNCHANGED <<account, memory, starts, before, blind>>

\* Phase 1: what the exchange holds and the checkpoint does not know is orphan; an
\* error leaves an empty report.
Scan ==
  /\ pc = "scan" /\ pc' = "load"
  /\ scanned' = TRUE
  /\ \E r \in Loaded :
       /\ orphans' = {Position(s) : s \in {t \in Symbols \ KnownSymbols(r) : venue[t] # 0}}
       /\ blind' = (r # row)
  /\ UNCHANGED <<account, row, readY, readX, resumed, results, starts, before>>

ScanFails ==
  /\ pc = "scan" /\ pc' = "load"
  /\ UNCHANGED <<account, row, memory, starts, before, blind>>

\* Phase 2: both legs of a saved row are fetched, one after the other.
NothingSaved ==
  /\ pc = "load" /\ NoRow \in Loaded /\ pc' = "adopt"
  /\ blind' = (blind \/ row # NoRow)
  /\ UNCHANGED <<account, row, memory, starts, before>>

FetchY ==
  /\ pc = "load" /\ row # NoRow /\ pc' = "fetchX"
  /\ readY' \in Answers(row.y)
  /\ UNCHANGED <<account, row, scanned, orphans, readX, resumed, results, starts, before, blind>>

FetchX ==
  /\ pc = "fetchX" /\ pc' = "decide"
  /\ readX' \in Answers(row.x)
  /\ UNCHANGED <<account, row, scanned, orphans, readY, resumed, results, starts, before, blind>>

Unverified == readY = Failed /\ readX = Failed

CannotVerify ==
  /\ pc = "decide" /\ Unverified /\ Halt
  /\ UNCHANGED <<account, memory, starts, before, blind>>

Vanished ==
  /\ pc = "decide" /\ ~Unverified /\ Gone(readY, readX)
  /\ row' \in Saved(NoRow) /\ pc' = "adopt"
  /\ UNCHANGED <<account, memory, starts, before, blind>>

Resume ==
  /\ pc = "decide" /\ ~Unverified /\ ~Gone(readY, readX) /\ Agrees(row, readY, readX)
  /\ resumed' = row /\ pc' = "adopt"
  /\ UNCHANGED <<account, row, scanned, orphans, readY, readX, results, starts, before, blind>>

Discrepancy ==
  /\ pc = "decide" /\ ~Unverified /\ ~Gone(readY, readX) /\ ~Agrees(row, readY, readX)
  /\ Halt
  /\ UNCHANGED <<account, memory, starts, before, blind>>

-----------------------------------------------------------------------------
\* Phase 3: each orphan of the report is left alone, closed or adopted, according
\* to prices that are not modelled; without a notional it is always left alone.
Decides(o, d) ==
  /\ pc = "adopt" /\ o \in orphans /\ Processed(o)
  /\ results' = results \cup {[sym |-> o.sym, qty |-> o.qty, decision |-> d]}
  /\ UNCHANGED <<pc, scanned, readY, readX, resumed, starts, before, blind>>

MonitorOrphan(o) == Decides(o, "MONITOR_ONLY") /\ UNCHANGED <<account, row>>

\* The order may fail before or after it took effect: the error is only logged.
CloseOrphan(o) ==
  /\ ccxt /\ Decides(o, "CLOSE_NOW")
  /\ \E q \in {venue[o.sym], Reduce(venue[o.sym], o.qty)} :
       /\ venue' = [venue EXCEPT ![o.sym] = q]
       /\ held' = [held EXCEPT ![o.sym] = @ \cup {q}]
  /\ UNCHANGED <<ccxt, moves, row>>

AdoptOrphan(o) ==
  /\ ccxt /\ Decides(o, "ADOPT")
  /\ row' \in Saved(Single(o))
  /\ UNCHANGED account

\* The checkpoint cannot be opened: the phase is skipped.
AdoptionFails ==
  /\ pc = "adopt" /\ DiskFails /\ orphans # {} /\ orphans' = {}
  /\ blind' = TRUE
  /\ UNCHANGED <<account, row, pc, scanned, readY, readX, resumed, results, starts, before>>

Complete ==
  /\ pc = "adopt" /\ orphans = {} /\ pc' = "done"
  /\ UNCHANGED <<account, row, memory, starts, before, blind>>

-----------------------------------------------------------------------------
\* The process dies or is stopped, at any await, and starts anew.
Restart ==
  /\ starts < MaxStarts /\ starts' = starts + 1
  /\ pc' = "health" /\ scanned' = FALSE /\ orphans' = {} /\ results' = {}
  /\ readY' = Failed /\ readX' = Failed /\ resumed' = NoRow
  /\ before' = row /\ held' = [s \in Symbols |-> {venue[s]}] /\ blind' = FALSE
  /\ UNCHANGED <<ccxt, venue, moves, row>>

\* A stop loss, a liquidation, the user or the runner changes a position.
OthersMove(s) ==
  /\ moves < MaxMoves /\ moves' = moves + 1
  /\ \E q \in Qty \ {venue[s]} :
       /\ venue' = [venue EXCEPT ![s] = q]
       /\ held' = [held EXCEPT ![s] = @ \cup {q}]
  /\ UNCHANGED <<ccxt, row, process>>

Reconcile ==
  NothingSaved \/ FetchY \/ FetchX \/ CannotVerify \/ Vanished \/ Resume \/ Discrepancy

Adopt ==
  \/ \E o \in orphans : MonitorOrphan(o) \/ CloseOrphan(o) \/ AdoptOrphan(o)
  \/ AdoptionFails
  \/ Complete

Workflow == HealthPasses \/ HealthFails \/ Scan \/ ScanFails \/ Reconcile \/ Adopt

Next == Workflow \/ Restart \/ \E s \in Symbols : OthersMove(s)

Spec == Init /\ [][Next]_vars

-----------------------------------------------------------------------------
(* Properties. *)

\* Every variable keeps to the values the code can give it (type invariant).
TypeOK ==
  /\ ccxt \in BOOLEAN /\ venue \in [Symbols -> Qty]
  /\ row \in Row \cup {NoRow} /\ before \in Row \cup {NoRow} /\ resumed \in Row \cup {NoRow}
  /\ pc \in {"health", "scan", "load", "fetchX", "decide", "adopt", "done", "halted"}
  /\ scanned \in BOOLEAN
  /\ orphans \subseteq [sym : Symbols, qty : Qty \ {0}]
  /\ readY \in Qty \cup {Failed} /\ readX \in Qty \cup {Failed}
  /\ results \subseteq [sym : Symbols, qty : Qty, decision : Decision]
  /\ starts \in Nat /\ moves \in Nat /\ blind \in BOOLEAN
  /\ held \in [Symbols -> SUBSET Qty]

\* A startup that ends in HALT has left everything to the operator: it has sent no
\* order, and the checkpoint is what it was when the startup began.
HaltedTouchesNothing == pc = "halted" => results = {} /\ row = before

\* No orphan processed by a startup is a leg of the row that was saved when it began,
\* or of the position it resumed: the workflow never closes, adopts or hands over
\* separately what it manages, as long as it can read the checkpoint.
NeverClosesItsOwn ==
  ~blind => \A r \in results : r.sym \notin Legs(before) \cup Legs(resumed)

\* The quantity q, up to the tolerance, was held at the exchange during this startup.
WasHeld(s, q) == \E h \in held[s] : Within(Abs(h), Abs(q))

\* What the bot believes it holds it did hold during this startup, however the
\* account moves between the scan, the two fetches and the adoption: each leg of the
\* resumed position, and each position processed or saved.
BeliefWasHeld ==
  /\ resumed # NoRow =>
       /\ WasHeld(resumed.y, resumed.qy)
       /\ resumed.qx # 0 => WasHeld(resumed.x, resumed.qx)
  /\ \A r \in results : r.qty \in held[r.sym]
  /\ row \notin {NoRow, before} => row.qy \in held[row.y]

\* When the workflow completes, every position outside the saved row that stayed as it
\* was throughout has been decided upon, whatever moved or failed meanwhile, unless the
\* checkpoint could not be read or the scan failed.
OrphansAreTreated ==
  pc = "done" /\ scanned /\ ~blind =>
    \A s \in Symbols \ Legs(before) :
      held[s] = {venue[s]} /\ venue[s] # 0 => \E r \in results : r.sym = s

\* Through the router, whose positions have no "contracts", no saved position is ever
\* resumed: reconcile_on_startup takes each for closed and erases its row.
RouterResumesNothing == ~ccxt => resumed = NoRow

=============================================================================
