----------------------------- MODULE PaperEngine -----------------------------
(***************************************************************************)
(* The simulated exchange behind /paper: PaperTradingEngine                *)
(* (execution/paper_engine.py), the requests of api/paper.py and the row   *)
(* "open_positions" of core/position_store.py.                             *)
(*                                                                         *)
(* An order waits out its latency, then fills on the event loop without an *)
(* await.  DELETE /reset is a plain function, which the server runs in a   *)
(* thread of its pool: it comes between any two statements of a fill.  A   *)
(* write of the row may fail.  What equity and trade list say is left out, *)
(* and of prices only whether an order was filled.                         *)
(***************************************************************************)
EXTENDS Integers

CONSTANTS
  Orders,     \* requests under way at a time
  Symbols,
  Quantities, \* of an order, positive
  MaxHeld,    \* bound on a position
  None

VARIABLES
  positions,  \* _positions: signed quantity, 0 when there is none
  row,        \* open_positions in the store
  at,         \* of an order: "off", "latency", "first", "second" (the save it has to do)
  copy,       \* what the save under way has serialised, or None
  resetting,  \* reset() has emptied the memory and not yet the store
  crossed     \* history: since the last change a write failed, or a reset and a fill met

vars == <<positions, row, at, copy, resetting, crossed>>

Flat == [s \in Symbols |-> 0]

Init ==
  /\ positions = Flat /\ row = Flat
  /\ at = [o \in Orders |-> "off"] /\ copy = None
  /\ resetting = FALSE /\ crossed = FALSE

Saving == \E o \in Orders : at[o] \in {"first", "second"}
Goes(o, l) == at' = [at EXCEPT ![o] = l]

-----------------------------------------------------------------------------
(* submit_order. *)

Submit(o) ==
  /\ at[o] = "off" /\ Goes(o, "latency")
  /\ UNCHANGED <<positions, row, copy, resetting, crossed>>

\* A limit order away from the market stays pending for good, a big market order may be
\* filled in part: neither touches the position.
NotFilled(o) ==
  /\ at[o] = "latency" /\ Goes(o, "off")
  /\ UNCHANGED <<positions, row, copy, resetting, crossed>>

Magnitude(q) == IF q < 0 THEN -q ELSE q
Adds(held, q) == held * q > 0

\* _update_position: average in, close, reduce or open.  What exceeds the position it
\* closes is lost, and reduce_only is not looked at.
Updated(held, q) ==
  IF held # 0 /\ ~Adds(held, q) /\ Magnitude(q) >= Magnitude(held) THEN 0 ELSE held + q

\* Averaging in saves once, the other changes twice.
Fill(o, s, q) ==
  /\ at[o] = "latency" /\ ~Saving
  /\ Magnitude(Updated(positions[s], q)) <= MaxHeld
  /\ positions' = [positions EXCEPT ![s] = Updated(@, q)]
  /\ Goes(o, IF Adds(positions[s], q) THEN "second" ELSE "first")
  /\ crossed' = resetting
  /\ UNCHANGED <<row, copy, resetting>>

\* _save_positions: the dictionary is copied, then written.
Serialise ==
  /\ Saving /\ copy = None
  /\ copy' = positions
  /\ UNCHANGED <<positions, row, at, resetting, crossed>>

\* An error ends the request; the position stays.
Write(o, written) ==
  /\ at[o] \in {"first", "second"} /\ copy # None
  /\ row' = IF written THEN copy ELSE row
  /\ copy' = None
  /\ Goes(o, IF written /\ at[o] = "first" THEN "second" ELSE "off")
  /\ crossed' = (crossed \/ ~written)
  /\ UNCHANGED <<positions, resetting>>

-----------------------------------------------------------------------------
(* reset and _load_positions. *)

Reset ==
  /\ ~resetting
  /\ positions' = Flat /\ resetting' = TRUE
  /\ crossed' = Saving
  /\ UNCHANGED <<row, at, copy>>

ClearedRow == Flat

Clear(written) ==
  /\ resetting /\ resetting' = FALSE
  /\ row' = IF written THEN ClearedRow ELSE row
  /\ crossed' = (crossed \/ ~written)
  /\ UNCHANGED <<positions, at, copy>>

Restart ==
  /\ positions' = row
  /\ at' = [o \in Orders |-> "off"] /\ copy' = None
  /\ resetting' = FALSE /\ crossed' = FALSE
  /\ UNCHANGED row

-----------------------------------------------------------------------------
Next ==
  \/ \E o \in Orders :
       \/ Submit(o) \/ NotFilled(o)
       \/ \E s \in Symbols, q \in Quantities : Fill(o, s, q) \/ Fill(o, s, -q)
       \/ \E written \in BOOLEAN : Write(o, written)
  \/ Serialise \/ Reset \/ Restart
  \/ \E written \in BOOLEAN : Clear(written)

Spec == Init /\ [][Next]_vars

TypeOK ==
  /\ positions \in [Symbols -> -MaxHeld .. MaxHeld]
  /\ row \in [Symbols -> -MaxHeld .. MaxHeld]
  /\ at \in [Orders -> {"off", "latency", "first", "second"}]
  /\ copy = None \/ copy \in [Symbols -> -MaxHeld .. MaxHeld]
  /\ resetting \in BOOLEAN /\ crossed \in BOOLEAN

\* Between requests a restart would load the positions that are held, an order's after a
\* reset it waited through and a position just reset among them, unless a write failed or
\* a reset came between the statements of a fill.
RestartKeepsPositions == ~Saving /\ ~resetting /\ ~crossed => row = positions
=============================================================================
