----------------------------- MODULE OrderLedger -----------------------------
(***************************************************************************)
(* What execution/order_manager.py promises of an order, whatever the      *)
(* interleaving of its coroutines: it is opened once, it settles once, the *)
(* step that settles it notifies exactly one callback list, and afterwards *)
(* it is never open again; later steps may only repeat on_close or add the *)
(* one on_fill that a router's late answer brings.                         *)
(***************************************************************************)
EXTENDS Naturals

CONSTANT Orders

VARIABLES
  phase,   \* "new", "open" or "settled"
  fills,   \* on_fill notifications
  closes   \* on_close notifications

vars == <<phase, fills, closes>>

Init ==
  /\ phase  = [o \in Orders |-> "new"]
  /\ fills  = [o \in Orders |-> 0]
  /\ closes = [o \in Orders |-> 0]

NotifyFill(o)  == fills'  = [fills EXCEPT ![o] = @ + 1]  /\ UNCHANGED closes
NotifyClose(o) == closes' = [closes EXCEPT ![o] = @ + 1] /\ UNCHANGED fills

Begin(o) ==
  /\ phase[o] = "new"
  /\ phase' = [phase EXCEPT ![o] = "open"]
  /\ UNCHANGED <<fills, closes>>

Settle(o) ==
  /\ phase[o] # "settled"
  /\ phase' = [phase EXCEPT ![o] = "settled"]
  /\ NotifyFill(o) \/ NotifyClose(o)

Repeat(o) ==
  /\ phase[o] = "settled"
  /\ \/ NotifyClose(o)
     \/ fills[o] = 0 /\ NotifyFill(o)
  /\ UNCHANGED phase

Next == \E o \in Orders : Begin(o) \/ Settle(o) \/ Repeat(o)

Spec == Init /\ [][Next]_vars
=============================================================================
