----------------------------- MODULE TradingLoop -----------------------------
(***************************************************************************)
(* The live trading loop: BybitLiveRunner._run_loop takes a bar, asks      *)
(* DecisionEngine.decide, and has ActionExecutor.execute send the two legs *)
(* of the pair through BybitOrderRouter before it records the position in  *)
(* the OrderManager.                                                       *)
(*                                                                         *)
(* The loop is one task; what interleaves with it is the venue, stop() and *)
(* a cancellation of the task, which is delivered where the task awaits.   *)
(* place_order is a synchronous HTTP call, so an attempt and its answer    *)
(* are one step.  The receipt of an order is never looked at, so polling   *)
(* for it is only a wait.  dry_run (nothing is sent or recorded), alerts,  *)
(* and the branches no run of the loop reaches are left out: the circuit   *)
(* breaker stays closed, since the executor's CircuitBreaker.record_       *)
(* failure() is called on the class and its TypeError is dropped, and the  *)
(* funding gate stays open, since it has no monitor.                       *)
(***************************************************************************)
EXTENDS Integers

CONSTANTS
  Base,        \* base_qty, in quantity steps
  Ratios,      \* values of price_y / price_x
  MaxRetries,  \* _MAX_RETRIES of the router
  Lossy,       \* orders may be refused, their answers lost, or filled in part
  MaxNet,      \* bound: no action starts beyond this net quantity
  None         \* no position, no action

ASSUME LoopAssumption ==
  /\ Base \in Nat \ {0} /\ Ratios \subseteq Nat \ {0}
  /\ MaxRetries \in Nat \ {0}
  /\ Lossy \in BOOLEAN /\ MaxNet \in Nat
  /\ None \notin {"entry_long", "entry_short", "exit"}
  /\ None \notin [side : {"long", "short"}, y : Nat, x : Nat]

VARIABLES
  pc,       \* what the loop awaits: "bar", "pause", "send", "poll" or "ended"
  act,      \* the action ActionExecutor executes
  leg,      \* the leg whose order is being placed
  attempt,  \* attempt of _send_with_retry
  ratio,    \* price_y / price_x of the current bar
  rec,      \* OrderManager.current_position
  guarded,  \* ProfitGuard has the pair registered
  stop,     \* _stop_event
  net,      \* net quantity the loop's orders executed, per leg
  filled,   \* quantity executed by the attempts at the current order
  cancels,  \* cancellations of the task
  odd       \* history: "failed": an action gave up; "fault": an answer was lost,
            \* an order was cut short or the task cancelled in an action;
            \* "reentry", "unequal": entries on a position, of unequal legs

loopVars == <<act, leg, attempt, ratio>>
vars == <<pc, loopVars, rec, guarded, stop, net, filled, cancels, odd>>

Legs     == {"y", "x"}
Actions  == {"entry_long", "entry_short", "exit"}
Zones    == {"below", "above", "near", "between"}
Signals  == {"hold", "exit", "partial_exit"}
Troubles == {"failed", "fault"}
Position == [side : {"long", "short"}, y : Nat, x : Nat]

\* start() registers adopted positions with the ProfitGuard only.
Init ==
  /\ pc = "bar" /\ act = None /\ leg = "y" /\ attempt = 1 /\ ratio = 1
  /\ rec = None /\ guarded \in BOOLEAN /\ stop = FALSE
  /\ net = [l \in Legs |-> 0] /\ filled = 0 /\ cancels = 0
  /\ odd = {}

-----------------------------------------------------------------------------
\* Mutants: the exit trades in the direction of the entry; the loop ignores the
\* stop event; the stop event is looked at between the legs.
ExitDoubles ==
  CASE act = "entry_long"  -> 1
    [] act = "entry_short" -> -1
    [] OTHER               -> IF rec.side = "long" THEN 1 ELSE -1

NeverStops == pc' = "bar"

StopBetweenLegs ==
  /\ leg = "y"
  /\ pc' = IF stop THEN "ended" ELSE "send"
  /\ leg' = "x" /\ attempt' = 1 /\ filled' = 0
  /\ UNCHANGED <<act, ratio, rec>>

-----------------------------------------------------------------------------
(* Decision. *)

HasPosition == rec # None

\* DecisionEngine.decide; zone is where the z-score lies: at or beyond the entry
\* threshold on either side, within the exit threshold, or in between.
Decide(zone) ==
  CASE zone = "below" -> "entry_long"
    [] zone = "above" -> "entry_short"
    [] zone = "near" /\ HasPosition -> "exit"
    [] OTHER -> None

\* ProfitGuard.update, asked while there is a position: a full close also
\* unregisters the pair, before anything is closed.
GuardAnswers ==
  IF guarded /\ HasPosition THEN {"hold", "partial_exit", "exit"} ELSE {"hold"}

\* The guard's answer overrides the signal generator's, which overrides decide().
\* handle_partial_exit is called with arguments it does not have: TypeError, so a
\* partial exit becomes a full one.
Chosen(signal, answer, zone) ==
  IF signal # "hold" \/ answer # "hold" THEN "exit" ELSE Decide(zone)

\* An exit without a recorded position places no order.
PlacesOrders(a) == a # None /\ (a = "exit" => HasPosition)

-----------------------------------------------------------------------------
(* Orders of an action. *)

\* +1 when the Y leg buys: entries by their name, an exit against the record.
YSide ==
  CASE act = "entry_long"  -> 1
    [] act = "entry_short" -> -1
    [] OTHER               -> IF rec.side = "long" THEN -1 ELSE 1

SideOf(l) == IF l = "y" THEN YSide ELSE -YSide

QtyOf(l) ==
  CASE act = "exit" -> rec[l]
    [] OTHER        -> IF l = "y" THEN Base ELSE Base * ratio

Executes(q) == net' = [net EXCEPT ![leg] = @ + SideOf(leg) * q]

\* The loop tests the stop event before it waits for the next bar.
Again == pc' = IF stop THEN "ended" ELSE "bar"

Bounded == \A l \in Legs : net[l] \in -MaxNet .. MaxNet

-----------------------------------------------------------------------------
(* Steps of the loop. *)

\* get_bar returns a bar: all up to the first order is one step.
Bar(zone, signal, r) ==
  /\ pc = "bar"
  /\ \E answer \in GuardAnswers :
       LET a == Chosen(signal, answer, zone) IN
       /\ guarded' = (guarded /\ answer # "exit")
       /\ \/ /\ PlacesOrders(a) /\ Bounded
             /\ pc' = "send" /\ act' = a /\ leg' = "y" /\ attempt' = 1 /\ filled' = 0
             /\ ratio' = r
             /\ odd' = odd \cup (IF a # "exit" /\ HasPosition THEN {"reentry"} ELSE {})
                           \cup (IF a # "exit" /\ r # 1 THEN {"unequal"} ELSE {})
          \/ ~PlacesOrders(a) /\ Again /\ UNCHANGED <<loopVars, filled, odd>>
  /\ UNCHANGED <<rec, stop, net, cancels>>

\* get_bar returns None when none came in time; the loop sleeps 0.1 s.
NoBar ==
  /\ pc = "bar"
  /\ pc' = "pause"
  /\ UNCHANGED <<loopVars, rec, guarded, stop, net, filled, cancels, odd>>

Resume ==
  /\ pc = "pause"
  /\ Again
  /\ UNCHANGED <<loopVars, rec, guarded, stop, net, filled, cancels, odd>>

\* The venue accepts an order and executes it, or cancels part of it (IOC).
Accepted ==
  /\ pc = "send"
  /\ \E q \in 0 .. QtyOf(leg) :
       /\ q = QtyOf(leg) \/ Lossy
       /\ Executes(q)
       /\ filled' = filled + q
       /\ odd' = IF q = QtyOf(leg) THEN odd ELSE odd \cup {"fault"}
  /\ pc' = "poll"
  /\ UNCHANGED <<loopVars, rec, guarded, stop, cancels>>

\* _send_with_retry: the next attempt, or an exception that ends the action.
MayRetry == attempt < MaxRetries

GiveUp ==
  /\ Again
  /\ act' = None
  /\ UNCHANGED <<leg, attempt, ratio>>

RetryOrGiveUp(cause) ==
  \/ /\ MayRetry
     /\ attempt' = attempt + 1
     /\ odd' = odd \cup cause
     /\ UNCHANGED <<pc, act, leg, ratio>>
  \/ ~MayRetry /\ GiveUp /\ odd' = odd \cup cause \cup {"failed"}

\* The venue refuses the order, or the request does not reach it.
Refused ==
  /\ pc = "send" /\ Lossy
  /\ RetryOrGiveUp({})
  /\ UNCHANGED <<rec, guarded, stop, net, filled, cancels>>

\* The venue executes the order and the answer is lost: the attempt raises, and
\* the next one is a new order (no orderLinkId is sent).
AnswerLost ==
  /\ pc = "send" /\ Lossy
  /\ Executes(QtyOf(leg))
  /\ filled' = filled + QtyOf(leg)
  /\ RetryOrGiveUp({"fault"})
  /\ UNCHANGED <<rec, guarded, stop, cancels>>

\* record_entry_long, record_entry_short and record_exit.
Record ==
  rec' = CASE act = "entry_long"  -> [side |-> "long",  y |-> Base, x |-> Base]
           [] act = "entry_short" -> [side |-> "short", y |-> Base, x |-> Base]
           [] OTHER               -> None

\* _poll_fill returns, after the fill or its timeout, a receipt nobody reads: the
\* other leg's order follows, or the action is recorded.
NextLeg ==
  /\ leg = "y"
  /\ pc' = "send" /\ leg' = "x" /\ attempt' = 1 /\ filled' = 0
  /\ UNCHANGED <<act, ratio, rec>>

Complete ==
  /\ leg = "x"
  /\ Record
  /\ Again
  /\ act' = None
  /\ UNCHANGED <<leg, attempt, ratio, filled>>

PollDone ==
  /\ pc = "poll"
  /\ NextLeg \/ Complete
  /\ UNCHANGED <<guarded, stop, net, cancels, odd>>

-----------------------------------------------------------------------------
(* The outside. *)

\* runner.stop()
Stop ==
  /\ ~stop
  /\ stop' = TRUE
  /\ UNCHANGED <<pc, loopVars, rec, guarded, net, filled, cancels, odd>>

\* task.cancel(), once: the CancelledError is raised where the task awaits.  The
\* first attempt at an order follows the step before it without an await.
\* get_bar catches it and returns None; everywhere else it breaks the loop, and
\* the executor's "except Exception" does not see it.
InAction == pc = "poll" \/ (pc = "send" /\ attempt > 1)

Delivered ==
  \/ pc = "bar" /\ pc' = "pause" /\ UNCHANGED <<act, odd>>
  \/ pc = "pause" /\ pc' = "ended" /\ UNCHANGED <<act, odd>>
  \/ InAction /\ pc' = "ended" /\ act' = None /\ odd' = odd \cup {"fault"}

Cancel ==
  /\ cancels = 0
  /\ cancels' = 1
  /\ Delivered
  /\ UNCHANGED <<leg, attempt, ratio, rec, guarded, stop, net, filled>>

Ended == pc = "ended" /\ UNCHANGED vars

SomeBar == \E zone \in Zones, signal \in Signals, r \in Ratios : Bar(zone, signal, r)

Loop == SomeBar \/ NoBar \/ Resume \/ Accepted \/ Refused \/ AnswerLost \/ PollDone

Next == Loop \/ Stop \/ Cancel \/ Ended

Spec == Init /\ [][Next]_vars

\* get_bar returns within 30 s, every HTTP call returns, and sleeps end.
FairSpec == Spec /\ WF_vars(Loop)

-----------------------------------------------------------------------------
(* Properties. *)

\* Every variable keeps to the values the code can give it (type invariant).
TypeOK ==
  /\ pc \in {"bar", "pause", "send", "poll", "ended"}
  /\ act \in Actions \cup {None}
  /\ leg \in Legs /\ attempt \in 1 .. MaxRetries /\ ratio \in Ratios \cup {1}
  /\ rec \in Position \cup {None}
  /\ guarded \in BOOLEAN /\ stop \in BOOLEAN
  /\ net \in [Legs -> Int] /\ filled \in Nat /\ cancels \in 0 .. 1
  /\ odd \subseteq Troubles \cup {"reentry", "unequal"}

BetweenActions == pc \in {"bar", "pause", "ended"}

Held(l) ==
  IF rec = None THEN 0
  ELSE IF (rec.side = "long") = (l = "y") THEN rec[l] ELSE -rec[l]

\* Between actions the recorded position is what the loop's orders executed on both
\* legs, unless something went wrong, the position was entered twice, or the legs
\* were of unequal size: the executor's orders and the OrderManager's records agree.
RecordMatchesVenue == BetweenActions /\ odd = {} => \A l \in Legs : net[l] = Held(l)

\* The two legs cancel out between actions, however often the position is entered
\* again on top of a recorded one, unless an order or its answer failed, the task
\* was cancelled in an action, or the legs differ in size: a stop, a new bar or a
\* guard's exit never leaves one leg alone.
LegsHedge ==
  BetweenActions /\ odd \cap (Troubles \cup {"unequal"}) = {} => net["y"] + net["x"] = 0

\* Attempts whose answers are lost multiply an order, but never beyond MaxRetries
\* times its quantity (_send_with_retry).
OrderMultiplicity == ~BetweenActions => filled <= MaxRetries * QtyOf(leg)

\* stop() ends the loop: after the action in progress, or when no bar comes.
StopEnds == stop ~> pc = "ended"

\* FIX-2: when the second leg of an entry fails, the first one is closed again.
FailedEntryIsUndone ==
  BetweenActions /\ rec = None /\ odd \subseteq {"failed"} => net["y"] = 0
=============================================================================
