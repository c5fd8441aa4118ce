----------------------------- MODULE OrderManager -----------------------------
(***************************************************************************)
(* The order lifecycle tracker of execution/order_manager.py.              *)
(*                                                                         *)
(* Coroutines that interleave at their awaits: one submit() per order,     *)
(* cancel() calls of users, and the background monitor (_timeout_loop,     *)
(* _check_timeouts), which calls cancel() itself.  The asyncio lock is     *)
(* never held across an await, so a coroutine's code between two awaits is *)
(* one action.  The venue behind a router is external: it accepts an       *)
(* order, executes it, drops it on a cancel, and its answers may be lost.  *)
(*                                                                         *)
(* An order is the OrderRecord object of one submit() call; a local id is  *)
(* the key it is stored under, which the caller may choose (client_id).    *)
(* OrderStatus.PENDING is never observable (no await separates it from the *)
(* next status) and OrderStatus.PARTIALLY is never assigned.               *)
(***************************************************************************)
EXTENDS Naturals

CONSTANTS
  Orders,       \* OrderRecord objects, one per submit() call
  Ids,          \* local ids: keys of _orders
  Users,        \* tasks that may call cancel()
  Monitor,      \* the task running _timeout_loop
  None,         \* no order
  Modes         \* the deployments considered, see mode

ASSUME ConstantsAssumption ==
  /\ Monitor \notin Users
  /\ None \notin Orders
  /\ Ids # {}
  /\ Modes \subseteq [dry : BOOLEAN, reuse : BOOLEAN, quiet : BOOLEAN]

VARIABLES
  mode,     \* how this manager is deployed: dry is cfg.dry_run, reuse that callers
            \* may pass a client_id that is already a key, quiet that the router
            \* returns False for a failed cancel (Bybit) instead of raising (OKX)
  status,   \* OrderRecord.status; "NEW" before submit()
  kind,     \* request.order_type and price: "unpriced" is a limit without price
  idOf,     \* OrderRecord.local_id
  tracked,  \* _orders: local id -> record
  exid,     \* orders whose exchange_id is set
  waiting,  \* orders whose submit() awaits router.place_*
  abandoned, \* orders whose submit() was cancelled while it awaited it
  router,   \* a router is registered for the venue
  call,     \* cancel() calls awaiting router.cancel_order: caller -> order
  monPc,    \* the monitor: "off", "sleep", "walk" or "await"
  todo,     \* records of the monitor's snapshot not yet examined
  cur,      \* the record the monitor is timing out while it awaits
  venue,    \* what the venue did with the order
  aged,     \* orders older than the timeout of their type
  fills,    \* number of on_fill notifications of an order
  closes,   \* number of on_close notifications of an order
  asked     \* history: orders a user's cancel() found open

monVars  == <<monPc, todo, cur>>
recVars  == <<kind, idOf, tracked>>
conf     == <<mode, router>>
sends    == <<waiting, abandoned>>
vars == <<status, recVars, exid, sends, conf, call, monVars, venue, aged,
          fills, closes, asked>>

DryRun      == mode.dry
ReuseIds    == mode.reuse
QuietRouter == mode.quiet

Callers  == Users \cup {Monitor}
Kinds    == {"market", "limit", "unpriced"}
Terminal == {"FILLED", "CANCELLED", "FAILED", "TIMED_OUT"}
Statuses == {"NEW", "SUBMITTED"} \cup Terminal

Open(o) == status[o] = "SUBMITTED"

Init ==
  /\ mode \in Modes
  /\ status  = [o \in Orders |-> "NEW"]
  /\ kind    = [o \in Orders |-> "market"]
  /\ idOf    = [o \in Orders |-> CHOOSE i \in Ids : TRUE]  \* set by submit()
  /\ tracked = [i \in Ids |-> None]
  /\ exid = {} /\ waiting = {} /\ abandoned = {} /\ router = FALSE
  /\ call    = [c \in Callers |-> None]
  /\ monPc = "off" /\ todo = {} /\ cur = None
  /\ venue   = [o \in Orders |-> "unknown"]
  /\ aged = {} /\ asked = {}
  /\ fills   = [o \in Orders |-> 0]
  /\ closes  = [o \in Orders |-> 0]

-----------------------------------------------------------------------------
(* Status changes that notify: _notify_fill, _notify_close. *)

\* Mutants: on_fill is forgotten; on_close fires as well.
FillSilently(o) == status' = [status EXCEPT ![o] = "FILLED"] /\ UNCHANGED <<fills, closes>>
FillAndClose(o) ==
  /\ status' = [status EXCEPT ![o] = "FILLED"]
  /\ fills'  = [fills EXCEPT ![o] = @ + 1]
  /\ closes' = [closes EXCEPT ![o] = @ + 1]

Fill(o) ==
  /\ status' = [status EXCEPT ![o] = "FILLED"]
  /\ fills'  = [fills EXCEPT ![o] = @ + 1]
  /\ UNCHANGED closes

Close(o, st) ==
  /\ status' = [status EXCEPT ![o] = st]
  /\ closes' = [closes EXCEPT ![o] = @ + 1]
  /\ UNCHANGED fills

\* Mutant: the monitor forgets an order whose cancel failed.
MarkNothing(o) == UNCHANGED <<status, fills, closes>>

MarkTimedOut(o) == Close(o, "TIMED_OUT")

RegisterRouter ==
  /\ ~router
  /\ router' = TRUE
  /\ UNCHANGED <<mode, status, recVars, exid, sends, call, monVars, venue, aged,
                 fills, closes, asked>>

-----------------------------------------------------------------------------
(* submit(): up to its await, then what follows the router's answer. *)

Submit(o, id, k) ==
  /\ status[o] = "NEW"
  /\ ReuseIds \/ tracked[id] = None
  /\ kind'    = [kind EXCEPT ![o] = k]
  /\ idOf'    = [idOf EXCEPT ![o] = id]
  /\ tracked' = [tracked EXCEPT ![id] = o]
  /\ \/ /\ DryRun
        /\ Fill(o)
        /\ UNCHANGED waiting
     \/ /\ ~DryRun /\ ~router
        /\ Close(o, "FAILED")
        /\ UNCHANGED waiting
     \/ /\ ~DryRun /\ router
        /\ status'  = [status EXCEPT ![o] = "SUBMITTED"]
        /\ waiting' = waiting \cup {o}
        /\ UNCHANGED <<fills, closes>>
  /\ UNCHANGED <<abandoned, exid, conf, call, monVars, venue, aged, asked>>

\* Mutants: the exchange id is not stored; SUBMITTED is assigned after the await
\* instead of before it.
LearnNothing(o) == UNCHANGED exid
AcknowledgeLate(o) ==
  status' = [status EXCEPT ![o] = "SUBMITTED"] /\ UNCHANGED <<fills, closes>>

LearnId(o) == exid' = exid \cup {o}

Acknowledge(o) == UNCHANGED <<status, fills, closes>>

\* The router answered: a market order is taken for filled whatever its status
\* has become meanwhile, any other order keeps the status it has.
PlaceReply(o) ==
  /\ o \in waiting
  /\ venue[o] # "unknown"
  /\ waiting' = waiting \ {o}
  /\ LearnId(o)
  /\ \/ kind[o] = "market" /\ Fill(o)
     \/ kind[o] # "market" /\ Acknowledge(o)
  /\ UNCHANGED <<abandoned, recVars, conf, call, monVars, venue, aged, asked>>

\* The router raised: the order may have reached the venue or not.
PlaceError(o) ==
  /\ o \in waiting
  /\ waiting' = waiting \ {o}
  /\ Close(o, "FAILED")
  /\ UNCHANGED <<abandoned, recVars, exid, conf, call, monVars, venue, aged, asked>>

\* The task is cancelled at that await.  `except Exception` lets the CancelledError
\* through: the record stays SUBMITTED and will never learn its exchange id, while
\* the request may still reach the venue.
SubmitCancelled(o) ==
  /\ o \in waiting
  /\ waiting' = waiting \ {o}
  /\ abandoned' = abandoned \cup {o}
  /\ UNCHANGED <<status, recVars, exid, conf, call, monVars, venue, aged, fills,
                 closes, asked>>

-----------------------------------------------------------------------------
(* cancel(), called by a user or by the monitor on an open order: without an
   exchange id nothing is sent and the record is closed locally. *)

Local(o) == ~router \/ o \notin exid

UserCancel(u, id) ==
  LET o == tracked[id] IN
  /\ call[u] = None
  /\ o # None
  /\ Open(o)
  /\ asked' = asked \cup {o}
  /\ \/ /\ Local(o)
        /\ Close(o, "CANCELLED")
        /\ UNCHANGED call
     \/ /\ ~Local(o)
        /\ call' = [call EXCEPT ![u] = o]
        /\ UNCHANGED <<status, fills, closes>>
  /\ UNCHANGED <<recVars, exid, sends, conf, monVars, venue, aged>>

\* The monitor goes on with its walk once the cancel() it awaits returns.
CallReturns(c) ==
  /\ call' = [call EXCEPT ![c] = None]
  /\ \/ c # Monitor /\ UNCHANGED monVars
     \/ c = Monitor /\ monPc' = "walk" /\ cur' = None /\ UNCHANGED todo

CancelReply(c) ==
  LET o == call[c] IN
  /\ o # None
  /\ \/ venue[o] = "resting" /\ venue' = [venue EXCEPT ![o] = "gone"]
     \/ QuietRouter /\ UNCHANGED venue
  /\ Close(o, "CANCELLED")
  /\ CallReturns(c)
  /\ UNCHANGED <<recVars, exid, sends, conf, aged, asked>>

\* The router raised (the order may be gone all the same): cancel() returns
\* False, on which the monitor marks its record TIMED_OUT.  Or the task that called
\* cancel() was cancelled.
CancelError(c) ==
  LET o == call[c] IN
  /\ o # None
  /\ c = Monitor => ~QuietRouter
  /\ \/ UNCHANGED venue
     \/ venue[o] = "resting" /\ venue' = [venue EXCEPT ![o] = "gone"]
  /\ \/ c = Monitor /\ MarkTimedOut(cur)
     \/ c # Monitor /\ UNCHANGED <<status, fills, closes>>
  /\ CallReturns(c)
  /\ UNCHANGED <<recVars, exid, sends, conf, aged, asked>>

-----------------------------------------------------------------------------
(* The background monitor. *)

StartMonitor ==
  /\ monPc = "off"
  /\ monPc' = "sleep"
  /\ UNCHANGED <<status, recVars, exid, sends, conf, call, todo, cur, venue,
                 aged, fills, closes, asked>>

\* The task is cancelled at whatever await it is in; a cancel it had sent may
\* have reached the venue.
StopMonitor ==
  /\ monPc # "off"
  /\ monPc' = "off" /\ todo' = {} /\ cur' = None
  /\ call' = [call EXCEPT ![Monitor] = None]
  /\ \/ UNCHANGED venue
     \/ \E o \in Orders : /\ call[Monitor] = o
                          /\ venue[o] = "resting"
                          /\ venue' = [venue EXCEPT ![o] = "gone"]
  /\ UNCHANGED <<status, recVars, exid, sends, conf, aged, fills, closes,
                 asked>>

\* _check_timeouts takes its snapshot of the open records under the lock ...
MonitorWake ==
  /\ monPc = "sleep"
  /\ monPc' = "walk"
  /\ todo'  = {o \in Orders : Open(o) /\ tracked[idOf[o]] = o}
  /\ UNCHANGED <<status, recVars, exid, sends, conf, call, cur, venue, aged,
                 fills, closes, asked>>

\* Mutant: the age is not looked at.
AlwaysStale(o) == TRUE

Stale(o) == o \in aged

\* ... and examines it record by record, with awaits in between.  cancel() looks
\* the record up by local id, and refuses one that is no longer open.
MonitorCheck(o) ==
  LET t == tracked[idOf[o]] IN
  /\ monPc = "walk"
  /\ o \in todo
  /\ todo' = todo \ {o}
  /\ \/ /\ ~Stale(o)
        /\ UNCHANGED <<status, fills, closes, call, monPc, cur>>
     \/ /\ Stale(o) /\ Open(t) /\ Local(t)
        /\ Close(t, "CANCELLED")
        /\ UNCHANGED <<call, monPc, cur>>
     \/ /\ Stale(o) /\ Open(t) /\ ~Local(t)
        /\ call'  = [call EXCEPT ![Monitor] = t]
        /\ monPc' = "await"
        /\ cur'   = o
        /\ UNCHANGED <<status, fills, closes>>
     \/ /\ Stale(o) /\ ~Open(t)
        /\ MarkTimedOut(o)
        /\ UNCHANGED <<call, monPc, cur>>
  /\ UNCHANGED <<recVars, exid, sends, conf, venue, aged, asked>>

MonitorRest ==
  /\ monPc = "walk" /\ todo = {}
  /\ monPc' = "sleep"
  /\ UNCHANGED <<status, recVars, exid, sends, conf, call, todo, cur, venue,
                 aged, fills, closes, asked>>

-----------------------------------------------------------------------------
(* The venue and the clock. *)

VenueAccepts(o) ==
  /\ o \in waiting \cup abandoned
  /\ venue[o] = "unknown"
  /\ \/ kind[o] = "limit" /\ venue' = [venue EXCEPT ![o] = "resting"]
     \/ /\ kind[o] # "limit"             \* immediate-or-cancel
        /\ \E v \in {"executed", "gone"} : venue' = [venue EXCEPT ![o] = v]
  /\ UNCHANGED <<status, recVars, exid, sends, conf, call, monVars, aged,
                 fills, closes, asked>>

VenueExecutes(o) ==
  /\ venue[o] = "resting"
  /\ venue' = [venue EXCEPT ![o] = "executed"]
  /\ UNCHANGED <<status, recVars, exid, sends, conf, call, monVars, aged,
                 fills, closes, asked>>

Age(o) ==
  /\ status[o] # "NEW"
  /\ o \notin aged
  /\ aged' = aged \cup {o}
  /\ UNCHANGED <<status, recVars, exid, sends, conf, call, monVars, venue,
                 fills, closes, asked>>

-----------------------------------------------------------------------------
MonitorStep == MonitorWake \/ MonitorRest \/ \E o \in Orders : MonitorCheck(o)

Next ==
  \/ RegisterRouter
  \/ \E o \in Orders, id \in Ids, k \in Kinds : Submit(o, id, k)
  \/ \E o \in Orders : PlaceReply(o)
  \/ \E o \in Orders : PlaceError(o)
  \/ \E o \in Orders : SubmitCancelled(o)
  \/ \E u \in Users, id \in Ids : UserCancel(u, id)
  \/ \E c \in Callers : CancelReply(c)
  \/ \E c \in Callers : CancelError(c)
  \/ StartMonitor
  \/ StopMonitor
  \/ MonitorStep
  \/ \E o \in Orders : VenueAccepts(o)
  \/ \E o \in Orders : VenueExecutes(o)
  \/ \E o \in Orders : Age(o)

Spec == Init /\ [][Next]_vars

\* The event loop runs what is ready: the monitor's steps and, since every
\* router call is bounded by its own timeouts and retries, the return of its
\* cancel.  Orders age by the clock.  Nothing is assumed of users or the venue.
Fairness ==
  /\ WF_vars(MonitorStep)
  /\ \A o \in Orders : WF_vars(MonitorCheck(o)) /\ WF_vars(Age(o))
  /\ WF_vars(CancelReply(Monitor) \/ CancelError(Monitor))

-----------------------------------------------------------------------------
(* Properties. *)

\* Every variable keeps to the values the code can give it (type invariant).
TypeOK ==
  /\ mode \in Modes
  /\ status  \in [Orders -> Statuses]
  /\ kind    \in [Orders -> Kinds]
  /\ idOf    \in [Orders -> Ids]
  /\ tracked \in [Ids -> Orders \cup {None}]
  /\ exid \in SUBSET Orders
  /\ waiting \in SUBSET Orders /\ abandoned \in SUBSET Orders
  /\ router \in BOOLEAN
  /\ call \in [Callers -> Orders \cup {None}]
  /\ monPc \in {"off", "sleep", "walk", "await"}
  /\ todo \in SUBSET Orders /\ cur \in Orders \cup {None}
  /\ venue \in [Orders -> {"unknown", "resting", "executed", "gone"}]
  /\ aged \in SUBSET Orders /\ asked \in SUBSET Orders
  /\ fills \in [Orders -> Nat] /\ closes \in [Orders -> Nat]

\* An open order's exchange id, without which cancel() sends nothing, is known, unless
\* its placement is still awaited or the task awaiting it was cancelled (submit).
PlacementKnown == \A o \in Orders : Open(o) => o \in waiting \cup exid \cup abandoned

\* When callers never reuse a local id, cancel() and the monitor find an open order
\* under its own id.
FoundById == ~ReuseIds => \A o \in Orders : Open(o) => tracked[idOf[o]] = o

\* An order reported open can still be worked on, however placements, cancels and the
\* monitor interleave: it is found by its id, and its exchange id is missing only
\* while, or because, the answer to its placement was not received.
OpenIsReachable == PlacementKnown /\ FoundById

\* The record and the notifications agree: an order is settled exactly when a
\* callback was told of it, a FILLED one had its on_fill, and no order fires
\* on_fill twice, however its submit(), cancels and the monitor interleave.
Reported ==
  \A o \in Orders :
    /\ status[o] \in Terminal <=> fills[o] + closes[o] > 0
    /\ status[o] = "FILLED" => fills[o] = 1
    /\ fills[o] <= 1

\* When callers never reuse a local id, an order is CANCELLED or TIMED_OUT only
\* if it had outlived its timeout or a user asked for its cancel (the monitor's
\* cancel goes by local id and must find the record it judged stale).
CancelHasCause ==
  ~ReuseIds => \A o \in Orders :
    status[o] \in {"CANCELLED", "TIMED_OUT"} => o \in aged \cup asked

\* Both callbacks fire for one order (the strategy is told it filled and that it
\* did not) only if a cancel or the timeout monitor raced with its submit(); again
\* for callers that never reuse a local id.
ContradictionNeedsARace ==
  ~ReuseIds => \A o \in Orders :
    fills[o] > 0 /\ closes[o] > 0 => o \in aged \cup asked

\* The manager keeps the promise of OrderLedger: one settlement per order, with
\* its notification in the same step, and no way back to open.
Phase(o) == CASE status[o] = "NEW" -> "new"
              [] Open(o)           -> "open"
              [] OTHER             -> "settled"

Ledger == INSTANCE OrderLedger WITH phase <- [o \in Orders |-> Phase(o)]

LedgerSpec == Ledger!Spec

\* While the monitor keeps running, and ids are not reused, no order stays open for
\* ever: each is filled, cancelled or timed out (_timeout_loop), whatever the venue
\* does.
OrdersSettle ==
  ~ReuseIds /\ <>[](monPc # "off") => \A o \in Orders : Open(o) ~> ~Open(o)
=============================================================================
