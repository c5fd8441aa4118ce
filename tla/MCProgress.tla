----------------------------- MODULE MCProgress -----------------------------
(***************************************************************************)
(* Model-checking instance for what must eventually happen: the shutdown   *)
(* of a process (Application), the watchdog's halt of a pair               *)
(* (PairSupervision), the reconnection of a silent feed (BarFeed) and the  *)
(* settlement of orders (OrderManager).  A behaviour runs the one chosen   *)
(* in `focus`; the others stay where they start, where nothing their       *)
(* fairness asks for is enabled.  Allocations play no part in what is      *)
(* asked of the pairs and are left at 0.  For the orders, either one is    *)
(* submitted and a user may cancel it, or two priced ones are, while no    *)
(* user cancels and the monitor is not stopped; as orders and ids are      *)
(* interchangeable, o1 is submitted first, under i1.                       *)
(***************************************************************************)
EXTENDS Naturals, FiniteSets

CONSTANTS m1, m2, k1, k2, r1, al, q1, w, c1, y, x, o1, o2, i1, i2, Monitor, None

VARIABLES
  focus,
  file, pc, pid, found, task, outcome, overlap, orphaned, early, refused,
  state, loop, current, halted, alloc, original, exposure, call, todo, watch,
  crossed, resized,
  feed, link, old, deads, fails, queue, holding, tokens, priced, caller,
  mode, status, kind, idOf, tracked, exid, waiting, abandoned, router, cancels, monPc,
  snapshot, cur, venue, aged, fills, closes, asked

A == INSTANCE Application WITH
       Processes <- {m1, m2}, Pids <- {k1, k2}, Tasks <- {r1, al}, Allocator <- al

S == INSTANCE PairSupervision WITH
       Pairs <- {q1}, Slots <- {1, 2}, Callers <- {w, c1}, Watchdog <- w, Full <- 0,
       MaxPairs <- 1

F == INSTANCE BarFeed WITH
       Legs <- {y, x}, MaxReconnects <- 1, Threshold <- 2, Room <- 1, AdapterRoom <- 1,
       loop <- feed

Live == [dry |-> FALSE, reuse |-> FALSE, quiet |-> FALSE]

O == INSTANCE OrderManager WITH
       Orders <- {o1, o2}, Ids <- {i1, i2}, Users <- {c1}, Modes <- {Live},
       call <- cancels, todo <- snapshot

application == <<file, pc, pid, found, task, outcome, overlap, orphaned, early, refused>>
supervision == <<state, loop, current, halted, alloc, original, exposure, call, todo, watch,
                 crossed, resized>>
barFeed == <<feed, link, old, deads, fails, queue, holding, tokens, priced, caller>>
orders == <<mode, status, kind, idOf, tracked, exid, waiting, abandoned, router, cancels,
            monPc, snapshot, cur, venue, aged, fills, closes, asked>>
vars == <<focus, application, supervision, barFeed, orders>>

Init ==
  /\ focus \in {"application", "supervision", "feed", "two orders", "a cancelled order"}
  /\ A!Init /\ S!Init /\ F!Init /\ O!Init

Next ==
  /\ UNCHANGED focus
  /\ \/ focus = "application" /\ A!Next /\ UNCHANGED <<supervision, barFeed, orders>>
     \/ focus = "supervision" /\ S!Next /\ UNCHANGED <<application, barFeed, orders>>
     \/ focus = "feed" /\ F!Next /\ UNCHANGED <<application, supervision, orders>>
     \/ /\ O!Next /\ UNCHANGED <<application, supervision, barFeed>>
        /\ tracked'[i1] # o2 /\ tracked'[i2] # o1
        /\ \/ focus = "a cancelled order" /\ tracked'[i2] = None
           \/ /\ focus = "two orders" /\ asked' = {}
              /\ tracked'[i1] = None => tracked'[i2] = None
              /\ \A o \in {o1, o2} : kind'[o] # "unpriced"
              /\ monPc = "off" \/ monPc' # "off"

Spec ==
  Init /\ [][Next]_vars /\ A!Fairness /\ S!Fairness /\ F!Fairness /\ O!Fairness

\* The properties of the parts, stated where they are defined.
StopEnds         == A!StopEnds
DrawdownHalts    == S!DrawdownHalts
SilenceIsNoticed == F!SilenceIsNoticed
OrdersSettle     == O!OrdersSettle
=============================================================================
