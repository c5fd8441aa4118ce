--------------------------- MODULE TradingLoopProofs ---------------------------
(***************************************************************************)
(* TradingLoop's safety, for every quantity, price ratio and number of     *)
(* attempts.  Between actions RecordMatchesVenue and LegsHedge say nothing *)
(* of the leg in flight; the inductive invariant adds what each leg has    *)
(* executed at each point of an action (Book, Balance), that an action's   *)
(* quantities are those of the record or of the entry, and how much the    *)
(* attempts made so far can have executed (Attempts).                      *)
(***************************************************************************)
EXTENDS TradingLoop, TLAPS

Entries == {"entry_long", "entry_short"}

\* An action is being executed exactly while one of its orders is placed, and it
\* is an exit only of a recorded position.
Acting ==
  /\ act # None <=> pc \in {"send", "poll"}
  /\ act = "exit" => rec # None

\* Recorded legs have the base quantity; an entry onto a recorded position, and one
\* with legs of different size, is remembered.
Quantities ==
  /\ rec # None => rec.y = Base /\ rec.x = Base
  /\ act \in Entries /\ "reentry" \notin odd => rec = None
  /\ act \in Entries /\ "unequal" \notin odd => ratio = 1

\* What the order of one leg moves, when it is executed in full and legs are equal.
Move == IF YSide = 1 THEN Base ELSE -Base

YDone == act # None /\ (pc = "poll" \/ leg = "x")
XDone == act # None /\ pc = "poll" /\ leg = "x"

Balance ==
  odd \cap (Troubles \cup {"unequal"}) = {} =>
    net["y"] + net["x"] = IF YDone /\ ~XDone THEN Move ELSE 0

Book ==
  odd = {} =>
    /\ net["y"] = Held("y") + IF YDone THEN Move ELSE 0
    /\ net["x"] = Held("x") - IF XDone THEN Move ELSE 0

Attempts ==
  act # None =>
    filled <= IF pc = "poll" THEN attempt * QtyOf(leg)
              ELSE IF attempt = 1 THEN 0 ELSE (attempt - 1) * QtyOf(leg)

Safe == Quantities /\ Balance /\ Book /\ Attempts

-----------------------------------------------------------------------------
(* Arithmetic, and what the operators return. *)

\* What one more executed attempt adds to the bound on what an action executed.
LEMMA OneMoreAttempt ==
  ASSUME NEW a \in Int, NEW q \in Int
  PROVE  (a - 1) * q + q = a * q
  BY Z3

\* A bound for fewer attempts is within the bound for more.
LEMMA FewerAttempts ==
  ASSUME NEW a \in Int, NEW m \in Int, NEW q \in Nat, a <= m
  PROVE  a * q <= m * q
  BY Z3

\* A number of attempts of a quantity is a quantity.
LEMMA ProductIsNat ==
  ASSUME NEW a \in Nat, NEW b \in Nat
  PROVE  a * b \in Nat
  BY Z3

\* The Y leg is bought or sold.
LEMMA SideIsSign == YSide \in {1, -1}
  BY DEF YSide

\* What an execution of q on leg l adds to its net quantity.
LEMMA SideTimes ==
  ASSUME NEW l \in Legs, NEW q \in Int
  PROVE  SideOf(l) * q = IF (YSide = 1) = (l = "y") THEN q ELSE -q
  <1>1. CASE YSide = 1 /\ l = "y"  BY <1>1 DEF SideOf
  <1>2. CASE YSide = 1 /\ l # "y"  BY <1>2 DEF SideOf
  <1>3. CASE YSide = -1 /\ l = "y"  BY <1>3 DEF SideOf
  <1>4. CASE YSide = -1 /\ l # "y"  BY <1>4 DEF SideOf
  <1> QED  BY <1>1, <1>2, <1>3, <1>4, SideIsSign

\* The quantity of a leg of an action in progress is a quantity.
LEMMA QtyIsNat ==
  ASSUME TypeOK, act # None, act = "exit" => rec # None, NEW l \in Legs
  PROVE  QtyOf(l) \in Nat
  <1>1. CASE act = "exit"
    <2>1. rec \in Position  BY <1>1 DEF TypeOK
    <2> QED  BY <1>1, <2>1 DEF QtyOf, Position, Legs
  <1>2. CASE act # "exit"
    <2>1. ratio \in Nat  BY LoopAssumption DEF TypeOK
    <2>2. Base * ratio \in Nat  BY <2>1, ProductIsNat, LoopAssumption
    <2> QED  BY <1>2, <2>2, LoopAssumption DEF QtyOf
  <1> QED  BY <1>1, <1>2

\* With a recorded position of the base quantity on both legs and equal legs, every
\* order is of the base quantity.
LEMMA EqualQuantities ==
  ASSUME TypeOK, Acting, Quantities, act # None, "unequal" \notin odd, NEW l \in Legs
  PROVE  QtyOf(l) = Base
  <1>1. CASE act = "exit"  BY <1>1 DEF QtyOf, Acting, Quantities, Legs
  <1>2. CASE act # "exit"
    <2>1. act \in Entries  BY <1>2 DEF TypeOK, Actions, Entries
    <2>2. ratio = 1  BY <2>1 DEF Quantities
    <2> QED  BY <1>2, <2>2, LoopAssumption DEF QtyOf
  <1> QED  BY <1>1, <1>2

-----------------------------------------------------------------------------
(* Type correctness. *)

TypeInv == TypeOK /\ Acting

\* Every step keeps the variables in their types.
LEMMA TypeStep == TypeInv /\ [Next]_vars => TypeInv'
  <1> SUFFICES ASSUME TypeInv, [Next]_vars PROVE TypeInv'
    OBVIOUS
  <1> USE LoopAssumption DEF TypeInv, TypeOK, Acting
  <1>1. ASSUME NEW zone \in Zones, NEW signal \in Signals, NEW r \in Ratios, Bar(zone, signal, r)
        PROVE  TypeInv'
    <2> PICK answer \in GuardAnswers :
          LET a == Chosen(signal, answer, zone) IN
          /\ guarded' = (guarded /\ answer # "exit")
          /\ \/ /\ PlacesOrders(a) /\ Bounded
                /\ pc' = "send" /\ act' = a /\ leg' = "y" /\ attempt' = 1 /\ filled' = 0
                /\ ratio' = r
                /\ odd' = odd \cup (IF a # "exit" /\ HasPosition THEN {"reentry"} ELSE {})
                              \cup (IF a # "exit" /\ r # 1 THEN {"unequal"} ELSE {})
             \/ ~PlacesOrders(a) /\ Again /\ UNCHANGED <<loopVars, filled, odd>>
      BY <1>1 DEF Bar
    <2> DEFINE a == Chosen(signal, answer, zone)
    <2>1. guarded' \in BOOLEAN  OBVIOUS
    <2>2. a \in Actions \cup {None}
      BY DEF Chosen, Decide, Actions, HasPosition
    <2>3. UNCHANGED <<rec, stop, net, cancels>>
      BY <1>1 DEF Bar
    <2>4. CASE PlacesOrders(a)
      <3>1. pc' = "send" /\ act' = a /\ leg' = "y" /\ attempt' = 1 /\ filled' = 0 /\ ratio' = r
        BY <2>4
      <3>2. odd' \subseteq Troubles \cup {"reentry", "unequal"}
        BY <2>4
      <3>3. a # None /\ (a = "exit" => rec # None)
        BY <2>4 DEF PlacesOrders, HasPosition
      <3> HIDE DEF a
      <3>4. TypeOK'
        BY <2>1, <2>2, <2>3, <3>1, <3>2 DEF Legs
      <3>5. Acting'
        BY <2>3, <3>1, <3>3
      <3> QED  BY <3>4, <3>5
    <2>5. CASE ~PlacesOrders(a)
      <3>1. pc' \in {"bar", "ended"} /\ UNCHANGED <<act, leg, attempt, ratio, filled, odd>>
        BY <2>5 DEF Again, loopVars
      <3>2. pc = "bar"
        BY <1>1 DEF Bar
      <3> HIDE DEF a
      <3>3. TypeOK'
        BY <2>1, <2>3, <3>1
      <3>4. Acting'
        BY <2>3, <3>1, <3>2
      <3> QED  BY <3>3, <3>4
    <2> QED  BY <2>4, <2>5
  <1>2. CASE NoBar  BY <1>2 DEF NoBar, loopVars
  <1>3. CASE Resume  BY <1>3 DEF Resume, Again, loopVars
  <1>4. CASE Accepted
    <2>1. PICK q \in 0 .. QtyOf(leg) :
            /\ Executes(q) /\ filled' = filled + q
            /\ odd' = IF q = QtyOf(leg) THEN odd ELSE odd \cup {"fault"}
      BY <1>4 DEF Accepted
    <2>2. QtyOf(leg) \in Nat  BY <1>4, QtyIsNat DEF Accepted
    <2>3. q \in Nat  BY <2>2
    <2>4. SideOf(leg) * q \in Int  BY <2>3, SideTimes
    <2>5. net' \in [Legs -> Int]  BY <2>1, <2>4 DEF Executes
    <2>6. odd' \subseteq Troubles \cup {"reentry", "unequal"}  BY <2>1 DEF Troubles
    <2> QED  BY <1>4, <2>1, <2>3, <2>5, <2>6 DEF Accepted, loopVars
  <1>5. ASSUME NEW cause \in SUBSET {"fault"}, RetryOrGiveUp(cause), pc = "send",
               UNCHANGED <<rec, guarded, stop, cancels>>, net' \in [Legs -> Int], filled' \in Nat
        PROVE  TypeInv'
    <2>1. odd' \subseteq Troubles \cup {"reentry", "unequal"}
      BY <1>5 DEF RetryOrGiveUp, Troubles
    <2>2. CASE MayRetry  BY <1>5, <2>1, <2>2 DEF RetryOrGiveUp, MayRetry
    <2>3. CASE ~MayRetry  BY <1>5, <2>1, <2>3 DEF RetryOrGiveUp, GiveUp, Again
    <2> QED  BY <2>2, <2>3
  <1>6. CASE Refused
    BY <1>5, <1>6 DEF Refused
  <1>7. CASE AnswerLost
    <2>1. QtyOf(leg) \in Nat  BY <1>7, QtyIsNat DEF AnswerLost
    <2>2. SideOf(leg) * QtyOf(leg) \in Int  BY <2>1, SideTimes
    <2>3. net' \in [Legs -> Int]  BY <1>7, <2>2 DEF AnswerLost, Executes
    <2>4. filled' \in Nat  BY <1>7, <2>1 DEF AnswerLost
    <2> QED  BY <1>5, <1>7, <2>3, <2>4 DEF AnswerLost
  <1>8. CASE PollDone
    <2>1. CASE NextLeg  BY <1>8, <2>1 DEF PollDone, NextLeg, Legs
    <2>2. CASE Complete
      <3>1. rec' \in Position \cup {None}
        BY <2>2 DEF Complete, Record, Position
      <3> QED  BY <1>8, <2>2, <3>1 DEF PollDone, Complete, Again
    <2> QED  BY <1>8, <2>1, <2>2 DEF PollDone
  <1>9. CASE Stop  BY <1>9 DEF Stop, loopVars
  <1>10. CASE Cancel
    <2>1. odd' \subseteq Troubles \cup {"reentry", "unequal"}
      BY <1>10 DEF Cancel, Delivered, Troubles
    <2> QED  BY <1>10, <2>1 DEF Cancel, Delivered, InAction
  <1>11. CASE UNCHANGED vars  BY <1>11 DEF vars, loopVars
  <1> HIDE DEF TypeInv
  <1> QED
    BY <1>1, <1>2, <1>3, <1>4, <1>6, <1>7, <1>8, <1>9, <1>10, <1>11
    DEF Next, Loop, SomeBar, Ended

\* The loop starts with nothing held and no action.
LEMMA TypeInit == Init => TypeInv
  <1> SUFFICES ASSUME Init PROVE TypeInv  OBVIOUS
  <1>1. guarded \in BOOLEAN  BY DEF Init
  <1>2. net \in [Legs -> Int]  BY DEF Init
  <1>3. attempt \in 1 .. MaxRetries  BY LoopAssumption DEF Init
  <1>4. filled \in Nat /\ cancels \in 0 .. 1  BY DEF Init
  <1>5. TypeOK  BY <1>1, <1>2, <1>3, <1>4, Zenon DEF Init, TypeOK, Legs
  <1>6. Acting  BY LoopAssumption DEF Init, Acting
  <1> QED  BY <1>5, <1>6 DEF TypeInv

\* The trading loop's variables keep their types (the whole loop).
THEOREM TypeCorrect == Spec => []TypeOK
  <1>1. TypeInv => TypeOK  BY DEF TypeInv
  <1> QED  BY <1>1, TypeInit, TypeStep, PTL DEF Spec

-----------------------------------------------------------------------------
(* The safety invariants. *)

\* A step that leaves the action, its leg, the record and the net quantities alone.
Frame == UNCHANGED <<act, leg, ratio, rec, net>>

\* The next attempt at the same order.
LEMMA RetryStep ==
  ASSUME TypeInv, Safe, Frame, pc = "send", pc' = "send", attempt' = attempt + 1,
         filled' = filled, odd' = odd
  PROVE  Safe'
  <1>1. act # None  BY DEF TypeInv, Acting
  <1>2. Quantities'  BY DEF Safe, Quantities, Frame
  <1>3. Balance'  BY DEF Safe, Balance, Frame, Move, YDone, XDone, YSide
  <1>4. Book'  BY DEF Safe, Book, Frame, Move, YDone, XDone, YSide, Held
  <1>5. Attempts'
    <2>1. QtyOf(leg) \in Nat /\ QtyOf(leg)' = QtyOf(leg)
      BY <1>1, QtyIsNat DEF TypeInv, TypeOK, Acting, Frame, QtyOf
    <2> DEFINE q == QtyOf(leg)
    <2>2. attempt \in Nat \ {0} /\ filled \in Nat
      BY LoopAssumption DEF TypeInv, TypeOK
    <2>3. attempt' # 1 /\ attempt' - 1 = attempt  BY <2>2
    <2>4. filled <= IF attempt = 1 THEN 0 ELSE (attempt - 1) * q
      BY <1>1 DEF Safe, Attempts
    <2> HIDE DEF q
    <2>5. q \in Nat  BY <2>1 DEF q
    <2>6. (attempt - 1) * q <= attempt * q
      BY <2>2, <2>5, FewerAttempts
    <2>7. attempt * q \in Nat  BY <2>2, <2>5, ProductIsNat
    <2>8. (attempt - 1) * q \in Int  BY <2>2, <2>5
    <2>9. filled <= attempt * q  BY <2>2, <2>4, <2>6, <2>7, <2>8
    <2> QED  BY <2>1, <2>3, <2>9 DEF Attempts, q
  <1> QED  BY <1>2, <1>3, <1>4, <1>5 DEF Safe

\* A step that ends or abandons no action, or abandons one and remembers why.
LEMMA QuietStep ==
  ASSUME TypeInv, TypeInv', Safe, UNCHANGED <<leg, attempt, ratio, rec, filled>>,
         act' = None,
         \/ act = None /\ odd' = odd /\ net' = net
         \/ odd \subseteq odd' /\ odd' \cap Troubles # {}
  PROVE  Safe'
  <1>1. Quantities'
    <2>1. act' \notin Entries  BY LoopAssumption DEF Entries
    <2> QED  BY <2>1 DEF Safe, Quantities
  <1>2. CASE act = None /\ odd' = odd /\ net' = net
    <2>1. Balance'  BY <1>2 DEF Safe, Balance, YDone, XDone
    <2>2. Book'  BY <1>2 DEF Safe, Book, YDone, XDone, Held
    <2> QED  BY <1>1, <2>1, <2>2 DEF Safe, Attempts
  <1>3. CASE odd' \cap Troubles # {}
    <2>1. Balance' /\ Book'  BY <1>3 DEF Balance, Book
    <2> QED  BY <1>1, <2>1 DEF Safe, Attempts
  <1> QED  BY <1>2, <1>3

\* Every step preserves the invariant.
LEMMA SafeStep == TypeInv /\ Safe /\ [Next]_vars => Safe'
  <1> SUFFICES ASSUME TypeInv, Safe, [Next]_vars PROVE Safe'
    OBVIOUS
  <1>0. TypeInv'  BY TypeStep
  <1>a. (act # None <=> pc \in {"send", "poll"}) /\ (act = "exit" => rec # None)
    BY DEF TypeInv, Acting
  <1>1. ASSUME NEW zone \in Zones, NEW signal \in Signals, NEW r \in Ratios, Bar(zone, signal, r)
        PROVE  Safe'
    <2>0. act = None /\ UNCHANGED <<rec, net>>  BY <1>1, <1>a DEF Bar
    <2> PICK a : \/ /\ PlacesOrders(a)
                    /\ pc' = "send" /\ act' = a /\ leg' = "y" /\ attempt' = 1 /\ filled' = 0
                    /\ ratio' = r
                    /\ odd' = odd \cup (IF a # "exit" /\ HasPosition THEN {"reentry"} ELSE {})
                                  \cup (IF a # "exit" /\ r # 1 THEN {"unequal"} ELSE {})
                 \/ UNCHANGED <<loopVars, filled, odd>>
      BY <1>1 DEF Bar
    <2>1. CASE PlacesOrders(a) /\ pc' = "send" /\ act' = a /\ leg' = "y" /\ attempt' = 1
               /\ filled' = 0 /\ ratio' = r
               /\ odd' = odd \cup (IF a # "exit" /\ HasPosition THEN {"reentry"} ELSE {})
                             \cup (IF a # "exit" /\ r # 1 THEN {"unequal"} ELSE {})
      <3>1. Quantities'
        BY <2>0, <2>1 DEF Safe, Quantities, HasPosition, Entries
      <3>2. odd \subseteq odd'  BY <2>1
      <3>3. ~YDone /\ ~XDone /\ ~YDone' /\ ~XDone'
        BY <2>0, <2>1 DEF YDone, XDone
      <3>4. Balance'
        <4> SUFFICES ASSUME odd' \cap (Troubles \cup {"unequal"}) = {}
                     PROVE  net["y"] + net["x"] = 0
          BY <2>0, <3>3 DEF Balance
        <4>1. odd \cap (Troubles \cup {"unequal"}) = {}  BY <3>2
        <4> QED  BY <4>1, <3>3 DEF Safe, Balance
      <3>5. Book'
        <4> SUFFICES ASSUME odd' = {} PROVE net["y"] = Held("y") + 0 /\ net["x"] = Held("x") - 0
          BY <2>0, <3>3 DEF Book, Held
        <4>1. odd = {}  BY <3>2
        <4> QED  BY <4>1, <3>3 DEF Safe, Book
      <3>6. Attempts'  BY <2>1 DEF Attempts
      <3> QED  BY <3>1, <3>4, <3>5, <3>6 DEF Safe
    <2>2. CASE UNCHANGED <<loopVars, filled, odd>>
      BY <1>0, <2>0, <2>2, QuietStep DEF loopVars
    <2> QED  BY <2>1, <2>2
  <1>2. CASE NoBar
    BY <1>0, <1>a, <1>2, QuietStep DEF NoBar, loopVars
  <1>3. CASE Resume
    BY <1>0, <1>a, <1>3, QuietStep DEF Resume, loopVars
  <1>4. CASE Accepted
    <2>0. act # None /\ pc = "send" /\ pc' = "poll" /\ UNCHANGED <<act, leg, attempt, ratio, rec>>
      BY <1>4, <1>a DEF Accepted, loopVars
    <2>1. PICK q \in 0 .. QtyOf(leg) :
            /\ Executes(q) /\ filled' = filled + q
            /\ odd' = IF q = QtyOf(leg) THEN odd ELSE odd \cup {"fault"}
      BY <1>4 DEF Accepted
    <2>2. QtyOf(leg) \in Nat /\ QtyOf(leg)' = QtyOf(leg)
      BY <2>0, <1>a, QtyIsNat DEF TypeInv, TypeOK, QtyOf
    <2>3. odd \subseteq odd'  BY <2>1
    <2>4. Quantities'
      BY <2>0, <2>3 DEF Safe, Quantities
    <2>5. YSide' = YSide /\ Move' = Move /\ Move \in Int
      BY <2>0, LoopAssumption DEF YSide, Move
    <2>6. ASSUME odd' \cap (Troubles \cup {"unequal"}) = {}
          PROVE  net' = [net EXCEPT ![leg] = @ + IF leg = "y" THEN Move ELSE -Move]
      <3>1. q = QtyOf(leg)  BY <2>1, <2>6 DEF Troubles
      <3>2. "unequal" \notin odd  BY <2>3, <2>6
      <3>3. q = Base  BY <2>0, <3>1, <3>2, EqualQuantities DEF TypeInv, TypeOK, Safe
      <3>4. SideOf(leg) * q = IF (YSide = 1) = (leg = "y") THEN q ELSE -q
        BY <2>2, SideTimes DEF TypeInv, TypeOK
      <3>5. SideOf(leg) * q = IF leg = "y" THEN Move ELSE -Move
        BY <3>3, <3>4, SideIsSign, LoopAssumption DEF Move
      <3> QED  BY <2>1, <3>5 DEF Executes
    <2>7. leg \in {"y", "x"} /\ net \in [Legs -> Int]  BY DEF TypeInv, TypeOK, Legs
    <2>8. Balance'
      <3> SUFFICES ASSUME odd' \cap (Troubles \cup {"unequal"}) = {}
                   PROVE  net'["y"] + net'["x"] = IF YDone' /\ ~XDone' THEN Move ELSE 0
        BY <2>5 DEF Balance
      <3>1. net["y"] + net["x"] = IF YDone /\ ~XDone THEN Move ELSE 0
        BY <2>3 DEF Safe, Balance
      <3>2. CASE leg = "y"
        BY <2>0, <2>5, <2>6, <2>7, <3>1, <3>2 DEF YDone, XDone, Legs
      <3>3. CASE leg = "x"
        BY <2>0, <2>5, <2>6, <2>7, <3>1, <3>3 DEF YDone, XDone, Legs
      <3> QED  BY <2>7, <3>2, <3>3
    <2>9. Book'
      <3> SUFFICES ASSUME odd' = {}
                   PROVE  /\ net'["y"] = Held("y")' + IF YDone' THEN Move ELSE 0
                          /\ net'["x"] = Held("x")' - IF XDone' THEN Move ELSE 0
        BY <2>5 DEF Book
      <3>1. /\ net["y"] = Held("y") + IF YDone THEN Move ELSE 0
            /\ net["x"] = Held("x") - IF XDone THEN Move ELSE 0
        BY <2>3 DEF Safe, Book
      <3>2. Held("y")' = Held("y") /\ Held("x")' = Held("x")  BY <2>0 DEF Held
      <3>3. Held("y") \in Int /\ Held("x") \in Int
        BY DEF TypeInv, TypeOK, Held, Position
      <3>4. CASE leg = "y"
        BY <2>0, <2>5, <2>6, <2>7, <3>1, <3>2, <3>3, <3>4 DEF YDone, XDone, Legs
      <3>5. CASE leg = "x"
        BY <2>0, <2>5, <2>6, <2>7, <3>1, <3>2, <3>3, <3>5 DEF YDone, XDone, Legs
      <3> QED  BY <2>7, <3>4, <3>5
    <2>10. Attempts'
      <3>1. filled \in Nat /\ attempt \in Nat \ {0}
        BY LoopAssumption DEF TypeInv, TypeOK
      <3> DEFINE n == QtyOf(leg)
      <3>2. filled <= IF attempt = 1 THEN 0 ELSE (attempt - 1) * n
        BY <2>0 DEF Safe, Attempts
      <3>3. n \in Nat /\ q <= n /\ q \in Nat  BY <2>2
      <3> HIDE DEF n
      <3>4. (attempt - 1) * n + n = attempt * n  BY <3>1, <3>3, OneMoreAttempt
      <3>5. attempt = 1 => attempt * n = n  BY <3>3
      <3>6. (attempt - 1) * n \in Int  BY <3>1, <3>3
      <3>7. filled' <= attempt * n
        BY <2>1, <3>1, <3>2, <3>3, <3>4, <3>5, <3>6
      <3> QED  BY <2>0, <2>2, <3>7 DEF Attempts, n
    <2> QED  BY <2>4, <2>8, <2>9, <2>10 DEF Safe
  <1>5. CASE Refused
    <2>1. CASE MayRetry
      BY <1>5, <2>1, RetryStep DEF Refused, RetryOrGiveUp, Frame
    <2>2. CASE ~MayRetry
      <3>1. odd' = odd \cup {} \cup {"failed"} /\ GiveUp /\ UNCHANGED <<rec, filled>>
        BY <1>5, <2>2 DEF Refused, RetryOrGiveUp
      <3> QED  BY <1>0, <3>1, QuietStep DEF GiveUp, Troubles
    <2> QED  BY <2>1, <2>2
  <1>6. CASE AnswerLost
    <2>0. act # None /\ pc = "send" /\ UNCHANGED <<leg, ratio, rec>> /\ odd \subseteq odd'
          /\ "fault" \in odd' /\ (act' = act \/ act' = None)
      BY <1>6, <1>a DEF AnswerLost, RetryOrGiveUp, GiveUp
    <2>1. Balance' /\ Book'  BY <2>0 DEF Balance, Book, Troubles
    <2>2. Quantities'
      <3>1. act' \in Entries => act' = act  BY <2>0, LoopAssumption DEF Entries
      <3> QED  BY <2>0, <3>1 DEF Safe, Quantities
    <2>3. Attempts'
      <3>1. CASE ~MayRetry  BY <1>6, <3>1 DEF AnswerLost, RetryOrGiveUp, GiveUp, Attempts
      <3>2. CASE MayRetry
        <4>1. pc' = "send" /\ act' = act /\ attempt' = attempt + 1 /\ filled' = filled + QtyOf(leg)
          BY <1>6, <3>2, <2>0 DEF AnswerLost, RetryOrGiveUp
        <4>2. QtyOf(leg) \in Nat /\ QtyOf(leg)' = QtyOf(leg)
          BY <2>0, <4>1, <1>a, QtyIsNat DEF TypeInv, TypeOK, QtyOf
        <4>3. filled \in Nat /\ attempt \in Nat \ {0}
          BY LoopAssumption DEF TypeInv, TypeOK
        <4> DEFINE n == QtyOf(leg)
        <4>4. filled <= IF attempt = 1 THEN 0 ELSE (attempt - 1) * n
          BY <2>0 DEF Safe, Attempts
        <4>5. n \in Nat /\ filled' = filled + n  BY <4>1, <4>2
        <4> HIDE DEF n
        <4>6. (attempt - 1) * n + n = attempt * n  BY <4>3, <4>5, OneMoreAttempt
        <4>7. attempt = 1 => attempt * n = n  BY <4>5
        <4>8. (attempt - 1) * n \in Int  BY <4>3, <4>5
        <4>9. filled' <= attempt * n
          BY <4>3, <4>4, <4>5, <4>6, <4>7, <4>8
        <4>10. attempt' # 1 /\ attempt' - 1 = attempt  BY <4>1, <4>3
        <4> QED  BY <4>1, <4>2, <4>9, <4>10 DEF Attempts, n
      <3> QED  BY <3>1, <3>2
    <2> QED  BY <2>1, <2>2, <2>3 DEF Safe
  <1>7. CASE PollDone
    <2>0. pc = "poll" /\ act # None /\ UNCHANGED <<net, odd>>
      BY <1>7, <1>a DEF PollDone
    <2>1. CASE NextLeg
      <3>1. leg = "y" /\ leg' = "x" /\ pc' = "send" /\ UNCHANGED <<act, ratio, rec>>
        BY <2>1 DEF NextLeg
      <3>2. YDone /\ YDone' /\ ~XDone /\ ~XDone'  BY <2>0, <3>1 DEF YDone, XDone
      <3>3. Move' = Move  BY <3>1 DEF Move, YSide
      <3>4. Held("y")' = Held("y") /\ Held("x")' = Held("x")  BY <3>1 DEF Held
      <3>5. Quantities'  BY <2>0, <3>1 DEF Safe, Quantities
      <3>6. Balance'  BY <2>0, <3>2, <3>3 DEF Safe, Balance
      <3>7. Book'  BY <2>0, <3>2, <3>3, <3>4 DEF Safe, Book
      <3>8. Attempts'  BY <2>1 DEF NextLeg, Attempts
      <3> QED  BY <3>5, <3>6, <3>7, <3>8 DEF Safe
    <2>2. CASE Complete
      <3>1. leg = "x" /\ act' = None /\ Record  BY <2>2 DEF Complete
      <3>2. YDone /\ XDone /\ ~YDone' /\ ~XDone'  BY <2>0, <3>1 DEF YDone, XDone
      <3>3. act \in Entries \/ act = "exit"  BY <2>0 DEF TypeInv, TypeOK, Actions, Entries
      <3>4. Quantities'
        <4>1. act' \notin Entries  BY <3>1, LoopAssumption DEF Entries
        <4>2. rec' # None => rec'.y = Base /\ rec'.x = Base
          BY <3>1, <3>3 DEF Record, Entries
        <4> QED  BY <4>1, <4>2 DEF Quantities
      <3>5. Balance'  BY <2>0, <3>2 DEF Safe, Balance
      <3>6. Book'
        <4> SUFFICES ASSUME odd = {}
                     PROVE  net["y"] = Held("y")' + 0 /\ net["x"] = Held("x")' - 0
          BY <2>0, <3>2 DEF Book
        <4>1. net["y"] = Held("y") + Move /\ net["x"] = Held("x") - Move
          BY <3>2 DEF Safe, Book
        <4>2. CASE act = "entry_long"
          <5>1. rec = None  BY <4>2 DEF Safe, Quantities, Entries
          <5>2. rec' = [side |-> "long", y |-> Base, x |-> Base]
            BY <3>1, <4>2 DEF Record
          <5>3. rec' # None  BY <5>2, LoopAssumption
          <5>4. Held("y")' = Base /\ Held("x")' = -Base  BY <5>2, <5>3 DEF Held
          <5>5. Move = Base  BY <4>2 DEF Move, YSide
          <5> QED  BY <4>1, <5>1, <5>4, <5>5, LoopAssumption DEF Held
        <4>3. CASE act = "entry_short"
          <5>1. rec = None  BY <4>3 DEF Safe, Quantities, Entries
          <5>2. rec' = [side |-> "short", y |-> Base, x |-> Base]
            BY <3>1, <4>3 DEF Record
          <5>3. rec' # None  BY <5>2, LoopAssumption
          <5>4. Held("y")' = -Base /\ Held("x")' = Base  BY <5>2, <5>3 DEF Held
          <5>5. Move = -Base  BY <4>3 DEF Move, YSide
          <5> QED  BY <4>1, <5>1, <5>4, <5>5, LoopAssumption DEF Held
        <4>4. CASE act = "exit"
          <5>1. rec # None /\ rec.y = Base /\ rec.x = Base /\ rec.side \in {"long", "short"}
            BY <1>a, <4>4 DEF Safe, Quantities, TypeInv, TypeOK, Position
          <5>2. rec' = None  BY <3>1, <4>4 DEF Record
          <5>3. Held("y")' = 0 /\ Held("x")' = 0  BY <5>2 DEF Held
          <5>4. CASE rec.side = "long"
            <6>1. Move = -Base  BY <4>4, <5>4 DEF Move, YSide
            <6>2. Held("y") = Base /\ Held("x") = -Base  BY <5>1, <5>4 DEF Held
            <6> QED  BY <4>1, <5>3, <6>1, <6>2, LoopAssumption
          <5>5. CASE rec.side = "short"
            <6>1. Move = Base  BY <4>4, <5>5 DEF Move, YSide
            <6>2. Held("y") = -Base /\ Held("x") = Base  BY <5>1, <5>5 DEF Held
            <6> QED  BY <4>1, <5>3, <6>1, <6>2, LoopAssumption
          <5> QED  BY <5>1, <5>4, <5>5
        <4> QED  BY <3>3, <4>2, <4>3, <4>4 DEF Entries
      <3>7. Attempts'  BY <3>1 DEF Attempts
      <3> QED  BY <3>4, <3>5, <3>6, <3>7 DEF Safe
    <2> QED  BY <1>7, <2>1, <2>2 DEF PollDone
  <1>8. CASE Stop
    <2>1. UNCHANGED <<pc, act, leg, attempt, ratio, rec, net, filled, odd>>
      BY <1>8 DEF Stop, loopVars
    <2>2. Quantities'  BY <2>1 DEF Safe, Quantities
    <2>3. Balance'  BY <2>1 DEF Safe, Balance, Move, YDone, XDone, YSide
    <2>4. Book'  BY <2>1 DEF Safe, Book, Move, YDone, XDone, YSide, Held
    <2>5. Attempts'  BY <2>1 DEF Safe, Attempts, QtyOf
    <2> QED  BY <2>2, <2>3, <2>4, <2>5 DEF Safe
  <1>9. CASE Cancel
    <2>1. CASE pc \in {"bar", "pause"}
      BY <1>0, <1>a, <1>9, <2>1, QuietStep DEF Cancel, Delivered, InAction
    <2>2. CASE pc \notin {"bar", "pause"}
      <3>1. act' = None /\ odd' = odd \cup {"fault"}
        BY <1>9, <2>2 DEF Cancel, Delivered
      <3> QED  BY <1>0, <1>9, <3>1, QuietStep DEF Cancel, Troubles
    <2> QED  BY <2>1, <2>2
  <1>10. CASE UNCHANGED vars
    <2>1. UNCHANGED <<pc, act, leg, attempt, ratio, rec, net, filled, odd>>
      BY <1>10 DEF vars, loopVars
    <2>2. Quantities'  BY <2>1 DEF Safe, Quantities
    <2>3. Balance'  BY <2>1 DEF Safe, Balance, Move, YDone, XDone, YSide
    <2>4. Book'  BY <2>1 DEF Safe, Book, Move, YDone, XDone, YSide, Held
    <2>5. Attempts'  BY <2>1 DEF Safe, Attempts, QtyOf
    <2> QED  BY <2>2, <2>3, <2>4, <2>5 DEF Safe
  <1> QED
    BY <1>1, <1>2, <1>3, <1>4, <1>5, <1>6, <1>7, <1>8, <1>9, <1>10
    DEF Next, Loop, SomeBar, Ended

\* The inductive invariant holds throughout.
LEMMA Invariance == Spec => [](TypeInv /\ Safe)
  <1>1. Init => TypeInv /\ Safe
    <2> SUFFICES ASSUME Init PROVE TypeInv /\ Safe  OBVIOUS
    <2>1. TypeInv  BY TypeInit
    <2>2. act = None /\ rec = None /\ net["y"] = 0 /\ net["x"] = 0  BY DEF Init, Legs
    <2>3. Quantities  BY <2>2, LoopAssumption DEF Quantities, Entries
    <2>4. Balance /\ Book /\ Attempts
      BY <2>2 DEF Balance, Book, Attempts, YDone, XDone, Held
    <2> QED  BY <2>1, <2>3, <2>4 DEF Safe
  <1> QED  BY <1>1, TypeStep, SafeStep, PTL DEF Spec

\* Between two actions, the states the properties are about, is when none is in progress.
LEMMA BetweenMeansIdle ==
  ASSUME TypeInv  PROVE  BetweenActions <=> act = None
  BY DEF TypeInv, TypeOK, Acting, BetweenActions

\* When nothing went wrong the recorded position is what the orders executed (the
\* executor and OrderManager.record_*).
THEOREM RecordIsExecuted == Spec => []RecordMatchesVenue
  <1>1. TypeInv /\ Safe => RecordMatchesVenue
    <2> SUFFICES ASSUME TypeInv, Safe, BetweenActions, odd = {}, NEW l \in Legs
                 PROVE  net[l] = Held(l)
      BY DEF RecordMatchesVenue
    <2>1. ~YDone /\ ~XDone  BY BetweenMeansIdle DEF YDone, XDone
    <2>2. net["y"] = Held("y") + 0 /\ net["x"] = Held("x") - 0
      BY <2>1 DEF Safe, Book
    <2>3. Held("y") \in Int /\ Held("x") \in Int
      BY DEF TypeInv, TypeOK, Held, Position
    <2> QED  BY <2>2, <2>3 DEF Legs
  <1> QED  BY <1>1, Invariance, PTL

\* The legs cancel out between actions, unless something went wrong in one.
THEOREM NoLegAlone == Spec => []LegsHedge
  <1>1. TypeInv /\ Safe => LegsHedge
    <2> SUFFICES ASSUME TypeInv, Safe, BetweenActions, odd \cap (Troubles \cup {"unequal"}) = {}
                 PROVE  net["y"] + net["x"] = 0
      BY DEF LegsHedge
    <2>1. ~YDone  BY BetweenMeansIdle DEF YDone
    <2> QED  BY <2>1 DEF Safe, Balance
  <1> QED  BY <1>1, Invariance, PTL

\* No order is executed more than MaxRetries times over (_send_with_retry).
THEOREM BoundedDuplication == Spec => []OrderMultiplicity
  <1>1. TypeInv /\ Safe => OrderMultiplicity
    <2> SUFFICES ASSUME TypeInv, Safe, ~BetweenActions
                 PROVE  filled <= MaxRetries * QtyOf(leg)
      BY DEF OrderMultiplicity
    <2>1. act # None  BY BetweenMeansIdle
    <2>2. QtyOf(leg) \in Nat  BY <2>1, QtyIsNat DEF TypeInv, TypeOK, Acting
    <2>3. attempt \in Nat \ {0} /\ attempt <= MaxRetries /\ filled \in Nat /\ MaxRetries \in Nat
      BY LoopAssumption DEF TypeInv, TypeOK
    <2> DEFINE q == QtyOf(leg)
    <2>4. filled <= IF pc = "poll" THEN attempt * q ELSE IF attempt = 1 THEN 0 ELSE (attempt - 1) * q
      BY <2>1 DEF Safe, Attempts
    <2> HIDE DEF q
    <2>5. q \in Nat  BY <2>2 DEF q
    <2>6. attempt * q <= MaxRetries * q /\ (attempt - 1) * q <= MaxRetries * q
      BY <2>3, <2>5, FewerAttempts
    <2>7. MaxRetries * q \in Nat /\ attempt * q \in Int /\ (attempt - 1) * q \in Int
      BY <2>3, <2>5, ProductIsNat
    <2>8. filled <= MaxRetries * q  BY <2>3, <2>4, <2>6, <2>7
    <2> QED  BY <2>8 DEF q
  <1> QED  BY <1>1, Invariance, PTL
=============================================================================
