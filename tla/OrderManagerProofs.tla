------------------------- MODULE OrderManagerProofs -------------------------
(***************************************************************************)
(* Proofs about OrderManager, for any sets of orders, ids and callers.     *)
(*                                                                         *)
(* The safety properties are not inductive: Inv adds where an order's id,  *)
(* its submit() and the cancels in flight point to.  UniqueInv adds, for   *)
(* callers that never reuse a local id, that the key still leads to the    *)
(* record and that every cancel in flight has a cause.                     *)
(***************************************************************************)
EXTENDS OrderManager, TLAPS

Submitted(o) == status[o] # "NEW"

\* Orders being placed are submitted, have no exchange id and no fill yet.
WaitingInv == \A o \in waiting : Submitted(o) /\ o \notin exid /\ fills[o] = 0

\* Whatever an id, a cancel or the monitor refers to has been submitted.
RefsInv ==
  /\ \A o \in Orders : Submitted(o) => tracked[idOf[o]] \in Orders
  /\ \A i \in Ids : tracked[i] # None => Submitted(tracked[i])
  /\ \A o \in exid \cup todo : Submitted(o)
  /\ \A c \in Callers : call[c] # None => call[c] \in exid
  /\ call[Monitor] # None => cur \in Orders /\ Submitted(cur)

Inv == TypeOK /\ WaitingInv /\ RefsInv /\ PlacementKnown /\ Reported

\* With unique ids, a submitted record is the one its id leads to.
KeyInv ==
  /\ \A o \in Orders : Submitted(o) => tracked[idOf[o]] = o
  /\ \A i \in Ids : tracked[i] # None => idOf[tracked[i]] = i

CauseInv ==
  /\ \A u \in Users : call[u] # None => call[u] \in asked
  /\ call[Monitor] # None => call[Monitor] \in aged /\ cur \in aged
  /\ \A o \in Orders : closes[o] > 0 =>
       o \in aged \cup asked \/ (fills[o] = 0 /\ o \notin waiting)
  /\ \A o \in Orders : status[o] \in {"CANCELLED", "TIMED_OUT"} => o \in aged \cup asked

Fresh == KeyInv /\ CauseInv

UniqueInv == ~ReuseIds => Fresh

-----------------------------------------------------------------------------
(* The inductive invariant. *)

\* The initial state satisfies Inv.
LEMMA InitInv == Init => Inv
<1> SUFFICES ASSUME Init PROVE Inv
  OBVIOUS
<1>1. (CHOOSE i \in Ids : TRUE) \in Ids
  BY ConstantsAssumption
<1>2. TypeOK
  BY <1>1 DEF Init, TypeOK, Statuses, Terminal, Kinds
<1>3. \A o \in Orders : status[o] = "NEW" /\ fills[o] = 0 /\ closes[o] = 0
  BY DEF Init
<1>4. WaitingInv /\ RefsInv
  BY <1>3 DEF Init, WaitingInv, RefsInv, Submitted, Callers
<1>5. PlacementKnown /\ Reported
  BY <1>3 DEF PlacementKnown, Reported, Open, Terminal
<1> QED
  BY <1>2, <1>4, <1>5 DEF Inv

\* Every step of the manager, the monitor, the venue or the clock keeps Inv.
LEMMA NextInv == Inv /\ [Next]_vars => Inv'
<1> SUFFICES ASSUME Inv, [Next]_vars PROVE Inv'
  OBVIOUS
<1>0. None \notin Orders /\ Monitor \notin Users
  BY ConstantsAssumption
<1> USE <1>0
    DEF Inv, TypeOK, WaitingInv, RefsInv, PlacementKnown, Reported, Submitted,
        Open, Statuses, Terminal, Kinds, Callers, vars, recVars, monVars, conf, sends
<1>1. CASE RegisterRouter
  BY <1>1 DEF RegisterRouter
<1>2. ASSUME NEW o \in Orders, NEW id \in Ids, NEW k \in Kinds, Submit(o, id, k)
      PROVE  Inv'
  <2>1. /\ status[o] = "NEW"
        /\ kind' = [kind EXCEPT ![o] = k] /\ idOf' = [idOf EXCEPT ![o] = id]
        /\ tracked' = [tracked EXCEPT ![id] = o]
        /\ UNCHANGED <<abandoned, exid, conf, call, monVars, venue, aged, asked>>
    BY <1>2 DEF Submit
  <2>2. CASE Fill(o) /\ UNCHANGED waiting
    <3>1. fills[o] = 0 /\ closes[o] = 0 /\ o \notin waiting
      <4>1. ~(fills[o] + closes[o] > 0) /\ fills[o] \in Nat /\ closes[o] \in Nat
        BY <2>1
      <4>2. fills[o] = 0 /\ closes[o] = 0
        BY ONLY <4>1
      <4>3. o \notin waiting
        BY <2>1
      <4> QED
        BY ONLY <4>2, <4>3
    <3>2. TypeOK' /\ WaitingInv' /\ RefsInv' /\ PlacementKnown'
      BY <2>1, <2>2, <3>1 DEF Fill
    <3>3. Reported'
      BY <2>1, <2>2, <3>1 DEF Fill
    <3> QED
      BY <3>2, <3>3
  <2>3. CASE Close(o, "FAILED") /\ UNCHANGED waiting
    BY <2>1, <2>3 DEF Close
  <2>4. CASE /\ status' = [status EXCEPT ![o] = "SUBMITTED"]
             /\ waiting' = waiting \cup {o}
             /\ UNCHANGED <<fills, closes>>
    BY <2>1, <2>4
  <2> QED
    BY <1>2, <2>2, <2>3, <2>4 DEF Submit
<1>3. ASSUME NEW o \in Orders, PlaceReply(o)
      PROVE  Inv'
  <2>1. CASE kind[o] = "market"
    <3>1. o \in waiting /\ waiting' = waiting \ {o} /\ Fill(o) /\ exid' = exid \cup {o}
      BY <1>3, <2>1 DEF PlaceReply, LearnId
    <3>2. UNCHANGED <<abandoned, recVars, conf, call, monVars, venue, aged, asked>>
      BY <1>3 DEF PlaceReply
    <3> QED
      BY <3>1, <3>2 DEF Fill
  <2>2. CASE kind[o] # "market"
    BY <1>3, <2>2 DEF PlaceReply, Acknowledge, LearnId
  <2> QED
    BY <2>1, <2>2
<1>4. ASSUME NEW o \in Orders, PlaceError(o)
      PROVE  Inv'
  BY <1>4 DEF PlaceError, Close
<1>5. ASSUME NEW u \in Users, NEW id \in Ids, UserCancel(u, id)
      PROVE  Inv'
  <2>1. PICK o \in Orders : o = tracked[id] /\ Open(o)
    BY <1>5 DEF UserCancel
  <2>2. CASE Local(o)
    <3>1. Close(o, "CANCELLED") /\ UNCHANGED <<call, recVars, exid, sends,
            conf, monVars, venue, aged>> /\ asked' = asked \cup {o}
      BY <1>5, <2>1, <2>2 DEF UserCancel
    <3> QED
      BY <2>1, <3>1 DEF Close
  <2>3. CASE ~Local(o)
    <3>1. /\ call' = [call EXCEPT ![u] = o]
          /\ asked' = asked \cup {o}
          /\ UNCHANGED <<status, fills, closes, recVars, exid, sends, conf,
                         monVars, venue, aged>>
      BY <1>5, <2>1, <2>3 DEF UserCancel
    <3>2. o \in exid /\ u # Monitor
      BY <2>3 DEF Local
    <3> QED
      BY <2>1, <3>1, <3>2
  <2> QED
    BY <2>2, <2>3
<1>6. ASSUME NEW c \in Callers, CancelReply(c)
      PROVE  Inv'
  BY <1>6 DEF CancelReply, CallReturns, Close
<1>7. ASSUME NEW c \in Callers, CancelError(c)
      PROVE  Inv'
  <2>1. CASE c = Monitor
    <3>1. /\ Close(cur, "TIMED_OUT")
          /\ call' = [call EXCEPT ![Monitor] = None] /\ monPc' = "walk"
          /\ cur' = None /\ venue' \in [Orders -> {"unknown", "resting", "executed", "gone"}]
          /\ UNCHANGED <<recVars, exid, sends, conf, aged, asked, todo>>
      BY <1>7, <2>1 DEF CancelError, CallReturns, MarkTimedOut
    <3>2. cur \in Orders /\ Submitted(cur)
      BY <1>7, <2>1 DEF CancelError
    <3> QED
      BY <3>1, <3>2 DEF Close
  <2>2. CASE c # Monitor
    BY <1>7, <2>2 DEF CancelError, CallReturns
  <2> QED
    BY <2>1, <2>2
<1>8. CASE StartMonitor
  BY <1>8 DEF StartMonitor
<1>9. CASE StopMonitor
  BY <1>9 DEF StopMonitor
<1>10. CASE MonitorWake
  BY <1>10 DEF MonitorWake
<1>11. CASE MonitorRest
  BY <1>11 DEF MonitorRest
<1>12. ASSUME NEW o \in Orders, MonitorCheck(o)
       PROVE  Inv'
  <2> DEFINE t == tracked[idOf[o]]
  <2>1. /\ todo' = todo \ {o} /\ Submitted(o)
        /\ UNCHANGED <<recVars, exid, sends, conf, venue, aged, asked>>
    BY <1>12 DEF MonitorCheck
  <2>2. t \in Orders /\ Submitted(t)
    BY <2>1
  <2> HIDE DEF t
  <2>3. CASE UNCHANGED <<status, fills, closes, call, monPc, cur>>
    BY <2>1, <2>3
  <2>4. CASE Close(t, "CANCELLED") /\ UNCHANGED <<call, monPc, cur>>
    BY <2>1, <2>2, <2>4 DEF Close
  <2>5. CASE /\ ~Local(t)
             /\ call' = [call EXCEPT ![Monitor] = t] /\ monPc' = "await" /\ cur' = o
             /\ UNCHANGED <<status, fills, closes>>
    BY <2>1, <2>2, <2>5 DEF Local
  <2>6. CASE Close(o, "TIMED_OUT") /\ UNCHANGED <<call, monPc, cur>>
    BY <2>1, <2>6 DEF Close
  <2> QED
    BY <1>12, <2>3, <2>4, <2>5, <2>6 DEF MonitorCheck, MarkTimedOut, t
<1>13. ASSUME NEW o \in Orders, VenueAccepts(o)
       PROVE  Inv'
  BY <1>13 DEF VenueAccepts
<1>14. ASSUME NEW o \in Orders, VenueExecutes(o)
       PROVE  Inv'
  BY <1>14 DEF VenueExecutes
<1>15. ASSUME NEW o \in Orders, Age(o)
       PROVE  Inv'
  BY <1>15 DEF Age
<1>16. ASSUME NEW o \in Orders, SubmitCancelled(o)
       PROVE  Inv'
  BY <1>16 DEF SubmitCancelled
<1>17. CASE UNCHANGED vars
  BY <1>17
<1> HIDE DEF Inv
<1>18. CASE Next
  BY <1>1, <1>2, <1>3, <1>4, <1>5, <1>6, <1>7, <1>8, <1>9, <1>10, <1>11, <1>12,
     <1>13, <1>14, <1>15, <1>16, <1>18 DEF Next, MonitorStep
<1> QED
  BY <1>17, <1>18

\* Inv holds in every reachable state.
THEOREM Invariance == Spec => []Inv
  BY InitInv, NextInv, PTL DEF Spec

\* The type invariant, for every set of orders, ids and callers.
THEOREM TypeCorrect == Spec => []TypeOK
<1>1. Inv => TypeOK
  BY DEF Inv
<1> QED
  BY <1>1, Invariance, PTL

\* Records and notifications agree, and on_fill fires at most once per order.
THEOREM NotificationsMatchRecords == Spec => []Reported
<1>1. Inv => Reported
  BY DEF Inv
<1> QED
  BY <1>1, Invariance, PTL

-----------------------------------------------------------------------------
(* The causes of a cancel, when local ids are never reused. *)

\* The initial state satisfies Fresh.
LEMMA InitFresh == Init => Fresh
  BY ConstantsAssumption
  DEF Init, Fresh, KeyInv, CauseInv, Submitted, Callers

\* A manager is configured once.
LEMMA ModeIsFixed == [Next]_vars => ReuseIds' = ReuseIds
  BY DEF ReuseIds, Next, MonitorStep, vars, conf, RegisterRouter, Submit, PlaceReply,
         PlaceError, SubmitCancelled, UserCancel, CancelReply, CancelError, StartMonitor, StopMonitor,
         MonitorWake, MonitorCheck, MonitorRest, VenueAccepts, VenueExecutes, Age

\* Every step keeps Fresh when submit() is given fresh ids only.
LEMMA NextFresh ==
  ASSUME ~ReuseIds
  PROVE  Inv /\ Fresh /\ [Next]_vars => Fresh'
<1> SUFFICES ASSUME Inv, Fresh, [Next]_vars PROVE Fresh'
  OBVIOUS
<1>0. None \notin Orders /\ Monitor \notin Users
  BY ConstantsAssumption
<1> USE <1>0
    DEF Inv, TypeOK, WaitingInv, RefsInv, Fresh, KeyInv, CauseInv,
        Submitted, Callers, vars, recVars, monVars, conf, sends
<1>1. CASE RegisterRouter
  BY <1>1 DEF RegisterRouter
<1>2. ASSUME NEW o \in Orders, NEW id \in Ids, NEW k \in Kinds, Submit(o, id, k)
      PROVE  Fresh'
  <2>1. status[o] = "NEW" /\ tracked[id] = None
    BY <1>2 DEF Submit
  <2>2. fills[o] = 0 /\ closes[o] = 0
    <3>1. ~(fills[o] + closes[o] > 0) /\ fills[o] \in Nat /\ closes[o] \in Nat
      BY <2>1 DEF Reported, Terminal
    <3> QED
      BY <3>1
  <2>3. KeyInv'
    BY <1>2, <2>1 DEF Submit, Fill, Close, Statuses, Terminal
  <2>4. CauseInv'
    BY <1>2, <2>1, <2>2 DEF Submit, Fill, Close
  <2> QED
    BY <2>3, <2>4
<1>3. ASSUME NEW o \in Orders, PlaceReply(o)
      PROVE  Fresh'
  BY <1>3 DEF PlaceReply, Fill, Acknowledge
<1>4. ASSUME NEW o \in Orders, PlaceError(o)
      PROVE  Fresh'
  BY <1>4 DEF PlaceError, Close
<1>5. ASSUME NEW u \in Users, NEW id \in Ids, UserCancel(u, id)
      PROVE  Fresh'
  <2>1. PICK o \in Orders : o = tracked[id] /\ Open(o)
    BY <1>5 DEF UserCancel
  <2>2. asked' = asked \cup {o} /\ status' \in [Orders -> Statuses]
    BY <1>5, <2>1 DEF UserCancel, Close, Statuses, Terminal
  <2>3. KeyInv'
    BY <1>5, <2>1 DEF UserCancel, Close, Open
  <2>4. CauseInv'
    BY <1>5, <2>1, <2>2 DEF UserCancel, Close
  <2> QED
    BY <2>3, <2>4
<1>6. ASSUME NEW c \in Callers, CancelReply(c)
      PROVE  Fresh'
  BY <1>6 DEF CancelReply, CallReturns, Close
<1>7. ASSUME NEW c \in Callers, CancelError(c)
      PROVE  Fresh'
  BY <1>7 DEF CancelError, CallReturns, Close, MarkTimedOut
<1>8. CASE StartMonitor
  BY <1>8 DEF StartMonitor
<1>9. CASE StopMonitor
  BY <1>9 DEF StopMonitor
<1>10. CASE MonitorWake
  BY <1>10 DEF MonitorWake
<1>11. CASE MonitorRest
  BY <1>11 DEF MonitorRest
<1>12. ASSUME NEW o \in Orders, MonitorCheck(o)
       PROVE  Fresh'
  <2>1. tracked[idOf[o]] = o /\ UNCHANGED <<recVars, sends, aged, asked>>
    BY <1>12 DEF MonitorCheck
  <2>2. CASE UNCHANGED <<status, fills, closes, call, cur>>
    BY <2>1, <2>2
  <2>3. CASE /\ Stale(o) /\ UNCHANGED <<call, cur>>
             /\ Close(o, "CANCELLED") \/ Close(o, "TIMED_OUT")
    BY <2>1, <2>3, <1>12 DEF Stale, Close, MonitorCheck
  <2>4. CASE /\ Stale(o) /\ call' = [call EXCEPT ![Monitor] = o] /\ cur' = o
             /\ UNCHANGED <<status, fills, closes>>
    BY <2>1, <2>4 DEF Stale
  <2> QED
    BY <1>12, <2>1, <2>2, <2>3, <2>4 DEF MonitorCheck, MarkTimedOut
<1>13. ASSUME NEW o \in Orders, VenueAccepts(o) \/ VenueExecutes(o)
       PROVE  Fresh'
  BY <1>13 DEF VenueAccepts, VenueExecutes
<1>14. ASSUME NEW o \in Orders, Age(o)
       PROVE  Fresh'
  BY <1>14 DEF Age
<1>15. ASSUME NEW o \in Orders, SubmitCancelled(o)
       PROVE  Fresh'
  BY <1>15 DEF SubmitCancelled
<1>16. CASE UNCHANGED vars
  BY <1>16
<1> HIDE DEF Fresh, Inv
<1>17. CASE Next
  BY <1>1, <1>2, <1>3, <1>4, <1>5, <1>6, <1>7, <1>8, <1>9, <1>10, <1>11, <1>12,
     <1>13, <1>14, <1>15, <1>17 DEF Next, MonitorStep
<1> QED
  BY <1>16, <1>17

\* UniqueInv holds in every reachable state.
LEMMA Uniqueness == Spec => []UniqueInv
<1>1. Init => UniqueInv
  BY InitFresh DEF UniqueInv
<1>2. Inv /\ UniqueInv /\ [Next]_vars => UniqueInv'
  BY NextFresh, ModeIsFixed DEF UniqueInv
<1> QED
  BY <1>1, <1>2, Invariance, PTL DEF Spec

\* An open order is found under its id if ids are not reused, and its exchange id is
\* missing only while its placement is awaited or when the task awaiting it was
\* cancelled (submit, cancel), however the coroutines interleave.
THEOREM OpenOrdersReachable == Spec => []OpenIsReachable
<1>1. Inv => PlacementKnown
  BY DEF Inv
<1>2. UniqueInv => FoundById
  BY DEF UniqueInv, Fresh, KeyInv, Submitted, FoundById, Open
<1> QED
  BY <1>1, <1>2, Invariance, Uniqueness, PTL DEF OpenIsReachable

\* With unique ids, an order is CANCELLED or TIMED_OUT only if it outlived its
\* timeout or a user asked for it (cancel, _check_timeouts).
THEOREM CancelsHaveCauses == Spec => []CancelHasCause
<1>1. UniqueInv => CancelHasCause
  BY DEF UniqueInv, Fresh, CauseInv, CancelHasCause
<1> QED
  BY <1>1, Uniqueness, PTL

\* With unique ids, contradictory callbacks need a cancel or a timeout that
\* raced with submit().
THEOREM ContradictionsNeedARace == Spec => []ContradictionNeedsARace
<1>1. Inv /\ UniqueInv => ContradictionNeedsARace
  BY DEF Inv, TypeOK, UniqueInv, Fresh, CauseInv, ContradictionNeedsARace
<1> QED
  BY <1>1, Uniqueness, Invariance, PTL

-----------------------------------------------------------------------------
(* The manager implements OrderLedger. *)

\* The initial state is one of the ledger's.
LEMMA InitRefines == Init => Ledger!Init
  BY DEF Init, Ledger!Init, Phase, Open

\* A step that fills o, whose fill was not reported, is one of the ledger's.
LEMMA FillRefines ==
  ASSUME TypeOK, NEW o \in Orders, status[o] \in Terminal => fills[o] = 0, Fill(o)
  PROVE  Ledger!Next
<1>1. [q \in Orders |-> Phase(q)]' = [[q \in Orders |-> Phase(q)] EXCEPT ![o] = "settled"]
  BY DEF TypeOK, Fill, Phase, Open
<1>2. Ledger!NotifyFill(o)
  BY DEF Fill, Ledger!NotifyFill
<1>3. CASE Phase(o) = "settled"
  <2>1. UNCHANGED [q \in Orders |-> Phase(q)]
    BY <1>1, <1>3
  <2>2. status[o] \in Terminal
    BY <1>3 DEF TypeOK, Statuses, Phase, Open
  <2> QED
    BY <1>2, <1>3, <2>1, <2>2 DEF Ledger!Next, Ledger!Repeat
<1>4. CASE Phase(o) # "settled"
  BY <1>1, <1>2, <1>4 DEF Ledger!Next, Ledger!Settle
<1> QED
  BY <1>3, <1>4

\* A step that closes o is one of the ledger's.
LEMMA CloseRefines ==
  ASSUME TypeOK, NEW o \in Orders, NEW st \in Terminal, Close(o, st)
  PROVE  Ledger!Next
<1>1. [q \in Orders |-> Phase(q)]' = [[q \in Orders |-> Phase(q)] EXCEPT ![o] = "settled"]
  BY DEF TypeOK, Close, Phase, Open, Terminal
<1>2. Ledger!NotifyClose(o)
  BY DEF Close, Ledger!NotifyClose
<1>3. CASE Phase(o) = "settled"
  <2>1. UNCHANGED [q \in Orders |-> Phase(q)]
    BY <1>1, <1>3
  <2> QED
    BY <1>2, <1>3, <2>1 DEF Ledger!Next, Ledger!Repeat
<1>4. CASE Phase(o) # "settled"
  BY <1>1, <1>2, <1>4 DEF Ledger!Next, Ledger!Settle
<1> QED
  BY <1>3, <1>4

\* A step that leaves records and notifications alone is a stutter.
LEMMA QuietRefines ==
  ASSUME UNCHANGED <<status, fills, closes>>
  PROVE  UNCHANGED Ledger!vars
  BY DEF Ledger!vars, Phase, Open

\* Every step of the manager is a step of the ledger or a stutter.
LEMMA NextRefines == Inv /\ [Next]_vars => [Ledger!Next]_(Ledger!vars)
<1> SUFFICES ASSUME Inv, [Next]_vars PROVE [Ledger!Next]_(Ledger!vars)
  OBVIOUS
<1> DEFINE Goal == Ledger!Next \/ UNCHANGED Ledger!vars
<1>0. TypeOK /\ WaitingInv /\ RefsInv /\ Reported
  BY DEF Inv
<1>1. ASSUME NEW o \in Orders, NEW id \in Ids, NEW k \in Kinds, Submit(o, id, k)
      PROVE  Goal
  <2>1. CASE Fill(o)
    BY <1>0, <1>1, <2>1, FillRefines DEF Submit, Terminal
  <2>2. CASE Close(o, "FAILED")
    BY <1>0, <2>2, CloseRefines DEF Terminal
  <2>3. CASE status' = [status EXCEPT ![o] = "SUBMITTED"] /\ UNCHANGED <<fills, closes>>
    <3>1. Phase(o) = "new"
      BY <1>1 DEF Submit, Phase, Open
    <3>2. [q \in Orders |-> Phase(q)]' = [[q \in Orders |-> Phase(q)] EXCEPT ![o] = "open"]
      BY <1>0, <2>3 DEF TypeOK, Phase, Open
    <3> QED
      BY <2>3, <3>1, <3>2 DEF Ledger!Next, Ledger!Begin
  <2> QED
    BY <1>1, <2>1, <2>2, <2>3 DEF Submit
<1>2. ASSUME NEW o \in Orders, PlaceReply(o)
      PROVE  Goal
  <2>1. CASE Fill(o)
    <3>1. fills[o] = 0
      BY <1>0, <1>2 DEF PlaceReply, WaitingInv
    <3> QED
      BY <1>0, <2>1, <3>1, FillRefines
  <2>2. CASE Acknowledge(o)
    BY <2>2, QuietRefines DEF Acknowledge
  <2> QED
    BY <1>2, <2>1, <2>2 DEF PlaceReply
<1>3. ASSUME NEW o \in Orders, PlaceError(o)
      PROVE  Goal
  BY <1>0, <1>3, CloseRefines DEF PlaceError, Terminal
<1>4. ASSUME NEW u \in Users, NEW id \in Ids, UserCancel(u, id)
      PROVE  Goal
  <2>1. tracked[id] \in Orders
    BY <1>0, <1>4 DEF UserCancel, TypeOK
  <2>2. CASE Close(tracked[id], "CANCELLED")
    BY <1>0, <2>1, <2>2, CloseRefines DEF Terminal
  <2>3. CASE UNCHANGED <<status, fills, closes>>
    BY <2>3, QuietRefines
  <2> QED
    BY <1>4, <2>2, <2>3 DEF UserCancel
<1>5. ASSUME NEW c \in Callers, CancelReply(c)
      PROVE  Goal
  <2>1. call[c] \in Orders /\ Close(call[c], "CANCELLED")
    BY <1>0, <1>5 DEF CancelReply, TypeOK
  <2> QED
    BY <1>0, <2>1, CloseRefines DEF Terminal
<1>6. ASSUME NEW c \in Callers, CancelError(c)
      PROVE  Goal
  <2>1. CASE c = Monitor /\ Close(cur, "TIMED_OUT")
    <3>1. cur \in Orders
      BY <1>0, <1>6, <2>1 DEF CancelError, RefsInv
    <3> QED
      BY <1>0, <2>1, <3>1, CloseRefines DEF Terminal
  <2>2. CASE UNCHANGED <<status, fills, closes>>
    BY <2>2, QuietRefines
  <2> QED
    BY <1>6, <2>1, <2>2 DEF CancelError, MarkTimedOut
<1>7. ASSUME NEW o \in Orders, MonitorCheck(o)
      PROVE  Goal
  <2>1. tracked[idOf[o]] \in Orders
    BY <1>0, <1>7 DEF MonitorCheck, RefsInv, Submitted
  <2>2. CASE Close(tracked[idOf[o]], "CANCELLED")
    BY <1>0, <2>1, <2>2, CloseRefines DEF Terminal
  <2>3. CASE Close(o, "TIMED_OUT")
    BY <1>0, <2>3, CloseRefines DEF Terminal
  <2>4. CASE UNCHANGED <<status, fills, closes>>
    BY <2>4, QuietRefines
  <2> QED
    BY <1>7, <2>2, <2>3, <2>4 DEF MonitorCheck, MarkTimedOut
<1>8. CASE \/ RegisterRouter \/ StartMonitor \/ StopMonitor
           \/ MonitorWake \/ MonitorRest
  BY <1>8, QuietRefines
  DEF RegisterRouter, StartMonitor, StopMonitor, MonitorWake, MonitorRest
<1>9. ASSUME NEW o \in Orders,
             SubmitCancelled(o) \/ VenueAccepts(o) \/ VenueExecutes(o) \/ Age(o)
      PROVE  Goal
  BY <1>9, QuietRefines DEF SubmitCancelled, VenueAccepts, VenueExecutes, Age
<1>10. CASE UNCHANGED vars
  BY <1>10, QuietRefines DEF vars
<1> QED
  BY <1>1, <1>2, <1>3, <1>4, <1>5, <1>6, <1>7, <1>8, <1>9, <1>10
  DEF Next, MonitorStep

\* The manager keeps the promise of OrderLedger whatever ids its callers choose:
\* one settlement per order, notified in the same step, and never open again.
THEOREM ImplementsLedger == Spec => LedgerSpec
  BY InitRefines, NextRefines, Invariance, PTL DEF Spec, LedgerSpec, Ledger!Spec
=============================================================================
