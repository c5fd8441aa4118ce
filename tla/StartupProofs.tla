--------------------------- MODULE StartupProofs ---------------------------
(***************************************************************************)
(* Proofs about Startup, for any account, any saved row, and any number of *)
(* restarts and moves: a HALT leaves the checkpoint and the account alone, *)
(* what the bot believes it holds was held, and, as long as it can read    *)
(* the checkpoint, it never processes as an orphan what it manages.        *)
(***************************************************************************)
EXTENDS Startup, TLAPS

\* The phases before adoption, in which nothing has been done yet.
Early == {"health", "scan", "load", "fetchX", "decide", "halted"}

\* Up to the decision the workflow only reads; a row is being reconciled only if
\* there is one.
Untouched ==
  /\ pc \in Early => results = {} /\ row = before /\ resumed = NoRow
  /\ pc \in {"fetchX", "decide"} => row # NoRow
  /\ resumed # NoRow => resumed = before

Inv1 == TypeOK /\ Untouched

\* A reduce-only order leaves the position within its bound.
LEMMA ReduceType ==
  ASSUME NEW v \in Qty, NEW q \in Qty
  PROVE  Reduce(v, q) \in Qty
  BY StartupAssumption DEF Reduce, Qty

\* The position a startup reads from the exchange is a quantity, or the fetch failed.
LEMMA AnswersType ==
  ASSUME TypeOK, NEW s \in Symbols
  PROVE  Answers(s) \subseteq Qty \cup {Failed}
<1>1. 0 \in Qty
  BY StartupAssumption DEF Qty
<1> QED
  BY <1>1 DEF Answers, TypeOK

\* A first startup has read nothing and done nothing.
LEMMA Inv1Init == Init => Inv1
<1> SUFFICES ASSUME Init PROVE Inv1
  OBVIOUS
<1>1. held \in [Symbols -> SUBSET Qty]
  BY DEF Init
<1>2. row \in Row \cup {NoRow}
  BY StartupAssumption DEF Init
<1>3. orphans \subseteq [sym : Symbols, qty : Qty \ {0}] /\ results \subseteq [sym : Symbols, qty : Qty, decision : Decision]
  BY DEF Init
<1> QED
  BY <1>1, <1>2, <1>3 DEF Init, Inv1, TypeOK, Untouched, Early

\* Only adoption changes the account or the row; every earlier phase leaves both
\* as it found them, however fetches, the database and restarts go.
LEMMA Inv1Step == Inv1 /\ [Next]_vars => Inv1'
<1> SUFFICES ASSUME Inv1, [Next]_vars PROVE Inv1'
  OBVIOUS
<1> USE StartupAssumption DEF Inv1, TypeOK, Untouched, Early
<1>1. CASE HealthPasses
  BY <1>1 DEF HealthPasses, account, memory
<1>2. CASE HealthFails
  BY <1>2 DEF HealthFails, Halt, account, memory
<1>3. CASE Scan
  <2>1. orphans' \subseteq [sym : Symbols, qty : Qty \ {0}]
    BY <1>3 DEF Scan, Position
  <2> QED BY <1>3, <2>1 DEF Scan, account
<1>4. CASE ScanFails
  BY <1>4 DEF ScanFails, account, memory
<1>5. CASE NothingSaved
  BY <1>5 DEF NothingSaved, account, memory
<1>6. CASE FetchY
  <2>1. row.y \in Symbols
    BY <1>6 DEF FetchY, Row
  <2>2. readY' \in Qty \cup {Failed}
    BY <1>6, <2>1, AnswersType DEF FetchY
  <2> QED BY <1>6, <2>2 DEF FetchY, account
<1>7. CASE FetchX
  <2>1. row.x \in Symbols
    BY <1>7 DEF FetchX, Row
  <2>2. readX' \in Qty \cup {Failed}
    BY <1>7, <2>1, AnswersType DEF FetchX
  <2> QED BY <1>7, <2>2 DEF FetchX, account
<1>8. CASE CannotVerify
  BY <1>8 DEF CannotVerify, Halt, account, memory
<1>9. CASE Vanished
  BY <1>9 DEF Vanished, Saved, account, memory
<1>10. CASE Resume
  BY <1>10 DEF Resume, account
<1>11. CASE Discrepancy
  BY <1>11 DEF Discrepancy, Halt, account, memory
<1>12. ASSUME NEW o \in orphans, MonitorOrphan(o) PROVE Inv1'
  <2>1. results' \subseteq [sym : Symbols, qty : Qty, decision : Decision]
    BY <1>12 DEF MonitorOrphan, Decides, Decision
  <2> QED BY <1>12, <2>1 DEF MonitorOrphan, Decides, Processed, account
<1>13. ASSUME NEW o \in orphans, CloseOrphan(o) PROVE Inv1'
  <2>1. results' \subseteq [sym : Symbols, qty : Qty, decision : Decision]
    BY <1>13 DEF CloseOrphan, Decides, Decision
  <2>2. o.sym \in Symbols /\ venue[o.sym] \in Qty /\ Reduce(venue[o.sym], o.qty) \in Qty
    BY ReduceType
  <2>3. venue' \in [Symbols -> Qty] /\ held' \in [Symbols -> SUBSET Qty]
    BY <1>13, <2>2 DEF CloseOrphan
  <2> QED BY <1>13, <2>1, <2>3 DEF CloseOrphan, Decides, Processed
<1>14. ASSUME NEW o \in orphans, AdoptOrphan(o) PROVE Inv1'
  <2>1. results' \subseteq [sym : Symbols, qty : Qty, decision : Decision]
    BY <1>14 DEF AdoptOrphan, Decides, Decision
  <2>2. row' \in Row \cup {NoRow}
    <3>1. Single(o) \in Row
      BY DEF Single, Row, Qty
    <3> QED BY <3>1, <1>14 DEF AdoptOrphan, Saved
  <2> QED BY <1>14, <2>1, <2>2 DEF AdoptOrphan, Decides, Processed, account
<1>15. CASE AdoptionFails
  BY <1>15 DEF AdoptionFails, account, memory
<1>16. CASE Complete
  BY <1>16 DEF Complete, account, memory
<1>17. CASE Restart
  <2>1. held' \in [Symbols -> SUBSET Qty]
    BY <1>17 DEF Restart
  <2>2. Untouched'
    BY <1>17 DEF Restart
  <2>3. /\ venue' \in [Symbols -> Qty] /\ starts' \in Nat /\ moves' \in Nat /\ blind' \in BOOLEAN
        /\ scanned' \in BOOLEAN /\ row' \in Row \cup {NoRow} /\ before' \in Row \cup {NoRow}
    <3>1. blind' = FALSE /\ scanned' = FALSE
      BY <1>17 DEF Restart
    <3>2. UNCHANGED <<venue, moves, row>> /\ starts' = starts + 1 /\ before' = row
      BY <1>17 DEF Restart
    <3>3. starts' \in Nat
      BY <3>2
    <3> HIDE DEF Untouched
    <3>4. venue' \in [Symbols -> Qty] /\ moves' \in Nat
      BY <3>2
    <3>5. row' \in Row \cup {NoRow} /\ before' \in Row \cup {NoRow}
      BY <3>2
    <3> QED BY <3>1, <3>3, <3>4, <3>5
  <2>4. /\ orphans' \subseteq [sym : Symbols, qty : Qty \ {0}]
        /\ results' \subseteq [sym : Symbols, qty : Qty, decision : Decision]
    BY <1>17 DEF Restart
  <2> HIDE DEF Untouched
  <2> QED BY <1>17, <2>1, <2>2, <2>3, <2>4 DEF Restart
<1>18. ASSUME NEW s \in Symbols, OthersMove(s) PROVE Inv1'
  BY <1>18 DEF OthersMove, process, memory
<1>19. CASE UNCHANGED vars
  BY <1>19 DEF vars, account, process, memory
<1> HIDE DEF Inv1
<1> QED
  BY <1>1, <1>2, <1>3, <1>4, <1>5, <1>6, <1>7, <1>8, <1>9, <1>10, <1>11, <1>12, <1>13,
     <1>14, <1>15, <1>16, <1>17, <1>18, <1>19 DEF Next, Workflow, Reconcile, Adopt

\* Every variable keeps its type.
THEOREM TypeCorrect == Spec => []TypeOK
<1>1. Inv1 => TypeOK
  BY DEF Inv1
<1> QED BY Inv1Init, Inv1Step, <1>1, PTL DEF Spec

\* However the startup comes to a HALT, it has sent no order and the checkpoint is
\* what it was.
THEOREM HaltIsClean == Spec => []HaltedTouchesNothing
<1>1. Inv1 => HaltedTouchesNothing
  BY DEF Inv1, Untouched, HaltedTouchesNothing, Early
<1> QED BY Inv1Init, Inv1Step, <1>1, PTL DEF Spec

-----------------------------------------------------------------------------
(* What the bot believes it holds.                                         *)

\* A reading was held by the leg it is a reading of; the router always reads 0.
ReadHeld ==
  /\ ccxt /\ readY # Failed => before # NoRow /\ readY \in held[before.y]
  /\ ccxt /\ readX # Failed => before # NoRow /\ readX \in held[before.x]
  /\ ~ccxt => readY \in {0, Failed} /\ readX \in {0, Failed}

Inv2 ==
  /\ \A s \in Symbols : venue[s] \in held[s]
  /\ ReadHeld
  /\ \A o \in orphans : o.qty \in held[o.sym]
  /\ BeliefWasHeld

\* A leg that agrees with a quantity that is not 0 was read, and so was held.
LEMMA AgreeingLegWasHeld ==
  ASSUME TypeOK, NEW s \in Symbols, NEW q \in Qty \ {0}, NEW answer \in Qty \cup {Failed},
         answer # Failed => answer \in held[s],
         Within(Seen(answer), Abs(q))
  PROVE  WasHeld(s, q)
<1>1. CASE answer = Failed
  <2>1. Seen(answer) = 0 /\ Abs(q) \in Nat \ {0}
    BY <1>1, StartupAssumption DEF Seen, Abs, Qty
  <2> QED BY <2>1 DEF Within, Abs
<1>2. CASE answer # Failed
  BY <1>2 DEF Seen, WasHeld
<1> QED BY <1>1, <1>2

\* A step that believes nothing new, and forgets nothing the account held, keeps Inv2.
LEMMA BelievesNothingNew ==
  ASSUME Inv1, Inv2,
         \A s \in Symbols : held[s] \subseteq held'[s] /\ venue'[s] \in held'[s],
         UNCHANGED <<ccxt, before, readY, readX, resumed, results>>,
         orphans' \subseteq orphans, row' \in {row, NoRow}
  PROVE  Inv2'
<1> USE DEF Inv1, TypeOK
<1>1. ReadHeld'
  BY DEF Inv2, ReadHeld, Row
<1>2. \A o \in orphans' : o.qty \in held'[o.sym]
  BY DEF Inv2
<1>3. ASSUME NEW s \in Symbols, NEW q, WasHeld(s, q) PROVE WasHeld(s, q)'
  BY <1>3 DEF WasHeld
<1>4. BeliefWasHeld'
  <2>1. \A r \in results' : r.qty \in held'[r.sym]
    BY DEF Inv2, BeliefWasHeld
  <2>2. row' \notin {NoRow, before'} => row'.qy \in held'[row'.y]
    BY DEF Inv2, BeliefWasHeld, Row
  <2>3. ASSUME resumed # NoRow
        PROVE  /\ WasHeld(resumed.y, resumed.qy)'
               /\ resumed.qx # 0 => WasHeld(resumed.x, resumed.qx)'
    <3>1. resumed.y \in Symbols /\ resumed.x \in Symbols
      BY <2>3 DEF Row
    <3> QED BY <2>3, <3>1, <1>3 DEF Inv2, BeliefWasHeld
  <2> QED BY <2>1, <2>2, <2>3 DEF BeliefWasHeld
<1> QED BY <1>1, <1>2, <1>4 DEF Inv2

\* At a first startup what each symbol holds is all it has held.
LEMMA Inv2Init == Init => Inv2
<1> SUFFICES ASSUME Init PROVE Inv2
  OBVIOUS
<1>1. \A s \in Symbols : venue[s] \in held[s]
  BY DEF Init
<1>2. ReadHeld
  BY DEF Init, ReadHeld
<1>3. BeliefWasHeld
  BY DEF Init, BeliefWasHeld
<1> QED BY <1>1, <1>2, <1>3 DEF Init, Inv2

\* Every reading, orphan and saved quantity stays within what its symbol has held:
\* scan, fetch and save copy quantities from the account and invent none.
LEMMA Inv2Step == Inv1 /\ Inv2 /\ [Next]_vars => Inv2'
<1> SUFFICES ASSUME Inv1, Inv2, [Next]_vars PROVE Inv2'
  OBVIOUS
<1>0. UNCHANGED account => /\ UNCHANGED ccxt
                           /\ \A s \in Symbols : held[s] \subseteq held'[s] /\ venue'[s] \in held'[s]
  BY DEF Inv2, account
<1>1. CASE HealthPasses
  BY <1>0, <1>1, BelievesNothingNew DEF HealthPasses, memory
<1>2. CASE HealthFails
  BY <1>0, <1>2, BelievesNothingNew DEF HealthFails, Halt, memory
<1>3. CASE Scan
  <2> USE <1>3 DEF Scan, account, Inv1, TypeOK, Untouched, Early, Inv2
  <2>1. \A o \in orphans' : o.qty \in held'[o.sym]
    BY DEF Position
  <2>2. ReadHeld'
    BY DEF ReadHeld
  <2>3. BeliefWasHeld'
    BY DEF BeliefWasHeld
  <2> QED BY <2>1, <2>2, <2>3
<1>4. CASE ScanFails
  BY <1>0, <1>4, BelievesNothingNew DEF ScanFails, memory
<1>5. CASE NothingSaved
  BY <1>0, <1>5, BelievesNothingNew DEF NothingSaved, memory
<1>6. CASE FetchY
  <2> USE <1>6 DEF FetchY, account, Inv1, TypeOK, Untouched, Early, Inv2
  <2>1. ReadHeld'
    BY DEF ReadHeld, Answers, Row
  <2>2. BeliefWasHeld'
    BY DEF BeliefWasHeld
  <2> QED BY <2>1, <2>2
<1>7. CASE FetchX
  <2> USE <1>7 DEF FetchX, account, Inv1, TypeOK, Untouched, Early, Inv2
  <2>1. ReadHeld'
    BY DEF ReadHeld, Answers, Row
  <2>2. BeliefWasHeld'
    BY DEF BeliefWasHeld
  <2> QED BY <2>1, <2>2
<1>8. CASE CannotVerify
  BY <1>0, <1>8, BelievesNothingNew DEF CannotVerify, Halt, memory
<1>9. CASE Vanished
  BY <1>0, <1>9, BelievesNothingNew DEF Vanished, Saved, memory
<1>10. CASE Resume
  <2> USE <1>10 DEF Resume, account, Inv1, TypeOK, Untouched, Early, Inv2
  <2>1. ccxt
    BY DEF ReadHeld, Gone, Seen, Unverified, Abs
  <2>2. /\ row = before /\ row \in Row
        /\ row.y \in Symbols /\ row.x \in Symbols /\ row.qy \in Qty \ {0} /\ row.qx \in Qty
    BY DEF Row
  <2>3. WasHeld(row.y, row.qy)
    <3>1. Within(Seen(readY), Abs(row.qy))
      BY DEF Agrees
    <3>2. readY # Failed => readY \in held[row.y]
      BY <2>1, <2>2 DEF ReadHeld
    <3> HIDE DEF Resume, account, Inv1, Inv2, Untouched, Early
    <3> QED BY <2>2, <3>1, <3>2, AgreeingLegWasHeld DEF Inv1
  <2>4. row.qx # 0 => WasHeld(row.x, row.qx)
    <3>1. Within(Seen(readX), Abs(row.qx))
      BY DEF Agrees
    <3>2. readX # Failed => readX \in held[row.x]
      BY <2>1, <2>2 DEF ReadHeld
    <3> HIDE DEF Resume, account, Inv1, Inv2, Untouched, Early
    <3> QED BY <2>2, <3>1, <3>2, AgreeingLegWasHeld DEF Inv1
  <2>5. BeliefWasHeld'
    BY <2>3, <2>4 DEF BeliefWasHeld, WasHeld
  <2>6. ReadHeld'
    BY DEF ReadHeld
  <2> QED BY <2>5, <2>6
<1>11. CASE Discrepancy
  BY <1>0, <1>11, BelievesNothingNew DEF Discrepancy, Halt, memory
<1>12. ASSUME NEW o \in orphans, MonitorOrphan(o) PROVE Inv2'
  <2> USE <1>12 DEF MonitorOrphan, Decides, Processed, account, Inv2
  <2>1. BeliefWasHeld'
    BY DEF BeliefWasHeld, WasHeld
  <2>2. ReadHeld'
    BY DEF ReadHeld
  <2> QED BY <2>1, <2>2
<1>13. ASSUME NEW o \in orphans, CloseOrphan(o) PROVE Inv2'
  <2> USE <1>13 DEF CloseOrphan, Decides, Processed, Inv2
  <2>1. \A s \in Symbols : held[s] \subseteq held'[s] /\ venue'[s] \in held'[s]
    BY DEF Inv1, TypeOK
  <2>2. ReadHeld'
    BY <2>1 DEF ReadHeld, Inv1, TypeOK, Row
  <2>3. \A r \in results' : r.qty \in held'[r.sym]
    <3>1. o.qty \in held'[o.sym]
      BY <2>1 DEF Inv1, TypeOK
    <3>2. \A r \in results : r.qty \in held'[r.sym]
      BY <2>1 DEF Inv1, TypeOK, BeliefWasHeld
    <3> QED BY <3>1, <3>2
  <2>4. \A p \in orphans' : p.qty \in held'[p.sym]
    BY <2>1 DEF Inv1, TypeOK
  <2>5. resumed # NoRow =>
          /\ WasHeld(resumed.y, resumed.qy)'
          /\ resumed.qx # 0 => WasHeld(resumed.x, resumed.qx)'
    BY <2>1 DEF BeliefWasHeld, WasHeld, Inv1, TypeOK, Row
  <2>6. row' \notin {NoRow, before'} => row'.qy \in held'[row'.y]
    BY <2>1 DEF BeliefWasHeld, Inv1, TypeOK, Row
  <2> QED BY <2>1, <2>2, <2>3, <2>4, <2>5, <2>6 DEF BeliefWasHeld
<1>14. ASSUME NEW o \in orphans, AdoptOrphan(o) PROVE Inv2'
  <2> USE <1>14 DEF AdoptOrphan, Decides, Processed, account, Inv2
  <2>1. row' \notin {NoRow, before'} => row'.qy \in held'[row'.y]
    BY DEF BeliefWasHeld, Saved, Single
  <2>2. BeliefWasHeld'
    BY <2>1 DEF BeliefWasHeld, WasHeld
  <2>3. ReadHeld'
    BY DEF ReadHeld
  <2> QED BY <2>2, <2>3
<1>15. CASE AdoptionFails
  BY <1>0, <1>15, BelievesNothingNew DEF AdoptionFails
<1>16. CASE Complete
  BY <1>0, <1>16, BelievesNothingNew DEF Complete, memory
<1>17. CASE Restart
  <2> USE <1>17 DEF Restart
  <2>1. BeliefWasHeld' /\ ReadHeld'
    BY DEF BeliefWasHeld, ReadHeld
  <2> QED BY <2>1 DEF Inv2
<1>18. ASSUME NEW s \in Symbols, OthersMove(s) PROVE Inv2'
  <2>1. \A t \in Symbols : held[t] \subseteq held'[t] /\ venue'[t] \in held'[t]
    BY <1>18 DEF OthersMove, Inv1, TypeOK, Inv2
  <2> QED BY <1>18, <2>1, BelievesNothingNew DEF OthersMove, process, memory
<1>19. CASE UNCHANGED vars
  BY <1>0, <1>19, BelievesNothingNew DEF vars, process, memory
<1> QED
  BY <1>1, <1>2, <1>3, <1>4, <1>5, <1>6, <1>7, <1>8, <1>9, <1>10, <1>11, <1>12, <1>13,
     <1>14, <1>15, <1>16, <1>17, <1>18, <1>19 DEF Next, Workflow, Reconcile, Adopt

\* Whatever the account does between the scan, the fetches and the adoption, the bot
\* resumes, saves and processes only quantities that were held during this startup.
THEOREM BeliefIsGrounded == Spec => []BeliefWasHeld
<1>1. Inv2 => BeliefWasHeld
  BY DEF Inv2
<1> QED BY Inv1Init, Inv1Step, Inv2Init, Inv2Step, <1>1, PTL DEF Spec

-----------------------------------------------------------------------------
(* What the workflow manages, as long as it can read the checkpoint.       *)

Inv3 ==
  ~blind =>
    /\ \A o \in orphans : o.sym \notin Legs(before)
    /\ \A r \in results : r.sym \notin Legs(before)

\* A step that processes and finds no orphan keeps Inv3.
LEMMA Inv3Step == Inv1 /\ Inv3 /\ [Next]_vars => Inv3'
<1> SUFFICES ASSUME Inv1, Inv3, [Next]_vars PROVE Inv3'
  OBVIOUS
<1> USE DEF Inv3, memory
<1>1. CASE HealthPasses \/ HealthFails \/ ScanFails
  BY <1>1 DEF HealthPasses, HealthFails, ScanFails, Halt
<1>2. CASE Scan
  <2>1. row = before /\ results = {}
    BY <1>2 DEF Scan, Inv1, Untouched, Early
  <2>2. PICK r \in Loaded :
          /\ orphans' = {Position(s) : s \in {t \in Symbols \ KnownSymbols(r) : venue[t] # 0}}
          /\ blind' = (r # row)
    BY <1>2 DEF Scan
  <2>3. results' = results /\ before' = before
    BY <1>2 DEF Scan
  <2>4. ASSUME ~blind', NEW o \in orphans' PROVE o.sym \notin Legs(before)
    <3>1. r = row
      BY <2>2, <2>4
    <3>2. PICK s \in Symbols \ KnownSymbols(row) : o = Position(s)
      BY <2>2, <2>4, <3>1
    <3> QED BY <2>1, <3>2 DEF Position, KnownSymbols
  <2> QED BY <2>1, <2>3, <2>4
<1>3. CASE Reconcile
  <2>1. UNCHANGED orphans /\ UNCHANGED results /\ UNCHANGED before
    <3>1. CASE NothingSaved \/ CannotVerify \/ Vanished \/ Discrepancy
      BY <3>1 DEF NothingSaved, CannotVerify, Vanished, Discrepancy
    <3>2. CASE FetchY \/ FetchX \/ Resume
      BY <3>2 DEF FetchY, FetchX, Resume
    <3> QED BY <1>3, <3>1, <3>2 DEF Reconcile
  <2>2. ~blind' => ~blind
    <3>1. CASE NothingSaved
      BY <3>1 DEF NothingSaved
    <3>2. CASE ~NothingSaved
      <4>1. blind' = blind
        BY <1>3, <3>2 DEF Reconcile, FetchY, FetchX, CannotVerify, Vanished, Resume, Discrepancy
      <4> QED BY <4>1
    <3> QED BY <3>1, <3>2
  <2> QED BY <2>1, <2>2
<1>4. ASSUME NEW o \in orphans, NEW d \in Decision, Decides(o, d) PROVE Inv3'
  BY <1>4 DEF Decides, Processed
<1>5. CASE Adopt
  BY <1>5, <1>4 DEF Adopt, MonitorOrphan, CloseOrphan, AdoptOrphan, AdoptionFails, Complete, Decision
<1>6. CASE Restart
  BY <1>6 DEF Restart
<1>7. CASE UNCHANGED process
  BY <1>7 DEF process
<1>8. ASSUME NEW s \in Symbols, OthersMove(s) PROVE UNCHANGED process
  BY <1>8 DEF OthersMove
<1> HIDE DEF Inv3
<1> QED
  BY <1>1, <1>2, <1>3, <1>5, <1>6, <1>7, <1>8 DEF Next, Workflow, vars

\* A startup that can read the checkpoint never processes as an orphan a leg of the
\* row it started from, nor of the position it resumed.
THEOREM OwnIsSafe == Spec => []NeverClosesItsOwn
<1>1. Init => Inv3
  BY DEF Init, Inv3
<1>2. Inv1 /\ Inv3 /\ [Next]_vars => Inv3'
  BY Inv3Step
<1>3. Inv1 /\ Inv3 => NeverClosesItsOwn
  BY DEF Inv1, Untouched, Inv3, NeverClosesItsOwn, Legs
<1> QED BY Inv1Init, Inv1Step, <1>1, <1>2, <1>3, PTL DEF Spec
-----------------------------------------------------------------------------
(* What the workflow leaves to nobody.                                     *)

\* s holds a position that has stayed as it was throughout the startup, and the row
\* saved before it says nothing of s.
Kept(s)    == held[s] = {venue[s]} /\ venue[s] # 0
Foreign(s) == Kept(s) /\ s \notin Legs(before)

Awaits(s)  == \E o \in orphans : o.sym = s
Treated(s) == \E r \in results : r.sym = s

\* From the scan on such a position is an orphan that waits or was decided upon.
Inv4 ==
  /\ pc \in {"health", "scan"} => ~scanned
  /\ pc = "done" => orphans = {}
  /\ scanned /\ ~blind => \A s \in Symbols : Foreign(s) => Treated(s) \/ Awaits(s)

\* What stays as it was after a step was so before it: held only grows.
LEMMA KeptWasKept ==
  ASSUME Inv2, NEW s \in Symbols, held[s] \subseteq held'[s], Kept(s)'
  PROVE  Kept(s)
  BY DEF Kept, Inv2

\* A step that takes no orphan off the list and no result away keeps Inv4.
LEMMA LosesNothing ==
  ASSUME Inv2, Inv4, \A s \in Symbols : held[s] \subseteq held'[s],
         UNCHANGED <<orphans, results, before, scanned>>, blind => blind',
         pc' \in {"health", "scan"} => pc \in {"health", "scan"},
         pc' = "done" => pc = "done"
  PROVE  Inv4'
<1>1. \A s \in Symbols : Foreign(s)' => Foreign(s)
  BY KeptWasKept DEF Foreign
<1>2. \A s \in Symbols : (Treated(s) => Treated(s)') /\ (Awaits(s) => Awaits(s)')
  BY DEF Treated, Awaits
<1> QED BY <1>1, <1>2 DEF Inv4

\* The scan finds every position the checkpoint does not name; the loop over the
\* orphans decides upon each before it ends.
LEMMA Inv4Step == Inv1 /\ Inv2 /\ Inv4 /\ [Next]_vars => Inv4'
<1> SUFFICES ASSUME Inv1, Inv2, Inv4, [Next]_vars PROVE Inv4'
  OBVIOUS
<1>0. UNCHANGED account => \A s \in Symbols : held[s] \subseteq held'[s]
  BY DEF account
<1>1. CASE HealthPasses \/ HealthFails
  BY <1>0, <1>1, LosesNothing DEF HealthPasses, HealthFails, Halt, memory
<1>2. CASE ScanFails
  BY <1>2 DEF ScanFails, memory, Inv4
<1>3. CASE Scan
  <2>1. PICK r \in Loaded :
          /\ orphans' = {Position(s) : s \in {t \in Symbols \ KnownSymbols(r) : venue[t] # 0}}
          /\ blind' = (r # row)
    BY <1>3 DEF Scan
  <2>2. row = before /\ before' = before
    BY <1>3 DEF Scan, Inv1, Untouched, Early
  <2>3. ASSUME ~blind', NEW s \in Symbols, Foreign(s)' PROVE Awaits(s)'
    <3>1. r = row /\ venue[s] # 0 /\ s \notin Legs(row)
      BY <2>1, <2>2, <2>3, <1>3 DEF Scan, account, Foreign, Kept
    <3>2. Position(s) \in orphans'
      BY <2>1, <3>1 DEF KnownSymbols
    <3>3. Position(s).sym = s
      BY DEF Position
    <3> QED BY <3>2, <3>3 DEF Awaits
  <2> QED BY <1>3, <2>3 DEF Scan, Inv4
<1>4. CASE NothingSaved
  BY <1>0, <1>4, LosesNothing DEF NothingSaved, memory
<1>5. CASE FetchY \/ FetchX \/ Resume
  BY <1>0, <1>5, LosesNothing DEF FetchY, FetchX, Resume
<1>6. CASE CannotVerify \/ Discrepancy \/ Vanished
  BY <1>0, <1>6, LosesNothing DEF CannotVerify, Discrepancy, Vanished, Halt, memory
<1>7. ASSUME NEW o \in orphans, NEW d \in Decision, Decides(o, d),
             \A s \in Symbols : held[s] \subseteq held'[s]
      PROVE  Inv4'
  <2>1. \A s \in Symbols : Foreign(s)' => Foreign(s)
    BY <1>7, KeptWasKept DEF Foreign, Decides
  <2>2. \A s \in Symbols : Awaits(s) => Awaits(s)' \/ Treated(s)'
    <3>1. \A p \in orphans : p \in orphans' \/ p = o
      BY <1>7 DEF Decides, Processed
    <3>2. [sym |-> o.sym, qty |-> o.qty, decision |-> d] \in results'
      BY <1>7 DEF Decides
    <3> QED BY <3>1, <3>2 DEF Awaits, Treated
  <2>3. \A s \in Symbols : Treated(s) => Treated(s)'
    BY <1>7 DEF Decides, Treated
  <2> QED BY <1>7, <2>1, <2>2, <2>3 DEF Decides, Inv4
<1>8. ASSUME NEW o \in orphans, MonitorOrphan(o) \/ AdoptOrphan(o) PROVE Inv4'
  <2>1. \A s \in Symbols : held[s] \subseteq held'[s]
    BY <1>8 DEF MonitorOrphan, AdoptOrphan, account
  <2>2. \E d \in Decision : Decides(o, d)
    BY <1>8 DEF MonitorOrphan, AdoptOrphan, Decision
  <2> QED BY <1>7, <2>1, <2>2
<1>9. ASSUME NEW o \in orphans, CloseOrphan(o) PROVE Inv4'
  <2>1. \A s \in Symbols : held[s] \subseteq held'[s]
    BY <1>9 DEF CloseOrphan, Inv1, TypeOK
  <2>2. Decides(o, "CLOSE_NOW")
    BY <1>9 DEF CloseOrphan
  <2> QED BY <1>7, <2>1, <2>2 DEF Decision
<1>10. CASE AdoptionFails
  BY <1>10 DEF AdoptionFails, Inv4
<1>11. CASE Complete
  <2>1. \A s \in Symbols : Foreign(s)' => Foreign(s)
    BY <1>11 DEF Complete, account, Foreign, Kept
  <2>2. \A s \in Symbols : (Treated(s) => Treated(s)') /\ (Awaits(s) => Awaits(s)')
    BY <1>11 DEF Complete, memory, Treated, Awaits
  <2> QED BY <1>11, <2>1, <2>2 DEF Complete, memory, Inv4
<1>12. CASE Restart
  BY <1>12 DEF Restart, Inv4
<1>13. ASSUME NEW s \in Symbols, OthersMove(s) PROVE Inv4'
  <2>1. \A t \in Symbols : held[t] \subseteq held'[t]
    BY <1>13 DEF OthersMove, Inv1, TypeOK
  <2> QED BY <1>13, <2>1, LosesNothing DEF OthersMove, process, memory
<1>14. CASE UNCHANGED vars
  BY <1>0, <1>14, LosesNothing DEF vars, process, memory
<1> QED
  BY <1>1, <1>2, <1>3, <1>4, <1>5, <1>6, <1>8, <1>9, <1>10, <1>11, <1>12, <1>13,
     <1>14 DEF Next, Workflow, Reconcile, Adopt

\* A workflow that completes has decided upon every position that stayed as it was and
\* is no leg of the saved row, unless it could not read the checkpoint or the scan
\* failed: for a ccxt exchange and for the router the workflow builds itself.
THEOREM NoOrphanIsForgotten == Spec => []OrphansAreTreated
<1>1. Init => Inv4
  BY DEF Init, Inv4
<1>2. Inv2 /\ Inv4 => OrphansAreTreated
  BY DEF Inv2, Inv4, OrphansAreTreated, Foreign, Kept, Awaits, Treated
<1> QED BY Inv1Init, Inv1Step, Inv2Init, Inv2Step, Inv4Step, <1>1, <1>2, PTL DEF Spec

-----------------------------------------------------------------------------
(* What the router the workflow builds can tell of a saved position.       *)

\* Through the router a fetch answers 0 whatever the account holds.
LEMMA RouterReadsNothing == ReadHeld /\ ~ccxt => Seen(readY) = 0 /\ Seen(readX) = 0
  BY DEF ReadHeld, Seen, Abs

\* No startup that works through the router resumes a saved position: whatever was
\* saved and whatever the account holds, the reconciliation takes it for closed.
THEOREM RouterNeverResumes == Spec => []RouterResumesNothing
<1>1. Init => RouterResumesNothing
  BY DEF Init, RouterResumesNothing
<1>2. Inv1 /\ Inv2 /\ RouterResumesNothing /\ [Next]_vars => RouterResumesNothing'
  <2> SUFFICES ASSUME Inv1, Inv2, RouterResumesNothing, [Next]_vars PROVE RouterResumesNothing'
    OBVIOUS
  <2> USE DEF RouterResumesNothing
  <2>1. CASE Resume
    BY <2>1, RouterReadsNothing DEF Resume, Gone, Inv2, account
  <2>2. ASSUME UNCHANGED <<ccxt, resumed>> PROVE RouterResumesNothing'
    BY <2>2
  <2>3. CASE HealthPasses \/ HealthFails \/ Scan \/ ScanFails \/ NothingSaved \/ FetchY \/ FetchX
    BY <2>3 DEF HealthPasses, HealthFails, Scan, ScanFails, NothingSaved, FetchY, FetchX, Halt, account, memory
  <2>4. CASE CannotVerify \/ Vanished \/ Discrepancy
    BY <2>4 DEF CannotVerify, Vanished, Discrepancy, Halt, account, memory
  <2>5. CASE Adopt
    BY <2>5, <2>2 DEF Adopt, MonitorOrphan, CloseOrphan, AdoptOrphan, Decides, AdoptionFails,
       Complete, account, memory
  <2>6. CASE Restart
    BY <2>6 DEF Restart
  <2>7. ASSUME NEW s \in Symbols, OthersMove(s) PROVE RouterResumesNothing'
    BY <2>7 DEF OthersMove, process, memory
  <2>8. CASE UNCHANGED vars
    BY <2>8 DEF vars, account, process, memory
  <2> QED BY <2>1, <2>3, <2>4, <2>5, <2>6, <2>7, <2>8 DEF Next, Workflow, Reconcile
<1> QED BY Inv1Init, Inv1Step, Inv2Init, Inv2Step, <1>1, <1>2, PTL DEF Spec
=============================================================================
