---------------------------- MODULE StoresProofs ----------------------------
(***************************************************************************)
(* Proofs about the other four parts Books runs side by side: what the     *)
(* simulated exchange, the queue of alerts, the API's candles and the      *)
(* backtest jobs keep through restarts, shutdowns and overlapping requests,*)
(* for any symbols, alerts, jobs, threads, sizes of a page and bounds.     *)
(***************************************************************************)
EXTENDS BooksProofs, Sequences

(* The simulated exchange.                                                 *)

Holdings == [Symbols -> -MaxHeld .. MaxHeld]
Places   == [Orders -> {"off", "latency", "first", "second"}]

EngineTypes ==
  /\ held \in Holdings /\ saved \in Holdings
  /\ at \in Places
  /\ copy = None \/ copy \in Holdings

EngineFlags == resetting \in BOOLEAN /\ crossed \in BOOLEAN

\* One order saves at a time.  Unless a reset crossed it, what it has serialised is what is
\* held; and a reset that nothing crossed has left nothing held and nothing to save.
SavesInv ==
  /\ \A o, p \in Orders : at[o] \in {"first", "second"} /\ at[p] \in {"first", "second"} => o = p
  /\ ~E!Saving => copy = None
  /\ ~crossed /\ ~resetting /\ copy # None => copy = held
  /\ ~crossed /\ resetting => held = E!Flat /\ ~E!Saving
  /\ E!RestartKeepsPositions

EngineInv == EngineTypes /\ EngineFlags /\ SavesInv

\* Holding nothing is a way of holding.
LEMMA FlatHoldings == E!Flat \in Holdings
  BY BooksAssumption DEF E!Flat, Holdings

\* The initial states satisfy the invariant.
LEMMA EngineInvInit == E!Init => EngineInv
<1>1. E!Init => EngineFlags
  BY Zenon DEF E!Init, EngineFlags
<1>2. E!Init => EngineTypes
  BY FlatHoldings DEF E!Init, EngineTypes, Places
<1>3. E!Init => SavesInv
  BY DEF E!Init, SavesInv, E!RestartKeepsPositions, E!Saving
<1> QED BY <1>1, <1>2, <1>3 DEF EngineInv

\* Every step of an order, a reset or a restart keeps it.
LEMMA EngineInvStep == ASSUME EngineInv, [E!Next]_(E!vars) PROVE EngineInv'
<1>0. /\ held \in Holdings /\ saved \in Holdings /\ at \in Places
      /\ copy = None \/ copy \in Holdings
  BY DEF EngineInv, EngineTypes
<1>a. EngineFlags /\ SavesInv
  BY DEF EngineInv
<1>b. EngineTypes' /\ EngineFlags' /\ SavesInv' => EngineInv'
  BY DEF EngineInv
<1> USE DEF EngineTypes
<1>1. ASSUME NEW o \in Orders, E!Submit(o) \/ E!NotFilled(o) PROVE EngineInv'
  <2>1. /\ UNCHANGED <<held, saved, copy, resetting, crossed>>
        /\ at' \in Places
        /\ \A p \in Orders : at'[p] \in {"first", "second"} <=> at[p] \in {"first", "second"}
    BY <1>0, <1>1 DEF E!Submit, E!NotFilled, E!Goes, Places
  <2>2. E!Saving' <=> E!Saving
    BY <2>1 DEF E!Saving
  <2>3. SavesInv'
    BY <1>a, <2>1, <2>2 DEF SavesInv, E!RestartKeepsPositions
  <2> QED BY <1>0, <1>a, <1>b, <2>1, <2>3 DEF EngineFlags
<1>2. ASSUME NEW o \in Orders, NEW s \in Symbols, NEW q \in Int, E!Fill(o, s, q) PROVE EngineInv'
  <2>1. /\ UNCHANGED <<saved, copy, resetting>> /\ crossed' = resetting /\ ~E!Saving
        /\ held' = [held EXCEPT ![s] = E!Updated(@, q)]
        /\ at'[o] \in {"first", "second"} /\ \A p \in Orders \ {o} : at'[p] = at[p]
        /\ at' \in Places
    BY <1>0, <1>2 DEF E!Fill, E!Goes, Places
  <2>2. E!Updated(held[s], q) \in -MaxHeld .. MaxHeld
    <3>1. held[s] \in Int /\ E!Updated(held[s], q) \in Int
      BY <1>0, BooksAssumption DEF E!Updated, Holdings
    <3>2. E!Magnitude(E!Updated(held[s], q)) <= MaxHeld
      BY <1>2 DEF E!Fill
    <3> QED BY <3>1, <3>2, BooksAssumption DEF E!Magnitude
  <2>3. held' \in Holdings
    BY <1>0, <2>1, <2>2 DEF Holdings
  <2>4. EngineFlags'
    BY <1>a, <2>1, Zenon DEF EngineFlags
  <2>5. E!Saving' /\ copy = None
    BY <1>a, <2>1 DEF E!Saving, SavesInv
  <2>6. EngineTypes'
    BY <1>0, <2>1, <2>3
  <2>7. \A p \in Orders : at'[p] \in {"first", "second"} => p = o
    BY <2>1 DEF E!Saving
  <2>8. SavesInv'
    <3>1. resetting' => crossed'
      BY <2>1, Zenon
    <3> QED BY <2>1, <2>5, <2>7, <3>1 DEF SavesInv, E!RestartKeepsPositions
  <2> QED BY <1>b, <2>4, <2>6, <2>8
<1>3. CASE E!Serialise
  <2>1. UNCHANGED <<held, saved, at, resetting, crossed>> /\ copy' = held /\ E!Saving
    BY <1>3 DEF E!Serialise
  <2>2. E!Saving'
    BY <2>1 DEF E!Saving
  <2>3. SavesInv'
    BY <1>a, <2>1, <2>2 DEF SavesInv, E!RestartKeepsPositions
  <2> QED BY <1>0, <1>a, <1>b, <2>1, <2>3 DEF EngineFlags
<1>4. ASSUME NEW o \in Orders, NEW written \in BOOLEAN, E!Write(o, written) PROVE EngineInv'
  <2>1. /\ UNCHANGED <<held, resetting>> /\ copy # None /\ copy' = None
        /\ saved' = IF written THEN copy ELSE saved
        /\ at[o] \in {"first", "second"} /\ at'[o] \in {"off", "second"}
        /\ \A p \in Orders \ {o} : at'[p] = at[p]
        /\ at' \in Places
    BY <1>0, <1>4 DEF E!Write, E!Goes, Places
  <2>2. crossed' = (crossed \/ ~written)
    BY <1>4 DEF E!Write
  <2>3. EngineFlags'
    BY <1>a, <2>1, <2>2, Zenon DEF EngineFlags
  <2>4. EngineTypes'
    BY <1>0, <2>1
  <2>5. ~crossed' => ~crossed /\ written
    BY <2>2, Zenon
  <2>6. E!Saving
    BY <2>1 DEF E!Saving
  <2>7. \A p, r \in Orders : at'[p] \in {"first", "second"} /\ at'[r] \in {"first", "second"} => p = r
    BY <1>a, <2>1 DEF SavesInv
  <2>8. ~crossed' => ~resetting' /\ saved' = held'
    BY <1>a, <2>1, <2>5, <2>6 DEF SavesInv
  <2>9. SavesInv'
    BY <2>1, <2>7, <2>8 DEF SavesInv, E!RestartKeepsPositions
  <2> QED BY <1>b, <2>3, <2>4, <2>9
<1>5. CASE E!Reset
  <2>1. UNCHANGED <<saved, at, copy>> /\ held' = E!Flat /\ resetting' = TRUE
    BY <1>5 DEF E!Reset
  <2>2. crossed' = E!Saving
    BY <1>5 DEF E!Reset
  <2>3. EngineFlags'
    BY <2>1, <2>2, Zenon DEF E!Saving, EngineFlags
  <2>4. EngineTypes'
    BY <1>0, <2>1, FlatHoldings
  <2>5. E!Saving' <=> E!Saving
    BY <2>1 DEF E!Saving
  <2>6. ~crossed' => ~E!Saving'
    BY <2>2, <2>5, Zenon
  <2>7. \A p, r \in Orders : at'[p] \in {"first", "second"} /\ at'[r] \in {"first", "second"} => p = r
    BY <1>a, <2>1 DEF SavesInv
  <2>8. ~E!Saving' => copy' = None
    BY <1>a, <2>1, <2>5 DEF SavesInv
  <2>9. SavesInv'
    BY <2>1, <2>6, <2>7, <2>8 DEF SavesInv, E!RestartKeepsPositions, E!Flat
  <2> QED BY <1>b, <2>3, <2>4, <2>9
<1>6. ASSUME NEW written \in BOOLEAN, E!Clear(written) PROVE EngineInv'
  <2>1. /\ UNCHANGED <<held, at, copy>> /\ resetting /\ resetting' = FALSE
        /\ saved' = IF written THEN E!Flat ELSE saved
    BY <1>6 DEF E!Clear, E!ClearedRow
  <2>2. crossed' = (crossed \/ ~written)
    BY <1>6 DEF E!Clear
  <2>3. EngineFlags'
    BY <1>a, <2>1, <2>2, Zenon DEF EngineFlags
  <2>4. EngineTypes'
    BY <1>0, <2>1, FlatHoldings
  <2>5. ~crossed' => ~crossed /\ written
    BY <2>2, Zenon
  <2>6. E!Saving' <=> E!Saving
    BY <2>1 DEF E!Saving
  <2>7. ~crossed' => saved' = held' /\ ~E!Saving'
    BY <1>a, <2>1, <2>5, <2>6 DEF SavesInv
  <2>8. \A p, r \in Orders : at'[p] \in {"first", "second"} /\ at'[r] \in {"first", "second"} => p = r
    BY <1>a, <2>1 DEF SavesInv
  <2>9. ~E!Saving' => copy' = None
    BY <1>a, <2>1, <2>6 DEF SavesInv
  <2>10. SavesInv'
    BY <2>1, <2>7, <2>8, <2>9 DEF SavesInv, E!RestartKeepsPositions, E!Saving
  <2> QED BY <1>b, <2>3, <2>4, <2>10
<1>7. CASE E!Restart
  <2>1. /\ held' = saved /\ saved' = saved /\ copy' = None
        /\ resetting' = FALSE /\ crossed' = FALSE /\ at' = [o \in Orders |-> "off"]
    BY <1>7 DEF E!Restart
  <2>2. EngineFlags'
    BY <2>1, Zenon DEF EngineFlags
  <2>3. at' \in Places /\ ~E!Saving'
    BY <2>1 DEF E!Saving, Places
  <2>4. EngineTypes'
    BY <1>0, <2>1, <2>3
  <2>5. \A p, r \in Orders : at'[p] \in {"first", "second"} /\ at'[r] \in {"first", "second"} => p = r
    BY <2>1
  <2>6. SavesInv'
    BY <2>1, <2>3, <2>5 DEF SavesInv, E!RestartKeepsPositions
  <2> QED BY <1>b, <2>2, <2>4, <2>6
<1>8. CASE UNCHANGED E!vars
  <2>1. UNCHANGED <<held, saved, at, copy, resetting, crossed>>
    BY <1>8 DEF E!vars
  <2>2. E!Saving' <=> E!Saving
    BY <2>1 DEF E!Saving
  <2>3. SavesInv'
    BY <1>a, <2>1, <2>2 DEF SavesInv, E!RestartKeepsPositions
  <2> QED BY <1>0, <1>a, <1>b, <2>1, <2>3 DEF EngineFlags
<1>9. \A q \in Quantities : q \in Int /\ -q \in Int
  BY BooksAssumption
<1> QED BY <1>1, <1>2, <1>3, <1>4, <1>5, <1>6, <1>7, <1>8, <1>9 DEF E!Next

\* It implies that a restart keeps the positions.
LEMMA RestartsKeep == EngineInv => E!TypeOK /\ E!RestartKeepsPositions
  BY Zenon DEF EngineInv, EngineTypes, EngineFlags, SavesInv, Holdings, Places, E!TypeOK

-----------------------------------------------------------------------------
(* The queue of alerts.                                                    *)

AlertTypes ==
  /\ queue \in Seq(Alerts) /\ Len(queue) <= Room /\ unfinished \in Nat
  /\ sender \in {"getting", "sending", "ended"} /\ sending \in Alerts \cup {None}
  /\ stopping \in {"no", "joining", "joined", "stopped"}
  /\ early \subseteq offered /\ dispatched \subseteq offered /\ offered \subseteq Alerts
  /\ \A i \in 1 .. Len(queue) : queue[i] \in offered
  /\ sender = "sending" => sending \in offered
  /\ sender # "sending" => sending = None

AlertFlags == running \in BOOLEAN /\ recent \in BOOLEAN /\ slow \in BOOLEAN

\* On its way: in the queue or with the worker.
StillDue(a) == sending = a \/ \E i \in 1 .. Len(queue) : queue[i] = a

\* What join() waits for is at least what is on its way; until the worker is cancelled,
\* an early alert is dispatched or on its way; and a worker that ended by itself has
\* left none.
DrainInv ==
  /\ running <=> stopping = "no"
  /\ unfinished >= Len(queue) /\ (sender = "sending" => unfinished > Len(queue))
  /\ stopping # "stopped" => \A a \in early \ dispatched : StillDue(a)
  /\ stopping # "stopped" /\ sender = "ended" => ~running /\ early \subseteq dispatched
  /\ stopping \in {"joined", "stopped"} => early \subseteq dispatched \/ slow
  /\ stopping = "stopped" => sender = "ended"

DispatchInv == AlertTypes /\ AlertFlags /\ DrainInv

\* The initial states satisfy the invariant.
LEMMA DispatchInvInit == A!Init => DispatchInv
<1>1. A!Init => AlertFlags
  BY Zenon DEF A!Init, AlertFlags
<1>2. A!Init => AlertTypes
  BY BooksAssumption DEF A!Init, AlertTypes
<1>3. A!Init => DrainInv
  BY DEF A!Init, DrainInv
<1> QED BY <1>1, <1>2, <1>3 DEF DispatchInv

\* Every step of the sender, of who alerts and of the shutdown keeps it.
LEMMA DispatchInvStep == ASSUME DispatchInv, [A!Next]_(A!vars) PROVE DispatchInv'
<1>0. AlertTypes /\ AlertFlags /\ DrainInv
  BY DEF DispatchInv
<1>a. AlertTypes' /\ AlertFlags' /\ DrainInv' => DispatchInv'
  BY DEF DispatchInv
<1>n. None \notin Alerts /\ Room \in Nat
  BY NoneIsNothing, BooksAssumption
<1>1. ASSUME NEW a \in Alerts, A!Emit(a) PROVE DispatchInv'
  <2>1. /\ offered' = offered \cup {a} /\ queue' = Append(queue, a) /\ Len(queue) < Room
        /\ unfinished' = unfinished + 1
        /\ early' = IF running THEN early \cup {a} ELSE early
        /\ UNCHANGED <<running, sender, sending, stopping, dispatched, slow>>
    BY <1>1 DEF A!Emit, A!Accepted
  <2>2. recent' = (recent \/ a \in Limited)
    BY <1>1 DEF A!Emit
  <2>3. AlertFlags'
    BY <1>0, <2>1, <2>2, Zenon DEF AlertFlags
  <2>4. /\ queue' \in Seq(Alerts) /\ Len(queue') = Len(queue) + 1
        /\ queue'[Len(queue) + 1] = a
        /\ \A i \in 1 .. Len(queue) : queue'[i] = queue[i]
    BY <1>0, <2>1 DEF AlertTypes
  <2>5. AlertTypes'
    <3>1. \A i \in 1 .. Len(queue') : i \in 1 .. Len(queue) \/ i = Len(queue) + 1
      BY <1>0, <2>4 DEF AlertTypes
    <3>2. \A i \in 1 .. Len(queue') : queue'[i] \in offered'
      BY <1>0, <2>1, <2>4, <3>1 DEF AlertTypes
    <3>3. Len(queue') <= Room /\ unfinished' \in Nat
      BY <1>0, <1>n, <2>1, <2>4 DEF AlertTypes
    <3> QED BY <1>0, <2>1, <2>4, <3>2, <3>3 DEF AlertTypes
  <2>6. \A b : StillDue(b) => StillDue(b)'
    BY <1>0, <2>1, <2>4 DEF StillDue, AlertTypes
  <2>7. StillDue(a)'
    BY <1>0, <2>4 DEF StillDue, AlertTypes
  <2>8. unfinished' >= Len(queue') /\ (sender' = "sending" => unfinished' > Len(queue'))
    BY <1>0, <2>1, <2>4 DEF AlertTypes, DrainInv
  <2>9. DrainInv'
    BY <1>0, <2>1, <2>6, <2>7, <2>8 DEF DrainInv
  <2> QED BY <1>a, <2>3, <2>5, <2>9
<1>2. ASSUME NEW a \in Alerts, A!Drop(a) PROVE DispatchInv'
  <2>1. /\ offered' = offered \cup {a}
        /\ UNCHANGED <<running, queue, unfinished, recent, sender, sending, stopping,
                       early, dispatched, slow>>
    BY <1>2 DEF A!Drop
  <2> QED BY <1>0, <1>a, <2>1 DEF AlertTypes, AlertFlags, DrainInv, StillDue
<1>3. CASE A!IntervalPasses
  <2>1. /\ recent' = FALSE
        /\ UNCHANGED <<running, queue, unfinished, sender, sending, stopping, A!history>>
    BY <1>3 DEF A!IntervalPasses
  <2> QED BY <1>0, <1>a, <2>1 DEF A!history, AlertTypes, AlertFlags, DrainInv, StillDue
<1>4. CASE A!Get
  <2>1. /\ sender = "getting" /\ queue # << >>
        /\ sender' = "sending" /\ sending' = Head(queue) /\ queue' = Tail(queue)
        /\ UNCHANGED <<running, unfinished, recent, stopping, offered, early, dispatched, slow>>
    BY <1>4 DEF A!Get, A!history
  <2>2. /\ queue' \in Seq(Alerts) /\ Len(queue) > 0 /\ Len(queue') = Len(queue) - 1
        /\ sending' = queue[1]
        /\ \A i \in 1 .. Len(queue') : queue'[i] = queue[i + 1]
    BY <1>0, <2>1 DEF AlertTypes
  <2>3. AlertTypes'
    <3>1. \A i \in 1 .. Len(queue') : queue'[i] \in offered
      BY <1>0, <2>2 DEF AlertTypes
    <3>2. sending' \in offered
      BY <1>0, <2>2 DEF AlertTypes
    <3>3. Len(queue') <= Room
      BY <1>0, <1>n, <2>2 DEF AlertTypes
    <3> QED BY <1>0, <2>1, <2>2, <3>1, <3>2, <3>3 DEF AlertTypes
  <2>4. \A b : StillDue(b) /\ b # None => StillDue(b)'
    <3> SUFFICES ASSUME NEW b, StillDue(b), b # None PROVE StillDue(b)'
      OBVIOUS
    <3>1. PICK i \in 1 .. Len(queue) : queue[i] = b
      BY <1>0, <2>1 DEF StillDue, AlertTypes
    <3>2. CASE i = 1
      BY <2>2, <3>1, <3>2 DEF StillDue
    <3>3. CASE i # 1
      <4>1. i - 1 \in 1 .. Len(queue') /\ queue'[i - 1] = queue[i]
        BY <1>0, <2>2, <3>1, <3>3 DEF AlertTypes
      <4> QED BY <3>1, <4>1 DEF StillDue
    <3> QED BY <3>2, <3>3
  <2>5. unfinished' > Len(queue')
    BY <1>0, <2>1, <2>2 DEF AlertTypes, DrainInv
  <2>6. unfinished' >= Len(queue')
    BY <1>0, <2>1, <2>2, <2>5 DEF AlertTypes
  <2>7. stopping' # "stopped" => \A b \in early' \ dispatched' : StillDue(b)'
    BY <1>0, <1>n, <2>1, <2>4 DEF AlertTypes, DrainInv
  <2>8. DrainInv'
    BY <1>0, <2>1, <2>5, <2>6, <2>7 DEF DrainInv
  <2> QED BY <1>0, <1>a, <2>1, <2>3, <2>8 DEF AlertFlags
<1>5. CASE A!NothingCame
  <2>1. /\ sender = "getting" /\ queue = << >>
        /\ sender' = IF A!Loops THEN "getting" ELSE "ended"
        /\ UNCHANGED <<running, queue, unfinished, recent, sending, stopping,
                       offered, early, dispatched, slow>>
    BY <1>5 DEF A!NothingCame, A!GoesRound, A!history
  <2>2. sender' \in {"getting", "ended"} /\ (sender' = "ended" => ~running)
    BY <2>1 DEF A!Loops
  <2>3. \A b : ~StillDue(b) \/ b = None
    BY <1>0, <2>1 DEF StillDue, AlertTypes
  <2>4. stopping # "stopped" => early \subseteq dispatched
    BY <1>0, <1>n, <2>3 DEF DrainInv, AlertTypes
  <2>5. \A b : StillDue(b)' <=> StillDue(b)
    BY <2>1 DEF StillDue
  <2>6. stopping # "stopped"
    BY <1>0, <2>1 DEF DrainInv
  <2>7. AlertTypes'
    BY <1>0, <2>1, <2>2 DEF AlertTypes
  <2>8. DrainInv'
    BY <1>0, <2>1, <2>2, <2>4, <2>5, <2>6 DEF DrainInv
  <2> QED BY <1>0, <1>a, <2>1, <2>7, <2>8 DEF AlertFlags
<1>6. CASE A!Dispatched
  <2>1. /\ sender = "sending" /\ sending' = None
        /\ dispatched' = dispatched \cup {sending} /\ unfinished' = unfinished - 1
        /\ sender' = IF A!Loops THEN "getting" ELSE "ended"
        /\ UNCHANGED <<running, queue, recent, stopping, offered, early, slow>>
    BY <1>6 DEF A!Dispatched, A!GoesRound
  <2>2. sender' \in {"getting", "ended"} /\ (sender' = "ended" => ~running /\ queue = << >>)
    BY <2>1 DEF A!Loops
  <2>3. AlertTypes'
    BY <1>0, <2>1, <2>2 DEF AlertTypes, DrainInv
  <2>4. stopping # "stopped"
    BY <1>0, <2>1 DEF DrainInv
  <2>5. \A b \in early' \ dispatched' : StillDue(b)'
    BY <1>0, <2>1, <2>4 DEF DrainInv, StillDue
  <2>6. sender' = "ended" => early' \subseteq dispatched'
    BY <1>0, <1>n, <2>1, <2>2, <2>5 DEF StillDue, AlertTypes
  <2>7. unfinished' >= Len(queue')
    BY <1>0, <2>1 DEF DrainInv, AlertTypes
  <2>8. DrainInv'
    BY <1>0, <2>1, <2>2, <2>4, <2>5, <2>6, <2>7 DEF DrainInv
  <2> QED BY <1>0, <1>a, <2>1, <2>3, <2>8 DEF AlertFlags
<1>7. CASE A!Stop
  <2>1. /\ stopping = "no" /\ running' = FALSE /\ stopping' = "joining"
        /\ UNCHANGED <<queue, unfinished, recent, sender, sending, offered, early, dispatched, slow>>
    BY <1>7 DEF A!Stop, A!history
  <2>2. \A b : StillDue(b)' <=> StillDue(b)
    BY <2>1 DEF StillDue
  <2>3. DrainInv'
    BY <1>0, <2>1, <2>2 DEF DrainInv
  <2> QED BY <1>0, <1>a, <2>1, <2>3 DEF AlertTypes, AlertFlags
<1>8. CASE A!Drained
  <2>1. /\ stopping = "joining" /\ unfinished = 0 /\ stopping' = "joined"
        /\ UNCHANGED <<running, queue, unfinished, recent, sender, sending,
                       offered, early, dispatched, slow>>
    BY <1>8 DEF A!Drained, A!history
  <2>2. Len(queue) = 0 /\ sender # "sending"
    BY <1>0, <2>1 DEF DrainInv, AlertTypes
  <2>3. \A b : StillDue(b) => b = None
    BY <1>0, <2>2 DEF StillDue, AlertTypes
  <2>4. early \subseteq dispatched
    BY <1>0, <1>n, <2>1, <2>3 DEF DrainInv, AlertTypes
  <2>5. \A b : StillDue(b)' <=> StillDue(b)
    BY <2>1 DEF StillDue
  <2>6. DrainInv'
    BY <1>0, <2>1, <2>4, <2>5 DEF DrainInv
  <2> QED BY <1>0, <1>a, <2>1, <2>6 DEF AlertTypes, AlertFlags
<1>9. CASE A!JoinTimesOut
  <2>1. /\ stopping = "joining" /\ sender # "getting" /\ stopping' = "joined"
        /\ UNCHANGED <<running, queue, unfinished, recent, sender, sending, offered, early, dispatched>>
    BY <1>9 DEF A!JoinTimesOut
  <2>2. slow' = (sender = "sending")
    BY <1>9 DEF A!JoinTimesOut
  <2>3. slow' \in BOOLEAN /\ (sender = "sending" => slow')
    BY <2>2, Zenon
  <2>4. \A b : StillDue(b)' <=> StillDue(b)
    BY <2>1 DEF StillDue
  <2>5. sender # "sending" => early \subseteq dispatched
    BY <1>0, <2>1 DEF DrainInv, AlertTypes
  <2>6. early' \subseteq dispatched' \/ slow'
    BY <2>1, <2>3, <2>5, Zenon
  <2>7. DrainInv'
    BY <1>0, <2>1, <2>4, <2>6 DEF DrainInv
  <2> QED BY <1>0, <1>a, <2>1, <2>3, <2>7 DEF AlertTypes, AlertFlags
<1>10. CASE A!Cancel
  <2>1. /\ stopping = "joined" /\ stopping' = "stopped" /\ sender' = "ended" /\ sending' = None
        /\ UNCHANGED <<running, queue, unfinished, recent, offered, early, dispatched, slow>>
    BY <1>10 DEF A!Cancel, A!history
  <2>2. AlertTypes'
    BY <1>0, <2>1 DEF AlertTypes
  <2>3. DrainInv'
    BY <1>0, <2>1 DEF DrainInv
  <2> QED BY <1>0, <1>a, <2>1, <2>2, <2>3 DEF AlertFlags
<1>11. CASE UNCHANGED A!vars
  <2>1. UNCHANGED <<running, queue, unfinished, recent, sender, sending, stopping,
                    offered, early, dispatched, slow>>
    BY <1>11 DEF A!vars, A!history
  <2>2. \A b : StillDue(b)' <=> StillDue(b)
    BY <2>1 DEF StillDue
  <2> QED BY <1>0, <1>a, <2>1, <2>2 DEF AlertTypes, AlertFlags, DrainInv
<1> QED BY <1>1, <1>2, <1>3, <1>4, <1>5, <1>6, <1>7, <1>8, <1>9, <1>10, <1>11 DEF A!Next

\* It implies that a shutdown drains the queue.
LEMMA Drains == DispatchInv => A!TypeOK /\ A!NoAlertLost
<1>1. DispatchInv => A!TypeOK
  BY DEF DispatchInv, AlertTypes, AlertFlags, A!TypeOK
<1>2. DispatchInv => A!NoAlertLost
  BY DEF DispatchInv, DrainInv, A!NoAlertLost
<1> QED BY <1>1, <1>2

-----------------------------------------------------------------------------
(* The API's candles.                                                      *)

\* Sizes are numbers, and what stands for something else than a frame is no frame.
LEMMA CandleSizes == /\ End \in Nat /\ MaxPage \in Nat /\ MaxPage > 0 /\ LastBar \in Nat
                     /\ LastBar > 0
                     /\ None \notin K!Frame /\ Torn \notin K!Frame /\ Part \notin K!Frame
                     /\ Raised \notin K!Frame
<1>1. {None, Torn, Part, Raised} \cap K!Frame = {}
  BY NoneIsNothing DEF K!Frame, K!Bars
<1> QED BY <1>1, BooksAssumption

\* Min is the lesser of two numbers, and Max the greater.
LEMMA LesserOf == \A a, b \in Int : K!Min({a, b}) = IF a <= b THEN a ELSE b
<1> SUFFICES ASSUME NEW a \in Int, NEW b \in Int PROVE K!Min({a, b}) = IF a <= b THEN a ELSE b
  OBVIOUS
<1>1. \E x \in {a, b} : \A y \in {a, b} : x <= y
  OBVIOUS
<1>2. K!Min({a, b}) \in {a, b} /\ \A y \in {a, b} : K!Min({a, b}) <= y
  BY <1>1 DEF K!Min
<1> QED BY <1>2

\* The other half: Max.
LEMMA GreaterOf == \A a, b \in Int : K!Max({a, b}) = IF a <= b THEN b ELSE a
<1> SUFFICES ASSUME NEW a \in Int, NEW b \in Int PROVE K!Max({a, b}) = IF a <= b THEN b ELSE a
  OBVIOUS
<1>1. \E x \in {a, b} : \A y \in {a, b} : x >= y
  OBVIOUS
<1>2. K!Max({a, b}) \in {a, b} /\ \A y \in {a, b} : K!Max({a, b}) >= y
  BY <1>1 DEF K!Max
<1> QED BY <1>2

\* Min and Max are the ends of an interval.
LEMMA EndsOf == \A a, b \in Int : a <= b => K!Min(a .. b) = a /\ K!Max(a .. b) = b
<1> SUFFICES ASSUME NEW a \in Int, NEW b \in Int, a <= b
             PROVE  K!Min(a .. b) = a /\ K!Max(a .. b) = b
  OBVIOUS
<1>1. \E x \in a .. b : \A y \in a .. b : x <= y
  OBVIOUS
<1>2. K!Min(a .. b) \in a .. b /\ \A y \in a .. b : K!Min(a .. b) <= y
  BY <1>1 DEF K!Min
<1>3. \E x \in a .. b : \A y \in a .. b : x >= y
  OBVIOUS
<1>4. K!Max(a .. b) \in a .. b /\ \A y \in a .. b : K!Max(a .. b) >= y
  BY <1>3 DEF K!Max
<1> QED BY <1>2, <1>4

\* The last of the first k + 1 bars.
LEMMA LastOf == \A k \in Nat : K!Max(0 .. k) = k
<1> SUFFICES ASSUME NEW k \in Nat PROVE K!Max(0 .. k) = k
  OBVIOUS
<1> DEFINE first == 0
<1>1. first \in Int /\ k \in Int /\ first <= k
  OBVIOUS
<1> HIDE DEF first
<1>2. K!Max(first .. k) = k
  BY <1>1, EndsOf
<1> QED BY <1>2 DEF first

\* An interval has as many bars as its ends are apart, and one.
LEMMA BarsCounted == \A a, b \in Int : K!Cardinality(a .. b) = IF a <= b THEN b - a + 1 ELSE 0
<1>1. \A S : K!Cardinality(S) = Cardinality(S)
  BY DEF K!Cardinality, Cardinality
<1> QED BY <1>1, FS_Interval

\* A multiple leaves no remainder.
LEMMA Divides == ASSUME NEW n \in Nat, NEW p \in Nat, p > 0, NEW q \in Nat, n = q * p
                 PROVE  n % p = 0
  BY Z3

\* The last bar of a whole number of pages closes one.
LEMMA FullPageCloses == \A b \in Nat, q \in Nat : b + 1 = q * MaxPage => (b + 1) % MaxPage = 0
<1> SUFFICES ASSUME NEW b \in Nat, NEW q \in Nat, b + 1 = q * MaxPage
             PROVE  (b + 1) % MaxPage = 0
  OBVIOUS
<1> QED BY CandleSizes, Divides

\* A page more.
LEMMA OneMorePage == \A q, p \in Nat : q * p + p = (q + 1) * p
  BY Z3

-----------------------------------------------------------------------------
(* What a download has brought so far, and what it has brought at its end. *)

\* What a clock at c lets expect of a download; Binance's very end may be left out.
Least(c, x, e) == (IF c <= End THEN c ELSE End) - (IF x = "binance" /\ e THEN 1 ELSE 0)

\* A finished download: from the first bar without a hole, far enough, and closed but
\* for its last bar (and, with Binance, the last bar of a page).
Whole(a, x, e) ==
  \E k \in K!Bars :
    /\ a.bars = 0 .. k /\ k >= Least(a.began, x, e)
    /\ \A b \in a.open : b = k \/ (x = "binance" /\ (b + 1) % MaxPage = 0)

\* Binance's pages are full so far and have not come to the end.
Forwards(a, c, e) ==
  /\ \A b \in a.open : (b + 1) % MaxPage = 0
  /\ \/ a.bars = {}
     \/ \E k \in K!Bars, q \in Nat :
          /\ a.bars = 0 .. k /\ k + 1 = q * MaxPage /\ k <= c
          /\ k + 1 <= End /\ (e => k + 1 # End)

\* Bybit's reach from the newest bar back to some bar after the first.
Backwards(a, c) ==
  \/ a.bars = {} /\ a.open = {}
  \/ \E lo, hi \in K!Bars :
       /\ 0 < lo /\ lo <= hi /\ hi <= c /\ a.bars = lo .. hi
       /\ hi >= (IF a.began <= End THEN a.began ELSE End)
       /\ \A b \in a.open : b = hi

\* A download in progress.
PartWay(a, c, x, e) ==
  /\ a.began <= c
  /\ x = "binance" => Forwards(a, c, e)
  /\ x = "bybit" => Backwards(a, c)

\* A frame with one page more, of which the bar at the clock is still open.
With(a, p, c) == [a EXCEPT !.bars = @ \cup p, !.open = @ \cup (p \cap {c})]

\* Its fields.
LEMMA WithFields ==
  \A a \in K!Frame, p \in SUBSET K!Bars, c \in 1 .. LastBar :
    /\ With(a, p, c) \in K!Frame
    /\ With(a, p, c).bars = a.bars \cup p
    /\ With(a, p, c).open = a.open \cup (p \cap {c})
    /\ With(a, p, c).began = a.began /\ With(a, p, c).old = a.old
<1> SUFFICES ASSUME NEW a \in K!Frame, NEW p \in SUBSET K!Bars, NEW c \in 1 .. LastBar
             PROVE  /\ With(a, p, c) \in K!Frame
                    /\ With(a, p, c).bars = a.bars \cup p
                    /\ With(a, p, c).open = a.open \cup (p \cap {c})
                    /\ With(a, p, c).began = a.began /\ With(a, p, c).old = a.old
  OBVIOUS
<1> QED BY DEF With, K!Frame

\* A page of Bybit's: the bars up to hi that one request brings.
LEMMA NewestBars ==
  ASSUME NEW hi \in Nat
  PROVE  \E lo \in 0 .. hi : /\ K!Newest(hi) = lo .. hi
                             /\ K!Cardinality(K!Newest(hi)) < MaxPage \/ 0 \in K!Newest(hi) <=> lo = 0
<1> DEFINE from == IF hi - MaxPage + 1 <= 0 THEN 0 ELSE hi - MaxPage + 1
<1>1. MaxPage \in Nat /\ MaxPage > 0
  BY CandleSizes
<1>2. K!Max({0, hi - MaxPage + 1}) = from
  <2>1. hi - MaxPage + 1 \in Int
    BY <1>1
  <2>2. K!Max({0, hi - MaxPage + 1}) = IF 0 <= hi - MaxPage + 1 THEN hi - MaxPage + 1 ELSE 0
    BY <2>1, GreaterOf
  <2> QED BY <1>1, <2>2
<1>3. K!Newest(hi) = from .. hi /\ from \in 0 .. hi
  BY <1>1, <1>2 DEF K!Newest
<1>4. K!Cardinality(K!Newest(hi)) = hi - from + 1
  BY <1>3, BarsCounted
<1>5. K!Cardinality(K!Newest(hi)) < MaxPage => from = 0
  BY <1>1, <1>4
<1>6. 0 \in K!Newest(hi) <=> from = 0
  BY <1>3
<1> QED BY <1>3, <1>5, <1>6

\* A page of Bybit's takes a download further back, and the last one makes it whole
\* (data/bybit_fetcher.py).
LEMMA BybitDownload ==
  ASSUME NEW a \in K!Frame, NEW c \in 1 .. LastBar, NEW e, PartWay(a, c, "bybit", e), c = now
  PROVE  LET page == K!BybitPage(a.bars) IN
         /\ page \subseteq K!Bars
         /\ K!BybitStops(page) => Whole(With(a, page, c), "bybit", e)
         /\ ~K!BybitStops(page) => PartWay(With(a, page, c), c, "bybit", e)
<1> DEFINE page == K!BybitPage(a.bars)
           new == With(a, page, c)
           due == IF a.began <= End THEN a.began ELSE End
<1>0. /\ a.began \in Nat /\ a.began <= c /\ c \in Nat /\ c > 0 /\ End \in Nat
      /\ Backwards(a, c) /\ a.open \subseteq K!Bars
  BY CandleSizes DEF PartWay, K!Frame
\* The page ends at top, where the frame goes on or the exchange has come to.
<1>1. \E top, hi \in K!Bars :
        /\ page = K!Newest(top) /\ top <= hi /\ hi <= c /\ hi >= due
        /\ a.bars = top + 1 .. hi
        /\ \A b \in a.open : b = hi
        /\ c = top => hi = top
  <2>1. CASE a.bars = {} /\ a.open = {}
    <3> DEFINE top == IF c <= End THEN c ELSE End
    <3>1. page = K!Newest(K!Min({now, End}))
      <4>1. {now} \cup {End} = {now, End}
        OBVIOUS
      <4> QED BY <2>1, <4>1 DEF K!BybitPage
    <3>2. page = K!Newest(top)
      BY <1>0, <3>1, LesserOf
    <3>3. top \in K!Bars /\ top >= due /\ top <= c /\ a.bars = top + 1 .. top
      BY <1>0, <2>1 DEF K!Bars
    <3> QED BY <2>1, <3>2, <3>3 DEF K!Bars
  <2>2. ASSUME NEW lo \in K!Bars, NEW hi \in K!Bars,
               0 < lo, lo <= hi, hi <= c, a.bars = lo .. hi, hi >= due, \A b \in a.open : b = hi
        PROVE  \E top, hh \in K!Bars :
                 /\ page = K!Newest(top) /\ top <= hh /\ hh <= c /\ hh >= due
                 /\ a.bars = top + 1 .. hh
                 /\ \A b \in a.open : b = hh
                 /\ c = top => hh = top
    <3>0. lo \in Int /\ hi \in Int
      BY <1>0 DEF K!Bars
    <3>1. K!Min(a.bars) = lo /\ a.bars # {} /\ lo \in Int /\ hi \in Int
      <4>1. K!Min(lo .. hi) = lo
        BY <2>2, <3>0, EndsOf
      <4>2. lo \in lo .. hi
        BY <2>2, <3>0
      <4> QED BY <2>2, <3>0, <4>1, <4>2
    <3>2. page = K!Newest(K!Min({now, lo - 1}))
      <4>1. {now} \cup {lo - 1} = {now, lo - 1}
        OBVIOUS
      <4> QED BY <3>1, <4>1 DEF K!BybitPage
    <3>3. page = K!Newest(lo - 1)
      BY <1>0, <2>2, <3>1, <3>2, LesserOf
    <3>4. lo - 1 \in K!Bars /\ lo - 1 <= hi /\ (lo - 1) + 1 = lo /\ c # lo - 1
      BY <1>0, <2>2, <3>1 DEF K!Bars
    <3> QED BY <2>2, <3>3, <3>4
  <2> QED BY <1>0, <2>1, <2>2 DEF Backwards
<1>2. PICK top \in K!Bars, hi \in K!Bars :
        /\ page = K!Newest(top) /\ top <= hi /\ hi <= c /\ hi >= due
        /\ a.bars = top + 1 .. hi
        /\ \A b \in a.open : b = hi
        /\ c = top => hi = top
  BY <1>1
<1>3. PICK lo \in 0 .. top : /\ page = lo .. top
                             /\ K!Cardinality(page) < MaxPage \/ 0 \in page <=> lo = 0
  BY <1>2, NewestBars DEF K!Bars
<1>4. page \subseteq K!Bars
  BY <1>0, <1>2, <1>3 DEF K!Bars
<1>5. K!BybitStops(page) <=> lo = 0
  BY <1>3 DEF K!BybitStops
<1>n. top \in Nat /\ hi \in Nat /\ lo \in Nat /\ lo <= top
  BY <1>0, <1>2, <1>3 DEF K!Bars
<1>w. /\ new.bars = a.bars \cup page /\ new.open = a.open \cup (page \cap {c})
      /\ new.began = a.began
  BY <1>4, WithFields
<1> HIDE DEF new
<1>6. new.bars = lo .. hi
  <2>1. new.bars = (top + 1 .. hi) \cup (lo .. top)
    BY <1>2, <1>3, <1>w
  <2> QED BY <1>2, <1>n, <2>1
<1>7. \A b \in new.open : b = hi
  <2>1. c \in page => hi = c
    BY <1>0, <1>2, <1>3, <1>n
  <2> QED BY <1>2, <1>w, <2>1
<1>8. CASE lo = 0
  <2>1. hi >= Least(new.began, "bybit", e)
    BY <1>0, <1>2, <1>n, <1>w DEF Least
  <2>2. Whole(new, "bybit", e)
    BY <1>2, <1>6, <1>7, <1>8, <2>1 DEF Whole
  <2> QED BY <1>4, <1>5, <1>8, <2>2 DEF new
<1>9. CASE lo # 0
  <2>1. lo \in K!Bars /\ 0 < lo /\ lo <= hi
    BY <1>0, <1>2, <1>n, <1>9 DEF K!Bars
  <2>2. PartWay(new, c, "bybit", e)
    BY <1>0, <1>2, <1>6, <1>7, <1>w, <2>1 DEF PartWay, Backwards
  <2> QED BY <1>4, <1>5, <1>9, <2>2 DEF new
<1> QED BY <1>8, <1>9 DEF new

\* A page of Binance's: the bars from lo on that one request brings.
LEMMA OldestBars ==
  ASSUME NEW lo \in Nat, NEW hi \in Nat
  PROVE  \E top \in Int : /\ K!Oldest(lo, hi) = lo .. top /\ top <= hi
                          /\ K!Cardinality(K!Oldest(lo, hi)) < MaxPage => hi < lo \/ top = hi
                          /\ ~(K!Cardinality(K!Oldest(lo, hi)) < MaxPage) =>
                               lo <= top /\ top = lo + MaxPage - 1
<1> DEFINE top == IF lo + MaxPage - 1 <= hi THEN lo + MaxPage - 1 ELSE hi
<1>1. MaxPage \in Nat /\ MaxPage > 0 /\ lo + MaxPage - 1 \in Int
  BY CandleSizes
<1>2. K!Min({lo + MaxPage - 1, hi}) = top
  BY <1>1, LesserOf
<1>3. K!Oldest(lo, hi) = lo .. top /\ top \in Int /\ top <= hi
  BY <1>1, <1>2 DEF K!Oldest
<1>4. K!Cardinality(K!Oldest(lo, hi)) = IF lo <= top THEN top - lo + 1 ELSE 0
  BY <1>3, BarsCounted
<1>5. K!Cardinality(K!Oldest(lo, hi)) < MaxPage => hi < lo \/ top = hi
  BY <1>1, <1>3, <1>4
<1>6. ~(K!Cardinality(K!Oldest(lo, hi)) < MaxPage) => lo <= top /\ top = lo + MaxPage - 1
  BY <1>1, <1>3, <1>4
<1> QED BY <1>3, <1>5, <1>6

\* How far the exchange serves at clock c.
Come(c) == IF c <= End THEN c ELSE End

\* A page of Binance's takes a download further on, and the last one makes it whole
\* (data/historical_fetcher.py).
LEMMA BinanceDownload ==
  ASSUME NEW a \in K!Frame, NEW c \in 1 .. LastBar, c = now, endOpens \in BOOLEAN,
         PartWay(a, c, "binance", endOpens)
  PROVE  LET page == K!BinancePage(a.bars) IN
         /\ page \subseteq K!Bars
         /\ K!BinanceStops(page) => Whole(With(a, page, c), "binance", endOpens)
         /\ ~K!BinanceStops(page) => PartWay(With(a, page, c), c, "binance", endOpens)
<1> DEFINE page == K!BinancePage(a.bars)
           new == With(a, page, c)
           due == IF a.began <= End THEN a.began ELSE End
<1>f. ASSUME page \in SUBSET K!Bars
      PROVE  /\ new.bars = a.bars \cup page /\ new.open = a.open \cup (page \cap {c})
             /\ new.began = a.began
  BY <1>f DEF With, K!Frame
<1>0. /\ a.began \in Nat /\ a.began > 0 /\ a.began <= c /\ c \in Nat /\ c > 0 /\ End \in Nat
      /\ MaxPage \in Nat /\ MaxPage > 0
      /\ Forwards(a, c, endOpens) /\ a.open \subseteq K!Bars
      /\ Come(c) \in Nat /\ Come(c) <= End /\ Come(c) <= c /\ due <= Come(c)
  BY CandleSizes DEF PartWay, K!Frame, Come
\* The page begins at lo, a whole number of pages after the first bar.
<1>1. \E lo \in 0 .. End, q \in Nat :
        /\ page = K!Oldest(lo, Come(c)) /\ a.bars = 0 .. lo - 1 /\ lo = q * MaxPage /\ lo - 1 <= c
        /\ endOpens => lo # End \/ lo = 0
  <2>1. CASE a.bars = {}
    <3>1. page = K!Oldest(0, K!Min({End, now}))
      BY <2>1 DEF K!BinancePage
    <3>2. K!Min({End, now}) = Come(c)
      BY <1>0, LesserOf DEF Come
    <3>3. a.bars = 0 .. (0 - 1) /\ 0 = 0 * MaxPage /\ 0 - 1 <= c
      BY <1>0, <2>1
    <3> QED BY <1>0, <3>1, <3>2, <3>3
  <2>2. ASSUME NEW k \in K!Bars, NEW q \in Nat,
               a.bars = 0 .. k, k + 1 = q * MaxPage, k <= c, k + 1 <= End,
               endOpens => k + 1 # End
        PROVE  \E lo \in 0 .. End, r \in Nat :
                 /\ page = K!Oldest(lo, Come(c)) /\ a.bars = 0 .. lo - 1 /\ lo = r * MaxPage
                 /\ lo - 1 <= c
                 /\ endOpens => lo # End \/ lo = 0
    <3>1. K!Max(a.bars) = k /\ a.bars # {} /\ k \in Nat
      <4>1. k \in Nat /\ 0 <= k
        BY <1>0 DEF K!Bars
      <4>2. K!Max(0 .. k) = k
        BY <4>1, LastOf
      <4>3. 0 \in 0 .. k
        BY <4>1
      <4> QED BY <2>2, <4>1, <4>2, <4>3
    <3>2. page = K!Oldest(k + 1, K!Min({End, now}))
      BY <3>1 DEF K!BinancePage
    <3>3. page = K!Oldest(k + 1, Come(c))
      BY <1>0, <3>2, LesserOf DEF Come
    <3>4. k + 1 \in 0 .. End /\ a.bars = 0 .. (k + 1) - 1 /\ (k + 1) - 1 <= c
      BY <1>0, <2>2, <3>1
    <3> QED BY <2>2, <3>3, <3>4
  <2> QED BY <1>0, <2>1, <2>2 DEF Forwards
<1>2. PICK lo \in 0 .. End, q \in Nat :
        /\ page = K!Oldest(lo, Come(c)) /\ a.bars = 0 .. lo - 1 /\ lo = q * MaxPage /\ lo - 1 <= c
        /\ endOpens => lo # End \/ lo = 0
  BY <1>1
<1>4. lo \in Nat /\ lo <= End
  BY <1>0
<1>3. PICK top \in Int : /\ page = lo .. top /\ top <= Come(c)
                         /\ K!Cardinality(page) < MaxPage => Come(c) < lo \/ top = Come(c)
                         /\ ~(K!Cardinality(page) < MaxPage) =>
                               lo <= top /\ top = lo + MaxPage - 1
  BY <1>0, <1>2, <1>4, OldestBars
<1>5. page \subseteq K!Bars
  BY <1>0, <1>3, <1>4 DEF K!Bars
<1>s. page \in SUBSET K!Bars
  BY <1>5
<1>w. /\ new.bars = a.bars \cup page /\ new.open = a.open \cup (page \cap {c})
      /\ new.began = a.began
  BY <1>s, <1>f
<1> HIDE DEF new
\* The last bar there is: the page's, or of the pages before.
<1>6. ASSUME lo <= top PROVE new.bars = 0 .. top
  <2>1. new.bars = (0 .. lo - 1) \cup (lo .. top)
    BY <1>2, <1>3, <1>w
  <2> QED BY <1>3, <1>4, <1>6, <2>1
<1>7. ASSUME ~(lo <= top) PROVE new.bars = 0 .. lo - 1 /\ new.open = a.open
  BY <1>2, <1>3, <1>4, <1>7, <1>w
<1>8. \A b \in a.open : (b + 1) % MaxPage = 0
  BY <1>0 DEF Forwards
<1>9. \A b \in new.open : (b = top /\ top = c) \/ (b + 1) % MaxPage = 0
  BY <1>0, <1>3, <1>4, <1>8, <1>w
<1>10. ASSUME K!BinanceStops(page) PROVE Whole(new, "binance", endOpens)
  <2>1. CASE lo <= top
    <3>1. K!Max(page) = top /\ top \in K!Bars
      BY <1>0, <1>3, <1>4, <2>1, EndsOf DEF K!Bars
    <3>2. top = Come(c) \/ top + 1 > End \/ (endOpens /\ top + 1 = End)
      BY <1>0, <1>3, <1>4, <1>10, <2>1, <3>1 DEF K!BinanceStops, K!ReachesEnd
    <3>3. top >= Least(new.began, "binance", endOpens)
      BY <1>0, <1>3, <1>w, <3>2 DEF Least, Come
    <3> QED BY <1>6, <1>9, <2>1, <3>1, <3>3 DEF Whole
  <2>2. CASE ~(lo <= top)
    <3>1. Come(c) < lo
      BY <1>0, <1>3, <1>4, <2>2
    <3>2. lo - 1 \in K!Bars /\ lo - 1 >= Least(new.began, "binance", endOpens)
      BY <1>0, <1>4, <1>w, <3>1 DEF Least, K!Bars, Come
    <3> QED BY <1>7, <1>8, <2>2, <3>2 DEF Whole
  <2> QED BY <2>1, <2>2
<1>11. ASSUME ~K!BinanceStops(page) PROVE PartWay(new, c, "binance", endOpens)
  <2>1. ~(K!Cardinality(page) < MaxPage) /\ ~K!ReachesEnd(page)
    BY <1>11 DEF K!BinanceStops
  <2>2. lo <= top /\ top = lo + MaxPage - 1
    BY <1>3, <2>1
  <2>3. top + 1 = q * MaxPage + MaxPage
    <3>1. top + 1 = lo + MaxPage
      BY <1>0, <1>4, <2>2
    <3> QED BY <1>2, <3>1
  <2>4. top + 1 = (q + 1) * MaxPage /\ q + 1 \in Nat
    BY <1>0, <2>3, OneMorePage
  <2>5. K!Max(page) = top /\ top \in K!Bars /\ top \in Nat
    BY <1>0, <1>3, <1>4, <2>2, EndsOf DEF K!Bars
  <2>6. top + 1 <= End /\ (endOpens => top + 1 # End)
    BY <1>0, <2>1, <2>5 DEF K!ReachesEnd
  <2>7. \A b \in new.open : (b + 1) % MaxPage = 0
    BY <1>9, <2>4, <2>5, FullPageCloses
  <2>8. top <= c
    BY <1>0, <1>3
  <2>9. Forwards(new, c, endOpens)
    BY <1>6, <2>2, <2>4, <2>5, <2>6, <2>7, <2>8 DEF Forwards
  <2> QED BY <1>0, <1>w, <2>9 DEF PartWay
<1> QED BY <1>5, <1>10, <1>11 DEF new

-----------------------------------------------------------------------------
(* The inductive invariant. *)

Steps    == {"idle", "load", "page", "save", "parquet", "fallback", "csv", "stamp", "stamping"}
Carrying == {"save", "parquet", "fallback", "csv", "stamp", "stamping"}
Vouching == {"load", "parquet", "csv", "stamp", "stamping"}

CandleTypes ==
  /\ exchange \in {"bybit", "binance"}
  /\ now \in 1 .. LastBar
  /\ files \in [K!Files -> K!Frame \cup {None, Torn}]
  /\ meta \in {"none", "stale", "fresh"}
  /\ writers \in [K!Files -> SUBSET Threads] /\ mixed \subseteq K!Files
  /\ req \in [Threads -> Steps]
  /\ frame \in [Threads -> K!Frame]
  /\ answer \in K!Frame \cup {None, Part, Raised}

CandleFlags == endOpens \in BOOLEAN /\ twofold \in BOOLEAN

\* A request has downloaded a part, and then the whole, of what its range has.
FramesInv ==
  \A t \in Threads :
    /\ frame[t].old = FALSE
    /\ req[t] = "page" => PartWay(frame[t], now, exchange, endOpens)
    /\ req[t] \in Carrying => Whole(frame[t], exchange, endOpens)

\* A file that can be read was whole when it was saved;
FilesInv == \A f \in K!Files : files[f] \in K!Frame => Whole(files[f], exchange, endOpens)

\* unless both kinds have existed at once, none is old while the meta vouches for it or a
\* request is about to answer it or to write the meta;
FreshInv ==
  ~twofold /\ (meta = "fresh" \/ \E t \in Threads : req[t] \in Vouching) =>
    \A f \in K!Files : files[f] \in K!Frame => files[f].old = FALSE

\* and what is answered is whole and, with the same exception, not old.
AnswerInv ==
  answer \in K!Frame => Whole(answer, exchange, endOpens) /\ (twofold \/ answer.old = FALSE)

CandleInv == CandleTypes /\ CandleFlags /\ FramesInv /\ FilesInv /\ FreshInv /\ AnswerInv

\* A frame without bars is a frame.
LEMMA NothingIsFrame == \A c \in 1 .. LastBar : K!Since(c) \in K!Frame /\ K!Nothing \in K!Frame
  BY CandleSizes DEF K!Since, K!Nothing, K!Frame

\* The initial states satisfy the invariant.
LEMMA CandleInvInit == K!Init => CandleInv
<1> SUFFICES ASSUME K!Init PROVE CandleInv
  OBVIOUS
<1>1. CandleFlags
  BY Zenon DEF K!Init, CandleFlags
<1>2. CandleTypes
  BY CandleSizes, NothingIsFrame DEF K!Init, CandleTypes, Steps, K!Files
<1>3. FramesInv
  BY DEF K!Init, FramesInv, Carrying, K!Nothing, K!Since
<1>4. FilesInv /\ AnswerInv
  BY CandleSizes DEF K!Init, FilesInv, AnswerInv
<1>5. FreshInv
  BY CandleSizes DEF K!Init, FreshInv
<1> QED BY <1>1, <1>2, <1>3, <1>4, <1>5 DEF CandleInv

\* A download in progress stays one as the clock goes on.
LEMMA PartialGrows ==
  ASSUME NEW a \in K!Frame, NEW x, NEW e, NEW c \in Int, NEW d \in Int, c <= d, PartWay(a, c, x, e)
  PROVE  PartWay(a, d, x, e)
<1>1. a.began <= d
  BY CandleSizes DEF PartWay, K!Frame
<1>2. Forwards(a, c, e) => Forwards(a, d, e)
  BY CandleSizes DEF Forwards, K!Bars
<1>3. Backwards(a, c) => Backwards(a, d)
  <2> SUFFICES ASSUME Backwards(a, c) PROVE Backwards(a, d)
    OBVIOUS
  <2>1. CASE a.bars = {} /\ a.open = {}
    BY <2>1 DEF Backwards
  <2>2. CASE \E lo, hi \in K!Bars :
               /\ 0 < lo /\ lo <= hi /\ hi <= c /\ a.bars = lo .. hi
               /\ hi >= (IF a.began <= End THEN a.began ELSE End)
               /\ \A b \in a.open : b = hi
    <3>1. PICK lo, hi \in K!Bars :
               /\ 0 < lo /\ lo <= hi /\ hi <= c /\ a.bars = lo .. hi
               /\ hi >= (IF a.began <= End THEN a.began ELSE End)
               /\ \A b \in a.open : b = hi
      BY <2>2
    <3>2. hi <= d
      BY <3>1, CandleSizes DEF K!Bars
    <3> QED BY <3>1, <3>2 DEF Backwards
  <2> QED BY <2>1, <2>2 DEF Backwards
<1> QED BY <1>1, <1>2, <1>3 DEF PartWay

Aged(a) == [a EXCEPT !.old = TRUE]

\* A frame that outlives the TTL is the frame it was.
LEMMA StaysWhole ==
  ASSUME NEW a \in K!Frame, NEW x, NEW e, Whole(a, x, e)
  PROVE  Aged(a) \in K!Frame /\ Whole(Aged(a), x, e)
<1> DEFINE b == Aged(a)
<1>1. b \in K!Frame /\ b.bars = a.bars /\ b.open = a.open /\ b.began = a.began
  BY DEF K!Frame, Aged
<1> HIDE DEF b
<1>2. Whole(b, x, e)
  BY <1>1 DEF Whole
<1> QED BY <1>1, <1>2 DEF b

\* The frames of the others stay; the clock may have gone on.
LEMMA FramesKept ==
  ASSUME CandleTypes, FramesInv, NEW S \in SUBSET Threads,
         exchange' = exchange, endOpens' = endOpens, now' \in Int, now <= now',
         \A u \in Threads \ S : req'[u] = req[u] /\ frame'[u] = frame[u],
         \A u \in S : /\ frame'[u].old = FALSE
                      /\ req'[u] = "page" => PartWay(frame'[u], now', exchange, endOpens)
                      /\ req'[u] \in Carrying => Whole(frame'[u], exchange, endOpens)
  PROVE  FramesInv'
<1> SUFFICES ASSUME NEW u \in Threads
             PROVE  /\ frame'[u].old = FALSE
                    /\ req'[u] = "page" => PartWay(frame'[u], now', exchange, endOpens)
                    /\ req'[u] \in Carrying => Whole(frame'[u], exchange, endOpens)
  BY DEF FramesInv
<1>1. CASE u \in S
  BY <1>1
<1>2. CASE u \notin S
  <2>1. /\ frame[u].old = FALSE /\ req'[u] = req[u] /\ frame'[u] = frame[u] /\ frame[u] \in K!Frame
        /\ req[u] = "page" => PartWay(frame[u], now, exchange, endOpens)
        /\ req[u] \in Carrying => Whole(frame[u], exchange, endOpens)
    BY <1>2 DEF FramesInv, CandleTypes
  <2>2. now \in Int
    BY CandleSizes DEF CandleTypes
  <2>3. req[u] = "page" => PartWay(frame[u], now', exchange, endOpens)
    BY <2>1, <2>2, PartialGrows
  <2> QED BY <2>1, <2>3
<1> QED BY <1>1, <1>2

\* What is in Frame is none of the words for what is not.
LEMMA NoFrame == None \notin K!Frame /\ Torn \notin K!Frame /\ Part \notin K!Frame /\ Raised \notin K!Frame
  BY CandleSizes

\* Every step of a request, of the exchange, of the disk and of a restart keeps it.
LEMMA CandleInvStep == ASSUME CandleInv, [K!Next]_(K!vars) PROVE CandleInv'
<1>0. /\ CandleTypes /\ CandleFlags /\ FramesInv /\ FilesInv /\ FreshInv /\ AnswerInv
  BY DEF CandleInv
<1>t. /\ exchange \in {"bybit", "binance"}
      /\ now \in 1 .. LastBar /\ now \in Int /\ now <= now
      /\ files \in [K!Files -> K!Frame \cup {None, Torn}]
      /\ meta \in {"none", "stale", "fresh"}
      /\ writers \in [K!Files -> SUBSET Threads] /\ mixed \subseteq K!Files
      /\ req \in [Threads -> Steps]
      /\ frame \in [Threads -> K!Frame]
      /\ endOpens \in BOOLEAN /\ twofold \in BOOLEAN
  BY <1>0, CandleSizes DEF CandleTypes, CandleFlags
<1>a. CandleTypes' /\ CandleFlags' /\ FramesInv' /\ FilesInv' /\ FreshInv' /\ AnswerInv' => CandleInv'
  BY DEF CandleInv
\* Parts that a step leaves alone.
<1>b. ASSUME UNCHANGED <<exchange, endOpens, files>> PROVE FilesInv'
  BY <1>0, <1>b DEF FilesInv
<1>c. ASSUME UNCHANGED <<files, twofold>>,
             meta' = meta \/ meta' # "fresh",
             \A u \in Threads : req'[u] \in Vouching => req[u] \in Vouching \/ meta = "fresh"
      PROVE  FreshInv'
  BY <1>0, <1>c DEF FreshInv
<1>d. ASSUME answer' = None \/ answer' = Raised \/ answer' = Part
      PROVE  AnswerInv' /\ answer' \in K!Frame \cup {None, Part, Raised}
  BY <1>d, NoFrame DEF AnswerInv
<1>e. ASSUME UNCHANGED <<endOpens, twofold>> PROVE CandleFlags'
  BY <1>0, <1>e DEF CandleFlags
<1>1. ASSUME NEW t \in Threads, NEW force \in BOOLEAN, K!Fetch(t, force) PROVE CandleInv'
  <2>1. /\ UNCHANGED <<exchange, endOpens, now, files, meta, writers, mixed, twofold>>
        /\ answer' = None
        /\ \/ /\ req' = [req EXCEPT ![t] = "load"] /\ meta = "fresh"
              /\ frame' = [frame EXCEPT ![t] = K!Nothing]
           \/ /\ req' = [req EXCEPT ![t] = "page"]
              /\ frame' = [frame EXCEPT ![t] = K!Since(now)]
    BY <1>1 DEF K!Fetch, K!Goto, K!IsFresh, K!setting, K!files
  <2>2. K!Since(now) \in K!Frame /\ K!Nothing \in K!Frame
    BY <1>t, NothingIsFrame
  <2>3. CandleTypes'
    BY <1>t, <1>d, <2>1, <2>2 DEF CandleTypes, Steps
  <2>4. K!Since(now).old = FALSE /\ K!Nothing.old = FALSE
    BY DEF K!Nothing, K!Since
  <2>5. PartWay(K!Since(now), now, exchange, endOpens)
    BY <1>t DEF K!Since, PartWay, Forwards, Backwards
  <2>6. FramesInv'
    <3>1. \A u \in {t} : /\ frame'[u].old = FALSE
                         /\ req'[u] = "page" => PartWay(frame'[u], now', exchange, endOpens)
                         /\ req'[u] \in Carrying => Whole(frame'[u], exchange, endOpens)
      BY <1>t, <2>1, <2>4, <2>5 DEF Carrying
    <3>2. \A u \in Threads \ {t} : req'[u] = req[u] /\ frame'[u] = frame[u]
      BY <1>t, <2>1
    <3>3. {t} \in SUBSET Threads /\ now' \in Int /\ now <= now'
      BY <1>t, <2>1
    <3> QED BY <1>0, <2>1, <3>1, <3>2, <3>3, FramesKept
  <2>7. FreshInv'
    BY <1>t, <1>c, <2>1 DEF Vouching
  <2> QED BY <1>a, <1>b, <1>d, <1>e, <2>1, <2>3, <2>6, <2>7
\* What a thread returns ends its request.
<1>r. ASSUME NEW t \in Threads, NEW a, K!Return(t, a), now' = now, exchange' = exchange,
             endOpens' = endOpens
      PROVE  /\ FramesInv' /\ answer' = a
             /\ req' \in [Threads -> Steps] /\ frame' \in [Threads -> K!Frame]
             /\ \A u \in Threads : req'[u] \in Vouching => req[u] \in Vouching
  <2>1. /\ req' = [req EXCEPT ![t] = "idle"] /\ frame' = [frame EXCEPT ![t] = K!Nothing]
        /\ answer' = a
    BY <1>r DEF K!Return
  <2>2. K!Nothing \in K!Frame /\ K!Nothing.old = FALSE
    BY <1>t, NothingIsFrame DEF K!Nothing, K!Since
  <2>3. \A u \in {t} : /\ frame'[u].old = FALSE
                       /\ req'[u] = "page" => PartWay(frame'[u], now', exchange, endOpens)
                       /\ req'[u] \in Carrying => Whole(frame'[u], exchange, endOpens)
    BY <1>t, <2>1, <2>2 DEF Carrying
  <2>4. \A u \in Threads \ {t} : req'[u] = req[u] /\ frame'[u] = frame[u]
    BY <1>t, <2>1
  <2>5. {t} \in SUBSET Threads /\ now' \in Int /\ now <= now'
    BY <1>t, <1>r
  <2>6. FramesInv'
    BY <1>0, <1>r, <2>3, <2>4, <2>5, FramesKept
  <2>7. req' \in [Threads -> Steps] /\ frame' \in [Threads -> K!Frame]
    BY <1>t, <2>1, <2>2 DEF Steps
  <2>8. \A u \in Threads : req'[u] \in Vouching => req[u] \in Vouching
    BY <1>t, <2>1 DEF Vouching
  <2> QED BY <2>1, <2>6, <2>7, <2>8
\* A thread goes on with the frame it has.
<1>g. ASSUME NEW t \in Threads, NEW l \in Carrying, K!Goto(t, l), frame' = frame, now' = now,
             exchange' = exchange, endOpens' = endOpens, req[t] \in Carrying
      PROVE  /\ FramesInv' /\ answer' = None /\ AnswerInv'
             /\ req' \in [Threads -> Steps] /\ frame' \in [Threads -> K!Frame]
             /\ req'[t] = l /\ \A u \in Threads \ {t} : req'[u] = req[u]
  <2>1. req' = [req EXCEPT ![t] = l] /\ answer' = None
    BY <1>g DEF K!Goto
  <2>2. frame[t].old = FALSE /\ Whole(frame[t], exchange, endOpens)
    BY <1>0, <1>g DEF FramesInv
  <2>3. \A u \in {t} : /\ frame'[u].old = FALSE
                       /\ req'[u] = "page" => PartWay(frame'[u], now', exchange, endOpens)
                       /\ req'[u] \in Carrying => Whole(frame'[u], exchange, endOpens)
    BY <1>t, <1>g, <2>1, <2>2 DEF Carrying
  <2>4. \A u \in Threads \ {t} : req'[u] = req[u] /\ frame'[u] = frame[u]
    BY <1>t, <1>g, <2>1
  <2>5. {t} \in SUBSET Threads /\ now' \in Int /\ now <= now'
    BY <1>t, <1>g
  <2>6. FramesInv'
    BY <1>0, <1>g, <2>3, <2>4, <2>5, FramesKept
  <2>7. req' \in [Threads -> Steps] /\ frame' \in [Threads -> K!Frame] /\ req'[t] = l
    BY <1>t, <1>g, <2>1 DEF Steps, Carrying
  <2> QED BY <1>d, <2>1, <2>4, <2>6, <2>7
<1>2. ASSUME NEW t \in Threads, K!LoadCache(t) PROVE CandleInv'
  <2>1. PICK a : /\ K!Return(t, a) /\ a \in {Raised, Part} \cup {files[f] : f \in K!Files}
                 /\ a = Torn => a \in {Raised, Part}
                 /\ a = None => a \in {Raised, Part}
    BY <1>2 DEF K!LoadCache, K!Loaded, K!Files
  <2>2. /\ UNCHANGED <<exchange, endOpens, now, files, meta, writers, mixed, twofold>>
        /\ req[t] = "load"
    BY <1>2 DEF K!LoadCache, K!setting, K!files
  <2>3. /\ FramesInv' /\ answer' = a
        /\ req' \in [Threads -> Steps] /\ frame' \in [Threads -> K!Frame]
        /\ \A u \in Threads : req'[u] \in Vouching => req[u] \in Vouching
    BY <1>r, <2>1, <2>2
  <2>4. a \in K!Frame \cup {None, Part, Raised}
    BY <1>t, <2>1
  <2>5. CandleTypes'
    BY <1>t, <2>2, <2>3, <2>4 DEF CandleTypes
  <2>6. FreshInv'
    BY <1>c, <2>2, <2>3
  <2>7. a \in K!Frame => Whole(a, exchange, endOpens)
    BY <1>0, <2>1, <2>2, NoFrame DEF FilesInv
  <2>9. a \in K!Frame => twofold \/ a.old = FALSE
    BY <1>0, <2>1, <2>2, NoFrame DEF FreshInv, Vouching
  <2>8. AnswerInv'
    <3>0. answer' = a /\ exchange' = exchange /\ endOpens' = endOpens
      BY <2>2, <2>3
    <3>1. ASSUME answer' \in K!Frame PROVE Whole(answer', exchange', endOpens')
      <4>1. Whole(a, exchange, endOpens)
        BY <2>7, <3>0, <3>1
      <4> QED BY <3>0, <4>1
    <3>2. answer' \in K!Frame => twofold' \/ answer'.old = FALSE
      BY <2>2, <2>3, <2>9
    <3> QED BY <3>1, <3>2, Zenon DEF AnswerInv
  <2> QED BY <1>a, <1>b, <1>e, <2>2, <2>3, <2>5, <2>6, <2>8
<1>3. ASSUME NEW t \in Threads, K!Download(t) PROVE CandleInv'
  <2> DEFINE page == IF exchange = "bybit" THEN K!BybitPage(frame[t].bars)
                     ELSE K!BinancePage(frame[t].bars)
             stops == IF exchange = "bybit" THEN K!BybitStops(page) ELSE K!BinanceStops(page)
             new == With(frame[t], page, now)
  <2>1. /\ UNCHANGED <<exchange, endOpens, now, files, meta, writers, mixed, twofold>>
        /\ answer' = None /\ req[t] = "page"
    BY <1>3 DEF K!Download, K!Goto, K!setting, K!files
  <2>2. req' = [req EXCEPT ![t] = IF stops THEN "save" ELSE "page"]
    BY <1>3 DEF K!Download, K!Goto
  <2>3. frame' = [frame EXCEPT ![t] = new]
    BY <1>t, <1>3 DEF K!Download, With
  <2>4. PartWay(frame[t], now, exchange, endOpens) /\ frame[t] \in K!Frame /\ frame[t].old = FALSE
    BY <1>0, <1>t, <2>1 DEF FramesInv
  <2>5. /\ page \in SUBSET K!Bars
        /\ stops => Whole(new, exchange, endOpens)
        /\ ~stops => PartWay(new, now, exchange, endOpens)
    <3>1. CASE exchange = "bybit"
      BY <1>t, <2>4, <3>1, BybitDownload
    <3>2. CASE exchange = "binance"
      BY <1>t, <2>4, <3>2, BinanceDownload
    <3> QED BY <1>t, <3>1, <3>2
  <2>6. new \in K!Frame /\ new.old = FALSE
    <3>1. frame[t] \in K!Frame /\ page \in SUBSET K!Bars /\ now \in 1 .. LastBar
      BY <1>t, <2>4, <2>5
    <3> HIDE DEF page
    <3> QED BY <2>4, <3>1 DEF With, K!Frame
  <2> HIDE DEF stops, page
  <2> HIDE DEF new
  <2>7. CandleTypes'
    BY <1>t, <1>d, <2>1, <2>2, <2>3, <2>6 DEF CandleTypes, Steps
  <2>8. FramesInv'
    <3>1. \A u \in {t} : /\ frame'[u].old = FALSE
                         /\ req'[u] = "page" => PartWay(frame'[u], now', exchange, endOpens)
                         /\ req'[u] \in Carrying => Whole(frame'[u], exchange, endOpens)
      BY <1>t, <2>1, <2>2, <2>3, <2>5, <2>6 DEF Carrying
    <3>2. \A u \in Threads \ {t} : req'[u] = req[u] /\ frame'[u] = frame[u]
      BY <1>t, <2>2, <2>3
    <3>3. {t} \in SUBSET Threads /\ now' \in Int /\ now <= now'
      BY <1>t, <2>1
    <3> QED BY <1>0, <2>1, <3>1, <3>2, <3>3, FramesKept
  <2>9. \A u \in Threads : req'[u] \in Vouching => req[u] \in Vouching
    BY <1>t, <2>2 DEF Vouching
  <2>10. FreshInv'
    BY <1>c, <2>1, <2>9
  <2> QED BY <1>a, <1>b, <1>d, <1>e, <2>1, <2>7, <2>8, <2>10
<1>4. ASSUME NEW t \in Threads, K!DownloadFails(t) PROVE CandleInv'
  <2>1. /\ UNCHANGED <<exchange, endOpens, now, files, meta, writers, mixed, twofold>>
        /\ K!Return(t, Raised)
    BY <1>4 DEF K!DownloadFails, K!setting, K!files
  <2>2. /\ FramesInv' /\ answer' = Raised
        /\ req' \in [Threads -> Steps] /\ frame' \in [Threads -> K!Frame]
        /\ \A u \in Threads : req'[u] \in Vouching => req[u] \in Vouching
    BY <1>r, <2>1
  <2>3. CandleTypes'
    BY <1>t, <1>d, <2>1, <2>2 DEF CandleTypes
  <2>4. FreshInv'
    BY <1>c, <2>1, <2>2
  <2> QED BY <1>a, <1>b, <1>d, <1>e, <2>1, <2>2, <2>3, <2>4
\* Opening a file: whatever kind, the other one does not exist or both do.
<1>5. ASSUME NEW t \in Threads, NEW f \in K!Files, K!Create(t, f), req[t] \in {"save", "fallback"}
      PROVE  CandleInv'
  <2>1. /\ UNCHANGED <<exchange, endOpens, now, meta, frame>> /\ K!Goto(t, f)
        /\ files' = [files EXCEPT ![f] = Torn]
        /\ writers' = [writers EXCEPT ![f] = @ \cup {t}]
        /\ mixed' = IF writers[f] = {} THEN mixed ELSE mixed \cup {f}
    BY <1>5 DEF K!Create, K!setting
  <2>2. twofold' = (twofold \/ \A g \in K!Files \ {f} : files[g] # None)
    BY <1>5 DEF K!Create
  <2>3. twofold' \in BOOLEAN /\ (~twofold' => \E g \in K!Files \ {f} : files[g] = None)
    BY <2>2, Zenon
  <2>4. f \in Carrying /\ req[t] \in Carrying
    BY <1>5 DEF Carrying, K!Files
  <2>5. /\ FramesInv' /\ answer' = None /\ AnswerInv'
        /\ req' \in [Threads -> Steps] /\ frame' \in [Threads -> K!Frame]
    BY <1>g, <2>1, <2>4
  <2>6. CandleTypes'
    <3>1. files' \in [K!Files -> K!Frame \cup {None, Torn}]
      BY <1>t, <2>1
    <3>2. writers' \in [K!Files -> SUBSET Threads] /\ mixed' \subseteq K!Files
      BY <1>t, <2>1
    <3> QED BY <1>t, <1>d, <2>1, <2>5, <3>1, <3>2 DEF CandleTypes
  <2>7. FilesInv'
    BY <1>0, <1>t, <2>1, NoFrame DEF FilesInv
  <2>8. ~twofold' => \A g \in K!Files : files'[g] \notin K!Frame
    BY <1>t, <2>1, <2>3, NoFrame DEF K!Files
  <2>9. FreshInv'
    BY <2>8, Zenon DEF FreshInv
  <2>10. CandleFlags'
    BY <1>t, <2>1, <2>3 DEF CandleFlags
  <2> QED BY <1>a, <2>5, <2>6, <2>7, <2>9, <2>10
<1>6. ASSUME NEW t \in Threads, K!NoParquet(t) PROVE CandleInv'
  <2>1. /\ UNCHANGED <<exchange, endOpens, now, files, meta, writers, mixed, twofold, frame>>
        /\ req[t] = "save" /\ K!Goto(t, "fallback")
    BY <1>6 DEF K!NoParquet, K!setting, K!files
  <2>2. /\ FramesInv' /\ answer' = None /\ AnswerInv'
        /\ req' \in [Threads -> Steps] /\ frame' \in [Threads -> K!Frame]
        /\ req'[t] = "fallback" /\ \A u \in Threads \ {t} : req'[u] = req[u]
    BY <1>g, <2>1 DEF Carrying
  <2>3. CandleTypes'
    BY <1>t, <1>d, <2>1, <2>2 DEF CandleTypes
  <2>4. FreshInv'
    BY <1>c, <2>1, <2>2 DEF Vouching
  <2> QED BY <1>a, <1>b, <1>e, <2>1, <2>2, <2>3, <2>4
<1>7. ASSUME NEW t \in Threads, K!Written(t) PROVE CandleInv'
  <2>1. PICK c : /\ c = files[req[t]] \/ c = frame[t] \/ c = Torn
                 /\ files' = [files EXCEPT ![req[t]] = c]
    BY <1>7 DEF K!Written
  <2>2. /\ UNCHANGED <<exchange, endOpens, now, meta, twofold, frame>>
        /\ req[t] \in K!Files /\ K!Goto(t, "stamp")
        /\ writers' = [writers EXCEPT ![req[t]] = @ \ {t}]
        /\ mixed' = IF writers[req[t]] \subseteq {t} THEN mixed \ {req[t]} ELSE mixed
    BY <1>7 DEF K!Written, K!Released, K!setting
  <2>3. req[t] \in Carrying /\ req[t] \in Vouching
    BY <2>2 DEF Carrying, Vouching, K!Files
  <2>4. /\ FramesInv' /\ answer' = None /\ AnswerInv'
        /\ req' \in [Threads -> Steps] /\ frame' \in [Threads -> K!Frame]
        /\ req'[t] = "stamp" /\ \A u \in Threads \ {t} : req'[u] = req[u]
    BY <1>g, <2>2, <2>3 DEF Carrying
  <2>5. /\ c \in K!Frame \cup {None, Torn}
        /\ c \in K!Frame => Whole(c, exchange, endOpens)
        /\ twofold \/ (c \in K!Frame => c.old = FALSE)
    <3>1. frame[t] \in K!Frame /\ frame[t].old = FALSE /\ Whole(frame[t], exchange, endOpens)
      BY <1>0, <1>t, <2>3 DEF FramesInv
    <3>2. /\ files[req[t]] \in K!Frame \cup {None, Torn}
          /\ files[req[t]] \in K!Frame => Whole(files[req[t]], exchange, endOpens)
      BY <1>0, <1>t, <2>2 DEF FilesInv
    <3>3. twofold \/ (files[req[t]] \in K!Frame => files[req[t]].old = FALSE)
      BY <1>0, <2>2, <2>3 DEF FreshInv
    <3> QED BY <2>1, <3>1, <3>2, <3>3, NoFrame
  <2>6. CandleTypes'
    <3>1. files' \in [K!Files -> K!Frame \cup {None, Torn}]
      BY <1>t, <2>1, <2>2, <2>5
    <3>2. writers' \in [K!Files -> SUBSET Threads] /\ mixed' \subseteq K!Files
      BY <1>t, <2>2
    <3> QED BY <1>t, <1>d, <2>2, <2>4, <3>1, <3>2 DEF CandleTypes
  <2>7. \A f \in K!Files : files'[f] = c \/ files'[f] = files[f]
    BY <1>t, <2>1, <2>2
  <2>8. FilesInv'
    BY <1>0, <2>2, <2>5, <2>7 DEF FilesInv
  <2>9. twofold \/ \A f \in K!Files : files[f] \in K!Frame => files[f].old = FALSE
    BY <1>0, <2>3 DEF FreshInv
  <2>10. ~twofold => \A f \in K!Files : files'[f] \in K!Frame => files'[f].old = FALSE
    BY <2>5, <2>7, <2>9
  <2>11. twofold' = twofold
    BY <2>2
  <2>12. FreshInv'
    BY <2>10, <2>11, Zenon DEF FreshInv
  <2> QED BY <1>a, <1>e, <2>2, <2>4, <2>6, <2>8, <2>12
\* Files that are removed.
<1>u. ASSUME NEW f \in K!Files, K!Remove(f), UNCHANGED <<exchange, endOpens, twofold>>,
             meta' = meta,
             \A u \in Threads : req'[u] \in Vouching => req[u] \in Vouching \/ meta = "fresh"
      PROVE  /\ files' \in [K!Files -> K!Frame \cup {None, Torn}]
             /\ writers' \in [K!Files -> SUBSET Threads] /\ mixed' \subseteq K!Files
             /\ FilesInv' /\ FreshInv'
  <2>1. /\ files' = [files EXCEPT ![f] = None] /\ writers' = [writers EXCEPT ![f] = {}]
        /\ mixed' = mixed \ {f}
    BY <1>u DEF K!Remove
  <2>2. /\ files' \in [K!Files -> K!Frame \cup {None, Torn}]
        /\ writers' \in [K!Files -> SUBSET Threads] /\ mixed' \subseteq K!Files
    BY <1>t, <2>1
  <2>3. \A g \in K!Files : files'[g] = None \/ files'[g] = files[g]
    BY <1>t, <2>1
  <2>4. FilesInv'
    BY <1>0, <1>u, <2>3, NoFrame DEF FilesInv
  <2>5. FreshInv'
    BY <1>0, <1>u, <2>3, NoFrame DEF FreshInv
  <2> QED BY <2>2, <2>4, <2>5
<1>8. ASSUME NEW t \in Threads, K!WriteFails(t) PROVE CandleInv'
  <2>1. /\ UNCHANGED <<exchange, endOpens, now, meta, twofold>> /\ req[t] \in K!Files
        /\ \/ K!Remove("parquet")
           \/ /\ UNCHANGED files
              /\ writers' = [writers EXCEPT ![req[t]] = @ \ {t}]
              /\ mixed' = IF writers[req[t]] \subseteq {t} THEN mixed \ {req[t]} ELSE mixed
        /\ \/ K!Goto(t, "fallback") /\ frame' = frame
           \/ K!Return(t, Raised)
    BY <1>8 DEF K!WriteFails, K!Released, K!setting
  <2>2. req[t] \in Carrying /\ "fallback" \in Carrying /\ "fallback" \notin Vouching
    BY <2>1 DEF Carrying, Vouching, K!Files
  <2>3. /\ FramesInv' /\ answer' \in {None, Raised}
        /\ req' \in [Threads -> Steps] /\ frame' \in [Threads -> K!Frame]
        /\ \A u \in Threads : req'[u] \in Vouching => req[u] \in Vouching
    <3>1. CASE K!Goto(t, "fallback") /\ frame' = frame
      <4>1. /\ FramesInv' /\ answer' = None
            /\ req' \in [Threads -> Steps] /\ frame' \in [Threads -> K!Frame]
            /\ req'[t] = "fallback" /\ \A u \in Threads \ {t} : req'[u] = req[u]
        BY <1>g, <2>1, <2>2, <3>1
      <4> QED BY <2>2, <4>1
    <3>2. CASE K!Return(t, Raised)
      BY <1>r, <2>1, <3>2
    <3> QED BY <2>1, <3>1, <3>2
  <2>4. /\ files' \in [K!Files -> K!Frame \cup {None, Torn}]
        /\ writers' \in [K!Files -> SUBSET Threads] /\ mixed' \subseteq K!Files
        /\ FilesInv' /\ FreshInv'
    <3>1. CASE K!Remove("parquet")
      BY <1>u, <2>1, <2>3, <3>1 DEF K!Files
    <3>2. CASE /\ UNCHANGED files
               /\ writers' = [writers EXCEPT ![req[t]] = @ \ {t}]
               /\ mixed' = IF writers[req[t]] \subseteq {t} THEN mixed \ {req[t]} ELSE mixed
      <4>1. FilesInv' /\ FreshInv'
        BY <1>b, <1>c, <2>1, <2>3, <3>2
      <4> QED BY <1>t, <2>1, <3>2, <4>1
    <3> QED BY <2>1, <3>1, <3>2
  <2>5. AnswerInv' /\ answer' \in K!Frame \cup {None, Part, Raised}
    BY <1>d, <2>3
  <2>6. CandleTypes'
    BY <1>t, <2>1, <2>3, <2>4, <2>5 DEF CandleTypes
  <2> QED BY <1>a, <1>e, <2>1, <2>3, <2>4, <2>5, <2>6
<1>9. ASSUME NEW t \in Threads, K!OpenMeta(t) PROVE CandleInv'
  <2>1. /\ UNCHANGED <<exchange, endOpens, now, files, writers, mixed, twofold, frame>>
        /\ req[t] = "stamp" /\ K!Goto(t, "stamping") /\ meta' = "stale"
    BY <1>9 DEF K!OpenMeta, K!setting
  <2>2. /\ FramesInv' /\ answer' = None /\ AnswerInv'
        /\ req' \in [Threads -> Steps] /\ frame' \in [Threads -> K!Frame]
        /\ req'[t] = "stamping" /\ \A u \in Threads \ {t} : req'[u] = req[u]
    BY <1>g, <2>1 DEF Carrying
  <2>3. CandleTypes'
    BY <1>t, <1>d, <2>1, <2>2 DEF CandleTypes
  <2>4. \A u \in Threads : req'[u] \in Vouching => req[u] \in Vouching
    BY <2>1, <2>2 DEF Vouching
  <2>5. FreshInv'
    BY <1>c, <2>1, <2>4
  <2> QED BY <1>a, <1>b, <1>e, <2>1, <2>2, <2>3, <2>5
<1>10. ASSUME NEW t \in Threads, K!SaveMeta(t) PROVE CandleInv'
  <2>1. /\ UNCHANGED <<exchange, endOpens, now, files, writers, mixed, twofold>>
        /\ req[t] = "stamping" /\ K!Return(t, frame[t])
        /\ meta' \in {"none", "fresh"}
    BY <1>10 DEF K!SaveMeta, K!setting
  <2>2. /\ FramesInv' /\ answer' = frame[t]
        /\ req' \in [Threads -> Steps] /\ frame' \in [Threads -> K!Frame]
        /\ \A u \in Threads : req'[u] \in Vouching => req[u] \in Vouching
    BY <1>r, <2>1
  <2>3. frame[t] \in K!Frame /\ frame[t].old = FALSE /\ Whole(frame[t], exchange, endOpens)
    BY <1>0, <1>t, <2>1 DEF FramesInv, Carrying
  <2>4. CandleTypes'
    BY <1>t, <2>1, <2>2, <2>3 DEF CandleTypes
  <2>5. FreshInv'
    BY <1>0, <2>1 DEF FreshInv, Vouching
  <2>6. exchange' = exchange /\ endOpens' = endOpens
    BY <2>1
  <2>7. AnswerInv'
    BY <2>2, <2>3, <2>6 DEF AnswerInv
  <2> QED BY <1>a, <1>b, <1>e, <2>1, <2>2, <2>4, <2>5, <2>7
<1>11. ASSUME NEW p \in K!Files \cup {"meta"}, K!DeleteCache(p) PROVE CandleInv'
  <2>1. /\ UNCHANGED <<exchange, endOpens, now, twofold, req, frame>> /\ answer' = None
        /\ \/ meta' = "none" /\ UNCHANGED <<files, writers, mixed>>
           \/ p \in K!Files /\ K!Remove(p) /\ meta' = meta
    BY <1>11 DEF K!DeleteCache, K!setting
  <2>2. FramesInv'
    BY <1>0, <2>1 DEF FramesInv
  <2>3. /\ files' \in [K!Files -> K!Frame \cup {None, Torn}]
        /\ writers' \in [K!Files -> SUBSET Threads] /\ mixed' \subseteq K!Files
        /\ meta' \in {"none", "stale", "fresh"}
        /\ FilesInv' /\ FreshInv'
    <3>1. CASE meta' = "none" /\ UNCHANGED <<files, writers, mixed>>
      BY <1>b, <1>c, <1>t, <2>1, <3>1
    <3>2. CASE p \in K!Files /\ K!Remove(p) /\ meta' = meta
      BY <1>t, <1>u, <2>1, <3>2
    <3> QED BY <2>1, <3>1, <3>2
  <2>4. CandleTypes'
    BY <1>t, <1>d, <2>1, <2>3 DEF CandleTypes
  <2> QED BY <1>a, <1>d, <1>e, <2>1, <2>2, <2>3, <2>4
<1>12. CASE K!Tick
  <2>1. /\ UNCHANGED <<exchange, endOpens, files, meta, writers, mixed, twofold, req, frame>>
        /\ answer' = None /\ now' = now + 1 /\ now < LastBar
    BY <1>12 DEF K!Tick, K!setting, K!files
  <2>2. now' \in 1 .. LastBar /\ now' \in Int /\ now <= now'
    BY <1>t, <2>1, CandleSizes
  <2>3. FramesInv'
    <3>1. \A u \in Threads \ {} : req'[u] = req[u] /\ frame'[u] = frame[u]
      BY <2>1
    <3>2. \A u \in {} : /\ frame'[u].old = FALSE
                        /\ req'[u] = "page" => PartWay(frame'[u], now', exchange, endOpens)
                        /\ req'[u] \in Carrying => Whole(frame'[u], exchange, endOpens)
      OBVIOUS
    <3>3. {} \in SUBSET Threads
      OBVIOUS
    <3> QED BY <1>0, <2>1, <2>2, <3>1, <3>2, <3>3, FramesKept
  <2>4. CandleTypes'
    BY <1>t, <1>d, <2>1, <2>2 DEF CandleTypes
  <2>5. FreshInv'
    BY <1>c, <2>1
  <2> QED BY <1>a, <1>b, <1>d, <1>e, <2>1, <2>3, <2>4, <2>5
<1>13. CASE K!Expire
  <2>1. /\ UNCHANGED <<exchange, endOpens, now, writers, mixed, twofold, req, frame>>
        /\ answer' = None /\ meta' = "stale" /\ \A t \in Threads : req[t] = "idle"
        /\ files' = [f \in K!Files |-> IF files[f] \in {None, Torn} THEN files[f]
                                    ELSE Aged(files[f])]
    BY <1>13 DEF K!Expire, K!setting, Aged
  <2>8. ASSUME NEW f \in K!Files, files[f] \notin {None, Torn}
        PROVE  /\ files[f] \in K!Frame /\ files'[f] = Aged(files[f])
               /\ Whole(files[f], exchange, endOpens)
    <3>1. files[f] \in K!Frame /\ files'[f] = Aged(files[f])
      BY <1>t, <2>1, <2>8
    <3>2. Whole(files[f], exchange, endOpens)
      BY <1>0, <3>1 DEF FilesInv
    <3> QED BY <3>1, <3>2
  <2>9. \A f \in K!Files : files[f] \in {None, Torn} => files'[f] = files[f]
    BY <2>1
  <2>2. \A f \in K!Files : files'[f] \in K!Frame \cup {None, Torn}
    BY <2>8, <2>9, StaysWhole
  <2>10. \A f \in K!Files : files'[f] \in K!Frame => Whole(files'[f], exchange, endOpens)
    BY <2>8, <2>9, StaysWhole, NoFrame
  <2>3. FilesInv'
    BY <2>1, <2>10 DEF FilesInv
  <2>4. files' \in [K!Files -> K!Frame \cup {None, Torn}]
    <3>1. files' = [f \in K!Files |-> files'[f]]
      BY <2>1
    <3> QED BY <2>2, <3>1
  <2>5. CandleTypes'
    BY <1>t, <1>d, <2>1, <2>4 DEF CandleTypes
  <2>6. FreshInv'
    <3>1. ~(meta' = "fresh" \/ \E t \in Threads : req'[t] \in Vouching)
      BY <2>1 DEF Vouching
    <3> QED BY <3>1, Zenon DEF FreshInv
  <2>7. FramesInv'
    BY <1>0, <2>1 DEF FramesInv
  <2> QED BY <1>a, <1>d, <1>e, <2>1, <2>3, <2>5, <2>6, <2>7
<1>14. CASE K!Restart
  <2>1. /\ UNCHANGED <<exchange, endOpens, now, files, meta, twofold>> /\ answer' = None
        /\ req' = [t \in Threads |-> "idle"] /\ frame' = [t \in Threads |-> K!Nothing]
        /\ writers' = [f \in K!Files |-> {}] /\ mixed' = {}
    BY <1>14 DEF K!Restart, K!setting
  <2>2. K!Nothing \in K!Frame /\ K!Nothing.old = FALSE
    BY <1>t, NothingIsFrame DEF K!Nothing, K!Since
  <2>3. CandleTypes'
    BY <1>t, <1>d, <2>1, <2>2 DEF CandleTypes, Steps
  <2>4. FramesInv'
    BY <2>1, <2>2 DEF FramesInv, Carrying
  <2>5. FreshInv'
    BY <1>c, <2>1 DEF Vouching
  <2> QED BY <1>a, <1>b, <1>d, <1>e, <2>1, <2>3, <2>4, <2>5
<1>15. CASE UNCHANGED K!vars
  <2>1. UNCHANGED <<exchange, endOpens, now, files, meta, writers, mixed, twofold, req, frame, answer>>
    BY <1>15 DEF K!vars
  <2> QED BY <1>0, <1>a, <1>b, <1>e, <2>1
          DEF CandleTypes, FramesInv, FreshInv, AnswerInv
<1>16. \A t \in Threads : K!CreateParquet(t) \/ K!CreateCsv(t) => CandleInv'
  BY <1>5 DEF K!CreateParquet, K!CreateCsv, K!Files
<1> QED BY <1>1, <1>2, <1>3, <1>4, <1>6, <1>7, <1>8, <1>9, <1>10, <1>11, <1>12, <1>13, <1>14,
           <1>15, <1>16 DEF K!Next

\* It implies what is promised of an answer.
LEMMA WhatIsAnswered == CandleInv => K!TypeOK /\ K!CandlesAreWhole /\ K!CandlesAreFresh
<1> SUFFICES ASSUME CandleInv PROVE K!TypeOK /\ K!CandlesAreWhole /\ K!CandlesAreFresh
  OBVIOUS
<1>1. /\ CandleTypes /\ CandleFlags /\ AnswerInv
  BY DEF CandleInv
<1>2. K!TypeOK
  BY <1>1 DEF CandleTypes, CandleFlags, Steps, K!TypeOK
<1>3. \A a \in K!Answers : /\ a = answer /\ a \in K!Frame
                         /\ Whole(a, exchange, endOpens) /\ (twofold \/ a.old = FALSE)
  BY <1>1 DEF K!Answers, CandleTypes, AnswerInv
<1>4. ASSUME NEW a \in K!Answers
      PROVE  /\ a.bars = 0 .. K!Max(a.bars)
             /\ K!Max(a.bars) >= K!Min({End, a.began})
                                 - (IF exchange = "binance" /\ endOpens THEN 1 ELSE 0)
             /\ \A b \in a.open : b = K!Max(a.bars) \/ K!ClosesPage(b)
  <2>1. PICK k \in K!Bars :
          /\ a.bars = 0 .. k /\ k >= Least(a.began, exchange, endOpens)
          /\ \A b \in a.open : b = k \/ (exchange = "binance" /\ (b + 1) % MaxPage = 0)
    BY <1>3, <1>4 DEF Whole
  <2>2. k \in Nat /\ a.began \in Nat /\ End \in Nat
    BY <1>3, <1>4, CandleSizes DEF K!Bars, K!Frame
  <2>3. K!Max(a.bars) = k
    BY <2>1, <2>2, LastOf
  <2>4. K!Min({End, a.began}) = IF a.began <= End THEN a.began ELSE End
    BY <2>2, LesserOf
  <2> QED BY <2>1, <2>2, <2>3, <2>4 DEF Least, K!ClosesPage
<1>5. K!CandlesAreWhole
  BY <1>4 DEF K!CandlesAreWhole
<1>6. K!CandlesAreFresh
  BY <1>3 DEF K!CandlesAreFresh
<1> QED BY <1>2, <1>5, <1>6

-----------------------------------------------------------------------------
(* The backtest jobs.                                                      *)

\* The newest n jobs are no more than n.
LEMMA FewNewest ==
  ASSUME NEW S \in SUBSET Nat, IsFiniteSet(S), NEW n \in Nat
  PROVE  LET Q == {j \in S : Cardinality({k \in S : k > j}) < n} IN
         IsFiniteSet(Q) /\ Cardinality(Q) <= n
<1> DEFINE Q == {j \in S : Cardinality({k \in S : k > j}) < n}
<1>0. Q \subseteq S /\ Q \in SUBSET Nat
  OBVIOUS
<1>1. IsFiniteSet(Q)
  BY <1>0, FS_Subset
<1>c. Cardinality(Q) \in Nat
  BY <1>1, FS_CardinalityType
<1>m. \A m \in Q : m \in S /\ Cardinality({k \in S : k > m}) < n
  OBVIOUS
<1> HIDE DEF Q
<1>2. ASSUME Q = {} PROVE Cardinality(Q) <= n
  BY <1>1, <1>2, FS_EmptySet
<1>3. ASSUME Q # {} PROVE Cardinality(Q) <= n
  <2>1. PICK m \in Q : \A k \in Q : m <= k
    BY <1>0, <1>3, LeastOf
  <2> DEFINE U == {k \in S : k > m}
  <2>2. IsFiniteSet(U)
    BY FS_Subset
  <2>3. Cardinality(U) \in Nat /\ Cardinality(U) < n
    BY <2>1, <2>2, <1>m, FS_CardinalityType
  <2>5. Q \subseteq U \cup {m}
    BY <1>0, <2>1
  <2> HIDE DEF U
  <2>4. IsFiniteSet(U \cup {m}) /\ Cardinality(U \cup {m}) <= Cardinality(U) + 1
    <3>1. /\ IsFiniteSet(U \cup {m})
          /\ Cardinality(U \cup {m}) = IF m \in U THEN Cardinality(U) ELSE Cardinality(U) + 1
      BY <2>2, FS_AddElement, Zenon
    <3>2. CASE m \in U
      <4>1. Cardinality(U \cup {m}) = Cardinality(U)
        BY <3>1, <3>2, Zenon
      <4>2. \A a \in Nat : a <= a + 1
        OBVIOUS
      <4> QED BY <2>3, <3>1, <4>1, <4>2, Zenon
    <3>3. CASE m \notin U
      <4>1. Cardinality(U \cup {m}) = Cardinality(U) + 1
        BY <3>1, <3>3, Zenon
      <4>2. \A a \in Nat : a + 1 <= a + 1
        OBVIOUS
      <4> QED BY <2>3, <3>1, <4>1, <4>2, Zenon
    <3> QED BY <3>2, <3>3
  <2>6. Cardinality(Q) <= Cardinality(U \cup {m})
    BY <2>4, <2>5, FS_Subset
  <2>7. Cardinality(U \cup {m}) \in Nat
    BY <2>4, FS_CardinalityType
  <2>8. \A a, b, c \in Nat : a <= b /\ b <= c + 1 /\ c < n => a <= n
    OBVIOUS
  <2> QED BY <1>c, <2>3, <2>4, <2>6, <2>7, <2>8, Zenon
<1> QED BY <1>1, <1>2, <1>3 DEF Q

\* Two names of the number of elements of a set.
LEMMA JobsCounted == \A S : J!Cardinality(S) = Cardinality(S)
  BY DEF J!Cardinality, Cardinality

\* Jobs are numbered, and finite in number.
LEMMA JobSizes == /\ Jobs \subseteq Nat /\ IsFiniteSet(Jobs) /\ MaxJobs \in Nat
                  /\ None \notin J!Active \cup J!Settled
  BY NoneIsNothing, BooksAssumption DEF J!Active, J!Settled

Workers == {"off", "task", "began", "busy", "ended"}

JobTypes ==
  /\ jobs \in [Jobs -> J!Active \cup J!Settled \cup {None}]
  /\ disk \in [Jobs -> J!Active \cup J!Settled \cup {None}]
  /\ worker \in [Jobs -> Workers] /\ made \in Nat
  /\ deleted \subseteq Jobs /\ evicted \subseteq Jobs
  /\ undead \subseteq deleted \cup evicted /\ stranded \subseteq Jobs

\* Only jobs that were made are anywhere.
Numbered == \A j \in Jobs : jobs[j] # None \/ disk[j] # None \/ worker[j] # "off"
                            \/ j \in deleted \cup evicted => j <= made

\* Who was removed without leaving a trace has no worker that could write it back.
Gone == \A j \in (deleted \cup evicted) \ undead :
          jobs[j] = None /\ disk[j] = None /\ ~J!AtWork(j)

\* A job that waits or runs is shown as such, which keeps it from being evicted, and
\* one that is shown as such waits or runs, or was stranded.
Served == \A j \in Jobs :
  /\ worker[j] \in {"task", "began", "busy"} /\ j \notin deleted => jobs[j] \in J!Active
  /\ jobs[j] \in J!Active => worker[j] \in {"task", "began", "busy"} \/ j \in stranded
  /\ worker[j] = "ended" => jobs[j] \notin J!Active

Fits == Cardinality(J!Stored) <= MaxJobs

Bounded == swamped \in BOOLEAN /\ (~swamped => Fits)

JobInv == JobTypes /\ Numbered /\ Gone /\ Served /\ Bounded

\* The initial states satisfy the invariant.
LEMMA JobInvInit == J!Init => JobInv
<1> SUFFICES ASSUME J!Init PROVE JobInv
  OBVIOUS
<1>1. JobTypes
  BY DEF J!Init, JobTypes, Workers
<1>2. Numbered /\ Gone
  BY DEF J!Init, Numbered, Gone
<1>3. Served
  BY JobSizes DEF J!Init, Served
<1>4. J!Stored = {}
  BY DEF J!Init, J!Stored
<1>5. Fits
  BY <1>4, JobSizes, FS_EmptySet DEF Fits
<1>6. Bounded
  BY <1>5, Zenon DEF J!Init, Bounded
<1> QED BY <1>1, <1>2, <1>3, <1>6 DEF JobInv

\* Where a job no longer waits or runs it may be settled or removed, never put back.
LEMMA JobInvStep == ASSUME JobInv, [J!Next]_(J!vars) PROVE JobInv'
<1>0. JobTypes /\ Numbered /\ Gone /\ Served /\ Bounded
  BY DEF JobInv
<1>a. JobTypes' /\ Numbered' /\ Gone' /\ Served' /\ Bounded' => JobInv'
  BY DEF JobInv
<1>t. /\ jobs \in [Jobs -> J!Active \cup J!Settled \cup {None}]
      /\ disk \in [Jobs -> J!Active \cup J!Settled \cup {None}]
      /\ worker \in [Jobs -> Workers] /\ made \in Nat
      /\ deleted \subseteq Jobs /\ evicted \subseteq Jobs
      /\ undead \subseteq deleted \cup evicted /\ stranded \subseteq Jobs
  BY <1>0 DEF JobTypes
<1>f. IsFiniteSet(J!Stored) /\ Cardinality(J!Stored) \in Nat
  <2>1. J!Stored \in SUBSET Jobs
    BY DEF J!Stored
  <2>2. IsFiniteSet(J!Stored)
    BY <2>1, JobSizes, FS_Subset
  <2> QED BY <2>2, FS_CardinalityType
\* A step that adds no job leaves no more than there were.
<1>b. ASSUME J!Stored' \subseteq J!Stored, swamped' = swamped PROVE Bounded'
  <2>1. J!Stored' \in SUBSET J!Stored
    BY <1>b
  <2>2. Cardinality(J!Stored') <= Cardinality(J!Stored) /\ IsFiniteSet(J!Stored')
    BY <1>f, <2>1, FS_Subset
  <2>3. Cardinality(J!Stored') \in Nat
    BY <2>2, FS_CardinalityType
  <2>4. Fits => Fits'
    BY <1>f, <2>2, <2>3, JobSizes DEF Fits
  <2> QED BY <1>0, <1>b, <2>4, Zenon DEF Bounded
<1>1. ASSUME NEW loaded \in BOOLEAN, J!Run(loaded) PROVE JobInv'
  <2> DEFINE j == made + 1
  <2>1. /\ j \in Jobs /\ made' = j
        /\ jobs' = [J!Less(jobs, J!Evicted) EXCEPT ![j] = "queued"]
        /\ disk' = [J!Less(disk, J!Evicted) EXCEPT ![j] = IF loaded THEN "queued" ELSE None]
        /\ worker' = [worker EXCEPT ![j] = IF loaded THEN "task" ELSE "off"]
        /\ evicted' = evicted \cup J!Evicted
        /\ stranded' = IF loaded THEN stranded ELSE stranded \cup {j}
        /\ undead' = undead \cup {e \in J!Evicted : J!AtWork(e)}
        /\ deleted' = deleted
    BY <1>1 DEF J!Run
  <2>2. swamped' = (swamped \/ Cardinality(J!Stored \ J!Evicted) >= MaxJobs)
    BY <1>1, JobsCounted DEF J!Run
  <2>3. \A e \in J!Evicted : e \in J!Stored /\ e \in Jobs /\ jobs[e] \in J!Settled
    BY DEF J!Evicted, J!Oldest, J!Evictable, J!Stored
  <2>4. /\ jobs[j] = None /\ disk[j] = None /\ worker[j] = "off"
        /\ j \notin deleted \cup evicted /\ j \notin J!Evicted /\ j \in Nat
    <3>1. ~(j <= made) /\ j \in Nat
      BY <1>t
    <3>2. /\ jobs[j] = None /\ disk[j] = None /\ worker[j] = "off"
          /\ j \notin deleted \cup evicted
      BY <1>0, <2>1, <3>1 DEF Numbered
    <3> QED BY <2>3, <3>1, <3>2, JobSizes
  <2>5. /\ jobs'[j] = "queued" /\ worker'[j] \in {"task", "off"}
        /\ worker'[j] = "off" => j \in stranded'
        /\ disk'[j] \in {"queued", None}
    BY <1>t, <2>1 DEF J!Less
  <2>6. \A k \in Jobs \ {j} :
          /\ worker'[k] = worker[k]
          /\ k \in J!Evicted => jobs'[k] = None /\ disk'[k] = None
          /\ k \notin J!Evicted => jobs'[k] = jobs[k] /\ disk'[k] = disk[k]
    BY <1>t, <2>1 DEF J!Less
  <2> HIDE DEF j
  <2>7. JobTypes'
    <3>1. jobs' \in [Jobs -> J!Active \cup J!Settled \cup {None}]
      BY <1>t, <2>1 DEF J!Less, J!Active
    <3>2. disk' \in [Jobs -> J!Active \cup J!Settled \cup {None}]
      BY <1>t, <2>1 DEF J!Less, J!Active
    <3>3. worker' \in [Jobs -> Workers]
      BY <1>t, <2>1 DEF Workers
    <3>4. evicted' \subseteq Jobs /\ undead' \subseteq deleted' \cup evicted' /\ stranded' \subseteq Jobs
      BY <1>t, <2>1, <2>3
    <3> QED BY <1>t, <2>1, <2>4, <3>1, <3>2, <3>3, <3>4 DEF JobTypes
  <2>8. Numbered'
    <3>1. j = made + 1
      BY DEF j
    <3> HIDE DEF j
    <3>2. \A k \in Jobs : k <= made => k <= made'
      BY <1>t, <2>1, <3>1, JobSizes
    <3>3. \A k \in J!Evicted : k <= made
      BY <1>0, <2>3, JobSizes DEF Numbered
    <3>4. \A k \in Jobs \ {j} : jobs'[k] # None \/ disk'[k] # None \/ worker'[k] # "off"
                               \/ k \in deleted' \cup evicted' => k <= made
      BY <1>0, <2>1, <2>6, <3>3 DEF Numbered
    <3>5. j <= made'
      BY <2>1, <2>4
    <3> QED BY <3>2, <3>4, <3>5 DEF Numbered
  <2>9. Gone'
    BY <1>0, <1>t, <2>1, <2>3, <2>4, <2>6 DEF Gone, J!AtWork
  <2>10. Served'
    <3>1. \A k \in J!Evicted : jobs[k] \notin J!Active /\ None \notin J!Active
      BY <2>3, JobSizes DEF J!Active, J!Settled
    <3>2. \A k \in Jobs \ {j} :
             /\ worker'[k] \in {"task", "began", "busy"} /\ k \notin deleted' => jobs'[k] \in J!Active
             /\ jobs'[k] \in J!Active => worker'[k] \in {"task", "began", "busy"} \/ k \in stranded'
             /\ worker'[k] = "ended" => jobs'[k] \notin J!Active
      BY <1>0, <2>1, <2>6, <3>1 DEF Served
    <3>3. /\ jobs'[j] \in J!Active /\ worker'[j] # "ended"
          /\ worker'[j] \in {"task", "began", "busy"} \/ j \in stranded'
      BY <2>5 DEF J!Active
    <3> QED BY <3>2, <3>3 DEF Served
  <2>11. Bounded'
    <3>1. J!Stored' \subseteq (J!Stored \ J!Evicted) \cup {j}
      BY <2>1, <2>6 DEF J!Stored
    <3>2. J!Stored \ J!Evicted \in SUBSET J!Stored
      OBVIOUS
    <3>3. IsFiniteSet(J!Stored \ J!Evicted)
      BY <1>f, <3>2, FS_Subset
    <3> DEFINE few == Cardinality(J!Stored \ J!Evicted)
               more == Cardinality((J!Stored \ J!Evicted) \cup {j})
    <3>4. few \in Nat
      BY <3>3, FS_CardinalityType
    <3>5. IsFiniteSet((J!Stored \ J!Evicted) \cup {j}) /\ (more = few \/ more = few + 1)
      BY <3>3, FS_AddElement, Zenon
    <3>6. J!Stored' \in SUBSET ((J!Stored \ J!Evicted) \cup {j})
      BY <3>1
    <3>7. IsFiniteSet(J!Stored') /\ Cardinality(J!Stored') <= more
      BY <3>5, <3>6, FS_Subset
    <3>8. Cardinality(J!Stored') \in Nat
      BY <3>7, FS_CardinalityType
    <3>9. swamped' = (swamped \/ few >= MaxJobs)
      BY <2>2
    <3> HIDE DEF few, more
    <3>10. ~(few >= MaxJobs) => Fits'
      BY <3>4, <3>5, <3>7, <3>8, JobSizes DEF Fits
    <3> QED BY <3>9, <3>10, Zenon DEF Bounded
  <2> QED BY <1>a, <2>7, <2>8, <2>9, <2>10, <2>11
<1>2. ASSUME NEW j \in Jobs, J!Begin(j) PROVE JobInv'
  <2>1. /\ worker[j] = "task"
        /\ UNCHANGED <<disk, made, deleted, evicted, undead, stranded, swamped>>
        /\ \/ /\ jobs[j] = None /\ jobs' = jobs
              /\ worker' = [worker EXCEPT ![j] = "off"]
           \/ /\ jobs[j] # None /\ jobs' = [jobs EXCEPT ![j] = "running"]
              /\ worker' = [worker EXCEPT ![j] = "began"]
    BY <1>2 DEF J!Begin, J!BeginOrSkip, J!Goes, J!Marks, J!history
  <2>2. JobTypes'
    BY <1>t, <2>1 DEF JobTypes, Workers, J!Active
  <2>3. J!Stored' \subseteq J!Stored
    BY <1>t, <2>1 DEF J!Stored
  <2>4. Numbered'
    BY <1>0, <1>t, <2>1 DEF Numbered
  <2>5. Gone'
    BY <1>0, <1>t, <2>1 DEF Gone, J!AtWork
  <2>6. Served'
    BY <1>0, <1>t, <2>1, JobSizes DEF Served, J!Active
  <2> QED BY <1>a, <1>b, <2>1, <2>2, <2>3, <2>4, <2>5, <2>6
<1>3. ASSUME NEW j \in Jobs, NEW loaded \in BOOLEAN, J!SaveRunning(j, loaded) PROVE JobInv'
  <2>1. /\ worker[j] = "began"
        /\ UNCHANGED <<jobs, made, deleted, evicted, undead, swamped>>
        /\ \/ /\ disk' = [disk EXCEPT ![j] = "running"] /\ stranded' = stranded
              /\ worker' = [worker EXCEPT ![j] = "busy"]
           \/ /\ worker' = [worker EXCEPT ![j] = "off"] /\ disk' = disk
              /\ stranded' = stranded \cup {j}
    BY <1>3 DEF J!SaveRunning, J!Persist, J!Goes
  <2>2. JobTypes'
    BY <1>t, <2>1 DEF JobTypes, Workers, J!Active
  <2>3. J!Stored' \subseteq J!Stored
    BY <1>t, <2>1 DEF J!Stored
  <2>4. Numbered'
    BY <1>0, <1>t, <2>1 DEF Numbered
  <2>5. Gone'
    BY <1>0, <1>t, <2>1 DEF Gone, J!AtWork
  <2>6. Served'
    BY <1>0, <1>t, <2>1, JobSizes DEF Served
  <2> QED BY <1>a, <1>b, <2>1, <2>2, <2>3, <2>4, <2>5, <2>6
<1>4. ASSUME NEW j \in Jobs, J!Finish(j) PROVE JobInv'
  <2>1. /\ worker[j] = "busy" /\ worker' = [worker EXCEPT ![j] = "ended"]
        /\ UNCHANGED <<disk, made, deleted, evicted, undead, stranded, swamped>>
        /\ \/ jobs[j] = None /\ jobs' = jobs
           \/ jobs[j] # None /\ jobs' = [jobs EXCEPT ![j] = "error"]
    BY <1>4 DEF J!Finish, J!Goes, J!Marks, J!history
  <2>2. JobTypes'
    BY <1>t, <2>1 DEF JobTypes, Workers, J!Settled
  <2>3. J!Stored' \subseteq J!Stored
    BY <1>t, <2>1 DEF J!Stored
  <2>4. Numbered'
    BY <1>0, <1>t, <2>1 DEF Numbered
  <2>5. Gone'
    BY <1>0, <1>t, <2>1 DEF Gone, J!AtWork
  <2>6. Served'
    BY <1>0, <1>t, <2>1, JobSizes DEF Served, J!Active
  <2> QED BY <1>a, <1>b, <2>1, <2>2, <2>3, <2>4, <2>5, <2>6
<1>5. ASSUME NEW j \in Jobs, NEW loaded \in BOOLEAN, J!SaveEnd(j, loaded) PROVE JobInv'
  <2>1. /\ worker[j] = "ended" /\ worker' = [worker EXCEPT ![j] = "off"]
        /\ UNCHANGED <<jobs, made, deleted, evicted, undead, stranded, swamped>>
        /\ disk' = [disk EXCEPT ![j] = "error"] \/ disk' = disk
    BY <1>5 DEF J!SaveEnd, J!Persist, J!Goes, J!history
  <2>2. JobTypes'
    BY <1>t, <2>1 DEF JobTypes, Workers, J!Settled
  <2>3. J!Stored' \subseteq J!Stored
    BY <1>t, <2>1 DEF J!Stored
  <2>4. Numbered'
    BY <1>0, <1>t, <2>1 DEF Numbered
  <2>5. Gone'
    BY <1>0, <1>t, <2>1 DEF Gone, J!AtWork
  <2>6. Served'
    BY <1>0, <1>t, <2>1, JobSizes DEF Served
  <2> QED BY <1>a, <1>b, <2>1, <2>2, <2>3, <2>4, <2>5, <2>6
<1>6. ASSUME NEW j \in Jobs, NEW loaded \in BOOLEAN, J!Delete(j, loaded) PROVE JobInv'
  <2>0. /\ jobs[j] # None /\ jobs' = J!Less(jobs, {j})
        /\ loaded => disk' = J!Less(disk, {j})
        /\ ~loaded => disk' = disk
        /\ deleted' = deleted \cup {j}
        /\ J!AtWork(j) \/ ~loaded => undead' = undead \cup {j}
        /\ ~(J!AtWork(j) \/ ~loaded) => undead' = undead
        /\ UNCHANGED <<worker, made, evicted, stranded, swamped>>
    BY <1>6, Zenon DEF J!Delete
  <2>1. /\ jobs[j] # None /\ jobs' = J!Less(jobs, {j})
        /\ disk' = J!Less(disk, {j}) \/ disk' = disk
        /\ deleted' = deleted \cup {j}
        /\ UNCHANGED <<worker, made, evicted, stranded, swamped>>
        /\ \/ undead' = undead \cup {j}
           \/ undead' = undead /\ ~J!AtWork(j) /\ disk' = J!Less(disk, {j})
    BY <2>0, Zenon
  <2>2. \A k \in Jobs : /\ k = j => jobs'[k] = None
                        /\ k # j => jobs'[k] = jobs[k] /\ disk'[k] = disk[k]
                        /\ disk'[k] # None => disk[k] # None
                        /\ undead' = undead => disk'[j] = None \/ j \in undead
    BY <1>t, <2>1 DEF J!Less
  <2>3. JobTypes'
    BY <1>t, <2>1 DEF JobTypes, J!Less
  <2>4. J!Stored' \subseteq J!Stored
    BY <2>2 DEF J!Stored
  <2>5. Numbered'
    BY <1>0, <1>t, <2>1, <2>2 DEF Numbered
  <2>6. Gone'
    <3>1. \A k \in (deleted' \cup evicted') \ undead' : k # j => k \in (deleted \cup evicted) \ undead
      BY <2>1
    <3>2. j \notin undead' => disk'[j] = None /\ ~J!AtWork(j)
      BY <1>t, <2>1 DEF J!Less
    <3> QED BY <1>0, <1>t, <2>1, <2>2, <3>1, <3>2 DEF Gone, J!AtWork
  <2>7. Served'
    BY <1>0, <1>t, <2>1, <2>2, JobSizes DEF Served
  <2> QED BY <1>a, <1>b, <2>1, <2>3, <2>4, <2>5, <2>6, <2>7
<1>7. CASE J!Restart
  <2> DEFINE S == {j \in Jobs : disk[j] # None}
             rows == J!Newest(S, MaxJobs)
  <2>1. /\ jobs' = [j \in Jobs |-> IF j \in rows THEN disk[j] ELSE None]
        /\ worker' = [j \in Jobs |-> "off"]
        /\ stranded' = stranded \cup {j \in rows : disk[j] \in J!Active}
        /\ UNCHANGED <<disk, made, deleted, evicted, undead, swamped>>
    BY <1>7 DEF J!Restart
  <2>2. rows = {j \in S : Cardinality({k \in S : k > j}) < MaxJobs}
    BY JobsCounted DEF J!Newest
  <2>3. S \in SUBSET Nat /\ IsFiniteSet(S)
    BY JobSizes, FS_Subset
  <2>4. IsFiniteSet(rows) /\ Cardinality(rows) <= MaxJobs
    BY <2>2, <2>3, FewNewest, JobSizes
  <2>5. rows \subseteq Jobs
    BY <2>2
  <2> HIDE DEF rows
  <2>6. J!Stored' \in SUBSET rows
    BY <2>1, <2>5 DEF J!Stored
  <2>7. Cardinality(J!Stored') <= Cardinality(rows) /\ IsFiniteSet(J!Stored')
    BY <2>4, <2>6, FS_Subset
  <2>8. Cardinality(J!Stored') \in Nat /\ Cardinality(rows) \in Nat
    BY <2>4, <2>7, FS_CardinalityType
  <2>9. Fits'
    BY <2>4, <2>7, <2>8, JobSizes DEF Fits
  <2>10. Bounded'
    BY <1>0, <2>1, <2>9 DEF Bounded
  <2>11. JobTypes'
    BY <1>t, <2>1, <2>5 DEF JobTypes, Workers
  <2>12. Numbered'
    BY <1>0, <1>t, <2>1 DEF Numbered
  <2>13. Gone'
    BY <1>0, <1>t, <2>1 DEF Gone, J!AtWork
  <2>14. Served'
    BY <1>0, <1>t, <2>1, JobSizes DEF Served
  <2> QED BY <1>a, <2>10, <2>11, <2>12, <2>13, <2>14
<1>8. CASE UNCHANGED J!vars
  <2>1. UNCHANGED <<jobs, disk, worker, made, deleted, evicted, undead, stranded, swamped>>
    BY <1>8 DEF J!vars, J!history
  <2>2. J!Stored' \subseteq J!Stored
    BY <2>1 DEF J!Stored
  <2> QED BY <1>0, <1>a, <1>b, <2>1, <2>2 DEF JobTypes, Numbered, Gone, Served, J!AtWork
<1> QED BY <1>1, <1>2, <1>3, <1>4, <1>5, <1>6, <1>7, <1>8 DEF J!Next

\* It implies what is promised of jobs that wait or run, and of removed ones.
LEMMA JobsKept == JobInv => J!TypeOK /\ J!JobsAreServed /\ J!RemovedStaysRemoved
<1> SUFFICES ASSUME JobInv PROVE J!TypeOK /\ J!JobsAreServed /\ J!RemovedStaysRemoved
  OBVIOUS
<1>1. J!TypeOK
  BY DEF JobInv, JobTypes, Workers, J!TypeOK
<1>2. J!RemovedStaysRemoved
  BY DEF JobInv, Gone, J!RemovedStaysRemoved
<1>3. \A j \in Jobs :
        worker[j] \in {"task", "began", "busy"} /\ j \notin deleted => jobs[j] # None
  BY JobSizes DEF JobInv, Served
<1>4. \A j \in Jobs : jobs[j] \in J!Active => worker[j] # "off" \/ j \in stranded
  BY DEF JobInv, Served
<1>5. ~swamped => J!Cardinality(J!Stored) <= MaxJobs
  BY JobsCounted DEF JobInv, Bounded, Fits
<1> QED BY <1>1, <1>2, <1>3, <1>4, <1>5, Zenon DEF J!JobsAreServed

-----------------------------------------------------------------------------
(* The parts side by side.                                                 *)

\* The invariants of these four parts together.
StoresInv == EngineInv /\ DispatchInv /\ CandleInv /\ JobInv

\* The initial states satisfy them all.
LEMMA StoresInvInit == BooksInit => StoresInv
  BY EngineInvInit, DispatchInvInit, CandleInvInit, JobInvInit DEF BooksInit, StoresInv

\* A step of one part keeps its own; the others do not move.
LEMMA StoresInvStep == StoresInv /\ [BooksNext]_allVars => StoresInv'
  BY PartsStep, EngineInvStep, DispatchInvStep, CandleInvStep, JobInvStep DEF StoresInv

\* The invariants of these four parts hold in every state of every behaviour.
THEOREM StoresInvariance == BooksSpec => []StoresInv
  BY StoresInvInit, StoresInvStep, PTL DEF BooksSpec

\* api/backtest.py: however requests, evictions, failed writes and restarts interleave, a
\* job that waits or runs stays in the store, which keeps its bound, and has a worker.
THEOREM WaitingJobsAreServed == BooksSpec => []JobsAreServed
<1>1. StoresInv => JobsAreServed
  BY JobsKept DEF StoresInv, JobsAreServed
<1> QED BY <1>1, StoresInvariance, PTL

\* A job that was deleted or evicted does not come back (api/backtest.py) unless its worker
\* was at work on it or its row stayed, and a restart of the simulated exchange finds the
\* positions it held (execution/paper_engine.py).
THEOREM TablesSurviveRestarts == BooksSpec => []TablesSurvive
<1>1. StoresInv => TablesSurvive
  BY JobsKept, RestartsKeep DEF StoresInv, TablesSurvive
<1> QED BY <1>1, StoresInvariance, PTL

\* notifications/alert_dispatcher.py: a shutdown lets every alert accepted before it go out, unless a
\* channel outlasts the ten seconds.
THEOREM AcceptedAlertsGoOut == BooksSpec => []NoAlertLost
<1>1. StoresInv => NoAlertLost
  BY Drains DEF StoresInv, NoAlertLost
<1> QED BY <1>1, StoresInvariance, PTL

\* Candles that the API answers have no hole, however requests, deletions, failed writes,
\* restarts and the exchange's clock interleave (api/data.py and
\* the two fetchers).
THEOREM CandlesHaveNoHole == BooksSpec => []CandlesAreWhole
<1>1. StoresInv => CandlesAreWhole
  BY WhatIsAnswered DEF StoresInv, CandlesAreWhole
<1> QED BY <1>1, StoresInvariance, PTL

\* Candles that the API answers are younger than the TTL, unless both kinds of files of the
\* key existed at once (the fetchers' meta files).
THEOREM CandlesAreYoung == BooksSpec => []CandlesAreFresh
<1>1. StoresInv => CandlesAreFresh
  BY WhatIsAnswered DEF StoresInv, CandlesAreFresh
<1> QED BY <1>1, StoresInvariance, PTL
=============================================================================
