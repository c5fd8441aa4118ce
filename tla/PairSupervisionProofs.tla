------------------------ MODULE PairSupervisionProofs ------------------------
(***************************************************************************)
(* Proofs about PairSupervision, for any pairs, callers and allocations:   *)
(* halt_all() leaves no pair's task going, and the risk engine's exposure  *)
(* is the allocation of the pairs that run, both but for the pairs the     *)
(* statements name.                                                        *)
(***************************************************************************)
EXTENDS PairSupervision, TLAPS

\* None is not a value of anything it stands in for.
Nil == None \notin Pairs \cup Slots \cup {"idle", "running", "stopped", "error"}

LoopStates == {"off", "new", "run", "cancelled", "stillborn"}

\* As far as the proofs need types; a running pair has a task to cancel.
Shape ==
  /\ state \in [Pairs -> {None, "idle", "running", "stopped", "error"}]
  /\ loop \in [Pairs -> [Slots -> LoopStates]]
  /\ current \in [Pairs -> Slots \cup {None}]
  /\ DOMAIN alloc = Pairs /\ DOMAIN exposure = Pairs
  /\ todo \in [Callers -> SUBSET Pairs]
  /\ halted \in BOOLEAN
  /\ \A p \in Pairs : state[p] = "running" => current[p] \in Slots
  /\ watch.at \in {"asked", "judging", "alerting", "halting"} => watch.pair \in Pairs

\* A pair that was never started over a task of its own has one task at most, the one
\* ps.task names; while it goes on, the pair counts as running.
OneTask ==
  \A p \in Pairs \ crossed : \A s \in Slots :
    loop[p][s] # "off" =>
      /\ s = current[p]
      /\ state[p] # None
      /\ loop[p][s] \in {"new", "run"} => state[p] = "running"

\* What still goes on after a halt is on the list of a halt_all() in progress.
Listed ==
  halted => \A p \in Pairs \ crossed :
              Running(p) # {} => \E c \in Callers : p \in todo[c]

Inv == Shape /\ OneTask /\ Listed /\ ExposureIsReal

\* The watchdog is somewhere in a round only with a pair.
Watched == watch.at \in {"asked", "judging", "alerting", "halting"} => watch.pair \in Pairs

\* Everything the invariant is about, but for the watchdog.
pairs == <<state, loop, current, halted, alloc, exposure, todo, crossed, resized>>

\* What moves no pair and keeps the watch in order keeps the invariant.
LEMMA Untouched == ASSUME Inv, UNCHANGED pairs, Watched' PROVE Inv'
  BY DEF Inv, Shape, Watched, OneTask, Listed, ExposureIsReal, Running, Begun, pairs

-----------------------------------------------------------------------------
(* What tasks do, and what is done to them.                                *)

\* Cancelling leaves a pair no task that goes on; a task that had begun is still there.
LEMMA StopStep ==
  ASSUME Nil, Inv, NEW c, NEW p \in Pairs, Stop(c, p), Watched',
         todo' \in [Callers -> SUBSET Pairs], \A d \in Callers : todo[d] \ {p} \subseteq todo'[d]
  PROVE  Inv'
<1>1. current[p] \in Slots /\ loop \in [Pairs -> [Slots -> LoopStates]]
  BY DEF Inv, Shape, Stop
<1>2. /\ loop' \in [Pairs -> [Slots -> LoopStates]]
      /\ \A q \in Pairs, s \in Slots :
           loop'[q][s] = IF q = p /\ s = current[p]
                           THEN CASE loop[q][s] = "run" -> "cancelled"
                                  [] loop[q][s] = "new" -> "stillborn"
                                  [] OTHER -> loop[q][s]
                           ELSE loop[q][s]
  BY <1>1 DEF Stop, Cancel, LoopStates
<1>3. UNCHANGED <<current, halted, alloc, exposure, crossed, resized>>
  BY DEF Stop, sizes
<1>4. state' = [state EXCEPT ![p] = "stopped"]
  BY DEF Stop
<1>5. Shape'
  BY <1>2, <1>3, <1>4 DEF Inv, Shape, Watched, Nil
<1>6. OneTask'
  BY <1>2, <1>3, <1>4 DEF Inv, Shape, OneTask, Nil, LoopStates
<1>7. \A q \in Pairs : Running(q)' \subseteq Running(q)
  BY <1>2 DEF Running, LoopStates
<1>8. p \notin crossed => Running(p)' = {}
  BY <1>2, <1>3 DEF Running, Inv, OneTask, LoopStates
<1>9. Listed'
  BY <1>3, <1>7, <1>8 DEF Inv, Listed
<1>10. \A q \in Pairs : Begun(q)' <=> Begun(q)
  BY <1>2 DEF Begun, LoopStates
<1>11. ExposureIsReal'
  BY <1>3, <1>10 DEF Inv, ExposureIsReal
<1> QED BY <1>5, <1>6, <1>9, <1>11 DEF Inv

\* start() of a pair without a task creates one.
LEMMA StartStep == ASSUME Nil, Inv, NEW p \in Pairs, StartPair(p) PROVE Inv'
<1>1. PICK s \in Slots : /\ loop[p][s] = "off"
                         /\ loop' = [loop EXCEPT ![p][s] = "new"]
                         /\ current' = [current EXCEPT ![p] = s]
  BY DEF StartPair
<1>2. /\ loop' \in [Pairs -> [Slots -> LoopStates]]
      /\ \A q \in Pairs, t \in Slots :
           loop'[q][t] = IF q = p /\ t = s THEN "new" ELSE loop[q][t]
  BY <1>1 DEF Inv, Shape, LoopStates
<1>3. /\ UNCHANGED <<halted, alloc, exposure, todo, watch, resized>> /\ ~halted
      /\ state' = [state EXCEPT ![p] = "running"]
      /\ crossed \subseteq crossed'
      /\ p \notin crossed' => p \notin crossed /\ Live(p) = {}
  BY DEF StartPair, MayStart, sizes
<1>4. Shape'
  BY <1>1, <1>2, <1>3 DEF Inv, Shape, Nil
<1>5. OneTask'
  <2>1. ASSUME NEW q \in Pairs \ crossed', NEW t \in Slots, loop'[q][t] # "off"
        PROVE  t = current'[q] /\ state'[q] # None
               /\ (loop'[q][t] \in {"new", "run"} => state'[q] = "running")
    <3>1. CASE q = p
      BY <1>1, <1>2, <1>3, <2>1, <3>1 DEF Inv, Shape, Nil, Live
    <3>2. CASE q # p
      BY <1>1, <1>2, <1>3, <2>1, <3>2 DEF Inv, Shape, OneTask
    <3> QED BY <3>1, <3>2
  <2> QED BY <2>1 DEF OneTask
<1>6. Listed'
  BY <1>3 DEF Listed
<1>7. \A q \in Pairs : Begun(q)' <=> Begun(q)
  BY <1>1, <1>2 DEF Begun
<1>8. ExposureIsReal'
  BY <1>3, <1>7 DEF Inv, ExposureIsReal
<1> QED BY <1>4, <1>5, <1>6, <1>8 DEF Inv

\* A task begins: it registers its allocation as exposure.
LEMMA BeginStep ==
  ASSUME Nil, Inv, NEW p \in Pairs, NEW s \in Slots, LoopBegins(p, s) PROVE Inv'
<1>1. /\ loop' \in [Pairs -> [Slots -> LoopStates]] /\ loop[p][s] = "new"
      /\ \A q \in Pairs, t \in Slots :
           loop'[q][t] = IF q = p /\ t = s THEN "run" ELSE loop[q][t]
  BY DEF LoopBegins, Inv, Shape, LoopStates
<1>2. /\ UNCHANGED <<state, current, halted, alloc, todo, watch, crossed, resized>>
      /\ exposure' = [exposure EXCEPT ![p] = alloc[p]]
  BY DEF LoopBegins
<1>3. Shape'
  BY <1>1, <1>2 DEF Inv, Shape
<1>4. OneTask'
  BY <1>1, <1>2 DEF Inv, OneTask
<1>5. \A q \in Pairs : Running(q)' = Running(q)
  BY <1>1 DEF Running
<1>6. Listed'
  BY <1>2, <1>5 DEF Inv, Listed
<1>7. Begun(p)' /\ \A q \in Pairs \ {p} : Begun(q)' <=> Begun(q)
  BY <1>1 DEF Begun
<1>8. ExposureIsReal'
  BY <1>2, <1>7 DEF Inv, ExposureIsReal, Shape
<1> QED BY <1>3, <1>4, <1>6, <1>8 DEF Inv

\* A task that ends clears its pair's exposure: of a pair that was not started over a
\* task of its own it was the only one.
LEMMA EndStep ==
  ASSUME Nil, Inv, NEW p \in Pairs, NEW s \in Slots, NEW st,
         loop[p][s] \in {"run", "cancelled"}, st \in {state[p], "error"}, Finally(p, s, st)
  PROVE  Inv'
<1>1. /\ loop' \in [Pairs -> [Slots -> LoopStates]]
      /\ \A q \in Pairs, t \in Slots :
           loop'[q][t] = IF q = p /\ t = s THEN "off" ELSE loop[q][t]
  BY DEF Finally, Inv, Shape, LoopStates
<1>2. /\ UNCHANGED <<current, halted, alloc, todo, watch, crossed, resized>>
      /\ exposure' = [exposure EXCEPT ![p] = 0]
      /\ state' = [state EXCEPT ![p] = IF st = "running" THEN "stopped" ELSE st]
  BY DEF Finally, Cleared
<1>3. Shape'
  BY <1>1, <1>2 DEF Inv, Shape, Nil
<1>4. p \notin crossed => \A t \in Slots : loop'[p][t] = "off"
  BY <1>1 DEF Inv, OneTask
<1>5. OneTask'
  BY <1>1, <1>2, <1>4 DEF Inv, OneTask, Shape
<1>6. \A q \in Pairs : Running(q)' \subseteq Running(q)
  BY <1>1 DEF Running
<1>7. Listed'
  BY <1>2, <1>6 DEF Inv, Listed
<1>8. (p \notin crossed => ~Begun(p)') /\ \A q \in Pairs \ {p} : Begun(q)' <=> Begun(q)
  BY <1>1, <1>4 DEF Begun
<1>9. ExposureIsReal'
  BY <1>2, <1>8 DEF Inv, ExposureIsReal, Shape
<1> QED BY <1>3, <1>5, <1>7, <1>9 DEF Inv

\* A task that was cancelled before it began ends without a trace.
LEMMA StillbornStep ==
  ASSUME Nil, Inv, NEW p \in Pairs, NEW s \in Slots, NeverBegan(p, s) PROVE Inv'
<1>1. /\ loop' \in [Pairs -> [Slots -> LoopStates]] /\ loop[p][s] = "stillborn"
      /\ \A q \in Pairs, t \in Slots :
           loop'[q][t] = IF q = p /\ t = s THEN "off" ELSE loop[q][t]
  BY DEF NeverBegan, Inv, Shape, LoopStates
<1>2. UNCHANGED <<state, current, halted, alloc, exposure, todo, watch, crossed, resized>>
  BY DEF NeverBegan, sizes
<1>3. Shape' /\ OneTask'
  BY <1>1, <1>2 DEF Inv, Shape, OneTask
<1>4. \A q \in Pairs : Running(q)' = Running(q) /\ (Begun(q)' <=> Begun(q))
  BY <1>1 DEF Running, Begun
<1> QED BY <1>2, <1>3, <1>4 DEF Inv, Listed, ExposureIsReal

\* Resizing counts the new allocation at once.
LEMMA ResizeStep ==
  ASSUME Inv, NEW p \in Pairs, NEW h, SetAllocFactor(p, h), UNCHANGED todo, Watched'
  PROVE  Inv'
<1>1. /\ UNCHANGED <<state, loop, current, halted, todo, crossed>>
      /\ resized \subseteq resized' /\ (p \notin resized' => Begun(p))
  BY DEF SetAllocFactor
<1>2. PICK n : alloc' = [alloc EXCEPT ![p] = n] /\ exposure' = [exposure EXCEPT ![p] = n]
  BY DEF SetAllocFactor
<1>3. Shape' /\ OneTask'
  BY <1>1, <1>2 DEF Inv, Shape, OneTask, Watched
<1>4. \A q \in Pairs : Running(q)' = Running(q) /\ (Begun(q)' <=> Begun(q))
  BY <1>1 DEF Running, Begun
<1>5. ExposureIsReal'
  BY <1>1, <1>2, <1>4 DEF Inv, ExposureIsReal, Shape
<1> QED BY <1>1, <1>3, <1>4, <1>5 DEF Inv, Listed

\* A pair that is added has no task yet.
LEMMA AddStep == ASSUME Nil, Inv, NEW p \in Pairs, AddPair(p) PROVE Inv'
<1>1. /\ UNCHANGED <<loop, current, halted, exposure, todo, watch, crossed, resized>>
      /\ state[p] = None /\ state' = [state EXCEPT ![p] = "idle"]
      /\ alloc' = [alloc EXCEPT ![p] = Full]
  BY DEF AddPair
<1>2. Shape'
  BY <1>1 DEF Inv, Shape, Nil
<1>3. p \notin crossed => \A s \in Slots : loop[p][s] = "off"
  BY <1>1 DEF Inv, OneTask
<1>4. OneTask'
  BY <1>1, <1>3 DEF Inv, OneTask, Shape
<1>5. \A q \in Pairs : Running(q)' = Running(q) /\ (Begun(q)' <=> Begun(q))
  BY <1>1 DEF Running, Begun
<1>6. p \notin crossed => ~Begun(p)
  BY <1>3 DEF Begun
<1>7. ExposureIsReal'
  BY <1>1, <1>5, <1>6 DEF Inv, ExposureIsReal, Shape
<1> QED BY <1>1, <1>2, <1>4, <1>5, <1>7 DEF Inv, Listed

-----------------------------------------------------------------------------
(* The calls and the watchdog.                                             *)

\* The list of a halt holds every pair that has a task going.
LEMMA HaltStep == ASSUME Nil, Inv, NEW c \in Callers, HaltAll(c) PROVE Inv'
<1>1. /\ UNCHANGED <<state, loop, current, alloc, exposure, watch, crossed, resized>>
      /\ halted' = TRUE
      /\ todo' = [todo EXCEPT ![c] = {p \in Pairs : state[p] # None}]
  BY DEF HaltAll, sizes
<1>2. Shape' /\ OneTask'
  BY <1>1 DEF Inv, Shape, OneTask
<1>3. \A q \in Pairs : Running(q)' = Running(q) /\ (Begun(q)' <=> Begun(q))
  BY <1>1 DEF Running, Begun
<1>4. \A q \in Pairs \ crossed : Running(q) # {} => q \in todo'[c]
  BY <1>1 DEF Running, Inv, OneTask, Shape
<1>5. Listed'
  BY <1>1, <1>3, <1>4 DEF Listed
<1> QED BY <1>1, <1>2, <1>3, <1>5 DEF Inv, ExposureIsReal

\* A pair leaves the list when it is stopped, or when it has no task going.
LEMMA HaltNextStep == ASSUME Nil, Inv, NEW c \in Callers, HaltNext(c) PROVE Inv'
<1>1. UNCHANGED watch /\ Watched'
  BY DEF HaltNext, Inv, Shape, Watched
<1>2. CASE todo[c] = {} /\ UNCHANGED <<state, loop, current, halted, sizes, todo, crossed, resized>>
  BY <1>1, <1>2, Untouched DEF pairs, sizes
<1>3. ASSUME NEW p \in todo[c], todo' = [todo EXCEPT ![c] = @ \ {p}],
             IF state[p] = "running" THEN Stop(c, p)
             ELSE UNCHANGED <<state, loop, current, halted, sizes, call, crossed, resized>>
      PROVE  Inv'
  <2>1. p \in Pairs
    BY DEF Inv, Shape
  <2>2. todo' \in [Callers -> SUBSET Pairs] /\ \A d \in Callers : todo[d] \ {p} \subseteq todo'[d]
    BY <1>3 DEF Inv, Shape
  <2>3. CASE state[p] = "running"
    BY <1>1, <1>3, <2>1, <2>2, <2>3, StopStep
  <2>4. CASE state[p] # "running"
    <3>1. UNCHANGED <<state, loop, current, halted, alloc, exposure, crossed, resized>>
      BY <1>3, <2>4 DEF sizes
    <3>2. Shape' /\ OneTask'
      BY <1>1, <2>2, <3>1 DEF Inv, Shape, OneTask, Watched
    <3>3. \A q \in Pairs : Running(q)' = Running(q) /\ (Begun(q)' <=> Begun(q))
      BY <3>1 DEF Running, Begun
    <3>4. p \notin crossed => Running(p) = {}
      BY <2>1, <2>4 DEF Running, Inv, OneTask
    <3>5. Listed'
      BY <2>2, <3>1, <3>3, <3>4 DEF Inv, Listed
    <3> QED BY <3>1, <3>2, <3>3, <3>5 DEF Inv, ExposureIsReal
  <2> QED BY <2>3, <2>4
<1> QED BY <1>2, <1>3 DEF HaltNext

\* The emergency watch keeps the invariant, whether it halts, reduces or alerts.
LEMMA WatchInv == ASSUME Nil, Inv, WatchStep PROVE Inv'
<1>1. Watched /\ (watch.at = "alerting" => watch.pair \in Pairs)
  BY DEF Inv, Shape, Watched
<1>2. ASSUME NEW bs, Judged(bs), watch.pair \in Pairs PROVE Watched'
  BY <1>2 DEF Judged, At, Resting, Watched
<1>3. CASE Metrics
  <2>1. Watched'
    BY <1>1, <1>3 DEF Metrics, At, Resting, Watched
  <2> QED BY <1>3, <2>1, Untouched DEF Metrics, pairs, sizes
<1>4. ASSUME NEW b \in Breaches, NEW a \in Actions, Judge(b, a) PROVE Inv'
  <2>1. Watched'
    BY <1>1, <1>4 DEF Judge, At, Watched
  <2> QED BY <1>4, <2>1, Untouched DEF Judge, pairs, sizes
<1>5. CASE ActHalt
  <2>1. CASE state[watch.pair] = "running"
    <3>1. Stop(Watchdog, watch.pair) /\ UNCHANGED todo /\ watch.pair \in Pairs
          /\ At("halting", watch.pair, watch.breaches, "HALT")
      BY <1>1, <1>5, <2>1 DEF ActHalt
    <3>2. Watched'
      BY <3>1 DEF At, Watched
    <3>3. todo' \in [Callers -> SUBSET Pairs]
          /\ \A d \in Callers : todo[d] \ {watch.pair} \subseteq todo'[d]
      BY <3>1 DEF Inv, Shape
    <3> QED BY <3>1, <3>2, <3>3, StopStep
  <2>2. CASE state[watch.pair] # "running"
    <3>1. Watched'
      BY <1>1, <1>2, <1>5, <2>2 DEF ActHalt
    <3> QED BY <1>5, <2>2, <3>1, Untouched DEF ActHalt, pairs, sizes
  <2> QED BY <2>1, <2>2
<1>6. CASE HaltDone
  <2>1. Watched'
    BY <1>1, <1>2, <1>6 DEF HaltDone, Watched
  <2> QED BY <1>6, <2>1, Untouched DEF HaltDone, pairs, sizes
<1>7. CASE ActReduce
  <2>1. Watched' /\ UNCHANGED todo
    BY <1>1, <1>2, <1>7 DEF ActReduce
  <2>2. CASE state[watch.pair] # None
    BY <1>1, <1>7, <2>1, <2>2, ResizeStep DEF ActReduce
  <2>3. CASE state[watch.pair] = None
    BY <1>7, <2>1, <2>3, Untouched DEF ActReduce, pairs, sizes
  <2> QED BY <2>2, <2>3
<1>8. CASE ActAlert
  <2>1. Watched'
    BY <1>1, <1>2, <1>8 DEF ActAlert
  <2> QED BY <1>8, <2>1, Untouched DEF ActAlert, pairs, sizes
<1> QED BY <1>3, <1>4, <1>5, <1>6, <1>7, <1>8 DEF WatchStep

-----------------------------------------------------------------------------
\* Every step keeps the invariant.
LEMMA InvStep == ASSUME Nil, Inv, [Next]_vars PROVE Inv'
<1>1. Watched
  BY DEF Inv, Shape, Watched
<1>2. ASSUME NEW p \in Pairs, Ask(p) PROVE Inv'
  <2>1. Watched'
    BY <1>2 DEF Ask, At, Watched
  <2> QED BY <1>2, <2>1, Untouched DEF Ask, pairs, sizes
<1>3. ASSUME NEW p \in Pairs, LoopStep(p) PROVE Inv'
  <2>1. ASSUME NEW s \in Slots, LoopCancelled(p, s) PROVE Inv'
    BY <2>1, EndStep DEF LoopCancelled
  <2> QED BY <1>3, <2>1, BeginStep, StillbornStep DEF LoopStep
<1>4. ASSUME NEW p \in Pairs, NEW s \in Slots, LoopEnds(p, s) PROVE Inv'
  BY <1>4, EndStep DEF LoopEnds
<1>5. ASSUME NEW p \in Pairs, NEW c \in Callers, StopPair(c, p) PROVE Inv'
  <2>1. Stop(c, p) /\ UNCHANGED <<todo, watch>>
    BY <1>5 DEF StopPair
  <2>2. Watched'
    BY <1>1, <2>1 DEF Watched
  <2>3. todo' \in [Callers -> SUBSET Pairs] /\ \A d \in Callers : todo[d] \ {p} \subseteq todo'[d]
    BY <2>1 DEF Inv, Shape
  <2> QED BY <2>1, <2>2, <2>3, StopStep
<1>6. ASSUME NEW p \in Pairs, NEW h \in 0 .. 2, Reduce(p, h) PROVE Inv'
  <2>1. SetAllocFactor(p, h) /\ UNCHANGED <<todo, watch>>
    BY <1>6 DEF Reduce
  <2>2. Watched'
    BY <1>1, <2>1 DEF Watched
  <2> QED BY <2>1, <2>2, ResizeStep
<1>7. ASSUME NEW c \in Callers, Notified(c) PROVE Inv'
  <2>1. UNCHANGED pairs /\ UNCHANGED watch
    BY <1>7 DEF Notified, pairs, sizes
  <2>2. Watched'
    BY <1>1, <2>1 DEF Watched
  <2> QED BY <2>1, <2>2, Untouched
<1>8. CASE Resume
  <2>1. UNCHANGED <<state, loop, current, alloc, exposure, todo, watch, crossed, resized>>
        /\ halted' = FALSE
    BY <1>8 DEF Resume, sizes
  <2>2. Shape' /\ OneTask' /\ Listed'
    BY <2>1 DEF Inv, Shape, OneTask, Listed
  <2>3. \A q \in Pairs : Begun(q)' <=> Begun(q)
    BY <2>1 DEF Begun
  <2> QED BY <2>1, <2>2, <2>3 DEF Inv, ExposureIsReal
<1>9. CASE UNCHANGED vars
  <2>1. UNCHANGED pairs /\ UNCHANGED watch
    BY <1>9 DEF vars, pairs, sizes
  <2>2. Watched'
    BY <1>1, <2>1 DEF Watched
  <2> QED BY <2>1, <2>2, Untouched
<1> QED
  BY <1>2, <1>3, <1>4, <1>5, <1>6, <1>7, <1>8, <1>9,
     AddStep, StartStep, HaltStep, HaltNextStep, WatchInv DEF Next, CallStep

-----------------------------------------------------------------------------
(* The type invariant.                                                     *)

\* A factor of at most one leaves an allocation within the one registered.
LEMMA Reduced ==
  ASSUME Full \in Nat, TypeOK, NEW p \in Pairs, NEW h \in 0 .. 2
  PROVE  /\ Base(p) \in 0 .. Full
         /\ (Base(p) * h) \div 2 \in 0 .. Full
<1>1. Base(p) \in 0 .. Full
  BY DEF Base, TypeOK
<1>2. \A b \in 0 .. Full : (b * 0) \div 2 \in 0 .. Full /\ (b * 1) \div 2 \in 0 .. Full
                           /\ (b * 2) \div 2 \in 0 .. Full
  OBVIOUS
<1>3. h = 0 \/ h = 1 \/ h = 2
  OBVIOUS
<1> QED BY <1>1, <1>2, <1>3

Calls == [at : {"idle", "join", "bus", "halting"}, pair : Pairs \cup {None},
          task : Slots \cup {None}]

\* Shape speaks of states and tasks; what is left of the types is this.
Values ==
  /\ alloc \in [Pairs -> 0 .. Full] /\ exposure \in [Pairs -> 0 .. Full]
  /\ original \in [Pairs -> 0 .. Full \cup {None}]
  /\ call \in [Callers -> Calls]
  /\ watch.at \in {"rest", "asked", "judging", "alerting", "halting"}

\* The invariant and the values imply the types.
LEMMA Typed == Inv /\ Values => TypeOK
  BY DEF Inv, Shape, Values, TypeOK, Calls, LoopStates

\* stop() keeps the values: its call waits for the bus or for the task.
LEMMA StopValues ==
  ASSUME Inv, Values, NEW c \in Callers, NEW p \in Pairs, Stop(c, p),
         watch'.at \in {"rest", "asked", "judging", "alerting", "halting"}
  PROVE  Values'
<1>1. current[p] \in Slots /\ UNCHANGED <<alloc, exposure, original>>
  BY DEF Inv, Shape, Stop, sizes
<1>2. In("bus", p, None) \in Calls /\ In("join", p, current[p]) \in Calls
  BY <1>1 DEF In, Calls
<1>3. call' \in [Callers -> Calls]
  BY <1>2 DEF Stop, Values
<1> QED BY <1>1, <1>3 DEF Values

\* A resize keeps allocation and exposure within the full one.
LEMMA ResizeValues ==
  ASSUME Full \in Nat, Inv, Values, NEW p \in Pairs, NEW h \in 0 .. 2, SetAllocFactor(p, h),
         UNCHANGED call, watch'.at \in {"rest", "asked", "judging", "alerting", "halting"}
  PROVE  Values'
<1>1. Base(p) \in 0 .. Full /\ (Base(p) * h) \div 2 \in 0 .. Full
  BY Reduced, Typed
<1>2. /\ alloc' \in [Pairs -> 0 .. Full] /\ exposure' \in [Pairs -> 0 .. Full]
      /\ original' \in [Pairs -> 0 .. Full \cup {None}]
  BY <1>1 DEF SetAllocFactor, Values
<1> QED BY <1>2 DEF Values

\* Calls that waited for a task go on to the bus.
LEMMA ReleasedValues ==
  ASSUME Values, NEW p \in Pairs, NEW s \in Slots
  PROVE  Released(p, s) \in [Callers -> Calls]
<1>1. In("bus", p, None) \in Calls
  BY DEF In, Calls
<1> QED BY <1>1 DEF Released, Values

\* The emergency watch keeps the values.
LEMMA WatchValues == ASSUME Full \in Nat, Inv, Values, WatchStep PROVE Values'
<1>1. watch.at = "alerting" => watch.pair \in Pairs
  BY DEF Inv, Shape
<1>2. \A bs : Judged(bs) => watch'.at \in {"rest", "judging"}
  BY DEF Judged, At, Resting
<1>3. ASSUME UNCHANGED <<sizes, call>>,
             watch'.at \in {"rest", "asked", "judging", "alerting", "halting"}
      PROVE  Values'
  BY <1>3 DEF Values, sizes
<1>4. CASE Metrics
  <2>1. UNCHANGED <<sizes, call>> /\ watch'.at \in {"rest", "judging"}
    BY <1>4 DEF Metrics, At, Resting
  <2> QED BY <2>1, <1>3
<1>5. ASSUME NEW b \in Breaches, NEW a \in Actions, Judge(b, a) PROVE Values'
  <2>1. UNCHANGED <<sizes, call>> /\ watch'.at = "alerting"
    BY <1>5 DEF Judge, At
  <2> QED BY <2>1, <1>3
<1>6. CASE ActHalt
  <2>1. CASE state[watch.pair] = "running"
    <3>1. watch.pair \in Pairs /\ Stop(Watchdog, watch.pair) /\ watch'.at = "halting"
      BY <1>1, <1>6, <2>1 DEF ActHalt, At
    <3>2. call' \in [Callers -> Calls] /\ UNCHANGED <<alloc, exposure, original>>
      <4>1. current[watch.pair] \in Slots /\ UNCHANGED <<alloc, exposure, original>>
        BY <3>1 DEF Inv, Shape, Stop, sizes
      <4>2. In("bus", watch.pair, None) \in Calls /\ In("join", watch.pair, current[watch.pair]) \in Calls
        BY <3>1, <4>1 DEF In, Calls
      <4> QED BY <3>1, <4>1, <4>2 DEF Stop, Values
    <3> QED BY <3>1, <3>2 DEF Values
  <2>2. CASE state[watch.pair] # "running"
    BY <1>2, <1>3, <1>6, <2>2 DEF ActHalt
  <2> QED BY <2>1, <2>2
<1>7. CASE HaltDone
  BY <1>2, <1>3, <1>7 DEF HaltDone
<1>8. CASE ActReduce
  <2>1. watch'.at \in {"rest", "judging"} /\ UNCHANGED call
    BY <1>2, <1>8 DEF ActReduce
  <2>2. CASE state[watch.pair] # None
    BY <1>1, <1>8, <2>1, <2>2, ResizeValues DEF ActReduce
  <2>3. CASE state[watch.pair] = None
    BY <1>3, <1>8, <2>1, <2>3 DEF ActReduce
  <2> QED BY <2>2, <2>3
<1>9. CASE ActAlert
  BY <1>2, <1>3, <1>9 DEF ActAlert
<1> QED BY <1>4, <1>5, <1>6, <1>7, <1>8, <1>9 DEF WatchStep

\* Every step keeps the values.
LEMMA ValuesStep == ASSUME Full \in Nat, Inv, Values, [Next]_vars PROVE Values'
<1> USE DEF Values
<1>1. ASSUME UNCHANGED <<sizes, call>>, watch' = watch PROVE Values'
  BY <1>1 DEF sizes
<1>2. ASSUME NEW p \in Pairs, AddPair(p) PROVE Values'
  BY <1>2 DEF AddPair
<1>3. ASSUME NEW p \in Pairs, StartPair(p) PROVE Values'
  BY <1>1, <1>3 DEF StartPair
<1>4. ASSUME NEW p \in Pairs, Ask(p) PROVE Values'
  BY <1>4 DEF Ask, At, sizes
<1>5. ASSUME NEW p \in Pairs, NEW s \in Slots, LoopBegins(p, s) PROVE Values'
  BY <1>5 DEF LoopBegins
<1>6. ASSUME NEW p \in Pairs, NEW s \in Slots, NEW st, Finally(p, s, st) PROVE Values'
  BY <1>6, ReleasedValues DEF Finally, Cleared
<1>7. ASSUME NEW p \in Pairs, NEW s \in Slots, NeverBegan(p, s) PROVE Values'
  BY <1>7, ReleasedValues DEF NeverBegan, sizes
<1>8. ASSUME NEW p \in Pairs, LoopStep(p) \/ \E s \in Slots : LoopEnds(p, s) PROVE Values'
  BY <1>5, <1>6, <1>7, <1>8 DEF LoopStep, LoopCancelled, LoopEnds
<1>9. ASSUME NEW p \in Pairs, NEW c \in Callers, StopPair(c, p) PROVE Values'
  BY <1>9, StopValues DEF StopPair
<1>10. ASSUME NEW p \in Pairs, NEW h \in 0 .. 2, Reduce(p, h) PROVE Values'
  BY <1>10, ResizeValues DEF Reduce
<1>11. Idle \in Calls /\ In("halting", None, None) \in Calls
  BY DEF Idle, In, Calls
<1>12. ASSUME NEW c \in Callers, HaltAll(c) \/ Notified(c) PROVE Values'
  BY <1>11, <1>12 DEF HaltAll, Notified, sizes
<1>13. ASSUME NEW c \in Callers, HaltNext(c) PROVE Values'
  <2>1. \A p \in todo[c] : p \in Pairs
    BY DEF Inv, Shape
  <2>2. ASSUME NEW p \in todo[c], Stop(c, p), UNCHANGED watch PROVE Values'
    BY <2>1, <2>2, StopValues
  <2> QED BY <1>1, <1>11, <1>13, <2>2 DEF HaltNext, sizes
<1>14. CASE Resume \/ UNCHANGED vars
  BY <1>1, <1>14 DEF Resume, vars
<1> HIDE DEF Values
<1> QED
  BY <1>2, <1>3, <1>4, <1>8, <1>9, <1>10, <1>12, <1>13, <1>14, WatchValues
  DEF Next, CallStep

-----------------------------------------------------------------------------
\* The initial states satisfy the invariant,
LEMMA InvInit == ASSUME Nil PROVE Init => Inv
<1>1. Init => Shape
  <2>1. Init => watch.at = "rest"
    BY DEF Init, Resting
  <2>2. Init => \A p \in Pairs : state[p] # "running"
    BY DEF Nil, Init
  <2>3. Init => todo \in [Callers -> SUBSET Pairs] /\ loop \in [Pairs -> [Slots -> LoopStates]]
    BY DEF Init, LoopStates
  <2> QED BY <2>1, <2>2, <2>3 DEF Init, Shape
<1>2. Init => OneTask /\ Listed
  BY DEF Init, OneTask, Listed
<1>3. Init => ExposureIsReal
  BY DEF Init, ExposureIsReal, Begun
<1> QED BY <1>1, <1>2, <1>3 DEF Inv

\* and have the values.
LEMMA ValuesInit == ASSUME Full \in Nat PROVE Init => Values
  BY DEF Init, Values, Calls, Idle, Resting

\* The invariant implies what is promised of halts and of exposures.
LEMMA Promised == Inv => HaltStopsAll /\ ExposureIsReal
  BY DEF Inv, Listed, HaltStopsAll

\* The invariant holds in every state of every behaviour.
LEMMA InvHolds == ASSUME Nil PROVE Spec => []Inv
  BY InvInit, InvStep, PTL DEF Spec

\* Pairs, tasks, sizes and calls keep to the values the code can give them.
THEOREM PairTypes == ASSUME Nil, Full \in Nat PROVE Spec => []TypeOK
<1>1. Init => Inv /\ Values
  BY InvInit, ValuesInit
<1>2. Inv /\ Values /\ [Next]_vars => (Inv /\ Values)'
  BY InvStep, ValuesStep
<1> QED BY <1>1, <1>2, Typed, PTL DEF Spec

\* Once halt_all() has returned, and until resume(), no task of a pair goes on, except of
\* pairs started while an earlier task of theirs still ran.
THEOREM HaltReachesAll == ASSUME Nil PROVE Spec => []HaltStopsAll
  BY InvHolds, Promised, PTL

\* The risk engine counts the allocation of a pair exactly while a task of it has begun,
\* except where a pair was started over its own task or resized while it did not run.
THEOREM ExposureFollowsTasks == ASSUME Nil PROVE Spec => []ExposureIsReal
  BY InvHolds, Promised, PTL
=============================================================================
