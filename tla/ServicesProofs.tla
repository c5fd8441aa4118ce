--------------------------- MODULE ServicesProofs ---------------------------
(***************************************************************************)
(* Proofs about the parts Services runs side by side, for any processes,   *)
(* pairs, legs, prices and sizes: what the connection breaker, the         *)
(* application's lock, the managers of pairs, the bar feed and the paper   *)
(* trader promise.  Each part has an inductive invariant of its own; those *)
(* of the managers of pairs are PairSupervisionProofs', instantiated.      *)
(***************************************************************************)
EXTENDS Services, FiniteSetTheorems, TLAPS

(* The connection breaker.                                                 *)

BreakerInv == TypeOK /\ HalfOpenHasProbe /\ BlocksAfterFailures

\* A probe that enters is one more element of probing.
LEMMA OneMoreProbe ==
  ASSUME TypeOK, HalfOpenHasProbe, NEW t \in Tasks, t \notin inside, state = "half_open"
  PROVE  Cardinality(probing \cup {t}) = halfCalls + 1
<1>1. IsFiniteSet(probing)
  BY BreakerAssumption, FS_Subset DEF TypeOK
<1>2. t \notin probing
  BY DEF HalfOpenHasProbe
<1> QED
  BY <1>1, <1>2, FS_AddElement DEF HalfOpenHasProbe

\* Opening the circuit at the threshold establishes BreakerInv.
LEMMA OpeningKeeps ==
  ASSUME TypeOK, Opens, failures' = Threshold, halfCalls' = halfCalls,
         inside' \in SUBSET Tasks
  PROVE  BreakerInv'
<1>1. elapsed' \in BOOLEAN /\ probing' \in SUBSET Tasks
  BY Zenon DEF Opens
<1>2. state' \in {"closed", "open", "half_open"}
  BY DEF Opens
<1>3. failures' \in 0 .. Threshold /\ halfCalls' \in 0 .. MaxHalf
  BY BreakerAssumption DEF TypeOK
<1>4. HalfOpenHasProbe' /\ BlocksAfterFailures'
  BY DEF HalfOpenHasProbe, BlocksAfterFailures, Opens
<1> QED
  BY <1>1, <1>2, <1>3, <1>4 DEF BreakerInv, TypeOK

\* The initial state satisfies BreakerInv.
LEMMA BreakerInvInit == Init => BreakerInv
  BY BreakerAssumption DEF Init, BreakerInv, TypeOK, HalfOpenHasProbe, BlocksAfterFailures

\* Every step keeps BreakerInv.
LEMMA BreakerInvStep == BreakerInv /\ [Next]_vars => BreakerInv'
<1> SUFFICES ASSUME BreakerInv, [Next]_vars PROVE BreakerInv'
  OBVIOUS
<1> USE BreakerAssumption
    DEF BreakerInv, TypeOK, HalfOpenHasProbe, BlocksAfterFailures, Closes, Opens, Count, Trips
<1>1. ASSUME NEW t \in Tasks, Enter(t)
      PROVE  BreakerInv'
  <2>1. CASE state = "closed"
    BY <1>1, <2>1 DEF Enter
  <2>2. CASE state = "open"
    BY <1>1, <2>2, FS_Singleton DEF Enter, Probe, SlotFree
  <2>3. CASE state = "half_open"
    <3>1. Cardinality(probing \cup {t}) = halfCalls + 1
      BY <1>1, <2>3, OneMoreProbe DEF Enter
    <3>2. /\ state' = "half_open" /\ halfCalls' = halfCalls + 1 /\ halfCalls < MaxHalf
          /\ probing' = probing \cup {t} /\ inside' = inside \cup {t}
          /\ UNCHANGED failures /\ UNCHANGED elapsed
      BY <1>1, <2>3 DEF Enter, Probe, SlotFree
    <3>3. TypeOK'
      BY <3>2 DEF TypeOK
    <3>4. HalfOpenHasProbe'
      BY <2>3, <3>1, <3>2
    <3>5. BlocksAfterFailures'
      BY <2>3, <3>2
    <3> QED
      BY <3>3, <3>4, <3>5
  <2> QED
    BY <1>1, <2>1, <2>2, <2>3 DEF Enter
<1>2. ASSUME NEW t \in Tasks, ExitOk(t)
      PROVE  BreakerInv'
  BY <1>2 DEF ExitOk, Leave
<1>3. ASSUME NEW t \in Tasks, ExitError(t)
      PROVE  BreakerInv'
  <2>1. CASE state = "half_open" \/ Trips(failures')
    <3>1. failures' = Threshold
      BY <1>3, <2>1 DEF ExitError
    <3> QED
      BY <1>3, <2>1, <3>1, OpeningKeeps DEF ExitError, Leave
  <2>2. CASE state # "half_open" /\ ~Trips(failures')
    <3>1. state = "closed"
      BY <1>3, <2>2 DEF ExitError
    <3> QED
      BY <1>3, <2>2, <3>1 DEF ExitError, Leave
  <2> QED
    BY <2>1, <2>2
<1>4. CASE RecordSuccess
  BY <1>4 DEF RecordSuccess
<1>5. CASE RecordFailure
  <2>1. CASE Trips(failures')
    <3>1. failures' = Threshold
      BY <1>5, <2>1 DEF RecordFailure
    <3> QED
      BY <1>5, <2>1, <3>1, OpeningKeeps DEF RecordFailure
  <2>2. CASE ~Trips(failures')
    <3>1. state = "closed" /\ state' = "closed"
      BY <1>5, <2>2 DEF RecordFailure
    <3> QED
      BY <1>5, <2>2, <3>1 DEF RecordFailure
  <2> QED
    BY <2>1, <2>2
<1>8. CASE Reset
  BY <1>8 DEF Reset
<1>6. CASE Elapse
  BY <1>6 DEF Elapse
<1>7. CASE UNCHANGED vars
  BY <1>7 DEF vars
<1> HIDE DEF BreakerInv
<1> QED
  BY <1>1, <1>2, <1>3, <1>4, <1>5, <1>6, <1>7, <1>8 DEF Next

-----------------------------------------------------------------------------
(* The application and its lock.                                           *)

\* Where a process has no task yet, or no longer.
Taskless == {"new", "starting", "dead", "building"} \cup A!Acquiring

\* Living processes have a pid of their own.
Identified ==
  /\ \A p \in Processes : A!Alive(p) => pid[p] \in Pids
  /\ \A p, q \in Processes : A!Alive(p) /\ A!Alive(q) /\ pid[p] = pid[q] => p = q

\* Tasks live only while main() is in or behind runner_task, and not behind its regular end.
Quiet ==
  \A p \in Processes :
    pc[p] \in Taskless \/ (pc[p] = "releasing" /\ outcome[p] = "open") => ~A!Lives(p)

TaskStates == [Processes -> [Runners -> {"off"} \cup A!Live]]

\* No task comes to life but those of a process that builds its runners.
LEMMA TaskChanges ==
  ASSUME A!TypeOK, NEW p \in Processes,
         \/ task' = task \/ task' = A!Stopped(p) \/ task' = A!CancelAll(p)
         \/ \E r \in Runners : task[p][r] \in A!Live /\ (task' = [task EXCEPT ![p][r] = "deaf"]
                                                      \/ task' = [task EXCEPT ![p][r] = "off"])
  PROVE  /\ task' \in TaskStates
         /\ \A q \in Processes, r \in Runners : task'[q][r] \in A!Live => task[q][r] \in A!Live
         /\ \A q \in Processes : (A!Lives(q)' => A!Lives(q)) /\ (A!Trades(q)' => A!Trades(q))
         /\ task' = A!Stopped(p) => ~A!Lives(p)'
<1> USE DEF A!TypeOK, TaskStates
<1>0. task \in TaskStates
  OBVIOUS
<1> DEFINE Kept == /\ task' \in TaskStates
                   /\ \A q \in Processes, s \in Runners : task'[q][s] \in A!Live => task[q][s] \in A!Live
<1>1. ASSUME task' = task PROVE Kept
  BY <1>0, <1>1 DEF A!Live
<1>2. ASSUME task' = A!Stopped(p) PROVE Kept
  BY <1>0, <1>2 DEF A!Stopped, A!Live
<1>3. ASSUME task' = A!CancelAll(p) PROVE Kept
  BY <1>0, <1>3 DEF A!CancelAll, A!Live
<1>4. ASSUME NEW r \in Runners, task[p][r] \in A!Live, NEW v \in {"deaf", "off"},
             task' = [task EXCEPT ![p][r] = v]
      PROVE  Kept
  <2>1. \A q \in Processes, s \in Runners :
          task'[q][s] = IF q = p /\ s = r THEN v ELSE task[q][s]
    BY <1>0, <1>4
  <2>2. task' \in TaskStates
    BY <1>0, <1>4 DEF A!Live
  <2> QED BY <1>4, <2>1, <2>2
<1>5. Kept
  BY <1>1, <1>2, <1>3, <1>4
<1>6. \A q \in Processes : (A!Lives(q)' => A!Lives(q)) /\ (A!Trades(q)' => A!Trades(q))
  BY <1>5 DEF A!Lives, A!Trades, A!Live
<1>7. task' = A!Stopped(p) => ~A!Lives(p)'
  BY <1>0 DEF A!Stopped, A!Lives, A!Live
<1> QED BY <1>5, <1>6, <1>7

\* What the actions do to tasks.
LEMMA TaskActions ==
  ASSUME A!TypeOK, NEW p \in Processes
  PROVE  /\ \A r \in Runners : A!RunnerFails(p, r) \/ A!Cancelled(p, r) =>
              /\ task[p][r] \in A!Live
              /\ \/ /\ task' = [task EXCEPT ![p][r] = "deaf"]
                    /\ UNCHANGED outcome
                 \/ /\ task' = [task EXCEPT ![p][r] = "off"]
                    /\ \E o \in {"open", "done", "raised"} :
                         outcome' = [outcome EXCEPT ![p] = IF outcome[p] = "open" THEN o ELSE outcome[p]]
              /\ UNCHANGED <<file, pc, pid, found, A!history>>
         /\ A!Kill(p) =>
              \/ \E q \in Processes :
                   /\ A!Victim(p, q)
                   /\ pc' = [pc EXCEPT ![p] = "write", ![q] = "dead"]
                   /\ task' = A!Stopped(q)
                   /\ orphaned' = orphaned \cup {pid[q]}
              \/ /\ ~ \E q \in Processes : A!Victim(p, q)
                 /\ pc' = [pc EXCEPT ![p] = "write"]
                 /\ UNCHANGED <<task, orphaned>>
<1>1. ASSUME NEW r \in Runners, A!RunnerFails(p, r)
      PROVE  /\ task[p][r] \in A!Live
             /\ task' = [task EXCEPT ![p][r] = "off"]
             /\ outcome' = [outcome EXCEPT ![p] = IF outcome[p] = "open" THEN "raised" ELSE outcome[p]]
             /\ UNCHANGED <<file, pc, pid, found, A!history>>
  BY <1>1 DEF A!RunnerFails, A!Ends
<1>2. ASSUME NEW r \in Runners, A!Cancelled(p, r)
      PROVE  /\ task[p][r] \in A!Live
             /\ UNCHANGED <<file, pc, pid, found, A!history>>
             /\ \/ /\ task' = [task EXCEPT ![p][r] = "deaf"]
                   /\ UNCHANGED outcome
                \/ /\ task' = [task EXCEPT ![p][r] = "off"]
                   /\ \E o \in {"open", "done"} :
                         outcome' = [outcome EXCEPT ![p] = IF outcome[p] = "open" THEN o ELSE outcome[p]]
  BY <1>2 DEF A!Cancelled, A!Ends, A!Live
<1>3. A!Kill(p) =>
              \/ \E q \in Processes :
                   /\ A!Victim(p, q)
                   /\ pc' = [pc EXCEPT ![p] = "write", ![q] = "dead"]
                   /\ task' = A!Stopped(q)
                   /\ orphaned' = orphaned \cup {pid[q]}
              \/ /\ ~ \E q \in Processes : A!Victim(p, q)
                 /\ pc' = [pc EXCEPT ![p] = "write"]
                 /\ UNCHANGED <<task, orphaned>>
  BY DEF A!Kill, A!Goes
<1> QED BY <1>1, <1>2, <1>3

\* Every step keeps the types of the processes, their tasks and the lock file.
LEMMA TypeStep == ASSUME A!TypeOK, Identified, A!Next PROVE A!TypeOK'
<1> USE DEF A!TypeOK, A!Acquiring, A!Serving, A!Goes
<1>0. A!TypeOK
  OBVIOUS
<1>1. ASSUME NEW p \in Processes, NEW k \in Pids, A!Start(p, k) PROVE A!TypeOK'
  BY <1>1 DEF A!Start, A!history
<1>2. ASSUME NEW p \in Processes, A!Exists(p) PROVE A!TypeOK'
  BY <1>2 DEF A!Exists
<1>3. ASSUME NEW p \in Processes, A!Vanished(p) \/ A!ReadStale(p) \/ A!Exit(p) PROVE A!TypeOK'
  BY <1>3 DEF A!Vanished, A!ReadStale, A!Exit, A!history
<1>4. ASSUME NEW p \in Processes, A!Refuse(p) \/ A!Force(p) PROVE A!TypeOK'
  BY <1>4 DEF A!Refuse, A!Force, A!history
<1>5. ASSUME NEW p \in Processes, A!Kill(p) PROVE A!TypeOK'
  <2>1. UNCHANGED <<file, pid, outcome, overlap, early, refused>>
        /\ found' = [found EXCEPT ![p] = None]
    BY <1>5 DEF A!Kill
  <2>2. ASSUME NEW q \in Processes, A!Victim(p, q), pc' = [pc EXCEPT ![p] = "write", ![q] = "dead"],
               task' = A!Stopped(q), orphaned' = orphaned \cup {pid[q]}
        PROVE  A!TypeOK'
    <3>1. task' \in TaskStates
      BY <1>0, <2>2, TaskChanges
    <3>2. pid[q] \in Pids
      BY <2>2 DEF A!Victim, Identified
    <3> QED BY <2>1, <2>2, <3>1, <3>2 DEF TaskStates
  <2>3. CASE pc' = [pc EXCEPT ![p] = "write"] /\ UNCHANGED <<task, orphaned>>
    BY <2>1, <2>3
  <2> QED BY <1>0, <1>5, <2>2, <2>3, TaskActions
<1>6. ASSUME NEW p \in Processes, A!Truncate(p) \/ A!Write(p) PROVE A!TypeOK'
  BY <1>6 DEF A!Truncate, A!Write, Identified, A!Alive, A!history
<1>7. ASSUME NEW p \in Processes, A!BuildFails(p) \/ A!BuildRunners(p) PROVE A!TypeOK'
  <2>1. pid[p] \in Pids
    BY <1>7 DEF A!BuildFails, A!BuildRunners, Identified, A!Alive
  <2>2. task' \in TaskStates
    BY <1>7 DEF A!BuildFails, A!BuildRunners, A!Live, TaskStates
  <2> QED BY <1>7, <2>1, <2>2 DEF A!BuildFails, A!BuildRunners, A!history, TaskStates
<1>8. ASSUME NEW p \in Processes, NEW r \in Runners, A!RunnerFails(p, r) \/ A!Cancelled(p, r)
      PROVE  A!TypeOK'
  <2>1. task' \in TaskStates
    BY <1>0, <1>8, TaskActions, TaskChanges
  <2>2. outcome' \in [Processes -> {"open", "done", "raised"}]
    BY <1>0, <1>8, TaskActions
  <2>3. UNCHANGED <<file, pc, pid, found, A!history>>
    BY <1>0, <1>8, TaskActions
  <2> QED BY <2>1, <2>2, <2>3 DEF A!history, TaskStates
<1>9. ASSUME NEW p \in Processes, A!Wake(p) \/ A!Joined(p) \/ A!Raised(p) PROVE A!TypeOK'
  <2>1. task' \in TaskStates
    BY <1>0, <1>9, TaskChanges DEF A!Wake, A!Joined, A!Raised
  <2>2. pid[p] \in Pids
    BY <1>9 DEF A!Wake, A!Joined, A!Raised, Identified, A!Alive
  <2> QED BY <1>9, <2>1, <2>2 DEF A!Wake, A!Joined, A!Raised, A!history, TaskStates
<1>10. ASSUME NEW p \in Processes, A!Release(p) PROVE A!TypeOK'
  <2>1. task' \in TaskStates
    BY <1>0, <1>10, TaskChanges DEF A!Release
  <2>2. early' \in BOOLEAN
    BY <1>10 DEF A!Release
  <2> QED BY <1>10, <2>1, <2>2 DEF A!Release, A!AfterUnlink, TaskStates
<1>11. ASSUME NEW p \in Processes, A!Crash(p) PROVE A!TypeOK'
  <2>1. task' \in TaskStates
    BY <1>0, <1>11, TaskChanges DEF A!Crash
  <2> QED BY <1>11, <2>1 DEF A!Crash, Identified, TaskStates
<1> HIDE DEF A!TypeOK
<1> QED
  BY <1>1, <1>2, <1>3, <1>4, <1>5, <1>6, <1>7, <1>8, <1>9, <1>10, <1>11 DEF A!Next, A!Runs

\* All but Start and Kill move one living process.
LEMMA OneMoves ==
  ASSUME A!TypeOK, NEW p \in Processes,
         \/ A!Runs(p) /\ ~A!Kill(p)
         \/ \E r \in Runners : A!RunnerFails(p, r)
         \/ A!Wake(p) \/ A!Crash(p)
  PROVE  A!Alive(p) /\ UNCHANGED pid /\ \E l : pc' = [pc EXCEPT ![p] = l]
<1>1. ASSUME NEW r \in Runners, A!RunnerFails(p, r) \/ A!Cancelled(p, r)
      PROVE  A!Alive(p) /\ UNCHANGED pid /\ pc' = [pc EXCEPT ![p] = pc[p]]
  BY <1>1 DEF A!RunnerFails, A!Cancelled, A!Alive, A!TypeOK
<1>2. ASSUME A!Exists(p) \/ A!Vanished(p) \/ A!ReadStale(p) \/ A!Refuse(p) \/ A!Force(p)
      PROVE  A!Alive(p) /\ UNCHANGED pid /\ \E l : pc' = [pc EXCEPT ![p] = l]
  BY <1>2 DEF A!Exists, A!Vanished, A!ReadStale, A!Refuse, A!Force, A!Goes, A!Alive, A!Acquiring
<1>3. ASSUME A!Truncate(p) \/ A!Write(p) \/ A!BuildFails(p) \/ A!BuildRunners(p)
      PROVE  A!Alive(p) /\ UNCHANGED pid /\ \E l : pc' = [pc EXCEPT ![p] = l]
  BY <1>3 DEF A!Truncate, A!Write, A!BuildFails, A!BuildRunners, A!Goes, A!Alive, A!Acquiring, A!Serving
<1>4. ASSUME A!Wake(p) \/ A!Joined(p) \/ A!Raised(p) \/ A!Release(p) \/ A!Exit(p) \/ A!Crash(p)
      PROVE  A!Alive(p) /\ UNCHANGED pid /\ \E l : pc' = [pc EXCEPT ![p] = l]
  BY <1>4 DEF A!Wake, A!Joined, A!Raised, A!Release, A!Exit, A!Crash, A!Goes, A!Alive, A!Serving
<1> QED BY <1>1, <1>2, <1>3, <1>4 DEF A!Runs

\* Every step keeps the pids of living processes apart.
LEMMA IdentifiedStep == ASSUME A!TypeOK, Identified, A!Next PROVE Identified'
<1> USE DEF Identified
<1>0. A!TypeOK
  OBVIOUS
<1>1. ASSUME NEW p \in Processes, NEW k \in Pids, A!Start(p, k) PROVE Identified'
  <2>1. \A q \in Processes : q # p => pc'[q] = pc[q] /\ pid'[q] = pid[q]
    BY <1>0, <1>1 DEF A!Start, A!TypeOK
  <2>2. pid'[p] = k /\ \A q \in Processes : q # p /\ A!Alive(q) => pid[q] # k
    BY <1>0, <1>1 DEF A!Start, A!TypeOK
  <2>3. \A q \in Processes : q # p => (A!Alive(q)' <=> A!Alive(q))
    BY <2>1 DEF A!Alive
  <2> QED BY <2>1, <2>2, <2>3
<1>2. ASSUME NEW p \in Processes, NEW l, A!Alive(p), UNCHANGED pid, pc' = [pc EXCEPT ![p] = l]
      PROVE  Identified'
  <2>1. \A q \in Processes : A!Alive(q)' => A!Alive(q)
    BY <1>0, <1>2 DEF A!Alive, A!TypeOK
  <2> QED BY <1>2, <2>1
<1>3. ASSUME NEW p \in Processes, A!Kill(p) PROVE Identified'
  <2>1. \A q \in Processes : A!Alive(q)' => A!Alive(q)
    <3>1. pc[p] = "forcing" /\ DOMAIN pc = Processes
      BY <1>0, <1>3 DEF A!Kill, A!TypeOK
    <3>2. ASSUME NEW v \in Processes, pc' = [pc EXCEPT ![p] = "write", ![v] = "dead"]
          PROVE  \A q \in Processes : q # p => pc'[q] \in {pc[q], "dead"}
      BY <3>1, <3>2
    <3>3. ASSUME pc' = [pc EXCEPT ![p] = "write"]
          PROVE  \A q \in Processes : q # p => pc'[q] \in {pc[q], "dead"}
      BY <3>1, <3>3
    <3>4. \A q \in Processes : q # p => pc'[q] \in {pc[q], "dead"}
      BY <1>0, <1>3, <3>2, <3>3, TaskActions
    <3> QED BY <3>1, <3>4 DEF A!Alive, A!Acquiring, A!Serving
  <2> QED BY <1>3, <2>1 DEF A!Kill
<1> HIDE DEF Identified
<1> QED BY <1>0, <1>1, <1>2, <1>3, OneMoves DEF A!Next

\* No step leaves a task behind a main() that has ended or not begun.
LEMMA QuietStep == ASSUME A!TypeOK, Quiet, A!Next PROVE Quiet'
<1> USE DEF Quiet, Taskless, A!Acquiring, A!Serving, A!Goes
<1> DEFINE Fewer == \A q \in Processes : A!Lives(q)' => A!Lives(q)
<1>0. A!TypeOK
  OBVIOUS
<1>1. ASSUME NEW p \in Processes, NEW k \in Pids, A!Start(p, k) PROVE Quiet'
  BY <1>0, <1>1 DEF A!Start, A!Lives, A!TypeOK
<1>2. ASSUME NEW p \in Processes, pc[p] \in {"starting"} \cup A!Acquiring, UNCHANGED <<task, outcome>>,
             NEW l \in A!Acquiring \cup {"dead", "building"}, A!Goes(p, l)
      PROVE  Quiet'
  BY <1>0, <1>2 DEF A!Lives, A!TypeOK
<1>3. ASSUME NEW p \in Processes, A!Kill(p) PROVE Quiet'
  <2>1. pc[p] = "forcing" /\ UNCHANGED outcome
    BY <1>3 DEF A!Kill
  <2>2. ASSUME NEW q \in Processes, pc' = [pc EXCEPT ![p] = "write", ![q] = "dead"], task' = A!Stopped(q)
        PROVE  Quiet'
    <3>1. Fewer /\ ~A!Lives(q)'
      BY <1>0, <2>2, TaskChanges
    <3> QED BY <1>0, <2>1, <2>2, <3>1 DEF A!TypeOK
  <2>3. ASSUME pc' = [pc EXCEPT ![p] = "write"], UNCHANGED task PROVE Quiet'
    BY <1>0, <2>1, <2>3 DEF A!TypeOK, A!Lives
  <2> QED BY <1>0, <1>3, <2>2, <2>3, TaskActions
<1>4. ASSUME NEW p \in Processes, A!BuildFails(p) \/ A!BuildRunners(p) PROVE Quiet'
  BY <1>0, <1>4 DEF A!BuildFails, A!BuildRunners, A!Lives, A!TypeOK
<1>5. ASSUME NEW p \in Processes, NEW r \in Runners, A!RunnerFails(p, r) \/ A!Cancelled(p, r)
      PROVE  Quiet'
  <2>1. Fewer
    BY <1>0, <1>5, TaskActions, TaskChanges
  <2>2. A!Lives(p) /\ UNCHANGED pc
    BY <1>0, <1>5, TaskActions DEF A!Lives
  <2>3. \A q \in Processes \ {p} : outcome'[q] = outcome[q]
    BY <1>0, <1>5, TaskActions DEF A!TypeOK
  <2>4. outcome[p] # "open" => outcome'[p] # "open"
    BY <1>0, <1>5, TaskActions DEF A!TypeOK
  <2> QED BY <2>1, <2>2, <2>3, <2>4
<1>6. ASSUME NEW p \in Processes, A!Wake(p) \/ A!Joined(p) \/ A!Raised(p) \/ A!Release(p) \/ A!Exit(p)
      PROVE  Quiet'
  <2>1. Fewer
    BY <1>0, <1>6, TaskChanges DEF A!Wake, A!Joined, A!Raised, A!Release, A!Exit
  <2> QED BY <1>0, <1>6, <2>1 DEF A!Wake, A!Joined, A!Raised, A!Release, A!Exit, A!RunnersEnded, A!TypeOK
<1>7. ASSUME NEW p \in Processes, A!Crash(p) PROVE Quiet'
  <2>1. Fewer /\ ~A!Lives(p)'
    BY <1>0, <1>7, TaskChanges DEF A!Crash
  <2> QED BY <1>0, <1>7, <2>1 DEF A!Crash, A!TypeOK
<1>8. ASSUME NEW p \in Processes,
             A!Exists(p) \/ A!Vanished(p) \/ A!ReadStale(p) \/ A!Refuse(p) \/ A!Force(p) \/ A!Truncate(p)
               \/ A!Write(p)
      PROVE  Quiet'
  BY <1>2, <1>8 DEF A!Exists, A!Vanished, A!ReadStale, A!Refuse, A!Force, A!Truncate, A!Write
<1> HIDE DEF Quiet
<1> QED BY <1>1, <1>3, <1>4, <1>5, <1>6, <1>7, <1>8 DEF A!Next, A!Runs

\* The file names who holds the lock; who died without a release is remembered.
Accounted ==
  /\ file \in Pids => file \in orphaned \/ \E p \in Processes : pid[p] = file /\ pc[p] \in A!Serving
  /\ \A p \in Processes : pc[p] = "exiting" /\ pid[p] = file => file \in orphaned

\* Every step leaves the file naming a process that serves, or an orphan.
LEMMA AccountedStep == ASSUME A!TypeOK, Identified, Accounted, A!Next PROVE Accounted'
<1> USE NoneAssumption DEF Accounted, A!Acquiring, A!Serving
<1>0. A!TypeOK /\ \A p \in Processes : A!Alive(p) => pid[p] \in Pids
  BY DEF Identified
<1>1. ASSUME NEW p \in Processes, NEW k \in Pids, A!Start(p, k) PROVE Accounted'
  BY <1>0, <1>1 DEF A!Start, A!Alive, A!history, A!TypeOK
<1>2. ASSUME NEW p \in Processes, A!Exists(p) PROVE Accounted'
  BY <1>0, <1>2 DEF A!Exists, A!Goes, A!TypeOK
<1>3. ASSUME NEW p \in Processes, A!Vanished(p) \/ A!ReadStale(p) PROVE Accounted'
  BY <1>0, <1>3 DEF A!Vanished, A!ReadStale, A!Goes, A!history, A!TypeOK
<1>4. ASSUME NEW p \in Processes, A!Refuse(p) \/ A!Force(p) PROVE Accounted'
  BY <1>0, <1>4 DEF A!Refuse, A!Force, A!Goes, A!history, A!TypeOK
<1>5. ASSUME NEW p \in Processes, A!Kill(p) PROVE Accounted'
  BY <1>0, <1>5 DEF A!Kill, A!Victim, A!Goes, A!TypeOK
<1>6. ASSUME NEW p \in Processes, A!Truncate(p) \/ A!Write(p) PROVE Accounted'
  BY <1>0, <1>6 DEF A!Truncate, A!Write, A!Goes, A!Alive, Identified, A!history, A!TypeOK
<1>7. ASSUME NEW p \in Processes, A!BuildFails(p) \/ A!BuildRunners(p) PROVE Accounted'
  BY <1>0, <1>7 DEF A!BuildFails, A!BuildRunners, A!Goes, A!history, A!TypeOK
<1>8. ASSUME NEW p \in Processes, NEW r \in Runners, A!RunnerFails(p, r) \/ A!Cancelled(p, r)
      PROVE  Accounted'
  BY <1>0, <1>8 DEF A!RunnerFails, A!Cancelled, A!history
<1>9. ASSUME NEW p \in Processes, A!Wake(p) \/ A!Joined(p) PROVE Accounted'
  BY <1>0, <1>9 DEF A!Wake, A!Joined, A!Goes, A!history, A!TypeOK
<1>10. ASSUME NEW p \in Processes, A!Raised(p) \/ A!Exit(p) PROVE Accounted'
  BY <1>0, <1>10 DEF A!Raised, A!Exit, A!Goes, A!history, A!TypeOK
<1>11. ASSUME NEW p \in Processes, A!Release(p) PROVE Accounted'
  BY <1>0, <1>11 DEF A!Release, A!AfterUnlink, A!Goes, A!TypeOK, A!Alive
<1>12. ASSUME NEW p \in Processes, A!Crash(p) PROVE Accounted'
  BY <1>0, <1>12 DEF A!Crash, A!Goes, A!TypeOK
<1> HIDE DEF Accounted
<1> QED
  BY <1>1, <1>2, <1>3, <1>4, <1>5, <1>6, <1>7, <1>8, <1>9, <1>10, <1>11, <1>12 DEF A!Next, A!Runs

\* A start is refused only for a lock that is held or was left behind.
LEMMA RefusalStep == ASSUME A!TypeOK, Accounted, A!RefusalIsEarned, A!Next PROVE A!RefusalIsEarned'
<1> USE DEF A!RefusalIsEarned
<1>1. ASSUME NEW p \in Processes, A!Refuse(p) PROVE A!RefusalIsEarned'
  <2>1. file \in orphaned \/ \E q \in Processes \ {p} : pc[q] \in A!Acquiring \cup A!Serving
    BY <1>1 DEF A!Refuse, Accounted, A!Serving
  <2> QED BY <1>1, <2>1 DEF A!Refuse
<1>2. ASSUME refused' = refused, orphaned \subseteq orphaned' PROVE A!RefusalIsEarned'
  BY <1>2
<1>3. ASSUME NEW p \in Processes, NEW k \in Pids, A!Start(p, k) PROVE A!RefusalIsEarned'
  BY <1>2, <1>3 DEF A!Start, A!history
<1>4. ASSUME NEW p \in Processes, A!Kill(p) PROVE A!RefusalIsEarned'
  BY <1>2, <1>4 DEF A!Kill
<1>5. ASSUME NEW p \in Processes, NEW r \in Runners, A!RunnerFails(p, r) \/ A!Cancelled(p, r)
      PROVE  A!RefusalIsEarned'
  BY <1>2, <1>5 DEF A!RunnerFails, A!Cancelled, A!history
<1>6. ASSUME NEW p \in Processes,
             A!Exists(p) \/ A!Vanished(p) \/ A!ReadStale(p) \/ A!Force(p) \/ A!Truncate(p) \/ A!Write(p)
               \/ A!BuildFails(p) \/ A!BuildRunners(p)
      PROVE  A!RefusalIsEarned'
  BY <1>2, <1>6
     DEF A!Exists, A!Vanished, A!ReadStale, A!Force, A!Truncate, A!Write, A!BuildFails, A!BuildRunners, A!history
<1>7. ASSUME NEW p \in Processes,
             A!Wake(p) \/ A!Joined(p) \/ A!Raised(p) \/ A!Release(p) \/ A!Exit(p) \/ A!Crash(p)
      PROVE  A!RefusalIsEarned'
  BY <1>2, <1>7 DEF A!Wake, A!Joined, A!Raised, A!Release, A!Exit, A!Crash, A!history
<1> HIDE DEF A!RefusalIsEarned
<1> QED BY <1>1, <1>3, <1>4, <1>5, <1>6, <1>7 DEF A!Next, A!Runs

-----------------------------------------------------------------------------
\* A process that may have trading tasks.
Owns(p) == pc[p] \in A!Serving /\ (pc[p] = "exiting" => A!Trades(p))

\* Without an overlap one process at a time is in acquire().
Alone == ~overlap => \A p, q \in Processes : pc[p] \in A!Acquiring /\ pc[q] \in A!Acquiring => p = q

\* While a process may trade the file is its own and nobody is about to write it; who is
\* about to kill knows the pid in the file, or there is no file.
Locked ==
  ~overlap /\ ~early =>
    /\ \A p \in Processes : Owns(p) => file = pid[p]
    /\ \A p, q \in Processes : Owns(p) => pc[q] \notin {"write", "writing"}
    /\ \A q \in Processes : pc[q] = "forcing" => file \in {found[q], None}

\* Two processes in acquire() are an overlap.
LEMMA AloneStep == ASSUME A!TypeOK, Alone, A!Next PROVE Alone'
<1> USE DEF Alone, A!Acquiring
<1>0. A!TypeOK
  OBVIOUS
<1>1. ASSUME NEW p \in Processes, A!Exists(p) PROVE Alone'
  BY <1>0, <1>1 DEF A!Exists, A!Goes, A!TypeOK
<1>2. ASSUME overlap' = overlap,
             \A q \in Processes : pc'[q] \in A!Acquiring => pc[q] \in A!Acquiring
      PROVE  Alone'
  BY <1>2
<1>3. ASSUME NEW p \in Processes, NEW k \in Pids, A!Start(p, k) PROVE Alone'
  BY <1>0, <1>2, <1>3 DEF A!Start, A!history, A!TypeOK
<1>4. ASSUME NEW p \in Processes, A!Kill(p) PROVE Alone'
  <2>1. pc[p] = "forcing" /\ overlap' = overlap
    BY <1>4 DEF A!Kill
  <2>2. ASSUME NEW q \in Processes, pc' = [pc EXCEPT ![p] = "write", ![q] = "dead"] PROVE Alone'
    BY <1>0, <1>2, <2>1, <2>2 DEF A!TypeOK
  <2>3. ASSUME pc' = [pc EXCEPT ![p] = "write"] PROVE Alone'
    BY <1>0, <1>2, <2>1, <2>3 DEF A!TypeOK
  <2> QED BY <1>0, <1>4, <2>2, <2>3, TaskActions
<1>5. ASSUME NEW p \in Processes, NEW r \in Runners, A!RunnerFails(p, r) \/ A!Cancelled(p, r)
      PROVE  Alone'
  BY <1>2, <1>5 DEF A!RunnerFails, A!Cancelled, A!history
<1>6. ASSUME NEW p \in Processes,
             A!Vanished(p) \/ A!ReadStale(p) \/ A!Refuse(p) \/ A!Force(p) \/ A!Truncate(p) \/ A!Write(p)
               \/ A!BuildFails(p) \/ A!BuildRunners(p)
      PROVE  Alone'
  BY <1>0, <1>2, <1>6
     DEF A!Vanished, A!ReadStale, A!Refuse, A!Force, A!Truncate, A!Write, A!BuildFails, A!BuildRunners, A!Goes,
         A!history, A!TypeOK
<1>7. ASSUME NEW p \in Processes,
             A!Wake(p) \/ A!Joined(p) \/ A!Raised(p) \/ A!Release(p) \/ A!Exit(p) \/ A!Crash(p)
      PROVE  Alone'
  BY <1>0, <1>2, <1>7 DEF A!Wake, A!Joined, A!Raised, A!Release, A!Exit, A!Crash, A!Goes, A!history, A!TypeOK
<1> HIDE DEF Alone
<1> QED BY <1>1, <1>3, <1>4, <1>5, <1>6, <1>7 DEF A!Next, A!Runs

\* Without an overlap no process writes the file of one that may trade.
LEMMA LockedStep ==
  ASSUME A!TypeOK, Identified, Quiet, Alone, Locked, A!Next
  PROVE  Locked'
<1> USE NoneAssumption DEF Locked, A!Acquiring, A!Serving, Owns
<1>0. A!TypeOK /\ \A p \in Processes : Owns(p) => A!Alive(p) /\ pid[p] \in Pids
  BY DEF Identified, A!Alive
<1>1. ASSUME NEW p \in Processes, NEW k \in Pids, A!Start(p, k) PROVE Locked'
  BY <1>0, <1>1 DEF A!Start, A!Trades, A!history, A!TypeOK
<1>2. ASSUME NEW p \in Processes, A!Exists(p) PROVE Locked'
  BY <1>0, <1>2 DEF A!Exists, A!Goes, A!Trades, A!TypeOK
<1>3. ASSUME NEW p \in Processes, A!Vanished(p) PROVE Locked'
  BY <1>0, <1>3 DEF A!Vanished, A!Goes, A!Trades, A!history, A!TypeOK
<1>4. ASSUME NEW p \in Processes, A!ReadStale(p) PROVE Locked'
  <2>1. ~overlap /\ ~early => \A q \in Processes : ~Owns(q)
    BY <1>0, <1>4 DEF A!ReadStale, A!PidIsAlive
  <2> QED BY <1>0, <1>4, <2>1 DEF A!ReadStale, A!Goes, A!Trades, A!history, A!TypeOK
<1>5. ASSUME NEW p \in Processes, A!Refuse(p) \/ A!Force(p) PROVE Locked'
  <2>1. CASE A!Refuse(p)
    BY <1>0, <2>1 DEF A!Refuse, A!Goes, A!Trades, A!TypeOK
  <2>2. CASE A!Force(p)
    BY <1>0, <2>2 DEF A!Force, A!Goes, A!Trades, A!history, A!TypeOK
  <2> QED BY <1>5, <2>1, <2>2
<1>6. ASSUME NEW p \in Processes, A!Kill(p) PROVE Locked'
  <2>1. /\ UNCHANGED <<file, pid, overlap, early>>
        /\ found' = [found EXCEPT ![p] = None] /\ pc[p] = "forcing"
    BY <1>6 DEF A!Kill
  <2>2. ~overlap /\ ~early => \A q \in Processes : Owns(q) => A!Victim(p, q)
    BY <1>0, <2>1 DEF A!Victim
  <2>3. ASSUME NEW q \in Processes, A!Victim(p, q), task' = A!Stopped(q),
               pc' = [pc EXCEPT ![p] = "write", ![q] = "dead"]
        PROVE  Locked'
    <3>1. \A v \in Processes : A!Trades(v)' => A!Trades(v)
      BY <1>0, <2>3, TaskChanges
    <3>2. \A v \in Processes : v # q => ~A!Victim(p, v)
      BY <2>3 DEF A!Victim, Identified
    <3>3. ~overlap /\ ~early => \A v \in Processes : ~Owns(v)'
      BY <1>0, <2>1, <2>2, <2>3, <3>1, <3>2 DEF A!TypeOK
    <3>4. ~overlap => \A v \in Processes : pc'[v] # "forcing"
      BY <1>0, <2>1, <2>3 DEF Alone, A!TypeOK
    <3> QED BY <2>1, <3>3, <3>4
  <2>4. ASSUME ~ \E q \in Processes : A!Victim(p, q), UNCHANGED task,
               pc' = [pc EXCEPT ![p] = "write"]
        PROVE  Locked'
    <3>1. ~overlap /\ ~early => \A v \in Processes : ~Owns(v)'
      BY <1>0, <2>1, <2>2, <2>4 DEF A!TypeOK, A!Trades
    <3>2. ~overlap => \A v \in Processes : pc'[v] # "forcing"
      BY <1>0, <2>1, <2>4 DEF Alone, A!TypeOK
    <3> QED BY <2>1, <3>1, <3>2
  <2> QED BY <1>0, <1>6, <2>3, <2>4, TaskActions
<1>7. ASSUME NEW p \in Processes, A!Truncate(p) \/ A!Write(p) PROVE Locked'
  <2>1. ~overlap /\ ~early =>
          /\ \A q \in Processes : ~Owns(q)
          /\ \A q \in Processes : q # p => pc[q] \notin A!Acquiring
    BY <1>0, <1>7 DEF A!Truncate, A!Write, Alone
  <2>2. \A q \in Processes : A!Trades(q)' <=> A!Trades(q)
    BY <1>7 DEF A!Truncate, A!Write, A!Trades
  <2>3. UNCHANGED <<overlap, early, pid, found>>
    BY <1>7 DEF A!Truncate, A!Write, A!history
  <2>4. CASE A!Truncate(p)
    BY <1>0, <2>1, <2>2, <2>3, <2>4 DEF A!Truncate, A!Goes, A!TypeOK
  <2>5. CASE A!Write(p)
    BY <1>0, <2>1, <2>2, <2>3, <2>5 DEF A!Write, A!Goes, A!TypeOK
  <2> QED BY <1>7, <2>4, <2>5
<1>8. ASSUME NEW p \in Processes, A!BuildFails(p) \/ A!BuildRunners(p) PROVE Locked'
  <2>1. \A q \in Processes : q # p => (A!Trades(q)' <=> A!Trades(q))
    BY <1>0, <1>8 DEF A!BuildFails, A!BuildRunners, A!Trades, A!TypeOK
  <2> QED BY <1>0, <1>8, <2>1 DEF A!BuildFails, A!BuildRunners, A!Goes, A!history, A!TypeOK
<1>9. ASSUME NEW p \in Processes, NEW r \in Runners, A!RunnerFails(p, r) \/ A!Cancelled(p, r)
      PROVE  Locked'
  <2>1. \A v \in Processes : A!Trades(v)' => A!Trades(v)
    BY <1>0, <1>9, TaskActions, TaskChanges
  <2> QED BY <1>9, <2>1 DEF A!RunnerFails, A!Cancelled, A!history
<1>10. ASSUME NEW p \in Processes, A!Wake(p) \/ A!Joined(p) \/ A!Raised(p) \/ A!Exit(p) \/ A!Crash(p)
       PROVE  Locked'
  <2>1. \A v \in Processes : A!Trades(v)' => A!Trades(v)
    BY <1>0, <1>10, TaskChanges DEF A!Wake, A!Joined, A!Raised, A!Exit, A!Crash
  <2>2. CASE A!Wake(p)
    <3>1. UNCHANGED <<file, pid, found, overlap, early>> /\ pc[p] = "trading"
      BY <2>2 DEF A!Wake, A!history
    <3>2. A!Goes(p, "releasing") \/ A!Goes(p, "stopping")
      BY <2>2 DEF A!Wake
    <3> QED BY <1>0, <2>1, <3>1, <3>2 DEF A!Goes, A!TypeOK
  <2>3. CASE A!Joined(p)
    BY <1>0, <2>1, <2>3 DEF A!Joined, A!Goes, A!history, A!TypeOK
  <2>4. CASE A!Raised(p)
    BY <1>0, <2>1, <2>4 DEF A!Raised, A!Goes, A!TypeOK
  <2>5. CASE A!Exit(p)
    BY <1>0, <2>1, <2>5 DEF A!Exit, A!Goes, A!history, A!TypeOK
  <2>6. CASE A!Crash(p)
    BY <1>0, <2>1, <2>6 DEF A!Crash, A!Goes, A!TypeOK
  <2> QED BY <1>10, <2>2, <2>3, <2>4, <2>5, <2>6
<1>11. ASSUME NEW p \in Processes, A!Release(p) PROVE Locked'
  <2>1. \A v \in Processes : A!Trades(v)' => A!Trades(v)
    BY <1>0, <1>11, TaskChanges DEF A!Release
  <2>2. ~early' => ~A!Trades(p) /\ ~early
    BY <1>11 DEF A!Release, Quiet, A!Lives, A!Trades
  <2>3. ~overlap /\ ~early => \A q \in Processes : Owns(q) => q = p
    BY <1>0, <1>11 DEF Identified, A!Release
  <2> QED BY <1>0, <1>11, <2>1, <2>2, <2>3 DEF A!Release, A!AfterUnlink, A!Goes, A!TypeOK
<1> HIDE DEF Locked
<1> QED BY <1>1, <1>2, <1>3, <1>4, <1>5, <1>6, <1>7, <1>8, <1>9, <1>10, <1>11 DEF A!Next, A!Runs

LockInv ==
  A!TypeOK /\ Identified /\ Quiet /\ Accounted /\ A!RefusalIsEarned /\ Alone /\ Locked

\* The initial states satisfy the invariant of the lock.
LEMMA LockInvInit == A!Init => LockInv
<1> SUFFICES ASSUME A!Init PROVE LockInv
  OBVIOUS
<1>1. A!TypeOK
  BY DEF A!Init, A!TypeOK, A!Live
<1>2. Identified /\ Quiet
  BY DEF A!Init, Identified, Quiet, A!Alive, A!Acquiring, A!Serving, A!Lives, A!Live
<1>3. Accounted /\ A!RefusalIsEarned
  BY NoneAssumption DEF A!Init, Accounted, A!RefusalIsEarned
<1>4. Alone /\ Locked
  BY DEF A!Init, Alone, Locked, Owns, A!Acquiring, A!Serving
<1> QED BY <1>1, <1>2, <1>3, <1>4 DEF LockInv

\* Every step keeps it.
LEMMA LockInvStep == LockInv /\ [A!Next]_(A!vars) => LockInv'
<1>1. ASSUME LockInv, A!Next PROVE LockInv'
  BY <1>1, TypeStep, IdentifiedStep, QuietStep, AccountedStep, RefusalStep, AloneStep, LockedStep
     DEF LockInv
<1>2. ASSUME LockInv, UNCHANGED A!vars PROVE LockInv'
  <2> USE <1>2 DEF A!vars, A!history, LockInv
  <2>1. A!TypeOK' /\ Accounted' /\ A!RefusalIsEarned' /\ Alone'
    BY DEF A!TypeOK, Accounted, A!RefusalIsEarned, Alone
  <2>2. Identified' /\ Quiet'
    BY DEF Identified, Quiet, A!Alive, A!Lives
  <2>3. Locked'
    BY DEF Locked, Owns, A!Trades
  <2> QED BY <2>1, <2>2, <2>3
<1> QED BY <1>1, <1>2

\* Who has a trading task owns the lock, and the lock has one owner.
LEMMA OneOwner == LockInv => A!OneTrader
<1>1. ASSUME LockInv, ~overlap /\ ~early
      PROVE  Cardinality({p \in Processes : A!Trades(p)}) <= 1
  <2>1. \A p \in Processes : A!Trades(p) => Owns(p)
    BY <1>1 DEF LockInv, Quiet, Taskless, A!TypeOK, A!Trades, A!Lives, Owns, A!Serving, A!Acquiring
  <2>2. \A p, q \in Processes : A!Trades(p) /\ A!Trades(q) => p = q
    BY <1>1, <2>1 DEF LockInv, Locked, Identified, Owns, A!Alive
  <2> DEFINE S == {p \in Processes : A!Trades(p)}
  <2>3. S = {} \/ \E p \in Processes : S = {p}
    BY <2>2
  <2>4. Cardinality({}) = 0 /\ \A p \in Processes : Cardinality({p}) = 1
    BY FS_EmptySet, FS_Singleton
  <2> QED BY <2>3, <2>4
<1>2. \A S : A!Cardinality(S) = Cardinality(S)
  BY DEF A!Cardinality, Cardinality
<1> QED BY <1>1, <1>2, Zenon DEF A!OneTrader

-----------------------------------------------------------------------------
(* The bar feed.                                                           *)

\* A feed that has not given up may still fail once without exceeding the count.
FeedInv ==
  /\ F!TypeOK
  /\ \A l \in Legs : feed[l] # "over" => fails[l] <= MaxReconnects

\* The initial states satisfy the invariant of the feed.
LEMMA FeedInvInit == F!Init => FeedInv
  BY SettingsAssumption DEF F!Init, FeedInv, F!TypeOK, F!Nothing

\* Every step keeps it: a feed that was stopped stays so.
LEMMA FeedInvStep == FeedInv /\ [F!Next]_(F!vars) => FeedInv'
<1> SUFFICES ASSUME FeedInv, [F!Next]_(F!vars) PROVE FeedInv'
  OBVIOUS
<1> USE SettingsAssumption DEF FeedInv, F!TypeOK, F!feeds, F!adapter, F!vars, F!Nothing
<1>1. ASSUME NEW l \in Legs, F!Connects(l) PROVE FeedInv'
  BY <1>1 DEF F!Connects, F!Stamped
<1>2. ASSUME NEW l \in Legs, F!ConnectFails(l) PROVE FeedInv'
  BY <1>2 DEF F!ConnectFails
<1>3. ASSUME NEW l \in Legs, F!Retries(l) PROVE FeedInv'
  BY <1>3 DEF F!Retries
<1>4. ASSUME NEW l \in Legs, F!DeadCheck(l) PROVE FeedInv'
  BY <1>4 DEF F!DeadCheck, F!DeadCount
<1>5. ASSUME NEW l \in Legs, F!BarComes(l) PROVE FeedInv'
  BY <1>5 DEF F!BarComes, F!Stamped
<1>6. ASSUME NEW l \in Legs, F!FallsSilent(l) \/ F!Ages(l) PROVE FeedInv'
  BY <1>6 DEF F!FallsSilent, F!Ages
<1>7. ASSUME NEW l \in Legs, F!Consume(l) PROVE FeedInv'
  BY <1>7 DEF F!Consume
<1>8. ASSUME NEW l \in Legs, F!PutWaited(l) PROVE FeedInv'
  BY <1>8 DEF F!PutWaited
<1>9. CASE F!GetBar
  BY <1>9 DEF F!GetBar
<1>10. CASE F!Answer \/ F!Timeout
  BY <1>10 DEF F!Answer, F!Timeout
<1>11. CASE UNCHANGED F!vars
  BY <1>11
<1> HIDE DEF FeedInv
<1> QED
  BY <1>1, <1>2, <1>3, <1>4, <1>5, <1>6, <1>7, <1>8, <1>9, <1>10, <1>11 DEF F!Next, F!Task, F!Attempt

-----------------------------------------------------------------------------
(* The paper trader.                                                       *)

Levels == {"NORMAL", "SOFT_LIMIT", "HARD_STOP"}

\* The drawdown controller's record; a stop is not taken for normal.
Controller(d) ==
  /\ {"level", "stopped"} \subseteq DOMAIN d
  /\ d.level \in Levels /\ d.stopped \in BOOLEAN
  /\ d.stopped => d.level # "NORMAL"

\* An update leaves a stop in place, opening and closing a pair leaves the level.
LEMMA ControllerKept ==
  ASSUME NEW d, Controller(d), NEW pnl
  PROVE  /\ Controller(P!Updated(d, pnl))
         /\ d.stopped => P!Updated(d, pnl).stopped
         /\ Controller(P!Opened(d)) /\ Controller(P!ClosedPair(d))
         /\ P!Opened(d).stopped = d.stopped /\ P!ClosedPair(d).stopped = d.stopped
<1>1. ASSUME NEW c, Controller(c)
      PROVE  /\ Controller(P!Opened(c)) /\ Controller(P!ClosedPair(c))
             /\ P!Opened(c).stopped = c.stopped /\ P!ClosedPair(c).stopped = c.stopped
  BY <1>1 DEF Controller, P!Opened, P!ClosedPair
<1>2. ASSUME NEW c, Controller(c), NEW x
      PROVE  Controller([c EXCEPT !.pair.best = x]) /\ [c EXCEPT !.pair.best = x].stopped = c.stopped
  BY <1>2 DEF Controller
<1>3. Controller(P!Marked(d, pnl)) /\ P!Marked(d, pnl).stopped = d.stopped
  BY <1>1, <1>2 DEF P!Marked
<1>4. ASSUME NEW c, Controller(c)
      PROVE  Controller(P!Valued(c, pnl)) /\ P!Valued(c, pnl).stopped = c.stopped
  <2>1. ASSUME NEW e, NEW h
        PROVE  Controller([c EXCEPT !.equity = e, !.hwm = h])
               /\ [c EXCEPT !.equity = e, !.hwm = h].stopped = c.stopped
    BY <1>4 DEF Controller
  <2> QED BY <2>1 DEF P!Valued
<1>5. ASSUME NEW c, Controller(c)
      PROVE  Controller(P!Levelled(c)) /\ (c.stopped => P!Levelled(c).stopped)
  BY <1>5 DEF P!Levelled, Controller, Levels
<1> QED BY <1>1, <1>3, <1>4, <1>5 DEF P!Updated

PaperTypes ==
  /\ P!TypeOK
  /\ Controller(dd)
  /\ realised \in Int /\ fees \in Int /\ gross \in Int
  /\ blind \in BOOLEAN
  /\ at = "new" => warming = 0 /\ paperState = "IDLE"
  /\ paperState = "WARMING_UP" => warming < Warmup

\* The state word and the position: with a notifier a position is left when run() has ended.
Placed ==
  /\ paperState \in {"IDLE", "WARMING_UP", "ACTIVE"} => position = None
  /\ paperState = "IN_POSITION" => position # None
  /\ at = "opening" => position = None
  /\ at = "closing" => position # None
  /\ notifier /\ position # None => at \in {"over", "gone"}
  /\ ~blind => /\ position # None => paperState = "IN_POSITION"
               /\ paperState = "HALTED" => at \in {"over", "gone"}

Booked ==
  at # "gone" =>
    /\ taken = P!InFlight
    /\ nPairs = IF P!InFlight THEN 1 ELSE 0
    /\ realised + fees = gross + IF position = None THEN 0 ELSE Fee

PaperInv == PaperTypes /\ Placed /\ P!StopsAreFinal /\ Booked

\* What a position is worth is a number.
LEMMA WorthIsNumber == ASSUME P!TypeOK, NEW p \in Prices PROVE P!Worth(p) \in Int
<1>1. CASE position = None
  BY <1>1 DEF P!Worth
<1>2. CASE position.side \in {-1, 1} /\ position.entry \in Prices
  <2>1. p \in Int /\ position.entry \in Int
    BY <1>2, SettingsAssumption
  <2>2. \A a, b \in Int : 1 * (a - b) \in Int /\ -1 * (a - b) \in Int
    OBVIOUS
  <2>3. position.side = 1 \/ position.side = -1
    BY <1>2
  <2>4. position.side * (p - position.entry) \in Int
    BY <2>1, <2>2, <2>3
  <2> QED BY <2>4 DEF P!Worth
<1> QED BY <1>1, <1>2 DEF P!TypeOK

Decides(p, newDay) ==
  \/ P!HardStop(p, newDay) \/ P!PairStop(p, newDay) \/ P!Hold(p, newDay)
  \/ P!ExitSignal(p, newDay) \/ P!DailyHalt(p, newDay) \/ P!EntrySignal(p, newDay)

\* What a tick decides changes nothing of these, and what it writes is of these.
LEMMA DecisionKeeps ==
  ASSUME NEW p \in Prices, NEW newDay \in BOOLEAN, Decides(p, newDay)
  PROVE  /\ UNCHANGED <<notifier, drops, warming, position, realised, fees, gross>>
         /\ P!Take /\ paperState \in P!Trading /\ price' = p
BY DEF Decides, P!HardStop, P!PairStop, P!Hold, P!ExitSignal, P!DailyHalt, P!EntrySignal, P!Undisturbed, P!Seen

\* Every step keeps the types of the accounts and of what waits.
LEMMA PaperTypesStep == ASSUME PaperInv, P!Next PROVE PaperTypes'
<1> USE SettingsAssumption DEF PaperTypes, P!TypeOK, P!Trading
<1>0. PaperTypes /\ Controller(dd)
  BY DEF PaperInv
<1>1. CASE P!Run \/ P!Cancel
  BY <1>0, <1>1 DEF P!Run, P!Cancel, P!feed, P!accounts, P!book, P!history, P!Runs
<1>2. CASE P!Queued \/ P!Dropped
  <2>1. blind' \in BOOLEAN
    BY <1>0, <1>2 DEF P!Queued, P!Dropped, P!history
  <2> QED BY <1>0, <1>2, <2>1 DEF P!Queued, P!Dropped, P!accounts, P!book, P!history, P!Runs
<1>3. CASE P!Ignore \/ P!WarmUp \/ P!Fatal
  <2>1. UNCHANGED <<notifier, drops, price, position, P!accounts, P!book, gross>> /\ P!Take
    BY <1>3 DEF P!Ignore, P!WarmUp, P!Fatal, P!history
  <2>2. blind' \in BOOLEAN
    BY <1>0, <1>3 DEF P!Ignore, P!WarmUp, P!Fatal, P!Raised, P!history
  <2>3. queue' \in 0 .. Room /\ at = "get"
    BY <1>0, <2>1 DEF P!Take
  <2>4. CASE P!Ignore
    BY <1>0, <2>1, <2>2, <2>3, <2>4 DEF P!Ignore, P!NextTick, P!accounts, P!book
  <2>5. CASE P!WarmUp
    BY <1>0, <2>1, <2>2, <2>3, <2>5 DEF P!WarmUp, P!accounts, P!book
  <2>6. CASE P!Fatal
    BY <1>0, <2>1, <2>2, <2>3, <2>6 DEF P!Fatal, P!Raised, P!accounts, P!book
  <2> QED BY <1>3, <2>4, <2>5, <2>6
<1>4. ASSUME NEW p \in Prices, NEW newDay \in BOOLEAN, Decides(p, newDay) PROVE PaperTypes'
  <2>1. Controller(P!After(p)) /\ Controller(P!Opened(P!After(p)))
    BY <1>0, ControllerKept DEF P!After
  <2>2. Controller(dd')
    BY <1>4, <2>1 DEF Decides, P!HardStop, P!PairStop, P!Hold, P!ExitSignal, P!DailyHalt, P!EntrySignal
  <2>3. dd'.level \in {"NORMAL", "SOFT_LIMIT", "HARD_STOP"}
    BY <2>2 DEF Controller, Levels
  <2>4. P!Take /\ paperState \in P!Trading /\ price' = p
    BY <1>4, DecisionKeeps
  <2>5. /\ UNCHANGED <<notifier, drops, warming, position, realised, fees, gross>>
        /\ at' \in {"get", "closing", "over", "opening"}
        /\ paperState' \in {paperState, "HALTED"}
        /\ reason' \in {reason, "signal", "PAIR_DD", "HARD_STOP"}
    BY <1>4, <2>4, DecisionKeeps DEF Decides, P!HardStop, P!PairStop, P!Hold, P!ExitSignal, P!DailyHalt,
       P!EntrySignal, P!Take, P!Closes, P!Raised
  <2>9. blind' \in BOOLEAN
    BY <1>0, <1>4 DEF Decides, P!HardStop, P!PairStop, P!Hold, P!ExitSignal, P!DailyHalt, P!EntrySignal,
       P!Closes, P!Raised
  <2>6. taken' \in BOOLEAN /\ nPairs' \in 0 .. MaxPairs
    <3>1. CASE P!EntrySignal(p, newDay)
      BY <1>0, <3>1 DEF P!EntrySignal
    <3>2. CASE ~P!EntrySignal(p, newDay)
      <4>1. UNCHANGED <<taken, nPairs>>
        BY <1>4, <3>2 DEF Decides, P!HardStop, P!PairStop, P!Hold, P!ExitSignal, P!DailyHalt
      <4> QED BY <1>0, <4>1
    <3> QED BY <3>1, <3>2
  <2>7. queue' \in 0 .. Room /\ at = "get" /\ price' \in Prices
    BY <1>0, <2>4 DEF P!Take
  <2>8. P!TypeOK'
    BY <1>0, <2>3, <2>4, <2>5, <2>6, <2>7
  <2> QED BY <1>0, <2>2, <2>4, <2>5, <2>8, <2>9
<1>5. CASE P!Entered
  <2>1. position' = None \/ (position'.side \in {-1, 1} /\ position'.entry \in Prices)
    BY <1>0, <1>5 DEF P!Entered
  <2>2. UNCHANGED <<notifier, queue, drops, warming, price, realised, dd, taken, nPairs, reason, gross>>
    BY <1>5 DEF P!Entered, P!feed, P!book
  <2>6. blind \in BOOLEAN /\ notifier \in BOOLEAN /\ fees \in Int /\ Fee \in Int
    BY <1>0
  <2>7. fees' = fees + Fee
    BY <1>5 DEF P!Entered
  <2>8. blind' \in BOOLEAN /\ paperState' \in {"IN_POSITION", "HALTED"} /\ at' \in {"get", "over"}
    BY ONLY <1>5, <2>6 DEF P!Entered, P!Raised
  <2>3. /\ fees' \in Int /\ blind' \in BOOLEAN
        /\ paperState' \in {"IN_POSITION", "HALTED"} /\ at' \in {"get", "over"}
    BY <2>6, <2>7, <2>8
  <2>4. P!TypeOK'
    BY <1>0, <2>1, <2>2, <2>3
  <2>5. Controller(dd)'
    BY <1>0, <2>2
  <2> QED BY <1>0, <2>2, <2>3, <2>4, <2>5
<1>6. CASE P!Exited
  <2>1. P!Worth(price) \in Int
    BY <1>0, WorthIsNumber
  <2>2. realised' \in Int /\ fees' \in Int /\ gross' \in Int
    BY <1>0, <1>6, <2>1 DEF P!Exited, P!NetPnl
  <2>3. UNCHANGED <<notifier, queue, drops, warming, price>>
    BY <1>6 DEF P!Exited, P!feed
  <2>4. CASE notifier
    BY <1>0, <1>6, <2>2, <2>3, <2>4 DEF P!Exited, P!Raised, P!book
  <2>5. CASE ~notifier
    <3>1. Controller(P!ClosedPair(dd))
      BY <1>0, ControllerKept
    <3>2. Controller(dd') /\ dd'.level \in {"NORMAL", "SOFT_LIMIT", "HARD_STOP"}
      BY <1>6, <2>5, <3>1 DEF P!Exited, P!Recorded, Controller, Levels
    <3>3. nPairs' \in 0 .. MaxPairs
      BY <1>0, <1>6, <2>5 DEF P!Exited, P!Recorded, P!OneLess
    <3>4. paperState' \in {"HALTED", "ACTIVE"} /\ at' \in {"over", "get"} /\ blind' = blind
          /\ position' = None /\ reason' = None /\ taken' = FALSE
      BY <1>6, <2>5 DEF P!Exited, P!Recorded, P!NextTick
    <3> QED BY <1>0, <2>2, <2>3, <3>2, <3>3, <3>4
  <2> QED BY <2>4, <2>5
<1> HIDE DEF PaperTypes
<1> QED BY <1>1, <1>2, <1>3, <1>4, <1>5, <1>6 DEF P!Next, Decides

\* Every step keeps what is placed in line with what is held.
LEMMA PlacedStep == ASSUME PaperInv, P!Next PROVE Placed'
<1> USE DEF Placed, P!Trading
<1>0. P!TypeOK /\ Placed /\ blind \in BOOLEAN
  BY DEF PaperInv, PaperTypes
<1>1. CASE P!Run \/ P!Cancel
  <2>1. UNCHANGED <<notifier, position, blind>>
    BY <1>1 DEF P!Run, P!Cancel, P!history
  <2>2. at = "new" => paperState = "IDLE"
    BY DEF PaperInv, PaperTypes
  <2> QED BY <1>0, <1>1, <2>1, <2>2 DEF P!Run, P!Cancel
<1>2. CASE P!Queued \/ P!Dropped
  BY <1>0, <1>2 DEF P!Queued, P!Dropped, P!history, P!Runs
<1>3. CASE P!Ignore \/ P!WarmUp \/ P!Fatal
  BY <1>0, <1>3 DEF P!Ignore, P!WarmUp, P!Fatal, P!Raised, P!Take, P!NextTick, P!history
<1>4. ASSUME NEW p \in Prices, NEW newDay \in BOOLEAN, Decides(p, newDay) PROVE Placed'
  <2>1. P!Take /\ paperState \in P!Trading /\ UNCHANGED <<notifier, position>> /\ at = "get"
    BY <1>4, DecisionKeeps DEF P!Take
  <2>2. \/ UNCHANGED <<paperState, blind>> /\ at' = "get"
        \/ UNCHANGED <<paperState, blind>> /\ at' = "closing" /\ paperState = "IN_POSITION"
        \/ UNCHANGED <<paperState, blind>> /\ at' = "opening" /\ paperState = "ACTIVE"
        \/ paperState' = "HALTED" /\ at' = "over" /\ (paperState = "ACTIVE" \/ blind')
    <3>1. P!Forced(p) => paperState = "IN_POSITION"
      BY DEF P!Forced
    <3> QED BY <1>4, <2>1, <3>1 DEF Decides, P!HardStop, P!PairStop, P!Hold, P!ExitSignal, P!DailyHalt,
       P!EntrySignal, P!MayEnter, P!Closable, P!Closes, P!Raised
  <2> QED BY <1>0, <2>1, <2>2
<1>5. CASE P!Entered
  <2>1. \A s \in {-1, 1}, e \in Prices : [side |-> s, entry |-> e] # None
    BY NoneAssumption
  <2>2. position' # None /\ UNCHANGED notifier
    BY <1>0, <1>5, <2>1 DEF P!Entered, P!TypeOK
  <2>3. \/ notifier /\ paperState' = "HALTED" /\ at' = "over" /\ blind'
        \/ ~notifier /\ paperState' = "IN_POSITION" /\ at' = "get"
    BY <1>5 DEF P!Entered, P!Raised
  <2> QED BY <2>2, <2>3
<1>6. CASE P!Exited
  <2>1. \/ at' = "over" /\ paperState' = "HALTED" /\ blind'
        \/ ~notifier /\ position' = None /\ paperState' = "ACTIVE" /\ at' = "get"
        \/ ~notifier /\ position' = None /\ paperState' = "HALTED" /\ at' = "over"
    BY <1>6 DEF P!Exited, P!Raised, P!Recorded, P!NextTick
  <2>2. UNCHANGED notifier
    BY <1>6 DEF P!Exited
  <2> QED BY <2>1, <2>2
<1> HIDE DEF Placed
<1> QED BY <1>1, <1>2, <1>3, <1>4, <1>5, <1>6 DEF P!Next, Decides

\* Only a controller that has not stopped lets a pair in.
LEMMA StopsStep == ASSUME PaperInv, P!Next PROVE P!StopsAreFinal'
<1> USE DEF P!StopsAreFinal, P!CanOpenNew
<1>0. /\ P!TypeOK /\ Placed /\ blind \in BOOLEAN /\ Controller(dd)
      /\ dd.stopped => at # "opening"
      /\ at = "over" /\ ~blind => position = None
  BY DEF PaperInv, PaperTypes
<1>1. CASE P!Run \/ P!Cancel \/ P!Queued \/ P!Dropped
  BY <1>0, <1>1 DEF P!Run, P!Cancel, P!Queued, P!Dropped, P!book, P!history, Controller
<1>2. CASE P!Ignore \/ P!WarmUp \/ P!Fatal
  BY <1>0, <1>2 DEF P!Ignore, P!WarmUp, P!Fatal, P!Raised, P!Take, P!NextTick, P!book, P!history, Controller, Placed
<1>3. ASSUME NEW p \in Prices, NEW newDay \in BOOLEAN, Decides(p, newDay) PROVE P!StopsAreFinal'
  <2>1. Controller(P!After(p)) /\ P!Opened(P!After(p)).stopped = P!After(p).stopped
        /\ Controller(P!Opened(P!After(p)))
    BY <1>0, ControllerKept DEF P!After
  <2>2. UNCHANGED position /\ paperState \in P!Trading
    BY <1>3, DecisionKeeps
  <2>3. CASE P!EntrySignal(p, newDay)
    BY <1>0, <2>1, <2>3 DEF P!EntrySignal, Controller
  <2>4. CASE ~P!EntrySignal(p, newDay)
    <3>1. dd' = P!After(p) /\ at' # "opening"
      BY <1>3, <2>4, DecisionKeeps DEF Decides, P!HardStop, P!PairStop, P!Hold, P!ExitSignal, P!DailyHalt,
         P!Closes, P!Raised, P!Take
    <3>2. at' = "over" => paperState = "ACTIVE" \/ blind'
      BY <1>3, <2>2, <2>4, DecisionKeeps DEF Decides, P!HardStop, P!PairStop, P!Hold, P!ExitSignal,
         P!DailyHalt, P!Closes, P!Raised, P!Closable, P!MayEnter, P!Trading, P!Take
    <3> QED BY <1>0, <2>1, <2>2, <3>1, <3>2 DEF Controller, Placed
  <2> QED BY <2>3, <2>4
<1>4. CASE P!Entered
  BY <1>0, <1>4 DEF P!Entered, P!Raised, P!book, Controller
<1>5. CASE P!Exited
  <2>1. Controller(P!ClosedPair(dd))
    BY <1>0, ControllerKept
  <2> QED BY <1>0, <1>5, <2>1 DEF P!Exited, P!Raised, P!Recorded, P!NextTick, P!book, Controller
<1> HIDE DEF P!StopsAreFinal
<1> QED BY <1>1, <1>2, <1>3, <1>4, <1>5 DEF P!Next, Decides

\* Every step books a position in the allocator, the controller and the profits.
LEMMA BookedStep == ASSUME PaperInv, P!Next PROVE Booked'
<1> USE DEF Booked, P!InFlight
<1>0. /\ P!TypeOK /\ Placed /\ Booked
      /\ realised \in Int /\ fees \in Int /\ gross \in Int /\ nPairs \in Int
  BY DEF PaperInv, PaperTypes, P!TypeOK
<1>1. CASE P!Run \/ P!Cancel \/ P!Queued \/ P!Dropped
  BY <1>0, <1>1 DEF P!Run, P!Cancel, P!Queued, P!Dropped, P!accounts, P!book, P!history, Placed
<1>2. CASE P!Ignore \/ P!WarmUp \/ P!Fatal
  BY <1>0, <1>2 DEF P!Ignore, P!WarmUp, P!Fatal, P!Raised, P!Take, P!NextTick, P!accounts, P!book, P!history
<1>3. ASSUME NEW p \in Prices, NEW newDay \in BOOLEAN, Decides(p, newDay) PROVE Booked'
  <2>1. UNCHANGED <<position, realised, fees, gross>> /\ at = "get"
    BY <1>3, DecisionKeeps DEF P!Take
  <2>2. CASE P!EntrySignal(p, newDay)
    <3>1. position = None /\ at' = "opening" /\ taken' = TRUE /\ nPairs' = nPairs + 1
      BY <1>0, <2>2 DEF P!EntrySignal, P!MayEnter, Placed
    <3>2. nPairs = 0
      BY <1>0, <2>1, <3>1
    <3>3. P!InFlight' /\ taken' = P!InFlight'
      BY <3>1, Zenon
    <3>4. realised' + fees' = gross' + 0 /\ position' = None /\ nPairs' = 1
      BY <1>0, <2>1, <3>1, <3>2
    <3> QED BY <3>3, <3>4
  <2>3. CASE ~P!EntrySignal(p, newDay)
    <3>1. UNCHANGED <<taken, nPairs>> /\ at' \in {"get", "closing", "over"}
      BY <1>3, <2>1, <2>3 DEF Decides, P!HardStop, P!PairStop, P!Hold, P!ExitSignal, P!DailyHalt, P!Closes, P!Raised
    <3> QED BY <1>0, <2>1, <3>1
  <2> QED BY <2>2, <2>3
<1>4. CASE P!Entered
  <2>1. position = None /\ position' # None
    <3>1. \A s \in {-1, 1}, e \in Prices : [side |-> s, entry |-> e] # None
      BY NoneAssumption
    <3> QED BY <1>0, <1>4, <3>1 DEF P!Entered, Placed, P!TypeOK
  <2>2. Fee \in Int
    BY SettingsAssumption
  <2>3. /\ at = "opening" /\ at' # "opening" /\ fees' = fees + Fee
        /\ UNCHANGED <<realised, gross, taken, nPairs>>
    BY <1>4 DEF P!Entered, P!Raised, P!book
  <2> QED BY <1>0, <2>1, <2>2, <2>3
<1>5. CASE P!Exited
  <2>1. P!Worth(price) \in Int
    BY <1>0, WorthIsNumber DEF P!TypeOK
  <2>2. Fee \in Int /\ position # None /\ ~notifier
    BY <1>0, <1>5, SettingsAssumption DEF P!Exited, Placed
  <2>3. /\ at = "closing" /\ at' \in {"over", "get"} /\ position' = None /\ taken' = FALSE
        /\ nPairs' = IF nPairs > 0 THEN nPairs - 1 ELSE 0
        /\ fees' = fees + Fee
        /\ realised' = realised + (P!Worth(price) - 2 * Fee) /\ gross' = gross + P!Worth(price)
    BY <1>5, <2>2 DEF P!Exited, P!Recorded, P!NetPnl, P!OneLess, P!NextTick
  <2>4. nPairs = 1 /\ realised + fees = gross + Fee
    BY <1>0, <2>2, <2>3
  <2>5. ~P!InFlight' /\ taken' = P!InFlight'
    BY <2>3
  <2>6. realised' + fees' = gross' + 0 /\ nPairs' = 0
    BY <1>0, <2>1, <2>2, <2>3, <2>4
  <2> QED BY <2>3, <2>5, <2>6
<1> HIDE DEF Booked
<1> QED BY <1>1, <1>2, <1>3, <1>4, <1>5 DEF P!Next, Decides

\* The initial states satisfy the invariant of the paper trader.
LEMMA PaperInvInit == P!Init => PaperInv
<1> SUFFICES ASSUME P!Init PROVE PaperInv
  OBVIOUS
<1> USE DEF P!Init, P!Fresh
<1>1. Controller(dd)
  BY DEF Controller, Levels
<1>2. PaperTypes
  <2>1. 0 \in 0 .. Room /\ 0 \in 0 .. DropThreshold /\ 0 \in 0 .. Warmup /\ 0 \in 0 .. MaxPairs
        /\ 0 < Warmup
    BY SettingsAssumption
  <2>2. dd.level \in {"NORMAL", "SOFT_LIMIT", "HARD_STOP"}
    BY <1>1 DEF Controller, Levels
  <2>3. P!TypeOK
    BY <2>1, <2>2 DEF P!TypeOK
  <2>4. blind \in BOOLEAN /\ paperState # "WARMING_UP" /\ (at = "new" => warming = 0 /\ paperState = "IDLE")
    OBVIOUS
  <2>5. realised \in Int /\ fees \in Int /\ gross \in Int
    OBVIOUS
  <2> QED BY <1>1, <2>3, <2>4, <2>5, Zenon DEF PaperTypes
<1>3. Placed /\ Booked /\ P!StopsAreFinal
  BY DEF Placed, Booked, P!InFlight, P!StopsAreFinal
<1> QED BY <1>2, <1>3 DEF PaperInv

\* Every step keeps it.
LEMMA PaperInvStep == PaperInv /\ [P!Next]_(P!vars) => PaperInv'
<1>1. ASSUME PaperInv, P!Next PROVE PaperInv'
  BY <1>1, PaperTypesStep, PlacedStep, StopsStep, BookedStep DEF PaperInv
<1>2. ASSUME PaperInv, UNCHANGED P!vars PROVE PaperInv'
  <2> USE <1>2 DEF P!vars, P!feed, P!book, P!accounts, P!history, PaperInv
  <2>1. PaperTypes'
    BY DEF PaperTypes, P!TypeOK, Controller
  <2>2. Placed' /\ Booked'
    BY DEF Placed, Booked, P!InFlight
  <2>3. P!StopsAreFinal'
    BY DEF P!StopsAreFinal, P!CanOpenNew
  <2> QED BY <2>1, <2>2, <2>3
<1> QED BY <1>1, <1>2

-----------------------------------------------------------------------------
(* Managers of pairs.  What PairSupervisionProofs proves is about its own   *)
(* copy of PairSupervision's definitions, which says the same.             *)

CP == INSTANCE PairSupervisionProofs WITH
        Pairs <- CrossingPairs, Slots <- CrossingSlots, MaxPairs <- MaxRegistered,
        state <- pairState

HP == INSTANCE PairSupervisionProofs WITH
        Pairs <- HaltingPairs, Slots <- HaltingSlots, Full <- 0, MaxPairs <- MaxRegistered,
        state <- pairState

\* What PairSupervisionProofs says of the crossing pairs, it says of this copy.
LEMMA CrossingSame ==
  /\ C!Init => CP!Init
  /\ [C!Next]_(C!vars) => [CP!Next]_(CP!vars)
  /\ CP!TypeOK => C!TypeOK
  /\ (CP!HaltStopsAll => C!HaltStopsAll) /\ (CP!ExposureIsReal => C!ExposureIsReal)
<1>1. C!Init => CP!Init
  BY DEF C!Init, CP!Init, C!Idle, CP!Idle, C!Resting, CP!Resting
<1>2. \A p, c : C!Stop(c, p) <=> CP!Stop(c, p)
  BY DEF C!Stop, CP!Stop, C!Cancel, CP!Cancel, C!In, CP!In, C!sizes, CP!sizes
<1>3. \A p, h : C!SetAllocFactor(p, h) <=> CP!SetAllocFactor(p, h)
  BY DEF C!SetAllocFactor, CP!SetAllocFactor, C!Base, CP!Base, C!Begun, CP!Begun
<1>4. /\ \A l, p, bs, a : C!At(l, p, bs, a) <=> CP!At(l, p, bs, a)
      /\ \A bs : C!Judged(bs) <=> CP!Judged(bs)
  BY DEF C!At, CP!At, C!Judged, CP!Judged, C!Resting, CP!Resting
<1>5. C!WatchStep => CP!WatchStep
  BY <1>2, <1>3, <1>4 DEF C!WatchStep, CP!WatchStep, C!Metrics, CP!Metrics, C!ActHalt,
       CP!ActHalt, C!HaltDone, CP!HaltDone, C!ActReduce, CP!ActReduce, C!ActAlert, CP!ActAlert,
       C!Judge, CP!Judge, C!ActionFor, CP!ActionFor, C!Breaches, CP!Breaches, C!Actions,
       CP!Actions, C!Resting, CP!Resting, C!Idle, CP!Idle, C!sizes, CP!sizes
<1>6. \A c : C!HaltAll(c) \/ C!CallStep(c) => CP!HaltAll(c) \/ CP!CallStep(c)
  BY <1>2 DEF C!HaltAll, CP!HaltAll, C!CallStep, CP!CallStep, C!Notified, CP!Notified,
       C!HaltNext, CP!HaltNext, C!sizes, CP!sizes, C!Idle, CP!Idle, C!In, CP!In
<1>7. ASSUME NEW p, C!AddPair(p) \/ C!StartPair(p)
      PROVE  CP!AddPair(p) \/ CP!StartPair(p)
  BY <1>7 DEF C!AddPair, CP!AddPair, C!Cardinality, CP!Cardinality, C!StartPair, CP!StartPair,
       C!MayStart, CP!MayStart, C!Live, CP!Live, C!sizes, CP!sizes
<1>8. ASSUME NEW p, NEW s, C!LoopBegins(p, s) \/ C!NeverBegan(p, s)
      PROVE  CP!LoopBegins(p, s) \/ CP!NeverBegan(p, s)
  BY <1>8 DEF C!LoopBegins, CP!LoopBegins, C!NeverBegan, CP!NeverBegan, C!Released, CP!Released,
       C!In, CP!In, C!sizes, CP!sizes
<1>9. \A p, s, st : C!Finally(p, s, st) <=> CP!Finally(p, s, st)
  BY DEF C!Finally, CP!Finally, C!Cleared, CP!Cleared, C!Released, CP!Released, C!In, CP!In
<1>10. ASSUME NEW p \in CrossingPairs,
              \/ C!LoopStep(p) \/ C!Ask(p) \/ \E s \in CrossingSlots : C!LoopEnds(p, s)
              \/ \E c \in Callers : C!StopPair(c, p)
              \/ \E h \in 0 .. 2 : C!Reduce(p, h)
       PROVE  CP!Next
  BY <1>2, <1>3, <1>4, <1>8, <1>9, <1>10 DEF CP!Next, C!LoopStep, CP!LoopStep, C!Ask, CP!Ask,
       C!LoopEnds, CP!LoopEnds, C!LoopCancelled, CP!LoopCancelled, C!StopPair, CP!StopPair,
       C!Reduce, CP!Reduce, C!Resting, CP!Resting, C!Idle, CP!Idle, C!sizes, CP!sizes
<1>11. C!Next => CP!Next
  BY <1>5, <1>6, <1>7, <1>10 DEF C!Next, CP!Next, C!Resume, CP!Resume, C!sizes, CP!sizes
<1>12. UNCHANGED C!vars => UNCHANGED CP!vars
  BY DEF C!vars, CP!vars, C!sizes, CP!sizes
<1>13. CP!TypeOK => C!TypeOK
  BY DEF C!TypeOK, CP!TypeOK
<1>14. (CP!HaltStopsAll => C!HaltStopsAll) /\ (CP!ExposureIsReal => C!ExposureIsReal)
  BY DEF C!HaltStopsAll, CP!HaltStopsAll, C!ExposureIsReal, CP!ExposureIsReal, C!Running,
       CP!Running, C!Begun, CP!Begun
<1> QED BY <1>1, <1>11, <1>12, <1>13, <1>14

\* And of the halting pairs.
LEMMA HaltingSame ==
  /\ H!Init => HP!Init
  /\ [H!Next]_(H!vars) => [HP!Next]_(HP!vars)
  /\ HP!TypeOK => H!TypeOK
  /\ (HP!HaltStopsAll => H!HaltStopsAll) /\ (HP!ExposureIsReal => H!ExposureIsReal)
<1>1. H!Init => HP!Init
  BY DEF H!Init, HP!Init, H!Idle, HP!Idle, H!Resting, HP!Resting
<1>2. \A p, c : H!Stop(c, p) <=> HP!Stop(c, p)
  BY DEF H!Stop, HP!Stop, H!Cancel, HP!Cancel, H!In, HP!In, H!sizes, HP!sizes
<1>3. \A p, h : H!SetAllocFactor(p, h) <=> HP!SetAllocFactor(p, h)
  BY DEF H!SetAllocFactor, HP!SetAllocFactor, H!Base, HP!Base, H!Begun, HP!Begun
<1>4. /\ \A l, p, bs, a : H!At(l, p, bs, a) <=> HP!At(l, p, bs, a)
      /\ \A bs : H!Judged(bs) <=> HP!Judged(bs)
  BY DEF H!At, HP!At, H!Judged, HP!Judged, H!Resting, HP!Resting
<1>5. H!WatchStep => HP!WatchStep
  BY <1>2, <1>3, <1>4 DEF H!WatchStep, HP!WatchStep, H!Metrics, HP!Metrics, H!ActHalt,
       HP!ActHalt, H!HaltDone, HP!HaltDone, H!ActReduce, HP!ActReduce, H!ActAlert, HP!ActAlert,
       H!Judge, HP!Judge, H!ActionFor, HP!ActionFor, H!Breaches, HP!Breaches, H!Actions,
       HP!Actions, H!Resting, HP!Resting, H!Idle, HP!Idle, H!sizes, HP!sizes
<1>6. \A c : H!HaltAll(c) \/ H!CallStep(c) => HP!HaltAll(c) \/ HP!CallStep(c)
  BY <1>2 DEF H!HaltAll, HP!HaltAll, H!CallStep, HP!CallStep, H!Notified, HP!Notified,
       H!HaltNext, HP!HaltNext, H!sizes, HP!sizes, H!Idle, HP!Idle, H!In, HP!In
<1>7. ASSUME NEW p, H!AddPair(p) \/ H!StartPair(p)
      PROVE  HP!AddPair(p) \/ HP!StartPair(p)
  BY <1>7 DEF H!AddPair, HP!AddPair, H!Cardinality, HP!Cardinality, H!StartPair, HP!StartPair,
       H!MayStart, HP!MayStart, H!Live, HP!Live, H!sizes, HP!sizes
<1>8. ASSUME NEW p, NEW s, H!LoopBegins(p, s) \/ H!NeverBegan(p, s)
      PROVE  HP!LoopBegins(p, s) \/ HP!NeverBegan(p, s)
  BY <1>8 DEF H!LoopBegins, HP!LoopBegins, H!NeverBegan, HP!NeverBegan, H!Released, HP!Released,
       H!In, HP!In, H!sizes, HP!sizes
<1>9. \A p, s, st : H!Finally(p, s, st) <=> HP!Finally(p, s, st)
  BY DEF H!Finally, HP!Finally, H!Cleared, HP!Cleared, H!Released, HP!Released, H!In, HP!In
<1>10. ASSUME NEW p \in HaltingPairs,
              \/ H!LoopStep(p) \/ H!Ask(p) \/ \E s \in HaltingSlots : H!LoopEnds(p, s)
              \/ \E c \in Callers : H!StopPair(c, p)
              \/ \E h \in 0 .. 2 : H!Reduce(p, h)
       PROVE  HP!Next
  BY <1>2, <1>3, <1>4, <1>8, <1>9, <1>10 DEF HP!Next, H!LoopStep, HP!LoopStep, H!Ask, HP!Ask,
       H!LoopEnds, HP!LoopEnds, H!LoopCancelled, HP!LoopCancelled, H!StopPair, HP!StopPair,
       H!Reduce, HP!Reduce, H!Resting, HP!Resting, H!Idle, HP!Idle, H!sizes, HP!sizes
<1>11. H!Next => HP!Next
  BY <1>5, <1>6, <1>7, <1>10 DEF H!Next, HP!Next, H!Resume, HP!Resume, H!sizes, HP!sizes
<1>12. UNCHANGED H!vars => UNCHANGED HP!vars
  BY DEF H!vars, HP!vars, H!sizes, HP!sizes
<1>13. HP!TypeOK => H!TypeOK
  BY DEF H!TypeOK, HP!TypeOK
<1>14. (HP!HaltStopsAll => H!HaltStopsAll) /\ (HP!ExposureIsReal => H!ExposureIsReal)
  BY DEF H!HaltStopsAll, HP!HaltStopsAll, H!ExposureIsReal, HP!ExposureIsReal, H!Running,
       HP!Running, H!Begun, HP!Begun
<1> QED BY <1>1, <1>11, <1>12, <1>13, <1>14

\* The invariants hold where a behaviour runs the part; elsewhere it does not move.
PairsInv == Supervised(CP!Inv /\ CP!Values, HP!Inv /\ HP!Values)

\* None is no slot and no pair.
LEMMA PairsNone == CP!Nil /\ HP!Nil
  BY NoneAssumption DEF CP!Nil, HP!Nil

-----------------------------------------------------------------------------
(* The parts side by side.                                                 *)

\* The initial states of the part a behaviour runs satisfy its invariant.
LEMMA PairsInvInit ==
  ASSUME IF focus = "crossing" THEN C!Init ELSE H!Init PROVE PairsInv
<1>1. C!Init => CP!Inv /\ CP!Values
  BY CP!InvInit, CP!ValuesInit, CrossingSame, PairsNone, SettingsAssumption
<1>2. H!Init => HP!Inv /\ HP!Values
  BY HP!InvInit, HP!ValuesInit, HaltingSame, PairsNone
<1> QED BY <1>1, <1>2 DEF PairsInv, Supervised

\* A step of that part keeps it.
LEMMA PairsInvStep ==
  ASSUME PairsInv, focus' = focus,
         /\ focus = "crossing" => [C!Next]_(C!vars)
         /\ focus = "halting" => [H!Next]_(H!vars)
  PROVE  PairsInv'
<1>1. CP!Inv /\ CP!Values /\ [C!Next]_(C!vars) => (CP!Inv /\ CP!Values)'
  BY CP!InvStep, CP!ValuesStep, CrossingSame, PairsNone, SettingsAssumption
<1>2. HP!Inv /\ HP!Values /\ [H!Next]_(H!vars) => (HP!Inv /\ HP!Values)'
  BY HP!InvStep, HP!ValuesStep, HaltingSame, PairsNone
<1> QED BY <1>1, <1>2 DEF PairsInv, Supervised

\* The invariants of all the parts together.
ServicesInv == BreakerInv /\ LockInv /\ FeedInv /\ PaperInv /\ PairsInv

\* The initial states satisfy them all.
LEMMA ServicesInvInit == ServicesInit => ServicesInv
  BY BreakerInvInit, LockInvInit, FeedInvInit, PaperInvInit, PairsInvInit
     DEF ServicesInit, ServicesInv

\* A step of one part leaves the variables of the others.
LEMMA PartsStep ==
  ASSUME [ServicesNext]_allVars
  PROVE  /\ [Next]_vars /\ [A!Next]_(A!vars) /\ [F!Next]_(F!vars) /\ [P!Next]_(P!vars)
         /\ focus' = focus
         /\ focus = "crossing" => [C!Next]_(C!vars)
         /\ focus = "halting" => [H!Next]_(H!vars)
<1>1. UNCHANGED breaker => UNCHANGED vars
  BY DEF breaker, vars
<1>2. UNCHANGED application => UNCHANGED A!vars
  BY DEF application, A!vars, A!history
<1>3. UNCHANGED barFeed => UNCHANGED F!vars
  BY DEF barFeed, F!vars, F!feeds, F!adapter
<1>4. UNCHANGED paper => UNCHANGED P!vars
  BY DEF paper, P!vars, P!feed, P!book, P!accounts, P!history
<1>5. UNCHANGED supervision => UNCHANGED C!vars /\ UNCHANGED H!vars
  BY DEF supervision, C!vars, C!sizes, H!vars, H!sizes
<1>6. CASE ServicesNext
  BY <1>1, <1>2, <1>3, <1>4, <1>5, <1>6 DEF ServicesNext
<1>7. CASE UNCHANGED allVars
  BY <1>1, <1>2, <1>3, <1>4, <1>5, <1>7 DEF allVars
<1> QED BY <1>6, <1>7

\* A step of one part keeps its own; the others do not move.
LEMMA ServicesInvStep == ServicesInv /\ [ServicesNext]_allVars => ServicesInv'
  BY PartsStep, BreakerInvStep, LockInvStep, FeedInvStep, PaperInvStep, PairsInvStep
     DEF ServicesInv

\* The invariants of all the parts hold in every state of every behaviour.
THEOREM ServicesInvariance == ServicesSpec => []ServicesInv
  BY ServicesInvInit, ServicesInvStep, PTL DEF ServicesSpec

\* The connection breaker's variables keep their types (CircuitBreaker.__aenter__, __aexit__).
THEOREM BreakerTypes == ServicesSpec => []TypeOK
<1>1. ServicesInv => TypeOK
  BY DEF ServicesInv, BreakerInv
<1> QED BY <1>1, ServicesInvariance, PTL

\* A half-open circuit has a probe in progress and never gets stuck (__aenter__,
\* __aexit__).
THEOREM NeverStuckHalfOpen == ServicesSpec => []HalfOpenHasProbe
<1>1. ServicesInv => HalfOpenHasProbe
  BY DEF ServicesInv, BreakerInv
<1> QED BY <1>1, ServicesInvariance, PTL

\* A circuit that blocks calls has seen Threshold failures since the last success.
THEOREM BlockingIsEarned == ServicesSpec => []BlocksAfterFailures
<1>1. ServicesInv => BlocksAfterFailures
  BY DEF ServicesInv, BreakerInv
<1> QED BY <1>1, ServicesInvariance, PTL

\* main.py, core/singleton_lock.py: however processes start, crash and stop, one trades at a
\* time unless two acquire() calls overlapped or a lock was released early; and with nobody
\* running a start is refused only for a pid that died without a release.
THEOREM OneProcessTrades == ServicesSpec => []LockIsKept
<1>1. LockInv => LockIsKept
  BY OneOwner DEF LockInv, LockIsKept
<1>2. ServicesInv => LockIsKept
  BY <1>1 DEF ServicesInv
<1> QED BY <1>2, ServicesInvariance, PTL

\* execution/multi_pair_manager.py: halt_all() reaches every pair's task, in the manager
\* with allocations and in the one without.
THEOREM HaltsReachEveryPair == ServicesSpec => []HaltStopsAll
<1>1. CP!Inv /\ CP!Values => C!TypeOK /\ C!HaltStopsAll
  BY CP!Typed, CP!Promised, CrossingSame
<1>2. HP!Inv /\ HP!Values => H!TypeOK /\ H!HaltStopsAll
  BY HP!Typed, HP!Promised, HaltingSame
<1>3. ServicesInv => HaltStopsAll
  BY <1>1, <1>2 DEF ServicesInv, PairsInv, Supervised, HaltStopsAll
<1> QED BY <1>3, ServicesInvariance, PTL

\* execution/multi_pair_manager.py: the risk engine's exposure to a pair is its allocation
\* while a task of it runs, and nothing else.
THEOREM ExposuresAreReal == ServicesSpec => []ExposureIsReal
<1>1. CP!Inv => C!ExposureIsReal
  BY CP!Promised, CrossingSame
<1>2. HP!Inv => H!ExposureIsReal
  BY HP!Promised, HaltingSame
<1>3. ServicesInv => ExposureIsReal
  BY <1>1, <1>2 DEF ServicesInv, PairsInv, Supervised, ExposureIsReal
<1> QED BY <1>3, ServicesInvariance, PTL

\* execution/paper_trader.py: from a hard stop on nothing is entered, and a trader that has
\* stopped by itself holds no position, unless an overflow or an error halted it too.
THEOREM StoppedTradersRest == ServicesSpec => []StopsAreFinal
<1>1. ServicesInv => StopsAreFinal
  BY DEF ServicesInv, FeedInv, PaperInv, StopsAreFinal
<1> QED BY <1>1, ServicesInvariance, PTL

\* execution/paper_trader.py, risk/multi_pair_allocator.py: the pair's slot and exposure are
\* taken exactly while a position is open or being opened, and each fill's fee is counted
\* once in the total and once in the PnL of its trade.
THEOREM PaperBooksAgree == ServicesSpec => []BooksAgree
<1>1. ServicesInv => BooksAgree
  BY DEF ServicesInv, PaperInv, PaperTypes, Booked, BooksAgree, P!BooksAgree, P!Runs
<1> QED BY <1>1, ServicesInvariance, PTL
=============================================================================
