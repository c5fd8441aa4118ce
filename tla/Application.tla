----------------------------- MODULE Application -----------------------------
(***************************************************************************)
(* Processes that run main.py on one state directory, and the lock file    *)
(* that is to keep all but one of them from trading: main.py and           *)
(* core/singleton_lock.py.                                                 *)
(*                                                                         *)
(* Processes interleave at every file operation of acquire(); inside a     *)
(* process the runner tasks interleave with main().  A process dies at any *)
(* moment (SIGKILL, out of memory) and the operating system gives its pid  *)
(* to another one.                                                         *)
(***************************************************************************)
EXTENDS Naturals, FiniteSets

CONSTANTS
  Processes,  \* executions of main.py
  Pids,       \* process ids
  Tasks,      \* what runner_task gathers: one runner per pair and the capital allocator
  Allocator,  \* the one of them that does not trade
  None

VARIABLES
  file,     \* state/quantluna.lock: a pid, "torn" (being written) or None (no file)
  pc,       \* where an execution of main() is
  pid,      \* its process id
  found,    \* the pid acquire() read
  task,     \* its outcome tasks; a deaf one swallowed its cancellation
  outcome,  \* of runner_task: open, done or raised
  overlap,  \* history: an acquire() ran while another one was between reading and writing
  orphaned, \* history: pids that died without a release()
  early,    \* history: a lock was released under runners because one had ended with an error
  refused   \* history: refused although no other process was past acquire()

history == <<overlap, orphaned, early, refused>>
vars == <<file, pc, pid, found, task, outcome, history>>

Acquiring == {"exists", "forcing", "write", "writing"}
Serving   == {"building", "trading", "stopping", "releasing", "exiting"}
Alive(p)  == pc[p] \in {"starting"} \cup Acquiring \cup Serving
Live      == {"on", "cancelled", "deaf"}
Lives(p)  == \E r \in Tasks : task[p][r] \in Live
Trades(p) == \E r \in Tasks \ {Allocator} : task[p][r] \in Live

Init ==
  /\ file = None
  /\ pc = [p \in Processes |-> "new"]
  /\ pid = [p \in Processes |-> None]
  /\ found = [p \in Processes |-> None]
  /\ task = [p \in Processes |-> [r \in Tasks |-> "off"]]
  /\ outcome = [p \in Processes |-> "open"]
  /\ overlap = FALSE /\ orphaned = {} /\ early = FALSE /\ refused = {}

-----------------------------------------------------------------------------
(* acquire. *)

Start(p, k) ==
  /\ pc[p] = "new"
  /\ \A q \in Processes : Alive(q) => pid[q] # k
  /\ pc' = [pc EXCEPT ![p] = "starting"]
  /\ pid' = [pid EXCEPT ![p] = k]
  /\ UNCHANGED <<file, found, task, outcome, history>>

Goes(p, l) == pc' = [pc EXCEPT ![p] = l]

Exists(p) ==
  /\ pc[p] = "starting"
  /\ Goes(p, IF file = None THEN "write" ELSE "exists")
  /\ overlap' = (overlap \/ \E q \in Processes : pc[q] \in Acquiring)
  /\ UNCHANGED <<file, pid, found, task, outcome, orphaned, early, refused>>

\* Mutant: no process is ever found alive.
NeverAlive(k) == FALSE

PidIsAlive(k) == \E q \in Processes : Alive(q) /\ pid[q] = k

\* The file vanished since exists(): read_text() raises, which main() does not catch.
Vanished(p) ==
  /\ pc[p] = "exists" /\ file = None
  /\ Goes(p, "dead")
  /\ UNCHANGED <<file, pid, found, task, outcome, history>>

\* A stale or half-written file is overwritten.
ReadStale(p) ==
  /\ pc[p] = "exists" /\ file # None
  /\ file = "torn" \/ ~PidIsAlive(file)
  /\ Goes(p, "write")
  /\ UNCHANGED <<file, pid, found, task, outcome, history>>

Refuse(p) ==
  /\ pc[p] = "exists" /\ file \in Pids /\ PidIsAlive(file)
  /\ Goes(p, "dead")
  /\ refused' = IF \E q \in Processes \ {p} : pc[q] \in Acquiring \cup Serving
                  THEN refused ELSE refused \cup {file}
  /\ UNCHANGED <<file, pid, found, task, outcome, overlap, orphaned, early>>

\* --force.
Force(p) ==
  /\ pc[p] = "exists" /\ file \in Pids /\ PidIsAlive(file)
  /\ Goes(p, "forcing")
  /\ found' = [found EXCEPT ![p] = file]
  /\ UNCHANGED <<file, pid, task, outcome, history>>

Stopped(p) == [task EXCEPT ![p] = [r \in Tasks |-> "off"]]

\* os.kill(pid, 9) on whoever has the pid now, which may be the caller itself.
Victim(p, q) == Alive(q) /\ pid[q] = found[p]

Kill(p) ==
  /\ pc[p] = "forcing"
  /\ IF \E q \in Processes : Victim(p, q)
       THEN \E q \in Processes :
              /\ Victim(p, q)
              /\ pc' = [pc EXCEPT ![p] = "write", ![q] = "dead"]
              /\ task' = Stopped(q)
              /\ orphaned' = orphaned \cup {pid[q]}
       ELSE Goes(p, "write") /\ UNCHANGED <<task, orphaned>>
  /\ found' = [found EXCEPT ![p] = None]
  /\ UNCHANGED <<file, pid, outcome, overlap, early, refused>>

\* write_text() opens the file, which empties it, and then writes.
Truncate(p) ==
  /\ pc[p] = "write"
  /\ Goes(p, "writing")
  /\ file' = "torn"
  /\ UNCHANGED <<pid, found, task, outcome, history>>

Write(p) ==
  /\ pc[p] = "writing"
  /\ Goes(p, "building")
  /\ file' = pid[p]
  /\ UNCHANGED <<pid, found, task, outcome, history>>

-----------------------------------------------------------------------------
(* The rest of main. *)

\* No runner could be built: main() returns without a release().
BuildFails(p) ==
  /\ pc[p] = "building"
  /\ Goes(p, "dead")
  /\ orphaned' = orphaned \cup {pid[p]}
  /\ UNCHANGED <<file, pid, found, task, outcome, overlap, early, refused>>

BuildRunners(p) ==
  /\ pc[p] = "building"
  /\ Goes(p, "trading")
  /\ task' = [task EXCEPT ![p] = [r \in Tasks |-> "on"]]
  /\ UNCHANGED <<file, pid, found, outcome, history>>

Ends(p, r, o) ==
  /\ task' = [task EXCEPT ![p][r] = "off"]
  /\ outcome' = [outcome EXCEPT ![p] = IF @ = "open" THEN o ELSE @]

\* A runner ends with an error: gather() raises it and leaves the others running.
RunnerFails(p, r) ==
  /\ pc[p] \in Serving /\ task[p][r] \in Live
  /\ Ends(p, r, "raised")
  /\ UNCHANGED <<file, pc, pid, found, history>>

CancelAll(p) ==
  [task EXCEPT ![p] = [r \in Tasks |-> IF @[r] \in Live THEN "cancelled" ELSE @[r]]]

\* A signal, the hard timeout, the end of the API server or of runner_task.
Wake(p) ==
  /\ pc[p] = "trading"
  /\ IF outcome[p] # "open"
       THEN Goes(p, "releasing") /\ UNCHANGED task
       ELSE Goes(p, "stopping") /\ task' = CancelAll(p)
  /\ UNCHANGED <<file, pid, found, outcome, history>>

\* The cancellation reaches a task.  It returns; or get_bar(), or the wait for the
\* daily cycle, swallows it and the task goes on; or it is raised, and gather() with it.
Cancelled(p, r) ==
  /\ pc[p] \in Serving /\ task[p][r] = "cancelled"
  /\ \/ Ends(p, r, "open")
     \/ task' = [task EXCEPT ![p][r] = "deaf"] /\ UNCHANGED outcome
     \/ Ends(p, r, "done")
  /\ UNCHANGED <<file, pc, pid, found, history>>

\* Mutant: main() goes on only when a task has raised its cancellation.
OnlyRaised(p) == outcome[p] = "done"

RunnersEnded(p) == outcome[p] = "done" \/ (outcome[p] = "open" /\ ~Lives(p))

\* `await runner_task` returns.
Joined(p) ==
  /\ pc[p] = "stopping" /\ RunnersEnded(p)
  /\ Goes(p, "releasing")
  /\ UNCHANGED <<file, pid, found, task, outcome, history>>

\* It raises a runner's error: main() ends without a release(), and asyncio.run()
\* cancels what is left.
Raised(p) ==
  /\ pc[p] = "stopping" /\ outcome[p] = "raised"
  /\ Goes(p, "exiting")
  /\ task' = CancelAll(p)
  /\ orphaned' = orphaned \cup {pid[p]}
  /\ UNCHANGED <<file, pid, found, outcome, overlap, early, refused>>

AfterUnlink(p) == None

\* release() removes the file whoever it names; asyncio.run() then cancels what is left.
Release(p) ==
  /\ pc[p] = "releasing"
  /\ Goes(p, "exiting")
  /\ file' = AfterUnlink(p)
  /\ early' = (early \/ (Trades(p) /\ outcome[p] # "open"))
  /\ task' = CancelAll(p)
  /\ UNCHANGED <<pid, found, outcome, overlap, orphaned, refused>>

Exit(p) ==
  /\ pc[p] = "exiting" /\ ~Lives(p)
  /\ Goes(p, "dead")
  /\ UNCHANGED <<file, pid, found, task, outcome, history>>

Crash(p) ==
  /\ Alive(p)
  /\ Goes(p, "dead")
  /\ task' = Stopped(p)
  /\ found' = [found EXCEPT ![p] = None]
  /\ orphaned' = orphaned \cup {pid[p]}
  /\ UNCHANGED <<file, pid, outcome, overlap, early, refused>>

-----------------------------------------------------------------------------
Runs(p) ==
  \/ Exists(p) \/ Vanished(p) \/ ReadStale(p) \/ Refuse(p) \/ Force(p) \/ Kill(p)
  \/ Truncate(p) \/ Write(p) \/ BuildFails(p) \/ BuildRunners(p)
  \/ Joined(p) \/ Raised(p) \/ Release(p) \/ Exit(p)
  \/ \E r \in Tasks : Cancelled(p, r)

Next ==
  \E p \in Processes :
    \/ \E k \in Pids : Start(p, k)
    \/ Runs(p)
    \/ \E r \in Tasks \ {Allocator} : RunnerFails(p, r)
    \/ Wake(p)
    \/ Crash(p)

Spec == Init /\ [][Next]_vars

\* The operating system runs every process, and its event loop what is ready.
Fairness == \A p \in Processes : WF_vars(Runs(p))

FairSpec == Spec /\ Fairness

TypeOK ==
  /\ file \in Pids \cup {"torn", None}
  /\ pc \in [Processes -> {"new", "starting", "dead"} \cup Acquiring \cup Serving]
  /\ pid \in [Processes -> Pids \cup {None}]
  /\ found \in [Processes -> Pids \cup {None}]
  /\ task \in [Processes -> [Tasks -> {"off"} \cup Live]]
  /\ outcome \in [Processes -> {"open", "done", "raised"}]
  /\ orphaned \subseteq Pids /\ refused \subseteq Pids
  /\ overlap \in BOOLEAN /\ early \in BOOLEAN

\* SingletonLock ("prevents duplicate live runner processes"): two processes trade at
\* once only after two acquire() calls overlapped, or after main() released the lock
\* over runner tasks that still lived because one of them had failed.
OneTrader ==
  ~overlap /\ ~early => Cardinality({p \in Processes : Trades(p)}) <= 1

\* A start is refused with nobody running only for a pid that died without a release
\* and has been given out again, possibly to the process that asks.
RefusalIsEarned == refused \subseteq orphaned

\* A shutdown ends the process, unless a runner swallows its cancellation.
StopEnds ==
  \A p \in Processes :
    pc[p] = "stopping" ~> pc[p] = "dead" \/ \E r \in Tasks : task[p][r] = "deaf"
=============================================================================
