---------------------------- MODULE BacktestJobs ----------------------------
(***************************************************************************)
(* The job store of api/backtest.py: the dictionary _JOBS, its SQLite      *)
(* table, and the threads that run the jobs.                               *)
(*                                                                         *)
(* Requests are handled on the event loop without an await; a worker       *)
(* thread runs beside them and holds the dictionary of its job, deleted or *)
(* not.  A statement and its commit are one step; a step on the table may  *)
(* fail.  A restart ends the threads and loads the table.                  *)
(***************************************************************************)
EXTENDS Naturals, FiniteSets

CONSTANTS
  Jobs,      \* 1 .. n in the order of created_at
  MaxJobs,   \* _MAX_JOBS, also the LIMIT of the load
  Batch,     \* how many are evicted at a time
  None

VARIABLES
  jobs,     \* _JOBS: status of a job, or None
  disk,     \* status in table jobs, or None
  worker,   \* _run_backtest_job: "off", "task", "began", "busy", "ended"
  made,     \* number of jobs created
  deleted,  \* history: by a request
  evicted,  \* history: for a newer job
  undead,   \* history: removed while their worker was at work, or kept by the table
  stranded, \* history: left unfinished by a restart or an error of the table
  swamped   \* history: a job was accepted though too few could be evicted

history == <<deleted, evicted, undead, stranded, swamped>>
vars == <<jobs, disk, worker, made, history>>

Active  == {"queued", "running"}
Settled == {"done", "error"}
Stored  == {j \in Jobs : jobs[j] # None}

Init ==
  /\ jobs = [j \in Jobs |-> None] /\ disk = [j \in Jobs |-> None]
  /\ worker = [j \in Jobs |-> "off"] /\ made = 0
  /\ deleted = {} /\ evicted = {} /\ undead = {} /\ stranded = {} /\ swamped = FALSE

AtWork(j)    == worker[j] \in {"began", "busy", "ended"}
Oldest(S, n) == {j \in S : Cardinality({k \in S : k < j}) < n}
Newest(S, n) == {j \in S : Cardinality({k \in S : k > j}) < n}
Less(f, S)   == [j \in Jobs |-> IF j \in S THEN None ELSE f[j]]

-----------------------------------------------------------------------------
(* POST /run. *)

\* Mutant: the oldest jobs are evicted whatever their status.
EvictableAny == Stored

Evictable == {j \in Stored : jobs[j] \in Settled}

Evicted ==
  IF Cardinality(Stored) >= MaxJobs THEN Oldest(Evictable, Batch) ELSE {}

\* saved: the new job's row was written; without it the request fails after the job
\* was stored, and nothing runs it.
Run(saved) ==
  LET j == made + 1 IN
  /\ j \in Jobs
  /\ made' = j
  /\ jobs' = [Less(jobs, Evicted) EXCEPT ![j] = "queued"]
  /\ disk' = [Less(disk, Evicted) EXCEPT ![j] = IF saved THEN "queued" ELSE None]
  /\ worker' = [worker EXCEPT ![j] = IF saved THEN "task" ELSE "off"]
  /\ evicted' = evicted \cup Evicted
  /\ stranded' = IF saved THEN stranded ELSE stranded \cup {j}
  /\ undead' = undead \cup {e \in Evicted : AtWork(e)}
  /\ swamped' = (swamped \/ Cardinality(Stored \ Evicted) >= MaxJobs)
  /\ UNCHANGED deleted

-----------------------------------------------------------------------------
(* _run_backtest_job. *)

Goes(j, l) == worker' = [worker EXCEPT ![j] = l]

\* The dictionary the worker holds is still in _JOBS, or only the worker's own.
Marks(j, s) == jobs' = IF jobs[j] = None THEN jobs ELSE [jobs EXCEPT ![j] = s]

\* Mutant: a job that was deleted while it was queued is run all the same.
BeginAlways(j) ==
  /\ Goes(j, "began") /\ Marks(j, "running")

\* A job deleted meanwhile is not run.
BeginOrSkip(j) ==
  IF jobs[j] = None THEN Goes(j, "off") /\ UNCHANGED jobs
  ELSE Goes(j, "began") /\ Marks(j, "running")

Begin(j) ==
  /\ worker[j] = "task"
  /\ BeginOrSkip(j)
  /\ UNCHANGED <<disk, made, history>>

\* INSERT OR REPLACE, whether the row was deleted meanwhile or not.
Persist(j, s) == disk' = [disk EXCEPT ![j] = s]

\* The first save is outside the try: its error leaves the job running for good.
SaveRunning(j, saved) ==
  /\ worker[j] = "began"
  /\ IF saved THEN Persist(j, "running") /\ Goes(j, "busy") /\ UNCHANGED stranded
     ELSE Goes(j, "off") /\ stranded' = stranded \cup {j} /\ UNCHANGED disk
  /\ UNCHANGED <<jobs, made, deleted, evicted, undead, swamped>>

\* The engine raised, or it returned: `trades_df or DataFrame()` raises for any frame,
\* so that the except branch ends every job.
Finish(j) ==
  /\ worker[j] = "busy"
  /\ Goes(j, "ended") /\ Marks(j, "error")
  /\ UNCHANGED <<disk, made, history>>

SaveEnd(j, saved) ==
  /\ worker[j] = "ended"
  /\ IF saved THEN Persist(j, "error") ELSE UNCHANGED disk
  /\ Goes(j, "off")
  /\ UNCHANGED <<jobs, made, history>>

-----------------------------------------------------------------------------
(* DELETE /jobs/{job_id}; the load at import. *)

\* An error of the table is swallowed.
Delete(j, saved) ==
  /\ jobs[j] # None
  /\ jobs' = Less(jobs, {j})
  /\ disk' = IF saved THEN Less(disk, {j}) ELSE disk
  /\ deleted' = deleted \cup {j}
  /\ undead' = IF AtWork(j) \/ ~saved THEN undead \cup {j} ELSE undead
  /\ UNCHANGED <<worker, made, evicted, stranded, swamped>>

Restart ==
  LET rows == Newest({j \in Jobs : disk[j] # None}, MaxJobs) IN
  /\ jobs' = [j \in Jobs |-> IF j \in rows THEN disk[j] ELSE None]
  /\ worker' = [j \in Jobs |-> "off"]
  /\ stranded' = stranded \cup {j \in rows : disk[j] \in Active}
  /\ UNCHANGED <<disk, made, deleted, evicted, undead, swamped>>

-----------------------------------------------------------------------------
Next ==
  \/ \E saved \in BOOLEAN :
       \/ Run(saved)
       \/ \E j \in Jobs : SaveRunning(j, saved) \/ SaveEnd(j, saved) \/ Delete(j, saved)
  \/ \E j \in Jobs : Begin(j) \/ Finish(j)
  \/ Restart

Spec == Init /\ [][Next]_vars

TypeOK ==
  /\ jobs \in [Jobs -> Active \cup Settled \cup {None}]
  /\ disk \in [Jobs -> Active \cup Settled \cup {None}]
  /\ worker \in [Jobs -> {"off", "task", "began", "busy", "ended"}]
  /\ deleted \subseteq Jobs /\ evicted \subseteq Jobs
  /\ undead \subseteq deleted \cup evicted /\ stranded \subseteq Jobs

\* FIX-3 ("never queued/running"): a job that waits or runs stays in the store, within
\* its bound, until it is deleted; and a job shown as waiting or running has a worker,
\* except after a restart or an error of the table.
JobsAreServed ==
  /\ \A j \in Jobs :
       worker[j] \in {"task", "began", "busy"} /\ j \notin deleted => jobs[j] # None
  /\ \A j \in Jobs : jobs[j] \in Active => worker[j] # "off" \/ j \in stranded
  /\ ~swamped => Cardinality(Stored) <= MaxJobs

\* A job that was deleted or evicted comes back, also after restarts, only if its worker
\* was at work on it or the table kept its row.
RemovedStaysRemoved ==
  \A j \in (deleted \cup evicted) \ undead : jobs[j] = None /\ disk[j] = None
=============================================================================
