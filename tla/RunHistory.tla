----------------------------- MODULE RunHistory -----------------------------
(***************************************************************************)
(* The tables `runs` and `job_states` (fluxion-core/store.rs) between the  *)
(* processes that share them: the drivers of runs, `runs prune`, the       *)
(* readers of `status`, `logs`, the MCP tools and the API's pages, and     *)
(* retries, which read what they keep.                                     *)
(*                                                                         *)
(* A statement of SQL is atomic; nothing that takes two of them is: prune  *)
(* deletes from one table and then the other, a reader reads a row of runs *)
(* and then its jobs.  What a driver writes is what Scheduler says of it,  *)
(* reduced to the order of its writes.                                     *)
(***************************************************************************)
EXTENDS Integers, FiniteSets

CONSTANTS
  Runs, Jobs,
  Readers,
  Limit,     \* list_runs: how many
  Keep,      \* prune: `--before`, in ticks of the clock
  MaxTime    \* bound of the clock

ASSUME HistoryAssumption ==
  /\ IsFiniteSet(Runs)
  /\ Limit \in Nat /\ Keep \in Nat /\ MaxTime \in Nat

VARIABLES
  clock,   \* in seconds
  runs,    \* the table runs: status and started_at, if there is a row
  states,  \* the table job_states
  driver,  \* what became of each run's process
  left,    \* history: the last thing each driver has written of each job
  began,   \* history: when it created its run
  overlong, \* history: the runs that wrote a job's row past the age prune spares
  prune,   \* where `runs prune` is, and its cutoff
  view     \* what each reader has read, and when

store == <<runs, states>>
past  == <<left, began, overlong>>
vars  == <<clock, store, driver, past, prune, view>>

\* A skipped job ends like one that succeeded.
Final  == {"succeeded", "failed"}
Status == {"none", "running"} \cup Final

Absent == [status |-> "none", started |-> 0]
NoJobs == [j \in Jobs |-> "none"]
Closed == [phase |-> "closed", run |-> "none", status |-> "none",
           jobs |-> NoJobs, old |-> FALSE]

Present(r) == runs[r] # Absent
Age(r) == clock - began[r]

Init ==
  /\ clock = 0
  /\ runs = [r \in Runs |-> Absent] /\ states = [r \in Runs |-> NoJobs]
  /\ driver = [r \in Runs |-> "new"]
  /\ left = [r \in Runs |-> NoJobs] /\ began = [r \in Runs |-> 0] /\ overlong = {}
  /\ prune = [phase |-> "idle", cutoff |-> 0]
  /\ view = [x \in Readers |-> Closed]

Tick ==
  /\ clock < MaxTime /\ clock' = clock + 1
  /\ UNCHANGED <<store, driver, past, prune, view>>

-----------------------------------------------------------------------------
(* The drivers                                                             *)

CreateRun(r) ==
  /\ driver[r] = "new"
  /\ driver' = [driver EXCEPT ![r] = "running"]
  /\ runs' = [runs EXCEPT ![r] = [status |-> "running", started |-> clock]]
  /\ began' = [began EXCEPT ![r] = clock]
  /\ UNCHANGED <<clock, states, left, overlong, prune, view>>

\* An upsert: it does not ask whether the run still has a row.
UpsertJob(r, j, s) ==
  /\ driver[r] = "running"
  /\ \/ left[r][j] = "none" /\ s = "running"
     \/ left[r][j] = "running" /\ s \in {"succeeded", "failed"}
  /\ states' = [states EXCEPT ![r][j] = s]
  /\ left' = [left EXCEPT ![r][j] = s]
  /\ overlong' = IF Age(r) > Keep THEN overlong \cup {r} ELSE overlong
  /\ UNCHANGED <<clock, runs, driver, began, prune, view>>

\* Faulty variant: the outcome is written before the loop has drained.
CompleteRunEarly(r) ==
  /\ driver[r] = "running"
  /\ driver' = [driver EXCEPT ![r] = IF \A j \in Jobs : left[r][j] \in Final THEN "ended" ELSE @]
  /\ runs' = IF Present(r) THEN [runs EXCEPT ![r].status = "succeeded"] ELSE runs
  /\ UNCHANGED <<clock, states, past, prune, view>>

\* The loop stops at a failure or when all jobs are done; no row, no effect.
CompleteRun(r) ==
  /\ driver[r] = "running"
  /\ \/ \E j \in Jobs : left[r][j] = "failed"
     \/ \A j \in Jobs : left[r][j] = "succeeded"
  /\ driver' = [driver EXCEPT ![r] = "ended"]
  /\ runs' = IF ~Present(r) THEN runs
             ELSE [runs EXCEPT ![r].status =
                     IF \E j \in Jobs : left[r][j] = "failed" THEN "failed" ELSE "succeeded"]
  /\ UNCHANGED <<clock, states, past, prune, view>>

\* A store error, or the end of the process: the row stays as it is.
Dies(r) ==
  /\ driver[r] = "running"
  /\ driver' = [driver EXCEPT ![r] = "dead"]
  /\ UNCHANGED <<clock, store, past, prune, view>>

-----------------------------------------------------------------------------
(* prune                                                                   *)

\* Faulty variant: started_at <= cutoff.
BeforeOrAt(r, cutoff) == Present(r) /\ runs[r].started <= cutoff

\* started_at < cutoff
Before(r, cutoff) == Present(r) /\ runs[r].started < cutoff

\* Faulty variant: only the jobs of runs that were completed.
PruneJobsOfEnded ==
  /\ prune.phase = "idle"
  /\ prune' = [phase |-> "jobs", cutoff |-> IF clock > Keep THEN clock - Keep ELSE 0]
  /\ states' = [r \in Runs |-> IF Before(r, prune'.cutoff) /\ runs[r].status # "running"
                               THEN NoJobs ELSE states[r]]
  /\ UNCHANGED <<clock, runs, driver, past, view>>

\* DELETE FROM job_states, with a cutoff that saturates at zero.
PruneJobs ==
  /\ prune.phase = "idle"
  /\ prune' = [phase |-> "jobs", cutoff |-> IF clock > Keep THEN clock - Keep ELSE 0]
  /\ states' = [r \in Runs |-> IF Before(r, prune'.cutoff) THEN NoJobs ELSE states[r]]
  /\ UNCHANGED <<clock, runs, driver, past, view>>

\* DELETE FROM runs, with the same cutoff.
PruneRuns ==
  /\ prune.phase = "jobs"
  /\ prune' = [prune EXCEPT !.phase = "idle"]
  /\ runs' = [r \in Runs |-> IF Before(r, prune.cutoff) THEN Absent ELSE runs[r]]
  /\ UNCHANGED <<clock, states, driver, past, view>>

\* The process ends, or the second statement fails.
PruneDies ==
  /\ prune.phase = "jobs"
  /\ prune' = [prune EXCEPT !.phase = "idle"]
  /\ UNCHANGED <<clock, store, driver, past, view>>

-----------------------------------------------------------------------------
(* Readers                                                                 *)

Seen(r) == [Closed EXCEPT !.run = r, !.status = runs[r].status]

\* get_run: the row, or "not found".
GetRun(x, r) ==
  /\ view[x].phase = "closed" /\ Present(r)
  /\ view' = [view EXCEPT ![x] = [Seen(r) EXCEPT !.phase = "row"]]
  /\ UNCHANGED <<clock, store, driver, past, prune>>

\* load_run, of which `retry` first keeps the path only.
LoadPath(x, r) ==
  /\ view[x].phase = "closed" /\ Present(r)
  /\ view' = [view EXCEPT ![x] = [Closed EXCEPT !.phase = "path", !.run = r]]
  /\ UNCHANGED <<clock, store, driver, past, prune>>

\* load_run once more, up to its second statement.
LoadRun(x) ==
  /\ view[x].phase = "path"
  /\ view' = [view EXCEPT ![x] = IF Present(@.run) THEN [Seen(@.run) EXCEPT !.phase = "loaded"]
                                 ELSE Closed]
  /\ UNCHANGED <<clock, store, driver, past, prune>>

\* list_runs: a row of the list; what it says stays there until a click.
ListRuns(x, r) ==
  /\ view[x].phase = "closed" /\ Present(r)
  /\ Cardinality({q \in Runs : Present(q) /\ runs[q].started > runs[r].started}) < Limit
  /\ view' = [view EXCEPT ![x] = [Seen(r) EXCEPT !.phase = "listed"]]
  /\ UNCHANGED <<clock, store, driver, past, prune>>

\* get_run_jobs, or the second statement of load_run.
GetRunJobs(x, at, then) ==
  /\ view[x].phase = at
  /\ view' = [view EXCEPT ![x].phase = then,
                          ![x].jobs = states[view[x].run],
                          ![x].old = Age(view[x].run) > Keep]
  /\ UNCHANGED <<clock, store, driver, past, prune>>

Close(x) ==
  /\ view[x].phase \in {"shown", "page"}
  /\ view' = [view EXCEPT ![x] = Closed]
  /\ UNCHANGED <<clock, store, driver, past, prune>>

\* `status` and `logs`: the row, then its jobs.
StatusReads(x) == (\E r \in Runs : GetRun(x, r)) \/ GetRunJobs(x, "row", "shown")

RetryReads(x) ==
  (\E r \in Runs : LoadPath(x, r)) \/ LoadRun(x) \/ GetRunJobs(x, "loaded", "shown")

\* The MCP tools do what the commands do, and list the runs.
Tool(x) == StatusReads(x) \/ RetryReads(x) \/ \E r \in Runs : ListRuns(x, r)

\* The page of a run asked for from the list, which asks again by itself.
Page(x) == GetRunJobs(x, "listed", "page") \/ GetRunJobs(x, "page", "page")

-----------------------------------------------------------------------------

Next ==
  \/ Tick \/ PruneJobs \/ PruneRuns \/ PruneDies
  \/ \E r \in Runs : \/ CreateRun(r) \/ CompleteRun(r) \/ Dies(r)
                     \/ \E j \in Jobs, s \in Status : UpsertJob(r, j, s)
  \/ \E x \in Readers : Tool(x) \/ Page(x) \/ Close(x)

Spec == Init /\ [][Next]_vars

-----------------------------------------------------------------------------
(* Properties                                                              *)

\* The type invariant.
TypeOK ==
  /\ clock \in 0 .. MaxTime
  /\ runs \in [Runs -> [status : Status, started : 0 .. clock]]
  /\ states \in [Runs -> [Jobs -> Status]]
  /\ driver \in [Runs -> {"new", "running", "ended", "dead"}]
  /\ left \in [Runs -> [Jobs -> Status]] /\ began \in [Runs -> 0 .. clock] /\ overlong \subseteq Runs
  /\ prune \in [phase : {"idle", "jobs"}, cutoff : Nat]
  /\ view \in [Readers -> [phase : {"closed", "path", "row", "loaded", "listed", "shown", "page"},
                           run : Runs \cup {"none"},
                           status : Status, jobs : [Jobs -> Status], old : BOOLEAN]]

(***************************************************************************)
(* Whatever a driver has written of a run that is not older than prune     *)
(* spares is there for everybody who reads it, and the outcome of a run    *)
(* that was completed; half a prune and the prune after it included.       *)
(***************************************************************************)
YoungRunsKept ==
  \A r \in Runs : driver[r] # "new" /\ Age(r) <= Keep =>
    /\ Present(r) /\ states[r] = left[r]
    /\ driver[r] = "ended" => runs[r].status # "running"

(***************************************************************************)
(* Who was told that a run is over was then shown what its driver left of  *)
(* every job, although row and jobs are read one after the other, unless   *)
(* the run had grown too old by the second reading.  A retry takes over    *)
(* what it is shown.                                                       *)
(***************************************************************************)
ViewsWhole ==
  \A x \in Readers :
    view[x].phase \in {"shown", "page"} /\ view[x].status # "running" /\ ~view[x].old
      => view[x].jobs = left[view[x].run]

(***************************************************************************)
(* "Delete orphaned job_states first": job rows without their run are left *)
(* only by a run that still wrote them when it was old enough to go.       *)
(***************************************************************************)
OrphansOnlyOverlong ==
  \A r \in Runs : ~Present(r) /\ states[r] # NoJobs => r \in overlong
=============================================================================
