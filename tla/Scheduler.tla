----------------------------- MODULE Scheduler ------------------------------
(***************************************************************************)
(* The execution engine of fluxion-host/src/scheduler.rs: one process that *)
(* drives a run of a workflow (run_inner, retry_inner, execute), the tokio *)
(* tasks it spawns (launch), the unbounded channel their events come back  *)
(* on, and the rows it leaves in the SQLite run store, from which a later  *)
(* `retry` picks what it keeps.                                            *)
(*                                                                         *)
(* The driver is sequential; its loops are unfolded to one action per      *)
(* iteration, so that a store error or the death of the process can fall   *)
(* between any two store writes.  The order in which a loop visits jobs is *)
(* left open: the code iterates hash maps.                                 *)
(***************************************************************************)
EXTENDS Workflow, Integers, Sequences, FiniteSets

CONSTANTS
  MaxParallel,  \* permits of the run's semaphore (max_parallel)
  MaxAttempts,  \* bound: runs of the workflow, the first one included
  Preflight,    \* YAML jobs with an oci_ref or a component_sha256 to check
  Pulled,       \* those of them with an oci_ref
  LeastConn     \* whether the strategy asks the workers how busy they are

ASSUME SchedulerAssumption ==
  /\ MaxParallel \in Nat
  /\ MaxAttempts \in Nat \ {0}
  /\ Pulled \subseteq Preflight /\ Preflight \subseteq YamlJobs
  /\ LeastConn \in BOOLEAN

VARIABLES
  attempt,    \* which run this is: 1, or more for a retry of the run before
  from,       \* the job the run was retried from, <<>> for a fresh run
  pre,        \* pre_succeeded: jobs kept from the previous run
  runRow,     \* the run's row in `runs`: its status column
  row,        \* the run's rows in `job_states`: "none" until the first upsert
  pc,         \* where the driver is
  todo,       \* what is left of the loop the driver is in
  queue,      \* cascade_queue
  below,      \* the dependents of the skipped job the cascade is at, still to visit
  status,     \* statuses
  inFlight,   \* in_flight
  ok,         \* overall_success
  outputs,    \* the keys of job_outputs
  results,    \* how many JobResults of each job job_results holds
  waiting,    \* spawned tasks that wait for a permit
  executing,  \* spawned tasks that hold a permit
  channel,    \* events sent and not yet received
  gauge,      \* the ACTIVE_JOBS metric
  launched,   \* history: calls of launch for each job in this run
  fanin       \* history: the children whose output a fan-in job was given

plan  == <<attempt, from, pre>>
store == <<runRow, row>>
loop  == <<pc, todo, queue, below>>
book  == <<status, inFlight, ok, outputs, results>>
pool  == <<waiting, executing, channel, gauge>>
hist  == <<launched, fanin>>
vars  == <<plan, store, loop, book, pool, hist>>

JobStatus == {"pending", "running", "succeeded", "failed", "cancelled", "skipped"}
RowStatus == {"none"} \cup JobStatus
DriverPc  == {"create", "seed", "roots", "ready", "recv", "visit", "cascade",
              "complete", "done", "aborted", "crashed"}

Ended  == {"done", "aborted", "crashed"}
Active == DriverPc \ Ended

\* A spawned task: the run that spawned it, its job, the how-many-th launch of it.
Task(j) == [run |-> attempt, job |-> j, nth |-> launched[j] + 1]

-----------------------------------------------------------------------------
(* Faulty variants of definitions below, to test the properties with       *)

AnyDone(j) == \E d \in Deps[j] : status[d] \in {"succeeded", "skipped", "cancelled"}
SkipWithoutWhen(j) == \E d \in Deps[j] : status[d] = "skipped"
ToVisitKeptToo(j) == Dependents(j)
RecordReady(j, s) ==
  /\ row' = [row EXCEPT ![j] = IF s = "running" THEN "ready" ELSE s]
  /\ status' = [status EXCEPT ![j] = s]
-----------------------------------------------------------------------------
(* What the driver reads to decide                                         *)

AllDone(j) == \A d \in Deps[j] : status[d] \in {"succeeded", "skipped", "cancelled"}

StatusName(n) ==
  IF n \notin Jobs THEN "UNKNOWN"
  ELSE CASE status[n] = "succeeded" -> "SUCCESS"
         [] status[n] = "failed"    -> "FAILED"
         [] status[n] = "skipped"   -> "SKIPPED"
         [] OTHER                   -> "UNKNOWN"

EvalWhen(j) == (StatusName(When[j[1]].on) = When[j[1]].value) = When[j[1]].equal

AnyDepSkipped(j) == \E d \in Deps[j] : status[d] = "skipped"

ShouldSkip(j)  == IF HasWhen(j) THEN ~EvalWhen(j) ELSE AnyDepSkipped(j)
CascadeSkip(j) == IF HasWhen(j) THEN ~EvalWhen(j) ELSE TRUE

\* Jobs whose dependencies all come from the previous run.
ReadyJobs == {j \in Jobs \ (Roots \cup pre) : Deps[j] \subseteq pre}

\* The dependents a finished or skipped job gives occasion to look at.
ToVisit(j) == Dependents(j) \ pre

\* What complete_run writes.
RunOutcome == IF ok THEN "succeeded" ELSE "failed"

\* build_fanin_input: what the outputs that are there contribute, however they are
\* reduced; null or nothing stands for the others.
FanInInput(j) == Sources(j) \cap outputs

PermitFree(r) == Cardinality({u \in executing : u.run = r}) < MaxParallel

-----------------------------------------------------------------------------
(* Pieces of the driver's steps                                            *)

\* store.upsert_job and statuses.insert, which the code always does together.
Record(j, s) ==
  /\ row' = [row EXCEPT ![j] = s]
  /\ status' = [status EXCEPT ![j] = s]

\* Faulty variant: in_flight forgotten.
LaunchUncounted(j) ==
  /\ Record(j, "running")
  /\ waiting' = waiting \cup {Task(j)}
  /\ gauge' = gauge + 1
  /\ launched' = [launched EXCEPT ![j] = @ + 1]
  /\ fanin' = [fanin EXCEPT ![j] = FanInInput(j)]
  /\ UNCHANGED <<plan, runRow, inFlight, ok, outputs, results, executing, channel>>

\* upsert(Running), resolve_workers, build_fanin_input, launch, in_flight += 1.
Launch(j) ==
  /\ Record(j, "running")
  /\ waiting' = waiting \cup {Task(j)}
  /\ gauge' = gauge + 1
  /\ inFlight' = inFlight + 1
  /\ launched' = [launched EXCEPT ![j] = @ + 1]
  /\ fanin' = [fanin EXCEPT ![j] = FanInInput(j)]
  /\ UNCHANGED <<plan, runRow, ok, outputs, results, executing, channel>>

\* upsert(Skipped) and JobResult::from_skipped.
Skip(j) ==
  /\ Record(j, "skipped")
  /\ results' = [results EXCEPT ![j] = @ + 1]
  /\ UNCHANGED <<plan, runRow, inFlight, ok, outputs, pool, hist>>

Goto(l, jobs) ==
  /\ pc' = l
  /\ todo' = jobs
  /\ UNCHANGED <<queue, below>>

Drop(j) ==
  /\ todo' = todo \ {j}
  /\ UNCHANGED <<pc, queue, below>>

-----------------------------------------------------------------------------
(* run_inner, up to the main loop of execute                               *)

Init ==
  /\ attempt = 1 /\ from = <<>> /\ pre = {}
  /\ runRow = "none" /\ row = [j \in Jobs |-> "none"]
  /\ pc = "create" /\ todo = {} /\ queue = <<>> /\ below = {}
  /\ status = [j \in Jobs |-> "pending"]
  /\ inFlight = 0 /\ ok = TRUE /\ outputs = {}
  /\ results = [j \in Jobs |-> 0]
  /\ waiting = {} /\ executing = {} /\ channel = <<>> /\ gauge = 0
  /\ launched = [j \in Jobs |-> 0]
  /\ fanin = [j \in Jobs |-> {}]

CreateRun ==
  /\ pc = "create"
  /\ runRow' = "running"
  /\ Goto("seed", pre)
  /\ UNCHANGED <<plan, row, book, pool, hist>>

SeedPre(j) ==
  /\ pc = "seed" /\ j \in todo
  /\ Record(j, "succeeded")
  /\ results' = [results EXCEPT ![j] = @ + 1]
  /\ Drop(j)
  /\ UNCHANGED <<plan, runRow, inFlight, ok, outputs, pool, hist>>

SeedDone ==
  /\ pc = "seed" /\ todo = {}
  /\ Goto("roots", Roots \ pre)
  /\ UNCHANGED <<plan, store, book, pool, hist>>

LaunchRoot(j) ==
  /\ pc = "roots" /\ j \in todo
  /\ Launch(j)
  /\ Drop(j)

RootsDone ==
  /\ pc = "roots" /\ todo = {}
  /\ Goto("ready", ReadyJobs)
  /\ UNCHANGED <<plan, store, book, pool, hist>>

LaunchReady(j) ==
  /\ pc = "ready" /\ j \in todo
  /\ Launch(j)
  /\ Drop(j)

ReadyDone ==
  /\ pc = "ready" /\ todo = {}
  /\ Goto("recv", {})
  /\ UNCHANGED <<plan, store, book, pool, hist>>

-----------------------------------------------------------------------------
(* The main loop: `while in_flight > 0 { rx.recv() ... }`                  *)

ReceiveSucceeded ==
  /\ pc = "recv" /\ inFlight > 0 /\ channel # <<>>
  /\ LET e == Head(channel)
         j == e.task.job
     IN /\ e.succeeded
        /\ Record(j, "succeeded")
        /\ outputs' = outputs \cup {j}
        /\ results' = [results EXCEPT ![j] = @ + 1]
        /\ IF ok THEN Goto("visit", ToVisit(j)) ELSE UNCHANGED loop
  /\ inFlight' = inFlight - 1
  /\ gauge' = gauge - 1
  /\ channel' = Tail(channel)
  /\ UNCHANGED <<plan, runRow, ok, waiting, executing, hist>>

(***************************************************************************)
(* A failure stops the loop at once, unless the job is a foreach child     *)
(* whose parent is not seen to be fail_fast: then the loop drains.         *)
(***************************************************************************)
FailedSiblings(j) ==
  IF IsChild(j) /\ FailFastSeen(j[1])
  THEN {k \in Children(j[1]) \ {j} : status[k] = "pending"}
  ELSE {}

ReceiveFailed ==
  /\ pc = "recv" /\ inFlight > 0 /\ channel # <<>>
  /\ LET e == Head(channel)
         j == e.task.job
         Outcome(k, s) == IF k = j THEN "failed"
                          ELSE IF k \in FailedSiblings(j) THEN "cancelled" ELSE s
     IN /\ ~e.succeeded
        /\ row' = [k \in Jobs |-> Outcome(k, row[k])]
        /\ status' = [k \in Jobs |-> Outcome(k, status[k])]
        /\ results' = [results EXCEPT ![j] = @ + 1]
        /\ IF IsChild(j) /\ ~FailFastSeen(j[1]) THEN UNCHANGED loop ELSE Goto("complete", {})
  /\ ok' = FALSE
  /\ inFlight' = inFlight - 1
  /\ gauge' = gauge - 1
  /\ channel' = Tail(channel)
  /\ UNCHANGED <<plan, runRow, outputs, waiting, executing, hist>>

\* Faulty variant: `while in_flight > 1`.
LoopDoneEarly ==
  /\ pc = "recv" /\ inFlight <= 1
  /\ Goto("complete", {})
  /\ UNCHANGED <<plan, store, book, pool, hist>>

LoopDone ==
  /\ pc = "recv" /\ inFlight = 0
  /\ Goto("complete", {})
  /\ UNCHANGED <<plan, store, book, pool, hist>>

\* `for dep in dag.dependents.get(&event.job_id)`
PassOver(d) ==
  /\ pc = "visit" /\ d \in todo
  /\ ~AllDone(d)
  /\ Drop(d)
  /\ UNCHANGED <<plan, store, book, pool, hist>>

LaunchDependent(d) ==
  /\ pc = "visit" /\ d \in todo
  /\ AllDone(d) /\ ~ShouldSkip(d)
  /\ Launch(d)
  /\ Drop(d)

\* The cascade is a nested loop: the rest of todo waits for it to end.
SkipDependent(d) ==
  /\ pc = "visit" /\ d \in todo
  /\ AllDone(d) /\ ShouldSkip(d)
  /\ Skip(d)
  /\ pc' = "cascade"
  /\ todo' = todo \ {d}
  /\ queue' = <<d>>
  /\ UNCHANGED below

VisitDone ==
  /\ pc = "visit" /\ todo = {}
  /\ Goto("recv", {})
  /\ UNCHANGED <<plan, store, book, pool, hist>>

-----------------------------------------------------------------------------
(* The breadth-first cascade of a skip                                     *)

Below(k) ==
  /\ below' = below \ {k}
  /\ UNCHANGED <<pc, todo>>

CascadePop ==
  /\ pc = "cascade" /\ below = {} /\ queue # <<>>
  /\ below' = ToVisit(Head(queue))
  /\ queue' = Tail(queue)
  /\ UNCHANGED <<plan, store, pc, todo, book, pool, hist>>

CascadePassOver(k) ==
  /\ pc = "cascade" /\ k \in below
  /\ status[k] # "pending" \/ ~AllDone(k)
  /\ Below(k)
  /\ UNCHANGED <<plan, store, queue, book, pool, hist>>

CascadeToSkip(k) ==
  /\ pc = "cascade" /\ k \in below
  /\ status[k] = "pending" /\ AllDone(k) /\ CascadeSkip(k)
  /\ Skip(k)
  /\ Below(k)
  /\ queue' = Append(queue, k)

CascadeLaunch(k) ==
  /\ pc = "cascade" /\ k \in below
  /\ status[k] = "pending" /\ AllDone(k) /\ ~CascadeSkip(k)
  /\ Launch(k)
  /\ Below(k)
  /\ UNCHANGED queue

CascadeDone ==
  /\ pc = "cascade" /\ below = {} /\ queue = <<>>
  /\ pc' = "visit"
  /\ UNCHANGED <<plan, store, todo, queue, below, book, pool, hist>>

-----------------------------------------------------------------------------
(* The end of a run, and the next one                                      *)

\* execute returns and drops the receiver; complete_run writes the outcome.
CompleteRun ==
  /\ pc = "complete"
  /\ runRow' = RunOutcome
  /\ channel' = <<>>
  /\ Goto("done", {})
  /\ UNCHANGED <<plan, row, book, waiting, executing, gauge, hist>>

(***************************************************************************)
(* A store call fails (or the workflow does not start at all): `?` leaves  *)
(* execute and run_inner, complete_run is not reached.  The process goes   *)
(* on and so do the tasks already spawned.                                 *)
(***************************************************************************)
StoreError ==
  /\ pc \in Active
  /\ channel' = <<>>
  /\ pc' = "aborted"
  /\ todo' = {} /\ queue' = <<>> /\ below' = {}
  /\ UNCHANGED <<plan, store, book, waiting, executing, gauge, hist>>

\* The process ends: at the end of the command, or because it is killed.
ProcessEnds ==
  /\ pc \in Active \/ waiting \cup executing # {}
  /\ waiting' = {} /\ executing' = {} /\ channel' = <<>> /\ gauge' = 0
  /\ pc' = IF pc \in Active THEN "crashed" ELSE pc
  /\ todo' = {} /\ queue' = <<>> /\ below' = {}
  /\ UNCHANGED <<plan, store, book, hist>>

\* `fluxion retry <run> --from n`, after the run has ended in whatever way.
Retry(n) ==
  /\ pc \in Ended /\ runRow # "none"
  /\ attempt < MaxAttempts
  /\ attempt' = attempt + 1
  /\ from' = n
  /\ pre' = {j \in Jobs : row[j] = "succeeded"} \ ReplaySet(n)
  /\ runRow' = "none" /\ row' = [j \in Jobs |-> "none"]
  /\ pc' = "create" /\ todo' = {} /\ queue' = <<>> /\ below' = {}
  /\ status' = [j \in Jobs |-> "pending"]
  /\ inFlight' = 0 /\ ok' = TRUE /\ outputs' = {}
  /\ results' = [j \in Jobs |-> 0]
  /\ launched' = [j \in Jobs |-> 0]
  /\ fanin' = [j \in Jobs |-> {}]
  /\ UNCHANGED pool

-----------------------------------------------------------------------------
(* The spawned tasks (launch's async block)                                *)

\* tx.send: the event is lost once the run's receiver is gone.
Send(t, succeeded) ==
  channel' = IF t.run = attempt /\ pc \in Active
             THEN Append(channel, [task |-> t, succeeded |-> succeeded])
             ELSE channel

AcquirePermit(t) ==
  /\ t \in waiting
  /\ PermitFree(t.run)
  /\ waiting' = waiting \ {t}
  /\ executing' = executing \cup {t}
  /\ UNCHANGED <<plan, store, loop, book, channel, gauge, hist>>

\* The component ran, here or on a worker, with either outcome.
TaskEnds(t, succeeded) ==
  /\ t \in executing
  /\ executing' = executing \ {t}
  /\ Send(t, succeeded)
  /\ UNCHANGED <<plan, store, loop, book, waiting, gauge, hist>>

\* Faulty variant: the early return does not send an event.
PreflightFailsSilently(t) ==
  /\ t \in executing
  /\ t.job[1] \in Preflight
  /\ executing' = executing \ {t}
  /\ gauge' = gauge - 1
  /\ UNCHANGED <<plan, store, loop, book, waiting, channel, hist>>

\* The OCI pull or the digest check failed: launch decrements the gauge itself.
PreflightFails(t) ==
  /\ t \in executing
  /\ t.job[1] \in Preflight
  /\ executing' = executing \ {t}
  /\ Send(t, FALSE)
  /\ gauge' = gauge - 1
  /\ UNCHANGED <<plan, store, loop, book, waiting, hist>>

-----------------------------------------------------------------------------

DriverStep ==
  \/ CreateRun \/ SeedDone \/ RootsDone \/ ReadyDone
  \/ ReceiveSucceeded \/ ReceiveFailed \/ LoopDone
  \/ VisitDone \/ CascadePop \/ CascadeDone \/ CompleteRun
  \/ \E j \in todo : \/ SeedPre(j) \/ LaunchRoot(j) \/ LaunchReady(j)
                     \/ PassOver(j) \/ LaunchDependent(j) \/ SkipDependent(j)
  \/ \E k \in below : CascadePassOver(k) \/ CascadeToSkip(k) \/ CascadeLaunch(k)

Leaves(t) == TaskEnds(t, TRUE) \/ TaskEnds(t, FALSE) \/ PreflightFails(t)

TaskStep ==
  \/ \E t \in waiting : AcquirePermit(t)
  \/ \E t \in executing : Leaves(t)

Disturbance == StoreError \/ ProcessEnds \/ \E n \in JobNames : Retry(n)

Next == DriverStep \/ TaskStep \/ Disturbance

(***************************************************************************)
(* The driver is a future the runtime keeps polling, and the semaphore is  *)
(* fair.  A task is bounded by its timeout, which covers the execution but *)
(* not the pull of a component before it: oci.rs builds its client without *)
(* a time limit.  Nor is there one on the question pick_least_conn puts to *)
(* the workers before a launch.  These two may last for ever; errors,      *)
(* crashes and retries are never owed either.                              *)
(***************************************************************************)
Fairness ==
  /\ WF_vars(DriverStep /\ (LeastConn => UNCHANGED launched))
  /\ WF_vars(\E t \in waiting : AcquirePermit(t))
  /\ \A j \in {k \in Jobs : k[1] \notin Pulled} :
       WF_vars(\E t \in executing : t.job = j /\ Leaves(t))

Spec == Init /\ [][Next]_vars
FairSpec == Spec /\ Fairness

-----------------------------------------------------------------------------
(* Properties                                                              *)

TaskId == [run : 1 .. MaxAttempts, job : Jobs, nth : Nat \ {0}]
Event  == [task : TaskId, succeeded : BOOLEAN]

\* The type invariant.
TypeOK ==
  /\ attempt \in 1 .. MaxAttempts
  /\ from \in JobNames \cup {<<>>}
  /\ pre \subseteq Jobs
  /\ runRow \in {"none", "running", "succeeded", "failed"}
  /\ row \in [Jobs -> RowStatus]
  /\ pc \in DriverPc
  /\ todo \subseteq Jobs /\ queue \in Seq(Jobs) /\ below \subseteq Jobs
  /\ status \in [Jobs -> JobStatus]
  /\ inFlight \in Int /\ ok \in BOOLEAN /\ outputs \subseteq Jobs
  /\ results \in [Jobs -> Nat]
  /\ waiting \subseteq TaskId /\ executing \subseteq TaskId
  /\ channel \in Seq(Event)
  /\ gauge \in Int
  /\ launched \in [Jobs -> Nat]
  /\ fanin \in [Jobs -> SUBSET Jobs]

\* The tasks of the current run among S.
Mine(S) == {t \in S : t.run = attempt}

(***************************************************************************)
(* in_flight is the number of tasks the driver will still hear of.  Too    *)
(* small and the main loop ends with work unaccounted for; too large and   *)
(* `rx.recv().await` never returns, for the driver itself holds a sender.  *)
(***************************************************************************)
InFlightAccounting ==
  pc \in Active =>
    inFlight = Cardinality(Mine(waiting)) + Cardinality(Mine(executing)) + Len(channel)

(***************************************************************************)
(* A job is launched at most once in a run, although four loops of the     *)
(* driver launch jobs and a dependent is reached once from each of its     *)
(* dependencies.                                                           *)
(***************************************************************************)
AtMostOnce == \A j \in Jobs : launched[j] <= 1

(***************************************************************************)
(* When a job was launched in this run, each of its dependencies has, and  *)
(* keeps, a row that says it was done with.                                *)
(***************************************************************************)
DependenciesFirst ==
  \A j \in Jobs : launched[j] > 0 =>
    \A d \in Deps[j] : row[d] \in {"succeeded", "skipped"}

(***************************************************************************)
(* A run recorded as succeeded left no job behind: every job has a row     *)
(* that says succeeded or skipped, and no task of the run is alive.        *)
(***************************************************************************)
SuccessMeansSettled ==
  runRow = "succeeded" =>
    /\ \A j \in Jobs : row[j] \in {"succeeded", "skipped"}
    /\ Mine(waiting \cup executing) = {}

\* A retry never launches a job it took over from the run before.
KeptWorkIsNotRedone == \A j \in pre : launched[j] = 0

(***************************************************************************)
(* "Retry a previous run, re-executing `from_job` and all downstream       *)
(* dependents": none of them is taken over from the run before.            *)
(***************************************************************************)
RetryReplaysDownstream == attempt > 1 => pre \cap Downstream(from) = {}

(***************************************************************************)
(* What the first retry takes over was computed from results it takes over *)
(* too, however the run before ended: nothing is computed anew next to     *)
(* what was computed from it.  (A retry that dies while it writes the rows *)
(* it takes over leaves a row without its dependencies to the next.)       *)
(***************************************************************************)
KeptRestsOnKept == attempt = 2 => \A j \in pre : Deps[j] \subseteq pre

(***************************************************************************)
(* The RunResult a caller gets and the rows a later command reads agree:   *)
(* one JobResult for each job whose row is final, none for the others.     *)
(***************************************************************************)
ResultsMatchRows ==
  pc = "done" =>
    \A j \in Jobs : results[j] = IF row[j] \in {"succeeded", "failed", "skipped"} THEN 1 ELSE 0

(***************************************************************************)
(* A fan-in job is given the output of every child of its foreach job, in  *)
(* a retry of every one that was not taken over: what a child of this run  *)
(* has put out is there when the fan-in starts, whichever child is last    *)
(* and which of the four loops launches (build_fanin_input reads what is   *)
(* not there as null).                                                     *)
(***************************************************************************)
FanInComplete == \A j \in Jobs : launched[j] > 0 => fanin[j] = Sources(j) \ pre

\* The jobs whose condition is on a job they wait for.
Conditional == {j \in Jobs : HasWhen(j) /\ When[j[1]].on \in Deps[j]}

\* The condition of j, of what the rows say.
MetByRows(j) ==
  LET name == [succeeded |-> "SUCCESS", failed |-> "FAILED", skipped |-> "SKIPPED"]
      r == row[When[j[1]].on]
  IN (r \in DOMAIN name /\ name[r] = When[j[1]].value) = When[j[1]].equal

(***************************************************************************)
(* What was decided by a condition stays right: the rows a run leaves say  *)
(* of each job with a condition on one of its dependencies that it was     *)
(* launched only if the condition holds of the dependency's row, and       *)
(* skipped only if it does not, whatever happened to the dependency since, *)
(* and in a retry too, of every job that waits for one the retry runs.     *)
(***************************************************************************)
ConditionsSettled ==
  \A j \in Conditional \ (pre \cup ReadyJobs) :
    /\ launched[j] > 0 => MetByRows(j)
    /\ row[j] = "skipped" => ~MetByRows(j)

(***************************************************************************)
(* A row never goes back: once a job is succeeded, failed or skipped in a  *)
(* run, that is what the store says of it until the end of the run.        *)
(***************************************************************************)
RowsAreFinal ==
  [][\A j \in Jobs : row[j] \in {"succeeded", "failed", "skipped"} /\ attempt' = attempt
        => row'[j] = row[j]]_vars

\* "RUNNING --> SUCCEEDED", from which no arrow leads on: within a run, a job that
\* is recorded as succeeded stays so.
SucceededIsFinal ==
  [][\A j \in Jobs : row[j] = "succeeded" /\ attempt' = attempt => row'[j] = row[j]]_vars

\* A task that may be pulling its component, for as long as it likes.
Pulling == \E t \in executing : t.job[1] \in Pulled

\* The driver is about to launch a job, and asks the workers first.
Asking ==
  /\ LeastConn
  /\ \/ pc \in {"roots", "ready"} /\ todo # {}
     \/ pc = "visit" /\ \E d \in todo : AllDone(d) /\ ~ShouldSkip(d)
     \/ pc = "cascade" /\ \E k \in below : status[k] = "pending" /\ AllDone(k) /\ ~CascadeSkip(k)

\* A run that was created comes to an end, whatever its jobs do.
RunEnds == pc \in Active ~> pc \in Ended

\* No task that was spawned waits for a permit for ever, and none outlives its
\* time limit, of a run that is over as of one that goes on.
EveryTaskEnds == (waiting \cup executing # {}) ~> (waiting \cup executing = {})

(***************************************************************************)
(* The run store's view: unless a skip cascade comes upon a job of the     *)
(* visit it interrupts, the scheduler implements the contract of a run.    *)
(***************************************************************************)
Contract == INSTANCE RunContract WITH kept <- pre, Guarded <- {j \in Jobs : HasWhen(j)}

ImplementsContract == Contract!Spec

(***************************************************************************)
(* A retry takes over what it may and no more: nothing it was asked to do  *)
(* again, nothing that rests on work which is done again, and what it took *)
(* over is not launched.                                                   *)
(***************************************************************************)
KeptIsSound == RetryReplaysDownstream /\ KeptRestsOnKept /\ KeptWorkIsNotRedone

(***************************************************************************)
(* Unless a pull or a question to the workers goes on for ever, a run      *)
(* returns and none of its tasks is left behind; and the RunResult it      *)
(* returns agrees with the rows.                                           *)
(***************************************************************************)
RunReturns ==
  /\ []<>~Pulling /\ []<>~Asking => RunEnds /\ EveryTaskEnds
  /\ []ResultsMatchRows
=============================================================================
