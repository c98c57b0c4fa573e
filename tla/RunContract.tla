---------------------------- MODULE RunContract -----------------------------
(***************************************************************************)
(* What a run promises to whoever reads the run store: the history of a    *)
(* run's rows, without the driver, the tasks and the channel that make it. *)
(* A run starts a job only over rows that say its dependencies are done    *)
(* with, gives each job one final row, and claims success only when every  *)
(* job has one.  A retry takes over results of the run before, no others.  *)
(***************************************************************************)
CONSTANTS
  Jobs,      \* the jobs of the expanded workflow
  Deps,      \* the jobs each of them waits for
  Guarded    \* the jobs with a `when:` condition

VARIABLES
  runRow,    \* status of the run: "none", "running", "succeeded", "failed"
  row,       \* status of each job, "none" while it has no row
  kept       \* the jobs whose result is taken over from the run before

vars == <<runRow, row, kept>>

Done(j) == row[j] \in {"succeeded", "skipped"}
Ready(j) == \A d \in Deps[j] : Done(d)

Init ==
  /\ runRow = "none"
  /\ row = [j \in Jobs |-> "none"]
  /\ kept = {}

Begin ==
  /\ runRow = "none" /\ runRow' = "running"
  /\ UNCHANGED <<row, kept>>

Set(j, old, new) ==
  /\ runRow = "running" /\ row[j] = old
  /\ row' = [row EXCEPT ![j] = new]
  /\ UNCHANGED <<runRow, kept>>

TakeOver(j) == j \in kept /\ Set(j, "none", "succeeded")

Start(j) == j \notin kept /\ Ready(j) /\ Set(j, "none", "running")

Finish(j) == Set(j, "running", "succeeded") \/ Set(j, "running", "failed")

SkipJob(j) ==
  /\ j \notin kept /\ Ready(j)
  /\ j \in Guarded \/ \E d \in Deps[j] : row[d] = "skipped"
  /\ Set(j, "none", "skipped")

Close ==
  /\ runRow = "running"
  /\ \/ runRow' = "succeeded" /\ \A j \in Jobs : Done(j)
     \/ runRow' = "failed" /\ \E j \in Jobs : row[j] = "failed"
  /\ UNCHANGED <<row, kept>>

\* The next run; the one before may have been left without an outcome.
Reopen ==
  /\ runRow # "none"
  /\ runRow' = "none"
  /\ row' = [j \in Jobs |-> "none"]
  /\ kept' \in SUBSET {j \in Jobs : row[j] = "succeeded"}

Next ==
  \/ Begin \/ Close \/ Reopen
  \/ \E j \in Jobs : TakeOver(j) \/ Start(j) \/ Finish(j) \/ SkipJob(j)

Spec == Init /\ [][Next]_vars
=============================================================================
