-------------------------- MODULE SchedulerProofs ---------------------------
(***************************************************************************)
(* What the scheduler guarantees for every workflow, every number of       *)
(* permits and every number of retries, in parts each of which strengthens *)
(* the invariant of the one before: types; in_flight; one launch per job,  *)
(* rows and results; what a retry keeps; nothing forgotten, and the        *)
(* contract of a run.  Conditions come last.                               *)
(***************************************************************************)
EXTENDS Scheduler, TLAPS, FiniteSetTheorems, SequenceTheorems

-----------------------------------------------------------------------------
(* The static structure                                                    *)

\* Children, and every job, are names a job may be called by.
LEMMA JobsAreNames == Jobs \subseteq JobNames
BY DEF Jobs, JobNames, Plain, Children

\* Deps maps each job to jobs of the expanded workflow.
LEMMA DepsType == Deps \in [Jobs -> SUBSET Jobs]
<1>1. ASSUME NEW y \in YamlJobs PROVE Expansion(y) \subseteq Jobs
  BY DEF Expansion, Jobs
<1>2. ASSUME NEW j \in Jobs PROVE j[1] \in YamlJobs
  BY WorkflowAssumption DEF WellFormed, Jobs, Plain, Children
<1>3. ASSUME NEW j \in Jobs PROVE Sources(j) \subseteq Jobs
  BY WorkflowAssumption DEF WellFormed, Sources, IsFanIn, Jobs
<1>4. ASSUME NEW j \in Jobs
      PROVE  (UNION {Expansion(y) : y \in DependsOn[j[1]]}) \cup Sources(j) \in SUBSET Jobs
  BY <1>1, <1>2, <1>3, WorkflowAssumption DEF WellFormed
<1> QED BY <1>4 DEF Deps

\* The target sets of the driver's loops are sets of jobs.
LEMMA LoopSetsType ==
  /\ Roots \subseteq Jobs
  /\ \A j : Dependents(j) \subseteq Jobs
BY DEF Roots, Dependents

-----------------------------------------------------------------------------
(* Type correctness                                                        *)

\* What Launch and Skip write is of the right type.
LEMMA TaskType ==
  ASSUME TypeOK, NEW j \in Jobs
  PROVE  Task(j) \in TaskId
BY DEF TypeOK, Task, TaskId

LEMMA LaunchType ==
  ASSUME TypeOK, NEW j \in Jobs, Launch(j), Drop(j) \/ (Below(j) /\ UNCHANGED queue)
  PROVE  TypeOK'
<1>1. waiting' \subseteq TaskId
  BY TaskType DEF Launch, TypeOK
<1>2. status' \in [Jobs -> JobStatus] /\ row' \in [Jobs -> RowStatus]
  BY DEF Launch, Record, TypeOK, JobStatus, RowStatus
<1>3. launched' \in [Jobs -> Nat] /\ fanin' \in [Jobs -> SUBSET Jobs]
  BY DEF Launch, FanInInput, TypeOK
<1>4. inFlight' \in Int /\ gauge' \in Int
  BY DEF Launch, TypeOK
<1>5. todo' \subseteq Jobs /\ below' \subseteq Jobs /\ pc' = pc /\ queue' = queue
  BY DEF Drop, Below, TypeOK
<1> QED BY <1>1, <1>2, <1>3, <1>4, <1>5 DEF Launch, TypeOK, plan, TaskId

LEMMA SkipType ==
  ASSUME TypeOK, NEW j \in Jobs, Skip(j),
         pc' \in DriverPc, todo' \subseteq Jobs, below' \subseteq Jobs, queue' \in Seq(Jobs)
  PROVE  TypeOK'
<1>1. status' \in [Jobs -> JobStatus] /\ row' \in [Jobs -> RowStatus]
  BY DEF Skip, Record, TypeOK, JobStatus, RowStatus
<1>2. results' \in [Jobs -> Nat]
  BY DEF Skip, TypeOK
<1> QED BY <1>1, <1>2 DEF Skip, TypeOK, plan, pool, hist, TaskId

\* The event at the head of a non-empty channel.
LEMMA EventType ==
  ASSUME TypeOK, channel # <<>>
  PROVE  /\ Head(channel) \in Event
         /\ Head(channel).task \in TaskId
         /\ Head(channel).task.job \in Jobs
         /\ Tail(channel) \in Seq(Event)
<1>1. channel \in Seq(Event)
  BY DEF TypeOK
<1>2. Head(channel) \in Event /\ Tail(channel) \in Seq(Event)
  BY <1>1, HeadTailProperties
<1> QED BY <1>2 DEF Event, TaskId

LEMMA SendType ==
  ASSUME TypeOK, NEW t \in TaskId, NEW b \in BOOLEAN, Send(t, b)
  PROVE  channel' \in Seq(Event)
<1>1. channel \in Seq(Event)
  BY DEF TypeOK
<1>2. [task |-> t, succeeded |-> b] \in Event
  BY DEF Event
<1> QED BY <1>1, <1>2, AppendProperties DEF Send

LEMMA TypeInit == Init => TypeOK
BY SchedulerAssumption
   DEF Init, TypeOK, JobStatus, RowStatus, DriverPc, TaskId

(***************************************************************************)
(* Next, one disjunct per action; every proof about a step starts here.    *)
(***************************************************************************)
LEMMA TypeNext == TypeOK /\ [Next]_vars => TypeOK'
<1> SUFFICES ASSUME TypeOK, [Next]_vars PROVE TypeOK'
  OBVIOUS
<1> USE DEF Goto, DriverPc, ReadyJobs, ToVisit, RunOutcome, plan, store, loop, book, pool, hist
<1>1. CASE CreateRun
  BY <1>1 DEF CreateRun, TypeOK, TaskId
<1>2. CASE SeedDone \/ RootsDone \/ ReadyDone \/ LoopDone \/ VisitDone
  BY <1>2, LoopSetsType DEF SeedDone, RootsDone, ReadyDone, LoopDone, VisitDone, TypeOK, TaskId
<1>3. CASE ReceiveSucceeded
  <2> DEFINE j == Head(channel).task.job
  <2>1. j \in Jobs /\ Tail(channel) \in Seq(Event)
    BY <1>3, EventType DEF ReceiveSucceeded
  <2>2. status' \in [Jobs -> JobStatus] /\ row' \in [Jobs -> RowStatus]
    BY <1>3, <2>1 DEF ReceiveSucceeded, Record, TypeOK, JobStatus, RowStatus
  <2>3. results' \in [Jobs -> Nat] /\ outputs' \subseteq Jobs
    BY <1>3, <2>1 DEF ReceiveSucceeded, TypeOK
  <2>4. pc' \in DriverPc /\ todo' \subseteq Jobs /\ queue' \in Seq(Jobs) /\ below' \subseteq Jobs
    BY <1>3, LoopSetsType DEF ReceiveSucceeded, TypeOK
  <2>5. /\ inFlight' \in Int /\ gauge' \in Int /\ channel' = Tail(channel)
        /\ UNCHANGED <<plan, runRow, ok, waiting, executing, hist>>
    BY <1>3 DEF ReceiveSucceeded, TypeOK
  <2> QED BY <2>1, <2>2, <2>3, <2>4, <2>5 DEF TypeOK, TaskId
<1>4. CASE ReceiveFailed
  <2> DEFINE j == Head(channel).task.job
  <2>1. j \in Jobs /\ Tail(channel) \in Seq(Event)
    BY <1>4, EventType DEF ReceiveFailed
  <2>2. status' \in [Jobs -> JobStatus] /\ row' \in [Jobs -> RowStatus]
    BY <1>4 DEF ReceiveFailed, TypeOK, JobStatus, RowStatus
  <2>3. results' \in [Jobs -> Nat]
    <3>1. results' = [results EXCEPT ![j] = @ + 1]
      BY <1>4 DEF ReceiveFailed
    <3> QED BY <3>1, <2>1 DEF TypeOK
  <2>4. pc' \in DriverPc /\ todo' \subseteq Jobs /\ queue' \in Seq(Jobs) /\ below' \subseteq Jobs
    BY <1>4 DEF ReceiveFailed, TypeOK
  <2>5. /\ inFlight' \in Int /\ gauge' \in Int /\ channel' = Tail(channel) /\ ok' \in BOOLEAN
        /\ UNCHANGED <<plan, runRow, outputs, waiting, executing, hist>>
    <3>1. /\ inFlight' = inFlight - 1 /\ gauge' = gauge - 1 /\ channel' = Tail(channel) /\ ok' = FALSE
          /\ UNCHANGED <<plan, runRow, outputs, waiting, executing, hist>>
      BY <1>4 DEF ReceiveFailed
    <3>2. inFlight' \in Int /\ gauge' \in Int
      BY <3>1 DEF TypeOK
    <3>3. ok' \in BOOLEAN
      BY <3>1, Zenon
    <3> QED BY <3>1, <3>2, <3>3
  <2> QED BY <2>1, <2>2, <2>3, <2>4, <2>5 DEF TypeOK, TaskId
<1>5. CASE CascadePop
  BY <1>5, LoopSetsType, HeadTailProperties DEF CascadePop, TypeOK, TaskId
<1>6. CASE CascadeDone
  BY <1>6 DEF CascadeDone, TypeOK, TaskId
<1>7. CASE CompleteRun
  BY <1>7, EmptySeq DEF CompleteRun, TypeOK, TaskId
<1>8. ASSUME NEW j \in todo, SeedPre(j) PROVE TypeOK'
  <2>1. j \in Jobs
    BY <1>8 DEF TypeOK
  <2>2. status' \in [Jobs -> JobStatus] /\ row' \in [Jobs -> RowStatus] /\ results' \in [Jobs -> Nat]
    BY <1>8, <2>1 DEF SeedPre, Record, TypeOK, JobStatus, RowStatus
  <2> QED BY <1>8, <2>1, <2>2 DEF SeedPre, Drop, TypeOK, TaskId
<1>9. ASSUME NEW j \in todo, LaunchRoot(j) \/ LaunchReady(j) \/ LaunchDependent(j) PROVE TypeOK'
  <2>1. j \in Jobs
    BY <1>9 DEF TypeOK
  <2> QED BY <1>9, <2>1, LaunchType DEF LaunchRoot, LaunchReady, LaunchDependent
<1>10. ASSUME NEW j \in todo, PassOver(j) PROVE TypeOK'
  BY <1>10 DEF PassOver, Drop, TypeOK, TaskId
<1>11. ASSUME NEW j \in todo, SkipDependent(j) PROVE TypeOK'
  <2>1. j \in Jobs /\ todo' \subseteq Jobs /\ below' \subseteq Jobs /\ queue' \in Seq(Jobs) /\ pc' \in DriverPc
    BY <1>11 DEF SkipDependent, TypeOK
  <2> QED BY <1>11, <2>1, SkipType DEF SkipDependent
<1>12. ASSUME NEW k \in below, CascadePassOver(k) PROVE TypeOK'
  BY <1>12 DEF CascadePassOver, Below, TypeOK, TaskId
<1>13. ASSUME NEW k \in below, CascadeToSkip(k) PROVE TypeOK'
  <2>1. k \in Jobs /\ todo' \subseteq Jobs /\ below' \subseteq Jobs /\ pc' \in DriverPc
    BY <1>13 DEF CascadeToSkip, Below, TypeOK
  <2>2. queue' \in Seq(Jobs)
    BY <1>13, <2>1, AppendProperties DEF CascadeToSkip, TypeOK
  <2> QED BY <1>13, <2>1, <2>2, SkipType DEF CascadeToSkip
<1>14. ASSUME NEW k \in below, CascadeLaunch(k) PROVE TypeOK'
  <2>1. k \in Jobs
    BY <1>14 DEF TypeOK
  <2> QED BY <1>14, <2>1, LaunchType DEF CascadeLaunch
<1>15. CASE StoreError
  BY <1>15, EmptySeq DEF StoreError, TypeOK, TaskId
<1>16. CASE ProcessEnds
  BY <1>16, EmptySeq DEF ProcessEnds, TypeOK, TaskId
<1>17. ASSUME NEW n \in JobNames, Retry(n) PROVE TypeOK'
  BY <1>17, SchedulerAssumption, EmptySeq DEF Retry, TypeOK, TaskId, JobStatus, RowStatus
<1>18. ASSUME NEW t \in waiting, AcquirePermit(t) PROVE TypeOK'
  BY <1>18 DEF AcquirePermit, TypeOK, TaskId
<1>19. ASSUME NEW t \in executing, NEW b \in BOOLEAN, TaskEnds(t, b) PROVE TypeOK'
  <2>1. t \in TaskId
    BY <1>19 DEF TypeOK
  <2>2. channel' \in Seq(Event)
    BY <1>19, <2>1, SendType DEF TaskEnds
  <2> QED BY <1>19, <2>2 DEF TaskEnds, TypeOK, TaskId
<1>20. ASSUME NEW t \in executing, PreflightFails(t) PROVE TypeOK'
  <2>1. t \in TaskId
    BY <1>20 DEF TypeOK
  <2>2. channel' \in Seq(Event)
    BY <1>20, <2>1, SendType DEF PreflightFails
  <2>3. gauge' \in Int /\ executing' \subseteq executing
    BY <1>20 DEF PreflightFails, TypeOK
  <2>4. UNCHANGED <<plan, store, loop, book, waiting, hist>>
    BY <1>20 DEF PreflightFails
  <2> QED BY <2>2, <2>3, <2>4 DEF TypeOK, TaskId
<1>21. CASE UNCHANGED vars
  BY <1>21 DEF vars, TypeOK, TaskId
<1> QED BY <1>1, <1>2, <1>3, <1>4, <1>5, <1>6, <1>7, <1>8, <1>9, <1>10, <1>11, <1>12, <1>13,
           <1>14, <1>15, <1>16, <1>17, <1>18, <1>19, <1>20, <1>21
        DEF Next, DriverStep, TaskStep, Leaves, Disturbance

\* In every behaviour every variable keeps its type.
THEOREM TypeCorrect == Spec => []TypeOK
BY TypeInit, TypeNext, PTL DEF Spec

-----------------------------------------------------------------------------
(***************************************************************************)
(* in_flight is exact: it is the number of tasks of the run that are alive *)
(* plus the number of their events still in the channel.  What makes it so *)
(* is that no two launches ever make the same task and that a task is in   *)
(* one place at a time.                                                    *)
(***************************************************************************)

(***************************************************************************)
(* The strengthening: a task is either waiting or executing, was made by a *)
(* launch of its job that has happened, and an ended run has no receiver.  *)
(***************************************************************************)
TasksInv ==
  /\ IsFiniteSet(waiting) /\ IsFiniteSet(executing)
  /\ waiting \cap executing = {}
  /\ \A t \in waiting \cup executing :
       /\ t.run <= attempt
       /\ t.run = attempt => t.nth <= launched[t.job]
  /\ pc \in Ended => channel = <<>>

AccountingInv == TypeOK /\ TasksInv /\ InFlightAccounting

-----------------------------------------------------------------------------
(* The kinds of steps, as far as tasks and events are concerned            *)

DriverMoves ==
  /\ UNCHANGED <<attempt, waiting, executing, channel, inFlight, launched>>
  /\ pc \in Ended <=> pc' \in Ended

Launches == pc \in Active /\ pc' = pc /\ \E j \in Jobs : Launch(j)

Receives ==
  /\ channel # <<>> /\ channel' = Tail(channel)
  /\ inFlight' = inFlight - 1
  /\ pc \in Active /\ pc' \in Active
  /\ UNCHANGED <<attempt, waiting, executing, launched>>

RunStops ==
  /\ pc' \in Ended /\ channel' = <<>>
  /\ waiting' \subseteq waiting /\ executing' \subseteq executing
  /\ UNCHANGED <<attempt, launched>>

TaskStops ==
  \E t \in executing, b \in BOOLEAN :
    /\ executing' = executing \ {t}
    /\ Send(t, b)
    /\ UNCHANGED <<attempt, waiting, inFlight, launched, pc>>

\* Every step of the scheduler is of one of these kinds.
LEMMA StepKinds ==
  ASSUME TypeOK, [Next]_vars
  PROVE  \/ DriverMoves \/ Launches \/ Receives \/ RunStops \/ TaskStops
         \/ \E n \in JobNames : Retry(n)
         \/ \E t \in waiting : AcquirePermit(t)
<1> USE DEF Goto, Drop, Below, DriverPc, Ended, Active, plan, store, loop, book, pool, hist
<1>1. CASE CreateRun \/ SeedDone \/ RootsDone \/ ReadyDone \/ LoopDone \/ VisitDone
           \/ CascadePop \/ CascadeDone
  BY <1>1 DEF CreateRun, SeedDone, RootsDone, ReadyDone, LoopDone, VisitDone, CascadePop,
              CascadeDone, DriverMoves
<1>2. CASE ReceiveSucceeded
  BY <1>2 DEF ReceiveSucceeded, Receives
<1>3. CASE ReceiveFailed
  BY <1>3 DEF ReceiveFailed, Receives
<1>4. CASE CompleteRun \/ StoreError \/ ProcessEnds
  BY <1>4 DEF CompleteRun, StoreError, ProcessEnds, RunStops, TypeOK
<1>5. ASSUME NEW j \in todo, SeedPre(j) \/ PassOver(j) PROVE DriverMoves
  BY <1>5 DEF SeedPre, PassOver, DriverMoves
<1>6. ASSUME NEW j \in todo, SkipDependent(j) PROVE DriverMoves
  BY <1>6 DEF SkipDependent, Skip, DriverMoves
<1>7. ASSUME NEW j \in todo, LaunchRoot(j) \/ LaunchReady(j) \/ LaunchDependent(j) PROVE Launches
  BY <1>7 DEF LaunchRoot, LaunchReady, LaunchDependent, Launches, TypeOK
<1>8. ASSUME NEW k \in below, CascadePassOver(k) \/ CascadeToSkip(k) PROVE DriverMoves
  BY <1>8 DEF CascadePassOver, CascadeToSkip, Skip, DriverMoves
<1>9. ASSUME NEW k \in below, CascadeLaunch(k) PROVE Launches
  BY <1>9 DEF CascadeLaunch, Launches, TypeOK
<1>10. ASSUME NEW t \in executing, NEW b \in BOOLEAN, TaskEnds(t, b) PROVE TaskStops
  BY <1>10 DEF TaskEnds, TaskStops
<1>11. ASSUME NEW t \in executing, PreflightFails(t) PROVE TaskStops
  BY <1>11 DEF PreflightFails, TaskStops
<1>12. CASE UNCHANGED vars
  BY <1>12 DEF vars, DriverMoves
<1> QED BY <1>1, <1>2, <1>3, <1>4, <1>5, <1>6, <1>7, <1>8, <1>9, <1>10, <1>11, <1>12
        DEF Next, DriverStep, TaskStep, Leaves, Disturbance

-----------------------------------------------------------------------------

\* The tasks of the run among a finite set are finitely many.
LEMMA MineFinite ==
  ASSUME NEW S, IsFiniteSet(S)
  PROVE  IsFiniteSet(Mine(S)) /\ Cardinality(Mine(S)) \in Nat
<1>1. Mine(S) \in SUBSET S
  BY DEF Mine
<1> QED BY <1>1, FS_Subset, FS_CardinalityType

LEMMA TasksInit == Init => TasksInv /\ InFlightAccounting
<1> SUFFICES ASSUME Init PROVE TasksInv /\ InFlightAccounting
  OBVIOUS
<1>1. waiting = {} /\ executing = {} /\ channel = <<>> /\ inFlight = 0
  BY DEF Init
<1>2. TasksInv
  BY <1>1, FS_EmptySet DEF TasksInv
<1>3. Mine(waiting) = {} /\ Mine(executing) = {}
  BY <1>1 DEF Mine
<1>4. Cardinality(Mine(waiting)) = 0 /\ Cardinality(Mine(executing)) = 0 /\ Len(channel) = 0
  BY <1>1, <1>3, FS_EmptySet
<1> QED BY <1>1, <1>2, <1>4 DEF InFlightAccounting

LEMMA TasksNext == AccountingInv /\ [Next]_vars => TasksInv'
<1> SUFFICES ASSUME AccountingInv, [Next]_vars PROVE TasksInv'
  OBVIOUS
<1> USE DEF AccountingInv
<1>1. CASE DriverMoves \/ Receives
  BY <1>1 DEF DriverMoves, Receives, TasksInv, Active, Ended
<1>2. CASE Launches
  <2>1. PICK j \in Jobs : Launch(j)
    BY <1>2 DEF Launches
  <2> DEFINE t == Task(j)
  <2>2. /\ waiting' = waiting \cup {t} /\ UNCHANGED <<attempt, executing, channel>>
        /\ launched' = [launched EXCEPT ![j] = @ + 1]
    BY <2>1 DEF Launch, plan
  <2>3. t.run = attempt /\ t.job = j /\ t.nth = launched[j] + 1 /\ launched[j] \in Nat
    BY DEF Task, TypeOK
  <2>4. t \notin waiting \cup executing
    BY <2>3 DEF TasksInv
  <2>5. IsFiniteSet(waiting') /\ IsFiniteSet(executing') /\ waiting' \cap executing' = {}
    BY <2>2, <2>4, FS_AddElement DEF TasksInv
  <2>6. attempt \in Nat
    BY SchedulerAssumption DEF TypeOK
  <2>7. ASSUME NEW u \in waiting' \cup executing'
        PROVE  u.run <= attempt' /\ (u.run = attempt' => u.nth <= launched'[u.job])
    <3>1. CASE u = t
      BY <3>1, <2>2, <2>3, <2>6 DEF TypeOK
    <3>2. CASE u # t
      <4>1. u \in waiting \cup executing /\ u.nth \in Nat /\ u.job \in Jobs
        BY <3>2, <2>2 DEF TypeOK, TaskId
      <4>2. launched[u.job] \in Nat /\ launched[u.job] <= launched'[u.job]
        BY <4>1, <2>2 DEF TypeOK
      <4> QED BY <4>1, <4>2, <2>2 DEF TasksInv
    <3> QED BY <3>1, <3>2
  <2>8. pc' \in Ended => channel' = <<>>
    BY <1>2, <2>2 DEF Launches, TasksInv
  <2> QED BY <2>5, <2>7, <2>8 DEF TasksInv
<1>3. CASE RunStops
  BY <1>3, FS_Subset DEF RunStops, TasksInv
<1>4. CASE TaskStops
  BY <1>4, FS_RemoveElement DEF TaskStops, Send, TasksInv, Active, Ended
<1>5. ASSUME NEW n \in JobNames, Retry(n) PROVE TasksInv'
  <2>1. /\ attempt' = attempt + 1 /\ channel = <<>>
        /\ UNCHANGED <<waiting, executing, channel>>
    BY <1>5 DEF Retry, TasksInv, pool
  <2>2. attempt \in Nat /\ \A t \in waiting \cup executing : t.run \in Nat
    BY SchedulerAssumption DEF TypeOK, TaskId
  <2> QED BY <2>1, <2>2 DEF TasksInv
<1>6. ASSUME NEW t \in waiting, AcquirePermit(t) PROVE TasksInv'
  <2>1. /\ waiting' = waiting \ {t} /\ executing' = executing \cup {t}
        /\ UNCHANGED <<attempt, pc, channel, launched>>
    BY <1>6 DEF AcquirePermit, plan, loop, hist
  <2>2. IsFiniteSet(waiting') /\ IsFiniteSet(executing')
    BY <2>1, FS_AddElement, FS_RemoveElement DEF TasksInv
  <2> QED BY <2>1, <2>2 DEF TasksInv
<1> QED BY <1>1, <1>2, <1>3, <1>4, <1>5, <1>6, StepKinds

-----------------------------------------------------------------------------

LEMMA InFlightNext == AccountingInv /\ [Next]_vars => InFlightAccounting'
<1> SUFFICES ASSUME AccountingInv, [Next]_vars, pc' \in Active
             PROVE  inFlight' = Cardinality(Mine(waiting)') + Cardinality(Mine(executing)')
                                  + Len(channel')
  BY DEF InFlightAccounting
<1> DEFINE w == Cardinality(Mine(waiting))
           x == Cardinality(Mine(executing))
<1> USE DEF AccountingInv
<1>1. w \in Nat /\ x \in Nat /\ Len(channel) \in Nat /\ inFlight \in Int
  BY MineFinite, LenProperties DEF TasksInv, TypeOK
<1>2. pc \in Active => inFlight = w + x + Len(channel)
  BY DEF InFlightAccounting
<1>3. CASE DriverMoves
  <2>1. pc \in Active
    BY <1>3 DEF DriverMoves, Active, Ended, TypeOK
  <2>2. Mine(waiting)' = Mine(waiting) /\ Mine(executing)' = Mine(executing)
    BY <1>3 DEF DriverMoves, Mine
  <2> QED BY <1>2, <1>3, <2>1, <2>2 DEF DriverMoves
<1>4. CASE Launches
  <2>1. PICK j \in Jobs : Launch(j)
    BY <1>4 DEF Launches
  <2> DEFINE t == Task(j)
  <2>2. /\ waiting' = waiting \cup {t} /\ inFlight' = inFlight + 1
        /\ UNCHANGED <<attempt, executing, channel>>
    BY <2>1 DEF Launch, plan
  <2>3. t.run = attempt /\ t \notin waiting
    BY DEF Task, TasksInv, TypeOK
  <2>4. Mine(waiting)' = Mine(waiting) \cup {t} /\ Mine(executing)' = Mine(executing)
    BY <2>2, <2>3 DEF Mine
  <2>5. Cardinality(Mine(waiting) \cup {t}) = w + 1
    <3>1. t \notin Mine(waiting)
      BY <2>3 DEF Mine
    <3> QED BY <3>1, MineFinite, FS_AddElement DEF TasksInv
  <2>6. pc \in Active
    BY <1>4 DEF Launches
  <2>7. Cardinality(Mine(waiting)') = w + 1 /\ Cardinality(Mine(executing)') = x
    BY <2>4, <2>5
  <2> QED BY <1>1, <1>2, <2>2, <2>6, <2>7
<1>5. CASE Receives
  <2>1. Mine(waiting)' = Mine(waiting) /\ Mine(executing)' = Mine(executing)
    BY <1>5 DEF Receives, Mine
  <2>2. Len(Tail(channel)) = Len(channel) - 1
    BY <1>5, HeadTailProperties DEF Receives, TypeOK
  <2> QED BY <1>1, <1>2, <1>5, <2>1, <2>2 DEF Receives
<1>6. CASE RunStops
  BY <1>6 DEF RunStops, Active
<1>7. CASE TaskStops
  <2>1. PICK t \in executing, b \in BOOLEAN :
          /\ executing' = executing \ {t} /\ Send(t, b)
          /\ UNCHANGED <<attempt, waiting, inFlight, launched, pc>>
    BY <1>7 DEF TaskStops
  <2>2. Mine(waiting)' = Mine(waiting) /\ Mine(executing)' = Mine(executing) \ {t} /\ pc \in Active
    BY <2>1 DEF Mine
  <2>3. Cardinality(Mine(executing) \ {t}) = IF t.run = attempt THEN x - 1 ELSE x
    <3>1. t \in Mine(executing) <=> t.run = attempt
      BY <2>1 DEF Mine
    <3> QED BY <3>1, MineFinite, FS_RemoveElement DEF TasksInv
  <2>4. Len(channel') = IF t.run = attempt THEN Len(channel) + 1 ELSE Len(channel)
    BY <2>1, <2>2, AppendProperties DEF Send, TypeOK
  <2>5. /\ Cardinality(Mine(waiting)') = w /\ inFlight' = inFlight
        /\ Cardinality(Mine(executing)') = IF t.run = attempt THEN x - 1 ELSE x
    BY <2>1, <2>2, <2>3
  <2> QED BY <1>1, <1>2, <2>2, <2>4, <2>5
<1>8. ASSUME NEW n \in JobNames, Retry(n)
      PROVE inFlight' = Cardinality(Mine(waiting)') + Cardinality(Mine(executing)') + Len(channel')
  <2>1. /\ inFlight' = 0 /\ attempt' = attempt + 1 /\ channel' = <<>>
        /\ waiting' = waiting /\ executing' = executing
    BY <1>8 DEF Retry, pool, TasksInv
  <2>2. attempt \in Nat /\ \A t \in waiting \cup executing : t.run \in Nat
    BY SchedulerAssumption DEF TypeOK, TaskId
  <2>3. Mine(waiting)' = {} /\ Mine(executing)' = {}
    BY <2>1, <2>2 DEF Mine, TasksInv
  <2> QED BY <2>1, <2>3, FS_EmptySet
<1>9. ASSUME NEW t \in waiting, AcquirePermit(t)
      PROVE inFlight' = Cardinality(Mine(waiting)') + Cardinality(Mine(executing)') + Len(channel')
  <2>1. /\ waiting' = waiting \ {t} /\ executing' = executing \cup {t}
        /\ UNCHANGED <<attempt, pc, channel, inFlight>>
    BY <1>9 DEF AcquirePermit, plan, loop, book
  <2>2. CASE t.run = attempt
    <3>1. Mine(waiting)' = Mine(waiting) \ {t} /\ Mine(executing)' = Mine(executing) \cup {t}
      BY <2>1, <2>2 DEF Mine
    <3>2. t \in Mine(waiting) /\ t \notin Mine(executing)
      BY <2>2 DEF Mine, TasksInv
    <3>3. Cardinality(Mine(waiting) \ {t}) = w - 1 /\ Cardinality(Mine(executing) \cup {t}) = x + 1
      BY <3>2, MineFinite, FS_AddElement, FS_RemoveElement DEF TasksInv
    <3>4. /\ Cardinality(Mine(waiting)') = w - 1 /\ Cardinality(Mine(executing)') = x + 1
          /\ pc \in Active /\ channel' = channel /\ inFlight' = inFlight
      BY <2>1, <3>1, <3>3
    <3> QED BY <1>1, <1>2, <3>4
  <2>3. CASE t.run # attempt
    <3>1. Mine(waiting)' = Mine(waiting) /\ Mine(executing)' = Mine(executing)
      BY <2>1, <2>3 DEF Mine
    <3> QED BY <1>2, <2>1, <3>1
  <2> QED BY <2>2, <2>3
<1> QED BY <1>3, <1>4, <1>5, <1>6, <1>7, <1>8, <1>9, StepKinds

(***************************************************************************)
(* The main loop of the driver waits for exactly the tasks it launched, in *)
(* every run of every workflow.                                            *)
(***************************************************************************)
THEOREM InFlightExact == Spec => []InFlightAccounting
<1>1. Init => AccountingInv
  BY TypeInit, TasksInit DEF AccountingInv
<1>2. AccountingInv /\ [Next]_vars => AccountingInv'
  BY TypeNext, TasksNext, InFlightNext DEF AccountingInv
<1>3. AccountingInv => InFlightAccounting
  BY DEF AccountingInv
<1> QED BY <1>1, <1>2, <1>3, PTL DEF Spec

-----------------------------------------------------------------------------
(***************************************************************************)
(* What the driver does to jobs.  The status of a job tells how far it is: *)
(* pending means not launched, running means that exactly one task or      *)
(* event stands for the job, and only that event moves it on; a job is     *)
(* launched or skipped over dependencies that have succeeded or were       *)
(* skipped, and stay so.                                                   *)
(*                                                                         *)
(* With conditions this does not hold of every workflow: the cascade of a  *)
(* skip may launch or skip a job that is still on the list of the visit it *)
(* interrupts, and the visit then does so again.  MetOnce rules that out:  *)
(* of two jobs that wait for the same one, neither lies below the other if *)
(* the other may be skipped.  Workflows without `when:` satisfy it.        *)
(***************************************************************************)

NoConditions == \A j \in Jobs : ~HasWhen(j)

\* What lies below d, and what a skip may reach.
Under(d) == DownstreamOf(Dependents(d))
MaySkip  == DownstreamOf({j \in Jobs : HasWhen(j)})

MetOnce == \A x \in Jobs : \A d \in Dependents(x) \cap MaySkip : Under(d) \cap Dependents(x) = {}

Alive   == Mine(waiting \cup executing)
Sent(i) == channel[i].task.job
Queued  == {queue[i] : i \in DOMAIN queue}

\* A dependency that does not stand in the way any more.
Passed(d) == status[d] \in {"succeeded", "skipped"}

\* What the status of a job says about it.
StatusInv ==
  \A j \in Jobs :
    /\ status[j] \in {"pending", "running", "succeeded", "failed", "skipped"}
    /\ row[j] = IF status[j] = "pending" THEN "none" ELSE status[j]
    /\ launched[j] \in {0, 1}
    /\ j \in pre => launched[j] = 0 /\ status[j] \in {"pending", "succeeded"}
    /\ j \notin pre /\ launched[j] = 0 => status[j] \in {"pending", "skipped"}
    /\ launched[j] = 1 => status[j] \notin {"pending", "skipped"}
    /\ launched[j] = 1 \/ status[j] = "skipped" => \A d \in Deps[j] : Passed(d)
    /\ status[j] = "skipped" => j \in MaySkip

\* A task or an event of this run stands for a running job, and only one does.
TokensInv ==
  /\ \A t \in Alive : status[t.job] = "running" /\ launched[t.job] = 1
  /\ \A i \in DOMAIN channel :
       /\ status[Sent(i)] = "running" /\ launched[Sent(i)] = 1
       /\ \A t \in Alive : t.job # Sent(i)
       /\ \A k \in DOMAIN channel : Sent(k) = Sent(i) => k = i

(***************************************************************************)
(* What is left to do when the driver visits the dependents of x: they are *)
(* all pending, and a cascade stays below the dependent it started from.   *)
(***************************************************************************)
VisitInv ==
  \E x \in Jobs :
    /\ todo \subseteq ToVisit(x)
    /\ \A j \in todo : status[j] = "pending"
    /\ pc = "cascade" =>
         \E d \in Dependents(x) \cap MaySkip :
           /\ Queued \subseteq Under(d) \cup {d}
           /\ \A s \in Queued : status[s] = "skipped"
           /\ below \subseteq Under(d) \ pre
           /\ \A k \in below : AnyDepSkipped(k)

\* What a loop of the driver has done, and that what it still has to do is due.
LoopInv ==
  /\ pc = "create" => \A j \in Jobs : status[j] = "pending"
  /\ pc = "seed" => /\ todo \subseteq pre /\ \A j \in Jobs : launched[j] = 0
                    /\ \A j \in pre : status[j] = IF j \in todo THEN "pending" ELSE "succeeded"
  /\ pc \in {"roots", "ready", "recv", "visit", "cascade", "complete"} =>
       \A j \in pre : status[j] = "succeeded"
  /\ pc \in {"seed", "roots", "ready"} => \A j \in Jobs : status[j] # "skipped"
  /\ pc = "roots" => /\ todo \subseteq Roots \ pre
                     /\ \A j \in Jobs : launched[j] = 1 => j \in Roots \ todo
  /\ pc = "ready" => /\ todo \subseteq ReadyJobs
                     /\ \A j \in todo : launched[j] = 0
  /\ pc \in {"visit", "cascade"} => VisitInv
  /\ pc # "cascade" => queue = <<>> /\ below = {}

OnceInv == StatusInv /\ TokensInv /\ LoopInv

-----------------------------------------------------------------------------
(* What skips may reach                                                    *)

LEMMA DownstreamGrows ==
  ASSUME NEW S \in SUBSET Jobs
  PROVE  /\ S \subseteq DownstreamOf(S) /\ DownstreamOf(S) \subseteq Jobs
         /\ \A d \in DownstreamOf(S) : Dependents(d) \subseteq DownstreamOf(S)
<1>1. S \subseteq DownstreamOf(S) /\ DownstreamOf(S) \subseteq Jobs
  BY DEF DownstreamOf
<1>2. ASSUME NEW d \in DownstreamOf(S), NEW k \in Dependents(d) PROVE k \in DownstreamOf(S)
  <2>1. k \in Jobs
    BY <1>2, LoopSetsType
  <2>2. ASSUME NEW T \in SUBSET Jobs, S \subseteq T, \A e \in T : Dependents(e) \subseteq T
        PROVE  k \in T
    BY <1>2, <2>2 DEF DownstreamOf
  <2> QED BY <2>1, <2>2 DEF DownstreamOf
<1> QED BY <1>1, <1>2

LEMMA SkipsReach ==
  /\ \A j \in Jobs : HasWhen(j) => j \in MaySkip
  /\ \A d \in MaySkip : Dependents(d) \subseteq MaySkip
BY DownstreamGrows DEF MaySkip

LEMMA UnderReach ==
  ASSUME NEW d
  PROVE  /\ Dependents(d) \subseteq Under(d) /\ Under(d) \subseteq Jobs
         /\ \A k \in Under(d) : Dependents(k) \subseteq Under(d)
<1>1. Dependents(d) \in SUBSET Jobs
  BY LoopSetsType
<1> QED BY <1>1, DownstreamGrows DEF Under

\* Without conditions nothing is skipped.
LEMMA NoConditionsMet ==
  ASSUME NoConditions
  PROVE  MaySkip = {} /\ MetOnce
<1>1. MaySkip = {}
  BY DEF NoConditions, MaySkip, DownstreamOf
<1> QED BY <1>1 DEF MetOnce

\* A foreach parent is no job of the expanded workflow.
LEMMA NoSiblingFails == \A j \in Jobs : FailedSiblings(j) = {}
<1> SUFFICES ASSUME NEW j \in Jobs, IsChild(j), FailFastSeen(j[1]) PROVE FALSE
  BY DEF FailedSiblings
<1> DEFINE g == j[1]
<1>1. g \in Foreach /\ <<g>> \in Jobs
  BY DEF IsChild, FailFastSeen, Plain
<1>2. ASSUME NEW y \in YamlJobs \ Foreach PROVE <<g>> # <<y>>
  BY <1>1
<1>3. ASSUME NEW h \in Foreach, NEW i \in 0 .. Items[h] - 1 PROVE <<g>> # <<h, i>>
  OBVIOUS
<1> QED BY <1>1, <1>2, <1>3 DEF Jobs, Children, Plain

-----------------------------------------------------------------------------
(* What a step does to a job                                               *)

Underway == pc \in {"seed", "roots", "ready", "recv", "visit", "cascade"}

\* A job that nothing stands in the way of.
Open(j) == /\ j \notin pre /\ status[j] = "pending"
           /\ \A d \in Deps[j] : Passed(d)

Starts(j) == Underway /\ Underway' /\ Open(j) /\ Launch(j)

Skips(j) ==
  /\ Underway /\ Underway' /\ Open(j)
  /\ HasWhen(j) \/ AnyDepSkipped(j)
  /\ Skip(j)

TakesOver(j) ==
  /\ Underway /\ Underway' /\ j \in pre /\ status[j] = "pending"
  /\ Record(j, "succeeded")
  /\ results' = [results EXCEPT ![j] = @ + 1]
  /\ UNCHANGED <<plan, runRow, ok, outputs, pool, hist>>

\* The event at the head of the channel is about j.
Settles(j, s) ==
  /\ Underway /\ channel # <<>> /\ j = Head(channel).task.job /\ channel' = Tail(channel)
  /\ Record(j, s)
  /\ outputs' = IF s = "succeeded" THEN outputs \cup {j} ELSE outputs
  /\ results' = [results EXCEPT ![j] = @ + 1]
  /\ IF s = "succeeded" THEN Underway' /\ ok' = ok ELSE pc' \in {"recv", "complete"} /\ ok' = FALSE
  /\ UNCHANGED <<plan, runRow, waiting, executing, hist>>

Rests ==
  /\ UNCHANGED <<plan, row, status, ok, outputs, results, hist>>
  /\ \/ UNCHANGED <<waiting, executing, channel>>
     \/ RunStops \/ TaskStops \/ \E t \in waiting : AcquirePermit(t)

LEMMA SettlesRunning ==
  ASSUME TypeOK, TokensInv, NEW j, NEW s, Settles(j, s)
  PROVE  /\ j \in Jobs /\ status[j] = "running" /\ launched[j] = 1
         /\ 1 \in DOMAIN channel /\ j = Sent(1)
<1>1. j \in Jobs /\ channel # <<>>
  BY EventType DEF Settles
<1>2. 1 \in DOMAIN channel /\ j = Sent(1)
  BY <1>1, EmptySeq, LenProperties DEF TypeOK, Sent, Settles
<1> QED BY <1>1, <1>2 DEF TokensInv

\* Nothing is ever cancelled, so that "all dependencies done" is what it says.
LEMMA DoneMeansPassed ==
  ASSUME StatusInv, NEW j \in Jobs
  PROVE  AllDone(j) <=> \A d \in Deps[j] : Passed(d)
<1>1. \A d \in Deps[j] : status[d] # "cancelled"
  BY DepsType DEF StatusInv
<1> QED BY <1>1 DEF AllDone, Passed

\* What each action that writes a row comes to.
LEMMA MovesOf ==
  ASSUME AccountingInv, OnceInv
  PROVE  /\ \A j \in todo : LaunchRoot(j) \/ LaunchReady(j) \/ LaunchDependent(j) => Starts(j)
         /\ \A j \in todo : SkipDependent(j) => Skips(j)
         /\ \A j \in todo : SeedPre(j) => TakesOver(j)
         /\ \A k \in below : /\ CascadeToSkip(k) => Skips(k)
                             /\ CascadeLaunch(k) => Starts(k)
         /\ ReceiveSucceeded => Settles(Head(channel).task.job, "succeeded")
         /\ ReceiveFailed => Settles(Head(channel).task.job, "failed")
<1> USE DEF AccountingInv, OnceInv, Goto, Drop, Below, Underway, Active, Ended, DriverPc,
            store, loop, book, pool, hist
<1>1. ASSUME NEW j \in todo, LaunchRoot(j) \/ LaunchReady(j) \/ LaunchDependent(j)
      PROVE  Starts(j)
  <2>1. j \in Jobs /\ Launch(j) /\ pc \in {"roots", "ready", "visit"} /\ pc' = pc
    BY <1>1 DEF LaunchRoot, LaunchReady, LaunchDependent, TypeOK
  <2>2. CASE LaunchRoot(j)
    <3>1. pc = "roots" /\ j \in Roots \ pre /\ launched[j] = 0
      BY <2>1, <2>2 DEF LaunchRoot, LoopInv, StatusInv
    <3>2. status[j] = "pending" /\ Deps[j] = {}
      BY <2>1, <3>1 DEF LoopInv, StatusInv, Roots
    <3> QED BY <2>1, <3>1, <3>2 DEF Starts, Open
  <2>3. CASE LaunchReady(j)
    <3>1. pc = "ready" /\ j \in ReadyJobs /\ launched[j] = 0
      BY <2>3 DEF LaunchReady, LoopInv
    <3>2. j \notin pre /\ Deps[j] \subseteq pre
      BY <3>1 DEF ReadyJobs
    <3>3. status[j] = "pending" /\ \A d \in Deps[j] : status[d] = "succeeded"
      BY <2>1, <3>1, <3>2 DEF LoopInv, StatusInv
    <3> QED BY <2>1, <3>2, <3>3 DEF Starts, Open, Passed
  <2>4. CASE LaunchDependent(j)
    <3>1. AllDone(j) /\ j \notin pre /\ status[j] = "pending"
      BY <1>1, <2>1, <2>4 DEF LaunchDependent, LoopInv, VisitInv, ToVisit
    <3> QED BY <2>1, <3>1, DoneMeansPassed DEF Starts, Open
  <2> QED BY <1>1, <2>1, <2>2, <2>3, <2>4
<1>2. ASSUME NEW j \in todo, SkipDependent(j) PROVE Skips(j)
  <2>1. /\ j \in Jobs /\ Skip(j) /\ pc = "visit" /\ pc' = "cascade" /\ AllDone(j) /\ ShouldSkip(j)
        /\ j \notin pre /\ status[j] = "pending"
    BY <1>2 DEF SkipDependent, LoopInv, VisitInv, ToVisit, TypeOK
  <2>2. HasWhen(j) \/ AnyDepSkipped(j)
    BY <2>1 DEF ShouldSkip
  <2> QED BY <2>1, <2>2, DoneMeansPassed DEF Skips, Open
<1>3. ASSUME NEW k \in below, CascadeToSkip(k) \/ CascadeLaunch(k)
      PROVE  (CascadeToSkip(k) => Skips(k)) /\ (CascadeLaunch(k) => Starts(k))
  <2>1. /\ k \in Jobs /\ pc = "cascade" /\ pc' = pc /\ AllDone(k) /\ status[k] = "pending"
        /\ Skip(k) \/ Launch(k)
    BY <1>3 DEF CascadeToSkip, CascadeLaunch, TypeOK
  <2>2. k \notin pre /\ AnyDepSkipped(k)
    BY <2>1 DEF LoopInv, VisitInv
  <2>3. Underway /\ Underway' /\ Open(k)
    BY <2>1, <2>2, DoneMeansPassed DEF Open
  <2>4. CascadeToSkip(k) => Skip(k)
    BY DEF CascadeToSkip
  <2>5. CascadeLaunch(k) => Launch(k)
    BY DEF CascadeLaunch
  <2> QED BY <2>2, <2>3, <2>4, <2>5 DEF Skips, Starts
<1>4. ASSUME NEW j \in todo, SeedPre(j) PROVE TakesOver(j)
  <2>1. pc = "seed" /\ j \in pre /\ status[j] = "pending" /\ j \in Jobs
    BY <1>4 DEF SeedPre, LoopInv, TypeOK
  <2> QED BY <1>4, <2>1 DEF SeedPre, TakesOver
<1>5. ASSUME ReceiveSucceeded PROVE Settles(Head(channel).task.job, "succeeded")
  BY <1>5, EventType DEF ReceiveSucceeded, Settles
<1>6. ASSUME ReceiveFailed PROVE Settles(Head(channel).task.job, "failed")
  <2> DEFINE j == Head(channel).task.job
  <2>1. j \in Jobs /\ FailedSiblings(j) = {}
    BY <1>6, EventType, NoSiblingFails DEF ReceiveFailed
  <2>2. /\ row' = [k \in Jobs |-> IF k = j THEN "failed" ELSE row[k]]
        /\ status' = [k \in Jobs |-> IF k = j THEN "failed" ELSE status[k]]
    BY <1>6, <2>1 DEF ReceiveFailed
  <2>3. Record(j, "failed")
    BY <2>2 DEF Record, TypeOK
  <2> QED BY <1>6, <2>1, <2>3 DEF ReceiveFailed, Settles
<1> QED BY <1>1, <1>2, <1>3, <1>4, <1>5, <1>6

\* Every step moves one job, or none, or is a retry.
LEMMA JobMoves ==
  ASSUME AccountingInv, OnceInv, [Next]_vars
  PROVE  \/ \E j \in Jobs : \/ Starts(j) \/ Skips(j) \/ TakesOver(j)
                            \/ \E s \in {"succeeded", "failed"} : Settles(j, s)
         \/ Rests
         \/ \E n \in JobNames : Retry(n)
<1> USE DEF AccountingInv, OnceInv, Goto, Drop, Below, store, loop, book, pool, hist
<1>1. ASSUME \/ CreateRun \/ SeedDone \/ RootsDone \/ ReadyDone \/ LoopDone \/ VisitDone
             \/ CascadePop \/ CascadeDone
             \/ (\E j \in todo : PassOver(j)) \/ (\E k \in below : CascadePassOver(k))
             \/ UNCHANGED vars
      PROVE  Rests
  BY <1>1 DEF CreateRun, SeedDone, RootsDone, ReadyDone, LoopDone, VisitDone, CascadePop,
              CascadeDone, PassOver, CascadePassOver, Rests, vars
<1>2. ASSUME CompleteRun \/ StoreError \/ ProcessEnds PROVE Rests
  <2>1. RunStops
    BY <1>2 DEF CompleteRun, StoreError, ProcessEnds, RunStops, TypeOK, plan,
                Active, Ended, DriverPc
  <2> QED BY <1>2, <2>1 DEF CompleteRun, StoreError, ProcessEnds, Rests
<1>3. ASSUME TaskStep PROVE Rests
  <2>1. TaskStops \/ \E t \in waiting : AcquirePermit(t)
    BY <1>3 DEF TaskStep, Leaves, TaskEnds, PreflightFails, TaskStops, plan
  <2> QED BY <1>3, <2>1 DEF TaskStep, Leaves, AcquirePermit, TaskEnds, PreflightFails, Rests
<1>4. ASSUME NEW j \in todo, \/ SeedPre(j) \/ LaunchRoot(j) \/ LaunchReady(j)
                             \/ LaunchDependent(j) \/ SkipDependent(j)
      PROVE  \E i \in Jobs : Starts(i) \/ Skips(i) \/ TakesOver(i)
  BY <1>4, MovesOf DEF TypeOK
<1>5. ASSUME NEW k \in below, CascadeToSkip(k) \/ CascadeLaunch(k)
      PROVE  \E i \in Jobs : Starts(i) \/ Skips(i)
  BY <1>5, MovesOf DEF TypeOK
<1>6. ASSUME ReceiveSucceeded \/ ReceiveFailed
      PROVE  \E i \in Jobs : \E s \in {"succeeded", "failed"} : Settles(i, s)
  <2>1. Head(channel).task.job \in Jobs
    BY <1>6, EventType DEF ReceiveSucceeded, ReceiveFailed
  <2> QED BY <1>6, <2>1, MovesOf
<1>7. CASE TaskStep \/ StoreError \/ ProcessEnds \/ UNCHANGED vars
  BY <1>1, <1>2, <1>3, <1>7
<1>8. CASE DriverStep
  BY <1>1, <1>2, <1>4, <1>5, <1>6, <1>8 DEF DriverStep
<1>9. CASE \E n \in JobNames : Retry(n)
  BY <1>9
<1> QED BY <1>7, <1>8, <1>9 DEF Next, Disturbance

-----------------------------------------------------------------------------
(* Statuses and tokens                                                     *)

\* A job that moves on leaves what the others rest on as it is.
LEMMA PassedStays ==
  ASSUME TypeOK, NEW j \in Jobs, NEW s, Record(j, s), status[j] \in {"pending", "running"}
  PROVE  \A d \in Jobs : /\ d # j => status'[d] = status[d] /\ row'[d] = row[d]
                         /\ Passed(d) => d # j /\ Passed(d)'
BY DEF Record, TypeOK, Passed

LEMMA StatusMoves ==
  ASSUME TypeOK, StatusInv, NEW j \in Jobs, NEW s \in {"running", "succeeded", "failed", "skipped"},
         Record(j, s), status[j] \in {"pending", "running"}, pre' = pre,
         launched'[j] \in {0, 1}, \A k \in Jobs \ {j} : launched'[k] = launched[k],
         j \in pre => launched'[j] = 0 /\ s = "succeeded",
         j \notin pre => (launched'[j] = 0 <=> s = "skipped"),
         launched'[j] = 1 \/ s = "skipped" => \A d \in Deps[j] : Passed(d),
         s = "skipped" => j \in MaySkip
  PROVE  StatusInv'
<1>1. status'[j] = s /\ row'[j] = s
  BY DEF Record, TypeOK
<1>2. ASSUME NEW k \in Jobs, launched'[k] = 1 \/ status'[k] = "skipped"
      PROVE  \A d \in Deps[k] : Passed(d)'
  <2>1. \A d \in Deps[k] : Passed(d)
    BY <1>1, <1>2, PassedStays DEF StatusInv
  <2> QED BY <2>1, <1>2, PassedStays, DepsType
<1> QED BY <1>1, <1>2, PassedStays DEF StatusInv

LEMMA StatusNext == AccountingInv /\ OnceInv /\ [Next]_vars => StatusInv'
<1> SUFFICES ASSUME AccountingInv, OnceInv, [Next]_vars PROVE StatusInv'
  OBVIOUS
<1> USE DEF AccountingInv, OnceInv, plan, hist
<1>1. ASSUME NEW j \in Jobs, Starts(j) PROVE StatusInv'
  <2>1. /\ Record(j, "running") /\ pre' = pre /\ launched' = [launched EXCEPT ![j] = @ + 1]
        /\ j \notin pre /\ status[j] = "pending" /\ \A d \in Deps[j] : Passed(d)
    BY <1>1 DEF Starts, Open, Launch
  <2>2. launched[j] = 0
    BY <2>1 DEF StatusInv
  <2>3. launched'[j] = 1 /\ \A k \in Jobs \ {j} : launched'[k] = launched[k]
    BY <2>1, <2>2 DEF TypeOK
  <2> QED BY <2>1, <2>3, StatusMoves
<1>2. ASSUME NEW j \in Jobs, Skips(j) PROVE StatusInv'
  <2>1. /\ Record(j, "skipped") /\ pre' = pre /\ launched' = launched
        /\ j \notin pre /\ status[j] = "pending" /\ \A d \in Deps[j] : Passed(d)
    BY <1>2 DEF Skips, Open, Skip
  <2>2. launched[j] = 0
    BY <2>1 DEF StatusInv
  <2>3. j \in MaySkip
    <3>1. CASE HasWhen(j)
      BY <3>1, SkipsReach
    <3>2. CASE AnyDepSkipped(j)
      <4>1. PICK d \in Deps[j] : d \in Jobs /\ status[d] = "skipped"
        BY <3>2, DepsType DEF AnyDepSkipped
      <4>2. d \in MaySkip /\ j \in Dependents(d)
        BY <4>1 DEF StatusInv, Dependents
      <4> QED BY <4>2, SkipsReach
    <3> QED BY <1>2, <3>1, <3>2 DEF Skips
  <2> QED BY <2>1, <2>2, <2>3, StatusMoves DEF TypeOK
<1>3. ASSUME NEW j \in Jobs, TakesOver(j) PROVE StatusInv'
  <2>1. /\ Record(j, "succeeded") /\ pre' = pre /\ launched' = launched
        /\ j \in pre /\ status[j] = "pending" /\ launched[j] = 0
    BY <1>3 DEF TakesOver, StatusInv
  <2> QED BY <2>1, StatusMoves DEF TypeOK
<1>4. ASSUME NEW j \in Jobs, NEW s \in {"succeeded", "failed"}, Settles(j, s) PROVE StatusInv'
  <2>1. Record(j, s) /\ pre' = pre /\ launched' = launched
    BY <1>4 DEF Settles
  <2>2. status[j] = "running" /\ launched[j] = 1
    BY <1>4, SettlesRunning
  <2>3. j \notin pre /\ \A d \in Deps[j] : Passed(d)
    BY <2>2 DEF StatusInv
  <2> QED BY <2>1, <2>2, <2>3, StatusMoves DEF TypeOK
<1>5. CASE Rests
  BY <1>5 DEF Rests, StatusInv, Passed
<1>6. ASSUME NEW n \in JobNames, Retry(n) PROVE StatusInv'
  BY <1>6 DEF Retry, StatusInv
<1> QED BY <1>1, <1>2, <1>3, <1>4, <1>5, <1>6, JobMoves

\* A task is known by its job, once no job is launched twice.
LEMMA AliveUnique ==
  ASSUME TypeOK, TasksInv, TokensInv, NEW s \in Alive, NEW t \in Alive, s.job = t.job
  PROVE  s = t
<1>1. s \in TaskId /\ t \in TaskId /\ s.run = attempt /\ t.run = attempt
  BY DEF Alive, Mine, TypeOK
<1>2. s.nth = 1 /\ t.nth = 1
  BY <1>1 DEF Alive, Mine, TasksInv, TokensInv, TaskId
<1> QED BY <1>1, <1>2 DEF TaskId

\* The jobs that tasks and events stand for.
LEMMA TokenJobs ==
  ASSUME TypeOK
  PROVE  /\ \A t \in Alive : t.job \in Jobs
         /\ \A i \in DOMAIN channel : Sent(i) \in Jobs
<1>1. \A i \in DOMAIN channel : channel[i] \in Event
  BY DEF TypeOK
<1> QED BY <1>1 DEF Alive, Mine, TypeOK, Sent, Event, TaskId

LEMMA TokensOnStart ==
  ASSUME AccountingInv, StatusInv, TokensInv, NEW j \in Jobs, Starts(j)
  PROVE  TokensInv'
<1> USE DEF AccountingInv, plan
<1>1. /\ status[j] = "pending" /\ launched[j] = 0
      /\ status' = [status EXCEPT ![j] = "running"]
      /\ launched' = [launched EXCEPT ![j] = @ + 1]
      /\ waiting' = waiting \cup {Task(j)}
      /\ UNCHANGED <<attempt, executing, channel>>
  BY DEF Starts, Open, Launch, Record, StatusInv
<1>2. /\ status'[j] = "running" /\ launched'[j] = 1
      /\ \A k \in Jobs \ {j} : status'[k] = status[k] /\ launched'[k] = launched[k]
  BY <1>1 DEF TypeOK
<1>3. Alive' = Alive \cup {Task(j)} /\ Task(j).job = j
  BY <1>1 DEF Alive, Mine, Task
<1>4. \A t \in Alive : t.job \in Jobs /\ t.job # j
  BY <1>1, TokenJobs DEF TokensInv
<1>5. \A i \in DOMAIN channel : Sent(i) \in Jobs /\ Sent(i) # j /\ Sent(i)' = Sent(i)
  BY <1>1, TokenJobs DEF TokensInv, Sent
<1>6. \A t \in Alive' : status'[t.job] = "running" /\ launched'[t.job] = 1
  BY <1>2, <1>3, <1>4 DEF TokensInv
<1>7. ASSUME NEW i \in DOMAIN channel
      PROVE  /\ status'[Sent(i)'] = "running" /\ launched'[Sent(i)'] = 1
             /\ \A t \in Alive' : t.job # Sent(i)'
             /\ \A k \in DOMAIN channel : Sent(k)' = Sent(i)' => k = i
  BY <1>2, <1>3, <1>5 DEF TokensInv
<1> QED BY <1>1, <1>6, <1>7 DEF TokensInv

\* A status that changes from pending without a launch is no token's.
LEMMA TokensOnRecord ==
  ASSUME TypeOK, TokensInv, NEW j \in Jobs, NEW s, Record(j, s), status[j] = "pending",
         UNCHANGED <<attempt, waiting, executing, channel, launched>>
  PROVE  TokensInv'
<1>1. Alive' = Alive /\ \A i \in DOMAIN channel : Sent(i)' = Sent(i)
  BY DEF Alive, Mine, Sent
<1>2. /\ \A t \in Alive : t.job \in Jobs /\ t.job # j
      /\ \A i \in DOMAIN channel : Sent(i) \in Jobs /\ Sent(i) # j
  BY TokenJobs DEF TokensInv
<1>3. \A k \in Jobs \ {j} : status'[k] = status[k]
  BY DEF Record, TypeOK
<1> QED BY <1>1, <1>2, <1>3 DEF TokensInv

\* What is left of the channel when its head has been received.
LEMMA TailSent ==
  ASSUME TypeOK, channel # <<>>, channel' = Tail(channel)
  PROVE  /\ \A i \in DOMAIN channel' : /\ i \in Nat /\ i + 1 \in DOMAIN channel
                                       /\ Sent(i)' = Sent(i + 1)
         /\ \A i \in DOMAIN channel : i # 1 => i - 1 \in DOMAIN channel' /\ Sent(i - 1)' = Sent(i)
<1>1. channel \in Seq(Event) /\ Len(channel) \in Nat /\ Len(channel) > 0
  BY EmptySeq, LenProperties DEF TypeOK
<1>2. /\ Tail(channel) \in Seq(Event) /\ Len(Tail(channel)) = Len(channel) - 1
      /\ \A n \in 1 .. Len(Tail(channel)) : Tail(channel)[n] = channel[n + 1]
  BY <1>1, HeadTailProperties
<1>3. DOMAIN channel' = 1 .. Len(channel) - 1 /\ DOMAIN channel = 1 .. Len(channel)
  BY <1>1, <1>2, LenProperties
<1>4. ASSUME NEW i \in DOMAIN channel'
      PROVE  i \in Nat /\ i + 1 \in DOMAIN channel /\ Sent(i)' = Sent(i + 1)
  <2>1. i \in Nat /\ i + 1 \in DOMAIN channel /\ i \in 1 .. Len(Tail(channel))
    BY <1>1, <1>2, <1>3
  <2>2. channel'[i] = channel[i + 1]
    BY <1>2, <2>1
  <2> QED BY <2>1, <2>2 DEF Sent
<1>5. ASSUME NEW i \in DOMAIN channel, i # 1
      PROVE  i - 1 \in DOMAIN channel' /\ Sent(i - 1)' = Sent(i)
  <2>1. i - 1 \in DOMAIN channel' /\ (i - 1) + 1 = i
    BY <1>1, <1>3, <1>5
  <2> QED BY <2>1, <1>4
<1> QED BY <1>4, <1>5

LEMMA TokensOnSettle ==
  ASSUME AccountingInv, TokensInv, NEW j \in Jobs, NEW s, Settles(j, s)
  PROVE  TokensInv'
<1> USE DEF AccountingInv, plan, hist
<1>1. /\ channel # <<>> /\ channel' = Tail(channel) /\ UNCHANGED <<attempt, launched>>
      /\ \A k \in Jobs \ {j} : status'[k] = status[k]
  BY DEF Settles, Record, TypeOK
<1>2. Alive' = Alive
  BY DEF Settles, Alive, Mine
<1>3. 1 \in DOMAIN channel /\ j = Sent(1)
  BY SettlesRunning
<1>4. \A t \in Alive : t.job \in Jobs /\ t.job # j
  BY <1>3, TokenJobs DEF TokensInv
<1>5. ASSUME NEW i \in DOMAIN channel'
      PROVE  /\ i \in Nat /\ i + 1 \in DOMAIN channel /\ Sent(i)' = Sent(i + 1)
             /\ Sent(i)' \in Jobs /\ Sent(i)' # j
  <2>1. i \in Nat /\ i + 1 \in DOMAIN channel /\ Sent(i)' = Sent(i + 1)
    BY <1>1, TailSent
  <2>2. i + 1 # 1
    <3>1. channel' \in Seq(Event)
      BY <1>1, EventType
    <3>2. i >= 1
      BY <3>1, LenProperties
    <3> QED BY <2>1, <3>2
  <2> QED BY <2>1, <2>2, <1>3, TokenJobs DEF TokensInv
<1>6. \A t \in Alive' : status'[t.job] = "running" /\ launched'[t.job] = 1
  BY <1>1, <1>2, <1>4 DEF TokensInv
<1>7. ASSUME NEW i \in DOMAIN channel'
      PROVE  /\ status'[Sent(i)'] = "running" /\ launched'[Sent(i)'] = 1
             /\ \A t \in Alive' : t.job # Sent(i)'
  BY <1>1, <1>2, <1>5 DEF TokensInv
<1>8. ASSUME NEW i \in DOMAIN channel', NEW k \in DOMAIN channel', Sent(k)' = Sent(i)'
      PROVE  k = i
  <2>1. k + 1 = i + 1
    BY <1>5, <1>8 DEF TokensInv
  <2> QED BY <1>5, <2>1
<1> QED BY <1>6, <1>7, <1>8 DEF TokensInv

LEMMA TokensOnStop ==
  ASSUME TokensInv, RunStops, UNCHANGED status
  PROVE  TokensInv'
<1>1. Alive' \subseteq Alive /\ DOMAIN channel' = {}
  BY DEF RunStops, Alive, Mine
<1> QED BY <1>1 DEF TokensInv, RunStops

LEMMA TokensOnTask ==
  ASSUME TypeOK, TasksInv, TokensInv, UNCHANGED status,
         TaskStops \/ (\E t \in waiting : AcquirePermit(t))
  PROVE  TokensInv'
<1>1. ASSUME NEW t \in waiting, AcquirePermit(t) PROVE TokensInv'
  <2>1. Alive' = Alive /\ UNCHANGED <<channel, launched>>
    BY <1>1 DEF AcquirePermit, Alive, Mine, plan, hist
  <2> QED BY <2>1 DEF TokensInv, Sent
<1>2. CASE TaskStops
  <2>1. PICK t \in executing, b \in BOOLEAN :
          /\ executing' = executing \ {t} /\ Send(t, b)
          /\ UNCHANGED <<attempt, waiting, inFlight, launched, pc>>
    BY <1>2 DEF TaskStops
  <2>2. Alive' = Alive \ {t}
    BY <2>1 DEF Alive, Mine, TasksInv
  <2>3. CASE channel' = channel
    BY <2>1, <2>2, <2>3 DEF TokensInv, Sent
  <2>4. CASE t.run = attempt /\ channel' = Append(channel, [task |-> t, succeeded |-> b])
    <3>1. t \in Alive
      BY <2>1, <2>4 DEF Alive, Mine
    <3>2. channel \in Seq(Event) /\ [task |-> t, succeeded |-> b] \in Event
      BY <2>1 DEF TypeOK, Event
    <3>0. PICK n \in Nat : n = Len(channel) + 1
      BY <3>2, LenProperties
    <3>3. DOMAIN channel = 1 .. n - 1 /\ DOMAIN channel' = 1 .. n
      BY <2>4, <3>0, <3>2, AppendProperties, LenProperties
    <3>4. Sent(n)' = t.job /\ \A i \in DOMAIN channel : Sent(i)' = Sent(i)
      <4>1. channel'[n] = [task |-> t, succeeded |-> b]
        BY <2>4, <3>0, <3>2, AppendProperties
      <4>2. \A i \in 1 .. Len(channel) : channel'[i] = channel[i]
        BY <2>4, <3>2, AppendProperties
      <4>3. DOMAIN channel = 1 .. Len(channel)
        BY <3>2, LenProperties
      <4> QED BY <4>1, <4>2, <4>3 DEF Sent
    <3>5. \A u \in Alive' : u \in Alive /\ u.job # t.job
      BY <2>2, <3>1, AliveUnique
    <3>6. \A i \in DOMAIN channel : Sent(i) # t.job
      BY <3>1 DEF TokensInv
    <3>7. status[t.job] = "running" /\ launched[t.job] = 1
      BY <3>1 DEF TokensInv
    <3>8. ASSUME NEW i \in DOMAIN channel'
          PROVE  /\ status'[Sent(i)'] = "running" /\ launched'[Sent(i)'] = 1
                 /\ \A u \in Alive' : u.job # Sent(i)'
                 /\ \A k \in DOMAIN channel' : Sent(k)' = Sent(i)' => k = i
      <4>1. i = n \/ i \in DOMAIN channel
        BY <3>3
      <4>2. \A k \in DOMAIN channel' : k = n \/ k \in DOMAIN channel
        BY <3>3
      <4>3. CASE i = n
        <5>1. Sent(i)' = t.job
          BY <3>4, <4>3
        <5> QED BY <5>1, <4>2, <4>3, <2>1, <3>4, <3>5, <3>6, <3>7
      <4>4. CASE i \in DOMAIN channel
        <5>1. Sent(i)' = Sent(i) /\ Sent(i) # t.job
          BY <3>4, <3>6, <4>4
        <5>2. status[Sent(i)] = "running" /\ launched[Sent(i)] = 1
          BY <4>4 DEF TokensInv
        <5>3. \A u \in Alive' : u.job # Sent(i)
          BY <3>5, <4>4 DEF TokensInv
        <5>4. \A k \in DOMAIN channel' : Sent(k)' = Sent(i) => k = i
          BY <4>2, <4>4, <3>4, <5>1 DEF TokensInv
        <5> QED BY <5>1, <5>2, <5>3, <5>4, <2>1
      <4> QED BY <4>1, <4>3, <4>4
    <3>9. \A u \in Alive' : status'[u.job] = "running" /\ launched'[u.job] = 1
      BY <2>1, <3>5 DEF TokensInv
    <3> QED BY <3>8, <3>9 DEF TokensInv
  <2> QED BY <2>1, <2>3, <2>4 DEF Send
<1> QED BY <1>1, <1>2

LEMMA TokensNext == AccountingInv /\ OnceInv /\ [Next]_vars => TokensInv'
<1> SUFFICES ASSUME AccountingInv, OnceInv, [Next]_vars PROVE TokensInv'
  OBVIOUS
<1> USE DEF AccountingInv, OnceInv, plan, pool, hist
<1>1. ASSUME NEW j \in Jobs, Starts(j) PROVE TokensInv'
  BY <1>1, TokensOnStart
<1>2. ASSUME NEW j \in Jobs, Skips(j) \/ TakesOver(j) PROVE TokensInv'
  <2>1. \E s : Record(j, s)
    BY <1>2 DEF Skips, TakesOver, Skip
  <2>2. status[j] = "pending" /\ UNCHANGED <<attempt, waiting, executing, channel, launched>>
    BY <1>2 DEF Skips, TakesOver, Skip, Open
  <2> QED BY <2>1, <2>2, TokensOnRecord
<1>3. ASSUME NEW j \in Jobs, NEW s, Settles(j, s) PROVE TokensInv'
  BY <1>3, TokensOnSettle
<1>4. CASE Rests
  <2>1. CASE UNCHANGED <<waiting, executing, channel>>
    BY <1>4, <2>1 DEF Rests, TokensInv, Alive, Mine, Sent
  <2> QED BY <1>4, <2>1, TokensOnStop, TokensOnTask DEF Rests
<1>5. ASSUME NEW n \in JobNames, Retry(n) PROVE TokensInv'
  <2>1. attempt' = attempt + 1 /\ channel' = <<>> /\ UNCHANGED <<waiting, executing>>
    BY <1>5 DEF Retry, TasksInv
  <2>2. attempt \in Nat /\ \A t \in waiting \cup executing : t.run \in Nat
    BY SchedulerAssumption DEF TypeOK, TaskId
  <2>3. Alive' = {} /\ DOMAIN channel' = {}
    BY <2>1, <2>2 DEF Alive, Mine, TasksInv
  <2> QED BY <2>3 DEF TokensInv
<1> QED BY <1>1, <1>2, <1>3, <1>4, <1>5, JobMoves

-----------------------------------------------------------------------------
(* The loops                                                               *)

LEMMA QueuedTail ==
  ASSUME TypeOK, queue # <<>>, queue' = Tail(queue)
  PROVE  /\ Head(queue) \in Queued /\ Queued' \subseteq Queued
         /\ Queued \subseteq Queued' \cup {Head(queue)}
<1>1. queue \in Seq(Jobs) /\ Len(queue) \in Nat /\ Len(queue) > 0
  BY EmptySeq, LenProperties DEF TypeOK
<1>2. /\ Tail(queue) \in Seq(Jobs) /\ Len(Tail(queue)) = Len(queue) - 1
      /\ \A n \in 1 .. Len(Tail(queue)) : Tail(queue)[n] = queue[n + 1]
      /\ Head(queue) = queue[1]
  BY <1>1, HeadTailProperties
<1>3. DOMAIN queue' = 1 .. Len(queue) - 1 /\ DOMAIN queue = 1 .. Len(queue)
  BY <1>1, <1>2, LenProperties
<1>4. \A i \in DOMAIN queue' : i + 1 \in DOMAIN queue /\ queue'[i] = queue[i + 1]
  BY <1>1, <1>2, <1>3
<1>5. ASSUME NEW i \in DOMAIN queue, i # 1 PROVE i - 1 \in DOMAIN queue' /\ queue'[i - 1] = queue[i]
  <2>1. i - 1 \in DOMAIN queue' /\ (i - 1) + 1 = i
    BY <1>1, <1>3, <1>5
  <2> QED BY <2>1, <1>4
<1>6. 1 \in DOMAIN queue
  BY <1>1, <1>3
<1>7. Queued = {queue[i] : i \in DOMAIN queue} /\ Queued' = {queue'[i] : i \in DOMAIN queue'}
  BY DEF Queued
<1>8. Head(queue) \in Queued
  BY <1>2, <1>6, <1>7
<1>9. Queued' \subseteq Queued
  BY <1>4, <1>7
<1>10. ASSUME NEW i \in DOMAIN queue PROVE queue[i] \in Queued' \cup {Head(queue)}
  <2>1. CASE i = 1
    BY <2>1, <1>2
  <2>2. CASE i # 1
    BY <2>2, <1>5, <1>7
  <2> QED BY <2>1, <2>2
<1> QED BY <1>7, <1>8, <1>9, <1>10

LEMMA QueuedAppend ==
  ASSUME TypeOK, NEW k \in Jobs, queue' = Append(queue, k)
  PROVE  Queued' = Queued \cup {k}
<1>1. queue \in Seq(Jobs) /\ Len(queue) \in Nat
  BY LenProperties DEF TypeOK
<1>2. /\ Append(queue, k) \in Seq(Jobs) /\ Len(Append(queue, k)) = Len(queue) + 1
      /\ \A i \in 1 .. Len(queue) : Append(queue, k)[i] = queue[i]
      /\ Append(queue, k)[Len(queue) + 1] = k
  BY <1>1, AppendProperties
<1>3. DOMAIN queue' = 1 .. Len(queue) + 1 /\ DOMAIN queue = 1 .. Len(queue)
  BY <1>1, <1>2, LenProperties
<1>4. \A i \in DOMAIN queue' : i \in DOMAIN queue \/ i = Len(queue) + 1
  BY <1>1, <1>3
<1>5. \A i \in DOMAIN queue : i \in DOMAIN queue' /\ queue'[i] = queue[i]
  BY <1>1, <1>2, <1>3
<1>6. Len(queue) + 1 \in DOMAIN queue' /\ queue'[Len(queue) + 1] = k
  BY <1>1, <1>2, <1>3
<1> QED BY <1>4, <1>5, <1>6 DEF Queued

\* A turn of the visit, without a skip.
LEMMA VisitTurn ==
  ASSUME TypeOK, VisitInv, pc' = "visit", pre' = pre, NEW j \in todo, todo' = todo \ {j},
         \A k \in Jobs \ {j} : status'[k] = status[k]
  PROVE  VisitInv'
BY DEF VisitInv, ToVisit, TypeOK

\* The first skip of a cascade: nothing below it is on the list of the visit.
LEMMA CascadeStarts ==
  ASSUME TypeOK, StatusInv', LoopInv, NEW j \in todo, SkipDependent(j)
  PROVE  VisitInv'
<1>1. /\ pc = "visit" /\ todo' = todo \ {j} /\ queue' = <<j>> /\ below' = below /\ pre' = pre
      /\ Record(j, "skipped") /\ j \in Jobs
  BY DEF SkipDependent, Skip, plan, TypeOK
<1>2. status'[j] = "skipped" /\ \A k \in Jobs \ {j} : status'[k] = status[k]
  BY <1>1 DEF Record, TypeOK
<1>3. PICK x \in Jobs : todo \subseteq ToVisit(x) /\ \A k \in todo : status[k] = "pending"
  BY <1>1 DEF LoopInv, VisitInv
<1>4. j \in Dependents(x) \cap MaySkip
  BY <1>1, <1>2, <1>3 DEF ToVisit, StatusInv
<1>5. Queued' = {j} /\ below' = {}
  <2>1. DOMAIN queue' = {1} /\ queue'[1] = j
    BY <1>1
  <2> QED BY <1>1, <2>1 DEF LoopInv, Queued
<1>6. todo' \subseteq ToVisit(x)' /\ \A k \in todo' : status'[k] = "pending"
  BY <1>1, <1>2, <1>3 DEF ToVisit, TypeOK
<1>7. \A s \in Queued' : status'[s] = "skipped"
  BY <1>2, <1>5
<1> QED BY <1>4, <1>5, <1>6, <1>7 DEF VisitInv

\* A turn of the cascade over k, which is launched, skipped or passed over.
LEMMA CascadeTurn ==
  ASSUME MetOnce, TypeOK, VisitInv, pc = "cascade", pc' = "cascade", pre' = pre, todo' = todo,
         NEW k \in below, below' = below \ {k}, k \in Jobs,
         \A i \in Jobs \ {k} : status'[i] = status[i],
         status'[k] = status[k] \/ status[k] = "pending",
         Queued' = Queued \/ (Queued' = Queued \cup {k} /\ status'[k] = "skipped")
  PROVE  VisitInv'
<1>1. PICK x \in Jobs : \E d \in Dependents(x) \cap MaySkip :
         /\ todo \subseteq ToVisit(x) /\ \A j \in todo : status[j] = "pending"
         /\ Queued \subseteq Under(d) \cup {d} /\ \A s \in Queued : status[s] = "skipped"
         /\ below \subseteq Under(d) \ pre /\ \A i \in below : AnyDepSkipped(i)
  BY DEF VisitInv
<1>2. PICK d \in Dependents(x) \cap MaySkip :
         /\ todo \subseteq ToVisit(x) /\ \A j \in todo : status[j] = "pending"
         /\ Queued \subseteq Under(d) \cup {d} /\ \A s \in Queued : status[s] = "skipped"
         /\ below \subseteq Under(d) \ pre /\ \A i \in below : AnyDepSkipped(i)
  BY <1>1
<1>3. k \notin todo
  BY <1>2 DEF MetOnce, ToVisit
<1>4. todo' \subseteq ToVisit(x)' /\ \A j \in todo' : status'[j] = "pending"
  BY <1>2, <1>3 DEF ToVisit, TypeOK
<1>5. Queued \subseteq Jobs
  BY <1>2, UnderReach, LoopSetsType
<1>6. Queued' \subseteq Under(d) \cup {d} /\ \A s \in Queued' : status'[s] = "skipped"
  BY <1>2, <1>5
<1>7. \A i \in Jobs : status[i] = "skipped" => status'[i] = "skipped"
  OBVIOUS
<1>8. \A i \in below' : AnyDepSkipped(i)'
  <2>1. ASSUME NEW i \in below' PROVE AnyDepSkipped(i)'
    <3>1. i \in Jobs /\ \E e \in Deps[i] : status[e] = "skipped"
      BY <1>2 DEF AnyDepSkipped, TypeOK
    <3> QED BY <3>1, <1>7, DepsType DEF AnyDepSkipped
  <2> QED BY <2>1
<1>9. below' \subseteq Under(d) \ pre'
  BY <1>2
<1> QED BY <1>4, <1>6, <1>8, <1>9 DEF VisitInv

\* The cascade goes on to what waits for the job at the head of its queue.
LEMMA CascadePops ==
  ASSUME TypeOK, VisitInv, CascadePop
  PROVE  VisitInv'
<1>1. /\ pc = "cascade" /\ pc' = pc /\ todo' = todo /\ pre' = pre /\ status' = status
      /\ queue # <<>> /\ queue' = Tail(queue) /\ below' = ToVisit(Head(queue))
  BY DEF CascadePop, plan, book
<1>2. Head(queue) \in Queued /\ Queued' \subseteq Queued
  BY <1>1, QueuedTail
<1>3. PICK x \in Jobs :
         /\ todo \subseteq ToVisit(x) /\ \A j \in todo : status[j] = "pending"
         /\ \E d \in Dependents(x) \cap MaySkip :
              Queued \subseteq Under(d) \cup {d} /\ \A s \in Queued : status[s] = "skipped"
  BY <1>1 DEF VisitInv
<1>4. PICK d \in Dependents(x) \cap MaySkip :
         Queued \subseteq Under(d) \cup {d} /\ \A s \in Queued : status[s] = "skipped"
  BY <1>3
<1>5. Dependents(Head(queue)) \subseteq Under(d) /\ status[Head(queue)] = "skipped"
  BY <1>2, <1>4, UnderReach
<1>6. below' \subseteq Under(d) \ pre' /\ \A k \in below' : AnyDepSkipped(k)'
  BY <1>1, <1>5 DEF ToVisit, Dependents, AnyDepSkipped
<1>7. Queued' \subseteq Under(d) \cup {d} /\ \A s \in Queued' : status'[s] = "skipped"
  BY <1>1, <1>2, <1>4
<1>8. todo' \subseteq ToVisit(x)' /\ \A j \in todo' : status'[j] = "pending"
  BY <1>1, <1>3 DEF ToVisit
<1> QED BY <1>6, <1>7, <1>8 DEF VisitInv

LEMMA LoopNext == MetOnce /\ AccountingInv /\ OnceInv /\ [Next]_vars => LoopInv'
<1> SUFFICES ASSUME MetOnce, AccountingInv, OnceInv, [Next]_vars PROVE LoopInv'
  OBVIOUS
<1>0. TypeOK /\ StatusInv /\ TokensInv /\ LoopInv /\ StatusInv'
  BY StatusNext DEF AccountingInv, OnceInv
<1> USE <1>0 DEF Goto, Drop, Below, plan, store, loop, book, pool, hist
<1>1. CASE CreateRun \/ SeedDone \/ RootsDone \/ ReadyDone \/ LoopDone \/ VisitDone
  <2>0. pre \subseteq Jobs /\ queue = <<>> /\ below = {}
    BY <1>1 DEF CreateRun, SeedDone, RootsDone, ReadyDone, LoopDone, VisitDone, LoopInv, TypeOK
  <2>1. UNCHANGED <<pre, status, row, launched, queue, below>>
    BY <1>1 DEF CreateRun, SeedDone, RootsDone, ReadyDone, LoopDone, VisitDone
  <2>2. ASSUME CreateRun PROVE LoopInv'
    <3>1. pc = "create" /\ pc' = "seed" /\ todo' = pre
      BY <2>2 DEF CreateRun
    <3>2. \A j \in Jobs : launched[j] = 0
      BY <3>1 DEF LoopInv, StatusInv
    <3> QED BY <2>0, <2>1, <3>1, <3>2 DEF LoopInv
  <2>3. ASSUME SeedDone PROVE LoopInv'
    <3>1. pc = "seed" /\ pc' = "roots" /\ todo = {} /\ todo' = Roots \ pre
      BY <2>3 DEF SeedDone
    <3> QED BY <2>0, <2>1, <3>1 DEF LoopInv
  <2>4. ASSUME RootsDone PROVE LoopInv'
    <3>1. pc = "roots" /\ pc' = "ready" /\ todo' = ReadyJobs /\ ReadyJobs' = ReadyJobs
      BY <2>1, <2>4 DEF RootsDone, ReadyJobs
    <3>2. \A j \in ReadyJobs : launched[j] = 0
      BY <3>1 DEF LoopInv, ReadyJobs, StatusInv
    <3> QED BY <2>0, <2>1, <3>1, <3>2 DEF LoopInv
  <2>5. ASSUME ReadyDone \/ LoopDone \/ VisitDone PROVE LoopInv'
    <3>1. pc \in {"ready", "recv", "visit"} /\ pc' \in {"recv", "complete"}
      BY <2>5 DEF ReadyDone, LoopDone, VisitDone
    <3> QED BY <2>0, <2>1, <3>1 DEF LoopInv
  <2> QED BY <1>1, <2>2, <2>3, <2>4, <2>5
<1>2. ASSUME NEW j, NEW s \in {"succeeded", "failed"}, Settles(j, s), pc = "recv",
             \/ pc' = "visit" /\ todo' = ToVisit(j) /\ s = "succeeded"
             \/ pc' \in {"recv", "complete"},
             UNCHANGED <<queue, below>>
      PROVE  LoopInv'
  <2>1. j \in Jobs /\ status[j] = "running" /\ launched[j] = 1
    BY <1>2, SettlesRunning
  <2>2. pre' = pre /\ status' = [status EXCEPT ![j] = s]
    BY <1>2 DEF Settles, Record
  <2>3. \A k \in Jobs \ {j} : status'[k] = status[k]
    BY <2>2 DEF TypeOK
  <2>4. \A k \in pre : status'[k] = "succeeded"
    BY <1>2, <2>1, <2>2, <2>3 DEF LoopInv, StatusInv, TypeOK
  <2>5. ASSUME NEW d \in ToVisit(j) PROVE status'[d] = "pending"
    <3>1. d \in Jobs /\ d \notin pre /\ j \in Deps[d]
      BY DEF ToVisit, Dependents
    <3>2. ~(launched[d] = 1) /\ status[d] # "skipped"
      BY <2>1, <3>1 DEF StatusInv, Passed
    <3>3. status[d] = "pending"
      BY <3>1, <3>2 DEF StatusInv
    <3> QED BY <2>1, <2>3, <3>1, <3>3
  <2>6. pc' = "visit" => VisitInv'
    BY <1>2, <2>1, <2>2, <2>5 DEF VisitInv, ToVisit
  <2>7. queue' = <<>> /\ below' = {}
    BY <1>2 DEF LoopInv
  <2>8. pc' \in {"visit", "recv", "complete"}
    BY <1>2
  <2> QED BY <2>2, <2>4, <2>6, <2>7, <2>8 DEF LoopInv
<1>3. CASE ReceiveSucceeded
  <2> DEFINE j == Head(channel).task.job
  <2>1. Settles(j, "succeeded") /\ pc = "recv"
    BY <1>3 DEF ReceiveSucceeded, Settles, Underway, Active, Ended, DriverPc
  <2>2. /\ UNCHANGED <<queue, below>>
        /\ \/ pc' = "visit" /\ todo' = ToVisit(j)
           \/ pc' = "recv"
    BY <1>3, <2>1 DEF ReceiveSucceeded
  <2> QED BY <1>2, <2>1, <2>2
<1>4. CASE ReceiveFailed
  <2> DEFINE j == Head(channel).task.job
  <2>1. j \in Jobs /\ FailedSiblings(j) = {}
    BY <1>4, EventType, NoSiblingFails DEF ReceiveFailed
  <2>2. Record(j, "failed")
    <3>1. /\ row' = [k \in Jobs |-> IF k = j THEN "failed" ELSE row[k]]
          /\ status' = [k \in Jobs |-> IF k = j THEN "failed" ELSE status[k]]
      BY <1>4, <2>1 DEF ReceiveFailed
    <3> QED BY <3>1 DEF Record, TypeOK
  <2>3. Settles(j, "failed")
    BY <1>4, <2>2 DEF ReceiveFailed, Settles, Underway, Active, Ended, DriverPc
  <2>4. pc = "recv" /\ pc' \in {"recv", "complete"} /\ UNCHANGED <<queue, below>>
    BY <1>4 DEF ReceiveFailed
  <2> QED BY <1>2, <2>3, <2>4
<1>5. CASE CompleteRun \/ StoreError \/ ProcessEnds
  <2>1. pc' \in Ended /\ queue' = <<>> /\ below' = {}
    BY <1>5 DEF CompleteRun, StoreError, ProcessEnds, Active, Ended, DriverPc, LoopInv, TypeOK
  <2> QED BY <2>1 DEF LoopInv, Ended
<1>6. ASSUME NEW j \in todo, SeedPre(j) PROVE LoopInv'
  <2>1. /\ pc = "seed" /\ pc' = "seed" /\ todo' = todo \ {j} /\ j \in pre /\ j \in Jobs
        /\ status' = [status EXCEPT ![j] = "succeeded"] /\ UNCHANGED <<pre, launched, queue, below>>
    BY <1>6 DEF SeedPre, Record, LoopInv, TypeOK
  <2>2. status'[j] = "succeeded" /\ \A k \in Jobs \ {j} : status'[k] = status[k]
    BY <2>1 DEF TypeOK
  <2>3. pre \subseteq Jobs
    BY DEF TypeOK
  <2> QED BY <2>1, <2>2, <2>3 DEF LoopInv
<1>7. ASSUME NEW j \in todo, LaunchRoot(j) \/ LaunchReady(j) \/ LaunchDependent(j) PROVE LoopInv'
  <2>1. /\ j \in Jobs /\ pc' = pc /\ pre' = pre /\ todo' = todo \ {j} /\ UNCHANGED <<queue, below>>
        /\ Record(j, "running") /\ launched' = [launched EXCEPT ![j] = @ + 1]
        /\ pc \in {"roots", "ready", "visit"}
    BY <1>7 DEF LaunchRoot, LaunchReady, LaunchDependent, Launch, TypeOK
  <2>2. /\ status'[j] = "running"
        /\ \A k \in Jobs \ {j} : status'[k] = status[k] /\ launched'[k] = launched[k]
    BY <2>1 DEF Record, TypeOK
  <2>3. pc = "roots" => j \in Roots \ pre
    BY DEF LoopInv
  <2>4. pc = "ready" => j \notin pre
    BY DEF LoopInv, ReadyJobs
  <2>5. pc = "visit" => j \notin pre /\ VisitInv'
    BY <2>1, <2>2, VisitTurn DEF LoopInv, VisitInv, ToVisit
  <2>6. pre \subseteq Jobs
    BY DEF TypeOK
  <2> QED BY <2>1, <2>2, <2>3, <2>4, <2>5, <2>6 DEF LoopInv, ReadyJobs
<1>8. ASSUME NEW j \in todo, PassOver(j) PROVE LoopInv'
  <2>1. /\ pc = "visit" /\ pc' = "visit" /\ todo' = todo \ {j}
        /\ UNCHANGED <<pre, status, row, launched, queue, below>>
    BY <1>8 DEF PassOver
  <2>2. VisitInv'
    BY <2>1, VisitTurn DEF LoopInv
  <2> QED BY <2>1, <2>2 DEF LoopInv
<1>9. ASSUME NEW j \in todo, SkipDependent(j) PROVE LoopInv'
  <2>1. /\ pc = "visit" /\ pc' = "cascade" /\ pre' = pre /\ Record(j, "skipped") /\ j \in Jobs
    BY <1>9 DEF SkipDependent, Skip, TypeOK
  <2>2. VisitInv'
    BY <1>9, CascadeStarts
  <2>3. j \notin pre /\ pre \subseteq Jobs
    BY <2>1 DEF LoopInv, VisitInv, ToVisit, TypeOK
  <2>4. \A k \in pre : status'[k] = "succeeded"
    BY <2>1, <2>3 DEF LoopInv, Record, TypeOK
  <2> QED BY <2>1, <2>2, <2>4 DEF LoopInv
<1>10. ASSUME NEW k \in below, CascadePassOver(k) \/ CascadeToSkip(k) \/ CascadeLaunch(k)
       PROVE  LoopInv'
  <2>1. /\ pc = "cascade" /\ pc' = "cascade" /\ pre' = pre /\ todo' = todo
        /\ below' = below \ {k} /\ k \in Jobs
    BY <1>10 DEF CascadePassOver, CascadeToSkip, CascadeLaunch, Skip, Launch, TypeOK
  <2>2. \A i \in Jobs \ {k} : status'[i] = status[i]
    BY <1>10, <2>1 DEF CascadePassOver, CascadeToSkip, CascadeLaunch, Skip, Launch, Record, TypeOK
  <2>3. status'[k] = status[k] \/ status[k] = "pending"
    BY <1>10 DEF CascadePassOver, CascadeToSkip, CascadeLaunch
  <2>4. Queued' = Queued \/ (Queued' = Queued \cup {k} /\ status'[k] = "skipped")
    <3>1. CASE CascadeToSkip(k)
      <4>1. queue' = Append(queue, k) /\ status'[k] = "skipped"
        BY <2>1, <3>1 DEF CascadeToSkip, Skip, Record, TypeOK
      <4> QED BY <2>1, <4>1, QueuedAppend
    <3>2. CASE CascadePassOver(k) \/ CascadeLaunch(k)
      BY <3>2 DEF CascadePassOver, CascadeLaunch, Queued
    <3> QED BY <1>10, <3>1, <3>2
  <2>5. VisitInv'
    BY <2>1, <2>2, <2>3, <2>4, CascadeTurn DEF LoopInv
  <2>6. k \notin pre /\ pre \subseteq Jobs
    BY <2>1 DEF LoopInv, VisitInv, TypeOK
  <2>7. \A i \in pre : status'[i] = "succeeded"
    BY <2>1, <2>2, <2>6 DEF LoopInv
  <2> QED BY <2>1, <2>5, <2>7 DEF LoopInv
<1>11. CASE CascadePop
  <2>1. pc = "cascade" /\ pc' = "cascade" /\ UNCHANGED <<pre, status>>
    BY <1>11 DEF CascadePop
  <2>2. VisitInv'
    BY <1>11, <2>1, CascadePops DEF LoopInv
  <2> QED BY <2>1, <2>2 DEF LoopInv
<1>12. CASE CascadeDone
  <2>1. /\ pc = "cascade" /\ pc' = "visit" /\ below = {} /\ queue = <<>>
        /\ UNCHANGED <<pre, status, todo, below, queue>>
    BY <1>12 DEF CascadeDone
  <2>2. VisitInv'
    BY <2>1 DEF LoopInv, VisitInv, ToVisit
  <2> QED BY <2>1, <2>2 DEF LoopInv
<1>13. ASSUME NEW n \in JobNames, Retry(n) PROVE LoopInv'
  BY <1>13 DEF Retry, LoopInv
<1>14. CASE TaskStep \/ UNCHANGED vars
  <2>1. UNCHANGED <<pre, status, launched, pc, todo, queue, below>>
    BY <1>14 DEF TaskStep, Leaves, AcquirePermit, TaskEnds, PreflightFails, vars
  <2>2. VisitInv' <=> VisitInv
    BY <2>1 DEF VisitInv, ToVisit, Queued, AnyDepSkipped
  <2> QED BY <2>1, <2>2 DEF LoopInv, ReadyJobs
<1> QED BY <1>1, <1>3, <1>4, <1>5, <1>6, <1>7, <1>8, <1>9, <1>10, <1>11, <1>12, <1>13, <1>14
        DEF Next, DriverStep, Disturbance

LEMMA OnceInit == Init => OnceInv
<1> SUFFICES ASSUME Init PROVE OnceInv
  OBVIOUS
<1>1. StatusInv /\ LoopInv
  BY DEF Init, StatusInv, LoopInv
<1>2. Alive = {} /\ DOMAIN channel = {}
  BY DEF Init, Alive, Mine
<1> QED BY <1>1, <1>2 DEF OnceInv, TokensInv

LEMMA OnceInvariant == ASSUME MetOnce PROVE Spec => [](AccountingInv /\ OnceInv)
<1>1. Init => AccountingInv /\ OnceInv
  BY TypeInit, TasksInit, OnceInit DEF AccountingInv
<1>2. AccountingInv /\ OnceInv /\ [Next]_vars => AccountingInv' /\ OnceInv'
  BY TypeNext, TasksNext, InFlightNext, StatusNext, TokensNext, LoopNext DEF AccountingInv, OnceInv
<1> QED BY <1>1, <1>2, PTL DEF Spec

-----------------------------------------------------------------------------
(* The theorems                                                            *)

(***************************************************************************)
(* If no two jobs meet under a skip, the four loops that launch jobs never *)
(* launch one twice in a run.                                              *)
(***************************************************************************)
THEOREM LaunchedOnce == ASSUME MetOnce PROVE Spec => []AtMostOnce
<1>1. OnceInv => AtMostOnce
  BY DEF OnceInv, StatusInv, AtMostOnce
<1> QED BY <1>1, OnceInvariant, PTL

(***************************************************************************)
(* A job that was launched, first or in a retry, has its dependencies      *)
(* recorded as succeeded or skipped for the rest of the run.               *)
(***************************************************************************)
THEOREM DependenciesRecorded == ASSUME MetOnce PROVE Spec => []DependenciesFirst
<1>1. TypeOK /\ OnceInv => DependenciesFirst
  <2> SUFFICES ASSUME TypeOK, OnceInv, NEW j \in Jobs, launched[j] > 0, NEW d \in Deps[j]
               PROVE  row[d] \in {"succeeded", "skipped"}
    BY DEF DependenciesFirst
  <2>1. Passed(d)
    BY DEF OnceInv, StatusInv
  <2> QED BY <2>1, DepsType DEF OnceInv, StatusInv, Passed
<1> QED BY <1>1, OnceInvariant, PTL DEF AccountingInv

\* A retry launches nothing that it took over.
THEOREM KeptWorkStays == ASSUME MetOnce PROVE Spec => []KeptWorkIsNotRedone
<1>1. TypeOK /\ OnceInv => KeptWorkIsNotRedone
  BY DEF OnceInv, StatusInv, KeptWorkIsNotRedone, TypeOK
<1> QED BY <1>1, OnceInvariant, PTL DEF AccountingInv

\* A step that writes a row writes one that was not final.
LEMMA RowsKept ==
  ASSUME AccountingInv, OnceInv, [Next]_vars, attempt' = attempt,
         NEW j \in Jobs, row[j] \in {"succeeded", "failed", "skipped"}
  PROVE  row'[j] = row[j]
<1> USE DEF AccountingInv, OnceInv
<1>1. status[j] \notin {"pending", "running"}
  BY DEF StatusInv
<1>2. ASSUME NEW k \in Jobs, NEW s, Record(k, s), status[k] \in {"pending", "running"}
      PROVE  row'[j] = row[j]
  BY <1>1, <1>2 DEF Record, TypeOK
<1>3. ASSUME NEW k \in Jobs, Starts(k) \/ Skips(k) \/ TakesOver(k) PROVE row'[j] = row[j]
  <2>1. status[k] = "pending" /\ \E s : Record(k, s)
    BY <1>3 DEF Starts, Skips, TakesOver, Open, Launch, Skip
  <2> QED BY <2>1, <1>2
<1>4. ASSUME NEW k \in Jobs, NEW s, Settles(k, s) PROVE row'[j] = row[j]
  BY <1>2, <1>4, SettlesRunning DEF Settles
<1>5. CASE Rests
  BY <1>5 DEF Rests
<1>6. ASSUME NEW n \in JobNames, Retry(n) PROVE FALSE
  BY <1>6, SchedulerAssumption DEF Retry, TypeOK
<1> QED BY <1>3, <1>4, <1>5, <1>6, JobMoves

(***************************************************************************)
(* A row of a run that says succeeded, failed or skipped is never written  *)
(* again.                                                                  *)
(***************************************************************************)
THEOREM RowsFinal == ASSUME MetOnce PROVE Spec => RowsAreFinal
<1>1. AccountingInv /\ OnceInv /\ [Next]_vars =>
        [\A j \in Jobs : row[j] \in {"succeeded", "failed", "skipped"} /\ attempt' = attempt
           => row'[j] = row[j]]_vars
  BY RowsKept
<1> QED BY <1>1, OnceInvariant, PTL DEF Spec, RowsAreFinal

-----------------------------------------------------------------------------
(***************************************************************************)
(* What a fan-in job is given, what a RunResult says and what a retry      *)
(* takes over: the output of a job is there as soon as the job has         *)
(* succeeded in this run, its result as soon as its status is final, and   *)
(* neither comes otherwise.                                                *)
(***************************************************************************)

OutputsInv == outputs = {j \in Jobs \ pre : status[j] = "succeeded"}

\* A fan-in job was given the output of every child this run has run to success.
FanInInv ==
  \A j \in Jobs : launched[j] = 1 =>
    fanin[j] = {c \in Sources(j) \ pre : status[c] = "succeeded"}

\* A job has one JobResult as soon as its status is final.
ResultsInv ==
  \A j \in Jobs : results[j] = IF status[j] \in {"succeeded", "failed", "skipped"} THEN 1 ELSE 0

GivenInv == OutputsInv /\ FanInInv /\ ResultsInv

LEMMA GivenInit == Init => GivenInv
BY DEF Init, GivenInv, OutputsInv, FanInInv, ResultsInv

\* The children a launched fan-in job has waited for change no more.
LEMMA FanInStays ==
  ASSUME TypeOK, StatusInv, FanInInv, NEW j \in Jobs, NEW s, Record(j, s), pre' = pre,
         status[j] \in {"pending", "running"}, UNCHANGED hist
  PROVE  FanInInv'
<1> SUFFICES ASSUME NEW k \in Jobs, launched[k] = 1
             PROVE  fanin[k] = {c \in Sources(k) \ pre : status'[c] = "succeeded"}
  BY DEF FanInInv, hist
<1>1. \A c \in Sources(k) : c \in Jobs /\ c \in Deps[k]
  BY DepsType DEF Deps
<1>2. \A c \in Sources(k) : status'[c] = status[c]
  BY <1>1, PassedStays DEF StatusInv
<1>3. fanin[k] = {c \in Sources(k) \ pre : status[c] = "succeeded"}
  BY DEF FanInInv
<1> QED BY <1>2, <1>3

LEMMA GivenNext == AccountingInv /\ OnceInv /\ GivenInv /\ [Next]_vars => GivenInv'
<1> SUFFICES ASSUME AccountingInv, OnceInv, GivenInv, [Next]_vars PROVE GivenInv'
  OBVIOUS
<1>0. TypeOK /\ StatusInv /\ TokensInv /\ OutputsInv /\ FanInInv /\ ResultsInv
  BY DEF AccountingInv, OnceInv, GivenInv
<1> USE <1>0 DEF plan, hist
<1>1. ASSUME NEW j \in Jobs, Starts(j) PROVE GivenInv'
  <2>1. /\ j \notin pre /\ status[j] = "pending" /\ Record(j, "running") /\ launched[j] = 0
        /\ fanin' = [fanin EXCEPT ![j] = Sources(j) \cap outputs]
        /\ launched' = [launched EXCEPT ![j] = @ + 1]
        /\ UNCHANGED <<pre, outputs, results>>
    BY <1>1 DEF Starts, Open, Launch, FanInInput, StatusInv
  <2>2. \A k \in Jobs : k # j => status'[k] = status[k]
    BY <2>1, PassedStays
  <2>3. status'[j] = "running"
    BY <2>1 DEF Record, TypeOK
  <2>4. OutputsInv' /\ ResultsInv'
    BY <2>1, <2>2, <2>3 DEF OutputsInv, ResultsInv, TypeOK
  <2>5. ASSUME NEW k \in Jobs, launched'[k] = 1
        PROVE  fanin'[k] = {c \in Sources(k) \ pre : status'[c] = "succeeded"}
    <3>1. \A c \in Sources(k) : c \in Jobs /\ c \in Deps[k]
      BY DepsType DEF Deps
    <3>2. CASE k = j
      <4>1. fanin'[k] = Sources(j) \cap outputs
        BY <2>1, <3>2 DEF TypeOK
      <4>2. \A c \in Sources(j) : status'[c] = "succeeded" <=> status[c] = "succeeded"
        BY <2>1, <2>2, <2>3, <3>1, <3>2
      <4> QED BY <3>1, <3>2, <4>1, <4>2 DEF OutputsInv
    <3>3. CASE k # j
      <4>1. launched[k] = 1 /\ fanin'[k] = fanin[k]
        BY <2>1, <2>5, <3>3 DEF TypeOK
      <4>2. \A c \in Sources(k) : status'[c] = status[c]
        BY <2>1, <3>1, <4>1, PassedStays DEF StatusInv
      <4> QED BY <4>1, <4>2 DEF FanInInv
    <3> QED BY <3>2, <3>3
  <2>6. FanInInv'
    BY <2>1, <2>5 DEF FanInInv
  <2> QED BY <2>4, <2>6 DEF GivenInv
<1>2. ASSUME NEW j \in Jobs, NEW s \in {"succeeded", "failed", "skipped"}, Record(j, s),
             status[j] \in {"pending", "running"}, pre' = pre, UNCHANGED hist,
             results' = [results EXCEPT ![j] = @ + 1],
             outputs' = IF j \notin pre /\ s = "succeeded" THEN outputs \cup {j} ELSE outputs
      PROVE  GivenInv'
  <2>1. status'[j] = s /\ \A k \in Jobs : k # j => status'[k] = status[k]
    BY <1>2, PassedStays DEF Record, TypeOK
  <2>2. FanInInv'
    BY <1>2, FanInStays
  <2>3. OutputsInv'
    BY <1>2, <2>1 DEF OutputsInv
  <2>4. results[j] = 0
    BY <1>2 DEF ResultsInv
  <2>5. ResultsInv'
    BY <1>2, <2>1, <2>4 DEF ResultsInv, TypeOK
  <2> QED BY <2>2, <2>3, <2>5 DEF GivenInv
<1>3. ASSUME NEW j \in Jobs, Skips(j) PROVE GivenInv'
  <2>1. /\ Record(j, "skipped") /\ status[j] = "pending" /\ pre' = pre /\ UNCHANGED hist
        /\ results' = [results EXCEPT ![j] = @ + 1] /\ outputs' = outputs
    BY <1>3 DEF Skips, Open, Skip
  <2> QED BY <2>1, <1>2
<1>4. ASSUME NEW j \in Jobs, TakesOver(j) PROVE GivenInv'
  <2>1. /\ Record(j, "succeeded") /\ status[j] = "pending" /\ pre' = pre /\ UNCHANGED hist
        /\ results' = [results EXCEPT ![j] = @ + 1] /\ outputs' = outputs /\ j \in pre
    BY <1>4 DEF TakesOver
  <2> QED BY <2>1, <1>2
<1>5. ASSUME NEW j \in Jobs, NEW s \in {"succeeded", "failed"}, Settles(j, s) PROVE GivenInv'
  <2>1. /\ Record(j, s) /\ pre' = pre /\ UNCHANGED hist
        /\ results' = [results EXCEPT ![j] = @ + 1]
        /\ outputs' = IF s = "succeeded" THEN outputs \cup {j} ELSE outputs
    BY <1>5 DEF Settles
  <2>2. status[j] = "running" /\ j \notin pre
    BY <1>5, SettlesRunning DEF StatusInv
  <2> QED BY <2>1, <2>2, <1>2
<1>6. CASE Rests
  BY <1>6 DEF Rests, GivenInv, OutputsInv, FanInInv, ResultsInv
<1>7. ASSUME NEW n \in JobNames, Retry(n) PROVE GivenInv'
  BY <1>7 DEF Retry, GivenInv, OutputsInv, FanInInv, ResultsInv
<1> QED BY <1>1, <1>3, <1>4, <1>5, <1>6, <1>7, JobMoves

LEMMA GivenInvariant == ASSUME MetOnce PROVE Spec => [](AccountingInv /\ OnceInv /\ GivenInv)
<1>1. AccountingInv /\ OnceInv /\ GivenInv /\ [Next]_vars => GivenInv'
  BY GivenNext
<1> QED BY <1>1, OnceInvariant, GivenInit, PTL DEF Spec

(***************************************************************************)
(* The RunResult a run returns has one JobResult for each job whose row is *)
(* final, kept and skipped jobs included, and none for the others.         *)
(***************************************************************************)
THEOREM ResultsAgree == ASSUME MetOnce PROVE Spec => []ResultsMatchRows
<1>1. OnceInv /\ GivenInv => ResultsMatchRows
  BY DEF OnceInv, StatusInv, GivenInv, ResultsInv, ResultsMatchRows
<1> QED BY <1>1, GivenInvariant, PTL

-----------------------------------------------------------------------------
(* What a run is about never changes, and a retry keeps nothing it replays *)

PlanInv ==
  /\ attempt = 1 => pre = {}
  /\ attempt > 1 => from \in JobNames /\ pre \cap ReplaySet(from) = {}

LEMMA PlanKept == ASSUME [Next]_vars PROVE UNCHANGED plan \/ \E n \in JobNames : Retry(n)
<1> USE DEF Goto, Drop, Below, store, loop, book, pool, hist, vars
<1>1. CASE DriverStep
  BY <1>1 DEF DriverStep, CreateRun, SeedPre, SeedDone, LaunchRoot, RootsDone, LaunchReady,
              ReadyDone, ReceiveSucceeded, ReceiveFailed, LoopDone, PassOver, LaunchDependent,
              SkipDependent, VisitDone, CascadePop, CascadePassOver, CascadeToSkip,
              CascadeLaunch, CascadeDone, CompleteRun, Launch, Skip
<1>2. CASE TaskStep
  BY <1>2 DEF TaskStep, Leaves, AcquirePermit, TaskEnds, PreflightFails
<1> QED BY <1>1, <1>2 DEF Next, Disturbance, StoreError, ProcessEnds

LEMMA PlanInvariant == Spec => []PlanInv
<1>1. Init => PlanInv
  BY DEF Init, PlanInv
<1>2. TypeOK /\ PlanInv /\ [Next]_vars => PlanInv'
  <2> SUFFICES ASSUME TypeOK, PlanInv, [Next]_vars PROVE PlanInv'
    OBVIOUS
  <2>1. CASE UNCHANGED plan
    BY <2>1 DEF plan, PlanInv
  <2>2. ASSUME NEW n \in JobNames, Retry(n) PROVE PlanInv'
    <3>1. /\ attempt' = attempt + 1 /\ from' = n
          /\ pre' = {j \in Jobs : row[j] = "succeeded"} \ ReplaySet(n)
      BY <2>2 DEF Retry
    <3>2. attempt \in Nat \ {0}
      BY SchedulerAssumption DEF TypeOK
    <3> QED BY <3>1, <3>2 DEF PlanInv
  <2> QED BY <2>1, <2>2, PlanKept
<1> QED BY <1>1, <1>2, TypeCorrect, PTL DEF Spec

(***************************************************************************)
(* If no child may be skipped, a fan-in job is given the output of every   *)
(* child of its run, in whatever order they finish: of all of them in a    *)
(* first run.  What a retry misses is just the children it took over,      *)
(* whose outputs are not stored.                                           *)
(***************************************************************************)
THEOREM FanInsComplete ==
  ASSUME MetOnce, \A j \in Jobs : Sources(j) \cap MaySkip = {}
  PROVE  Spec => []FanInComplete
<1>1. OnceInv /\ GivenInv => FanInComplete
  <2> SUFFICES ASSUME OnceInv, GivenInv, NEW j \in Jobs, launched[j] > 0
               PROVE  fanin[j] = Sources(j) \ pre
    BY DEF FanInComplete
  <2>1. launched[j] = 1
    BY DEF OnceInv, StatusInv
  <2>2. \A c \in Sources(j) : c \in Jobs /\ c \in Deps[j]
    BY DepsType DEF Deps
  <2>3. \A c \in Sources(j) : status[c] = "succeeded"
    BY <2>1, <2>2 DEF OnceInv, StatusInv, Passed
  <2> QED BY <2>1, <2>3 DEF GivenInv, FanInInv
<1> QED BY <1>1, GivenInvariant, PTL

-----------------------------------------------------------------------------
(* Workflows without fan-outs, where the graph retry_inner walks is the    *)
(* one that runs                                                           *)

NoFanOuts == Foreach = {}

LEMMA PlainJobs ==
  ASSUME NoFanOuts
  PROVE  /\ JobNames = Jobs
         /\ \A j \in Jobs : j[1] \in YamlJobs /\ j = Plain(j[1])
         /\ \A j \in Jobs : Deps[j] = {Plain(y) : y \in DependsOn[j[1]]}
<1>1. JobNames = Jobs
  BY DEF NoFanOuts, JobNames, Jobs
<1>2. ASSUME NEW j \in Jobs PROVE j[1] \in YamlJobs /\ j = Plain(j[1])
  BY <1>1 DEF NoFanOuts, Jobs, Plain
<1>3. ASSUME NEW j \in Jobs PROVE Deps[j] = {Plain(y) : y \in DependsOn[j[1]]}
  <2>1. Sources(j) = {}
    BY WorkflowAssumption DEF NoFanOuts, WellFormed, Sources, IsFanIn
  <2>2. \A y \in DependsOn[j[1]] : Expansion(y) = {Plain(y)}
    BY DEF NoFanOuts, Expansion
  <2>3. Deps[j] = UNION {Expansion(y) : y \in DependsOn[j[1]]}
    BY <2>1 DEF Deps
  <2> QED BY <2>2, <2>3
<1> QED BY <1>1, <1>2, <1>3

\* What depends on a job that is replayed is replayed.
LEMMA ReplayClosed ==
  ASSUME NoFanOuts, NEW n \in JobNames, NEW j \in Jobs, NEW d \in Deps[j], d \in ReplaySet(n)
  PROVE  j \in ReplaySet(n)
<1>1. PICK y \in DependsOn[j[1]] : d = Plain(y)
  BY PlainJobs
<1>2. y \in YamlJobs /\ j[1] \in YamlJobs /\ j = Plain(j[1]) /\ j \in JobNames
  BY <1>1, PlainJobs, WorkflowAssumption DEF WellFormed
<1>3. ASSUME NEW S \in SUBSET JobNames, n \in S, ClosedDownstream(S) PROVE j \in S
  <2>1. d \in S
    BY <1>3 DEF ReplaySet
  <2> QED BY <1>1, <1>2, <1>3, <2>1 DEF ClosedDownstream
<1> QED BY <1>2, <1>3 DEF ReplaySet

\* A retry replays everything downstream of the job it is asked for.
LEMMA DownstreamReplayed ==
  ASSUME NoFanOuts, NEW n \in JobNames
  PROVE  Downstream(n) \subseteq ReplaySet(n)
<1> SUFFICES ASSUME NEW j \in Downstream(n) PROVE j \in ReplaySet(n)
  OBVIOUS
<1>1. j \in Jobs /\ n \in Jobs /\ Named(n) = {n}
  BY PlainJobs DEF Downstream, DownstreamOf, Named
<1>2. n \in ReplaySet(n) /\ ReplaySet(n) \subseteq JobNames
  BY DEF ReplaySet
<1>3. \A d \in ReplaySet(n) : Dependents(d) \subseteq ReplaySet(n)
  BY ReplayClosed DEF Dependents
<1>4. ReplaySet(n) \in SUBSET Jobs
  BY <1>2, PlainJobs
<1> QED BY <1>1, <1>2, <1>3, <1>4 DEF Downstream, DownstreamOf

(***************************************************************************)
(* Without fan-outs, a retry takes over nothing downstream of the job it   *)
(* is asked for, in workflows with conditions as in others.                *)
(***************************************************************************)
THEOREM RetryReplays == ASSUME NoFanOuts PROVE Spec => []RetryReplaysDownstream
<1>1. PlanInv => RetryReplaysDownstream
  BY DownstreamReplayed DEF PlanInv, RetryReplaysDownstream
<1> QED BY <1>1, PlanInvariant, PTL

LEMMA KeptNext ==
  ASSUME NoConditions, NoFanOuts, AccountingInv, OnceInv, PlanInv, KeptRestsOnKept, [Next]_vars
  PROVE  KeptRestsOnKept'
<1>1. CASE UNCHANGED plan
  BY <1>1 DEF KeptRestsOnKept, plan
<1>2. ASSUME NEW n \in JobNames, Retry(n), attempt' = 2 PROVE \A j \in pre' : Deps[j] \subseteq pre'
  <2>1. pre' = {j \in Jobs : row[j] = "succeeded"} \ ReplaySet(n) /\ attempt' = attempt + 1
    BY <1>2 DEF Retry
  <2>2. pre = {}
    <3>1. attempt = 1
      BY <1>2, <2>1 DEF AccountingInv, TypeOK
    <3> QED BY <3>1 DEF PlanInv
  <2>3. ASSUME NEW j \in pre', NEW d \in Deps[j] PROVE d \in pre'
    <3>1. j \in Jobs /\ row[j] = "succeeded" /\ j \notin ReplaySet(n) /\ d \in Jobs
      BY <2>1, <2>3, DepsType
    <3>2. status[j] = "succeeded" /\ launched[j] = 1
      BY <2>2, <3>1 DEF OnceInv, StatusInv
    <3>3. status[d] = "succeeded"
      BY <3>1, <3>2, NoConditionsMet DEF OnceInv, StatusInv, Passed
    <3>4. row[d] = "succeeded"
      BY <3>1, <3>3 DEF OnceInv, StatusInv
    <3>5. d \notin ReplaySet(n)
      BY <3>1, ReplayClosed
    <3> QED BY <2>1, <3>1, <3>4, <3>5
  <2> QED BY <2>3
<1>3. ASSUME NEW n \in JobNames, Retry(n) PROVE KeptRestsOnKept'
  BY <1>2, <1>3 DEF KeptRestsOnKept
<1> QED BY <1>1, <1>3, PlanKept

(***************************************************************************)
(* Without conditions and without fan-outs, a retry takes over nothing     *)
(* downstream of the job it is asked for, the first retry nothing that     *)
(* rests on work it does again, and what is taken over is not launched.    *)
(* (With conditions a kept job may rest on a skipped one, and a skipped    *)
(* job is never kept.)                                                     *)
(***************************************************************************)
THEOREM RetryKeepsSoundly == ASSUME NoConditions, NoFanOuts PROVE Spec => []KeptIsSound
<1>1. Init => KeptRestsOnKept
  BY DEF Init, KeptRestsOnKept
<1>2. AccountingInv /\ OnceInv /\ PlanInv /\ KeptRestsOnKept /\ [Next]_vars => KeptRestsOnKept'
  BY KeptNext
<1>3. Spec => [](AccountingInv /\ OnceInv)
  BY OnceInvariant, NoConditionsMet
<1>4. Spec => []KeptWorkIsNotRedone
  BY KeptWorkStays, NoConditionsMet
<1> QED BY <1>1, <1>2, <1>3, <1>4, PlanInvariant, RetryReplays, PTL DEF Spec, KeptIsSound

-----------------------------------------------------------------------------
(***************************************************************************)
(* The driver forgets no job.  A run recorded as succeeded has settled     *)
(* every job, and the rows obey the abstract contract of a run.  This is   *)
(* where the graph has to be acyclic: a job that never became due would    *)
(* have a dependency that never became due, and so on for ever.            *)
(***************************************************************************)

Settled == (\A j \in Jobs : Passed(j)) /\ Alive = {}

\* The jobs the loops under way will come to.
Listed == todo \cup below \cup UNION {Dependents(s) : s \in Queued}

\* A running job is one the driver will hear of.
Heard(j) == (\E t \in Alive : t.job = j) \/ (\E i \in DOMAIN channel : Sent(i) = j)

\* A job that nothing stands in the way of is one that a present loop will come to.
DueInv ==
  /\ pc = "recv" => todo = {}
  /\ pc \in {"visit", "cascade"} => ok
  /\ pc = "roots" => \A j \in Roots \ pre : launched[j] = 0 => j \in todo
  /\ pc \in {"roots", "ready"} => \A j \in Jobs : launched[j] = 1 => status[j] = "running"
  /\ pc \in {"ready", "recv", "visit", "cascade"} /\ ok =>
       \A j \in Jobs : Open(j) => j \in Listed

HeardInv == pc \in Active => \A j \in Jobs : status[j] = "running" => Heard(j)

OutcomeInv ==
  /\ ok <=> \A j \in Jobs : status[j] # "failed"
  /\ pc = "create" => runRow = "none"
  /\ pc \in Active \ {"create"} => runRow = "running"
  /\ pc = "complete" /\ ok => Settled
  /\ runRow = "succeeded" => Settled

SettleInv == DueInv /\ HeardInv /\ OutcomeInv

-----------------------------------------------------------------------------
(* What the invariant says when the loop ends                              *)

\* With nothing in flight, no task of the run is alive and no event is on its way.
LEMMA NobodyLeft ==
  ASSUME AccountingInv, pc \in Active, inFlight = 0
  PROVE  Alive = {} /\ channel = <<>>
<1> DEFINE w == Mine(waiting)
           x == Mine(executing)
<1>1. /\ IsFiniteSet(w) /\ Cardinality(w) \in Nat
      /\ IsFiniteSet(x) /\ Cardinality(x) \in Nat
  BY MineFinite DEF AccountingInv, TasksInv
<1>2. channel \in Seq(Event) /\ Len(channel) \in Nat
  BY LenProperties DEF AccountingInv, TypeOK
<1>3. 0 = Cardinality(w) + Cardinality(x) + Len(channel)
  BY DEF AccountingInv, InFlightAccounting
<1>4. Cardinality(w) = 0 /\ Cardinality(x) = 0 /\ Len(channel) = 0
  BY <1>1, <1>2, <1>3
<1>5. w = {} /\ x = {}
  BY <1>1, <1>4, FS_EmptySet
<1>6. Alive = w \cup x
  BY DEF Alive, Mine
<1> QED BY <1>2, <1>4, <1>5, <1>6, EmptySeq

\* Then every job is settled, if none has failed: the graph is acyclic.
LEMMA NothingForgotten ==
  ASSUME AccountingInv, OnceInv, DueInv, HeardInv, pc = "recv", inFlight = 0, ok,
         \A j \in Jobs : status[j] # "failed"
  PROVE  Settled
<1>0. StatusInv /\ LoopInv
  BY DEF OnceInv
<1>1. Alive = {} /\ channel = <<>>
  BY NobodyLeft DEF Active, Ended, DriverPc
<1>2. DOMAIN channel = {}
  BY <1>1
<1>3. \A j \in Jobs : status[j] = "pending" \/ Passed(j)
  <2>1. \A j \in Jobs : status[j] # "running"
    BY <1>1, <1>2 DEF HeardInv, Heard, Active, Ended, DriverPc
  <2> QED BY <1>0, <2>1 DEF StatusInv, Passed
<1>4. Listed = {}
  <2>1. todo = {} /\ below = {} /\ queue = <<>>
    BY <1>0 DEF DueInv, LoopInv
  <2>2. Queued = {}
    BY <2>1 DEF Queued
  <2> QED BY <2>1, <2>2 DEF Listed
<1> DEFINE S == {j \in Jobs : status[j] = "pending"}
<1>5. ASSUME S # {} PROVE FALSE
  <2>1. PICK j \in S : Deps[j] \cap S = {}
    BY <1>5, AcyclicAssumption DEF Acyclic
  <2>2. j \in Jobs /\ status[j] = "pending" /\ j \notin pre
    BY <1>0 DEF LoopInv
  <2>3. \A d \in Deps[j] : Passed(d)
    BY <1>3, <2>1, <2>2, DepsType
  <2> QED BY <1>4, <2>2, <2>3 DEF Open, DueInv
<1> QED BY <1>1, <1>3, <1>5 DEF Settled

-----------------------------------------------------------------------------
(* How a step moves the three parts                                        *)

LEMMA HeardKept ==
  ASSUME UNCHANGED <<attempt, waiting, executing, channel>>
  PROVE  Alive' = Alive /\ \A j \in Jobs : Heard(j)' <=> Heard(j)
BY DEF Heard, Alive, Mine, Sent

\* A task that ends is heard of through its event.
LEMMA HeardOnTask ==
  ASSUME AccountingInv, HeardInv, UNCHANGED <<status, pc>>,
         TaskStops \/ (\E t \in waiting : AcquirePermit(t))
  PROVE  HeardInv' /\ Alive' \subseteq Alive
<1> USE DEF AccountingInv
<1>1. ASSUME NEW t \in waiting, AcquirePermit(t) PROVE HeardInv' /\ Alive' \subseteq Alive
  <2>1. Alive' = Alive /\ channel' = channel
    BY <1>1 DEF AcquirePermit, Alive, Mine, plan
  <2> QED BY <2>1 DEF HeardInv, Heard, Sent
<1>2. CASE TaskStops
  <2>1. PICK t \in executing, b \in BOOLEAN :
          /\ executing' = executing \ {t} /\ Send(t, b)
          /\ UNCHANGED <<attempt, waiting, inFlight, launched, pc>>
    BY <1>2 DEF TaskStops
  <2>2. Alive' = Alive \ {t}
    BY <2>1 DEF Alive, Mine, TasksInv
  <2> DEFINE e == [task |-> t, succeeded |-> b]
  <2>3. ASSUME pc \in Active, NEW k \in Jobs, status[k] = "running" PROVE Heard(k)'
    <3>1. CASE t.run # attempt
      <4>1. channel' = channel /\ t \notin Alive
        BY <2>1, <3>1 DEF Send, Alive, Mine
      <4> QED BY <2>2, <2>3, <4>1 DEF HeardInv, Heard, Sent
    <3>2. CASE t.run = attempt
      <4>1. channel \in Seq(Event) /\ e \in Event /\ channel' = Append(channel, e)
        BY <2>1, <2>3, <3>2 DEF TypeOK, Event, Send
      <4>2. PICK n \in Nat : n = Len(channel) + 1
        BY <4>1, LenProperties
      <4>3. DOMAIN channel = 1 .. n - 1 /\ DOMAIN channel' = 1 .. n
        BY <4>1, <4>2, AppendProperties, LenProperties
      <4>4. channel'[n] = e /\ \A i \in 1 .. n - 1 : channel'[i] = channel[i]
        BY <4>1, <4>2, AppendProperties
      <4>5. Sent(n)' = t.job /\ \A i \in DOMAIN channel : Sent(i)' = Sent(i)
        BY <4>3, <4>4 DEF Sent
      <4>6. n \in DOMAIN channel' /\ DOMAIN channel \subseteq DOMAIN channel'
        BY <4>1, <4>2, <4>3, LenProperties
      <4> QED BY <2>2, <2>3, <4>5, <4>6 DEF HeardInv, Heard
    <3> QED BY <3>1, <3>2
  <2> QED BY <2>2, <2>3 DEF HeardInv
<1> QED BY <1>1, <1>2

\* Within a run, what has ended stays so.
LEMMA StepActive ==
  ASSUME TypeOK, [Next]_vars, attempt' = attempt, pc' \in Active
  PROVE  pc \in Active
<1>1. ASSUME NEW n \in JobNames, Retry(n) PROVE FALSE
  BY <1>1, SchedulerAssumption DEF Retry, TypeOK
<1>2. CASE DriverMoves \/ Launches \/ Receives \/ RunStops \/ TaskStops
  BY <1>2 DEF DriverMoves, Launches, Receives, RunStops, TaskStops, Active, TypeOK
<1>3. ASSUME NEW t \in waiting, AcquirePermit(t) PROVE pc \in Active
  BY <1>3 DEF AcquirePermit, loop
<1> QED BY <1>1, <1>2, <1>3, StepKinds

\* A running job is heard of, whatever happens in the run.
LEMMA HeardNext == AccountingInv /\ OnceInv /\ HeardInv /\ [Next]_vars => HeardInv'
<1> SUFFICES ASSUME AccountingInv, OnceInv, HeardInv, [Next]_vars, pc' \in Active,
                    NEW k \in Jobs, status'[k] = "running"
             PROVE  Heard(k)'
  BY DEF HeardInv
<1> USE DEF plan, pool, hist
<1>0. TypeOK /\ StatusInv /\ TokensInv
  BY DEF AccountingInv, OnceInv
<1>1. ASSUME NEW j \in Jobs, Starts(j) PROVE Heard(k)'
  <2>1. waiting' = waiting \cup {Task(j)} /\ UNCHANGED <<attempt, executing, channel>>
    BY <1>1 DEF Starts, Launch
  <2>2. Alive' = Alive \cup {Task(j)} /\ Task(j).job = j /\ \A i : Sent(i)' = Sent(i)
    BY <2>1 DEF Alive, Mine, Task, Sent
  <2>3. CASE k = j
    BY <2>2, <2>3 DEF Heard
  <2>4. CASE k # j
    <3>1. status[k] = "running" /\ pc \in Active
      BY <1>0, <1>1, <2>4 DEF Starts, Underway, Launch, Record, TypeOK, Active, Ended, DriverPc
    <3> QED BY <2>1, <2>2, <3>1 DEF HeardInv, Heard
  <2> QED BY <2>3, <2>4
<1>2. ASSUME NEW j \in Jobs, Skips(j) \/ TakesOver(j) PROVE Heard(k)'
  <2>1. UNCHANGED <<attempt, waiting, executing, channel>> /\ pc \in Active
    BY <1>2 DEF Skips, TakesOver, Skip, Underway, Active, Ended, DriverPc
  <2>2. Record(j, "skipped") \/ Record(j, "succeeded")
    BY <1>2 DEF Skips, TakesOver, Skip
  <2>3. status[k] = "running"
    BY <1>0, <2>2 DEF Record, TypeOK
  <2> QED BY <2>1, <2>3, HeardKept DEF HeardInv
<1>3. ASSUME NEW j \in Jobs, NEW s \in {"succeeded", "failed"}, Settles(j, s) PROVE Heard(k)'
  <2>1. /\ UNCHANGED <<attempt, waiting, executing>> /\ pc \in Active
        /\ channel # <<>> /\ channel' = Tail(channel)
    BY <1>3 DEF Settles, Underway, Active, Ended, DriverPc
  <2>2. k # j /\ status[k] = "running" /\ j = Sent(1)
    BY <1>0, <1>3, SettlesRunning DEF Settles, Record, TypeOK
  <2>3. CASE \E t \in Alive : t.job = k
    BY <2>1, <2>3 DEF Heard, Alive, Mine
  <2>4. ASSUME NEW i \in DOMAIN channel, Sent(i) = k PROVE Heard(k)'
    <3>1. i - 1 \in DOMAIN channel' /\ Sent(i - 1)' = k
      BY <1>0, <2>1, <2>2, <2>4, TailSent
    <3> QED BY <3>1 DEF Heard
  <2> QED BY <2>1, <2>2, <2>3, <2>4 DEF HeardInv, Heard
<1>4. CASE Rests
  <2>1. status' = status /\ attempt' = attempt
    BY <1>4 DEF Rests
  <2>2. CASE UNCHANGED <<waiting, executing, channel>>
    <3>1. pc \in Active
      BY <2>1, <2>2, StepActive DEF AccountingInv
    <3> QED BY <2>1, <2>2, <3>1, HeardKept DEF HeardInv
  <2>3. CASE RunStops
    BY <2>3 DEF RunStops, Active
  <2>4. CASE TaskStops \/ \E t \in waiting : AcquirePermit(t)
    <3>1. pc' = pc
      BY <2>4 DEF TaskStops, AcquirePermit, loop
    <3> QED BY <2>1, <2>4, <3>1, HeardOnTask DEF HeardInv
  <2> QED BY <1>4, <2>2, <2>3, <2>4 DEF Rests
<1>5. ASSUME NEW n \in JobNames, Retry(n) PROVE FALSE
  BY <1>5 DEF Retry
<1> QED BY <1>1, <1>2, <1>3, <1>4, <1>5, JobMoves

-----------------------------------------------------------------------------
(* Which jobs a step makes due                                             *)

\* A status that is written opens no job but dependents of the job it is about.
LEMMA OpenAfter ==
  ASSUME TypeOK, NEW k \in Jobs, NEW s, Record(k, s), s # "pending", pre' = pre,
         NEW j \in Jobs, Open(j)'
  PROVE  j # k /\ (Open(j) \/ (j \in ToVisit(k) /\ s \in {"succeeded", "skipped"}))
<1>1. status'[k] = s /\ \A d \in Jobs \ {k} : status'[d] = status[d]
  BY DEF Record, TypeOK
<1>2. j # k /\ j \notin pre /\ status[j] = "pending" /\ \A d \in Deps[j] : Passed(d)'
  BY <1>1 DEF Open
<1>3. CASE k \in Deps[j]
  BY <1>1, <1>2, <1>3 DEF Passed, ToVisit, Dependents
<1>4. CASE k \notin Deps[j]
  BY <1>1, <1>2, <1>4, DepsType DEF Passed, Open
<1> QED BY <1>2, <1>3, <1>4

\* A loop that strikes k off its list, after it has dealt with k.
LEMMA StruckOff ==
  ASSUME DueInv, NEW k,
         \A j \in Jobs : Open(j)' => j # k /\ (Open(j) \/ j \in Listed'),
         \/ pc \in {"ready", "visit", "cascade"} /\ pc' = pc
         \/ pc = "visit" /\ pc' = "cascade",
         ok' = ok,
         Listed \subseteq Listed' \cup {k},
         pc = "ready" => \A j \in Jobs : launched'[j] = 1 => status'[j] = "running"
  PROVE  DueInv'
<1>1. pc' \in {"visit", "cascade"} => ok'
  BY DEF DueInv
<1>2. ok' => \A j \in Jobs : Open(j)' => j \in Listed'
  BY DEF DueInv
<1> QED BY <1>1, <1>2 DEF DueInv

\* The first loops have come to every job that was ready from the start.
LEMMA ReadyAreDue ==
  ASSUME OnceInv, DueInv, pc = "roots", todo = {}, NEW j \in Jobs, Open(j)
  PROVE  j \in ReadyJobs
<1>1. j \notin Roots \cup pre
  BY DEF OnceInv, StatusInv, DueInv, Open
<1>2. ASSUME NEW d \in Deps[j] PROVE d \in pre
  <2>1. d \in Jobs /\ status[d] = "succeeded"
    BY <1>2, DepsType DEF Open, Passed, OnceInv, LoopInv
  <2>2. launched[d] = 0
    BY <2>1 DEF OnceInv, StatusInv, DueInv
  <2> QED BY <2>1, <2>2 DEF OnceInv, StatusInv
<1> QED BY <1>1, <1>2 DEF ReadyJobs

LEMMA DueNext == AccountingInv /\ OnceInv /\ DueInv /\ [Next]_vars => DueInv'
<1> SUFFICES ASSUME AccountingInv, OnceInv, DueInv, [Next]_vars PROVE DueInv'
  OBVIOUS
<1>0. TypeOK /\ StatusInv /\ LoopInv
  BY DEF AccountingInv, OnceInv
<1> USE <1>0 DEF Goto, Drop, Below, plan, store, loop, book, pool, hist
<1>1. ASSUME UNCHANGED <<pre, status>> PROVE \A j \in Jobs : Open(j)' <=> Open(j)
  BY <1>1 DEF Open, Passed
<1>2. pc # "cascade" => Listed = todo
  <2>1. ASSUME pc # "cascade" PROVE queue = <<>> /\ below = {} /\ Queued = {}
    BY <2>1 DEF LoopInv, Queued
  <2> QED BY <2>1 DEF Listed
<1>3. CASE CreateRun \/ SeedDone \/ RootsDone \/ ReadyDone \/ LoopDone \/ VisitDone
  <2>1. UNCHANGED <<pre, status, launched, queue, below, ok>>
    BY <1>3 DEF CreateRun, SeedDone, RootsDone, ReadyDone, LoopDone, VisitDone
  <2>2. ASSUME CreateRun \/ LoopDone PROVE DueInv'
    <3>1. pc' \in {"seed", "complete"}
      BY <2>2 DEF CreateRun, LoopDone
    <3> QED BY <3>1 DEF DueInv
  <2>3. ASSUME SeedDone PROVE DueInv'
    <3>1. pc = "seed" /\ pc' = "roots" /\ todo' = Roots \ pre
      BY <2>3 DEF SeedDone
    <3> QED BY <2>1, <3>1 DEF DueInv, LoopInv
  <2>4. ASSUME RootsDone PROVE DueInv'
    <3>1. pc = "roots" /\ pc' = "ready" /\ todo = {} /\ todo' = ReadyJobs
      BY <2>4 DEF RootsDone
    <3>2. \A j \in Jobs : Open(j)' => j \in todo'
      BY <1>1, <2>1, <3>1, ReadyAreDue DEF OnceInv
    <3> QED BY <2>1, <3>1, <3>2 DEF DueInv, Listed
  <2>5. ASSUME ReadyDone \/ VisitDone PROVE DueInv'
    <3>1. pc \in {"ready", "visit"} /\ pc' = "recv" /\ todo = {} /\ todo' = {}
      BY <2>5 DEF ReadyDone, VisitDone
    <3>2. ok' => \A j \in Jobs : ~Open(j)'
      BY <1>1, <1>2, <2>1, <3>1 DEF DueInv
    <3> QED BY <3>1, <3>2 DEF DueInv
  <2> QED BY <1>3, <2>2, <2>3, <2>4, <2>5
<1>4. CASE ReceiveSucceeded
  <2> DEFINE j == Head(channel).task.job
  <2>1. j \in Jobs /\ Record(j, "succeeded") /\ pc = "recv" /\ ok' = ok /\ pre' = pre
    BY <1>4, EventType DEF ReceiveSucceeded
  <2>2. CASE ok
    <3>1. pc' = "visit" /\ todo' = ToVisit(j)
      BY <1>4, <2>2 DEF ReceiveSucceeded
    <3>2. \A k \in Jobs : ~Open(k)
      BY <1>2, <2>1, <2>2 DEF DueInv
    <3>3. \A k \in Jobs : Open(k)' => k \in todo'
      BY <2>1, <3>1, <3>2, OpenAfter
    <3> QED BY <2>1, <2>2, <3>1, <3>3 DEF DueInv, Listed
  <2>3. CASE ~ok
    <3>1. pc' = "recv" /\ todo' = todo
      BY <1>4, <2>1, <2>3 DEF ReceiveSucceeded
    <3> QED BY <2>1, <2>3, <3>1 DEF DueInv
  <2> QED BY <2>2, <2>3
<1>5. CASE ReceiveFailed
  <2>1. /\ pc = "recv" /\ pc' \in {"recv", "complete"} /\ ok' = FALSE
        /\ pc' = "recv" => todo' = todo
    BY <1>5 DEF ReceiveFailed
  <2> QED BY <2>1 DEF DueInv
<1>6. CASE CompleteRun \/ StoreError \/ ProcessEnds
  <2>1. pc' \in Ended
    BY <1>6 DEF CompleteRun, StoreError, ProcessEnds, Active, Ended, TypeOK
  <2> QED BY <2>1 DEF DueInv, Ended
<1>7. ASSUME NEW j \in todo, SeedPre(j) PROVE DueInv'
  <2>1. pc' = "seed"
    BY <1>7 DEF SeedPre
  <2> QED BY <2>1 DEF DueInv
<1>8. ASSUME NEW j \in todo, LaunchRoot(j) PROVE DueInv'
  <2>1. /\ pc = "roots" /\ pc' = "roots" /\ todo' = todo \ {j} /\ pre' = pre
        /\ Record(j, "running") /\ launched' = [launched EXCEPT ![j] = @ + 1] /\ j \in Jobs
    BY <1>8 DEF LaunchRoot, Launch, TypeOK
  <2>2. launched[j] = 0
    BY <1>8, <2>1 DEF LoopInv, StatusInv
  <2>3. /\ status'[j] = "running" /\ launched'[j] = 1
        /\ \A k \in Jobs \ {j} : status'[k] = status[k] /\ launched'[k] = launched[k]
    BY <2>1, <2>2 DEF Record, TypeOK
  <2> QED BY <2>1, <2>3 DEF DueInv, Roots
<1>9. ASSUME NEW j \in todo, LaunchReady(j) \/ LaunchDependent(j) PROVE DueInv'
  <2>1. /\ pc \in {"ready", "visit"} /\ pc' = pc /\ todo' = todo \ {j}
        /\ UNCHANGED <<queue, below, ok>>
        /\ pre' = pre /\ Record(j, "running") /\ j \in Jobs
        /\ launched' = [launched EXCEPT ![j] = @ + 1]
    BY <1>9 DEF LaunchReady, LaunchDependent, Launch, TypeOK
  <2>2. \A k \in Jobs : Open(k)' => k # j /\ Open(k)
    BY <2>1, OpenAfter
  <2>3. Listed \subseteq Listed' \cup {j}
    BY <2>1 DEF Listed, Queued
  <2>4. pc = "ready" => \A k \in Jobs : launched'[k] = 1 => status'[k] = "running"
    BY <2>1 DEF DueInv, Record, TypeOK
  <2> QED BY <2>1, <2>2, <2>3, <2>4, StruckOff
<1>10. ASSUME NEW j \in todo, PassOver(j) PROVE DueInv'
  <2>1. /\ pc = "visit" /\ pc' = pc /\ todo' = todo \ {j}
        /\ UNCHANGED <<queue, below, ok, pre, status>>
        /\ ~AllDone(j) /\ j \in Jobs
    BY <1>10 DEF PassOver, TypeOK
  <2>2. \A k \in Jobs : Open(k)' => k # j /\ Open(k)
    BY <1>1, <2>1, DoneMeansPassed DEF Open
  <2>3. Listed \subseteq Listed' \cup {j}
    BY <2>1 DEF Listed, Queued
  <2> QED BY <2>1, <2>2, <2>3, StruckOff
<1>11. ASSUME NEW j \in todo, SkipDependent(j) PROVE DueInv'
  <2>1. /\ pc = "visit" /\ pc' = "cascade" /\ todo' = todo \ {j} /\ queue' = <<j>>
        /\ UNCHANGED <<below, ok, pre>> /\ Record(j, "skipped") /\ j \in Jobs
    BY <1>11 DEF SkipDependent, Skip, TypeOK
  <2>2. Queued' = {j}
    BY <2>1 DEF Queued
  <2>3. Dependents(j) \subseteq Listed' /\ Listed \subseteq Listed' \cup {j}
    BY <1>2, <2>1, <2>2 DEF Listed
  <2>4. \A k \in Jobs : Open(k)' => k # j /\ (Open(k) \/ k \in Listed')
    BY <2>1, <2>3, OpenAfter DEF ToVisit
  <2> QED BY <2>1, <2>3, <2>4, StruckOff
<1>12. ASSUME NEW k \in below, CascadePassOver(k) \/ CascadeLaunch(k) PROVE DueInv'
  <2>1. /\ pc = "cascade" /\ pc' = pc /\ below' = below \ {k} /\ UNCHANGED <<queue, todo, ok, pre>>
        /\ k \in Jobs
    BY <1>12 DEF CascadePassOver, CascadeLaunch, Launch, TypeOK
  <2>2. \A j \in Jobs : Open(j)' => j # k /\ Open(j)
    <3>1. CASE CascadePassOver(k)
      <4>1. UNCHANGED status /\ (status[k] # "pending" \/ ~AllDone(k))
        BY <3>1 DEF CascadePassOver
      <4> QED BY <1>1, <2>1, <4>1, DoneMeansPassed DEF Open
    <3>2. CASE CascadeLaunch(k)
      <4>1. Record(k, "running")
        BY <3>2 DEF CascadeLaunch, Launch
      <4> QED BY <2>1, <4>1, OpenAfter
    <3> QED BY <1>12, <3>1, <3>2
  <2>3. Listed \subseteq Listed' \cup {k}
    BY <2>1 DEF Listed, Queued
  <2> QED BY <2>1, <2>2, <2>3, StruckOff
<1>13. ASSUME NEW k \in below, CascadeToSkip(k) PROVE DueInv'
  <2>1. /\ pc = "cascade" /\ pc' = pc /\ below' = below \ {k} /\ queue' = Append(queue, k)
        /\ UNCHANGED <<todo, ok, pre>> /\ Record(k, "skipped") /\ k \in Jobs
    BY <1>13 DEF CascadeToSkip, Skip, TypeOK
  <2>2. Queued' = Queued \cup {k}
    BY <2>1, QueuedAppend
  <2>3. Dependents(k) \subseteq Listed' /\ Listed \subseteq Listed' \cup {k}
    BY <2>1, <2>2 DEF Listed
  <2>4. \A j \in Jobs : Open(j)' => j # k /\ (Open(j) \/ j \in Listed')
    BY <2>1, <2>3, OpenAfter DEF ToVisit
  <2> QED BY <2>1, <2>3, <2>4, StruckOff
<1>14. CASE CascadePop
  <2> DEFINE h == Head(queue)
  <2>1. /\ pc = "cascade" /\ pc' = pc /\ queue # <<>> /\ queue' = Tail(queue)
        /\ below = {} /\ below' = ToVisit(h) /\ UNCHANGED <<todo, ok, pre, status>>
    BY <1>14 DEF CascadePop
  <2>2. Queued \subseteq Queued' \cup {h}
    BY <2>1, QueuedTail
  <2>3. Listed \subseteq Listed' \cup Dependents(h)
    BY <2>1, <2>2 DEF Listed
  <2>4. ASSUME NEW j \in Jobs, Open(j)', ok' PROVE j \in Listed'
    <3>1. Open(j) /\ j \in Listed /\ j \notin pre
      BY <1>1, <2>1, <2>4 DEF DueInv, Open
    <3> QED BY <2>1, <2>3, <3>1 DEF ToVisit, Listed
  <2> QED BY <2>1, <2>4 DEF DueInv
<1>15. CASE CascadeDone
  <2>1. /\ pc = "cascade" /\ pc' = "visit" /\ below = {} /\ queue = <<>>
        /\ UNCHANGED <<queue, below, todo, ok, pre, status>>
    BY <1>15 DEF CascadeDone
  <2>2. Listed' = Listed
    BY <2>1 DEF Listed, Queued
  <2> QED BY <1>1, <2>1, <2>2 DEF DueInv
<1>16. ASSUME NEW n \in JobNames, Retry(n) PROVE DueInv'
  BY <1>16 DEF Retry, DueInv
<1>17. CASE TaskStep \/ UNCHANGED vars
  <2>1. UNCHANGED <<pre, status, launched, pc, todo, queue, below, ok>>
    BY <1>17 DEF TaskStep, Leaves, AcquirePermit, TaskEnds, PreflightFails, vars
  <2>2. Listed' = Listed
    BY <2>1 DEF Listed, Queued
  <2> QED BY <1>1, <2>1, <2>2 DEF DueInv
<1> QED BY <1>3, <1>4, <1>5, <1>6, <1>7, <1>8, <1>9, <1>10, <1>11, <1>12, <1>13, <1>14, <1>15,
           <1>16, <1>17 DEF Next, DriverStep, Disturbance

-----------------------------------------------------------------------------
(* What a step makes of the outcome                                        *)

\* A job that the driver starts, skips or takes over leaves the outcome open.
LEMMA OutcomeOnMove ==
  ASSUME TypeOK, OutcomeInv, NEW j \in Jobs, Starts(j) \/ Skips(j) \/ TakesOver(j)
  PROVE  OutcomeInv'
<1>1. Underway /\ Underway' /\ UNCHANGED <<runRow, ok>>
  BY DEF Starts, Skips, TakesOver, Launch, Skip
<1>2. runRow' = "running" /\ pc' \notin {"create", "complete"}
  BY <1>1 DEF OutcomeInv, Underway, Active, Ended, DriverPc
<1>3. /\ status[j] = "pending"
      /\ Record(j, "running") \/ Record(j, "skipped") \/ Record(j, "succeeded")
  BY DEF Starts, Skips, TakesOver, Open, Launch, Skip
<1>4. \A k \in Jobs : status'[k] = "failed" <=> status[k] = "failed"
  BY <1>3 DEF Record, TypeOK
<1> QED BY <1>1, <1>2, <1>4 DEF OutcomeInv

\* A job that fails is what makes the outcome a failure.
LEMMA OutcomeOnSettle ==
  ASSUME TypeOK, TokensInv, OutcomeInv, NEW j, NEW s \in {"succeeded", "failed"}, Settles(j, s)
  PROVE  OutcomeInv'
<1>1. j \in Jobs /\ status[j] = "running"
  BY SettlesRunning
<1>2. status'[j] = s /\ \A k \in Jobs \ {j} : status'[k] = status[k]
  BY <1>1 DEF Settles, Record, TypeOK
<1>3. runRow' = "running"
  BY DEF Settles, OutcomeInv, Underway, Active, Ended, DriverPc
<1>4. CASE s = "succeeded"
  <2>1. ok' = ok /\ pc' \notin {"create", "complete"}
    BY <1>4 DEF Settles, Underway
  <2>2. ok' <=> \A k \in Jobs : status'[k] # "failed"
    BY <1>1, <1>2, <1>4, <2>1 DEF OutcomeInv
  <2> QED BY <1>3, <2>1, <2>2 DEF OutcomeInv
<1>5. CASE s = "failed"
  <2>1. ok' = FALSE /\ pc' # "create"
    BY <1>5 DEF Settles
  <2> QED BY <1>1, <1>2, <1>3, <1>5, <2>1 DEF OutcomeInv
<1> QED BY <1>4, <1>5

LEMMA OutcomeNext == AccountingInv /\ OnceInv /\ SettleInv /\ [Next]_vars => OutcomeInv'
<1> SUFFICES ASSUME AccountingInv, OnceInv, SettleInv, [Next]_vars PROVE OutcomeInv'
  OBVIOUS
<1>0. TypeOK /\ TokensInv /\ OutcomeInv /\ HeardInv /\ DueInv
  BY DEF AccountingInv, OnceInv, SettleInv
<1> USE <1>0 DEF Goto, Drop, Below, plan, store, loop, book, pool, hist
<1>1. ASSUME NEW j \in Jobs, Starts(j) \/ Skips(j) \/ TakesOver(j) PROVE OutcomeInv'
  BY <1>1, OutcomeOnMove
<1>2. ASSUME ReceiveSucceeded \/ ReceiveFailed PROVE OutcomeInv'
  BY <1>2, MovesOf, OutcomeOnSettle
<1>3. ASSUME UNCHANGED <<status, ok, attempt, waiting, executing>>
      PROVE  /\ Settled' <=> Settled
             /\ (ok <=> \A j \in Jobs : status[j] # "failed")'
  BY <1>3 DEF OutcomeInv, Settled, Passed, Alive, Mine
<1>4. CASE \/ CreateRun \/ SeedDone \/ RootsDone \/ ReadyDone \/ LoopDone \/ VisitDone
           \/ CascadePop \/ CascadeDone
           \/ (\E j \in todo : PassOver(j)) \/ (\E k \in below : CascadePassOver(k))
  <2>1. UNCHANGED <<status, ok, attempt, waiting, executing>>
    BY <1>4 DEF CreateRun, SeedDone, RootsDone, ReadyDone, LoopDone, VisitDone,
                CascadePop, CascadeDone, PassOver, CascadePassOver
  <2>2. /\ pc \in {"seed", "roots", "ready", "recv", "visit", "cascade"} /\ runRow' = runRow
        \/ CreateRun
    BY <1>4 DEF SeedDone, RootsDone, ReadyDone, LoopDone, VisitDone,
                CascadePop, CascadeDone, PassOver, CascadePassOver
  <2>3. runRow' = "running"
    BY <2>2 DEF CreateRun, OutcomeInv, Active, Ended, DriverPc
  <2>4. pc' # "create"
    BY <1>4 DEF CreateRun, SeedDone, RootsDone, ReadyDone, LoopDone, VisitDone,
                CascadePop, CascadeDone, PassOver, CascadePassOver
  <2>5. ASSUME pc' = "complete", ok' PROVE Settled'
    <3>1. pc = "recv" /\ inFlight = 0
      BY <1>4, <2>5 DEF CreateRun, SeedDone, RootsDone, ReadyDone, LoopDone, VisitDone,
                        CascadePop, CascadeDone, PassOver, CascadePassOver
    <3>2. ok /\ \A j \in Jobs : status[j] # "failed"
      BY <2>1, <2>5 DEF OutcomeInv
    <3> QED BY <1>3, <2>1, <3>1, <3>2, NothingForgotten
  <2> QED BY <1>3, <2>1, <2>3, <2>4, <2>5 DEF OutcomeInv
<1>5. CASE CompleteRun
  <2>1. /\ UNCHANGED <<status, ok, attempt, waiting, executing>>
        /\ pc = "complete" /\ pc' = "done" /\ runRow' = RunOutcome
    BY <1>5 DEF CompleteRun
  <2> QED BY <1>3, <2>1 DEF OutcomeInv, RunOutcome, Active, Ended, DriverPc
<1>6. CASE StoreError \/ ProcessEnds
  <2>1. UNCHANGED <<status, ok, attempt, runRow>> /\ pc' \in Ended
    BY <1>6 DEF StoreError, ProcessEnds, Active, Ended, TypeOK
  <2>2. Settled => Settled'
    BY <1>6, <2>1 DEF StoreError, ProcessEnds, Settled, Passed, Alive, Mine
  <2> QED BY <2>1, <2>2 DEF OutcomeInv, Active, Ended, DriverPc
<1>7. CASE TaskStep \/ UNCHANGED vars
  <2>1. UNCHANGED <<status, ok, runRow, pc>>
    BY <1>7 DEF TaskStep, Leaves, AcquirePermit, TaskEnds, PreflightFails, vars
  <2>2. Alive' \subseteq Alive
    <3>1. CASE TaskStep
      <4>1. TaskStops \/ \E t \in waiting : AcquirePermit(t)
        BY <3>1 DEF TaskStep, Leaves, TaskEnds, PreflightFails, TaskStops
      <4> QED BY <2>1, <4>1, HeardOnTask
    <3>2. CASE UNCHANGED vars
      BY <3>2 DEF vars, Alive, Mine
    <3> QED BY <1>7, <3>1, <3>2
  <2>3. Settled => Settled'
    BY <2>1, <2>2 DEF Settled, Passed
  <2> QED BY <2>1, <2>3 DEF OutcomeInv
<1>8. ASSUME NEW n \in JobNames, Retry(n) PROVE OutcomeInv'
  BY <1>8 DEF Retry, OutcomeInv, Active, Ended, DriverPc
<1>9. ASSUME NEW j \in todo, \/ SeedPre(j) \/ LaunchRoot(j) \/ LaunchReady(j)
                             \/ LaunchDependent(j) \/ SkipDependent(j)
      PROVE  OutcomeInv'
  <2>1. j \in Jobs /\ (Starts(j) \/ Skips(j) \/ TakesOver(j))
    BY <1>9, MovesOf DEF TypeOK
  <2> QED BY <1>1, <2>1
<1>10. ASSUME NEW k \in below, CascadeToSkip(k) \/ CascadeLaunch(k) PROVE OutcomeInv'
  <2>1. k \in Jobs /\ (Starts(k) \/ Skips(k))
    BY <1>10, MovesOf DEF TypeOK
  <2> QED BY <1>1, <2>1
<1> QED BY <1>2, <1>4, <1>5, <1>6, <1>7, <1>8, <1>9, <1>10 DEF Next, DriverStep, Disturbance

LEMMA SettleInit == Init => SettleInv
<1> SUFFICES ASSUME Init PROVE SettleInv
  OBVIOUS
<1>1. \A j \in Jobs : status[j] = "pending"
  BY DEF Init
<1> QED BY <1>1 DEF Init, SettleInv, DueInv, HeardInv, OutcomeInv, Active, Ended, DriverPc

LEMMA SettleInvariant ==
  ASSUME MetOnce PROVE Spec => [](AccountingInv /\ OnceInv /\ SettleInv)
<1>1. SettleInv /\ AccountingInv /\ OnceInv /\ [Next]_vars => SettleInv'
  BY DueNext, HeardNext, OutcomeNext DEF SettleInv
<1> QED BY <1>1, OnceInvariant, SettleInit, PTL DEF Spec

(***************************************************************************)
(* If no two jobs meet under a skip, a run recorded as succeeded has run   *)
(* or skipped every job and left no task of it alive, whatever the graph,  *)
(* the permits and the retries.                                            *)
(***************************************************************************)
THEOREM SuccessSettles == ASSUME MetOnce PROVE Spec => []SuccessMeansSettled
<1>1. TypeOK /\ OnceInv /\ SettleInv => SuccessMeansSettled
  <2> SUFFICES ASSUME TypeOK, OnceInv, SettleInv, runRow = "succeeded"
               PROVE  /\ \A j \in Jobs : row[j] \in {"succeeded", "skipped"}
                      /\ Mine(waiting \cup executing) = {}
    BY DEF SuccessMeansSettled
  <2>1. Settled
    BY DEF SettleInv, OutcomeInv
  <2> QED BY <2>1 DEF Settled, Passed, OnceInv, StatusInv, Alive
<1> QED BY <1>1, SettleInvariant, PTL DEF AccountingInv

-----------------------------------------------------------------------------
(* The contract of a run                                                   *)

\* A step writes the rows as the contract allows, or leaves them alone.
LEMMA ContractNext ==
  ASSUME AccountingInv, OnceInv, SettleInv, [Next]_vars
  PROVE  [Contract!Next]_Contract!vars
<1>0. TypeOK /\ StatusInv /\ TokensInv /\ OutcomeInv
  BY DEF AccountingInv, OnceInv, SettleInv
<1> USE <1>0 DEF Goto, Drop, Below, plan, store, loop, book, pool, hist
<1>1. \A j \in Jobs : status[j] \in {"succeeded", "skipped"} <=> Contract!Done(j)
  BY DEF StatusInv, Contract!Done
<1>2. ASSUME NEW j \in Jobs, Starts(j) \/ Skips(j) PROVE Contract!Next
  <2>1. /\ Underway /\ j \notin pre /\ status[j] = "pending" /\ \A d \in Deps[j] : Passed(d)
        /\ UNCHANGED <<runRow, pre>>
    BY <1>2 DEF Starts, Skips, Open, Launch, Skip
  <2>2. runRow = "running" /\ row[j] = "none"
    BY <2>1 DEF OutcomeInv, Underway, StatusInv, Active, Ended, DriverPc
  <2>3. Contract!Ready(j)
    BY <1>1, <2>1, DepsType DEF Contract!Ready, Passed
  <2>4. CASE Starts(j)
    <3>1. row' = [row EXCEPT ![j] = "running"]
      BY <2>4 DEF Starts, Launch, Record
    <3>2. Contract!Start(j)
      BY <2>1, <2>2, <2>3, <3>1 DEF Contract!Start, Contract!Set
    <3> QED BY <3>2 DEF Contract!Next
  <2>5. CASE Skips(j)
    <3>1. row' = [row EXCEPT ![j] = "skipped"] /\ (HasWhen(j) \/ AnyDepSkipped(j))
      BY <2>5 DEF Skips, Skip, Record
    <3>2. AnyDepSkipped(j) => \E d \in Deps[j] : row[d] = "skipped"
      BY DepsType DEF AnyDepSkipped, StatusInv
    <3>3. Contract!SkipJob(j)
      BY <2>1, <2>2, <2>3, <3>1, <3>2 DEF Contract!SkipJob, Contract!Set
    <3> QED BY <3>3 DEF Contract!Next
  <2> QED BY <1>2, <2>4, <2>5
<1>3. ASSUME NEW j \in Jobs, TakesOver(j) PROVE Contract!Next
  <2>1. /\ Underway /\ j \in pre /\ status[j] = "pending" /\ UNCHANGED <<runRow, pre>>
        /\ row' = [row EXCEPT ![j] = "succeeded"]
    BY <1>3 DEF TakesOver, Record
  <2>2. runRow = "running" /\ row[j] = "none"
    BY <2>1 DEF OutcomeInv, Underway, StatusInv, Active, Ended, DriverPc
  <2>3. Contract!TakeOver(j)
    BY <2>1, <2>2 DEF Contract!TakeOver, Contract!Set
  <2> QED BY <2>3 DEF Contract!Next
<1>4. ASSUME NEW j \in Jobs, NEW s \in {"succeeded", "failed"}, Settles(j, s) PROVE Contract!Next
  <2>1. Underway /\ row' = [row EXCEPT ![j] = s] /\ UNCHANGED <<runRow, pre>>
    BY <1>4 DEF Settles, Record
  <2>2. runRow = "running" /\ row[j] = "running"
    BY <1>4, <2>1, SettlesRunning DEF OutcomeInv, Underway, StatusInv, Active, Ended, DriverPc
  <2>3. Contract!Finish(j)
    BY <2>1, <2>2 DEF Contract!Finish, Contract!Set
  <2> QED BY <2>3 DEF Contract!Next
<1>5. CASE CreateRun
  <2>1. Contract!Begin
    BY <1>5 DEF CreateRun, OutcomeInv, Contract!Begin
  <2> QED BY <2>1 DEF Contract!Next
<1>6. CASE CompleteRun
  <2>1. /\ runRow = "running" /\ runRow' = RunOutcome /\ UNCHANGED <<row, pre>>
        /\ ok => Settled
    BY <1>6 DEF CompleteRun, OutcomeInv, Active, Ended, DriverPc
  <2>2. CASE ok
    <3>1. \A k \in Jobs : Contract!Done(k)
      BY <1>1, <2>1, <2>2 DEF Settled, Passed
    <3> QED BY <2>1, <2>2, <3>1 DEF RunOutcome, Contract!Close, Contract!Next
  <2>3. CASE ~ok
    <3>1. \E k \in Jobs : row[k] = "failed"
      BY <2>3 DEF OutcomeInv, StatusInv
    <3> QED BY <2>1, <2>3, <3>1 DEF RunOutcome, Contract!Close, Contract!Next
  <2> QED BY <2>2, <2>3
<1>7. ASSUME NEW n \in JobNames, Retry(n) PROVE Contract!Next
  <2>1. /\ runRow # "none" /\ runRow' = "none" /\ row' = [j \in Jobs |-> "none"]
        /\ pre' \in SUBSET {j \in Jobs : row[j] = "succeeded"}
    BY <1>7 DEF Retry
  <2> QED BY <2>1 DEF Contract!Reopen, Contract!Next
<1>8. ASSUME \/ TaskStep \/ StoreError \/ ProcessEnds \/ UNCHANGED vars
             \/ SeedDone \/ RootsDone \/ ReadyDone \/ LoopDone \/ VisitDone
             \/ CascadePop \/ CascadeDone \/ (\E j \in todo : PassOver(j))
             \/ (\E k \in below : CascadePassOver(k))
      PROVE UNCHANGED Contract!vars
  BY <1>8 DEF TaskStep, Leaves, AcquirePermit, TaskEnds, PreflightFails, StoreError, ProcessEnds, vars,
              SeedDone, RootsDone, ReadyDone, LoopDone, VisitDone, CascadePop, CascadeDone,
              PassOver, CascadePassOver, Contract!vars
<1>9. ASSUME NEW j \in todo, \/ SeedPre(j) \/ LaunchRoot(j) \/ LaunchReady(j)
                             \/ LaunchDependent(j) \/ SkipDependent(j)
      PROVE  Contract!Next
  <2>1. j \in Jobs /\ (Starts(j) \/ Skips(j) \/ TakesOver(j))
    BY <1>9, MovesOf DEF TypeOK
  <2> QED BY <1>2, <1>3, <2>1
<1>10. ASSUME NEW k \in below, CascadeToSkip(k) \/ CascadeLaunch(k) PROVE Contract!Next
  <2>1. k \in Jobs /\ (Starts(k) \/ Skips(k))
    BY <1>10, MovesOf DEF TypeOK
  <2> QED BY <1>2, <2>1
<1>11. ASSUME ReceiveSucceeded \/ ReceiveFailed PROVE Contract!Next
  BY <1>4, <1>11, MovesOf, SettlesRunning
<1> QED BY <1>5, <1>6, <1>7, <1>8, <1>9, <1>10, <1>11 DEF Next, DriverStep, Disturbance

(***************************************************************************)
(* What the store says of a run and of its retries is a behaviour of the   *)
(* abstract contract, through conditions, failures and crashes, if no two  *)
(* jobs meet under a skip.                                                 *)
(***************************************************************************)
THEOREM ContractImplemented == ASSUME MetOnce PROVE Spec => ImplementsContract
<1>1. Init => Contract!Init
  BY DEF Init, Contract!Init
<1>2. AccountingInv /\ OnceInv /\ SettleInv /\ [Next]_vars => [Contract!Next]_Contract!vars
  BY ContractNext
<1> QED BY <1>1, <1>2, SettleInvariant, PTL DEF Spec, ImplementsContract, Contract!Spec

-----------------------------------------------------------------------------
(***************************************************************************)
(* Conditions.  The loops over the roots and over the ready jobs launch    *)
(* without a look at `when:`, the other two evaluate it.  A root waits for *)
(* nothing, so that its condition is on none of its dependencies; a ready  *)
(* job waits for kept jobs only.  Any other decision is made over          *)
(* dependencies that are done with, whose rows are final.                  *)
(***************************************************************************)

\* The job a condition is on, and what the driver knows of it.
Tested(j) == When[j[1]].on

LEMMA RowsSayIt ==
  ASSUME TypeOK, StatusInv, NEW j \in Conditional, Passed(Tested(j))
  PROVE  EvalWhen(j) <=> MetByRows(j)
<1>1. Tested(j) \in Jobs
  BY DepsType DEF Conditional, Tested
<1>2. row[Tested(j)] = status[Tested(j)] /\ status[Tested(j)] \in {"succeeded", "skipped"}
  BY <1>1 DEF StatusInv, Passed
<1>3. CASE status[Tested(j)] = "succeeded"
  <2>1. StatusName(Tested(j)) = "SUCCESS"
    BY <1>1, <1>3 DEF StatusName
  <2> QED BY <1>2, <1>3, <2>1 DEF EvalWhen, MetByRows, Tested
<1>4. CASE status[Tested(j)] = "skipped"
  <2>1. StatusName(Tested(j)) = "SKIPPED"
    BY <1>1, <1>4 DEF StatusName
  <2> QED BY <1>2, <1>4, <2>1 DEF EvalWhen, MetByRows, Tested
<1> QED BY <1>2, <1>3, <1>4

\* A step that launches or skips such a job has evaluated the condition, of a
\* dependency that is done with.
LEMMA Evaluated ==
  ASSUME AccountingInv, OnceInv, [Next]_vars, NEW j \in Conditional, j \notin pre \cup ReadyJobs
  PROVE  /\ launched'[j] > launched[j] => EvalWhen(j) /\ Passed(Tested(j))
         /\ row'[j] = "skipped" /\ row[j] # "skipped" => ~EvalWhen(j) /\ Passed(Tested(j))
<1> DEFINE Decided == /\ launched'[j] > launched[j] => EvalWhen(j) /\ Passed(Tested(j))
                      /\ row'[j] = "skipped" /\ row[j] # "skipped"
                           => ~EvalWhen(j) /\ Passed(Tested(j))
<1> USE DEF AccountingInv, OnceInv, Goto, Drop, Below, plan, store, loop, book, pool, hist
<1>0. j \in Jobs /\ HasWhen(j) /\ Tested(j) \in Deps[j]
  BY DEF Conditional, Tested
<1>1. ASSUME UNCHANGED launched, row'[j] = "skipped" => row[j] = "skipped" PROVE Decided
  BY <1>0, <1>1 DEF TypeOK
<1>2. ASSUME NEW k \in Jobs, Launch(k), k = j => EvalWhen(j) /\ AllDone(j) PROVE Decided
  <2>1. row'[j] = "skipped" => row[j] = "skipped"
    BY <1>0, <1>2 DEF Launch, Record, TypeOK
  <2>2. launched'[j] > launched[j] => k = j
    BY <1>0, <1>2 DEF Launch, TypeOK
  <2>3. AllDone(j) => Passed(Tested(j))
    BY <1>0, DoneMeansPassed
  <2> QED BY <1>2, <2>1, <2>2, <2>3
<1>3. ASSUME NEW k \in Jobs, Skip(k), k = j => ~EvalWhen(j) /\ AllDone(j) PROVE Decided
  <2>1. UNCHANGED launched
    BY <1>3 DEF Skip
  <2>2. row'[j] = "skipped" => row[j] = "skipped" \/ k = j
    BY <1>0, <1>3 DEF Skip, Record, TypeOK
  <2>3. AllDone(j) => Passed(Tested(j))
    BY <1>0, DoneMeansPassed
  <2>4. ~(launched'[j] > launched[j])
    BY <1>0, <2>1 DEF TypeOK
  <2> QED BY <1>3, <2>2, <2>3, <2>4
<1>4. ASSUME NEW k \in todo, LaunchRoot(k) PROVE Decided
  <2>1. k \in Jobs /\ k \in Roots /\ Launch(k)
    BY <1>4 DEF LaunchRoot, LoopInv, TypeOK
  <2>2. k # j
    BY <1>0, <2>1 DEF Roots
  <2> QED BY <2>1, <2>2, <1>2
<1>5. ASSUME NEW k \in todo, LaunchReady(k) PROVE Decided
  <2>1. k \in Jobs /\ k \in ReadyJobs /\ Launch(k)
    BY <1>5 DEF LaunchReady, LoopInv, TypeOK
  <2> QED BY <2>1, <1>2
<1>6. ASSUME NEW k \in todo, LaunchDependent(k) PROVE Decided
  <2>1. k \in Jobs /\ Launch(k) /\ AllDone(k) /\ ~ShouldSkip(k)
    BY <1>6 DEF LaunchDependent, TypeOK
  <2>2. k = j => EvalWhen(j)
    BY <1>0, <2>1 DEF ShouldSkip
  <2> QED BY <2>1, <2>2, <1>2
<1>7. ASSUME NEW k \in todo, SkipDependent(k) PROVE Decided
  <2>1. k \in Jobs /\ Skip(k) /\ AllDone(k) /\ ShouldSkip(k)
    BY <1>7 DEF SkipDependent, TypeOK
  <2>2. k = j => ~EvalWhen(j)
    BY <1>0, <2>1 DEF ShouldSkip
  <2> QED BY <2>1, <2>2, <1>3
<1>8. ASSUME NEW k \in below, CascadeLaunch(k) PROVE Decided
  <2>1. k \in Jobs /\ Launch(k) /\ AllDone(k) /\ ~CascadeSkip(k)
    BY <1>8 DEF CascadeLaunch, TypeOK
  <2>2. k = j => EvalWhen(j)
    BY <1>0, <2>1 DEF CascadeSkip
  <2> QED BY <2>1, <2>2, <1>2
<1>9. ASSUME NEW k \in below, CascadeToSkip(k) PROVE Decided
  <2>1. k \in Jobs /\ Skip(k) /\ AllDone(k) /\ CascadeSkip(k)
    BY <1>9 DEF CascadeToSkip, TypeOK
  <2>2. k = j => ~EvalWhen(j)
    BY <1>0, <2>1 DEF CascadeSkip
  <2> QED BY <2>1, <2>2, <1>3
<1>10. ASSUME NEW k \in todo, SeedPre(k) PROVE Decided
  <2>1. k \in Jobs /\ Record(k, "succeeded") /\ UNCHANGED launched
    BY <1>10 DEF SeedPre, TypeOK
  <2>2. row'[j] = "skipped" => row[j] = "skipped"
    BY <1>0, <2>1 DEF Record, TypeOK
  <2> QED BY <2>1, <2>2, <1>1
<1>11. ASSUME ReceiveSucceeded \/ ReceiveFailed PROVE Decided
  <2>1. PICK k \in Jobs, s \in {"succeeded", "failed"} : Record(k, s) /\ UNCHANGED launched
    <3>1. Head(channel).task.job \in Jobs
      BY <1>11, EventType DEF ReceiveSucceeded, ReceiveFailed
    <3>2. \E s \in {"succeeded", "failed"} : Settles(Head(channel).task.job, s)
      BY <1>11, MovesOf
    <3> QED BY <3>1, <3>2 DEF Settles
  <2>2. row'[j] = "skipped" => row[j] = "skipped"
    BY <1>0, <2>1 DEF Record, TypeOK
  <2> QED BY <2>1, <2>2, <1>1
<1>12. ASSUME \/ CreateRun \/ SeedDone \/ RootsDone \/ ReadyDone \/ LoopDone \/ VisitDone
              \/ CascadePop \/ CascadeDone \/ CompleteRun \/ StoreError \/ ProcessEnds
              \/ TaskStep \/ UNCHANGED vars
              \/ (\E k \in todo : PassOver(k)) \/ (\E k \in below : CascadePassOver(k))
       PROVE  UNCHANGED <<launched, row>>
  BY <1>12 DEF CreateRun, SeedDone, RootsDone, ReadyDone, LoopDone, VisitDone, CascadePop,
               CascadeDone, CompleteRun, StoreError, ProcessEnds, TaskStep, Leaves, AcquirePermit,
               TaskEnds, PreflightFails, PassOver, CascadePassOver, vars
<1>13. ASSUME NEW n \in JobNames, Retry(n) PROVE Decided
  BY <1>0, <1>13 DEF Retry, TypeOK
<1>14. UNCHANGED <<launched, row>> => Decided
  BY <1>1
<1> HIDE DEF Decided, AccountingInv, OnceInv, Goto, Drop, Below, plan, store, loop, book, pool, hist
<1>15. ASSUME TaskStep \/ StoreError \/ ProcessEnds \/ UNCHANGED vars PROVE Decided
  BY <1>12, <1>14, <1>15
<1>16. ASSUME DriverStep PROVE Decided
  BY <1>4, <1>5, <1>6, <1>7, <1>8, <1>9, <1>10, <1>11, <1>12, <1>14, <1>16 DEF DriverStep
<1>17. Decided
  BY <1>13, <1>15, <1>16 DEF Next, Disturbance
<1> QED BY <1>17 DEF Decided

\* What was decided stays right, for the rows it was decided by are final.
LEMMA ConditionsNext ==
  ASSUME AccountingInv, OnceInv, StatusInv', TypeOK', ConditionsSettled, [Next]_vars
  PROVE  ConditionsSettled'
<1>1. CASE UNCHANGED plan
  <2> SUFFICES ASSUME NEW j \in Conditional, j \notin pre \cup ReadyJobs
               PROVE  /\ launched'[j] > 0 => MetByRows(j)'
                      /\ row'[j] = "skipped" => ~MetByRows(j)'
    BY <1>1 DEF plan, ConditionsSettled, ReadyJobs
  <2>1. j \in Jobs /\ Tested(j) \in Deps[j] /\ Tested(j) \in Jobs
    BY DepsType DEF Conditional, Tested
  <2>2. Passed(Tested(j)) => row'[Tested(j)] = row[Tested(j)]
    <3>1. Passed(Tested(j)) => row[Tested(j)] \in {"succeeded", "skipped"}
      BY <2>1 DEF OnceInv, StatusInv, Passed
    <3> QED BY <1>1, <2>1, <3>1, RowsKept DEF plan
  <2>3. row'[Tested(j)] = row[Tested(j)] => (MetByRows(j)' <=> MetByRows(j))
    BY DEF MetByRows, Tested
  <2>4. ASSUME launched'[j] > 0 PROVE MetByRows(j)'
    <3>1. CASE launched[j] > 0
      <4>1. Passed(Tested(j)) /\ MetByRows(j)
        BY <2>1, <3>1 DEF OnceInv, StatusInv, ConditionsSettled
      <4> QED BY <4>1, <2>2, <2>3
    <3>2. CASE ~(launched[j] > 0)
      <4>1. launched'[j] > launched[j]
        BY <2>1, <2>4, <3>2 DEF AccountingInv, TypeOK
      <4>2. EvalWhen(j) /\ Passed(Tested(j))
        BY <4>1, Evaluated
      <4> QED BY <4>2, <2>2, <2>3, RowsSayIt DEF AccountingInv, OnceInv
    <3> QED BY <3>1, <3>2
  <2>5. ASSUME row'[j] = "skipped" PROVE ~MetByRows(j)'
    <3>1. CASE row[j] = "skipped"
      <4>1. Passed(Tested(j)) /\ ~MetByRows(j)
        BY <2>1, <3>1 DEF OnceInv, StatusInv, ConditionsSettled
      <4> QED BY <4>1, <2>2, <2>3
    <3>2. CASE row[j] # "skipped"
      <4>1. ~EvalWhen(j) /\ Passed(Tested(j))
        BY <2>5, <3>2, Evaluated
      <4> QED BY <4>1, <2>2, <2>3, RowsSayIt DEF AccountingInv, OnceInv
    <3> QED BY <3>1, <3>2
  <2> QED BY <2>4, <2>5
<1>2. ASSUME NEW n \in JobNames, Retry(n) PROVE ConditionsSettled'
  BY <1>2 DEF Retry, ConditionsSettled, Conditional
<1> QED BY <1>1, <1>2, PlanKept

(***************************************************************************)
(* If no two jobs meet under a skip: a job with a condition on one of its  *)
(* dependencies was launched only if the condition holds of the rows, and  *)
(* skipped only if it does not, to the end of the run and in retries too,  *)
(* the jobs apart that wait for nothing but what a retry took over.        *)
(***************************************************************************)
THEOREM ConditionsHonoured == ASSUME MetOnce PROVE Spec => []ConditionsSettled
<1>1. Init => ConditionsSettled
  BY DEF Init, ConditionsSettled, Conditional
<1>2. /\ AccountingInv /\ OnceInv /\ AccountingInv' /\ OnceInv' /\ ConditionsSettled /\ [Next]_vars
      => ConditionsSettled'
  BY ConditionsNext DEF AccountingInv, OnceInv
<1> QED BY <1>1, <1>2, OnceInvariant, PTL DEF Spec
=============================================================================
