----------------------------- MODULE StoreProofs -----------------------------
(***************************************************************************)
(* What prune spares, what it leaves behind and what readers see of it,    *)
(* for any number of runs, jobs and readers and any age.  The argument is  *)
(* about the cutoff: prune computes it once, the clock only goes on, so    *)
(* that whatever either of its statements deletes is older than Keep.      *)
(***************************************************************************)
EXTENDS RunHistory, WorkerPool, FiniteSetTheorems, TLAPS

\* Rows are made by the drivers and completed by them; prune's cutoff is old.
RowInv ==
  /\ \A r \in Runs : driver[r] = "new" => runs[r] = Absent /\ states[r] = NoJobs /\ left[r] = NoJobs
  /\ \A r \in Runs : Present(r) => runs[r].started = began[r] /\ runs[r].status # "none"
  /\ \A r \in Runs : runs[r].status \in Final => driver[r] = "ended"
  /\ prune.cutoff = 0 \/ prune.cutoff + Keep <= clock

\* Between its statements, jobs have come back only from a run that is too old.
HalfInv ==
  prune.phase = "jobs" =>
    \A r \in Runs : Before(r, prune.cutoff) /\ states[r] # NoJobs => r \in overlong

\* A reader past the first statement has seen a row; a final status stays true.
ViewInv ==
  \A x \in Readers :
    /\ view[x].phase # "closed" => view[x].run \in Runs
    /\ view[x].phase \in {"row", "loaded", "listed", "shown", "page"} => view[x].status # "none"
    /\ view[x].status \in Final => view[x].run \in Runs /\ driver[view[x].run] = "ended"

StoreInv == TypeOK /\ RowInv /\ YoungRunsKept /\ HalfInv /\ OrphansOnlyOverlong

IInv == StoreInv /\ ViewInv /\ ViewsWhole

-----------------------------------------------------------------------------
(* Type correctness                                                        *)

LEMMA HistoryTypeInit == Init => TypeOK
BY HistoryAssumption DEF Init, TypeOK, Absent, NoJobs, Closed, Status, Final

\* A reader's step, whoever takes it.
ReaderStep(x) == Tool(x) \/ Page(x) \/ Close(x)

LEMMA ReaderTouches ==
  ASSUME NEW x \in Readers, ReaderStep(x)
  PROVE  UNCHANGED <<clock, store, driver, past, prune>>
BY DEF ReaderStep, Tool, Page, Close, StatusReads, RetryReads, GetRun, LoadPath, LoadRun,
       ListRuns, GetRunJobs

LEMMA ReaderCases ==
  ASSUME NEW x \in Readers, ReaderStep(x)
  PROVE  \/ \E r \in Runs : GetRun(x, r) \/ LoadPath(x, r) \/ ListRuns(x, r)
         \/ LoadRun(x) \/ Close(x)
         \/ \E at \in {"row", "loaded", "listed", "page"}, then \in {"shown", "page"} :
              GetRunJobs(x, at, then)
BY DEF ReaderStep, Tool, Page, StatusReads, RetryReads

Views == [phase : {"closed", "path", "row", "loaded", "listed", "shown", "page"},
          run : Runs \cup {"none"}, status : Status, jobs : [Jobs -> Status], old : BOOLEAN]

LEMMA ReaderType ==
  ASSUME TypeOK, ViewInv, NEW x \in Readers, ReaderStep(x)
  PROVE  TypeOK'
<1>1. UNCHANGED <<clock, store, driver, past, prune>>
  BY ReaderTouches
<1>2. view \in [Readers -> Views]
  BY DEF TypeOK, Views
<1>3. \A r \in Runs : runs[r].status \in Status /\ states[r] \in [Jobs -> Status]
  BY DEF TypeOK
<1>4. Closed \in Views /\ \A r \in Runs : Seen(r) \in Views
  BY <1>3 DEF Closed, Seen, Views, NoJobs, Status
<1>5. view' \in [Readers -> Views]
  <2>1. ASSUME NEW r \in Runs, GetRun(x, r) \/ LoadPath(x, r) \/ ListRuns(x, r)
        PROVE  view' \in [Readers -> Views]
    <3>1. /\ [Seen(r) EXCEPT !.phase = "row"] \in Views
          /\ [Closed EXCEPT !.phase = "path", !.run = r] \in Views
          /\ [Seen(r) EXCEPT !.phase = "listed"] \in Views
      BY <1>4 DEF Views
    <3> QED BY <1>2, <2>1, <3>1 DEF GetRun, LoadPath, ListRuns
  <2>2. ASSUME LoadRun(x) PROVE view' \in [Readers -> Views]
    <3>1. view[x].run \in Runs
      BY <2>2 DEF LoadRun, ViewInv
    <3>2. [Seen(view[x].run) EXCEPT !.phase = "loaded"] \in Views
      BY <1>4, <3>1 DEF Views
    <3> QED BY <1>2, <1>4, <2>2, <3>2 DEF LoadRun
  <2>3. ASSUME Close(x) PROVE view' \in [Readers -> Views]
    BY <1>2, <1>4, <2>3 DEF Close
  <2>4. ASSUME NEW at \in {"row", "loaded", "listed", "page"}, NEW then \in {"shown", "page"},
               GetRunJobs(x, at, then)
        PROVE  view' \in [Readers -> Views]
    <3>1. view[x].run \in Runs /\ view[x] \in Views
      BY <1>2, <2>4 DEF GetRunJobs, ViewInv
    <3>2. (Age(view[x].run) > Keep) \in BOOLEAN
      OBVIOUS
    <3>3. ASSUME NEW b \in BOOLEAN
          PROVE  [view[x] EXCEPT !.phase = then, !.jobs = states[view[x].run], !.old = b] \in Views
      BY <1>3, <3>1 DEF Views
    <3>4. view' = [view EXCEPT ![x] = [view[x] EXCEPT !.phase = then, !.jobs = states[view[x].run],
                                                      !.old = Age(view[x].run) > Keep]]
      BY <1>2, <2>4 DEF GetRunJobs, Views
    <3> QED BY <1>2, <3>2, <3>3, <3>4
  <2> QED BY <2>1, <2>2, <2>3, <2>4, ReaderCases
<1> QED BY <1>1, <1>5 DEF TypeOK, Views, store, past

\* The steps of drivers, of prune and of the clock.
DriverStep(r) ==
  CreateRun(r) \/ CompleteRun(r) \/ Dies(r) \/ \E j \in Jobs, s \in Status : UpsertJob(r, j, s)

StoreStep == Tick \/ PruneJobs \/ PruneRuns \/ PruneDies \/ \E r \in Runs : DriverStep(r)

LEMMA StoreType ==
  ASSUME TypeOK, StoreStep
  PROVE  TypeOK'
<1> USE DEF TypeOK, store, past
<1>0. clock \in Nat /\ MaxTime \in Nat /\ Keep \in Nat
  BY HistoryAssumption
<1>1. CASE Tick
  BY <1>0, <1>1 DEF Tick
<1>2. CASE PruneJobs
  <2>1. prune' \in [phase : {"idle", "jobs"}, cutoff : Nat]
    BY <1>0, <1>2 DEF PruneJobs
  <2>2. states' \in [Runs -> [Jobs -> Status]]
    BY <1>2 DEF PruneJobs, NoJobs, Status
  <2> QED BY <1>2, <2>1, <2>2 DEF PruneJobs
<1>3. CASE PruneRuns
  <2>1. Absent \in [status : Status, started : 0 .. clock]
    BY <1>0 DEF Absent, Status
  <2>2. runs' \in [Runs -> [status : Status, started : 0 .. clock]]
    BY <1>3, <2>1 DEF PruneRuns
  <2>3. prune' \in [phase : {"idle", "jobs"}, cutoff : Nat]
    BY <1>3 DEF PruneRuns
  <2> QED BY <1>3, <2>2, <2>3 DEF PruneRuns
<1>4. CASE PruneDies
  BY <1>4 DEF PruneDies
<1>5. ASSUME NEW r \in Runs, CreateRun(r) PROVE TypeOK'
  BY <1>0, <1>5 DEF CreateRun, Status
<1>6. ASSUME NEW r \in Runs, CompleteRun(r) PROVE TypeOK'
  <2>1. ASSUME NEW s \in {"failed", "succeeded"}
        PROVE  [runs EXCEPT ![r].status = s] \in [Runs -> [status : Status, started : 0 .. clock]]
    <3>1. runs[r] \in [status : Status, started : 0 .. clock] /\ s \in Status
      BY DEF Status, Final
    <3>2. [runs[r] EXCEPT !.status = s] \in [status : Status, started : 0 .. clock]
      BY <3>1
    <3> QED BY <3>2
  <2>2. (IF \E j \in Jobs : left[r][j] = "failed" THEN "failed" ELSE "succeeded")
          \in {"failed", "succeeded"}
    OBVIOUS
  <2>3. runs' \in [Runs -> [status : Status, started : 0 .. clock]]
    BY <1>6, <2>1, <2>2 DEF CompleteRun
  <2> QED BY <1>6, <2>3 DEF CompleteRun
<1>7. ASSUME NEW r \in Runs, Dies(r) PROVE TypeOK'
  BY <1>7 DEF Dies
<1>8. ASSUME NEW r \in Runs, NEW j \in Jobs, NEW s \in Status, UpsertJob(r, j, s) PROVE TypeOK'
  BY <1>8 DEF UpsertJob
<1> QED BY <1>1, <1>2, <1>3, <1>4, <1>5, <1>6, <1>7, <1>8 DEF StoreStep, DriverStep

-----------------------------------------------------------------------------
(* The store                                                               *)

LEMMA AgeIsInteger ==
  ASSUME TypeOK
  PROVE  Keep \in Nat /\ \A r \in Runs : Age(r) \in Int
BY HistoryAssumption DEF TypeOK, Age

\* What either statement of prune deletes is too old to be spared.
LEMMA CutoffOld ==
  ASSUME TypeOK, RowInv, NEW r \in Runs, Before(r, prune.cutoff)
  PROVE  Age(r) > Keep /\ driver[r] # "new"
<1>1. runs[r].started = began[r] /\ runs[r].started \in Nat
  BY DEF RowInv, Before, TypeOK
<1>2. prune.cutoff \in Nat /\ clock \in Nat /\ Keep \in Nat
  BY HistoryAssumption DEF TypeOK
<1>3. prune.cutoff + Keep <= clock
  BY <1>1, <1>2 DEF RowInv, Before
<1>4. driver[r] # "new"
  BY DEF RowInv, Before, Present
<1> QED BY <1>1, <1>2, <1>3, <1>4 DEF Before, Age

LEMMA StoreInit == Init => StoreInv
<1> SUFFICES ASSUME Init PROVE StoreInv
  OBVIOUS
<1>1. TypeOK
  BY HistoryTypeInit
<1>2. RowInv
  BY DEF Init, RowInv, Present, Absent, Final
<1>3. YoungRunsKept /\ HalfInv /\ OrphansOnlyOverlong
  BY DEF Init, YoungRunsKept, HalfInv, OrphansOnlyOverlong
<1> QED BY <1>1, <1>2, <1>3 DEF StoreInv

\* RowInv, YoungRunsKept, HalfInv and OrphansOnlyOverlong speak of the store only.
LEMMA StoreUntouched ==
  ASSUME RowInv, YoungRunsKept, HalfInv, OrphansOnlyOverlong,
         UNCHANGED <<clock, store, driver, past, prune>>
  PROVE  RowInv' /\ YoungRunsKept' /\ HalfInv' /\ OrphansOnlyOverlong'
BY DEF RowInv, YoungRunsKept, HalfInv, OrphansOnlyOverlong, store, past, Present, Before, Age

LEMMA TickKeeps ==
  ASSUME StoreInv, Tick
  PROVE  RowInv' /\ YoungRunsKept' /\ HalfInv' /\ OrphansOnlyOverlong'
<1> USE DEF StoreInv, Tick, store, past, Present
<1>0. clock \in Nat /\ Keep \in Nat /\ prune.cutoff \in Nat /\ \A r \in Runs : began[r] \in Nat
  BY HistoryAssumption DEF TypeOK
<1>1. RowInv'
  BY <1>0 DEF RowInv
<1>2. YoungRunsKept'
  BY <1>0 DEF YoungRunsKept, Age
<1>3. HalfInv' /\ OrphansOnlyOverlong'
  BY DEF HalfInv, OrphansOnlyOverlong, Before
<1> QED BY <1>1, <1>2, <1>3

LEMMA PruneJobsKeeps ==
  ASSUME StoreInv, PruneJobs
  PROVE  RowInv' /\ YoungRunsKept' /\ HalfInv' /\ OrphansOnlyOverlong'
<1> USE DEF StoreInv, PruneJobs, past, Present
<1>0. /\ clock \in Nat /\ Keep \in Nat /\ clock' = clock /\ runs' = runs /\ driver' = driver
      /\ TypeOK'
  BY HistoryAssumption, StoreType DEF TypeOK, StoreStep
<1>1. RowInv'
  <2>1. prune'.cutoff = 0 \/ prune'.cutoff + Keep <= clock
    BY <1>0 DEF TypeOK
  <2>2. \A r \in Runs : states[r] = NoJobs => states'[r] = NoJobs
    OBVIOUS
  <2> QED BY <1>0, <2>1, <2>2 DEF RowInv
<1>2. \A r \in Runs : Before(r, prune.cutoff)' => Age(r) > Keep
  <2> SUFFICES ASSUME NEW r \in Runs, Before(r, prune.cutoff)' PROVE Age(r) > Keep
    OBVIOUS
  <2>1. runs[r].started = began[r] /\ began[r] \in Nat /\ prune'.cutoff \in Nat
    BY <1>0 DEF Before, RowInv, TypeOK
  <2>2. began[r] < prune'.cutoff
    BY <1>0, <2>1 DEF Before
  <2>3. prune'.cutoff + Keep <= clock
    BY <1>0, <1>1, <2>1, <2>2 DEF RowInv
  <2> QED BY <1>0, <2>1, <2>2, <2>3 DEF Age
<1>3. YoungRunsKept'
  <2>1. \A r \in Runs : (Age(r) <= Keep)' => Age(r) <= Keep /\ ~Before(r, prune.cutoff)'
    BY <1>0, <1>2, AgeIsInteger DEF Age
  <2>2. \A r \in Runs : ~Before(r, prune.cutoff)' => states'[r] = states[r]
    BY <1>0 DEF Before
  <2> QED BY <1>0, <2>1, <2>2 DEF YoungRunsKept
<1>4. HalfInv' /\ OrphansOnlyOverlong'
  BY <1>0 DEF HalfInv, OrphansOnlyOverlong, Before
<1> QED BY <1>1, <1>3, <1>4

LEMMA PruneRunsKeeps ==
  ASSUME StoreInv, PruneRuns
  PROVE  RowInv' /\ YoungRunsKept' /\ HalfInv' /\ OrphansOnlyOverlong'
<1> USE DEF StoreInv, PruneRuns, past, Present
<1>0. clock' = clock /\ driver' = driver /\ states' = states /\ prune'.cutoff = prune.cutoff
      /\ prune'.phase = "idle"
  BY DEF TypeOK
<1>1. \A r \in Runs : runs'[r] = IF Before(r, prune.cutoff) THEN Absent ELSE runs[r]
  OBVIOUS
<1>2. \A r \in Runs : Before(r, prune.cutoff) => Age(r) > Keep
  BY CutoffOld
<1>3. RowInv'
  BY <1>0, <1>1 DEF RowInv, Absent, Final
<1>4. YoungRunsKept'
  BY <1>0, <1>1, <1>2, HistoryAssumption DEF YoungRunsKept, Age, TypeOK
<1>5. HalfInv'
  BY <1>0 DEF HalfInv
<1>6. OrphansOnlyOverlong'
  BY <1>0, <1>1 DEF OrphansOnlyOverlong, HalfInv, Before
<1> QED BY <1>3, <1>4, <1>5, <1>6

LEMMA PruneDiesKeeps ==
  ASSUME StoreInv, PruneDies
  PROVE  RowInv' /\ YoungRunsKept' /\ HalfInv' /\ OrphansOnlyOverlong'
BY DEF StoreInv, PruneDies, TypeOK, RowInv, YoungRunsKept, HalfInv, OrphansOnlyOverlong,
       store, past, Present, Before, Age

LEMMA CreateRunKeeps ==
  ASSUME StoreInv, NEW r \in Runs, CreateRun(r)
  PROVE  RowInv' /\ YoungRunsKept' /\ HalfInv' /\ OrphansOnlyOverlong'
<1> USE DEF StoreInv, CreateRun, Present
<1>0. /\ clock' = clock /\ states' = states /\ left' = left /\ prune' = prune /\ overlong' = overlong
      /\ states[r] = NoJobs /\ left[r] = NoJobs
      /\ runs'[r] = [status |-> "running", started |-> clock] /\ began'[r] = clock
      /\ driver'[r] = "running"
  BY DEF TypeOK, RowInv
<1>1. \A q \in Runs \ {r} : runs'[q] = runs[q] /\ began'[q] = began[q] /\ driver'[q] = driver[q]
  BY DEF TypeOK
<1>2. runs'[r] # Absent /\ runs'[r].status = "running" /\ runs'[r].started = clock
  BY <1>0 DEF Absent
<1>3. RowInv'
  BY <1>0, <1>1, <1>2 DEF RowInv, Final
<1>4. YoungRunsKept'
  BY <1>0, <1>1, <1>2 DEF YoungRunsKept, Age
<1>5. HalfInv' /\ OrphansOnlyOverlong'
  BY <1>0, <1>1, <1>2 DEF HalfInv, OrphansOnlyOverlong, Before
<1> QED BY <1>3, <1>4, <1>5

LEMMA CompleteRunKeeps ==
  ASSUME StoreInv, NEW r \in Runs, CompleteRun(r)
  PROVE  RowInv' /\ YoungRunsKept' /\ HalfInv' /\ OrphansOnlyOverlong'
<1> USE DEF StoreInv, CompleteRun, Present, past
<1>0. /\ clock' = clock /\ states' = states /\ left' = left /\ began' = began /\ prune' = prune
      /\ overlong' = overlong /\ driver[r] = "running" /\ driver'[r] = "ended"
  BY DEF TypeOK
<1>1. \A q \in Runs \ {r} : runs'[q] = runs[q] /\ driver'[q] = driver[q]
  BY DEF TypeOK
<1>2. CASE runs[r] = Absent
  BY <1>0, <1>1, <1>2
     DEF RowInv, YoungRunsKept, HalfInv, OrphansOnlyOverlong, Before, Age, Absent, Final
<1>3. CASE runs[r] # Absent
  <2>1. runs'[r].status \in {"failed", "succeeded"} /\ runs'[r].started = runs[r].started
    BY <1>3 DEF TypeOK
  <2>2. runs'[r] # Absent
    BY <2>1 DEF Absent
  <2> QED BY <1>0, <1>1, <1>3, <2>1, <2>2
          DEF RowInv, YoungRunsKept, HalfInv, OrphansOnlyOverlong, Before, Age, Final
<1> QED BY <1>2, <1>3

LEMMA DiesKeeps ==
  ASSUME StoreInv, NEW r \in Runs, Dies(r)
  PROVE  RowInv' /\ YoungRunsKept' /\ HalfInv' /\ OrphansOnlyOverlong'
<1>1. /\ driver[r] = "running" /\ driver'[r] = "dead"
      /\ \A q \in Runs \ {r} : driver'[q] = driver[q]
  BY DEF StoreInv, TypeOK, Dies
<1> QED BY <1>1 DEF StoreInv, Dies, RowInv, YoungRunsKept, HalfInv, OrphansOnlyOverlong,
                    store, past, Present, Before, Age

\* The row of a job that comes after the row of its run has gone is too old.
LEMMA UpsertKeeps ==
  ASSUME StoreInv, NEW r \in Runs, NEW j \in Jobs, NEW s \in Status, UpsertJob(r, j, s)
  PROVE  RowInv' /\ YoungRunsKept' /\ HalfInv' /\ OrphansOnlyOverlong'
<1> USE DEF StoreInv, UpsertJob
<1>0. /\ clock' = clock /\ runs' = runs /\ began' = began /\ prune' = prune /\ driver' = driver
      /\ driver[r] = "running" /\ overlong \subseteq overlong'
  OBVIOUS
<1>1. \A q \in Runs \ {r} : states'[q] = states[q] /\ left'[q] = left[q]
  BY DEF TypeOK
<1>2. states[r] = left[r] => states'[r] = left'[r]
  BY DEF TypeOK
<1>3. Age(r) > Keep => r \in overlong'
  OBVIOUS
<1>4. RowInv'
  BY <1>0, <1>1 DEF RowInv, Present
<1>5. YoungRunsKept'
  BY <1>0, <1>1, <1>2 DEF YoungRunsKept, Age, Present
<1>6. HalfInv'
  <2>1. Before(r, prune.cutoff) => r \in overlong'
    BY <1>3, CutoffOld
  <2> QED BY <1>0, <1>1, <2>1 DEF HalfInv, Before, Present
<1>7. OrphansOnlyOverlong'
  <2>1. ~Present(r) => Age(r) > Keep
    BY <1>0, AgeIsInteger DEF YoungRunsKept
  <2> QED BY <1>0, <1>1, <1>3, <2>1 DEF OrphansOnlyOverlong, Present
<1> QED BY <1>4, <1>5, <1>6, <1>7

LEMMA StoreKeeps ==
  ASSUME StoreInv, StoreStep
  PROVE  StoreInv'
<1>1. TypeOK'
  BY StoreType DEF StoreInv
<1>2. RowInv' /\ YoungRunsKept' /\ HalfInv' /\ OrphansOnlyOverlong'
  BY TickKeeps, PruneJobsKeeps, PruneRunsKeeps, PruneDiesKeeps, CreateRunKeeps, CompleteRunKeeps,
     DiesKeeps, UpsertKeeps DEF StoreStep, DriverStep
<1> QED BY <1>1, <1>2 DEF StoreInv

-----------------------------------------------------------------------------
(* The readers                                                             *)

\* What a driver that has ended wrote stays what it wrote.
LEMMA EndedStays ==
  ASSUME StoreInv, StoreStep, NEW r \in Runs, driver[r] = "ended"
  PROVE  driver'[r] = "ended" /\ left'[r] = left[r]
<1> USE DEF StoreInv, TypeOK
<1>1. CASE Tick \/ PruneJobs \/ PruneRuns \/ PruneDies
  BY <1>1 DEF Tick, PruneJobs, PruneRuns, PruneDies, past
<1>2. ASSUME NEW q \in Runs, DriverStep(q) PROVE driver'[r] = "ended" /\ left'[r] = left[r]
  BY <1>2 DEF DriverStep, CreateRun, CompleteRun, Dies, UpsertJob, past
<1> QED BY <1>1, <1>2 DEF StoreStep

LEMMA ViewsKept ==
  ASSUME IInv, StoreStep
  PROVE  ViewInv' /\ ViewsWhole'
<1>1. view' = view
  BY DEF StoreStep, DriverStep, Tick, PruneJobs, PruneRuns, PruneDies, CreateRun, CompleteRun,
         Dies, UpsertJob
<1>2. ViewInv'
  BY <1>1, EndedStays DEF IInv, ViewInv
<1>3. ViewsWhole'
  <2> SUFFICES ASSUME NEW x \in Readers, view[x].phase \in {"shown", "page"},
                      view[x].status # "running", ~view[x].old
               PROVE  view[x].jobs = left'[view[x].run]
    BY <1>1 DEF ViewsWhole
  <2>1. view[x].run \in Runs /\ view[x].status \in Final
    BY DEF IInv, StoreInv, TypeOK, ViewInv, Status
  <2>2. left'[view[x].run] = left[view[x].run]
    BY <2>1, EndedStays DEF IInv, ViewInv
  <2> QED BY <2>2 DEF IInv, ViewsWhole
<1> QED BY <1>2, <1>3

\* What holds of one reader's view; ViewInv and ViewsWhole hold it of all.
ViewFact(x) ==
  /\ view[x].phase # "closed" => view[x].run \in Runs
  /\ view[x].phase \in {"row", "loaded", "listed", "shown", "page"} => view[x].status # "none"
  /\ view[x].status \in Final => view[x].run \in Runs /\ driver[view[x].run] = "ended"
  /\ view[x].phase \in {"shown", "page"} /\ view[x].status # "running" /\ ~view[x].old
       => view[x].jobs = left[view[x].run]

LEMMA ViewFacts == ViewInv /\ ViewsWhole <=> \A x \in Readers : ViewFact(x)
BY DEF ViewInv, ViewsWhole, ViewFact

\* A row that is read: what it says of the status is final only if the run has ended.
LEMMA RowRead ==
  ASSUME IInv, NEW x \in Readers, UNCHANGED <<runs, driver, left>>,
         NEW r \in Runs, Present(r), NEW p \in {"row", "loaded", "listed"},
         view'[x] = [Seen(r) EXCEPT !.phase = p]
  PROVE  ViewFact(x)'
<1>1. /\ view'[x].phase = p /\ view'[x].run = r /\ view'[x].status = runs[r].status
  BY DEF Seen, Closed
<1>2. runs[r].status # "none" /\ (runs[r].status \in Final => driver[r] = "ended")
  BY DEF IInv, StoreInv, RowInv
<1> QED BY <1>1, <1>2 DEF ViewFact

LEMMA ClosedFact ==
  ASSUME NEW x \in Readers,
         \/ view'[x] = Closed
         \/ \E r \in Runs : view'[x] = [Closed EXCEPT !.phase = "path", !.run = r]
  PROVE  ViewFact(x)'
<1>1. CASE view'[x] = Closed
  <2>1. view'[x].phase = "closed" /\ view'[x].status = "none"
    BY <1>1 DEF Closed
  <2> QED BY <2>1 DEF ViewFact, Final
<1>2. ASSUME NEW r \in Runs, view'[x] = [Closed EXCEPT !.phase = "path", !.run = r]
      PROVE  ViewFact(x)'
  <2>1. view'[x].phase = "path" /\ view'[x].status = "none" /\ view'[x].run = r
    BY <1>2 DEF Closed
  <2> QED BY <2>1 DEF ViewFact, Final
<1> QED BY <1>1, <1>2

(***************************************************************************)
(* The second statement: who has seen a final status reads what the driver *)
(* left, for what is young is kept.                                        *)
(***************************************************************************)
LEMMA JobsRead ==
  ASSUME IInv, NEW x \in Readers, UNCHANGED <<clock, store, driver, past, prune>>,
         NEW at \in {"row", "loaded", "listed", "page"}, NEW then \in {"shown", "page"},
         GetRunJobs(x, at, then)
  PROVE  ViewFact(x)' /\ \A y \in Readers \ {x} : view'[y] = view[y]
<1> USE DEF IInv, StoreInv
<1>1. view \in [Readers -> Views] /\ view[x] \in Views
  BY DEF TypeOK, Views
<1>2. view' = [view EXCEPT ![x] = [view[x] EXCEPT !.phase = then, !.jobs = states[view[x].run],
                                                  !.old = Age(view[x].run) > Keep]]
  BY <1>1 DEF GetRunJobs, Views
<1>3. /\ view'[x].phase = then /\ view'[x].jobs = states[view[x].run]
      /\ view'[x].old = (Age(view[x].run) > Keep)
      /\ view'[x].run = view[x].run /\ view'[x].status = view[x].status
  BY <1>1, <1>2 DEF Views
<1>4. view[x].run \in Runs /\ view[x].status # "none" /\ view[x].status \in Status
  BY <1>1 DEF GetRunJobs, ViewInv, Views
<1>5. ASSUME view[x].status # "running", ~(Age(view[x].run) > Keep)
      PROVE  states[view[x].run] = left[view[x].run]
  <2>1. driver[view[x].run] = "ended"
    BY <1>4, <1>5 DEF ViewInv, Status
  <2>2. Age(view[x].run) <= Keep
    BY <1>4, <1>5, AgeIsInteger
  <2> QED BY <1>4, <2>1, <2>2 DEF YoungRunsKept
<1>6. ViewFact(x)'
  BY <1>3, <1>4, <1>5 DEF ViewFact, ViewInv, store, past
<1>7. \A y \in Readers \ {x} : view'[y] = view[y]
  BY <1>1, <1>2
<1> QED BY <1>6, <1>7

LEMMA ReaderKeeps ==
  ASSUME IInv, NEW x \in Readers, ReaderStep(x)
  PROVE  IInv'
<1>0. UNCHANGED <<clock, store, driver, past, prune>>
  BY ReaderTouches
<1>1. StoreInv'
  BY <1>0, ReaderType, StoreUntouched DEF IInv, StoreInv
<1>2. UNCHANGED <<runs, driver, left>>
  BY <1>0 DEF store, past
<1>3. ViewFact(x)' /\ \A y \in Readers \ {x} : view'[y] = view[y]
  <2>0. view \in [Readers -> Views]
    BY DEF IInv, StoreInv, TypeOK, Views
  <2>1. ASSUME NEW r \in Runs, GetRun(x, r) \/ ListRuns(x, r)
        PROVE  ViewFact(x)' /\ \A y \in Readers \ {x} : view'[y] = view[y]
    <3>1. /\ Present(r)
          /\ \E p \in {"row", "listed"} : view' = [view EXCEPT ![x] = [Seen(r) EXCEPT !.phase = p]]
      BY <2>1 DEF GetRun, ListRuns
    <3>2. \E p \in {"row", "loaded", "listed"} : view'[x] = [Seen(r) EXCEPT !.phase = p]
      BY <2>0, <3>1
    <3> QED BY <1>2, <2>0, <3>1, <3>2, RowRead
  <2>2. ASSUME LoadRun(x)
        PROVE  ViewFact(x)' /\ \A y \in Readers \ {x} : view'[y] = view[y]
    <3>1. view[x].run \in Runs
      BY <2>2 DEF LoadRun, IInv, ViewInv
    <3>2. view'[x] = IF Present(view[x].run) THEN [Seen(view[x].run) EXCEPT !.phase = "loaded"] ELSE Closed
      BY <2>0, <2>2 DEF LoadRun
    <3>3. ViewFact(x)'
      BY <1>2, <3>1, <3>2, RowRead, ClosedFact
    <3> QED BY <2>0, <2>2, <3>3 DEF LoadRun
  <2>3. ASSUME Close(x) \/ \E r \in Runs : LoadPath(x, r)
        PROVE  ViewFact(x)' /\ \A y \in Readers \ {x} : view'[y] = view[y]
    <3>1. \/ view'[x] = Closed
          \/ \E r \in Runs : view'[x] = [Closed EXCEPT !.phase = "path", !.run = r]
      BY <2>0, <2>3 DEF Close, LoadPath
    <3> QED BY <2>0, <2>3, <3>1, ClosedFact DEF Close, LoadPath
  <2> QED BY <1>0, <2>1, <2>2, <2>3, ReaderCases, JobsRead
<1>4. \A y \in Readers : ViewFact(y)'
  <2>1. \A y \in Readers : ViewFact(y)
    BY ViewFacts DEF IInv
  <2> QED BY <1>2, <1>3, <2>1 DEF ViewFact
<1> QED BY <1>1, <1>4, ViewFacts DEF IInv, ViewFact, ViewInv, ViewsWhole

-----------------------------------------------------------------------------
(* The theorems                                                            *)

THEOREM HistoryInvariant == Spec => []IInv
<1>1. Init => IInv
  BY StoreInit DEF Init, IInv, ViewInv, ViewsWhole, Closed, Final
<1>2. IInv /\ [Next]_vars => IInv'
  <2> SUFFICES ASSUME IInv, [Next]_vars PROVE IInv'
    OBVIOUS
  <2>1. CASE StoreStep
    BY <2>1, StoreKeeps, ViewsKept DEF IInv
  <2>2. ASSUME NEW x \in Readers, ReaderStep(x) PROVE IInv'
    BY <2>2, ReaderKeeps
  <2>3. CASE UNCHANGED vars
    BY <2>3 DEF vars, store, past, IInv, StoreInv, ViewInv, ViewsWhole, TypeOK, RowInv,
                YoungRunsKept, HalfInv, OrphansOnlyOverlong, Present, Before, Age
  <2> QED BY <2>1, <2>2, <2>3 DEF Next, StoreStep, DriverStep, ReaderStep
<1> QED BY <1>1, <1>2, PTL DEF Spec

\* Prune deletes nothing of a run that is not older than it was told to spare,
\* whenever its two statements come and whether or not both do (store.rs, prune).
THEOREM YoungSpared == Spec => []YoungRunsKept
BY HistoryInvariant, PTL DEF IInv, StoreInv

\* Rows of jobs without their run come only from runs that wrote them when
\* they were old enough to be deleted (store.rs, prune).
THEOREM OrphansOverlong == Spec => []OrphansOnlyOverlong
BY HistoryInvariant, PTL DEF IInv, StoreInv

\* Two statements show a finished run as its driver left it (status, logs,
\* retry, the MCP tools and the pages).
THEOREM ReadersSeeWhole == Spec => []ViewsWhole
BY HistoryInvariant, PTL DEF IInv

-----------------------------------------------------------------------------
(***************************************************************************)
(* The table of the workers.  Everything below is about WorkerPool.        *)
(* A worker is marked only where a verdict is written, and a run has every *)
(* verdict before it writes one (Asked), so that who is marked has failed  *)
(* (Blamed).  A list for a job is that of the healthy workers turned round *)
(* to a start (ChosenBy), where the k-th start is known from k alone       *)
(* (FirstOf): counting the turns that fall to a worker is then counting    *)
(* the numbers in its share.                                               *)
(***************************************************************************)

\* Induction, over a set instead of a predicate: a least number outside it has one before it.
LEMMA SetInduction ==
  ASSUME NEW S \in SUBSET Nat, 0 \in S, \A n \in S : n + 1 \in S
  PROVE  S = Nat
<1> DEFINE T == Nat \ S
<1> SUFFICES ASSUME T # {} PROVE FALSE
  OBVIOUS
<1>1. T \subseteq Nat /\ 0 \notin T
  OBVIOUS
<1> HIDE DEF T
<1>2. PICK x \in T : \A y \in T : ~(<<y, x>> \in OpToRel(<, Nat))
  BY <1>1, NatLessThanWellFounded, WFMin
<1>3. x \in Nat \ {0} /\ x - 1 \in Nat
  BY <1>1
<1>4. <<x - 1, x>> \in OpToRel(<, Nat)
  BY <1>3 DEF OpToRel
<1>5. x - 1 \in S
  BY <1>2, <1>3, <1>4 DEF T
<1>6. (x - 1) + 1 \in S
  BY <1>5
<1> QED BY <1>3, <1>6 DEF T

LEMMA ModRange ==
  ASSUME NEW a \in Nat, NEW n \in Nat \ {0}
  PROVE  a % n \in 0 .. n - 1
OBVIOUS

LEMMA ModSmall ==
  ASSUME NEW n \in Nat, NEW a \in 0 .. n - 1
  PROVE  a % n = a
OBVIOUS

LEMMA DivMod ==
  ASSUME NEW a \in Int, NEW n \in Int, n > 0
  PROVE  a = n * (a \div n) + (a % n)
BY SMTT(60)

\* Two numbers less than n apart leave different remainders.
LEMMA ModApart ==
  ASSUME NEW a \in Nat, NEW b \in Nat, NEW n \in Nat \ {0}, a < b, b - a < n
  PROVE  a % n # b % n
<1> SUFFICES ASSUME a % n = b % n PROVE FALSE
  OBVIOUS
<1> DEFINE q == b \div n
<1> DEFINE p == a \div n
<1>1. p \in Int /\ q \in Int /\ a % n \in Int
  OBVIOUS
<1>2. a = n * p + (a % n) /\ b = n * q + (a % n)
  BY DivMod
<1> HIDE DEF p, q
<1>3. b - a = n * (q - p)
  BY <1>1, <1>2
<1>4. PICK d \in Int : d = q - p
  BY <1>1
<1>5. ~ d >= 1
  BY <1>3, <1>4
<1>6. ~ d <= 0
  BY <1>3, <1>4
<1> QED BY <1>5, <1>6

-----------------------------------------------------------------------------
(* What a filter leaves of a sequence                                      *)

Rising(p) == \A a, b \in DOMAIN p : a < b => p[a] < p[b]

Enumerable(I) == IsFiniteSet(I) /\ \E p \in [1 .. Cardinality(I) -> I] : Rising(p)

\* A set of numbers up to n can be listed in order.
LEMMA RisingExists ==
  ASSUME NEW n \in Nat, NEW I, I \subseteq 1 .. n
  PROVE  Enumerable(I)
<1> DEFINE Good == {m \in Nat : \A J : J \subseteq 1 .. m => Enumerable(J)}
<1>1. 0 \in Good
  <2> SUFFICES ASSUME NEW J, J \subseteq 1 .. 0 PROVE Enumerable(J)
    OBVIOUS
  <2>1. J = {} /\ IsFiniteSet(J) /\ Cardinality(J) = 0
    <3>1. \A x \in J : x \in 1 .. 0
      OBVIOUS
    <3>2. J = {}
      BY <3>1
    <3> QED BY <3>2, FS_EmptySet
  <2> DEFINE p == [a \in 1 .. 0 |-> a]
  <2>2. p \in [1 .. 0 -> J] /\ Rising(p)
    BY DEF Rising
  <2> QED BY <2>1, <2>2 DEF Enumerable
<1>2. ASSUME NEW m \in Good PROVE m + 1 \in Good
  <2> SUFFICES ASSUME NEW J, J \subseteq 1 .. m + 1 PROVE Enumerable(J)
    OBVIOUS
  <2> DEFINE K == J \ {m + 1}
  <2>1. Enumerable(K)
    <3>1. K \subseteq 1 .. m
      OBVIOUS
    <3> QED BY <3>1
  <2>2. CASE m + 1 \notin J
    <3>1. J = K
      BY <2>2
    <3> QED BY <2>1, <3>1
  <2>3. CASE m + 1 \in J
    <3> DEFINE c == Cardinality(K)
    <3>1. IsFiniteSet(K) /\ c \in Nat /\ \E p \in [1 .. c -> K] : Rising(p)
      BY <2>1, FS_CardinalityType DEF Enumerable
    <3>2. J = K \cup {m + 1} /\ m + 1 \notin K /\ \A x \in K : x \in J /\ x \in 1 .. m + 1
      BY <2>3
    <3>3. \A x \in K : x < m + 1
      BY <3>2
    <3> HIDE DEF K
    <3>4. IsFiniteSet(J) /\ Cardinality(J) = c + 1
      BY <3>1, <3>2, FS_AddElement
    <3> HIDE DEF c
    <3>5. PICK p \in [1 .. c -> K] : Rising(p)
      BY <3>1
    <3>6. \A a \in 1 .. c : p[a] \in J /\ p[a] < m + 1
      BY <3>2, <3>3
    <3> DEFINE q == [a \in 1 .. c + 1 |-> IF a = c + 1 THEN m + 1 ELSE p[a]]
    <3>7. q \in [1 .. c + 1 -> J]
      BY <2>3, <3>1, <3>6
    <3>8. Rising(q)
      <4> SUFFICES ASSUME NEW a \in 1 .. c + 1, NEW b \in 1 .. c + 1, a < b PROVE q[a] < q[b]
        BY DEF Rising
      <4>1. a \in 1 .. c /\ q[a] = p[a]
        BY <3>1
      <4>2. CASE b = c + 1
        BY <4>1, <4>2, <3>6
      <4>3. CASE b # c + 1
        BY <4>1, <4>3, <3>1, <3>5 DEF Rising
      <4> QED BY <4>2, <4>3
    <3> QED BY <3>4, <3>7, <3>8 DEF Enumerable
  <2> QED BY <2>2, <2>3
<1>3. Good = Nat
  <2> HIDE DEF Good
  <2>1. Good \in SUBSET Nat
    BY DEF Good
  <2> QED BY <1>1, <1>2, <2>1, SetInduction
<1> QED BY <1>3

\* The listing has every number once.
LEMMA AscendingLists ==
  ASSUME NEW n \in Nat, NEW I, I \subseteq 1 .. n
  PROVE  /\ IsFiniteSet(I) /\ Cardinality(I) \in Nat
         /\ Ascending(I) \in [1 .. Cardinality(I) -> I]
         /\ \A a, b \in 1 .. Cardinality(I) : Ascending(I)[a] = Ascending(I)[b] => a = b
         /\ \A i \in I : \E a \in 1 .. Cardinality(I) : Ascending(I)[a] = i
<1> DEFINE c == Cardinality(I)
<1> DEFINE p == Ascending(I)
<1>1. IsFiniteSet(I) /\ c \in Nat
  BY RisingExists, FS_CardinalityType DEF Enumerable
<1>2. p \in [1 .. c -> I] /\ Rising(p)
  BY RisingExists DEF Ascending, Enumerable, Rising
<1> HIDE DEF p, c
<1>3. \A a, b \in 1 .. c : p[a] = p[b] => a = b
  <2> SUFFICES ASSUME NEW a \in 1 .. c, NEW b \in 1 .. c, p[a] = p[b] PROVE a = b
    OBVIOUS
  <2>1. p[a] \in Nat
    <3>1. \A i \in I : i \in 1 .. n
      OBVIOUS
    <3>2. p[a] \in I
      BY <1>2
    <3>3. p[a] \in 1 .. n
      BY <3>1, <3>2, Zenon
    <3> QED BY <3>3
  <2>2. ~ (a < b) /\ ~ (b < a)
    BY <1>2, <2>1 DEF Rising
  <2> QED BY <1>1, <2>2
<1>4. p \in Injection(1 .. c, I)
  BY <1>2, <1>3 DEF Injection, IsInjective
<1>5. IsFiniteSet(1 .. c) /\ Cardinality(1 .. c) = c
  BY <1>1, FS_Interval
<1>6. p \in Surjection(1 .. c, I)
  BY <1>1, <1>4, <1>5, FS_Injection DEF c
<1>7. \A i \in I : \E a \in 1 .. c : p[a] = i
  BY <1>6 DEF Surjection
<1> QED BY <1>1, <1>2, <1>3, <1>7 DEF p, c

\* It matches the elements that are kept with the positions they were kept from.
Matches(p, t, s, I) ==
  /\ p \in [DOMAIN t -> I]
  /\ \A a, b \in DOMAIN t : p[a] = p[b] => a = b
  /\ \A i \in I : \E a \in DOMAIN t : p[a] = i
  /\ \A a \in DOMAIN t : t[a] = s[p[a]]

LEMMA KeptOf ==
  ASSUME NEW S, NEW s \in Seq(S), NEW I, I \subseteq 1 .. Len(s)
  PROVE  /\ Kept(s, I) \in Seq(S) /\ Len(Kept(s, I)) = Cardinality(I)
         /\ Matches(Ascending(I), Kept(s, I), s, I)
<1> DEFINE c == Cardinality(I)
<1> DEFINE p == Ascending(I)
<1> DEFINE t == Kept(s, I)
<1>1. Len(s) \in Nat /\ \A i \in I : i \in 1 .. Len(s)
  OBVIOUS
<1>2. c \in Nat /\ p \in [1 .. c -> I]
      /\ (\A a, b \in 1 .. c : p[a] = p[b] => a = b) /\ \A i \in I : \E a \in 1 .. c : p[a] = i
  <2>1. PICK n \in Nat : n = Len(s)
    BY <1>1
  <2>2. I \subseteq 1 .. n
    BY <2>1
  <2> QED BY <2>2, AscendingLists
<1>3. t = [k \in 1 .. c |-> s[p[k]]]
  <2>1. Cardinality(I) = c
    OBVIOUS
  <2> HIDE DEF p, c
  <2>2. t = [k \in 1 .. Cardinality(I) |-> s[p[k]]]
    BY DEF Kept, p
  <2> QED BY <2>1, <2>2
<1> HIDE DEF p, c, t
<1>4. \A k \in 1 .. c : s[p[k]] \in S
  <2> SUFFICES ASSUME NEW k \in 1 .. c PROVE s[p[k]] \in S
    OBVIOUS
  <2>1. p[k] \in I
    BY <1>2
  <2>2. p[k] \in 1 .. Len(s)
    BY <1>1, <2>1, Zenon
  <2> QED BY <2>2
<1>5. t \in [1 .. c -> S]
  BY <1>3, <1>4
<1>6. t \in Seq(S) /\ Len(t) = c /\ DOMAIN t = 1 .. c
  BY <1>2, <1>5
<1>7. Matches(p, t, s, I)
  BY <1>2, <1>3, <1>6 DEF Matches
<1> QED BY <1>6, <1>7 DEF c, p, t

LEMMA KeptInjective ==
  ASSUME NEW S, NEW s \in Seq(S), NEW I, I \subseteq 1 .. Len(s), IsInjective(s)
  PROVE  IsInjective(Kept(s, I))
<1> DEFINE t == Kept(s, I)
<1>1. PICK p : Matches(p, t, s, I)
  BY KeptOf
<1>2. \A i \in I : i \in DOMAIN s
  OBVIOUS
<1> HIDE DEF t
<1>3. ASSUME NEW a \in DOMAIN t, NEW b \in DOMAIN t, t[a] = t[b] PROVE a = b
  <2>1. p[a] \in DOMAIN s /\ p[b] \in DOMAIN s /\ s[p[a]] = s[p[b]]
    BY <1>1, <1>2, <1>3, Zenon DEF Matches
  <2>2. p[a] = p[b]
    BY <2>1 DEF IsInjective
  <2> QED BY <1>1, <2>2 DEF Matches
<1> QED BY <1>3 DEF IsInjective, t

\* Where an element stands in a sequence.
Places(t, w) == {a \in DOMAIN t : t[a] = w}

LEMMA CountedThrough ==
  ASSUME NEW A, NEW B, NEW f \in [A -> B], IsFiniteSet(A),
         \A a, b \in A : f[a] = f[b] => a = b, \A y \in B : \E a \in A : f[a] = y
  PROVE  Cardinality(A) = Cardinality(B)
<1>1. f \in Bijection(A, B)
  BY DEF Bijection, Injection, Surjection, IsInjective
<1> QED BY <1>1, FS_Bijection DEF ExistsBijection

LEMMA KeptCounts ==
  ASSUME NEW S, NEW s \in Seq(S), NEW I, I \subseteq 1 .. Len(s), NEW w
  PROVE  Cardinality(Places(Kept(s, I), w)) = Cardinality({i \in I : s[i] = w})
<1> DEFINE t == Kept(s, I)
<1> DEFINE A == Places(t, w)
<1> DEFINE B == {i \in I : s[i] = w}
<1>1. PICK p : Matches(p, t, s, I)
  BY KeptOf
<1>2. t \in Seq(S)
  BY KeptOf
<1>3. IsFiniteSet(DOMAIN t)
  <2>1. DOMAIN t = 1 .. Len(t) /\ Len(t) \in Nat
    BY <1>2
  <2> QED BY <2>1, FS_Interval
<1> HIDE DEF t
<1>4. IsFiniteSet(A)
  <2>1. A \subseteq DOMAIN t
    BY DEF Places
  <2> QED BY <1>3, <2>1, FS_Subset
<1> DEFINE f == [a \in A |-> p[a]]
<1>5. \A a \in A : a \in DOMAIN t /\ p[a] \in B
  BY <1>1 DEF Places, Matches
<1>6. \A y \in B : \E a \in A : f[a] = y
  <2> SUFFICES ASSUME NEW y \in B PROVE \E a \in A : f[a] = y
    OBVIOUS
  <2>1. PICK a \in DOMAIN t : p[a] = y
    BY <1>1 DEF Matches
  <2>2. a \in A
    BY <1>1, <2>1 DEF Places, Matches
  <2> QED BY <2>1, <2>2
<1>7. f \in [A -> B] /\ \A a, b \in A : f[a] = f[b] => a = b
  BY <1>1, <1>5 DEF Matches
<1> HIDE DEF A, B, f
<1>8. Cardinality(A) = Cardinality(B)
  BY <1>4, <1>6, <1>7, CountedThrough
<1> QED BY <1>8 DEF A, B, t

\* Turning a list round moves its elements and no more.
LEMMA TurnedCounts ==
  ASSUME NEW S, NEW l \in Seq(S), l # <<>>, NEW start \in Nat, NEW w
  PROVE  /\ Turned(l, start) \in Seq(S) /\ Len(Turned(l, start)) = Len(l)
         /\ Turned(l, start)[1] = l[(start % Len(l)) + 1]
         /\ Cardinality(Places(Turned(l, start), w)) = Cardinality(Places(l, w))
<1> DEFINE n == Len(l)
<1> DEFINE t == Turned(l, start)
<1> DEFINE g == [i \in 1 .. n |-> ((start + i - 1) % n) + 1]
<1>1. n \in Nat \ {0} /\ DOMAIN l = 1 .. n
  OBVIOUS
<1>2. \A i \in 1 .. n : l[i] \in S
  OBVIOUS
<1>3. t = [i \in 1 .. n |-> l[((start + i - 1) % n) + 1]]
  BY DEF Turned
<1> HIDE DEF n, t
<1>4. g \in [1 .. n -> 1 .. n]
  <2> SUFFICES ASSUME NEW i \in 1 .. n PROVE ((start + i - 1) % n) + 1 \in 1 .. n
    OBVIOUS
  <2>1. start + i - 1 \in Nat
    BY <1>1
  <2>2. (start + i - 1) % n \in 0 .. n - 1
    BY <1>1, <2>1, ModRange
  <2> QED BY <1>1, <2>2
<1>5. ASSUME NEW i \in 1 .. n, NEW j \in 1 .. n, i < j PROVE g[i] # g[j]
  <2>1. start + i - 1 \in Nat /\ start + j - 1 \in Nat /\ start + i - 1 < start + j - 1
        /\ (start + j - 1) - (start + i - 1) < n
    BY <1>1, <1>5
  <2>2. (start + i - 1) % n # (start + j - 1) % n
    BY <1>1, <2>1, ModApart
  <2>3. (start + i - 1) % n \in 0 .. n - 1 /\ (start + j - 1) % n \in 0 .. n - 1
    BY <1>1, <2>1, ModRange
  <2> QED BY <2>2, <2>3
<1>6. t = [i \in 1 .. n |-> l[g[i]]]
  BY <1>3
<1> HIDE DEF g
<1>7. \A i, j \in 1 .. n : g[i] = g[j] => i = j
  <2> SUFFICES ASSUME NEW i \in 1 .. n, NEW j \in 1 .. n, g[i] = g[j] PROVE i = j
    OBVIOUS
  <2>1. ~ (i < j) /\ ~ (j < i)
    BY <1>5
  <2> QED BY <1>1, <2>1
<1>8. \A y \in 1 .. n : \E i \in 1 .. n : g[i] = y
  <2>1. IsFiniteSet(1 .. n)
    BY <1>1, FS_Interval
  <2>2. g \in Injection(1 .. n, 1 .. n)
    BY <1>4, <1>7 DEF Injection, IsInjective
  <2>3. g \in Surjection(1 .. n, 1 .. n)
    BY <2>1, <2>2, FS_Injection
  <2> QED BY <2>3 DEF Surjection
<1>9. t \in Seq(S) /\ Len(t) = n /\ DOMAIN t = 1 .. n
  <2>1. t \in [1 .. n -> S]
    BY <1>2, <1>4, <1>6
  <2> QED BY <1>1, <2>1
<1>10. t[1] = l[(start % n) + 1]
  <2>1. 1 \in 1 .. n /\ start + 1 - 1 = start
    BY <1>1
  <2> QED BY <1>3, <2>1
<1>11. Cardinality(Places(t, w)) = Cardinality(Places(l, w))
  <2> DEFINE A == Places(t, w)
  <2> DEFINE B == Places(l, w)
  <2> DEFINE f == [a \in A |-> g[a]]
  <2>1. IsFiniteSet(A)
    <3>1. A \subseteq 1 .. n
      BY <1>9 DEF Places
    <3>2. IsFiniteSet(1 .. n)
      BY <1>1, FS_Interval
    <3> QED BY <3>1, <3>2, FS_Subset
  <2>2. \A a \in A : a \in 1 .. n /\ g[a] \in B
    BY <1>1, <1>4, <1>6, <1>9 DEF Places
  <2>3. \A y \in B : \E a \in A : f[a] = y
    <3> SUFFICES ASSUME NEW y \in B PROVE \E a \in A : f[a] = y
      OBVIOUS
    <3>1. y \in 1 .. n /\ l[y] = w
      BY <1>1 DEF Places
    <3>2. PICK a \in 1 .. n : g[a] = y
      BY <1>8, <3>1
    <3>3. a \in A
      BY <1>6, <1>9, <3>1, <3>2 DEF Places
    <3> QED BY <3>2, <3>3
  <2>4. f \in [A -> B] /\ \A a, b \in A : f[a] = f[b] => a = b
    BY <1>7, <2>2
  <2> HIDE DEF A, B, f
  <2> QED BY <2>1, <2>3, <2>4, CountedThrough DEF A, B
<1> QED BY <1>9, <1>10, <1>11 DEF n, t

-----------------------------------------------------------------------------
(* Weights, added up                                                       *)

\* One more static worker, one more weight.
Adds(w, n, sum) ==
  sum = [m \in 0 .. n |-> IF m = 0 THEN 0 ELSE sum[m - 1] + w[m]]

LEMMA SumExists ==
  ASSUME NEW L \in Nat, NEW w \in [1 .. L -> Nat]
  PROVE  \E sum : Adds(w, L, sum)
<1> DEFINE Good == {n \in Nat : n <= L => \E sum \in [0 .. n -> Nat] : Adds(w, n, sum)}
<1>1. 0 \in Good
  <2> DEFINE s == [m \in 0 .. 0 |-> 0]
  <2>1. s \in [0 .. 0 -> Nat]
    OBVIOUS
  <2>2. s = [m \in 0 .. 0 |-> IF m = 0 THEN 0 ELSE s[m - 1] + w[m]]
    <3>1. \A m \in 0 .. 0 : m = 0
      OBVIOUS
    <3> QED BY <3>1
  <2>3. Adds(w, 0, s)
    <3> HIDE DEF s
    <3> QED BY <2>2 DEF Adds
  <2> HIDE DEF s
  <2> QED BY <2>1, <2>3
<1>2. ASSUME NEW n \in Good PROVE n + 1 \in Good
  <2>0. n + 1 \in Nat
    OBVIOUS
  <2> SUFFICES ASSUME n + 1 <= L PROVE \E sum \in [0 .. n + 1 -> Nat] : Adds(w, n + 1, sum)
    BY <2>0, Zenon
  <2>1. PICK s \in [0 .. n -> Nat] : Adds(w, n, s)
    OBVIOUS
  <2>2. n \in Nat /\ w[n + 1] \in Nat
    OBVIOUS
  <2> DEFINE t == [m \in 0 .. n + 1 |-> IF m = n + 1 THEN s[n] + w[n + 1] ELSE s[m]]
  <2> HIDE DEF Good
  <2>3. t \in [0 .. n + 1 -> Nat]
    BY <2>2
  <2>4. \A m \in 0 .. n + 1 : t[m] = IF m = 0 THEN 0 ELSE t[m - 1] + w[m]
    <3> SUFFICES ASSUME NEW m \in 0 .. n + 1 PROVE t[m] = IF m = 0 THEN 0 ELSE t[m - 1] + w[m]
      OBVIOUS
    <3>1. CASE m = n + 1
      <4>1. t[m] = s[n] + w[n + 1] /\ t[n] = s[n] /\ m # 0 /\ m - 1 = n
        BY <3>1, <2>2
      <4> QED BY <4>1, <3>1
    <3>2. CASE m # n + 1
      <4>1. m \in 0 .. n /\ t[m] = s[m] /\ (m # 0 => m - 1 \in 0 .. n /\ t[m - 1] = s[m - 1])
        BY <3>2, <2>2
      <4>2. s[m] = IF m = 0 THEN 0 ELSE s[m - 1] + w[m]
        BY <2>1, <4>1 DEF Adds
      <4> QED BY <4>1, <4>2
    <3> QED BY <3>1, <3>2
  <2>5. Adds(w, n + 1, t)
    <3> DEFINE e == [m \in 0 .. n + 1 |-> IF m = 0 THEN 0 ELSE t[m - 1] + w[m]]
    <3>1. DOMAIN t = 0 .. n + 1
      BY <2>3
    <3> HIDE DEF t
    <3>2. t = [m \in 0 .. n + 1 |-> t[m]]
      BY <2>3
    <3>3. t = e
      BY <2>4, <3>2
    <3> QED BY <3>3 DEF Adds
  <2> HIDE DEF t
  <2> QED BY <2>3, <2>5
<1>3. Good = Nat
  <2> HIDE DEF Good
  <2>1. Good \in SUBSET Nat
    BY DEF Good
  <2> QED BY <1>1, <1>2, <2>1, SetInduction
<1> QED BY <1>3

Weight(r) == [i \in 1 .. Len(Static[r]) |-> Static[r][i].weight]

LEMMA StaticTyped ==
  ASSUME NEW r \in Drivers
  PROVE  /\ Static[r] \in Seq([url : Workers, weight : Nat]) /\ Len(Static[r]) \in Nat
         /\ DOMAIN Static[r] = 1 .. Len(Static[r])
         /\ \A i \in 1 .. Len(Static[r]) : Static[r][i].url \in Workers /\ Static[r][i].weight \in Nat
         /\ Weight(r) \in [1 .. Len(Static[r]) -> Nat]
<1>1. Static[r] \in Seq([url : Workers, weight : Nat])
  BY PoolAssumption
<1>2. Len(Static[r]) \in Nat /\ DOMAIN Static[r] = 1 .. Len(Static[r])
  BY <1>1
<1>3. ASSUME NEW i \in 1 .. Len(Static[r])
      PROVE  Static[r][i].url \in Workers /\ Static[r][i].weight \in Nat
  <2> DEFINE R == [url : Workers, weight : Nat]
  <2>1. Static[r] \in Seq(R)
    BY <1>1
  <2>2. \A x \in R : x.url \in Workers /\ x.weight \in Nat
    OBVIOUS
  <2> HIDE DEF R
  <2>3. Static[r][i] \in R
    BY <1>2, <2>1
  <2> QED BY <2>2, <2>3
<1> QED BY <1>1, <1>2, <1>3 DEF Weight

LEMMA WeightsAdd ==
  ASSUME NEW r \in Drivers
  PROVE  /\ WeightTo(r, 0) = 0
         /\ \A k \in 0 .. Len(Static[r]) : WeightTo(r, k) \in Nat
         /\ \A k \in 0 .. Len(Static[r]) - 1 :
              WeightTo(r, k + 1) = WeightTo(r, k) + Static[r][k + 1].weight
<1> DEFINE L == Len(Static[r])
<1> DEFINE w == Weight(r)
<1>1. L \in Nat /\ w \in [1 .. L -> Nat]
  BY StaticTyped
<1> DEFINE sum[n \in 0 .. L] == IF n = 0 THEN 0 ELSE sum[n - 1] + Static[r][n].weight
<1>2. sum = CHOOSE s : s = [n \in 0 .. L |-> IF n = 0 THEN 0 ELSE s[n - 1] + Static[r][n].weight]
  OBVIOUS
<1>3. \A k : WeightTo(r, k) = sum[k]
  BY DEF WeightTo
<1> HIDE DEF sum
<1>4. Adds(w, L, sum)
  <2>1. \E t : Adds(w, L, t)
    BY <1>1, SumExists
  <2>2. \A s : Adds(w, L, s) <=> s = [n \in 0 .. L |-> IF n = 0 THEN 0 ELSE s[n - 1] + Static[r][n].weight]
    <3> SUFFICES ASSUME NEW s
                 PROVE  [n \in 0 .. L |-> IF n = 0 THEN 0 ELSE s[n - 1] + w[n]]
                          = [n \in 0 .. L |-> IF n = 0 THEN 0 ELSE s[n - 1] + Static[r][n].weight]
      BY DEF Adds
    <3>1. \A n \in 0 .. L : n # 0 => w[n] = Static[r][n].weight
      BY <1>1 DEF Weight
    <3> HIDE DEF w
    <3> QED BY <3>1
  <2> QED BY <1>2, <2>1, <2>2, Zenon
<1> HIDE DEF w, L
<1>5. sum[0] = 0 /\ \A k \in 0 .. L - 1 : sum[k + 1] = sum[k] + w[k + 1]
  <2>1. \A m \in 0 .. L : sum[m] = IF m = 0 THEN 0 ELSE sum[m - 1] + w[m]
    BY <1>4 DEF Adds
  <2>2. 0 \in 0 .. L
    BY <1>1
  <2>3. ASSUME NEW k \in 0 .. L - 1 PROVE sum[k + 1] = sum[k] + w[k + 1]
    <3>1. k + 1 \in 0 .. L /\ k + 1 # 0 /\ (k + 1) - 1 = k
      BY <1>1
    <3> QED BY <2>1, <3>1
  <2> QED BY <2>1, <2>2, <2>3
<1>6. \A k \in 0 .. L : sum[k] \in Nat
  <2> DEFINE Good == {n \in Nat : n <= L => sum[n] \in Nat}
  <2>1. 0 \in Good
    BY <1>5
  <2>2. ASSUME NEW n \in Good PROVE n + 1 \in Good
    <3> SUFFICES ASSUME n + 1 <= L PROVE sum[n + 1] \in Nat
      OBVIOUS
    <3>1. n \in 0 .. L - 1 /\ n + 1 \in 1 .. L /\ sum[n] \in Nat
      BY <1>1
    <3> QED BY <1>1, <1>5, <3>1
  <2>3. Good = Nat
    <3> HIDE DEF Good
    <3>1. Good \in SUBSET Nat
      BY DEF Good
    <3> QED BY <2>1, <2>2, <3>1, SetInduction
  <2> QED BY <1>1, <2>3
<1>7. \A k \in 0 .. L - 1 : w[k + 1] = Static[r][k + 1].weight
  BY <1>1 DEF w, L, Weight
<1> QED BY <1>3, <1>5, <1>6, <1>7 DEF L

LEMMA WeightsGrow ==
  ASSUME NEW r \in Drivers, NEW i \in 0 .. Len(Static[r]), NEW j \in i .. Len(Static[r])
  PROVE  WeightTo(r, i) <= WeightTo(r, j)
<1> DEFINE L == Len(Static[r])
<1> DEFINE Good == {n \in Nat : i + n <= L => WeightTo(r, i) <= WeightTo(r, i + n)}
<1>0. L \in Nat
  BY StaticTyped
<1>1. /\ \A k \in 0 .. L : WeightTo(r, k) \in Nat
      /\ \A k \in 0 .. L - 1 : WeightTo(r, k + 1) = WeightTo(r, k) + Static[r][k + 1].weight
      /\ \A k \in 1 .. L : Static[r][k].weight \in Nat
  BY WeightsAdd, StaticTyped
<1> HIDE DEF L
<1>2. 0 \in Good
  <2>1. i + 0 = i /\ WeightTo(r, i) \in Nat
    BY <1>1 DEF L
  <2> QED BY <2>1
<1>3. ASSUME NEW n \in Good PROVE n + 1 \in Good
  <2> SUFFICES ASSUME i + (n + 1) <= L PROVE WeightTo(r, i) <= WeightTo(r, i + (n + 1))
    OBVIOUS
  <2>0. n \in Nat /\ i \in Nat /\ i \in 0 .. L
    BY <1>0 DEF L
  <2>1. WeightTo(r, i) <= WeightTo(r, i + n) /\ i + n \in 0 .. L - 1 /\ i + n \in 0 .. L
        /\ (i + n) + 1 \in 1 .. L /\ i + (n + 1) = (i + n) + 1
    BY <1>0, <2>0
  <2>2. WeightTo(r, (i + n) + 1) = WeightTo(r, i + n) + Static[r][(i + n) + 1].weight
        /\ Static[r][(i + n) + 1].weight \in Nat
    BY <1>1, <2>1
  <2>3. WeightTo(r, i) \in Nat /\ WeightTo(r, i + n) \in Nat
    BY <1>1, <2>0, <2>1
  <2> QED BY <2>1, <2>2, <2>3
<1>4. Good = Nat
  <2> HIDE DEF Good
  <2>1. Good \in SUBSET Nat
    BY DEF Good
  <2> QED BY <1>2, <1>3, <2>1, SetInduction
<1>5. j - i \in Nat /\ i + (j - i) = j /\ j <= L
  BY <1>0 DEF L
<1> QED BY <1>4, <1>5

-----------------------------------------------------------------------------
(* Workers, candidates and verdicts                                        *)

Weighing == {"round_robin", "weighted", "least_conn"}

LEMMA StrategyTyped ==
  ASSUME PoolTypeOK, NEW r \in Drivers
  PROVE  strategy[r] \in Weighing
BY PoolAssumption DEF PoolTypeOK, Weighing

\* The positions the two filters keep.
Usable     == {i \in DOMAIN registered : health[registered[i]] \in {"null", "healthy"}}
Answered(r) == {i \in DOMAIN candidates[r] : verdict[r][i] = "healthy"}

LEMMA RegisteredUrlsOf ==
  ASSUME PoolTypeOK
  PROVE  /\ RegisteredUrls \in Seq(Workers)
         /\ \A k \in DOMAIN RegisteredUrls : health[RegisteredUrls[k]] \in {"null", "healthy"}
<1>1. registered \in Seq(Workers) /\ Usable \subseteq 1 .. Len(registered)
  BY DEF PoolTypeOK, Usable
<1>2. RegisteredUrls = Kept(registered, Usable)
  BY DEF RegisteredUrls, Usable
<1> DEFINE t == Kept(registered, Usable)
<1>3. t \in Seq(Workers)
  BY <1>1, KeptOf
<1>4. PICK p : Matches(p, t, registered, Usable)
  BY <1>1, KeptOf
<1> HIDE DEF t
<1>5. ASSUME NEW k \in DOMAIN t PROVE health[t[k]] \in {"null", "healthy"}
  <2>1. p[k] \in Usable /\ t[k] = registered[p[k]]
    BY <1>4 DEF Matches
  <2> QED BY <2>1 DEF Usable
<1> QED BY <1>2, <1>3, <1>5 DEF t

LEMMA HealthyOf ==
  ASSUME PoolTypeOK, NEW r \in Drivers
  PROVE  /\ Answered(r) \subseteq 1 .. Len(candidates[r]) /\ candidates[r] \in Seq(Workers)
         /\ Healthy(r) = Kept(candidates[r], Answered(r))
         /\ Healthy(r) \in Seq(Workers)
<1>1. candidates[r] \in Seq(Workers) /\ Answered(r) \subseteq 1 .. Len(candidates[r])
  BY DEF PoolTypeOK, Answered
<1>2. Healthy(r) = Kept(candidates[r], Answered(r))
  BY DEF Healthy, Answered
<1>3. Kept(candidates[r], Answered(r)) \in Seq(Workers)
  BY <1>1, KeptOf
<1> QED BY <1>1, <1>2, <1>3

LEMMA UrlsTyped ==
  ASSUME NEW r \in Drivers
  PROVE  /\ Urls(r) \in Seq(Workers) /\ Len(Urls(r)) = Len(Static[r])
         /\ DOMAIN Urls(r) = 1 .. Len(Static[r])
         /\ \A i \in 1 .. Len(Static[r]) : Urls(r)[i] = Static[r][i].url
<1> DEFINE L == Len(Static[r])
<1>1. L \in Nat /\ DOMAIN Static[r] = 1 .. L /\ \A i \in 1 .. L : Static[r][i].url \in Workers
  BY StaticTyped
<1> HIDE DEF L
<1>2. Urls(r) = [i \in 1 .. L |-> Static[r][i].url]
  BY <1>1 DEF Urls
<1>3. Urls(r) \in [1 .. L -> Workers]
  BY <1>1, <1>2
<1> QED BY <1>1, <1>2, <1>3 DEF L

\* What a run may come to check: who is named, else who is registered and not excluded.
LEMMA ListOf ==
  ASSUME PoolTypeOK, NEW r \in Drivers, List(r)
  PROVE  \E urls \in Seq(Workers) :
           /\ candidates' = [candidates EXCEPT ![r] = urls]
           /\ verdict' = [verdict EXCEPT ![r] = [i \in DOMAIN urls |-> "none"]]
           /\ \A i \in DOMAIN urls : Named(r, urls[i]) \/ health[urls[i]] \in {"null", "healthy"}
<1>1. PICK found \in SrvWorkers(r) :
        LET named == Urls(r) \o found
            urls  == IF named = <<>> THEN RegisteredUrls ELSE named
        IN  /\ candidates' = [candidates EXCEPT ![r] = urls]
            /\ verdict' = [verdict EXCEPT ![r] = [i \in DOMAIN urls |-> "none"]]
  BY DEF List
<1> DEFINE named == Urls(r) \o found
<1>2. Urls(r) \in Seq(Workers) /\ found \in Seq(Workers)
  <2>1. Urls(r) \in Seq(Workers)
    BY UrlsTyped
  <2>2. Srv[r] \subseteq Seq(Workers)
    BY PoolAssumption
  <2>3. found \in Srv[r] \/ found = <<>>
    BY DEF SrvWorkers
  <2>4. <<>> \in Seq(Workers)
    OBVIOUS
  <2> QED BY <2>1, <2>2, <2>3, <2>4, Zenon
<1>3. named \in Seq(Workers)
  BY <1>2
<1>4. \A i \in DOMAIN named : Named(r, named[i])
  <2> SUFFICES ASSUME NEW i \in DOMAIN named PROVE Named(r, named[i])
    OBVIOUS
  <2>1. Len(Urls(r)) \in Nat /\ Len(found) \in Nat /\ i \in 1 .. Len(Urls(r)) + Len(found)
    BY <1>2
  <2>2. CASE i <= Len(Urls(r))
    <3>1. i \in 1 .. Len(Urls(r)) /\ named[i] = Urls(r)[i]
      BY <1>2, <2>1, <2>2
    <3> QED BY <3>1 DEF Named, Contains
  <2>3. CASE ~ (i <= Len(Urls(r)))
    <3>1. i - Len(Urls(r)) \in 1 .. Len(found) /\ named[i] = found[i - Len(Urls(r))]
      BY <1>2, <2>1, <2>3
    <3>2. found # <<>>
      BY <3>1, <1>2
    <3>3. found \in Srv[r]
      BY <3>2 DEF SrvWorkers
    <3> QED BY <3>1, <3>3 DEF Named, Contains
  <2> QED BY <2>2, <2>3
<1>5. CASE named = <<>>
  <2>1. /\ candidates' = [candidates EXCEPT ![r] = RegisteredUrls]
        /\ verdict' = [verdict EXCEPT ![r] = [i \in DOMAIN RegisteredUrls |-> "none"]]
    BY <1>1, <1>5
  <2> QED BY <2>1, RegisteredUrlsOf
<1>6. CASE named # <<>>
  <2>1. /\ candidates' = [candidates EXCEPT ![r] = named]
        /\ verdict' = [verdict EXCEPT ![r] = [i \in DOMAIN named |-> "none"]]
    BY <1>1, <1>6
  <2> HIDE DEF named
  <2> QED BY <2>1, <1>3, <1>4
<1> QED BY <1>5, <1>6

-----------------------------------------------------------------------------
(* Types and verdicts                                                      *)

\* A run asks everybody before it writes, and marks nobody who has not failed.
AskedBy(r) ==
  /\ pc[r] \in {"begin", "check"} => written[r] = 0
  /\ pc[r] = "begin" => candidates[r] = <<>>
  /\ pc[r] \in {"write", "jobs", "panicked"} => \A i \in DOMAIN verdict[r] : verdict[r][i] # "none"
  /\ \A i \in DOMAIN verdict[r] : verdict[r][i] = "unreachable" => candidates[r][i] \in failed

Asked == \A r \in Drivers : AskedBy(r)

LEMMA PoolTypedInit ==
  ASSUME PoolInit
  PROVE  PoolTypeOK
<1>1. /\ registered \in Seq(Workers) /\ IsInjective(registered)
      /\ health \in [Workers -> Health] /\ up \subseteq Workers /\ failed \subseteq Workers
  BY DEF PoolInit, IsInjective, Health
<1>2. /\ pc \in [Drivers -> Phase]
      /\ candidates \in [Drivers -> Seq(Workers)] /\ verdict \in [Drivers -> Seq(Verdict)]
      /\ list \in [Drivers -> Seq(Workers)] /\ firsts \in [Drivers -> Seq(Workers)]
  BY DEF PoolInit, Phase
<1>3. /\ written \in [Drivers -> Nat] /\ rr \in [Drivers -> Nat] /\ jobs \in [Drivers -> 0 .. MaxJobs]
      /\ faults \in 0 .. MaxFaults /\ admin \in 0 .. MaxAdmin
  BY PoolAssumption DEF PoolInit
<1>4. ASSUME NEW r \in Drivers
      PROVE  /\ strategy[r] \in Strategies[r]
             /\ Len(verdict[r]) = Len(candidates[r]) /\ written[r] <= Len(candidates[r])
             /\ rr[r] <= jobs[r]
  BY DEF PoolInit
<1> QED BY <1>1, <1>2, <1>3, <1>4 DEF PoolTypeOK

\* One entry of a sequence written anew.
LEMMA EntryWritten ==
  ASSUME NEW S, NEW s \in Seq(S), NEW i \in DOMAIN s, NEW x \in S
  PROVE  /\ [s EXCEPT ![i] = x] \in Seq(S) /\ Len([s EXCEPT ![i] = x]) = Len(s)
         /\ DOMAIN [s EXCEPT ![i] = x] = DOMAIN s
OBVIOUS

\* What a verdict may be written over: the other runs', and the other verdicts, stay.
LEMMA VerdictWritten ==
  ASSUME PoolTypeOK, NEW r \in Drivers, NEW i \in DOMAIN candidates[r], NEW x \in Verdict,
         verdict' = [verdict EXCEPT ![r][i] = x]
  PROVE  /\ verdict' \in [Drivers -> Seq(Verdict)]
         /\ \A q \in Drivers : Len(verdict'[q]) = Len(verdict[q]) /\ DOMAIN verdict'[q] = DOMAIN verdict[q]
         /\ verdict'[r] = [verdict[r] EXCEPT ![i] = x]
         /\ \A q \in Drivers \ {r} : verdict'[q] = verdict[q]
<1>1. /\ verdict \in [Drivers -> Seq(Verdict)] /\ verdict[r] \in Seq(Verdict)
      /\ candidates[r] \in Seq(Workers) /\ Len(verdict[r]) = Len(candidates[r])
  BY DEF PoolTypeOK
<1>2. i \in DOMAIN verdict[r]
  BY <1>1
<1>3. /\ [verdict[r] EXCEPT ![i] = x] \in Seq(Verdict)
      /\ Len([verdict[r] EXCEPT ![i] = x]) = Len(verdict[r])
      /\ DOMAIN [verdict[r] EXCEPT ![i] = x] = DOMAIN verdict[r]
  BY <1>1, <1>2, EntryWritten
<1>4. verdict' = [verdict EXCEPT ![r] = [verdict[r] EXCEPT ![i] = x]]
  OBVIOUS
<1> QED BY <1>1, <1>3, <1>4

\* The steps of the command line and of the workers leave the runs alone.
LEMMA PoolTypedTable ==
  ASSUME PoolTypeOK, NEW w \in Workers, Register(w) \/ Deregister(w) \/ Fails(w) \/ Recovers(w)
  PROVE  PoolTypeOK'
<1> USE DEF run, used, table
<1>0. /\ registered \in Seq(Workers) /\ IsInjective(registered) /\ MaxAdmin \in Nat /\ MaxFaults \in Nat
      /\ health \in [Workers -> Health] /\ admin \in 0 .. MaxAdmin /\ faults \in 0 .. MaxFaults
      /\ up \subseteq Workers
  BY PoolAssumption DEF PoolTypeOK
<1>1. CASE Register(w)
  <2>1. registered' \in Seq(Workers) /\ IsInjective(registered)'
    <3>1. CASE Registered(w)
      BY <1>0, <1>1, <3>1 DEF Register, IsInjective
    <3>2. CASE ~Registered(w)
      <4>1. registered' = Append(registered, w)
        BY <1>1, <3>2 DEF Register
      <4>2. registered' \in Seq(Workers) /\ Len(registered') = Len(registered) + 1
            /\ (\A a \in 1 .. Len(registered) : registered'[a] = registered[a] /\ registered[a] # w)
            /\ registered'[Len(registered) + 1] = w /\ DOMAIN registered' = 1 .. Len(registered) + 1
        BY <1>0, <4>1, <3>2 DEF Registered, Contains
      <4>3. \A a, b \in 1 .. Len(registered) : registered[a] = registered[b] => a = b
        BY <1>0 DEF IsInjective
      <4>4. \A a \in 1 .. Len(registered) + 1 : a \in 1 .. Len(registered) \/ a = Len(registered) + 1
        BY <1>0
      <4>5. \A a, b \in 1 .. Len(registered) + 1 : registered'[a] = registered'[b] => a = b
        BY <4>2, <4>3, <4>4
      <4> QED BY <4>2, <4>5 DEF IsInjective
    <3> QED BY <3>1, <3>2
  <2>2. admin' \in 0 .. MaxAdmin
    BY <1>0, <1>1 DEF Register
  <2>3. health' = health \/ health' = [health EXCEPT ![w] = "null"]
    BY <1>1 DEF Register
  <2>4. health' \in [Workers -> Health]
    BY <1>0, <2>3 DEF Health
  <2> QED BY <1>1, <2>1, <2>2, <2>4 DEF Register, PoolTypeOK
<1>2. CASE Deregister(w)
  <2> DEFINE I == {i \in DOMAIN registered : registered[i] # w}
  <2>1. I \subseteq 1 .. Len(registered) /\ registered' = Kept(registered, I)
    BY <1>0, <1>2 DEF Deregister
  <2>2. IsInjective(registered)
    BY <1>0 DEF IsInjective
  <2> HIDE DEF I
  <2>3. registered' \in Seq(Workers) /\ IsInjective(registered')
    BY <1>0, <2>1, <2>2, KeptOf, KeptInjective
  <2>4. IsInjective(registered)' /\ admin' \in 0 .. MaxAdmin
    BY <1>0, <1>2, <2>3 DEF IsInjective, Deregister
  <2> QED BY <1>2, <2>3, <2>4 DEF Deregister, PoolTypeOK
<1>3. CASE Fails(w)
  <2>1. faults' \in 0 .. MaxFaults /\ up' \subseteq Workers /\ IsInjective(registered)'
    BY <1>0, <1>3 DEF Fails, IsInjective
  <2> QED BY <1>3, <2>1 DEF Fails, PoolTypeOK
<1>4. CASE Recovers(w)
  <2>1. up' \subseteq Workers /\ IsInjective(registered)'
    BY <1>0, <1>4 DEF Recovers, IsInjective
  <2> QED BY <1>4, <2>1 DEF Recovers, PoolTypeOK
<1> QED BY <1>1, <1>2, <1>3, <1>4

\* The steps of a run up to its list of healthy workers.
LEMMA PoolTypedCheck ==
  ASSUME PoolTypeOK, Asked, NEW r \in Drivers,
         \/ List(r) \/ Checked(r) \/ WriteHealth(r) \/ Listed(r)
         \/ \E i \in DOMAIN candidates[r] : CheckPasses(r, i) \/ CheckFails(r, i)
  PROVE  PoolTypeOK'
<1> USE DEF used, table
<1>0. /\ registered \in Seq(Workers) /\ IsInjective(registered)
      /\ health \in [Workers -> Health]
      /\ up \subseteq Workers /\ failed \subseteq Workers
      /\ pc \in [Drivers -> Phase] /\ written \in [Drivers -> Nat]
      /\ candidates \in [Drivers -> Seq(Workers)] /\ verdict \in [Drivers -> Seq(Verdict)]
      /\ \A q \in Drivers : Len(verdict[q]) = Len(candidates[q]) /\ written[q] <= Len(candidates[q])
      /\ faults \in 0 .. MaxFaults /\ MaxFaults \in Nat
  BY PoolAssumption DEF PoolTypeOK
<1>1. ASSUME registered' = registered PROVE IsInjective(registered)'
  BY <1>0, <1>1 DEF IsInjective
<1>2. CASE List(r)
  <2>1. PICK urls \in Seq(Workers) :
          /\ candidates' = [candidates EXCEPT ![r] = urls]
          /\ verdict' = [verdict EXCEPT ![r] = [i \in DOMAIN urls |-> "none"]]
    BY <1>2, ListOf
  <2>2. pc' \in [Drivers -> Phase]
    BY <1>0, <1>2 DEF List, Phase
  <2>3. candidates' \in [Drivers -> Seq(Workers)] /\ candidates'[r] = urls
    BY <1>0, <2>1
  <2> DEFINE unasked == [i \in DOMAIN urls |-> "none"]
  <2>4. unasked \in Seq(Verdict) /\ Len(unasked) = Len(urls)
    BY DEF Verdict
  <2>5. verdict' \in [Drivers -> Seq(Verdict)] /\ verdict'[r] = unasked
    BY <1>0, <2>1, <2>4
  <2> HIDE DEF unasked
  <2>6. \A q \in Drivers : q # r => candidates'[q] = candidates[q] /\ verdict'[q] = verdict[q]
    BY <1>0, <2>1
  <2>7. written[r] = 0 /\ Len(urls) \in Nat
    BY <1>2 DEF Asked, AskedBy, List
  <2>8. \A q \in Drivers : Len(verdict'[q]) = Len(candidates'[q]) /\ written[q] <= Len(candidates'[q])
    <3> TAKE q \in Drivers
    <3>1. CASE q = r
      BY <2>3, <2>4, <2>5, <2>7, <3>1
    <3>2. CASE q # r
      BY <1>0, <2>6, <3>2
    <3> QED BY <3>1, <3>2
  <2> QED BY <1>1, <1>2, <2>2, <2>3, <2>5, <2>8 DEF List, PoolTypeOK
<1>3. CASE Checked(r)
  <2>1. pc' \in [Drivers -> Phase]
    BY <1>0, <1>3 DEF Checked, Phase
  <2> QED BY <1>1, <1>3, <2>1 DEF Checked, PoolTypeOK
<1>4. CASE Listed(r)
  <2>1. pc' \in [Drivers -> Phase]
    BY <1>0, <1>4 DEF Listed, Phase
  <2> QED BY <1>1, <1>4, <2>1 DEF Listed, PoolTypeOK
<1>5. CASE WriteHealth(r)
  <2>1. /\ written' = [written EXCEPT ![r] = written[r] + 1] /\ written[r] < Len(candidates[r])
    BY <1>5 DEF WriteHealth
  <2>2. written' \in [Drivers -> Nat] /\ \A q \in Drivers : written'[q] <= Len(candidates[q])
    BY <1>0, <2>1
  <2>3. pc[r] = "write" /\ written[r] + 1 \in DOMAIN verdict[r] /\ written'[r] = written[r] + 1
    BY <1>0, <1>5, <2>1 DEF WriteHealth
  <2>4. verdict[r][written'[r]] \in Health
    <3>1. verdict[r][written'[r]] \in Verdict /\ verdict[r][written'[r]] # "none"
      BY <1>0, <2>3 DEF Asked, AskedBy
    <3> QED BY <3>1 DEF Verdict, Health
  <2>5. health' \in [Workers -> Health]
    BY <1>0, <1>5, <2>4 DEF WriteHealth, VerdictOf
  <2> QED BY <1>1, <1>5, <2>2, <2>5 DEF WriteHealth, PoolTypeOK
<1>6. ASSUME NEW i \in DOMAIN candidates[r], CheckPasses(r, i) PROVE PoolTypeOK'
  <2>1. /\ verdict' \in [Drivers -> Seq(Verdict)]
        /\ \A q \in Drivers : Len(verdict'[q]) = Len(verdict[q])
    BY <1>6, VerdictWritten DEF CheckPasses, Verdict
  <2> QED BY <1>1, <1>6, <2>1 DEF CheckPasses, PoolTypeOK
<1>7. ASSUME NEW i \in DOMAIN candidates[r], CheckFails(r, i) PROVE PoolTypeOK'
  <2>1. /\ verdict' \in [Drivers -> Seq(Verdict)]
        /\ \A q \in Drivers : Len(verdict'[q]) = Len(verdict[q])
    BY <1>7, VerdictWritten DEF CheckFails, Verdict
  <2>2. candidates[r][i] \in Workers
    BY <1>0
  <2>3. faults' \in 0 .. MaxFaults /\ failed' \subseteq Workers
    BY <1>0, <1>7, <2>2 DEF CheckFails
  <2> QED BY <1>1, <1>7, <2>1, <2>3 DEF CheckFails, PoolTypeOK
<1> QED BY <1>2, <1>3, <1>4, <1>5, <1>6, <1>7

-----------------------------------------------------------------------------
(* What a strategy may come to                                             *)

LEMMA TotalTyped ==
  ASSUME NEW r \in Drivers
  PROVE  Total(r) \in Nat /\ Len(Static[r]) \in Nat
<1>1. Len(Static[r]) \in Nat /\ \A k \in 0 .. Len(Static[r]) : WeightTo(r, k) \in Nat
  BY StaticTyped, WeightsAdd
<1> QED BY <1>1 DEF Total

LEMMA DivisorTyped ==
  ASSUME PoolTypeOK, NEW r \in Drivers
  PROVE  Divisor(r) \in Nat
<1>1. Total(r) \in Nat /\ Len(Static[r]) \in Nat /\ Len(Healthy(r)) \in Nat
  BY TotalTyped, HealthyOf
<1> QED BY <1>1 DEF Divisor

\* The weighted strategy comes to the worker in whose share the counter falls.
LEMMA StartsOf ==
  ASSUME PoolTypeOK, NEW r \in Drivers, Divisor(r) # 0, NEW start \in Starts(r)
  PROVE  /\ start \in Nat
         /\ strategy[r] = "round_robin" => start = rr[r] % Len(Healthy(r))
         /\ strategy[r] = "weighted" /\ Total(r) > 0 =>
              /\ start \in 0 .. Len(Static[r]) - 1
              /\ WeightTo(r, start) <= rr[r] % Total(r)
              /\ rr[r] % Total(r) < WeightTo(r, start + 1)
<1>1. Total(r) \in Nat /\ Len(Static[r]) \in Nat /\ Divisor(r) \in Nat \ {0}
  BY TotalTyped, DivisorTyped
<1>2. rr[r] \in Nat
  BY DEF PoolTypeOK
<1>3. CASE strategy[r] = "least_conn"
  <2>1. start \in LeastConn(r)
    BY <1>3 DEF Starts
  <2>2. start \in Nat
    BY <1>1, <2>1 DEF LeastConn
  <2> QED BY <1>3, <2>2
<1>4. CASE strategy[r] = "weighted" /\ Total(r) > 0
  <2>1. start \in Weighted(r)
    BY <1>4 DEF Starts
  <2>2. start \in 0 .. Len(Static[r]) - 1 /\ WeightTo(r, start) <= rr[r] % Total(r)
        /\ rr[r] % Total(r) < WeightTo(r, start + 1)
    BY <2>1 DEF Weighted
  <2> QED BY <1>1, <1>4, <2>2
<1>5. CASE strategy[r] # "least_conn" /\ ~(strategy[r] = "weighted" /\ Total(r) > 0)
  <2>1. start = rr[r] % Divisor(r)
    BY <1>5 DEF Starts
  <2>2. start \in Nat
    <3>1. PICK n \in Nat \ {0} : n = Divisor(r)
      BY <1>1
    <3>2. rr[r] % n \in 0 .. n - 1
      BY <1>2, ModRange
    <3> QED BY <2>1, <3>1, <3>2
  <2>3. strategy[r] = "round_robin" => Divisor(r) = Len(Healthy(r))
    BY DEF Divisor
  <2> QED BY <1>5, <2>1, <2>2, <2>3
<1> QED BY <1>3, <1>4, <1>5

\* A list made for a job is that of the healthy workers, turned round to a start.
LEMMA ResolveOf ==
  ASSUME PoolTypeOK, NEW r \in Drivers, Resolve(r)
  PROVE  \E start \in Starts(r) :
           /\ start \in Nat /\ Healthy(r) # <<>> /\ Healthy(r) \in Seq(Workers)
           /\ list' = [list EXCEPT ![r] = Turned(Healthy(r), start)]
           /\ Turned(Healthy(r), start) \in Seq(Workers)
           /\ Turned(Healthy(r), start) # <<>>
           /\ firsts' = [firsts EXCEPT ![r] =
                Append(firsts[r], Healthy(r)[(start % Len(Healthy(r))) + 1])]
           /\ Healthy(r)[(start % Len(Healthy(r))) + 1] \in Workers
<1> DEFINE l == Healthy(r)
<1>1. PICK start \in Starts(r) :
        /\ list' = [list EXCEPT ![r] = Turned(l, start)]
        /\ firsts' = [firsts EXCEPT ![r] = Append(firsts[r], Head(list'[r]))]
  BY DEF Resolve
<1>2. Divisor(r) # 0 /\ l # <<>>
  BY DEF Resolve, Remote
<1>3. start \in Nat
  BY <1>2, StartsOf
<1>4. l \in Seq(Workers)
  BY HealthyOf
<1> HIDE DEF l
<1> DEFINE t == Turned(l, start)
<1>5. /\ t \in Seq(Workers) /\ Len(t) = Len(l)
      /\ t[1] = l[(start % Len(l)) + 1]
  BY <1>2, <1>3, <1>4, TurnedCounts
<1> HIDE DEF t
<1>6. Len(t) \in Nat \ {0}
  BY <1>2, <1>4, <1>5
<1>7. t # <<>> /\ t[1] \in Workers /\ Head(t) = t[1]
  BY <1>5, <1>6
<1>8. list \in [Drivers -> Seq(Workers)]
  BY DEF PoolTypeOK
<1>9. list'[r] = t
  BY <1>1, <1>8 DEF t
<1>10. firsts' = [firsts EXCEPT ![r] = Append(firsts[r], l[(start % Len(l)) + 1])]
  BY <1>1, <1>5, <1>7, <1>9
<1> QED BY <1>1, <1>2, <1>3, <1>4, <1>5, <1>7, <1>10 DEF l, t

\* The steps of a run with its list of healthy workers.
LEMMA PoolTypedResolve ==
  ASSUME PoolTypeOK, NEW r \in Drivers, ResolveAside(r) \/ Resolve(r) \/ Panics(r)
  PROVE  PoolTypeOK'
<1> USE DEF used, table
<1>0. /\ pc \in [Drivers -> Phase] /\ rr \in [Drivers -> Nat] /\ jobs \in [Drivers -> 0 .. MaxJobs]
      /\ list \in [Drivers -> Seq(Workers)] /\ firsts \in [Drivers -> Seq(Workers)]
      /\ \A q \in Drivers : rr[q] <= jobs[q]
      /\ MaxJobs \in Nat
  BY PoolAssumption DEF PoolTypeOK
<1>1. ASSUME registered' = registered PROVE IsInjective(registered)'
  BY <1>1 DEF IsInjective, PoolTypeOK
<1>2. ASSUME jobs[r] < MaxJobs, jobs' = [jobs EXCEPT ![r] = @ + 1]
      PROVE  /\ jobs' \in [Drivers -> 0 .. MaxJobs] /\ jobs'[r] = jobs[r] + 1
             /\ \A q \in Drivers : q # r => jobs'[q] = jobs[q]
  BY <1>0, <1>2
<1>3. CASE ResolveAside(r)
  <2>1. /\ jobs' \in [Drivers -> 0 .. MaxJobs] /\ jobs'[r] = jobs[r] + 1
        /\ \A q \in Drivers : q # r => jobs'[q] = jobs[q]
    BY <1>2, <1>3 DEF ResolveAside, Given
  <2>2. \A q \in Drivers : rr[q] <= jobs'[q]
    <3> TAKE q \in Drivers
    <3>1. CASE q = r
      BY <1>0, <2>1, <3>1
    <3>2. CASE q # r
      BY <1>0, <2>1, <3>2
    <3> QED BY <3>1, <3>2
  <2> QED BY <1>1, <1>3, <2>1, <2>2 DEF ResolveAside, PoolTypeOK
<1>4. CASE Panics(r)
  <2>1. pc' \in [Drivers -> Phase]
    BY <1>0, <1>4 DEF Panics, Phase
  <2> QED BY <1>1, <1>4, <2>1 DEF Panics, PoolTypeOK
<1>5. CASE Resolve(r)
  <2>1. /\ jobs' \in [Drivers -> 0 .. MaxJobs] /\ jobs'[r] = jobs[r] + 1
        /\ \A q \in Drivers : q # r => jobs'[q] = jobs[q]
    BY <1>2, <1>5 DEF Resolve, Given
  <2>2. PICK t \in Seq(Workers), w \in Workers :
          list' = [list EXCEPT ![r] = t] /\ firsts' = [firsts EXCEPT ![r] = Append(firsts[r], w)]
    BY <1>5, ResolveOf
  <2>3. list' \in [Drivers -> Seq(Workers)] /\ firsts' \in [Drivers -> Seq(Workers)]
    BY <1>0, <2>2
  <2>4. /\ rr' \in [Drivers -> Nat] /\ rr'[r] <= rr[r] + 1
        /\ \A q \in Drivers : q # r => rr'[q] = rr[q]
    <3>1. CASE Counts(r)
      <4>1. rr' = [rr EXCEPT ![r] = rr[r] + 1]
        BY <1>5, <3>1 DEF Resolve
      <4> QED BY <1>0, <4>1
    <3>2. CASE ~Counts(r)
      <4>1. rr' = [rr EXCEPT ![r] = rr[r]]
        BY <1>5, <3>2 DEF Resolve
      <4> QED BY <1>0, <4>1
    <3> QED BY <3>1, <3>2
  <2>5. \A q \in Drivers : rr'[q] <= jobs'[q]
    <3> TAKE q \in Drivers
    <3>1. CASE q = r
      BY <1>0, <2>1, <2>4, <3>1
    <3>2. CASE q # r
      BY <1>0, <2>1, <2>4, <3>2
    <3> QED BY <3>1, <3>2
  <2> QED BY <1>1, <1>5, <2>1, <2>3, <2>4, <2>5 DEF Resolve, PoolTypeOK
<1> QED BY <1>3, <1>4, <1>5

-----------------------------------------------------------------------------
(* Who is excluded has failed a check                                      *)

Blamed == \A w \in Workers : health[w] = "unreachable" => w \in failed

PoolInv == PoolTypeOK /\ Asked /\ Blamed

\* A run that is left alone has still asked everybody.
LEMMA AskedKept ==
  ASSUME NEW q \in Drivers, AskedBy(q), failed \subseteq failed',
         pc'[q] = pc[q], candidates'[q] = candidates[q], verdict'[q] = verdict[q], written'[q] = written[q]
  PROVE  AskedBy(q)'
BY DEF AskedBy

LEMMA AskedCheck ==
  ASSUME PoolTypeOK, Asked, NEW r \in Drivers,
         \/ List(r) \/ Checked(r) \/ WriteHealth(r) \/ Listed(r)
         \/ \E i \in DOMAIN candidates[r] : CheckPasses(r, i) \/ CheckFails(r, i)
  PROVE  Asked'
<1> USE DEF used, table
<1>0. /\ pc \in [Drivers -> Phase] /\ written \in [Drivers -> Nat]
      /\ candidates \in [Drivers -> Seq(Workers)] /\ verdict \in [Drivers -> Seq(Verdict)]
      /\ Len(verdict[r]) = Len(candidates[r])
      /\ \A q \in Drivers : AskedBy(q)
  BY DEF PoolTypeOK, Asked
<1>1. CASE List(r)
  <2>1. PICK urls \in Seq(Workers) :
          /\ candidates' = [candidates EXCEPT ![r] = urls]
          /\ verdict' = [verdict EXCEPT ![r] = [i \in DOMAIN urls |-> "none"]]
    BY <1>1, ListOf
  <2>2. pc'[r] = "check" /\ written'[r] = 0 /\ failed' = failed
    BY <1>0, <1>1 DEF List, AskedBy
  <2>3. \A i \in DOMAIN verdict'[r] : verdict'[r][i] = "none"
    BY <1>0, <2>1
  <2>4. AskedBy(r)'
    BY <2>2, <2>3 DEF AskedBy
  <2>5. ASSUME NEW q \in Drivers, q # r PROVE AskedBy(q)'
    <3>1. pc'[q] = pc[q] /\ candidates'[q] = candidates[q] /\ verdict'[q] = verdict[q] /\ written'[q] = written[q]
      BY <1>0, <1>1, <2>1, <2>5 DEF List
    <3> QED BY <1>0, <2>2, <3>1, AskedKept
  <2> QED BY <2>4, <2>5 DEF Asked
<1>2. CASE Checked(r)
  <2>1. /\ candidates' = candidates /\ verdict' = verdict /\ written' = written /\ failed' = failed
        /\ pc' = [pc EXCEPT ![r] = "write"] /\ \A i \in DOMAIN verdict[r] : verdict[r][i] # "none"
    BY <1>2 DEF Checked
  <2>2. AskedBy(r)'
    BY <1>0, <2>1 DEF AskedBy
  <2>3. ASSUME NEW q \in Drivers, q # r PROVE AskedBy(q)'
    BY <1>0, <2>1, <2>3, AskedKept
  <2> QED BY <2>2, <2>3 DEF Asked
<1>3. CASE Listed(r)
  <2>1. /\ candidates' = candidates /\ verdict' = verdict /\ written' = written /\ failed' = failed
        /\ pc' = [pc EXCEPT ![r] = "jobs"] /\ pc[r] = "write"
    BY <1>3 DEF Listed
  <2>2. AskedBy(r)'
    BY <1>0, <2>1 DEF AskedBy
  <2>3. ASSUME NEW q \in Drivers, q # r PROVE AskedBy(q)'
    BY <1>0, <2>1, <2>3, AskedKept
  <2> QED BY <2>2, <2>3 DEF Asked
<1>4. CASE WriteHealth(r)
  <2>1. /\ candidates' = candidates /\ verdict' = verdict /\ pc' = pc /\ failed' = failed
        /\ pc[r] = "write" /\ \A q \in Drivers : q # r => written'[q] = written[q]
    BY <1>0, <1>4 DEF WriteHealth
  <2>2. AskedBy(r)'
    BY <1>0, <2>1 DEF AskedBy
  <2>3. ASSUME NEW q \in Drivers, q # r PROVE AskedBy(q)'
    BY <1>0, <2>1, <2>3, AskedKept
  <2> QED BY <2>2, <2>3 DEF Asked
<1>5. ASSUME NEW i \in DOMAIN candidates[r], NEW x \in {"healthy", "unreachable"},
             Unchecked(r, i), verdict' = [verdict EXCEPT ![r][i] = x],
             failed \subseteq failed', x = "unreachable" => candidates[r][i] \in failed',
             pc' = pc, candidates' = candidates, written' = written
      PROVE  Asked'
  <2>1. /\ verdict'[r] = [verdict[r] EXCEPT ![i] = x]
        /\ \A q \in Drivers \ {r} : verdict'[q] = verdict[q]
    BY <1>5, VerdictWritten DEF Verdict
  <2>2. DOMAIN verdict'[r] = DOMAIN verdict[r] /\ pc[r] = "check"
        /\ i \in DOMAIN verdict[r] /\ verdict'[r][i] = x
        /\ \A j \in DOMAIN verdict[r] : j # i => verdict'[r][j] = verdict[r][j]
    BY <1>0, <1>5, <2>1 DEF Unchecked
  <2>3. \A j \in DOMAIN verdict'[r] : verdict'[r][j] = "unreachable" => candidates'[r][j] \in failed'
    BY <1>0, <1>5, <2>2 DEF AskedBy
  <2>4. AskedBy(r)'
    BY <1>0, <1>5, <2>2, <2>3 DEF AskedBy
  <2>5. ASSUME NEW q \in Drivers, q # r PROVE AskedBy(q)'
    BY <1>0, <1>5, <2>1, <2>5, AskedKept
  <2> QED BY <2>4, <2>5 DEF Asked
<1>6. ASSUME NEW i \in DOMAIN candidates[r], CheckPasses(r, i) PROVE Asked'
  <2>1. Unchecked(r, i) /\ verdict' = [verdict EXCEPT ![r][i] = "healthy"] /\ failed' = failed
        /\ pc' = pc /\ candidates' = candidates /\ written' = written
    BY <1>6 DEF CheckPasses
  <2> QED BY <1>5, <2>1
<1>7. ASSUME NEW i \in DOMAIN candidates[r], CheckFails(r, i) PROVE Asked'
  <2>1. Unchecked(r, i) /\ verdict' = [verdict EXCEPT ![r][i] = "unreachable"]
        /\ failed' = failed \cup {candidates[r][i]}
        /\ pc' = pc /\ candidates' = candidates /\ written' = written
    BY <1>7 DEF CheckFails
  <2> QED BY <1>5, <2>1
<1> QED BY <1>1, <1>2, <1>3, <1>4, <1>6, <1>7

LEMMA AskedNext ==
  ASSUME PoolTypeOK, Asked, [PoolNext]_poolVars
  PROVE  Asked'
<1>0. \A q \in Drivers : AskedBy(q)
  BY DEF Asked
<1>1. ASSUME UNCHANGED <<pc, candidates, verdict, written, failed>> PROVE Asked'
  BY <1>0, <1>1, AskedKept DEF Asked
<1>2. ASSUME NEW r \in Drivers, ResolveAside(r) \/ Resolve(r) PROVE Asked'
  BY <1>1, <1>2 DEF ResolveAside, Resolve
<1>3. ASSUME NEW r \in Drivers, Panics(r) PROVE Asked'
  <2>1. /\ candidates' = candidates /\ verdict' = verdict /\ written' = written /\ failed' = failed
        /\ pc' = [pc EXCEPT ![r] = "panicked"] /\ pc[r] = "jobs" /\ pc \in [Drivers -> Phase]
    BY <1>3 DEF Panics, Given, PoolTypeOK
  <2>2. AskedBy(r)'
    BY <1>0, <2>1 DEF AskedBy
  <2>3. ASSUME NEW q \in Drivers, q # r PROVE AskedBy(q)'
    BY <1>0, <2>1, <2>3, AskedKept
  <2> QED BY <2>2, <2>3 DEF Asked
<1>4. ASSUME NEW w \in Workers, Register(w) \/ Deregister(w) \/ Fails(w) \/ Recovers(w) PROVE Asked'
  BY <1>1, <1>4 DEF Register, Deregister, Fails, Recovers, run
<1>5. CASE UNCHANGED poolVars
  BY <1>1, <1>5 DEF poolVars, run
<1> QED BY <1>2, <1>3, <1>4, <1>5, AskedCheck DEF PoolNext, RunStep

\* A mark is written only for a check that has failed.
LEMMA BlamedNext ==
  ASSUME PoolTypeOK, Asked, Blamed, [PoolNext]_poolVars
  PROVE  Blamed'
<1> USE DEF used, table, run
<1>0. health \in [Workers -> Health]
  BY DEF PoolTypeOK
<1>1. ASSUME health' = health, failed \subseteq failed' PROVE Blamed'
  BY <1>1 DEF Blamed
<1>2. ASSUME NEW r \in Drivers, WriteHealth(r) PROVE Blamed'
  <2> DEFINE i == written[r] + 1
  <2>1. /\ written[r] \in Nat /\ candidates[r] \in Seq(Workers) /\ verdict[r] \in Seq(Verdict)
        /\ Len(verdict[r]) = Len(candidates[r]) /\ written \in [Drivers -> Nat]
    BY DEF PoolTypeOK
  <2>2. written[r] < Len(candidates[r]) /\ written'[r] = i /\ failed' = failed
        /\ \/ health' = [health EXCEPT ![candidates[r][i]] = verdict[r][written'[r]]]
           \/ health' = health
    BY <1>2, <2>1 DEF WriteHealth, VerdictOf
  <2>3. i \in DOMAIN verdict[r]
    BY <2>1, <2>2
  <2> HIDE DEF i
  <2>4. verdict[r][i] = "unreachable" => candidates[r][i] \in failed
    BY <2>3 DEF Asked, AskedBy
  <2> QED BY <1>0, <2>2, <2>4 DEF Blamed
<1>3. ASSUME NEW r \in Drivers, RunStep(r), ~WriteHealth(r) PROVE Blamed'
  <2>1. health' = health /\ failed \subseteq failed'
    BY <1>3 DEF RunStep, List, Checked, Listed, CheckPasses, CheckFails,
                ResolveAside, Resolve, Panics
  <2> QED BY <1>1, <2>1
<1>4. ASSUME NEW w \in Workers, Register(w) PROVE Blamed'
  <2>1. failed' = failed /\ (health' = health \/ health' = [health EXCEPT ![w] = "null"])
    BY <1>4 DEF Register
  <2> QED BY <1>0, <2>1 DEF Blamed
<1>5. ASSUME NEW w \in Workers, Deregister(w) \/ Fails(w) \/ Recovers(w) PROVE Blamed'
  BY <1>1, <1>5 DEF Deregister, Fails, Recovers
<1>6. CASE UNCHANGED poolVars
  BY <1>1, <1>6 DEF poolVars
<1> QED BY <1>2, <1>3, <1>4, <1>5, <1>6 DEF PoolNext

LEMMA PoolInvInit ==
  ASSUME PoolInit
  PROVE  PoolInv
<1>1. PoolTypeOK
  BY PoolTypedInit
<1>2. Asked
  BY DEF PoolInit, Asked, AskedBy
<1>3. Blamed
  BY DEF PoolInit, Blamed
<1> QED BY <1>1, <1>2, <1>3 DEF PoolInv

LEMMA PoolInvNext ==
  ASSUME PoolInv, [PoolNext]_poolVars
  PROVE  PoolInv'
<1>1. PoolTypeOK /\ Asked /\ Blamed
  BY DEF PoolInv
<1>2. CASE UNCHANGED poolVars
  <2>1. PoolTypeOK'
    BY <1>1, <1>2 DEF PoolTypeOK, poolVars, run, used, table, IsInjective
  <2> QED BY <1>1, <2>1, AskedNext, BlamedNext DEF PoolInv
<1>3. CASE PoolNext
  <2>1. PoolTypeOK'
    BY <1>1, <1>3, PoolTypedTable, PoolTypedCheck, PoolTypedResolve DEF PoolNext, RunStep
  <2> QED BY <1>1, <2>1, AskedNext, BlamedNext DEF PoolInv
<1> QED BY <1>2, <1>3

\* The strengthened invariant holds in every behaviour of the pool.
THEOREM PoolInvariant == PoolSpec => []PoolInv
<1>1. PoolInit => PoolInv
  BY PoolInvInit
<1>2. PoolInv /\ [PoolNext]_poolVars => PoolInv'
  BY PoolInvNext
<1> QED BY <1>1, <1>2, PTL DEF PoolSpec

\* The pool's variables have their types in every behaviour.
THEOREM PoolTypeCorrect == PoolSpec => []PoolTypeOK
<1>1. PoolInv => PoolTypeOK
  BY DEF PoolInv
<1> QED BY <1>1, PoolInvariant, PTL

\* A worker is marked unreachable in the table only if it has failed a check.
THEOREM ExcludedHaveFailed == PoolSpec => []ExcludedAfterFailure
<1>1. PoolInv => ExcludedAfterFailure
  BY DEF PoolInv, Blamed, ExcludedAfterFailure
<1> QED BY <1>1, PoolInvariant, PTL

-----------------------------------------------------------------------------
(* An excluded worker that nobody asks stays excluded                      *)

LEMMA AwaitedKept ==
  ASSUME NEW q, NEW w, pc'[q] = pc[q], candidates'[q] = candidates[q], written'[q] = written[q],
         ~Awaited(q, w)
  PROVE  ~Awaited(q, w)'
BY DEF Awaited, Named, Contains, Urls

LEMMA StuckStays ==
  ASSUME PoolInv, [PoolNext]_poolVars, NEW w \in Workers, Stuck(w), Registered(w)'
  PROVE  Stuck(w)'
<1> USE DEF used, table, run
<1>0. /\ health \in [Workers -> Health] /\ health[w] = "unreachable" /\ Registered(w)
      /\ \A q \in Drivers : ~Awaited(q, w)
      /\ pc \in [Drivers -> Phase] /\ written \in [Drivers -> Nat] /\ candidates \in [Drivers -> Seq(Workers)]
      /\ PoolTypeOK
  BY DEF Stuck, PoolInv, PoolTypeOK
<1>1. ASSUME health'[w] = "unreachable", \A q \in Drivers : ~Awaited(q, w)' PROVE Stuck(w)'
  BY <1>1 DEF Stuck
<1>2. ASSUME UNCHANGED <<pc, candidates, written>>, health'[w] = health[w] PROVE Stuck(w)'
  BY <1>0, <1>1, <1>2, AwaitedKept
<1>3. ASSUME NEW r \in Drivers, health'[w] = health[w], ~Awaited(r, w)',
             \A q \in Drivers \ {r} : pc'[q] = pc[q] /\ candidates'[q] = candidates[q] /\ written'[q] = written[q]
      PROVE  Stuck(w)'
  <2>1. \A q \in Drivers : ~Awaited(q, w)'
    BY <1>0, <1>3, AwaitedKept
  <2> QED BY <1>0, <1>1, <1>3, <2>1
<1>4. ASSUME NEW v \in Workers, Register(v) PROVE Stuck(w)'
  <2>1. pc' = pc /\ candidates' = candidates /\ written' = written
    BY <1>4 DEF Register
  <2>2. health'[w] = health[w]
    <3>1. CASE Registered(v)
      BY <1>4, <3>1 DEF Register
    <3>2. CASE ~Registered(v)
      <4>1. health' = [health EXCEPT ![v] = "null"] /\ v # w
        BY <1>0, <1>4, <3>2 DEF Register
      <4> QED BY <1>0, <4>1
    <3> QED BY <3>1, <3>2
  <2> QED BY <1>2, <2>1, <2>2
<1>5. ASSUME NEW v \in Workers, Deregister(v) \/ Fails(v) \/ Recovers(v) PROVE Stuck(w)'
  BY <1>2, <1>5 DEF Deregister, Fails, Recovers
<1>6. ASSUME NEW r \in Drivers, List(r) PROVE Stuck(w)'
  <2>1. PICK urls \in Seq(Workers) :
          /\ candidates' = [candidates EXCEPT ![r] = urls]
          /\ \A i \in DOMAIN urls : Named(r, urls[i]) \/ health[urls[i]] \in {"null", "healthy"}
    BY <1>0, <1>6, ListOf
  <2>2. pc[r] = "begin" /\ pc' = [pc EXCEPT ![r] = "check"] /\ written' = written /\ health' = health
    BY <1>6 DEF List
  <2>3. ~Named(r, w)
    BY <1>0, <2>2 DEF Awaited
  <2>4. \A i \in DOMAIN urls : urls[i] # w
    BY <1>0, <2>1, <2>3
  <2>5. candidates'[r] = urls /\ pc'[r] = "check" /\ written'[r] \in Nat /\ DOMAIN urls = 1 .. Len(urls)
    BY <1>0, <2>1, <2>2
  <2>6. \A i \in written'[r] + 1 .. Len(candidates'[r]) : i \in DOMAIN urls
    BY <2>5
  <2>7. ~Awaited(r, w)'
    BY <2>4, <2>5, <2>6 DEF Awaited
  <2>8. \A q \in Drivers \ {r} : pc'[q] = pc[q] /\ candidates'[q] = candidates[q] /\ written'[q] = written[q]
    BY <1>0, <2>1, <2>2
  <2> QED BY <1>3, <2>2, <2>7, <2>8
<1>7. ASSUME NEW r \in Drivers, Checked(r) \/ Listed(r) \/ Panics(r) PROVE Stuck(w)'
  <2>1. /\ (pc[r] = "check" /\ pc'[r] = "write") \/ pc'[r] \in {"jobs", "panicked"}
        /\ candidates' = candidates /\ written' = written /\ health' = health
        /\ \A q \in Drivers \ {r} : pc'[q] = pc[q]
    BY <1>0, <1>7 DEF Checked, Listed, Panics
  <2>2. ~Awaited(r, w)'
    BY <1>0, <2>1 DEF Awaited
  <2> QED BY <1>3, <2>1, <2>2
<1>8. ASSUME NEW r \in Drivers, WriteHealth(r) PROVE Stuck(w)'
  <2> DEFINE i == written[r] + 1
  <2>1. /\ pc[r] = "write" /\ written[r] < Len(candidates[r]) /\ written' = [written EXCEPT ![r] = i]
        /\ candidates' = candidates /\ pc' = pc
        /\ (health' = health \/ \E x : health' = [health EXCEPT ![candidates[r][i]] = x])
    BY <1>8 DEF WriteHealth
  <2>2. i \in written[r] + 1 .. Len(candidates[r])
    BY <1>0, <2>1
  <2>3. written'[r] = i /\ \A q \in Drivers \ {r} : written'[q] = written[q]
    BY <1>0, <2>1
  <2>4. \A k \in i + 1 .. Len(candidates[r]) : k \in i .. Len(candidates[r])
    BY <1>0, <2>2
  <2>5. \A k \in i .. Len(candidates[r]) : candidates[r][k] # w
    BY <1>0, <2>1 DEF Awaited
  <2>6. ~Awaited(r, w)'
    BY <2>1, <2>3, <2>4, <2>5 DEF Awaited
  <2>7. candidates[r][i] # w
    BY <2>2, <2>5
  <2> HIDE DEF i
  <2>8. health'[w] = health[w]
    BY <1>0, <2>1, <2>7
  <2> QED BY <1>3, <2>1, <2>3, <2>6, <2>8
<1>9. ASSUME NEW r \in Drivers,
             \/ ResolveAside(r) \/ Resolve(r)
             \/ \E i \in DOMAIN candidates[r] : CheckPasses(r, i) \/ CheckFails(r, i)
      PROVE  Stuck(w)'
  BY <1>2, <1>9 DEF ResolveAside, Resolve, CheckPasses, CheckFails
<1>10. CASE UNCHANGED poolVars
  BY <1>2, <1>10 DEF poolVars
<1> QED BY <1>4, <1>5, <1>6, <1>7, <1>8, <1>9, <1>10 DEF PoolNext, RunStep

\* Once marked, a worker that no run is checking and no workflow names stays
\* excluded for as long as it is registered, however well it answers again.
THEOREM ExcludedStayExcluded == PoolSpec => ExclusionLasts
<1>1. PoolInv /\ [PoolNext]_poolVars =>
        [\A w \in Workers : Stuck(w) /\ Registered(w)' => Stuck(w)']_poolVars
  BY StuckStays
<1> QED BY <1>1, PoolInvariant, PTL DEF PoolSpec, ExclusionLasts

-----------------------------------------------------------------------------
(* Where the lists for the jobs come from                                  *)

\* The k-th worker that was put first is the one the strategy says.
FirstOf(r, k) ==
  \E start \in Nat :
    /\ firsts[r][k] = Healthy(r)[(start % Len(Healthy(r))) + 1]
    /\ strategy[r] = "round_robin" => start = (k - 1) % Len(Healthy(r))
    /\ strategy[r] = "weighted" /\ Total(r) > 0 =>
         /\ start \in 0 .. Len(Static[r]) - 1
         /\ WeightTo(r, start) <= (k - 1) % Total(r)
         /\ (k - 1) % Total(r) < WeightTo(r, start + 1)

ChosenBy(r) ==
  /\ pc[r] \in {"begin", "check", "write"} => rr[r] = 0 /\ list[r] = <<>> /\ firsts[r] = <<>>
  /\ pc[r] = "panicked" => strategy[r] = "weighted" /\ Static[r] = <<>> /\ Healthy(r) # <<>>
  /\ list[r] # <<>> =>
       Healthy(r) # <<>> /\ \E start \in Nat : list[r] = Turned(Healthy(r), start)
  /\ Counts(r) => Len(firsts[r]) = rr[r]
  /\ firsts[r] # <<>> => Healthy(r) # <<>>
  /\ \A k \in 1 .. Len(firsts[r]) : FirstOf(r, k)

Chosen == \A r \in Drivers : ChosenBy(r)

LEMMA HealthyKept ==
  ASSUME NEW q, candidates'[q] = candidates[q], verdict'[q] = verdict[q]
  PROVE  Healthy(q)' = Healthy(q)
BY DEF Healthy, Kept, Ascending

\* A run that is left alone has what it had.
LEMMA ChosenKept ==
  ASSUME NEW q \in Drivers, ChosenBy(q),
         pc'[q] = pc[q], strategy'[q] = strategy[q], candidates'[q] = candidates[q],
         verdict'[q] = verdict[q], rr'[q] = rr[q], list'[q] = list[q], firsts'[q] = firsts[q]
  PROVE  ChosenBy(q)'
<1>1. Healthy(q)' = Healthy(q)
  BY HealthyKept
<1>2. (Counts(q) <=> Counts(q)') /\ Total(q)' = Total(q)
      /\ \A n : WeightTo(q, n)' = WeightTo(q, n)
  BY DEF Counts, Total, WeightTo
<1>3. \A k : FirstOf(q, k) => FirstOf(q, k)'
  BY <1>1, <1>2 DEF FirstOf
<1>4. \A start : Turned(Healthy(q), start)' = Turned(Healthy(q), start)
  BY <1>1 DEF Turned
<1> QED BY <1>1, <1>2, <1>3, <1>4 DEF ChosenBy

\* A run that has not come to its jobs has nothing yet.
LEMMA NothingChosen ==
  ASSUME NEW r \in Drivers, rr[r] = 0, list[r] = <<>>, firsts[r] = <<>>, pc[r] # "panicked"
  PROVE  ChosenBy(r)
BY DEF ChosenBy

LEMMA ChosenInit ==
  ASSUME PoolInit
  PROVE  Chosen
<1> SUFFICES ASSUME NEW r \in Drivers PROVE ChosenBy(r)
  BY DEF Chosen
<1>1. rr[r] = 0 /\ list[r] = <<>> /\ firsts[r] = <<>> /\ pc[r] # "panicked"
  BY DEF PoolInit
<1> QED BY <1>1, NothingChosen

LEMMA ChosenCheck ==
  ASSUME PoolTypeOK, Chosen, NEW r \in Drivers,
         \/ List(r) \/ Checked(r) \/ WriteHealth(r) \/ Listed(r)
         \/ \E i \in DOMAIN candidates[r] : CheckPasses(r, i) \/ CheckFails(r, i)
  PROVE  Chosen'
<1> USE DEF used, table
<1>0. /\ pc \in [Drivers -> Phase] /\ candidates \in [Drivers -> Seq(Workers)]
      /\ verdict \in [Drivers -> Seq(Verdict)] /\ \A q \in Drivers : ChosenBy(q)
  BY DEF PoolTypeOK, Chosen
<1>1. /\ strategy' = strategy /\ rr' = rr /\ list' = list /\ firsts' = firsts
      /\ pc[r] \in {"begin", "check", "write"}
  BY DEF List, Checked, WriteHealth, Listed, CheckPasses, CheckFails, Unchecked
<1>2. /\ pc'[r] # "panicked"
      /\ \A q \in Drivers \ {r} : pc'[q] = pc[q]
  BY <1>0, <1>1 DEF List, Checked, WriteHealth, Listed, CheckPasses, CheckFails
<1>3. \A q \in Drivers \ {r} : candidates'[q] = candidates[q] /\ verdict'[q] = verdict[q]
  BY <1>0 DEF List, Checked, WriteHealth, Listed, CheckPasses, CheckFails
<1>4. ChosenBy(r)'
  BY <1>0, <1>1, <1>2 DEF ChosenBy
<1>5. ASSUME NEW q \in Drivers, q # r PROVE ChosenBy(q)'
  BY <1>0, <1>1, <1>2, <1>3, <1>5, ChosenKept
<1> QED BY <1>4, <1>5 DEF Chosen

LEMMA ChosenPanic ==
  ASSUME PoolTypeOK, Chosen, NEW r \in Drivers, Panics(r)
  PROVE  Chosen'
<1> USE DEF used, table
<1>0. pc \in [Drivers -> Phase] /\ \A q \in Drivers : ChosenBy(q)
  BY DEF PoolTypeOK, Chosen
<1>1. /\ strategy' = strategy /\ rr' = rr /\ list' = list /\ firsts' = firsts
      /\ candidates' = candidates /\ verdict' = verdict
      /\ pc' = [pc EXCEPT ![r] = "panicked"] /\ Healthy(r) # <<>> /\ Divisor(r) = 0
  BY DEF Panics, Remote
<1>2. Healthy(r) \in Seq(Workers) /\ Total(r) \in Nat /\ strategy[r] \in Weighing
      /\ Static[r] \in Seq([url : Workers, weight : Nat])
  BY HealthyOf, TotalTyped, StrategyTyped, StaticTyped
<1>3. strategy[r] = "weighted" /\ Len(Static[r]) = 0
  <2>1. Len(Healthy(r)) # 0
    BY <1>1, <1>2
  <2> QED BY <1>1, <1>2, <2>1 DEF Divisor, Weighing
<1>4. Static[r] = <<>>
  BY <1>2, <1>3
<1>5. Healthy(r)' = Healthy(r)
  BY <1>1, HealthyKept
<1>6. pc'[r] = "panicked"
  BY <1>0, <1>1
<1>7. (Counts(r) <=> Counts(r)') /\ Total(r)' = Total(r)
      /\ \A n : WeightTo(r, n)' = WeightTo(r, n)
      /\ \A start : Turned(Healthy(r), start)' = Turned(Healthy(r), start)
  BY <1>1, <1>5 DEF Counts, Total, WeightTo, Turned
<1>8. \A k : FirstOf(r, k) => FirstOf(r, k)'
  BY <1>1, <1>5, <1>7 DEF FirstOf
<1>9. ChosenBy(r)'
  BY <1>0, <1>1, <1>3, <1>4, <1>5, <1>6, <1>7, <1>8 DEF ChosenBy
<1>10. ASSUME NEW q \in Drivers, q # r PROVE ChosenBy(q)'
  BY <1>0, <1>1, <1>10, ChosenKept
<1> QED BY <1>9, <1>10 DEF Chosen

LEMMA ChosenResolve ==
  ASSUME PoolTypeOK, Chosen, NEW r \in Drivers, Resolve(r)
  PROVE  Chosen'
<1> DEFINE l == Healthy(r)
<1> DEFINE n == Len(firsts[r])
<1>0. /\ list \in [Drivers -> Seq(Workers)] /\ firsts \in [Drivers -> Seq(Workers)] /\ rr \in [Drivers -> Nat]
      /\ firsts[r] \in Seq(Workers) /\ n \in Nat /\ \A q \in Drivers : ChosenBy(q)
  BY DEF PoolTypeOK, Chosen
<1>1. /\ strategy' = strategy /\ pc' = pc /\ candidates' = candidates /\ verdict' = verdict
      /\ pc[r] = "jobs" /\ Divisor(r) # 0
      /\ rr' = [rr EXCEPT ![r] = IF Counts(r) THEN @ + 1 ELSE @]
  BY DEF Resolve, Given
<1>2. PICK start \in Starts(r) :
        /\ start \in Nat /\ l # <<>> /\ l \in Seq(Workers)
        /\ list' = [list EXCEPT ![r] = Turned(l, start)]
        /\ firsts' = [firsts EXCEPT ![r] = Append(firsts[r], l[(start % Len(l)) + 1])]
        /\ l[(start % Len(l)) + 1] \in Workers
  BY ResolveOf
<1>3. Healthy(r)' = l
  BY <1>1, HealthyKept
<1>4. /\ strategy[r] = "round_robin" => start = rr[r] % Len(l)
      /\ strategy[r] = "weighted" /\ Total(r) > 0 =>
           /\ start \in 0 .. Len(Static[r]) - 1
           /\ WeightTo(r, start) <= rr[r] % Total(r)
           /\ rr[r] % Total(r) < WeightTo(r, start + 1)
  BY <1>1, <1>2, StartsOf
<1>5. (Counts(r) <=> Counts(r)') /\ Total(r)' = Total(r)
      /\ (\A m : WeightTo(r, m)' = WeightTo(r, m))
      /\ Turned(l, start) = Turned(Healthy(r)', start)
  BY <1>1, <1>3 DEF Counts, Total, WeightTo, Turned
<1> HIDE DEF l, n
<1> DEFINE w == l[(start % Len(l)) + 1]
<1>6. list'[r] = Turned(l, start) /\ firsts'[r] = Append(firsts[r], w)
  BY <1>0, <1>2
<1>7. /\ Len(firsts'[r]) = n + 1 /\ firsts'[r][n + 1] = w
      /\ \A k \in 1 .. n : firsts'[r][k] = firsts[r][k]
  <2>1. w \in Workers
    BY <1>2
  <2> HIDE DEF w
  <2> QED BY <1>0, <1>6, <2>1 DEF n
<1>8. Counts(r) => n = rr[r] /\ rr'[r] = rr[r] + 1
  BY <1>0, <1>1 DEF ChosenBy, n
<1>9. \A m : m = n + 1 => FirstOf(r, m)'
  <2>1. n + 1 - 1 = n
    BY <1>0
  <2>2. (strategy[r] = "round_robin" \/ strategy[r] = "weighted") => rr[r] = n
    BY <1>8 DEF Counts
  <2>3. firsts'[r][n + 1] = l[(start % Len(l)) + 1] /\ start \in Nat
    BY <1>2, <1>7
  <2> HIDE DEF w
  <2>4. /\ strategy'[r] = "round_robin" => start = n % Len(l)
        /\ strategy'[r] = "weighted" /\ Total(r) > 0 =>
             /\ start \in 0 .. Len(Static[r]) - 1
             /\ WeightTo(r, start) <= n % Total(r)
             /\ n % Total(r) < WeightTo(r, start + 1)
    BY <1>1, <1>4, <2>2
  <2>5. \A m : m = n + 1 =>
          \E s \in Nat :
            /\ firsts'[r][m] = Healthy(r)'[(s % Len(Healthy(r)')) + 1]
            /\ strategy'[r] = "round_robin" => s = (m - 1) % Len(Healthy(r)')
            /\ strategy'[r] = "weighted" /\ Total(r)' > 0 =>
                 /\ s \in 0 .. Len(Static[r]) - 1
                 /\ WeightTo(r, s)' <= (m - 1) % Total(r)'
                 /\ (m - 1) % Total(r)' < WeightTo(r, s + 1)'
    <3> SUFFICES ASSUME NEW m, m = n + 1
                 PROVE  /\ firsts'[r][m] = Healthy(r)'[(start % Len(Healthy(r)')) + 1]
                        /\ strategy'[r] = "round_robin" => start = (m - 1) % Len(Healthy(r)')
                        /\ strategy'[r] = "weighted" /\ Total(r)' > 0 =>
                             /\ start \in 0 .. Len(Static[r]) - 1
                             /\ WeightTo(r, start)' <= (m - 1) % Total(r)'
                             /\ (m - 1) % Total(r)' < WeightTo(r, start + 1)'
      BY <2>3, Zenon
    <3>1. m - 1 = n
      BY <1>0
    <3>2. firsts'[r][m] = Healthy(r)'[(start % Len(Healthy(r)')) + 1]
      <4>1. firsts'[r][m] = l[(start % Len(l)) + 1]
        BY <2>3
      <4> QED BY <1>3, <4>1, Zenon
    <3>3. strategy'[r] = "round_robin" => start = (m - 1) % Len(Healthy(r)')
      BY <1>3, <2>4, <3>1
    <3>4. Total(r)' = Total(r) /\ WeightTo(r, start)' = WeightTo(r, start)
          /\ WeightTo(r, start + 1)' = WeightTo(r, start + 1)
      BY <1>5
    <3> QED BY <2>4, <3>1, <3>2, <3>3, <3>4
  <2> QED BY <2>5 DEF FirstOf
<1>10. \A k \in 1 .. n : FirstOf(r, k)'
  <2>1. \A k \in 1 .. n : FirstOf(r, k)
    BY <1>0 DEF ChosenBy, n
  <2> HIDE DEF w
  <2>2. \A k \in 1 .. n : FirstOf(r, k) => FirstOf(r, k)'
    BY <1>1, <1>3, <1>5, <1>7 DEF FirstOf, l
  <2> QED BY <2>1, <2>2
<1>11. \A k \in 1 .. Len(firsts'[r]) : FirstOf(r, k)'
  <2>1. \A k \in 1 .. Len(firsts'[r]) : k \in 1 .. n \/ k = n + 1
    BY <1>0, <1>7
  <2> QED BY <1>9, <1>10, <2>1
<1>12. ChosenBy(r)'
  <2>1. Healthy(r)' # <<>> /\ list'[r] = Turned(Healthy(r)', start)
    BY <1>2, <1>3, <1>5, <1>6
  <2>2. \E s \in Nat : list'[r] = Turned(Healthy(r), s)'
    BY <1>2, <2>1 DEF Turned
  <2>3. pc'[r] = "jobs"
    BY <1>1
  <2>4. Counts(r)' => Len(firsts'[r]) = rr'[r]
    BY <1>5, <1>7, <1>8
  <2> QED BY <1>11, <2>1, <2>2, <2>3, <2>4 DEF ChosenBy
<1>13. ASSUME NEW q \in Drivers, q # r PROVE ChosenBy(q)'
  <2>1. rr'[q] = rr[q] /\ list'[q] = list[q] /\ firsts'[q] = firsts[q]
    BY <1>0, <1>1, <1>2, <1>13
  <2> QED BY <1>0, <1>1, <1>13, <2>1, ChosenKept
<1> QED BY <1>12, <1>13 DEF Chosen

LEMMA ChosenNext ==
  ASSUME PoolTypeOK, Chosen, [PoolNext]_poolVars
  PROVE  Chosen'
<1> USE DEF used, table, run
<1>0. \A q \in Drivers : ChosenBy(q)
  BY DEF Chosen
<1>1. ASSUME UNCHANGED <<pc, strategy, candidates, verdict, rr, list, firsts>> PROVE Chosen'
  BY <1>0, <1>1, ChosenKept DEF Chosen
<1>2. ASSUME NEW r \in Drivers, ResolveAside(r) PROVE Chosen'
  BY <1>1, <1>2 DEF ResolveAside
<1>3. ASSUME NEW w \in Workers, Register(w) \/ Deregister(w) \/ Fails(w) \/ Recovers(w) PROVE Chosen'
  BY <1>1, <1>3 DEF Register, Deregister, Fails, Recovers
<1>4. CASE UNCHANGED poolVars
  BY <1>1, <1>4 DEF poolVars
<1> QED BY <1>2, <1>3, <1>4, ChosenCheck, ChosenPanic, ChosenResolve DEF PoolNext, RunStep

\* Every list is that of the healthy workers, turned to where the strategy says.
THEOREM ListsAreChosen == PoolSpec => [](PoolInv /\ Chosen)
<1>1. PoolInit => Chosen
  BY ChosenInit
<1>2. PoolInv /\ Chosen /\ [PoolNext]_poolVars => Chosen'
  BY ChosenNext DEF PoolInv
<1> QED BY <1>1, <1>2, PoolInvariant, PTL DEF PoolSpec

\* The driver is brought down by the remainder by zero in one case only: the
\* weighted strategy over healthy workers none of which the file names.
THEOREM PanicsAreUnweighted == PoolSpec => []PanicsOnlyUnweighted
<1>1. Chosen => PanicsOnlyUnweighted
  BY DEF Chosen, ChosenBy, PanicsOnlyUnweighted
<1> QED BY <1>1, ListsAreChosen, PTL

LEMMA ChosenAreHealthy ==
  ASSUME PoolTypeOK, Chosen
  PROVE  HandsOutTheHealthy
<1> SUFFICES ASSUME NEW r \in Drivers, list[r] # <<>>, NEW w \in Workers
             PROVE  Cardinality({i \in DOMAIN list[r] : list[r][i] = w}) =
                      Cardinality({i \in DOMAIN candidates[r] :
                                       candidates[r][i] = w /\ verdict[r][i] = "healthy"})
  BY DEF HandsOutTheHealthy
<1> DEFINE l == Healthy(r)
<1>1. PICK start \in Nat : l # <<>> /\ list[r] = Turned(l, start)
  BY DEF Chosen, ChosenBy
<1>2. /\ Answered(r) \subseteq 1 .. Len(candidates[r]) /\ candidates[r] \in Seq(Workers)
      /\ l = Kept(candidates[r], Answered(r)) /\ l \in Seq(Workers)
  BY HealthyOf
<1> HIDE DEF l
<1>3. Cardinality(Places(list[r], w)) = Cardinality(Places(l, w))
  BY <1>1, <1>2, TurnedCounts
<1>4. Cardinality(Places(l, w)) = Cardinality({i \in Answered(r) : candidates[r][i] = w})
  BY <1>2, KeptCounts
<1>5. {i \in Answered(r) : candidates[r][i] = w}
        = {i \in DOMAIN candidates[r] : candidates[r][i] = w /\ verdict[r][i] = "healthy"}
  BY DEF Answered
<1> QED BY <1>3, <1>4, <1>5 DEF Places

\* A list made for a job holds the workers that passed the check, each as often
\* as it was named, and no other.
THEOREM ListsHoldTheHealthy == PoolSpec => []HandsOutTheHealthy
<1>1. PoolInv /\ Chosen => HandsOutTheHealthy
  BY ChosenAreHealthy DEF PoolInv
<1> QED BY <1>1, ListsAreChosen, PTL

LEMMA ListLength ==
  ASSUME PoolTypeOK, Chosen, NEW r \in Drivers, list[r] # <<>>
  PROVE  Len(list[r]) \in 1 .. Len(candidates[r])
<1> DEFINE l == Healthy(r)
<1>1. PICK start \in Nat : l # <<>> /\ list[r] = Turned(l, start)
  BY DEF Chosen, ChosenBy
<1>2. /\ Answered(r) \subseteq 1 .. Len(candidates[r]) /\ candidates[r] \in Seq(Workers)
      /\ l = Kept(candidates[r], Answered(r)) /\ l \in Seq(Workers)
  BY HealthyOf
<1>3. Len(l) = Cardinality(Answered(r))
  BY <1>2, KeptOf
<1> HIDE DEF l
<1>4. PICK n \in Nat : n = Len(candidates[r])
  BY <1>2
<1>5. IsFiniteSet(1 .. n) /\ Cardinality(1 .. n) = n
  BY FS_Interval
<1>6. Cardinality(Answered(r)) <= n
  BY <1>2, <1>4, <1>5, FS_Subset
<1>7. Len(list[r]) = Len(l)
  BY <1>1, <1>2, TurnedCounts
<1>8. Len(l) \in Nat \ {0}
  BY <1>1, <1>2
<1> QED BY <1>3, <1>4, <1>6, <1>7, <1>8

\* A job has as many workers to try as passed the check: one at least, and no
\* more than the run has checked. Dispatch assumes as much of its lists.
THEOREM TriesAreBounded ==
  PoolSpec => [](\A r \in Drivers : list[r] # <<>> => Len(list[r]) \in 1 .. Len(candidates[r]))
<1>1. PoolInv /\ Chosen => \A r \in Drivers : list[r] # <<>> => Len(list[r]) \in 1 .. Len(candidates[r])
  BY ListLength DEF PoolInv
<1> QED BY <1>1, ListsAreChosen, PTL

-----------------------------------------------------------------------------
(* Every worker comes first as often as it is due                          *)

LEMMA RoundRobinIsEven ==
  ASSUME PoolTypeOK, NEW r \in Drivers, ChosenBy(r),
         strategy[r] = "round_robin", IsInjective(Healthy(r)), Len(firsts[r]) = Len(Healthy(r)),
         NEW w \in Workers, Contains(Healthy(r), w)
  PROVE  TimesFirst(r, w) = 1
<1> DEFINE l == Healthy(r)
<1>1. l \in Seq(Workers) /\ firsts[r] \in Seq(Workers)
  BY HealthyOf DEF PoolTypeOK
<1>2. PICK n \in Nat : n = Len(l)
  BY <1>1
<1>3. PICK j \in 1 .. n : l[j] = w
  BY <1>1, <1>2 DEF Contains
<1>4. DOMAIN firsts[r] = 1 .. n /\ DOMAIN l = 1 .. n /\ n \in Nat \ {0} /\ Len(firsts[r]) = n
  BY <1>1, <1>2, <1>3
<1>5. \A a, b \in 1 .. n : l[a] = l[b] => a = b
  BY <1>4 DEF IsInjective
<1>6. \A k \in 1 .. Len(firsts[r]) : \E start \in Nat :
        firsts[r][k] = l[(start % Len(l)) + 1] /\ start = (k - 1) % Len(l)
  BY DEF ChosenBy, FirstOf
<1> HIDE DEF l
<1>7. ASSUME NEW k \in 1 .. n PROVE firsts[r][k] = l[k]
  <2>1. PICK start \in Nat : firsts[r][k] = l[(start % n) + 1] /\ start = (k - 1) % n
    BY <1>2, <1>4, <1>6
  <2>2. k - 1 \in 0 .. n - 1
    BY <1>4
  <2>3. (k - 1) % n = k - 1
    BY <1>4, <2>2, ModSmall
  <2>4. start % n = k - 1 /\ (k - 1) + 1 = k
    BY <2>1, <2>2, <2>3
  <2> QED BY <2>1, <2>4
<1>8. {k \in DOMAIN firsts[r] : firsts[r][k] = w} = {j}
  BY <1>3, <1>4, <1>5, <1>7
<1> QED BY <1>8, FS_Singleton DEF TimesFirst

\* The turns of the i-th worker are those of its share, one after another.
LEMMA WeightedIsExact ==
  ASSUME PoolTypeOK, NEW r \in Drivers, ChosenBy(r),
         strategy[r] = "weighted", Healthy(r) = Urls(r), IsInjective(Urls(r)),
         Total(r) > 0, Len(firsts[r]) = Total(r), NEW i \in DOMAIN Static[r]
  PROVE  TimesFirst(r, Static[r][i].url) = Static[r][i].weight
<1> DEFINE l == Urls(r)
<1> DEFINE W(k) == WeightTo(r, k)
<1>1. PICK L \in Nat : L = Len(Static[r]) /\ DOMAIN Static[r] = 1 .. L
  BY StaticTyped
<1>2. PICK T \in Nat \ {0} : T = Total(r) /\ T = W(L)
  BY <1>1, TotalTyped DEF Total
<1>3. Len(l) = L /\ DOMAIN l = 1 .. L /\ l[i] = Static[r][i].url /\ i \in 1 .. L
  BY <1>1, UrlsTyped
<1>4. \A k \in 0 .. L : W(k) \in Nat
  BY <1>1, WeightsAdd
<1>5. W((i - 1) + 1) = W(i - 1) + Static[r][(i - 1) + 1].weight /\ (i - 1) + 1 = i /\ i - 1 \in 0 .. L - 1
  BY <1>1, <1>3, WeightsAdd
<1>6. \A a \in 0 .. L : \A b \in a .. L : W(a) <= W(b)
  BY <1>1, WeightsGrow
<1>7. Len(firsts[r]) = T /\ DOMAIN firsts[r] = 1 .. T
  BY <1>2 DEF PoolTypeOK
<1>8. \A a, b \in 1 .. L : l[a] = l[b] => a = b
  BY <1>3 DEF IsInjective
<1>9. \A k \in 1 .. T : \E start \in Nat :
        /\ firsts[r][k] = l[(start % L) + 1] /\ start \in 0 .. L - 1
        /\ W(start) <= (k - 1) % T /\ (k - 1) % T < W(start + 1)
  BY <1>1, <1>2, <1>3, <1>7 DEF ChosenBy, FirstOf
<1> HIDE DEF l, W
<1>10. ASSUME NEW k \in 1 .. T
       PROVE  \E j \in 1 .. L : firsts[r][k] = l[j] /\ W(j - 1) <= k - 1 /\ k - 1 < W(j)
  <2>1. PICK start \in 0 .. L - 1 :
          /\ firsts[r][k] = l[(start % L) + 1]
          /\ W(start) <= (k - 1) % T /\ (k - 1) % T < W(start + 1)
    BY <1>9
  <2>2. k - 1 \in 0 .. T - 1 /\ L \in Nat \ {0}
    BY <1>2, <1>3
  <2>3. (k - 1) % T = k - 1 /\ start % L = start
    BY <2>2, ModSmall
  <2>4. start + 1 \in 1 .. L /\ (start + 1) - 1 = start
    OBVIOUS
  <2>5. firsts[r][k] = l[start + 1] /\ W((start + 1) - 1) <= k - 1 /\ k - 1 < W(start + 1)
    BY <2>1, <2>3, <2>4
  <2> QED BY <2>4, <2>5
<1>11. {k \in DOMAIN firsts[r] : firsts[r][k] = l[i]} = W(i - 1) + 1 .. W(i)
  <2>1. i - 1 \in 0 .. L /\ i \in 0 .. L /\ L \in i .. L /\ L \in 0 .. L
    BY <1>3
  <2>2. W(i - 1) \in Nat /\ W(i) \in Nat /\ W(i) <= T
    BY <1>2, <1>4, <1>6, <2>1
  <2>3. ASSUME NEW k \in 1 .. T, firsts[r][k] = l[i] PROVE k \in W(i - 1) + 1 .. W(i)
    <3>1. PICK j \in 1 .. L : firsts[r][k] = l[j] /\ W(j - 1) <= k - 1 /\ k - 1 < W(j)
      BY <1>10
    <3>2. j = i
      BY <1>3, <1>8, <2>3, <3>1
    <3> QED BY <2>2, <3>1, <3>2
  <2>4. ASSUME NEW k \in W(i - 1) + 1 .. W(i) PROVE k \in 1 .. T /\ firsts[r][k] = l[i]
    <3>1. k \in 1 .. T /\ W(i - 1) <= k - 1 /\ k - 1 < W(i)
      BY <2>2
    <3>2. PICK j \in 1 .. L : firsts[r][k] = l[j] /\ W(j - 1) <= k - 1 /\ k - 1 < W(j)
      BY <1>10, <3>1
    <3>3. ~(j < i)
      <4>1. SUFFICES ASSUME j < i PROVE FALSE
        OBVIOUS
      <4>2. j \in 0 .. L /\ i - 1 \in j .. L
        BY <1>3, <4>1
      <4>3. W(j) <= W(i - 1) /\ W(j) \in Nat
        BY <1>4, <1>6, <4>2
      <4> QED BY <2>2, <3>1, <3>2, <4>3
    <3>4. ~(i < j)
      <4>1. SUFFICES ASSUME i < j PROVE FALSE
        OBVIOUS
      <4>2. i \in 0 .. L /\ j - 1 \in i .. L /\ j - 1 \in 0 .. L
        BY <1>3, <4>1
      <4>3. W(i) <= W(j - 1) /\ W(j - 1) \in Nat
        BY <1>4, <1>6, <4>2
      <4> QED BY <2>2, <3>1, <3>2, <4>3
    <3>5. j = i
      BY <1>3, <3>3, <3>4
    <3> QED BY <3>1, <3>2, <3>5
  <2> QED BY <1>7, <2>3, <2>4
<1>12. Cardinality(W(i - 1) + 1 .. W(i)) = Static[r][i].weight
  <2>1. i - 1 \in 0 .. L /\ i \in 0 .. L /\ i \in 1 .. L
    BY <1>3
  <2>2. W(i - 1) \in Nat /\ W(i) \in Nat
    BY <1>4, <2>1
  <2>3. Static[r][i].weight \in Nat
    BY <1>1, <2>1, StaticTyped
  <2>4. W(i) = W(i - 1) + Static[r][i].weight
    BY <1>5
  <2>5. PICK a \in Int, b \in Int : a = W(i - 1) + 1 /\ b = W(i)
    BY <2>2
  <2>6. Cardinality(a .. b) = IF a > b THEN 0 ELSE b - a + 1
    BY FS_Interval
  <2> QED BY <2>2, <2>3, <2>4, <2>5, <2>6
<1>13. TimesFirst(r, Static[r][i].url) = Cardinality({k \in DOMAIN firsts[r] : firsts[r][k] = l[i]})
  BY <1>3 DEF TimesFirst
<1> QED BY <1>11, <1>12, <1>13

\* After a full turn of the weighted strategy each worker of the file has been
\* put first as often as its weight says; of round robin, each worker once.
THEOREM SharesComeOut == PoolSpec => []SharesAreExact
<1>1. ASSUME PoolTypeOK, Chosen PROVE SharesAreExact
  <2>1. \A r \in Drivers : ChosenBy(r)
    BY <1>1 DEF Chosen
  <2> QED BY <1>1, <2>1, RoundRobinIsEven, WeightedIsExact DEF SharesAreExact
<1>2. PoolInv /\ Chosen => SharesAreExact
  BY <1>1 DEF PoolInv
<1> QED BY <1>2, ListsAreChosen, PTL

\* What the jobs are given: complete lists, fair turns, and one way to panic.
THEOREM ListsComeOut == PoolSpec => []ListsAreDue
<1>1. HandsOutTheHealthy /\ SharesAreExact /\ PanicsOnlyUnweighted => ListsAreDue
  BY DEF ListsAreDue
<1> QED BY <1>1, ListsHoldTheHealthy, SharesComeOut, PanicsAreUnweighted, PTL
=============================================================================
