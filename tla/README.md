# Fluxion in TLA+

Fluxion runs workflows: a YAML file names jobs, each job is a WebAssembly
component, `depends_on` orders them, and a scheduler executes them locally or on
worker servers, recording what happened in a SQLite store from which a later
`fluxion retry` picks up. This directory holds a model of that system in TLA+,
the TLC configurations that check it on small workflows, and proofs checked by
TLAPS that hold for every workflow.

Paths below are relative to the repository; `scheduler.rs` is
`crates/fluxion-host/src/scheduler.rs`.

## 1. The system's parts

| Part | State it keeps | Operations | Hard behaviours |
|---|---|---|---|
| Scheduler (`scheduler.rs`) | `statuses`, `in_flight`, `overall_success`, `job_outputs`, `job_results`, `cascade_queue`; an mpsc channel; a semaphore | `run`, `retry`, `execute`, `launch` | events in any order, skip cascades nested in a visit loop, early exit on failure, retry from partial history |
| Workflow, expansion, graph (`fluxion-core/src/{workflow,expand,dag}.rs`) | none while a run goes on | `validate`, `expand_foreach`, `Dag::build` | zero-length fan-outs, cycles, references to expanded jobs |
| Run store (`fluxion-core/src/store.rs`) | tables `runs`, `job_states` | `create_run`, `upsert_job`, `complete_run`, `load_run`, `prune` | writers that die half-way; rows read by a later run |
| Schedules (`store.rs`, `fluxion-cli/src/main.rs`) | table `schedules` | `claim_schedule`, `update_schedule_next`, the daemon loop | several daemons on one table |
| Worker registry (`store.rs`, `scheduler.rs`) | table `workers` | register, remove, health check, candidates of a run, three strategies | concurrent runs writing verdicts, a worker marked unreachable, an index into another list |
| Remote dispatch (`fluxion-host/src/remote.rs`) and worker server (`fluxion-worker`) | the worker's job table, `ACTIVE_JOBS` | submit, poll, fail over | lost answers, restarts, work done twice |
| Execution on the host (`fluxion-host/src/{lib,cache}.rs`) | artifact directory, two LRU maps, epoch ticker | verify, read, compile, load, store, evict, instantiate, time out | processes and versions sharing the directory, files rewritten between two reads, guests nobody waits for, guests no epoch reaches |
| Network permissions (`lib.rs`) | `DNS_CACHE` of the process | `resolve_network_allow`, `build_wasi_ctx` | lookups racing each other, answers that age, lookups that fail, text that is read as another address |
| OCI client and local registry (`fluxion-host/src/oci.rs`, `fluxion-core/src/registry.rs`, `fluxion-cli/src/registry.rs`) | blobs, manifests and tags of a remote registry; table `oci_components`; files | push, pull, rm | pushes cut short, wrong or damaged answers, two pulls of one file, seconds that do not order entries |
| Watch mode (`fluxion-cli/src/watch.rs`) | `last_change`, a bounded channel, a shutdown flag | watch, debounce, run | saves during a run, a full channel at shutdown |
| Readers: `status`, `logs`, MCP tools, API, UI | none | two-statement reads of the store | `prune` and drivers in between |
| Build helper, WIT stubs, guest components | none | run tools, generate text | none |

The CLI (or the MCP server, or the daemon) calls the scheduler. The scheduler
writes rows through the store, spawns one tokio task per launched job, and waits
on the channel for their events. A task waits for one of the run's permits,
pulls or verifies its component, executes it here or on a worker, and sends one
event. A retry loads the rows of an earlier run and starts a new run that takes
over what need not be repeated.

What makes each part correct: the scheduler starts a job exactly once and only
after its dependencies, ends every run, and tells the store the truth; a retry
keeps nothing it has to redo and loses nothing it keeps; a schedule fires once
per occurrence however many daemons there are; a dispatched job is executed by a
worker at most once per dispatch unless its answer is lost; a list of workers holds
those that answered and no other; what is instantiated was compiled from the bytes
that were read, and those are the pinned ones; a guest reaches only what its list
names; what is pulled is what the manifest sent names; the last save is run; a reader
of the store is shown whole runs, and young ones are kept.

## 2. Modules

| Module | Models |
|---|---|
| `Workflow` | The static shape of a workflow as constants, and what expansion, graph and replay set make of it. Jobs of the expanded workflow are tuples: `<<y>>` is YAML job `y`, `<<y, i>>` is the foreach child `y.i`. |
| `Scheduler` | One process that drives a run: `run_inner`, `retry_inner`, `execute`, `launch`, and the store rows it writes. |
| `RunContract` | What a run promises to a reader of the store, without driver, tasks or channel. `Scheduler` implements it. |
| `MCScheduler` | The small workflows TLC checks `Scheduler` on. |
| `SchedulerProofs` | For every workflow: types, exact `in_flight`. For those in which no two jobs meet under a skip (`MetOnce`): one launch per job, dependencies first, final rows, fan-ins given what there is, success means settled, and `Scheduler` implements `RunContract`. Retries that keep the right jobs, conditions that agree with the rows. |
| `DependencyGraph` | `has_cycle`, `kahn_sort` and `downstream_inclusive`, one action per iteration, on any graph. |
| `MCDependencyGraph`, `GraphProofs` | Every graph on three jobs for TLC; the sort and the search for every graph. |
| `ScheduleDaemon` | The `schedules` table, the commands that add and remove rows, and any number of daemons on it. |
| `MCScheduleDaemon`, `DaemonProofs` | Two daemons and two cron expressions for TLC; one firing per occurrence and one loss per fault for any number of them. `DaemonProofs` also holds what is proved about `Watch`, the other command that stays. |
| `Dispatch` | One job sent to worker servers: the failover loops, `run_remote`, `run_remote_async`, the worker's handlers, table and counter, and a network that loses messages. |
| `MCDispatch`, `DispatchProofs` | Two jobs, two workers for TLC; honest results, starts again only after a loss, workers that tell the truth but for the executions that left without a word, for any number of them. |
| `ComponentCache` | From bytes to an instance: the shared artifact directory (`cache.rs`) and the two LRU maps of a host, one action per look, read, put, rename and removal. |
| `HostExecution`, `MCHostExecution` | What `launch` does with a local job, `run_component_measured`, `run_from_oci`, the epoch ticker and the end of the host, over `ComponentCache`. |
| `ExecutionProofs` | Instances of what was read and pinned, whole artifacts, for any number of hosts, versions and executions. |
| `WorkerPool`, `MCWorkerPool` | The table `workers`, the health checks of concurrent runs, `resolve_workers` and its strategies. |
| `RegistryStore` | The table `oci_components`. |
| `OciRegistry`, `MCOciRegistry` | push, pull and rm, one action per request or file operation, over `RegistryStore`. |
| `RegistryProofs` | Complete manifests, pulls that are what the manifest sent says, entries with files, the latest entry found but for seconds and waits, for any number of commands. |
| `NetworkAllow`, `MCNetworkAllow` | `network.allow`: the DNS cache and what a guest may connect to. |
| `NetworkProofs` | A truthful cache, and lists that mean what they say or what they are misread as, for any lists, lookups and changes of the DNS. |
| `Watch` | The main loop, the watcher thread and the channel between them. |
| `RunHistory`, `MCRunHistory` | The tables `runs` and `job_states` between drivers, `prune` and readers, one action per statement. |
| `StoreProofs` | The tables of the store. `runs` and `job_states`: young runs kept, finished runs shown whole, orphans only of overlong runs, for any number of drivers and readers. `workers`: who is excluded has failed and stays excluded, lists are complete and turns exact, for any number of runs and workers and any weights. |

`WorkerPool` and `Watch` share a module of proofs with another component, so they name what every module has
after themselves: `PoolInit`, `PoolNext`, `PoolSpec`, `PoolTypeOK`, `WatchInit` and so on.

How they fit together. `Workflow` states as assumptions what `Workflow::validate` and
`Dag::build` let through; `DependencyGraph` shows that the algorithms let through
just that, and `GraphProofs` shows it for every graph. `ScheduleDaemon`'s `Start` ... `Finish` is a whole behaviour of `Scheduler`, of
which the daemon looks at nothing but its end. The step `TaskEnds` of `Scheduler`, for a job that
is executed remotely, is a whole behaviour of `Dispatch`: it succeeds or fails
after any time, and `DispatchEnds` is what the fairness of `TaskStep` asks of it. For a job that
is executed here it is a behaviour of `HostExecution` as its waiter sees it: `Answer`, `Abandon` or
`Refuse`; the guest that goes on after `Abandon` is beyond what `Scheduler` looks at. Which list `Dispatch` is given
is what `WorkerPool` computes, and `HandsOutTheHealthy` (in `ListsAreDue`) bounds its length. `RunHistory` takes from `Scheduler`
the order of a driver's writes and nothing else; `Watch` takes from it that a run ends
(`RunEnds`, part of `RunReturns`).

### How Scheduler corresponds to the code

The driver (`execute`) is sequential, but it awaits and it writes to the store in
its loops. Each loop is unfolded to one action per iteration, with `pc` naming
the loop and `todo`, `queue` and `below` what is left of it, so that an error of
the store (`?`), the death of the process, or a step of a task can fall between
any two iterations.

| `pc` | Code | Actions |
|---|---|---|
| `create` | `create_run` | `CreateRun` |
| `seed` | `for (id, status) in &pre_succeeded` | `SeedPre`, `SeedDone` |
| `roots` | `for job_id in dag.roots()` | `LaunchRoot`, `RootsDone` |
| `ready` | the loop for jobs whose dependencies were all kept | `LaunchReady`, `ReadyDone` |
| `recv` | `while in_flight > 0 { rx.recv().await` | `ReceiveSucceeded`, `ReceiveFailed`, `LoopDone` |
| `visit` | `for dep in dag.dependents.get(&event.job_id)` | `PassOver`, `LaunchDependent`, `SkipDependent`, `VisitDone` |
| `cascade` | `while let Some(skipped_id) = cascade_queue.pop_front()` | `CascadePop`, `CascadePassOver`, `CascadeToSkip`, `CascadeLaunch`, `CascadeDone` |
| `complete` | end of `execute`, `complete_run` | `CompleteRun` |
| `done`, `aborted`, `crashed` | the run is over: normally, by `?`, by the end of the process | `Retry` starts the next |

Tasks are `waiting` for a permit, then `executing`, then gone; their event is in
`channel` until the driver takes it. A task carries the number of the run that
spawned it, because in a process that lives on (MCP server, API) tasks of an
ended run keep going and overlap the next; their `tx.send` fails, since the
receiver is gone.

Abstractions:

- A component is an outcome, success or failure. Time-outs, oversized output,
  remote errors are all the failure of `TaskEnds`. A failed OCI pull or digest
  check (`PreflightFails`) is separate because it moves the metric.
- The order in which a loop visits jobs is left open. The code iterates hash maps
  and vectors; every order it can take is among those of the model.
- A row and the entry of `statuses` are written in one step (`Record`), although
  the code awaits `resolve_workers` between the two: nothing else reads either
  in between.
- Two things have no time limit in the code: the pull of a component before a job (scheduler.rs:1046), which
  the job's `timeout_secs` does not cover, and the question `pick_least_conn` puts to the workers before a launch (scheduler.rs:881).
  `Pulled` names the jobs that pull and `LeastConn` the strategy; nothing owes these steps their end.
- `depends_on` has no repetitions. (A repeated entry makes a dependent appear
  twice in `dag.dependents` and be launched twice: the hazard of `RelaunchedJob`.)
- A retry is always of the run just before, and after it has ended. The code
  accepts any run id, one still going on included.
- A foreach without `input:` (dynamic) is a plain job to the scheduler, which never
  calls `expand_foreach_dynamic`; it is modelled as one. The branch that
  cancels a fan-in when a child failed cannot be reached, since no dependent is
  visited after a failure, and is left out.

### How DependencyGraph corresponds to the code

`pc` goes from `validate` (`has_cycle`: `DfsRoot`, `DfsEdge`, `DfsReturn` unfold the recursion
of `dfs`, `path` being its stack) to `sort` (`kahn_sort`, one `Pop` per turn of the `while`
loop with its inner loop) to `search` (`downstream_inclusive`, one `Reach` per
turn). A run may also begin at `sort`, because `execute` builds the graph of the
expanded workflow, with edges from `input_from:` that `has_cycle` does not follow. The
two queues are sets: they are filled from hash maps, in any order. `depends_on`
is a sequence here and may repeat a job, since the counting in `kahn_sort`
depends on it.

### How ScheduleDaemon corresponds to the code

`fire_due_schedules` opens the store for each call anew, so each call is an action, and
`pc` says which comes next: `sleep` (`ReadDue` is `due_schedules`), `pick` (the oldest row read, and `next_run_secs`: `Pick`, or `PassOver` where there is none),
`claim` (`claim_schedule`), `load` (`Workflow::from_file`, then the run starts), `run`, `record`
(`update_schedule_next`). `GiveUp` is every `continue` on an error, `Die` a kill at any
point. The clock is a counter of seconds; a cron expression is the function
`Upcoming` from a time to the first occurrence after it, or `Never`: an expression may name years, and then
`PassOver` leaves the row as it is, due as before (main.rs:1126-1131). Errors while reading the
due rows change nothing and are left out. An id made of the milliseconds of the clock is taken
to be new.

### How Dispatch corresponds to the code

`phase` follows a dispatch: `send`, then `await` for `POST /run` or `submitted` and `poll` for
`POST /jobs` and `GET /jobs/:id`. `FailOver` is `RemoteError::Unreachable` in the loops of
`run_with_failover` and `run_with_failover_async`, `Return` their other exits. A
message that is lost (`Lose`) may have been any of them; when it was the answer,
the worker goes on executing. `Post` is the arrival of the request: one that arrives
late, after the client has given up, is the same to both sides as one that
arrived and lost its answer. `ExecutionEnds` has two readings of
the code after `spawn_blocking(..).await`: an asynchronous job's task always runs on, a
handler of `POST /run` only while its connection lives, and `DropHandler` ends that.

Components travel inline: the routes `/components/{sha256}` are literals to axum 0.7, the
upload is answered 404 and the client falls back. Where a strategy starts in the
list of workers is left open here and computed in `WorkerPool`. A worker's own errors before it starts the
component (`HandlerFails`) count as its verdict. A
panic of the blocking task is `ExecutionPanics` for an asynchronous job, which leaves `run_request_inner` by `?`
before the counter is lowered; `handle_run` lowers it there, and a panic in it is an execution that failed. `leaked` are the executions whose
handler or task has left without lowering the counter.

### How ComponentCache and HostExecution correspond to the code

`stage` is where a blocking thread is: `blocking` and `read` are `run_component_measured` up to
`fs::read`, `mem` to `put` the compile phase (`mem_cache.get`, `path.exists`, `deserialize_file`,
`remove_file`, `precompile_component`, the rename, the second `deserialize_file`,
`mem_cache.put`), `pre` and `link` the instantiate phase, `run` the guest. Each is an action because each
may have another process between it and the next. A digest is what it is a digest
of, and the key of an artifact is the digest of its component alone. The comment in cache.rs:30-34 names the
wasmtime version as a part of it; it is not, so that two versions
overwrite each other's artifacts, which `foreign` records. A reader that finds a
foreign artifact removes the file by name, and what another process renamed to that name in
the meantime goes with it; that process then fails in its own `Reload`
(`FailsOnlyOverForeign` says: only then).

`waiter` is the tokio task: `Spawn` starts it, `Answer` and `Abandon` (the timeout) end it. `left` is the
epoch deadline of a store, moved by `EpochTick`, which is the ticker thread. An epoch is looked at in the guest's own code
only: from `EnterHostCall` to `LeaveHostCall` the guest is in a function of WASI, where `EpochTrap` cannot come and which may last for ever
(`Calls` are the jobs whose guests make such calls). `Release` and `DropHost` are the
end of the run's `Arc`s and of the last one. `Refuse` ends a job before it executes. `run_from_oci` (`Direct`) pulls each time,
although its doc promises the cache, and has no waiter.

### How WorkerPool corresponds to the code

`pc` of a run: `begin` (`List` is `effective_workers`), `check` (one `CheckPasses` or `CheckFails` per
future of `join_all`), `write` (one `WriteHealth` per row), `jobs` (one `Resolve` or `ResolveAside` per
job). An index is turned into a list by `Turned`, as in scheduler.rs:852. The strategies look at
`wf.workers` while the list is of the healthy workers, as in the code: with `weighted` and
workers only from the registry or an SRV record the remainder is by zero and the driver
panics (`Panics`), and "receives 3x the traffic" holds where the healthy list is the file's list, which is
what `SharesAreExact` says, for a file that names no worker twice: of one that does, two entries share the turns. `least_conn` is any worker of the file that answers: the loads are not modelled.
A filter (`Kept`) is what it leaves: the elements at the positions that pass, in their order (`Ascending`). The `ORDER BY registered_at` of
`registered_worker_urls` is the order in which `registered` was appended to.

### How RegistryStore and OciRegistry correspond to the code

Every HTTP request is an action, and so are the two halves of `fs::write` and the SQL statement after it. A
command that fails anywhere ends there (`Fails`). `register` is two actions: it reads the clock (`Register`) and then waits for its statement
(`Save`). `file` are the files of all working directories, while the table is one: an entry's path is relative to the directory of its pull (`Cwd`), which the
table does not say and the history `dir` does. Two repositories with one last
segment share a file, and two writers may leave it `Torn`: `EntriesHaveFiles` says that the file of an
entry exists, not that it holds what the entry's digest names, which the code does not
ensure. `GetOtherManifest` is an answer with another manifest than was asked for: oci.rs:107-128 does
not compare it with a digest, and `misled` remembers. A reference with a tag and a digest is pulled by the tag, as in `fluxion-cli/src/registry.rs:12`. `resolve` is a function of
the library that no command calls; it is modelled and checked as it is (`ResolvesToLatest`).

### How NetworkAllow corresponds to the code

`phase` of a job: `resolve` (one action per entry: `PassThrough`, `CacheHit` or `Ask`), `asking` and `answered` (the await of
the lookup), `running` or `refused` (`build_wasi_ctx`). `cache` is `DNS_CACHE`; `Insert` stamps the time of the
insertion, however old the answer. `last` records when the DNS last gave each address, so that the
properties can say how old a permission may be. `Parsed` models `format!("{ip}:{p}")` and its
parsing by what it does to an IPv6 address that a lookup gave: it reads as another address, and then on any port, or as none (`Respelled`). An
address that stands in the list passes through as it was written, brackets and port included (`listed`), and reads as
it did there.

### How Watch corresponds to the code

`raw` is the std channel of notify's callback, `chan` the tokio channel of 100 (`Capacity`), `thread` the steps of
`run_watcher`, `main` the loop of `watch_and_run`. A save is two writes or one rename. The debounce timer may fire
whenever `lastChange` holds. `opens` chooses whether the platform reports a file that is opened: watch.rs:125 counts such events,
and where they come the loop's own reading starts the next run. What is read is a whole file or half of one; a whole file that is not a workflow
(watch.rs:83) ends like a run that fails at once.

### How RunHistory corresponds to the code

One action per SQL statement: `PruneJobs` and `PruneRuns` are the two of `prune`, with a cutoff computed once;
`GetRun` and `GetRunJobs` those of `status`, `logs` and the MCP tools; `LoadPath`, `LoadRun` and `GetRunJobs` those of a retry,
which loads the run twice; `ListRuns` and `GetRunJobs` a page of the UI, which asks for the jobs again and again. `driver` and
`left` are what the process of a run has written, which the tables may have lost.

## 3. Runs

| Run | Instance | Shows |
|---|---|---|
| `Diamond` | a -> {b, c} -> d, two permits, a run and up to two retries from any job, `b` is pulled and has a digest to check, least-connections | exact `in_flight`, retries redo and keep the right jobs (`KeptIsSound`), `RunContract` is implemented, runs and tasks end unless a pull or a question to a worker lasts for ever |
| `Shapes` | a -> f.0, f.1 -> j, the fan-in; a -> b if a FAILED -> c if b SKIPPED, b -> d; {c, d, j} -> e if c SUCCESS; a run and a retry from any job | dependencies first, the skip cascade leaves no job of a successful run behind, the fan-in gets the output of every child the run ran, what a condition decided agrees with the rows ever after |
| `RelaunchedJob` | a -> b, {a, b} -> c with conditions | expected violation of `SucceededIsFinal` |
| `Graphs3` | the 2197 graphs on three jobs with up to two dependencies each, repetitions and loops included | validation and sorting reject exactly the cyclic graphs, a retry's replay set is exact |
| `Daemons` | two daemons, two schedules (every 2 seconds; at seconds 1 and 3 and never again), four seconds, one fault | one firing per occurrence unless a run was late, no more claims lost than there were faults, due schedules with a further occurrence are claimed |
| `Failover` | a synchronous and an asynchronous job, two workers of which both or one were found, two faults | a second start only after a loss, honest results, failover to the end of the list, exact table, a counter off by leaks only, every dispatch returns |
| `Execution` | two hosts of different wasmtime versions over one directory with garbage in it; a pinned file that is rewritten and whose guest loops, with a pinned pull or a `run_from_oci`; guests that call WASI; LRU maps of one entry, one fault or kill | an instance is of what was read, artifacts are whole, cache failures only over foreign artifacts, pinned means checked, all executions end, those nobody waits for too, but those that stay in a host call |
| `Registry` | three commands, one of them in another directory, on two repositories with one last segment, two contents, one tag, two faults | manifests complete, pulls are what the manifest sent says, entries with files where they were saved, `resolve` finds the latest but for seconds and waits |
| `Watch` | three saves, a channel of one | no save is forgotten, the last is run, the thread ends, runs stop |
| `Network` | two jobs sharing a name with a port, one also naming an address of version 6 with a port; an IPv4 address and two IPv6 addresses, one of which reads as the other once the port is behind it and the other as none, one change of the DNS, four instants | grants only to what is named or to what that is misread as, by answers not too old; listed addresses are open; a job refused only over an address that reads as none |
| `Pool` | two workers; a run with both in its file with weights 2 and 1, and a run that finds one by SRV or asks the registry; three jobs each, one fault, two calls of register and remove | only a failed check excludes, exclusion lasts, lists are the healthy workers, shares are exact, one way to panic, runs get to their jobs |
| `History` | two runs of two jobs, one reader, prune again and again, clock up to 2 with an age limit of 1 | young runs kept, finished runs shown whole, orphans only of overlong runs |

Some of the properties are conjunctions of parts that have names and comments of their own, and that the text
of this file refers to:

| Property | Parts |
|---|---|
| `KeptIsSound` | `RetryReplaysDownstream`, `KeptRestsOnKept`, `KeptWorkIsNotRedone` |
| `RunReturns` | `RunEnds`, `EveryTaskEnds`, always `ResultsMatchRows` |
| `WorkerTellsTruth` | `GaugeOffByLeaks`, `TableTruth` |
| `CacheSound` | `InstanceOfWhatWasRead`, `ArtifactsWhole` |
| `ResolvesToSaved` | `EntriesHaveFiles`, `ResolvesToLatest` |
| `AllowHonoured` | `GrantsOnlyNamed`, `AddressesOpen`, `RefusedOnlyUnread` |
| `ListsAreDue` | `HandsOutTheHealthy`, `SharesAreExact`, `PanicsOnlyUnweighted` |

`TypeOK` is checked of `Scheduler`; in the other modules it says what the variables
hold. It is proved of every module with proofs, which rest on it; in most of them it says more than types: that
`indegree` and `ACTIVE_JOBS` of the worker, unsigned in the code, never fall below zero, that an LRU map holds a key once.

Deadlock is not checked: a run ends, and after the last attempt nothing is left
to do; the same holds of a sorted graph, of a dispatch, of a set of commands or executions, and of
what waits for a clock, a save or a fault that has reached its bound.

Bounds. `MaxAttempts` bounds the runs: three are needed for a retry of a retry,
which reads the rows a retry wrote. The
diamond is the smallest graph in which a dependent is reached from two
dependencies and has to be launched once. Two items are the smallest fan-out in
which one child's fate can differ from another's. In `Shapes` `b` is always skipped in the first run, and a retry from it runs it: then `c` and, below it, `e` are skipped. Two permits for more jobs than two let tasks overlap
and queue. Everything else (channel, tasks, counters) is bounded by
the number of jobs.

`Graphs3` has three nodes because a loop, a cycle through another, two paths that
meet and a repeated dependency all fit. In `Daemons` the clock's `Horizon` of four lets the
first schedule come up twice and a run of it last past its next occurrence, and the second run out of occurrences while it is due. One
fault leaves one of two daemons alive. In `Failover` two workers give one failover, two faults
let the second worker be lost too, and two jobs let an execution nobody waits
for share a worker with one that is waited for.

In `Execution` a cap of one makes any two contents evict each other; two executions at a time are every race
over one key, within one version or across two. Symmetry is used only in `Registry` and `History`, which check
invariants alone, and only over commands, runs and jobs that no definition tells apart. In `Registry` three commands are a push and two pulls, a pull, its
removal and one more, or three pulls of one tag, and the one elsewhere saves the same name in another directory; it is left out of the symmetry. Two faults
are a wrong manifest and a damaged blob for it. One clock tick gives entries of one second and of two, and a `Save` that is late by it. In `Watch` a channel of one fills with the second event of one save,
and three saves let one fall before, in and after a run. In `Network` a TTL of 1 and lookups of up to 1 let an answer expire, arrive late
and be replaced within four instants; one change of the DNS is an answer gone stale, and of the two addresses of version 6 each is
misread in one of the two ways there are. In `Pool` three jobs are one full turn of the weights. In `History` two runs
let one be old and one young for the same prune, and `Limit` of 1 hides one from the list.

Fairness. `Diamond`: `WF` of the driver's steps, a future that tokio polls when it is woken, but not of those that launch under
least-connections; `WF` of the semaphore, which is fair; and for each job that does not pull, `WF` of the end of its task, which
`timeout_secs` bounds (scheduler.rs:1118-1152). The pull and the question to the workers lie outside that limit and their clients have none, so
`RunReturns` is premised on no task pulling for ever and no launch asking for ever (`Pulling`, `Asking`). Store errors and crashes
are never owed, and the outcome of a task is never fixed. `Daemons`: each
daemon's own steps, its run apart; it is not owed a restart, nor the clock a tick, and that runs end is not assumed either: `DueIsServed` is premised on one daemon
that is again and again neither dead nor in a run. `Failover`: the dispatching task's steps, and that an
execution at a worker ends; a guest that computes is stopped by the component's deadline, one that stays in a host call is left to the deadlines of the
client, which are not owed, and neither are restarts of workers. `Execution`: some blocking thread that can go on does, and so does some
ticker; a guest that comes back from its host calls again and again to its own code sees the epoch there (`SF` of `EpochTrap`). No guest is owed to return,
no host call either, and no waiter to give up. `Pool`: each run's steps, a check being
limited to five seconds; no worker is owed to answer. `Watch`: the thread, the main loop, and that a begun save is finished; no
interrupt and no further save is owed. The main loop includes its runs, which are taken to end.

What the violation says about the code. `RelaunchedJob`: the visit loop (scheduler.rs:525) does not look at the dependent's own status. When `a` finishes
and `b` is skipped by its condition, the cascade from `b` launches `c`; then the
visit loop comes to `c`, also a dependent of `a`, and launches it again. Both executions complete; the first is recorded as succeeded, and
the failure of the second overwrites that, where `docs/data-model.md:92` has no arrow out of SUCCEEDED.

Other places where the code does not do what a comment or a doc says of it, modelled as the code is and
excepted where a property comes near them (the property is then named here):

- `fail_fast` is looked up in the expanded workflow (scheduler.rs:489), from which
  the foreach parent was removed: siblings of a failed child go on.
- A retry restores the status of kept jobs, not their outputs (scheduler.rs:743):
  the fan-in job is given `null` for each kept child. `FanInComplete` says that it gets all the others.
- On an early failure the task decrements `ACTIVE_JOBS` and the driver does so
  again (scheduler.rs:1114).
- The rows a retry takes over are written one at a time (scheduler.rs:354). A
  retry that dies in between leaves `b` recorded as succeeded and not its
  dependency `a`; the next retry runs `a` again and keeps `b`.
- Daemon A claims 2 and sets `next_run_at` to 4, its run lasts past 4; daemon B
  claims 4 and starts its run; A records and sets `next_run_at` back to 4, and 4
  is claimed and fired again (main.rs:1170). `OnceUnlessLate` excepts just that.
- The loop for jobs whose dependencies were all kept (scheduler.rs:399) launches without looking at `when:`. `workflow.rs:104`
  says that a job whose expression is false is skipped. `ConditionsSettled` holds of all the others.
- `fire_due_schedules` computes the occurrence after the one that is due before it claims (main.rs:1126). When there is none, the last
  occurrence is never fired and its row stays due, where `main.rs:213` says that the daemon fires due workflows. `DueIsServed` excepts it.
- A blocking task that panics makes `run_request_inner` (fluxion-worker/src/lib.rs:192) return before it lowers `ACTIVE_JOBS`,
  "Global counter of jobs currently executing on this worker" (lib.rs:22). `WorkerTellsTruth` counts these, and the dropped handlers, in `leaked`.
- `format!("{ip}:{p}")` (fluxion-host/src/lib.rs:566) of an IPv6 address and a port can be another IPv6 address, which is then allowed on any port:
  `1:2:3:4:5::8` with 443 becomes `1:2:3:4:5:0:8:443`. `workflow.rs:264` calls the list an "Allowlist of host:port strings". (`README.md:120`
  calls it IP-based, with no hostnames; names are looked up all the same.) `GrantsOnlyNamed` allows what `ReadAs` says and nothing else.
- The manifest a registry sends for a digest is not compared with it (oci.rs:107-128). `PulledIsNamed` excepts the commands in `misled`.
- A guest that waits in a WASI call is past every deadline until the call returns (fluxion-host/src/lib.rs:103). `ExecutionsEnd` excepts it.
- A pinned worker is contacted without the TLS settings of the workflow, which
  the comment at scheduler.rs:828 promises.

Properties hold only where stated: `GaugeOffByLeaks` (in `WorkerTellsTruth`) counts with the executions the counter was not lowered for: those of handlers of `POST /run` dropped
when their client went away, and of asynchronous tasks that panicked; `KeptRestsOnKept` (in `KeptIsSound`) after one retry, without
conditions and fan-outs; `FanInComplete` but for children a retry took over; `ConditionsSettled` for conditions on a dependency, and for jobs that wait for one the run itself settled
(scheduler.rs:399 launches the others without looking at `when:`, and so are roots); a condition on a job that is not a dependency is evaluated
of whatever status that job has then. `AtMostOnce`, `RowsAreFinal`, `DependenciesFirst`, `SuccessMeansSettled`, `ConditionsSettled`
and `ImplementsContract` hold where no two jobs meet under a skip (`MetOnce`, section 4); `PinnedUnlessMoved` unless the file is written between its two reads;
`GrantsOnlyNamed` (in `AllowHonoured`) but for the addresses a recent IPv6 answer is misread as; `PulledIsNamed` says of a wrong manifest only that what was pulled is its
layer; `ResolvesToLatest` but for entries of one second and for one whose clock was read before the found entry was saved; `DueIsServed` of schedules with a further occurrence;
`ExecutionsEnd` but for guests in a host call for ever; `RunsStop` where opening a
file is no event; `LastSaveIsRun` where runs end; `ViewsWhole` of runs that `prune` would still spare. `ExcludedAfterFailure` and `ExclusionLasts` do not say which of two verdicts on a worker
should be the last, and with the weights of a file beyond 2^32 in sum scheduler.rs:858 overflows where `Total` does not.

## 4. Proofs

TLAPS checks the following for every value of the constants. `ResultsMatchRows` (a part of `RunReturns`), `KeptWorkIsNotRedone` and `RetryReplaysDownstream` (parts of `KeptIsSound`), `AtMostOnce`, `Topological`,
`RewoundOnlyLate` and the `TypeOK` of all modules but `Scheduler` are stated by theorems and by no run; so is `RowsAreFinal`, which
`Diamond` checks as a consequence of `ImplementsContract`,
since no step of `RunContract` but `Reopen` changes a final row. The first table is about
`Scheduler`: every workflow, every number of permits and of attempts. Each part of `SchedulerProofs` strengthens the
invariant of the one before.

| Theorem | States | Inductive invariant |
|---|---|---|
| `SchedulerProofs!TypeCorrect` | `Spec => []TypeOK` | `TypeOK` itself |
| `SchedulerProofs!InFlightExact` | `Spec => []InFlightAccounting` | `AccountingInv` |
| `SchedulerProofs!LaunchedOnce` | `MetOnce`: `Spec => []AtMostOnce` | `AccountingInv /\ OnceInv` |
| `SchedulerProofs!DependenciesRecorded` | `MetOnce`: `Spec => []DependenciesFirst` | the same |
| `SchedulerProofs!KeptWorkStays` | `MetOnce`: `Spec => []KeptWorkIsNotRedone` | the same |
| `SchedulerProofs!RowsFinal` | `MetOnce`: `Spec => RowsAreFinal` | the same |
| `SchedulerProofs!FanInsComplete` | `MetOnce`, no child of a fan-in in `MaySkip`: `Spec => []FanInComplete` | `AccountingInv /\ OnceInv /\ GivenInv` |
| `SchedulerProofs!ResultsAgree` | `MetOnce`: `Spec => []ResultsMatchRows` | `AccountingInv /\ OnceInv /\ GivenInv` |
| `SchedulerProofs!RetryReplays` | `NoFanOuts`: `Spec => []RetryReplaysDownstream` | `TypeOK /\ PlanInv` |
| `SchedulerProofs!RetryKeepsSoundly` | `NoConditions`, `NoFanOuts`: `Spec => []KeptIsSound` | `AccountingInv /\ OnceInv /\ PlanInv /\ KeptRestsOnKept` |
| `SchedulerProofs!SuccessSettles` | `MetOnce`: `Spec => []SuccessMeansSettled` | `AccountingInv /\ OnceInv /\ SettleInv` |
| `SchedulerProofs!ContractImplemented` | `MetOnce`: `Spec => ImplementsContract` | the same |
| `SchedulerProofs!ConditionsHonoured` | `MetOnce`: `Spec => []ConditionsSettled` | `AccountingInv /\ OnceInv /\ ConditionsSettled` |

The argument:

- `AccountingInv` adds to the count that a task is in one place at a time and that
  its launch has happened (`TasksInv`): then a new launch makes a new task, and the
  cardinalities move with `in_flight`. `StepKinds` sorts all steps into seven kinds
  as far as tasks are concerned, so the count is looked at seven times and not
  thirty.
- `JobMoves` sorts all steps again, by what they do to jobs: start, skip, take over or settle one, leave all alone, or
  retry. What the invariant below says of a job is looked at once for each of these and not for each action (`MovesOf`).
- `OnceInv` says what the status of a job tells about it: pending means not launched; running means that one task or one
  event of this run stands for it, and exactly one (`TokensInv`); a job that was launched or skipped has dependencies all of
  which have succeeded or were skipped (`StatusInv`), and since neither status is ever left, they stay so. Of each loop it
  says what is still to be done (`LoopInv`).
- The hard loop is the visit of the dependents of `x`, the job whose event is being handled, with the skip cascade nested in
  it: the code looks at the status of a job in the cascade and not in the visit. Right after the event every dependent of
  `x` is pending, because `x` was running until now and nothing is launched over a running job. What the visit launches or
  skips leaves its list. What the cascade launches or skips lies below the dependent `d` it started from
  (`VisitInv`), and `d` may be skipped (`MaySkip`: it has a `when:` or lies below a job that has one). So the list stays pending
  if nothing below such a `d` is a dependent of `x` too. That is `MetOnce`, a condition on the graph and on where the
  `when:`s are, not on what they say.
- `GivenInv` says where outputs come from: `outputs` are those of the jobs that have succeeded in this run and
  were not taken over (`OutputsInv`), and so a fan-in job, launched when all its
  dependencies have succeeded or were skipped, was given the outputs of its children that succeeded in this run (`FanInInv`). Children that
  may not be skipped have all succeeded by then. In a retry those it took over are missing, and just those (scheduler.rs:743). `ResultsInv` says the same of `results`:
  those of the jobs with a final row, kept ones included, which `retry_inner` puts there from the parent's rows.
- What a retry keeps (`KeptIsSound`) is a matter of the replay set: without fan-outs the graph `retry_inner` walks is the
  one that runs, so the set is closed under dependents (`ReplayClosed`); a job that succeeded in the first run was launched over
  dependencies that succeeded, and none of them can be replayed if the job is not. With fan-outs this is not
  so: children are isolated names in the graph that is walked, a retry from a child replays nothing downstream of it, and a
  retry from a job upstream of a fan-out keeps the fan-out's children.
- `ConditionsHonoured` is about what conditions say. Where a loop evaluates one, the dependency it names has succeeded or was skipped (after a failure nothing is evaluated any more), and
  then `statuses` and the row agree on it (`RowsSayIt`). Who is launched or skipped has been evaluated, unless it is a root, is among the ready jobs of a retry, or is launched
  over nothing but such (`Evaluated`). After that the row stays: a final row is not written again, which is where `MetOnce` comes in.
- `SettleInv` says that the driver forgets nothing: a pending job all of whose dependencies
  have succeeded or were skipped is on the list of the loops under way, or a dependent of a job in the cascade's queue (`DueInv`); a
  running job will be heard of (`HeardInv`). When the loop ends with nothing in
  flight, nothing is running and the lists are empty; if some job were pending, acyclicity
  gives a pending one whose dependencies are not, which would be due and on an
  empty list.
- The refinement needs all three: a `Launch` is the contract's `Start` because its
  dependencies' rows are done and its own is absent, a `Receive` is a `Finish` because
  the row is running, `CompleteRun` is a `Close` because of `SettleInv`.

| Theorem | States | Inductive invariant |
|---|---|---|
| `GraphProofs!TypeCorrect` | `Spec => []TypeOK` | `Inv` |
| `GraphProofs!ValidateRight` | `Spec => []ValidateVerdict` | the same |
| `GraphProofs!BuildRight` | `Spec => []BuildVerdict` | the same |
| `GraphProofs!OrderRight` | `Spec => []Topological` | the same |
| `GraphProofs!ReplayRight` | `Spec => []ReplayExact` | the same |
| `DaemonProofs!FiredOnceUnlessLate` | `Spec => []OnceUnlessLate` | `Inv` |
| `DaemonProofs!RewoundOnlyByLateRuns` | `Spec => RewoundOnlyLate` | the same |
| `DaemonProofs!AFaultLosesOne` | `Spec => []OneLossAFault` | `Inv /\ LossInv` |

- `GraphProofs`: `indegree` is the number of positions in a job's `depends_on` whose job is not
  sorted yet, and the jobs at zero are those queued or sorted (`CountInv`). When the queue is
  empty, every job not sorted has a dependency not sorted: a cycle, if there are any. That
  the sorted part has none (`SortedAcyclic`) is carried along, one job at a time,
  which spares an induction over the order. The search keeps what it has visited and
  queued inside the downstream set, and the dependents of what it has visited inside the two.
  As for `has_cycle` (`VerdictInv`): the stack is a path of the graph without repetitions whose members are those in progress, what is finished
  depends only on what is finished and holds no cycle, so that an edge back into the stack closes one and a search
  that has finished all jobs found none. A cycle is a set of jobs each of which depends on one of the set, which spares
  the induction over paths here too.
  `BuildRight` discharges, for the graph a run sorts, the assumption `AcyclicAssumption` of the other proofs.
- `DaemonProofs`: as long as no run of a schedule was late, its row is past everything that was
  claimed or fired, a claim that a daemon holds is nobody else's, and the row is where
  that claim put it until the claim is recorded or its next occurrence has come (`HeldInv`); a second claim of the same
  occurrence would need a row that went back, and only a late record moves it back. What a
  daemon has read is a due row, so the time it computes lies beyond (`ReadInv`). `OneLossAFault` compares
  cardinalities: a claim puts one occurrence into the hands of one daemon, which drops it by firing it or by a fault, so `Lost` grows by one at most and only
  where `faults` does (`LossInv`, which adds that `Lost` is finite).

| Theorem | States | Inductive invariant |
|---|---|---|
| `StoreProofs!YoungSpared` | `Spec => []YoungRunsKept` | `IInv` (`HistoryInvariant`) |
| `StoreProofs!OrphansOverlong` | `Spec => []OrphansOnlyOverlong` | the same |
| `StoreProofs!ReadersSeeWhole` | `Spec => []ViewsWhole` | the same |

- `StoreProofs`: the three properties are not inductive, as they say nothing of a prune that is half done or
  of a reader between its two statements. `IInv` adds that the cutoff of a prune in progress is at least the age limit behind
  the clock, that a run younger than that still has its row, the one its driver wrote, with the time it began (`RowInv`), that job rows
  missing from a run are explained by its age (`HalfInv`), and that what a
  reader holds between its statements is an outcome of a run whose driver has ended, and writes no more (`ViewInv`). The second
  statement of prune deletes by the cutoff of the first, and by then every run it names has only grown older.

| Theorem | States | Inductive invariant |
|---|---|---|
| `DispatchProofs!TypeCorrect` | `Spec => []TypeOK` | `IInv` |
| `DispatchProofs!StartedAgainOnlyAfterLoss` | `Spec => []AgainOnlyAfterLoss` | the same |
| `DispatchProofs!ResultsHonest` | `Spec => []HonestResult` | the same |
| `DispatchProofs!TriesTheWholeList` | `Spec => []FailsOverWhileItCan` | the same |
| `DispatchProofs!WorkersErrByLeaks` | `Spec => []WorkerTellsTruth` | the same |
| `ExecutionProofs!TypeCorrect` | `Spec => []TypeOK` | `IInv` |
| `ExecutionProofs!CachesSound` | `Spec => []CacheSound` | the same |
| `ExecutionProofs!CacheFailsOnlyOverForeign` | `Spec => []FailsOnlyOverForeign` | the same |
| `ExecutionProofs!PinsHonoured` | `Spec => []PinnedUnlessMoved` | the same |
| `RegistryProofs!TypeCorrect` | `Spec => []TypeOK` | `IInv` |
| `RegistryProofs!NoManifestTooEarly` | `Spec => []ManifestsComplete` | the same |
| `RegistryProofs!PullsWhatTheManifestSays` | `Spec => []PulledIsNamed` | the same |
| `RegistryProofs!ResolvesToWhatWasSaved` | `Spec => []ResolvesToSaved` | the same |
| `NetworkProofs!CacheIsTruthful` | `Spec => []CacheTruthful` | `IInv` |
| `NetworkProofs!ListsAreHonoured` | `Spec => []AllowHonoured` | the same |

- `DispatchProofs`: an execution is named after its attempt, and an attempt posts once (`PostedInv`), so that a new execution is new to every worker.
  A dispatch that is about to send and has started before has met a loss (`ProgressInv`). What an
  answer or a table says of an execution is a verdict that execution came to (`SaidInv`). `ACTIVE_JOBS` is the
  number of the executions that go on and of those in `leaked` (`Counted`), of which the first and not the second will lower it (`CountInv`): a cardinality, moved by one
  with each action that starts an execution or ends it properly, and by none where a handler is dropped or a task panics.
- `ExecutionProofs`: `JobInv` follows one execution through its stages: what it has read, checked, and what it has in hand is
  a component of those bytes and of its host's version, taken from a map (`MapsInv`: a map holds under a key only
  what was compiled from it), loaded (`ArtifactsWhole`: a file under a key is whole and of that key, whoever wrote it)
  or compiled. An artifact of another version is there only if one was written (`ForeignInv`), which is all a failure can be blamed on.
- `RegistryProofs`: `CommandInv` says what a command holds at each step of its own: that the blobs it has pushed are there, since nothing takes a blob back; that
  the bytes it has verified are those of the manifest it was sent, which is the one it named unless it was misled; that the file it has written exists, since nothing removes
  one. `EntriesInv` says that the clock an entry carries is no earlier than that of any entry that was there when it was
  read, so that of two entries the later one is the newer unless its clock was read before the other was saved, and `CommandInv` says the same of a clock that is read and not yet saved.
- `NetworkProofs`: `last`, when an address was last one of a name's, is the present for those it has now (`LastInv`). A lookup under
  way holds an answer that was true when it began or later, and began at most `MaxLookup` ago (`LookupInv` in `JobInv`); inserted, it gives `CacheTruthful`.
  Each text a job collects is justified by an entry of its list and by an answer that was not older, when the job began,
  than what the property allows; that lists are `Justified` is carried along while the cache moves on. What `Entries` reads in them is then what was named, or what
  such an answer reads as (`MisreadFollows`); and an address of the list is among them from when its turn has come (`Passed`).

| Theorem | States | Inductive invariant |
|---|---|---|
| `StoreProofs!PoolTypeCorrect` | `PoolSpec => []PoolTypeOK` | `PoolInv` (`PoolInvariant`) |
| `StoreProofs!ExcludedHaveFailed` | `PoolSpec => []ExcludedAfterFailure` | the same |
| `StoreProofs!ExcludedStayExcluded` | `PoolSpec => ExclusionLasts` | the same |
| `StoreProofs!PanicsAreUnweighted` | `PoolSpec => []PanicsOnlyUnweighted` | `PoolInv /\ Chosen` (`ListsAreChosen`) |
| `StoreProofs!ListsHoldTheHealthy` | `PoolSpec => []HandsOutTheHealthy` | the same |
| `StoreProofs!TriesAreBounded` | a list has at least one worker and no more than the run has checked | the same |
| `StoreProofs!SharesComeOut` | `PoolSpec => []SharesAreExact` | the same |
| `StoreProofs!ListsComeOut` | `PoolSpec => []ListsAreDue` | the same |
| `DaemonProofs!WatchTypeCorrect` | `WatchSpec => []WatchTypeOK` | `WatchInv` |
| `DaemonProofs!SavesAreNotForgotten` | `WatchSpec => []SaveIsNotForgotten` | the same |
| `DaemonProofs!EventsDoNotMultiply` | `WatchSpec => [](OnTheWay <= 2 * saves)` | the same |

- `WorkerPool`: even its types are not inductive, since a verdict that is still out is no entry of the column. `Asked` says that a run has every verdict
  before it writes the first, that nothing is written before that, and that a verdict of `unreachable` is about a worker that has failed.
  With it a mark in the table, whoever writes it and however late, is the mark of one that has failed (`Blamed`). `Blamed` says so of
  workers without a row too, since a row can be removed and added again while a verdict is on its way.
- `Chosen` says where every list comes from: it is the list of the healthy workers turned round to some start, and of the `k`-th worker put first the
  start is known from `k` alone (`FirstOf`), because the counter of the strategy counts what it has put first. So the turns of the `i`-th
  worker of the file in one full turn are the numbers from `WeightTo(i - 1) + 1` to `WeightTo(i)`, and `WeightedIsExact` counts them. Turning a list round is
  a bijection of its positions (`TurnedCounts`, from `ModApart`: two numbers less than `n` apart leave different remainders), and so is what a
  filter does to the positions it keeps (`KeptCounts`), so that both leave every worker as often as it was there.
- What a recursive function computes (`WeightTo`) and what a filter leaves (`Ascending`) hold by induction over the length of a sequence. The library's
  induction theorems take an operator, which the provers cannot instantiate; `SetInduction` takes a set of numbers instead, and follows
  from `<` being well-founded on the naturals. The existence of the recursive function (`SumExists`) and of
  the ascending listing (`RisingExists`) are proved with it, since both are given by `CHOOSE`.
- `Watch`: `SaveIsNotForgotten` is inductive but for one thing: where the editor is between its two writes. `CountInv` adds up what is still to become a reading
  (events under way, one that was seen and not read, the second half of a save), which is never more than two for each save that has begun;
  this is how long the queue between the watcher and its thread can grow, which the code does not bound.

Assumptions used by the proofs about `Scheduler`: `WorkflowAssumption` (what `Workflow::validate` accepts),
`AcyclicAssumption` (`kahn_sort` found no cycle), `SchedulerAssumption`, and
where the table says so `MetOnce`: of two jobs that wait for the same one, neither lies below the other if the other may be
skipped. It holds of every workflow without `when:` (`NoConditionsMet`) and, as TLC evaluates it, of that of `Shapes`, with its three; it does not
hold of that of `RelaunchedJob`, a run that shows why it is needed. `NoConditions` (no job has a `when:`) is left to the one theorem that is false
otherwise: a job that ran after another was skipped is taken over by a retry, which does not take over skipped jobs. `NoFanOuts` is explained above.

The assumptions of the other modules say of what type their constants are. Those that say more: a
list of workers has at least one and at most `MaxTries` (with none a job runs locally and is no dispatch); the absence of a value is no
content, tag, digest, name or address; no name is an address; garbage in the artifact directory bears no version; a temporary file is one
job's own (`HostAssumption`); files have names that are strings (`RegistryAssumption`); `Image`, a manifest of somebody else's, is no component.

Only model-checked is liveness, which is out of the prover's reach (so are fairness and ENABLED): `RunReturns` but for its part `ResultsMatchRows`, `DueIsServed`, `DispatchEnds`,
`ExecutionsEnd`, `LastSaveIsRun`, `ThreadEnds`, `RunsStop`, `RunsGetWorkers`. Every invariant and every action property that
a passing run checks is also proved, under the conditions the tables name.

## 5. What is left

Every component that keeps state several actors change is modelled, and its safety properties are proved. What a later extension
would start from:

1. The hazards of retries and fan-outs that no property covers (scheduler.rs:489, 523, 743, 425 and 1114): they are modelled as the code is,
   and a property of each would state what the code should do once that is decided.
2. `MetOnce` is sufficient, not necessary: which graphs with conditions launch a job twice is known only for the instance of `RelaunchedJob`.
3. `least_conn` with its loads, as far as `Starts` leaves the choice open.
4. Wrong order of two verdicts on a worker (scheduler.rs:158) and the relative path of an entry of the local registry (registry.rs:25 of fluxion-cli), which the
   models allow and no property judges.

### Not modelled

- Dynamic foreach (`expand_foreach_dynamic`, `insert_nodes`, `remove_node`): nothing calls it.
- The worker's content-addressed store: no request reaches its routes, as said under `Dispatch`.
- Panics of the host's own code inside a scheduler's task (scheduler.rs:425), sums of weights in 32 bits (scheduler.rs:858), and the time limits of the system's resolver beyond `MaxLookup`.
- `health_check_all` of `worker_registry.rs`: nothing calls it.
- File system permissions, memory limits and everything else that wasmtime enforces.
- Credentials and tokens of the OCI client, the listing commands of the registry, the pages of the
  API that are one read of one table.
- The JSON-RPC loop of the MCP server, which answers one line at a time and keeps no state.
- The build helper and the WIT stubs, which run tools and generate text; guest components, which are outcomes here.
