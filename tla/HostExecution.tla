--------------------------- MODULE HostExecution ----------------------------
(***************************************************************************)
(* The execution of components in this process: what launch does with a    *)
(* local job once it has a permit (scheduler.rs), run_component_measured,  *)
(* run_component_with_key and run_from_oci (lib.rs), over the caches of    *)
(* ComponentCache, and the thread that advances the engine's epoch.        *)
(*                                                                         *)
(* A job's tokio task waits for a blocking thread, no longer than          *)
(* timeout_secs; the thread itself goes on until the guest returns or the  *)
(* epoch deadline traps it, which it can in the guest's own code only, not *)
(* while a WASI call of the host keeps it.                                 *)
(***************************************************************************)
EXTENDS ComponentCache

CONSTANTS
  Paths,       \* component files
  Temporary,   \* those that launch makes for a pulled component
  PathOf,      \* the file of each job that launch executes
  Direct,      \* executions by run_from_oci, which needs no file
  Pin,         \* component_sha256, for the jobs that have one
  Spin,        \* jobs whose guest never returns by itself
  Calls,       \* jobs whose guest calls WASI functions of the host
  Deadline,    \* timeout_secs, in ticks of the epoch
  Together,    \* bound: the sets of jobs that are executed together
  MaxRewrites  \* bound: how often somebody writes a component file

ASSUME HostAssumption ==
  /\ Temporary \subseteq Paths
  /\ Direct \subseteq Jobs
  /\ PathOf \in [Jobs \ Direct -> Paths]
  /\ \A j, k \in Jobs \ Direct : PathOf[j] \in Temporary /\ PathOf[k] = PathOf[j] => k = j
  /\ DOMAIN Pin \subseteq Jobs \ Direct /\ \A j \in DOMAIN Pin : Pin[j] \in Contents
  /\ Spin \subseteq Jobs /\ Calls \subseteq Jobs /\ Together \subseteq SUBSET Jobs
  /\ Deadline \in Nat /\ MaxRewrites \in Nat

VARIABLES
  file,      \* what each component file contains
  rewrites,  \* history: how often a file was written by somebody else
  moved,     \* history: jobs whose file was written between digest check and read
  left,      \* ticks until the deadline of each execution
  waiter,    \* the tokio task of each job
  released,  \* hosts which the scheduler holds no more
  ticking    \* hosts whose ticker thread runs

hostVars == <<file, rewrites, moved, left, waiter, released, ticking>>
vars     == <<cacheVars, hostVars>>

Pulled(j) == j \in Jobs \ Direct /\ PathOf[j] \in Temporary

\* The blocking closure, which holds an Arc of the host, is alive.
InClosure(j) == stage[j] \notin {"new", "ended"}

Init ==
  /\ \E present \in Together : CacheInit(present)
  /\ file \in {f \in [Paths -> Contents \cup {"none"}] :
                 \A p \in Paths : f[p] = "none" <=> p \in Temporary}
  /\ rewrites = 0 /\ moved = {}
  /\ left = [j \in Jobs |-> Deadline]
  /\ waiter = [j \in Jobs |-> "none"]
  /\ released = {} /\ ticking = Hosts

\* Somebody builds the component again.
Rewrite(p, c) ==
  /\ p \notin Temporary /\ file[p] # c
  /\ rewrites < MaxRewrites /\ rewrites' = rewrites + 1
  /\ file' = [file EXCEPT ![p] = c]
  /\ moved' = moved \cup {j \in Jobs \ Direct : PathOf[j] = p /\ stage[j] \in {"blocking", "read"}}
  /\ UNCHANGED <<cacheVars, left, waiter, released, ticking>>

-----------------------------------------------------------------------------
(* launch, from the permit to spawn_blocking                               *)

\* oci::pull, and the temporary file its bytes are written to.
Pull(j, c) ==
  /\ stage[j] = "new" /\ Pulled(j) /\ file[PathOf[j]] = "none"
  /\ HostOf[j] \notin released
  /\ file' = [file EXCEPT ![PathOf[j]] = c]
  /\ UNCHANGED <<cacheVars, rewrites, moved, left, waiter, released, ticking>>

\* Faulty variant: a pulled component is not verified.
DigestMatchesUnlessPulled(j) == j \in DOMAIN Pin /\ ~Pulled(j) => file[PathOf[j]] = Pin[j]

\* verify_component_digest
DigestMatches(j) == j \in DOMAIN Pin => file[PathOf[j]] = Pin[j]

Spawn(j) ==
  /\ stage[j] = "new" /\ j \notin Direct /\ file[PathOf[j]] # "none"
  /\ HostOf[j] \notin released
  /\ DigestMatches(j)
  /\ Goto(j, "blocking")
  /\ waiter' = [waiter EXCEPT ![j] = "waiting"]
  /\ UNCHANGED <<disk, mem, pre, bytes, comp, result, faults, foreign,
                 file, rewrites, moved, left, released, ticking>>

\* The digest is another, or the pull failed.
Refuse(j) ==
  /\ stage[j] = "new" /\ j \notin Direct
  /\ HostOf[j] \notin released
  /\ file[PathOf[j]] = "none" \/ ~DigestMatches(j)
  /\ End(j, "refused")
  /\ UNCHANGED <<disk, mem, pre, bytes, comp, faults, foreign, hostVars>>

\* run_component_measured: the WASI context, the limits, the epoch deadline.
RunComponentMeasured(j) ==
  /\ stage[j] = "blocking"
  /\ Goto(j, "read")
  /\ left' = [left EXCEPT ![j] = Deadline]
  /\ UNCHANGED <<disk, mem, pre, bytes, comp, result, faults, foreign,
                 file, rewrites, moved, waiter, released, ticking>>

\* run_component_measured: fs::read, of the file as it is by now.
ReadComponent(j) ==
  /\ stage[j] = "read"
  /\ bytes' = [bytes EXCEPT ![j] = file[PathOf[j]]]
  /\ Goto(j, "mem")
  /\ UNCHANGED <<disk, mem, pre, comp, result, faults, foreign, hostVars>>

\* run_from_oci and run_component_with_key: the bytes it pulled, no file, no waiter.
RunFromOci(j, c) ==
  /\ stage[j] = "new" /\ j \in Direct
  /\ HostOf[j] \notin released
  /\ bytes' = [bytes EXCEPT ![j] = c]
  /\ left' = [left EXCEPT ![j] = Deadline]
  /\ Goto(j, "mem")
  /\ UNCHANGED <<disk, mem, pre, comp, result, faults, foreign,
                 file, rewrites, moved, waiter, released, ticking>>

-----------------------------------------------------------------------------
(* The guest                                                               *)

\* pre.instantiate, within memory_mb or not.
Instantiate(j) ==
  /\ stage[j] = "instantiate"
  /\ \/ Goto(j, "run") /\ UNCHANGED result
     \/ End(j, "out_of_memory")
  /\ UNCHANGED <<disk, mem, pre, bytes, comp, faults, foreign, hostVars>>

\* call_process returns, with an output or an error of the component, or traps.
GuestEnds(j, r) ==
  /\ stage[j] = "run" /\ j \notin Spin
  /\ End(j, r)
  /\ UNCHANGED <<disk, mem, pre, bytes, comp, faults, foreign, hostVars>>

\* The guest calls a WASI function, which may wait: for a socket, a file, a clock.
EnterHostCall(j) ==
  /\ stage[j] = "run" /\ j \in Calls
  /\ Goto(j, "hostcall")
  /\ UNCHANGED <<disk, mem, pre, bytes, comp, result, faults, foreign, hostVars>>

\* If ever it returns: Handle::block_on has no deadline of its own.
LeaveHostCall(j) ==
  /\ stage[j] = "hostcall"
  /\ Goto(j, "run")
  /\ UNCHANGED <<disk, mem, pre, bytes, comp, result, faults, foreign, hostVars>>

\* Trap::Interrupt, at the guest's next loop or call in its own code.
EpochTrap(j) ==
  /\ stage[j] = "run" /\ left[j] = 0
  /\ End(j, "timeout")
  /\ UNCHANGED <<disk, mem, pre, bytes, comp, faults, foreign, hostVars>>

\* increment_epoch reaches every store of the engine, in its guest or not yet.
EpochTick(h) ==
  /\ h \in ticking
  /\ left' = [j \in Jobs |-> IF HostOf[j] = h /\ InClosure(j) /\ left[j] > 0
                             THEN left[j] - 1 ELSE left[j]]
  /\ UNCHANGED <<cacheVars, file, rewrites, moved, waiter, released, ticking>>

-----------------------------------------------------------------------------
(* The tokio task, and the end of the host                                 *)

\* The outcome of the closure reaches the task.
Answer(j) ==
  /\ waiter[j] = "waiting" /\ stage[j] = "ended"
  /\ waiter' = [waiter EXCEPT ![j] = "gone"]
  /\ UNCHANGED <<cacheVars, file, rewrites, moved, left, released, ticking>>

\* tokio::time::timeout: the task fails the job and gives back its permit.
Abandon(j) ==
  /\ waiter[j] = "waiting" /\ InClosure(j)
  /\ waiter' = [waiter EXCEPT ![j] = "gone"]
  /\ UNCHANGED <<cacheVars, file, rewrites, moved, left, released, ticking>>

\* The run is over; the scheduler and its tasks drop their Arcs of the host.
Release(h) ==
  /\ h \notin released
  /\ \A j \in Jobs : HostOf[j] = h => waiter[j] # "waiting" /\ (j \in Direct => ~InClosure(j))
  /\ released' = released \cup {h}
  /\ UNCHANGED <<cacheVars, file, rewrites, moved, left, waiter, ticking>>

\* Faulty variant: the closure does not keep the host.
DropHostAtOnce(h) ==
  /\ h \in released
  /\ ticking' = ticking \ {h}
  /\ UNCHANGED <<cacheVars, file, rewrites, moved, left, waiter, released>>

\* Drop for FluxionHost, with the last Arc: the ticker stops.
DropHost(h) ==
  /\ h \in released /\ \A j \in Jobs : HostOf[j] = h => ~InClosure(j)
  /\ ticking' = ticking \ {h}
  /\ UNCHANGED <<cacheVars, file, rewrites, moved, left, waiter, released>>

\* The process is killed, between any two steps of its executions.
Killed(h) ==
  /\ h \in ticking
  /\ faults < MaxFaults /\ faults' = faults + 1
  /\ stage'  = [j \in Jobs |-> IF HostOf[j] = h THEN "ended" ELSE stage[j]]
  /\ result' = [j \in Jobs |-> IF HostOf[j] = h /\ stage[j] # "ended" THEN "killed" ELSE result[j]]
  /\ waiter' = [j \in Jobs |-> IF HostOf[j] = h THEN "none" ELSE waiter[j]]
  /\ released' = released \cup {h} /\ ticking' = ticking \ {h}
  /\ UNCHANGED <<disk, mem, pre, bytes, comp, foreign, file, rewrites, moved, left>>

-----------------------------------------------------------------------------

Outcomes == {"ok", "component_error", "trap"}

\* What a blocking thread does next.
ThreadStep(j) ==
  \/ RunComponentMeasured(j) \/ ReadComponent(j) \/ Instantiate(j) \/ EpochTrap(j)
  \/ (CacheStep(j) /\ UNCHANGED hostVars)
  \/ \E r \in Outcomes : GuestEnds(j, r)

Next ==
  \/ \E j \in Jobs : EnterHostCall(j) \/ LeaveHostCall(j)
  \/ \E p \in Paths, c \in Contents : Rewrite(p, c)
  \/ \E j \in Jobs : \/ Spawn(j) \/ Refuse(j) \/ Answer(j) \/ Abandon(j) \/ ThreadStep(j)
                     \/ (PersistFails(j) /\ UNCHANGED hostVars)
                     \/ \E c \in Contents : Pull(j, c) \/ RunFromOci(j, c)
  \/ \E h \in Hosts : EpochTick(h) \/ Release(h) \/ DropHost(h) \/ Killed(h)

(***************************************************************************)
(* The blocking threads are scheduled, and so are the tickers: some thread *)
(* that can go on does, which is less than each of them is owed.  A guest  *)
(* that is in its own code again and again comes to a loop or a call there *)
(* and sees the epoch.  That a host call returns is not owed, and neither  *)
(* that a job starts, a waiter gives up or a host is released.             *)
(***************************************************************************)
Fairness ==
  /\ WF_vars(\E j \in Jobs : ThreadStep(j))
  /\ SF_vars(\E j \in Jobs : EpochTrap(j))
  /\ WF_vars(\E h \in Hosts : EpochTick(h))

Spec == Init /\ [][Next]_vars
FairSpec == Spec /\ Fairness

-----------------------------------------------------------------------------
(* Properties                                                              *)

Result == Outcomes \cup {"none", "not_started", "not_a_component", "io_error", "cache_error",
                         "refused", "out_of_memory", "timeout", "killed"}

\* The type invariant.
TypeOK ==
  /\ disk \in [Contents -> Artifact \cup {Absent}]
  /\ DOMAIN mem = Hosts /\ DOMAIN pre = Hosts
  /\ \A h \in Hosts : LruOK(mem[h]) /\ LruOK(pre[h])
  /\ stage \in [Jobs -> CacheStage \cup {"new", "blocking", "read", "instantiate", "run", "hostcall", "ended"}]
  /\ bytes \in [Jobs -> Contents \cup {"none"}]
  /\ comp \in [Jobs -> Artifact \cup {Absent}]
  /\ result \in [Jobs -> Result] /\ \A j \in Jobs : result[j] # "none" <=> stage[j] = "ended"
  /\ faults \in 0 .. MaxFaults /\ foreign \subseteq Contents
  /\ file \in [Paths -> Contents \cup {"none"}]
  /\ rewrites \in 0 .. MaxRewrites /\ moved \subseteq Jobs
  /\ left \in [Jobs -> 0 .. Deadline]
  /\ waiter \in [Jobs -> {"none", "waiting", "gone"}]
  /\ released \subseteq Hosts /\ ticking \subseteq Hosts

(***************************************************************************)
(* A job with a component_sha256 executes that component: the file is read *)
(* once to check it and once more to run it, so this holds unless somebody *)
(* wrote it in between (scheduler.rs:1099, lib.rs:365).                    *)
(***************************************************************************)
PinnedUnlessMoved ==
  \A j \in DOMAIN Pin : stage[j] = "run" /\ j \notin moved => comp[j].of = Pin[j]

(***************************************************************************)
(* An execution ends, whether anybody waits for it or not, unless a host   *)
(* call keeps its guest for ever: a guest that loops is stopped by the     *)
(* epoch, even when its job was given up long ago and the run is over, for *)
(* the ticker goes on as long as it is needed; and nobody's stuck call     *)
(* keeps another job's guest.                                              *)
(***************************************************************************)
ExecutionsEnd ==
  \A j \in Jobs : []<>~InClosure(j) \/ <>[](stage[j] = "hostcall")
=============================================================================
