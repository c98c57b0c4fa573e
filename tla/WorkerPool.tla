----------------------------- MODULE WorkerPool -----------------------------
(***************************************************************************)
(* Which workers a run may send its jobs to, and in which order:           *)
(* effective_workers, health_check_workers, resolve_workers and the three  *)
(* strategies of fluxion-host/scheduler.rs, over the `workers` table of    *)
(* fluxion-core/store.rs that `fluxion worker register` and `remove` and   *)
(* the health checks of all runs write to.                                 *)
(*                                                                         *)
(* A run checks its candidates once, when it begins, concurrently; it then *)
(* writes what it has seen to the table one row after another.  Runs are   *)
(* processes of their own, and nothing keeps their checks and writes       *)
(* apart.  The lists handed out here are the `Lists` of Dispatch.          *)
(***************************************************************************)
EXTENDS Naturals, Sequences, FiniteSets, SequencesExt

CONSTANTS
  Workers,
  Drivers,   \* runs under way, each a process of its own
  Static,    \* `workers:` of each run's workflow, in order: url and weight
  Srv,       \* the answers the query for its `workers_srv:` may get, if it has one
  Strategies, \* the load balancing strategies it may be given
  MaxJobs,   \* bound: jobs of a run
  MaxFaults, \* bound: deaths of workers and lost or late answers
  MaxAdmin   \* bound: calls of register and remove

ASSUME PoolAssumption ==
  /\ Static \in [Drivers -> Seq([url : Workers, weight : Nat])]
  /\ \A r \in Drivers : Srv[r] \subseteq Seq(Workers)
  /\ Strategies \in [Drivers -> SUBSET {"round_robin", "weighted", "least_conn"}]
  /\ MaxJobs \in Nat /\ MaxFaults \in Nat /\ MaxAdmin \in Nat

VARIABLES
  registered, \* the rows of `workers` in the order of registered_at
  health,     \* their column last_health
  up,         \* the workers that answer
  pc,         \* where each run is
  candidates, \* what it checks
  verdict,    \* what the checks have said so far
  written,    \* how many verdicts it has written
  strategy,   \* its strategy
  rr,         \* its counter for the strategies
  jobs,       \* how many jobs it has handed a list to
  list,       \* history: the last of the lists its strategy has made
  firsts,     \* history: the workers its strategy has put first
  failed,     \* history: the workers that have failed a check
  faults, admin

table == <<registered, health>>
used  == <<rr, jobs, list, firsts>>
run   == <<strategy, pc, candidates, verdict, written, used>>
poolVars  == <<table, up, run, failed, faults, admin>>

Health  == {"null", "healthy", "unreachable"}
Verdict == {"none", "healthy", "unreachable"}
Phase   == {"begin", "check", "write", "jobs", "panicked"}

Urls(r) == [i \in DOMAIN Static[r] |-> Static[r][i].url]

PoolInit ==
  /\ registered = <<>> /\ health = [w \in Workers |-> "null"]
  /\ up = Workers
  /\ strategy \in [Drivers -> UNION {Strategies[r] : r \in Drivers}]
  /\ \A r \in Drivers : strategy[r] \in Strategies[r]
  /\ pc = [r \in Drivers |-> "begin"]
  /\ candidates = [r \in Drivers |-> <<>>] /\ verdict = [r \in Drivers |-> <<>>]
  /\ written = [r \in Drivers |-> 0] /\ rr = [r \in Drivers |-> 0]
  /\ jobs = [r \in Drivers |-> 0]
  /\ list = [r \in Drivers |-> <<>>] /\ firsts = [r \in Drivers |-> <<>>]
  /\ failed = {} /\ faults = 0 /\ admin = 0

\* The numbers in I, the smallest first.
Ascending(I) ==
  CHOOSE p \in [1 .. Cardinality(I) -> I] : \A a, b \in DOMAIN p : a < b => p[a] < p[b]

\* What a filter leaves of a sequence: the elements at the positions I.
Kept(s, I) == [k \in 1 .. Cardinality(I) |-> s[Ascending(I)[k]]]

-----------------------------------------------------------------------------
(* The command line and the workers themselves                             *)

Registered(w) == Contains(registered, w)

\* Faulty variant: ON CONFLICT(url) DO UPDATE.
RegisterAnew(w) ==
  /\ admin < MaxAdmin /\ admin' = admin + 1
  /\ registered' = IF Registered(w) THEN registered ELSE Append(registered, w)
  /\ health' = [health EXCEPT ![w] = "null"]
  /\ UNCHANGED <<up, run, failed, faults>>

\* INSERT .. ON CONFLICT(url) DO NOTHING: a known worker keeps its health.
Register(w) ==
  /\ admin < MaxAdmin /\ admin' = admin + 1
  /\ IF Registered(w) THEN UNCHANGED table
     ELSE /\ registered' = Append(registered, w)
          /\ health' = [health EXCEPT ![w] = "null"]
  /\ UNCHANGED <<up, run, failed, faults>>

Deregister(w) ==
  /\ admin < MaxAdmin /\ admin' = admin + 1
  /\ Registered(w)
  /\ registered' = Kept(registered, {i \in DOMAIN registered : registered[i] # w})
  /\ UNCHANGED <<health, up, run, failed, faults>>

Fails(w) ==
  /\ faults < MaxFaults /\ faults' = faults + 1
  /\ w \in up /\ up' = up \ {w}
  /\ UNCHANGED <<table, run, failed, admin>>

Recovers(w) ==
  /\ w \notin up /\ up' = up \cup {w}
  /\ UNCHANGED <<table, run, failed, faults, admin>>

-----------------------------------------------------------------------------
(* effective_workers and health_check_workers                              *)

\* registered_worker_urls
RegisteredUrls ==
  Kept(registered, {i \in DOMAIN registered : health[registered[i]] \in {"null", "healthy"}})

\* resolve_srv_workers: nothing without a record, and nothing if the query fails.
SrvWorkers(r) == Srv[r] \cup {<<>>}

\* The registry is asked only if the workflow names no worker at all.
List(r) ==
  /\ pc[r] = "begin"
  /\ \E found \in SrvWorkers(r) :
       LET named == Urls(r) \o found
           urls  == IF named = <<>> THEN RegisteredUrls ELSE named
       IN /\ candidates' = [candidates EXCEPT ![r] = urls]
          /\ verdict' = [verdict EXCEPT ![r] = [i \in DOMAIN urls |-> "none"]]
  /\ pc' = [pc EXCEPT ![r] = "check"]
  /\ UNCHANGED <<table, up, written, strategy, used, failed, faults, admin>>

Unchecked(r, i) == pc[r] = "check" /\ i \in DOMAIN candidates[r] /\ verdict[r][i] = "none"

\* GET /health is answered.
CheckPasses(r, i) ==
  /\ Unchecked(r, i) /\ candidates[r][i] \in up
  /\ verdict' = [verdict EXCEPT ![r][i] = "healthy"]
  /\ UNCHANGED <<table, up, pc, candidates, written, strategy, used, failed, faults, admin>>

\* Faulty variant: no time limit, so that only who is up and late fails.
CheckFailsLate(r, i) ==
  /\ Unchecked(r, i) /\ candidates[r][i] \in up
  /\ faults < MaxFaults /\ faults' = faults + 1
  /\ verdict' = [verdict EXCEPT ![r][i] = "unreachable"]
  /\ failed' = failed \cup {candidates[r][i]}
  /\ UNCHANGED <<table, up, pc, candidates, written, strategy, used, admin>>

\* Nobody answers, or not within five seconds.
CheckFails(r, i) ==
  /\ Unchecked(r, i)
  /\ IF candidates[r][i] \in up THEN faults < MaxFaults /\ faults' = faults + 1
     ELSE UNCHANGED faults
  /\ verdict' = [verdict EXCEPT ![r][i] = "unreachable"]
  /\ failed' = failed \cup {candidates[r][i]}
  /\ UNCHANGED <<table, up, pc, candidates, written, strategy, used, admin>>

\* join_all has every result.
Checked(r) ==
  /\ pc[r] = "check" /\ \A i \in DOMAIN verdict[r] : verdict[r][i] # "none"
  /\ pc' = [pc EXCEPT ![r] = "write"]
  /\ UNCHANGED <<table, up, candidates, verdict, written, strategy, used, failed, faults, admin>>

\* Faulty variant: the verdicts of a list that was turned round on the way.
VerdictOfTurned(r, i) == verdict[r][Len(verdict[r]) + 1 - i]

VerdictOf(r, i) == verdict[r][i]

\* UPDATE workers .. WHERE url = ?: no row, no effect; an error is ignored.
WriteHealth(r) ==
  /\ pc[r] = "write" /\ written[r] < Len(candidates[r])
  /\ written' = [written EXCEPT ![r] = @ + 1]
  /\ LET w == candidates[r][written[r] + 1]
     IN \/ Registered(w) /\ health' = [health EXCEPT ![w] = VerdictOf(r, written'[r])]
        \/ UNCHANGED health
  /\ UNCHANGED <<registered, up, pc, candidates, verdict, strategy, used, failed, faults, admin>>

Listed(r) ==
  /\ pc[r] = "write" /\ written[r] = Len(candidates[r])
  /\ pc' = [pc EXCEPT ![r] = "jobs"]
  /\ UNCHANGED <<table, up, candidates, verdict, written, strategy, used, failed, faults, admin>>

\* What health_check_workers returned.
Healthy(r) ==
  Kept(candidates[r], {i \in DOMAIN candidates[r] : verdict[r][i] = "healthy"})

-----------------------------------------------------------------------------
(* resolve_workers                                                         *)

\* The weights of the first k static workers together.
WeightTo(r, k) ==
  LET sum[n \in 0 .. Len(Static[r])] ==
        IF n = 0 THEN 0 ELSE sum[n - 1] + Static[r][n].weight
  IN  sum[k]
Total(r) == WeightTo(r, Len(Static[r]))

\* Faulty variant: `slot <= acc`.
WeightedEarly(r) ==
  LET slot == rr[r] % Total(r)
  IN {i \in 0 .. Len(Static[r]) - 1 : slot <= WeightTo(r, i + 1) /\ (i = 0 \/ slot > WeightTo(r, i))}

\* pick_weighted over wf.workers, where the weights are not all zero.
Weighted(r) ==
  LET slot == rr[r] % Total(r)
  IN {i \in 0 .. Len(Static[r]) - 1 : WeightTo(r, i) <= slot /\ slot < WeightTo(r, i + 1)}

\* pick_least_conn asks each of wf.workers: the least busy that answers, or 0.
LeastConn(r) ==
  {0} \cup {i \in 0 .. Len(Static[r]) - 1 : Static[r][i + 1].url \in up}

\* What the strategy divides by; pick_weighted looks at wf.workers only.
Divisor(r) ==
  CASE strategy[r] = "round_robin" -> Len(Healthy(r))
    [] strategy[r] = "least_conn"  -> 1
    [] OTHER -> IF Total(r) = 0 THEN Len(Static[r]) ELSE Total(r)

\* The index the strategy may come to.
Starts(r) ==
  CASE strategy[r] = "least_conn" -> LeastConn(r)
    [] strategy[r] = "weighted" /\ Total(r) > 0 -> Weighted(r)
    [] OTHER -> {rr[r] % Divisor(r)}

Counts(r) == strategy[r] \in {"round_robin", "weighted"}

Given(r) == pc[r] = "jobs" /\ jobs[r] < MaxJobs

\* There are workers to choose from.
Remote(r) == Healthy(r) # <<>>

\* A job that runs here, as no worker is healthy, or whose `worker:` names the
\* only one it may go to, healthy or not.
ResolveAside(r) ==
  /\ Given(r)
  /\ jobs' = [jobs EXCEPT ![r] = @ + 1]
  /\ UNCHANGED <<table, up, strategy, pc, candidates, verdict, written, rr, list, firsts, failed, faults, admin>>

\* From the index on; the rest are there to fail over to.
Turned(l, start) == [i \in 1 .. Len(l) |-> l[((start + i - 1) % Len(l)) + 1]]

Resolve(r) ==
  /\ Given(r) /\ Remote(r) /\ Divisor(r) # 0
  /\ \E start \in Starts(r) :
       /\ list' = [list EXCEPT ![r] = Turned(Healthy(r), start)]
       /\ firsts' = [firsts EXCEPT ![r] = Append(@, Head(list'[r]))]
  /\ rr' = [rr EXCEPT ![r] = IF Counts(r) THEN @ + 1 ELSE @]
  /\ jobs' = [jobs EXCEPT ![r] = @ + 1]
  /\ UNCHANGED <<table, up, strategy, pc, candidates, verdict, written, failed, faults, admin>>

\* The remainder by zero: the driver panics.
Panics(r) ==
  /\ Given(r) /\ Remote(r) /\ Divisor(r) = 0
  /\ pc' = [pc EXCEPT ![r] = "panicked"]
  /\ UNCHANGED <<table, up, candidates, verdict, written, strategy, used, failed, faults, admin>>

-----------------------------------------------------------------------------

RunStep(r) ==
  \/ List(r) \/ Checked(r) \/ WriteHealth(r) \/ Listed(r)
  \/ \E i \in DOMAIN candidates[r] : CheckPasses(r, i) \/ CheckFails(r, i)
  \/ ResolveAside(r) \/ Resolve(r) \/ Panics(r)

PoolNext ==
  \/ \E r \in Drivers : RunStep(r)
  \/ \E w \in Workers : Register(w) \/ Deregister(w) \/ Fails(w) \/ Recovers(w)

\* A run is a future that is polled; its checks have a time limit.
PoolSpec == PoolInit /\ [][PoolNext]_poolVars
FairPoolSpec == PoolSpec /\ \A r \in Drivers : WF_poolVars(RunStep(r))

-----------------------------------------------------------------------------
(* Properties                                                              *)

\* The type invariant.
PoolTypeOK ==
  /\ registered \in Seq(Workers) /\ IsInjective(registered)
  /\ health \in [Workers -> Health]
  /\ up \subseteq Workers /\ failed \subseteq Workers
  /\ pc \in [Drivers -> Phase]
  /\ candidates \in [Drivers -> Seq(Workers)] /\ verdict \in [Drivers -> Seq(Verdict)]
  /\ written \in [Drivers -> Nat] /\ rr \in [Drivers -> Nat] /\ jobs \in [Drivers -> 0 .. MaxJobs]
  /\ list \in [Drivers -> Seq(Workers)] /\ firsts \in [Drivers -> Seq(Workers)]
  /\ \A r \in Drivers :
       /\ strategy[r] \in Strategies[r]
       /\ Len(verdict[r]) = Len(candidates[r]) /\ written[r] <= Len(candidates[r])
       /\ rr[r] <= jobs[r]
  /\ faults \in 0 .. MaxFaults /\ admin \in 0 .. MaxAdmin

(***************************************************************************)
(* A worker is excluded only because it failed a check, whichever runs     *)
(* checked it and in whatever order their updates reach the table.         *)
(***************************************************************************)
ExcludedAfterFailure ==
  \A w \in Workers : Registered(w) /\ health[w] = "unreachable" => w \in failed

Named(r, w) == Contains(Urls(r), w) \/ \E found \in Srv[r] : Contains(found, w)

\* The run may still write to w's row.
Awaited(r, w) ==
  \/ pc[r] = "begin" /\ Named(r, w)
  \/ pc[r] \in {"check", "write"}
       /\ \E i \in written[r] + 1 .. Len(candidates[r]) : candidates[r][i] = w

Stuck(w) ==
  Registered(w) /\ health[w] = "unreachable" /\ \A r \in Drivers : ~Awaited(r, w)

(***************************************************************************)
(* Only workers "not marked unreachable" are candidates and only           *)
(* candidates are checked: once marked, a worker that no run is checking   *)
(* and no workflow names stays out of use however long it has been well    *)
(* again; registering it again does not help, removing it first does.      *)
(***************************************************************************)
ExclusionLasts == [][\A w \in Workers : Stuck(w) /\ Registered(w)' => Stuck(w)']_poolVars

(***************************************************************************)
(* A list made for a job holds the workers that passed this run's check,   *)
(* each as often as it was named, and no other: as many tries to fail over *)
(* to as there are, and never more than Dispatch allows for.               *)
(***************************************************************************)
HandsOutTheHealthy ==
  \A r \in Drivers : list[r] # <<>> =>
    \A w \in Workers :
      Cardinality({i \in DOMAIN list[r] : list[r][i] = w}) =
        Cardinality({i \in DOMAIN candidates[r] : candidates[r][i] = w /\ verdict[r][i] = "healthy"})

\* How often w was put first.
TimesFirst(r, w) == Cardinality({k \in DOMAIN firsts[r] : firsts[r][k] = w})

(***************************************************************************)
(* "Picks the worker index proportionally to its weight": if the healthy   *)
(* workers are those of the file, no two of them the same, each has been   *)
(* put first as often as its weight says after a full turn.  Round robin   *)
(* is the same with equal weights, whatever its workers.                   *)
(***************************************************************************)
SharesAreExact ==
  \A r \in Drivers :
    /\ strategy[r] = "weighted" /\ Healthy(r) = Urls(r) /\ IsInjective(Urls(r))
         /\ Total(r) > 0 /\ Len(firsts[r]) = Total(r)
       => \A i \in DOMAIN Static[r] : TimesFirst(r, Static[r][i].url) = Static[r][i].weight
    /\ strategy[r] = "round_robin" /\ IsInjective(Healthy(r))
         /\ Len(firsts[r]) = Len(Healthy(r))
       => \A w \in Workers : Contains(Healthy(r), w) => TimesFirst(r, w) = 1

(***************************************************************************)
(* Choosing a worker brings the driver down in one case only: the weighted *)
(* strategy, with healthy workers none of which is from the file.          *)
(***************************************************************************)
PanicsOnlyUnweighted ==
  \A r \in Drivers : pc[r] = "panicked" =>
    strategy[r] = "weighted" /\ Static[r] = <<>> /\ Healthy(r) # <<>>

(***************************************************************************)
(* Every run gets to its jobs, whether its workers answer or not and       *)
(* whatever becomes of them while they are checked.                        *)
(***************************************************************************)
RunsGetWorkers == \A r \in Drivers : <>(pc[r] \in {"jobs", "panicked"})

(***************************************************************************)
(* The lists handed out are complete, and so turned that each worker comes *)
(* first as often as it is due; choosing fails a run in one case only.     *)
(***************************************************************************)
ListsAreDue == HandsOutTheHealthy /\ SharesAreExact /\ PanicsOnlyUnweighted
=============================================================================
