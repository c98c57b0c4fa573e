------------------------------ MODULE Workflow ------------------------------
(***************************************************************************)
(* The static shape of a workflow: the YAML jobs, the jobs the scheduler   *)
(* runs once `foreach:` fan-outs are expanded, and the dependency graph    *)
(* between them (fluxion-core: workflow.rs, expand.rs, dag.rs).            *)
(*                                                                         *)
(* A job of the expanded workflow is a tuple: <<y>> is the YAML job y kept *)
(* as it is, <<y, i>> is the child "y.i" of the fan-out y.                 *)
(***************************************************************************)
EXTENDS Naturals

CONSTANTS
  YamlJobs,   \* the job ids written in the workflow file
  Foreach,    \* the YAML jobs with a static `foreach:`
  Items,      \* number of elements of each fan-out's input array
  DependsOn,  \* `depends_on:` of each YAML job, without repetitions
  InputFrom,  \* `input_from:` of the YAML jobs that have one (partial function)
  When,       \* `when:` of the YAML jobs that have one (partial function)
  FailFast    \* the YAML jobs declared with `fail_fast: true`

StatusNames == {"SUCCESS", "FAILED", "SKIPPED"}

Plain(y) == <<y>>

Children(g) == {<<g, i>> : i \in 0 .. Items[g] - 1}

\* Every name a job may be called by: what --from accepts, what `when:` tests.
JobNames == {Plain(y) : y \in YamlJobs} \cup UNION {Children(g) : g \in Foreach}

(***************************************************************************)
(* What Workflow::validate accepts: dependencies exist, input_from names a *)
(* foreach job.                                                            *)
(***************************************************************************)
WellFormed ==
  /\ Foreach \subseteq YamlJobs
  /\ Items \in [Foreach -> Nat]
  /\ DependsOn \in [YamlJobs -> SUBSET YamlJobs]
  /\ DOMAIN InputFrom \subseteq YamlJobs
  /\ \A y \in DOMAIN InputFrom : InputFrom[y] \in Foreach
  /\ DOMAIN When \subseteq YamlJobs
  /\ \A y \in DOMAIN When :
       When[y] \in [on : JobNames, equal : BOOLEAN, value : StatusNames]
  /\ FailFast \subseteq YamlJobs

ASSUME WorkflowAssumption == WellFormed

-----------------------------------------------------------------------------
(* expand_foreach                                                          *)

Jobs == {Plain(y) : y \in YamlJobs \ Foreach} \cup UNION {Children(g) : g \in Foreach}

\* A reference to a former foreach job becomes a reference to all its children.
Expansion(y) == IF y \in Foreach THEN Children(y) ELSE {Plain(y)}

IsChild(j) == j[1] \in Foreach

\* Children are built with `input_from: None` and `when: None`.
IsFanIn(j) == ~IsChild(j) /\ j[1] \in DOMAIN InputFrom
Sources(j) == IF IsFanIn(j) THEN Children(InputFrom[j[1]]) ELSE {}

HasWhen(j) == ~IsChild(j) /\ j[1] \in DOMAIN When

\* execute looks a failed child's parent up in the EXPANDED workflow.
FailFastSeen(g) == Plain(g) \in Jobs /\ g \in FailFast

-----------------------------------------------------------------------------
(* Dag::build on the expanded workflow                                     *)

Deps == [j \in Jobs |-> (UNION {Expansion(y) : y \in DependsOn[j[1]]}) \cup Sources(j)]

Dependents(j) == {k \in Jobs : j \in Deps[k]}

Roots == {j \in Jobs : Deps[j] = {}}

(***************************************************************************)
(* Dag::build has succeeded, that is kahn_sort found no cycle: every       *)
(* non-empty set of jobs has a member that waits for no other member.      *)
(***************************************************************************)
Acyclic == \A S \in SUBSET Jobs : S # {} => \E j \in S : Deps[j] \cap S = {}

ASSUME AcyclicAssumption == Acyclic

-----------------------------------------------------------------------------
(* downstream_inclusive, on the graph retry_inner builds: the one of the   *)
(* workflow BEFORE expansion, so children are isolated names there and an  *)
(* `input_from:` alone is no edge.                                         *)

ClosedDownstream(S) ==
  \A y, k \in YamlJobs : Plain(y) \in S /\ y \in DependsOn[k] => Plain(k) \in S

\* Faulty variant: the dependents of the job are not replayed.
ReplayOnly(from) == {from}

ReplaySet(from) ==
  {n \in JobNames : \A S \in SUBSET JobNames : from \in S /\ ClosedDownstream(S) => n \in S}

\* What "from_job and all downstream dependents" means for the jobs that run.
Named(from) == IF from \in Jobs THEN {from} ELSE Expansion(from[1])

\* The jobs of S and all that depend on them, directly or not.
DownstreamOf(S) ==
  {j \in Jobs : \A T \in SUBSET Jobs :
     S \subseteq T /\ (\A d \in T : Dependents(d) \subseteq T) => j \in T}

Downstream(from) == DownstreamOf(Named(from))
=============================================================================
