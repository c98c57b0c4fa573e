-------------------------- MODULE DependencyGraph --------------------------
(***************************************************************************)
(* The graph algorithms a workflow goes through, one action per iteration: *)
(* has_cycle when the file is read, Dag::build with kahn_sort when a run   *)
(* or a retry starts, downstream_inclusive when a retry looks for the jobs *)
(* to run again.  A run sorts the EXPANDED graph, which has_cycle has not  *)
(* seen, so that sorting does not presuppose validation.                   *)
(*                                                                         *)
(* A job's depends_on is a sequence and may name a job twice.  Queues that *)
(* are filled from hash maps are sets: every order is possible.            *)
(***************************************************************************)
EXTENDS Naturals, Sequences, FiniteSets

CONSTANTS
  Nodes,  \* the job ids
  Graphs  \* the graphs considered: depends_on of each job

ASSUME GraphAssumption ==
  /\ IsFiniteSet(Nodes)
  /\ \A g \in Graphs : g \in [Nodes -> Seq(Nodes)]

VARIABLES
  deps,      \* the graph
  pc,        \* where the program is
  todo,      \* has_cycle: the roots of the search not tried yet
  path,      \* its recursion: nodes, each with the edges left to follow
  seen,      \* its visited set
  indegree,  \* kahn_sort: the number of unmet dependencies
  ready,     \* its queue
  order,     \* its result
  from,      \* downstream_inclusive: the job a retry starts from, if any
  frontier,  \* its queue
  visited    \* its result

dfs    == <<todo, path, seen>>
sort   == <<indegree, ready, order>>
search == <<from, frontier, visited>>
vars   == <<deps, pc, dfs, sort, search>>

Phase == {"validate", "cyclic", "sort", "broken", "sorted", "search", "found"}

Waiters(d) == {j \in Nodes : \E i \in DOMAIN deps[j] : deps[j][i] = d}

\* How often kahn_sort's notify lists name j under d.
Times(d, j) == Cardinality({i \in DOMAIN deps[j] : deps[j][i] = d})

Indegree(j) == Len(deps[j])

OnPath(p) == {p[i].node : i \in DOMAIN p}

Init ==
  /\ deps \in Graphs
  /\ pc \in {"validate", "sort"}
  /\ todo = Nodes /\ path = <<>> /\ seen = {}
  /\ indegree = [j \in Nodes |-> Indegree(j)]
  /\ ready = {j \in Nodes : deps[j] = <<>>} /\ order = <<>>
  /\ from = {} /\ frontier = {} /\ visited = {}

-----------------------------------------------------------------------------
(* has_cycle                                                               *)

\* Faulty variant: `visited` is looked at before `stack`.
VisitSeenFirst(n, p) ==
  /\ UNCHANGED pc
  /\ IF n \in seen
     THEN path' = p /\ UNCHANGED seen
     ELSE /\ path' = Append(p, [node |-> n, left |-> deps[n]])
          /\ seen' = seen \cup {n}

\* dfs(n), called with p on the stack.
Visit(n, p) ==
  /\ pc' = IF n \in OnPath(p) THEN "cyclic" ELSE pc
  /\ IF n \in seen
     THEN path' = p /\ UNCHANGED seen
     ELSE /\ path' = Append(p, [node |-> n, left |-> deps[n]])
          /\ seen' = seen \cup {n}

DfsRoot(n) ==
  /\ pc = "validate" /\ path = <<>>
  /\ n \in todo /\ todo' = todo \ {n}
  /\ Visit(n, path)
  /\ UNCHANGED <<deps, sort, search>>

DfsEdge ==
  /\ pc = "validate" /\ path # <<>>
  /\ LET k == Len(path)
     IN /\ path[k].left # <<>>
        /\ Visit(Head(path[k].left), [path EXCEPT ![k].left = Tail(@)])
  /\ UNCHANGED <<deps, todo, sort, search>>

DfsReturn ==
  /\ pc = "validate" /\ path # <<>>
  /\ path[Len(path)].left = <<>>
  /\ path' = SubSeq(path, 1, Len(path) - 1)
  /\ UNCHANGED <<deps, pc, todo, seen, sort, search>>

DfsDone ==
  /\ pc = "validate" /\ path = <<>> /\ todo = {}
  /\ pc' = "sort"
  /\ UNCHANGED <<deps, dfs, sort, search>>

-----------------------------------------------------------------------------
(* Dag::build, kahn_sort                                                   *)

\* Faulty variant: a repeated dependency is counted once when it is met.
PopOnce(j) ==
  /\ pc = "sort" /\ j \in ready
  /\ order' = Append(order, j)
  /\ indegree' = [w \in Nodes |-> IF w \in Waiters(j) THEN indegree[w] - 1 ELSE indegree[w]]
  /\ ready' = (ready \ {j}) \cup {w \in Waiters(j) : indegree'[w] = 0}
  /\ UNCHANGED <<deps, pc, dfs, search>>

\* queue.pop_front() and the loop over those who wait for it.
Pop(j) ==
  /\ pc = "sort" /\ j \in ready
  /\ order' = Append(order, j)
  /\ indegree' = [w \in Nodes |-> indegree[w] - Times(j, w)]
  /\ ready' = (ready \ {j}) \cup {w \in Waiters(j) : indegree'[w] = 0}
  /\ UNCHANGED <<deps, pc, dfs, search>>

SortDone ==
  /\ pc = "sort" /\ ready = {}
  /\ pc' = IF Len(order) = Cardinality(Nodes) THEN "sorted" ELSE "broken"
  /\ UNCHANGED <<deps, dfs, sort, search>>

-----------------------------------------------------------------------------
(* downstream_inclusive                                                    *)

Search(n) ==
  /\ pc = "sorted" /\ pc' = "search"
  /\ from' = {n} /\ frontier' = {n}
  /\ UNCHANGED <<deps, visited, dfs, sort>>

\* Faulty variant: only the dependents of the first job are queued.
ReachDirect(n) ==
  /\ pc = "search" /\ n \in frontier
  /\ visited' = visited \cup {n}
  /\ frontier' = (frontier \ {n}) \cup (IF visited = {} THEN Waiters(n) ELSE {})
  /\ UNCHANGED <<deps, pc, from, dfs, sort>>

Reach(n) ==
  /\ pc = "search" /\ n \in frontier
  /\ visited' = visited \cup {n}
  /\ frontier' = (frontier \ {n}) \cup (IF n \in visited THEN {} ELSE Waiters(n))
  /\ UNCHANGED <<deps, pc, from, dfs, sort>>

SearchDone ==
  /\ pc = "search" /\ frontier = {}
  /\ pc' = "found"
  /\ UNCHANGED <<deps, dfs, sort, search>>

-----------------------------------------------------------------------------

Next ==
  \/ \E n \in Nodes : DfsRoot(n) \/ Pop(n) \/ Search(n) \/ Reach(n)
  \/ DfsEdge \/ DfsReturn \/ DfsDone \/ SortDone \/ SearchDone

Spec == Init /\ [][Next]_vars

-----------------------------------------------------------------------------
(* Properties                                                              *)

Frame == [node : Nodes, left : Seq(Nodes)]

\* The type invariant; indegree is a usize, and never goes below zero.
TypeOK ==
  /\ deps \in [Nodes -> Seq(Nodes)]
  /\ pc \in Phase
  /\ todo \subseteq Nodes /\ path \in Seq(Frame) /\ seen \subseteq Nodes
  /\ indegree \in [Nodes -> Nat] /\ ready \subseteq Nodes /\ order \in Seq(Nodes)
  /\ from \subseteq Nodes /\ frontier \subseteq Nodes /\ visited \subseteq Nodes

\* What "no cycle" means: in every set of jobs, one waits for none of the set.
Acyclic ==
  \A S \in SUBSET Nodes : S # {} =>
    \E j \in S : \A i \in DOMAIN deps[j] : deps[j][i] \notin S

(***************************************************************************)
(* validate reports a cycle exactly when there is one, whatever the order  *)
(* it visits the jobs in and however their dependencies repeat or meet.    *)
(***************************************************************************)
ValidateVerdict ==
  /\ pc = "cyclic" => ~Acyclic
  /\ todo = {} /\ path = <<>> /\ pc # "cyclic" => Acyclic

(***************************************************************************)
(* Dag::build fails exactly when there is a cycle.  With ValidateVerdict:  *)
(* a retry, which sorts the graph that was validated, never fails to.      *)
(***************************************************************************)
BuildVerdict ==
  /\ pc = "broken" => ~Acyclic
  /\ pc \in {"sorted", "search", "found"} => Acyclic

\* topo_order has no job twice, and every job after all its dependencies.
Topological ==
  \A k \in DOMAIN order :
    /\ \A l \in DOMAIN order : order[k] = order[l] => k = l
    /\ \A i \in DOMAIN deps[order[k]] : \E l \in 1 .. k - 1 : order[l] = deps[order[k]][i]

Downstream(S) ==
  {n \in Nodes : \A T \in SUBSET Nodes :
     S \subseteq T /\ (\A d \in T : Waiters(d) \subseteq T) => n \in T}

(***************************************************************************)
(* A retry runs again the job it is given and all that depend on it,       *)
(* directly or not, and no other.                                          *)
(***************************************************************************)
ReplayExact == pc = "found" => visited = Downstream(from)
=============================================================================
