---------------------------- MODULE GraphProofs ----------------------------
(***************************************************************************)
(* For every graph: kahn_sort's verdict and order are right, and           *)
(* downstream_inclusive finds what it should.                              *)
(***************************************************************************)
EXTENDS DependencyGraph, FiniteSetTheorems, SequenceTheorems, TLAPS

USE GraphAssumption

Sorted == {order[k] : k \in DOMAIN order}
Unmet(j) == {i \in DOMAIN deps[j] : deps[j][i] \notin Sorted}

\* A job is queued or sorted exactly when none of its dependencies is unmet.
CountInv ==
  /\ Cardinality(Sorted) = Len(order)
  /\ ready \cap Sorted = {}
  /\ \A j \in Nodes : indegree[j] = Cardinality(Unmet(j))
  /\ \A j \in Nodes : Unmet(j) = {} <=> j \in ready \cup Sorted

\* The part of the graph that is sorted has no cycle.
SortedAcyclic ==
  \A S \in SUBSET Sorted : S # {} =>
    \E j \in S : \A i \in DOMAIN deps[j] : deps[j][i] \notin S

EndInv ==
  /\ pc = "broken" => ready = {} /\ Len(order) # Cardinality(Nodes)
  /\ pc \in {"sorted", "search", "found"} => Len(order) = Cardinality(Nodes)

SearchInv ==
  /\ pc \notin {"search", "found"} => visited = {}
  /\ from \subseteq visited \cup frontier
  /\ visited \cup frontier \subseteq Downstream(from)
  /\ \A d \in visited : Waiters(d) \subseteq visited \cup frontier
  /\ pc = "found" => frontier = {}

(***************************************************************************)
(* has_cycle.  Of a job on the stack every dependency is done with, on its *)
(* list of those left, or the next on the stack; what is done with has its *)
(* dependencies done with too, and no cycle.  So a job met again on the    *)
(* stack closes a cycle, and a search that ends has gone through them all. *)
(***************************************************************************)
Elems(s) == {s[i] : i \in DOMAIN s}
Finished == seen \ OnPath(path)
Calls(k) == IF k + 1 \in DOMAIN path THEN {path[k + 1].node} ELSE {}

StackInv ==
  /\ \A k \in DOMAIN path :
       /\ path[k].node \in seen
       /\ Elems(path[k].left) \cup Calls(k) \subseteq Elems(deps[path[k].node])
       /\ Elems(deps[path[k].node]) \subseteq Finished \cup Elems(path[k].left) \cup Calls(k)
  /\ \A k, l \in DOMAIN path : path[k].node = path[l].node => k = l

NoCycleIn(F) == \A S \in SUBSET F : S # {} => \E j \in S : Elems(deps[j]) \cap S = {}

FinishedInv ==
  /\ \A j \in Finished : Elems(deps[j]) \subseteq Finished
  /\ NoCycleIn(Finished)
  /\ Nodes \ todo \subseteq seen

VerdictInv ==
  /\ pc = "cyclic" => ~Acyclic
  /\ pc # "cyclic" => StackInv /\ FinishedInv

Inv == TypeOK /\ CountInv /\ Topological /\ SortedAcyclic /\ EndInv /\ SearchInv /\ VerdictInv

-----------------------------------------------------------------------------

\* The positions of a job's dependencies are finitely many.
LEMMA PositionsFinite ==
  ASSUME TypeOK, NEW j \in Nodes, NEW P \in SUBSET DOMAIN deps[j]
  PROVE  IsFiniteSet(P) /\ Cardinality(P) \in Nat
<1>1. DOMAIN deps[j] = 1 .. Len(deps[j]) /\ Len(deps[j]) \in Nat  BY DEF TypeOK
<1>2. IsFiniteSet(DOMAIN deps[j])  BY <1>1, FS_Interval
<1> QED BY <1>2, FS_Subset, FS_CardinalityType

\* The sorted jobs are finitely many.
LEMMA SortedFinite ==
  ASSUME TypeOK
  PROVE  Sorted \subseteq Nodes /\ IsFiniteSet(Sorted) /\ Cardinality(Sorted) \in Nat
<1>1. Sorted \subseteq Nodes  BY DEF TypeOK, Sorted
<1> QED BY <1>1, FS_Subset, FS_CardinalityType

\* Appending to the order adds to the sorted jobs.
LEMMA SortedGrows ==
  ASSUME TypeOK, NEW j \in Nodes, order' = Append(order, j)
  PROVE  /\ Sorted' = Sorted \cup {j}
         /\ Len(order') = Len(order) + 1
         /\ \A k \in DOMAIN order : order'[k] = order[k]
         /\ order'[Len(order) + 1] = j
         /\ DOMAIN order' = DOMAIN order \cup {Len(order) + 1}
<1>1. order \in Seq(Nodes)  BY DEF TypeOK
<1>2. /\ Len(order') = Len(order) + 1
      /\ DOMAIN order = 1 .. Len(order)
      /\ DOMAIN order' = 1 .. Len(order) + 1
      /\ \A k \in 1 .. Len(order) : order'[k] = order[k]
      /\ order'[Len(order) + 1] = j
  BY <1>1
<1>3. DOMAIN order' = DOMAIN order \cup {Len(order) + 1}  BY <1>1, <1>2
<1> QED BY <1>2, <1>3 DEF Sorted

-----------------------------------------------------------------------------
(* Types                                                                   *)

\* What dfs does to the stack and the visited set.
LEMMA VisitTypes ==
  ASSUME TypeOK, NEW n \in Nodes, NEW p \in Seq(Frame), Visit(n, p)
  PROVE  pc' \in {pc, "cyclic"} /\ path' \in Seq(Frame) /\ seen' \subseteq Nodes
<1>1. [node |-> n, left |-> deps[n]] \in Frame  BY DEF TypeOK, Frame
<1>2. Append(p, [node |-> n, left |-> deps[n]]) \in Seq(Frame)  BY <1>1
<1> QED BY <1>2 DEF Visit, TypeOK

\* Counting repetitions keeps indegree a natural number.
LEMMA PopCount ==
  ASSUME TypeOK, CountInv, NEW j \in Nodes, Pop(j), NEW w \in Nodes
  PROVE  /\ indegree'[w] = Cardinality(Unmet(w)')
         /\ indegree'[w] \in Nat
<1> DEFINE P == {i \in DOMAIN deps[w] : deps[w][i] = j}
<1>1. Sorted' = Sorted \cup {j} /\ deps' = deps  BY SortedGrows DEF Pop
<1>2. j \notin Sorted  BY DEF Pop, CountInv
<1>3. P \subseteq Unmet(w) /\ Unmet(w)' = Unmet(w) \ P  BY <1>1, <1>2 DEF Unmet
<1>4. IsFiniteSet(Unmet(w))  BY PositionsFinite DEF Unmet
<1>5. Cardinality(Unmet(w) \ P) = Cardinality(Unmet(w)) - Cardinality(Unmet(w) \cap P)
  BY <1>4, FS_Difference
<1>6. Unmet(w) \cap P = P  BY <1>3
<1>7. indegree'[w] = Cardinality(Unmet(w)')
  BY <1>3, <1>5, <1>6 DEF Pop, CountInv, Times
<1>8. Cardinality(Unmet(w)') \in Nat
  BY <1>3, <1>4, FS_Subset, FS_CardinalityType
<1> QED BY <1>7, <1>8

LEMMA TypeStep ==
  ASSUME TypeOK, CountInv, [Next]_vars
  PROVE  TypeOK'
<1>1. ASSUME NEW n \in Nodes, DfsRoot(n) PROVE TypeOK'
  <2>1. path \in Seq(Frame)  BY DEF TypeOK
  <2>2. pc' \in {pc, "cyclic"} /\ path' \in Seq(Frame) /\ seen' \subseteq Nodes
    BY <1>1, <2>1, VisitTypes DEF DfsRoot
  <2> QED BY <1>1, <2>2 DEF DfsRoot, TypeOK, Phase, sort, search
<1>2. ASSUME DfsEdge PROVE TypeOK'
  <2> DEFINE k == Len(path)
             f == path[k]
             p == [path EXCEPT ![k].left = Tail(@)]
  <2>1. path \in Seq(Frame) /\ path # <<>> /\ f.left # <<>>  BY <1>2 DEF DfsEdge, TypeOK
  <2>2. k \in DOMAIN path /\ f \in Frame  BY <2>1
  <2>3. f.left \in Seq(Nodes)  BY <2>2 DEF Frame
  <2>4. Head(f.left) \in Nodes /\ Tail(f.left) \in Seq(Nodes)  BY <2>1, <2>3
  <2>5. [f EXCEPT !.left = Tail(@)] \in Frame  BY <2>2, <2>4 DEF Frame
  <2>6. p = [path EXCEPT ![k] = [f EXCEPT !.left = Tail(@)]]  OBVIOUS
  <2>7. p \in Seq(Frame)  BY <2>1, <2>2, <2>5, <2>6, ExceptSeq
  <2>8. Visit(Head(f.left), p)  BY <1>2 DEF DfsEdge
  <2>9. pc' \in {pc, "cyclic"} /\ path' \in Seq(Frame) /\ seen' \subseteq Nodes
    BY <2>4, <2>7, <2>8, VisitTypes
  <2> QED BY <1>2, <2>9 DEF DfsEdge, TypeOK, Phase, sort, search
<1>3. ASSUME DfsReturn PROVE TypeOK'
  <2>1. path \in Seq(Frame) /\ path # <<>>  BY <1>3 DEF DfsReturn, TypeOK
  <2>2. SubSeq(path, 1, Len(path) - 1) \in Seq(Frame)  BY <2>1, SubSeqProperties
  <2> QED BY <1>3, <2>2 DEF DfsReturn, TypeOK, sort, search
<1>4. ASSUME NEW j \in Nodes, Pop(j) PROVE TypeOK'
  <2>1. \A w \in Nodes : indegree'[w] \in Nat  BY <1>4, PopCount
  <2>2. indegree' = [w \in Nodes |-> indegree[w] - Times(j, w)]  BY <1>4 DEF Pop
  <2>3. indegree' \in [Nodes -> Nat]  BY <2>1, <2>2
  <2>4. order' \in Seq(Nodes)  BY <1>4 DEF Pop, TypeOK
  <2> QED BY <1>4, <2>3, <2>4 DEF Pop, TypeOK, Waiters, dfs, search
<1>5. ASSUME DfsDone \/ SortDone \/ SearchDone PROVE TypeOK'
  BY <1>5 DEF DfsDone, SortDone, SearchDone, TypeOK, Phase, dfs, sort, search
<1>6. ASSUME NEW n \in Nodes, Search(n) \/ Reach(n) PROVE TypeOK'
  BY <1>6 DEF Search, Reach, TypeOK, Phase, Waiters, dfs, sort
<1>7. CASE UNCHANGED vars
  BY <1>7 DEF vars, TypeOK, dfs, sort, search
<1> QED BY <1>1, <1>2, <1>3, <1>4, <1>5, <1>6, <1>7 DEF Next

-----------------------------------------------------------------------------
(* kahn_sort                                                               *)

\* Steps outside kahn_sort's loop leave its variables alone.
SortStays ==
  /\ deps' = deps /\ order' = order
  /\ indegree' = indegree /\ ready' = ready

LEMMA StepKinds ==
  ASSUME [Next]_vars
  PROVE  SortStays \/ \E j \in Nodes : Pop(j)
<1>1. ASSUME NEW n \in Nodes, DfsRoot(n) \/ Search(n) \/ Reach(n) PROVE SortStays
  BY <1>1 DEF DfsRoot, Search, Reach, SortStays, sort
<1>2. ASSUME DfsEdge \/ DfsReturn \/ DfsDone \/ SortDone \/ SearchDone \/ UNCHANGED vars
      PROVE  SortStays
  BY <1>2 DEF DfsEdge, DfsReturn, DfsDone, SortDone, SearchDone, vars, SortStays, sort
<1> QED BY <1>1, <1>2 DEF Next

LEMMA CountStep ==
  ASSUME TypeOK, CountInv, [Next]_vars
  PROVE  CountInv'
<1>1. CASE SortStays
  BY <1>1 DEF SortStays, CountInv, Sorted, Unmet
<1>2. ASSUME NEW j \in Nodes, Pop(j) PROVE CountInv'
  <2>1. /\ Sorted' = Sorted \cup {j} /\ Len(order') = Len(order) + 1
        /\ deps' = deps /\ j \in ready /\ j \notin Sorted
    BY <1>2, SortedGrows DEF Pop, CountInv
  <2>2. Cardinality(Sorted') = Len(order')
    BY <2>1, SortedFinite, FS_AddElement DEF CountInv
  <2>3. \A w \in Nodes : indegree'[w] = Cardinality(Unmet(w)') /\ indegree'[w] \in Nat
    BY <1>2, PopCount
  <2>4. \A w \in Nodes : Unmet(w)' \subseteq Unmet(w)
    BY <2>1 DEF Unmet
  <2>5. \A w \in Nodes : w \notin Waiters(j) => Unmet(w)' = Unmet(w)
    BY <2>1 DEF Unmet, Waiters
  <2>6. \A w \in Nodes : w \in Waiters(j) => Unmet(w) # {}
    BY <2>1 DEF Unmet, Waiters
  <2>7. \A w \in Nodes : indegree'[w] = 0 <=> Unmet(w)' = {}
    <3> TAKE w \in Nodes
    <3>1. IsFiniteSet(Unmet(w))  BY PositionsFinite DEF Unmet
    <3>2. IsFiniteSet(Unmet(w)')  BY <2>4, <3>1, FS_Subset
    <3> QED BY <2>3, <3>2, FS_EmptySet
  <2>8. ready' = (ready \ {j}) \cup {w \in Waiters(j) : indegree'[w] = 0}
    BY <1>2 DEF Pop
  <2>9. \A w \in Nodes : Unmet(w)' = {} <=> w \in ready' \cup Sorted'
    <3> TAKE w \in Nodes
    <3>1. CASE w \in Waiters(j)
      <4>1. w \notin ready \cup Sorted  BY <2>6, <3>1 DEF CountInv
      <4>2. w # j  BY <2>1, <4>1
      <4> QED BY <2>1, <2>7, <2>8, <3>1, <4>1, <4>2
    <3>2. CASE w \notin Waiters(j)
      <4>1. Unmet(w)' = Unmet(w)  BY <2>5, <3>2
      <4> QED BY <2>1, <2>8, <3>2, <4>1 DEF CountInv
    <3> QED BY <3>1, <3>2
  <2>10. ready' \cap Sorted' = {}
    <3>1. \A w \in Waiters(j) : w \in Nodes /\ w \notin Sorted /\ w # j
      BY <2>1, <2>6 DEF Waiters, CountInv
    <3> QED BY <2>1, <2>8, <3>1 DEF CountInv
  <2> QED BY <2>2, <2>3, <2>9, <2>10 DEF CountInv
<1> QED BY <1>1, <1>2, StepKinds

\* A job that is popped has all its dependencies sorted, and is not sorted itself.
LEMMA Popped ==
  ASSUME TypeOK, CountInv, NEW j \in Nodes, Pop(j)
  PROVE  j \notin Sorted /\ \A i \in DOMAIN deps[j] : deps[j][i] \in Sorted
BY DEF Pop, CountInv, Unmet

LEMMA TopologicalStep ==
  ASSUME TypeOK, CountInv, Topological, [Next]_vars
  PROVE  Topological'
<1>1. CASE SortStays
  BY <1>1 DEF SortStays, Topological
<1>2. ASSUME NEW j \in Nodes, Pop(j) PROVE Topological'
  <2> DEFINE n == Len(order)
  <2>1. /\ deps' = deps /\ n \in Nat /\ DOMAIN order = 1 .. n
        /\ DOMAIN order' = DOMAIN order \cup {n + 1}
        /\ \A k \in DOMAIN order : order'[k] = order[k]
        /\ order'[n + 1] = j
    BY <1>2, SortedGrows DEF Pop, TypeOK
  <2>2. \A k \in DOMAIN order : order[k] # j
    BY <1>2, Popped DEF Sorted
  <2>3. \A k, l \in DOMAIN order' : order'[k] = order'[l] => k = l
    BY <2>1, <2>2 DEF Topological
  <2>4. \A k \in DOMAIN order : \A i \in DOMAIN deps[order[k]] :
          \E l \in 1 .. k - 1 : order'[l] = deps[order[k]][i]
    <3> TAKE k \in DOMAIN order
    <3> TAKE i \in DOMAIN deps[order[k]]
    <3>1. PICK l \in 1 .. k - 1 : order[l] = deps[order[k]][i]  BY DEF Topological
    <3>2. l \in DOMAIN order  BY <2>1, <3>1
    <3> QED BY <2>1, <3>1, <3>2
  <2>5. \A i \in DOMAIN deps[j] : \E l \in 1 .. n : order'[l] = deps[j][i]
    BY <1>2, <2>1, Popped DEF Sorted
  <2>6. (n + 1) - 1 = n  BY <2>1
  <2>7. \A k \in DOMAIN order' : \A i \in DOMAIN deps[order'[k]] :
          \E l \in 1 .. k - 1 : order'[l] = deps[order'[k]][i]
    BY <2>1, <2>4, <2>5, <2>6
  <2>8. ASSUME NEW k \in DOMAIN order'
        PROVE  /\ \A l \in DOMAIN order' : order'[k] = order'[l] => k = l
               /\ \A i \in DOMAIN deps'[order'[k]] :
                    \E l \in 1 .. k - 1 : order'[l] = deps'[order'[k]][i]
    <3>1. \A l \in DOMAIN order' : order'[k] = order'[l] => k = l  BY <2>3
    <3>2. \A i \in DOMAIN deps[order'[k]] :
            \E l \in 1 .. k - 1 : order'[l] = deps[order'[k]][i]
      BY <2>7
    <3> QED BY <2>1, <3>1, <3>2
  <2> HIDE DEF n
  <2> QED BY ONLY <2>8 DEF Topological
<1> QED BY <1>1, <1>2, StepKinds

LEMMA SortedAcyclicStep ==
  ASSUME TypeOK, CountInv, Topological, SortedAcyclic, [Next]_vars
  PROVE  SortedAcyclic'
<1>1. CASE SortStays
  <2>1. Sorted' = Sorted /\ deps' = deps  BY <1>1 DEF SortStays, Sorted
  <2> QED BY <2>1 DEF SortedAcyclic
<1>2. ASSUME NEW j \in Nodes, Pop(j) PROVE SortedAcyclic'
  <2>1. Sorted' = Sorted \cup {j} /\ deps' = deps
    BY <1>2, SortedGrows DEF Pop
  <2>2. \A k \in Sorted : \A i \in DOMAIN deps[k] : deps[k][i] \in Sorted
    <3> SUFFICES ASSUME NEW m \in DOMAIN order, NEW i \in DOMAIN deps[order[m]]
                 PROVE  deps[order[m]][i] \in Sorted
      BY DEF Sorted
    <3>1. DOMAIN order = 1 .. Len(order) /\ Len(order) \in Nat  BY DEF TypeOK
    <3>2. PICK l \in 1 .. m - 1 : order[l] = deps[order[m]][i]  BY DEF Topological
    <3>3. l \in DOMAIN order  BY <3>1, <3>2
    <3> QED BY <3>2, <3>3 DEF Sorted
  <2>3. ASSUME NEW S \in SUBSET (Sorted \cup {j}), S # {}
        PROVE  \E k \in S : \A i \in DOMAIN deps[k] : deps[k][i] \notin S
    <3>1. CASE S \subseteq {j}
      <4>1. S = {j}  BY <2>3, <3>1
      <4> QED BY <1>2, <4>1, Popped
    <3>2. CASE ~(S \subseteq {j})
      <4>1. S \cap Sorted # {}  BY <2>3, <3>2
      <4>2. PICK k \in S \cap Sorted : \A i \in DOMAIN deps[k] : deps[k][i] \notin S \cap Sorted
        BY <4>1 DEF SortedAcyclic
      <4> QED BY <2>2, <4>2
    <3> QED BY <3>1, <3>2
  <2> QED BY <2>1, <2>3 DEF SortedAcyclic
<1> QED BY <1>1, <1>2, StepKinds

LEMMA EndStep ==
  ASSUME TypeOK, EndInv, [Next]_vars
  PROVE  EndInv'
<1>1. ASSUME NEW n \in Nodes, DfsRoot(n) PROVE EndInv'
  BY <1>1 DEF DfsRoot, Visit, EndInv, sort
<1>2. CASE DfsEdge
  BY <1>2 DEF DfsEdge, Visit, EndInv, sort
<1>3. CASE DfsReturn \/ DfsDone \/ SortDone \/ SearchDone \/ UNCHANGED vars
  BY <1>3 DEF DfsReturn, DfsDone, SortDone, SearchDone, vars, EndInv, sort
<1>4. ASSUME NEW n \in Nodes, Pop(n) \/ Search(n) \/ Reach(n) PROVE EndInv'
  BY <1>4 DEF Pop, Search, Reach, EndInv, sort
<1> QED BY <1>1, <1>2, <1>3, <1>4 DEF Next

-----------------------------------------------------------------------------
(* downstream_inclusive                                                    *)

\* Steps outside its loop leave the search alone.
SearchStays == deps' = deps /\ UNCHANGED search

LEMMA SearchStep ==
  ASSUME TypeOK, SearchInv, [Next]_vars
  PROVE  SearchInv'
<1>1. ASSUME SearchStays, pc' # "found" \/ frontier = {},
             pc' \in {"search", "found"} \/ pc \notin {"search", "found"}
      PROVE  SearchInv'
  BY <1>1 DEF SearchStays, search, SearchInv, Downstream, Waiters
<1>2. ASSUME NEW n \in Nodes, DfsRoot(n) \/ Pop(n) PROVE SearchInv'
  BY <1>1, <1>2 DEF DfsRoot, Visit, Pop, SearchStays
<1>3. CASE DfsEdge \/ DfsReturn \/ DfsDone \/ SortDone \/ SearchDone
  BY <1>1, <1>3 DEF DfsEdge, Visit, DfsReturn, DfsDone, SortDone, SearchDone, SearchStays
<1>4. ASSUME NEW n \in Nodes, Search(n) PROVE SearchInv'
  <2>1. visited' = {} /\ frontier' = {n} /\ from' = {n} /\ pc' = "search"
    BY <1>4 DEF Search, SearchInv
  <2> QED BY <2>1 DEF SearchInv, Downstream
<1>5. ASSUME NEW n \in Nodes, Reach(n) PROVE SearchInv'
  <2>1. /\ n \in frontier /\ deps' = deps /\ from' = from
        /\ pc = "search" /\ pc' = "search" /\ visited' = visited \cup {n}
        /\ frontier' = (frontier \ {n}) \cup (IF n \in visited THEN {} ELSE Waiters(n))
    BY <1>5 DEF Reach
  <2>2. Downstream(from)' = Downstream(from) /\ \A d : Waiters(d)' = Waiters(d)
    BY <2>1 DEF Downstream, Waiters
  <2>3. n \in Downstream(from) /\ Waiters(n) \subseteq Nodes
    BY <2>1 DEF SearchInv, Waiters
  <2>4. Waiters(n) \subseteq Downstream(from)
    <3>1. ASSUME NEW w \in Waiters(n), NEW T \in SUBSET Nodes,
                 from \subseteq T, \A d \in T : Waiters(d) \subseteq T
          PROVE  w \in T
      <4>1. n \in T  BY <2>3, <3>1 DEF Downstream
      <4> QED BY <3>1, <4>1
    <3> QED BY <2>3, <3>1 DEF Downstream
  <2>5. visited' \cup frontier' \subseteq Downstream(from)
    BY <2>1, <2>3, <2>4 DEF SearchInv
  <2>6. \A d \in visited' : Waiters(d) \subseteq visited' \cup frontier'
    BY <2>1 DEF SearchInv
  <2>7. from \subseteq visited' \cup frontier'
    BY <2>1 DEF SearchInv
  <2> QED BY <2>1, <2>2, <2>5, <2>6, <2>7 DEF SearchInv
<1>6. CASE UNCHANGED vars
  BY <1>1, <1>6 DEF vars, search, SearchStays, SearchInv
<1> QED BY <1>2, <1>3, <1>4, <1>5, <1>6 DEF Next

-----------------------------------------------------------------------------
(* has_cycle                                                               *)

\* Acyclic, in terms of the sets of dependencies.
LEMMA AcyclicMeans == Acyclic <=> NoCycleIn(Nodes)
<1>1. \A j, S : (\A i \in DOMAIN deps[j] : deps[j][i] \notin S) <=> Elems(deps[j]) \cap S = {}
  BY DEF Elems
<1>2. ASSUME Acyclic PROVE NoCycleIn(Nodes)
  <2> SUFFICES ASSUME NEW S \in SUBSET Nodes, S # {}
               PROVE  \E j \in S : Elems(deps[j]) \cap S = {}
    BY DEF NoCycleIn
  <2>1. PICK j \in S : \A i \in DOMAIN deps[j] : deps[j][i] \notin S
    BY <1>2 DEF Acyclic
  <2> QED BY <1>1, <2>1
<1>3. ASSUME NoCycleIn(Nodes) PROVE Acyclic
  <2> SUFFICES ASSUME NEW S \in SUBSET Nodes, S # {}
               PROVE  \E j \in S : \A i \in DOMAIN deps[j] : deps[j][i] \notin S
    BY DEF Acyclic
  <2>1. PICK j \in S : Elems(deps[j]) \cap S = {}
    BY <1>3 DEF NoCycleIn
  <2> QED BY <1>1, <2>1
<1> QED BY <1>2, <1>3

\* A job all of whose dependencies are in a set without a cycle may join it.
LEMMA JoinsAcyclic ==
  ASSUME NEW F, NEW n, n \notin F, NoCycleIn(F), \A j \in F : Elems(deps[j]) \subseteq F,
         Elems(deps[n]) \subseteq F
  PROVE  NoCycleIn(F \cup {n})
<1> SUFFICES ASSUME NEW S \in SUBSET (F \cup {n}), S # {}
             PROVE  \E j \in S : Elems(deps[j]) \cap S = {}
  BY DEF NoCycleIn
<1>1. CASE S \subseteq {n}
  <2>1. S = {n}  BY <1>1
  <2> QED BY <2>1
<1>2. CASE ~(S \subseteq {n})
  <2>1. S \cap F # {}  BY <1>2
  <2>2. PICK j \in S \cap F : Elems(deps[j]) \cap (S \cap F) = {}  BY <2>1 DEF NoCycleIn
  <2>3. Elems(deps[j]) \subseteq F  BY <2>2
  <2> QED BY <2>2, <2>3
<1> QED BY <1>1, <1>2

\* The first of a list and the others.
LEMMA FirstAndRest ==
  ASSUME NEW T, NEW q \in Seq(T), q # <<>>
  PROVE  /\ Head(q) \in T /\ Tail(q) \in Seq(T)
         /\ Elems(q) = {Head(q)} \cup Elems(Tail(q))
<1>1. Len(q) \in Nat /\ Len(q) > 0 /\ DOMAIN q = 1 .. Len(q)
  BY EmptySeq
<1>2. Head(q) = q[1] /\ Tail(q) \in Seq(T) /\ Len(Tail(q)) = Len(q) - 1
  BY <1>1
<1>3. DOMAIN Tail(q) = 1 .. Len(q) - 1 /\ \A i \in 1 .. Len(q) - 1 : Tail(q)[i] = q[i + 1]
  BY <1>1, <1>2
<1>4. Head(q) \in T
  BY <1>1, <1>2
<1>5. ASSUME NEW x \in Elems(q)
      PROVE  x = Head(q) \/ x \in Elems(Tail(q))
  <2>1. PICK i \in 1 .. Len(q) : x = q[i]  BY <1>1, <1>5 DEF Elems
  <2>2. CASE i = 1
    BY <1>2, <2>1, <2>2
  <2>3. CASE i # 1
    <3>1. i - 1 \in 1 .. Len(q) - 1 /\ (i - 1) + 1 = i  BY <1>1, <2>1, <2>3
    <3>2. Tail(q)[i - 1] = x  BY <1>3, <2>1, <3>1
    <3> QED BY <1>3, <3>1, <3>2 DEF Elems
  <2> QED BY <2>2, <2>3
<1>6. Head(q) \in Elems(q)
  <2>1. 1 \in DOMAIN q  BY <1>1
  <2> QED BY <1>2, <2>1 DEF Elems
<1>7. ASSUME NEW x \in Elems(Tail(q))
      PROVE  x \in Elems(q)
  <2>1. PICK i \in 1 .. Len(q) - 1 : x = q[i + 1]  BY <1>3, <1>7 DEF Elems
  <2>2. i + 1 \in DOMAIN q  BY <1>1, <2>1
  <2> QED BY <2>1, <2>2 DEF Elems
<1> QED BY <1>2, <1>4, <1>5, <1>6, <1>7

\* The stack has positions 1 to its length, each with a job.
LEMMA StackTypes ==
  ASSUME TypeOK
  PROVE  /\ Len(path) \in Nat /\ DOMAIN path = 1 .. Len(path)
         /\ \A k \in DOMAIN path : path[k] \in Frame /\ path[k].node \in Nodes /\ path[k].left \in Seq(Nodes)
<1>1. path \in Seq(Frame)  BY DEF TypeOK
<1>2. Len(path) \in Nat /\ DOMAIN path = 1 .. Len(path) /\ \A k \in DOMAIN path : path[k] \in Frame
  BY <1>1
<1> QED BY <1>2 DEF Frame

\* Following an edge: the top of the stack has one fewer left.
LEMMA EdgeEffect ==
  ASSUME TypeOK, DfsEdge
  PROVE  LET k == Len(path)
             n == Head(path[k].left)
             p == [path EXCEPT ![k].left = Tail(@)]
         IN  /\ k \in DOMAIN path /\ n \in Nodes
             /\ p \in Seq(Frame) /\ Len(p) = k /\ DOMAIN p = DOMAIN path
             /\ \A i \in DOMAIN path : p[i].node = path[i].node
             /\ \A i \in DOMAIN path \ {k} : p[i].left = path[i].left
             /\ Elems(path[k].left) = {n} \cup Elems(p[k].left)
             /\ OnPath(p) = OnPath(path)
<1> DEFINE k == Len(path)
           f == path[k]
           n == Head(f.left)
           p == [path EXCEPT ![k].left = Tail(@)]
<1>1. path \in Seq(Frame) /\ path # <<>> /\ f.left # <<>>  BY DEF DfsEdge, TypeOK
<1>2. k \in Nat /\ DOMAIN path = 1 .. k /\ k \in DOMAIN path  BY <1>1, EmptySeq
<1>3. f \in Frame /\ f.left \in Seq(Nodes) /\ f.node \in Nodes  BY <1>1, <1>2, StackTypes
<1>4. n \in Nodes /\ Tail(f.left) \in Seq(Nodes) /\ Elems(f.left) = {n} \cup Elems(Tail(f.left))
  BY <1>1, <1>3, FirstAndRest
<1> DEFINE g == [f EXCEPT !.left = Tail(@)]
<1>5. g \in Frame /\ g.node = f.node /\ g.left = Tail(f.left)  BY <1>3, <1>4 DEF Frame
<1>6. p = [path EXCEPT ![k] = g]  OBVIOUS
<1> HIDE DEF g, p, n
<1>7. p \in Seq(Frame) /\ DOMAIN p = DOMAIN path /\ Len(p) = k
  BY <1>1, <1>2, <1>5, <1>6, ExceptSeq
<1>8. p[k] = g /\ \A i \in DOMAIN path \ {k} : p[i] = path[i]
  BY <1>1, <1>2, <1>6
<1>9. \A i \in DOMAIN path : p[i].node = path[i].node
  BY <1>5, <1>8
<1>10. OnPath(p) = OnPath(path)
  BY <1>7, <1>9 DEF OnPath
<1>11. Elems(path[k].left) = {n} \cup Elems(p[k].left)
  BY <1>4, <1>5, <1>8
<1> QED BY <1>2, <1>4, <1>7, <1>8, <1>9, <1>10, <1>11 DEF p, n

\* A job not seen yet is pushed with all its dependencies left to follow.
LEMMA PushEffect ==
  ASSUME TypeOK, NEW p \in Seq(Frame), NEW n \in Nodes,
         path' = Append(p, [node |-> n, left |-> deps[n]])
  PROVE  /\ DOMAIN path' = DOMAIN p \cup {Len(p) + 1} /\ Len(p) + 1 \notin DOMAIN p
         /\ \A i \in DOMAIN p : path'[i] = p[i]
         /\ path'[Len(p) + 1].node = n /\ path'[Len(p) + 1].left = deps[n]
         /\ OnPath(path') = OnPath(p) \cup {n}
<1> DEFINE f == [node |-> n, left |-> deps[n]]
<1>1. f \in Frame /\ f.node = n /\ f.left = deps[n]  BY DEF TypeOK, Frame
<1>2. Len(p) \in Nat /\ DOMAIN p = 1 .. Len(p)  OBVIOUS
<1> HIDE DEF f
<1>3. path' = Append(p, f)  BY DEF f
<1>4. /\ DOMAIN path' = 1 .. Len(p) + 1 /\ path'[Len(p) + 1] = f
      /\ \A i \in 1 .. Len(p) : path'[i] = p[i]
  BY <1>1, <1>2, <1>3
<1>5. DOMAIN path' = DOMAIN p \cup {Len(p) + 1} /\ Len(p) + 1 \notin DOMAIN p  BY <1>2, <1>4
<1>6. OnPath(path') = OnPath(p) \cup {n}  BY <1>1, <1>2, <1>4, <1>5 DEF OnPath
<1> QED BY <1>1, <1>2, <1>4, <1>5, <1>6

(***************************************************************************)
(* A call that finds no cycle.  p is the stack the call starts on: that of *)
(* the state, but for the edge to n that its top no longer has to follow.  *)
(***************************************************************************)
LEMMA VisitKeeps ==
  ASSUME TypeOK, StackInv, NEW p \in Seq(Frame), NEW n \in Nodes,
         Visit(n, p), deps' = deps, n \notin OnPath(p),
         DOMAIN p = DOMAIN path, Len(p) = Len(path), OnPath(p) = OnPath(path),
         \A k \in DOMAIN p : /\ p[k].node = path[k].node
                             /\ k # Len(p) => p[k].left = path[k].left,
         Len(p) \in DOMAIN p => Elems(path[Len(p)].left) = {n} \cup Elems(p[Len(p)].left)
  PROVE  StackInv' /\ Finished' = Finished /\ n \in seen' /\ seen \subseteq seen'
<1>1. Len(p) \in Nat /\ DOMAIN p = 1 .. Len(p) /\ DOMAIN path = 1 .. Len(p)
  OBVIOUS
<1>2. \A k \in DOMAIN p : p[k].node \in seen
  BY DEF StackInv
<1>3. \A k \in DOMAIN p \ {Len(p)} : k + 1 \in DOMAIN p /\ Calls(k) = {p[k + 1].node}
  BY <1>1 DEF Calls
<1>4. \A k \in DOMAIN p \ {Len(p)} :
        /\ Elems(p[k].left) \cup {p[k + 1].node} \subseteq Elems(deps[p[k].node])
        /\ Elems(deps[p[k].node]) \subseteq Finished \cup Elems(p[k].left) \cup {p[k + 1].node}
  BY <1>3 DEF StackInv
<1>5. Len(p) \in DOMAIN p =>
        /\ Elems(p[Len(p)].left) \cup {n} \subseteq Elems(deps[p[Len(p)].node])
        /\ Elems(deps[p[Len(p)].node]) \subseteq Finished \cup Elems(p[Len(p)].left) \cup {n}
  <2> SUFFICES ASSUME Len(p) \in DOMAIN p
               PROVE  /\ Elems(p[Len(p)].left) \cup {n} \subseteq Elems(deps[p[Len(p)].node])
                      /\ Elems(deps[p[Len(p)].node]) \subseteq Finished \cup Elems(p[Len(p)].left) \cup {n}
    OBVIOUS
  <2>1. Len(p) + 1 \notin DOMAIN path /\ Calls(Len(p)) = {}
    BY <1>1 DEF Calls
  <2> QED BY <2>1 DEF StackInv
<1>6. \A k, l \in DOMAIN p : p[k].node = p[l].node => k = l
  BY DEF StackInv
<1>7. CASE n \in seen
  <2>1. path' = p /\ seen' = seen  BY <1>7 DEF Visit
  <2>2. Finished' = Finished /\ n \in Finished  BY <1>7, <2>1 DEF Finished
  <2>3. \A k \in DOMAIN p \ {Len(p)} : Calls(k)' = {p[k + 1].node}
    BY <1>3, <2>1 DEF Calls
  <2>4. Calls(Len(p))' = {}
    BY <1>1, <2>1 DEF Calls
  <2>5. ASSUME NEW k \in DOMAIN p
        PROVE  /\ p[k].node \in seen
               /\ Elems(p[k].left) \cup Calls(k)' \subseteq Elems(deps[p[k].node])
               /\ Elems(deps[p[k].node]) \subseteq Finished \cup Elems(p[k].left) \cup Calls(k)'
    <3>1. CASE k = Len(p)
      BY <1>2, <1>5, <2>2, <2>4, <3>1
    <3>2. CASE k # Len(p)
      BY <1>2, <1>4, <2>3, <3>2
    <3> QED BY <3>1, <3>2
  <2>6. StackInv'
    BY <1>6, <2>1, <2>2, <2>5 DEF StackInv
  <2> QED BY <1>7, <2>1, <2>2, <2>6
<1>8. CASE n \notin seen
  <2> DEFINE q == path'
  <2>1. /\ path' = Append(p, [node |-> n, left |-> deps[n]]) /\ seen' = seen \cup {n}
    BY <1>8 DEF Visit
  <2>2. /\ DOMAIN q = DOMAIN p \cup {Len(p) + 1} /\ Len(p) + 1 \notin DOMAIN p
        /\ \A i \in DOMAIN p : q[i] = p[i]
        /\ q[Len(p) + 1].node = n /\ q[Len(p) + 1].left = deps[n]
        /\ OnPath(q) = OnPath(p) \cup {n}
    BY <2>1, PushEffect
  <2>3. Finished' = Finished
    BY <1>8, <2>1, <2>2 DEF Finished
  <2>4. \A k \in DOMAIN p \ {Len(p)} : Calls(k)' = {p[k + 1].node}
    BY <1>3, <2>2 DEF Calls
  <2>5. Calls(Len(p))' = {n}
    BY <2>2 DEF Calls
  <2>6. Calls(Len(p) + 1)' = {}
    BY <1>1, <2>2 DEF Calls
  <2> HIDE DEF q
  <2>7. ASSUME NEW k \in DOMAIN q
        PROVE  /\ q[k].node \in seen'
               /\ Elems(q[k].left) \cup Calls(k)' \subseteq Elems(deps[q[k].node])
               /\ Elems(deps[q[k].node]) \subseteq Finished \cup Elems(q[k].left) \cup Calls(k)'
    <3>1. CASE k = Len(p) + 1
      BY <2>1, <2>2, <2>6, <3>1
    <3>2. CASE k \in DOMAIN p /\ k # Len(p)
      BY <1>2, <1>4, <2>1, <2>2, <2>4, <3>2
    <3>3. CASE k \in DOMAIN p /\ k = Len(p)
      BY <1>2, <1>5, <2>1, <2>2, <2>5, <3>3
    <3> QED BY <2>2, <3>1, <3>2, <3>3
  <2>8. \A k, l \in DOMAIN q : q[k].node = q[l].node => k = l
    BY <1>2, <1>6, <1>8, <2>2
  <2>9. StackInv'
    BY <2>3, <2>7, <2>8 DEF StackInv, q
  <2> QED BY <2>1, <2>3, <2>9
<1> QED BY <1>7, <1>8

\* A call that meets its job on the stack: from there to the top is a cycle.
LEMMA MetAgain ==
  ASSUME TypeOK, StackInv, NEW n \in OnPath(path),
         Len(path) \in DOMAIN path, n \in Elems(path[Len(path)].left)
  PROVE  ~Acyclic
<1>1. PICK m \in DOMAIN path : path[m].node = n
  BY DEF OnPath
<1>2. Len(path) \in Nat /\ DOMAIN path = 1 .. Len(path) /\ \A k \in DOMAIN path : path[k].node \in Nodes
  BY StackTypes
<1> DEFINE S == {path[k].node : k \in {i \in DOMAIN path : i >= m}}
<1>3. S \in SUBSET Nodes /\ n \in S
  BY <1>1, <1>2
<1>4. ASSUME NEW k \in DOMAIN path, k >= m
      PROVE  Elems(deps[path[k].node]) \cap S # {}
  <2>1. CASE k = Len(path)
    BY <1>3, <2>1 DEF StackInv
  <2>2. CASE k # Len(path)
    <3>1. k + 1 \in DOMAIN path /\ k + 1 >= m
      BY <1>2, <1>4, <2>2
    <3>2. path[k + 1].node \in S /\ path[k + 1].node \in Calls(k)
      BY <3>1 DEF Calls
    <3>3. Calls(k) \subseteq Elems(deps[path[k].node])
      BY DEF StackInv
    <3> HIDE DEF S
    <3> QED BY <3>2, <3>3
  <2> QED BY <2>1, <2>2
<1>5. \A j \in S : Elems(deps[j]) \cap S # {}
  BY <1>4
<1>6. ~NoCycleIn(Nodes)
  BY <1>3, <1>5 DEF NoCycleIn
<1> QED BY <1>6, AcyclicMeans

\* A job with nothing left to follow is done with.
LEMMA ReturnKeeps ==
  ASSUME TypeOK, StackInv, FinishedInv, DfsReturn
  PROVE  StackInv' /\ FinishedInv'
<1> DEFINE K == Len(path)
           t == path[K].node
<1>1. /\ K \in Nat /\ DOMAIN path = 1 .. K /\ K \in DOMAIN path /\ path \in Seq(Frame)
  BY EmptySeq DEF TypeOK, DfsReturn
<1>2. /\ path' = SubSeq(path, 1, K - 1) /\ deps' = deps /\ todo' = todo /\ seen' = seen
      /\ path[K].left = <<>>
  BY DEF DfsReturn, sort
<1>3. DOMAIN path' = 1 .. K - 1 /\ \A i \in 1 .. K - 1 : path'[i] = path[i]
  BY <1>1, <1>2, SubSeqProperties
<1>4. Elems(path[K].left) = {}
  BY <1>2, EmptySeq DEF Elems
<1>5. Calls(K) = {}
  BY <1>1 DEF Calls
<1>6. t \in seen /\ Elems(deps[t]) \subseteq Finished
  BY <1>1, <1>4, <1>5 DEF StackInv
<1>7. \A i \in 1 .. K - 1 : path[i].node # t
  BY <1>1 DEF StackInv
<1>8. OnPath(path') = OnPath(path) \ {t} /\ t \in OnPath(path)
  BY <1>1, <1>3, <1>7 DEF OnPath
<1>9. Finished' = Finished \cup {t} /\ t \notin Finished
  BY <1>2, <1>6, <1>8 DEF Finished
<1>10. \A k \in 1 .. K - 1 : Calls(k)' \subseteq Calls(k) /\ Calls(k) \subseteq Calls(k)' \cup {t}
  <2> TAKE k \in 1 .. K - 1
  <2>1. Calls(k) = {path[k + 1].node}
    BY <1>1 DEF Calls
  <2>2. CASE k = K - 1
    <3>1. k + 1 = K /\ K \notin DOMAIN path'
      BY <1>1, <1>3, <2>2
    <3>2. Calls(k)' = {}
      BY <3>1 DEF Calls
    <3> QED BY <2>1, <3>1, <3>2
  <2>3. CASE k # K - 1
    <3>1. k + 1 \in 1 .. K - 1
      <4>1. K \in Nat  BY <1>1
      <4> HIDE DEF K
      <4> QED BY <2>3, <4>1
    <3>2. Calls(k)' = {path[k + 1].node}
      BY <1>3, <3>1 DEF Calls
    <3> QED BY <2>1, <3>2
  <2> QED BY <2>2, <2>3
<1> HIDE DEF t
<1>11. ASSUME NEW k \in 1 .. K - 1
       PROVE  /\ path'[k].node \in seen
              /\ Elems(path'[k].left) \cup Calls(k)' \subseteq Elems(deps[path'[k].node])
              /\ Elems(deps[path'[k].node]) \subseteq Finished' \cup Elems(path'[k].left) \cup Calls(k)'
  <2>1. k \in DOMAIN path /\ path'[k] = path[k]
    BY <1>1, <1>3
  <2>2. /\ path[k].node \in seen
        /\ Elems(path[k].left) \cup Calls(k) \subseteq Elems(deps[path[k].node])
        /\ Elems(deps[path[k].node]) \subseteq Finished \cup Elems(path[k].left) \cup Calls(k)
    BY <2>1 DEF StackInv
  <2>3. Calls(k)' \subseteq Calls(k) /\ Calls(k) \subseteq Calls(k)' \cup {t}
    BY <1>10
  <2> QED BY <1>9, <2>1, <2>2, <2>3
<1>12. \A k, l \in 1 .. K - 1 : path'[k].node = path'[l].node => k = l
  BY <1>1, <1>3 DEF StackInv
<1>13. StackInv'
  BY <1>2, <1>3, <1>11, <1>12 DEF StackInv
<1>14. \A j \in Finished' : Elems(deps[j]) \subseteq Finished'
  BY <1>6, <1>9 DEF FinishedInv
<1>15. NoCycleIn(Finished \cup {t})
  BY <1>6, <1>9, JoinsAcyclic DEF FinishedInv
<1>16. FinishedInv'
  BY <1>2, <1>9, <1>14, <1>15 DEF FinishedInv, NoCycleIn
<1> QED BY <1>13, <1>16

\* Steps outside has_cycle leave its stack and its sets alone.
LEMMA VerdictStays ==
  ASSUME VerdictInv, deps' = deps, UNCHANGED dfs, pc' = "cyclic" <=> pc = "cyclic"
  PROVE  VerdictInv'
BY DEF VerdictInv, dfs, Acyclic, StackInv, FinishedInv, Finished, Calls, NoCycleIn

LEMMA VerdictStep ==
  ASSUME TypeOK, VerdictInv, [Next]_vars
  PROVE  VerdictInv'
<1>1. ASSUME NEW n \in Nodes, DfsRoot(n) PROVE VerdictInv'
  <2>1. /\ pc = "validate" /\ path = <<>> /\ todo' = todo \ {n} /\ deps' = deps /\ Visit(n, path)
    BY <1>1 DEF DfsRoot
  <2>2. StackInv /\ FinishedInv
    BY <2>1 DEF VerdictInv
  <2>3. path \in Seq(Frame) /\ DOMAIN path = {} /\ Len(path) = 0 /\ OnPath(path) = {}
    BY <2>1, EmptySeq DEF TypeOK, OnPath
  <2>4. StackInv' /\ Finished' = Finished /\ n \in seen' /\ seen \subseteq seen'
    BY <2>1, <2>2, <2>3, VisitKeeps
  <2>5. pc' = "validate"
    BY <2>1, <2>3 DEF Visit
  <2>6. FinishedInv'
    BY <2>1, <2>2, <2>4 DEF FinishedInv, NoCycleIn
  <2> QED BY <2>4, <2>5, <2>6 DEF VerdictInv
<1>2. ASSUME DfsEdge PROVE VerdictInv'
  <2> DEFINE k == Len(path)
             n == Head(path[k].left)
             p == [path EXCEPT ![k].left = Tail(@)]
  <2>1. pc = "validate" /\ deps' = deps /\ todo' = todo /\ Visit(n, p)
    BY <1>2 DEF DfsEdge
  <2>2. StackInv /\ FinishedInv
    BY <2>1 DEF VerdictInv
  <2>3. /\ k \in DOMAIN path /\ n \in Nodes
        /\ p \in Seq(Frame) /\ Len(p) = k /\ DOMAIN p = DOMAIN path
        /\ \A i \in DOMAIN path : p[i].node = path[i].node
        /\ \A i \in DOMAIN path \ {k} : p[i].left = path[i].left
        /\ Elems(path[k].left) = {n} \cup Elems(p[k].left)
        /\ OnPath(p) = OnPath(path)
    BY <1>2, EdgeEffect
  <2> HIDE DEF n, p
  <2>4. CASE n \in OnPath(path)
    <3>1. ~Acyclic
      BY <2>2, <2>3, <2>4, MetAgain
    <3>2. pc' = "cyclic"
      BY <2>1, <2>3, <2>4 DEF Visit
    <3> QED BY <2>1, <3>1, <3>2 DEF VerdictInv, Acyclic
  <2>5. CASE n \notin OnPath(path)
    <3>1. StackInv' /\ Finished' = Finished /\ seen \subseteq seen'
      BY <2>1, <2>2, <2>3, <2>5, VisitKeeps
    <3>2. pc' = "validate"
      BY <2>1, <2>3, <2>5 DEF Visit
    <3>3. FinishedInv'
      BY <2>1, <2>2, <3>1 DEF FinishedInv, NoCycleIn
    <3> QED BY <3>1, <3>2, <3>3 DEF VerdictInv
  <2> QED BY <2>4, <2>5
<1>3. ASSUME DfsReturn PROVE VerdictInv'
  <2>1. pc = "validate" /\ pc' = pc
    BY <1>3 DEF DfsReturn
  <2> QED BY <1>3, <2>1, ReturnKeeps DEF VerdictInv
<1>4. ASSUME NEW n \in Nodes, Pop(n) \/ Search(n) \/ Reach(n) PROVE VerdictInv'
  BY <1>4, VerdictStays DEF Pop, Search, Reach
<1>5. CASE DfsDone \/ SortDone \/ SearchDone \/ UNCHANGED vars
  BY <1>5, VerdictStays DEF DfsDone, SortDone, SearchDone, vars
<1> QED BY <1>1, <1>2, <1>3, <1>4, <1>5 DEF Next

-----------------------------------------------------------------------------
(* Theorems                                                                *)

LEMMA InitInv ==
  ASSUME Init
  PROVE  Inv
<1>1. deps \in [Nodes -> Seq(Nodes)]  BY DEF Init
<1>2. \A j \in Nodes : deps[j] \in Seq(Nodes) /\ Len(deps[j]) \in Nat
                       /\ DOMAIN deps[j] = 1 .. Len(deps[j])
  BY <1>1
<1>3. TypeOK  BY <1>1, <1>2 DEF Init, TypeOK, Phase, Indegree
<1>4. Sorted = {} /\ Len(order) = 0 /\ DOMAIN order = {}  BY DEF Init, Sorted
<1>5. \A j \in Nodes : Unmet(j) = DOMAIN deps[j]  BY <1>4 DEF Unmet
<1>6. \A j \in Nodes : indegree[j] = Cardinality(Unmet(j))
  <2> TAKE j \in Nodes
  <2>1. Cardinality(1 .. Len(deps[j])) = Len(deps[j])  BY <1>2, FS_Interval
  <2> QED BY <1>2, <1>5, <2>1 DEF Init, Indegree
<1>7. \A j \in Nodes : Unmet(j) = {} <=> j \in ready \cup Sorted
  <2> TAKE j \in Nodes
  <2>1. deps[j] = <<>> <=> Len(deps[j]) = 0
    <3>1. Len(<<>>) = 0  BY EmptySeq, Zenon
    <3>2. \A s \in Seq(Nodes) : s # <<>> => Len(s) \in Nat \ {0}  BY EmptySeq, Zenon
    <3>3. deps[j] # <<>> => Len(deps[j]) \in Nat \ {0}  BY <1>2, <3>2, Zenon
    <3>4. deps[j] # <<>> => Len(deps[j]) # 0  BY <3>3
    <3>5. deps[j] = <<>> => Len(deps[j]) = 0  BY <3>1, Zenon
    <3> QED BY <3>4, <3>5, Zenon
  <2>2. DOMAIN deps[j] = {} <=> Len(deps[j]) = 0
    <3>1. DOMAIN deps[j] = 1 .. Len(deps[j]) /\ Len(deps[j]) \in Nat  BY <1>2
    <3>2. \A n \in Nat : 1 .. n = {} <=> n = 0  OBVIOUS
    <3> QED BY <3>1, <3>2
  <2> QED BY <1>4, <1>5, <2>1, <2>2 DEF Init
<1>8. CountInv  BY <1>4, <1>6, <1>7, FS_EmptySet DEF CountInv
<1>9. Topological /\ SortedAcyclic  BY <1>4 DEF Topological, SortedAcyclic
<1>10. EndInv /\ SearchInv  BY DEF Init, EndInv, SearchInv
<1>11. VerdictInv
  <2>1. path = <<>> /\ seen = {} /\ todo = Nodes /\ pc # "cyclic"  BY DEF Init
  <2>2. DOMAIN path = {} /\ Finished = {}  BY <2>1, EmptySeq DEF Finished
  <2> QED BY <2>1, <2>2 DEF VerdictInv, StackInv, FinishedInv, NoCycleIn
<1> QED BY <1>3, <1>8, <1>9, <1>10, <1>11 DEF Inv

LEMMA InvStep ==
  ASSUME Inv, [Next]_vars
  PROVE  Inv'
<1> USE DEF Inv
<1> QED BY TypeStep, CountStep, TopologicalStep, SortedAcyclicStep, EndStep, SearchStep, VerdictStep

\* When the queue runs empty, all jobs are sorted or the rest has a cycle.
LEMMA InvVerdict ==
  ASSUME Inv
  PROVE  BuildVerdict
<1>1. TypeOK /\ CountInv /\ SortedAcyclic /\ EndInv  BY DEF Inv
<1>2. Sorted \subseteq Nodes /\ IsFiniteSet(Sorted)  BY <1>1, SortedFinite
<1>3. ASSUME pc = "broken" PROVE ~Acyclic
  <2> DEFINE S == Nodes \ Sorted
  <2>1. ready = {} /\ Sorted # Nodes  BY <1>1, <1>3 DEF EndInv, CountInv
  <2>2. \A j \in S : Unmet(j) # {}  BY <1>1, <2>1 DEF CountInv
  <2>3. \A j \in S : \E i \in DOMAIN deps[j] : deps[j][i] \in S
    <3> TAKE j \in S
    <3>1. PICK i \in DOMAIN deps[j] : deps[j][i] \notin Sorted  BY <2>2 DEF Unmet
    <3>2. deps[j] \in Seq(Nodes)  BY <1>1 DEF TypeOK
    <3>3. deps[j][i] \in Nodes  BY <3>1, <3>2
    <3> QED BY <3>1, <3>3
  <2>4. S # {} /\ S \in SUBSET Nodes  BY <1>2, <2>1
  <2> QED BY <2>3, <2>4 DEF Acyclic
<1>4. ASSUME pc \in {"sorted", "search", "found"} PROVE Acyclic
  <2>1. Cardinality(Nodes) = Cardinality(Sorted)  BY <1>1, <1>4 DEF EndInv, CountInv
  <2>2. Sorted = Nodes  BY <1>2, <2>1, FS_Subset, GraphAssumption
  <2> QED BY <1>1, <2>2 DEF SortedAcyclic, Acyclic
<1> QED BY <1>3, <1>4 DEF BuildVerdict

LEMMA InvReplay ==
  ASSUME Inv
  PROVE  ReplayExact
<1> SUFFICES ASSUME pc = "found" PROVE visited = Downstream(from)
  BY DEF ReplayExact
<1>1. /\ from \subseteq visited /\ visited \subseteq Downstream(from)
      /\ \A d \in visited : Waiters(d) \subseteq visited
      /\ visited \in SUBSET Nodes
  BY DEF Inv, SearchInv, TypeOK
<1>2. Downstream(from) \subseteq visited  BY <1>1 DEF Downstream
<1> QED BY <1>1, <1>2

LEMMA Invariance == Spec => []Inv
<1>1. Init => Inv  BY InitInv
<1>2. Inv /\ [Next]_vars => Inv'  BY InvStep
<1> QED BY <1>1, <1>2, PTL DEF Spec

\* When the search has come to its end, it is done with every job.
LEMMA InvValidate ==
  ASSUME Inv
  PROVE  ValidateVerdict
<1>1. TypeOK /\ VerdictInv  BY DEF Inv
<1>2. ASSUME todo = {}, path = <<>>, pc # "cyclic" PROVE Acyclic
  <2>1. FinishedInv  BY <1>1, <1>2 DEF VerdictInv
  <2>2. OnPath(path) = {}  BY <1>2, EmptySeq DEF OnPath
  <2>3. Finished = Nodes  BY <1>1, <1>2, <2>1, <2>2 DEF FinishedInv, Finished, TypeOK
  <2> QED BY <2>1, <2>3, AcyclicMeans DEF FinishedInv
<1> QED BY <1>1, <1>2 DEF ValidateVerdict, VerdictInv

(***************************************************************************)
(* The graph, the stack of has_cycle, the counts and queues of kahn_sort   *)
(* and of downstream_inclusive are well-formed in every state; above all,  *)
(* indegree, a usize, is never taken below zero.                           *)
(***************************************************************************)
THEOREM TypeCorrect == Spec => []TypeOK
<1>1. Inv => TypeOK  BY DEF Inv
<1> QED BY <1>1, Invariance, PTL

(***************************************************************************)
(* has_cycle, called when a workflow is read: it reports a cycle exactly   *)
(* when there is one, for every graph and every order of its search.       *)
(***************************************************************************)
THEOREM ValidateRight == Spec => []ValidateVerdict
<1>1. Inv => ValidateVerdict  BY InvValidate
<1> QED BY <1>1, Invariance, PTL

(***************************************************************************)
(* Dag::build accepts a graph exactly when it has no cycle: what Workflow  *)
(* assumes of the graphs a run works on.                                   *)
(***************************************************************************)
THEOREM BuildRight == Spec => []BuildVerdict
<1>1. Inv => BuildVerdict  BY InvVerdict
<1> QED BY <1>1, Invariance, PTL

\* topo_order puts every job after its dependencies.
THEOREM OrderRight == Spec => []Topological
<1>1. Inv => Topological  BY DEF Inv
<1> QED BY <1>1, Invariance, PTL

\* downstream_inclusive finds the jobs that depend on the given one: all, and no other.
THEOREM ReplayRight == Spec => []ReplayExact
<1>1. Inv => ReplayExact  BY InvReplay
<1> QED BY <1>1, Invariance, PTL
=============================================================================
