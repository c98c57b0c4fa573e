------------------------- MODULE MCDependencyGraph -------------------------
(* Every graph on three jobs with up to two dependencies each: loops and   *)
(* cycles, repeated dependencies, paths that meet.                         *)
EXTENDS DependencyGraph

UpToTwo == {<<>>} \cup {<<a>> : a \in Nodes} \cup {<<a, b>> : a, b \in Nodes}
AllGraphs == [Nodes -> UpToTwo]
=============================================================================
