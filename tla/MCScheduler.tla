---------------------------- MODULE MCScheduler -----------------------------
(* Small workflows for the runs of Scheduler. *)
EXTENDS Scheduler

NoFunction == <<>>

\* a -> {b, c} -> d
DiamondDeps == [a |-> {}, b |-> {"a"}, c |-> {"a"}, d |-> {"b", "c"}]

On(y, eq, v) == [on |-> <<y>>, equal |-> eq, value |-> v]

\* a -> f.0, f.1 -> j (input_from f); a -> b (only if a failed) -> d;
\* b -> c (only if b was skipped); c, d, j -> e (only if c succeeded)
ShapesJobs == {"a", "b", "c", "d", "e", "f", "j"}
ShapesDeps == [a |-> {}, b |-> {"a"}, c |-> {"b"}, d |-> {"b"}, e |-> {"c", "d", "j"},
               f |-> {"a"}, j |-> {}]
ShapesWhen == [b |-> On("a", TRUE, "FAILED"), c |-> On("b", TRUE, "SKIPPED"),
               e |-> On("c", TRUE, "SUCCESS")]
TwoItems   == [f |-> 2]
FanIn      == [j |-> "f"]

\* a -> b (only if a failed); a, b -> c (only if a succeeded)
TwiceDeps == [a |-> {}, b |-> {"a"}, c |-> {"a", "b"}]
TwiceWhen == [b |-> On("a", TRUE, "FAILED"), c |-> On("a", TRUE, "SUCCESS")]
=============================================================================
