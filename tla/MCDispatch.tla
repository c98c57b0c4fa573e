----------------------------- MODULE MCDispatch -----------------------------
(* Two jobs and two workers; effective_workers found both or one of them.  *)
EXTENDS Dispatch

CONSTANTS w1, w2
OneOrBoth == {<<w1, w2>>, <<w2>>}
=============================================================================
