---------------------------- MODULE MCRunHistory ----------------------------
(* Two runs of two jobs each, and one reader.                              *)
EXTENDS RunHistory, TLC

CONSTANTS r1, r2, a, b
Alike == Permutations({r1, r2}) \cup Permutations({a, b})
=============================================================================
