--------------------------- MODULE MCOciRegistry ----------------------------
(***************************************************************************)
(* Three commands, one of them elsewhere, on two repositories whose last   *)
(* segments agree.                                                         *)
(***************************************************************************)
EXTENDS OciRegistry, TLC

CONSTANTS x, y, w
AnyOrder  == Permutations(Commands \ {w})
Elsewhere == [c \in Commands |-> IF c = w THEN "tmp" ELSE "home"]

Named(repo, t, d) == [repo |-> repo, tag |-> t, digest |-> d]
SomeRefs == {Named("org/hello", "v1", None), Named("org/hello", "v1", "c1"),
             Named("org/hello", None, "c1"), Named("lab/hello", "v1", None)}

SameFile == [r \in Repos |-> "hello.wasm"]
=============================================================================
