-------------------------- MODULE MCHostExecution ---------------------------
(* A job with a pinned file and one that pulls its component in one        *)
(* process, run_from_oci in another, linked with another wasmtime; one of  *)
(* the artifacts in the directory is of neither version.                   *)
EXTENDS HostExecution

TwoVersions  == [h1 |-> "v1", h2 |-> "v2"]
ThreeHostOf  == [local |-> "h1", pulled |-> "h1", direct |-> "h2"]
ThreePathOf  == [local |-> "hello", pulled |-> "tmp"]
LeftGarbage  == [c2 |-> "garbage"]
ThreePin     == [local |-> "c1", pulled |-> "c1"]
InPairs      == {{"local", "pulled"}, {"local", "direct"}}
=============================================================================
