---------------------------- MODULE MCWorkerPool ----------------------------
(* A run over two workers of its file, and one that finds a worker by its  *)
(* SRV record or asks the registry.                                        *)
EXTENDS WorkerPool

TwoStatic == [file |-> <<[url |-> "w1", weight |-> 2], [url |-> "w2", weight |-> 1]>>,
              table |-> <<>>]
TwoSrv == [file |-> {}, table |-> {<<"w2">>}]
TwoStrategies == [file |-> {"weighted", "least_conn"}, table |-> {"weighted", "round_robin"}]
=============================================================================
