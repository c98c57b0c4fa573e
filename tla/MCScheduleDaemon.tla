-------------------------- MODULE MCScheduleDaemon --------------------------
(* Two schedules: one every other second, one at seconds 1 and 3 and then  *)
(* never again.                                                            *)
EXTENDS ScheduleDaemon

Every(n) == [t \in 0 .. Horizon |-> n * (t \div n + 1)]
OneAndThree == [t \in 0 .. Horizon |-> IF t < 1 THEN 1 ELSE IF t < 3 THEN 3 ELSE Never]
Occurrences == [s2 |-> Every(2), s3 |-> OneAndThree]
=============================================================================
