--------------------------- MODULE MCWorkerLoop ----------------------------
(* An instance of WorkerLoop for TLC.                                      *)
EXTENDS WorkerLoop, TLC

CONSTANTS t1, p1, p2, n1, n2

TheAges == [r \in Row |-> CASE r = t1 -> 0 [] r = p1 -> 1 [] OTHER -> 2]
============================================================================
