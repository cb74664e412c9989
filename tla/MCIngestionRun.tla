-------------------------- MODULE MCIngestionRun ---------------------------
(* Instances of IngestionRun for TLC.                                      *)
EXTENDS IngestionRun, TLC

CONSTANTS r1, r2, f1, f2, w1, w2, q1, q2

\* One statement uploaded twice.
SameContent == [f \in File |-> "c1"]

RunSymmetry == Permutations(Run) \cup Permutations(Request)
============================================================================
