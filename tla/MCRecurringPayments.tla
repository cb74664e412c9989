----------------------- MODULE MCRecurringPayments ------------------------
(* An instance of RecurringPayments for TLC.                               *)
EXTENDS RecurringPayments, TLC

CONSTANTS p1, p2, t1, t2, t3, f1, f2, c1, c2, d1, d2, k1, k2, r1, r2

\* Two transactions of one file and one of another.
TheFiles == [t \in Transaction |-> IF t = t3 THEN f2 ELSE f1]

\* Under d1 they all fall in one cycle; under d2 the second falls in another
\* and the third lies outside the window.
TheCycles == [d \in Due |-> [t \in Transaction |->
                 CASE d = d2 /\ t = t2 -> c2
                   [] d = d2 /\ t = t3 -> NoCycle
                   [] OTHER -> c1]]

\* Two descriptions of one merchant.
ThePatterns == [t \in Transaction |-> IF t = t2 /\ k2 \in Pattern THEN k2 ELSE k1]

RequestSymmetry == Permutations(Request)
============================================================================
