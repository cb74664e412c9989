------------------------- MODULE MCRecategorization -------------------------
(* Small instances of Recategorization for TLC.                            *)
EXTENDS Recategorization, TLC

CONSTANTS food, travel

\* UNSURE and one category a transaction may be given.
OneRealCategory == {food}
UnsureAndOne == {Unsure, food}

\* Transactions, jobs and requests are interchangeable.
Symmetric == Permutations(Transaction) \cup Permutations(Job) \cup Permutations(Request)
============================================================================
