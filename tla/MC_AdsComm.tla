----------------------------- MODULE MC_AdsComm -----------------------------
(* Model-checking instance of AdsComm: two caller threads, model values.   *)
EXTENDS AdsComm

CONSTANTS c1, c2

MCCallers == {c1, c2}


\* Callers are interchangeable threads (safety runs only).
CallerSymmetry == Permutations(MCCallers)

=============================================================================
