-------------------------- MODULE MCRequestTracing --------------------------
(* Small instances of RequestTracing for TLC.                               *)
EXTENDS RequestTracing, TLC

CONSTANTS t1, t2, r1, r2, s1, s2, s3

TwoThreads  == {t1, t2}
TwoRequests == {r1, r2}
ThreeSpans  == {s1, s2, s3}

Symmetry == Permutations(TwoThreads) \cup Permutations(TwoRequests)
=============================================================================
