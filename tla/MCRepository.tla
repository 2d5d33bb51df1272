---------------------------- MODULE MCRepository ----------------------------
(* Instances of Repository for TLC: two machines a and b, up to three        *)
(* processes, two of them on machine a.                                      *)
EXTENDS Repository, TLC

CONSTANTS a, b, p1, p2, p3

MCHost == [p \in Procs |-> IF p = p3 THEN b ELSE a]

Symmetry == Permutations(Blobs) \cup Permutations({p1, p2})
=============================================================================
