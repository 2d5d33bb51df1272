---------------------------- MODULE MCMaintenance ---------------------------
(* Instances of Maintenance for TLC: machine a with two processes, machine b *)
(* with one.                                                                 *)
EXTENDS Maintenance, TLC

CONSTANTS a, b, p1, p2, p3

MCHost == [p \in Procs |-> IF p = p3 THEN b ELSE a]

\* What is never put again is part of the value of an attribute.
MCAttached == [bs \in SUBSET Blobs |-> bs \ Rewritten]

Symmetry == Permutations(Blobs) \cup Permutations({p1, p2})
=============================================================================
