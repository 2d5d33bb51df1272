------------------------------ MODULE MCRepoLock ------------------------------
(* Instances of RepoLock for TLC: backups b1 and b2, maintenance runs m1, m2. *)
EXTENDS RepoLock, TLC

CONSTANTS b1, b2, m1, m2

Symmetry == Permutations({b1, b2}) \cup Permutations({m1, m2})
=============================================================================
