------------------------------- MODULE MCPacker -------------------------------
(* Instances of Packer for TLC: both clients want blob x, one each wants y, z. *)
EXTENDS Packer, TLC, FiniteSets

CONSTANTS c1, c2, w1, w2, x, y, z, h

MCWants == [c \in Clients |-> IF c = c1 THEN {x, y} ELSE {x, z}]

\* Packfiles of two blobs or more are over the maximal size.
MCFull == {bs \in SUBSET Blobs : Cardinality(bs) > 1}

Symmetry == Permutations(Workers)
=============================================================================
