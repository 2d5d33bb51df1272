-------------------------------- MODULE RWLock --------------------------------
(***************************************************************************)
(* What the lock of a repository promises: backups share it, maintenance   *)
(* has it alone, and whoever asks may be refused.  Repository and          *)
(* Maintenance rely on this; RepoLock is how the code does it.             *)
(***************************************************************************)
CONSTANTS Procs, Exclusive

VARIABLE holders

Conflict(p, q) == p # q /\ (p \in Exclusive \/ q \in Exclusive)

Init == holders = {}

Acquire(p) == /\ \A q \in holders : ~ Conflict(p, q)
              /\ holders' = holders \cup {p}

Release(p) == holders' = holders \ {p}

Next == \E p \in Procs : Acquire(p) \/ Release(p)

Spec == Init /\ [][Next]_holders
=============================================================================
