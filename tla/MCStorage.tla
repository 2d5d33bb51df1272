------------------------------ MODULE MCStorage ------------------------------
(* Two workers over a lock and a state.                                     *)
EXTENDS Storage

MCNames == {"lock1", "state1"}
MCDir == [n \in MCNames |-> IF n = "lock1" THEN "locks" ELSE "states"]
MCBucket == [n \in MCNames |-> IF n = "state1" THEN 2 ELSE 1]
MCBuckets == <<"00", "ff">>
=============================================================================
