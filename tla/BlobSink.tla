------------------------------- MODULE BlobSink -------------------------------
(***************************************************************************)
(* What the packer of a snapshot promises: it accepts blobs, stores them   *)
(* sooner or later, and is closed only when it has stored all of them.     *)
(* Repository relies on this: StorePackfile and IndexPackfile store the    *)
(* accepted blobs in any order, and Commit waits for the last.             *)
(***************************************************************************)
CONSTANTS Blobs, Known  \* Known: what the repository has beforehand

VARIABLES accepted, stored, closed

Init == accepted = {} /\ stored = Known /\ closed = FALSE

Accept(b) == /\ ~ closed
             /\ accepted' = accepted \cup {b}
             /\ UNCHANGED <<stored, closed>>

Store(bs) == /\ ~ closed
             /\ stored' = stored \cup bs
             /\ UNCHANGED <<accepted, closed>>

Close == /\ accepted \subseteq stored
         /\ closed' = TRUE
         /\ UNCHANGED <<accepted, stored>>

Next == \/ \E b \in Blobs : Accept(b)
        \/ \E bs \in SUBSET accepted : Store(bs)
        \/ Close

Spec == Init /\ [][Next]_<<accepted, stored, closed>>
=============================================================================
