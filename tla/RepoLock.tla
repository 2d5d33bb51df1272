------------------------------- MODULE RepoLock -------------------------------
(***************************************************************************)
(* The locks of a repository (repository/lock.go, Snapshot.Lock,           *)
(* Maintenance.Lock).  A lock is a file of the store: whoever wants one    *)
(* writes its own, then reads all the others and withdraws if one is in    *)
(* its way.  A lock that nobody has rewritten for LOCK_TTL is stale, and   *)
(* whoever reads it deletes it.  The store offers no atomic operation on   *)
(* two locks.                                                              *)
(***************************************************************************)
EXTENDS Naturals

CONSTANTS
    Procs,      \* backups and maintenance runs, each with its own lock file
    Exclusive,  \* the maintenance runs
    TTL,        \* LOCK_TTL, in units in which a holder can refresh
    Late,       \* where a live process may let its own lock become stale
    CanCrash,   \* may processes die?
    CanFail     \* may the store refuse an operation on the locks?

ASSUME LockAssumption == /\ TTL \in Nat \ {0} /\ Exclusive \subseteq Procs
                         /\ CanCrash \in BOOLEAN /\ CanFail \in BOOLEAN

VARIABLES
    locks,      \* store: whose lock is there
    age,        \* store: how long ago each was written, TTL at most
    pc,         \* process: where it is
    unchecked,  \* process: locks it listed and has still to read
    stale       \* process: the stale lock it is about to delete

vars == <<locks, age, pc, unchecked, stale>>

PCs == {"idle", "listing", "checking", "kicking", "refused", "holding", "unlocking", "dead"}

Live(p) == pc[p] \notin {"idle", "dead"}

\* Slip: a lock is stale as soon as its refresh is due.
IsStaleSoon(q) == age[q] > 0

IsStale(q) == age[q] >= TTL

\* Slip: a backup does not look for maintenance.
ConflictOneWay(p, q) == p # q /\ p \in Exclusive

Conflict(p, q) == p # q /\ (p \in Exclusive \/ q \in Exclusive)

TypeOK ==
    /\ locks \subseteq Procs
    /\ age \in [Procs -> 0 .. TTL]
    /\ pc \in [Procs -> PCs]
    /\ unchecked \in [Procs -> SUBSET Procs]
    /\ stale \in [Procs -> SUBSET Procs]
    /\ \A p \in Procs : /\ unchecked[p] # {} => pc[p] \in {"checking", "kicking"}
                        /\ stale[p] # {} <=> pc[p] = "kicking"

Init ==
    /\ locks = {}
    /\ age = [p \in Procs |-> 0]
    /\ pc = [p \in Procs |-> "idle"]
    /\ unchecked = [p \in Procs |-> {}]
    /\ stale = [p \in Procs |-> {}]

Goto(p, l) == pc' = [pc EXCEPT ![p] = l]

\* A lock is written with the time it is written at.
Write(p) == /\ locks' = locks \cup {p}
            /\ age' = [age EXCEPT ![p] = 0]

\* Slip: look first, then install.
PutLockLate(p) ==
    /\ pc[p] = "idle"
    /\ Goto(p, "listing")
    /\ UNCHANGED <<locks, age, unchecked, stale>>

\* Install the lock first ...
PutLock(p) ==
    /\ pc[p] = "idle"
    /\ Write(p)
    /\ Goto(p, "listing")
    /\ UNCHANGED <<unchecked, stale>>

\* ... then list the locks.  Maintenance skips its own, a backup reads it too.
GetLocks(p) ==
    /\ pc[p] = "listing"
    /\ \/ /\ unchecked' = [unchecked EXCEPT
                ![p] = IF p \in Exclusive THEN locks \ {p} ELSE locks]
          /\ Goto(p, "checking")
       \/ /\ CanFail
          /\ Goto(p, "refused")
          /\ UNCHANGED unchecked
    /\ UNCHANGED <<locks, age, stale>>

\* Slip: the loop over the locks goes on after the refusal.
RefuseGoingOn(p) == Goto(p, "refused") /\ UNCHANGED <<unchecked, stale>>

Refuse(p) == /\ Goto(p, "refused")
             /\ unchecked' = [unchecked EXCEPT ![p] = {}]
             /\ UNCHANGED stale

\* Read one of them.  That may fail; a lock gone since the listing is an error too.
GetLock(p) ==
    /\ pc[p] = "checking"
    /\ \E q \in unchecked[p] :
        \/ /\ q \notin locks \/ CanFail
           /\ Refuse(p)
        \/ /\ q \in locks /\ IsStale(q)
           /\ stale' = [stale EXCEPT ![p] = {q}]
           /\ unchecked' = [unchecked EXCEPT ![p] = @ \ {q}]
           /\ Goto(p, "kicking")
        \/ /\ q \in locks /\ ~ IsStale(q) /\ Conflict(p, q)
           /\ Refuse(p)
        \/ /\ q \in locks /\ ~ IsStale(q) /\ ~ Conflict(p, q)
           /\ unchecked' = [unchecked EXCEPT ![p] = @ \ {q}]
           /\ UNCHANGED <<pc, stale>>
    /\ UNCHANGED <<locks, age>>

\* Slip: the attempt fails before the stale lock is deleted.
KickLast(p) ==
    /\ pc[p] = "kicking"
    /\ \E q \in stale[p] :
        IF Conflict(p, q)
          THEN /\ Goto(p, "refused") /\ unchecked' = [unchecked EXCEPT ![p] = {}]
               /\ UNCHANGED locks
          ELSE Goto(p, "checking") /\ locks' = locks \ {q} /\ UNCHANGED unchecked
    /\ stale' = [stale EXCEPT ![p] = {}]
    /\ UNCHANGED age

\* Delete the stale lock that was read, whoever has refreshed it since.  It still
\* counts: a stale lock in the way makes this attempt fail, as does a deletion that
\* fails, because another has deleted it, say.
Kick(p) ==
    /\ pc[p] = "kicking"
    /\ \E q \in stale[p] :
        \/ /\ locks' = locks \ {q}
           /\ IF Conflict(p, q)
                THEN Goto(p, "refused") /\ unchecked' = [unchecked EXCEPT ![p] = {}]
                ELSE Goto(p, "checking") /\ UNCHANGED unchecked
        \/ /\ q \notin locks \/ CanFail
           /\ Goto(p, "refused") /\ unchecked' = [unchecked EXCEPT ![p] = {}]
           /\ UNCHANGED locks
    /\ stale' = [stale EXCEPT ![p] = {}]
    /\ UNCHANGED age

Locked(p) ==
    /\ pc[p] = "checking" /\ unchecked[p] = {}
    /\ Goto(p, "holding")
    /\ UNCHANGED <<locks, age, unchecked, stale>>

\* The ping goroutine rewrites the lock, without looking whether it is still there.
Refresh(p) ==
    /\ pc[p] \in {"holding", "unlocking"}
    /\ Write(p)
    /\ UNCHANGED <<pc, unchecked, stale>>

\* Unlock only tells the ping goroutine, which deletes the lock when it runs.
Unlock(p) ==
    /\ pc[p] = "holding"
    /\ Goto(p, "unlocking")
    /\ UNCHANGED <<locks, age, unchecked, stale>>

\* The own lock is deleted, by the ping goroutine or because the attempt failed.
\* Nobody tries again if the store refuses: the lock stays until it is stale.
DeleteLock(p) ==
    /\ pc[p] \in {"refused", "unlocking"}
    /\ \/ /\ locks' = locks \ {p}
          /\ Goto(p, "idle")
       \/ /\ CanFail
          /\ Goto(p, "dead")
          /\ UNCHANGED locks
    /\ UNCHANGED <<age, unchecked, stale>>

\* The process dies, or ends before its ping goroutine has run.
Crash(p) ==
    /\ CanCrash /\ Live(p)
    /\ Goto(p, "dead")
    /\ unchecked' = [unchecked EXCEPT ![p] = {}]
    /\ stale' = [stale EXCEPT ![p] = {}]
    /\ UNCHANGED <<locks, age>>

\* Time passes.  A process that is not late has acquired its lock, or written it
\* again, before it is stale: refreshes come twice as often as the TTL.
Tick ==
    /\ \E p \in locks : age[p] < TTL
    /\ \A p \in Procs : Live(p) /\ pc[p] \notin Late => age[p] + 1 < TTL
    /\ age' = [p \in Procs |-> IF p \in locks /\ age[p] < TTL THEN age[p] + 1 ELSE age[p]]
    /\ UNCHANGED <<locks, pc, unchecked, stale>>

Attempt(p) == GetLocks(p) \/ GetLock(p) \/ Kick(p) \/ Locked(p) \/ Unlock(p) \/ DeleteLock(p)

Next == (\E p \in Procs : PutLock(p) \/ Attempt(p) \/ Refresh(p) \/ Crash(p)) \/ Tick

Spec == Init /\ [][Next]_vars
-----------------------------------------------------------------------------
holders == {p \in Procs : pc[p] = "holding"}

\* Maintenance never runs beside a backup or another maintenance: each writes its
\* lock before it reads the others', so one of two sees the other's.
Exclusion == \A p, q \in holders : ~ Conflict(p, q)

\* The lock of a holder is there for the next one to see: nobody takes it for
\* stale or deletes it, unless its holder was late.
HolderIsVisible == \A p \in holders : p \in locks

\* Lock and Unlock are those of a reader-writer lock that may refuse.
Abstract == INSTANCE RWLock
IsRWLock == Abstract!Spec
=============================================================================
