---------------------------- MODULE RepoLockProofs ----------------------------
(***************************************************************************)
(* Theorems about RepoLock, for any number of backups and maintenance runs *)
(* and any TTL, as long as no live process lets its lock become stale.     *)
(***************************************************************************)
EXTENDS RepoLock, TLAPS

\* Every variable keeps its type, late processes or not.
THEOREM TypeCorrect == Spec => []TypeOK
<1>1. Init => TypeOK
  BY LockAssumption DEF Init, TypeOK, PCs
<1>2. TypeOK /\ [Next]_vars => TypeOK'
  <2> SUFFICES ASSUME TypeOK, [Next]_vars PROVE TypeOK'
    OBVIOUS
  <2> USE LockAssumption DEF TypeOK, PCs, Goto, Write
  <2>1. ASSUME NEW p \in Procs, PutLock(p) PROVE TypeOK'
    BY <2>1 DEF PutLock
  <2>2. ASSUME NEW p \in Procs, GetLocks(p) PROVE TypeOK'
    BY <2>2 DEF GetLocks
  <2>3. ASSUME NEW p \in Procs, GetLock(p) PROVE TypeOK'
    BY <2>3 DEF GetLock, Refuse
  <2>4. ASSUME NEW p \in Procs, Kick(p) PROVE TypeOK'
    BY <2>4 DEF Kick
  <2>5. ASSUME NEW p \in Procs, Locked(p) \/ Unlock(p) PROVE TypeOK'
    BY <2>5 DEF Locked, Unlock
  <2>6. ASSUME NEW p \in Procs, Refresh(p) PROVE TypeOK'
    BY <2>6 DEF Refresh
  <2>7. ASSUME NEW p \in Procs, DeleteLock(p) PROVE TypeOK'
    BY <2>7 DEF DeleteLock
  <2>8. ASSUME NEW p \in Procs, Crash(p) PROVE TypeOK'
    BY <2>8 DEF Crash
  <2>9. CASE Tick
    BY <2>9 DEF Tick
  <2>10. CASE UNCHANGED vars
    BY <2>10 DEF vars
  <2> QED BY <2>1, <2>2, <2>3, <2>4, <2>5, <2>6, <2>7, <2>8, <2>9, <2>10 DEF Next, Attempt
<1> QED BY <1>1, <1>2, PTL DEF Spec

-----------------------------------------------------------------------------
\* The lock of a live process is in the store, and fresh.
Visible == \A p \in Procs : Live(p) => p \in locks /\ ~ IsStale(p)

\* A process that is not trying has no lock, and only the locks of dead processes
\* are about to be deleted.
Settled == /\ \A p \in Procs : pc[p] = "idle" => p \notin locks
           /\ \A p \in Procs : \A q \in stale[p] : pc[q] = "dead"

\* p has found nothing of q in its way.
Passed(p, q) == \/ pc[p] = "holding"
                \/ pc[p] \in {"checking", "kicking"} /\ q \notin unchecked[p]

\* Of two processes in conflict, one has not passed the other.
Separated == \A p, q \in Procs : Conflict(p, q) /\ Passed(p, q) => ~ Passed(q, p)

LockInv == TypeOK /\ Visible /\ Settled /\ Separated

\* Only the locks of dead processes become stale or are deleted by others.
LEMMA VisibleStep ==
    ASSUME Late = {}, TypeOK, Visible, Settled, [Next]_vars
    PROVE  Visible' /\ Settled'
<1> USE LockAssumption DEF TypeOK, PCs, Goto, Write, Visible, Settled, Live, IsStale
<1>1. ASSUME NEW p \in Procs, PutLock(p) PROVE Visible' /\ Settled'
  BY <1>1 DEF PutLock
<1>2. ASSUME NEW p \in Procs, GetLocks(p) PROVE Visible' /\ Settled'
  BY <1>2 DEF GetLocks
<1>3. ASSUME NEW p \in Procs, GetLock(p) PROVE Visible' /\ Settled'
  BY <1>3 DEF GetLock, Refuse
<1>4. ASSUME NEW p \in Procs, Kick(p) PROVE Visible' /\ Settled'
  BY <1>4 DEF Kick
<1>5. ASSUME NEW p \in Procs, Locked(p) \/ Unlock(p) PROVE Visible' /\ Settled'
  BY <1>5 DEF Locked, Unlock
<1>6. ASSUME NEW p \in Procs, Refresh(p) PROVE Visible' /\ Settled'
  BY <1>6 DEF Refresh
<1>7. ASSUME NEW p \in Procs, DeleteLock(p) PROVE Visible' /\ Settled'
  BY <1>7 DEF DeleteLock
<1>8. ASSUME NEW p \in Procs, Crash(p) PROVE Visible' /\ Settled'
  BY <1>8 DEF Crash
<1>9. CASE Tick
  BY <1>9 DEF Tick
<1>10. CASE UNCHANGED vars
  BY <1>10 DEF vars
<1> QED BY <1>1, <1>2, <1>3, <1>4, <1>5, <1>6, <1>7, <1>8, <1>9, <1>10 DEF Next, Attempt

\* A process passes another only when that one is out: it has no lock yet, or is
\* dead.
LEMMA SeparatedStep ==
    ASSUME Late = {}, LockInv, [Next]_vars
    PROVE  Separated'
<1> USE DEF LockInv, TypeOK, PCs, Goto, Write
<1>1. ASSUME NEW p \in Procs, PutLock(p) PROVE Separated'
  BY <1>1 DEF PutLock, Separated, Passed
<1>2. ASSUME NEW p \in Procs, GetLocks(p) PROVE Separated'
  <2>1. \A q \in Procs : Passed(q, p) => q \in locks
    BY DEF Passed, Visible, Live
  <2> QED BY <1>2, <2>1 DEF GetLocks, Separated, Passed, Conflict
<1>3. ASSUME NEW p \in Procs, GetLock(p) PROVE Separated'
  <2>1. \A q \in locks : IsStale(q) => ~ Passed(q, p)
    BY DEF Passed, Visible, Live
  <2> QED BY <1>3, <2>1 DEF GetLock, Refuse, Separated, Passed, Conflict
<1>4. ASSUME NEW p \in Procs, Kick(p) PROVE Separated'
  BY <1>4 DEF Kick, Separated, Passed
<1>5. ASSUME NEW p \in Procs, Locked(p) \/ Unlock(p) PROVE Separated'
  BY <1>5 DEF Locked, Unlock, Separated, Passed
<1>6. ASSUME NEW p \in Procs, Refresh(p) PROVE Separated'
  BY <1>6 DEF Refresh, Separated, Passed
<1>7. ASSUME NEW p \in Procs, DeleteLock(p) PROVE Separated'
  BY <1>7 DEF DeleteLock, Separated, Passed
<1>8. ASSUME NEW p \in Procs, Crash(p) PROVE Separated'
  BY <1>8 DEF Crash, Separated, Passed
<1>9. CASE Tick
  BY <1>9 DEF Tick, Separated, Passed
<1>10. CASE UNCHANGED vars
  BY <1>10 DEF vars, Separated, Passed
<1> QED BY <1>1, <1>2, <1>3, <1>4, <1>5, <1>6, <1>7, <1>8, <1>9, <1>10 DEF Next, Attempt

\* LockInv is an invariant when no live process is late.
THEOREM LockInvariant == ASSUME Late = {} PROVE Spec => []LockInv
<1>1. Init => Visible /\ Settled /\ Separated
  BY DEF Init, Visible, Settled, Separated, Passed, Live
<1>2. TypeOK /\ Visible /\ Settled /\ Separated /\ [Next]_vars
        => Visible' /\ Settled' /\ Separated'
  BY VisibleStep, SeparatedStep DEF LockInv
<1> QED BY <1>1, <1>2, TypeCorrect, PTL DEF Spec, LockInv

\* Maintenance never runs beside a backup or another maintenance.
THEOREM LocksExclude == ASSUME Late = {} PROVE Spec => []Exclusion
<1>1. LockInv => Exclusion
  BY DEF LockInv, Separated, Passed, Exclusion, holders
<1> QED BY <1>1, LockInvariant, PTL

\* The lock of a holder stays in the store for the others to see.
THEOREM HoldersAreVisible == ASSUME Late = {} PROVE Spec => []HolderIsVisible
<1>1. LockInv => HolderIsVisible
  BY DEF LockInv, Visible, Live, HolderIsVisible, holders
<1> QED BY <1>1, LockInvariant, PTL

\* Lock and Unlock implement the reader-writer lock that Repository and
\* Maintenance rely on.
THEOREM ImplementsRWLock == ASSUME Late = {} PROVE Spec => IsRWLock
<1>1. Init => Abstract!Init
  BY DEF Init, Abstract!Init, holders
<1>2. LockInv /\ LockInv' /\ [Next]_vars => [Abstract!Next]_holders
  <2> SUFFICES ASSUME LockInv, LockInv', [Next]_vars PROVE [Abstract!Next]_holders
    OBVIOUS
  <2> USE DEF LockInv, TypeOK, Goto
  <2>1. ASSUME NEW p \in Procs, Locked(p) PROVE Abstract!Acquire(p)
    <3>1. holders' = holders \cup {p}
      BY <2>1 DEF Locked, holders
    <3>2. \A q \in holders : ~ Conflict(p, q)
      BY <2>1 DEF Locked, holders, Separated, Passed
    <3> QED BY <3>1, <3>2 DEF Abstract!Acquire, Abstract!Conflict, Conflict
  <2>2. ASSUME NEW p \in Procs, Unlock(p) \/ Crash(p) PROVE Abstract!Release(p)
    BY <2>2 DEF Unlock, Crash, holders, Abstract!Release
  <2>3. ASSUME NEW p \in Procs, PutLock(p) \/ GetLocks(p) \/ GetLock(p) \/ Kick(p) \/ DeleteLock(p)
        PROVE  UNCHANGED holders
    BY <2>3 DEF PutLock, GetLocks, GetLock, Refuse, Kick, DeleteLock, holders
  <2>4. ASSUME NEW p \in Procs, Refresh(p) PROVE UNCHANGED holders
    BY <2>4 DEF Refresh, holders
  <2>5. ASSUME Tick \/ UNCHANGED vars PROVE UNCHANGED holders
    BY <2>5 DEF Tick, vars, holders
  <2> QED BY <2>1, <2>2, <2>3, <2>4, <2>5 DEF Next, Attempt, Abstract!Next
<1> QED BY <1>1, <1>2, LockInvariant, PTL DEF Spec, IsRWLock, Abstract!Spec
=============================================================================
