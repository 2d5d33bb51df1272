------------------------------ MODULE Scheduler ------------------------------
(***************************************************************************)
(* The tasks an agent runs at intervals: backups with a retention,         *)
(* maintenance with one, synchronisation with a peer.  Each iteration      *)
(* opens the repository, runs a command, and goes back to sleep whatever   *)
(* came of it.  Checks and restores change nothing in the repository, and  *)
(* an iteration that cannot open it is no step.                            *)
(*                                                                         *)
(* Backups and maintenance take the lock of RepoLock, which takes them for *)
(* granted: that maintenance comes again is a matter of this module.       *)
(***************************************************************************)
EXTENDS Integers, FiniteSets

CONSTANTS
    Backups,        \* backup tasks; each is a job of its own
    Maintainers,    \* maintenance tasks
    Retention,      \* task -> how old a snapshot it leaves alone, 0 for no retention
    Old,            \* bound: no age is told from a greater one from here on
    Peer,           \* the snapshots of the peer of a synchronisation
    Default, AnyJob,
    TTL, Late, CanCrash, CanFail    \* of RepoLock

Lockers == Backups \cup Maintainers
Jobs    == Backups \cup {Default}

ASSUME SchedulerAssumption ==
    /\ Old \in Nat /\ Retention \in [Lockers -> 0 .. Old]
    /\ Backups \cap Maintainers = {} /\ \A m \in Maintainers : Retention[m] > 0
    /\ Peer \subseteq Jobs \X {Old}

VARIABLES
    locks, age, pc, unchecked, stale,   \* of RepoLock
    at,         \* task: where its iteration is
    begun,      \* backup task: how long ago its backup began
    snaps,      \* the snapshots, each its job and its age
    conf        \* the configuration of the tasks

lockVars  == <<locks, age, pc, unchecked, stale>>
schedVars == <<lockVars, at, begun, snaps, conf>>

Lock == INSTANCE RepoLock WITH Procs <- Lockers, Exclusive <- Maintainers

\* The name of a backup, which its retention looks for, may be left out of the
\* configuration, or may be that of the task, which is the job of its snapshots.
\* A synchronisation may bring snapshots from its peer, or only send some.
SchedulerInit ==
    /\ Lock!Init
    /\ at = [t \in Lockers |-> "asleep"]
    /\ begun = [t \in Backups |-> 0]
    /\ snaps = {}
    /\ conf \in [named : BOOLEAN, from : BOOLEAN]

Goto(t, l) == at' = [at EXCEPT ![t] = l]

-----------------------------------------------------------------------------
\* An iteration begins; the lock is the first thing a command asks for.
Start(t) ==
    /\ at[t] = "asleep"
    /\ Lock!PutLock(t)
    /\ Goto(t, "locking")
    /\ begun' = [b \in Backups |-> IF b = t THEN 0 ELSE begun[b]]
    /\ UNCHANGED <<snaps, conf>>

TryLock(t) ==
    /\ Lock!GetLocks(t) \/ Lock!GetLock(t) \/ Lock!Kick(t) \/ Lock!Locked(t) \/ Lock!DeleteLock(t)
    /\ UNCHANGED <<at, begun, snaps, conf>>

Refresh(t) == Lock!Refresh(t) /\ UNCHANGED <<at, begun, snaps, conf>>

\* Slip: the retention applies whether the backup succeeded or not.
AfterBackupAlways(t, ok) == IF Retention[t] > 0 THEN "purging" ELSE "asleep"

\* Obsolete snapshots are removed only after a backup that succeeded.
AfterBackup(t, ok) == IF ok /\ Retention[t] > 0 THEN "purging" ELSE "asleep"

\* A backup fails, or makes a snapshot; the check after it may find that bad.
RunBackup(t) ==
    /\ at[t] = "locking"
    /\ Lock!Unlock(t)
    /\ \E made, ok \in BOOLEAN :
          /\ ok => made
          /\ snaps' = IF made THEN snaps \cup {<<t, begun[t]>>} ELSE snaps
          /\ Goto(t, AfterBackup(t, ok))
    /\ UNCHANGED <<begun, conf>>

\* Maintenance: what it does is a matter of module Maintenance.  Its retention
\* comes next even if it failed.
RunMaintenance(m) ==
    /\ at[m] = "locking"
    /\ Lock!Unlock(m)
    /\ Goto(m, "purging")
    /\ UNCHANGED <<begun, snaps, conf>>

\* The lock was refused, and the own one deleted.
Refused(t) ==
    /\ at[t] = "locking" /\ pc[t] = "idle"
    /\ Goto(t, IF t \in Maintainers THEN "purging" ELSE AfterBackup(t, FALSE))
    /\ UNCHANGED <<lockVars, begun, snaps, conf>>

\* LocateSnapshotIDs: of any job if no job is given, and not after the time before
\* which they are to go.
Obsolete(t) ==
    LET job == IF t \in Backups /\ conf.named THEN t ELSE AnyJob
    IN  {s \in snaps : s[2] >= Retention[t] /\ job \in {s[1], AnyJob}}

\* The removals are goroutines, each may fail; that is logged.
Purge(t) ==
    /\ at[t] = "purging"
    /\ \E gone \in SUBSET Obsolete(t) : snaps' = snaps \ gone
    /\ Goto(t, "asleep")
    /\ UNCHANGED <<lockVars, begun, conf>>

\* A copied snapshot keeps its time; some may fail.  Synchronisation takes no lock.
SyncTask ==
    /\ conf.from
    /\ \E new \in SUBSET Peer : snaps' = snaps \cup new
    /\ UNCHANGED <<lockVars, at, begun, conf>>

\* The process of a task dies.
Die(t) ==
    /\ CanCrash /\ at[t] # "dead"
    /\ Goto(t, "dead")
    /\ \/ Lock!Crash(t)
       \/ ~Lock!Live(t) /\ UNCHANGED lockVars
    /\ UNCHANGED <<begun, snaps, conf>>

Older(n) == IF n < Old THEN n + 1 ELSE Old

Time ==
    /\ Lock!Tick \/ ((\A t \in locks : age[t] = TTL) /\ UNCHANGED lockVars)
    /\ snaps' = {<<s[1], Older(s[2])>> : s \in snaps}
    /\ begun' = [t \in Backups |-> IF at[t] \in {"locking", "purging"} THEN Older(begun[t]) ELSE begun[t]]
    /\ UNCHANGED <<at, conf>>

Step(t) ==
    \/ t \in Backups /\ RunBackup(t)
    \/ t \in Maintainers /\ RunMaintenance(t)
    \/ TryLock(t) \/ Refused(t) \/ Purge(t)

SchedulerNext ==
    \/ \E t \in Lockers : Start(t) \/ Step(t) \/ Refresh(t) \/ Die(t)
    \/ SyncTask \/ Time

SchedulerSpec == SchedulerInit /\ [][SchedulerNext]_schedVars

-----------------------------------------------------------------------------
\* The lock of a process that died goes, for as long as a maintenance task lives:
\* RepoLock has it of a process that comes back to the lock again and again, and
\* that a task is, whatever its iterations end with.
DeadLocksGo == \A t \in Lockers, m \in Maintainers :
    at[t] = "dead" ~> (t \notin locks \/ at[m] = "dead")

\* Whose retention, if it has one, is not longer than those of the others.
Shortest(t) == \A u \in Lockers : Retention[u] > 0 => Retention[t] <= Retention[u]

\* A retention never takes the last snapshot of the job it belongs to: it comes
\* after a new one.  Unless that backup took longer than the retention, or another
\* task with a shorter one has taken the new one by then; and there are three more
\* ways to lose the last snapshot, all in the configuration: the retention of
\* maintenance, that of another backup without a name (tasks.go:52, Job is another
\* field), and both of them at once.
KeepsOne ==
    [][\A t \in Backups :
          /\ at[t] = "purging" /\ at'[t] = "asleep" /\ begun[t] < Retention[t] /\ Shortest(t)
          /\ \E s \in snaps : s[1] = t
          => \E s \in snaps' : s[1] = t]_schedVars
=============================================================================
