----------------------------- MODULE Repository -----------------------------
(***************************************************************************)
(* A repository shared by several machines: the store (state files and     *)
(* packfiles), the cache each machine keeps of the aggregated state, and   *)
(* the processes that open it, back up to it and remove snapshots from it. *)
(*                                                                         *)
(* A process is a command.  Those of a machine that run at the same time   *)
(* do so in its agent, and work on one cache (caching.Manager.Repository;  *)
(* outside the agent a second command is refused the cache): what one of   *)
(* them indexes the others see at once, and it stays there if it dies.     *)
(***************************************************************************)
EXTENDS LocalState

CONSTANTS
    Machines, Procs,
    Host,        \* the machine a process runs on
    StateIds,    \* identifiers of state files
    Cookied,     \* machines whose cache already has this client's cookie
    CanCrash,    \* may processes die?
    CanFailPush, \* may the store refuse a state file?
    Rewritten,   \* blobs a backup may store again: objects and entries
    Sources,     \* bound: the sets of blobs a snapshot may consist of
    Removable,   \* bound: the snapshots rm may be asked to remove, once each
    MaxActive,   \* bound: processes working at the same time
    MaxTicks,    \* bound: hourly flushes of a backup's delta state
    MaxTime      \* bound: the clock

ASSUME HostAssumption == Host \in [Procs -> Machines]
ASSUME BoundsAssumption == /\ MaxActive \in Nat /\ MaxTicks \in Nat /\ MaxTime \in Nat
                           /\ CanCrash \in BOOLEAN /\ CanFailPush \in BOOLEAN
                           /\ Cookied \subseteq Machines
                           /\ Sources \subseteq (SUBSET Blobs) \ {{}}
                           /\ Rewritten \subseteq Blobs

VARIABLES
    states,     \* store: content of the state files
    published,  \* store: which state files exist
    packfile,   \* store: the packfiles, [items, time]; no items: not there
    cache,      \* machine: its aggregated state
    known,      \* machine: state files already merged in its cache
    cookie,     \* machine: has its cache the cookie of the client version?
    pc,         \* process: where it is
    missing,    \* process: states it listed and has still to merge
    snap,       \* process: the snapshot it is writing, if any
    todo,       \* process: blobs of the snapshot still to be handed over
    inflight,   \* process: blobs in its packer, not indexed yet
    flushing,   \* process: packfile it has stored and not indexed yet, if any
    delta,      \* process: the delta state of the backup
    pushing,    \* process: delta state swapped out and not pushed yet, if any
    ticks,      \* process: flushes so far
    needs,      \* history: the blobs of each snapshot
    acked,      \* history: snapshots whose backup reported success, and where
    removed,    \* history: snapshots rm was asked to remove
    lost,       \* history: locations indexed by backups that never pushed them
    now

storeVars == <<states, published, packfile>>
cacheVars == <<cache, known, cookie>>
procVars  == <<missing, snap, todo, inflight, flushing, delta, pushing, ticks>>
histVars  == <<needs, acked, removed, lost>>
vars == <<storeVars, cacheVars, pc, procVars, histVars, now>>

\* "exclusive" is a process under the exclusive lock: only Maintenance takes it.
BackupPcs == {"backup", "commit"}
PCs == {"idle", "opening", "ready", "exclusive"} \cup BackupPcs

TypeOK ==
    /\ states \in [StateIds -> State]
    /\ published \subseteq StateIds
    /\ packfile \in [Packfiles -> [items : SUBSET Items, time : Nat]]
    /\ cache \in [Machines -> State]
    /\ known \in [Machines -> SUBSET StateIds]
    /\ cookie \in [Machines -> BOOLEAN]
    /\ pc \in [Procs -> PCs]
    /\ missing \in [Procs -> SUBSET StateIds]
    /\ snap \in [Procs -> SUBSET Snapshots]
    /\ todo \in [Procs -> SUBSET Blobs]
    /\ inflight \in [Procs -> SUBSET Items]
    /\ flushing \in [Procs -> SUBSET Packfiles]
    /\ delta \in [Procs -> State]
    /\ pushing \in [Procs -> SUBSET State]
    /\ ticks \in [Procs -> Nat]
    /\ needs \in [Snapshots -> SUBSET Blobs]
    /\ acked \subseteq Snapshots \X Machines
    /\ removed \subseteq Snapshots
    /\ lost \in [Machines -> SUBSET Locations]
    /\ now \in Nat
    /\ \A p \in Procs :
        /\ pc[p] \in BackupPcs <=> snap[p] # {}
        /\ todo[p] # {} => pc[p] = "backup"

Init ==
    /\ states = [i \in StateIds |-> EmptyState]
    /\ published = {}
    /\ packfile = [k \in Packfiles |-> [items |-> {}, time |-> 0]]
    /\ cache = [m \in Machines |-> EmptyState]
    /\ known = [m \in Machines |-> {}]
    /\ cookie = [m \in Machines |-> m \in Cookied]
    /\ pc = [p \in Procs |-> "idle"]
    /\ missing = [p \in Procs |-> {}]
    /\ snap = [p \in Procs |-> {}]
    /\ todo = [p \in Procs |-> {}]
    /\ inflight = [p \in Procs |-> {}]
    /\ flushing = [p \in Procs |-> {}]
    /\ delta = [p \in Procs |-> EmptyState]
    /\ pushing = [p \in Procs |-> {}]
    /\ ticks = [p \in Procs |-> 0]
    /\ needs = [s \in Snapshots |-> {}]
    /\ acked = {}
    /\ removed = {}
    /\ lost = [m \in Machines |-> {}]
    /\ now = 0

Active(p) == pc[p] # "idle"

\* A new identifier is random, or the hash of something random: any unused one.
New(unused) == IF unused = {} THEN {} ELSE {CHOOSE i \in unused : TRUE}

PushState(st) ==
    \E i \in New(StateIds \ published) :
        /\ published' = published \cup {i}
        /\ states' = [states EXCEPT ![i] = st]

PushFails == CanFailPush /\ UNCHANGED <<states, published>>

-----------------------------------------------------------------------------
\* Opening a repository: New, RebuildState.

\* RebuildState lists the store's states and keeps those its cache lacks.
\* (No client deletes a state file, so no local state is ever outdated.)
ListStates(p) ==
    /\ pc[p] = "idle"
    /\ Cardinality({q \in Procs : Active(q)}) < MaxActive
    /\ pc' = [pc EXCEPT ![p] = "opening"]
    /\ missing' = [missing EXCEPT ![p] = published \ known[Host[p]]]
    /\ UNCHANGED <<storeVars, cacheVars, histVars, now,
                   snap, todo, inflight, flushing, delta, pushing, ticks>>

\* InsertState: merge one state, then mark it; skip it if another process of the
\* machine has merged it since the listing.
InsertState(p) ==
    /\ pc[p] = "opening"
    /\ \E i \in missing[p] :
        /\ missing' = [missing EXCEPT ![p] = @ \ {i}]
        /\ IF i \in known[Host[p]]
             THEN UNCHANGED <<cache, known>>
             ELSE /\ cache' = [cache EXCEPT ![Host[p]] = Merge(@, states[i])]
                  /\ known' = [known EXCEPT ![Host[p]] = @ \cup {i}]
    /\ UNCHANGED <<storeVars, cookie, histVars, now, pc,
                   snap, todo, inflight, flushing, delta, pushing, ticks>>

\* The end of New: the first time this client version opens the repository on a
\* machine, it pushes all the machine knows as one state (PutCurrentState).
Opened(p) ==
    /\ pc[p] = "opening" /\ missing[p] = {}
    /\ \/ /\ cookie[Host[p]]
          /\ pc' = [pc EXCEPT ![p] = "ready"]
          /\ UNCHANGED <<states, published, cookie>>
       \/ /\ ~ cookie[Host[p]]
          /\ PushState(cache[Host[p]])
          /\ cookie' = [cookie EXCEPT ![Host[p]] = TRUE]
          /\ pc' = [pc EXCEPT ![p] = "ready"]
       \/ /\ ~ cookie[Host[p]]
          /\ PushFails
          /\ pc' = [pc EXCEPT ![p] = "idle"]
          /\ UNCHANGED cookie
    /\ UNCHANGED <<packfile, cache, known, procVars, histVars, now>>

\* A command that only reads (ls, restore, check) is done.
Close(p) ==
    /\ pc[p] = "ready"
    /\ pc' = [pc EXCEPT ![p] = "idle"]
    /\ UNCHANGED <<storeVars, cacheVars, procVars, histVars, now>>

-----------------------------------------------------------------------------
\* Backup.

\* Snapshot.New and the shared lock: refused while the exclusive lock is held.
\* RepoLock models the protocol behind the two locks.
StartBackup(p) ==
    /\ pc[p] = "ready"
    /\ \A q \in Procs : pc[q] # "exclusive"
    /\ \E s \in New({f \in Snapshots : needs[f] = {}}), bs \in Sources :
        /\ needs' = [needs EXCEPT ![s] = bs]
        /\ snap' = [snap EXCEPT ![p] = {s}]
        /\ todo' = [todo EXCEPT ![p] = bs]
    /\ pc' = [pc EXCEPT ![p] = "backup"]
    /\ UNCHANGED <<storeVars, cacheVars, missing, inflight, flushing, delta, pushing,
                   ticks, acked, removed, lost, now>>

\* PutBlobIfNotExists asks the packer and the machine's cache first.  PutBlob does
\* not: a backup that has just made the object or the entry of a file puts it,
\* whoever has stored an equal one, and the blob is in two packfiles then.
PutBlob(p) ==
    /\ pc[p] = "backup"
    /\ \E b \in todo[p] :
        /\ todo' = [todo EXCEPT ![p] = @ \ {b}]
        /\ \/ BlobExists(cache[Host[p]], b) /\ UNCHANGED inflight
           \/ /\ BlobExists(cache[Host[p]], b) => b \in Rewritten
              /\ inflight' = [inflight EXCEPT ![p] = @ \cup {b}]
    /\ UNCHANGED <<storeVars, cacheVars, histVars, now, pc,
                   missing, snap, flushing, delta, pushing, ticks>>

\* Slip: the header does not wait for the files.
PutHeaderEarly(p) ==
    /\ pc[p] = "backup"
    /\ inflight' = [inflight EXCEPT ![p] = @ \cup snap[p]]
    /\ pc' = [pc EXCEPT ![p] = "commit"]
    /\ UNCHANGED <<storeVars, cacheVars, histVars, now,
                   missing, snap, todo, flushing, delta, pushing, ticks>>

\* Commit: the header goes to the packer last and is never deduplicated.
PutHeader(p) ==
    /\ pc[p] = "backup" /\ todo[p] = {}
    /\ inflight' = [inflight EXCEPT ![p] = @ \cup snap[p]]
    /\ pc' = [pc EXCEPT ![p] = "commit"]
    /\ UNCHANGED <<storeVars, cacheVars, histVars, now,
                   missing, snap, todo, flushing, delta, pushing, ticks>>

\* PutPackfile, first half: a packfile of some of the blobs in the packer is
\* stored.  (Packer models how the workers fill packfiles.)
StorePackfile(p) ==
    /\ pc[p] \in BackupPcs /\ flushing[p] = {}
    /\ \E items \in (SUBSET inflight[p]) \ {{}},
          k \in New({f \in Packfiles : packfile[f].items = {}}) :
        /\ packfile' = [packfile EXCEPT ![k] = [items |-> items, time |-> now]]
        /\ flushing' = [flushing EXCEPT ![p] = {k}]
    /\ UNCHANGED <<states, published, cacheVars, histVars, now, pc,
                   missing, snap, todo, inflight, delta, pushing, ticks>>

\* What a packfile locates, and what is left in the packer once it is indexed.
\* Slips: all that is in the packer; nothing is left.
AllInflight(p, k)   == inflight[p]
NoneInflight(p, k)  == {}

PackedItems(p, k)   == packfile[k].items
StillInflight(p, k) == inflight[p] \ packfile[k].items

\* PutPackfile, second half: its locations go to the delta state and to the
\* machine's cache (under deltaMtx), and its blobs leave the packer.
IndexPackfile(p) ==
    /\ pc[p] \in BackupPcs
    /\ \E k \in flushing[p] :
        /\ delta' = [delta EXCEPT ![p] = IndexBlobs(@, k, PackedItems(p, k))]
        /\ cache' = [cache EXCEPT ![Host[p]] = IndexBlobs(@, k, PackedItems(p, k))]
        /\ inflight' = [inflight EXCEPT ![p] = StillInflight(p, k)]
    /\ flushing' = [flushing EXCEPT ![p] = {}]
    /\ UNCHANGED <<storeVars, known, cookie, histVars, now, pc,
                   missing, snap, todo, pushing, ticks>>

\* The delta state to push.  Slip: it is read after the swap.
SwappedIn(p)  == EmptyState
SwappedOut(p) == delta[p]

\* The hourly flush swaps the delta state under deltaMtx.  Commit stops the
\* ticker, but a tick already received may still swap after that.
SwapDelta(p) ==
    /\ pc[p] \in BackupPcs /\ pushing[p] = {}
    /\ ticks[p] < MaxTicks
    /\ ticks' = [ticks EXCEPT ![p] = @ + 1]
    /\ pushing' = [pushing EXCEPT ![p] = {SwappedOut(p)}]
    /\ delta' = [delta EXCEPT ![p] = EmptyState]
    /\ UNCHANGED <<storeVars, cacheVars, histVars, now, pc,
                   missing, snap, todo, inflight, flushing>>

Forget(p, sts) ==
    lost' = [lost EXCEPT ![Host[p]] = @ \cup UNION {st.deltas : st \in sts}]

\* ... and pushes the old one; a failure is only logged.
PushDelta(p) ==
    /\ pc[p] \in BackupPcs
    /\ \E st \in pushing[p] :
        \/ PushState(st) /\ UNCHANGED lost
        \/ PushFails /\ Forget(p, {st})
    /\ pushing' = [pushing EXCEPT ![p] = {}]
    /\ UNCHANGED <<packfile, cacheVars, needs, acked, removed, now, pc,
                   missing, snap, todo, inflight, flushing, delta, ticks>>

\* packerManager.Wait has returned.
PackerDone(p) == inflight[p] = {} /\ flushing[p] = {}

\* The end of Commit: the packer is empty, the flusher pushes the last state.
\* Its failure too is only logged: the backup reports success all the same.
Commit(p) ==
    /\ pc[p] = "commit"
    /\ PackerDone(p) /\ pushing[p] = {}
    /\ \/ PushState(delta[p]) /\ UNCHANGED lost
       \/ PushFails /\ Forget(p, {delta[p]})
    /\ acked' = acked \cup (snap[p] \X {Host[p]})
    /\ pc' = [pc EXCEPT ![p] = "idle"]
    /\ delta' = [delta EXCEPT ![p] = EmptyState]
    /\ snap' = [snap EXCEPT ![p] = {}]
    /\ ticks' = [ticks EXCEPT ![p] = 0]
    /\ UNCHANGED <<packfile, cacheVars, needs, removed, now,
                   missing, todo, inflight, flushing, pushing>>

\* The process dies or its backup is aborted: what it had not pushed is gone,
\* what it had put in the cache of its machine stays.
Crash(p) ==
    /\ CanCrash /\ Active(p) /\ pc[p] # "exclusive"
    /\ Forget(p, pushing[p] \cup {delta[p]})
    /\ pc' = [pc EXCEPT ![p] = "idle"]
    /\ missing' = [missing EXCEPT ![p] = {}]
    /\ snap' = [snap EXCEPT ![p] = {}]
    /\ todo' = [todo EXCEPT ![p] = {}]
    /\ inflight' = [inflight EXCEPT ![p] = {}]
    /\ flushing' = [flushing EXCEPT ![p] = {}]
    /\ delta' = [delta EXCEPT ![p] = EmptyState]
    /\ pushing' = [pushing EXCEPT ![p] = {}]
    /\ ticks' = [ticks EXCEPT ![p] = 0]
    /\ UNCHANGED <<storeVars, cacheVars, needs, acked, removed, now>>

-----------------------------------------------------------------------------
\* rm: DeleteSnapshot pushes a state with one tombstone.  It takes no lock and
\* does not touch the machine's own cache.
Rm(p) ==
    /\ pc[p] = "ready"
    /\ \E s \in ListSnapshots(cache[Host[p]]) \cap (Removable \ removed) :
        /\ PushState(DeleteResource(EmptyState, s, now))
        /\ removed' = removed \cup {s}
    /\ UNCHANGED <<packfile, cacheVars, pc, procVars, needs, acked, lost, now>>

Tick ==
    /\ now < MaxTime
    /\ now' = now + 1
    /\ UNCHANGED <<storeVars, cacheVars, pc, procVars, histVars>>

Step(p) ==
    \/ ListStates(p) \/ InsertState(p) \/ Opened(p) \/ Close(p)
    \/ StartBackup(p) \/ PutBlob(p) \/ PutHeader(p)
    \/ StorePackfile(p) \/ IndexPackfile(p)
    \/ SwapDelta(p) \/ PushDelta(p) \/ Commit(p)
    \/ Crash(p) \/ Rm(p)

Next == (\E p \in Procs : Step(p)) \/ Tick

Spec == Init /\ [][Next]_vars

-----------------------------------------------------------------------------
\* What a machine sees that starts from nothing: every state file merged.
Remote == [deltas    |-> UNION {states[i].deltas : i \in published},
           packfiles |-> UNION {states[i].packfiles : i \in published},
           deleted   |-> UNION {states[i].deleted : i \in published}]

Complete(st, s) == \A i \in needs[s] \cup {s} : BlobExists(st, i)

\* Locations a backup of this machine has indexed and not pushed.
Unpushed(m) == UNION {delta[p].deltas \cup UNION {st.deltas : st \in pushing[p]} :
                         p \in {q \in Procs : Host[q] = m}}

LocalStates == {cache[m] : m \in Machines} \cup {delta[p] : p \in Procs}
               \cup (UNION {pushing[p] : p \in Procs}) \cup {states[i] : i \in published}

\* A location never points outside the store: whatever crashes and whoever
\* merges what, each blob indexed anywhere is in the packfile it is said to be
\* in, since a packfile is stored before it is indexed.
IndexSound == \A st \in LocalStates : \A l \in st.deltas : l[1] \in packfile[l[2]].items

\* A snapshot whose backup succeeded is complete on the machine that made it,
\* although some of its blobs were never sent: another process of the machine
\* was to send them, and may have died since.
HomeComplete == \A a \in acked : Complete(cache[a[2]], a[1])

\* ... and every blob of it that the state files do not locate is accounted for:
\* another backup of its machine still holds the location, or lost it.
Accounted ==
    \A a \in acked : \A i \in needs[a[1]] \cup {a[1]} :
        \/ BlobExists(Remote, i)
        \/ \E l \in Unpushed(a[2]) \cup lost[a[2]] : l[1] = i

=============================================================================
