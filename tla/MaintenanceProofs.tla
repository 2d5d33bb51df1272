-------------------------- MODULE MaintenanceProofs --------------------------
(***************************************************************************)
(* Theorems about Repository and Maintenance, for every number of          *)
(* machines, processes, blobs, snapshots, packfiles and state files: in    *)
(* whatever order commands run, and then, as long as they follow each      *)
(* other, no backup dies, one machine alone maintains, and the store takes *)
(* every state file and gives every blob, that maintenance retains what    *)
(* active snapshots name (NamedRetained).  It does not without these       *)
(* hypotheses: MCStaleView shows two commands at a time, MCTwoCaches two   *)
(* maintaining machines.                                                   *)
(***************************************************************************)
EXTENDS Maintenance, FiniteSetTheorems, TLAPS

\* A new identifier is one of the unused ones.
LEMMA NewIsUnused == ASSUME NEW S, NEW x \in New(S) PROVE x \in S
BY DEF New

\* The operators on states return states.
LEMMA StateOperators ==
    /\ EmptyState \in State
    /\ \A st, file \in State : Merge(st, file) \in State
    /\ \A st \in State : \A r \in Snapshots \cup Packfiles : \A t \in Nat :
          DeleteResource(st, r, t) \in State
    /\ \A st \in State : \A k \in Packfiles : \A items \in SUBSET Items :
          IndexBlobs(st, k, items) \in State
<1>1. EmptyState \in State
  BY DEF EmptyState, State
<1>2. \A st, file \in State : Merge(st, file) \in State
  BY DEF Merge, State, PutDeleted
<1>3. \A st \in State : \A r \in Snapshots \cup Packfiles : \A t \in Nat :
         DeleteResource(st, r, t) \in State
  BY DEF DeleteResource, State, PutDeleted, Tombstone
<1>4. \A st \in State : \A k \in Packfiles : \A items \in SUBSET Items :
         IndexBlobs(st, k, items) \in State
  BY DEF IndexBlobs, State, Locations
<1> QED BY <1>1, <1>2, <1>3, <1>4

\* Pushing a state leaves the state files well typed.
LEMMA PushStateType ==
    ASSUME TypeOK, NEW st \in State, PushState(st)
    PROVE  states' \in [StateIds -> State] /\ published' \subseteq StateIds
<1>1. PICK i \in New(StateIds \ published) : /\ published' = published \cup {i}
                                             /\ states' = [states EXCEPT ![i] = st]
  BY DEF PushState
<1>2. i \in StateIds
  BY <1>1, NewIsUnused
<1> QED BY <1>1, <1>2 DEF TypeOK

\* Losing states leaves the lost locations well typed.
LEMMA ForgetType ==
    ASSUME TypeOK, NEW p \in Procs, NEW sts \in SUBSET State, Forget(p, sts)
    PROVE  lost' \in [Machines -> SUBSET Locations]
<1>1. UNION {st.deltas : st \in sts} \subseteq Locations
  BY DEF State
<1> QED BY <1>1, HostAssumption DEF Forget, TypeOK

\* Every step keeps the types.
LEMMA TypeStep == ASSUME TypeOK, [Next]_vars PROVE TypeOK'
<1> USE HostAssumption, StateOperators
<1>0. CASE UNCHANGED vars
  BY <1>0 DEF TypeOK, vars, storeVars, cacheVars, procVars, histVars
<1>1. CASE Tick
  BY <1>1 DEF TypeOK, Tick, storeVars, cacheVars, procVars, histVars
<1>2. ASSUME NEW p \in Procs, ListStates(p) PROVE TypeOK'
  BY <1>2 DEF TypeOK, ListStates, PCs, BackupPcs, storeVars, cacheVars, histVars
<1>3. ASSUME NEW p \in Procs, InsertState(p) PROVE TypeOK'
  <2>1. PICK i \in missing[p] :
          /\ missing' = [missing EXCEPT ![p] = @ \ {i}]
          /\ IF i \in known[Host[p]]
               THEN UNCHANGED <<cache, known>>
               ELSE /\ cache' = [cache EXCEPT ![Host[p]] = Merge(@, states[i])]
                    /\ known' = [known EXCEPT ![Host[p]] = @ \cup {i}]
    BY <1>3 DEF InsertState
  <2>2. i \in StateIds /\ states[i] \in State /\ Host[p] \in Machines
    BY <2>1 DEF TypeOK
  <2>3. cache' \in [Machines -> State] /\ known' \in [Machines -> SUBSET StateIds]
    <3>1. Merge(cache[Host[p]], states[i]) \in State
      BY <2>2 DEF TypeOK
    <3>2. cache \in [Machines -> State] /\ known \in [Machines -> SUBSET StateIds]
      BY DEF TypeOK
    <3>3. CASE i \in known[Host[p]]
      BY <2>1, <3>2, <3>3
    <3>4. CASE i \notin known[Host[p]]
      <4>1. cache' = [cache EXCEPT ![Host[p]] = Merge(cache[Host[p]], states[i])]
        BY <2>1, <3>4
      <4>2. known' = [known EXCEPT ![Host[p]] = known[Host[p]] \cup {i}]
        BY <2>1, <3>4
      <4>3. cache' \in [Machines -> State]
        BY <2>2, <3>1, <3>2, <4>1
      <4>4. known' \in [Machines -> SUBSET StateIds]
        BY <2>2, <3>2, <4>2
      <4> QED BY <4>3, <4>4
    <3> QED BY <3>3, <3>4
  <2> QED BY <1>3, <2>1, <2>3 DEF TypeOK, InsertState, storeVars, histVars
<1>4. ASSUME NEW p \in Procs, Opened(p) PROVE TypeOK'
  <2>1. states' \in [StateIds -> State] /\ published' \subseteq StateIds
    BY <1>4, PushStateType DEF Opened, PushFails, TypeOK
  <2> QED BY <1>4, <2>1 DEF TypeOK, Opened, PCs, BackupPcs, procVars, histVars
<1>5. ASSUME NEW p \in Procs, Close(p) PROVE TypeOK'
  BY <1>5 DEF TypeOK, Close, PCs, BackupPcs, storeVars, cacheVars, procVars, histVars
<1>6. ASSUME NEW p \in Procs, StartBackup(p) PROVE TypeOK'
  <2>1. PICK s \in Snapshots, bs \in SUBSET Blobs :
           /\ needs' = [needs EXCEPT ![s] = bs]
           /\ snap' = [snap EXCEPT ![p] = {s}]
           /\ todo' = [todo EXCEPT ![p] = bs]
    BY <1>6, NewIsUnused, BoundsAssumption DEF StartBackup
  <2> QED BY <1>6, <2>1 DEF TypeOK, StartBackup, PCs, BackupPcs, storeVars, cacheVars
<1>7. ASSUME NEW p \in Procs, PutBlob(p) PROVE TypeOK'
  <2>1. PICK b \in todo[p] :
          /\ todo' = [todo EXCEPT ![p] = @ \ {b}]
          /\ inflight' = inflight \/ inflight' = [inflight EXCEPT ![p] = @ \cup {b}]
    BY <1>7 DEF PutBlob
  <2>2. todo' \in [Procs -> SUBSET Blobs] /\ \A q \in Procs : todo'[q] \subseteq todo[q]
    BY <2>1 DEF TypeOK
  <2>3. inflight' \in [Procs -> SUBSET Items]
    <3>1. inflight \in [Procs -> SUBSET Items] /\ b \in Items
      BY <2>1 DEF TypeOK, Items
    <3> QED BY <2>1, <3>1
  <2> QED BY <1>7, <2>2, <2>3 DEF TypeOK, PutBlob, Items, storeVars, cacheVars, histVars
<1>8. ASSUME NEW p \in Procs, PutHeader(p) PROVE TypeOK'
  BY <1>8 DEF TypeOK, PutHeader, Items, PCs, BackupPcs, storeVars, cacheVars, histVars
<1>9. ASSUME NEW p \in Procs, StorePackfile(p) PROVE TypeOK'
  <2>1. PICK items \in SUBSET inflight[p], k \in Packfiles :
           /\ packfile' = [packfile EXCEPT ![k] = [items |-> items, time |-> now]]
           /\ flushing' = [flushing EXCEPT ![p] = {k}]
    BY <1>9, NewIsUnused DEF StorePackfile
  <2> QED BY <1>9, <2>1 DEF TypeOK, StorePackfile, cacheVars, histVars
<1>10. ASSUME NEW p \in Procs, IndexPackfile(p) PROVE TypeOK'
  <2>1. PICK k \in flushing[p] :
          /\ delta' = [delta EXCEPT ![p] = IndexBlobs(@, k, packfile[k].items)]
          /\ cache' = [cache EXCEPT ![Host[p]] = IndexBlobs(@, k, packfile[k].items)]
          /\ inflight' = [inflight EXCEPT ![p] = inflight[p] \ packfile[k].items]
    BY <1>10 DEF IndexPackfile, PackedItems, StillInflight
  <2>2. k \in Packfiles /\ packfile[k].items \in SUBSET Items
    BY <2>1 DEF TypeOK
  <2> QED BY <1>10, <2>1, <2>2 DEF TypeOK, IndexPackfile, storeVars, histVars
<1>11. ASSUME NEW p \in Procs, SwapDelta(p) PROVE TypeOK'
  BY <1>11 DEF TypeOK, SwapDelta, SwappedOut, storeVars, cacheVars, histVars
<1>12. ASSUME NEW p \in Procs, PushDelta(p) PROVE TypeOK'
  <2>1. states' \in [StateIds -> State] /\ published' \subseteq StateIds
    BY <1>12, PushStateType DEF PushDelta, PushFails, TypeOK
  <2>2. lost' \in [Machines -> SUBSET Locations]
    <3>1. CASE UNCHANGED lost
      BY <3>1 DEF TypeOK
    <3>2. ASSUME NEW st \in pushing[p], Forget(p, {st})
          PROVE  lost' \in [Machines -> SUBSET Locations]
      <4>1. {st} \in SUBSET State
        BY DEF TypeOK
      <4> QED BY <3>2, <4>1, ForgetType
    <3> QED BY <1>12, <3>1, <3>2 DEF PushDelta
  <2> QED BY <1>12, <2>1, <2>2 DEF TypeOK, PushDelta, cacheVars
<1>13. ASSUME NEW p \in Procs, Commit(p) PROVE TypeOK'
  <2>1. states' \in [StateIds -> State] /\ published' \subseteq StateIds
    BY <1>13, PushStateType DEF Commit, PushFails, TypeOK
  <2>2. lost' \in [Machines -> SUBSET Locations]
    <3>1. CASE UNCHANGED lost
      BY <3>1 DEF TypeOK
    <3>2. CASE Forget(p, {delta[p]})
      <4>1. {delta[p]} \in SUBSET State
        BY DEF TypeOK
      <4> QED BY <3>2, <4>1, ForgetType
    <3> QED BY <1>13, <3>1, <3>2 DEF Commit
  <2> QED BY <1>13, <2>1, <2>2 DEF TypeOK, Commit, PCs, BackupPcs, cacheVars
<1>14. ASSUME NEW p \in Procs, Crash(p) PROVE TypeOK'
  <2>2. lost' \in [Machines -> SUBSET Locations]
    <3>1. pushing[p] \cup {delta[p]} \in SUBSET State
      BY DEF TypeOK
    <3> QED BY <1>14, <3>1, ForgetType DEF Crash
  <2> QED BY <1>14, <2>2 DEF TypeOK, Crash, PCs, BackupPcs, storeVars, cacheVars
<1>15. ASSUME NEW p \in Procs, Rm(p) PROVE TypeOK'
  <2>1. PICK s \in Snapshots : /\ PushState(DeleteResource(EmptyState, s, now))
                               /\ removed' = removed \cup {s}
    BY <1>15 DEF Rm, ListSnapshots
  <2>2. DeleteResource(EmptyState, s, now) \in State
    BY DEF TypeOK
  <2>3. states' \in [StateIds -> State] /\ published' \subseteq StateIds
    BY <2>1, <2>2, PushStateType
  <2> QED BY <1>15, <2>1, <2>3 DEF TypeOK, Rm, cacheVars, procVars
<1> QED
  BY <1>0, <1>1, <1>2, <1>3, <1>4, <1>5, <1>6, <1>7, <1>8, <1>9, <1>10, <1>11,
     <1>12, <1>13, <1>14, <1>15 DEF Next, Step

LEMMA TypeInit == Init => TypeOK
BY StateOperators, BoundsAssumption DEF Init, TypeOK, PCs, BackupPcs

\* Every variable keeps its type, and a process has a snapshot exactly while it
\* backs up.
THEOREM TypeCorrect == Spec => []TypeOK
BY TypeInit, TypeStep, PTL DEF Spec

-----------------------------------------------------------------------------
(***************************************************************************)
(* The inductive invariant.                                                *)
(***************************************************************************)

\* What every state in the system satisfies: its locations are true of the
\* packfiles, and their packfiles are known to it.
WellFormed(st, pf) ==
    \A l \in st.deltas : l[1] \in pf[l[2]].items /\ l[2] \in st.packfiles

AllWellFormed ==
    /\ \A m \in Machines : WellFormed(cache[m], packfile)
    /\ \A p \in Procs : WellFormed(delta[p], packfile)
    /\ \A p \in Procs : \A st \in pushing[p] : WellFormed(st, packfile)
    /\ \A i \in StateIds : WellFormed(states[i], packfile)
    /\ \A p \in Procs : \A k \in flushing[p] : packfile[k].items # {}

\* Without maintenance, nothing but a snapshot is ever deleted.
Colourless(st) == \A d \in st.deleted : d.res \in Snapshots

AllColourless ==
    /\ \A m \in Machines : Colourless(cache[m])
    /\ \A p \in Procs : Colourless(delta[p])
    /\ \A p \in Procs : \A st \in pushing[p] : Colourless(st)
    /\ \A i \in StateIds : Colourless(states[i])

Indexed(st, i) == \E k \in Packfiles : <<i, k>> \in st.deltas

\* Each item of a snapshot being written is still to be handed over, in the
\* packer, or indexed on the machine.
HandedBy(p) ==
    \A s \in snap[p] :
        /\ needs[s] # {}
        /\ \A i \in needs[s] : \/ i \in todo[p] \cup inflight[p]
                               \/ Indexed(cache[Host[p]], i)
        /\ pc[p] = "commit" => s \in inflight[p] \/ Indexed(cache[Host[p]], s)

Handed == \A p \in Procs : HandedBy(p)

\* Each item of an acknowledged snapshot is indexed on its machine.
AckedIndexed ==
    \A a \in acked : /\ needs[a[1]] # {}
                     /\ \A i \in needs[a[1]] \cup {a[1]} : Indexed(cache[a[2]], i)

\* A machine knows a location because a state file has it, or because one of its
\* backups has not pushed it, or lost it.
Origin(m, l) == \/ \E i \in published : l \in states[i].deltas
                \/ l \in Unpushed(m)
                \/ l \in lost[m]

Provenance == \A m \in Machines : \A l \in cache[m].deltas : Origin(m, l)

\* A process merges states that exist, and pushes one state at a time.
Orderly == \A p \in Procs : /\ missing[p] \subseteq published
                            /\ \A x, y \in pushing[p] : x = y

IInv == /\ TypeOK /\ AllWellFormed /\ AllColourless
        /\ Handed /\ AckedIndexed /\ Orderly /\ Provenance

-----------------------------------------------------------------------------
\* Well-formedness of what the operators return.
LEMMA EmptyWellFormed == ASSUME NEW pf PROVE WellFormed(EmptyState, pf)
BY DEF WellFormed, EmptyState

LEMMA MergeWellFormed ==
    ASSUME NEW pf, NEW st \in State, NEW file \in State,
           WellFormed(st, pf), WellFormed(file, pf)
    PROVE  WellFormed(Merge(st, file), pf)
BY DEF WellFormed, Merge

LEMMA IndexWellFormed ==
    ASSUME NEW pf, NEW st \in State, WellFormed(st, pf), NEW k \in Packfiles
    PROVE  WellFormed(IndexBlobs(st, k, pf[k].items), pf)
BY DEF WellFormed, IndexBlobs, State

LEMMA TombstoneWellFormed ==
    ASSUME NEW pf, NEW s \in Snapshots, NEW t
    PROVE  WellFormed(DeleteResource(EmptyState, s, t), pf)
BY DEF WellFormed, DeleteResource, EmptyState

\* A well-formed state stays so when the store gets one more packfile.
LEMMA StoreWellFormed ==
    ASSUME NEW pf, NEW pf2, NEW st \in State, WellFormed(st, pf),
           \A k \in Packfiles : pf[k].items # {} => pf2[k] = pf[k]
    PROVE  WellFormed(st, pf2)
<1> SUFFICES ASSUME NEW l \in st.deltas PROVE l[1] \in pf2[l[2]].items
  BY DEF WellFormed
<1>1. l[2] \in Packfiles
  BY DEF State, Locations
<1>2. l[1] \in pf[l[2]].items
  BY DEF WellFormed
<1> QED BY <1>1, <1>2

\* In such a state a blob exists as soon as it is indexed: nothing colours its
\* packfile.
LEMMA ExistsIffIndexed ==
    ASSUME NEW st \in State, NEW pf, WellFormed(st, pf), Colourless(st), NEW i
    PROVE  BlobExists(st, i) <=> Indexed(st, i)
<1>1. \A k \in Packfiles : <<i, k>> \in st.deltas => Usable(st, k)
  BY TypesAreDisjoint DEF WellFormed, Colourless, Usable, HasDeletedResource, State, Tombstone
<1> QED BY <1>1 DEF BlobExists, Holders, Indexed

\* The store only grows, one packfile at a time.
LEMMA PackfileKept ==
    ASSUME TypeOK, [Next]_vars
    PROVE  \A k \in Packfiles : packfile[k].items # {} => packfile'[k] = packfile[k]
<1>1. ASSUME NEW p \in Procs, StorePackfile(p)
      PROVE  \A k \in Packfiles : packfile[k].items # {} => packfile'[k] = packfile[k]
  <2>1. PICK items \in SUBSET inflight[p], k \in Packfiles :
           /\ packfile[k].items = {}
           /\ packfile' = [packfile EXCEPT ![k] = [items |-> items, time |-> now]]
    <3>1. PICK items \in SUBSET inflight[p],
               k \in New({f \in Packfiles : packfile[f].items = {}}) :
             packfile' = [packfile EXCEPT ![k] = [items |-> items, time |-> now]]
      BY <1>1 DEF StorePackfile
    <3>2. k \in Packfiles /\ packfile[k].items = {}
      BY NewIsUnused
    <3> QED BY <3>1, <3>2
  <2> QED BY <2>1 DEF TypeOK
<1>2. CASE UNCHANGED packfile
  BY <1>2
<1>3. ASSUME NEW p \in Procs, Step(p), ~ StorePackfile(p) PROVE UNCHANGED packfile
  BY <1>3 DEF Step, ListStates, InsertState, Opened, Close, StartBackup, PutBlob, PutHeader,
       IndexPackfile, SwapDelta, PushDelta, Commit, Crash, Rm, storeVars
<1>4. ASSUME Tick PROVE UNCHANGED packfile
  BY <1>4 DEF Tick, storeVars
<1>5. ASSUME UNCHANGED vars PROVE UNCHANGED packfile
  BY <1>5 DEF vars, storeVars
<1> QED BY <1>1, <1>2, <1>3, <1>4, <1>5 DEF Next

\* Pushing a state writes only that state.
LEMMA PushStateWrites ==
    ASSUME TypeOK, NEW st, PushState(st)
    PROVE  /\ published \subseteq published'
           /\ \A i \in published : states'[i] = states[i]
           /\ \A i \in StateIds : states'[i] = states[i] \/ states'[i] = st
           /\ \E i \in published' : states'[i] = st
<1>1. PICK i \in New(StateIds \ published) : /\ published' = published \cup {i}
                                             /\ states' = [states EXCEPT ![i] = st]
  BY DEF PushState
<1>2. i \in StateIds \ published
  BY NewIsUnused
<1> QED BY <1>1, <1>2 DEF TypeOK

-----------------------------------------------------------------------------
\* How a step changes each kind of state.

\* A machine's cache changes by merging a state file or indexing a packfile.
LEMMA CacheStep ==
    ASSUME TypeOK, [Next]_vars, NEW m \in Machines
    PROVE  \/ cache'[m] = cache[m]
           \/ \E i \in StateIds : cache'[m] = Merge(cache[m], states[i])
           \/ \E k \in Packfiles : cache'[m] = IndexBlobs(cache[m], k, packfile[k].items)
<1> USE HostAssumption
<1>1. ASSUME NEW p \in Procs, InsertState(p)
      PROVE  \/ cache'[m] = cache[m]
             \/ \E i \in StateIds : cache'[m] = Merge(cache[m], states[i])
  <2>1. PICK i \in missing[p] :
          IF i \in known[Host[p]]
            THEN UNCHANGED <<cache, known>>
            ELSE cache' = [cache EXCEPT ![Host[p]] = Merge(cache[Host[p]], states[i])]
    BY <1>1 DEF InsertState
  <2>2. i \in StateIds
    BY DEF TypeOK
  <2>3. CASE i \in known[Host[p]]
    BY <2>1, <2>3
  <2>4. CASE i \notin known[Host[p]]
    BY <2>1, <2>2, <2>4 DEF TypeOK
  <2> QED BY <2>3, <2>4
<1>2. ASSUME NEW p \in Procs, IndexPackfile(p)
      PROVE  \/ cache'[m] = cache[m]
             \/ \E k \in Packfiles : cache'[m] = IndexBlobs(cache[m], k, packfile[k].items)
  <2>1. PICK k \in flushing[p] :
          cache' = [cache EXCEPT ![Host[p]] = IndexBlobs(cache[Host[p]], k, packfile[k].items)]
    BY <1>2 DEF IndexPackfile, PackedItems
  <2> QED BY <2>1 DEF TypeOK
<1>3. ASSUME NEW p \in Procs, Step(p), ~ InsertState(p), ~ IndexPackfile(p)
      PROVE  UNCHANGED cache
  BY <1>3 DEF Step, ListStates, Opened, Close, StartBackup, PutBlob, PutHeader,
       StorePackfile, SwapDelta, PushDelta, Commit, Crash, Rm, cacheVars
<1>4. ASSUME Tick \/ UNCHANGED vars PROVE UNCHANGED cache
  BY <1>4 DEF Tick, vars, cacheVars
<1> QED BY <1>1, <1>2, <1>3, <1>4 DEF Next

\* A backup's delta state is emptied or indexes a packfile.
LEMMA DeltaStep ==
    ASSUME TypeOK, [Next]_vars, NEW p \in Procs
    PROVE  \/ delta'[p] = delta[p]
           \/ delta'[p] = EmptyState
           \/ \E k \in Packfiles : delta'[p] = IndexBlobs(delta[p], k, packfile[k].items)
<1>1. ASSUME NEW q \in Procs, IndexPackfile(q)
      PROVE  \/ delta'[p] = delta[p]
             \/ \E k \in Packfiles : delta'[p] = IndexBlobs(delta[p], k, packfile[k].items)
  <2>1. PICK k \in flushing[q] :
          delta' = [delta EXCEPT ![q] = IndexBlobs(delta[q], k, packfile[k].items)]
    BY <1>1 DEF IndexPackfile, PackedItems
  <2> QED BY <2>1 DEF TypeOK
<1>2. ASSUME NEW q \in Procs, SwapDelta(q) \/ Commit(q) \/ Crash(q)
      PROVE  delta'[p] = delta[p] \/ delta'[p] = EmptyState
  BY <1>2 DEF SwapDelta, Commit, Crash, TypeOK
<1>3. ASSUME NEW q \in Procs, Step(q), ~ IndexPackfile(q),
             ~ (SwapDelta(q) \/ Commit(q) \/ Crash(q))
      PROVE  UNCHANGED delta
  BY <1>3 DEF Step, ListStates, InsertState, Opened, Close, StartBackup, PutBlob, PutHeader,
       StorePackfile, PushDelta, Rm, procVars
<1>4. ASSUME Tick \/ UNCHANGED vars PROVE UNCHANGED delta
  BY <1>4 DEF Tick, vars, procVars
<1> QED BY <1>1, <1>2, <1>3, <1>4 DEF Next

\* What a backup is pushing is what it was pushing, or the delta state it swaps out.
LEMMA PushingStep ==
    ASSUME TypeOK, [Next]_vars, NEW p \in Procs, NEW st \in pushing'[p]
    PROVE  st \in pushing[p] \/ st = delta[p]
<1>1. ASSUME NEW q \in Procs, SwapDelta(q) \/ PushDelta(q) \/ Crash(q)
      PROVE  st \in pushing[p] \/ st = delta[p]
  BY <1>1 DEF SwapDelta, SwappedOut, PushDelta, Crash, TypeOK
<1>2. ASSUME NEW q \in Procs, Step(q), ~ (SwapDelta(q) \/ PushDelta(q) \/ Crash(q))
      PROVE  UNCHANGED pushing
  BY <1>2 DEF Step, ListStates, InsertState, Opened, Close, StartBackup, PutBlob, PutHeader,
       StorePackfile, IndexPackfile, Commit, Rm, procVars
<1>3. ASSUME Tick \/ UNCHANGED vars PROVE UNCHANGED pushing
  BY <1>3 DEF Tick, vars, procVars
<1> QED BY <1>1, <1>2, <1>3 DEF Next

\* A state file is written from a cache, a delta state or a removal.
LEMMA StatesStep ==
    ASSUME TypeOK, [Next]_vars, NEW i \in StateIds
    PROVE  \/ states'[i] = states[i]
           \/ \E m \in Machines : states'[i] = cache[m]
           \/ \E p \in Procs : states'[i] = delta[p] \/ states'[i] \in pushing[p]
           \/ \E s \in Snapshots : states'[i] = DeleteResource(EmptyState, s, now)
<1> USE HostAssumption
<1>1. ASSUME NEW p \in Procs, Opened(p)
      PROVE  states'[i] = states[i] \/ \E m \in Machines : states'[i] = cache[m]
  BY <1>1, PushStateWrites DEF Opened, PushFails
<1>2. ASSUME NEW p \in Procs, PushDelta(p)
      PROVE  states'[i] = states[i] \/ states'[i] \in pushing[p]
  BY <1>2, PushStateWrites DEF PushDelta, PushFails
<1>3. ASSUME NEW p \in Procs, Commit(p)
      PROVE  states'[i] = states[i] \/ states'[i] = delta[p]
  BY <1>3, PushStateWrites DEF Commit, PushFails
<1>4. ASSUME NEW p \in Procs, Rm(p)
      PROVE  \/ states'[i] = states[i]
             \/ \E s \in Snapshots : states'[i] = DeleteResource(EmptyState, s, now)
  BY <1>4, PushStateWrites DEF Rm, ListSnapshots
<1>5. ASSUME NEW p \in Procs, Step(p),
             ~ (Opened(p) \/ PushDelta(p) \/ Commit(p) \/ Rm(p))
      PROVE  UNCHANGED states
  BY <1>5 DEF Step, ListStates, InsertState, Close, StartBackup, PutBlob, PutHeader,
       StorePackfile, IndexPackfile, SwapDelta, Crash, storeVars
<1>6. ASSUME Tick \/ UNCHANGED vars PROVE UNCHANGED states
  BY <1>6 DEF Tick, vars, storeVars
<1> QED BY <1>1, <1>2, <1>3, <1>4, <1>5, <1>6 DEF Next

\* A packfile waits to be indexed only once it is stored.
LEMMA FlushingStep ==
    ASSUME TypeOK, [Next]_vars, NEW p \in Procs, NEW k \in flushing'[p]
    PROVE  k \in flushing[p] \/ packfile'[k].items # {}
<1>1. ASSUME NEW q \in Procs, StorePackfile(q)
      PROVE  k \in flushing[p] \/ packfile'[k].items # {}
  <2>1. PICK items \in (SUBSET inflight[q]) \ {{}},
             f \in New({x \in Packfiles : packfile[x].items = {}}) :
           /\ packfile' = [packfile EXCEPT ![f] = [items |-> items, time |-> now]]
           /\ flushing' = [flushing EXCEPT ![q] = {f}]
    BY <1>1 DEF StorePackfile
  <2>2. f \in Packfiles
    BY NewIsUnused
  <2> QED BY <2>1, <2>2 DEF TypeOK
<1>2. ASSUME NEW q \in Procs, IndexPackfile(q) \/ Crash(q)
      PROVE  k \in flushing[p]
  BY <1>2 DEF IndexPackfile, Crash, TypeOK
<1>3. ASSUME NEW q \in Procs, Step(q), ~ StorePackfile(q), ~ (IndexPackfile(q) \/ Crash(q))
      PROVE  UNCHANGED flushing
  BY <1>3 DEF Step, ListStates, InsertState, Opened, Close, StartBackup, PutBlob, PutHeader,
       SwapDelta, PushDelta, Commit, Rm, procVars
<1>4. ASSUME Tick \/ UNCHANGED vars PROVE UNCHANGED flushing
  BY <1>4 DEF Tick, vars, procVars
<1> QED BY <1>1, <1>2, <1>3, <1>4 DEF Next

\* Every state in the system stays well formed.
LEMMA WellFormedStep ==
    ASSUME TypeOK, TypeOK', AllWellFormed, [Next]_vars
    PROVE  AllWellFormed'
<1> DEFINE W(st) == WellFormed(st, packfile')
<1>1. /\ \A m \in Machines : W(cache[m])
      /\ \A p \in Procs : W(delta[p])
      /\ \A p \in Procs : \A st \in pushing[p] : W(st)
      /\ \A i \in StateIds : W(states[i])
  <2>1. \A st \in State : WellFormed(st, packfile) => W(st)
    BY PackfileKept, StoreWellFormed
  <2>2. /\ \A m \in Machines : cache[m] \in State
        /\ \A p \in Procs : delta[p] \in State
        /\ \A p \in Procs : \A st \in pushing[p] : st \in State
        /\ \A i \in StateIds : states[i] \in State
    BY DEF TypeOK
  <2> HIDE DEF W
  <2> QED BY <2>1, <2>2 DEF AllWellFormed
<1>2. \A st \in State : \A k \in Packfiles :
         WellFormed(st, packfile) => W(IndexBlobs(st, k, packfile[k].items))
  <2> SUFFICES ASSUME NEW st \in State, NEW k \in Packfiles, WellFormed(st, packfile)
               PROVE  W(IndexBlobs(st, k, packfile[k].items))
    OBVIOUS
  <2>1. WellFormed(IndexBlobs(st, k, packfile[k].items), packfile)
    BY IndexWellFormed
  <2>2. IndexBlobs(st, k, packfile[k].items) \in State
    BY StateOperators DEF TypeOK
  <2> QED BY <2>1, <2>2, PackfileKept, StoreWellFormed
<1>3. \A m \in Machines : W(cache'[m])
  <2> SUFFICES ASSUME NEW m \in Machines PROVE W(cache'[m])
    OBVIOUS
  <2>1. cache[m] \in State /\ \A i \in StateIds : states[i] \in State
    BY DEF TypeOK
  <2>2. \A i \in StateIds : W(Merge(cache[m], states[i]))
    BY <1>1, <2>1, MergeWellFormed
  <2>3. WellFormed(cache[m], packfile)
    BY DEF AllWellFormed
  <2> HIDE DEF W
  <2> QED BY <1>1, <1>2, <2>1, <2>2, <2>3, CacheStep
<1>4. \A p \in Procs : W(delta'[p])
  <2> SUFFICES ASSUME NEW p \in Procs PROVE W(delta'[p])
    OBVIOUS
  <2>1. delta[p] \in State /\ WellFormed(delta[p], packfile)
    BY DEF TypeOK, AllWellFormed
  <2>2. W(EmptyState)
    BY EmptyWellFormed
  <2> HIDE DEF W
  <2> QED BY <1>1, <1>2, <2>1, <2>2, DeltaStep
<1>5. \A p \in Procs : \A st \in pushing'[p] : W(st)
  <2> HIDE DEF W
  <2> QED BY <1>1, PushingStep
<1>6. \A i \in StateIds : W(states'[i])
  <2> SUFFICES ASSUME NEW i \in StateIds PROVE W(states'[i])
    OBVIOUS
  <2>1. \A s \in Snapshots : W(DeleteResource(EmptyState, s, now))
    BY TombstoneWellFormed
  <2> HIDE DEF W
  <2> QED BY <1>1, <2>1, StatesStep
<1>7. \A p \in Procs : \A k \in flushing'[p] : packfile'[k].items # {}
  <2> SUFFICES ASSUME NEW p \in Procs, NEW k \in flushing'[p] PROVE packfile'[k].items # {}
    OBVIOUS
  <2>1. k \in Packfiles
    BY DEF TypeOK
  <2> QED BY <2>1, FlushingStep, PackfileKept DEF AllWellFormed
<1> QED BY <1>3, <1>4, <1>5, <1>6, <1>7 DEF AllWellFormed

\* No step deletes anything but snapshots.
LEMMA ColourlessStep ==
    ASSUME TypeOK, AllColourless, [Next]_vars
    PROVE  AllColourless'
<1>1. \A m \in Machines : Colourless(cache'[m])
  <2> SUFFICES ASSUME NEW m \in Machines PROVE Colourless(cache'[m])
    OBVIOUS
  <2>1. \A i \in StateIds : Colourless(Merge(cache[m], states[i]))
    BY DEF AllColourless, Colourless, Merge, PutDeleted
  <2>2. \A k \in Packfiles : Colourless(IndexBlobs(cache[m], k, packfile[k].items))
    BY DEF AllColourless, Colourless, IndexBlobs, TypeOK, State
  <2> QED BY <2>1, <2>2, CacheStep DEF AllColourless
<1>2. \A p \in Procs : Colourless(delta'[p])
  <2> SUFFICES ASSUME NEW p \in Procs PROVE Colourless(delta'[p])
    OBVIOUS
  <2>1. \A k \in Packfiles : Colourless(IndexBlobs(delta[p], k, packfile[k].items))
    BY DEF AllColourless, Colourless, IndexBlobs, TypeOK, State
  <2>2. Colourless(EmptyState)
    BY DEF Colourless, EmptyState
  <2> QED BY <2>1, <2>2, DeltaStep DEF AllColourless
<1>3. \A p \in Procs : \A st \in pushing'[p] : Colourless(st)
  BY PushingStep DEF AllColourless
<1>4. \A i \in StateIds : Colourless(states'[i])
  <2> SUFFICES ASSUME NEW i \in StateIds PROVE Colourless(states'[i])
    OBVIOUS
  <2>1. \A s \in Snapshots : Colourless(DeleteResource(EmptyState, s, now))
    BY DEF Colourless, DeleteResource, EmptyState, PutDeleted
  <2> QED BY <2>1, StatesStep DEF AllColourless
<1> QED BY <1>1, <1>2, <1>3, <1>4 DEF AllColourless

-----------------------------------------------------------------------------
LEMMA WellFormedIsSound == TypeOK /\ AllWellFormed => IndexSound
<1> SUFFICES ASSUME TypeOK, AllWellFormed, NEW st \in LocalStates, NEW l \in st.deltas
             PROVE  l[1] \in packfile[l[2]].items
  BY DEF IndexSound
<1>1. WellFormed(st, packfile)
  BY DEF LocalStates, AllWellFormed, TypeOK
<1> QED BY <1>1 DEF WellFormed

\* No location ever points outside the store: IndexSound holds in every
\* repository, since PutPackfile stores a packfile before it indexes it and a
\* stored packfile is never rewritten.
THEOREM IndexIsSound == Spec => []IndexSound
<1>1. Init => AllWellFormed
  BY EmptyWellFormed DEF Init, AllWellFormed
<1>2. TypeOK /\ TypeOK' /\ AllWellFormed /\ [Next]_vars => AllWellFormed'
  BY WellFormedStep
<1> QED BY <1>1, <1>2, WellFormedIsSound, TypeCorrect, PTL DEF Spec

\* A step leaves the state files that exist alone and only adds to them.
LEMMA PublishedKept ==
    ASSUME TypeOK, [Next]_vars
    PROVE  published \subseteq published' /\ \A i \in published : states'[i] = states[i]
<1>1. ASSUME NEW p \in Procs, Opened(p) \/ PushDelta(p) \/ Commit(p) \/ Rm(p)
      PROVE  published \subseteq published' /\ \A i \in published : states'[i] = states[i]
  <2>1. (\E st : PushState(st)) \/ UNCHANGED <<states, published>>
    BY <1>1 DEF Opened, PushDelta, Commit, Rm, PushFails
  <2> QED BY <2>1, PushStateWrites
<1>2. ASSUME NEW p \in Procs, Step(p),
             ~ (Opened(p) \/ PushDelta(p) \/ Commit(p) \/ Rm(p))
      PROVE  UNCHANGED <<states, published>>
  BY <1>2 DEF Step, ListStates, InsertState, Close, StartBackup, PutBlob, PutHeader,
       StorePackfile, IndexPackfile, SwapDelta, Crash, storeVars
<1>3. ASSUME Tick \/ UNCHANGED vars PROVE UNCHANGED <<states, published>>
  BY <1>3 DEF Tick, vars, storeVars
<1> QED BY <1>1, <1>2, <1>3 DEF Next

-----------------------------------------------------------------------------
\* A snapshot, once started, keeps the blobs it refers to.
LEMMA NeedsKept ==
    ASSUME TypeOK, [Next]_vars, NEW s \in Snapshots, needs[s] # {}
    PROVE  needs'[s] = needs[s]
<1>1. ASSUME NEW p \in Procs, StartBackup(p) PROVE needs'[s] = needs[s]
  <2>1. PICK f \in New({x \in Snapshots : needs[x] = {}}), bs \in Sources :
          needs' = [needs EXCEPT ![f] = bs]
    BY <1>1 DEF StartBackup
  <2>2. needs[f] = {}
    BY NewIsUnused
  <2> QED BY <2>1, <2>2 DEF TypeOK
<1>2. ASSUME NEW p \in Procs, Step(p), ~ StartBackup(p) PROVE UNCHANGED needs
  BY <1>2 DEF Step, ListStates, InsertState, Opened, Close, PutBlob, PutHeader,
       StorePackfile, IndexPackfile, SwapDelta, PushDelta, Commit, Crash, Rm, histVars
<1>3. ASSUME Tick \/ UNCHANGED vars PROVE UNCHANGED needs
  BY <1>3 DEF Tick, vars, histVars
<1> QED BY <1>1, <1>2, <1>3 DEF Next

\* A machine never forgets a location.
LEMMA IndexedKept ==
    ASSUME TypeOK, [Next]_vars, NEW m \in Machines, NEW i, Indexed(cache[m], i)
    PROVE  Indexed(cache'[m], i)
<1>1. cache[m].deltas \subseteq cache'[m].deltas
  <2>1. cache[m] \in State
    BY DEF TypeOK
  <2>2. \A j \in StateIds : cache[m].deltas \subseteq Merge(cache[m], states[j]).deltas
    BY DEF Merge
  <2>3. \A k \in Packfiles :
          cache[m].deltas \subseteq IndexBlobs(cache[m], k, packfile[k].items).deltas
    BY <2>1 DEF IndexBlobs, State
  <2> QED BY <2>2, <2>3, CacheStep
<1> QED BY <1>1 DEF Indexed

\* What a process has handed over stays so while others work.
LEMMA HandedKept ==
    ASSUME TypeOK, [Next]_vars, NEW p \in Procs, HandedBy(p),
           snap'[p] = snap[p], todo'[p] = todo[p], inflight'[p] = inflight[p],
           pc'[p] = "commit" => pc[p] = "commit"
    PROVE  HandedBy(p)'
<1> SUFFICES ASSUME NEW s \in snap[p]
             PROVE  /\ needs'[s] # {}
                    /\ \A i \in needs'[s] : \/ i \in todo[p] \cup inflight[p]
                                            \/ Indexed(cache'[Host[p]], i)
                    /\ pc'[p] = "commit" => \/ s \in inflight[p]
                                            \/ Indexed(cache'[Host[p]], s)
  BY DEF HandedBy
<1>1. s \in Snapshots /\ Host[p] \in Machines
  BY HostAssumption DEF TypeOK
<1>2. needs'[s] = needs[s] /\ needs[s] # {}
  BY <1>1, NeedsKept DEF HandedBy
<1> QED BY <1>1, <1>2, IndexedKept DEF HandedBy

\* Every step keeps what each process has handed over.
LEMMA HandedStep ==
    ASSUME TypeOK, AllWellFormed, AllColourless, Handed, [Next]_vars
    PROVE  Handed'
<1> SUFFICES ASSUME NEW p \in Procs PROVE HandedBy(p)'
  BY DEF Handed
<1>a. HandedBy(p) /\ Host[p] \in Machines /\ cache[Host[p]] \in State
  BY HostAssumption DEF Handed, TypeOK
<1>1. ASSUME NEW q \in Procs, StartBackup(q) PROVE HandedBy(p)'
  <2>1. PICK s \in Snapshots, bs \in Sources : /\ needs' = [needs EXCEPT ![s] = bs]
                                               /\ snap' = [snap EXCEPT ![q] = {s}]
                                               /\ todo' = [todo EXCEPT ![q] = bs]
    BY <1>1, NewIsUnused DEF StartBackup
  <2>2. pc' = [pc EXCEPT ![q] = "backup"] /\ UNCHANGED inflight
    BY <1>1 DEF StartBackup
  <2>3. CASE p = q
    <3>1. bs # {}
      BY BoundsAssumption
    <3>2. snap'[p] = {s} /\ todo'[p] = bs /\ needs'[s] = bs /\ pc'[p] = "backup"
      BY <2>1, <2>2, <2>3 DEF TypeOK
    <3> QED BY <3>1, <3>2 DEF HandedBy
  <2>4. CASE p # q
    BY <1>a, <2>1, <2>2, <2>4, HandedKept DEF TypeOK
  <2> QED BY <2>3, <2>4
<1>2. ASSUME NEW q \in Procs, PutBlob(q) PROVE HandedBy(p)'
  <2>1. PICK b \in todo[q] :
          /\ todo' = [todo EXCEPT ![q] = todo[q] \ {b}]
          /\ \/ BlobExists(cache[Host[q]], b) /\ UNCHANGED inflight
             \/ inflight' = [inflight EXCEPT ![q] = inflight[q] \cup {b}]
    BY <1>2 DEF PutBlob
  <2>2. UNCHANGED <<pc, snap, cache, needs>>
    BY <1>2 DEF PutBlob, cacheVars, histVars
  <2>3. CASE p = q
    <3>1. todo'[p] = todo[p] \ {b} /\ inflight[p] \subseteq inflight'[p]
      BY <2>1, <2>3 DEF TypeOK
    <3>2. b \in inflight'[p] \/ Indexed(cache[Host[p]], b)
      <4>1. WellFormed(cache[Host[p]], packfile) /\ Colourless(cache[Host[p]])
        BY <1>a DEF AllWellFormed, AllColourless
      <4>2. BlobExists(cache[Host[p]], b) => Indexed(cache[Host[p]], b)
        BY <1>a, <4>1, ExistsIffIndexed
      <4> QED BY <2>1, <2>3, <4>2 DEF TypeOK
    <3> QED BY <1>a, <2>2, <3>1, <3>2 DEF HandedBy
  <2>4. CASE p # q
    <3>1. todo'[p] = todo[p] /\ inflight'[p] = inflight[p]
      BY <2>1, <2>4 DEF TypeOK
    <3> QED BY <1>a, <2>2, <3>1, HandedKept
  <2> QED BY <2>3, <2>4
<1>3. ASSUME NEW q \in Procs, PutHeader(q) PROVE HandedBy(p)'
  <2>1. /\ inflight' = [inflight EXCEPT ![q] = inflight[q] \cup snap[q]]
        /\ pc' = [pc EXCEPT ![q] = "commit"]
        /\ UNCHANGED <<snap, todo, cache, needs>>
    BY <1>3 DEF PutHeader, cacheVars, histVars
  <2>2. CASE p = q
    <3>1. inflight'[p] = inflight[p] \cup snap[p]
      BY <2>1, <2>2 DEF TypeOK
    <3> QED BY <1>a, <2>1, <3>1 DEF HandedBy
  <2>3. CASE p # q
    BY <1>a, <2>1, <2>3, HandedKept DEF TypeOK
  <2> QED BY <2>2, <2>3
<1>4. ASSUME NEW q \in Procs, IndexPackfile(q) PROVE HandedBy(p)'
  <2>1. PICK k \in flushing[q] :
          /\ cache' = [cache EXCEPT ![Host[q]] =
                         IndexBlobs(cache[Host[q]], k, packfile[k].items)]
          /\ inflight' = [inflight EXCEPT ![q] = inflight[q] \ packfile[k].items]
    BY <1>4 DEF IndexPackfile, PackedItems, StillInflight
  <2>2. UNCHANGED <<snap, todo, pc, needs>>
    BY <1>4 DEF IndexPackfile, histVars
  <2>3. CASE p = q
    <3>1. k \in Packfiles
      BY <2>1 DEF TypeOK
    <3>2. inflight'[p] = inflight[p] \ packfile[k].items
      BY <2>1, <2>3 DEF TypeOK
    <3>3. cache'[Host[p]] = IndexBlobs(cache[Host[p]], k, packfile[k].items)
      BY <1>a, <2>1, <2>3 DEF TypeOK
    <3>4. \A i \in packfile[k].items : Indexed(cache'[Host[p]], i)
      BY <1>a, <3>1, <3>3 DEF Indexed, IndexBlobs, State
    <3>5. \A i : Indexed(cache[Host[p]], i) => Indexed(cache'[Host[p]], i)
      BY <1>a, IndexedKept
    <3> QED BY <1>a, <2>2, <3>2, <3>4, <3>5 DEF HandedBy
  <2>4. CASE p # q
    <3>1. inflight'[p] = inflight[p]
      BY <2>1, <2>4 DEF TypeOK
    <3> QED BY <1>a, <2>2, <3>1, HandedKept
  <2> QED BY <2>3, <2>4
<1>5. ASSUME NEW q \in Procs, Commit(q) \/ Crash(q) PROVE HandedBy(p)'
  <2>1. CASE p = q
    <3>1. snap'[p] = {}
      BY <1>5, <2>1 DEF Commit, Crash, TypeOK
    <3> QED BY <3>1 DEF HandedBy
  <2>2. CASE p # q
    <3>1. /\ snap'[p] = snap[p] /\ todo'[p] = todo[p]
          /\ inflight'[p] = inflight[p] /\ pc'[p] = pc[p]
      BY <1>5, <2>2 DEF Commit, Crash, TypeOK
    <3> QED BY <1>a, <3>1, HandedKept
  <2> QED BY <2>1, <2>2
<1>6. ASSUME NEW q \in Procs, \/ ListStates(q) \/ InsertState(q) \/ Opened(q) \/ Close(q)
                              \/ StorePackfile(q) \/ SwapDelta(q) \/ PushDelta(q) \/ Rm(q)
      PROVE  HandedBy(p)'
  <2>1. /\ UNCHANGED <<snap, todo, inflight>>
        /\ pc'[p] = pc[p] \/ pc'[p] \in {"opening", "ready", "idle"}
    BY <1>6 DEF ListStates, InsertState, Opened, Close, StorePackfile, SwapDelta,
         PushDelta, Rm, procVars, TypeOK
  <2> QED BY <1>a, <2>1, HandedKept
<1>7. ASSUME Tick \/ UNCHANGED vars PROVE HandedBy(p)'
  <2>1. UNCHANGED <<snap, todo, inflight, pc>>
    BY <1>7 DEF Tick, vars, procVars
  <2> QED BY <1>a, <2>1, HandedKept
<1> QED BY <1>1, <1>2, <1>3, <1>4, <1>5, <1>6, <1>7 DEF Next, Step

\* A snapshot that is acknowledged has left nothing in the packer.
LEMMA AckedStep ==
    ASSUME TypeOK, AllWellFormed, AllColourless, Handed, AckedIndexed, [Next]_vars
    PROVE  AckedIndexed'
<1>1. \A a \in acked : /\ needs'[a[1]] # {}
                       /\ \A i \in needs'[a[1]] \cup {a[1]} : Indexed(cache'[a[2]], i)
  <2> SUFFICES ASSUME NEW a \in acked
               PROVE  /\ needs'[a[1]] # {}
                      /\ \A i \in needs'[a[1]] \cup {a[1]} : Indexed(cache'[a[2]], i)
    OBVIOUS
  <2>1. a[1] \in Snapshots /\ a[2] \in Machines
    BY DEF TypeOK
  <2>2. needs'[a[1]] = needs[a[1]] /\ needs[a[1]] # {}
    BY <2>1, NeedsKept DEF AckedIndexed
  <2> QED BY <2>1, <2>2, IndexedKept DEF AckedIndexed
<1>2. ASSUME NEW p \in Procs, Commit(p) PROVE AckedIndexed'
  <2>1. /\ acked' = acked \cup (snap[p] \X {Host[p]})
        /\ pc[p] = "commit" /\ inflight[p] = {}
        /\ UNCHANGED <<needs, cache>>
    BY <1>2 DEF Commit, PackerDone, cacheVars
  <2>2. todo[p] = {}
    BY <2>1 DEF TypeOK
  <2>3. \A s \in snap[p] : /\ needs[s] # {}
                           /\ \A i \in needs[s] \cup {s} : Indexed(cache[Host[p]], i)
    BY <2>1, <2>2 DEF Handed, HandedBy
  <2>4. \A a \in acked' : a \in acked \/ (a[1] \in snap[p] /\ a[2] = Host[p])
    BY <2>1
  <2>5. ASSUME NEW a \in acked'
        PROVE  /\ needs'[a[1]] # {}
               /\ \A i \in needs'[a[1]] \cup {a[1]} : Indexed(cache'[a[2]], i)
    <3>1. CASE a \in acked
      BY <1>1, <3>1
    <3>2. CASE a[1] \in snap[p] /\ a[2] = Host[p]
      BY <2>1, <2>3, <3>2
    <3> QED BY <2>4, <3>1, <3>2
  <2> QED BY <2>5 DEF AckedIndexed
<1>3. ASSUME NEW p \in Procs, Step(p), ~ Commit(p) PROVE AckedIndexed'
  <2>1. UNCHANGED acked
    BY <1>3 DEF Step, ListStates, InsertState, Opened, Close, StartBackup, PutBlob, PutHeader,
         StorePackfile, IndexPackfile, SwapDelta, PushDelta, Crash, Rm, histVars
  <2> QED BY <1>1, <2>1 DEF AckedIndexed
<1>4. ASSUME Tick \/ UNCHANGED vars PROVE AckedIndexed'
  <2>1. UNCHANGED acked
    BY <1>4 DEF Tick, vars, histVars
  <2> QED BY <1>1, <2>1 DEF AckedIndexed
<1> QED BY <1>2, <1>3, <1>4 DEF Next

\* The part of the invariant that concerns one machine.
LocalInv == AllWellFormed /\ AllColourless /\ Handed /\ AckedIndexed

THEOREM LocalInvariant == Spec => [](TypeOK /\ LocalInv)
<1>1. Init => LocalInv
  BY EmptyWellFormed
     DEF Init, LocalInv, AllWellFormed, AllColourless, Colourless, EmptyState,
         Handed, HandedBy, AckedIndexed
<1>2. TypeOK /\ TypeOK' /\ LocalInv /\ [Next]_vars => LocalInv'
  BY WellFormedStep, ColourlessStep, HandedStep, AckedStep DEF LocalInv
<1> QED BY <1>1, <1>2, TypeCorrect, PTL DEF Spec

\* A snapshot whose backup succeeded is complete on its machine: a blob that was
\* not sent because BlobExists said so stays indexed, whoever dies.
THEOREM CompleteAtHome == Spec => []HomeComplete
<1>1. TypeOK /\ LocalInv => HomeComplete
  <2> SUFFICES ASSUME TypeOK, LocalInv, NEW a \in acked, NEW i \in needs[a[1]] \cup {a[1]}
               PROVE  BlobExists(cache[a[2]], i)
    BY DEF HomeComplete, Complete
  <2>0. a[2] \in Machines
    BY DEF TypeOK
  <2>1. /\ cache[a[2]] \in State /\ WellFormed(cache[a[2]], packfile)
        /\ Colourless(cache[a[2]])
    BY <2>0 DEF TypeOK, LocalInv, AllWellFormed, AllColourless
  <2>2. Indexed(cache[a[2]], i)
    BY DEF LocalInv, AckedIndexed
  <2> QED BY <2>1, <2>2, ExistsIffIndexed
<1> QED BY <1>1, LocalInvariant, PTL

-----------------------------------------------------------------------------
\* What a process has not pushed yet.
Held(p) == delta[p].deltas \cup UNION {st.deltas : st \in pushing[p]}

\* Pushing or losing a state accounts for its locations.
LEMMA PushedOrLost ==
    ASSUME TypeOK, [Next]_vars, NEW p \in Procs, NEW st \in State,
           \/ PushState(st)
           \/ \E sts \in SUBSET State : st \in sts /\ Forget(p, sts)
    PROVE  \A l \in st.deltas : \/ \E i \in published' : l \in states'[i].deltas
                                \/ l \in lost'[Host[p]]
<1>1. CASE PushState(st)
  BY <1>1, PushStateWrites
<1>2. ASSUME NEW sts \in SUBSET State, st \in sts, Forget(p, sts)
      PROVE  \A l \in st.deltas : l \in lost'[Host[p]]
  <2>1. Host[p] \in Machines /\ lost \in [Machines -> SUBSET Locations]
    BY HostAssumption DEF TypeOK
  <2>2. st.deltas \subseteq UNION {x.deltas : x \in sts}
    BY <1>2
  <2> QED BY <1>2, <2>1, <2>2 DEF Forget
<1> QED BY <1>1, <1>2

\* What is lost stays lost.
LEMMA LostKept ==
    ASSUME TypeOK, [Next]_vars, NEW m \in Machines
    PROVE  lost[m] \subseteq lost'[m]
<1>1. ASSUME NEW p \in Procs, NEW sts, Forget(p, sts) PROVE lost[m] \subseteq lost'[m]
  BY <1>1, HostAssumption DEF Forget, TypeOK
<1>2. ASSUME NEW p \in Procs, PushDelta(p) \/ Commit(p) \/ Crash(p)
      PROVE  lost[m] \subseteq lost'[m]
  BY <1>1, <1>2 DEF PushDelta, Commit, Crash
<1>3. ASSUME NEW p \in Procs, Step(p), ~ (PushDelta(p) \/ Commit(p) \/ Crash(p))
      PROVE  UNCHANGED lost
  BY <1>3 DEF Step, ListStates, InsertState, Opened, Close, StartBackup, PutBlob, PutHeader,
       StorePackfile, IndexPackfile, SwapDelta, Rm, histVars
<1>4. ASSUME Tick \/ UNCHANGED vars PROVE UNCHANGED lost
  BY <1>4 DEF Tick, vars, histVars
<1> QED BY <1>2, <1>3, <1>4 DEF Next

\* Every step is orderly.
LEMMA OrderlyStep == ASSUME TypeOK, Orderly, [Next]_vars PROVE Orderly'
<1> SUFFICES ASSUME NEW p \in Procs
             PROVE  /\ missing'[p] \subseteq published'
                    /\ \A x, y \in pushing'[p] : x = y
  BY DEF Orderly
<1>1. missing'[p] \subseteq published'
  <2>1. missing[p] \subseteq published /\ published \subseteq published'
    BY PublishedKept DEF Orderly
  <2>2. ASSUME NEW q \in Procs, ListStates(q) PROVE missing'[p] \subseteq published'
    BY <2>1, <2>2 DEF ListStates, TypeOK
  <2>3. ASSUME NEW q \in Procs, InsertState(q) \/ Crash(q) PROVE missing'[p] \subseteq missing[p]
    BY <2>3 DEF InsertState, Crash, TypeOK
  <2>4. ASSUME NEW q \in Procs, Step(q), ~ ListStates(q), ~ (InsertState(q) \/ Crash(q))
        PROVE  UNCHANGED missing
    BY <2>4 DEF Step, Opened, Close, StartBackup, PutBlob, PutHeader, StorePackfile,
         IndexPackfile, SwapDelta, PushDelta, Commit, Rm, procVars
  <2>5. ASSUME Tick \/ UNCHANGED vars PROVE UNCHANGED missing
    BY <2>5 DEF Tick, vars, procVars
  <2> QED BY <2>1, <2>2, <2>3, <2>4, <2>5 DEF Next
<1>2. \A x, y \in pushing'[p] : x = y
  <2>1. \A x, y \in pushing[p] : x = y
    BY DEF Orderly
  <2>2. ASSUME NEW q \in Procs, SwapDelta(q) \/ PushDelta(q) \/ Crash(q)
        PROVE  \A x, y \in pushing'[p] : x = y
    BY <2>1, <2>2 DEF SwapDelta, PushDelta, Crash, TypeOK
  <2>3. ASSUME NEW q \in Procs, Step(q), ~ (SwapDelta(q) \/ PushDelta(q) \/ Crash(q))
        PROVE  UNCHANGED pushing
    BY <2>3 DEF Step, ListStates, InsertState, Opened, Close, StartBackup, PutBlob, PutHeader,
         StorePackfile, IndexPackfile, Commit, Rm, procVars
  <2>4. ASSUME Tick \/ UNCHANGED vars PROVE UNCHANGED pushing
    BY <2>4 DEF Tick, vars, procVars
  <2> QED BY <2>1, <2>2, <2>3, <2>4 DEF Next
<1> QED BY <1>1, <1>2

\* What a process holds it still holds after a step, or it is published or lost.
LEMMA HeldStep ==
    ASSUME TypeOK, Orderly, [Next]_vars, NEW p \in Procs, NEW l \in Held(p)
    PROVE  \/ l \in Held(p)'
           \/ \E i \in published' : l \in states'[i].deltas
           \/ l \in lost'[Host[p]]
<1> DEFINE Safe == \/ l \in Held(p)'
                   \/ \E i \in published' : l \in states'[i].deltas
                   \/ l \in lost'[Host[p]]
<1>a. /\ delta \in [Procs -> State] /\ pushing \in [Procs -> SUBSET State]
      /\ delta[p] \in State /\ pushing[p] \in SUBSET State
  BY DEF TypeOK
<1>b. ASSUME delta'[p] = delta[p], pushing'[p] = pushing[p] PROVE Safe
  BY <1>b DEF Held
<1>1. ASSUME NEW q \in Procs, SwapDelta(q) PROVE Safe
  <2>1. /\ pushing[q] = {}
        /\ pushing' = [pushing EXCEPT ![q] = {delta[q]}]
        /\ delta' = [delta EXCEPT ![q] = EmptyState]
    BY <1>1 DEF SwapDelta, SwappedOut
  <2>2. CASE p = q
    <3>1. pushing'[p] = {delta[p]} /\ l \in delta[p].deltas
      BY <1>a, <2>1, <2>2 DEF Held
    <3> QED BY <3>1 DEF Held
  <2>3. CASE p # q
    BY <1>a, <1>b, <2>1, <2>3
  <2> QED BY <2>2, <2>3
<1>2. ASSUME NEW q \in Procs, PushDelta(q) PROVE Safe
  <2>1. PICK st \in pushing[q] : PushState(st) \/ Forget(q, {st})
    BY <1>2 DEF PushDelta
  <2>2. pushing' = [pushing EXCEPT ![q] = {}] /\ UNCHANGED delta
    BY <1>2 DEF PushDelta
  <2>3. CASE p = q
    <3>1. l \in delta[p].deltas \/ l \in st.deltas
      BY <2>1, <2>3 DEF Held, Orderly
    <3>2. CASE l \in delta[p].deltas
      BY <2>2, <3>2 DEF Held
    <3>3. CASE l \in st.deltas
      <4>1. st \in State
        BY <1>a, <2>1, <2>3
      <4>2. PushState(st) \/ \E sts \in SUBSET State : st \in sts /\ Forget(p, sts)
        BY <2>1, <2>3, <4>1
      <4> QED BY <3>3, <4>1, <4>2, PushedOrLost
    <3> QED BY <3>1, <3>2, <3>3
  <2>4. CASE p # q
    BY <1>a, <1>b, <2>2, <2>4
  <2> QED BY <2>3, <2>4
<1>3. ASSUME NEW q \in Procs, Commit(q) PROVE Safe
  <2>1. /\ pushing[q] = {} /\ UNCHANGED pushing
        /\ delta' = [delta EXCEPT ![q] = EmptyState]
        /\ PushState(delta[q]) \/ Forget(q, {delta[q]})
    BY <1>3 DEF Commit
  <2>2. CASE p = q
    <3>1. l \in delta[p].deltas
      BY <2>1, <2>2 DEF Held
    <3>2. PushState(delta[p]) \/ \E sts \in SUBSET State : delta[p] \in sts /\ Forget(p, sts)
      BY <1>a, <2>1, <2>2
    <3> QED BY <1>a, <3>1, <3>2, PushedOrLost
  <2>3. CASE p # q
    BY <1>a, <1>b, <2>1, <2>3
  <2> QED BY <2>2, <2>3
<1>4. ASSUME NEW q \in Procs, Crash(q) PROVE Safe
  <2>1. /\ Forget(q, pushing[q] \cup {delta[q]})
        /\ delta' = [delta EXCEPT ![q] = EmptyState]
        /\ pushing' = [pushing EXCEPT ![q] = {}]
    BY <1>4 DEF Crash
  <2>2. CASE p = q
    <3>1. PICK st \in pushing[p] \cup {delta[p]} : l \in st.deltas
      BY DEF Held
    <3>2. st \in State /\ pushing[p] \cup {delta[p]} \in SUBSET State
      BY <1>a, <3>1
    <3>3. \E sts \in SUBSET State : st \in sts /\ Forget(p, sts)
      BY <2>1, <2>2, <3>1, <3>2
    <3> QED BY <3>1, <3>2, <3>3, PushedOrLost
  <2>3. CASE p # q
    BY <1>a, <1>b, <2>1, <2>3
  <2> QED BY <2>2, <2>3
<1>5. ASSUME NEW q \in Procs, IndexPackfile(q) PROVE Safe
  <2>1. PICK k \in flushing[q] :
          delta' = [delta EXCEPT ![q] = IndexBlobs(delta[q], k, packfile[k].items)]
    BY <1>5 DEF IndexPackfile, PackedItems
  <2>2. delta[p].deltas \subseteq delta'[p].deltas
    BY <1>a, <2>1 DEF IndexBlobs, State
  <2>3. UNCHANGED pushing
    BY <1>5 DEF IndexPackfile
  <2> QED BY <2>2, <2>3 DEF Held
<1>6. ASSUME NEW q \in Procs, Step(q), ~ SwapDelta(q), ~ PushDelta(q), ~ Commit(q),
             ~ Crash(q), ~ IndexPackfile(q)
      PROVE  UNCHANGED <<delta, pushing>>
  BY <1>6 DEF Step, ListStates, InsertState, Opened, Close, StartBackup, PutBlob, PutHeader,
       StorePackfile, Rm, procVars
<1>7. ASSUME Tick \/ UNCHANGED vars PROVE UNCHANGED <<delta, pushing>>
  BY <1>7 DEF Tick, vars, procVars
<1> HIDE DEF Safe
<1>8. Safe
  BY <1>b, <1>1, <1>2, <1>3, <1>4, <1>5, <1>6, <1>7 DEF Next
<1> QED BY <1>8 DEF Safe

LEMMA UnpushedIsHeld ==
    ASSUME NEW m \in Machines, NEW l
    PROVE  l \in Unpushed(m) <=> \E p \in Procs : Host[p] = m /\ l \in Held(p)
BY DEF Unpushed, Held

\* The same in the next state.
LEMMA UnpushedIsHeldNext ==
    ASSUME NEW m \in Machines, NEW l
    PROVE  l \in Unpushed(m)' <=> \E p \in Procs : Host[p] = m /\ l \in Held(p)'
BY DEF Unpushed, Held

\* A location a machine knows keeps an origin.
LEMMA ProvenanceStep ==
    ASSUME TypeOK, Orderly, Provenance, [Next]_vars
    PROVE  Provenance'
<1> SUFFICES ASSUME NEW m \in Machines, NEW l \in cache'[m].deltas PROVE Origin(m, l)'
  BY DEF Provenance
<1>1. ASSUME Origin(m, l) PROVE Origin(m, l)'
  <2>1. CASE \E i \in published : l \in states[i].deltas
    BY <2>1, PublishedKept DEF Origin
  <2>2. CASE l \in lost[m]
    BY <2>2, LostKept DEF Origin
  <2>3. CASE l \in Unpushed(m)
    <3>1. PICK p \in Procs : Host[p] = m /\ l \in Held(p)
      BY <2>3, UnpushedIsHeld
    <3>2. \/ l \in Held(p)'
          \/ \E i \in published' : l \in states'[i].deltas
          \/ l \in lost'[m]
      BY <3>1, HeldStep
    <3> QED BY <3>1, <3>2, UnpushedIsHeldNext DEF Origin
  <2> QED BY <1>1, <2>1, <2>2, <2>3 DEF Origin
<1>2. ASSUME l \in cache[m].deltas PROVE Origin(m, l)'
  BY <1>1, <1>2 DEF Provenance
<1>3. ASSUME NEW p \in Procs, InsertState(p) PROVE Origin(m, l)'
  <2>1. PICK i \in missing[p] :
          \/ UNCHANGED cache
          \/ cache' = [cache EXCEPT ![Host[p]] = Merge(cache[Host[p]], states[i])]
    BY <1>3 DEF InsertState
  <2>2. i \in published /\ UNCHANGED <<states, published>>
    BY <1>3, <2>1 DEF Orderly, InsertState, storeVars
  <2>3. l \in cache[m].deltas \/ l \in states[i].deltas
    BY <2>1 DEF TypeOK, Merge
  <2> QED BY <1>2, <2>2, <2>3 DEF Origin
<1>4. ASSUME NEW p \in Procs, IndexPackfile(p) PROVE Origin(m, l)'
  <2>1. PICK k \in flushing[p] :
          /\ delta' = [delta EXCEPT ![p] = IndexBlobs(delta[p], k, packfile[k].items)]
          /\ cache' = [cache EXCEPT ![Host[p]] =
                         IndexBlobs(cache[Host[p]], k, packfile[k].items)]
    BY <1>4 DEF IndexPackfile, PackedItems
  <2>2. delta[p] \in State /\ cache[m] \in State
    BY DEF TypeOK
  <2>3. l \in cache[m].deltas \/ (Host[p] = m /\ l \in packfile[k].items \X {k})
    BY <2>1, <2>2 DEF TypeOK, IndexBlobs, State
  <2>4. CASE Host[p] = m /\ l \in packfile[k].items \X {k}
    <3>1. l \in delta'[p].deltas
      BY <2>1, <2>2, <2>4 DEF TypeOK, IndexBlobs, State
    <3>2. l \in Held(p)'
      BY <3>1 DEF Held
    <3> QED BY <2>4, <3>2, UnpushedIsHeldNext DEF Origin
  <2> QED BY <1>2, <2>3, <2>4
<1>5. ASSUME NEW p \in Procs, Step(p), ~ InsertState(p), ~ IndexPackfile(p)
      PROVE  UNCHANGED cache
  BY <1>5 DEF Step, ListStates, Opened, Close, StartBackup, PutBlob, PutHeader,
       StorePackfile, SwapDelta, PushDelta, Commit, Crash, Rm, cacheVars
<1>6. ASSUME Tick \/ UNCHANGED vars PROVE UNCHANGED cache
  BY <1>6 DEF Tick, vars, cacheVars
<1> QED BY <1>2, <1>3, <1>4, <1>5, <1>6 DEF Next

\* IInv is an invariant of the specification.
THEOREM Invariant == Spec => []IInv
<1>1. Init => Orderly /\ Provenance
  BY DEF Init, Orderly, Provenance, EmptyState
<1>2. TypeOK /\ Orderly /\ Provenance /\ [Next]_vars => Orderly' /\ Provenance'
  BY OrderlyStep, ProvenanceStep
<1> QED BY <1>1, <1>2, LocalInvariant, PTL DEF Spec, IInv, LocalInv

\* A blob that some published state locates exists for a machine that starts from
\* nothing: no state of this module colours a packfile.
LEMMA LocatedExists ==
    ASSUME TypeOK, AllWellFormed, AllColourless, NEW i \in published, NEW l \in states[i].deltas
    PROVE  BlobExists(Remote, l[1])
<1>1. i \in StateIds /\ states[i] \in State
  BY DEF TypeOK
<1>2. l = <<l[1], l[2]>> /\ l[2] \in Packfiles
  BY <1>1 DEF State, Locations
<1>3. l[2] \in states[i].packfiles
  BY <1>1 DEF AllWellFormed, WellFormed
<1>4. ~ HasDeletedResource(Remote, l[2])
  <2>1. \A j \in published : \A d \in states[j].deleted : d.res \in Snapshots
    BY DEF TypeOK, AllColourless, Colourless
  <2> QED BY <1>2, <2>1, TypesAreDisjoint DEF HasDeletedResource, Remote
<1>5. <<l[1], l[2]>> \in Remote.deltas /\ l[2] \in Remote.packfiles
  BY <1>2, <1>3 DEF Remote
<1> QED BY <1>2, <1>4, <1>5 DEF BlobExists, Holders, Usable

\* Every blob of a snapshot whose backup succeeded is located by a state file, or
\* a backup of its machine still holds the location or has lost it.
THEOREM AllAccounted == Spec => []Accounted
<1>1. IInv => Accounted
  <2> SUFFICES ASSUME IInv, NEW a \in acked, NEW i \in needs[a[1]] \cup {a[1]}
               PROVE  \/ BlobExists(Remote, i)
                      \/ \E l \in Unpushed(a[2]) \cup lost[a[2]] : l[1] = i
    BY DEF Accounted
  <2> USE DEF IInv
  <2>1. a[2] \in Machines
    BY DEF TypeOK
  <2>2. PICK k \in Packfiles : <<i, k>> \in cache[a[2]].deltas
    BY DEF AckedIndexed, Indexed
  <2>3. Origin(a[2], <<i, k>>)
    BY <2>1, <2>2 DEF Provenance
  <2>4. ASSUME NEW j \in published, <<i, k>> \in states[j].deltas PROVE BlobExists(Remote, i)
    <3>1. BlobExists(Remote, <<i, k>>[1])
      BY <2>4, LocatedExists
    <3> QED BY <3>1
  <2> QED BY <2>3, <2>4 DEF Origin
<1> QED BY <1>1, Invariant, PTL

-----------------------------------------------------------------------------
MaintenanceCache == [snapshots : SUBSET Snapshots,
                     packfiles : SUBSET (Packfiles \X Snapshots)]

\* The types, and the exclusive lock: a process holds it exactly while its
\* maintenance runs.
MTypeOK ==
    /\ TypeOK
    /\ mpc \in [Procs -> {"off", "update", "colour", "sweep", "push"}]
    /\ listed \in [Procs -> SUBSET Snapshots]
    /\ since \in [Procs -> Nat]
    /\ mcache \in [Machines -> MaintenanceCache]
    /\ runs \in Nat
    /\ \A p \in Procs : pc[p] = "exclusive" <=> mpc[p] # "off"

-----------------------------------------------------------------------------
\* The steps of maintenance, and what they leave alone.

\* The operators on states that only maintenance uses return states.
LEMMA SweepOperators ==
    ASSUME now \in Nat
    PROVE
    /\ \A ks \in SUBSET Packfiles : Tombstones(ks) \in State
    /\ \A st \in State : \A rs : DelDeletedResource(st, rs) \in State
    /\ \A st \in State : \A ks : DelPackfile(st, ks) \in State
    /\ \A st \in State : \A ls : DelDelta(st, ls) \in State
<1>1. \A ks \in SUBSET Packfiles : Tombstones(ks) \in State
  BY DEF Tombstones, EmptyState, State, Tombstone, TypeOK
<1>2. \A st \in State : \A rs : DelDeletedResource(st, rs) \in State
  BY DEF DelDeletedResource, State
<1>3. \A st \in State : \A ks : DelPackfile(st, ks) \in State
  BY DEF DelPackfile, State
<1>4. \A st \in State : \A ls : DelDelta(st, ls) \in State
  BY DEF DelDelta, State
<1> QED BY <1>1, <1>2, <1>3, <1>4


\* A step is one of Repository, or one of somebody's maintenance.
LEMMA MaintenanceSteps ==
    ASSUME [MNext]_allVars
    PROVE  \/ [Next]_vars /\ UNCHANGED mvars
           \/ \E p \in Procs : MStep(p)
BY DEF MNext, allVars

\* Maintenance changes no packfile, no backup and none of the histories; before
\* it colours, it changes nothing of Repository but its own pc.
LEMMA MStepKeeps ==
    ASSUME NEW p \in Procs, MStep(p)
    PROVE  /\ UNCHANGED <<packfile, known, cookie, procVars, histVars, now>>
           /\ Colour(p) \/ PushSwept(p) \/ UNCHANGED <<states, published>>
           /\ Sweep(p) \/ UNCHANGED cache
           /\ \E pass \in PCs : pc' = [pc EXCEPT ![p] = pass] \/ UNCHANGED pc
BY DEF MStep, StartMaintenance, IndexSnapshot, FailSnapshot, ForgetRemoved, Colour, Sweep,
   PushSwept, Abort, Enter, Leave, PCs, storeVars, cacheVars, vars, PushFails

\* Sweeping forgets packfiles, tombstones of packfiles, and the locations that
\* are left without a packfile.
Swept(st, gone, due) ==
    LET left == DelDeletedResource(DelPackfile(st, gone), due)
    IN  DelDelta(left, ListOrphanDeltas(left))

LEMMA SweptIsState ==
    ASSUME NEW st \in State, NEW gone, NEW due
    PROVE  Swept(st, gone, due) \in State
BY DEF Swept, DelDeletedResource, DelPackfile, DelDelta, State

Unused(p) == {k \in Due(p) : ~ HasPackfile(Host[p], k)}

LEMMA SweepStep ==
    ASSUME NEW p \in Procs, Sweep(p)
    PROVE  /\ Due(p) \subseteq Packfiles /\ Unused(p) \subseteq Due(p)
           /\ cache' = [cache EXCEPT ![Host[p]] = Swept(cache[Host[p]], Unused(p), Due(p))]
BY DEF Sweep, Swept, Unused, Due, ListDeleted

\* A maintenance step keeps the types of what Repository declares ...
LEMMA MStepType == ASSUME MTypeOK, NEW p \in Procs, MStep(p) PROVE TypeOK'
<1>1. Host[p] \in Machines /\ cache[Host[p]] \in State
  BY HostAssumption DEF MTypeOK, TypeOK
<1>2. states' \in [StateIds -> State] /\ published' \subseteq StateIds
  <2>1. CASE Colour(p)
    <3>1. Tombstones(ToColour(p)) \in State
      <4>1. ToColour(p) \in SUBSET Packfiles /\ now \in Nat
        BY <1>1 DEF ToColour, Candidates, State, MTypeOK, TypeOK
      <4> QED BY <4>1, SweepOperators
    <3> QED BY <2>1, <3>1, PushStateType DEF Colour, PushFails, MTypeOK, TypeOK
  <2>2. CASE PushSwept(p)
    BY <1>1, <2>2, PushStateType DEF PushSwept, PushFails, MTypeOK, TypeOK
  <2>3. CASE UNCHANGED <<states, published>>
    BY <2>3 DEF MTypeOK, TypeOK
  <2> QED BY <2>1, <2>2, <2>3, MStepKeeps
<1>3. cache' \in [Machines -> State]
  <2>1. CASE Sweep(p)
    <3>1. \A gone, due : Swept(cache[Host[p]], gone, due) \in State
      BY <1>1, SweptIsState
    <3>2. Swept(cache[Host[p]], Unused(p), Due(p)) \in State
      BY <3>1
    <3> QED BY <1>1, <2>1, <3>2, SweepStep DEF MTypeOK, TypeOK
  <2>2. CASE UNCHANGED cache
    BY <2>2 DEF MTypeOK, TypeOK
  <2> QED BY <2>1, <2>2, MStepKeeps
<1>4. pc' \in [Procs -> PCs]
  BY MStepKeeps DEF MTypeOK, TypeOK
<1>5. \A q \in Procs : pc'[q] \in BackupPcs <=> pc[q] \in BackupPcs
  <2>1. pc[p] \in {"ready", "exclusive"}
    BY DEF MStep, StartMaintenance, IndexSnapshot, FailSnapshot, ForgetRemoved, Colour, Sweep,
       PushSwept, Abort, MTypeOK
  <2>2. \/ UNCHANGED pc
        \/ pc' = [pc EXCEPT ![p] = "idle"]
        \/ pc' = [pc EXCEPT ![p] = "exclusive"]
    BY DEF MStep, StartMaintenance, IndexSnapshot, FailSnapshot, ForgetRemoved, Colour, Sweep,
       PushSwept, Abort, Enter, Leave, vars
  <2> QED BY <2>1, <2>2 DEF MTypeOK, TypeOK, BackupPcs
<1>6. \A q \in Procs : pc[q] = "backup" => pc'[q] = "backup"
  <2>1. pc[p] \in {"ready", "exclusive"}
    BY DEF MStep, StartMaintenance, IndexSnapshot, FailSnapshot, ForgetRemoved, Colour, Sweep,
       PushSwept, Abort, MTypeOK
  <2> QED BY <2>1, MStepKeeps DEF MTypeOK, TypeOK
<1> QED BY <1>2, <1>3, <1>4, <1>5, <1>6, MStepKeeps DEF MTypeOK, TypeOK, procVars, histVars

\* ... and of its own variables.
LEMMA MStepMType == ASSUME MTypeOK, NEW p \in Procs, MStep(p) PROVE MTypeOK'
<1>1. /\ Host[p] \in Machines /\ mcache[Host[p]] \in MaintenanceCache
      /\ mcache \in [Machines -> MaintenanceCache]
      /\ pc \in [Procs -> PCs] /\ now \in Nat
  BY HostAssumption DEF MTypeOK, TypeOK
<1>2. mcache' \in [Machines -> MaintenanceCache]
  <2>1. \A s \in Snapshots : \A items : \A f \in Resolutions(cache[Host[p]], items) :
           Rows(s, f) \subseteq Packfiles \X Snapshots
    BY DEF Resolutions, Rows
  <2>2. CASE IndexSnapshot(p)
    <3>1. PICK s \in Snapshots :
            \/ UNCHANGED mcache
            \/ \E got : \E f \in Resolutions(cache[Host[p]], got) :
                  mcache' = [mcache EXCEPT ![Host[p]] =
                      [snapshots |-> @.snapshots \cup {s}, packfiles |-> @.packfiles \cup Rows(s, f)]]
      BY <2>2 DEF IndexSnapshot, MTypeOK
    <3>2. ASSUME NEW got, NEW f \in Resolutions(cache[Host[p]], got)
          PROVE  [snapshots |-> mcache[Host[p]].snapshots \cup {s},
                  packfiles |-> mcache[Host[p]].packfiles \cup Rows(s, f)] \in MaintenanceCache
      BY <1>1, <2>1, <3>2 DEF MaintenanceCache
    <3> QED BY <1>1, <3>1, <3>2
  <2>3. CASE FailSnapshot(p)
    <3>1. PICK s \in Snapshots :
            \/ UNCHANGED mcache
            \/ \E got : \E f \in Resolutions(cache[Host[p]], got) :
                  mcache' = [mcache EXCEPT ![Host[p]].packfiles = @ \cup Rows(s, f)]
      BY <2>3 DEF FailSnapshot, MTypeOK
    <3>2. ASSUME NEW got, NEW f \in Resolutions(cache[Host[p]], got)
          PROVE  [mcache[Host[p]] EXCEPT !.packfiles = @ \cup Rows(s, f)] \in MaintenanceCache
      BY <1>1, <2>1, <3>2 DEF MaintenanceCache
    <3> QED BY <1>1, <3>1, <3>2
  <2>4. CASE ForgetRemoved(p)
    <3>1. \A gone : Forgotten(mcache[Host[p]], gone) \in MaintenanceCache
      BY <1>1 DEF Forgotten, MaintenanceCache
    <3> QED BY <1>1, <2>4, <3>1 DEF ForgetRemoved
  <2>5. CASE UNCHANGED mcache
    BY <1>1, <2>5
  <2> QED BY <2>2, <2>3, <2>4, <2>5
          DEF MStep, StartMaintenance, Colour, Sweep, PushSwept, Abort
<1>3. mpc' \in [Procs -> {"off", "update", "colour", "sweep", "push"}]
  BY DEF MTypeOK, MStep, StartMaintenance, IndexSnapshot, FailSnapshot, ForgetRemoved, Colour,
     Sweep, PushSwept, Abort, Enter, Leave
<1>4. listed' \in [Procs -> SUBSET Snapshots]
  BY DEF MTypeOK, MStep, StartMaintenance, IndexSnapshot, FailSnapshot, ForgetRemoved, Colour,
     Sweep, PushSwept, Abort, ListSnapshots
<1>5. since' \in [Procs -> Nat] /\ runs' \in Nat
  BY <1>1 DEF MTypeOK, MStep, StartMaintenance, IndexSnapshot, FailSnapshot, ForgetRemoved,
     Colour, Sweep, PushSwept, Abort, Enter, Leave
<1>6. \A q \in Procs : pc'[q] = "exclusive" <=> mpc'[q] # "off"
  BY <1>1 DEF MTypeOK, MStep, StartMaintenance, IndexSnapshot, FailSnapshot, ForgetRemoved,
     Colour, Sweep, PushSwept, Abort, Enter, Leave, vars
<1> QED BY <1>2, <1>3, <1>4, <1>5, <1>6, MStepType DEF MTypeOK

\* The steps of the commands leave maintenance alone, and its lock.
LEMMA NextMType == ASSUME MTypeOK, [Next]_vars, UNCHANGED mvars PROVE MTypeOK'
<1>1. \A q \in Procs : pc'[q] = "exclusive" <=> pc[q] = "exclusive"
  <2>1. pc \in [Procs -> PCs]
    BY DEF MTypeOK, TypeOK
  <2>2. ASSUME NEW p \in Procs, Step(p)
        PROVE  /\ pc[p] # "exclusive"
               /\ \/ UNCHANGED pc
                  \/ \E at \in PCs \ {"exclusive"} : pc' = [pc EXCEPT ![p] = at]
    BY <2>2 DEF Step, ListStates, InsertState, Opened, Close, StartBackup, PutBlob, PutHeader,
         StorePackfile, IndexPackfile, SwapDelta, PushDelta, Commit, Crash, Rm, BackupPcs, PCs
  <2>3. ASSUME Tick \/ UNCHANGED vars PROVE UNCHANGED pc
    BY <2>3 DEF Tick, vars
  <2> QED BY <2>1, <2>2, <2>3 DEF Next
<1> QED BY <1>1, TypeStep DEF MTypeOK, mvars

\* Every variable of Maintenance keeps its type, and a process holds the exclusive
\* lock exactly while its maintenance runs.
THEOREM MaintenanceTypes == MSpec => []MTypeOK
<1>1. MInit => MTypeOK
  BY TypeInit DEF MInit, MTypeOK, MaintenanceCache, Init
<1>2. MTypeOK /\ [MNext]_allVars => MTypeOK'
  BY MaintenanceSteps, MStepMType, NextMType
<1> QED BY <1>1, <1>2, PTL DEF MSpec

-----------------------------------------------------------------------------
\* A location that survives a sweep has its packfile.
LEMMA SweptWellFormed ==
    ASSUME NEW pf, NEW st \in State, NEW gone, NEW due, WellFormed(st, pf)
    PROVE  WellFormed(Swept(st, gone, due), pf)
BY DEF WellFormed, Swept, DelDeletedResource, DelPackfile, DelDelta, ListOrphanDeltas, State

\* Maintenance keeps every state well formed.
LEMMA MWellFormedStep ==
    ASSUME MTypeOK, AllWellFormed, NEW p \in Procs, MStep(p)
    PROVE  AllWellFormed'
<1> DEFINE W(st) == WellFormed(st, packfile)
<1>1. Host[p] \in Machines /\ cache[Host[p]] \in State
  BY HostAssumption DEF MTypeOK, TypeOK
<1>2. \A m \in Machines : W(cache'[m])
  <2>1. CASE Sweep(p)
    <3>1. W(Swept(cache[Host[p]], Unused(p), Due(p)))
      BY <1>1, SweptWellFormed DEF AllWellFormed
    <3> HIDE DEF W
    <3>2. \A m \in Machines : W(cache[m])
      BY DEF AllWellFormed, W
    <3> QED BY <1>1, <2>1, <3>1, <3>2, SweepStep DEF MTypeOK, TypeOK
  <2>2. CASE UNCHANGED cache
    BY <2>2 DEF AllWellFormed
  <2> QED BY <2>1, <2>2, MStepKeeps
<1>3. \A i \in StateIds : W(states'[i])
  <2>1. CASE Colour(p)
    <3>1. W(Tombstones(ToColour(p)))
      BY DEF WellFormed, Tombstones, EmptyState
    <3>2. \A i \in StateIds : states'[i] = states[i] \/ states'[i] = Tombstones(ToColour(p))
      BY <2>1, PushStateWrites DEF Colour, PushFails, MTypeOK
    <3> QED BY <3>1, <3>2 DEF AllWellFormed
  <2>2. CASE PushSwept(p)
    <3>1. \A i \in StateIds : states'[i] = states[i] \/ states'[i] = cache[Host[p]]
      BY <2>2, PushStateWrites DEF PushSwept, PushFails, MTypeOK
    <3> QED BY <1>1, <3>1 DEF AllWellFormed
  <2>3. CASE UNCHANGED states
    BY <2>3 DEF AllWellFormed
  <2> QED BY <2>1, <2>2, <2>3, MStepKeeps
<1> QED BY <1>2, <1>3, MStepKeeps DEF AllWellFormed, procVars

\* Whatever maintenance sweeps and whoever it races with, no location known anywhere
\* points outside the store: sweepPass deletes the locations of the packfiles it
\* forgets, and Packfiles are never deleted from the store.
THEOREM MaintenanceIndexIsSound == MSpec => []IndexSound
<1>1. MInit => AllWellFormed
  BY EmptyWellFormed DEF MInit, Init, AllWellFormed
<1>2. MTypeOK /\ AllWellFormed /\ [MNext]_allVars => AllWellFormed'
  BY MaintenanceSteps, MWellFormedStep, WellFormedStep, TypeStep DEF MTypeOK
<1>3. MTypeOK /\ AllWellFormed => IndexSound
  BY WellFormedIsSound DEF MTypeOK
<1> QED BY <1>1, <1>2, <1>3, MaintenanceTypes, PTL DEF MSpec

-----------------------------------------------------------------------------
\* Merging a state file overwrites tombstones and drops none.
LEMMA MergeKeepsTombstones ==
    ASSUME NEW st \in State, NEW file \in State, NEW r, HasDeletedResource(st, r)
    PROVE  HasDeletedResource(Merge(st, file), r)
BY DEF HasDeletedResource, Merge, PutDeleted

\* Indexing a packfile drops none, and hides no blob.
LEMMA IndexKeepsTombstones ==
    ASSUME NEW st \in State, NEW k, NEW items, NEW r
    PROVE  HasDeletedResource(IndexBlobs(st, k, items), r) <=> HasDeletedResource(st, r)
BY DEF HasDeletedResource, IndexBlobs, State

LEMMA IndexHidesNothing ==
    ASSUME NEW st \in State, NEW k, NEW items, NEW i, BlobExists(st, i)
    PROVE  BlobExists(IndexBlobs(st, k, items), i)
<1>1. \A r : HasDeletedResource(IndexBlobs(st, k, items), r) <=> HasDeletedResource(st, r)
  BY IndexKeepsTombstones
<1>2. st.deltas \subseteq IndexBlobs(st, k, items).deltas
  BY DEF IndexBlobs, State
<1>3. st.packfiles \subseteq IndexBlobs(st, k, items).packfiles
  BY DEF IndexBlobs, State
<1> QED BY <1>1, <1>2, <1>3 DEF BlobExists, Holders, Usable

\* A sweep drops the tombstones that are due and no other ...
LEMMA SweepKeepsTombstones ==
    ASSUME NEW st \in State, NEW gone, NEW due, NEW r
    PROVE  HasDeletedResource(Swept(st, gone, due), r)
             <=> r \notin due /\ HasDeletedResource(st, r)
BY DEF HasDeletedResource, Swept, DelDeletedResource, DelPackfile, DelDelta, State

\* ... so it hides no blob, when every packfile it forgets is coloured.
LEMMA SweepHidesNothing ==
    ASSUME NEW st \in State, NEW gone, NEW due, NEW i, BlobExists(st, i),
           \A k \in gone : HasDeletedResource(st, k)
    PROVE  BlobExists(Swept(st, gone, due), i)
<1>1. PICK k \in Packfiles : <<i, k>> \in st.deltas /\ Usable(st, k)
  BY DEF BlobExists, Holders
<1>2. k \notin gone
  BY <1>1 DEF Usable
<1>3. k \in Swept(st, gone, due).packfiles /\ <<i, k>> \in Swept(st, gone, due).deltas
  BY <1>1, <1>2
     DEF Usable, Swept, DelDeletedResource, DelPackfile, DelDelta, ListOrphanDeltas, State
<1>4. ~ HasDeletedResource(Swept(st, gone, due), k)
  BY <1>1, SweepKeepsTombstones DEF Usable
<1> QED BY <1>3, <1>4 DEF BlobExists, Holders, Usable

\* What a sweep finds due is coloured.
LEMMA DueIsColoured ==
    ASSUME NEW p \in Procs, NEW k \in Due(p)
    PROVE  k \in Packfiles /\ HasDeletedResource(cache[Host[p]], k)
BY DEF Due, ListDeleted, HasDeletedResource

\* A machine merges a state only once: a merge is a step of its known states.
LEMMA MergeIsSeen ==
    ASSUME TypeOK, [Next]_vars, NEW m \in Machines
    PROVE  \/ cache'[m] = cache[m]
           \/ known'[m] # known[m]
           \/ \E k \in Packfiles : cache'[m] = IndexBlobs(cache[m], k, packfile[k].items)
<1>1. ASSUME NEW p \in Procs, InsertState(p)
      PROVE  cache'[m] = cache[m] \/ known'[m] # known[m]
  <2>1. PICK i \in missing[p] :
          IF i \in known[Host[p]]
            THEN UNCHANGED <<cache, known>>
            ELSE /\ cache' = [cache EXCEPT ![Host[p]] = Merge(cache[Host[p]], states[i])]
                 /\ known' = [known EXCEPT ![Host[p]] = known[Host[p]] \cup {i}]
    BY <1>1 DEF InsertState
  <2> QED BY <2>1 DEF TypeOK
<1>2. ASSUME NEW p \in Procs, IndexPackfile(p)
      PROVE  \/ cache'[m] = cache[m]
             \/ \E k \in Packfiles : cache'[m] = IndexBlobs(cache[m], k, packfile[k].items)
  <2>1. PICK k \in flushing[p] :
          cache' = [cache EXCEPT ![Host[p]] = IndexBlobs(cache[Host[p]], k, packfile[k].items)]
    BY <1>2 DEF IndexPackfile, PackedItems
  <2> QED BY <2>1 DEF TypeOK
<1>3. ASSUME NEW p \in Procs, Step(p), ~ InsertState(p), ~ IndexPackfile(p)
      PROVE  UNCHANGED cache
  BY <1>3 DEF Step, ListStates, Opened, Close, StartBackup, PutBlob, PutHeader,
       StorePackfile, SwapDelta, PushDelta, Commit, Crash, Rm, cacheVars
<1>4. ASSUME Tick \/ UNCHANGED vars PROVE UNCHANGED cache
  BY <1>4 DEF Tick, vars, cacheVars
<1> QED BY <1>1, <1>2, <1>3, <1>4 DEF Next

\* A blob that a machine can read it loses only by merging a state: sweeping takes
\* out of the index only what was coloured already.
THEOREM SweepingHidesNothing == MSpec => OnlyColoursHide
<1>1. ASSUME MTypeOK, [MNext]_allVars, NEW m \in Machines, NEW i \in Items,
             BlobExists(cache[m], i), known'[m] = known[m]
      PROVE  BlobExists(cache'[m], i)
  <2>1. cache[m] \in State
    BY <1>1 DEF MTypeOK, TypeOK
  <2>2. CASE [Next]_vars
    <3>1. \/ cache'[m] = cache[m]
          \/ \E k \in Packfiles : cache'[m] = IndexBlobs(cache[m], k, packfile[k].items)
      BY <1>1, <2>2, MergeIsSeen DEF MTypeOK
    <3> QED BY <1>1, <2>1, <3>1, IndexHidesNothing
  <2>3. ASSUME NEW p \in Procs, Sweep(p) PROVE BlobExists(cache'[m], i)
    <3>1. \/ cache'[m] = cache[m]
          \/ m = Host[p] /\ cache'[m] = Swept(cache[m], Unused(p), Due(p))
      BY <1>1, <2>3, SweepStep, HostAssumption DEF MTypeOK, TypeOK
    <3>2. m = Host[p] => \A k \in Unused(p) : HasDeletedResource(cache[m], k)
      BY DueIsColoured DEF Unused
    <3> QED BY <1>1, <2>1, <3>1, <3>2, SweepHidesNothing
  <2> QED BY <1>1, <2>2, <2>3, MaintenanceSteps, MStepKeeps
<1>2. MTypeOK /\ [MNext]_allVars =>
        \A m \in Machines : \A i \in Items :
           BlobExists(cache[m], i) /\ ~ BlobExists(cache'[m], i) => known'[m] # known[m]
  BY <1>1
<1> QED BY <1>2, MaintenanceTypes, PTL DEF MSpec, OnlyColoursHide

\* The tombstone of a snapshot stays in the cache of a machine that has it: merging
\* overwrites it with another one, and sweeping deletes those of packfiles only.
LEMMA TombstonesStay ==
    ASSUME MTypeOK, [MNext]_allVars, NEW m \in Machines, NEW s \in Snapshots,
           HasDeletedResource(cache[m], s)
    PROVE  HasDeletedResource(cache'[m], s)
<1>1. cache[m] \in State /\ \A i \in StateIds : states[i] \in State
  BY DEF MTypeOK, TypeOK
<1>2. CASE [Next]_vars
  <2>1. \/ cache'[m] = cache[m]
        \/ \E i \in StateIds : cache'[m] = Merge(cache[m], states[i])
        \/ \E k \in Packfiles : cache'[m] = IndexBlobs(cache[m], k, packfile[k].items)
    BY <1>2, CacheStep DEF MTypeOK
  <2> QED BY <1>1, <2>1, MergeKeepsTombstones, IndexKeepsTombstones
<1>3. ASSUME NEW p \in Procs, Sweep(p) PROVE HasDeletedResource(cache'[m], s)
  <2>1. \/ cache'[m] = cache[m]
        \/ cache'[m] = Swept(cache[m], Unused(p), Due(p))
    BY <1>3, SweepStep, HostAssumption DEF MTypeOK, TypeOK
  <2>2. s \notin Due(p)
    BY DueIsColoured, TypesAreDisjoint
  <2> QED BY <1>1, <2>1, <2>2, SweepKeepsTombstones
<1> QED BY <1>2, <1>3, MaintenanceSteps, MStepKeeps

\* A removal that a machine has seen is never forgotten there.
THEOREM RemovalsStay == MSpec => RemovedStaysHidden
<1>1. MTypeOK /\ [MNext]_allVars =>
        \A m \in Machines : \A s \in Snapshots :
           HasDeletedResource(cache[m], s) => HasDeletedResource(cache'[m], s)
  BY TombstonesStay
<1> QED BY <1>1, MaintenanceTypes, PTL DEF MSpec, RemovedStaysHidden

-----------------------------------------------------------------------------
\* One command at a time, which runs to its end unless it is a maintenance; one
\* machine that maintains; a store that neither refuses a state file nor fails to
\* give it a blob.
Sequential == /\ MaxActive <= 1 /\ ~ CanCrash /\ ~ CanFailPush /\ ~ CanFailRead
              /\ \A m, n \in Maintainers : m = n

\* A command that has opened the repository.
Current(p) == pc[p] \in {"ready", "exclusive"} \cup BackupPcs

\* What the state files say.
Deleted(r)   == \E i \in published : HasDeletedResource(states[i], r)
Published(l) == \E i \in published : l \in states[i].deltas

Acked(s) == \E a \in acked : a[1] = s

\* A snapshot that nobody removed.
Kept(s) == s \notin removed

-----------------------------------------------------------------------------
(***************************************************************************)
(* The inductive invariant.                                                *)
(***************************************************************************)

\* Commands follow each other; one that does not back up holds no blob.
OneAtATime == \A p, q \in Procs : Active(p) /\ Active(q) => p = q

AtRest(p) ==
    /\ pc[p] \notin BackupPcs => /\ inflight[p] = {} /\ flushing[p] = {}
                                 /\ delta[p] = EmptyState /\ pushing[p] = {}
    /\ pc[p] # "opening" => missing[p] = {}
    /\ pc[p] = "opening" => published \subseteq known[Host[p]] \cup missing[p]
    /\ missing[p] \subseteq published

Phases == OneAtATime /\ \A p \in Procs : AtRest(p)

\* What machine m knows of the state files it has merged: no packfile they colour
\* is usable, every location they have is there unless its packfile is coloured
\* somewhere, and every tombstone of a snapshot.  Its tombstones come from them.
ColoursSeen(m) ==
    \A i \in known[m] : \A k \in cache[m].packfiles :
        HasDeletedResource(states[i], k) => HasDeletedResource(cache[m], k)

LiveSeen(m) ==
    \A i \in known[m] : \A l \in states[i].deltas : Deleted(l[2]) \/ l \in cache[m].deltas

RemovalsSeen(m) ==
    \A i \in known[m] : \A s \in Snapshots :
        HasDeletedResource(states[i], s) => HasDeletedResource(cache[m], s)

TombstonesKnown(m) ==
    \A r \in Snapshots \cup Packfiles :
        HasDeletedResource(cache[m], r) => \E i \in known[m] : HasDeletedResource(states[i], r)

\* A state file still to be merged does not bring back a packfile the machine has
\* swept: it comes with the tombstone.
ColoursComeAlong(m) ==
    \A i \in known[m] : \A j \in published \ known[m] : \A k \in states[j].packfiles :
        HasDeletedResource(states[i], k) =>
            HasDeletedResource(states[j], k) \/ HasDeletedResource(cache[m], k)

View(m) == /\ known[m] \subseteq published
           /\ ColoursSeen(m) /\ LiveSeen(m) /\ RemovalsSeen(m)
           /\ TombstonesKnown(m) /\ ColoursComeAlong(m)

\* The state files a command has pushed itself, which no machine has merged yet.
Session(p) ==
    Current(p) => \A j \in published \ known[Host[p]] :
        /\ mpc[p] \in {"off", "update", "colour"} =>
              \A k \in Packfiles :
                  HasDeletedResource(states[j], k) => HasDeletedResource(cache[Host[p]], k)
        /\ mpc[p] # "push" =>
              \A k \in states[j].packfiles :
                  HasDeletedResource(cache[Host[p]], k) => HasDeletedResource(states[j], k)
        /\ \A l \in states[j].deltas : Deleted(l[2]) \/ l \in cache[Host[p]].deltas
        /\ \A m \in Machines : j \notin known[m]

\* Only rm deletes snapshots; every packfile a state speaks of is in the store.
Stocked(st) == \A k \in st.packfiles : packfile[k].items # {}

Stock ==
    /\ \A s \in Snapshots : Deleted(s) <=> s \in removed
    /\ \A k \in Packfiles : Deleted(k) => packfile[k].items # {}
    /\ \A m \in Machines : Stocked(cache[m])
    /\ \A i \in published : Stocked(states[i])

\* What a backup writes is not coloured, and its machine knows what it indexed.
LiveOn(m, i) == \E k \in Packfiles : <<i, k>> \in cache[m].deltas /\ ~ Deleted(k)

Fresh(st) == /\ st.deleted = {} /\ Stocked(st)
             /\ \A k \in st.packfiles : ~ Deleted(k)

Writing(p) ==
    /\ \A k \in flushing[p] : ~ Deleted(k)
    /\ Fresh(delta[p]) /\ \A st \in pushing[p] : Fresh(st)
    /\ \A st, other \in pushing[p] : st = other
    /\ Held(p) \subseteq cache[Host[p]].deltas
    /\ \A s \in Snapshots \cap inflight[p] : s \in snap[p] /\ pc[p] = "commit"
    /\ \A s \in snap[p] : needs[s] # {} /\ ~ Acked(s)

\* It indexes a packfile before it stores the next.
Packing(p) == \A j, k \in flushing[p] : j = k

\* Every blob of its snapshot is to be handed over, in its packer, or in a packfile
\* nobody coloured.
Covered(p) ==
    \A s \in snap[p] :
        /\ \A i \in needs[s] : i \in todo[p] \cup inflight[p] \/ LiveOn(Host[p], i)
        /\ pc[p] = "commit" => s \in inflight[p] \/ LiveOn(Host[p], s)

\* What is stored and not coloured is located; headers are those of snapshots that
\* were acknowledged, or are about to be.
Located ==
    \A k \in Packfiles : \A i \in packfile[k].items :
        \/ Deleted(k) \/ Published(<<i, k>>)
        \/ \E p \in Procs : k \in flushing[p] \/ <<i, k>> \in Held(p)

Headers ==
    /\ \A k \in Packfiles : \A s \in Snapshots \cap packfile[k].items :
          Acked(s) \/ \E p \in Procs : s \in snap[p] /\ pc[p] = "commit"
    /\ \A s \in Snapshots : Acked(s) => needs[s] # {}

\* A machine's locations come from state files, or from the backup it runs.
Sourced ==
    \A m \in Machines : \A l \in cache[m].deltas :
        Published(l) \/ \E p \in Procs : Host[p] = m /\ l \in Held(p)

\* What every machine can restore.
Retained ==
    \A s \in Snapshots : Acked(s) /\ Kept(s) =>
        \A i \in Named(s) : \E k \in Packfiles : ~ Deleted(k) /\ Published(<<i, k>>)

\* A maintenance cache has, for each item that its snapshots name, a packfile that
\* state files say the item is in.
Recorded(m) ==
    \A s \in mcache[m].snapshots : Kept(s) =>
        \A i \in Named(s) : \E k \in Packfiles :
            <<k, s>> \in mcache[m].packfiles /\ Published(<<i, k>>)

Recording(m) == \A s \in mcache[m].snapshots : Acked(s)

\* A packfile that the one maintenance cache has is not coloured: nobody else
\* colours packfiles.
NeverColoured(m) ==
    \A e \in mcache[m].packfiles : m \in Maintainers /\ ~ Deleted(e[1])

\* The passes of a maintenance.
Passing(p) ==
    LET st == cache[Host[p]]
        mc == mcache[Host[p]]
    IN  /\ mpc[p] = "update" => /\ listed[p] \subseteq ListSnapshots(st)
                                /\ ListSnapshots(st) \subseteq listed[p] \cup mc.snapshots
        /\ mpc[p] = "colour" => ListSnapshots(st) \subseteq mc.snapshots
        /\ mpc[p] # "off" => Host[p] \in Maintainers

Backups == \A p \in Procs : Writing(p) /\ Packing(p) /\ Covered(p)

Caches == \A m \in Machines : Recorded(m) /\ Recording(m) /\ NeverColoured(m)

SCore == /\ Phases
         /\ \A m \in Machines : View(m)
         /\ \A p \in Procs : Session(p)
         /\ Stock /\ Backups
         /\ Located /\ Headers /\ Sourced
         /\ Retained
         /\ Caches
         /\ \A p \in Procs : Passing(p)

SInv == MTypeOK /\ AllWellFormed /\ SCore

-----------------------------------------------------------------------------
\* Types that the proofs below need again and again.
LEMMA Types ==
    ASSUME MTypeOK
    PROVE  /\ TypeOK
           /\ \A p \in Procs : Host[p] \in Machines /\ delta[p] \in State
           /\ \A p \in Procs : \A st \in pushing[p] : st \in State
           /\ \A m \in Machines : cache[m] \in State /\ known[m] \subseteq StateIds
           /\ \A i \in published : i \in StateIds /\ states[i] \in State
BY HostAssumption DEF MTypeOK, TypeOK

\* A state's locations and tombstones.
LEMMA StateFacts ==
    ASSUME NEW st \in State
    PROVE  /\ \A l \in st.deltas : l[1] \in Items /\ l[2] \in Packfiles /\ l = <<l[1], l[2]>>
           /\ \A k \in st.packfiles : k \in Packfiles
           /\ \A r : HasDeletedResource(st, r) => r \in Snapshots \cup Packfiles
BY DEF State, Locations, Tombstone, HasDeletedResource

\* A command starts when there is no other.
LEMMA NobodyElse ==
    ASSUME Sequential, OneAtATime, NEW p \in Procs, ListStates(p)
    PROVE  \A q \in Procs : ~ Active(q)
<1> SUFFICES ASSUME NEW q \in Procs, Active(q) PROVE FALSE
  OBVIOUS
<1>1. {x \in Procs : Active(x)} = {q}
  BY DEF OneAtATime
<1>2. Cardinality({q}) = 1
  BY FS_Singleton
<1>3. Cardinality({x \in Procs : Active(x)}) < MaxActive
  BY DEF ListStates
<1>4. Cardinality({x \in Procs : Active(x)}) = 1
  BY <1>1, <1>2
<1>5. MaxActive \in Nat /\ MaxActive <= 1
  BY BoundsAssumption DEF Sequential
<1> QED BY <1>3, <1>4, <1>5

\* While one command is at work, the others are idle.
LEMMA OthersIdle ==
    ASSUME OneAtATime, NEW p \in Procs, Active(p), NEW q \in Procs, q # p
    PROVE  pc[q] = "idle"
BY DEF OneAtATime, Active

\* Nothing fails.
LEMMA NothingFails == ASSUME Sequential PROVE ~ PushFails /\ \A p : ~ Crash(p)
BY DEF Sequential, PushFails, Crash

\* A state is pushed under a new name; what the store says grows by it.
Pushed(st, i) == /\ i \in StateIds \ published
                 /\ published' = published \cup {i}
                 /\ states'[i] = st
                 /\ \A j \in published : states'[j] = states[j]

LEMMA PushIsPushed ==
    ASSUME TypeOK, NEW st, PushState(st)
    PROVE  \E i \in StateIds : Pushed(st, i)
<1>1. PICK i \in New(StateIds \ published) : /\ published' = published \cup {i}
                                             /\ states' = [states EXCEPT ![i] = st]
  BY DEF PushState
<1>2. i \in StateIds \ published
  BY NewIsUnused
<1> QED BY <1>1, <1>2 DEF TypeOK, Pushed

LEMMA PushSays ==
    ASSUME NEW st, NEW i, Pushed(st, i)
    PROVE  /\ \A r : Deleted(r)' <=> Deleted(r) \/ HasDeletedResource(st, r)
           /\ \A l : Published(l)' <=> Published(l) \/ l \in st.deltas
BY DEF Pushed, Deleted, Published

LEMMA SameStore ==
    ASSUME UNCHANGED <<states, published>>
    PROVE  /\ \A r : Deleted(r)' <=> Deleted(r)
           /\ \A l : Published(l)' <=> Published(l)
BY DEF Deleted, Published

-----------------------------------------------------------------------------
\* How the parts of the invariant survive a step that concerns them little.
LEMMA ViewFrame ==
    ASSUME NEW m \in Machines, View(m), UNCHANGED <<states, published, cache, known>>
    PROVE  View(m)'
<1>1. ColoursSeen(m)' /\ RemovalsSeen(m)'
  BY DEF View, ColoursSeen, RemovalsSeen
<1>2. LiveSeen(m)'
  BY SameStore DEF View, LiveSeen
<1>3. TombstonesKnown(m)' /\ ColoursComeAlong(m)'
  BY DEF View, TombstonesKnown, ColoursComeAlong
<1> QED BY <1>1, <1>2, <1>3 DEF View

LEMMA ViewPush ==
    ASSUME NEW m \in Machines, View(m), NEW st, NEW i, Pushed(st, i), UNCHANGED <<cache, known>>,
           \A j \in known[m] : \A k \in st.packfiles : HasDeletedResource(states[j], k) =>
               HasDeletedResource(st, k) \/ HasDeletedResource(cache[m], k)
    PROVE  View(m)'
<1>1. \A j \in known[m] : j \in published /\ states'[j] = states[j]
  BY DEF View, Pushed
<1>2. ColoursSeen(m)' /\ RemovalsSeen(m)' /\ TombstonesKnown(m)'
  BY <1>1 DEF View, ColoursSeen, RemovalsSeen, TombstonesKnown
<1>3. LiveSeen(m)'
  BY <1>1, PushSays DEF View, LiveSeen
<1>4. ColoursComeAlong(m)'
  <2> SUFFICES ASSUME NEW j \in known[m], NEW n \in published' \ known[m], NEW k \in states'[n].packfiles,
                      HasDeletedResource(states[j], k)
               PROVE  HasDeletedResource(states'[n], k) \/ HasDeletedResource(cache[m], k)
    BY <1>1 DEF ColoursComeAlong
  <2>1. CASE n \in published
    BY <2>1 DEF Pushed, View, ColoursComeAlong
  <2>2. CASE n = i
    BY <2>2 DEF Pushed
  <2> QED BY <2>1, <2>2 DEF Pushed
<1>5. known'[m] \subseteq published'
  BY DEF View, Pushed
<1> QED BY <1>2, <1>3, <1>4, <1>5 DEF View

\* A command that does not back up.
LEMMA RestWrites ==
    ASSUME TypeOK', NEW p \in Procs, AtRest(p)', pc'[p] \notin BackupPcs
    PROVE  Writing(p)' /\ Packing(p)' /\ Covered(p)'
<1>1. /\ inflight'[p] = {} /\ flushing'[p] = {} /\ delta'[p] = EmptyState /\ pushing'[p] = {}
      /\ snap'[p] = {} /\ todo'[p] = {}
  BY DEF AtRest, TypeOK, BackupPcs
<1>2. EmptyState.deleted = {} /\ EmptyState.deltas = {} /\ EmptyState.packfiles = {}
  BY DEF EmptyState
<1> QED BY <1>1, <1>2 DEF Writing, Packing, Covered, Fresh, Stocked, Held

LEMMA NoBackup ==
    ASSUME TypeOK', \A p \in Procs : AtRest(p)' /\ pc'[p] \notin BackupPcs
    PROVE  Backups'
BY RestWrites DEF Backups

\* While p backs up, nobody else does, and all of the others rest.
LEMMA OneBackup ==
    ASSUME TypeOK', OneAtATime', \A q \in Procs : AtRest(q)', NEW p \in Procs, Active(p)',
           Writing(p)' /\ Packing(p)' /\ Covered(p)'
    PROVE  Backups'
<1> SUFFICES ASSUME NEW q \in Procs, q # p PROVE Writing(q)' /\ Packing(q)' /\ Covered(q)'
  BY DEF Backups
<1>1. pc'[q] \notin BackupPcs
  BY DEF OneAtATime, Active, BackupPcs
<1> QED BY <1>1, RestWrites

LEMMA OnePhase ==
    ASSUME Phases, NEW p \in Procs, Active(p), AtRest(p)',
           \A q \in Procs : q # p =>
               /\ pc'[q] = pc[q] /\ missing'[q] = missing[q]
               /\ inflight'[q] = inflight[q] /\ flushing'[q] = flushing[q]
               /\ delta'[q] = delta[q] /\ pushing'[q] = pushing[q]
    PROVE  Phases' /\ \A q \in Procs : q # p => pc'[q] = "idle"
<1>1. \A q \in Procs : q # p => pc[q] = "idle"
  BY OthersIdle DEF Phases
<1>2. \A q \in Procs : AtRest(q)'
  BY <1>1 DEF Phases, AtRest, BackupPcs
<1>3. OneAtATime'
  BY <1>1 DEF OneAtATime, Active
<1> QED BY <1>1, <1>2, <1>3 DEF Phases

LEMMA PassingOff ==
    ASSUME NEW p \in Procs, mpc'[p] = "off"
    PROVE  Passing(p)'
BY DEF Passing

\* Headers, and what is retained, while nothing is stored, acknowledged or coloured.
LEMMA RetainedFrame ==
    ASSUME Retained, \A s \in Snapshots : Kept(s)' => Kept(s),
           \A s \in Snapshots : Acked(s)' <=> Acked(s),
           \A s \in Snapshots : Acked(s) => needs'[s] = needs[s],
           \A l : Published(l) => Published(l)',
           \A k \in Packfiles : Deleted(k)' => Deleted(k)
    PROVE  Retained'
<1> SUFFICES ASSUME NEW s \in Snapshots, Acked(s)', Kept(s)', NEW i \in Named(s)'
             PROVE  \E k \in Packfiles : ~ Deleted(k)' /\ Published(<<i, k>>)'
  BY DEF Retained
<1>1. Acked(s) /\ Kept(s) /\ i \in Named(s)
  BY DEF Named
<1> QED BY <1>1 DEF Retained

LEMMA SameHeld ==
    ASSUME UNCHANGED <<delta, pushing>>
    PROVE  \A p \in Procs : Held(p)' = Held(p)
BY DEF Held

LEMMA PlacesFrame ==
    ASSUME Located, Headers, Sourced,
           UNCHANGED <<states, published, packfile, flushing, cache>>,
           \A p \in Procs : Held(p)' = Held(p),
           \A s \in Snapshots : Acked(s)' <=> Acked(s),
           \A s \in Snapshots : Acked(s) => needs'[s] = needs[s],
           \A p \in Procs : pc[p] = "commit" => pc'[p] = "commit" /\ snap'[p] = snap[p]
    PROVE  Located' /\ Headers' /\ Sourced'
<1>1. Located'
  BY SameStore DEF Located
<1>2. Headers'
  BY DEF Headers
<1>3. Sourced'
  BY SameStore DEF Sourced
<1> QED BY <1>1, <1>2, <1>3

\* The maintenance caches, while no packfile is coloured and none of them written.
LEMMA CachesKept ==
    ASSUME MTypeOK, Caches, UNCHANGED mcache,
           \A s \in Snapshots : Kept(s)' => Kept(s),
           \A s \in Snapshots : Acked(s) => Acked(s)' /\ needs'[s] = needs[s],
           \A k \in Packfiles : Deleted(k)' => Deleted(k),
           \A l : Published(l) => Published(l)'
    PROVE  Caches'
<1> SUFFICES ASSUME NEW m \in Machines PROVE Recorded(m)' /\ Recording(m)' /\ NeverColoured(m)'
  BY DEF Caches
<1>1. /\ mcache[m].packfiles \subseteq Packfiles \X Snapshots
      /\ \A s \in mcache[m].snapshots : s \in Snapshots
  BY DEF MTypeOK, MaintenanceCache
<1>2. Recorded(m)'
  <2> SUFFICES ASSUME NEW s \in mcache[m].snapshots, Kept(s)', NEW i \in Named(s)'
               PROVE  \E k \in Packfiles : <<k, s>> \in mcache[m].packfiles /\ Published(<<i, k>>)'
    BY DEF Recorded
  <2>1. s \in Snapshots /\ Acked(s) /\ Kept(s)
    BY <1>1 DEF Caches, Recording
  <2>2. i \in Named(s)
    BY <2>1 DEF Named
  <2> QED BY <2>1, <2>2 DEF Caches, Recorded
<1>3. Recording(m)'
  BY <1>1 DEF Caches, Recording
<1>4. NeverColoured(m)'
  BY <1>1 DEF Caches, NeverColoured
<1> QED BY <1>2, <1>3, <1>4

LEMMA CachesFrame ==
    ASSUME MTypeOK, Caches, UNCHANGED <<states, published, mcache>>,
           \A s \in Snapshots : Kept(s)' => Kept(s),
           \A s \in Snapshots : Acked(s) => Acked(s)' /\ needs'[s] = needs[s]
    PROVE  Caches'
BY SameStore, CachesKept

\* A state is pushed that colours nothing new.
LEMMA CachesPush ==
    ASSUME MTypeOK, Caches, NEW st, NEW i, Pushed(st, i), UNCHANGED mcache,
           \A k \in Packfiles : HasDeletedResource(st, k) => Deleted(k),
           \A s \in Snapshots : Kept(s)' => Kept(s),
           \A s \in Snapshots : Acked(s) => Acked(s)' /\ needs'[s] = needs[s]
    PROVE  Caches'
BY PushSays, CachesKept

-----------------------------------------------------------------------------
\* A command that has opened the repository knows every removal there is.
LEMMA OpenedKnowsAll ==
    ASSUME SInv, NEW p \in Procs, Opened(p)
    PROVE  /\ pc[p] = "opening" /\ published \subseteq known[Host[p]]
           /\ \A s \in removed : HasDeletedResource(cache[Host[p]], s)
<1>1. pc[p] = "opening" /\ missing[p] = {}
  BY DEF Opened
<1>2. published \subseteq known[Host[p]]
  BY <1>1 DEF SInv, SCore, Phases, AtRest
<1>3. ASSUME NEW s \in removed PROVE HasDeletedResource(cache[Host[p]], s)
  <2>1. s \in Snapshots /\ Host[p] \in Machines
    BY Types DEF SInv, TypeOK
  <2>2. Deleted(s)
    BY <2>1 DEF SInv, SCore, Stock
  <2>3. RemovalsSeen(Host[p])
    BY <2>1 DEF SInv, SCore, View
  <2> QED BY <1>2, <2>1, <2>2, <2>3 DEF Deleted, RemovalsSeen
<1> QED BY <1>1, <1>2, <1>3

\* Whatever happens, no snapshot is kept that was not.
LEMMA KeptShrinks ==
    ASSUME MTypeOK, [MNext]_allVars, NEW s \in Snapshots, Kept(s)'
    PROVE  Kept(s)
<1>1. ASSUME NEW p \in Procs, Step(p) PROVE removed \subseteq removed'
  BY <1>1 DEF Step, ListStates, InsertState, Opened, Close, StartBackup, PutBlob, PutHeader,
       StorePackfile, IndexPackfile, SwapDelta, PushDelta, Commit, Crash, Rm, histVars
<1>2. ASSUME Tick \/ UNCHANGED vars PROVE removed \subseteq removed'
  BY <1>2 DEF Tick, vars, histVars
<1>3. removed \subseteq removed'
  BY <1>1, <1>2, MaintenanceSteps, MStepKeeps DEF Next, histVars
<1> QED BY <1>3 DEF Kept

-----------------------------------------------------------------------------
(***************************************************************************)
(* The steps, one lemma each.                                              *)
(***************************************************************************)

\* What the lemmas of all the steps start from.
From == /\ Sequential /\ SInv /\ [MNext]_allVars
        /\ MTypeOK' /\ AllWellFormed'

LEMMA FromFacts ==
    ASSUME From
    PROVE  /\ MTypeOK /\ TypeOK /\ TypeOK' /\ AllWellFormed /\ SCore
           /\ \A s \in Snapshots : Kept(s)' => Kept(s)
BY KeptShrinks DEF From, SInv, MTypeOK

\* Sessions, while nothing is merged, pushed or indexed.
LEMMA SessionFrame ==
    ASSUME NEW p \in Procs, Session(p), UNCHANGED <<states, published, cache, known>>,
           Current(p)' => Current(p),
           mpc'[p] \in {"off", "update", "colour"} => mpc[p] \in {"off", "update", "colour"},
           mpc'[p] # "push" => mpc[p] # "push"
    PROVE  Session(p)'
BY SameStore DEF Session

\* ListStates.
LEMMA ListStatesKeeps ==
    ASSUME From, NEW p \in Procs, ListStates(p), UNCHANGED mvars
    PROVE  SCore'
<1> USE FromFacts
<1>1. \A q \in Procs : pc[q] = "idle"
  BY NobodyElse DEF From, SCore, Phases, Active
<1>2. /\ pc' = [pc EXCEPT ![p] = "opening"]
      /\ missing' = [missing EXCEPT ![p] = published \ known[Host[p]]]
      /\ UNCHANGED <<states, published, packfile, cache, known, snap, todo, inflight, flushing,
                     delta, pushing, needs, acked, removed>>
  BY DEF ListStates, storeVars, cacheVars, histVars
<1>3. \A q \in Procs : ~ Current(q)'
  BY <1>1, <1>2 DEF Current, BackupPcs, TypeOK
<1>4. Phases'
  <2>1. OneAtATime'
    BY <1>1, <1>2 DEF OneAtATime, Active, TypeOK
  <2>2. ASSUME NEW q \in Procs PROVE AtRest(q)'
    BY <1>1, <1>2 DEF SCore, Phases, AtRest, TypeOK, BackupPcs
  <2> QED BY <2>1, <2>2 DEF Phases
<1>5. \A m \in Machines : View(m)'
  BY <1>2, ViewFrame DEF SCore
<1>6. \A q \in Procs : Session(q)'
  BY <1>3 DEF Session
<1>7. Stock'
  BY <1>2, SameStore DEF SCore, Stock, Stocked
<1>8. Backups'
  BY <1>1, <1>2, <1>4, NoBackup DEF Phases, BackupPcs, TypeOK
<1>9. Located' /\ Headers' /\ Sourced'
  BY <1>1, <1>2, PlacesFrame, SameHeld DEF SCore, Acked
<1>10. Retained'
  BY <1>2, SameStore, RetainedFrame DEF SCore, Acked
<1>11. Caches'
  BY <1>2, CachesFrame DEF SCore, Acked, mvars
<1>12. \A q \in Procs : Passing(q)'
  BY <1>2 DEF SCore, Passing, mvars, ListSnapshots
<1> QED BY <1>4, <1>5, <1>6, <1>7, <1>8, <1>9, <1>10, <1>11, <1>12 DEF SCore

\* What an up-to-date command sees: of the locations published, those in packfiles
\* that nobody coloured ...
LEMMA LiveIsUsable ==
    ASSUME SInv, NEW m \in Machines, NEW i, NEW k \in Packfiles,
           <<i, k>> \in cache[m].deltas, ~ Deleted(k)
    PROVE  k \in Holders(cache[m], i)
<1>1. k \in cache[m].packfiles
  BY DEF SInv, AllWellFormed, WellFormed
<1>2. ~ HasDeletedResource(cache[m], k)
  BY DEF SInv, SCore, View, TombstonesKnown, Deleted
<1> QED BY <1>1, <1>2 DEF Holders, Usable

LEMMA SeesLive ==
    ASSUME SInv, NEW p \in Procs, Current(p), NEW i, NEW k \in Packfiles,
           Published(<<i, k>>), ~ Deleted(k)
    PROVE  <<i, k>> \in cache[Host[p]].deltas /\ k \in Holders(cache[Host[p]], i)
<1>1. Host[p] \in Machines
  BY HostAssumption
<1>2. PICK j \in published : <<i, k>> \in states[j].deltas
  BY DEF Published
<1>3. <<i, k>>[2] = k
  OBVIOUS
<1>4. CASE j \in known[Host[p]]
  BY <1>1, <1>2, <1>3, <1>4, LiveIsUsable DEF SInv, SCore, View, LiveSeen
<1>5. CASE j \notin known[Host[p]]
  BY <1>1, <1>2, <1>3, <1>5, LiveIsUsable DEF SInv, SCore, Session
<1> QED BY <1>4, <1>5

\* ... and, until it colours some itself, only those.
LEMMA UsableIsLive ==
    ASSUME SInv, NEW p \in Procs, Current(p), mpc[p] \in {"off", "update", "colour"},
           NEW k \in Packfiles, Usable(cache[Host[p]], k)
    PROVE  ~ Deleted(k)
<1> SUFFICES ASSUME NEW j \in published, HasDeletedResource(states[j], k) PROVE FALSE
  BY DEF Deleted
<1>1. k \in cache[Host[p]].packfiles /\ ~ HasDeletedResource(cache[Host[p]], k)
  BY DEF Usable
<1>2. CASE j \in known[Host[p]]
  BY <1>1, <1>2, HostAssumption DEF SInv, SCore, View, ColoursSeen
<1>3. CASE j \notin known[Host[p]]
  BY <1>1, <1>3 DEF SInv, SCore, Session
<1> QED BY <1>2, <1>3

\* A command that backs up is current, alone, and maintains nothing.
LEMMA BackupFacts ==
    ASSUME SInv, NEW p \in Procs, pc[p] \in BackupPcs
    PROVE  /\ Current(p) /\ Active(p) /\ Host[p] \in Machines
           /\ \A q \in Procs : mpc[q] = "off" /\ pc[q] # "opening"
           /\ \A q \in Procs : q # p => pc[q] = "idle" /\ flushing[q] = {} /\ Held(q) = {}
<1>1. Current(p) /\ Active(p)
  BY DEF Current, Active, BackupPcs
<1>2. \A q \in Procs : q # p => pc[q] = "idle"
  BY <1>1, OthersIdle DEF SInv, SCore, Phases
<1>3. \A q \in Procs : mpc[q] = "off" /\ pc[q] # "opening"
  BY <1>2 DEF SInv, MTypeOK, BackupPcs
<1>4. ASSUME NEW q \in Procs, q # p PROVE flushing[q] = {} /\ Held(q) = {}
  <2>1. flushing[q] = {} /\ delta[q] = EmptyState /\ pushing[q] = {}
    BY <1>2, <1>4 DEF SInv, SCore, Phases, AtRest, BackupPcs
  <2> QED BY <2>1 DEF Held, EmptyState
<1> QED BY <1>1, <1>2, <1>3, <1>4, HostAssumption

-----------------------------------------------------------------------------
\* Close, Tick, or nothing at all.
LEMMA QuietKeeps ==
    ASSUME From, UNCHANGED mvars,
           UNCHANGED vars \/ Tick \/ \E p \in Procs : Close(p)
    PROVE  SCore'
<1> USE FromFacts
<1>1. UNCHANGED <<states, published, packfile, cache, known, missing, snap, todo, inflight,
                  flushing, delta, pushing, needs, acked, removed>>
  BY DEF vars, Tick, Close, storeVars, cacheVars, procVars, histVars
<1>2. \A q \in Procs : pc'[q] = pc[q] \/ (pc[q] = "ready" /\ pc'[q] = "idle")
  BY DEF vars, Tick, Close, TypeOK
<1>3. \A q \in Procs : Current(q)' => Current(q)
  BY <1>2 DEF Current, BackupPcs
<1>4. Phases'
  <2>1. OneAtATime'
    BY <1>2 DEF SCore, Phases, OneAtATime, Active
  <2>2. ASSUME NEW q \in Procs PROVE AtRest(q)'
    BY <1>1, <1>2 DEF SCore, Phases, AtRest, BackupPcs
  <2> QED BY <2>1, <2>2 DEF Phases
<1>5. \A m \in Machines : View(m)'
  BY <1>1, ViewFrame DEF SCore
<1>6. \A q \in Procs : Session(q)'
  BY <1>1, <1>3, SessionFrame DEF SCore, mvars
<1>7. Stock'
  BY <1>1, SameStore DEF SCore, Stock, Stocked
<1>8. Backups'
  <2> SUFFICES ASSUME NEW q \in Procs PROVE Writing(q)' /\ Packing(q)' /\ Covered(q)'
    BY DEF Backups
  <2>1. CASE pc'[q] = pc[q]
    BY <1>1, <2>1, SameStore
       DEF SCore, Backups, Writing, Packing, Covered, Fresh, Stocked, Held, Acked, LiveOn
  <2>2. CASE pc'[q] = "idle"
    BY <1>4, <2>2, RestWrites DEF Phases, BackupPcs
  <2> QED BY <1>2, <2>1, <2>2
<1>9. Located' /\ Headers' /\ Sourced'
  BY <1>1, <1>2, PlacesFrame, SameHeld DEF SCore, Acked
<1>10. Retained'
  BY <1>1, SameStore, RetainedFrame DEF SCore, Acked
<1>11. Caches'
  BY <1>1, CachesFrame DEF SCore, Acked, mvars
<1>12. \A q \in Procs : Passing(q)'
  BY <1>1 DEF SCore, Passing, mvars, ListSnapshots
<1> QED BY <1>4, <1>5, <1>6, <1>7, <1>8, <1>9, <1>10, <1>11, <1>12 DEF SCore

\* StartBackup: its snapshot has no blobs yet, so it is nobody's.
LEMMA StartBackupKeeps ==
    ASSUME From, NEW p \in Procs, StartBackup(p), UNCHANGED mvars
    PROVE  SCore'
<1> USE FromFacts
<1>1. PICK s \in Snapshots, bs \in Sources :
         /\ needs[s] = {} /\ needs' = [needs EXCEPT ![s] = bs]
         /\ snap' = [snap EXCEPT ![p] = {s}]
         /\ todo' = [todo EXCEPT ![p] = bs]
  <2>1. PICK s \in New({f \in Snapshots : needs[f] = {}}), bs \in Sources :
           /\ needs' = [needs EXCEPT ![s] = bs]
           /\ snap' = [snap EXCEPT ![p] = {s}]
           /\ todo' = [todo EXCEPT ![p] = bs]
    BY DEF StartBackup
  <2>2. s \in Snapshots /\ needs[s] = {}
    BY NewIsUnused
  <2> QED BY <2>1, <2>2
<1>2. /\ pc[p] = "ready" /\ pc' = [pc EXCEPT ![p] = "backup"]
      /\ UNCHANGED <<states, published, packfile, cache, known, missing, inflight, flushing, delta,
                     pushing, acked, removed>>
  BY DEF StartBackup, storeVars, cacheVars
<1>3. /\ pc'[p] = "backup" /\ snap'[p] = {s} /\ todo'[p] = bs /\ needs'[s] = bs
      /\ bs # {} /\ bs \subseteq Blobs
      /\ \A q \in Procs : q # p => pc'[q] = pc[q] /\ snap'[q] = snap[q] /\ todo'[q] = todo[q]
      /\ \A t \in Snapshots : t # s => needs'[t] = needs[t]
  BY <1>1, <1>2, BoundsAssumption DEF TypeOK
<1>4. ~ Acked(s) /\ \A t \in Snapshots : Acked(t)' <=> Acked(t)
  BY <1>1, <1>2 DEF SCore, Headers, Acked
<1>5. \A t \in Snapshots : Acked(t) => needs'[t] = needs[t]
  BY <1>3, <1>4
<1>6. /\ inflight[p] = {} /\ flushing[p] = {} /\ delta[p] = EmptyState /\ pushing[p] = {}
      /\ Active(p)
  BY <1>2 DEF SCore, Phases, AtRest, BackupPcs, Active
<1>7. Phases' /\ \A q \in Procs : q # p => pc'[q] = "idle"
  <2>1. AtRest(p)'
    BY <1>2, <1>3 DEF SCore, Phases, AtRest, BackupPcs
  <2> QED BY <1>2, <1>3, <1>6, <2>1, OnePhase DEF SCore
<1>8. \A m \in Machines : View(m)'
  BY <1>2, ViewFrame DEF SCore
<1>9. \A q \in Procs : Session(q)'
  <2>1. \A q \in Procs : Current(q)' => Current(q)
    BY <1>2, <1>3 DEF Current, BackupPcs
  <2> QED BY <1>2, <2>1, SessionFrame DEF SCore, mvars
<1>10. Stock'
  BY <1>2, SameStore DEF SCore, Stock, Stocked
<1>11. Backups'
  <2>0. EmptyState.deleted = {} /\ EmptyState.deltas = {} /\ EmptyState.packfiles = {}
    BY DEF EmptyState
  <2>1. Writing(p)'
    BY <1>2, <1>3, <1>4, <1>6, <2>0 DEF Writing, Fresh, Stocked, Held
  <2>2. Packing(p)'
    BY <1>2, <1>3, <1>6 DEF Packing
  <2>3. Covered(p)'
    BY <1>2, <1>3, <1>6 DEF Covered
  <2>4. Active(p)'
    BY <1>3 DEF Active
  <2> QED BY <1>7, <2>1, <2>2, <2>3, <2>4, OneBackup DEF Phases
<1>12. Located' /\ Headers' /\ Sourced'
  <2>1. \A q \in Procs : pc[q] = "commit" => pc'[q] = "commit" /\ snap'[q] = snap[q]
    BY <1>2, <1>3
  <2> QED BY <1>2, <1>4, <1>5, <2>1, PlacesFrame, SameHeld DEF SCore
<1>13. Retained'
  BY <1>2, <1>4, <1>5, SameStore, RetainedFrame DEF SCore
<1>14. Caches'
  BY <1>2, <1>4, <1>5, CachesFrame DEF SCore, mvars
<1>15. \A q \in Procs : Passing(q)'
  BY <1>2 DEF SCore, Passing, mvars, ListSnapshots
<1> QED BY <1>7, <1>8, <1>9, <1>10, <1>11, <1>12, <1>13, <1>14, <1>15 DEF SCore

\* PutBlob: a blob is not sent only if the machine finds it in a packfile, which
\* then is not coloured.
LEMMA PutBlobKeeps ==
    ASSUME From, NEW p \in Procs, PutBlob(p), UNCHANGED mvars
    PROVE  SCore'
<1> USE FromFacts
<1>1. PICK b \in todo[p] :
         /\ todo' = [todo EXCEPT ![p] = todo[p] \ {b}]
         /\ \/ BlobExists(cache[Host[p]], b) /\ UNCHANGED inflight
            \/ inflight' = [inflight EXCEPT ![p] = inflight[p] \cup {b}]
  BY DEF PutBlob
<1>2. /\ pc[p] = "backup" /\ UNCHANGED pc
      /\ UNCHANGED <<states, published, packfile, cache, known, missing, snap, flushing, delta,
                     pushing, needs, acked, removed>>
  BY DEF PutBlob, storeVars, cacheVars, histVars
<1>3. /\ todo'[p] = todo[p] \ {b} /\ b \in Blobs
      /\ \/ inflight'[p] = inflight[p] /\ BlobExists(cache[Host[p]], b)
         \/ inflight'[p] = inflight[p] \cup {b}
      /\ \A q \in Procs : q # p => inflight'[q] = inflight[q]
  BY <1>1 DEF TypeOK
<1>4. /\ Current(p) /\ Active(p) /\ Host[p] \in Machines /\ pc[p] \in BackupPcs
      /\ \A q \in Procs : mpc[q] = "off"
  BY <1>2, BackupFacts DEF From, BackupPcs
<1>5. Writing(p) /\ Packing(p) /\ Covered(p)
  BY DEF SCore, Backups
<1>6. Phases'
  <2>1. AtRest(p)'
    BY <1>2, <1>4 DEF SCore, Phases, AtRest
  <2> QED BY <1>2, <1>3, <1>4, <2>1, OnePhase DEF SCore
<1>7. \A m \in Machines : View(m)'
  BY <1>2, ViewFrame DEF SCore
<1>8. \A q \in Procs : Session(q)'
  BY <1>2, SessionFrame DEF SCore, mvars, Current
<1>9. Stock'
  BY <1>2, SameStore DEF SCore, Stock, Stocked
<1>10. Backups'
  <2>1. Writing(p)'
    <3>1. \A s \in Snapshots \cap inflight'[p] : s \in snap'[p] /\ pc'[p] = "commit"
      BY <1>2, <1>3, <1>5, TypesAreDisjoint DEF Writing
    <3>2. Fresh(delta[p])' /\ \A st \in pushing'[p] : Fresh(st)'
      BY <1>2, <1>5, SameStore DEF Writing, Fresh, Stocked
    <3> QED BY <1>2, <1>5, <3>1, <3>2, SameStore DEF Writing, Held, Acked
  <2>2. Packing(p)'
    BY <1>2, <1>5 DEF Packing
  <2>3. Covered(p)'
    <3>1. BlobExists(cache[Host[p]], b) => LiveOn(Host[p], b)
      BY <1>4, UsableIsLive DEF From, BlobExists, Holders, LiveOn
    <3>2. \A i : LiveOn(Host[p], i)' <=> LiveOn(Host[p], i)
      BY <1>2, SameStore DEF LiveOn
    <3> QED BY <1>2, <1>3, <1>5, <3>1, <3>2 DEF Covered
  <2>4. Active(p)'
    BY <1>2, <1>4 DEF Active
  <2> QED BY <1>6, <2>1, <2>2, <2>3, <2>4, OneBackup DEF Phases
<1>11. Located' /\ Headers' /\ Sourced'
  BY <1>2, PlacesFrame, SameHeld DEF SCore, Acked
<1>12. Retained'
  BY <1>2, SameStore, RetainedFrame DEF SCore, Acked
<1>13. Caches'
  BY <1>2, CachesFrame DEF SCore, mvars, Acked
<1>14. \A q \in Procs : Passing(q)'
  BY <1>2 DEF SCore, Passing, mvars, ListSnapshots
<1> QED BY <1>6, <1>7, <1>8, <1>9, <1>10, <1>11, <1>12, <1>13, <1>14 DEF SCore

\* PutHeader: the header is in the packer now.
LEMMA PutHeaderKeeps ==
    ASSUME From, NEW p \in Procs, PutHeader(p), UNCHANGED mvars
    PROVE  SCore'
<1> USE FromFacts
<1>1. /\ pc[p] = "backup" /\ todo[p] = {}
      /\ inflight' = [inflight EXCEPT ![p] = inflight[p] \cup snap[p]]
      /\ pc' = [pc EXCEPT ![p] = "commit"]
      /\ UNCHANGED <<states, published, packfile, cache, known, missing, snap, todo, flushing,
                     delta, pushing, needs, acked, removed>>
  BY DEF PutHeader, storeVars, cacheVars, histVars
<1>2. /\ inflight'[p] = inflight[p] \cup snap[p] /\ pc'[p] = "commit"
      /\ \A q \in Procs : q # p => inflight'[q] = inflight[q] /\ pc'[q] = pc[q]
      /\ snap[p] \subseteq Snapshots
  BY <1>1 DEF TypeOK
<1>3. /\ Current(p) /\ Active(p) /\ Host[p] \in Machines /\ pc[p] \in BackupPcs
      /\ \A q \in Procs : q # p => pc[q] = "idle"
  BY <1>1, BackupFacts DEF From, BackupPcs
<1>4. Writing(p) /\ Packing(p) /\ Covered(p)
  BY DEF SCore, Backups
<1>5. Phases'
  <2>1. AtRest(p)'
    BY <1>1, <1>2, <1>3 DEF SCore, Phases, AtRest, BackupPcs
  <2> QED BY <1>1, <1>2, <1>3, <2>1, OnePhase DEF SCore
<1>6. \A m \in Machines : View(m)'
  BY <1>1, ViewFrame DEF SCore
<1>7. \A q \in Procs : Session(q)'
  <2>1. \A q \in Procs : Current(q)' => Current(q)
    BY <1>2, <1>3 DEF Current
  <2> QED BY <1>1, <2>1, SessionFrame DEF SCore, mvars
<1>8. Stock'
  BY <1>1, SameStore DEF SCore, Stock, Stocked
<1>9. Backups'
  <2>1. Writing(p)'
    <3>1. \A s \in Snapshots \cap inflight'[p] : s \in snap'[p] /\ pc'[p] = "commit"
      BY <1>1, <1>2, <1>4 DEF Writing
    <3>2. Fresh(delta[p])' /\ \A st \in pushing'[p] : Fresh(st)'
      BY <1>1, <1>4, SameStore DEF Writing, Fresh, Stocked
    <3> QED BY <1>1, <1>4, <3>1, <3>2, SameStore DEF Writing, Held, Acked
  <2>2. Packing(p)'
    BY <1>1, <1>4 DEF Packing
  <2>3. Covered(p)'
    <3>1. \A i : LiveOn(Host[p], i)' <=> LiveOn(Host[p], i)
      BY <1>1, SameStore DEF LiveOn
    <3> QED BY <1>1, <1>2, <1>4, <3>1 DEF Covered
  <2>4. Active(p)'
    BY <1>2 DEF Active
  <2> QED BY <1>5, <2>1, <2>2, <2>3, <2>4, OneBackup DEF Phases
<1>10. Located' /\ Headers' /\ Sourced'
  BY <1>1, <1>2, <1>3, PlacesFrame, SameHeld DEF SCore, Acked
<1>11. Retained'
  BY <1>1, SameStore, RetainedFrame DEF SCore, Acked
<1>12. Caches'
  BY <1>1, CachesFrame DEF SCore, mvars, Acked
<1>13. \A q \in Procs : Passing(q)'
  BY <1>1 DEF SCore, Passing, mvars, ListSnapshots
<1> QED BY <1>5, <1>6, <1>7, <1>8, <1>9, <1>10, <1>11, <1>12, <1>13 DEF SCore

\* StorePackfile: the new packfile is not coloured, and no state file locates
\* anything in it yet.
LEMMA StorePackfileKeeps ==
    ASSUME From, NEW p \in Procs, StorePackfile(p), UNCHANGED mvars
    PROVE  SCore'
<1> USE FromFacts
<1>1. PICK items \in (SUBSET inflight[p]) \ {{}}, k \in Packfiles :
         /\ packfile[k].items = {}
         /\ packfile' = [packfile EXCEPT ![k] = [items |-> items, time |-> now]]
         /\ flushing' = [flushing EXCEPT ![p] = {k}]
  <2>1. PICK items \in (SUBSET inflight[p]) \ {{}},
             k \in New({f \in Packfiles : packfile[f].items = {}}) :
           /\ packfile' = [packfile EXCEPT ![k] = [items |-> items, time |-> now]]
           /\ flushing' = [flushing EXCEPT ![p] = {k}]
    BY DEF StorePackfile
  <2>2. k \in Packfiles /\ packfile[k].items = {}
    BY NewIsUnused
  <2> QED BY <2>1, <2>2
<1>2. /\ pc[p] \in BackupPcs /\ flushing[p] = {} /\ UNCHANGED pc
      /\ UNCHANGED <<states, published, cache, known, missing, snap, todo, inflight,
                     delta, pushing, needs, acked, removed>>
  BY DEF StorePackfile, cacheVars, histVars
<1>3. /\ packfile'[k].items = items /\ items \subseteq inflight[p] /\ items # {}
      /\ flushing'[p] = {k}
      /\ \A x \in Packfiles : x # k => packfile'[x] = packfile[x]
      /\ \A q \in Procs : q # p => flushing'[q] = flushing[q]
  BY <1>1 DEF TypeOK
<1>4. /\ Current(p) /\ Active(p) /\ Host[p] \in Machines
      /\ \A q \in Procs : q # p => pc[q] = "idle" /\ flushing[q] = {}
  BY <1>2, BackupFacts DEF From
<1>5. Writing(p) /\ Packing(p) /\ Covered(p)
  BY DEF SCore, Backups
<1>6. ~ Deleted(k) /\ \A st : Stocked(st) /\ st \in State => Stocked(st)'
  BY <1>1, <1>3, StateFacts DEF SCore, Stock, Stocked
<1>7. Phases'
  <2>1. AtRest(p)'
    BY <1>2, <1>4 DEF SCore, Phases, AtRest
  <2> QED BY <1>2, <1>3, <1>4, <2>1, OnePhase DEF SCore
<1>8. \A m \in Machines : View(m)'
  BY <1>2, ViewFrame DEF SCore
<1>9. \A q \in Procs : Session(q)'
  BY <1>2, SessionFrame DEF SCore, mvars, Current
<1>10. Stock'
  <2>1. \A x \in Packfiles : packfile[x].items # {} => packfile'[x].items # {}
    BY <1>1, <1>3
  <2>2. /\ \A m \in Machines : Stocked(cache[m])'
        /\ \A i \in published : Stocked(states[i])'
    BY <1>2, <1>6, Types DEF SCore, Stock, Stocked
  <2> QED BY <1>2, <2>1, <2>2, SameStore DEF SCore, Stock
<1>11. Backups'
  <2>1. Writing(p)'
    <3>1. Fresh(delta[p])' /\ \A st \in pushing'[p] : Fresh(st)'
      <4>1. \A st \in State : Fresh(st) => Fresh(st)'
        BY <1>6, SameStore, <1>2 DEF Fresh
      <4> QED BY <1>2, <1>5, <4>1, Types DEF Writing, Fresh, Stocked
    <3> QED BY <1>2, <1>3, <1>5, <1>6, <3>1, SameStore DEF Writing, Held, Acked
  <2>2. Packing(p)'
    BY <1>3 DEF Packing
  <2>3. Covered(p)'
    <3>1. \A i : LiveOn(Host[p], i)' <=> LiveOn(Host[p], i)
      BY <1>2, SameStore DEF LiveOn
    <3> QED BY <1>2, <1>5, <3>1 DEF Covered
  <2>4. Active(p)'
    BY <1>2, <1>4 DEF Active
  <2> QED BY <1>7, <2>1, <2>2, <2>3, <2>4, OneBackup DEF Phases
<1>12. Located'
  <2> SUFFICES ASSUME NEW x \in Packfiles, NEW i \in packfile'[x].items
               PROVE  \/ Deleted(x) \/ Published(<<i, x>>)
                      \/ \E q \in Procs : x \in flushing'[q] \/ <<i, x>> \in Held(q)
    BY <1>2, SameStore, SameHeld DEF Located
  <2>1. CASE x = k
    BY <1>3, <2>1
  <2>2. CASE x # k
    <3>1. \/ Deleted(x) \/ Published(<<i, x>>)
          \/ \E q \in Procs : x \in flushing[q] \/ <<i, x>> \in Held(q)
      BY <1>3, <2>2 DEF SCore, Located
    <3> QED BY <1>2, <1>3, <1>4, <3>1
  <2> QED BY <2>1, <2>2
<1>13. Headers'
  <2>1. \A s \in Snapshots \cap items : s \in snap[p] /\ pc[p] = "commit"
    BY <1>3, <1>5 DEF Writing
  <2>2. \A x \in Packfiles : \A s \in Snapshots \cap packfile'[x].items :
          Acked(s) \/ \E q \in Procs : s \in snap[q] /\ pc[q] = "commit"
    BY <1>3, <2>1 DEF SCore, Headers
  <2> QED BY <1>2, <2>2 DEF SCore, Headers, Acked
<1>14. Sourced'
  BY <1>2, SameStore, SameHeld DEF SCore, Sourced
<1>15. Retained'
  BY <1>2, SameStore, RetainedFrame DEF SCore, Acked
<1>16. Caches'
  BY <1>2, CachesFrame DEF SCore, mvars, Acked
<1>17. \A q \in Procs : Passing(q)'
  BY <1>2 DEF SCore, Passing, mvars, ListSnapshots
<1> QED BY <1>7, <1>8, <1>9, <1>10, <1>11, <1>12, <1>13, <1>14, <1>15, <1>16, <1>17
        DEF SCore

\* IndexPackfile: what the packer held is located, on its machine and in its delta
\* state.
LEMMA IndexPackfileKeeps ==
    ASSUME From, NEW p \in Procs, IndexPackfile(p), UNCHANGED mvars
    PROVE  SCore'
<1> USE FromFacts
<1> DEFINE h == Host[p]
<1>1. PICK k \in flushing[p] :
         /\ delta' = [delta EXCEPT ![p] = IndexBlobs(delta[p], k, packfile[k].items)]
         /\ cache' = [cache EXCEPT ![h] = IndexBlobs(cache[h], k, packfile[k].items)]
         /\ inflight' = [inflight EXCEPT ![p] = inflight[p] \ packfile[k].items]
  BY DEF IndexPackfile, PackedItems, StillInflight
<1>2. /\ pc[p] \in BackupPcs /\ UNCHANGED pc
      /\ flushing' = [flushing EXCEPT ![p] = {}]
      /\ UNCHANGED <<states, published, packfile, known, missing, snap, todo,
                     pushing, needs, acked, removed>>
  BY DEF IndexPackfile, storeVars, histVars
<1>3. /\ Current(p) /\ Active(p) /\ h \in Machines /\ k \in Packfiles
      /\ \A q \in Procs : mpc[q] = "off"
      /\ \A q \in Procs : q # p => pc[q] = "idle" /\ flushing[q] = {} /\ Held(q) = {}
  BY <1>2, BackupFacts DEF From, TypeOK
<1>4. /\ inflight'[p] = inflight[p] \ packfile[k].items /\ flushing'[p] = {}
      /\ delta'[p].deltas = delta[p].deltas \cup (packfile[k].items \X {k})
      /\ delta'[p].packfiles = delta[p].packfiles \cup {k}
      /\ delta'[p].deleted = delta[p].deleted
      /\ \A q \in Procs : q # p => /\ inflight'[q] = inflight[q] /\ flushing'[q] = flushing[q]
                                   /\ delta'[q] = delta[q]
  BY <1>1, <1>2, Types DEF TypeOK, IndexBlobs, State
<1>5. /\ cache'[h].deltas = cache[h].deltas \cup (packfile[k].items \X {k})
      /\ cache'[h].packfiles = cache[h].packfiles \cup {k}
      /\ cache'[h].deleted = cache[h].deleted
      /\ \A m \in Machines : m # h => cache'[m] = cache[m]
  BY <1>1, <1>3, Types DEF TypeOK, IndexBlobs, State
<1>6. \A m \in Machines : /\ cache[m].deltas \subseteq cache'[m].deltas
                          /\ \A r : HasDeletedResource(cache'[m], r) <=> HasDeletedResource(cache[m], r)
  BY <1>5 DEF HasDeletedResource
<1>7. Writing(p) /\ Packing(p) /\ Covered(p)
  BY DEF SCore, Backups
<1>8. ~ Deleted(k) /\ packfile[k].items # {} /\ \A x \in flushing[p] : x = k
  BY <1>7, <1>1 DEF Writing, Packing, AllWellFormed
<1>9. Phases'
  <2>1. AtRest(p)'
    BY <1>2, <1>3 DEF SCore, Phases, AtRest
  <2> QED BY <1>2, <1>3, <1>4, <2>1, OnePhase DEF SCore
<1>10. \A m \in Machines : View(m)'
  <2> SUFFICES ASSUME NEW m \in Machines PROVE View(m)'
    OBVIOUS
  <2>1. View(m)
    BY DEF SCore
  <2>2. ColoursSeen(m)'
    <3>1. \A x \in cache'[m].packfiles : x \in cache[m].packfiles \/ x = k
      BY <1>5
    <3>2. \A i \in known[m] : ~ HasDeletedResource(states[i], k)
      BY <1>8, <2>1 DEF View, Deleted
    <3> QED BY <1>2, <1>6, <2>1, <3>1, <3>2 DEF View, ColoursSeen
  <2>3. LiveSeen(m)'
    BY <1>2, <1>6, <2>1, SameStore DEF View, LiveSeen
  <2>4. RemovalsSeen(m)' /\ TombstonesKnown(m)' /\ ColoursComeAlong(m)'
    BY <1>2, <1>6, <2>1 DEF View, RemovalsSeen, TombstonesKnown, ColoursComeAlong
  <2> QED BY <1>2, <2>1, <2>2, <2>3, <2>4 DEF View
<1>11. \A q \in Procs : Session(q)'
  <2> SUFFICES ASSUME NEW q \in Procs, Current(q) PROVE Session(q)'
    BY <1>2 DEF Session, Current
  <2>1. Session(q) /\ UNCHANGED mpc /\ Host[q] \in Machines
    BY HostAssumption DEF SCore, mvars
  <2> QED BY <1>2, <1>6, <2>1, SameStore DEF Session
<1>12. Stock'
  <2>1. \A m \in Machines : Stocked(cache[m])'
    BY <1>2, <1>5, <1>8 DEF SCore, Stock, Stocked
  <2> QED BY <1>2, <2>1, SameStore DEF SCore, Stock, Stocked
<1>13. Held(p)' = Held(p) \cup (packfile[k].items \X {k})
  BY <1>2, <1>4 DEF Held
<1>14. Backups'
  <2>1. Writing(p)'
    <3>1. Fresh(delta[p])' /\ \A st \in pushing'[p] : Fresh(st)'
      BY <1>2, <1>4, <1>7, <1>8, SameStore DEF Writing, Fresh, Stocked
    <3>2. Held(p)' \subseteq cache'[h].deltas
      BY <1>5, <1>7, <1>13 DEF Writing
    <3>3. \A s \in Snapshots \cap inflight'[p] : s \in snap[p] /\ pc[p] = "commit"
      BY <1>4, <1>7 DEF Writing
    <3> QED BY <1>2, <1>4, <1>7, <3>1, <3>2, <3>3 DEF Writing, Acked
  <2>2. Packing(p)'
    BY <1>4 DEF Packing
  <2>3. Covered(p)'
    <3>1. \A i : LiveOn(h, i) => LiveOn(h, i)'
      BY <1>2, <1>3, <1>6, SameStore DEF LiveOn
    <3>2. \A i \in packfile[k].items : LiveOn(h, i)'
      BY <1>2, <1>3, <1>5, <1>8, SameStore DEF LiveOn
    <3> QED BY <1>2, <1>4, <1>7, <3>1, <3>2 DEF Covered
  <2>4. Active(p)'
    BY <1>2, <1>3 DEF Active
  <2> QED BY <1>9, <2>1, <2>2, <2>3, <2>4, OneBackup DEF Phases
<1>15. Located'
  <2> SUFFICES ASSUME NEW x \in Packfiles, NEW i \in packfile[x].items
               PROVE  \/ Deleted(x) \/ Published(<<i, x>>) \/ <<i, x>> \in Held(p)'
    BY <1>2, SameStore DEF Located
  <2>1. CASE x = k
    BY <1>13, <2>1
  <2>2. CASE x # k
    <3>1. \/ Deleted(x) \/ Published(<<i, x>>)
          \/ \E q \in Procs : x \in flushing[q] \/ <<i, x>> \in Held(q)
      BY DEF SCore, Located
    <3> QED BY <1>3, <1>8, <1>13, <2>2, <3>1
  <2> QED BY <2>1, <2>2
<1>16. Headers'
  BY <1>2 DEF SCore, Headers, Acked
<1>17. Sourced'
  <2> SUFFICES ASSUME NEW m \in Machines, NEW l \in cache'[m].deltas
               PROVE  Published(l) \/ \E q \in Procs : Host[q] = m /\ l \in Held(q)'
    BY <1>2, SameStore DEF Sourced
  <2>1. CASE l \in cache[m].deltas
    <3>1. Published(l) \/ \E q \in Procs : Host[q] = m /\ l \in Held(q)
      BY <2>1 DEF SCore, Sourced
    <3> QED BY <1>3, <1>13, <3>1
  <2>2. CASE l \notin cache[m].deltas
    <3>1. m = h /\ l \in packfile[k].items \X {k}
      BY <1>5, <2>2
    <3> QED BY <1>13, <3>1
  <2> QED BY <2>1, <2>2
<1>18. Retained'
  BY <1>2, SameStore, RetainedFrame DEF SCore, Acked
<1>19. Caches'
  BY <1>2, CachesFrame DEF SCore, mvars, Acked
<1>20. \A q \in Procs : Passing(q)'
  BY <1>3, PassingOff DEF mvars
<1> QED BY <1>9, <1>10, <1>11, <1>12, <1>14, <1>15, <1>16, <1>17, <1>18, <1>19, <1>20
        DEF SCore

\* SwapDelta: the backup holds what it held.
LEMMA SwapDeltaKeeps ==
    ASSUME From, NEW p \in Procs, SwapDelta(p), UNCHANGED mvars
    PROVE  SCore'
<1> USE FromFacts
<1>1. /\ pc[p] \in BackupPcs /\ pushing[p] = {} /\ UNCHANGED pc
      /\ pushing' = [pushing EXCEPT ![p] = {delta[p]}]
      /\ delta' = [delta EXCEPT ![p] = EmptyState]
      /\ UNCHANGED <<states, published, packfile, cache, known, missing, snap, todo, inflight,
                     flushing, needs, acked, removed>>
  BY DEF SwapDelta, SwappedOut, storeVars, cacheVars, histVars
<1>2. /\ Current(p) /\ Active(p) /\ Host[p] \in Machines
      /\ \A q \in Procs : mpc[q] = "off"
  BY <1>1, BackupFacts DEF From
<1>3. /\ pushing'[p] = {delta[p]} /\ delta'[p] = EmptyState
      /\ \A q \in Procs : q # p => pushing'[q] = pushing[q] /\ delta'[q] = delta[q]
  BY <1>1 DEF TypeOK
<1>4. \A q \in Procs : Held(q)' = Held(q)
  <2>1. Held(p)' = Held(p)
    BY <1>1, <1>3 DEF Held, EmptyState
  <2> QED BY <1>3, <2>1 DEF Held
<1>5. Writing(p) /\ Packing(p) /\ Covered(p)
  BY DEF SCore, Backups
<1>6. Phases'
  <2>1. AtRest(p)'
    BY <1>1, <1>2 DEF SCore, Phases, AtRest
  <2> QED BY <1>1, <1>3, <1>2, <2>1, OnePhase DEF SCore
<1>7. \A m \in Machines : View(m)'
  BY <1>1, ViewFrame DEF SCore
<1>8. \A q \in Procs : Session(q)'
  BY <1>1, SessionFrame DEF SCore, mvars, Current
<1>9. Stock'
  BY <1>1, SameStore DEF SCore, Stock, Stocked
<1>10. Backups'
  <2>1. Writing(p)'
    <3>1. Fresh(delta[p])' /\ \A st \in pushing'[p] : Fresh(st)'
      BY <1>1, <1>3, <1>5, SameStore DEF Writing, Fresh, Stocked, EmptyState
    <3> QED BY <1>1, <1>4, <1>5, <3>1, SameStore DEF Writing, Acked
  <2>2. Packing(p)'
    BY <1>1, <1>5, SameStore DEF Packing
  <2>3. Covered(p)'
    <3>1. \A i : LiveOn(Host[p], i)' <=> LiveOn(Host[p], i)
      BY <1>1, SameStore DEF LiveOn
    <3> QED BY <1>1, <1>5, <3>1 DEF Covered
  <2>4. Active(p)'
    BY <1>1, <1>2 DEF Active
  <2> QED BY <1>6, <2>1, <2>2, <2>3, <2>4, OneBackup DEF Phases
<1>11. Located' /\ Headers' /\ Sourced'
  BY <1>1, <1>4, PlacesFrame DEF SCore, Acked
<1>12. Retained'
  BY <1>1, SameStore, RetainedFrame DEF SCore, Acked
<1>13. Caches'
  BY <1>1, CachesFrame DEF SCore, mvars, Acked
<1>14. \A q \in Procs : Passing(q)'
  BY <1>1 DEF SCore, Passing, mvars, ListSnapshots
<1> QED BY <1>6, <1>7, <1>8, <1>9, <1>10, <1>11, <1>12, <1>13, <1>14 DEF SCore

\* A merge brings all there is in the state file, tombstones included.
LEMMA MergeSays ==
    ASSUME NEW st \in State, NEW file \in State
    PROVE  /\ \A r : HasDeletedResource(Merge(st, file), r)
                       <=> HasDeletedResource(st, r) \/ HasDeletedResource(file, r)
           /\ Merge(st, file).deltas = st.deltas \cup file.deltas
           /\ Merge(st, file).packfiles = st.packfiles \cup file.packfiles
BY DEF HasDeletedResource, Merge, PutDeleted

\* InsertState: a state that brings a packfile back brings its tombstone too, unless
\* the machine has it.
LEMMA InsertStateKeeps ==
    ASSUME From, NEW p \in Procs, InsertState(p), UNCHANGED mvars
    PROVE  SCore'
<1> USE FromFacts
<1> DEFINE h == Host[p]
<1>1. PICK i \in missing[p] :
         /\ missing' = [missing EXCEPT ![p] = missing[p] \ {i}]
         /\ IF i \in known[h]
              THEN UNCHANGED <<cache, known>>
              ELSE /\ cache' = [cache EXCEPT ![h] = Merge(cache[h], states[i])]
                   /\ known' = [known EXCEPT ![h] = known[h] \cup {i}]
  BY DEF InsertState
<1>2. /\ pc[p] = "opening" /\ UNCHANGED pc
      /\ UNCHANGED <<states, published, packfile, snap, todo, inflight, flushing, delta,
                     pushing, needs, acked, removed>>
  BY DEF InsertState, storeVars, histVars
<1>3. /\ Active(p) /\ h \in Machines
      /\ \A q \in Procs : q # p => pc[q] = "idle"
  BY <1>2, OthersIdle, HostAssumption DEF Active, SCore, Phases
<1>4. /\ \A q \in Procs : ~ Current(q) /\ mpc[q] = "off" /\ pc[q] \notin BackupPcs
      /\ \A q \in Procs : q # p => missing[q] = {}
      /\ published \subseteq known[h] \cup missing[p] /\ missing[p] \subseteq published
  BY <1>2, <1>3 DEF Current, BackupPcs, MTypeOK, SCore, Phases, AtRest
<1>5. i \in published /\ i \in StateIds /\ states[i] \in State /\ cache[h] \in State
  BY <1>3, <1>4, Types
<1>6. /\ missing'[p] = missing[p] \ {i} /\ known'[h] = known[h] \cup {i}
      /\ \A m \in Machines : m # h => known'[m] = known[m] /\ cache'[m] = cache[m]
      /\ \A q \in Procs : q # p => missing'[q] = missing[q]
  BY <1>1, <1>3 DEF TypeOK
<1>7. \/ /\ cache'[h] = cache[h] /\ known'[h] = known[h]
      \/ /\ i \notin known[h]
         /\ \A r : HasDeletedResource(cache'[h], r)
                     <=> HasDeletedResource(cache[h], r) \/ HasDeletedResource(states[i], r)
         /\ cache'[h].deltas = cache[h].deltas \cup states[i].deltas
         /\ cache'[h].packfiles = cache[h].packfiles \cup states[i].packfiles
  <2>1. CASE i \in known[h]
    BY <1>1, <2>1
  <2>2. CASE i \notin known[h]
    <3>1. cache'[h] = Merge(cache[h], states[i])
      BY <1>1, <1>3, <2>2 DEF TypeOK
    <3> QED BY <1>5, <2>2, <3>1, MergeSays
  <2> QED BY <2>1, <2>2
<1>8. Phases'
  <2>1. AtRest(p)'
    BY <1>2, <1>4, <1>6 DEF SCore, Phases, AtRest, BackupPcs
  <2> QED BY <1>2, <1>3, <1>6, <2>1, OnePhase DEF SCore
<1>9. \A m \in Machines : View(m)'
  <2> SUFFICES ASSUME NEW m \in Machines PROVE View(m)'
    OBVIOUS
  <2>1. View(m)
    BY DEF SCore
  <2>2. CASE cache'[m] = cache[m] /\ known'[m] = known[m]
    <3>1. ColoursSeen(m)' /\ RemovalsSeen(m)' /\ TombstonesKnown(m)' /\ ColoursComeAlong(m)'
      BY <1>2, <2>1, <2>2
         DEF View, ColoursSeen, RemovalsSeen, TombstonesKnown, ColoursComeAlong
    <3>2. LiveSeen(m)'
      BY <1>2, <2>1, <2>2, SameStore DEF View, LiveSeen
    <3> QED BY <1>2, <2>1, <2>2, <3>1, <3>2 DEF View
  <2>3. CASE ~ (cache'[m] = cache[m] /\ known'[m] = known[m])
    <3>1. /\ m = h /\ i \notin known[m] /\ known'[m] = known[m] \cup {i}
          /\ \A r : HasDeletedResource(cache'[m], r)
                      <=> HasDeletedResource(cache[m], r) \/ HasDeletedResource(states[i], r)
          /\ cache'[m].deltas = cache[m].deltas \cup states[i].deltas
          /\ cache'[m].packfiles = cache[m].packfiles \cup states[i].packfiles
      BY <1>6, <1>7, <2>3
    <3>2. ColoursSeen(m)'
      <4>1. \A n \in known[m] : \A k \in states[i].packfiles : HasDeletedResource(states[n], k) =>
               HasDeletedResource(states[i], k) \/ HasDeletedResource(cache[m], k)
        BY <1>5, <2>1, <3>1 DEF View, ColoursComeAlong
      <4> QED BY <1>2, <2>1, <3>1, <4>1 DEF View, ColoursSeen
    <3>3. LiveSeen(m)'
      BY <1>2, <2>1, <3>1, SameStore DEF View, LiveSeen
    <3>4. RemovalsSeen(m)'
      BY <1>2, <2>1, <3>1 DEF View, RemovalsSeen
    <3>5. TombstonesKnown(m)'
      BY <1>2, <2>1, <3>1 DEF View, TombstonesKnown
    <3>6. ColoursComeAlong(m)'
      BY <1>2, <2>1, <3>1 DEF View, ColoursComeAlong
    <3> QED BY <1>2, <1>5, <2>1, <3>1, <3>2, <3>3, <3>4, <3>5, <3>6 DEF View
  <2> QED BY <2>2, <2>3
<1>10. \A q \in Procs : Session(q)'
  BY <1>2, <1>4 DEF Session, Current
<1>11. Stock'
  <2>1. \A m \in Machines : Stocked(cache[m])'
    <3> SUFFICES ASSUME NEW m \in Machines, NEW k \in cache'[m].packfiles
                 PROVE  packfile[k].items # {}
      BY <1>2 DEF Stocked
    <3>1. k \in cache[m].packfiles \/ k \in states[i].packfiles
      BY <1>6, <1>7
    <3> QED BY <1>5, <3>1 DEF SCore, Stock, Stocked
  <2> QED BY <1>2, <2>1, SameStore DEF SCore, Stock, Stocked
<1>12. Backups'
  BY <1>2, <1>4, <1>8, NoBackup DEF Phases
<1>13. Located' /\ Headers'
  <2>1. Located'
    BY <1>2, SameStore, SameHeld DEF SCore, Located
  <2>2. Headers'
    BY <1>2 DEF SCore, Headers, Acked
  <2> QED BY <2>1, <2>2
<1>14. Sourced'
  <2> SUFFICES ASSUME NEW m \in Machines, NEW l \in cache'[m].deltas
               PROVE  Published(l) \/ \E q \in Procs : Host[q] = m /\ l \in Held(q)
    BY <1>2, SameStore, SameHeld DEF Sourced
  <2>1. l \in cache[m].deltas \/ l \in states[i].deltas
    BY <1>6, <1>7
  <2> QED BY <1>5, <2>1 DEF SCore, Sourced, Published
<1>15. Retained'
  BY <1>2, SameStore, RetainedFrame DEF SCore, Acked
<1>16. Caches'
  BY <1>2, CachesFrame DEF SCore, Acked, mvars
<1>17. \A q \in Procs : Passing(q)'
  BY <1>4, PassingOff DEF mvars
<1> QED BY <1>8, <1>9, <1>10, <1>11, <1>12, <1>13, <1>14, <1>15, <1>16, <1>17 DEF SCore

\* Opened: the state that a new client version pushes says nothing that the state
\* files do not say already.
LEMMA OpenedKeeps ==
    ASSUME From, NEW p \in Procs, Opened(p), UNCHANGED mvars
    PROVE  SCore'
<1> USE FromFacts
<1> DEFINE h == Host[p]
<1>1. /\ pc[p] = "opening" /\ pc' = [pc EXCEPT ![p] = "ready"]
      /\ UNCHANGED <<states, published>> \/ PushState(cache[h])
      /\ UNCHANGED <<packfile, cache, known, missing, snap, todo, inflight, flushing, delta,
                     pushing, needs, acked, removed>>
  BY NothingFails DEF Opened, From, procVars, histVars
<1>2. /\ Active(p) /\ h \in Machines /\ pc'[p] = "ready" /\ missing[p] = {}
      /\ \A q \in Procs : q # p => pc[q] = "idle" /\ pc'[q] = "idle"
  BY <1>1, OthersIdle, HostAssumption DEF Active, SCore, Phases, TypeOK, Opened
<1>3. /\ \A q \in Procs : mpc[q] = "off" /\ pc[q] \notin BackupPcs /\ pc'[q] \notin BackupPcs
      /\ \A q \in Procs : q # p => ~ Current(q)'
  BY <1>1, <1>2 DEF Current, BackupPcs, MTypeOK
<1>4. published \subseteq known[h] /\ cache[h] \in State
  BY <1>2, OpenedKnowsAll, Types DEF From
<1>5. View(h) /\ \A r : HasDeletedResource(cache[h], r) => Deleted(r)
  <2>1. View(h)
    BY <1>2 DEF SCore
  <2> QED BY <1>4, <2>1, StateFacts DEF View, TombstonesKnown, Deleted
<1>6. PICK i : (UNCHANGED <<states, published>>) \/ Pushed(cache[h], i)
  BY <1>1, PushIsPushed
<1>7. /\ \A r : Deleted(r)' <=> Deleted(r)
      /\ \A l : Published(l) => Published(l)'
  <2>1. CASE UNCHANGED <<states, published>>
    BY <2>1, SameStore
  <2>2. CASE Pushed(cache[h], i)
    BY <1>5, <2>2, PushSays
  <2> QED BY <1>6, <2>1, <2>2
<1>8. Phases'
  <2>1. AtRest(p)'
    <3>1. missing'[p] \subseteq published'
      BY <1>1, <1>2
    <3> QED BY <1>1, <1>2, <3>1 DEF SCore, Phases, AtRest, BackupPcs
  <2>2. \A q \in Procs : q # p => AtRest(q)'
    BY <1>1, <1>2 DEF SCore, Phases, AtRest, BackupPcs
  <2>3. OneAtATime'
    BY <1>2 DEF OneAtATime, Active
  <2> QED BY <2>1, <2>2, <2>3 DEF Phases
<1>9. \A m \in Machines : View(m)'
  <2> SUFFICES ASSUME NEW m \in Machines PROVE View(m)'
    OBVIOUS
  <2>1. View(m)
    BY DEF SCore
  <2>2. CASE UNCHANGED <<states, published>>
    BY <1>1, <2>1, <2>2, ViewFrame
  <2>3. CASE Pushed(cache[h], i)
    <3>1. \A j \in known[m] : \A k \in cache[h].packfiles :
             HasDeletedResource(states[j], k) => HasDeletedResource(cache[h], k)
      BY <1>4, <1>5, <2>1 DEF View, ColoursSeen
    <3> QED BY <1>1, <2>1, <2>3, <3>1, ViewPush
  <2> QED BY <1>6, <2>2, <2>3
<1>10. \A q \in Procs : Session(q)'
  <2>1. \A j \in published' \ known[h] :
           /\ states'[j] = cache[h]
           /\ \A m \in Machines : j \notin known[m]
    <3>1. CASE UNCHANGED <<states, published>>
      BY <1>4, <3>1
    <3>2. CASE Pushed(cache[h], i)
      BY <1>4, <3>2 DEF Pushed, SCore, View
    <3> QED BY <1>6, <3>1, <3>2
  <2>2. Session(p)'
    BY <1>1, <2>1 DEF Session
  <2> QED BY <1>3, <2>2 DEF Session
<1>11. Stock'
  <2>0. /\ \A j \in published : \A k \in states[j].packfiles : packfile[k].items # {}
        /\ \A k \in cache[h].packfiles : packfile[k].items # {}
    BY <1>2 DEF SCore, Stock, Stocked
  <2>1. \A j \in published' : \A k \in states'[j].packfiles : packfile[k].items # {}
    <3>1. CASE UNCHANGED <<states, published>>
      BY <2>0, <3>1
    <3>2. CASE Pushed(cache[h], i)
      BY <2>0, <3>2 DEF Pushed
    <3> QED BY <1>6, <3>1, <3>2
  <2> QED BY <1>1, <1>7, <2>1 DEF SCore, Stock, Stocked
<1>12. Backups'
  BY <1>3, <1>8, NoBackup DEF Phases
<1>13. Located' /\ Headers' /\ Sourced'
  <2>1. Located'
    BY <1>1, <1>7, SameHeld DEF SCore, Located
  <2>2. Headers'
    BY <1>1, <1>3 DEF SCore, Headers, Acked, BackupPcs
  <2>3. Sourced'
    BY <1>1, <1>7, SameHeld DEF SCore, Sourced
  <2> QED BY <2>1, <2>2, <2>3
<1>14. Retained'
  BY <1>1, <1>7, RetainedFrame DEF SCore, Acked
<1>15. Caches'
  <2>1. CASE UNCHANGED <<states, published>>
    BY <1>1, <2>1, CachesFrame DEF SCore, Acked, mvars
  <2>2. CASE Pushed(cache[h], i)
    <3>1. \A k \in Packfiles : HasDeletedResource(cache[h], k) => Deleted(k)
      BY <1>5
    <3> QED BY <1>1, <2>2, <3>1, CachesPush DEF SCore, Acked, mvars
  <2> QED BY <1>6, <2>1, <2>2
<1>16. \A q \in Procs : Passing(q)'
  BY <1>3, PassingOff DEF mvars
<1> QED BY <1>8, <1>9, <1>10, <1>11, <1>12, <1>13, <1>14, <1>15, <1>16 DEF SCore

\* The states a backup pushes colour nothing, and bring nothing back that was
\* coloured.
LEMMA FreshPush ==
    ASSUME SInv, NEW p \in Procs, pc[p] \in BackupPcs, NEW st \in State, Fresh(st),
           NEW i, Pushed(st, i), st.deltas \subseteq Held(p),
           UNCHANGED <<packfile, cache, known, removed>>
    PROVE  /\ \A r : Deleted(r)' <=> Deleted(r)
           /\ \A m \in Machines : View(m)'
           /\ Stock'
           /\ \A k \in st.packfiles : ~ HasDeletedResource(cache[Host[p]], k)
           /\ st.deltas \subseteq cache[Host[p]].deltas
           /\ \A m \in Machines : i \notin known[m]
<1>1. st.deleted = {} /\ \A r : ~ HasDeletedResource(st, r)
  BY DEF Fresh, HasDeletedResource
<1>2. \A r : Deleted(r)' <=> Deleted(r)
  BY <1>1, PushSays
<1>3. \A m \in Machines : View(m)
  BY DEF SInv, SCore
<1>4. \A m \in Machines : View(m)'
  <2> SUFFICES ASSUME NEW m \in Machines PROVE View(m)'
    OBVIOUS
  <2>1. \A j \in known[m] : \A k \in st.packfiles : ~ HasDeletedResource(states[j], k)
    BY <1>3 DEF View, Deleted, Fresh
  <2> QED BY <1>3, <2>1, ViewPush
<1>5. Stock'
  <2>1. \A j \in published : \A k \in states[j].packfiles : packfile[k].items # {}
    BY DEF SInv, SCore, Stock, Stocked
  <2>2. \A j \in published' : \A k \in states'[j].packfiles : packfile[k].items # {}
    BY <2>1 DEF Pushed, Fresh, Stocked
  <2> QED BY <1>2, <2>2 DEF SInv, SCore, Stock, Stocked
<1>6. Host[p] \in Machines
  BY HostAssumption
<1>7. \A k \in st.packfiles : ~ HasDeletedResource(cache[Host[p]], k)
  BY <1>3, <1>6, StateFacts DEF View, TombstonesKnown, Deleted, Fresh
<1>8. st.deltas \subseteq cache[Host[p]].deltas
  BY DEF SInv, SCore, Backups, Writing
<1>9. \A m \in Machines : i \notin known[m]
  BY <1>3 DEF View, Pushed
<1> QED BY <1>2, <1>4, <1>5, <1>7, <1>8, <1>9

\* PushDelta: what the backup no longer holds is published.
LEMMA PushDeltaKeeps ==
    ASSUME From, NEW p \in Procs, PushDelta(p), UNCHANGED mvars
    PROVE  SCore'
<1> USE FromFacts
<1> DEFINE h == Host[p]
<1>1. /\ pc[p] \in BackupPcs /\ UNCHANGED pc
      /\ pushing' = [pushing EXCEPT ![p] = {}]
      /\ UNCHANGED <<packfile, cache, known, missing, snap, todo, inflight, flushing, delta,
                     needs, acked, removed>>
  BY DEF PushDelta, cacheVars
<1>2. PICK st \in pushing[p] : PushState(st)
  BY NothingFails DEF PushDelta, From
<1>3. PICK i \in StateIds : Pushed(st, i)
  BY <1>2, PushIsPushed
<1>4. /\ Current(p) /\ Active(p) /\ h \in Machines
      /\ \A q \in Procs : mpc[q] = "off"
      /\ \A q \in Procs : q # p => pc[q] = "idle" /\ flushing[q] = {} /\ Held(q) = {}
  BY <1>1, BackupFacts DEF From
<1>5. Writing(p) /\ Packing(p) /\ Covered(p)
  BY DEF SCore, Backups
<1>6. /\ pushing'[p] = {} /\ \A q \in Procs : q # p => pushing'[q] = pushing[q]
      /\ \A other \in pushing[p] : other = st
      /\ st \in State /\ Fresh(st)
  BY <1>1, <1>5, Types DEF TypeOK, Writing
<1>7. /\ Held(p) = Held(p)' \cup st.deltas
      /\ \A q \in Procs : q # p => Held(q)' = Held(q)
  BY <1>1, <1>6 DEF Held
<1>8. /\ \A r : Deleted(r)' <=> Deleted(r)
      /\ \A m \in Machines : View(m)'
      /\ Stock'
      /\ \A k \in st.packfiles : ~ HasDeletedResource(cache[h], k)
      /\ st.deltas \subseteq cache[h].deltas
      /\ \A m \in Machines : i \notin known[m]
  <2>1. st.deltas \subseteq Held(p)
    BY <1>7
  <2>2. SInv /\ i \in StateIds
    BY DEF From
  <2> QED BY <1>1, <1>3, <1>6, <2>1, <2>2, FreshPush
<1>9. \A l : Published(l)' <=> Published(l) \/ l \in st.deltas
  BY <1>3, PushSays
<1>10. Phases'
  <2>1. AtRest(p)'
    BY <1>1, <1>3, <1>4 DEF SCore, Phases, AtRest, Pushed, BackupPcs
  <2> QED BY <1>1, <1>4, <1>6, <2>1, OnePhase DEF SCore
<1>11. \A q \in Procs : Session(q)'
  <2>1. Session(p)'
    <3>1. Session(p) /\ UNCHANGED mpc
      BY DEF SCore, mvars
    <3>2. \A k : ~ HasDeletedResource(st, k)
      BY <1>6 DEF Fresh, HasDeletedResource
    <3> QED BY <1>1, <1>3, <1>4, <1>8, <3>1, <3>2 DEF Session, Pushed
  <2> QED BY <1>1, <1>4, <2>1 DEF Session, Current, BackupPcs
<1>12. Backups'
  <2>1. Writing(p)'
    <3>1. Fresh(delta[p])' /\ Held(p)' \subseteq cache[h].deltas
      BY <1>1, <1>5, <1>7, <1>8 DEF Writing, Fresh, Stocked
    <3> QED BY <1>1, <1>5, <1>6, <1>8, <3>1 DEF Writing, Acked
  <2>2. Packing(p)'
    BY <1>1, <1>5, <1>8 DEF Packing
  <2>3. Covered(p)'
    BY <1>1, <1>5, <1>8 DEF Covered, LiveOn
  <2>4. Active(p)'
    BY <1>1, <1>4 DEF Active
  <2> QED BY <1>10, <2>1, <2>2, <2>3, <2>4, OneBackup DEF Phases
<1>13. Located' /\ Headers' /\ Sourced'
  <2>1. Located'
    <3> SUFFICES ASSUME NEW k \in Packfiles, NEW x \in packfile[k].items
                 PROVE  \/ Deleted(k) \/ Published(<<x, k>>)'
                        \/ \E q \in Procs : k \in flushing[q] \/ <<x, k>> \in Held(q)'
      BY <1>1, <1>8 DEF Located
    <3>1. \/ Deleted(k) \/ Published(<<x, k>>)
          \/ \E q \in Procs : k \in flushing[q] \/ <<x, k>> \in Held(q)
      BY DEF SCore, Located
    <3> QED BY <1>7, <1>9, <3>1
  <2>2. Headers'
    BY <1>1 DEF SCore, Headers, Acked
  <2>3. Sourced'
    <3> SUFFICES ASSUME NEW m \in Machines, NEW l \in cache[m].deltas
                 PROVE  Published(l)' \/ \E q \in Procs : Host[q] = m /\ l \in Held(q)'
      BY <1>1 DEF Sourced
    <3>1. Published(l) \/ \E q \in Procs : Host[q] = m /\ l \in Held(q)
      BY DEF SCore, Sourced
    <3> QED BY <1>7, <1>9, <3>1
  <2> QED BY <2>1, <2>2, <2>3
<1>14. Retained'
  BY <1>1, <1>8, <1>9, RetainedFrame DEF SCore, Acked
<1>15. Caches'
  <2>1. \A k \in Packfiles : HasDeletedResource(st, k) => Deleted(k)
    BY <1>6 DEF Fresh, HasDeletedResource
  <2> QED BY <1>1, <1>3, <2>1, CachesPush DEF SCore, Acked, mvars
<1>16. \A q \in Procs : Passing(q)'
  BY <1>4, PassingOff DEF mvars
<1> QED BY <1>8, <1>10, <1>11, <1>12, <1>13, <1>14, <1>15, <1>16 DEF SCore

\* Commit: every blob of the snapshot, and its header, is now published in a
\* packfile that is not coloured.
LEMMA CommitKeeps ==
    ASSUME From, NEW p \in Procs, Commit(p), UNCHANGED mvars
    PROVE  SCore'
<1> USE FromFacts
<1> DEFINE h == Host[p]
           st == delta[p]
<1>1. /\ pc[p] = "commit" /\ pc' = [pc EXCEPT ![p] = "idle"]
      /\ inflight[p] = {} /\ flushing[p] = {} /\ pushing[p] = {}
      /\ PushState(delta[p])
      /\ acked' = acked \cup (snap[p] \X {h})
      /\ delta' = [delta EXCEPT ![p] = EmptyState]
      /\ snap' = [snap EXCEPT ![p] = {}]
      /\ UNCHANGED <<packfile, cache, known, missing, todo, inflight, flushing, pushing,
                     needs, removed>>
  BY NothingFails DEF Commit, PackerDone, cacheVars, From
<1>2. PICK i \in StateIds : Pushed(st, i)
  BY <1>1, PushIsPushed
<1>3. pc[p] \in BackupPcs
  BY <1>1 DEF BackupPcs
<1>4. /\ Current(p) /\ Active(p) /\ h \in Machines
      /\ \A q \in Procs : mpc[q] = "off" /\ pc[q] # "opening"
      /\ \A q \in Procs : q # p => pc[q] = "idle" /\ flushing[q] = {} /\ Held(q) = {}
  BY <1>3, BackupFacts DEF From
<1>5. Writing(p) /\ Packing(p) /\ Covered(p) /\ todo[p] = {} /\ snap[p] \subseteq Snapshots
  BY <1>1 DEF SCore, Backups, TypeOK
<1>6. st \in State /\ Fresh(st) /\ Held(p) = st.deltas
  BY <1>1, <1>5, Types DEF Writing, Held
<1>7. /\ \A r : Deleted(r)' <=> Deleted(r)
      /\ \A m \in Machines : View(m)'
      /\ Stock'
  <2>1. SInv /\ i \in StateIds
    BY DEF From
  <2> QED BY <1>1, <1>2, <1>3, <1>6, <2>1, FreshPush
<1>8. \A l : Published(l)' <=> Published(l) \/ l \in st.deltas
  BY <1>2, PushSays
<1>9. /\ pc'[p] = "idle" /\ snap'[p] = {} /\ delta'[p] = EmptyState
      /\ \A q \in Procs : q # p => pc'[q] = "idle" /\ delta'[q] = delta[q] /\ snap'[q] = snap[q]
  BY <1>1, <1>4 DEF TypeOK
<1>10. \A s \in Snapshots : Acked(s)' <=> Acked(s) \/ s \in snap[p]
  <2> SUFFICES ASSUME NEW s \in Snapshots PROVE Acked(s)' <=> Acked(s) \/ s \in snap[p]
    OBVIOUS
  <2>1. s \in snap[p] => <<s, h>> \in acked'
    BY <1>1
  <2>2. <<s, h>>[1] = s
    OBVIOUS
  <2> QED BY <1>1, <2>1, <2>2 DEF Acked
<1>11. Phases'
  <2>1. OneAtATime'
    BY <1>9 DEF OneAtATime, Active
  <2>2. ASSUME NEW q \in Procs PROVE AtRest(q)'
    <3>1. missing'[q] = {}
      BY <1>1, <1>4 DEF SCore, Phases, AtRest
    <3>2. inflight'[q] = {} /\ flushing'[q] = {} /\ delta'[q] = EmptyState /\ pushing'[q] = {}
      BY <1>1, <1>4, <1>9 DEF SCore, Phases, AtRest, BackupPcs
    <3> QED BY <1>9, <3>1, <3>2 DEF AtRest
  <2> QED BY <2>1, <2>2 DEF Phases
<1>12. \A q \in Procs : Session(q)'
  BY <1>9 DEF Session, Current, BackupPcs
<1>13. Backups'
  BY <1>9, <1>11, NoBackup DEF Phases, BackupPcs
<1>14. Located' /\ Headers' /\ Sourced'
  <2>1. Located'
    <3> SUFFICES ASSUME NEW k \in Packfiles, NEW x \in packfile[k].items
                 PROVE  Deleted(k) \/ Published(<<x, k>>)'
      BY <1>1, <1>7 DEF Located
    <3>1. \/ Deleted(k) \/ Published(<<x, k>>)
          \/ \E q \in Procs : k \in flushing[q] \/ <<x, k>> \in Held(q)
      BY DEF SCore, Located
    <3> QED BY <1>1, <1>4, <1>6, <1>8, <3>1
  <2>2. Headers'
    <3>1. \A k \in Packfiles : \A s \in Snapshots \cap packfile[k].items : Acked(s)'
      <4> SUFFICES ASSUME NEW k \in Packfiles, NEW s \in Snapshots \cap packfile[k].items
                   PROVE  Acked(s) \/ s \in snap[p]
        BY <1>10
      <4>1. Acked(s) \/ \E q \in Procs : s \in snap[q] /\ pc[q] = "commit"
        BY DEF SCore, Headers
      <4> QED BY <1>4, <4>1
    <3>2. \A s \in Snapshots : Acked(s)' => needs[s] # {}
      BY <1>5, <1>10 DEF Writing, SCore, Headers
    <3> QED BY <1>1, <3>1, <3>2 DEF Headers
  <2>3. Sourced'
    <3> SUFFICES ASSUME NEW m \in Machines, NEW l \in cache[m].deltas PROVE Published(l)'
      BY <1>1 DEF Sourced
    <3>1. Published(l) \/ \E q \in Procs : Host[q] = m /\ l \in Held(q)
      BY DEF SCore, Sourced
    <3> QED BY <1>4, <1>6, <1>8, <3>1
  <2> QED BY <2>1, <2>2, <2>3
<1>15. Retained'
  <2> SUFFICES ASSUME NEW s \in Snapshots, Acked(s)', Kept(s)', NEW x \in Named(s)'
               PROVE  \E k \in Packfiles : ~ Deleted(k) /\ Published(<<x, k>>)'
    BY <1>7 DEF Retained
  <2>1. Kept(s) /\ x \in Named(s)
    BY <1>1 DEF Named
  <2>2. CASE Acked(s)
    BY <1>8, <2>1, <2>2 DEF SCore, Retained
  <2>3. CASE s \in snap[p]
    <3>1. LiveOn(h, x)
      BY <1>1, <1>5, <2>1, <2>3 DEF Covered, Named
    <3>2. PICK k \in Packfiles : <<x, k>> \in cache[h].deltas /\ ~ Deleted(k)
      BY <3>1 DEF LiveOn
    <3>3. Published(<<x, k>>) \/ \E q \in Procs : Host[q] = h /\ <<x, k>> \in Held(q)
      BY <1>4, <3>2 DEF SCore, Sourced
    <3> QED BY <1>4, <1>6, <1>8, <3>2, <3>3
  <2> QED BY <1>10, <2>2, <2>3
<1>16. Caches'
  <2>1. \A k \in Packfiles : HasDeletedResource(st, k) => Deleted(k)
    BY <1>6 DEF Fresh, HasDeletedResource
  <2>2. \A s \in Snapshots : Acked(s) => Acked(s)' /\ needs'[s] = needs[s]
    BY <1>1, <1>10
  <2> QED BY <1>1, <1>2, <2>1, <2>2, CachesPush DEF SCore, mvars
<1>17. \A q \in Procs : Passing(q)'
  BY <1>4, PassingOff DEF mvars
<1> QED BY <1>7, <1>11, <1>12, <1>13, <1>14, <1>15, <1>16, <1>17 DEF SCore

\* The state that rm pushes.
LEMMA TombstoneSays ==
    ASSUME NEW s, NEW when
    PROVE  LET st == DeleteResource(EmptyState, s, when)
           IN  /\ st.deltas = {} /\ st.packfiles = {}
               /\ \A r : HasDeletedResource(st, r) <=> r = s
<1> DEFINE st == DeleteResource(EmptyState, s, when)
<1>1. st = [deltas |-> {}, packfiles |-> {}, deleted |-> {[res |-> s, when |-> when]}]
  <2>1. PutDeleted({}, {[res |-> s, when |-> when]}) = {[res |-> s, when |-> when]}
    BY DEF PutDeleted
  <2>2. EmptyState.deleted = {}
    BY DEF EmptyState
  <2> QED BY <2>1, <2>2 DEF DeleteResource, EmptyState
<1>2. st.deltas = {} /\ st.packfiles = {} /\ st.deleted = {[res |-> s, when |-> when]}
  BY <1>1
<1> HIDE DEF st
<1>3. \A r : HasDeletedResource(st, r) <=> r = s
  BY <1>2 DEF HasDeletedResource
<1> QED BY <1>2, <1>3 DEF st

\* Rm: the state file with the tombstone of a snapshot says nothing of packfiles.
LEMMA RmKeeps ==
    ASSUME From, NEW p \in Procs, Rm(p), UNCHANGED mvars
    PROVE  SCore'
<1> USE FromFacts
<1> DEFINE h == Host[p]
<1>1. PICK s \in Snapshots : /\ PushState(DeleteResource(EmptyState, s, now))
                             /\ removed' = removed \cup {s}
  BY DEF Rm, ListSnapshots
<1> DEFINE st == DeleteResource(EmptyState, s, now)
<1>2. /\ pc[p] = "ready" /\ UNCHANGED pc
      /\ UNCHANGED <<packfile, cache, known, missing, snap, todo, inflight, flushing, delta,
                     pushing, needs, acked>>
  BY DEF Rm, cacheVars, procVars
<1>3. PICK i \in StateIds : Pushed(st, i)
  BY <1>1, PushIsPushed
<1>4. /\ st.deltas = {} /\ st.packfiles = {}
      /\ \A r : HasDeletedResource(st, r) <=> r = s
  BY TombstoneSays
<1>5. \A k \in Packfiles : ~ HasDeletedResource(st, k)
  BY <1>4, TypesAreDisjoint
<1> HIDE DEF st
<1>6. /\ Active(p) /\ h \in Machines
      /\ \A q \in Procs : q # p => pc[q] = "idle"
  BY <1>2, OthersIdle, HostAssumption DEF Active, SCore, Phases
<1>7. \A q \in Procs : mpc[q] = "off" /\ pc[q] \notin BackupPcs
  BY <1>2, <1>6 DEF MTypeOK, BackupPcs
<1>8. /\ \A r : Deleted(r)' <=> Deleted(r) \/ r = s
      /\ \A l : Published(l)' <=> Published(l)
      /\ \A k \in Packfiles : Deleted(k)' <=> Deleted(k)
  BY <1>3, <1>4, <1>5, PushSays
<1>9. Phases'
  <2>1. AtRest(p)'
    BY <1>2, <1>3 DEF SCore, Phases, AtRest, Pushed
  <2> QED BY <1>2, <1>6, <2>1, OnePhase DEF SCore
<1>10. \A m \in Machines : View(m)'
  BY <1>2, <1>3, <1>4, ViewPush DEF SCore
<1>11. \A q \in Procs : Session(q)'
  <2>1. Session(p)'
    <3>1. Session(p) /\ UNCHANGED mpc
      BY DEF SCore, mvars
    <3>2. \A m \in Machines : i \notin known[m]
      BY <1>3 DEF SCore, View, Pushed
    <3> SUFFICES ASSUME Current(p), NEW j \in published' \ known[h]
                 PROVE  /\ mpc[p] \in {"off", "update", "colour"} =>
                             \A k \in Packfiles : HasDeletedResource(states'[j], k) =>
                                                  HasDeletedResource(cache[h], k)
                        /\ mpc[p] # "push" =>
                             \A k \in states'[j].packfiles : HasDeletedResource(cache[h], k) =>
                                                             HasDeletedResource(states'[j], k)
                        /\ \A l \in states'[j].deltas : Deleted(l[2])' \/ l \in cache[h].deltas
                        /\ \A m \in Machines : j \notin known[m]
      BY <1>2, <3>1 DEF Session, Current
    <3>3. CASE j \in published
      BY <1>3, <1>8, <3>1, <3>3 DEF Session, Pushed
    <3>4. CASE j = i
      BY <1>3, <1>4, <1>5, <3>2, <3>4 DEF Pushed
    <3> QED BY <1>3, <3>3, <3>4 DEF Pushed
  <2> QED BY <1>2, <1>6, <2>1 DEF Session, Current, BackupPcs
<1>12. Stock'
  <2>1. \A j \in published : \A k \in states[j].packfiles : packfile[k].items # {}
    BY DEF SCore, Stock, Stocked
  <2>2. \A j \in published' : \A k \in states'[j].packfiles : packfile[k].items # {}
    BY <1>3, <1>4, <2>1 DEF Pushed
  <2>3. \A t \in Snapshots : Deleted(t)' <=> t \in removed'
    BY <1>1, <1>8 DEF SCore, Stock
  <2> QED BY <1>2, <1>8, <2>2, <2>3 DEF SCore, Stock, Stocked
<1>13. Backups'
  BY <1>2, <1>7, <1>9, NoBackup DEF Phases
<1>14. Located' /\ Headers' /\ Sourced'
  <2>1. Located'
    BY <1>2, <1>8, SameHeld DEF SCore, Located
  <2>2. Headers'
    BY <1>2 DEF SCore, Headers, Acked
  <2>3. Sourced'
    BY <1>2, <1>8, SameHeld DEF SCore, Sourced
  <2> QED BY <2>1, <2>2, <2>3
<1>15. Retained'
  BY <1>2, <1>8, RetainedFrame DEF SCore, Acked
<1>16. Caches'
  BY <1>2, <1>3, <1>5, CachesPush DEF SCore, Acked, mvars
<1>17. \A q \in Procs : Passing(q)'
  BY <1>7, PassingOff DEF mvars
<1> QED BY <1>9, <1>10, <1>11, <1>12, <1>13, <1>14, <1>15, <1>16, <1>17 DEF SCore

-----------------------------------------------------------------------------
\* While a command reads, removes or maintains, nobody else does anything.
LEMMA AloneFacts ==
    ASSUME SInv, NEW p \in Procs, pc[p] \in {"ready", "exclusive"} \/ mpc[p] # "off"
    PROVE  /\ Current(p) /\ Active(p) /\ Host[p] \in Machines
           /\ mpc[p] # "off" => pc[p] = "exclusive"
           /\ \A q \in Procs : pc[q] \notin BackupPcs /\ pc[q] # "opening" /\ missing[q] = {}
           /\ \A q \in Procs : q # p => pc[q] = "idle" /\ mpc[q] = "off"
           /\ \A q \in Procs : flushing[q] = {} /\ Held(q) = {} /\ snap[q] = {}
<1>1. mpc[p] # "off" => pc[p] = "exclusive"
  BY DEF SInv, MTypeOK
<1>2. Current(p) /\ Active(p) /\ pc[p] \notin BackupPcs /\ pc[p] # "opening"
  BY <1>1 DEF Current, Active, BackupPcs
<1>3. \A q \in Procs : q # p => pc[q] = "idle"
  BY <1>2, OthersIdle DEF SInv, SCore, Phases
<1>4. \A q \in Procs : pc[q] \notin BackupPcs /\ pc[q] # "opening"
  BY <1>2, <1>3 DEF BackupPcs
<1>5. \A q \in Procs : q # p => mpc[q] = "off"
  BY <1>3 DEF SInv, MTypeOK
<1>6. ASSUME NEW q \in Procs
      PROVE  missing[q] = {} /\ flushing[q] = {} /\ Held(q) = {} /\ snap[q] = {}
  <2>1. missing[q] = {} /\ flushing[q] = {} /\ delta[q] = EmptyState /\ pushing[q] = {}
    BY <1>4 DEF SInv, SCore, Phases, AtRest
  <2>2. snap[q] = {}
    BY <1>4 DEF SInv, MTypeOK, TypeOK
  <2> QED BY <2>1, <2>2 DEF Held, EmptyState
<1> QED BY <1>1, <1>2, <1>3, <1>4, <1>5, <1>6, HostAssumption

\* What a maintenance pass keeps that changes neither the store nor a cache.
LEMMA PassKeeps ==
    ASSUME From, NEW p \in Procs, pc[p] \in {"ready", "exclusive"} \/ mpc[p] # "off",
           pc'[p] \in {"idle", "exclusive"}, \A q \in Procs : q # p => pc'[q] = pc[q],
           UNCHANGED <<states, published, packfile, cache, known, missing, snap, todo, inflight,
                       flushing, delta, pushing, needs, acked, removed>>,
           pc'[p] = "exclusive" =>
               /\ mpc'[p] \in {"off", "update", "colour"} => mpc[p] \in {"off", "update", "colour"}
               /\ mpc'[p] # "push" => mpc[p] # "push"
    PROVE  /\ Phases'
           /\ \A m \in Machines : View(m)'
           /\ \A q \in Procs : Session(q)'
           /\ Stock' /\ Backups'
           /\ Located' /\ Headers' /\ Sourced'
           /\ Retained'
<1> USE FromFacts
<1>1. /\ Current(p) /\ Active(p)
      /\ \A q \in Procs : pc[q] \notin BackupPcs
      /\ \A q \in Procs : q # p => pc'[q] = "idle"
  BY AloneFacts DEF From
<1>2. Phases'
  <2>0. /\ inflight[p] = {} /\ flushing[p] = {} /\ delta[p] = EmptyState /\ pushing[p] = {}
        /\ missing[p] = {}
    BY <1>1, AloneFacts DEF From, SCore, Phases, AtRest
  <2>1. AtRest(p)'
    BY <2>0 DEF AtRest
  <2> QED BY <1>1, <2>1, OnePhase DEF SCore
<1>3. \A m \in Machines : View(m)'
  BY ViewFrame DEF SCore
<1>4. \A q \in Procs : Session(q)'
  <2>1. CASE pc'[p] = "idle"
    BY <1>1, <2>1 DEF Session, Current, BackupPcs
  <2>2. CASE pc'[p] = "exclusive"
    <3>1. Session(p)'
      BY <1>1, <2>2, SessionFrame DEF SCore
    <3> QED BY <1>1, <3>1 DEF Session, Current, BackupPcs
  <2> QED BY <2>1, <2>2
<1>5. Stock'
  BY SameStore DEF SCore, Stock, Stocked
<1>6. Backups'
  BY <1>1, <1>2, NoBackup DEF Phases, BackupPcs
<1>7. Located' /\ Headers' /\ Sourced'
  BY <1>1, PlacesFrame, SameHeld DEF SCore, Acked, BackupPcs
<1>8. Retained'
  BY SameStore, RetainedFrame DEF SCore, Acked
<1> QED BY <1>2, <1>3, <1>4, <1>5, <1>6, <1>7, <1>8

\* StartMaintenance lists what its machine sees.
LEMMA StartMaintenanceKeeps ==
    ASSUME From, NEW p \in Procs, StartMaintenance(p)
    PROVE  SCore'
<1> USE FromFacts
<1>1. /\ Host[p] \in Maintainers /\ pc[p] = "ready"
      /\ pc' = [pc EXCEPT ![p] = "exclusive"]
      /\ mpc' = [mpc EXCEPT ![p] = "update"]
      /\ listed' = [listed EXCEPT ![p] = ListSnapshots(cache[Host[p]])]
      /\ UNCHANGED <<states, published, packfile, cache, known, missing, snap, todo, inflight,
                     flushing, delta, pushing, needs, acked, removed, mcache>>
  BY DEF StartMaintenance, storeVars, cacheVars, procVars, histVars
<1>2. /\ mpc[p] = "off" /\ pc'[p] = "exclusive" /\ mpc'[p] = "update"
      /\ listed'[p] = ListSnapshots(cache[Host[p]])
      /\ \A q \in Procs : q # p => pc'[q] = pc[q] /\ mpc'[q] = "off"
  BY <1>1, AloneFacts DEF From, MTypeOK, TypeOK
<1>3. Caches'
  BY <1>1, CachesFrame DEF SCore, Acked
<1>4. \A q \in Procs : Passing(q)'
  <2>1. Passing(p)'
    BY <1>1, <1>2 DEF Passing
  <2> QED BY <1>2, <2>1, PassingOff
<1> QED BY <1>1, <1>2, <1>3, <1>4, PassKeeps DEF SCore

\* Abort.
LEMMA AbortKeeps ==
    ASSUME From, NEW p \in Procs, Abort(p)
    PROVE  SCore'
<1> USE FromFacts
<1>1. /\ mpc[p] # "off" /\ pc' = [pc EXCEPT ![p] = "idle"]
      /\ mpc' = [mpc EXCEPT ![p] = "off"]
      /\ UNCHANGED <<states, published, packfile, cache, known, missing, snap, todo, inflight,
                     flushing, delta, pushing, needs, acked, removed, mcache>>
  BY DEF Abort, Leave, storeVars, cacheVars, procVars, histVars
<1>2. /\ pc'[p] = "idle" /\ \A q \in Procs : q # p => pc'[q] = pc[q]
      /\ \A q \in Procs : mpc'[q] = "off"
  BY <1>1, AloneFacts DEF From, MTypeOK, TypeOK
<1>3. Caches'
  BY <1>1, CachesFrame DEF SCore, Acked
<1> QED BY <1>1, <1>2, <1>3, PassKeeps, PassingOff DEF SCore

\* A snapshot that updateCache lists was acknowledged; if nobody removed it, all it
\* names can be read.
LEMMA ListedResolves ==
    ASSUME SInv, NEW p \in Procs, mpc[p] = "update", NEW s \in listed[p]
    PROVE  /\ s \in Snapshots /\ Acked(s)
           /\ Kept(s) => \A i \in Named(s) : BlobExists(cache[Host[p]], i)
<1> DEFINE h == Host[p]
<1>1. /\ Current(p) /\ h \in Machines
      /\ \A q \in Procs : snap[q] = {}
  BY AloneFacts
<1>2. s \in ListSnapshots(cache[h])
  BY DEF SInv, SCore, Passing
<1>3. s \in Snapshots
  BY <1>2 DEF ListSnapshots
<1>4. PICK k \in cache[h].packfiles : <<s, k>> \in cache[h].deltas
  BY <1>2 DEF ListSnapshots
<1>5. k \in Packfiles /\ s \in packfile[k].items
  BY <1>1, <1>4, Types, StateFacts DEF SInv, AllWellFormed, WellFormed
<1>6. Acked(s)
  BY <1>1, <1>3, <1>5 DEF SInv, SCore, Headers
<1>7. ASSUME Kept(s), NEW i \in Named(s) PROVE BlobExists(cache[h], i)
  <2>1. PICK x \in Packfiles : ~ Deleted(x) /\ Published(<<i, x>>)
    BY <1>3, <1>6, <1>7 DEF SInv, SCore, Retained
  <2>2. x \in Holders(cache[h], i)
    BY <1>1, <2>1, SeesLive
  <2> QED BY <2>2 DEF BlobExists
<1> QED BY <1>3, <1>6, <1>7

\* What updateCache resolves, it resolves to packfiles that nobody coloured and that
\* state files say the items are in.
LEMMA RowsAreLive ==
    ASSUME SInv, NEW p \in Procs, mpc[p] = "update", NEW items, NEW s \in Snapshots,
           NEW f \in Resolutions(cache[Host[p]], items)
    PROVE  /\ DOMAIN f = items
           /\ Rows(s, f) \subseteq Packfiles \X {s}
           /\ \A e \in Rows(s, f) : ~ Deleted(e[1])
           /\ \A i \in items : <<f[i], s>> \in Rows(s, f) /\ Published(<<i, f[i]>>)
<1> DEFINE h == Host[p]
<1>1. Current(p) /\ h \in Machines /\ \A q \in Procs : Held(q) = {}
  BY AloneFacts
<1>2. DOMAIN f = items /\ \A i \in items : f[i] \in Packfiles /\ f[i] \in Holders(cache[h], i)
  BY DEF Resolutions
<1>3. ASSUME NEW i \in items PROVE ~ Deleted(f[i]) /\ Published(<<i, f[i]>>)
  <2>1. f[i] \in Packfiles /\ <<i, f[i]>> \in cache[h].deltas /\ Usable(cache[h], f[i])
    BY <1>2 DEF Holders
  <2>2. ~ Deleted(f[i])
    BY <1>1, <2>1, UsableIsLive
  <2>3. Published(<<i, f[i]>>) \/ \E q \in Procs : <<i, f[i]>> \in Held(q)
    BY <1>1, <2>1 DEF SInv, SCore, Sourced
  <2> QED BY <1>1, <2>2, <2>3
<1>4. Rows(s, f) = {<<f[i], s>> : i \in items}
  BY <1>2 DEF Rows
<1>5. Rows(s, f) \subseteq Packfiles \X {s}
  BY <1>2, <1>4
<1>6. ASSUME NEW e \in Rows(s, f) PROVE ~ Deleted(e[1])
  <2>1. PICK i \in items : e = <<f[i], s>>
    BY <1>4
  <2>2. e[1] = f[i]
    BY <2>1
  <2> QED BY <1>3, <2>2
<1>7. \A i \in items : <<f[i], s>> \in Rows(s, f)
  BY <1>4
<1> QED BY <1>2, <1>3, <1>5, <1>6, <1>7

\* IndexSnapshot: what a snapshot that nobody removed names can be read, so the
\* listing does not end early.
LEMMA IndexSnapshotKeeps ==
    ASSUME From, NEW p \in Procs, IndexSnapshot(p)
    PROVE  SCore'
<1> USE FromFacts
<1> DEFINE h == Host[p]
<1>1. PICK s \in listed[p] :
        /\ listed' = [listed EXCEPT ![p] = listed[p] \ {s}]
        /\ \/ /\ s \in mcache[h].snapshots
              /\ UNCHANGED mcache
           \/ \E got \in Listings(cache[h], s) : \E f \in Resolutions(cache[h], got) :
                 mcache' = [mcache EXCEPT ![h] =
                     [snapshots |-> mcache[h].snapshots \cup {s},
                      packfiles |-> mcache[h].packfiles \cup Rows(s, f)]]
  BY DEF IndexSnapshot
<1>2. /\ mpc[p] = "update" /\ UNCHANGED <<pc, mpc>>
      /\ UNCHANGED <<states, published, packfile, cache, known, missing, snap, todo, inflight,
                     flushing, delta, pushing, needs, acked, removed>>
  BY DEF IndexSnapshot, vars, storeVars, cacheVars, procVars, histVars
<1>3. /\ Current(p) /\ h \in Machines /\ h \in Maintainers /\ pc[p] = "exclusive"
      /\ \A q \in Procs : q # p => mpc[q] = "off"
  BY <1>2, AloneFacts DEF From, SCore, Passing
<1>4. s \in Snapshots /\ Acked(s)
  BY <1>2, ListedResolves DEF From
<1> DEFINE RecordsAll(new) ==
        /\ new \subseteq Packfiles \X {s}
        /\ mcache'[h].snapshots = mcache[h].snapshots \cup {s}
        /\ mcache'[h].packfiles = mcache[h].packfiles \cup new
        /\ \A e \in new : ~ Deleted(e[1])
        /\ s \notin mcache[h].snapshots /\ Kept(s) =>
              \A i \in Named(s) : \E k \in Packfiles : <<k, s>> \in new /\ Published(<<i, k>>)
<1>5. \E new : RecordsAll(new)
  <2>1. CASE s \in mcache[h].snapshots /\ UNCHANGED mcache
    <3>1. RecordsAll({})
      BY <2>1
    <3> HIDE DEF RecordsAll
    <3> QED BY <3>1
  <2>2. ASSUME NEW got \in Listings(cache[h], s), NEW f \in Resolutions(cache[h], got),
               mcache' = [mcache EXCEPT ![h] =
                     [snapshots |-> mcache[h].snapshots \cup {s},
                      packfiles |-> mcache[h].packfiles \cup Rows(s, f)]]
        PROVE  \E new : RecordsAll(new)
    <3> DEFINE new == Rows(s, f)
    <3>1. /\ mcache'[h].snapshots = mcache[h].snapshots \cup {s}
          /\ mcache'[h].packfiles = mcache[h].packfiles \cup new
      BY <1>3, <2>2 DEF MTypeOK
    <3>2. /\ new \subseteq Packfiles \X {s}
          /\ \A e \in new : ~ Deleted(e[1])
          /\ \A i \in got : <<f[i], s>> \in new /\ Published(<<i, f[i]>>)
      BY <1>2, <1>4, RowsAreLive DEF From
    <3>3. ASSUME Kept(s) PROVE got = Named(s)
      <4>1. \A i \in Named(s) : BlobExists(cache[h], i)
        BY <1>2, <3>3, ListedResolves DEF From
      <4>2. got = Named(s) \/ \E n \in Named(s) : CanFailRead \/ ~ BlobExists(cache[h], n)
        BY DEF Listings
      <4> QED BY <4>1, <4>2 DEF From, Sequential
    <3>4. ASSUME Kept(s), NEW i \in Named(s)
          PROVE  \E k \in Packfiles : <<k, s>> \in new /\ Published(<<i, k>>)
      <4>1. <<f[i], s>> \in new /\ Published(<<i, f[i]>>)
        BY <3>2, <3>3, <3>4
      <4>2. f[i] \in Packfiles
        BY <3>2, <4>1
      <4> QED BY <4>1, <4>2
    <3> HIDE DEF new
    <3>5. RecordsAll(new)
      BY <3>1, <3>2, <3>4
    <3> HIDE DEF RecordsAll
    <3> QED BY <3>5
  <2> QED BY <1>1, <2>1, <2>2
<1>6. PICK new : RecordsAll(new)
  BY <1>5
<1>7. /\ \A m \in Machines : m # h => mcache'[m] = mcache[m]
      /\ listed'[p] = listed[p] \ {s}
  BY <1>1 DEF MTypeOK
<1>8. Caches'
  <2> SUFFICES ASSUME NEW m \in Machines PROVE Recorded(m)' /\ Recording(m)' /\ NeverColoured(m)'
    BY DEF Caches
  <2>1. Recorded(m) /\ Recording(m) /\ NeverColoured(m)
    BY DEF SCore, Caches
  <2>2. CASE m # h
    BY <1>2, <1>7, <2>1, <2>2, SameStore DEF Recorded, Recording, NeverColoured, Named, Kept, Acked
  <2>3. CASE m = h
    <3>1. Recorded(m)'
      <4> SUFFICES ASSUME NEW t \in mcache'[h].snapshots, Kept(t), NEW i \in Named(t)
                   PROVE  \E k \in Packfiles : <<k, t>> \in mcache'[h].packfiles /\ Published(<<i, k>>)
        BY <1>2, <2>3, SameStore DEF Recorded, Named, Kept
      <4>1. CASE t \in mcache[h].snapshots
        <5>1. PICK k \in Packfiles : <<k, t>> \in mcache[h].packfiles /\ Published(<<i, k>>)
          BY <2>1, <2>3, <4>1 DEF Recorded
        <5> QED BY <1>6, <5>1
      <4>2. CASE t \notin mcache[h].snapshots
        <5>1. t = s
          BY <1>6, <4>2
        <5>2. PICK k \in Packfiles : <<k, s>> \in new /\ Published(<<i, k>>)
          BY <1>6, <4>2, <5>1
        <5> QED BY <1>6, <5>1, <5>2
      <4> QED BY <4>1, <4>2
    <3>2. Recording(m)'
      BY <1>2, <1>4, <1>6, <2>1, <2>3 DEF Recording, Acked
    <3>3. NeverColoured(m)'
      BY <1>2, <1>3, <1>6, <2>1, <2>3, SameStore DEF NeverColoured
    <3> QED BY <3>1, <3>2, <3>3
  <2> QED BY <2>2, <2>3
<1>9. \A q \in Procs : Passing(q)'
  <2>1. Passing(p)'
    <3>1. /\ listed[p] \subseteq ListSnapshots(cache[h])
          /\ ListSnapshots(cache[h]) \subseteq listed[p] \cup mcache[h].snapshots
      BY <1>2 DEF SCore, Passing
    <3> QED BY <1>2, <1>3, <1>6, <1>7, <3>1 DEF Passing
  <2> QED BY <1>2, <1>3, <2>1, PassingOff
<1> QED BY <1>2, <1>3, <1>8, <1>9, PassKeeps DEF SCore

\* FailSnapshot: the packfiles it has resolved stay recorded.
LEMMA FailSnapshotKeeps ==
    ASSUME From, NEW p \in Procs, FailSnapshot(p)
    PROVE  SCore'
<1> USE FromFacts
<1> DEFINE h == Host[p]
<1>1. PICK s \in listed[p] :
        \/ UNCHANGED mcache
        \/ \E got \in SUBSET Named(s) : \E f \in Resolutions(cache[h], got) :
              mcache' = [mcache EXCEPT ![h].packfiles = mcache[h].packfiles \cup Rows(s, f)]
  BY DEF FailSnapshot
<1>2. /\ mpc[p] = "update" /\ pc' = [pc EXCEPT ![p] = "idle"] /\ mpc' = [mpc EXCEPT ![p] = "off"]
      /\ UNCHANGED <<states, published, packfile, cache, known, missing, snap, todo, inflight,
                     flushing, delta, pushing, needs, acked, removed>>
  BY DEF FailSnapshot, Leave, storeVars, cacheVars, procVars, histVars
<1>3. /\ h \in Machines /\ h \in Maintainers
      /\ pc'[p] = "idle" /\ \A q \in Procs : q # p => pc'[q] = pc[q]
      /\ \A q \in Procs : mpc'[q] = "off"
  BY <1>2, AloneFacts DEF From, MTypeOK, TypeOK, SCore, Passing
<1>4. s \in Snapshots
  BY <1>2, ListedResolves DEF From
<1>5. \A m \in Machines :
        /\ mcache'[m].snapshots = mcache[m].snapshots
        /\ mcache[m].packfiles \subseteq mcache'[m].packfiles
        /\ \A e \in mcache'[m].packfiles :
              e \in mcache[m].packfiles \/ (m = h /\ ~ Deleted(e[1]))
  <2>1. CASE UNCHANGED mcache
    BY <2>1
  <2>2. ASSUME NEW got, NEW f \in Resolutions(cache[h], got), NEW m \in Machines,
               mcache' = [mcache EXCEPT ![h].packfiles = mcache[h].packfiles \cup Rows(s, f)]
        PROVE  /\ mcache'[m].snapshots = mcache[m].snapshots
               /\ mcache[m].packfiles \subseteq mcache'[m].packfiles
               /\ \A e \in mcache'[m].packfiles :
                     e \in mcache[m].packfiles \/ (m = h /\ ~ Deleted(e[1]))
    <3>1. \A e \in Rows(s, f) : ~ Deleted(e[1])
      BY <1>2, <1>4, RowsAreLive DEF From
    <3>2. mcache \in [Machines -> MaintenanceCache]
      BY DEF MTypeOK
    <3>3. CASE m # h
      <4>1. mcache'[m] = mcache[m]
        BY <2>2, <3>2, <3>3
      <4> QED BY <4>1
    <3>4. CASE m = h
      <4>1. mcache'[h] = [mcache[h] EXCEPT !.packfiles = mcache[h].packfiles \cup Rows(s, f)]
        BY <1>3, <2>2, <3>2
      <4>2. mcache[h] \in MaintenanceCache
        BY <1>3, <3>2
      <4>3. /\ mcache'[h].snapshots = mcache[h].snapshots
            /\ mcache'[h].packfiles = mcache[h].packfiles \cup Rows(s, f)
        BY <4>1, <4>2 DEF MaintenanceCache
      <4> QED BY <3>1, <3>4, <4>3
    <3> QED BY <3>3, <3>4
  <2> QED BY <1>1, <2>1, <2>2
<1>6. Caches'
  <2> SUFFICES ASSUME NEW m \in Machines PROVE Recorded(m)' /\ Recording(m)' /\ NeverColoured(m)'
    BY DEF Caches
  <2>1. Recorded(m) /\ Recording(m) /\ NeverColoured(m)
    BY DEF SCore, Caches
  <2>2. Recorded(m)'
    <3> SUFFICES ASSUME NEW t \in mcache[m].snapshots, Kept(t), NEW i \in Named(t)
                 PROVE  \E k \in Packfiles : <<k, t>> \in mcache'[m].packfiles /\ Published(<<i, k>>)
      BY <1>2, <1>5, SameStore DEF Recorded, Named, Kept
    <3>1. PICK k \in Packfiles : <<k, t>> \in mcache[m].packfiles /\ Published(<<i, k>>)
      BY <2>1 DEF Recorded
    <3> QED BY <1>5, <3>1
  <2>3. Recording(m)'
    BY <1>2, <1>5, <2>1 DEF Recording, Acked
  <2>4. NeverColoured(m)'
    BY <1>2, <1>3, <1>5, <2>1, SameStore DEF NeverColoured
  <2> QED BY <2>2, <2>3, <2>4
<1> QED BY <1>2, <1>3, <1>6, PassKeeps, PassingOff DEF SCore

\* ForgetRemoved: what it forgets, it forgets entirely.
LEMMA ForgetRemovedKeeps ==
    ASSUME From, NEW p \in Procs, ForgetRemoved(p)
    PROVE  SCore'
<1> USE FromFacts
<1> DEFINE h == Host[p]
           gone == {s \in mcache[h].snapshots : HasDeletedResource(cache[h], s)}
<1>1. /\ mpc[p] = "update" /\ listed[p] = {} /\ UNCHANGED pc
      /\ mcache' = [mcache EXCEPT ![h] = Forgotten(mcache[h], gone)]
      /\ mpc' = [mpc EXCEPT ![p] = "colour"]
      /\ UNCHANGED <<states, published, packfile, cache, known, missing, snap, todo, inflight,
                     flushing, delta, pushing, needs, acked, removed>>
  BY DEF ForgetRemoved, Enter, storeVars, cacheVars, procVars, histVars
<1>2. /\ h \in Machines /\ h \in Maintainers /\ pc[p] = "exclusive"
      /\ \A q \in Procs : q # p => mpc[q] = "off"
  BY <1>1, AloneFacts DEF From, SCore, Passing
<1>3. mpc'[p] = "colour" /\ \A q \in Procs : q # p => mpc'[q] = "off"
  BY <1>1, <1>2 DEF MTypeOK
<1>4. /\ mcache'[h].snapshots = mcache[h].snapshots \ gone
      /\ mcache'[h].packfiles = {e \in mcache[h].packfiles : e[2] \notin gone}
      /\ \A m \in Machines : m # h => mcache'[m] = mcache[m]
  BY <1>1, <1>2 DEF MTypeOK, Forgotten
<1>5. Caches'
  <2> SUFFICES ASSUME NEW m \in Machines PROVE Recorded(m)' /\ Recording(m)' /\ NeverColoured(m)'
    BY DEF Caches
  <2>1. Recorded(m) /\ Recording(m) /\ NeverColoured(m) /\ mcache[m] \in MaintenanceCache
    BY DEF SCore, Caches, MTypeOK
  <2>2. /\ mcache'[m].snapshots \subseteq mcache[m].snapshots
        /\ mcache'[m].packfiles \subseteq mcache[m].packfiles
        /\ \A k, s : s \in mcache'[m].snapshots /\ <<k, s>> \in mcache[m].packfiles
                        => <<k, s>> \in mcache'[m].packfiles
    BY <1>4
  <2>3. Recorded(m)'
    <3> SUFFICES ASSUME NEW t \in mcache'[m].snapshots, Kept(t), NEW i \in Named(t)
                 PROVE  \E k \in Packfiles : <<k, t>> \in mcache'[m].packfiles /\ Published(<<i, k>>)
      BY <1>1, SameStore DEF Recorded, Named, Kept
    <3>1. PICK k \in Packfiles : <<k, t>> \in mcache[m].packfiles /\ Published(<<i, k>>)
      BY <2>1, <2>2 DEF Recorded
    <3> QED BY <2>2, <3>1
  <2>4. Recording(m)'
    BY <1>1, <2>1, <2>2 DEF Recording, Acked
  <2>5. NeverColoured(m)'
    BY <1>1, <2>1, <2>2, SameStore DEF NeverColoured
  <2> QED BY <2>3, <2>4, <2>5
<1>6. \A q \in Procs : Passing(q)'
  <2>1. Passing(p)'
    <3>1. ListSnapshots(cache[h]) \subseteq mcache[h].snapshots
      BY <1>1 DEF SCore, Passing
    <3>2. \A s \in ListSnapshots(cache[h]) : ~ HasDeletedResource(cache[h], s)
      BY DEF ListSnapshots
    <3> QED BY <1>1, <1>2, <1>3, <1>4, <3>1, <3>2 DEF Passing
  <2> QED BY <1>3, <2>1, PassingOff
<1> QED BY <1>1, <1>2, <1>3, <1>5, <1>6, PassKeeps DEF SCore

\* When updateCache is done, its maintenance cache knows, of every snapshot that
\* nobody removed, a packfile for all it names: colourPass does not touch them.
LEMMA ColoursOnlyGarbage ==
    ASSUME SInv, NEW p \in Procs, mpc[p] = "colour", NEW s \in Snapshots, Acked(s), Kept(s),
           NEW i \in Named(s)
    PROVE  \E k \in Packfiles : ~ Deleted(k) /\ k \notin ToColour(p) /\ Published(<<i, k>>)
<1> DEFINE h == Host[p]
<1>1. Current(p) /\ h \in Machines
  BY AloneFacts
<1>2. ~ HasDeletedResource(cache[h], s)
  BY <1>1 DEF Kept, SInv, SCore, Stock, View, TombstonesKnown, Deleted
<1>3. s \in ListSnapshots(cache[h])
  <2>1. PICK x \in Packfiles : ~ Deleted(x) /\ Published(<<s, x>>)
    BY DEF SInv, SCore, Retained, Named
  <2>2. <<s, x>> \in cache[h].deltas /\ x \in Holders(cache[h], s)
    BY <1>1, <2>1, SeesLive
  <2> QED BY <1>2, <2>2 DEF ListSnapshots, Holders, Usable
<1>4. s \in mcache[h].snapshots
  BY <1>3 DEF SInv, SCore, Passing
<1>5. PICK k \in Packfiles : <<k, s>> \in mcache[h].packfiles /\ Published(<<i, k>>)
  BY <1>1, <1>4 DEF SInv, SCore, Caches, Recorded
<1>6. ~ Deleted(k)
  BY <1>1, <1>5 DEF SInv, SCore, Caches, NeverColoured
<1>7. k \notin ToColour(p)
  BY <1>5 DEF ToColour, HasPackfile
<1> QED BY <1>5, <1>6, <1>7

\* The state that colourPass pushes.
LEMMA TombstonesSay ==
    ASSUME NEW ks
    PROVE  /\ Tombstones(ks).deltas = {} /\ Tombstones(ks).packfiles = {}
           /\ \A r : HasDeletedResource(Tombstones(ks), r) <=> r \in ks
<1>1. /\ Tombstones(ks).deltas = {} /\ Tombstones(ks).packfiles = {}
      /\ Tombstones(ks).deleted = {[res |-> k, when |-> now] : k \in ks}
  BY DEF Tombstones, EmptyState
<1>2. ASSUME NEW r PROVE HasDeletedResource(Tombstones(ks), r) <=> r \in ks
  <2>1. ASSUME r \in ks PROVE HasDeletedResource(Tombstones(ks), r)
    <3>1. [res |-> r, when |-> now] \in Tombstones(ks).deleted
      BY <1>1, <2>1
    <3>2. [res |-> r, when |-> now].res = r
      OBVIOUS
    <3> QED BY <3>1, <3>2 DEF HasDeletedResource
  <2>2. ASSUME NEW d \in Tombstones(ks).deleted PROVE d.res \in ks
    BY <1>1, <2>2
  <2> QED BY <2>1, <2>2 DEF HasDeletedResource
<1> QED BY <1>1, <1>2

\* Colour, when there is something to colour.
LEMMA ColourPushKeeps ==
    ASSUME From, NEW p \in Procs, mpc[p] = "colour", PushState(Tombstones(ToColour(p))),
           mpc' = [mpc EXCEPT ![p] = "sweep"],
           UNCHANGED <<pc, packfile, cache, known, missing, snap, todo, inflight,
                       flushing, delta, pushing, needs, acked, removed, mcache>>
    PROVE  SCore'
<1> USE FromFacts
<1> DEFINE h == Host[p]
           st == Tombstones(ToColour(p))
<1>1. PICK i \in StateIds : Pushed(st, i)
  BY PushIsPushed
<1>2. /\ st.deltas = {} /\ st.packfiles = {}
      /\ \A r : HasDeletedResource(st, r) <=> r \in ToColour(p)
  BY TombstonesSay
<1> HIDE DEF st
<1>3. /\ Current(p) /\ Active(p) /\ h \in Machines /\ pc[p] = "exclusive"
      /\ \A q \in Procs : q # p => pc[q] = "idle" /\ mpc[q] = "off"
      /\ \A q \in Procs : pc[q] \notin BackupPcs
      /\ cache[h] \in State
  BY AloneFacts, Types DEF From
<1>4. mpc'[p] = "sweep" /\ \A q \in Procs : q # p => mpc'[q] = "off"
  BY <1>3 DEF MTypeOK
<1>5. \A k \in ToColour(p) : k \in Packfiles /\ packfile[k].items # {} /\ k \notin Snapshots
  <2>1. \A k \in cache[h].packfiles : k \in Packfiles /\ packfile[k].items # {}
    BY <1>3, StateFacts DEF SCore, Stock, Stocked
  <2>2. \A k \in ToColour(p) : k \in Packfiles /\ packfile[k].items # {}
    BY <2>1 DEF ToColour, Candidates
  <2> QED BY <2>2, TypesAreDisjoint
<1>6. /\ \A r : Deleted(r)' <=> Deleted(r) \/ r \in ToColour(p)
      /\ \A l : Published(l)' <=> Published(l)
      /\ \A m \in Machines : i \notin known[m]
  BY <1>1, <1>2, PushSays DEF SCore, View, Pushed
<1>7. Phases'
  <2>1. AtRest(p)'
    BY <1>1, <1>3 DEF SCore, Phases, AtRest, Pushed
  <2> QED BY <1>3, <2>1, OnePhase DEF SCore
<1>8. \A m \in Machines : View(m)'
  BY <1>1, <1>2, ViewPush DEF SCore
<1>9. \A q \in Procs : Session(q)'
  <2>1. Session(p)'
    <3>1. Session(p)
      BY DEF SCore
    <3> SUFFICES ASSUME NEW j \in published' \ known[h]
                 PROVE  /\ \A k \in states'[j].packfiles : HasDeletedResource(cache[h], k) =>
                                                           HasDeletedResource(states'[j], k)
                        /\ \A l \in states'[j].deltas : Deleted(l[2])' \/ l \in cache[h].deltas
                        /\ \A m \in Machines : j \notin known[m]
      BY <1>4 DEF Session
    <3>2. CASE j \in published
      BY <1>1, <1>3, <1>6, <3>1, <3>2 DEF Session, Pushed
    <3>3. CASE j = i
      BY <1>1, <1>2, <1>6, <3>3 DEF Pushed
    <3> QED BY <1>1, <3>2, <3>3 DEF Pushed
  <2> QED BY <1>3, <2>1 DEF Session, Current, BackupPcs
<1>10. Stock'
  <2>1. \A j \in published : \A k \in states[j].packfiles : packfile[k].items # {}
    BY DEF SCore, Stock, Stocked
  <2>2. \A j \in published' : \A k \in states'[j].packfiles : packfile[k].items # {}
    BY <1>1, <1>2, <2>1 DEF Pushed
  <2>3. \A t \in Snapshots : Deleted(t)' <=> Deleted(t)
    BY <1>5, <1>6
  <2>4. \A k \in Packfiles : Deleted(k)' => packfile[k].items # {}
    BY <1>5, <1>6 DEF SCore, Stock
  <2> QED BY <2>2, <2>3, <2>4 DEF SCore, Stock, Stocked
<1>11. Backups'
  BY <1>3, <1>7, NoBackup DEF Phases
<1>12. Located' /\ Headers' /\ Sourced'
  <2>1. Located'
    BY <1>6, SameHeld DEF SCore, Located
  <2>2. Headers'
    BY DEF SCore, Headers, Acked
  <2>3. Sourced'
    BY <1>6, SameHeld DEF SCore, Sourced
  <2> QED BY <2>1, <2>2, <2>3
<1>13. Retained'
  <2> SUFFICES ASSUME NEW s \in Snapshots, Acked(s), Kept(s), NEW x \in Named(s)
               PROVE  \E k \in Packfiles : ~ Deleted(k)' /\ Published(<<x, k>>)'
    BY DEF Retained, Acked, Named
  <2>1. PICK k \in Packfiles : ~ Deleted(k) /\ k \notin ToColour(p) /\ Published(<<x, k>>)
    BY ColoursOnlyGarbage DEF From
  <2> QED BY <1>6, <2>1
<1>14. Caches'
  <2> SUFFICES ASSUME NEW m \in Machines PROVE Recorded(m)' /\ Recording(m)' /\ NeverColoured(m)'
    BY DEF Caches
  <2>1. Recorded(m) /\ Recording(m) /\ NeverColoured(m)
    BY DEF SCore, Caches
  <2>2. Recorded(m)' /\ Recording(m)'
    BY <1>6, <2>1 DEF Recorded, Recording, Acked, Named, Kept
  <2>3. NeverColoured(m)'
    <3> SUFFICES ASSUME NEW e \in mcache[m].packfiles PROVE m \in Maintainers /\ ~ Deleted(e[1])'
      BY DEF NeverColoured
    <3>1. m \in Maintainers /\ ~ Deleted(e[1])
      BY <2>1 DEF NeverColoured
    <3>2. m = h
      BY <3>1 DEF From, Sequential, SCore, Passing
    <3>3. e[2] \in Snapshots /\ e = <<e[1], e[2]>>
      BY DEF MTypeOK, MaintenanceCache
    <3>4. e[1] \notin ToColour(p)
      BY <3>2, <3>3 DEF ToColour, HasPackfile
    <3> QED BY <1>6, <3>1, <3>4
  <2> QED BY <2>2, <2>3
<1>15. \A q \in Procs : Passing(q)'
  <2>1. Passing(p)'
    BY <1>4 DEF SCore, Passing
  <2> QED BY <1>4, <2>1, PassingOff
<1> QED BY <1>7, <1>8, <1>9, <1>10, <1>11, <1>12, <1>13, <1>14, <1>15 DEF SCore

\* Colour.
LEMMA ColourKeeps ==
    ASSUME From, NEW p \in Procs, Colour(p)
    PROVE  SCore'
<1> USE FromFacts
<1>1. /\ mpc[p] = "colour"
      /\ UNCHANGED <<packfile, cache, known, missing, snap, todo, inflight,
                     flushing, delta, pushing, needs, acked, removed, mcache>>
  BY DEF Colour, cacheVars, procVars, histVars
<1>2. CASE ToColour(p) = {}
  <2>1. mpc' = [mpc EXCEPT ![p] = "sweep"] /\ UNCHANGED <<states, published, pc>>
    BY <1>2 DEF Colour, Enter
  <2>2. pc[p] = "exclusive" /\ \A q \in Procs : q # p => mpc[q] = "off"
    BY <1>1, AloneFacts DEF From
  <2>3. mpc'[p] = "sweep" /\ \A q \in Procs : q # p => mpc'[q] = "off"
    BY <2>1, <2>2 DEF MTypeOK
  <2>4. Caches'
    BY <1>1, <2>1, CachesFrame DEF SCore, Acked
  <2>5. Passing(p)'
    BY <1>1, <2>3 DEF SCore, Passing
  <2> QED BY <1>1, <2>1, <2>2, <2>3, <2>4, <2>5, PassingOff, PassKeeps DEF SCore
<1>3. CASE ToColour(p) # {}
  <2>1. /\ PushState(Tombstones(ToColour(p)))
        /\ mpc' = [mpc EXCEPT ![p] = "sweep"] /\ UNCHANGED pc
    BY <1>3, NothingFails DEF Colour, Enter, From
  <2> QED BY <1>1, <2>1, ColourPushKeeps
<1> QED BY <1>2, <1>3

\* No snapshot uses a packfile that is coloured, to the one maintenance cache's
\* knowledge: nothing is rescued.
LEMMA NoneRescued ==
    ASSUME SInv, NEW p \in Procs, mpc[p] = "sweep", NEW k \in Due(p)
    PROVE  ~ HasPackfile(Host[p], k)
<1> DEFINE h == Host[p]
<1> SUFFICES ASSUME NEW s \in Snapshots, <<k, s>> \in mcache[h].packfiles PROVE FALSE
  BY DEF HasPackfile
<1>1. h \in Machines
  BY AloneFacts
<1>2. View(h) /\ NeverColoured(h)
  BY <1>1 DEF SInv, SCore, Caches
<1>3. k \in Packfiles /\ HasDeletedResource(cache[h], k)
  BY DueIsColoured
<1>4. Deleted(k)
  BY <1>2, <1>3 DEF View, TombstonesKnown, Deleted
<1>5. <<k, s>>[1] = k
  OBVIOUS
<1> QED BY <1>2, <1>4, <1>5 DEF NeverColoured

\* What is left after a sweep that rescues nothing.
LEMMA SweptSays ==
    ASSUME NEW st \in State, NEW due
    PROVE  /\ Swept(st, due, due).packfiles = st.packfiles \ due
           /\ Swept(st, due, due).deltas = {l \in st.deltas : l[2] \in st.packfiles \ due}
           /\ \A r : HasDeletedResource(Swept(st, due, due), r)
                       <=> r \notin due /\ HasDeletedResource(st, r)
<1>1. \A r : HasDeletedResource(Swept(st, due, due), r)
               <=> r \notin due /\ HasDeletedResource(st, r)
  BY SweepKeepsTombstones
<1>2. /\ Swept(st, due, due).packfiles = st.packfiles \ due
      /\ Swept(st, due, due).deltas = {l \in st.deltas : l[2] \in st.packfiles \ due}
  BY DEF Swept, DelDeletedResource, DelPackfile, DelDelta, ListOrphanDeltas, State
<1> QED BY <1>1, <1>2

\* Sweep: the machine forgets packfiles that are coloured in the state files too.
LEMMA SweepKeeps ==
    ASSUME From, NEW p \in Procs, Sweep(p)
    PROVE  SCore'
<1> USE FromFacts
<1> DEFINE h == Host[p]
           D == Due(p)
<1>1. /\ mpc[p] = "sweep"
      /\ UNCHANGED <<states, published, packfile, known, missing, snap, todo, inflight,
                     flushing, delta, pushing, needs, acked, removed, mcache>>
      /\ \/ pc' = [pc EXCEPT ![p] = "idle"] /\ mpc' = [mpc EXCEPT ![p] = "off"]
         \/ UNCHANGED pc /\ mpc' = [mpc EXCEPT ![p] = "push"]
  BY DEF Sweep, Leave, Enter, storeVars, procVars, histVars
<1>2. /\ Current(p) /\ Active(p) /\ h \in Machines /\ pc[p] = "exclusive"
      /\ \A q \in Procs : q # p => pc[q] = "idle" /\ mpc[q] = "off"
      /\ \A q \in Procs : pc[q] \notin BackupPcs
      /\ cache[h] \in State
  BY <1>1, AloneFacts, Types DEF From
<1>3. /\ (pc'[p] = "idle" /\ mpc'[p] = "off") \/ (pc'[p] = "exclusive" /\ mpc'[p] = "push")
      /\ \A q \in Procs : q # p => pc'[q] = "idle" /\ mpc'[q] = "off"
  BY <1>1, <1>2 DEF MTypeOK, TypeOK
<1>4. Unused(p) = D /\ D \subseteq Packfiles
  BY <1>1, NoneRescued, SweepStep DEF Unused, From
<1>5. cache' = [cache EXCEPT ![h] = Swept(cache[h], D, D)]
  BY <1>4, SweepStep
<1>6. /\ cache'[h] = Swept(cache[h], D, D)
      /\ \A m \in Machines : m # h => cache'[m] = cache[m]
  BY <1>2, <1>5 DEF TypeOK
<1>7. \A due :
         /\ Swept(cache[h], due, due).packfiles = cache[h].packfiles \ due
         /\ Swept(cache[h], due, due).deltas
              = {l \in cache[h].deltas : l[2] \in cache[h].packfiles \ due}
         /\ \A r : HasDeletedResource(Swept(cache[h], due, due), r)
                     <=> r \notin due /\ HasDeletedResource(cache[h], r)
  BY <1>2, SweptSays
<1>8. /\ cache'[h].packfiles = cache[h].packfiles \ D
      /\ cache'[h].deltas = {l \in cache[h].deltas : l[2] \in cache[h].packfiles \ D}
      /\ \A r : HasDeletedResource(cache'[h], r) <=> r \notin D /\ HasDeletedResource(cache[h], r)
  BY <1>6, <1>7
<1>9. \A k \in D : Deleted(k) /\ HasDeletedResource(cache[h], k) /\ k \notin Snapshots
  <2>1. \A k \in D : k \in Packfiles /\ HasDeletedResource(cache[h], k)
    BY DueIsColoured
  <2>2. View(h)
    BY <1>2 DEF SCore
  <2> QED BY <2>1, <2>2, TypesAreDisjoint DEF View, TombstonesKnown, Deleted
<1>10. \A l \in cache[h].deltas : Deleted(l[2]) \/ l \in cache'[h].deltas
  <2>1. \A l \in cache[h].deltas : l[2] \in cache[h].packfiles
    BY <1>2 DEF AllWellFormed, WellFormed
  <2> QED BY <1>8, <1>9, <2>1
<1> HIDE DEF D
<1>11. Phases'
  <2>1. AtRest(p)'
    BY <1>1, <1>2, <1>3 DEF SCore, Phases, AtRest, BackupPcs
  <2> QED BY <1>1, <1>2, <1>3, <2>1, OnePhase DEF SCore
<1>12. \A m \in Machines : View(m)'
  <2> SUFFICES ASSUME NEW m \in Machines PROVE View(m)'
    OBVIOUS
  <2>1. View(m) /\ Session(p)
    BY DEF SCore
  <2>2. CASE m # h
    <3>1. cache'[m] = cache[m]
      BY <1>6, <2>2
    <3>2. ColoursSeen(m)' /\ RemovalsSeen(m)' /\ TombstonesKnown(m)' /\ ColoursComeAlong(m)'
      BY <1>1, <2>1, <3>1
         DEF View, ColoursSeen, RemovalsSeen, TombstonesKnown, ColoursComeAlong
    <3>3. LiveSeen(m)'
      BY <1>1, <2>1, <3>1, SameStore DEF View, LiveSeen
    <3> QED BY <1>1, <2>1, <3>2, <3>3 DEF View
  <2>3. CASE m = h
    <3>1. ColoursSeen(m)'
      BY <1>1, <1>8, <2>1, <2>3 DEF View, ColoursSeen
    <3>2. LiveSeen(m)'
      BY <1>1, <1>10, <2>1, <2>3, SameStore DEF View, LiveSeen
    <3>3. RemovalsSeen(m)'
      BY <1>1, <1>8, <1>9, <2>1, <2>3 DEF View, RemovalsSeen
    <3>4. TombstonesKnown(m)'
      BY <1>1, <1>8, <2>1, <2>3 DEF View, TombstonesKnown
    <3>5. ColoursComeAlong(m)'
      <4>1. \A j \in published \ known[h] : \A k \in states[j].packfiles :
               HasDeletedResource(cache[h], k) => HasDeletedResource(states[j], k)
        BY <1>1, <1>2, <2>1 DEF Session
      <4> QED BY <1>1, <2>1, <2>3, <4>1 DEF View, ColoursComeAlong
    <3> QED BY <1>1, <2>1, <3>1, <3>2, <3>3, <3>4, <3>5 DEF View
  <2> QED BY <2>2, <2>3
<1>13. \A q \in Procs : Session(q)'
  <2>1. Session(p)'
    <3>1. CASE pc'[p] = "idle"
      BY <3>1 DEF Session, Current, BackupPcs
    <3>2. CASE mpc'[p] = "push"
      <4>1. Session(p)
        BY DEF SCore
      <4> QED BY <1>1, <1>2, <1>10, <3>2, <4>1, SameStore DEF Session
    <3> QED BY <1>3, <3>1, <3>2
  <2> QED BY <1>3, <2>1 DEF Session, Current, BackupPcs
<1>14. Stock'
  <2>1. \A m \in Machines : \A k \in cache'[m].packfiles : k \in cache[m].packfiles
    BY <1>6, <1>8
  <2> QED BY <1>1, <2>1, SameStore DEF SCore, Stock, Stocked
<1>15. Backups'
  BY <1>3, <1>11, NoBackup DEF Phases, BackupPcs
<1>16. Located' /\ Headers' /\ Sourced'
  <2>1. Located'
    BY <1>1, SameStore, SameHeld DEF SCore, Located
  <2>2. Headers'
    BY <1>1, <1>2 DEF SCore, Headers, Acked, BackupPcs
  <2>3. Sourced'
    <3>1. \A m \in Machines : cache'[m].deltas \subseteq cache[m].deltas
      BY <1>6, <1>8
    <3> QED BY <1>1, <3>1, SameStore, SameHeld DEF SCore, Sourced
  <2> QED BY <2>1, <2>2, <2>3
<1>17. Retained'
  BY <1>1, SameStore, RetainedFrame DEF SCore, Acked
<1>18. Caches'
  BY <1>1, CachesFrame DEF SCore, Acked
<1>19. \A q \in Procs : Passing(q)'
  <2>1. Passing(p)'
    BY <1>1, <1>3 DEF SCore, Passing
  <2> QED BY <1>3, <2>1, PassingOff
<1> QED BY <1>11, <1>12, <1>13, <1>14, <1>15, <1>16, <1>17, <1>18, <1>19 DEF SCore

\* PushSwept: the state pushed brings no packfile back that some machine knows to be
\* coloured, unless with its tombstone.
LEMMA PushSweptKeeps ==
    ASSUME From, NEW p \in Procs, PushSwept(p)
    PROVE  SCore'
<1> USE FromFacts
<1> DEFINE h == Host[p]
<1>1. /\ mpc[p] = "push" /\ PushState(cache[h])
      /\ pc' = [pc EXCEPT ![p] = "idle"] /\ mpc' = [mpc EXCEPT ![p] = "off"]
      /\ UNCHANGED <<packfile, cache, known, missing, snap, todo, inflight, flushing, delta,
                     pushing, needs, acked, removed, mcache>>
  BY NothingFails DEF PushSwept, Leave, From, cacheVars, procVars, histVars
<1>2. /\ Current(p) /\ Active(p) /\ h \in Machines
      /\ \A q \in Procs : q # p => pc[q] = "idle" /\ mpc[q] = "off"
      /\ \A q \in Procs : pc[q] \notin BackupPcs /\ missing[q] = {}
      /\ cache[h] \in State
  BY <1>1, AloneFacts, Types DEF From
<1>3. \A q \in Procs : pc'[q] = "idle" /\ mpc'[q] = "off"
  BY <1>1, <1>2 DEF MTypeOK, TypeOK
<1>4. PICK i \in StateIds : Pushed(cache[h], i)
  BY <1>1, PushIsPushed
<1>5. View(h) /\ \A r : HasDeletedResource(cache[h], r) => Deleted(r)
  <2>1. View(h)
    BY <1>2 DEF SCore
  <2> QED BY <1>2, <2>1, StateFacts DEF View, TombstonesKnown, Deleted
<1>6. /\ \A r : Deleted(r)' <=> Deleted(r)
      /\ \A l : Published(l) => Published(l)'
  BY <1>4, <1>5, PushSays
<1>7. Phases'
  <2>1. OneAtATime'
    BY <1>3 DEF OneAtATime, Active
  <2>2. ASSUME NEW q \in Procs PROVE AtRest(q)'
    <3>1. inflight[q] = {} /\ flushing[q] = {} /\ delta[q] = EmptyState /\ pushing[q] = {}
      BY <1>2 DEF SCore, Phases, AtRest
    <3> QED BY <1>1, <1>2, <1>3, <3>1 DEF AtRest
  <2> QED BY <2>1, <2>2 DEF Phases
<1>8. \A m \in Machines : View(m)'
  <2> SUFFICES ASSUME NEW m \in Machines PROVE View(m)'
    OBVIOUS
  <2>1. View(m)
    BY DEF SCore
  <2>2. ASSUME NEW j \in known[m], NEW k \in cache[h].packfiles, HasDeletedResource(states[j], k)
        PROVE  HasDeletedResource(cache[h], k)
    <3>1. j \in published
      BY <2>1, <2>2 DEF View
    <3>2. j \in known[h]
      BY <1>2, <2>2, <3>1 DEF SCore, Session
    <3> QED BY <1>5, <2>2, <3>2 DEF View, ColoursSeen
  <2> QED BY <1>1, <1>4, <2>1, <2>2, ViewPush
<1>9. \A q \in Procs : Session(q)'
  BY <1>3 DEF Session, Current, BackupPcs
<1>10. Stock'
  <2>1. /\ \A j \in published : \A k \in states[j].packfiles : packfile[k].items # {}
        /\ \A k \in cache[h].packfiles : packfile[k].items # {}
    BY <1>2 DEF SCore, Stock, Stocked
  <2>2. \A j \in published' : \A k \in states'[j].packfiles : packfile[k].items # {}
    BY <1>4, <2>1 DEF Pushed
  <2> QED BY <1>1, <1>6, <2>2 DEF SCore, Stock, Stocked
<1>11. Backups'
  BY <1>3, <1>7, NoBackup DEF Phases, BackupPcs
<1>12. Located' /\ Headers' /\ Sourced'
  <2>1. Located'
    BY <1>1, <1>6, SameHeld DEF SCore, Located
  <2>2. Headers'
    BY <1>1, <1>2 DEF SCore, Headers, Acked, BackupPcs
  <2>3. Sourced'
    BY <1>1, <1>6, SameHeld DEF SCore, Sourced
  <2> QED BY <2>1, <2>2, <2>3
<1>13. Retained'
  BY <1>1, <1>6, RetainedFrame DEF SCore, Acked
<1>14. Caches'
  <2>1. \A k \in Packfiles : HasDeletedResource(cache[h], k) => Deleted(k)
    BY <1>5
  <2> QED BY <1>1, <1>4, <2>1, CachesPush DEF SCore, Acked
<1>15. \A q \in Procs : Passing(q)'
  BY <1>3, PassingOff
<1> QED BY <1>7, <1>8, <1>9, <1>10, <1>11, <1>12, <1>13, <1>14, <1>15 DEF SCore

-----------------------------------------------------------------------------
LEMMA SCoreInit == MInit => SCore
<1> SUFFICES ASSUME MInit PROVE SCore
  OBVIOUS
<1>1. /\ published = {} /\ acked = {} /\ removed = {}
      /\ \A p \in Procs : /\ pc[p] = "idle" /\ mpc[p] = "off" /\ missing[p] = {} /\ snap[p] = {}
                          /\ todo[p] = {} /\ inflight[p] = {} /\ flushing[p] = {}
                          /\ delta[p] = EmptyState /\ pushing[p] = {}
      /\ \A m \in Machines : /\ cache[m] = EmptyState /\ known[m] = {}
                             /\ mcache[m].snapshots = {} /\ mcache[m].packfiles = {}
      /\ \A k \in Packfiles : packfile[k].items = {}
  BY HostAssumption DEF MInit, Init
<1>2. EmptyState.deltas = {} /\ EmptyState.packfiles = {} /\ EmptyState.deleted = {}
  BY DEF EmptyState
<1>3. \A r : ~ Deleted(r) /\ ~ HasDeletedResource(EmptyState, r) /\ ~ Acked(r)
  BY <1>1, <1>2 DEF Deleted, HasDeletedResource, Acked
<1>4. Phases
  BY <1>1 DEF Phases, OneAtATime, AtRest, Active, BackupPcs
<1>5. \A m \in Machines : View(m)
  BY <1>1, <1>2, <1>3
     DEF View, ColoursSeen, LiveSeen, RemovalsSeen, TombstonesKnown, ColoursComeAlong
<1>6. \A p \in Procs : Session(p) /\ Passing(p)
  BY <1>1 DEF Session, Passing
<1>7. Stock
  BY <1>1, <1>2, <1>3 DEF Stock, Stocked
<1>8. Backups
  BY <1>1, <1>2 DEF Backups, Writing, Packing, Covered, Fresh, Stocked, Held, BackupPcs
<1>9. Located /\ Headers /\ Sourced /\ Retained
  BY <1>1, <1>2, <1>3 DEF Located, Headers, Sourced, Retained
<1>10. Caches
  BY <1>1 DEF Caches, Recorded, Recording, NeverColoured
<1> QED BY <1>4, <1>5, <1>6, <1>7, <1>8, <1>9, <1>10 DEF SCore

LEMMA SInvStep == ASSUME Sequential, SInv, [MNext]_allVars PROVE SInv'
<1>1. MTypeOK'
  BY MaintenanceSteps, MStepMType, NextMType DEF SInv
<1>2. AllWellFormed'
  BY MaintenanceSteps, MWellFormedStep, WellFormedStep, TypeStep DEF SInv, MTypeOK
<1>3. From
  BY <1>1, <1>2 DEF From
<1>4. ASSUME NEW p \in Procs, Step(p), UNCHANGED mvars PROVE SCore'
  BY <1>3, <1>4, NothingFails, ListStatesKeeps, InsertStateKeeps, OpenedKeeps, QuietKeeps,
     StartBackupKeeps, PutBlobKeeps, PutHeaderKeeps, StorePackfileKeeps, IndexPackfileKeeps,
     SwapDeltaKeeps, PushDeltaKeeps, CommitKeeps, RmKeeps DEF Step
<1>5. ASSUME Tick \/ UNCHANGED vars, UNCHANGED mvars PROVE SCore'
  BY <1>3, <1>5, QuietKeeps
<1>6. ASSUME NEW p \in Procs, MStep(p) PROVE SCore'
  BY <1>3, <1>6, StartMaintenanceKeeps, IndexSnapshotKeeps, FailSnapshotKeeps, ForgetRemovedKeeps,
     ColourKeeps, SweepKeeps, PushSweptKeeps, AbortKeeps DEF MStep
<1> QED BY <1>1, <1>2, <1>4, <1>5, <1>6, MaintenanceSteps DEF SInv, Next

\* A blob published in a packfile that no state file colours can be read by whoever
\* merges them all.
LEMMA RetainedIsNamed == ASSUME MTypeOK, AllWellFormed, SCore PROVE NamedRetained
<1> SUFFICES ASSUME NEW a \in acked, a[1] \notin removed, NEW i \in Named(a[1])
             PROVE  BlobExists(Remote, i)
  BY DEF NamedRetained
<1>1. a[1] \in Snapshots /\ Acked(a[1]) /\ Kept(a[1])
  BY DEF MTypeOK, TypeOK, Acked, Kept
<1>2. PICK k \in Packfiles : ~ Deleted(k) /\ Published(<<i, k>>)
  BY <1>1 DEF SCore, Retained
<1>3. PICK j \in published : <<i, k>> \in states[j].deltas
  BY <1>2 DEF Published
<1>4. k \in states[j].packfiles
  BY <1>3, Types DEF AllWellFormed, WellFormed
<1>5. <<i, k>> \in Remote.deltas /\ k \in Remote.packfiles
  BY <1>3, <1>4 DEF Remote
<1>6. ~ HasDeletedResource(Remote, k)
  BY <1>2 DEF Remote, HasDeletedResource, Deleted
<1> QED BY <1>5, <1>6 DEF BlobExists, Holders, Usable

\* Only active snapshots and their dependencies are retained: of the dependencies,
\* what ListPackfiles names is, under the hypotheses of Sequential.  Whatever
\* colourPass coloured and sweepPass swept, and whatever a run that failed or was
\* cut short left behind, it can be read from any machine as long as nobody removed
\* the snapshot.
THEOREM SequentialRetains == ASSUME Sequential PROVE MSpec => []NamedRetained
<1>1. MInit => SInv
  <2>1. MInit => AllWellFormed
    BY EmptyWellFormed DEF MInit, Init, AllWellFormed
  <2>2. MInit => MTypeOK
    BY TypeInit DEF MInit, MTypeOK, MaintenanceCache, Init
  <2> QED BY <2>1, <2>2, SCoreInit DEF SInv
<1>2. SInv /\ [MNext]_allVars => SInv'
  BY SInvStep
<1>3. SInv => NamedRetained
  BY RetainedIsNamed DEF SInv
<1> QED BY <1>1, <1>2, <1>3, PTL DEF MSpec
=============================================================================
