----------------------------- MODULE Maintenance ----------------------------
(***************************************************************************)
(* Garbage collection (cmd/plakar/subcommands/maintenance) over            *)
(* Repository.  A run brings the machine's cache of snapshot -> packfiles  *)
(* up to date, colours the packfiles no snapshot uses (a tombstone in a    *)
(* state file), and sweeps from the aggregated state those coloured more   *)
(* than the grace period ago.  It works on the state the process merged    *)
(* when it opened the repository, before it took the exclusive lock.       *)
(* Packfiles are never deleted from the store: doDeletion is false.        *)
(***************************************************************************)
EXTENDS Repository

CONSTANTS
    Grace,        \* the 30 days between colouring and sweeping
    Maintainers,  \* the machines maintenance is run on
    Attached,     \* of the blobs of a snapshot, the objects and chunks only attributes have
    Nodes,        \* the blobs that are nodes of a snapshot's trees
    CanAbort,     \* may a maintenance die or give up between two steps?
    CanFailRead,  \* may the store fail to give it a blob?
    MaxRuns       \* bound: maintenance runs

ASSUME GraceAssumption == /\ Grace \in Nat /\ MaxRuns \in Nat
                          /\ CanAbort \in BOOLEAN /\ CanFailRead \in BOOLEAN
                          /\ Maintainers \subseteq Machines /\ Nodes \subseteq Blobs
                          /\ Attached \in [SUBSET Blobs -> SUBSET Blobs]

VARIABLES
    mpc,      \* process: the pass its maintenance is in: "off", "update", "colour", "sweep", "push"
    listed,   \* process: snapshots updateCache has still to look at
    since,    \* process: when its maintenance started; the cutoff is Grace before
    mcache,   \* machine: the maintenance cache, snapshot -> packfiles
    runs

mvars == <<mpc, listed, since, mcache, runs>>
allVars == <<vars, mvars>>

MInit ==
    /\ Init
    /\ mpc = [p \in Procs |-> "off"]
    /\ listed = [p \in Procs |-> {}]
    /\ since = [p \in Procs |-> 0]
    /\ mcache = [m \in Machines |-> [snapshots |-> {}, packfiles |-> {}]]
    /\ runs = 0

Enter(p, pass) ==
    /\ mpc' = [mpc EXCEPT ![p] = pass]
    /\ UNCHANGED <<pc, since>>

\* The run ends, well or not, and its lock goes.
Leave(p) ==
    /\ mpc' = [mpc EXCEPT ![p] = "off"]
    /\ pc' = [pc EXCEPT ![p] = "idle"]
    /\ since' = [since EXCEPT ![p] = 0]

HasPackfile(m, k) == \E s \in Snapshots : <<k, s>> \in mcache[m].packfiles

-----------------------------------------------------------------------------
\* Execute takes the exclusive lock, then lists the snapshots its machine sees.
StartMaintenance(p) ==
    /\ pc[p] = "ready" /\ Host[p] \in Maintainers /\ runs < MaxRuns
    /\ \A q \in Procs : pc[q] \notin BackupPcs \cup {"exclusive"}
    /\ pc' = [pc EXCEPT ![p] = "exclusive"]
    /\ mpc' = [mpc EXCEPT ![p] = "update"]
    /\ listed' = [listed EXCEPT ![p] = ListSnapshots(cache[Host[p]])]
    /\ since' = [since EXCEPT ![p] = now]
    /\ runs' = runs + 1
    /\ UNCHANGED <<storeVars, cacheVars, procVars, histVars, now, mcache>>

\* What ListPackfiles names of a snapshot: its attributes, not the objects and the
\* chunks of their values.
Named(s) == {s} \cup (needs[s] \ Attached[needs[s]])

\* What it names before it ends: all of it, or what comes before a node that cannot
\* be read, since nobody asks the iterators for their error.
Listings(st, s) ==
    {got \in SUBSET Named(s) :
        /\ s \in got
        /\ \/ got = Named(s)
           \/ \E n \in Nodes \cap (Named(s) \ got) : CanFailRead \/ ~ BlobExists(st, n)}

\* One packfile for each item; empty if some item cannot be resolved.
Resolutions(st, items) ==
    {f \in [items -> Packfiles] : \A i \in items : f[i] \in Holders(st, i)}

Rows(s, f) == {<<f[i], s>> : i \in DOMAIN f}

\* updateCache, one snapshot: its header must load; if the maintenance cache does
\* not know the snapshot yet, everything the listing names must be resolved.
IndexSnapshot(p) ==
    /\ mpc[p] = "update"
    /\ \E s \in listed[p] :
        /\ BlobExists(cache[Host[p]], s)
        /\ \/ /\ s \in mcache[Host[p]].snapshots
              /\ UNCHANGED mcache
           \/ /\ s \notin mcache[Host[p]].snapshots
              /\ \E got \in Listings(cache[Host[p]], s) :
                 \E f \in Resolutions(cache[Host[p]], got) :
                    mcache' = [mcache EXCEPT ![Host[p]] =
                        [snapshots |-> @.snapshots \cup {s},
                         packfiles |-> @.packfiles \cup Rows(s, f)]]
        /\ listed' = [listed EXCEPT ![p] = @ \ {s}]
    /\ UNCHANGED <<vars, mpc, since, runs>>

\* ... or updateCache fails, and so does the run.  The packfiles resolved up to
\* there stay recorded, the snapshot does not.
FailSnapshot(p) ==
    /\ mpc[p] = "update"
    /\ \E s \in listed[p] :
        \/ /\ CanFailRead \/ ~ BlobExists(cache[Host[p]], s)
           /\ UNCHANGED mcache
        \/ /\ s \notin mcache[Host[p]].snapshots
           /\ CanFailRead \/ \E i \in Named(s) \ Nodes : ~ BlobExists(cache[Host[p]], i)
           /\ \E got \in SUBSET Named(s) : \E f \in Resolutions(cache[Host[p]], got) :
                 mcache' = [mcache EXCEPT ![Host[p]].packfiles = @ \cup Rows(s, f)]
    /\ listed' = [listed EXCEPT ![p] = {}]
    /\ Leave(p)
    /\ UNCHANGED <<storeVars, cacheVars, procVars, histVars, now, runs>>

\* DeleletePackfiles and DeleteSnapshot.  Slip: the packfiles a removed snapshot
\* shared with others are forgotten for the others too.
ForgetShared(mc, gone) ==
    [snapshots |-> mc.snapshots \ gone,
     packfiles |-> {e \in mc.packfiles : \A s \in gone : <<e[1], s>> \notin mc.packfiles}]

Forgotten(mc, gone) ==
    [snapshots |-> mc.snapshots \ gone,
     packfiles |-> {e \in mc.packfiles : e[2] \notin gone}]

\* The end of updateCache forgets the removed snapshots.
ForgetRemoved(p) ==
    /\ mpc[p] = "update" /\ listed[p] = {}
    /\ LET gone == {s \in mcache[Host[p]].snapshots : HasDeletedResource(cache[Host[p]], s)} IN
       mcache' = [mcache EXCEPT ![Host[p]] = Forgotten(@, gone)]
    /\ Enter(p, "colour")
    /\ UNCHANGED <<storeVars, cacheVars, procVars, histVars, now, listed, runs>>

\* colourPass: the packfiles of the state, and those of the store that are in no
\* state and older than the cutoff.
Candidates(p) ==
    LET st == cache[Host[p]] IN
    st.packfiles \cup
    {k \in Packfiles : /\ packfile[k].items # {}
                       /\ ~ HasDeletedResource(st, k)
                       /\ packfile[k].time + Grace < since[p]}

ToColour(p) == {k \in Candidates(p) : /\ ~ HasPackfile(Host[p], k)
                                      /\ ~ HasDeletedResource(cache[Host[p]], k)}

Tombstones(ks) == [EmptyState EXCEPT !.deleted = {[res |-> k, when |-> now] : k \in ks}]

\* The tombstones go to the store, not to the machine's cache.
Colour(p) ==
    /\ mpc[p] = "colour"
    /\ \/ /\ ToColour(p) = {}
          /\ Enter(p, "sweep")
          /\ UNCHANGED <<states, published>>
       \/ /\ ToColour(p) # {}
          /\ PushState(Tombstones(ToColour(p)))
          /\ Enter(p, "sweep")
       \/ /\ ToColour(p) # {}
          /\ PushFails
          /\ Leave(p)
    /\ UNCHANGED <<packfile, cacheVars, procVars, histVars, now, listed, mcache, runs>>

\* Slip: the tombstones of snapshots are swept as well.
DueAnyType(p) == {d.res : d \in {t \in cache[Host[p]].deleted : t.when + Grace <= since[p]}}

\* Slip: what this run colours is swept at once.
DueAtOnce(p) == ToColour(p)

\* Coloured before the cutoff, or exactly then.
Due(p) == {d.res : d \in {t \in ListDeleted(cache[Host[p]], Packfiles) :
                             t.when + Grace <= since[p]}}

\* sweepPass: a due packfile that a snapshot uses after all loses its tombstone;
\* the others leave the state, and so do the locations that are left without a
\* packfile.
Sweep(p) ==
    /\ mpc[p] = "sweep"
    /\ LET gone == {k \in Due(p) : ~ HasPackfile(Host[p], k)}
           st == DelDeletedResource(DelPackfile(cache[Host[p]], gone), Due(p)) IN
       /\ cache' = [cache EXCEPT ![Host[p]] = DelDelta(st, ListOrphanDeltas(st))]
       /\ IF gone = {} THEN Leave(p) ELSE Enter(p, "push")
    /\ UNCHANGED <<storeVars, known, cookie, procVars, histVars, now, listed, mcache, runs>>

\* PutCurrentState, only if something was swept.
PushSwept(p) ==
    /\ mpc[p] = "push"
    /\ PushState(cache[Host[p]]) \/ PushFails
    /\ Leave(p)
    /\ UNCHANGED <<packfile, cacheVars, procVars, histVars, now, listed, mcache, runs>>

Abort(p) ==
    /\ CanAbort /\ mpc[p] # "off"
    /\ listed' = [listed EXCEPT ![p] = {}]
    /\ Leave(p)
    /\ UNCHANGED <<storeVars, cacheVars, procVars, histVars, now, mcache, runs>>

MStep(p) == \/ StartMaintenance(p) \/ IndexSnapshot(p) \/ FailSnapshot(p)
            \/ ForgetRemoved(p) \/ Colour(p) \/ Sweep(p) \/ PushSwept(p) \/ Abort(p)

MNext == (Next /\ UNCHANGED mvars) \/ (\E p \in Procs : MStep(p))

MSpec == MInit /\ [][MNext]_allVars
-----------------------------------------------------------------------------
\* A snapshot that nobody removed, and the machine of which never lost a location,
\* can be restored from any machine, whatever maintenance does: the manual says
\* "only active snapshots and their dependencies are retained".
ActiveRetained ==
    \A a \in acked :
        a[1] \in removed \/ Unpushed(a[2]) \cup lost[a[2]] # {} \/ Complete(Remote, a[1])

\* The same of what ListPackfiles names: the values of attributes are not in it.
NamedRetained ==
    \A a \in acked :
        \/ a[1] \in removed \/ Unpushed(a[2]) \cup lost[a[2]] # {}
        \/ \A i \in Named(a[1]) : BlobExists(Remote, i)

\* On a machine a blob becomes unreadable only because a state was merged, a
\* colour pushed by some maintenance: sweeping never hides anything.
OnlyColoursHide ==
    [][\A m \in Machines : \A i \in Items :
          BlobExists(cache[m], i) /\ ~ BlobExists(cache'[m], i) => known'[m] # known[m]]_allVars

\* A removed snapshot does not come back on a machine that has seen the removal,
\* whatever old states are merged or pushed again.
RemovedStaysHidden ==
    [][\A m \in Machines : \A s \in Snapshots :
          HasDeletedResource(cache[m], s) => HasDeletedResource(cache'[m], s)]_allVars
=============================================================================
