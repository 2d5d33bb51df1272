----------------------------- MODULE LocalState -----------------------------
(***************************************************************************)
(* The aggregated state of a repository (repository/state/state.go over    *)
(* the caching.StateCache of caching/repository.go and caching/scan.go).   *)
(*                                                                         *)
(* A state is what a state file says and, merged, what a machine's cache   *)
(* holds:                                                                  *)
(*   deltas     which blob is in which packfile (the keys of the           *)
(*              __delta__ rows: blob and packfile)                         *)
(*   packfiles  the packfiles a state has published (__packfile__ rows)    *)
(*   deleted    tombstones [res, when], one per resource (__deleted__)     *)
(* The header of snapshot s is the RT_SNAPSHOT blob whose MAC is s, so an  *)
(* item is a blob or a snapshot.  Offsets and lengths inside a packfile,   *)
(* versions and configuration entries are left out.                        *)
(***************************************************************************)
EXTENDS Naturals, FiniteSets

CONSTANTS
    Blobs,       \* everything a snapshot refers to, one model value per blob
    Snapshots,   \* snapshot identifiers, also the MAC of their header blob
    Packfiles    \* packfile MACs

\* MACs of different resource types never collide: the cache keys carry the type.
ASSUME TypesAreDisjoint ==
    /\ Blobs \cap Snapshots = {}
    /\ Blobs \cap Packfiles = {}
    /\ Snapshots \cap Packfiles = {}

Items     == Blobs \cup Snapshots
Locations == Items \X Packfiles
Tombstone == [res : Snapshots \cup Packfiles, when : Nat]

State == [deltas    : SUBSET Locations,
          packfiles : SUBSET Packfiles,
          deleted   : SUBSET Tombstone]

EmptyState == [deltas |-> {}, packfiles |-> {}, deleted |-> {}]

HasDeletedResource(st, r) == \E d \in st.deleted : d.res = r

\* PutDeleted overwrites the row of the resource: the last write wins, whatever
\* the two times are.
PutDeleted(old, new) ==
    {d \in old : ~ \E e \in new : e.res = d.res} \cup new

\* deserializeFromStream: every row of the state file is put in the cache.
Merge(st, file) ==
    [deltas    |-> st.deltas \cup file.deltas,
     packfiles |-> st.packfiles \cup file.packfiles,
     deleted   |-> PutDeleted(st.deleted, file.deleted)]

DeleteResource(st, r, now) ==
    [st EXCEPT !.deleted = PutDeleted(@, {[res |-> r, when |-> now]})]

DelDeletedResource(st, rs) ==
    [st EXCEPT !.deleted = {d \in @ : d.res \notin rs}]

DelPackfile(st, ks) == [st EXCEPT !.packfiles = @ \ ks]

\* PutDelta for every blob of a packfile, then PutPackfile.
IndexBlobs(st, k, items) ==
    [st EXCEPT !.deltas = @ \cup (items \X {k}), !.packfiles = @ \cup {k}]

\* A location counts only while its packfile is known and not coloured.
Usable(st, k) == k \in st.packfiles /\ ~ HasDeletedResource(st, k)

\* The packfiles GetSubpartForBlob may answer with; it takes the first in key
\* order, which says nothing about the packfile, so any of them.
Holders(st, i) == {k \in Packfiles : <<i, k>> \in st.deltas /\ Usable(st, k)}

BlobExists(st, i) == Holders(st, i) # {}

\* The header's packfile must be known; unlike BlobExists, it may be coloured.
ListSnapshots(st) ==
    {s \in Snapshots : /\ \E k \in st.packfiles : <<s, k>> \in st.deltas
                       /\ ~ HasDeletedResource(st, s)}

ListDeleted(st, rs) == {d \in st.deleted : d.res \in rs}

ListOrphanDeltas(st) == {l \in st.deltas : l[2] \notin st.packfiles}

DelDelta(st, ls) == [st EXCEPT !.deltas = @ \ ls]
=============================================================================
