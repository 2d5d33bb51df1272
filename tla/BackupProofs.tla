---------------------------- MODULE BackupProofs ----------------------------
(***************************************************************************)
(* Theorems about Backup, for any number of backups, any sources and       *)
(* contents, and any number of scanners, failures and interruptions.       *)
(***************************************************************************)
EXTENDS Backup, FiniteSetTheorems, TLAPS

Places == {"pending", "queued", "cached", "test", "read", "serialize", "entry", "end"}
Phases == {"new", "import", "scan", "index", "done", "failed", "canceled"}
Entries == [type : {"entry"}, path : Files, version : Versions, object : Objects \cup {NoObject}]
Caches == [entry : [Files -> SUBSET Entries], objects : SUBSET Objects]
Scans  == [dirs : SUBSET Dirs, files : UNION {[S -> Entries] : S \in SUBSET Files}]

BTypeOK ==
    /\ kind \in Trees
    /\ source \in [Files -> Versions]
    /\ cached \in Caches
    /\ phase \in [Runs -> Phases]
    /\ seen \in [Runs -> [Files -> Versions]]
    /\ at \in [Runs -> [Files -> Places]]
    /\ object \in [Runs -> [Files -> Objects \cup {NoObject}]]
    /\ hit \in [Runs -> [Files -> SUBSET Entries]]
    /\ err \in [Runs -> BOOLEAN]
    /\ recorded \in [Runs -> Scans]
    /\ errors \in [Runs -> SUBSET Tree]
    /\ DOMAIN handed = Runs /\ DOMAIN snapshots = Runs

\* What a backup has given to the repository or to its packer.
Held(r) == have \cup handed[r]

\* An entry all of which can be found among some blobs, or that was taken from
\* the cache with an object whose chunks nobody has looked at.
Whole(e, blobs) == \/ BlobsOf(e) \subseteq blobs
                   \/ e.object \in blind /\ {e, e.object} \subseteq blobs

\* The objects a file may be saved as, listed at version v and read by version w.
Saved(f, v, w) == IF kind[f] = "special" THEN {NoObject} ELSE Chunkified(f, v, w)

\* Such an object, or none where a failure was overwritten.
Fits(f, v, o) == o \in Saved(f, v, source[f]) \/ (o = NoObject /\ f \in masked)

Working(r) == phase[r] \in {"scan", "index"}

\* Nobody has seen a version that is still to come.
Fresh == \A r \in Runs : \A f \in Files : seen[r][f] <= source[f]

\* One entry at most is cached of a file, and its object is too.
CacheFits == \A f \in Files : \A e \in cached.entry[f] :
    /\ e.path = f /\ e.version <= source[f] /\ Fits(f, e.version, e.object)
    /\ e.object \in cached.objects \cup {NoObject}
    /\ \A x \in cached.entry[f] : x = e

\* Before the import nothing has been done.
Untouched(r) == phase[r] \in {"new", "import"} =>
    /\ DOMAIN recorded[r].files = {}
    /\ \A f \in Files : at[r][f] = "pending" /\ hit[r][f] = {}

\* The object a goroutine has at hand.
ObjectFits(r, f) ==
    LET o == object[r][f]
        v == seen[r][f]
        p == at[r][f]
    IN  /\ \A e \in hit[r][f] : e.path = f /\ e.version = v /\ Fits(f, v, e.object)
        /\ p \in {"cached", "test"} => /\ kind[f] = "regular" /\ o # NoObject
                                     /\ \A e \in hit[r][f] : e.object = o
        /\ p \in {"cached", "test", "entry"} => o \in cached.objects \cup {NoObject}
        /\ p \in {"read", "serialize"} => kind[f] # "special"
        /\ p = "entry" => kind[f] # "xattr"
        /\ p \in {"cached", "test", "serialize", "entry"} /\ o # NoObject =>
               o \in Saved(f, v, source[f])
        /\ p = "serialize" /\ o = NoObject => err[r] \/ f \in masked
        /\ p = "entry" /\ o = NoObject => kind[f] = "special" \/ f \in masked

\* What of it the backup has put.
ObjectHeld(r, f) == r \in Active =>
    LET o == object[r][f]
        p == at[r][f]
    IN  /\ p = "test" => o \in Held(r)
        /\ p = "serialize" /\ o # NoObject => ChunksOf(o) \subseteq Held(r)
        /\ p = "entry" /\ o # NoObject => o \in Held(r) /\ (ChunksOf(o) \subseteq Held(r) \/ o \in blind)
        /\ p \in {"read", "serialize", "entry"} =>
               \A e \in hit[r][f] : e.object = NoObject \/ e.object \in Held(r)

\* The entries in the scan cache.
RecordFits(r, f, e) ==
    /\ e.path = f
    /\ f \in masked \/ (e.version = seen[r][f] /\ e.object \in Saved(f, seen[r][f], source[f]))
    /\ kind[f] = "xattr" \/ f \in masked \/ Whole(e, Held(r))

RecordsFit(r) == r \in Active =>
    \A f \in DOMAIN recorded[r].files : RecordFits(r, f, recorded[r].files[f])

\* Whatever has not been recorded is an error.
Accounted(r) == Working(r) =>
    /\ \A f \in Files : at[r][f] = "end" => \/ f \in DOMAIN recorded[r].files
                                            \/ f \in errors[r] \/ Root \in errors[r]
    /\ Dirs \ recorded[r].dirs \subseteq errors[r]
    /\ phase[r] = "index" => \A f \in Files : at[r][f] = "end"

\* Files may have changed, and have later versions.
Later == \A g \in Files : source'[g] = source[g] \/ (source'[g] \in Versions /\ source[g] < source'[g])

Committed == \A r \in Runs : \A s \in snapshots[r] : \A e \in s.files : e.path \in Files

BInv == /\ BTypeOK /\ Fresh /\ CacheFits
        /\ \A r \in Runs : Untouched(r) /\ RecordsFit(r) /\ Accounted(r)
        /\ \A r \in Runs : \A f \in Files : ObjectFits(r, f) /\ ObjectHeld(r, f)
        /\ Committed /\ NoSilentLoss /\ Complete

-----------------------------------------------------------------------------
\* Files and their objects.

LEMMA FileKinds ==
    ASSUME kind \in Trees, NEW f \in Files
    PROVE  /\ kind[f] \in {"regular", "special", "xattr"}
           /\ Parent(f) \in Dirs
           /\ Root \notin Files
<1>1. /\ \A path \in Tree : kind[path] \in {"dir", "regular", "special", "xattr"}
      /\ Root \in Tree /\ kind[Root] = "dir"
      /\ \A path \in Tree \ {Root} : Parent(path) \in Tree /\ kind[Parent(path)] = "dir"
  BY TreeAssumption DEF Tree
<1>2. f \in Tree /\ kind[f] # "dir"
  BY DEF Files, Dirs
<1>3. Root \notin Files
  BY <1>1 DEF Files, Dirs
<1>4. Parent(f) \in Dirs
  BY <1>1, <1>2 DEF Dirs
<1> QED BY <1>1, <1>2, <1>3, <1>4

LEMMA ObjectsAre ==
    /\ EmptyObject \in Objects /\ NoObject \notin Objects
    /\ \A v \in Versions : Object(v) \in Objects
    /\ \A v, w \in Versions : Parts(v, w) \subseteq Objects
<1>1. ASSUME NEW v \in Versions PROVE Object(v) \in Parts(v, v)
  <2>1. v \in v .. v
    BY TreeAssumption DEF Versions
  <2>2. Content[v] \in SUBSET UNION {Content[u] : u \in v .. v}
    BY <2>1
  <2> QED BY <2>2 DEF Object, Parts
<1>2. \A v, w \in Versions : Parts(v, w) \subseteq Objects
  BY DEF Objects
<1>3. EmptyObject \in Objects
  BY DEF Objects
<1> QED BY <1>1, <1>2, <1>3, ObjectAssumption

LEMMA SavedObjects ==
    ASSUME kind \in Trees, NEW f \in Files, NEW v \in Versions, NEW w \in Versions
    PROVE  /\ Saved(f, v, w) \subseteq Objects \cup {NoObject}
           /\ \A o \in Saved(f, v, w) : o = NoObject <=> kind[f] = "special"
<1>1. Chunkified(f, v, w) \subseteq Objects
  BY ObjectsAre DEF Chunkified
<1> QED BY <1>1, ObjectsAre DEF Saved

\* What may be saved of a file is its content, or part of what it has been since
\* it changed, or nothing of the value of an attribute.
LEMMA SavedIs ==
    ASSUME NEW f, NEW v, NEW w, NEW o \in Saved(f, v, w)
    PROVE  \/ o = RightObject(f, v)
           \/ w # v /\ o \in Chunkified(f, v, w)
           \/ kind[f] = "xattr" /\ o = EmptyObject
<1>1. CASE kind[f] = "special"
  BY <1>1 DEF Saved, RightObject
<1>2. CASE kind[f] # "special" /\ w # v
  BY <1>2 DEF Saved
<1>3. CASE kind[f] = "xattr"
  BY <1>3 DEF Saved, Chunkified
<1>4. CASE kind[f] # "special" /\ kind[f] # "xattr" /\ w = v
  <2>1. o = IF Content[v] = {} THEN EmptyObject ELSE Object(v)
    BY <1>4 DEF Saved, Chunkified
  <2>2. Content[v] = {} => EmptyObject = Object(v)
    BY DEF EmptyObject, Object
  <2> QED BY <1>4, <2>1, <2>2 DEF RightObject
<1> QED BY <1>1, <1>2, <1>3, <1>4

\* A file that changes keeps what may be saved of it.
LEMMA SavedGrows ==
    ASSUME NEW f \in Files, NEW v \in Versions, NEW w \in Versions, NEW x \in Versions, v <= w, w < x
    PROVE  Saved(f, v, w) \subseteq Saved(f, v, x)
<1>0. v \in Nat /\ w \in Nat /\ x \in Nat
  BY TreeAssumption DEF Versions
<1>1. {Content[u] : u \in v .. w} \subseteq {Content[u] : u \in v .. x}
  BY <1>0
<1>2. Parts(v, w) \subseteq Parts(v, x)
  BY <1>1 DEF Parts
<1>3. Object(v) \in Parts(v, x)
  <2>1. v \in v .. x
    BY <1>0
  <2>2. Content[v] \in SUBSET UNION {Content[u] : u \in v .. x}
    BY <2>1
  <2> QED BY <2>2 DEF Object, Parts
<1>4. v # x
  BY <1>0
<1> QED BY <1>2, <1>3, <1>4 DEF Saved, Chunkified

\* What makes two entries one.
LEMMA EntryParts ==
    ASSUME NEW f \in Files, NEW v \in Versions, NEW o \in Objects \cup {NoObject}
    PROVE  /\ Entry(f, v, o) \in Entries
           /\ Entry(f, v, o).path = f /\ Entry(f, v, o).version = v /\ Entry(f, v, o).object = o
BY DEF Entry, Entries

LEMMA BInvInit == Init => BInv
<1> SUFFICES ASSUME Init PROVE BInv
  OBVIOUS
<1> USE DEF Init
<1>1. 1 \in Versions /\ source \in [Files -> Versions]
  BY TreeAssumption DEF Versions
<1>2. BTypeOK
  <2>1. "new" \in Phases /\ "pending" \in Places
    BY DEF Phases, Places
  <2>2. <<>> \in [{} -> Entries]
    OBVIOUS
  <2>3. [dirs |-> {}, files |-> <<>>] \in Scans
    BY <2>2 DEF Scans
  <2>4. cached \in Caches
    BY DEF Caches
  <2>5. recorded \in [Runs -> Scans]
    BY <2>3
  <2>6. /\ phase \in [Runs -> Phases] /\ at \in [Runs -> [Files -> Places]]
        /\ seen \in [Runs -> [Files -> Versions]]
    BY <1>1, <2>1
  <2>7. /\ object \in [Runs -> [Files -> Objects \cup {NoObject}]]
        /\ hit \in [Runs -> [Files -> SUBSET Entries]]
        /\ err \in [Runs -> BOOLEAN] /\ errors \in [Runs -> SUBSET Tree]
        /\ DOMAIN handed = Runs /\ DOMAIN snapshots = Runs
    OBVIOUS
  <2> QED BY <1>1, <2>4, <2>5, <2>6, <2>7 DEF BTypeOK
<1>3. Fresh
  <2>1. \A f \in Files : source[f] \in Int
    BY <1>1 DEF Versions
  <2> QED BY <2>1 DEF Fresh, Working
<1>4. CacheFits
  BY DEF CacheFits
<1>5. ASSUME NEW r \in Runs PROVE Untouched(r) /\ RecordsFit(r) /\ Accounted(r)
  BY DEF Untouched, RecordsFit, Accounted, Active, Working
<1>6. ASSUME NEW r \in Runs, NEW f \in Files PROVE ObjectFits(r, f) /\ ObjectHeld(r, f)
  <2>1. at[r][f] = "pending" /\ hit[r][f] = {}
    OBVIOUS
  <2> QED BY <2>1 DEF ObjectFits, ObjectHeld
<1>7. Committed /\ NoSilentLoss /\ Complete
  BY DEF Committed, NoSilentLoss, Complete
<1> QED BY <1>2, <1>3, <1>4, <1>5, <1>6, <1>7 DEF BInv

-----------------------------------------------------------------------------
\* Frames: what a step leaves as it is.

LEMMA SameTree ==
    ASSUME UNCHANGED kind
    PROVE  /\ Tree' = Tree /\ Dirs' = Dirs /\ Files' = Files
           /\ Entries' = Entries /\ Caches' = Caches /\ Scans' = Scans
           /\ \A f, v, w : Saved(f, v, w)' = Saved(f, v, w)
           /\ \A f, v, w : Chunkified(f, v, w)' = Chunkified(f, v, w)
           /\ \A f, v : RightObject(f, v)' = RightObject(f, v)
<1>1. Tree' = Tree /\ Dirs' = Dirs /\ Files' = Files
  BY DEF Tree, Dirs, Files
<1>2. Entries' = Entries
  BY <1>1 DEF Entries
<1>3. Caches' = Caches /\ Scans' = Scans
  BY <1>1, <1>2 DEF Caches, Scans
<1>4. \A f, v : RightObject(f, v)' = RightObject(f, v)
  BY DEF RightObject
<1>5. \A f, v, w : Chunkified(f, v, w)' = Chunkified(f, v, w)
  BY DEF Chunkified
<1>6. \A f, v, w : Saved(f, v, w)' = Saved(f, v, w)
  BY <1>5 DEF Saved
<1> QED BY <1>1, <1>2, <1>3, <1>4, <1>5, <1>6

\* What is said of a file goes on being so, when files change too.
LEMMA FitsLater ==
    ASSUME BTypeOK, UNCHANGED kind, Later, masked \subseteq masked',
           NEW g \in Files, NEW v \in Versions, v <= source[g]
    PROVE  /\ Saved(g, v, source[g]) \subseteq Saved(g, v, source[g])'
           /\ \A o : Fits(g, v, o) => Fits(g, v, o)'
<1>1. \A w : Saved(g, v, w)' = Saved(g, v, w)
  BY SameTree
<1>2. source[g] \in Versions
  BY DEF BTypeOK
<1>3. Saved(g, v, source[g]) \subseteq Saved(g, v, source'[g])
  <2>1. CASE source'[g] = source[g]
    BY <2>1
  <2>2. CASE source'[g] \in Versions /\ source[g] < source'[g]
    BY <1>2, <2>2, SavedGrows
  <2> QED BY <2>1, <2>2 DEF Later
<1>4. Saved(g, v, source[g])' = Saved(g, v, source'[g])
  BY <1>1
<1> QED BY <1>3, <1>4 DEF Fits

\* The types of what a goroutine changes.
LEMMA TypesStay ==
    ASSUME BTypeOK, UNCHANGED <<kind, source, seen, snapshots>>,
           cached' \in Caches, phase' \in [Runs -> Phases],
           at' \in [Runs -> [Files -> Places]],
           object' \in [Runs -> [Files -> Objects \cup {NoObject}]],
           hit' \in [Runs -> [Files -> SUBSET Entries]],
           err' \in [Runs -> BOOLEAN], recorded' \in [Runs -> Scans],
           errors' \in [Runs -> SUBSET Tree], DOMAIN handed' = Runs
    PROVE  BTypeOK'
BY SameTree DEF BTypeOK

\* An entry that is whole stays so where nothing is taken away.
LEMMA WholeStays ==
    ASSUME NEW e, NEW less, NEW more, less \subseteq more, Whole(e, less), blind \subseteq blind'
    PROVE  BlobsOf(e) \subseteq more \/ (e.object \in blind' /\ {e, e.object} \subseteq more)
BY DEF Whole

LEMMA ScanParts ==
    ASSUME BTypeOK, NEW r \in Runs
    PROVE  /\ recorded[r] \in Scans /\ recorded[r].dirs \subseteq Dirs
           /\ DOMAIN recorded[r].files \subseteq Files
           /\ \A f \in DOMAIN recorded[r].files : recorded[r].files[f] \in Entries
BY DEF BTypeOK, Scans

\* What is said of snapshots, where the repository and the exceptions grow.
LEMMA SnapshotsStay ==
    ASSUME BInv, UNCHANGED <<kind, snapshots>>, have \subseteq have', blind \subseteq blind',
           masked \subseteq masked', removed \subseteq removed'
    PROVE  Committed' /\ NoSilentLoss' /\ Complete'
<1>1. /\ Files' = Files /\ \A f, v : RightObject(f, v)' = RightObject(f, v)
      /\ \A f, v, w : Chunkified(f, v, w)' = Chunkified(f, v, w)
  BY SameTree
<1>2. Committed'
  BY <1>1 DEF BInv, Committed
<1>3. NoSilentLoss'
  BY <1>1 DEF BInv, NoSilentLoss
<1>4. Complete'
  <2> SUFFICES ASSUME NEW r \in Runs \ removed', NEW s \in snapshots[r], NEW e \in s.files,
                      e.path \notin masked'
               PROVE  \/ BlobsOf(e) \subseteq have'
                      \/ kind[e.path] = "xattr" /\ e \in have'
                      \/ e.object \in blind' /\ {e, e.object} \subseteq have'
    BY DEF Complete
  <2>1. \/ BlobsOf(e) \subseteq have
        \/ kind[e.path] = "xattr" /\ e \in have
        \/ e.object \in blind /\ {e, e.object} \subseteq have
    BY DEF BInv, Complete
  <2> QED BY <2>1
<1> QED BY <1>2, <1>3, <1>4

\* A step of one goroutine: the others' objects are their own, and err may only
\* be set to nil over a failure that is remembered.
LEMMA ScannerFrame ==
    ASSUME BInv, BTypeOK',
           NEW r \in Runs, NEW f \in Files,
           UNCHANGED <<kind, source, seen, phase, have, snapshots, removed>>,
           at[r][f] \notin {"pending", "end"},
           \A q \in Runs, g \in Files : q # r \/ g # f =>
               at'[q][g] = at[q][g] /\ object'[q][g] = object[q][g] /\ hit'[q][g] = hit[q][g],
           \A q \in Runs : /\ handed[q] \subseteq handed'[q] /\ errors[q] \subseteq errors'[q]
                           /\ q # r => err'[q] = err[q] /\ recorded'[q] = recorded[q],
           err'[r] = err[r] \/ err'[r] = TRUE \/ Overwritten(r) \subseteq masked',
           masked \subseteq masked', blind \subseteq blind',
           cached.objects \subseteq cached'.objects,
           CacheFits', ObjectFits(r, f)', ObjectHeld(r, f)',
           \/ recorded'[r] = recorded[r]
           \/ \E e : /\ recorded'[r].dirs = recorded[r].dirs
                     /\ recorded'[r].files = With(recorded[r].files, f, e)
                     /\ RecordFits(r, f, e)',
           at'[r][f] = "end" /\ r \in Active => f \in DOMAIN recorded'[r].files \/ f \in errors'[r]
    PROVE  BInv'
<1>1. /\ Files' = Files /\ Dirs' = Dirs /\ Active' = Active
      /\ \A g, v, w : Saved(g, v, w)' = Saved(g, v, w)
  BY SameTree DEF Active
<1>2. \A q \in Runs : Held(q) \subseteq Held(q)' /\ Working(q)' = Working(q)
  BY DEF Held, Working
<1>3. phase[r] \notin {"new", "import", "index"}
  <2>1. at[r][f] # "pending" /\ at[r][f] # "end"
    OBVIOUS
  <2> QED BY <2>1 DEF BInv, Untouched, Accounted, Working
<1>4. Fresh'
  BY <1>1 DEF BInv, Fresh, Working
<1>5. ASSUME NEW q \in Runs PROVE Untouched(q)'
  <2>1. CASE q = r
    BY <1>3, <2>1 DEF Untouched
  <2>2. CASE q # r
    BY <1>1, <2>2 DEF BInv, Untouched
  <2> QED BY <2>1, <2>2
<1>6. ASSUME NEW q \in Runs PROVE RecordsFit(q)'
  <2>1. ASSUME NEW g \in Files, NEW e, RecordFits(q, g, e) PROVE RecordFits(q, g, e)'
    <3>1. kind[g] = "xattr" \/ g \in masked \/ Whole(e, Held(q))
      BY <2>1 DEF RecordFits
    <3>2. kind[g] = "xattr" \/ g \in masked' \/ BlobsOf(e) \subseteq Held(q)'
            \/ (e.object \in blind' /\ {e, e.object} \subseteq Held(q)')
      BY <1>2, <3>1, WholeStays
    <3>3. kind[g] = "xattr" \/ g \in masked' \/ Whole(e, Held(q))'
      BY <3>2 DEF Whole
    <3> QED BY <1>1, <2>1, <3>3 DEF RecordFits
  <2> SUFFICES ASSUME q \in Active, NEW g \in DOMAIN recorded'[q].files
               PROVE  RecordFits(q, g, recorded[q].files[g])'
    BY <1>1 DEF RecordsFit
  <2>2. \A h \in DOMAIN recorded[q].files : h \in Files
    BY ScanParts DEF BInv
  <2>3. \A h \in DOMAIN recorded[q].files : RecordFits(q, h, recorded[q].files[h])
    BY DEF BInv, RecordsFit
  <2>4. CASE recorded'[q] = recorded[q]
    <3> DEFINE e == recorded[q].files[g]
    <3>1. g \in Files /\ RecordFits(q, g, e)
      BY <2>2, <2>3, <2>4
    <3> QED BY <2>1, <2>4, <3>1
  <2>5. CASE q = r /\ \E e : /\ recorded'[r].files = With(recorded[r].files, f, e)
                             /\ RecordFits(r, f, e)'
    <3>1. PICK e : recorded'[r].files = With(recorded[r].files, f, e) /\ RecordFits(r, f, e)'
      BY <2>5
    <3>2. CASE g = f
      <4>1. recorded'[r].files[g] = e
        BY <3>1, <3>2 DEF With
      <4> QED BY <2>5, <3>1, <3>2, <4>1
    <3>3. CASE g # f
      <4>1. g \in DOMAIN recorded[r].files /\ recorded'[r].files[g] = recorded[r].files[g]
        BY <2>5, <3>1, <3>3 DEF With
      <4> QED BY <2>1, <2>2, <2>3, <2>5, <4>1
    <3> QED BY <3>2, <3>3
  <2> QED BY <2>4, <2>5
<1>7. ASSUME NEW q \in Runs PROVE Accounted(q)'
  <2> SUFFICES ASSUME Working(q)
               PROVE  /\ \A g \in Files : at'[q][g] = "end" => \/ g \in DOMAIN recorded'[q].files
                                                              \/ g \in errors'[q] \/ Root \in errors'[q]
                      /\ Dirs \ recorded'[q].dirs \subseteq errors'[q]
                      /\ phase[q] = "index" => \A g \in Files : at'[q][g] = "end"
    BY <1>1, <1>2 DEF Accounted
  <2>1. /\ DOMAIN recorded[q].files \subseteq DOMAIN recorded'[q].files
        /\ recorded'[q].dirs = recorded[q].dirs
    BY DEF With
  <2>2. phase[q] = "index" => q # r
    BY <1>3
  <2>3. q \in Active
    BY DEF Working, Active
  <2> QED BY <2>1, <2>2, <2>3 DEF BInv, Accounted
<1>8. ASSUME NEW q \in Runs, NEW g \in Files PROVE ObjectFits(q, g)'
  <2>1. CASE q = r /\ g = f
    BY <2>1
  <2>2. CASE q # r \/ g # f
    <3>1. ObjectFits(q, g)
      BY DEF BInv
    <3>2. at[q][g] = "serialize" /\ object[q][g] = NoObject => err'[q] \/ g \in masked'
      <4>1. at[q][g] = "serialize" /\ object[q][g] = NoObject => g \in Overwritten(q)
        BY DEF Overwritten
      <4> QED BY <3>1, <4>1 DEF ObjectFits
    <3>3. \A e \in hit[q][g] : e.path = g /\ e.version = seen[q][g] /\ Fits(g, seen[q][g], e.object)'
      BY <1>1, <3>1 DEF ObjectFits, Fits
    <3> QED BY <1>1, <2>2, <3>1, <3>2, <3>3 DEF ObjectFits
  <2> QED BY <2>1, <2>2
<1>9. ASSUME NEW q \in Runs, NEW g \in Files PROVE ObjectHeld(q, g)'
  <2>1. CASE q = r /\ g = f
    BY <2>1
  <2>2. CASE q # r \/ g # f
    <3>1. ObjectHeld(q, g)
      BY DEF BInv
    <3> QED BY <1>1, <1>2, <2>2, <3>1 DEF ObjectHeld
  <2> QED BY <2>1, <2>2
<1>10. Committed' /\ NoSilentLoss' /\ Complete'
  BY SnapshotsStay
<1> QED BY <1>1, <1>4, <1>5, <1>6, <1>7, <1>8, <1>9, <1>10 DEF BInv

-----------------------------------------------------------------------------
\* The goroutine of a file.

LEMMA Update ==
    ASSUME NEW S, NEW fn \in [Runs -> [Files -> S]], NEW r \in Runs, NEW f \in Files, NEW p \in S,
           NEW new, new = [fn EXCEPT ![r][f] = p]
    PROVE  /\ new \in [Runs -> [Files -> S]] /\ new[r][f] = p
           /\ \A q \in Runs, g \in Files : q # r \/ g # f => new[q][g] = fn[q][g]
OBVIOUS

LEMMA GoStep ==
    ASSUME BTypeOK, NEW r \in Runs, NEW f \in Files, NEW from, NEW to \in Places, Go(r, f, from, to)
    PROVE  /\ at[r][f] = from /\ at' \in [Runs -> [Files -> Places]] /\ at'[r][f] = to
           /\ \A q \in Runs, g \in Files : q # r \/ g # f => at'[q][g] = at[q][g]
<1>1. at \in [Runs -> [Files -> Places]] /\ at' = [at EXCEPT ![r][f] = to] /\ at[r][f] = from
  BY DEF Go, BTypeOK
<1> QED BY <1>1, Update

LEMMA ReturnStep ==
    ASSUME BTypeOK, NEW r \in Runs, NEW f \in Files, NEW from, Return(r, f, from)
    PROVE  /\ at[r][f] = from
           /\ at' \in [Runs -> [Files -> Places]]
           /\ object' \in [Runs -> [Files -> Objects \cup {NoObject}]]
           /\ hit' \in [Runs -> [Files -> SUBSET Entries]]
           /\ at'[r][f] = "end" /\ object'[r][f] = NoObject /\ hit'[r][f] = {}
           /\ \A q \in Runs, g \in Files : q # r \/ g # f =>
                at'[q][g] = at[q][g] /\ object'[q][g] = object[q][g] /\ hit'[q][g] = hit[q][g]
<1>1. "end" \in Places /\ NoObject \in Objects \cup {NoObject} /\ {} \in SUBSET Entries
  BY DEF Places
<1>2. /\ Go(r, f, from, "end")
      /\ object' = [object EXCEPT ![r][f] = NoObject] /\ hit' = [hit EXCEPT ![r][f] = {}]
  BY DEF Return
<1>3. /\ object \in [Runs -> [Files -> Objects \cup {NoObject}]]
      /\ hit \in [Runs -> [Files -> SUBSET Entries]]
  BY DEF BTypeOK
<1>4. /\ at[r][f] = from /\ at' \in [Runs -> [Files -> Places]] /\ at'[r][f] = "end"
      /\ \A q \in Runs, g \in Files : q # r \/ g # f => at'[q][g] = at[q][g]
  BY <1>1, <1>2, GoStep
<1>5. /\ object' \in [Runs -> [Files -> Objects \cup {NoObject}]] /\ object'[r][f] = NoObject
      /\ \A q \in Runs, g \in Files : q # r \/ g # f => object'[q][g] = object[q][g]
  BY <1>1, <1>2, <1>3, Update
<1>6. /\ hit' \in [Runs -> [Files -> SUBSET Entries]] /\ hit'[r][f] = {}
      /\ \A q \in Runs, g \in Files : q # r \/ g # f => hit'[q][g] = hit[q][g]
  BY <1>1, <1>2, <1>3, Update
<1> QED BY <1>4, <1>5, <1>6

LEMMA PutStep ==
    ASSUME BTypeOK, NEW r \in Runs, NEW blobs, Put(r, blobs), UNCHANGED have
    PROVE  /\ DOMAIN handed' = Runs /\ \A q \in Runs : handed[q] \subseteq handed'[q]
           /\ Held(r)' = Held(r) \cup blobs
BY DEF BTypeOK, Put, Held

LEMMA CacheStays ==
    ASSUME BInv, UNCHANGED <<kind, source, cached>>, masked \subseteq masked'
    PROVE  CacheFits'
BY SameTree DEF BInv, CacheFits, Fits

\* One that has returned has nothing at hand.
LEMMA Returned ==
    ASSUME NEW r, NEW f, at'[r][f] = "end", hit'[r][f] = {}
    PROVE  ObjectFits(r, f)' /\ ObjectHeld(r, f)'
BY DEF ObjectFits, ObjectHeld

LEMMA FailStep ==
    ASSUME BInv, NEW r \in Runs, NEW f \in Files, NEW from, from \notin {"pending", "end"},
           Fail(r, f, from),
           UNCHANGED <<kind, source, cached, phase, seen, err, handed, recorded, repoVars, masked, blind>>
    PROVE  BInv'
<1> USE DEF repoVars
<1>1. BTypeOK
  BY DEF BInv
<1>2. /\ at[r][f] = from /\ at'[r][f] = "end" /\ hit'[r][f] = {}
      /\ at' \in [Runs -> [Files -> Places]]
      /\ object' \in [Runs -> [Files -> Objects \cup {NoObject}]]
      /\ hit' \in [Runs -> [Files -> SUBSET Entries]]
      /\ \A q \in Runs, g \in Files : q # r \/ g # f =>
           at'[q][g] = at[q][g] /\ object'[q][g] = object[q][g] /\ hit'[q][g] = hit[q][g]
  BY <1>1, ReturnStep DEF Fail
<1>3. /\ errors' \in [Runs -> SUBSET Tree] /\ \A q \in Runs : errors[q] \subseteq errors'[q]
      /\ r \in Active => f \in errors'[r]
  <2>1. errors' = IF r \in Active THEN [errors EXCEPT ![r] = @ \cup {f}] ELSE errors
    BY DEF Fail
  <2>2. f \in Tree /\ errors \in [Runs -> SUBSET Tree]
    BY <1>1 DEF BTypeOK, Files
  <2> QED BY <2>1, <2>2
<1>4. BTypeOK'
  BY <1>1, <1>2, <1>3, TypesStay DEF BTypeOK
<1>5. CacheFits' /\ ObjectFits(r, f)' /\ ObjectHeld(r, f)'
  BY <1>2, CacheStays, Returned
<1> QED BY <1>2, <1>3, <1>4, <1>5, ScannerFrame

LEMMA LookupStep ==
    ASSUME BInv, NEW r \in Runs, NEW f \in Files, Lookup(r, f)
    PROVE  BInv'
<1> DEFINE found == IF kind[f] = "xattr" THEN {} ELSE {e \in cached.entry[f] : Same(r, f, e)}
           objs == {e.object : e \in found} \cap cached.objects
           o == IF objs # {} THEN CHOOSE x \in objs : TRUE ELSE NoObject
           p == IF objs # {} THEN "cached" ELSE IF kind[f] = "special" THEN "entry" ELSE "read"
<1> USE DEF repoVars
<1>1. BTypeOK /\ kind[f] \in {"regular", "special", "xattr"}
  BY FileKinds DEF BInv, BTypeOK
<1>2. /\ phase[r] = "scan" /\ at[r][f] = "queued"
      /\ hit' = [hit EXCEPT ![r][f] = found] /\ object' = [object EXCEPT ![r][f] = o]
      /\ at' = [at EXCEPT ![r][f] = p]
      /\ UNCHANGED <<kind, source, cached, phase, seen, err, handed, recorded, errors, have, snapshots,
                     removed, masked, blind>>
  BY DEF Lookup
<1>3. seen[r][f] \in Versions /\ source[f] \in Versions
  BY <1>1 DEF BTypeOK
<1>4. cached.entry[f] \subseteq Entries /\ cached.objects \subseteq Objects
  BY <1>1 DEF BTypeOK, Caches
<1>5. found \in SUBSET Entries
  BY <1>4
<1>6. \A e \in found : /\ e.path = f /\ e.version = seen[r][f] /\ Fits(f, seen[r][f], e.object)
                       /\ e.object \in cached.objects \cup {NoObject}
                       /\ \A x \in found : x = e
  BY DEF BInv, CacheFits, Same
<1>7. /\ o \in Objects \cup {NoObject} /\ p \in Places /\ o \in cached.objects \cup {NoObject}
      /\ p = "cached" => o # NoObject /\ \E e \in found : o = e.object
      /\ p = "cached" => \A e \in found : e.object = o
      /\ p # "cached" => \A e \in found : e.object = NoObject
      /\ p = "cached" => kind[f] # "xattr"
      /\ p # "cached" => o = NoObject
      /\ p \in {"cached", "read", "entry"}
      /\ p = "entry" => kind[f] = "special"
      /\ p = "read" => kind[f] # "special"
  <2>1. CASE objs # {}
    <3>1. o \in objs
      BY <2>1
    <3>2. o \in Objects /\ \E e \in found : o = e.object
      BY <1>4, <3>1
    <3>3. o # NoObject
      BY <3>2, ObjectAssumption
    <3>4. o \in cached.objects /\ \A e \in found : e.object = o
      BY <1>6, <3>1
    <3> QED BY <2>1, <3>2, <3>3, <3>4 DEF Places
  <2>2. CASE objs = {}
    <3>1. \A e \in found : e.object = NoObject
      BY <1>6, <2>2
    <3> QED BY <2>2, <3>1 DEF Places
  <2> QED BY <2>1, <2>2
<1>8. p = "cached" => o \in Saved(f, seen[r][f], source[f]) /\ kind[f] = "regular"
  <2> SUFFICES ASSUME p = "cached" PROVE o \in Saved(f, seen[r][f], source[f]) /\ kind[f] = "regular"
    OBVIOUS
  <2>1. o # NoObject /\ Fits(f, seen[r][f], o)
    BY <1>6, <1>7
  <2>2. o \in Saved(f, seen[r][f], source[f])
    BY <2>1 DEF Fits
  <2>4. kind[f] # "special"
    BY <1>1, <1>3, <2>1, <2>2, SavedObjects DEF BTypeOK
  <2> QED BY <1>1, <1>7, <2>2, <2>4
<1> HIDE DEF found, objs, o, p
<1>9. /\ at' \in [Runs -> [Files -> Places]] /\ at'[r][f] = p
      /\ \A q \in Runs, g \in Files : q # r \/ g # f => at'[q][g] = at[q][g]
  BY <1>1, <1>2, <1>7, Update DEF BTypeOK
<1>10. /\ object' \in [Runs -> [Files -> Objects \cup {NoObject}]] /\ object'[r][f] = o
       /\ \A q \in Runs, g \in Files : q # r \/ g # f => object'[q][g] = object[q][g]
  BY <1>1, <1>2, <1>7, Update DEF BTypeOK
<1>11. /\ hit' \in [Runs -> [Files -> SUBSET Entries]] /\ hit'[r][f] = found
       /\ \A q \in Runs, g \in Files : q # r \/ g # f => hit'[q][g] = hit[q][g]
  BY <1>1, <1>2, <1>5, Update DEF BTypeOK
<1>12. BTypeOK'
  BY <1>1, <1>2, <1>9, <1>10, <1>11, TypesStay DEF BTypeOK
<1>13. CacheFits'
  BY <1>2, CacheStays
<1>14. ObjectFits(r, f)'
  <2>1. \A v, w : Saved(f, v, w)' = Saved(f, v, w)
    BY <1>2, SameTree
  <2>2. \A e \in found : e.path = f /\ e.version = seen[r][f] /\ Fits(f, seen[r][f], e.object)'
    BY <1>2, <1>6, <2>1 DEF Fits
  <2> QED BY <1>2, <1>7, <1>8, <1>9, <1>10, <1>11, <2>1, <2>2 DEF ObjectFits
<1>15. ObjectHeld(r, f)'
  BY <1>7, <1>9, <1>10, <1>11 DEF ObjectHeld
<1> QED BY <1>2, <1>7, <1>9, <1>10, <1>11, <1>12, <1>13, <1>14, <1>15, ScannerFrame

LEMMA PutCachedStep ==
    ASSUME BInv, NEW r \in Runs, NEW f \in Files, PutCached(r, f)
    PROVE  BInv'
<1> USE DEF repoVars
<1>1. BTypeOK /\ "test" \in Places
  BY DEF BInv, Places
<1>2. /\ Go(r, f, "cached", "test") /\ Put(r, {object[r][f]})
      /\ err' = [err EXCEPT ![r] = FALSE] /\ masked' = masked \cup Overwritten(r)
      /\ UNCHANGED <<kind, source, cached, phase, seen, object, hit, recorded, errors, have, snapshots,
                     removed, blind>>
  BY DEF PutCached
<1>3. /\ at[r][f] = "cached" /\ at' \in [Runs -> [Files -> Places]] /\ at'[r][f] = "test"
      /\ \A q \in Runs, g \in Files : q # r \/ g # f => at'[q][g] = at[q][g]
  BY <1>1, <1>2, GoStep
<1>4. /\ DOMAIN handed' = Runs /\ \A q \in Runs : handed[q] \subseteq handed'[q]
      /\ object[r][f] \in Held(r)'
  BY <1>1, <1>2, PutStep
<1>5. err' \in [Runs -> BOOLEAN] /\ \A q \in Runs : q # r => err'[q] = err[q]
  BY <1>1, <1>2 DEF BTypeOK
<1>6. BTypeOK'
  BY <1>1, <1>2, <1>3, <1>4, <1>5, TypesStay DEF BTypeOK
<1>7. CacheFits'
  BY <1>2, CacheStays
<1>8. ObjectFits(r, f)'
  <2>1. ObjectFits(r, f)
    BY DEF BInv
  <2>2. \A v, w : Saved(f, v, w)' = Saved(f, v, w)
    BY <1>2, SameTree
  <2>3. \A e, v : Fits(f, v, e.object) => Fits(f, v, e.object)'
    BY <1>2, <2>2 DEF Fits
  <2> QED BY <1>2, <1>3, <2>1, <2>2, <2>3 DEF ObjectFits
<1>9. ObjectHeld(r, f)'
  BY <1>2, <1>3, <1>4 DEF ObjectHeld
<1>10. masked \subseteq masked' /\ Overwritten(r) \subseteq masked' /\ blind \subseteq blind'
  BY <1>2
<1>11. /\ UNCHANGED <<kind, source, seen, phase, have, snapshots, removed, object, hit, recorded, errors>>
       /\ at[r][f] \notin {"pending", "end"} /\ at'[r][f] # "end" /\ cached.objects \subseteq cached'.objects
  BY <1>2, <1>3
<1> QED BY <1>3, <1>4, <1>5, <1>6, <1>7, <1>8, <1>9, <1>10, <1>11, ScannerFrame

LEMMA TestCachedStep ==
    ASSUME BInv, NEW r \in Runs, NEW f \in Files, TestCached(r, f)
    PROVE  BInv'
<1> USE DEF repoVars
<1> DEFINE o == object[r][f]
<1>1. BTypeOK
  BY DEF BInv
<1>2. UNCHANGED <<kind, source, cached, phase, seen, err, handed, recorded, have, snapshots, removed, masked>>
  BY DEF TestCached
<1>3. CASE Fail(r, f, "test") /\ UNCHANGED blind
  BY <1>2, <1>3, FailStep
<1>4. ASSUME NEW known \in Knows(r, o),
             Go(r, f, "test", IF known THEN "entry" ELSE "read"),
             blind' = IF known THEN Blind(r, o) ELSE blind,
             UNCHANGED <<errors, object, hit>>
      PROVE  BInv'
  <2> DEFINE p == IF known THEN "entry" ELSE "read"
  <2>1. p \in Places
    BY DEF Places
  <2>2. /\ at[r][f] = "test" /\ at' \in [Runs -> [Files -> Places]] /\ at'[r][f] = p
        /\ \A q \in Runs, g \in Files : q # r \/ g # f => at'[q][g] = at[q][g]
    BY <1>1, <1>4, <2>1, GoStep
  <2>3. BTypeOK'
    BY <1>1, <1>2, <1>4, <2>2, TypesStay DEF BTypeOK
  <2>4. CacheFits'
    BY <1>2, CacheStays
  <2>5. ObjectFits(r, f) /\ ObjectHeld(r, f)
    BY DEF BInv
  <2>6. kind[f] = "regular" /\ o # NoObject
    BY <2>2, <2>5 DEF ObjectFits
  <2>7. ObjectFits(r, f)'
    <3>1. \A v, w : Saved(f, v, w)' = Saved(f, v, w)
      BY <1>2, SameTree
    <3>2. \A e, v : Fits(f, v, e.object) => Fits(f, v, e.object)'
      BY <1>2, <3>1 DEF Fits
    <3>3. p \in {"entry", "read"}
      OBVIOUS
    <3> QED BY <1>2, <1>4, <2>2, <2>5, <2>6, <3>1, <3>2, <3>3 DEF ObjectFits
  <2>8. ObjectHeld(r, f)'
    <3>1. Active' = Active /\ Held(r)' = Held(r)
      BY <1>2 DEF Active, Held
    <3>2. p = "entry" => ChunksOf(o) \subseteq Held(r) \/ o \in blind'
      BY <1>4 DEF Held, Blind
    <3>3. r \in Active => o \in Held(r) /\ \A e \in hit[r][f] : e.object = o
      BY <2>2, <2>5 DEF ObjectHeld, ObjectFits
    <3> QED BY <1>4, <2>2, <3>1, <3>2, <3>3 DEF ObjectHeld
  <2>9. /\ blind \subseteq blind' /\ at[r][f] \notin {"pending", "end"} /\ at'[r][f] # "end"
    BY <1>4, <2>2 DEF Blind
  <2> QED BY <1>2, <1>4, <2>2, <2>3, <2>4, <2>7, <2>8, <2>9, ScannerFrame
<1> QED BY <1>3, <1>4 DEF TestCached

\* The same, for a step after which the goroutine goes on and nothing is recorded.
LEMMA GoesOn ==
    ASSUME BInv, BTypeOK',
           NEW r \in Runs, NEW f \in Files,
           UNCHANGED <<kind, source, seen, phase, have, snapshots, removed, recorded, errors>>,
           at[r][f] \notin {"pending", "end"}, at'[r][f] # "end",
           \A q \in Runs, g \in Files : q # r \/ g # f =>
               at'[q][g] = at[q][g] /\ object'[q][g] = object[q][g] /\ hit'[q][g] = hit[q][g],
           \A q \in Runs : handed[q] \subseteq handed'[q],
           \A q \in Runs : q # r => err'[q] = err[q],
           err'[r] = err[r] \/ err'[r] = TRUE \/ Overwritten(r) \subseteq masked',
           masked \subseteq masked', blind \subseteq blind', cached.objects \subseteq cached'.objects,
           CacheFits', ObjectFits(r, f)', ObjectHeld(r, f)'
    PROVE  BInv'
BY ScannerFrame

LEMMA ReadStep ==
    ASSUME BInv, NEW r \in Runs, NEW f \in Files, Read(r, f)
    PROVE  BInv'
<1> USE DEF repoVars
<1>1. BTypeOK /\ "serialize" \in Places
  BY DEF BInv, Places
<1>2. /\ Go(r, f, "read", "serialize")
      /\ UNCHANGED <<kind, source, cached, phase, seen, hit, recorded, errors, have, snapshots, removed, blind>>
  BY DEF Read
<1>3. /\ at[r][f] = "read" /\ at' \in [Runs -> [Files -> Places]] /\ at'[r][f] = "serialize"
      /\ \A q \in Runs, g \in Files : q # r \/ g # f => at'[q][g] = at[q][g]
  BY <1>1, <1>2, GoStep
<1>4. ObjectFits(r, f) /\ ObjectHeld(r, f) /\ kind[f] # "special"
  BY <1>3 DEF BInv, ObjectFits
<1>5. ASSUME NEW o \in Objects \cup {NoObject}, object' = [object EXCEPT ![r][f] = o],
             err' \in [Runs -> BOOLEAN], \A q \in Runs : q # r => err'[q] = err[q],
             DOMAIN handed' = Runs, \A q \in Runs : handed[q] \subseteq handed'[q],
             masked \subseteq masked', err'[r] = TRUE \/ Overwritten(r) \subseteq masked',
             o = NoObject => err'[r] = TRUE,
             o # NoObject => o \in Saved(f, seen[r][f], source[f]) /\ ChunksOf(o) \subseteq Held(r)'
      PROVE  BInv'
  <2>1. /\ object' \in [Runs -> [Files -> Objects \cup {NoObject}]] /\ object'[r][f] = o
        /\ \A q \in Runs, g \in Files : q # r \/ g # f => object'[q][g] = object[q][g]
    BY <1>1, <1>5, Update DEF BTypeOK
  <2>3. BTypeOK'
    BY <1>1, <1>2, <1>3, <1>5, <2>1, TypesStay DEF BTypeOK
  <2>4. CacheFits'
    BY <1>2, <1>5, CacheStays
  <2>5. ObjectFits(r, f)'
    <3>1. \A v, w : Saved(f, v, w)' = Saved(f, v, w)
      BY <1>2, SameTree
    <3>2. \A e, v : Fits(f, v, e.object) => Fits(f, v, e.object)'
      BY <1>2, <1>5, <3>1 DEF Fits
    <3>3. \A e \in hit'[r][f] : /\ e.path = f /\ e.version = seen'[r][f]
                                /\ Fits(f, seen[r][f], e.object)'
      BY <1>2, <1>4, <3>2 DEF ObjectFits
    <3>4. o # NoObject => o \in Saved(f, seen[r][f], source[f])'
      BY <1>2, <1>5, <3>1
    <3>5. o = NoObject => err'[r]
      BY <1>5
    <3>6. kind'[f] # "special"
      BY <1>2, <1>4
    <3> QED BY <1>3, <2>1, <3>3, <3>4, <3>5, <3>6 DEF ObjectFits
  <2>6. ObjectHeld(r, f)'
    <3>1. Active' = Active /\ Held(r) \subseteq Held(r)'
      BY <1>2, <1>5 DEF Active, Held
    <3>2. r \in Active => \A e \in hit[r][f] : e.object = NoObject \/ e.object \in Held(r)
      BY <1>3, <1>4 DEF ObjectHeld
    <3> QED BY <1>2, <1>3, <1>5, <2>1, <3>1, <3>2 DEF ObjectHeld
  <2>8. UNCHANGED <<kind, source, seen, phase, have, snapshots, removed>>
    BY <1>2
  <2>9. UNCHANGED <<recorded, errors>>
    BY <1>2
  <2>10. /\ at[r][f] \notin {"pending", "end"} /\ at'[r][f] # "end" /\ blind \subseteq blind'
         /\ cached.objects \subseteq cached'.objects
    BY <1>2, <1>3
  <2>11. \A q \in Runs, g \in Files : q # r \/ g # f =>
           at'[q][g] = at[q][g] /\ object'[q][g] = object[q][g] /\ hit'[q][g] = hit[q][g]
    BY <1>2, <1>3, <2>1
  <2>12. /\ \A q \in Runs : handed[q] \subseteq handed'[q]
         /\ \A q \in Runs : q # r => err'[q] = err[q]
         /\ err'[r] = err[r] \/ err'[r] = TRUE \/ Overwritten(r) \subseteq masked'
         /\ masked \subseteq masked'
    BY <1>5
  <2> QED BY <2>3, <2>4, <2>5, <2>6, <2>8, <2>9, <2>10, <2>11, <2>12, GoesOn
<1>6. ASSUME NEW o \in Chunkified(f, seen[r][f], source[f]),
             object' = [object EXCEPT ![r][f] = o], Put(r, ChunksOf(o)),
             err' = [err EXCEPT ![r] = FALSE], masked' = masked \cup Overwritten(r)
      PROVE  BInv'
  <2>0. o \in Saved(f, seen[r][f], source[f])
    BY <1>4 DEF Saved
  <2>1. o \in Objects \cup {NoObject} /\ o # NoObject
    BY <1>1, <1>4, <2>0, SavedObjects DEF BTypeOK
  <2>2. /\ DOMAIN handed' = Runs /\ \A q \in Runs : handed[q] \subseteq handed'[q]
        /\ ChunksOf(o) \subseteq Held(r)'
    BY <1>1, <1>2, <1>6, PutStep
  <2>3. object' = [object EXCEPT ![r][f] = o]
    BY <1>6
  <2>4. masked \subseteq masked' /\ Overwritten(r) \subseteq masked'
    BY <1>6
  <2>5. err' \in [Runs -> BOOLEAN] /\ \A q \in Runs : q # r => err'[q] = err[q]
    BY <1>1, <1>6 DEF BTypeOK
  <2> QED BY <1>5, <2>0, <2>1, <2>2, <2>3, <2>4, <2>5
<1>7. CASE /\ object' = [object EXCEPT ![r][f] = NoObject]
           /\ err' = [err EXCEPT ![r] = TRUE]
           /\ UNCHANGED <<handed, masked>>
  <2>1. err' \in [Runs -> BOOLEAN] /\ err'[r] = TRUE /\ \A q \in Runs : q # r => err'[q] = err[q]
    BY <1>1, <1>7 DEF BTypeOK
  <2>2. DOMAIN handed' = Runs /\ \A q \in Runs : handed[q] \subseteq handed'[q]
    BY <1>1, <1>7 DEF BTypeOK
  <2> QED BY <1>5, <1>7, <2>1, <2>2
<1> QED BY <1>6, <1>7 DEF Read

LEMMA RecordStep ==
    ASSUME BTypeOK, NEW r \in Runs, NEW f \in Files, NEW e \in Entries, recorded' = Record(r, f, e)
    PROVE  /\ recorded' \in [Runs -> Scans] /\ \A q \in Runs : q # r => recorded'[q] = recorded[q]
           /\ r \in Active => /\ recorded'[r].dirs = recorded[r].dirs
                              /\ recorded'[r].files = With(recorded[r].files, f, e)
                              /\ f \in DOMAIN recorded'[r].files
           /\ r \notin Active => recorded'[r] = recorded[r]
<1>1. recorded \in [Runs -> Scans] /\ recorded[r] \in Scans
  BY DEF BTypeOK
<1>2. CASE r \notin Active
  BY <1>1, <1>2 DEF Record
<1>3. CASE r \in Active
  <2> DEFINE files == With(recorded[r].files, f, e)
             S == DOMAIN recorded[r].files
  <2>1. recorded' = [recorded EXCEPT ![r].files = files]
    BY <1>3 DEF Record
  <2>2. S \subseteq Files /\ recorded[r].dirs \in SUBSET Dirs
        /\ \A g \in S : recorded[r].files[g] \in Entries
    BY ScanParts
  <2>3. files \in [S \cup {f} -> Entries]
    BY <2>2 DEF With
  <2>4. files \in UNION {[T -> Entries] : T \in SUBSET Files}
    BY <2>2, <2>3
  <2>5. f \in DOMAIN files
    BY <2>3
  <2> HIDE DEF files, S
  <2>6. [recorded[r] EXCEPT !.files = files] \in Scans
    BY <1>1, <2>2, <2>4 DEF Scans
  <2>7. /\ recorded'[r] = [recorded[r] EXCEPT !.files = files]
        /\ recorded' \in [Runs -> Scans] /\ \A q \in Runs : q # r => recorded'[q] = recorded[q]
    BY <1>1, <2>1, <2>6
  <2>8. recorded'[r].dirs = recorded[r].dirs /\ recorded'[r].files = files
    BY <1>1, <2>7 DEF Scans
  <2> QED BY <1>3, <2>5, <2>7, <2>8 DEF files
<1> QED BY <1>2, <1>3

\* A goroutine that records an entry and returns.
LEMMA ReturnsWith ==
    ASSUME BInv, NEW r \in Runs, NEW f \in Files, NEW e \in Entries, NEW from,
           from \notin {"pending", "end"}, Return(r, f, from), recorded' = Record(r, f, e),
           UNCHANGED <<kind, source, phase, seen, err, errors, repoVars, masked>>, blind \subseteq blind',
           cached' \in Caches, cached.objects \subseteq cached'.objects, CacheFits',
           DOMAIN handed' = Runs, \A q \in Runs : handed[q] \subseteq handed'[q],
           r \in Active => RecordFits(r, f, e)'
    PROVE  BInv'
<1> USE DEF repoVars
<1>1. BTypeOK
  BY DEF BInv
<1>2. /\ at[r][f] = from /\ at'[r][f] = "end" /\ hit'[r][f] = {}
      /\ at' \in [Runs -> [Files -> Places]]
      /\ object' \in [Runs -> [Files -> Objects \cup {NoObject}]]
      /\ hit' \in [Runs -> [Files -> SUBSET Entries]]
      /\ \A q \in Runs, g \in Files : q # r \/ g # f =>
           at'[q][g] = at[q][g] /\ object'[q][g] = object[q][g] /\ hit'[q][g] = hit[q][g]
  BY <1>1, ReturnStep
<1>3. /\ recorded' \in [Runs -> Scans] /\ \A q \in Runs : q # r => recorded'[q] = recorded[q]
      /\ r \in Active => /\ recorded'[r].dirs = recorded[r].dirs
                         /\ recorded'[r].files = With(recorded[r].files, f, e)
                         /\ f \in DOMAIN recorded'[r].files
      /\ r \notin Active => recorded'[r] = recorded[r]
  BY <1>1, RecordStep
<1>4. BTypeOK'
  BY <1>1, <1>2, <1>3, TypesStay DEF BTypeOK
<1>5. ObjectFits(r, f)' /\ ObjectHeld(r, f)'
  BY <1>2, Returned
<1>6. \/ recorded'[r] = recorded[r]
      \/ \E x : /\ recorded'[r].dirs = recorded[r].dirs
                /\ recorded'[r].files = With(recorded[r].files, f, x)
                /\ RecordFits(r, f, x)'
  BY <1>3
<1>7. at'[r][f] = "end" /\ r \in Active => f \in DOMAIN recorded'[r].files \/ f \in errors'[r]
  BY <1>3
<1>8. \A q \in Runs : /\ handed[q] \subseteq handed'[q] /\ errors[q] \subseteq errors'[q]
                      /\ q # r => err'[q] = err[q] /\ recorded'[q] = recorded[q]
  BY <1>3
<1> QED BY <1>2, <1>4, <1>5, <1>6, <1>7, <1>8, ScannerFrame

\* A nil pointer ends the process: nothing of it is active any more.
LEMMA CrashStep ==
    ASSUME BInv, NEW r \in Runs, NEW f \in Files, at[r][f] = "serialize",
           at' = [at EXCEPT ![r] = [g \in Files |-> "end"]],
           phase' = [phase EXCEPT ![r] = "failed"],
           UNCHANGED <<kind, source, cached, seen, object, hit, err, handed, recorded, errors, repoVars,
                       masked, blind>>
    PROVE  BInv'
<1> USE DEF repoVars
<1>1. BTypeOK
  BY DEF BInv
<1>2. /\ at' \in [Runs -> [Files -> Places]] /\ phase' \in [Runs -> Phases]
      /\ \A q \in Runs : q # r => at'[q] = at[q] /\ phase'[q] = phase[q]
      /\ phase'[r] = "failed" /\ \A g \in Files : at'[r][g] = "end"
  <2>1. at \in [Runs -> [Files -> Places]] /\ phase \in [Runs -> Phases]
    BY <1>1 DEF BTypeOK
  <2>2. [g \in Files |-> "end"] \in [Files -> Places] /\ "failed" \in Phases
    BY DEF Places, Phases
  <2> QED BY <2>1, <2>2
<1>3. BTypeOK'
  BY <1>1, <1>2, TypesStay DEF BTypeOK
<1>4. /\ Files' = Files /\ Dirs' = Dirs /\ \A g, v, w : Saved(g, v, w)' = Saved(g, v, w)
  BY SameTree
<1>5. r \notin Active' /\ ~Working(r)' /\ \A q \in Runs : q \in Active' => q \in Active
  BY <1>2 DEF Active, Working
<1>6. \A q \in Runs : Held(q)' = Held(q) /\ (Working(q)' => Working(q))
  BY <1>2 DEF Held, Working
<1>7. Fresh'
  BY <1>4, <1>6 DEF BInv, Fresh
<1>8. CacheFits'
  BY CacheStays
<1>9. ASSUME NEW q \in Runs PROVE Untouched(q)' /\ RecordsFit(q)' /\ Accounted(q)'
  <2>1. CASE q = r
    BY <1>2, <1>5, <2>1 DEF Untouched, RecordsFit, Accounted
  <2>2. CASE q # r
    <3>1. Untouched(q)'
      BY <1>2, <1>4, <2>2 DEF BInv, Untouched
    <3>2. \A g, e : RecordFits(q, g, e) => RecordFits(q, g, e)'
      BY <1>4, <1>6 DEF RecordFits, Whole, BlobsOf
    <3>3. RecordsFit(q)'
      BY <1>5, <3>2 DEF BInv, RecordsFit
    <3>4. Accounted(q)'
      BY <1>2, <1>4, <1>6, <2>2 DEF BInv, Accounted
    <3> QED BY <3>1, <3>3, <3>4
  <2> QED BY <2>1, <2>2
<1>10. ASSUME NEW q \in Runs, NEW g \in Files PROVE ObjectFits(q, g)' /\ ObjectHeld(q, g)'
  <2>1. ObjectFits(q, g) /\ ObjectHeld(q, g)
    BY DEF BInv
  <2>2. \A e, v : Fits(g, v, e.object) => Fits(g, v, e.object)'
    BY <1>4 DEF Fits
  <2>3. CASE q = r
    BY <1>2, <2>1, <2>2, <2>3 DEF ObjectFits, ObjectHeld
  <2>4. CASE q # r
    <3>1. ObjectFits(q, g)'
      BY <1>2, <1>4, <2>1, <2>2, <2>4 DEF ObjectFits
    <3>2. ObjectHeld(q, g)'
      BY <1>2, <1>5, <1>6, <2>1, <2>4 DEF ObjectHeld
    <3> QED BY <3>1, <3>2
  <2> QED BY <2>3, <2>4
<1>11. Committed' /\ NoSilentLoss' /\ Complete'
  BY SnapshotsStay
<1> QED BY <1>3, <1>4, <1>7, <1>8, <1>9, <1>10, <1>11 DEF BInv

LEMMA TestReadStep ==
    ASSUME BInv, NEW r \in Runs, NEW f \in Files, TestRead(r, f)
    PROVE  BInv'
<1> USE DEF repoVars
<1> DEFINE o == object[r][f]
           objects == {o} \ {NoObject}
<1>1. BTypeOK /\ o \in Objects \cup {NoObject} /\ "entry" \in Places
  BY DEF BInv, BTypeOK, Places
<1>2. UNCHANGED <<kind, source, seen, err, have, snapshots, removed, masked, blind>>
  BY DEF TestRead
<1>3. CASE Fail(r, f, "serialize") /\ UNCHANGED <<cached, phase, handed, recorded>>
  BY <1>2, <1>3, FailStep
<1>4. CASE /\ at[r][f] = "serialize"
           /\ at' = [at EXCEPT ![r] = [g \in Files |-> "end"]]
           /\ phase' = [phase EXCEPT ![r] = "failed"]
           /\ UNCHANGED <<cached, handed, recorded, errors, object, hit>>
  BY <1>2, <1>4, CrashStep
<1>5. ASSUME ~err[r], o # NoObject \/ kind[f] # "xattr", at[r][f] = "serialize",
             cached' = [cached EXCEPT !.objects = @ \cup objects], Put(r, objects),
             UNCHANGED <<phase, errors>>
      PROVE  /\ cached' \in Caches /\ CacheFits'
             /\ DOMAIN handed' = Runs /\ \A q \in Runs : handed[q] \subseteq handed'[q]
             /\ ObjectFits(r, f) /\ cached.objects \subseteq cached'.objects
             /\ o \in cached'.objects \cup {NoObject}
             /\ r \in Active => /\ o # NoObject => o \in Held(r)' /\ ChunksOf(o) \subseteq Held(r)'
                                /\ \A e \in hit[r][f] : e.object = NoObject \/ e.object \in Held(r)'
  <2>1. cached \in Caches
    BY <1>1 DEF BTypeOK
  <2>2. /\ cached' \in Caches /\ cached'.entry = cached.entry
        /\ cached'.objects = cached.objects \cup objects
    BY <1>1, <1>5, <2>1 DEF Caches
  <2>3. CacheFits'
    <3>1. \A g, v, x : Fits(g, v, x) => Fits(g, v, x)'
      BY <1>2, SameTree DEF Fits
    <3>2. Files' = Files
      BY <1>2, SameTree
    <3> QED BY <1>2, <2>2, <3>1, <3>2 DEF BInv, CacheFits
  <2>4. /\ DOMAIN handed' = Runs /\ \A q \in Runs : handed[q] \subseteq handed'[q]
        /\ Held(r)' = Held(r) \cup objects
    BY <1>1, <1>2, <1>5, PutStep
  <2>5. ObjectFits(r, f) /\ ObjectHeld(r, f)
    BY DEF BInv
  <2> QED BY <1>5, <2>2, <2>3, <2>4, <2>5 DEF ObjectHeld

<1>6. ASSUME ~err[r], kind[f] # "xattr", Go(r, f, "serialize", "entry"), UNCHANGED <<object, hit, recorded>>,
             cached' = [cached EXCEPT !.objects = @ \cup objects], Put(r, objects),
             UNCHANGED <<phase, errors>>
      PROVE  BInv'
  <2>1. /\ at[r][f] = "serialize" /\ at' \in [Runs -> [Files -> Places]] /\ at'[r][f] = "entry"
        /\ \A q \in Runs, g \in Files : q # r \/ g # f => at'[q][g] = at[q][g]
    BY <1>1, <1>6, GoStep
  <2>2. /\ cached' \in Caches /\ CacheFits'
        /\ DOMAIN handed' = Runs /\ \A q \in Runs : handed[q] \subseteq handed'[q]
        /\ ObjectFits(r, f) /\ cached.objects \subseteq cached'.objects
        /\ o \in cached'.objects \cup {NoObject}
        /\ r \in Active => /\ o # NoObject => o \in Held(r)' /\ ChunksOf(o) \subseteq Held(r)'
                           /\ \A e \in hit[r][f] : e.object = NoObject \/ e.object \in Held(r)'
    BY <1>5, <1>6, <2>1
  <2>3. BTypeOK'
    BY <1>1, <1>2, <1>6, <2>1, <2>2, TypesStay DEF BTypeOK
  <2>4. ObjectFits(r, f)'
    <3>1. \A v, w : Saved(f, v, w)' = Saved(f, v, w)
      BY <1>2, <1>6, SameTree
    <3>2. \A e, v : Fits(f, v, e.object) => Fits(f, v, e.object)'
      BY <1>2, <3>1 DEF Fits
    <3>3. \A e \in hit'[r][f] : /\ e.path = f /\ e.version = seen'[r][f]
                                /\ Fits(f, seen[r][f], e.object)'
      BY <1>2, <1>6, <2>2, <3>2 DEF ObjectFits
    <3>4. o # NoObject => o \in Saved(f, seen[r][f], source[f])'
      BY <1>2, <2>1, <2>2, <3>1 DEF ObjectFits
    <3>5. o = NoObject => f \in masked'
      BY <1>2, <1>6, <2>1, <2>2 DEF ObjectFits
    <3>6. kind'[f] # "xattr" /\ object'[r][f] = o
      BY <1>2, <1>6
    <3> QED BY <1>2, <2>1, <2>2, <3>3, <3>4, <3>5, <3>6 DEF ObjectFits
  <2>5. ObjectHeld(r, f)'
    <3>1. Active' = Active
      BY <1>6 DEF Active
    <3> QED BY <1>6, <2>1, <2>2, <3>1 DEF ObjectHeld
  <2>6. UNCHANGED <<kind, source, seen, phase, have, snapshots, removed, recorded, errors>>
    BY <1>2, <1>6
  <2>7. /\ at[r][f] \notin {"pending", "end"} /\ at'[r][f] # "end"
        /\ masked \subseteq masked' /\ blind \subseteq blind' /\ cached.objects \subseteq cached'.objects
    BY <1>2, <2>1, <2>2
  <2>8. /\ \A q \in Runs, g \in Files : q # r \/ g # f =>
             at'[q][g] = at[q][g] /\ object'[q][g] = object[q][g] /\ hit'[q][g] = hit[q][g]
        /\ \A q \in Runs : handed[q] \subseteq handed'[q]
        /\ \A q \in Runs : q # r => err'[q] = err[q]
        /\ err'[r] = err[r] \/ err'[r] = TRUE \/ Overwritten(r) \subseteq masked'
    BY <1>2, <1>6, <2>1, <2>2
  <2> QED BY <2>2, <2>3, <2>4, <2>5, <2>6, <2>7, <2>8, GoesOn
<1>7. ASSUME ~err[r], o # NoObject, kind[f] = "xattr", Return(r, f, "serialize"),
             recorded' = Record(r, f, Entry(f, seen[r][f], o)),
             cached' = [cached EXCEPT !.objects = @ \cup objects], Put(r, objects),
             UNCHANGED <<phase, errors>>
      PROVE  BInv'
  <2>1. PICK e \in Entries : /\ e.path = f /\ e.version = seen[r][f] /\ e.object = o
                            /\ e = Entry(f, seen[r][f], o)
    BY <1>1, EntryParts DEF BTypeOK
  <2>2. at[r][f] = "serialize"
    BY <1>1, <1>7, ReturnStep
  <2>3. /\ cached' \in Caches /\ CacheFits'
        /\ DOMAIN handed' = Runs /\ \A q \in Runs : handed[q] \subseteq handed'[q]
        /\ ObjectFits(r, f) /\ cached.objects \subseteq cached'.objects
    BY <1>5, <1>7, <2>2
  <2>4. ASSUME r \in Active PROVE RecordFits(r, f, e)'
    <3>1. \A v, w : Saved(f, v, w)' = Saved(f, v, w)
      BY <1>2, <1>7, SameTree
    <3>2. o \in Saved(f, seen[r][f], source[f])
      BY <1>7, <2>2, <2>3, <2>4 DEF ObjectFits
    <3>3. /\ e.version = seen'[r][f] /\ e.object \in Saved(f, seen[r][f], source[f])'
          /\ kind'[f] = "xattr"
      BY <1>2, <1>7, <2>1, <3>1, <3>2
    <3> QED BY <2>1, <3>3 DEF RecordFits
  <2>5. recorded' = Record(r, f, e)
    BY <1>7, <2>1
  <2>6. UNCHANGED <<kind, source, phase, seen, err, errors, repoVars, masked, blind>>
    BY <1>2, <1>7
  <2> QED BY <1>7, <2>1, <2>3, <2>4, <2>5, <2>6, ReturnsWith
<1> QED BY <1>3, <1>4, <1>6, <1>7 DEF TestRead

\* A goroutine that is about to record an entry, and what it may record.
LEMMA AtEntry ==
    ASSUME BInv, NEW r \in Runs, NEW f \in Files, at[r][f] = "entry"
    PROVE  /\ kind[f] # "xattr"
           /\ Fits(f, seen[r][f], object[r][f])
           /\ object[r][f] \in cached.objects \cup {NoObject}
<1>1. ObjectFits(r, f)
  BY DEF BInv
<1>2. kind[f] = "special" => NoObject \in Saved(f, seen[r][f], source[f])
  BY DEF Saved
<1> QED BY <1>1, <1>2 DEF ObjectFits, Fits

\* It is whole if its object is what the goroutine has at hand, and if it is that
\* of the cached entry.
LEMMA EntryIsWhole ==
    ASSUME BInv, NEW r \in Runs, NEW f \in Files, at[r][f] = "entry", r \in Active,
           NEW e, NEW blobs, e \in blobs, Held(r) \subseteq blobs, e.object = object[r][f]
    PROVE  BlobsOf(e) \subseteq blobs \/ (e.object \in blind /\ {e, e.object} \subseteq blobs)
<1>1. ObjectHeld(r, f)
  BY DEF BInv
<1>2. e.object # NoObject => /\ e.object \in Held(r)
                             /\ ChunksOf(e.object) \subseteq Held(r) \/ e.object \in blind
  BY <1>1 DEF ObjectHeld
<1> QED BY <1>2 DEF BlobsOf

LEMMA CachedIsWhole ==
    ASSUME BInv, NEW r \in Runs, NEW f \in Files, at[r][f] = "entry", r \in Active,
           NEW e \in hit[r][f], e \in Held(r), e.object # object[r][f],
           blind' = IF e.object = NoObject THEN blind ELSE Blind(r, e.object)
    PROVE  BlobsOf(e) \subseteq Held(r) \/ (e.object \in blind' /\ {e, e.object} \subseteq Held(r))
<1>1. ObjectHeld(r, f)
  BY DEF BInv
<1>2. e.object = NoObject \/ e.object \in Held(r)
  BY <1>1 DEF ObjectHeld
<1>3. e.object # NoObject => ChunksOf(e.object) \subseteq Held(r) \/ e.object \in blind'
  BY DEF Blind, Held
<1> QED BY <1>2, <1>3 DEF BlobsOf

LEMMA RecordEntryStep ==
    ASSUME BInv, NEW r \in Runs, NEW f \in Files, RecordEntry(r, f)
    PROVE  BInv'
<1> USE DEF repoVars
<1> DEFINE o == object[r][f]
           v == seen[r][f]
<1>1. BTypeOK /\ kind \in Trees /\ o \in Objects \cup {NoObject} /\ v \in Versions
  BY DEF BInv, BTypeOK
<1>2. /\ Return(r, f, "entry")
      /\ UNCHANGED <<kind, source, phase, seen, err, errors, repoVars, masked>>
  BY DEF RecordEntry
<1>3. at[r][f] = "entry" /\ ObjectFits(r, f)
  BY <1>1, <1>2, ReturnStep DEF BInv
<1>4. /\ \A g, w, x : Saved(g, w, x)' = Saved(g, w, x)
      /\ Files' = Files /\ kind[f] # "xattr" /\ Fits(f, v, o) /\ o \in cached.objects \cup {NoObject}
  BY <1>2, <1>3, SameTree, AtEntry
<1>41. \A g, w, x : Fits(g, w, x)' <=> Fits(g, w, x)
  BY <1>2, <1>4 DEF Fits
<1>5. ASSUME NEW e, e.path = f, e.version = v, Fits(f, v, e.object),
             \/ BlobsOf(e) \subseteq Held(r)'
             \/ e.object \in blind' /\ {e, e.object} \subseteq Held(r)'
      PROVE  RecordFits(r, f, e)'
  <2>1. f \in masked \/ e.object \in Saved(f, v, source[f])
    BY <1>5 DEF Fits
  <2>2. Whole(e, Held(r))'
    BY <1>5 DEF Whole, BlobsOf
  <2>3. e.version = seen'[r][f] /\ Saved(f, seen[r][f], source[f])' = Saved(f, v, source[f])
    BY <1>2, <1>4, <1>5
  <2> QED BY <1>2, <1>5, <2>1, <2>2, <2>3 DEF RecordFits
<1>6. ASSUME NEW e \in hit[r][f], TRUE \in Knows(r, e), recorded' = Record(r, f, e),
             blind' = IF e.object \in {NoObject, o} THEN blind ELSE Blind(r, e.object),
             UNCHANGED <<cached, handed>>
      PROVE  BInv'
  <2>1. e \in Entries /\ e.path = f /\ e.version = v /\ Fits(f, v, e.object)
    BY <1>1, <1>3, <1>6 DEF ObjectFits, BTypeOK
  <2>2. blind \subseteq blind'
    BY <1>6 DEF Blind
  <2>3. e \in Held(r) /\ Held(r)' = Held(r)
    BY <1>2, <1>6 DEF Knows, Held
  <2>4. ASSUME r \in Active PROVE RecordFits(r, f, e)'
    <3>1. CASE e.object = o
      <4>1. BlobsOf(e) \subseteq Held(r) \/ (e.object \in blind /\ {e, e.object} \subseteq Held(r))
        BY <1>3, <2>3, <2>4, <3>1, EntryIsWhole
      <4> QED BY <1>5, <2>1, <2>2, <2>3, <4>1
    <3>2. CASE e.object # o
      <4>1. blind' = IF e.object = NoObject THEN blind ELSE Blind(r, e.object)
        BY <1>6, <3>2
      <4>2. BlobsOf(e) \subseteq Held(r) \/ (e.object \in blind' /\ {e, e.object} \subseteq Held(r))
        BY <1>3, <2>3, <2>4, <3>2, <4>1, CachedIsWhole
      <4> QED BY <1>5, <2>1, <2>3, <4>2
    <3> QED BY <3>1, <3>2
  <2>5. cached' \in Caches /\ CacheFits' /\ cached.objects \subseteq cached'.objects
    BY <1>1, <1>2, <1>6, CacheStays DEF BTypeOK
  <2>6. DOMAIN handed' = Runs /\ \A q \in Runs : handed[q] \subseteq handed'[q]
    BY <1>1, <1>6 DEF BTypeOK
  <2> QED BY <1>2, <1>6, <2>1, <2>2, <2>4, <2>5, <2>6, ReturnsWith
<1>7. ASSUME cached' = [cached EXCEPT !.entry[f] = {Entry(f, v, o)}],
             recorded' = Record(r, f, Entry(f, v, o)), Put(r, {Entry(f, v, o)}), UNCHANGED blind
      PROVE  BInv'
  <2>1. PICK e \in Entries : e.path = f /\ e.version = v /\ e.object = o /\ e = Entry(f, v, o)
    BY <1>1, EntryParts
  <2>2. /\ cached' = [cached EXCEPT !.entry[f] = {e}] /\ recorded' = Record(r, f, e) /\ Put(r, {e})
    BY <1>7, <2>1
  <2>4. /\ DOMAIN handed' = Runs /\ \A q \in Runs : handed[q] \subseteq handed'[q]
        /\ Held(r)' = Held(r) \cup {e}
    BY <1>1, <1>2, <2>2, PutStep
  <2>6. ASSUME r \in Active PROVE RecordFits(r, f, e)'
    <3>1. \/ BlobsOf(e) \subseteq Held(r)'
          \/ e.object \in blind /\ {e, e.object} \subseteq Held(r)'
      <4>1. e \in Held(r)' /\ Held(r) \subseteq Held(r)'
        BY <2>4
      <4> QED BY <1>3, <2>1, <2>6, <4>1, EntryIsWhole
    <3> QED BY <1>4, <1>5, <1>7, <2>1, <3>1
  <2>7. /\ cached.entry \in [Files -> SUBSET Entries] /\ cached \in Caches
        /\ cached'.entry = [cached.entry EXCEPT ![f] = {e}] /\ cached' \in Caches
        /\ cached'.objects = cached.objects
    BY <1>1, <2>2 DEF BTypeOK, Caches
  <2>8. CacheFits'
    <3> SUFFICES ASSUME NEW g \in Files, NEW x \in cached'.entry[g]
                 PROVE  /\ x.path = g /\ x.version <= source[g] /\ Fits(g, x.version, x.object)
                        /\ x.object \in cached.objects \cup {NoObject}
                        /\ \A y \in cached'.entry[g] : y = x
      BY <1>2, <1>4, <1>41, <2>7 DEF CacheFits
    <3>1. CASE g = f
      <4>1. cached'.entry[g] = {e}
        BY <2>7, <3>1
      <4>2. v <= source[f]
        BY DEF BInv, Fresh
      <4> QED BY <1>4, <2>1, <3>1, <4>1, <4>2
    <3>2. CASE g # f
      BY <2>7, <3>2 DEF BInv, CacheFits
    <3> QED BY <3>1, <3>2
  <2>9. blind \subseteq blind' /\ cached.objects \subseteq cached'.objects
    BY <1>7, <2>7
  <2> QED BY <1>2, <2>1, <2>2, <2>4, <2>6, <2>7, <2>8, <2>9, ReturnsWith
<1> QED BY <1>6, <1>7 DEF RecordEntry

-----------------------------------------------------------------------------
\* Steps of a backup as a whole, and of others: what they leave as it is.

LEMMA RunStays ==
    ASSUME BInv, UNCHANGED <<kind, masked, blind>>, Later, NEW q \in Runs,
           phase'[q] = phase[q], at'[q] = at[q], hit'[q] = hit[q], seen'[q] = seen[q],
           recorded'[q] = recorded[q], errors'[q] = errors[q], q \in Active => Held(q) \subseteq Held(q)'
    PROVE  Untouched(q)' /\ RecordsFit(q)' /\ Accounted(q)'
<1>1. /\ Files' = Files /\ Dirs' = Dirs
  BY SameTree
<1>2. (q \in Active' <=> q \in Active) /\ (Working(q)' <=> Working(q))
  BY DEF Active, Working
<1>3. Untouched(q)' /\ Accounted(q)'
  BY <1>1, <1>2 DEF BInv, Untouched, Accounted
<1>4. RecordsFit(q)'
  <2> SUFFICES ASSUME q \in Active, NEW g \in DOMAIN recorded[q].files
               PROVE  RecordFits(q, g, recorded[q].files[g])'
    BY <1>2 DEF RecordsFit
  <2>1. PICK e : e = recorded[q].files[g]
    OBVIOUS
  <2>2. RecordFits(q, g, e)
    BY <2>1 DEF BInv, RecordsFit
  <2>3. Whole(e, Held(q)) => Whole(e, Held(q))'
    BY DEF Whole, BlobsOf
  <2>31. Saved(g, seen[q][g], source[g]) \subseteq Saved(g, seen[q][g], source[g])'
    <3>1. BTypeOK /\ g \in Files /\ seen[q][g] \in Versions /\ seen[q][g] <= source[g]
      BY ScanParts DEF BInv, BTypeOK, Fresh
    <3>2. seen'[q][g] = seen[q][g]
      OBVIOUS
    <3> QED BY <3>1, <3>2, FitsLater
  <2>4. RecordFits(q, g, e)'
    BY <1>1, <2>2, <2>3, <2>31 DEF RecordFits
  <2> QED BY <2>1, <2>4
<1> QED BY <1>3, <1>4

\* A backup that has ended, however it did.
LEMMA RunEnds ==
    ASSUME NEW q \in Runs, phase'[q] \in {"done", "failed", "canceled"}
    PROVE  Untouched(q)' /\ RecordsFit(q)' /\ Accounted(q)'
BY DEF Untouched, RecordsFit, Accounted, Active, Working

LEMMA GoroutineStays ==
    ASSUME BInv, UNCHANGED <<kind, cached, masked, blind>>, Later, NEW q \in Runs, NEW g \in Files,
           at'[q][g] = at[q][g], object'[q][g] = object[q][g], hit'[q][g] = hit[q][g],
           seen'[q][g] = seen[q][g], err'[q] = err[q],
           q \in Active' => q \in Active /\ Held(q) \subseteq Held(q)'
    PROVE  ObjectFits(q, g)' /\ ObjectHeld(q, g)'
<1>1. ObjectFits(q, g) /\ ObjectHeld(q, g)
  BY DEF BInv
<1>2. BTypeOK /\ seen[q][g] \in Versions /\ seen[q][g] <= source[g] /\ masked \subseteq masked'
  BY DEF BInv, BTypeOK, Fresh
<1>3. /\ Saved(g, seen[q][g], source[g]) \subseteq Saved(g, seen[q][g], source[g])'
      /\ \A o : Fits(g, seen[q][g], o) => Fits(g, seen[q][g], o)'
  BY <1>2, FitsLater
<1>4. ObjectFits(q, g)'
  BY <1>1, <1>3 DEF ObjectFits
<1>5. ObjectHeld(q, g)'
  BY <1>1 DEF ObjectHeld
<1> QED BY <1>4, <1>5

LEMMA NothingScanned == <<>> \in [{} -> Entries] /\ [dirs |-> {}, files |-> <<>>] \in Scans
<1>1. <<>> \in [{} -> Entries]
  OBVIOUS
<1> QED BY <1>1 DEF Scans

LEMMA CloseStep ==
    ASSUME BTypeOK, NEW r \in Runs, Close(r)
    PROVE  /\ recorded' \in [Runs -> Scans] /\ errors' \in [Runs -> SUBSET Tree]
           /\ \A q \in Runs : q # r => recorded'[q] = recorded[q] /\ errors'[q] = errors[q]
BY NothingScanned DEF BTypeOK, Close

LEMMA PhaseStep ==
    ASSUME BTypeOK, NEW r \in Runs, NEW p \in Phases, phase' = [phase EXCEPT ![r] = p]
    PROVE  /\ phase' \in [Runs -> Phases] /\ phase'[r] = p
           /\ \A q \in Runs : q # r => phase'[q] = phase[q]
BY DEF BTypeOK

\* A backup that ends: what it put, and its snapshot, are for the caller to say.
LEMMA EndFrame ==
    ASSUME BInv, NEW r \in Runs, NEW p \in {"done", "failed", "canceled"},
           phase' = [phase EXCEPT ![r] = p], Close(r),
           UNCHANGED <<kind, source, cached, seen, at, object, hit, err, masked, blind>>,
           DOMAIN handed' = Runs, DOMAIN snapshots' = Runs,
           \A q \in Runs : q # r => Held(q) \subseteq Held(q)',
           Committed' /\ NoSilentLoss' /\ Complete'
    PROVE  BInv'
<1>1. BTypeOK /\ p \in Phases
  BY DEF BInv, Phases
<1>2. /\ phase' \in [Runs -> Phases] /\ phase'[r] = p
      /\ \A q \in Runs : q # r => phase'[q] = phase[q]
  BY <1>1, PhaseStep
<1>3. /\ recorded' \in [Runs -> Scans] /\ errors' \in [Runs -> SUBSET Tree]
      /\ \A q \in Runs : q # r => recorded'[q] = recorded[q] /\ errors'[q] = errors[q]
  BY <1>1, CloseStep
<1>4. BTypeOK'
  BY <1>1, <1>2, <1>3, SameTree DEF BTypeOK
<1>5. r \notin Active' /\ \A q \in Runs : q \in Active' => q \in Active
  BY <1>2 DEF Active
<1>6. Files' = Files /\ Later
  BY SameTree DEF Later
<1>7. Fresh'
  BY <1>5, <1>6 DEF BInv, Fresh
<1>8. CacheFits'
  BY CacheStays
<1>9. ASSUME NEW q \in Runs PROVE Untouched(q)' /\ RecordsFit(q)' /\ Accounted(q)'
  <2>1. CASE q = r
    BY <1>2, <2>1, RunEnds
  <2>2. CASE q # r
    BY <1>2, <1>3, <1>6, <2>2, RunStays
  <2> QED BY <2>1, <2>2
<1>10. ASSUME NEW q \in Runs, NEW g \in Files PROVE ObjectFits(q, g)' /\ ObjectHeld(q, g)'
  <2>1. q \in Active' => q \in Active /\ Held(q) \subseteq Held(q)'
    BY <1>5
  <2> QED BY <1>6, <2>1, GoroutineStays
<1> QED BY <1>4, <1>6, <1>7, <1>8, <1>9, <1>10 DEF BInv

\* A step of no backup, and one that only moves a backup on: what they leave.
LEMMA MoveFrame ==
    ASSUME BInv, BTypeOK', Later,
           UNCHANGED <<kind, cached, seen, at, object, hit, err, recorded, errors, masked, blind>>,
           \A q \in Runs : \/ phase'[q] = phase[q]
                           \/ Untouched(q)' /\ RecordsFit(q)' /\ Accounted(q)',
           \A q \in Runs : q \in Active => q \in Active' /\ Held(q) \subseteq Held(q)',
           \A q \in Runs, g \in Files : q \in Active' => q \in Active \/ ObjectHeld(q, g)',
           Fresh', CacheFits', Committed' /\ NoSilentLoss' /\ Complete'
    PROVE  BInv'
<1>1. Files' = Files
  BY SameTree
<1>2. ASSUME NEW q \in Runs PROVE Untouched(q)' /\ RecordsFit(q)' /\ Accounted(q)'
  <2>1. CASE Untouched(q)' /\ RecordsFit(q)' /\ Accounted(q)'
    BY <2>1
  <2>2. CASE phase'[q] = phase[q]
    BY <2>2, RunStays
  <2> QED BY <2>1, <2>2
<1>3. ASSUME NEW q \in Runs, NEW g \in Files PROVE ObjectFits(q, g)' /\ ObjectHeld(q, g)'
  <2>1. CASE q \in Active \/ q \notin Active'
    BY <2>1, GoroutineStays
  <2>2. CASE q \notin Active /\ q \in Active'
    <3>1. ObjectHeld(q, g)'
      BY <2>2
    <3>2. ObjectFits(q, g)
      BY DEF BInv
    <3>3. BTypeOK /\ seen[q][g] \in Versions /\ seen[q][g] <= source[g] /\ masked \subseteq masked'
      BY DEF BInv, BTypeOK, Fresh
    <3>4. /\ Saved(g, seen[q][g], source[g]) \subseteq Saved(g, seen[q][g], source[g])'
          /\ \A o : Fits(g, seen[q][g], o) => Fits(g, seen[q][g], o)'
      BY <3>3, FitsLater
    <3>5. ObjectFits(q, g)'
      BY <3>2, <3>4 DEF ObjectFits
    <3> QED BY <3>1, <3>5
  <2> QED BY <2>1, <2>2
<1> QED BY <1>1, <1>2, <1>3 DEF BInv

\* The same, where no backup starts or ends and the source is as it was.
LEMMA QuietFrame ==
    ASSUME BInv, BTypeOK',
           UNCHANGED <<kind, source, cached, seen, at, object, hit, err, recorded, errors, masked, blind>>,
           \A q \in Runs : \/ phase'[q] = phase[q]
                           \/ Untouched(q)' /\ RecordsFit(q)' /\ Accounted(q)',
           Active' = Active, \A q \in Runs : Held(q) \subseteq Held(q)',
           Fresh', CacheFits', Committed' /\ NoSilentLoss' /\ Complete'
    PROVE  BInv'
<1>1. /\ \A q \in Runs : q \in Active => q \in Active' /\ Held(q) \subseteq Held(q)'
      /\ \A q \in Runs, g \in Files : q \in Active' => q \in Active \/ ObjectHeld(q, g)'
      /\ Later
  BY DEF Later
<1> QED BY <1>1, MoveFrame

LEMMA FlushStep ==
    ASSUME BInv, NEW r \in Runs, Flush(r)
    PROVE  BInv'
<1>1. PICK packfile : /\ have' = have \cup packfile
                      /\ handed' = [handed EXCEPT ![r] = @ \ packfile]
  BY DEF Flush
<1>2. UNCHANGED <<kind, source, cached, phase, seen, at, object, hit, err, recorded, errors,
                  snapshots, removed, masked, blind>>
  BY DEF Flush
<1>3. BTypeOK'
  BY <1>1, <1>2, SameTree DEF BInv, BTypeOK
<1>4. \A q \in Runs : Held(q) \subseteq Held(q)'
  BY <1>1 DEF BInv, BTypeOK, Held
<1>5. Active' = Active /\ Fresh' /\ CacheFits'
  <2>1. Files' = Files
    BY <1>2, SameTree
  <2> QED BY <1>2, <2>1, CacheStays DEF BInv, Active, Fresh, Working
<1>6. Committed' /\ NoSilentLoss' /\ Complete'
  BY <1>1, <1>2, SnapshotsStay
<1>7. UNCHANGED <<kind, source, cached, seen, at, object, hit, err, recorded, errors, masked, blind>>
      /\ \A q \in Runs : phase'[q] = phase[q]
  BY <1>2
<1> QED BY <1>3, <1>4, <1>5, <1>6, <1>7, QuietFrame

LEMMA RmSnapshotStep ==
    ASSUME BInv, NEW r \in Runs, RmSnapshot(r)
    PROVE  BInv'
<1>1. UNCHANGED <<kind, source, cached, phase, seen, at, object, hit, err, handed, recorded, errors,
                  have, snapshots, masked, blind>> /\ removed \subseteq removed'
  BY DEF RmSnapshot, runVars
<1>2. BTypeOK'
  BY <1>1, SameTree DEF BInv, BTypeOK
<1>3. Committed' /\ NoSilentLoss' /\ Complete'
  BY <1>1, SnapshotsStay
<1>4. Active' = Active /\ Fresh' /\ CacheFits' /\ \A q \in Runs : Held(q) \subseteq Held(q)'
  <2>1. Files' = Files
    BY <1>1, SameTree
  <2> QED BY <1>1, <2>1, CacheStays DEF BInv, Active, Fresh, Working, Held
<1>5. UNCHANGED <<kind, source, cached, seen, at, object, hit, err, recorded, errors, masked, blind>>
      /\ \A q \in Runs : phase'[q] = phase[q]
  BY <1>1
<1> QED BY <1>2, <1>3, <1>4, <1>5, QuietFrame

LEMMA ModifyStep ==
    ASSUME BInv, Modify
    PROVE  BInv'
<1>1. PICK f \in Files : source[f] + 1 \in Versions /\ source' = [source EXCEPT ![f] = @ + 1]
  BY DEF Modify
<1>2. UNCHANGED <<kind, cached, phase, seen, at, object, hit, err, handed, recorded, errors, have,
                  snapshots, removed, masked, blind>>
  BY DEF Modify, runVars, repoVars
<1>3. source \in [Files -> Versions] /\ seen \in [Runs -> [Files -> Versions]] /\ Versions \subseteq Nat
  BY TreeAssumption DEF BInv, BTypeOK, Versions
<1>4. /\ source' \in [Files -> Versions]
      /\ \A g \in Files : source'[g] = (IF g = f THEN source[f] + 1 ELSE source[g])
  BY <1>1, <1>3
<1>5. BTypeOK'
  BY <1>2, <1>4, SameTree DEF BInv, BTypeOK
<1>6. \A g \in Files, q \in Runs : seen[q][g] \in Nat /\ source[g] \in Nat /\ seen[q][g] <= source[g]
  BY <1>3 DEF BInv, Fresh
<1>61. source[f] < source[f] + 1
  <2>1. source[f] \in Versions /\ Versions \subseteq Nat
    BY <1>3
  <2>2. PICK n \in Nat : n = source[f]
    BY <2>1
  <2> QED BY <2>2
<1>7. (\A g \in Files, q \in Runs : seen[q][g] <= source'[g]) /\ Later
  <2>1. \A g \in Files, q \in Runs : seen[q][g] <= source'[g]
    BY <1>4, <1>6
  <2>2. ASSUME NEW g \in Files
        PROVE  source'[g] = source[g] \/ (source'[g] \in Versions /\ source[g] < source'[g])
    BY <1>1, <1>4, <1>61
  <2> QED BY <2>1, <2>2 DEF Later
<1>8. Files' = Files /\ Active' = Active
  BY <1>2, SameTree DEF Active
<1>9. Fresh'
  BY <1>2, <1>7, <1>8 DEF Fresh
<1>10. CacheFits'
  <2> SUFFICES ASSUME NEW g \in Files, NEW e \in cached.entry[g]
               PROVE  /\ e.path = g /\ e.version <= source'[g] /\ Fits(g, e.version, e.object)'
                      /\ e.object \in cached.objects \cup {NoObject}
                      /\ \A x \in cached.entry[g] : x = e
    BY <1>2, <1>8 DEF CacheFits
  <2>1. /\ e.path = g /\ e.version <= source[g] /\ Fits(g, e.version, e.object)
        /\ e.object \in cached.objects \cup {NoObject}
        /\ \A x \in cached.entry[g] : x = e
    BY DEF BInv, CacheFits
  <2>2. e.version \in Versions /\ e.version \in Nat /\ source[g] \in Nat
    <3>1. e \in Entries
      BY DEF BInv, BTypeOK, Caches
    <3> QED BY <1>3, <3>1 DEF Entries
  <2>3. Fits(g, e.version, e.object)'
    <3>1. BTypeOK /\ masked \subseteq masked' /\ UNCHANGED kind
      BY <1>2 DEF BInv
    <3>2. \A v \in Versions : v <= source[g] => \A o : Fits(g, v, o) => Fits(g, v, o)'
      BY <1>7, <3>1, FitsLater
    <3>3. \A v \in Versions : v <= source[g] /\ Fits(g, v, e.object) => Fits(g, v, e.object)'
      BY <3>2
    <3>4. PICK v \in Versions : v = e.version
      BY <2>2
    <3>5. Fits(g, v, e.object)'
      BY <2>1, <3>3, <3>4
    <3> QED BY <3>4, <3>5
  <2>4. e.version <= source'[g]
    BY <1>4, <2>1, <2>2
  <2> QED BY <2>1, <2>3, <2>4
<1>11. Committed' /\ NoSilentLoss' /\ Complete'
  BY <1>2, SnapshotsStay
<1>12. UNCHANGED <<kind, cached, seen, at, object, hit, err, recorded, errors, masked, blind>>
       /\ \A q \in Runs : phase'[q] = phase[q]
  BY <1>2
<1>13. \A q \in Runs : q \in Active => q \in Active' /\ Held(q) \subseteq Held(q)'
  BY <1>2, <1>8 DEF Held
<1>14. \A q \in Runs, g \in Files : q \in Active' => q \in Active \/ ObjectHeld(q, g)'
  BY <1>8
<1> QED BY <1>5, <1>7, <1>9, <1>10, <1>11, <1>12, <1>13, <1>14, MoveFrame

LEMMA PersistErrorsStep ==
    ASSUME BInv, NEW r \in Runs, PersistErrors(r)
    PROVE  BInv'
<1>1. /\ phase[r] = "scan" /\ (\A f \in Files : at[r][f] = "end")
      /\ phase' = [phase EXCEPT ![r] = "index"]
      /\ UNCHANGED <<kind, source, cached, seen, at, object, hit, err, handed, recorded, errors,
                     have, snapshots, removed, masked, blind>>
  BY DEF PersistErrors, repoVars
<1>2. BTypeOK /\ "index" \in Phases
  BY DEF BInv, Phases
<1>3. /\ phase' \in [Runs -> Phases] /\ phase'[r] = "index"
      /\ \A q \in Runs : q # r => phase'[q] = phase[q]
  BY <1>1, <1>2, PhaseStep
<1>4. BTypeOK'
  BY <1>1, <1>2, <1>3, SameTree DEF BTypeOK
<1>5. /\ \A q \in Runs : Held(q)' = Held(q) /\ (q \in Active' <=> q \in Active) /\ (Working(q)' <=> Working(q))
      /\ Files' = Files /\ Dirs' = Dirs /\ \A g, v, w : Saved(g, v, w)' = Saved(g, v, w)
  BY <1>1, <1>3, SameTree DEF Held, Active, Working
<1>6. Fresh' /\ CacheFits'
  BY <1>1, <1>5, CacheStays DEF BInv, Fresh
<1>7. Untouched(r)' /\ Accounted(r)'
  BY <1>1, <1>3, <1>5 DEF BInv, Untouched, Accounted
<1>8. RecordsFit(r)'
  <2>1. \A g, e : RecordFits(r, g, e) => RecordFits(r, g, e)'
    BY <1>1, <1>5 DEF RecordFits, Whole, BlobsOf
  <2> QED BY <1>1, <1>5, <2>1 DEF BInv, RecordsFit
<1>9. Committed' /\ NoSilentLoss' /\ Complete'
  BY <1>1, SnapshotsStay
<1>10. /\ UNCHANGED <<kind, source, cached, seen, at, object, hit, err, recorded, errors, masked, blind>>
  BY <1>1
<1>11. \A q \in Runs : \/ phase'[q] = phase[q]
                       \/ Untouched(q)' /\ RecordsFit(q)' /\ Accounted(q)'
  BY <1>3, <1>7, <1>8
<1>12. Active' = Active /\ \A q \in Runs : Held(q) \subseteq Held(q)'
  BY <1>5 DEF Active
<1> QED BY <1>4, <1>6, <1>9, <1>10, <1>11, <1>12, QuietFrame

LEMMA StartBackupStep ==
    ASSUME BInv, NEW r \in Runs, StartBackup(r)
    PROVE  BInv'
<1>1. /\ phase[r] = "new" /\ phase' = [phase EXCEPT ![r] = "import"]
      /\ UNCHANGED <<kind, source, cached, seen, at, object, hit, err, handed, recorded, errors,
                     have, snapshots, removed, masked, blind>>
  BY DEF StartBackup, repoVars
<1>2. BTypeOK /\ "import" \in Phases
  BY DEF BInv, Phases
<1>3. /\ phase' \in [Runs -> Phases] /\ phase'[r] = "import"
      /\ \A q \in Runs : q # r => phase'[q] = phase[q]
  BY <1>1, <1>2, PhaseStep
<1>4. BTypeOK'
  BY <1>1, <1>2, <1>3, SameTree DEF BTypeOK
<1>5. /\ Files' = Files /\ \A q \in Runs : /\ Held(q)' = Held(q) /\ (Working(q)' => Working(q))
                                           /\ q # r => (q \in Active' <=> q \in Active)
  BY <1>1, <1>3, SameTree DEF Held, Active, Working
<1>6. Fresh' /\ CacheFits'
  BY <1>1, <1>5, CacheStays DEF BInv, Fresh
<1>7. /\ DOMAIN recorded[r].files = {} /\ \A f \in Files : at[r][f] = "pending" /\ hit[r][f] = {}
  BY <1>1 DEF BInv, Untouched
<1>8. Untouched(r)' /\ RecordsFit(r)' /\ Accounted(r)'
  BY <1>1, <1>3, <1>5, <1>7 DEF Untouched, RecordsFit, Accounted, Working
<1>9. \A q \in Runs, g \in Files : q \in Active' => q \in Active \/ ObjectHeld(q, g)'
  <2>1. \A g \in Files : ObjectHeld(r, g)'
    BY <1>1, <1>7 DEF ObjectHeld
  <2> QED BY <1>5, <2>1
<1>10. Committed' /\ NoSilentLoss' /\ Complete'
  BY <1>1, SnapshotsStay
<1>11. \A q \in Runs : q \in Active => q \in Active' /\ Held(q) \subseteq Held(q)'
  BY <1>1, <1>5 DEF Active
<1>12. \A q \in Runs : \/ phase'[q] = phase[q]
                       \/ Untouched(q)' /\ RecordsFit(q)' /\ Accounted(q)'
  BY <1>3, <1>8
<1>13. /\ UNCHANGED <<kind, cached, seen, at, object, hit, err, recorded, errors, masked, blind>>
       /\ Later
  BY <1>1 DEF Later
<1> QED BY <1>4, <1>6, <1>9, <1>10, <1>11, <1>12, <1>13, MoveFrame

LEMMA CancelStep ==
    ASSUME BInv, NEW r \in Runs, Cancel(r)
    PROVE  BInv'
<1>1. /\ phase' = [phase EXCEPT ![r] = "canceled"] /\ Close(r)
      /\ UNCHANGED <<kind, source, cached, seen, at, object, hit, err, handed, have, snapshots, removed,
                     masked, blind>>
  BY DEF Cancel, repoVars
<1>2. Committed' /\ NoSilentLoss' /\ Complete'
  BY <1>1, SnapshotsStay
<1>3. /\ DOMAIN handed' = Runs /\ DOMAIN snapshots' = Runs
      /\ \A q \in Runs : q # r => Held(q) \subseteq Held(q)'
  BY <1>1 DEF BInv, BTypeOK, Held
<1> QED BY <1>1, <1>2, <1>3, EndFrame

\* A run of maintenance: what a snapshot lists stays.
LEMMA ForgetStep ==
    ASSUME BInv, Forget
    PROVE  BInv'
<1> DEFINE needed == UNION {UNION {Listed(s) : s \in snapshots[r]} : r \in Runs \ removed}
<1>1. /\ Active = {} /\ needed \cap have \subseteq have'
      /\ UNCHANGED <<kind, source, cached, phase, seen, at, object, hit, err, handed, recorded, errors,
                     snapshots, removed, masked, blind>>
  BY DEF Forget, runVars
<1> HIDE DEF needed
<1>2. BTypeOK'
  BY <1>1, SameTree DEF BInv, BTypeOK
<1>3. /\ Files' = Files /\ Active' = {} /\ \A f, v : RightObject(f, v)' = RightObject(f, v)
      /\ \A f, v, w : Chunkified(f, v, w)' = Chunkified(f, v, w)
  BY <1>1, SameTree DEF Active
<1>4. Fresh' /\ CacheFits'
  BY <1>1, <1>3, CacheStays DEF BInv, Fresh, Working
<1>5. Committed' /\ NoSilentLoss'
  BY <1>1, <1>3 DEF BInv, Committed, NoSilentLoss
<1>6. Complete'
  <2> SUFFICES ASSUME NEW r \in Runs \ removed, NEW s \in snapshots[r], NEW e \in s.files,
                      e.path \notin masked
               PROVE  \/ BlobsOf(e) \subseteq have'
                      \/ kind[e.path] = "xattr" /\ e \in have'
                      \/ e.object \in blind /\ {e, e.object} \subseteq have'
    BY <1>1 DEF Complete
  <2>1. \/ BlobsOf(e) \subseteq have
        \/ kind[e.path] = "xattr" /\ e \in have
        \/ e.object \in blind /\ {e, e.object} \subseteq have
    BY DEF BInv, Complete
  <2>0. CASE kind[e.path] = "xattr"
    <3>1. e \in have
      BY <2>1 DEF BlobsOf
    <3>2. e \in needed
      BY <2>0 DEF needed, Listed
    <3> QED BY <1>1, <2>0, <3>1, <3>2
  <2> SUFFICES ASSUME kind[e.path] # "xattr"
               PROVE  \/ BlobsOf(e) \subseteq have'
                      \/ e.object \in blind /\ {e, e.object} \subseteq have'
    BY <2>0
  <2>2. BlobsOf(e) \subseteq Listed(s)
    BY DEF Listed
  <2>3. BlobsOf(e) \subseteq needed
    BY <2>2 DEF needed
  <2>4. CASE e.object = NoObject
    <3>1. BlobsOf(e) = {e} /\ e \in have
      BY <2>1, <2>4 DEF BlobsOf
    <3> QED BY <1>1, <2>3, <3>1
  <2>5. CASE e.object # NoObject
    <3>1. {e, e.object} \subseteq BlobsOf(e)
      BY <2>5 DEF BlobsOf
    <3> QED BY <1>1, <2>1, <2>3, <3>1
  <2> QED BY <2>4, <2>5
<1>7. /\ \A q \in Runs : q \in Active => q \in Active' /\ Held(q) \subseteq Held(q)'
      /\ \A q \in Runs, g \in Files : q \in Active' => q \in Active \/ ObjectHeld(q, g)'
      /\ Later
  BY <1>1, <1>3 DEF Later
<1>8. UNCHANGED <<kind, cached, seen, at, object, hit, err, recorded, errors, masked, blind>>
      /\ \A q \in Runs : phase'[q] = phase[q]
  BY <1>1
<1> QED BY <1>2, <1>4, <1>5, <1>6, <1>7, <1>8, MoveFrame

\* The files whose goroutines have nothing to do are among the errors, or an
\* error at the root is.
LEMMA ImportStep ==
    ASSUME BInv, NEW r \in Runs, Import(r)
    PROVE  BInv'
<1>1. /\ phase[r] = "import" /\ phase' = [phase EXCEPT ![r] = "scan"]
      /\ seen' = [seen EXCEPT ![r] = source]
      /\ UNCHANGED <<kind, source, cached, object, hit, err, handed, have, snapshots, removed, masked, blind>>
  BY DEF Import, repoVars
<1>2. PICK bad \in SUBSET Tree, dropped \in SUBSET Files :
          /\ Root \in bad \/ dropped = {}
          /\ errors' = [errors EXCEPT ![r] = bad]
          /\ recorded' = [recorded EXCEPT ![r].dirs = Dirs \ bad]
          /\ at' = [at EXCEPT ![r] = [f \in Files |-> IF f \in bad \cup dropped THEN "end"
                                                    ELSE "queued"]]
  BY DEF Import, OwnRecords
<1>3. BTypeOK /\ "scan" \in Phases
  BY DEF BInv, Phases
<1>4. /\ phase' \in [Runs -> Phases] /\ phase'[r] = "scan"
      /\ \A q \in Runs : q # r => phase'[q] = phase[q]
  BY <1>1, <1>3, PhaseStep
<1>5. /\ seen' \in [Runs -> [Files -> Versions]] /\ seen'[r] = source
      /\ \A q \in Runs : q # r => seen'[q] = seen[q]
  BY <1>1, <1>3 DEF BTypeOK
<1>6. /\ errors' \in [Runs -> SUBSET Tree] /\ errors'[r] = bad
      /\ \A q \in Runs : q # r => errors'[q] = errors[q]
  BY <1>2, <1>3 DEF BTypeOK
<1>7. /\ at' \in [Runs -> [Files -> Places]]
      /\ \A f \in Files : at'[r][f] = (IF f \in bad \cup dropped THEN "end" ELSE "queued")
      /\ \A q \in Runs : q # r => at'[q] = at[q]
  <2>1. [f \in Files |-> IF f \in bad \cup dropped THEN "end" ELSE "queued"] \in [Files -> Places]
    BY DEF Places
  <2> QED BY <1>2, <1>3, <2>1 DEF BTypeOK
<1>8. /\ recorded' \in [Runs -> Scans] /\ recorded'[r].dirs = Dirs \ bad
      /\ recorded'[r].files = recorded[r].files
      /\ \A q \in Runs : q # r => recorded'[q] = recorded[q]
  <2>1. recorded \in [Runs -> Scans] /\ recorded[r] \in Scans
    BY <1>3 DEF BTypeOK
  <2>2. [recorded[r] EXCEPT !.dirs = Dirs \ bad] \in Scans
    BY <2>1 DEF Scans
  <2>3. /\ recorded'[r] = [recorded[r] EXCEPT !.dirs = Dirs \ bad]
        /\ recorded' \in [Runs -> Scans] /\ \A q \in Runs : q # r => recorded'[q] = recorded[q]
    BY <1>2, <2>1, <2>2
  <2>4. recorded'[r].dirs = Dirs \ bad /\ recorded'[r].files = recorded[r].files
    BY <2>1, <2>3 DEF Scans
  <2> QED BY <2>3, <2>4
<1>9. BTypeOK'
  BY <1>1, <1>3, <1>4, <1>5, <1>6, <1>7, <1>8, SameTree DEF BTypeOK
<1>10. /\ Files' = Files /\ Dirs' = Dirs
       /\ \A q \in Runs : /\ Held(q)' = Held(q) /\ (q \in Active' <=> q \in Active)
                          /\ q # r => (Working(q)' <=> Working(q))
       /\ Later
  BY <1>1, <1>4, SameTree DEF Held, Active, Working, Later
<1>11. /\ DOMAIN recorded[r].files = {}
       /\ \A f \in Files : at[r][f] = "pending" /\ hit[r][f] = {}
  BY <1>1 DEF BInv, Untouched
<1>12. Fresh'
  <2>1. \A f \in Files : source[f] <= source[f]
    <3>1. \A f \in Files : source[f] \in Int
      BY <1>3, TreeAssumption DEF BTypeOK, Versions
    <3> QED BY <3>1
  <2> QED BY <1>1, <1>5, <1>10, <2>1 DEF BInv, Fresh
<1>13. CacheFits'
  BY <1>1, CacheStays
<1>14. ASSUME NEW q \in Runs PROVE Untouched(q)' /\ RecordsFit(q)' /\ Accounted(q)'
  <2>1. CASE q = r
    <3>1. Untouched(r)' /\ RecordsFit(r)'
      BY <1>4, <1>8, <1>11 DEF Untouched, RecordsFit
    <3>2. \A f \in Files : at'[r][f] = "end" => f \in errors'[r] \/ Root \in errors'[r]
      BY <1>2, <1>6, <1>7
    <3>3. Dirs \ recorded'[r].dirs \subseteq errors'[r]
      BY <1>6, <1>8
    <3>4. Accounted(r)'
      BY <1>4, <1>10, <3>2, <3>3 DEF Accounted
    <3> QED BY <2>1, <3>1, <3>4
  <2>2. CASE q # r
    BY <1>1, <1>4, <1>5, <1>6, <1>7, <1>8, <1>10, <2>2, RunStays
  <2> QED BY <2>1, <2>2
<1>15. ASSUME NEW q \in Runs, NEW g \in Files PROVE ObjectFits(q, g)' /\ ObjectHeld(q, g)'
  <2>1. CASE q = r
    <3>1. at'[r][g] \in {"queued", "end"} /\ hit'[r][g] = {}
      BY <1>1, <1>7, <1>11
    <3> QED BY <2>1, <3>1 DEF ObjectFits, ObjectHeld
  <2>2. CASE q # r
    BY <1>1, <1>5, <1>7, <1>10, <2>2, GoroutineStays
  <2> QED BY <2>1, <2>2
<1>16. Committed' /\ NoSilentLoss' /\ Complete'
  BY <1>1, SnapshotsStay
<1> QED BY <1>9, <1>10, <1>12, <1>13, <1>14, <1>15, <1>16 DEF BInv

\* The commit: what was recorded becomes the snapshot.
LEMMA IndexStep ==
    ASSUME BInv, NEW r \in Runs, Index(r)
    PROVE  BInv'
<1>1. /\ phase[r] = "index" /\ Close(r)
      /\ UNCHANGED <<kind, source, cached, seen, at, object, hit, err, removed, masked, blind>>
  BY DEF Index
<1>2. BTypeOK
  BY DEF BInv
<1>3. ASSUME phase' = [phase EXCEPT ![r] = "failed"], UNCHANGED <<have, handed, snapshots>>
      PROVE  BInv'
  <2>1. Committed' /\ NoSilentLoss' /\ Complete'
    BY <1>1, <1>3, SnapshotsStay
  <2>2. /\ DOMAIN handed' = Runs /\ DOMAIN snapshots' = Runs
        /\ \A q \in Runs : q # r => Held(q) \subseteq Held(q)'
    BY <1>2, <1>3 DEF BTypeOK, Held
  <2> QED BY <1>1, <1>3, <2>1, <2>2, EndFrame
<1>4. ASSUME Root \notin errors[r],
             phase' = [phase EXCEPT ![r] = "done"],
             have' = have \cup handed[r] \cup {recorded[r].files[x] :
                                x \in {g \in DOMAIN recorded[r].files : kind[g] = "xattr"}},
             handed' = [handed EXCEPT ![r] = {}],
             snapshots' = [snapshots EXCEPT ![r] =
                {[files  |-> {recorded[r].files[f] :
                                f \in {g \in DOMAIN recorded[r].files :
                                         kind[g] = "xattr" \/ Parent(g) \in recorded[r].dirs}},
                  errors |-> errors[r],
                  source |-> seen[r],
                  now    |-> source,
                  count  |-> ErrorCount(r)]}]
      PROVE  BInv'
  <2>1. PICK new : /\ new.files = {recorded[r].files[f] :
                                f \in {g \in DOMAIN recorded[r].files :
                                         kind[g] = "xattr" \/ Parent(g) \in recorded[r].dirs}}
                   /\ new.errors = errors[r] /\ new.source = seen[r] /\ new.now = source
                   /\ snapshots' = [snapshots EXCEPT ![r] = {new}]
    BY <1>4
  <2>2. /\ DOMAIN handed' = Runs /\ DOMAIN snapshots' = Runs
        /\ snapshots'[r] = {new} /\ \A q \in Runs : q # r => snapshots'[q] = snapshots[q]
        /\ Held(r) \subseteq have' /\ have \subseteq have'
        /\ \A q \in Runs : q # r => Held(q) \subseteq Held(q)'
    BY <1>2, <1>4, <2>1 DEF BTypeOK, Held
  <2>3. /\ Files' = Files /\ \A f, v : RightObject(f, v)' = RightObject(f, v)
        /\ \A f, v, w : Chunkified(f, v, w)' = Chunkified(f, v, w)
    BY <1>1, SameTree
  <2>4. r \in Active /\ Working(r)
    BY <1>1 DEF Active, Working
  <2>5. /\ DOMAIN recorded[r].files \subseteq Files
        /\ \A f \in DOMAIN recorded[r].files : RecordFits(r, f, recorded[r].files[f])
    BY <1>2, <2>4, ScanParts DEF BInv, RecordsFit
  <2>6. \A e \in new.files : \E f \in Files : RecordFits(r, f, e)
    BY <2>1, <2>5
  <2>7. Committed'
    <3>1. \A e \in new.files : e.path \in Files
      BY <2>6 DEF RecordFits
    <3> QED BY <2>2, <2>3, <3>1 DEF BInv, Committed
  <2>8. NoSilentLoss'
    <3> SUFFICES ASSUME NEW q \in Runs, NEW s \in snapshots'[q], NEW f \in Files
                 PROVE  \/ \E e \in s.files :
                              /\ e.path = f /\ e.version = s.source[f]
                              /\ \/ e.object = RightObject(f, s.source[f])
                                 \/ /\ s.now[f] # s.source[f]
                                    /\ e.object \in Chunkified(f, s.source[f], s.now[f])
                                 \/ kind[f] = "xattr" /\ e.object = EmptyObject
                        \/ f \in s.errors \/ Parent(f) \in s.errors
                        \/ f \in masked
      BY <1>1, <2>3 DEF NoSilentLoss
    <3>1. CASE q # r
      BY <2>2, <3>1 DEF BInv, NoSilentLoss
    <3>2. CASE q = r
      <4>1. s = new
        BY <2>2, <3>2
      <4>2. at[r][f] = "end" /\ (f \in DOMAIN recorded[r].files \/ f \in errors[r])
        BY <1>1, <1>4, <2>4 DEF BInv, Accounted
      <4>3. Parent(f) \in Dirs /\ Dirs \ recorded[r].dirs \subseteq errors[r]
        BY <1>2, <2>4, FileKinds DEF BInv, BTypeOK, Accounted
      <4>4. CASE f \in DOMAIN recorded[r].files /\ Parent(f) \in recorded[r].dirs
        <5>1. PICK e \in new.files : e = recorded[r].files[f]
          BY <2>1, <4>4
        <5>2. RecordFits(r, f, e)
          BY <2>5, <4>4, <5>1
        <5>3. CASE f \in masked
          BY <5>3
        <5>4. CASE f \notin masked
          <6>1. e.path = f /\ e.version = seen[r][f] /\ e.object \in Saved(f, seen[r][f], source[f])
            BY <5>2, <5>4 DEF RecordFits
          <6>2. \/ e.object = RightObject(f, seen[r][f])
                \/ source[f] # seen[r][f] /\ e.object \in Chunkified(f, seen[r][f], source[f])
                \/ kind[f] = "xattr" /\ e.object = EmptyObject
            BY <6>1, SavedIs
          <6> QED BY <2>1, <4>1, <5>1, <6>1, <6>2
        <5> QED BY <5>3, <5>4
      <4>5. CASE f \in errors[r] \/ Parent(f) \in errors[r]
        BY <2>1, <4>1, <4>5
      <4> QED BY <4>2, <4>3, <4>4, <4>5
    <3> QED BY <3>1, <3>2
  <2>9. Complete'
    <3> SUFFICES ASSUME NEW q \in Runs \ removed, NEW s \in snapshots'[q], NEW e \in s.files,
                        e.path \notin masked
                 PROVE  \/ BlobsOf(e) \subseteq have'
                        \/ kind[e.path] = "xattr" /\ e \in have'
                        \/ e.object \in blind /\ {e, e.object} \subseteq have'
      BY <1>1 DEF Complete
    <3>1. CASE q # r
      <4>1. s \in snapshots[q]
        BY <2>2, <3>1
      <4>2. \/ BlobsOf(e) \subseteq have
            \/ kind[e.path] = "xattr" /\ e \in have
            \/ e.object \in blind /\ {e, e.object} \subseteq have
        BY <4>1 DEF BInv, Complete
      <4> QED BY <2>2, <4>2
    <3>2. CASE q = r
      <4>1. e \in new.files
        BY <2>2, <3>2
      <4>2. PICK f \in DOMAIN recorded[r].files : e = recorded[r].files[f] /\ RecordFits(r, f, e)
        BY <2>1, <2>5, <4>1
      <4>3. e.path = f /\ f \notin masked
        BY <4>2 DEF RecordFits
      <4>4. CASE kind[f] = "xattr"
        BY <1>4, <4>2, <4>3, <4>4
      <4>5. CASE kind[f] # "xattr"
        <5>1. Whole(e, Held(r))
          BY <4>2, <4>3, <4>5 DEF RecordFits
        <5> QED BY <2>2, <5>1 DEF Whole
      <4> QED BY <4>4, <4>5
    <3> QED BY <3>1, <3>2
  <2>10. phase' = [phase EXCEPT ![r] = "done"]
    BY <1>4
  <2> QED BY <1>1, <2>2, <2>7, <2>8, <2>9, <2>10, EndFrame
<1> QED BY <1>3, <1>4 DEF Index

-----------------------------------------------------------------------------
LEMMA BInvStep == BInv /\ [Next]_vars => BInv'
<1> SUFFICES ASSUME BInv, [Next]_vars PROVE BInv'
  OBVIOUS
<1>1. CASE Modify
  BY <1>1, ModifyStep
<1>2. CASE Forget
  BY <1>2, ForgetStep
<1>3. ASSUME NEW r \in Runs, StartBackup(r) PROVE BInv'
  BY <1>3, StartBackupStep
<1>4. ASSUME NEW r \in Runs, RmSnapshot(r) PROVE BInv'
  BY <1>4, RmSnapshotStep
<1>5. ASSUME NEW r \in Runs, Import(r) PROVE BInv'
  BY <1>5, ImportStep
<1>6. ASSUME NEW r \in Runs, Flush(r) PROVE BInv'
  BY <1>6, FlushStep
<1>7. ASSUME NEW r \in Runs, Cancel(r) PROVE BInv'
  BY <1>7, CancelStep
<1>8. ASSUME NEW r \in Runs, PersistErrors(r) PROVE BInv'
  BY <1>8, PersistErrorsStep
<1>9. ASSUME NEW r \in Runs, Index(r) PROVE BInv'
  BY <1>9, IndexStep
<1>10. ASSUME NEW r \in Runs, NEW f \in Files, Scanner(r, f) PROVE BInv'
  <2>1. CASE Lookup(r, f)
    BY <2>1, LookupStep
  <2>2. CASE PutCached(r, f)
    BY <2>2, PutCachedStep
  <2>3. CASE TestCached(r, f)
    BY <2>3, TestCachedStep
  <2>4. CASE Read(r, f)
    BY <2>4, ReadStep
  <2>5. CASE TestRead(r, f)
    BY <2>5, TestReadStep
  <2>6. CASE RecordEntry(r, f)
    BY <2>6, RecordEntryStep
  <2> QED BY <1>10, <2>1, <2>2, <2>3, <2>4, <2>5, <2>6 DEF Scanner
<1>11. CASE UNCHANGED vars
  <2>1. UNCHANGED <<kind, source, cached, phase, seen, at, object, hit, err, handed, recorded, errors,
                    have, snapshots, removed, masked, blind>>
    BY <1>11 DEF vars, runVars, repoVars
  <2>2. BTypeOK'
    BY <2>1, SameTree DEF BInv, BTypeOK
  <2>3. Committed' /\ NoSilentLoss' /\ Complete'
    BY <2>1, SnapshotsStay
  <2>4. Active' = Active /\ Fresh' /\ CacheFits' /\ \A q \in Runs : Held(q) \subseteq Held(q)'
    <3>1. Files' = Files
      BY <2>1, SameTree
    <3> QED BY <2>1, <3>1, CacheStays DEF BInv, Active, Fresh, Working, Held
  <2>5. UNCHANGED <<kind, source, cached, seen, at, object, hit, err, recorded, errors, masked, blind>>
        /\ \A q \in Runs : phase'[q] = phase[q]
    BY <2>1
  <2> QED BY <2>2, <2>3, <2>4, <2>5, QuietFrame
<1> QED BY <1>1, <1>2, <1>3, <1>4, <1>5, <1>6, <1>7, <1>8, <1>9, <1>10, <1>11 DEF Next

LEMMA BInvHolds == Spec => []BInv
<1>1. Init /\ [][Next]_vars => []BInv
  BY BInvInit, BInvStep, PTL
<1> QED BY <1>1, PTL DEF Spec

-----------------------------------------------------------------------------
\* The least number principle, for sets.
LEMMA LeastNumber ==
    ASSUME NEW T, T \subseteq Nat, T # {}
    PROVE  \E x \in T : \A y \in T : x <= y
<1> DEFINE R == OpToRel(<, Nat)
<1>1. IsWellFoundedOn(R, Nat)
  BY NatLessThanWellFounded
<1>2. \A x, y \in Nat : <<x, y>> \in R <=> x < y
  BY DEF OpToRel
<1> HIDE DEF R
<1>3. PICK x \in T : \A y \in T : ~ (<<y, x>> \in R)
  BY <1>1, WFMin
<1>4. ASSUME NEW y \in T PROVE x <= y
  <2>1. x \in Nat /\ y \in Nat /\ ~ (y < x)
    BY <1>2, <1>3
  <2> QED BY <2>1
<1> QED BY <1>4

\* A sum over a set is the size of a union, where each number is that of a part.
LEMMA SumIs ==
    ASSUME NEW S, IsFiniteSet(S), NEW E, IsFiniteSet(E), NEW c, NEW U,
           \A x \in S : U[x] \subseteq E /\ c[x] = Cardinality(U[x]),
           \A x, y \in S : x # y => U[x] \cap U[y] = {}
    PROVE  SumOver(c, S) = Cardinality(UNION {U[x] : x \in S})
<1> DEFINE A(s) == UNION {U[x] : x \in s}
           some(s) == CHOOSE x \in s : TRUE
           g == [s \in SUBSET S |-> Cardinality(A(s))]
           IsSum(h) == h = [s \in SUBSET S |-> IF s = {} THEN 0 ELSE h[s \ {some(s)}] + c[some(s)]]
           sum == CHOOSE h : IsSum(h)
<1>1. SumOver(c, S) = sum[S]
  BY DEF SumOver, FoldSet, MapThenFoldSet
<1>2. \A s \in SUBSET S : s # {} => some(s) \in s
  OBVIOUS
<1>3. \A s \in SUBSET S : IsFiniteSet(s) /\ IsFiniteSet(A(s)) /\ Cardinality(A(s)) \in Nat
  <2> SUFFICES ASSUME NEW s \in SUBSET S
               PROVE  IsFiniteSet(s) /\ IsFiniteSet(A(s)) /\ Cardinality(A(s)) \in Nat
    OBVIOUS
  <2>1. A(s) \in SUBSET E
    OBVIOUS
  <2> QED BY <2>1, FS_Subset, FS_CardinalityType
<1>4. IsSum(g)
  <2>1. ASSUME NEW s \in SUBSET S, s # {}
        PROVE  g[s] = g[s \ {some(s)}] + c[some(s)]
    <3>1. PICK x \in s : x = some(s)
      BY <1>2, <2>1
    <3>2. PICK t \in SUBSET S : t = s \ {x}
      OBVIOUS
    <3>3. /\ IsFiniteSet(A(t)) /\ IsFiniteSet(U[x]) /\ c[x] = Cardinality(U[x])
          /\ Cardinality(U[x]) \in Nat /\ Cardinality(A(t)) \in Nat
      <4>1. U[x] \in SUBSET E /\ c[x] = Cardinality(U[x])
        OBVIOUS
      <4> QED BY <1>3, <4>1, FS_Subset, FS_CardinalityType
    <3>4. A(s) = A(t) \cup U[x] /\ A(t) \cap U[x] = {}
      <4>1. \A y \in t : U[y] \cap U[x] = {}
        BY <3>2
      <4> QED BY <3>2, <4>1
    <3>5. Cardinality(A(t) \cap U[x]) = 0
      BY <3>4, FS_EmptySet
    <3>6. Cardinality(A(s)) = Cardinality(A(t)) + Cardinality(U[x])
      <4>1. PICK a, b : a = A(t) /\ b = U[x]
        OBVIOUS
      <4>2. IsFiniteSet(a) /\ IsFiniteSet(b) /\ Cardinality(a) \in Nat /\ Cardinality(b) \in Nat
            /\ Cardinality(a \cap b) = 0
        BY <3>3, <3>5, <4>1
      <4>3. Cardinality(a \cup b) = Cardinality(a) + Cardinality(b) - Cardinality(a \cap b)
        BY <4>2, FS_Union
      <4>4. Cardinality(a \cup b) = Cardinality(a) + Cardinality(b)
        BY <4>2, <4>3
      <4>5. A(s) = a \cup b
        BY <3>4, <4>1
      <4> HIDE DEF A
      <4> QED BY <4>1, <4>4, <4>5
    <3>7. g[s] = Cardinality(A(s)) /\ g[t] = Cardinality(A(t))
      BY <2>1
    <3> HIDE DEF A, g, some
    <3> QED BY <3>1, <3>2, <3>3, <3>6, <3>7
  <2>2. g[{}] = 0
    <3>1. A({}) = {}
      OBVIOUS
    <3>2. {} \in SUBSET S
      OBVIOUS
    <3> HIDE DEF A
    <3> QED BY <3>1, <3>2, FS_EmptySet
  <2>3. g = [s \in SUBSET S |-> g[s]]
    OBVIOUS
  <2> HIDE DEF g, some
  <2> QED BY <2>1, <2>2, <2>3
<1>5. IsSum(sum)
  <2> HIDE DEF g, IsSum
  <2> QED BY <1>4
<1>6. \A s \in SUBSET S : sum[s] = IF s = {} THEN 0 ELSE sum[s \ {some(s)}] + c[some(s)]
  <2> HIDE DEF sum, some
  <2> QED BY <1>5
<1>7. \A s \in SUBSET S : g[s] = IF s = {} THEN 0 ELSE g[s \ {some(s)}] + c[some(s)]
  <2> HIDE DEF g, some
  <2> QED BY <1>4
<1>8. \A s \in SUBSET S : sum[s] = g[s]
  <2> HIDE DEF sum, g
  <2> SUFFICES ASSUME NEW t \in SUBSET S, sum[t] # g[t] PROVE FALSE
    OBVIOUS
  <2> DEFINE wrong == {s \in SUBSET S : sum[s] # g[s]}
             sizes == {n \in Nat : \E s \in wrong : Cardinality(s) = n}
  <2>1. \A s \in SUBSET S : Cardinality(s) \in Nat
    BY <1>3, FS_CardinalityType
  <2>2. sizes \subseteq Nat /\ sizes # {}
    BY <2>1
  <2>3. PICK n \in sizes : \A m \in sizes : n <= m
    <3> HIDE DEF sizes
    <3> QED BY <2>2, LeastNumber
  <2>4. PICK s \in wrong : Cardinality(s) = n
    OBVIOUS
  <2>5. s # {}
    <3> HIDE DEF some
    <3> QED BY <1>6, <1>7
  <2>6. PICK x \in s : x = some(s)
    BY <1>2, <2>5
  <2>7. /\ s \ {x} \in SUBSET S
        /\ Cardinality(s \ {x}) = Cardinality(s) - 1
    BY <1>3, FS_RemoveElement
  <2>8. s \ {x} \notin wrong
    <3> SUFFICES ASSUME s \ {x} \in wrong PROVE FALSE
      OBVIOUS
    <3>1. Cardinality(s \ {x}) \in sizes /\ Cardinality(s) \in Nat
      BY <2>1
    <3>2. n <= Cardinality(s \ {x})
      BY <2>3, <3>1
    <3> HIDE DEF sizes, wrong
    <3> QED BY <2>4, <2>7, <3>1, <3>2
  <2>9. sum[s \ {x}] = g[s \ {x}]
    BY <2>7, <2>8
  <2> HIDE DEF some
  <2> QED BY <1>6, <1>7, <2>5, <2>6, <2>9
<1>9. S \in SUBSET S /\ g[S] = Cardinality(A(S))
  OBVIOUS
<1> HIDE DEF sum, g
<1> QED BY <1>1, <1>8, <1>9

\* Paths.

Cut(path, n) == SubSeq(path, 1, n)

LEMMA CutIs ==
    ASSUME NEW e \in Seq(Nat), NEW n \in 0 .. Len(e)
    PROVE  Cut(e, n) \in Seq(Nat) /\ Len(Cut(e, n)) = n /\ \A i \in 1 .. n : Cut(e, n)[i] = e[i]
BY DEF Cut

LEMMA SamePath ==
    ASSUME NEW d \in Seq(Nat), NEW e \in Seq(Nat), Len(d) = Len(e), \A i \in 1 .. Len(d) : d[i] = e[i]
    PROVE  d = e
OBVIOUS

LEMMA CutOfCut ==
    ASSUME NEW e \in Seq(Nat), NEW m \in 0 .. Len(e), NEW n \in 0 .. m
    PROVE  Cut(Cut(e, m), n) = Cut(e, n)
<1>1. PICK c \in Seq(Nat) : c = Cut(e, m) /\ Len(c) = m /\ \A i \in 1 .. m : c[i] = e[i]
  BY CutIs
<1>2. Len(e) \in Nat /\ n \in 0 .. Len(e) /\ n \in 0 .. Len(c)
  BY <1>1
<1>3. PICK x \in Seq(Nat) : x = Cut(c, n) /\ Len(x) = n /\ \A i \in 1 .. n : x[i] = c[i]
  BY <1>2, CutIs
<1>4. PICK y \in Seq(Nat) : y = Cut(e, n) /\ Len(y) = n /\ \A i \in 1 .. n : y[i] = e[i]
  BY <1>2, CutIs
<1>5. \A i \in 1 .. n : x[i] = y[i]
  <2> TAKE i \in 1 .. n
  <2>1. i \in 1 .. m
    OBVIOUS
  <2> QED BY <1>1, <1>3, <1>4, <2>1
<1>6. x = y
  BY <1>3, <1>4, <1>5, SamePath
<1> QED BY <1>1, <1>3, <1>4, <1>6

LEMMA CutAll ==
    ASSUME NEW e \in Seq(Nat)
    PROVE  Cut(e, Len(e)) = e /\ Cut(e, 0) = Root
<1>1. Len(e) \in 0 .. Len(e) /\ 0 \in 0 .. Len(e)
  OBVIOUS
<1>2. PICK x \in Seq(Nat) : x = Cut(e, Len(e)) /\ Len(x) = Len(e) /\ \A i \in 1 .. Len(e) : x[i] = e[i]
  BY <1>1, CutIs
<1>3. x = e
  BY <1>2, SamePath
<1>4. PICK y \in Seq(Nat) : y = Cut(e, 0) /\ Len(y) = 0
  BY <1>1, CutIs
<1>5. y = Root
  BY <1>4 DEF Root
<1> QED BY <1>2, <1>3, <1>4, <1>5

LEMMA PrefixIs ==
    ASSUME NEW d \in Seq(Nat), NEW e \in Seq(Nat)
    PROVE  /\ IsPrefix(d, e) <=> Len(d) <= Len(e) /\ d = Cut(e, Len(d))
           /\ IsStrictPrefix(d, e) <=> Len(d) < Len(e) /\ d = Cut(e, Len(d))
           /\ IsEntryBelow(d, e) <=> Len(e) = Len(d) + 1 /\ d = Cut(e, Len(d))
<1>1. Cut(d, Len(d)) = d
  BY CutAll
<1>2. IsPrefix(d, e) <=> Len(d) <= Len(e) /\ d = Cut(e, Len(d))
  BY <1>1 DEF IsPrefix, Cut
<1>3. Len(d) \in Nat /\ Len(e) \in Nat
  OBVIOUS
<1>4. d = Cut(e, Len(d)) /\ Len(d) = Len(e) => d = e
  BY CutAll
<1>5. IsStrictPrefix(d, e) <=> Len(d) < Len(e) /\ d = Cut(e, Len(d))
  BY <1>2, <1>3, <1>4 DEF IsStrictPrefix
<1>6. IsEntryBelow(d, e) <=> Len(e) = Len(d) + 1 /\ d = Cut(e, Len(d))
  BY <1>2, <1>3 DEF IsEntryBelow
<1> QED BY <1>2, <1>5, <1>6

LEMMA ParentIs ==
    ASSUME NEW e \in Seq(Nat)
    PROVE  Parent(e) = Cut(e, Len(e) - 1)
BY DEF Parent, Front, Cut

-----------------------------------------------------------------------------
\* The errors that a directory shows, its own and those of its subdirectories: all
\* their directories were recorded, and they are among those that count there.
Shown(r, dir) ==
    {e \in errors[r] :
        /\ Len(dir) < Len(e) /\ dir = Cut(e, Len(dir))
        /\ \A n \in Len(dir) + 1 .. Len(e) - 1 : Cut(e, n) \in recorded[r].dirs
        /\ e \in ErrorsIn(r, Cut(e, Len(e) - 1))}

Subs(r, dir) == {sub \in recorded[r].dirs : IsEntryBelow(dir, sub)}

Countable(r) == /\ IsFiniteSet(errors[r]) /\ errors[r] \subseteq Seq(Nat)
                /\ IsFiniteSet(recorded[r].dirs) /\ recorded[r].dirs \subseteq Seq(Nat)

LEMMA ShownIs ==
    ASSUME NEW r, Countable(r), NEW dir \in recorded[r].dirs
    PROVE  /\ Shown(r, dir) = ErrorsIn(r, dir) \cup UNION {Shown(r, sub) : sub \in Subs(r, dir)}
           /\ ErrorsIn(r, dir) \cap UNION {Shown(r, sub) : sub \in Subs(r, dir)} = {}
           /\ \A x, y \in Subs(r, dir) : x # y => Shown(r, x) \cap Shown(r, y) = {}
<1>1. /\ errors[r] \subseteq Seq(Nat) /\ recorded[r].dirs \subseteq Seq(Nat)
      /\ dir \in Seq(Nat) /\ Len(dir) \in Nat
  BY DEF Countable
<1>2. ASSUME NEW e \in Shown(r, dir), e \notin ErrorsIn(r, dir)
      PROVE  \E sub \in Subs(r, dir) : e \in Shown(r, sub)
  <2>1. /\ e \in errors[r] /\ e \in Seq(Nat) /\ Len(e) \in Nat
        /\ Len(dir) < Len(e) /\ dir = Cut(e, Len(dir))
        /\ \A n \in Len(dir) + 1 .. Len(e) - 1 : Cut(e, n) \in recorded[r].dirs
        /\ e \in ErrorsIn(r, Cut(e, Len(e) - 1))
    BY <1>1 DEF Shown
  <2>2. Len(e) # Len(dir) + 1
    <3> SUFFICES ASSUME Len(e) = Len(dir) + 1 PROVE FALSE
      OBVIOUS
    <3>1. Len(e) - 1 = Len(dir)
      BY <1>1
    <3> QED BY <1>2, <2>1, <3>1
  <2>3. Len(dir) + 1 \in 0 .. Len(e) /\ Len(dir) \in 0 .. Len(dir) + 1
        /\ Len(dir) + 1 \in Len(dir) + 1 .. Len(e) - 1 /\ Len(dir) + 1 < Len(e)
    BY <1>1, <2>1, <2>2
  <2>4. PICK sub \in Seq(Nat) : sub = Cut(e, Len(dir) + 1) /\ Len(sub) = Len(dir) + 1
    BY <2>1, <2>3, CutIs
  <2>5. sub \in recorded[r].dirs
    BY <2>1, <2>3, <2>4
  <2>6. dir = Cut(sub, Len(dir))
    BY <2>1, <2>3, <2>4, CutOfCut
  <2>7. sub \in Subs(r, dir)
    BY <1>1, <2>4, <2>5, <2>6, PrefixIs DEF Subs
  <2>8. \A n \in Len(sub) + 1 .. Len(e) - 1 : n \in Len(dir) + 1 .. Len(e) - 1
    BY <1>1, <2>1, <2>4
  <2>9. e \in Shown(r, sub)
    BY <2>1, <2>3, <2>4, <2>8 DEF Shown
  <2> QED BY <2>7, <2>9
<1>3. ASSUME NEW e \in ErrorsIn(r, dir)
      PROVE  /\ e \in Shown(r, dir) /\ Len(e) = Len(dir) + 1
  <2>1. e \in errors[r] /\ e \in Seq(Nat) /\ IsEntryBelow(dir, e)
    BY <1>1 DEF ErrorsIn
  <2>2. Len(e) = Len(dir) + 1 /\ dir = Cut(e, Len(dir))
    BY <1>1, <2>1, PrefixIs
  <2>3. Len(e) - 1 = Len(dir) /\ Len(dir) < Len(e) /\ Len(dir) + 1 .. Len(e) - 1 = {}
    BY <1>1, <2>2
  <2> QED BY <1>3, <2>1, <2>2, <2>3 DEF Shown
<1>4. ASSUME NEW sub \in Subs(r, dir), NEW e \in Shown(r, sub)
      PROVE  e \in Shown(r, dir) /\ sub = Cut(e, Len(dir) + 1) /\ Len(e) > Len(dir) + 1
  <2>1. sub \in recorded[r].dirs /\ sub \in Seq(Nat) /\ IsEntryBelow(dir, sub)
    BY <1>1 DEF Subs
  <2>2. Len(sub) = Len(dir) + 1 /\ dir = Cut(sub, Len(dir))
    BY <1>1, <2>1, PrefixIs
  <2>3. /\ e \in errors[r] /\ e \in Seq(Nat) /\ Len(e) \in Nat
        /\ Len(sub) < Len(e) /\ sub = Cut(e, Len(sub))
        /\ \A n \in Len(sub) + 1 .. Len(e) - 1 : Cut(e, n) \in recorded[r].dirs
        /\ e \in ErrorsIn(r, Cut(e, Len(e) - 1))
    BY <1>1 DEF Shown
  <2>4. Len(dir) + 1 \in 0 .. Len(e) /\ Len(dir) \in 0 .. Len(dir) + 1 /\ Len(dir) < Len(e)
    BY <1>1, <2>2, <2>3
  <2>5. dir = Cut(e, Len(dir))
    BY <2>2, <2>3, <2>4, CutOfCut
  <2>6. ASSUME NEW n \in Len(dir) + 1 .. Len(e) - 1 PROVE Cut(e, n) \in recorded[r].dirs
    <3>1. CASE n = Len(dir) + 1
      BY <2>1, <2>2, <2>3, <3>1
    <3>2. CASE n # Len(dir) + 1
      <4>1. n \in Len(sub) + 1 .. Len(e) - 1
        BY <1>1, <2>2, <2>3, <3>2
      <4> QED BY <2>3, <4>1
    <3> QED BY <3>1, <3>2
  <2>7. e \in Shown(r, dir)
    BY <2>3, <2>4, <2>5, <2>6 DEF Shown
  <2> QED BY <1>1, <2>2, <2>3, <2>7
<1>5. Shown(r, dir) = ErrorsIn(r, dir) \cup UNION {Shown(r, sub) : sub \in Subs(r, dir)}
  BY <1>2, <1>3, <1>4
<1>6. ErrorsIn(r, dir) \cap UNION {Shown(r, sub) : sub \in Subs(r, dir)} = {}
  <2> SUFFICES ASSUME NEW e \in ErrorsIn(r, dir), NEW sub \in Subs(r, dir), e \in Shown(r, sub)
               PROVE  FALSE
    OBVIOUS
  <2>1. Len(e) = Len(dir) + 1 /\ Len(e) > Len(dir) + 1
    BY <1>3, <1>4
  <2> QED BY <1>1, <2>1
<1>7. \A x, y \in Subs(r, dir) : x # y => Shown(r, x) \cap Shown(r, y) = {}
  BY <1>4
<1> QED BY <1>5, <1>6, <1>7

\* A directory whose subdirectories are counted right is.
LEMMA CountStep ==
    ASSUME NEW r, Countable(r), NEW dir \in recorded[r].dirs, NEW h,
           \A sub \in Subs(r, dir) : h[sub] = Cardinality(Shown(r, sub))
    PROVE  Cardinality(ErrorsIn(r, dir)) + SumOver(h, Subs(r, dir)) = Cardinality(Shown(r, dir))
<1> DEFINE U == [sub \in Subs(r, dir) |-> Shown(r, sub)]
<1>1. IsFiniteSet(errors[r]) /\ IsFiniteSet(Subs(r, dir))
  <2>1. Subs(r, dir) \in SUBSET recorded[r].dirs
    BY DEF Subs
  <2> QED BY <2>1, FS_Subset DEF Countable
<1>2. /\ \A x \in Subs(r, dir) : U[x] \subseteq errors[r] /\ h[x] = Cardinality(U[x])
      /\ \A x, y \in Subs(r, dir) : x # y => U[x] \cap U[y] = {}
      /\ UNION {U[x] : x \in Subs(r, dir)} = UNION {Shown(r, sub) : sub \in Subs(r, dir)}
  <2>1. \A x \in Subs(r, dir) : U[x] = Shown(r, x) /\ Shown(r, x) \subseteq errors[r]
    BY DEF Shown
  <2> HIDE DEF U
  <2> QED BY <2>1, ShownIs
<1>3. PICK s, u : s = Subs(r, dir) /\ u = U
  OBVIOUS
<1>4. SumOver(h, Subs(r, dir)) = Cardinality(UNION {U[x] : x \in Subs(r, dir)})
  <2> HIDE DEF U
  <2>1. SumOver(h, s) = Cardinality(UNION {u[x] : x \in s})
    BY <1>1, <1>2, <1>3, SumIs
  <2> QED BY <1>3, <2>1
<1>5. PICK a, b : a = ErrorsIn(r, dir) /\ b = UNION {Shown(r, sub) : sub \in Subs(r, dir)}
  OBVIOUS
<1>6. Shown(r, dir) = a \cup b /\ a \cap b = {}
  BY <1>5, ShownIs
<1>7. IsFiniteSet(a) /\ IsFiniteSet(b) /\ Cardinality(a) \in Nat /\ Cardinality(b) \in Nat
  <2>1. a \in SUBSET errors[r] /\ b \in SUBSET errors[r]
    BY <1>5 DEF ErrorsIn, Shown
  <2> QED BY <1>1, <2>1, FS_Subset, FS_CardinalityType
<1>8. Cardinality(a \cup b) = Cardinality(a) + Cardinality(b) - Cardinality(a \cap b)
  BY <1>7, FS_Union
<1>9. Cardinality(a \cap b) = 0
  BY <1>6, FS_EmptySet
<1>10. Cardinality(a \cup b) = Cardinality(a) + Cardinality(b)
  BY <1>7, <1>8, <1>9
<1>11. SumOver(h, Subs(r, dir)) = Cardinality(b)
  <2> HIDE DEF U
  <2> QED BY <1>2, <1>4, <1>5
<1> QED BY <1>5, <1>6, <1>10, <1>11

\* ErrorCount is well defined, and is the number of errors the root shows.
LEMMA CountIs ==
    ASSUME NEW r, Countable(r), Root \in recorded[r].dirs
    PROVE  ErrorCount(r) = Cardinality(Shown(r, Root))
<1> DEFINE dirs == recorded[r].dirs
           IsCount(h) == h = [dir \in dirs |-> Cardinality(ErrorsIn(r, dir)) + SumOver(h, Subs(r, dir))]
           count == CHOOSE h : IsCount(h)
           g == [dir \in dirs |-> Cardinality(Shown(r, dir))]
<1>1. ErrorCount(r) = count[Root]
  BY DEF ErrorCount, Subs
<1>2. \A dir \in dirs : g[dir] = Cardinality(Shown(r, dir))
  OBVIOUS
<1>3. \A dir \in dirs : Subs(r, dir) \subseteq dirs
  BY DEF Subs
<1>4. IsCount(g)
  <2>1. ASSUME NEW dir \in dirs
        PROVE  g[dir] = Cardinality(ErrorsIn(r, dir)) + SumOver(g, Subs(r, dir))
    <3>1. PICK h : h = g
      OBVIOUS
    <3>2. \A sub \in Subs(r, dir) : h[sub] = Cardinality(Shown(r, sub))
      <4> HIDE DEF g
      <4> QED BY <1>2, <1>3, <3>1
    <3>3. Cardinality(ErrorsIn(r, dir)) + SumOver(h, Subs(r, dir)) = Cardinality(Shown(r, dir))
      BY <3>2, CountStep
    <3> HIDE DEF g
    <3> QED BY <1>2, <3>1, <3>3
  <2>2. g = [dir \in dirs |-> g[dir]]
    OBVIOUS
  <2> HIDE DEF g
  <2> QED BY <2>1, <2>2
<1>5. IsCount(count)
  <2> HIDE DEF g, IsCount
  <2> QED BY <1>4
<1>6. \A dir \in dirs : count[dir] = Cardinality(ErrorsIn(r, dir)) + SumOver(count, Subs(r, dir))
  <2> HIDE DEF count
  <2> QED BY <1>5
<1>7. \A dir \in dirs : count[dir] = g[dir]
  <2> SUFFICES ASSUME NEW some \in dirs, count[some] # g[some] PROVE FALSE
    OBVIOUS
  <2> DEFINE below(d) == {e \in dirs : IsStrictPrefix(d, e)}
             wrong == {d \in dirs : count[d] # g[d]}
             sizes == {n \in Nat : \E d \in wrong : Cardinality(below(d)) = n}
  <2> HIDE DEF count, g
  <2>1. ASSUME NEW d \in dirs
        PROVE  IsFiniteSet(below(d)) /\ Cardinality(below(d)) \in Nat
    <3>1. below(d) \in SUBSET dirs /\ IsFiniteSet(dirs)
      BY DEF Countable
    <3> QED BY <3>1, FS_Subset, FS_CardinalityType
  <2>2. sizes \subseteq Nat /\ sizes # {}
    BY <2>1
  <2>3. PICK n \in sizes : \A m \in sizes : n <= m
    <3> HIDE DEF sizes
    <3> QED BY <2>2, LeastNumber
  <2>4. PICK d \in wrong : Cardinality(below(d)) = n
    OBVIOUS
  <2>5. ASSUME NEW sub \in Subs(r, d) PROVE count[sub] = Cardinality(Shown(r, sub))
    <3>1. sub \in dirs /\ d \in dirs /\ d \in Seq(Nat) /\ sub \in Seq(Nat) /\ IsEntryBelow(d, sub)
      BY DEF Subs, Countable
    <3>2. Len(sub) = Len(d) + 1 /\ d = Cut(sub, Len(d)) /\ Len(d) \in Nat
      BY <3>1, PrefixIs
    <3>3. sub \in below(d) /\ sub \notin below(sub)
      <4>1. Len(d) < Len(sub)
        BY <3>2
      <4>2. IsStrictPrefix(d, sub)
        BY <3>1, <3>2, <4>1, PrefixIs
      <4> QED BY <3>1, <4>2 DEF IsStrictPrefix
    <3>4. below(sub) \subseteq below(d)
      <4> SUFFICES ASSUME NEW e \in dirs, IsStrictPrefix(sub, e) PROVE IsStrictPrefix(d, e)
        OBVIOUS
      <4>1. e \in Seq(Nat) /\ Len(e) \in Nat
        BY DEF Countable
      <4>2. Len(sub) < Len(e) /\ sub = Cut(e, Len(sub))
        BY <3>1, <4>1, PrefixIs
      <4>3. Len(sub) \in 0 .. Len(e) /\ Len(d) \in 0 .. Len(sub) /\ Len(d) < Len(e)
        BY <3>2, <4>1, <4>2
      <4>4. d = Cut(e, Len(d))
        BY <3>2, <4>1, <4>2, <4>3, CutOfCut
      <4> QED BY <3>1, <4>1, <4>3, <4>4, PrefixIs
    <3>5. PICK a, b : a = below(sub) /\ b = below(d)
      OBVIOUS
    <3>6. Cardinality(a) <= Cardinality(b) /\ Cardinality(a) # Cardinality(b)
      <4>1. IsFiniteSet(b) /\ a \in SUBSET b /\ a # b
        BY <2>1, <3>1, <3>3, <3>4, <3>5
      <4> QED BY <4>1, FS_Subset
    <3>7. sub \notin wrong
      <4> SUFFICES ASSUME sub \in wrong PROVE FALSE
        OBVIOUS
      <4>1. Cardinality(below(sub)) \in sizes /\ Cardinality(below(d)) \in Nat
            /\ Cardinality(below(sub)) \in Nat
        BY <2>1, <3>1
      <4>2. /\ n <= Cardinality(a) /\ n = Cardinality(b)
            /\ Cardinality(a) \in Nat /\ Cardinality(b) \in Nat
        BY <2>3, <2>4, <3>5, <4>1
      <4> HIDE DEF below, wrong, sizes
      <4> QED BY <3>6, <4>2
    <3> QED BY <1>2, <3>1, <3>7
  <2>6. d \in dirs /\ count[d] # g[d]
    OBVIOUS
  <2>7. PICK h : h = count
    OBVIOUS
  <2>8. Cardinality(ErrorsIn(r, d)) + SumOver(h, Subs(r, d)) = Cardinality(Shown(r, d))
    BY <2>5, <2>6, <2>7, CountStep
  <2> QED BY <1>2, <1>6, <2>6, <2>7, <2>8
<1> HIDE DEF count, g
<1> QED BY <1>1, <1>2, <1>7

-----------------------------------------------------------------------------
\* Some error is shown, if there is one: of those no directory of which is an error,
\* take the longest, and of its siblings the first.

LEMMA Longest ==
    ASSUME NEW S, IsFiniteSet(S), S \subseteq Seq(Nat), S # {}
    PROVE  \E x \in S : \A y \in S : Len(y) <= Len(x)
<1> DEFINE longer(x) == {y \in S : Len(y) > Len(x)}
           sizes == {n \in Nat : \E x \in S : Cardinality(longer(x)) = n}
<1>1. \A x \in S : IsFiniteSet(longer(x)) /\ Cardinality(longer(x)) \in Nat
  <2> TAKE x \in S
  <2>1. longer(x) \in SUBSET S
    OBVIOUS
  <2> QED BY <2>1, FS_Subset, FS_CardinalityType
<1>2. sizes \subseteq Nat /\ sizes # {}
  BY <1>1
<1>3. PICK n \in sizes : \A m \in sizes : n <= m
  <2> HIDE DEF sizes
  <2> QED BY <1>2, LeastNumber
<1>4. PICK x \in S : Cardinality(longer(x)) = n
  OBVIOUS
<1>5. ASSUME NEW y \in S PROVE Len(y) <= Len(x)
  <2> SUFFICES ASSUME ~ (Len(y) <= Len(x)) PROVE FALSE
    OBVIOUS
  <2>1. Len(x) \in Nat /\ Len(y) \in Nat /\ \A z \in S : Len(z) \in Nat
    OBVIOUS
  <2>2. y \in longer(x) /\ y \notin longer(y) /\ longer(y) \subseteq longer(x)
    BY <2>1
  <2>3. PICK a, b : a = longer(y) /\ b = longer(x)
    OBVIOUS
  <2>4. Cardinality(a) <= Cardinality(b) /\ Cardinality(a) # Cardinality(b)
    <3>1. IsFiniteSet(b) /\ a \in SUBSET b /\ a # b
      BY <1>1, <2>2, <2>3
    <3> QED BY <3>1, FS_Subset
  <2>5. Cardinality(a) \in sizes /\ Cardinality(a) \in Nat /\ Cardinality(b) \in Nat
    BY <1>1, <2>3
  <2>6. n <= Cardinality(a) /\ n = Cardinality(b)
    BY <1>3, <1>4, <2>3, <2>5
  <2> HIDE DEF longer, sizes
  <2> QED BY <2>4, <2>5, <2>6
<1> QED BY <1>5

LEMMA SomeShown ==
    ASSUME NEW r, Countable(r), errors[r] # {}, Root \notin errors[r],
           \A e \in errors[r] : \A n \in 0 .. Len(e) - 1 :
               Cut(e, n) \in recorded[r].dirs \cup errors[r]
    PROVE  Shown(r, Root) # {}
<1> DEFINE E == errors[r]
           top == {e \in E : \A n \in 0 .. Len(e) - 1 : Cut(e, n) \notin E}
<1>1. IsFiniteSet(E) /\ E \subseteq Seq(Nat) /\ \A e \in E : Len(e) \in Nat
  BY DEF Countable
<1>2. ASSUME NEW e \in E PROVE \E n \in 0 .. Len(e) : Cut(e, n) \in top
  <2> DEFINE T == {n \in 0 .. Len(e) : Cut(e, n) \in E}
  <2>1. Len(e) \in T /\ T \subseteq Nat
    <3>1. Len(e) \in 0 .. Len(e) /\ Cut(e, Len(e)) = e
      BY <1>1, CutAll
    <3> QED BY <3>1
  <2>2. PICK n \in T : \A m \in T : n <= m
    <3>1. T # {}
      BY <2>1
    <3> HIDE DEF T
    <3> QED BY <2>1, <3>1, LeastNumber
  <2>3. n \in 0 .. Len(e) /\ Cut(e, n) \in E
    OBVIOUS
  <2>4. Len(Cut(e, n)) = n
    BY <1>1, <2>3, CutIs
  <2>5. ASSUME NEW m \in 0 .. n - 1 PROVE Cut(Cut(e, n), m) \notin E
    <3>1. m \in 0 .. n /\ m \in 0 .. Len(e) /\ ~ (n <= m)
      BY <1>1, <2>3
    <3>2. Cut(Cut(e, n), m) = Cut(e, m)
      BY <1>1, <2>3, <3>1, CutOfCut
    <3>3. m \notin T
      BY <2>2, <3>1
    <3> QED BY <3>1, <3>2, <3>3
  <2> QED BY <2>3, <2>4, <2>5
<1>3. PICK e1 \in top : \A x \in top : Len(x) <= Len(e1)
  <2>1. IsFiniteSet(top) /\ top \subseteq Seq(Nat)
    <3>1. top \in SUBSET E
      OBVIOUS
    <3> QED BY <1>1, <3>1, FS_Subset
  <2>2. top # {}
    BY <1>2
  <2> HIDE DEF top
  <2> QED BY <2>1, <2>2, Longest
<1>4. PICK L \in Nat : L = Len(e1) /\ L - 1 \in Nat
  <2>1. e1 \in Seq(Nat) /\ e1 # Root
    BY <1>1
  <2>2. Len(e1) # 0
    BY <2>1, CutAll
  <2> QED BY <2>1, <2>2
<1>5. PICK p \in Seq(Nat) : p = Cut(e1, L - 1) /\ Len(p) = L - 1
  <2>1. L - 1 \in 0 .. Len(e1) /\ e1 \in Seq(Nat)
    BY <1>1, <1>4
  <2> QED BY <2>1, CutIs
<1> DEFINE siblings == {x \in top : Len(x) = L /\ Cut(x, L - 1) = p}
           names == {x[L] : x \in siblings}
<1>6. PICK e0 \in siblings : \A x \in siblings : e0[L] <= x[L]
  <2>1. \A x \in siblings : x[L] \in Nat
    <3> TAKE x \in siblings
    <3>1. x \in Seq(Nat) /\ L \in 1 .. Len(x)
      BY <1>1, <1>4
    <3> QED BY <3>1
  <2>2. names \subseteq Nat /\ names # {}
    <3>1. e1 \in siblings
      BY <1>4, <1>5
    <3> QED BY <2>1, <3>1
  <2>3. PICK n \in names : \A m \in names : n <= m
    <3> HIDE DEF names
    <3> QED BY <2>2, LeastNumber
  <2> QED BY <2>3
<1>7. /\ e0 \in E /\ e0 \in Seq(Nat) /\ Len(e0) = L /\ Cut(e0, L - 1) = p
      /\ \A n \in 0 .. L - 1 : Cut(e0, n) \notin E
  BY <1>1
<1>8. e0 \in ErrorsIn(r, p)
  <2>1. IsEntryBelow(p, e0)
    BY <1>4, <1>5, <1>7, PrefixIs
  <2> SUFFICES ASSUME NEW d \in E, IsStrictPrefix(p, d), ~ IsEntryBelow(p, d)
               PROVE  StringLess(e0, d)
    BY <1>7, <2>1 DEF ErrorsIn
  <2>2. d \in Seq(Nat) /\ Len(d) \in Nat
    BY <1>1
  <2>3. L - 1 < Len(d) /\ p = Cut(d, L - 1) /\ Len(d) # L
    <3>1. Len(p) < Len(d) /\ p = Cut(d, Len(p)) /\ Len(d) # Len(p) + 1
      BY <1>5, <2>2, PrefixIs
    <3> QED BY <1>4, <1>5, <3>1
  <2>4. L < Len(d) /\ L \in 0 .. Len(d) /\ L - 1 \in 0 .. Len(d) /\ L - 1 \in 0 .. L
    BY <1>4, <2>2, <2>3
  <2>5. PICK n \in 0 .. Len(d) : Cut(d, n) \in top
    BY <1>2
  <2>6. Len(Cut(d, n)) = n
    BY <2>2, CutIs
  <2>7. n <= L
    BY <1>3, <1>4, <2>5, <2>6
  <2>8. n = L
    <3> SUFFICES ASSUME n # L PROVE FALSE
      OBVIOUS
    <3>1. n \in 0 .. L - 1
      BY <1>4, <2>7
    <3>2. Cut(e0, n) = Cut(p, n) /\ Cut(d, n) = Cut(p, n)
      <4>1. PICK k \in 0 .. Len(e0) : k = L - 1 /\ k \in 0 .. Len(d) /\ n \in 0 .. k
        BY <1>4, <1>7, <2>4, <3>1
      <4>2. e0 \in Seq(Nat) /\ k \in 0 .. Len(e0) /\ n \in 0 .. k
        BY <1>7, <4>1
      <4>3. Cut(Cut(e0, k), n) = Cut(e0, n)
        BY <4>2, CutOfCut
      <4>4. Cut(Cut(d, k), n) = Cut(d, n)
        BY <2>2, <4>1, CutOfCut
      <4> QED BY <1>7, <2>3, <4>1, <4>3, <4>4
    <3>3. Cut(d, n) \in E
      BY <2>5
    <3> QED BY <1>7, <3>1, <3>2, <3>3
  <2>9. Cut(Cut(d, L), L - 1) = p
    BY <2>2, <2>3, <2>4, CutOfCut
  <2>10. PICK m \in siblings : m = Cut(d, L)
    BY <2>5, <2>6, <2>8, <2>9
  <2>11. /\ \A i \in 1 .. L : m[i] = d[i]
         /\ \A i \in 1 .. L - 1 : e0[i] = p[i] /\ d[i] = p[i]
    <3>1. \A i \in 1 .. L : m[i] = d[i]
      BY <2>2, <2>4, <2>10, CutIs
    <3>2. L - 1 \in 0 .. Len(e0)
      BY <1>4, <1>7
    <3>3. \A i \in 1 .. L - 1 : Cut(e0, L - 1)[i] = e0[i]
      BY <1>7, <3>2, CutIs
    <3>4. \A i \in 1 .. L - 1 : Cut(d, L - 1)[i] = d[i]
      BY <2>2, <2>4, CutIs
    <3> QED BY <1>7, <2>3, <3>1, <3>3, <3>4
  <2>12. L \in 1 .. L /\ L \in 1 .. Len(e0) /\ L \in 1 .. Len(d)
    BY <1>4, <1>7, <2>4
  <2>13. e0[L] <= d[L] /\ e0[L] \in Nat /\ d[L] \in Nat
    <3>1. m[L] = d[L]
      BY <2>11, <2>12
    <3>2. e0[L] <= m[L]
      BY <1>6, <2>10
    <3> QED BY <1>7, <2>2, <2>12, <3>1, <3>2
  <2>14. CASE e0[L] < d[L]
    <3>1. Min({Len(e0), Len(d)}) = L
      <4>1. L \in {L, Len(d)} /\ \A y \in {L, Len(d)} : L <= y
        BY <1>4, <2>2, <2>4
      <4>2. \A x \in {L, Len(d)} : (\A y \in {L, Len(d)} : x <= y) => x = L
        BY <1>4, <2>2, <2>4
      <4> QED BY <1>7, <4>1, <4>2 DEF Min
    <3>2. \A j \in 1 .. L - 1 : e0[j] = d[j]
      BY <2>11
    <3>3. L \in 1 .. Min({Len(e0), Len(d)})
      BY <2>12, <3>1
    <3> QED BY <2>14, <3>2, <3>3 DEF StringLess
  <2>15. CASE e0[L] = d[L]
    <3>1. \A i \in 1 .. L : e0[i] = m[i]
      <4> TAKE i \in 1 .. L
      <4>1. CASE i = L
        BY <2>11, <2>15, <4>1
      <4>2. CASE i # L
        <5>1. i \in 1 .. L - 1
          BY <1>4, <4>2
        <5> QED BY <2>11, <5>1
      <4> QED BY <4>1, <4>2
    <3>2. m \in Seq(Nat) /\ Len(m) = L
      BY <1>1
    <3>3. e0 = m
      BY <1>7, <3>1, <3>2, SamePath
    <3>4. IsStrictPrefix(e0, d)
      BY <1>7, <2>2, <2>4, <2>10, <3>3, PrefixIs
    <3> QED BY <3>4 DEF StringLess
  <2> QED BY <2>13, <2>14, <2>15
<1>9. e0 \in Shown(r, Root)
  <2>1. Len(Root) = 0 /\ Cut(e0, 0) = Root
    BY <1>7, CutAll DEF Root
  <2>2. Len(Root) < Len(e0) /\ Root = Cut(e0, Len(Root))
    BY <1>4, <1>7, <2>1
  <2>3. ASSUME NEW n \in Len(Root) + 1 .. Len(e0) - 1 PROVE Cut(e0, n) \in recorded[r].dirs
    <3>1. n \in 0 .. L - 1 /\ n \in 0 .. Len(e0) - 1
      BY <1>4, <1>7, <2>1
    <3> QED BY <1>7, <3>1
  <2>4. e0 \in ErrorsIn(r, Cut(e0, Len(e0) - 1))
    BY <1>7, <1>8
  <2> QED BY <1>7, <2>2, <2>3, <2>4 DEF Shown
<1> QED BY <1>9
-----------------------------------------------------------------------------
\* What an index step counts.

\* What is above a path of the source is a directory.
LEMMA AboveIsDir ==
    ASSUME kind \in Trees, NEW e \in Tree, NEW n \in 0 .. Len(e) - 1
    PROVE  e \in Seq(Nat) /\ Cut(e, n) \in Dirs
<1>1. /\ Tree \subseteq Seq(Nat)
      /\ \A path \in Tree \ {Root} : Parent(path) \in Dirs
  BY TreeAssumption DEF Tree, Dirs
<1>2. PICK L \in Nat : L = Len(e)
  BY <1>1
<1>3. ASSUME NEW path \in Tree, Len(path) # 0
      PROVE  Cut(path, Len(path) - 1) \in Dirs
  <2>1. path # Root /\ path \in Seq(Nat)
    BY <1>1, <1>3 DEF Root
  <2> QED BY <1>1, <2>1, ParentIs
<1> DEFINE T == {k \in 0 .. L - 1 : Cut(e, L - 1 - k) \notin Dirs}
<1>4. T = {}
  <2> SUFFICES ASSUME T # {} PROVE FALSE
    OBVIOUS
  <2>1. PICK k \in T : \A j \in T : k <= j
    <3>1. T \subseteq Nat
      OBVIOUS
    <3> HIDE DEF T
    <3> QED BY <3>1, LeastNumber
  <2>2. k \in 0 .. L - 1 /\ Cut(e, L - 1 - k) \notin Dirs
    OBVIOUS
  <2>3. k # 0
    <3>1. Cut(e, L - 1) \in Dirs
      BY <1>2, <1>3, <2>2
    <3> QED BY <1>2, <2>2, <3>1
  <2>4. PICK m \in 0 .. L : m = L - k /\ m - 1 = L - 1 - k /\ m - 1 \in 0 .. m /\ m # 0
    BY <1>2, <2>2
  <2>5. Cut(e, m) \in Dirs
    <3>1. k - 1 \in 0 .. L - 1 /\ ~ (k <= k - 1) /\ L - 1 - (k - 1) = m
      BY <1>2, <2>2, <2>3, <2>4
    <3>2. k - 1 \notin T
      BY <2>1, <3>1
    <3> HIDE DEF Cut
    <3> QED BY <3>1, <3>2
  <2>6. Len(Cut(e, m)) = m /\ Cut(e, m) \in Tree
    BY <1>1, <1>2, <2>4, <2>5, CutIs DEF Dirs
  <2>7. Cut(Cut(e, m), m - 1) \in Dirs
    BY <1>3, <2>4, <2>6
  <2>8. Cut(Cut(e, m), m - 1) = Cut(e, m - 1)
    BY <1>1, <1>2, <2>4, CutOfCut
  <2> QED BY <2>2, <2>4, <2>7, <2>8
<1>5. L - 1 - n \in 0 .. L - 1 /\ L - 1 - (L - 1 - n) = n
  BY <1>2
<1>6. L - 1 - n \notin T
  BY <1>4
<1> HIDE DEF Cut
<1> QED BY <1>1, <1>5, <1>6

\* A directory that was not recorded is among the errors, so the first error has all
\* its directories recorded, up to the root.
LEMMA IndexShows ==
    ASSUME BInv, ErrorsAreShown, NEW r \in Runs, Index(r)
    PROVE  ErrorsAreShown'
<1>1. CASE UNCHANGED snapshots
  BY <1>1 DEF ErrorsAreShown
<1>2. ASSUME phase[r] = "index", Root \notin errors[r],
             NEW new, new.errors = errors[r], new.count = ErrorCount(r),
             snapshots' = [snapshots EXCEPT ![r] = {new}]
      PROVE  ErrorsAreShown'
  <2>1. BTypeOK /\ Working(r)
    BY <1>2 DEF BInv, Working
  <2>2. /\ IsFiniteSet(Tree) /\ Tree \subseteq Seq(Nat) /\ Root \in Dirs
    BY <2>1, TreeAssumption DEF BTypeOK, Tree, Dirs
  <2>3. /\ errors[r] \subseteq Tree /\ recorded[r].dirs \subseteq Dirs
        /\ Dirs \ recorded[r].dirs \subseteq errors[r]
    BY <2>1, ScanParts DEF BInv, BTypeOK, Accounted, Scans
  <2>4. Countable(r)
    <3>1. errors[r] \in SUBSET Tree /\ recorded[r].dirs \in SUBSET Tree
      BY <2>3 DEF Dirs
    <3> QED BY <2>2, <3>1, FS_Subset DEF Countable
  <2>5. Root \in recorded[r].dirs
    BY <1>2, <2>2, <2>3
  <2>6. new.count = Cardinality(Shown(r, Root))
    BY <1>2, <2>4, <2>5, CountIs
  <2>7. errors[r] # {} => Shown(r, Root) # {}
    <3>1. \A e \in errors[r] : \A n \in 0 .. Len(e) - 1 :
             Cut(e, n) \in recorded[r].dirs \cup errors[r]
      BY <2>1, <2>3, AboveIsDir DEF BTypeOK
    <3> QED BY <1>2, <2>4, <3>1, SomeShown
  <2>8. PICK shown \in SUBSET errors[r] : shown = Shown(r, Root)
    BY DEF Shown
  <2>9. /\ IsFiniteSet(errors[r]) /\ IsFiniteSet(shown)
        /\ Cardinality(shown) \in Nat /\ Cardinality(shown) <= Cardinality(errors[r])
        /\ shown # {} => Cardinality(shown) # 0
    <3>1. IsFiniteSet(errors[r])
      BY <2>4 DEF Countable
    <3> QED BY <3>1, FS_Subset, FS_CardinalityType, FS_EmptySet
  <2>10. /\ new.errors # {} => new.count > 0
         /\ new.count <= Cardinality(new.errors)
    <3>1. Cardinality(shown) # 0 => Cardinality(shown) > 0
      BY <2>9
    <3> QED BY <1>2, <2>6, <2>7, <2>8, <2>9, <3>1
  <2>11. \A q \in Runs : snapshots'[q] = IF q = r THEN {new} ELSE snapshots[q]
    BY <1>2, <2>1 DEF BTypeOK
  <2> QED BY <2>10, <2>11 DEF ErrorsAreShown
<1> QED BY <1>1, <1>2 DEF Index

LEMMA ShownStep == BInv /\ ErrorsAreShown /\ [Next]_vars => ErrorsAreShown'
<1> SUFFICES ASSUME BInv, ErrorsAreShown, [Next]_vars PROVE ErrorsAreShown'
  OBVIOUS
<1>1. CASE \E r \in Runs : Index(r)
  BY <1>1, IndexShows
<1>2. CASE ~ \E r \in Runs : Index(r)
  <2>1. CASE Modify \/ Forget \/ UNCHANGED vars
    BY <2>1 DEF Modify, Forget, vars, repoVars, ErrorsAreShown
  <2>2. ASSUME NEW r \in Runs, StartBackup(r) \/ RmSnapshot(r) \/ Import(r) \/ Flush(r) \/ Cancel(r)
                               \/ PersistErrors(r)
        PROVE  ErrorsAreShown'
    <3>1. UNCHANGED snapshots
      BY <2>2 DEF StartBackup, RmSnapshot, Import, Flush, Cancel, PersistErrors, repoVars
    <3> QED BY <3>1 DEF ErrorsAreShown
  <2>3. ASSUME NEW r \in Runs, NEW f \in Files, Scanner(r, f)
        PROVE  ErrorsAreShown'
    <3>1. UNCHANGED snapshots
      BY <2>3 DEF Scanner, Lookup, PutCached, TestCached, Read, TestRead, RecordEntry, repoVars
    <3> QED BY <3>1 DEF ErrorsAreShown
  <2> QED BY <1>2, <2>1, <2>2, <2>3 DEF Next
<1> QED BY <1>1, <1>2

\* The variables of a backup keep their types: in particular an entry is only
\* recorded under the name of a file of the source.
THEOREM BackupTypes == Spec => []BTypeOK
<1>1. BInv => BTypeOK
  BY DEF BInv
<1> QED BY <1>1, BInvHolds, PTL

\* However the goroutines of backup.go:333-480 interleave, whatever fails or is
\* interrupted, whatever the VFS cache holds and whenever files change: a
\* committed snapshot has every file of the source with the version it was listed
\* at and the content of that version, or it or its directory is among the errors
\* of the snapshot.  The exceptions are those NoSilentLoss names: a file changed
\* since may have any part of what it has been, the value of an attribute is lost,
\* and a failure may be overwritten in the variable err the goroutines share.
THEOREM NothingLostSilently == Spec => []NoSilentLoss
<1>1. BInv => NoSilentLoss
  BY DEF BInv
<1> QED BY <1>1, BInvHolds, PTL

\* What a snapshot says of its files can be found, through any number of later
\* backups, removals and runs of maintenance, but for the three exceptions that
\* Complete names: of an attribute only the entry is sure to be there, content
\* taken from the VFS cache may lack a part, and a failure may be overwritten.
THEOREM SnapshotsAreComplete == Spec => []Complete
<1>1. BInv => Complete
  BY DEF BInv
<1> QED BY <1>1, BInvHolds, PTL

\* The summary of the root counts no error twice, and one at least if there is any:
\* an error goes uncounted only behind another in the order of strings, and the
\* first of all has its directories recorded (backup.go:559-682).
THEOREM SomeErrorsAreShown == Spec => []ErrorsAreShown
<1>1. Init => ErrorsAreShown
  BY DEF Init, ErrorsAreShown
<1>2. Init /\ [][Next]_vars /\ []BInv => []ErrorsAreShown
  BY <1>1, ShownStep, PTL
<1> QED BY <1>2, BInvHolds, PTL DEF Spec
=============================================================================
