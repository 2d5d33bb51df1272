------------------------------- MODULE Backup -------------------------------
(***************************************************************************)
(* One backup from the importer to the commit: Snapshot.Backup, with the   *)
(* goroutine per file that looks the file up in the VFS cache, reads it    *)
(* and records its entry, and what all of them share: the cache, which     *)
(* survives the backup, the packer, and the variable err of Backup, which  *)
(* they all assign.                                                        *)
(*                                                                         *)
(* A repository is here the set of blobs it is known to hold.  Repository  *)
(* and Packer say how they get there.                                      *)
(***************************************************************************)
EXTENDS Paths

CONSTANTS
    Backups,         \* how many backups of the same source, one after the other
    Trees,           \* the sources: path -> "dir", "regular", "special", "xattr"
    Content,         \* version -> chunks; a version is a FileInfo and a content
    NoObject,
    MaxConcurrency,  \* scanner goroutines
    Faulty,          \* bound: backups in which files may fail to be scanned or read
    Interruptible,   \* bound: backups that may be interrupted
    MaxScanErrors,   \* bound: paths the importer fails to scan in a backup
    Packs,           \* bound: the types of blobs that may share a packfile
    MaxChanges       \* bound: changes of the source and passes of maintenance

ASSUME TreeAssumption ==
    /\ \A kind \in Trees :
          /\ IsFiniteSet(DOMAIN kind) /\ DOMAIN kind \subseteq Seq(Nat)
          /\ \A path \in DOMAIN kind : kind[path] \in {"dir", "regular", "special", "xattr"}
          /\ Root \in DOMAIN kind /\ kind[Root] = "dir"
          /\ \A path \in DOMAIN kind \ {Root} :
                Parent(path) \in DOMAIN kind /\ kind[Parent(path)] = "dir"
    /\ Backups \in Nat /\ MaxConcurrency \in Nat \ {0} /\ MaxScanErrors \in Nat
    /\ DOMAIN Content = 1 .. Len(Content) /\ 1 \in DOMAIN Content

Runs == 1 .. Backups
Versions == DOMAIN Content

\* Blobs: chunks, objects (the list of their chunks), VFS entries.
Chunk(c)  == [type |-> "chunk", of |-> c]
Object(v) == [type |-> "object", of |-> Content[v]]
EmptyChunk  == [type |-> "chunk", of |-> NoObject]
EmptyObject == [type |-> "object", of |-> {}]

\* Any part of what a file has been from a version to another.
Parts(v, w) == {[type |-> "object", of |-> chunks] : chunks \in SUBSET UNION {Content[u] : u \in v .. w}}
Objects == {EmptyObject} \cup UNION {Parts(v, w) : v, w \in Versions}

\* NoObject is the lack of one.
ASSUME ObjectAssumption == NoObject \notin Objects

\* What an object is made of, and what is said of a file.
ChunksOf(object) == IF object = EmptyObject THEN {EmptyChunk} ELSE {Chunk(c) : c \in object.of}
Entry(f, v, object) == [type |-> "entry", path |-> f, version |-> v, object |-> object]

VARIABLES
    kind,       \* the source: what each path is
    source,     \* file -> its version, a link or an attribute included
    have,       \* blobs the repository knows where to find
    cached,     \* VFS cache: file -> entry, and the objects
    phase,      \* backup -> where Backup is
    seen,       \* backup, file -> the version its record was made of
    at,         \* backup, file -> where its goroutine is
    object,     \* backup, file -> the goroutine's object
    hit,        \* backup, file -> the entry the goroutine took from the cache, if any
    err,        \* backup -> the variable all goroutines share: is it an error?
    handed,     \* backup -> blobs its packer has and the repository does not
    recorded,   \* backup -> directories and file entries in its scan cache
    errors,     \* backup -> paths in its error index
    snapshots,  \* backup -> the snapshot it committed, if any
    removed,    \* snapshots that rm has removed
    masked,     \* history: files whose failure another goroutine overwrote
    blind,      \* history: objects taken from the cache though chunks were missing
    changes

runVars == <<phase, seen, at, object, hit, err, handed, recorded, errors>>
repoVars == <<have, snapshots, removed>>
vars == <<kind, source, cached, runVars, repoVars, masked, blind, changes>>

Tree  == DOMAIN kind
Dirs  == {path \in Tree : kind[path] = "dir"}
Files == Tree \ Dirs

\* The object of a file as it is at a version: its content or value, if it has one.
RightObject(f, v) == IF kind[f] = "special" THEN NoObject ELSE Object(v)

Active == {r \in Runs : phase[r] \in {"import", "scan", "index"}}

Init ==
    /\ kind \in Trees
    /\ source = [f \in Files |-> 1]
    /\ have = {}
    /\ cached = [entry |-> [f \in Files |-> {}], objects |-> {}]
    /\ phase = [r \in Runs |-> "new"]
    /\ at = [r \in Runs |-> [f \in Files |-> "pending"]]
    /\ object = [r \in Runs |-> [f \in Files |-> NoObject]]
    /\ hit = [r \in Runs |-> [f \in Files |-> {}]]
    /\ seen = [r \in Runs |-> source]
    /\ err = [r \in Runs |-> FALSE]
    /\ handed = [r \in Runs |-> {}]
    /\ recorded = [r \in Runs |-> [dirs |-> {}, files |-> <<>>]]
    /\ errors = [r \in Runs |-> {}]
    /\ snapshots = [r \in Runs |-> {}]
    /\ removed = {} /\ masked = {} /\ blind = {} /\ changes = 0

-----------------------------------------------------------------------------
\* The source, and what others do to the repository between two backups.

\* A file changes at any time, while it is being backed up too.
Modify ==
    /\ phase[1] # "new" /\ changes < MaxChanges
    /\ \E f \in Files : /\ source[f] + 1 \in Versions
                        /\ source' = [source EXCEPT ![f] = @ + 1]
    /\ changes' = changes + 1
    /\ UNCHANGED <<kind, cached, runVars, repoVars, masked, blind>>

RmSnapshot(r) ==
    /\ r \notin removed /\ snapshots[r] # {}
    /\ removed' = removed \cup {r}
    /\ UNCHANGED <<kind, source, cached, runVars, have, snapshots, masked, blind, changes>>

\* The blobs of an entry.
BlobsOf(e) == {e} \cup (IF e.object = NoObject THEN {} ELSE {e.object} \cup ChunksOf(e.object))

\* What ListPackfiles says a snapshot needs: of an extended attribute its entry,
\* but not the object and the chunks of its value.
Listed(snapshot) == UNION {IF kind[e.path] = "xattr" THEN {e} ELSE BlobsOf(e) : e \in snapshot.files}

\* Maintenance, under its exclusive lock: BlobExists no longer answers yes for
\* the blobs of packfiles that no snapshot needs.  Others stay: they share one
\* with a needed blob.
Forget ==
    /\ Active = {} /\ changes < MaxChanges
    /\ LET needed == UNION {UNION {Listed(s) : s \in snapshots[r]} : r \in Runs \ removed}
       IN  \E types \in Packs : have' = {b \in have : b \in needed \/ b.type \notin types}
    /\ have' # have
    /\ changes' = changes + 1
    /\ UNCHANGED <<kind, source, cached, runVars, snapshots, removed, masked, blind>>

-----------------------------------------------------------------------------
\* Backup, up to the start of the scanner.  One backup holds the lock at a time
\* here; goroutines of an interrupted one may still be running.
StartBackup(r) ==
    /\ phase[r] = "new" /\ Active = {} /\ \A q \in 1 .. r - 1 : phase[q] # "new"
    /\ phase' = [phase EXCEPT ![r] = "import"]
    /\ UNCHANGED <<kind, source, cached, seen, at, object, hit, err, handed, recorded, errors,
                   repoVars, masked, blind, changes>>

\* importerJob records the directories.
OwnRecords(bad) == Dirs \ bad

\* importerJob.  Its goroutines record directories and errors and hand the rest
\* on, in any order; that commutes with the scanners and with the changes of
\* other files and is one step.  An error at the root aborts: what has not been
\* handed on by then is not.
Import(r) ==
    /\ phase[r] = "import"
    /\ phase' = [phase EXCEPT ![r] = "scan"]
    /\ \E bad \in SUBSET Tree, dropped \in SUBSET Files :
          /\ Cardinality(bad) <= (IF r \in Faulty THEN MaxScanErrors ELSE 0)
          /\ Root \in bad \/ dropped = {}
          /\ errors' = [errors EXCEPT ![r] = bad]
          /\ recorded' = [recorded EXCEPT ![r].dirs = OwnRecords(bad)]
          /\ at' = [at EXCEPT ![r] = [f \in Files |-> IF f \in bad \cup dropped THEN "end"
                                                    ELSE "queued"]]
    /\ seen' = [seen EXCEPT ![r] = source]
    /\ UNCHANGED <<kind, source, cached, object, hit, err, handed, repoVars, masked, blind, changes>>

-----------------------------------------------------------------------------
\* The goroutine of a file.

Go(r, f, from, to) == at[r][f] = from /\ at' = [at EXCEPT ![r][f] = to]

\* The goroutine returns, and its variables are gone.
Return(r, f, from) ==
    /\ Go(r, f, from, "end")
    /\ object' = [object EXCEPT ![r][f] = NoObject]
    /\ hit' = [hit EXCEPT ![r][f] = {}]

\* Slip: an error does not end the goroutine.
FailAndStay(r, f, from) ==
    /\ Go(r, f, from, from)
    /\ UNCHANGED <<object, hit>>
    /\ errors' = IF r \in Active THEN [errors EXCEPT ![r] = @ \cup {f}] ELSE errors

\* recordError, and return.  (When the backup has been interrupted the index is
\* in a closed cache.)
Fail(r, f, from) ==
    /\ Return(r, f, from)
    /\ errors' = IF r \in Active THEN [errors EXCEPT ![r] = @ \cup {f}] ELSE errors

\* A key of the scan cache, put again or for the first time.
With(files, f, e) == [g \in DOMAIN files \cup {f} |-> IF g = f THEN e ELSE files[g]]

\* recordEntry and recordXattr; they fail on a closed cache.
Record(r, f, e) == IF r \in Active THEN [recorded EXCEPT ![r].files = With(@, f, e)] ELSE recorded

\* Slip: what is in the cache is taken to be in the repository.
KnowsCached(r, blob) == {TRUE}

\* BlobExists: a blob that has been handed to the packer is known only once a
\* worker has picked it up.
Knows(r, blob) == IF blob \in have THEN {TRUE}
                  ELSE IF blob \in handed[r] THEN BOOLEAN ELSE {FALSE}

\* (An object or an entry that is there already is put again: no difference here.)
Put(r, blobs) == handed' = [handed EXCEPT ![r] = @ \cup (blobs \ have)]

\* Slip: only the names are compared.
SameName(r, f, e) == e.path = f

\* FileInfo.Equal, of the record and of the cached entry.
Same(r, f, e) == e.version = seen[r][f]

\* An entry with the same FileInfo is taken from the VFS cache, and so is its
\* object.  The record of an attribute has an empty FileInfo: never the same.
Lookup(r, f) ==
    /\ phase[r] = "scan" /\ at[r][f] = "queued"
    /\ Cardinality({g \in Files : at[r][g] \notin {"pending", "queued", "end"}}) < MaxConcurrency
    /\ LET found == IF kind[f] = "xattr" THEN {}
                    ELSE {e \in cached.entry[f] : Same(r, f, e)}
           objects == {e.object : e \in found} \cap cached.objects
       IN  /\ hit' = [hit EXCEPT ![r][f] = found]
           /\ object' = [object EXCEPT ![r][f] = IF objects # {} THEN CHOOSE o \in objects : TRUE
                                                 ELSE NoObject]
           /\ at' = [at EXCEPT ![r][f] = IF objects # {} THEN "cached"
                                         ELSE IF kind[f] = "special" THEN "entry" ELSE "read"]
    /\ UNCHANGED <<kind, source, cached, phase, seen, err, handed, recorded, errors,
                   repoVars, masked, blind, changes>>

\* History: goroutines that failed to read their file and have not yet looked
\* at err when another one sets it to nil.
Overwritten(r) == {g \in Files : at[r][g] = "serialize" /\ object[r][g] = NoObject}

\* A cached object is put if the repository does not have it.  Its chunks are
\* not looked at.
PutCached(r, f) ==
    /\ Go(r, f, "cached", "test")
    /\ Put(r, {object[r][f]})
    /\ err' = [err EXCEPT ![r] = FALSE]
    /\ masked' = masked \cup Overwritten(r)
    /\ UNCHANGED <<kind, source, cached, phase, seen, object, hit, recorded, errors,
                   repoVars, blind, changes>>

\* History: an object taken from the cache, of which the repository lacks a part.
Blind(r, o) == IF ChunksOf(o) \subseteq have \cup handed[r] THEN blind ELSE blind \cup {o}

\* err is tested, whoever assigned it last; then BlobExists is asked about the
\* object that has just been put.
TestCached(r, f) ==
    /\ \/ /\ err[r]
          /\ Fail(r, f, "test")
          /\ UNCHANGED blind
       \/ /\ ~err[r]
          /\ \E known \in Knows(r, object[r][f]) :
                /\ Go(r, f, "test", IF known THEN "entry" ELSE "read")
                /\ blind' = IF known THEN Blind(r, object[r][f]) ELSE blind
          /\ UNCHANGED <<errors, object, hit>>
    /\ UNCHANGED <<kind, source, cached, phase, seen, err, handed, recorded,
                   repoVars, masked, changes>>

\* What chunkify makes of a file listed at version v and read by the time it is
\* at version w.  Nothing is read of a file listed with size zero, and that is
\* the size of every attribute: NewScanXattr leaves its FileInfo empty.
Chunkified(f, v, w) == IF kind[f] = "xattr" \/ Content[v] = {} THEN {EmptyObject}
                       ELSE IF v = w THEN {Object(v)} ELSE Parts(v, w)

\* chunkify assigns object and err.  Its chunks are put as it reads.
Read(r, f) ==
    /\ Go(r, f, "read", "serialize")
    /\ \/ \E o \in Chunkified(f, seen[r][f], source[f]) :
              /\ object' = [object EXCEPT ![r][f] = o]
              /\ Put(r, ChunksOf(o))
              /\ err' = [err EXCEPT ![r] = FALSE]
              /\ masked' = masked \cup Overwritten(r)
       \/ /\ r \in Faulty
          /\ object' = [object EXCEPT ![r][f] = NoObject]
          /\ err' = [err EXCEPT ![r] = TRUE]
          /\ UNCHANGED <<handed, masked>>
    /\ UNCHANGED <<kind, source, cached, phase, seen, hit, recorded, errors, repoVars, blind, changes>>

\* err is tested; then the object is serialized and put, in the cache too.  With
\* err overwritten there is no object: an entry without content for a file, and
\* a nil pointer for an attribute, which ends the process.
TestRead(r, f) ==
    /\ \/ /\ err[r]
          /\ Fail(r, f, "serialize")
          /\ UNCHANGED <<cached, phase, handed, recorded>>
       \/ /\ ~err[r] /\ object[r][f] = NoObject /\ kind[f] = "xattr"
          /\ at[r][f] = "serialize"
          /\ at' = [at EXCEPT ![r] = [g \in Files |-> "end"]]
          /\ phase' = [phase EXCEPT ![r] = "failed"]
          /\ UNCHANGED <<cached, handed, recorded, errors, object, hit>>
       \/ /\ ~err[r] /\ (object[r][f] # NoObject \/ kind[f] # "xattr")
          /\ LET objects == {object[r][f]} \ {NoObject}
             IN  /\ cached' = [cached EXCEPT !.objects = @ \cup objects]
                 /\ Put(r, objects)
          /\ IF kind[f] = "xattr" THEN Return(r, f, "serialize")
             ELSE Go(r, f, "serialize", "entry") /\ UNCHANGED <<object, hit>>
          /\ recorded' = IF kind[f] = "xattr"
                         THEN Record(r, f, Entry(f, seen[r][f], object[r][f]))
                         ELSE recorded
          /\ UNCHANGED <<phase, errors>>
    /\ UNCHANGED <<kind, source, seen, err, repoVars, masked, blind, changes>>

\* The entry is the cached one, if the repository has it, whatever has been read
\* in the meantime, or a new one, which is put, in the cache too.
RecordEntry(r, f) ==
    /\ Return(r, f, "entry")
    /\ \/ \E e \in hit[r][f] :
             /\ TRUE \in Knows(r, e)
             /\ recorded' = Record(r, f, e)
             /\ blind' = IF e.object \in {NoObject, object[r][f]} THEN blind ELSE Blind(r, e.object)
             /\ UNCHANGED <<cached, handed>>
       \/ /\ \A e \in hit[r][f] : FALSE \in Knows(r, e)
          /\ LET new == Entry(f, seen[r][f], object[r][f])
             IN  /\ cached' = [cached EXCEPT !.entry[f] = {new}]
                 /\ recorded' = Record(r, f, new)
                 /\ Put(r, {new})
          /\ UNCHANGED blind
    /\ UNCHANGED <<kind, source, phase, seen, err, errors, repoVars, masked, changes>>

Scanner(r, f) == \/ Lookup(r, f) \/ PutCached(r, f) \/ TestCached(r, f)
                 \/ Read(r, f) \/ TestRead(r, f) \/ RecordEntry(r, f)

\* Snapshot.Close removes the scan cache.
Close(r) == /\ recorded' = [recorded EXCEPT ![r] = [dirs |-> {}, files |-> <<>>]]
            /\ errors' = [errors EXCEPT ![r] = {}]

\* The flusher stores a packfile and indexes it: of what has been handed over,
\* the blobs of some types, for what shares a packfile is up to the workers.  It
\* stops with the backup: PutPackfile fails on the scan cache that Close closes.
Flush(r) ==
    /\ r \in Active
    /\ \E types \in Packs :
          LET packfile == {blob \in handed[r] : blob.type \in types}
          IN  /\ packfile # {}
              /\ have' = have \cup packfile
              /\ handed' = [handed EXCEPT ![r] = @ \ packfile]
    /\ UNCHANGED <<kind, source, cached, phase, seen, at, object, hit, err, recorded, errors,
                   snapshots, removed, masked, blind, changes>>

\* The context is done, and Backup returns.  Its goroutines go on.
Cancel(r) ==
    /\ r \in Interruptible \cap Active
    /\ phase' = [phase EXCEPT ![r] = "canceled"]
    /\ Close(r)
    /\ UNCHANGED <<kind, source, cached, seen, at, object, hit, err, handed,
                   repoVars, masked, blind, changes>>

-----------------------------------------------------------------------------
\* The end of Backup.

\* The scanners are done: the indexes are persisted.
PersistErrors(r) ==
    /\ phase[r] = "scan" /\ \A f \in Files : at[r][f] = "end"
    /\ phase' = [phase EXCEPT ![r] = "index"]
    /\ UNCHANGED <<kind, source, cached, seen, at, object, hit, err, handed, recorded, errors,
                   repoVars, masked, blind, changes>>

\* The errors counted for a directory itself: its errors are scanned in the
\* order of strings, until one is not right below it.
ErrorsIn(r, dir) ==
    {e \in errors[r] :
        /\ IsEntryBelow(dir, e)
        /\ \A d \in errors[r] :
              IsStrictPrefix(dir, d) /\ ~IsEntryBelow(dir, d) => StringLess(e, d)}

\* Slip: the subdirectories are left out.
ErrorCountFlat(r) == Cardinality(ErrorsIn(r, Root))

\* Directories are done in reverse order, the root last, and each adds the
\* summaries of its subdirectories to its own.
SumOver(count, dirs) == FoldSet(LAMBDA dir, sum : sum + count[dir], 0, dirs)

ErrorCount(r) ==
    LET count[dir \in recorded[r].dirs] ==
            Cardinality(ErrorsIn(r, dir)) +
            SumOver(count, {sub \in recorded[r].dirs : IsEntryBelow(dir, sub)})
    IN  count[Root]

Index(r) ==
    /\ phase[r] = "index"
    /\ \/ /\ Root \in errors[r]
          /\ phase' = [phase EXCEPT ![r] = "failed"]
          /\ UNCHANGED <<have, handed, snapshots>>
       \/ /\ Root \notin errors[r]
          /\ phase' = [phase EXCEPT ![r] = "done"]
          /\ have' = have \cup handed[r] \cup {recorded[r].files[x] :
                                x \in {g \in DOMAIN recorded[r].files : kind[g] = "xattr"}}
          /\ handed' = [handed EXCEPT ![r] = {}]
          /\ snapshots' = [snapshots EXCEPT ![r] =
                {[files  |-> {recorded[r].files[f] :
                                f \in {g \in DOMAIN recorded[r].files :
                                         kind[g] = "xattr" \/ Parent(g) \in recorded[r].dirs}},
                  errors |-> errors[r],
                  source |-> seen[r],
                  now    |-> source,
                  count  |-> ErrorCount(r)]}]
    /\ Close(r)
    /\ UNCHANGED <<kind, source, cached, seen, at, object, hit, err, removed, masked, blind, changes>>

Next ==
    \/ Modify \/ Forget
    \/ \E r \in Runs :
          \/ StartBackup(r) \/ RmSnapshot(r) \/ Import(r) \/ Flush(r) \/ Cancel(r)
          \/ PersistErrors(r) \/ Index(r)
          \/ \E f \in Files : Scanner(r, f)

\* Every goroutine that can go on does.
Fairness == \A r \in Runs : /\ WF_vars(Import(r)) /\ WF_vars(PersistErrors(r)) /\ WF_vars(Index(r))
                            /\ WF_vars(\E f \in Files : Scanner(r, f))

Spec == Init /\ [][Next]_vars /\ Fairness

-----------------------------------------------------------------------------
\* A file of the source is in the snapshot, with the version it was listed at and
\* the content of that version, or among its errors.  The exceptions:
\*   - a file that changed after it was listed may have any part of what it has
\*     been until the commit, or nothing if it was listed as empty;
\*   - the value of an attribute is not read at all, and its object is the empty
\*     one (backup.go:837): values are lost, and nothing says so;
\*   - a file may be left out if the directory it is in could not be recorded,
\*     which is among the errors;
\*   - its error may be lost, if another goroutine assigned err at that moment
\*     (backup.go:419, 429).
NoSilentLoss ==
    \A r \in Runs : \A s \in snapshots[r] : \A f \in Files :
        \/ \E e \in s.files :
              /\ e.path = f /\ e.version = s.source[f]
              /\ \/ e.object = RightObject(f, s.source[f])
                 \/ s.now[f] # s.source[f] /\ e.object \in Chunkified(f, s.source[f], s.now[f])
                 \/ kind[f] = "xattr" /\ e.object = EmptyObject
        \/ f \in s.errors \/ Parent(f) \in s.errors
        \/ f \in masked

\* What a snapshot that was not removed says of its files can be found in the
\* repository.  There are three exceptions: the object of an attribute, which
\* maintenance does not count among what a snapshot needs, so that only its entry
\* is sure to be there (snapshot.go:305); content the scanner took from the VFS
\* cache when the repository lacked a part of it (backup.go:428, 459); and a file the
\* scanner could not read in such a case, if another goroutine overwrote that
\* error: its entry may be the cached one, with content that is gone.
Complete ==
    \A r \in Runs \ removed : \A s \in snapshots[r] : \A e \in s.files :
        \/ BlobsOf(e) \subseteq have
        \/ kind[e.path] = "xattr" /\ e \in have
        \/ e.object \in blind /\ {e, e.object} \subseteq have
        \/ e.path \in masked

\* The summary of the root, which is what a user is shown, counts an error if
\* there is one, and never more than there are.
ErrorsAreShown ==
    \A r \in Runs : \A s \in snapshots[r] :
        /\ s.errors # {} => s.count > 0
        /\ s.count <= Cardinality(s.errors)

\* A backup that has started comes to an end.
BackupReturns == \A r \in Runs : phase[r] = "import" ~> phase[r] \in {"done", "failed", "canceled"}
=============================================================================
