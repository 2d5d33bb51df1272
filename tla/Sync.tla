-------------------------------- MODULE Sync --------------------------------
(***************************************************************************)
(* Snapshots that move between repositories: a backup builds the indexes   *)
(* of a snapshot, sync copies snapshots from one repository to another,    *)
(* clone copies a whole repository.  Sync takes no lock and reads what it  *)
(* copies from a repository that may be damaged; clone copies files one by *)
(* one while others commit.                                                *)
(*                                                                         *)
(* A packfile is the set of the blobs one snapshot added.                  *)
(***************************************************************************)
EXTENDS BTree

CONSTANTS
    Kind,           \* the source of the backup: path -> "dir", "regular", "link"
    Chunks,         \* regular file -> its chunks, in order
    Holes,          \* files whose entry the backup left without an object
    Attributed,     \* paths with an extended attribute
    ErrorPaths,     \* paths in the error index
    Garbage,        \* blobs of a snapshot that was removed from the destination
    EmptyChunk,     \* the chunk of an empty file
    NoObject, NoEntry,
    MaxLost,        \* bound: blobs that become unreadable
    MaxCopies,      \* bound: syncs and clones
    MaxReaders      \* bound: commands that read a snapshot

ASSUME SyncAssumption ==
    /\ DOMAIN Kind \subseteq Seq(Nat) /\ IsFiniteSet(DOMAIN Kind)
    /\ Root \in DOMAIN Kind /\ Kind[Root] = "dir"
    /\ \A path \in DOMAIN Kind \ {Root} : Parent(path) \in DOMAIN Kind /\ Kind[Parent(path)] = "dir"
    /\ DOMAIN Chunks = {path \in DOMAIN Kind : Kind[path] = "regular"}
    /\ ErrorPaths \subseteq Seq(Nat)
    /\ NoObject # <<EmptyChunk>>
    /\ {MaxLost, MaxCopies, MaxReaders} \subseteq Nat

Repositories == {"src", "dst", "clone"}
Paths   == DOMAIN Kind
Dirs    == {path \in Paths : Kind[path] = "dir"}
Regular == DOMAIN Chunks

VARIABLES
    errors,     \* the error index of the backup, as it grows
    packs,      \* repository -> snapshot -> the blobs it added
    snaps,      \* repository -> snapshot -> what it says
    lost,       \* repository -> blobs that can no longer be read
    cmd,        \* the command that runs, and how many there were
    sync,       \* the state of sync
    exposed,    \* history: snapshots copied while maintenance swept
    clone       \* the state of clone

repoVars == <<packs, snaps, lost>>
syncVars == <<errors, repoVars, cmd, sync, exposed, clone>>

\* A map with one more entry.
With(map, key, value) == [k \in DOMAIN map \cup {key} |-> IF k = key THEN value ELSE map[k]]

-----------------------------------------------------------------------------
\* What a snapshot is made of.

\* Snapshots, in the order of their times: one that was removed, the one the
\* destination has from the start, and two of the source.
Removed == 0
There   == 1
Former  == 2
Latter  == 3

ObjectOf(path)      == IF path \in Regular \ Holes THEN Chunks[path] ELSE NoObject
Entry(path, object) == [path |-> path, object |-> object]
Attribute(path)     == Entry(path, <<EmptyChunk>>)

\* Backup goes through the directories from the last to the first, and inserts
\* what is in one before the directory itself.
Insertions ==
    LET dirs    == InStringOrder(Dirs)
        of(dir) == InStringOrder({f \in Paths \ Dirs : IsEntryBelow(dir, f)}) \o <<dir>>
    IN  FlattenSeq([i \in DOMAIN dirs |-> of(dirs[Len(dirs) + 1 - i])])

\* The trees of the index as it grows, and the index of the snapshot.
Growing ==
    LET tree[i \in 0 .. Len(Insertions)] ==
            IF i = 0 THEN EmptyTree("path") ELSE Insert(tree[i - 1], Insertions[i], Insertions[i])
    IN  tree

Index == Persist(Growing[Len(Insertions)], [path \in Paths |-> Entry(path, ObjectOf(path))])

EntriesOf(s) == (UNION {ToSet(n.vals) : n \in ToSet(s.vfs.nodes)}) \ {NoEntry}

\* The content of a file or an attribute.
Content(e) == IF e.object = NoObject THEN {}
              ELSE {<<"object", e.object>>} \cup {<<"chunk", c>> : c \in ToSet(e.object)}

\* The blobs of a snapshot; the roots of its indexes count as its header.
Own(id, s) ==
    {<<"header", id>>}
    \cup {<<"node", n>> : n \in ToSet(s.vfs.nodes)}
    \cup {<<"error", path>> : path \in s.errs}
    \cup UNION {{<<"xattr", x>>} \cup Content(x) : x \in s.attrs}
Blobs(id, s) == Own(id, s) \cup UNION {{<<"entry", e>>} \cup Content(e) : e \in EntriesOf(s)}

\* A repository knows where a blob is, even if it cannot be read there.
Located(r)  == UNION Range(packs[r])
Readable(r) == Located(r) \ lost[r]

\* ResolveEntry: the entry, and its object if it has one.
Resolves(r, e) ==
    /\ e # NoEntry
    /\ <<"entry", e>> \in Readable(r)
    /\ e.object = NoObject \/ <<"object", e.object>> \in Readable(r)

ResolvesXattr(r, x) == {<<"xattr", x>>, <<"object", x.object>>} \subseteq Readable(r)

Legible(r, object) == \A i \in DOMAIN object : <<"chunk", object[i]>> \in Readable(r)

\* LocateSnapshotIDs: snapshots that cannot be loaded are left out.
Locate(r) == {id \in DOMAIN snaps[r] : <<"header", id>> \in Readable(r)}

-----------------------------------------------------------------------------
\* A snapshot of the root alone, which the destination has from the start.
Small == [vfs   |-> Persist(Insert(EmptyTree("path"), Root, Root), [path \in {Root} |-> Entry(Root, NoObject)]),
          errs  |-> {}, attrs |-> {}]

Idle == [phase |-> "no", from |-> "src", to |-> "dst", both |-> FALSE, todo |-> {}, known |-> {},
         view  |-> [r \in Repositories |-> {}], id |-> 0, left |-> <<>>, conv |-> <<>>, put |-> {},
         swept |-> FALSE]
NoClone == [phase |-> "no", listed |-> {}, begun |-> {}, failed |-> FALSE]

SyncInit ==
    /\ errors = EmptyTree("string")
    /\ packs = [r \in Repositories |->
                   IF r = "dst" THEN With(With(<<>>, Removed, Garbage), There, Blobs(There, Small)) ELSE <<>>]
    /\ snaps = [r \in Repositories |-> IF r = "dst" THEN With(<<>>, There, Small) ELSE <<>>]
    /\ lost = [r \in Repositories |-> {}]
    /\ cmd = [name |-> "scan", copies |-> 0, readers |-> 0]
    /\ sync = Idle
    /\ exposed = {}
    /\ clone = NoClone

\* (Copies come before a reader, as what makes them worth reading.)
RunCopy(name) == /\ cmd.name = "idle" /\ cmd.readers = 0 /\ cmd.copies < MaxCopies
                 /\ cmd' = [cmd EXCEPT !.name = name, !.copies = @ + 1]
Stop(name) == cmd.name = name /\ cmd' = [cmd EXCEPT !.name = "idle"]

-----------------------------------------------------------------------------
\* The backup at the source.  The goroutines of a backup record errors in any
\* order; at the end the index is persisted.

RecordError(path) ==
    /\ cmd.name = "scan" /\ Find(errors, path) = <<>>
    /\ errors' = Insert(errors, path, path)
    /\ UNCHANGED <<repoVars, cmd, sync, exposed, clone>>

PersistErrors ==
    /\ cmd.name = "scan" /\ \A path \in ErrorPaths : Find(errors, path) # <<>>
    /\ errors' = Persist(errors, [path \in ErrorPaths |-> path])
    /\ cmd' = [cmd EXCEPT !.name = "commit"]
    /\ UNCHANGED <<repoVars, sync, exposed, clone>>

Add(r, id, s, blobs) ==
    /\ snaps' = [snaps EXCEPT ![r] = With(@, id, s)]
    /\ packs' = [packs EXCEPT ![r] = With(@, id, blobs)]

Commit ==
    /\ Stop("commit")
    /\ LET s == [vfs |-> Index, errs |-> ErrorPaths, attrs |-> {Attribute(p) : p \in Attributed}]
       IN  Add("src", Former, s, Blobs(Former, s))
    /\ errors' = EmptyTree("string")
    /\ UNCHANGED <<lost, sync, exposed, clone>>

\* Another backup of the same source: all that is new is its header.
CommitAgain ==
    /\ Former \in DOMAIN snaps["src"] /\ Latter \notin DOMAIN snaps["src"]
    /\ Add("src", Latter, snaps["src"][Former], {<<"header", Latter>>})
    /\ UNCHANGED <<errors, lost, cmd, sync, exposed, clone>>

\* A blob can no longer be read.  (This and maintenance come before a reader.)
Lose(r) ==
    /\ cmd.name = "idle" /\ cmd.readers = 0 /\ r # "clone"
    /\ Cardinality(lost["src"]) + Cardinality(lost["dst"]) < MaxLost
    /\ \E blob \in Readable(r) : lost' = [lost EXCEPT ![r] = @ \cup {blob}]
    /\ UNCHANGED <<errors, packs, snaps, cmd, sync, exposed, clone>>

\* Maintenance at the destination colours the packfiles no snapshot needs: nobody
\* finds a blob there any more.  Sync has no lock that would keep it out.
Colour ==
    LET needed == UNION {Blobs(id, snaps["dst"][id]) : id \in DOMAIN snaps["dst"]}
    IN  /\ cmd.readers = 0
        /\ Removed \in DOMAIN packs["dst"] /\ packs["dst"][Removed] \cap needed = {}
        /\ packs' = [packs EXCEPT !["dst"] = Restrict(@, DOMAIN @ \ {Removed})]
        /\ sync' = [sync EXCEPT !.swept = sync.phase # "no"]
        /\ UNCHANGED <<errors, snaps, lost, cmd, exposed, clone>>

-----------------------------------------------------------------------------
\* Sync.  Both repositories are opened, and their states merged, once.

OpenSync(from, to, both) ==
    /\ RunCopy("sync")
    /\ sync' = [Idle EXCEPT !.phase = "next", !.from = from, !.to = to, !.both = both,
                            !.todo  = Locate(from) \ DOMAIN snaps[to],
                            !.known = DOMAIN snaps[from],
                            !.view  = [r \in Repositories |-> Located(r)]]
    /\ UNCHANGED <<errors, repoVars, exposed, clone>>

\* A failure is logged, and the next snapshot is taken.
Abandon == [sync EXCEPT !.phase = "next", !.id = 0, !.left = <<>>, !.conv = <<>>, !.put = {}]

\* Load, and the nodes of the index that is to be copied.
NextSnapshot(id) ==
    /\ sync.phase = "next" /\ id \in sync.todo
    /\ LET s    == snaps[sync.from][id]
           rest == [Abandon EXCEPT !.todo = @ \ {id}]
           fit  == {<<"header", id>>} \cup {<<"node", n>> : n \in ToSet(s.vfs.nodes)}
       IN  sync' = IF fit \subseteq Readable(sync.from)
                   THEN [rest EXCEPT !.phase = "values", !.id = id,
                                     !.left = Conversions(s.vfs)]
                   ELSE rest
    /\ UNCHANGED <<errors, repoVars, cmd, exposed, clone>>

\* Slip: it is the source that is asked which blobs exist.
MissingAtSource(blobs) == blobs \ sync.view[sync.from]

\* What BlobExists does not find at the destination is put there.
Missing(blobs) == blobs \ (sync.view[sync.to] \cup sync.put)

\* The chunks of an object up to the first that cannot be read.
Prefix(r, object) ==
    {<<"chunk", object[i]>> : i \in {j \in DOMAIN object : Legible(r, SubSeq(object, 1, j))}}

\* persistVFS, for the next value of the index.  An entry that cannot be
\* resolved ends the copy of the snapshot.  A chunk that cannot be read does not:
\* the error is dropped, and the value becomes the zero MAC.
CopyEntry ==
    /\ sync.phase = "values" /\ sync.left # <<>>
    /\ LET e     == Head(sync.left)
           whole == e.object = NoObject \/ Legible(sync.from, e.object)
           copy  == IF whole THEN e ELSE NoEntry
           blobs == IF whole THEN {<<"entry", e>>} \cup Content(e) ELSE Prefix(sync.from, e.object)
       IN  sync' = IF Resolves(sync.from, e)
                   THEN [sync EXCEPT !.left = Tail(@), !.conv = With(@, e, copy),
                                     !.put  = @ \cup Missing(blobs)]
                   ELSE Abandon
    /\ UNCHANGED <<errors, repoVars, cmd, exposed, clone>>

\* persistXattrs; here the error of persistObject is overwritten by the next one.
CopyOfAttribute(x) == IF Legible(sync.from, x.object) THEN x ELSE [x EXCEPT !.object = NoObject]

\* The rest of Synchronize, and Commit.  The error and the attribute index end the
\* copy at the first blob that cannot be read, and the destination may refuse the
\* state.
CommitCopy ==
    /\ sync.phase = "values" /\ sync.left = <<>>
    /\ LET s    == snaps[sync.from][sync.id]
           copy == [s EXCEPT !.vfs   = Persist(@, sync.conv),
                             !.attrs = {CopyOfAttribute(x) : x \in @}]
           whole == /\ \A path \in s.errs : <<"error", path>> \in Readable(sync.from)
                    /\ \A x \in s.attrs : ResolvesXattr(sync.from, x)
       IN  \/ /\ whole
              /\ Add(sync.to, sync.id, copy, sync.put \cup Missing(Own(sync.id, copy)))
              /\ exposed' = IF sync.swept THEN exposed \cup {sync.id} ELSE exposed
           \/ UNCHANGED <<packs, snaps, exposed>>
    /\ sync' = Abandon
    /\ UNCHANGED <<errors, lost, cmd, clone>>

\* "with" goes on in the other direction, with what the source did not have at
\* first.
Turn ==
    /\ sync.phase = "next" /\ sync.todo = {} /\ sync.both
    /\ sync' = [sync EXCEPT !.from = sync.to, !.to = sync.from, !.both = FALSE,
                            !.todo = Locate(sync.to) \ sync.known]
    /\ UNCHANGED <<errors, repoVars, cmd, exposed, clone>>

EndSync ==
    /\ sync.phase = "next" /\ sync.todo = {} /\ ~sync.both
    /\ sync' = Idle
    /\ Stop("sync")
    /\ UNCHANGED <<errors, repoVars, exposed, clone>>

-----------------------------------------------------------------------------
\* Clone.  It lists and copies the packfiles, then the states; a file that cannot
\* be copied is left out with a message.

Copied(listed) == {listed} \cup {listed \ {f} : f \in listed}

StartClone ==
    /\ RunCopy("clone") /\ packs["clone"] = <<>>
    /\ clone' = [NoClone EXCEPT !.phase = "packfiles", !.listed = DOMAIN packs["src"],
                                !.begun = DOMAIN snaps["src"]]
    /\ UNCHANGED <<errors, repoVars, sync, exposed>>

ClonePackfiles ==
    /\ clone.phase = "packfiles"
    /\ \E ok \in Copied(clone.listed) :
          /\ packs' = [packs EXCEPT !["clone"] = Restrict(packs["src"], ok)]
          /\ clone' = [clone EXCEPT !.phase = "states", !.failed = @ \/ ok # clone.listed]
    /\ lost' = [lost EXCEPT !["clone"] = lost["src"]]
    /\ UNCHANGED <<errors, snaps, cmd, sync, exposed>>

CloneStates ==
    /\ clone.phase = "states"
    /\ \E ok \in Copied(DOMAIN snaps["src"]) :
          /\ snaps' = [snaps EXCEPT !["clone"] = Restrict(snaps["src"], ok)]
          /\ clone' = [clone EXCEPT !.phase = "done", !.failed = @ \/ ok # DOMAIN snaps["src"]]
    /\ Stop("clone")
    /\ UNCHANGED <<errors, packs, lost, sync, exposed>>

SyncNext ==
    \/ \E path \in ErrorPaths : RecordError(path)
    \/ PersistErrors \/ Commit \/ CommitAgain \/ Colour
    \/ \E r \in Repositories : Lose(r)
    \/ \E from, to \in {"src", "dst"}, both \in BOOLEAN :
          from # to /\ (both => from = "src") /\ OpenSync(from, to, both)
    \/ \E id \in sync.todo : NextSnapshot(id)
    \/ CopyEntry \/ CommitCopy \/ Turn \/ EndSync
    \/ StartClone \/ ClonePackfiles \/ CloneStates

-----------------------------------------------------------------------------
\* The tree of an index is a sorted list: the iterators and Find agree on what
\* was inserted, in whatever order the goroutines did, and the copy Persist makes
\* for a store that never rewrites a node, from the last leaf to the first, is
\* the same list.
TreesSound ==
    /\ Sound(errors, ErrorPaths)
    /\ cmd.name = "commit" => ToSet(Keys(errors)) = ErrorPaths
    /\ cmd.name = "idle" =>
          \A id \in DOMAIN snaps["dst"] : Sound(snaps["dst"][id].vfs, Paths \cup {d \o <<0>> : d \in Dirs})

\* A copy says what the snapshot says, and its blobs are at the destination.  Two
\* things it may lack: an entry, or the value of an attribute, that had a chunk
\* the source could not read (synchronize.go:72, 124), which is not reported; and
\* blobs maintenance dropped while the copy was made (sync.go:303).  What is in a
\* clone and was committed before the clone began is whole if all files could be
\* copied.
CopyFaithful ==
    LET lacks(x, r) == x.object # NoObject /\ ~Legible(r, x.object)
        same(id, r, q) ==
            LET was  == Pairs(snaps[r][id].vfs)
                is   == Pairs(snaps[q][id].vfs)
            IN  /\ snaps[q][id].errs = snaps[r][id].errs
                /\ Len(is) = Len(was)
                /\ \A i \in DOMAIN is : /\ is[i][1] = was[i][1]
                                        /\ \/ is[i][2] = was[i][2]
                                           \/ (is[i][2] = NoEntry /\ lacks(was[i][2], r))
                /\ {x.path : x \in snaps[q][id].attrs} = {x.path : x \in snaps[r][id].attrs}
                /\ \A x \in snaps[q][id].attrs :
                      x \in snaps[r][id].attrs \/ (x.object = NoObject /\ lacks(Attribute(x.path), r))
    IN  /\ \A id \in DOMAIN snaps["src"] \cap DOMAIN snaps["dst"] :
              /\ IF id = There THEN same(id, "dst", "src") ELSE same(id, "src", "dst")
              /\ id = There \/ id \in exposed \/ Blobs(id, snaps["dst"][id]) \subseteq Located("dst")
        /\ clone.phase = "done" /\ ~clone.failed =>
              \A id \in clone.begun : /\ id \in DOMAIN snaps["clone"]
                                      /\ Blobs(id, snaps["clone"][id]) \subseteq Located("clone")
=============================================================================
