# plakar: TLA+ specifications

These modules specify what decides whether what plakar was given can be had
again: how several machines share one immutable store, how a backup reads its
source and deduplicates against others, how locks keep maintenance apart from
backups and how maintenance forgets what nobody needs, how snapshots are
copied, checked and restored, what stores and importers do when they fail, and
what a user is told by an agent.  TLC checks them on small instances; TLAPS
proves all of these properties but the four that say something ends, for every
number of machines, processes, blobs, files, clients and failures.

Paths below are relative to `src/`.

    tlasany M.tla                         parse a module
    tlc -workers 2 -config X.cfg M        check X (the table of runs names M)
    tlapm MaintenanceProofs.tla           check proofs

## 1. The system

A *store* (a directory, a bucket, a database, a server) holds immutable files:
one configuration, *packfiles* full of blobs, *state files* that say which blob
is where and what is deleted, and the one kind of file that is rewritten,
*locks*.  No process talks to another through anything but the store, except
that the commands of one machine share a cache, and that clients hand their
commands to the agent of the machine.

| Part | State it keeps | Operations | Works with |
|---|---|---|---|
| Aggregated state (`repository/state`) | rows: state files merged, blob locations, packfile entries, tombstones | merge a state file, index, tombstone, list, collect orphans | a cache (repository or scan cache) |
| Repository (`repository/repository.go`) | aggregated state of the machine | open (`New`, `RebuildState`), put and get states, packfiles, locks; `DeleteSnapshot`, `PutCurrentState` | store, state, caches |
| Local caches (`caching`) | leveldb per machine and repository: repository, VFS, maintenance; per backup: scan | get, put, iterate | every command of the machine |
| Backup (`snapshot/backup.go`) | header, delta state and its scan cache, errors, trees being built | `Backup`, `Commit`, hourly `flushDeltaState`, `PutPackfile` | packer, repository, lock, importer, VFS cache |
| Packer (`snapshot/packer.go`) | two channels, blobs in flight, one packfile per worker | `PutBlobIfNotExists`, workers, flusher, `Wait` | backup, repository |
| Locks (`repository/lock.go`, `Snapshot.Lock`, `Maintenance.Lock`) | one file per process | lock, refresh, kick a stale lock, unlock | store |
| Maintenance (`cmd/plakar/subcommands/maintenance`) | cache of snapshot and packfiles, cutoff | `updateCache`, `colourPass`, `sweepPass` | repository, lock |
| rm, sync, clone (`cmd/plakar/subcommands`, `snapshot/synchronize.go`) | none | tombstone a snapshot; copy one, or all files, to another repository | two repositories |
| B+tree (`btree`), VFS (`snapshot/vfs`) | nodes in a store or a cache | insert, scan, persist, lookup, read, seek | backup, sync, readers |
| Restore, check, archive (`snapshot`) | hard links seen, goroutines | walk a snapshot and read its files | VFS, repository, events |
| Packfile and file format (`packfile`, `storage/serialization.go`, `encryption`) | an index, a MAC | lay out, serialise, read back | packer, repository, store |
| Agent (`agent`, `cmd/plakar`) | a socket, connections, one receiver of events per command | dial, hand over, forward, answer | clients, caches, every command |
| Scheduler (`scheduler`) | a loop per task | backup, maintenance, sync, check, restore at intervals | every command |
| Storage (`storage`, `server/httpd`) | files, rows, objects, requests | create, open, put, get, list, delete | outside world |
| Importers (`snapshot/importer`) | a channel of paths, one of results | walk, look | outside world, backup |
| Exporters, API, UI, FUSE mount, other commands | none | read | repository |

Interactions that matter:

* **Commands of a machine share its cache.**  Run concurrently, they run in the
  machine's agent (a second process is refused the cache, `ErrInUse`).  What a
  backup indexes is in the shared cache at once and in the store only with its
  next state file, an hour or a `Commit` later.  Another backup of the machine
  deduplicates against the cache.
* **Machines share the store only.**  They learn from each other when they open
  the repository, and not while a command runs.
* **Within a backup**, an importer's goroutines send paths to the scanners, these
  hand blobs to packer workers over a channel, the workers hand packfiles to one
  flusher over another, and a ticker swaps the delta state under the flusher's
  feet.
* **Locks are files.**  There is no compare-and-swap: everybody writes its own
  and then reads the others.  sync takes none.
* **A client waits for the agent's handler**, the handler for the goroutine that
  forwards events, that one for the client to read.

What is hard here, and the properties that make each part correct:

| Part | What makes it hard | What makes it correct |
|---|---|---|
| State, repository | merges in any order, two openers at once, deaths between storing, indexing and pushing | no location ever points outside the store (`IndexSound`) |
| Backup, repository side | deduplication against what others have indexed and not pushed; a flush at any moment; a failed push is only logged | a successful backup is complete at home (`HomeComplete`), and from everywhere unless a location was lost (`Accounted`) |
| Backup, source side | files that change at any moment or cannot be read, a cache of what earlier backups saw, goroutines that share a variable, early returns | no file goes missing silently (`NoSilentLoss`), what a snapshot says can be found (`Complete`), errors are shown (`ErrorsAreShown`), it returns (`BackupReturns`) |
| Packer | two workers, one blob; a flusher that deletes in-flight entries meanwhile; full channels; a flusher that stops | nothing accepted is lost (`NothingLost`, `InflightIsPacked`), closed means stored (`IsBlobSink`), it closes (`CommitReturns`) |
| Locks | no atomicity over two files; stale locks deleted by name; refreshes that fail; deaths | a reader-writer lock (`IsRWLock`, `Exclusion`, `HolderIsVisible`), and dead locks go (`DeadLocksGo`) |
| Maintenance | works on an old view; a cache of its own on each machine, which survives runs; blobs in two packfiles; failures between and within passes; a grace period | what nobody removed stays restorable (`NamedRetained`; `ActiveRetained` is what the manual says, and does not hold); sweeping hides nothing (`OnlyColoursHide`); removals last (`RemovedStaysHidden`) |
| B+tree | splits at any insertion order, rightward links, a copy from the last leaf to the first | a sorted list in every view of it (`TreesSound`) |
| Sync, clone | a damaged source, maintenance and commits meanwhile, no lock | a copy says what the original says and has its blobs (`CopyFaithful`) |
| Restore, check, archive | goroutines that share a table of links, damage found half-way | each file is as it was or reported (`RestoreAccounts`, `CheckTells`, `ArchiveWhole`) |
| Packfile, object reader | offsets across a header, a MAC of unknown place, reads of any size; chunks of any length, and a size that is not their sum | what was written is read, or an error (`ReadBack`); the position told is the one read from (`ReaderSound`) |
| Stores | six ways to fail, half-written files, requests without an answer, racing creations | files appear whole (`IsFileStore`), listings miss nothing (`ListsAll`), locks can be refreshed (`RefreshIsSeen`), one creator (`OneCreation`) |
| Importers | walkers and workers that end in any order, directories that cannot be read | every path is a record or an error (`ScanComplete`) |
| Agent | processes that end with commands under way, caches that are taken, clients that go | the exit status is the truth (`StatusTells`), nobody waits for ever (`CommandsEnd`) |
| Scheduler | retention by name and age after backups that fail, tasks that meet at the lock | the last snapshot stays (`KeepsOne`), maintenance gets its turn (`DeadLocksGo`) |

`PROJECT.json` lists every component with its sources and status, and under
`hazards` each hard spot of the code at its line.

## 2. The modules

    LocalState  <--  Repository  <--  Maintenance          pure operators; the
                         |                 |     ^          system; its garbage
                         |                 |     |          collection
                         |                 |   MaintenanceProofs
                     (relies on)       (relies on)
                         v                 v
        FileStore    BlobSink           RWLock              what is promised
            ^            ^                 ^
        (refines)    (refines)         (refines)
         Storage       Packer           RepoLock            how the code does it
            |            |                 |   ^
      StorageProofs PackerProofs   RepoLockProofs  \ (INSTANCE)
                                                Scheduler

    Paths  <--  Backup  <--  BackupProofs                   the source of a backup
    Paths  <--  BTree  <--  Sync  <--  Readers              indexes, copies, and who
                  ^                      ^                  reads them
              TreeProofs      <--    CopyProofs
    Agent, Scheduler, Importer,                             what is around it,
    Packfile, ObjectReader  <--  ServiceProofs              and reading back

`MCRepository`, `MCMaintenance`, `MCPacker`, `MCRepoLock`, `MCBackup`,
`MCStorage`, `MCCopies` (Readers and all below it) and `MCService` (Agent,
Scheduler, Importer, Packfile, ObjectReader) instantiate them for TLC.

**LocalState** (`repository/state/state.go`, `caching/repository.go`).  A state
is a record of locations (blob, packfile), packfile entries and tombstones, and
the operators are the methods of the code.  A snapshot's header is an item like
any blob.  What the code tells apart and a reader may not expect is kept:
`BlobExists` wants a packfile that is known *and* not coloured, `ListSnapshots`
only one that is known; a tombstone overwrites the one before whatever the
times are.  Left out: offsets, versions, configuration entries.

**Repository** (`repository/repository.go`, `snapshot/backup.go`, `rm`).  The
store is `states`/`published`/`packfile`, a machine's cache `cache`/`known`/
`cookie`; the rest belongs to processes, one per command.

| Action | Code |
|---|---|
| `ListStates`, `InsertState`, `Opened` | `New`: `RebuildState` lists, merges state by state; then the cookie and its `PutCurrentState` |
| `StartBackup` | `Backup` up to the shared lock |
| `PutBlob`, `PutHeader` | `PutBlobIfNotExists`, and `PutBlob` of objects and entries that have just been made; the header in `Commit` |
| `StorePackfile`, `IndexPackfile` | the two halves of `Snapshot.PutPackfile` |
| `SwapDelta`, `PushDelta` | `flushDeltaState` on a tick |
| `Commit` | the end of `Commit`: packer empty, last state pushed, lock released |
| `Crash` | the process dies, or `Backup` returns early |
| `Rm` | `DeleteSnapshot` |

`needs`, `acked`, `removed` and `lost` are history variables: what each snapshot
consists of, which backups reported success and on which machine, which
snapshots were removed, and which locations a machine had indexed and will
never push (the backup died, or the push failed).

A backup that has read a file puts its object and its entry without asking whether
the repository has them (`snapshot/backup.go:445`, `477`); chunks, and objects the VFS
cache knows, are asked for first.  `Rewritten` are the blobs of the first kind: they
may be in the cache and be stored again, and are in two packfiles from then on.

**Maintenance** (`maintenance.go`, `caching/maintenance.go`) adds the passes of a
run to Repository: `StartMaintenance` (the lock, the listing), `IndexSnapshot` or
`FailSnapshot` per snapshot, `ForgetRemoved`, `Colour`, `Sweep`, `PushSwept`, and
`Abort` between any two of them.  `pc = "exclusive"` is the exclusive lock: that
it excludes is what RepoLock shows.  What `ListPackfiles` yields is not what a
snapshot needs (`snapshot/snapshot.go:231`): the objects and chunks of attributes,
`Attached`, are not in it, and its four iterators stop at a node they cannot read
(`Nodes`) without a word, as nobody asks for their error (lines 253, 292, 309, 342).
So a listing is `Named` or what comes before such a node (`Listings`), and one
packfile is chosen for each of its items among all that hold it (`Resolutions`).
`Maintainers` are the machines that run maintenance, `CanFailRead` lets the store
fail to give a blob.

**RepoLock** has one action per access to the store: write the own lock, list,
read one, delete a stale one, refresh, delete the own.  Any of those may fail
when `CanFail`.  Time is discrete; `Late` names the places where a live process
may be so slow that its own lock becomes stale.  `Unlock` only tells the ping
goroutine, which deletes the lock when it runs, or never if the process ends
first (`Crash`).  **RWLock** is the lock that backups and maintenance believe
they have.

**Packer** has one action per access of a goroutine to something shared: a
channel, the map of blobs in flight, the repository.  In particular `Load` and
`Store` on the map are two steps (`LoadInflight`, `Pack`).  **BlobSink** is what a
packer promises: it takes blobs, stores them, and is closed only when all are
stored.

**Backup** (`snapshot/backup.go`) is the other side of a backup: `Import` takes
the importer's records, one `Scanner` per file goes through lookup in the VFS
cache, `PutCached`, `TestCached`, `Read` (`chunkify`), `TestRead` and
`RecordEntry`, with the variable `err` the goroutines share; `PersistErrors`
and `Index` make the error list and the summaries; `Return`, `Cancel` and `Close`
are the ways to end early, which leave goroutines behind.  Files change at any moment,
between the listing and the reading and while they are read too: the object of such
a file has any part of what the file has been since it was listed (`Chunkified`).
They cannot be read, or the backup is interrupted in the middle; snapshots are
removed and what nobody needs is dropped between backups.  Blobs are chunks, objects and
entries of a file; the packer is a set of blobs on their way (`Packer` shows
why), in packfiles that become known one after the other.

**Paths** is the order of the indexes (`PathCmp`), **BTree** (`btree`) the tree as
nodes with links, and recursive functions over them, as the code builds and walks
it: `Insert`, `Find`, the forward, backward and depth-first iterators, and `Persist`.
**Sync** builds the indexes of a snapshot with them, and copies it: `synchronize.go`
entry by entry in the order in which `Persist` asks for them, `sync.go` in its
three directions, `clone.go` file by file.  Between any two steps a source may
lose a blob, maintenance at the destination may colour what nobody there uses,
another snapshot may be committed.  **Readers** adds restore, with its goroutines
and table of hard links, check in its two forms, and archive, all over the
snapshots Sync has made.  No copy begins once a command has read: what was told is
of the repository as it was read, and the next sync may bring it what it lacked.

**Packfile** has files as sequences of cells: `AddBlob`, the index, the footer, the
pieces of an encrypted stream, header and MAC, then damage, then the reader that
hands out all but what may be the MAC, and `GetPackfile` and `GetPackfileBlob`.
The store may give a read less than it asked for, or nothing, and the last cells are
kept back as they may be the MAC: with no more than these left the loop of
`deserializeReader.Read` goes round for ever (`spinning`).
**ObjectReader** is `snapshot/vfs/reader.go`, `Read` and the three kinds of `Seek`,
bugs included.  Its `size` is that of the listing, which `Seek` takes for the end, and
its `chunks` what was read: nothing makes the one the sum of the others.

**Storage** has all six backends: a call is begun, goes through the steps in
which another process can see it, and is answered, or fails with or without its
effect.  The HTTP backend is a client, a handler that outlives it, and a file
system behind them.  **FileStore** is what everything above takes a store to be.

**Importer** has the walkers and workers of the four importers over one tree, each
channel operation a step.  **Agent** has one action per message between client and
handler, per event, and per end of a process, and who has which cache open.
**Scheduler** runs backup, maintenance and synchronisation tasks over the actions of
RepoLock: what becomes of the lock is no assumption here, and that maintenance
comes back to it is none either.

Definitions called `...Late`, `...Early`, `Forget...` and so on whose comment
starts with *Slip* are not the code: each is the code with one plausible mistake
(a dropped guard, a swapped order, an off-by-one), and the property named with it
in `PROJECT.json` fails when it replaces the definition next to it.

## 3. What TLC checks

Runs that pass:

| Run | Instance | What it shows |
|---|---|---|
| `MCRepository` | one machine, two processes, one blob that both back up and may store twice; deaths, refused state files, one flush per backup, a removal | `IndexSound`, `HomeComplete`, `Accounted` |
| `MCSequential` | two machines, one command at a time: two backups, of an object that may be stored twice or of the value of an attribute, a removal, three maintenance runs on one of them that may be cut short, time to pass the grace period | `NamedRetained` |
| `MCConcurrent` | one machine, two commands at a time, refused state files, failed reads, maintenance cut short | `OnlyColoursHide`, `RemovedStaysHidden`, `IndexSound` |
| `MCLock` | two backups, two maintenance runs, deaths, every operation may fail, TTL 2 | `Exclusion`, `HolderIsVisible`, `IsRWLock` |
| `MCPacker` | two clients that share a blob, two workers, channels of 2 and 1, packfiles of two blobs, a flusher that may fail | `NothingLost`, `InflightIsPacked`, `IsBlobSink`, `CommitReturns` |
| `MCBackup` | two backups of four paths that share a chunk, one of them a special file or an attribute; a change at any moment, a read that fails, an interruption, an importer that reports an error, a removal | `NoSilentLoss`, `Complete`, `ErrorsAreShown`, `BackupReturns` |
| `MCStorage` | six backends, two workers, a lock and a state in buckets of their own; creation, two writes, a fault or death | `ListsAll`, `RefreshIsSeen`, `OneCreation`, `IsFileStore` |
| `MCCopies` | six paths, hard links, a file left without an object, five errors, trees of order 3; a lost blob, maintenance, one sync or clone, one reader | `TreesSound`, `CopyFaithful`, `RestoreAccounts`, `CheckTells`, `ArchiveWhole` |
| `MCService` | five parts: two clients and an agent; a backup and a maintenance task; four importers over eight paths and a link; a packfile of up to three blobs; files of up to three chunks, listed with any size up to four | `StatusTells`, `CommandsEnd`; `KeepsOne`, `DeadLocksGo`; `ScanComplete`; `ReadBack`; `ReaderSound` |

Runs that find a counterexample, each a finding (section 5): `MCStaleView`,
`MCTwoCaches`, `MCFlusherGone`.

The largest passing runs have 5 867 113 (`MCSequential`), 2 397 661 (`MCRepository`),
1 379 108 (`MCConcurrent`) and 391 742 (`MCBackup`) states.

### Bounds, and why they are enough

* **Two processes on one machine.**  Each race in the code is between two: two
  backups that share a blob, two openers, a backup and `rm`, a backup and the
  flush of another.  The proofs cover any number.
* **One shared blob, and the headers.**  Whether a snapshot is complete is asked
  blob by blob, and no action relates two blobs except by packing them together
  or apart; the header and the blob are the two items for which that happens.
* **Packfiles and state files**: `k1..k4` are as many as two backups can fill.
  With fewer packfiles or state files than a run could write (`k1..k3` and
  `i1`, `i2` in `MCRepository`, three and three in `MCConcurrent`) a process that finds none left must fail, die or wait.  Three
  packfiles hold what two backups store when one packs blob and header together
  or is deduplicated.  `MCSequential` has seven state files, enough for two
  backups, a removal and runs that colour and sweep.
* **`MaxTicks = 1`**: one flush splits a backup's locations over two state files,
  and leaves the last one to `Commit`.
* **`MaxTime`, `Grace`, `MaxRuns`**: colour in one run, sweep in the next.  In
  `MCSequential` the grace period is one and the clock goes to one: a run comes before
  or exactly at the cutoff of what was coloured.  In `MCConcurrent` there is no
  grace, so that what a run colours is due as soon as its machine has merged it, in
  that run or the next.  `MCStaleView` and `MCTwoCaches` need a colour only, and their
  grace period never passes.
* **One machine that maintains, three runs** (`MCSequential`).  With two machines that
  maintain, the same instance loses a blob in the third run: that is `MCTwoCaches`.
  It loses one in the first, within 20 steps, with `CanFailRead`, and with one machine
  `ActiveRetained` fails as soon where a snapshot has an attribute.
* **TTL**: 2 lets a lock be fresh, aging and stale, 3 (`MCService`) also lets one be
  refreshed in time or not.  The code refreshes at half the TTL.
* **`Removable = {s1}`, once.**  Snapshots made after the removal can be
  deduplicated against it, and are.
* **Backup**: two backups, one after the other as one of them holds the lock; the
  goroutines of an interrupted one run on beside the next.  The first backup fills the VFS cache, the second finds it, changed or
  not, complete or not.  The two files share a chunk, and one is in a
  subdirectory, for the error counts.  One change, at any moment from the first
  listing on, one fault of each kind, in the first backup.  A file that changes loses
  its one chunk, so that a read in the middle gets it or not.
* **Storage**: two workers (the proofs take any number) are a writer and a reader, two writers of one lock, two
  creators, or a handler and the client that gave up on it.  One fault, since a
  call that failed is over.
* **Copies**: order 3 splits leaves and inner nodes with six keys, five error paths
  arrive in any order.  One lost blob can be a chunk, an object, an entry or a
  header.  One copy is enough to read; two goroutines restore.
* **Agent**: two clients compete for each cache; one of them may be killed.  One
  event is enough for the receiver, the pump and the client to wait for each
  other in turn.
* **Scheduler**: a backup task and a maintenance task that may die, ages up to 2,
  retentions of 1 and 2: each is reached, passed and missed.
* **Importer**: eight paths, below, above and beside the directory that is scanned,
  one of them with the same beginning, one a link; two workers, two errors.  The
  channels, of 1000 entries in the code, are unbounded: whether their readers come
  is asked of Backup, not here.
* **Packfile**: up to three blobs of lengths 0 to 2, a MAC of 2 cells, sealed pieces
  of 3 with 2 of overhead, reads of any size: the MAC is read in one go, in two,
  and with bytes before it.
* **`CHECK_DEADLOCK FALSE`** only where the system may stop: all processes may be
  dead (`MCLock`), after its flusher has failed a packer may hang with full
  channels (`MCPacker`, `MCFlusherGone`; the hazard at `snapshot/packer.go:103`),
  the two backups are over (`MCBackup`), the commands of `MCCopies` are counted, a
  packfile has been read or an importer is done (`MCService`).

Symmetry is used in runs without liveness only.

### Fairness, and why the code justifies it

* Repository and Maintenance have no liveness property: what may keep a backup from
  ending is in the two modules below.
* Packer: the Go scheduler runs goroutines that can go on (weak fairness), and
  the senders blocked on a channel are served in order of arrival, hence strong
  fairness for a client's and a worker's send.
* Backup: importer, scanners and what follows them go on if they can.  An
  interruption, a change of a file and a removal are not fair.
* Agent: clients and handlers go on if they can.  Starting and stopping an agent,
  killing a client and starting one are not fair: `CommandsEnd` holds although the
  agent may stay or go.
* Scheduler: tasks start (their timers fire), go on and refresh their locks, and
  time passes.  Nothing else: `DeadLocksGo` follows from the loops of
  `scheduler/tasks.go`, which come back to the lock whatever became of the last
  iteration.  It is checked with one backup and one maintenance task.  With more,
  two that retry in step can refuse each other for ever, and a stale lock that is
  listed after a live one is never reached; nothing in the code prevents that.

## 4. What is proved

For all values of the constants, under the assumptions the modules name.  Most
give types and sizes; these say something:

| Assumption | Why the code justifies it |
|---|---|
| `TypesAreDisjoint` (LocalState) | the type of a resource is part of every key |
| `HostAssumption` (Repository) | a process runs on one machine |
| `PackerAssumption` | there is a worker, one per CPU; both channels have room |
| `StorageAssumption`, `BucketsAssumption` | the names of the backends and directories, and at least one bucket, 256 in the code |
| `TreeAssumption` (Backup) | a source has finitely many paths, and what a path is in is a directory of the source, up to the root |
| `ObjectAssumption` (Backup) | that there is no object is told from any object |
| `ImporterAssumption` | the tree is closed under prefixes; the path that is scanned is in it |
| `SchedulerAssumption` | a backup task is no maintenance task; maintenance has a retention |
| `OrderAssumption` (BTree) | the order is at least 3; it is 50 in the code |
| `SyncAssumption` | a source is a tree of finitely many paths; that there is no object is told from that of an empty file |
| `ReadersAssumption` | hard links are of regular files; a restore has a goroutine |
| `GraceAssumption` (Maintenance) | machines that maintain are machines, nodes and what is attached to a snapshot are blobs |
| `ReaderAssumption` | bounds for TLC |
| `PackfileAssumption` | MACs, pieces and chunks are not empty |

Each section names the invariant that is inductive.  All were given to TLC first,
on the instances of the runs, `BInv` with faults in both backups, and `Copying` with
two copies in a row.

**MaintenanceProofs**, its first part about Repository: any number of machines,
processes, blobs and state files, with deaths and failing pushes:

| Theorem | States |
|---|---|
| `TypeCorrect` | `Spec => []TypeOK` |
| `IndexIsSound` | `Spec => []IndexSound` |
| `CompleteAtHome` | `Spec => []HomeComplete` |
| `AllAccounted` | `Spec => []Accounted` |

None of these is inductive.  The invariant that is,

    IInv == TypeOK /\ AllWellFormed /\ Handed /\ AckedIndexed /\ Orderly /\ Provenance

says: every state anywhere locates items only in stored packfiles that hold
them, with the packfile's entry beside the location, and has tombstones of
snapshots only (`AllWellFormed`; Repository has no maintenance); each blob a
running backup need not send any more is in its packer or indexed on its
machine (`Handed`); all of a finished one is indexed there (`AckedIndexed`); a
process merges only states that exist and pushes one at a time (`Orderly`); and
every location in a machine's cache comes from a state file, from a backup of the
machine that still holds it, or was lost there (`Provenance`).  `AckedIndexed` and the absence of coloured
packfiles give `HomeComplete`, with `Provenance` `Accounted`.

Its second part, the same with any number of maintenance runs beside the backups
and removals, cut short or not:

| Theorem | States |
|---|---|
| `MaintenanceTypes` | `MSpec => []MTypeOK`: types, and who holds the exclusive lock |
| `MaintenanceIndexIsSound` | `MSpec => []IndexSound` |
| `SweepingHidesNothing` | `MSpec => OnlyColoursHide` |
| `RemovalsStay` | `MSpec => RemovedStaysHidden` |
| `SequentialRetains` | `Sequential => (MSpec => []NamedRetained)` |

The first four hold in whatever order commands run, and reuse the lemmas of
the first part about `Next`.  The last one has a hypothesis,

    Sequential == /\ MaxActive <= 1 /\ ~ CanCrash /\ ~ CanFailPush /\ ~ CanFailRead
                  /\ \A m, n \in Maintainers : m = n

one command at a time, none of which dies, has a state file refused or cannot read a
blob, and one machine that maintains.  (`Abort`, the maintenance that stops between
two passes, stays; machines, snapshots, packfiles of a blob and runs are any
number.)  None of its parts can be left out.  Two commands that overlap are enough
for a packfile in use to be coloured (`MCStaleView`), and so are two machines that
maintain (`MCTwoCaches`), or one read that fails (section 3, bounds); a location that
only a dead backup's machine knows, or one that was not pushed, is an exception of
the property for backups of that machine (`lost`), but not for those of others whose
blob maintenance there resolves to it.  The proof says why the passes are right
apart from that.  Its invariant `SInv` has the types, `AllWellFormed`, and `SCore`:

* what each machine knows of the state files it has merged (`View`): which packfiles
  are coloured, which snapshots removed, and every location in a packfile that is
  not coloured; and what a command has added since it opened (`Session`);
* what a backup writes is fresh and not coloured, and each blob of its snapshot is to
  be handed over, in its packer, or in a packfile nobody coloured (`Backups`);
* each location of a packfile that is not coloured is published or held (`Located`),
  and a machine has no location that is neither (`Sourced`);
* a maintenance cache has, for each item its snapshots name, a packfile that state
  files say the item is in (`Recorded`), and **no packfile of it is ever coloured**
  (`NeverColoured`): the one machine that maintains colours only what its cache does
  not have, and adds to the cache only what it does not know to be coloured, which
  is all that is coloured since nobody else does it.  That is where a second
  maintaining machine breaks the argument;
* so what ListPackfiles names of a snapshot that was acknowledged and not removed is
  published, in a packfile nobody coloured (`Retained`), however many packfiles have
  it, from which `NamedRetained` follows.

**BackupProofs**, any number of backups, any sources, any contents and number of
scanners, any faults and interruptions, and changes at any moment: `BackupTypes`,
`NothingLostSilently` (`Spec => []NoSilentLoss`), `SnapshotsAreComplete`
(`Spec => []Complete`) and `SomeErrorsAreShown` (`Spec => []ErrorsAreShown`).  The
invariant is

    BInv == /\ BTypeOK /\ Fresh /\ CacheFits
            /\ \A r \in Runs : Untouched(r) /\ RecordsFit(r) /\ Accounted(r)
            /\ \A r \in Runs : \A f \in Files : ObjectFits(r, f) /\ ObjectHeld(r, f)
            /\ Committed /\ NoSilentLoss /\ Complete

what the VFS cache has of a file fits the version it was listed at (`CacheFits`; no
scanner sees a version that is still to come, `Fresh`), where to fit is to be the content of that version, or, of a
file that has changed since, any part of what it has been; each goroutine has at each place the
object of its file, and has put what it says (`ObjectFits`, `ObjectHeld`); each entry
that was recorded says what was seen and was put whole (`RecordsFit`); and whatever
ended without a record is an error (`Accounted`).  The shared `err` is in the last
conjuncts of `ObjectFits`: a goroutine without an object has its error in `err`, or
the file is `masked`.

For `ErrorsAreShown` it is shown that what `ErrorCount` adds up, directory by
directory, is the number of errors in a set (`Shown`, `CountIs`): those all of whose
directories were recorded, and that come before any error further down in their own.
That is a subset of the errors, so none is counted twice; and of the errors no
directory of which is an error, the longest, and of its siblings the first, is in it
(`SomeShown`).

**RepoLockProofs**, any number of processes and any TTL: `TypeCorrect` without
further assumption, and, assuming `Late = {}` (no live process lets its own lock
become stale), `LocksExclude`, `HoldersAreVisible` and `ImplementsRWLock`
(`Spec => Abstract!Spec`).  The invariant is

    LockInv == TypeOK /\ Visible /\ Settled /\ Separated

the lock of a live process is there and fresh, only the locks of dead processes
are about to be kicked, and of two processes in conflict at most one has passed
the other.  The assumption is necessary: a holder
whose refreshes fail becomes invisible, and maintenance goes on beside it.

**PackerProofs**, any number of clients and workers, any capacities and any limit
on the size of packfiles, whether or not the flusher fails: `TypeCorrect`,
`NoBlobLost`, `InflightPacked` and `ImplementsBlobSink` (`Spec => Sink!Spec`).  The
invariant is

    PackerInv == /\ TypeOK /\ ClientsInOrder /\ WorkersInOrder /\ FlusherInOrder
                 /\ InflightIsPacked /\ NothingInvented /\ NothingLost

A client drops a blob because it is in flight, so `NothingLost` needs
`InflightIsPacked`; the flusher takes blobs out of flight, so that needs them
indexed by then (`FlusherInOrder`); and a closed packer has nothing under way
because its workers ended on an empty channel (`WorkersInOrder`), which takes at
least one worker.  Whatever is stored was accepted (`NothingInvented`).

**StorageProofs**, any set of backends, any number of workers, names, buckets,
faults and deaths:

| Theorem | States |
|---|---|
| `NothingInPart` | `Spec => []AllWhole`: no file in its place is a part of one |
| `StoresAreFileStores` | `Spec => IsFileStore`, the refinement that Repository and RepoLock rest on |
| `StoresCreatedOnce` | `Spec => []OneCreation` |
| `RefreshesAreSeen` | `Spec => []RefreshIsSeen` |
| `ListingsAreComplete` | `Spec => []ListsAll` |

The first two follow from

    StorageInv == StorageTypeOK /\ Placed /\ Alone /\ TempsOwned /\ AllWhole

A rename puts the temporary file in place, so that must be whole by then and its
writer's own (`TempsOwned`).  On sftp it has a fixed name beside the file: it is its
writer's own only because no two write the same file there (`Alone`, which the
clients see to, and which the handlers of a server need not).  The refinement has
one lemma per kind of step, `Applies` for the one at which a call has its effect.
Each of the others has an invariant of its own beside that one.  `CreateInv`: of
all workers at most one has got past the `Mkdir` of the locks, and whoever has, that
directory exists.  `RefreshInv`: a put that succeeded and the file under its name
have one version, or the file was deleted, as no two write it at once.  `ListInv`:
the names that were there all the while a listing took are there still
(`StillThere`), and those of the buckets it has read are in it (`Heard`), unless an
error was passed over.

**ServiceProofs**:

* Agent, any number of clients and events: `StatusIsTrue` (`AgentSpec => []StatusTells`):
  the command of a client that exits with a failure was not done, or not to its
  end, and that of one that exits with success was, or its connection ended
  without a word, or the answer had a status and no error.  The invariant is
  `AgentInv == AgentTypeOK /\ Served /\ Connected /\ Undone /\ StatusTells`: what is
  served has been sent, and its client only waits (`Served`); a connection ends
  after its handler has (`Connected`); and nothing is done before the handler runs
  the command (`Undone`).
* Scheduler, any tasks with any retentions: `RetentionKeepsOne`
  (`SchedulerSpec => KeepsOne`), with `SchedInv`: while a task is about to purge, the
  snapshot its backup made is there, if none of the others has a shorter retention.
* Importer, any tree, any number of workers and any failures: `ScansAreComplete`
  (`ScanSpec => []ScanComplete`), with
  `ScanInv == ScanTypeOK /\ WalkerAt /\ PathsCovered`: each path below or above the
  directory has been handed to the workers, is below something the walker has
  still to do, or below a directory that could not be read.

* ObjectReader, files of any number of chunks of any lengths, empty ones among
  them, listed with any size: `ReaderIsSound` (`ReaderSpec => []ReaderSound`), with
  `ReaderInv == ReaderTypeOK /\ InBounds /\ ReaderSound`.  What goes before a chunk is a
  sum, a recursive function, and the proof needs that it grows.
* Packfile, any blobs, sizes of MAC, pieces and chunks, reads that give as little as
  nothing, and a stored file that is cut
  anywhere, changed anywhere, or neither: `PackfilesReadBack`
  (`PackSpec => []ReadBack`), with

      PackInv == PackfileOK(packfile) /\ FileOK /\ ReadingOK

  The index says where the bytes of each blob are (`PackfileOK`); the file is what was
  written but for one damage (`FileOK`); and what the reader has handed on, what it
  keeps back as it may be the MAC, and what is to come are the file (`ReadingOK`).
  That MACs are injective, which the model assumes, gives the rest: a file that is
  read to its end is the one that was written (`MACTells`), and its parts are found
  at the offsets the footer gives (`LayoutIs`).  For single blobs, the pieces that
  are fetched cover those asked for, and decoded they are the bytes asked for
  (`PiecesCover`, `DecodeEncode`).

**TreeProofs**, B+trees of any order of at least 3, with either comparison and any
keys and values:

| Theorem | States |
|---|---|
| `InsertIs` | `Insert` keeps a tree, refuses a key that is there, and else adds one pair and touches no other |
| `FindIs` | a search returns the value of its key, or nothing if there is none |
| `PairsAre` | the scan from the first leaf lists the pairs, each once, in the order of the keys |
| `PersistIs` | what `Persist` writes is a tree with the same keys and the converted values |
| `TreesAreSound` | every tree is `Sound`: all of its views agree |

A tree is a set of nodes with a *shape* (`WellShaped`): a height `h` and a set of keys
`span` for each, so that a node's pointers lead one level down, and share its keys
out as its separators say; nodes of one height have no key in common, and the links
to the right go through them in order.  The iterators, `Find` and `Persist` all
follow from that.  An insertion breaks it while it goes up: after a cut, a node is
an *orphan* that nothing points to yet.  The proof of `InsertIs` says so (the shape
has the orphan, and the path by which the leaf was found), one level at a time, up to
a new root.  It shows on the way that the parent never has the key that comes up: the
panic `broken invariant: duplicate key` of `insertUpwards` is not reached
(`KeyOfSlot`).

**CopyProofs**, any source, any errors, any order of the trees, any hard links, any
number of goroutines, copies, readers and lost blobs:

| Theorem | States | Inductive invariant |
|---|---|---|
| `TreesSoundAlways` | `Spec => []TreesSound` | `Shaped` |
| `RestoreAccountsAlways` | `Spec => []RestoreAccounts` | `Reading` |
| `CheckTellsAlways` | `Spec => []CheckTells` | `Reading` |
| `ArchiveWholeAlways` | `Spec => []ArchiveWhole` | `Reading` |
| `CopyFaithfulAlways` | `Spec => []CopyFaithful` | `Copying` |

    Shaped  == ErrorsAre /\ CmdIs /\ SnapsAre /\ SyncIs /\ CloneIs
    Reading == Shaped /\ ReaderIs /\ RestoreIs /\ CheckTells /\ ArchiveWhole
    Copying == Shaped /\ OriginsAre /\ BlobsAre /\ GoingIs /\ ConvertedAre /\ CopiesAre /\ ClonedAre

* `Shaped`: every index, in every repository and in a copy half-way, is a tree of the
  source's paths (`SnapsAre`, `SyncIs`), and the errors one of those that have
  arrived (`ErrorsAre`): by `InsertIs` and `PersistIs`.  Commands exclude each other
  (`CmdIs`).
* `Reading`: what a walk visits is readable, of the index, at each path once, and it
  visits everything unless an error was told (`ReaderIs`, from the theorem `WalkIs`
  about the walk of a snapshot).  In a restore, a path that is registered for its
  inode, or linked to, is written or sure to be or reported, and no goroutine ends
  without one of these or a link (`RestoreIs`): that is why linking to a file another
  goroutine has not finished loses nothing.
* `Copying`: the source's snapshots say what the source was (`OriginsAre`) and have
  their blobs (`BlobsAre`); a value that was converted is at the destination or was
  damaged (`ConvertedAre`), so that a copy has the paths of its original, and its
  entries but the damaged ones (`CopiesAre`).  A sync never copies over a snapshot
  (`GoingIs`).  A clone lists packfiles before states, so what was committed when it
  began is in the packfiles it copies (`ClonedAre`).

`CheckTells` is why no copy begins after a reader: it first was false in a run with
two copies, the second of which repaired what a check had found missing.

The library's induction theorems take a predicate as a parameter, which no prover
here can instantiate.  Where a proof needs induction, over numbers, sizes of sets,
depths of paths, heights of nodes or lengths of sequences, it takes it from the
well-foundedness of `<` on the naturals, for sets in the place of predicates
(`LeastNumber`, `SetInduction`, `MeasureInduction`).

Model-checked only: liveness (`CommitReturns`, `BackupReturns`,
`CommandsEnd`, `DeadLocksGo`), which is beyond the prover.  Every invariant of the
runs that pass and every other of their action properties and refinements is proved.

## 5. Findings

| Run | What happens |
|---|---|
| `MCStaleView` | Maintenance takes the lock on a state merged earlier.  A backup that ended on another machine in between is unknown to it, and a packfile it depends on is coloured.  Nothing fails. |
| `MCTwoCaches` | One command at a time, and nothing fails.  Two backups put the same object, so that it is in two packfiles (`snapshot/backup.go:445`).  The maintenance caches of two machines resolve it to different ones (`repository/repository.go:694`); each machine colours the one the other keeps, and when both colours are merged the object is nowhere. |
| `MCFlusherGone` | The store refuses a packfile; the packer's error is only logged, and `Commit` reports success without the blobs. |

The properties of the runs that pass say what the code keeps.  Where it keeps
less than its documents, comments or callers suppose, the property has an
exception, and this is the list of them:

* A backup that deduplicates against what another of the machine has indexed and
  not pushed reports success, and if the other dies it cannot be restored anywhere
  else (`snapshot/backup.go:949`).  `Accounted`, `ActiveRetained` and `NamedRetained`
  except machines that have lost locations (`lost`) or still hold some
  (`Unpushed`).
* A dead backup leaves locations in its machine's cache; maintenance there may take
  one of them for the place of a blob another machine has stored since
  (`repository/repository.go:694`), and colour the place everybody else knows.  The
  same exception covers it.
* Maintenance keeps what `ListPackfiles` names, which is less than what a snapshot
  needs: neither the objects nor the chunks of attributes
  (`snapshot/snapshot.go:315`), and only what comes before a node of an index that
  cannot be read, after which the snapshot counts as listed (lines 253, 292, 309,
  342).  `NamedRetained` is about what is named, with reads that do not fail; what
  the manual says, `ActiveRetained`, fails on one machine with one attribute.
* The value of every attribute is lost: `NewScanXattr` leaves its `FileInfo` empty, so
  `chunkify` takes it for an empty file (`snapshot/backup.go:837`) and stores an empty
  chunk, with success.  `NoSilentLoss` has the exception.
* A file that changes after it was listed has the size and times of the listing and the
  content of the reading, or a mixture, and no error; a file listed as empty stays
  empty.  The next backup compares with the listing.  `NoSilentLoss` excepts the
  content of such files.
* The comment in `Lock` counts on a watchdog to end a process whose refreshes fail
  (`snapshot/snapshot.go:421`).  There is none.  `Exclusion` is about processes that
  refresh in time, and about those alone.
* An end of file from the agent counts as success (`agent/agent.go:108`): a client
  whose agent is killed exits with 0.  An agent that cannot open the repository
  closes the connection without a word.  `StatusTells` excepts connections that
  ended so.
* `ExecuteRPC` returns the status of the command only if an error came with it
  (`agent/agent.go:54`), and `exec` returns that of its program without one
  (`cmd/plakar/subcommands/exec/exec.go:126`): through an agent it succeeds, although
  its manual says that it "preserves the exit code of the command"
  (`cmd/plakar/subcommands/help/docs/plakar-exec.md:32`).  `StatusTells` has this
  exception too.
* `check` exits with 0 whatever it found; what it finds it reports as events, and
  `CheckTells` is about these.
* `Synchronize` passes over entries and errors it cannot read at the source
  (`snapshot/synchronize.go:72`, `124`), and `clone` only prints its errors.
  `CopyFaithful` is about what a copy has.
* The goroutines of a backup share one `err` (`snapshot/backup.go:419`, `429`, `434`):
  one that another overwrites at the wrong moment is lost (`masked` in
  `NoSilentLoss`).  If it is that of a file whose cached content is gone, the
  snapshot may get the cached entry all the same (`snapshot/backup.go:456`), so
  `Complete` has this exception too.  The run does not reach it; the attempt to
  prove `Complete` without it did.
* An object found in the VFS cache is trusted to have its chunks
  (`snapshot/backup.go:428`); `Complete` excepts objects whose chunks maintenance has
  dropped since.
* A listing of sftp, s3 or sqlite leaves out what it could not read and succeeds;
  a lock in sqlite is never refreshed, as `INSERT` does not replace a row; on s3 and
  in sqlite two can create one store.  `ListsAll`, `RefreshIsSeen` and `OneCreation`
  name the backends.
* The ftp importer closes its channel of jobs while walkers may send on it and
  only logs the directories it cannot read; the s3 importer ignores errors.
  `ScanComplete` names both (`panic`, `unread`).
* `ObjectReader.Seek` relative to the current position or the end is wrong for most
  offsets, up to a panic or a loop without end; `ReaderSound` is about the seeks the
  program makes (`http.ServeContent`), and after any other says nothing until the next
  from the start (`since`).  `Seek(0, io.SeekEnd)` returns the size of the listing
  (`snapshot/vfs/reader.go:83`), so `ServeContent` promises a client that many bytes
  of a file that changed before it was read, and has fewer or more; and a reader at the
  end of a large file that was empty when it was read, so that it has no chunk,
  panics.
* The reader of a stored file that was cut down to the MAC or less does not end: it keeps
  what may be the MAC back, hands on nothing and asks again
  (`storage/serialization.go:68`, `86`; `spinning`, which is reached, and which
  `ReadBack` allows for a damaged file only), and a blob that is read
  by itself is not covered by the MAC of its packfile.
* The retention of one task may take the last snapshot of another: that of
  maintenance, and that of a backup without a name (`scheduler/tasks.go:52` sets the
  job, which is another field).  `KeepsOne` is about a task's own retention,
  about backups that take less time than it, and about tasks none of whose
  neighbours has a shorter one: between a backup and its own retention such a
  neighbour may take the new snapshot.

## 6. What the models leave out

* Contents: hashing, compression, encryption, where chunks are cut.  A blob is a
  model value, so MACs are taken as injective.  Offsets in a packfile are in
  Packfile only.
* `Repository` lets every `PutPackfile` succeed (Packer has its failure), merges
  one state file in one step, and drops what an aborted backup leaves running
  (Backup has that).  A `PutPackfile` that fails between two locations
  (`snapshot/backup.go:945`), a merge that dies between two rows
  (`repository/state/state.go:186`), and the configuration entries of a state
  (`state.go:811`, nobody writes any) are not modelled.
* A file that changes and keeps its size, times and inode is taken for unchanged, as
  `Equal` has nothing else to go by: every change has a version of its own.
* Events that cannot be serialised (`cmd/plakar/subcommands/agent/agent.go:781`): the
  types that are sent all can.
* B+tree: the cache of nodes, deletion (the code has none), concurrent use (a lock
  serialises it).
* Exporters, the REST API, the UI, the FUSE mount, the classifier, events as such,
  and the commands that only read and print: they keep no state that outlives a
  request.  `PROJECT.json` gives the reason for each.

## 7. Plan

1. **LocalState**, row by row: an interrupted merge that is repeated, and a
   `PutPackfile` that fails halfway; both in Repository, whose proofs they extend.
2. **Backup** refines what Repository says of `PutBlob`.
3. **BTree**: the cache of nodes in front of the store.

Runs stay one per question.
