------------------------------- MODULE Storage -------------------------------
(***************************************************************************)
(* The stores: the file system, sftp, s3 and sqlite backends, the backend  *)
(* that forgets everything, and the HTTP client with the server it talks   *)
(* to, which serves a file system.  All offer the same calls; they differ  *)
(* in how a file is written, listed and overwritten, and in which failures *)
(* they report.                                                            *)
(*                                                                         *)
(* A worker is a client's call, or a handler of the server: a client may   *)
(* give up on a handler, which goes on.                                    *)
(***************************************************************************)
EXTENDS Integers, FiniteSets, Sequences

CONSTANTS
    Kinds,      \* the backends to consider
    Workers,
    Names,      \* the files clients may write
    Dir,        \* name -> "locks", "states" or "packfiles"
    Bucket,     \* name -> the subdirectory it is in
    Buckets,    \* the subdirectories, in the order they are read
    NoDelete,   \* the server runs without -allow-delete
    MaxVersion, \* bound: calls that write
    MaxTroubles \* bound: failures of the disk or the network, processes that die

ASSUME StorageAssumption ==
    /\ Kinds \subseteq {"fs", "sftp", "s3", "database", "null", "http"}
    /\ \A n \in Names : Dir[n] \in {"locks", "states", "packfiles"} /\ Bucket[n] \in DOMAIN Buckets
    /\ Buckets \in Seq(STRING) /\ Buckets # <<>>
    /\ MaxVersion \in Nat

\* The subdirectories are 00 to ff: each is one place of a listing, and no other.
ASSUME BucketsAssumption ==
    /\ \A i, k \in DOMAIN Buckets : Buckets[i] = Buckets[k] => i = k
    /\ \A i \in DOMAIN Buckets : Buckets[i] \notin {"idle", "send", "begin", "copy", "rename", "dirs",
                                                   "locks", "config", "answer", "done"}

Absent == [v |-> 0, whole |-> TRUE]

VARIABLES
    kind,     \* the backend
    config,   \* the worker whose CONFIG is in the store, if any
    dirs,     \* directories that exist
    files,    \* name -> its content
    temps,    \* temporary files: <<name, worker>>, or <<name>> with sftp -> content
    job,      \* worker -> the call it is at
    created,  \* workers to whom Create reported success
    stable,   \* history: worker -> names that were there during all of its listing
    version, troubles

count == <<version, troubles>>
vars == <<kind, config, dirs, files, temps, job, created, stable, count>>

\* Where the calls of a remote store are served.
Local == IF kind = "http" THEN "fs" ELSE kind
OnDisk == Local \in {"fs", "sftp"}

Job(op, name, at) == [op |-> op, name |-> name, at |-> at, v |-> 0, dir |-> "",
                      listed |-> {}, skipped |-> FALSE, ok |-> FALSE]
None == Job("none", "", "idle")

Init ==
    /\ kind \in Kinds
    /\ config = {} /\ dirs = {}
    /\ files = [n \in Names |-> Absent]
    /\ temps = <<>>
    /\ job = [w \in Workers |-> None]
    /\ created = {}
    /\ stable = [w \in Workers |-> {}]
    /\ version = 0 /\ troubles = 0

-----------------------------------------------------------------------------
\* Calls and their ends.

Go(w, at)    == job' = [job EXCEPT ![w].at = at]
Reply(w, ok) == job' = [job EXCEPT ![w].at = "done", ![w].ok = ok]

At(w, op, at) == job[w].op = op /\ job[w].at = at

\* The disk, the database or the network fails.
Fault == troubles < MaxTroubles /\ troubles' = troubles + 1 /\ UNCHANGED version

\* Open reads CONFIG: all calls but Create come after it.
CanOpen == config # {} \/ kind = "null"

\* Over HTTP a call is a request first.
First(at) == IF kind = "http" THEN "send" ELSE at

\* The names of states and packfiles are new; a lock is written again by its
\* owner, one call after the other, unless an earlier one has been given up.
Call(w) ==
    /\ job[w] = None /\ CanOpen
    /\ \/ \E op \in {"put", "get", "delete"}, n \in Names :
             /\ op = "put" => /\ version < MaxVersion
                              /\ Dir[n] = "locks" \/ files[n] = Absent
                              /\ kind # "http" => \A x \in Workers : job[x].op = "put" => job[x].name # n
             /\ LET v == IF op = "put" THEN version + 1 ELSE 0
                IN  /\ job' = [job EXCEPT ![w] = [Job(op, n, First("begin")) EXCEPT !.v = v]]
                    /\ version' = IF op = "put" THEN v ELSE version
             /\ UNCHANGED stable
       \/ \E d \in {"locks", "states"} :
             /\ job' = [job EXCEPT ![w] = [Job("list", "", First(Buckets[1])) EXCEPT !.dir = d]]
             /\ stable' = [stable EXCEPT ![w] = {n \in Names : Dir[n] = d /\ files[n] # Absent}]
             /\ UNCHANGED version
    /\ UNCHANGED <<kind, config, dirs, files, temps, created, troubles>>

\* The command create, on a store that may exist (bound: it comes before
\* anything is written).
CallCreate(w) ==
    /\ job[w] = None /\ version = 0
    /\ job' = [job EXCEPT ![w] = Job("create", "", "begin")]
    /\ UNCHANGED <<kind, config, dirs, files, temps, created, stable, count>>

\* The call returns to its client.
Return(w) ==
    /\ job[w].at = "done"
    /\ job' = [job EXCEPT ![w] = None]
    /\ stable' = [stable EXCEPT ![w] = {}]
    /\ UNCHANGED <<kind, config, dirs, files, temps, created, count>>

\* A process dies in the middle of a call; what it wrote so far stays.
Crash(w) ==
    /\ job[w].at \notin {"idle", "done"}
    /\ Fault
    /\ job' = [job EXCEPT ![w] = None]
    /\ stable' = [stable EXCEPT ![w] = {}]
    /\ UNCHANGED <<kind, config, dirs, files, temps, created>>

\* An operation of the system fails, and so does the call.
Fail(w) ==
    /\ job[w].at \in {"send", "begin", "dirs", "locks", "config", "answer"} /\ kind # "null"
    /\ Fault
    /\ Reply(w, FALSE)
    /\ UNCHANGED <<kind, config, dirs, files, temps, created, stable>>

-----------------------------------------------------------------------------
\* The files of a store.

Store(w) == files' = [files EXCEPT ![job[w].name] = [v |-> job[w].v, whole |-> TRUE]]
Remove(n) == /\ files' = [files EXCEPT ![n] = Absent]
             /\ stable' = [x \in Workers |-> stable[x] \ {n}]

\* A read has all of the content that was there when the file was opened, or
\* fails.
Got(w) == LET f == files[job[w].name]
          IN  job' = [job EXCEPT ![w].at = IF kind = "http" THEN "answer" ELSE "done",
                                 ![w].ok = f # Absent, ![w].v = f.v]

\* The end of a call at the backend; the client of a server has yet to read it.
End(w, ok) == job' = [job EXCEPT ![w].at = IF kind = "http" THEN "answer" ELSE "done", ![w].ok = ok]

\* A listing goes on with the next bucket, or ends.
Last(b) == b = Buckets[Len(Buckets)]
After(b) == Buckets[1 + CHOOSE i \in DOMAIN Buckets : Buckets[i] = b]

\* Slip: the last bucket is left out.
ListBucketLess(w, seen, skip, end) ==
    LET stop == end \/ Last(After(job[w].at))
    IN  job' = [job EXCEPT ![w].listed = @ \cup seen, ![w].skipped = @ \/ skip, ![w].ok = TRUE,
                           ![w].at = CASE ~stop            -> After(@)
                                       [] stop /\ kind = "http" -> "answer"
                                       [] stop /\ kind # "http" -> "done"]

ListBucket(w, seen, skip, end) ==
    LET stop == end \/ Last(job[w].at)
    IN  job' = [job EXCEPT ![w].listed = @ \cup seen, ![w].skipped = @ \/ skip, ![w].ok = TRUE,
                           ![w].at = CASE ~stop            -> After(@)
                                       [] stop /\ kind = "http" -> "answer"
                                       [] stop /\ kind # "http" -> "done"]

Listing(w) == job[w].op = "list" /\ job[w].at \in {Buckets[i] : i \in DOMAIN Buckets}
There(w) == {n \in Names : Dir[n] = job[w].dir /\ files[n] # Absent}
Here(w)  == {n \in There(w) : Buckets[Bucket[n]] = job[w].at}

-----------------------------------------------------------------------------
\* Put on a file system, with WriteToFileAtomicTempDir.

\* With sftp the temporary file is beside the file, under a fixed name.
Temp(w) == IF Local = "sftp" THEN <<job[w].name>> ELSE <<job[w].name, w>>

Without(t) == [x \in DOMAIN temps \ {t} |-> temps[x]]
Set(t, content) == [x \in DOMAIN temps \cup {t} |-> IF x = t THEN content ELSE temps[x]]

CreateTemp(w) ==
    /\ OnDisk /\ At(w, "put", "begin")
    /\ temps' = Set(Temp(w), [v |-> job[w].v, whole |-> FALSE])
    /\ Go(w, "copy")
    /\ UNCHANGED <<kind, config, dirs, files, created, stable, count>>

\* Slip: renamed before everything has been copied.
CopyLess(w) ==
    /\ OnDisk /\ At(w, "put", "copy") /\ Go(w, "rename")
    /\ UNCHANGED <<kind, config, dirs, files, temps, created, stable, count>>

\* io.Copy and Close; on a failure the temporary file is removed.
Copy(w) ==
    /\ OnDisk /\ At(w, "put", "copy")
    /\ \/ /\ temps' = Set(Temp(w), [v |-> job[w].v, whole |-> TRUE])
          /\ Go(w, "rename") /\ UNCHANGED count
       \/ /\ Fault /\ temps' = Without(Temp(w)) /\ End(w, FALSE)
    /\ UNCHANGED <<kind, config, dirs, files, created, stable>>

\* A rename replaces the file.  The sftp protocol leaves it to the server
\* whether a file that exists is replaced or the request refused.
Rename(w) ==
    /\ OnDisk /\ At(w, "put", "rename")
    /\ temps' = Without(Temp(w))
    /\ \/ /\ files' = [files EXCEPT ![job[w].name] = temps[Temp(w)]]
          /\ End(w, TRUE) /\ UNCHANGED count
       \/ /\ \/ Fault
             \/ Local = "sftp" /\ files[job[w].name] # Absent /\ UNCHANGED count
          /\ End(w, FALSE) /\ UNCHANGED files
    /\ UNCHANGED <<kind, config, dirs, created, stable>>

\* The other operations of the two file systems: to remove what is not there is
\* an error.
DiskFiles(w) ==
    /\ OnDisk
    /\ \/ At(w, "get", "begin") /\ Got(w) /\ UNCHANGED <<files, stable>>
       \/ /\ At(w, "delete", "begin")
          /\ End(w, files[job[w].name] # Absent)
          /\ Remove(job[w].name)
    /\ UNCHANGED <<kind, config, dirs, temps, created, count>>

\* fs reads one bucket after the other, and the directory of the locks in one
\* go.  It reports every failure.
FsList(w) ==
    /\ Local = "fs" /\ Listing(w)
    /\ LET locks == job[w].dir = "locks"
       IN  \/ /\ ListBucket(w, IF locks THEN There(w) ELSE Here(w), FALSE, locks)
              /\ UNCHANGED count
           \/ Fault /\ End(w, FALSE)
    /\ UNCHANGED <<kind, config, dirs, files, temps, created, stable>>

\* sftp reads all buckets at the same time; one that cannot be read is passed
\* over.
SftpList(w) ==
    /\ Local = "sftp" /\ Listing(w) /\ job[w].dir = "states"
    /\ \/ ListBucket(w, Here(w), FALSE, FALSE) /\ UNCHANGED count
       \/ Fault /\ ListBucket(w, {}, TRUE, FALSE)
    /\ UNCHANGED <<kind, config, dirs, files, temps, created, stable>>

\* A temporary file in the directory of the locks has a name that is not
\* hexadecimal, which fails the listing.
SftpGetLocks(w) ==
    /\ Local = "sftp" /\ Listing(w) /\ job[w].dir = "locks"
    /\ IF \E t \in DOMAIN temps : Dir[t[1]] = "locks" THEN Reply(w, FALSE) /\ UNCHANGED count
       ELSE \/ ListBucket(w, There(w), FALSE, TRUE) /\ UNCHANGED count
            \/ Fault /\ Reply(w, FALSE)
    /\ UNCHANGED <<kind, config, dirs, files, temps, created, stable>>

-----------------------------------------------------------------------------
\* s3, sqlite, null.

\* Slip: an object that exists is not sent again.
S3Once(w) ==
    /\ Local = "s3" /\ At(w, "put", "begin")
    /\ IF files[job[w].name] # Absent THEN UNCHANGED files ELSE Store(w)
    /\ Reply(w, TRUE)
    /\ UNCHANGED <<kind, config, dirs, temps, created, stable, count>>

\* PutObject replaces the object, RemoveObject is content with nothing to
\* remove.  Either may fail with its effect done.  The errors that ListObjects
\* sends are read as objects without a name: a listing ends early and succeeds.
S3(w) ==
    /\ Local = "s3"
    /\ \/ At(w, "get", "begin") /\ Got(w) /\ UNCHANGED <<files, stable, count>>
       \/ /\ \/ At(w, "put", "begin") /\ Store(w) /\ UNCHANGED stable
             \/ At(w, "delete", "begin") /\ Remove(job[w].name)
          /\ \/ Reply(w, TRUE) /\ UNCHANGED count
             \/ Fault /\ Reply(w, FALSE)
       \/ /\ Listing(w)
          /\ \/ ListBucket(w, IF job[w].dir = "locks" THEN There(w) ELSE Here(w), FALSE,
                           job[w].dir = "locks") /\ UNCHANGED count
             \/ Fault /\ ListBucket(w, {}, TRUE, TRUE)
          /\ UNCHANGED <<files, stable>>
    /\ UNCHANGED <<kind, config, dirs, temps, created>>

\* One SELECT lists a table; that it stopped with an error, rows.Err() would say.
DatabaseList(w) ==
    /\ Listing(w)
    /\ \/ ListBucket(w, There(w), FALSE, TRUE) /\ UNCHANGED count
       \/ Fault /\ \E part \in SUBSET There(w) : ListBucket(w, part, TRUE, TRUE)

\* INSERT does not replace a row.  That the row exists is an error, ignored if
\* the driver reports it as SQLITE_CONSTRAINT.
Database(w) ==
    /\ Local = "database"
    /\ \/ At(w, "get", "begin") /\ Got(w) /\ UNCHANGED <<files, stable, count>>
       \/ /\ At(w, "put", "begin")
          /\ \/ files[job[w].name] = Absent /\ Store(w) /\ Reply(w, TRUE)
             \/ /\ files[job[w].name] # Absent /\ UNCHANGED files
                /\ \E ignored \in BOOLEAN : Reply(w, ignored)
          /\ UNCHANGED <<stable, count>>
       \/ At(w, "delete", "begin") /\ Remove(job[w].name) /\ Reply(w, TRUE) /\ UNCHANGED count
       \/ DatabaseList(w) /\ UNCHANGED <<files, stable>>
    /\ UNCHANGED <<kind, config, dirs, temps, created>>

\* The null backend accepts everything and has nothing.
Null(w) ==
    /\ kind = "null" /\ job[w].at \notin {"idle", "done"}
    /\ Reply(w, TRUE)
    /\ created' = IF job[w].op = "create" THEN created \cup {w} ELSE created
    /\ UNCHANGED <<kind, config, dirs, files, temps, stable, count>>

-----------------------------------------------------------------------------
\* The HTTP client and the server.

\* Without -allow-delete states and packfiles cannot be removed: the client finds
\* no JSON in the answer and fails.
Forbidden(w) == NoDelete /\ job[w].op = "delete" /\ Dir[job[w].name] # "locks"

\* The handler decodes the request and calls the store it serves.
Handle(w) ==
    /\ kind = "http" /\ job[w].at = "send"
    /\ IF Forbidden(w) THEN Reply(w, FALSE)
       ELSE Go(w, IF job[w].op = "list" THEN Buckets[1] ELSE "begin")
    /\ UNCHANGED <<kind, config, dirs, files, temps, created, stable, count>>

\* The client decodes the answer: the call has succeeded if it names no error.
\* It may come too late for the client to be there (Fail, Crash).
Answer(w) ==
    /\ kind = "http" /\ job[w].at = "answer"
    /\ Go(w, "done")
    /\ UNCHANGED <<kind, config, dirs, files, temps, created, stable, count>>

\* A server is started on a store that exists.
Server ==
    /\ kind = "http" /\ config = {}
    /\ \E w \in Workers : config' = {w}
    /\ dirs' = {"packfiles", "states", "locks"}
    /\ UNCHANGED <<kind, files, temps, job, created, stable, count>>

-----------------------------------------------------------------------------
\* Create.

\* A directory must be empty, a bucket without CONFIG.  The HTTP client creates
\* nothing and is content.
CheckEmpty(w) ==
    /\ kind # "null" /\ At(w, "create", "begin")
    /\ LET used == (OnDisk /\ dirs # {}) \/ (kind = "s3" /\ config # {})
       IN  CASE kind = "http"           -> Reply(w, TRUE)
             [] kind # "http" /\ used   -> Reply(w, FALSE)
             [] kind # "http" /\ ~used  -> Go(w, IF OnDisk THEN "dirs" ELSE "config")
    /\ UNCHANGED <<kind, config, dirs, files, temps, created, stable, count>>

\* MkdirAll does not mind directories that exist.
MakeBuckets(w) ==
    /\ At(w, "create", "dirs")
    /\ dirs' = dirs \cup {"packfiles", "states"}
    /\ Go(w, "locks")
    /\ UNCHANGED <<kind, config, files, temps, created, stable, count>>

\* Slip: MkdirAll for the locks too.
MakeLocksAnyway(w) ==
    /\ At(w, "create", "locks")
    /\ Go(w, "config") /\ dirs' = dirs \cup {"locks"}
    /\ UNCHANGED <<kind, config, files, temps, created, stable, count>>

\* Mkdir does: of two that found the directory empty one goes on.
MakeLocks(w) ==
    /\ At(w, "create", "locks")
    /\ IF "locks" \in dirs THEN Reply(w, FALSE) /\ UNCHANGED dirs
       ELSE Go(w, "config") /\ dirs' = dirs \cup {"locks"}
    /\ UNCHANGED <<kind, config, files, temps, created, stable, count>>

WriteConfig(w) ==
    /\ At(w, "create", "config") /\ kind # "database"
    /\ config' = {w}
    /\ created' = created \cup {w}
    /\ Reply(w, TRUE)
    /\ UNCHANGED <<kind, dirs, files, temps, stable, count>>

\* The tables are created unless they exist, and a row is added.  A second row
\* of the configuration table is never read.
CreateDatabase(w) ==
    /\ At(w, "create", "config") /\ kind = "database"
    /\ config' = IF config # {} THEN config ELSE {w}
    /\ created' = created \cup {w}
    /\ Reply(w, TRUE)
    /\ UNCHANGED <<kind, dirs, files, temps, stable, count>>

Backend(w) == \/ CreateTemp(w) \/ Copy(w) \/ Rename(w) \/ DiskFiles(w) \/ FsList(w)
              \/ SftpList(w) \/ SftpGetLocks(w) \/ S3(w) \/ Database(w) \/ Null(w)
Creation(w) == CheckEmpty(w) \/ MakeBuckets(w) \/ MakeLocks(w) \/ WriteConfig(w) \/ CreateDatabase(w)

Next == \/ Server
        \/ \E w \in Workers : \/ Call(w) \/ CallCreate(w) \/ Return(w) \/ Crash(w) \/ Fail(w)
                              \/ Backend(w) \/ Handle(w) \/ Answer(w) \/ Creation(w)

Spec == Init /\ [][Next]_vars

-----------------------------------------------------------------------------
\* What is stored is whole, appears and disappears in one step, during a call
\* that asked for it: Repository and RepoLock have stores of this kind.  The
\* null backend is one too, as nothing it reports can be read.
Visible == [n \in Names |-> IF files[n].whole THEN files[n].v ELSE -1]

\* A call is in flight until it has failed or returns.
CallOf(j) ==
    LET ended == j.at \in {"answer", "done"}
    IN  IF kind = "null" \/ j.op \notin {"put", "get", "delete"} \/ (ended /\ ~j.ok)
        THEN [op |-> "none"]
        ELSE [op |-> j.op, name |-> j.name, v |-> j.v, applied |-> ended]

Running == [w \in Workers |-> CallOf(job[w])]

FS == INSTANCE FileStore WITH Versions <- 1 .. MaxVersion, files <- Visible, calls <- Running

IsFileStore == FS!Spec

\* A listing that succeeds has every file that was there all the time, unless it
\* passed over a failure.  Only the file system and the server never do: the
\* others have RebuildState drop states, and Lock miss locks, that are there.
ListsAll ==
    \A w \in Workers : job[w].op = "list" /\ job[w].at = "done" /\ job[w].ok =>
        \/ stable[w] \subseteq job[w].listed \/ kind = "null"
        \/ job[w].skipped /\ kind \in {"sftp", "s3", "database"}

\* A lock that was written again with success is what is read from then on.  Not in
\* a database, where a refresh leaves the lock to become stale; not over HTTP, where
\* the handler of an earlier request, whose client has given up, may put its older
\* lock in place afterwards; and not if somebody has deleted the lock since.
RefreshIsSeen ==
    \A w \in Workers : At(w, "put", "done") /\ job[w].ok /\ kind \notin {"null", "database"} =>
        \/ files[job[w].name].v >= job[w].v
        \/ kind = "http" \/ files[job[w].name] = Absent

\* However many try to create a store, one succeeds, and the configuration is
\* its.  This rests on Mkdir, which only file systems have.
OneCreation ==
    kind \in {"fs", "sftp"} => /\ Cardinality(created) <= 1
                              /\ created \subseteq config
=============================================================================
