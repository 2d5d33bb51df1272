------------------------------ MODULE Importer ------------------------------
(***************************************************************************)
(* The scans of the importers: of a file system, over sftp, over ftp, and  *)
(* of an s3 bucket.  All but the last feed the paths they walk through a   *)
(* channel to workers, which look at each and put a record or an error on  *)
(* the channel of results, the input of a backup.                          *)
(***************************************************************************)
EXTENDS Paths

CONSTANTS
    Importers,  \* those to consider: "fs", "sftp", "ftp", "s3"
    Tree,       \* the paths there are
    Top,        \* the directory to back up
    Link,       \* a symbolic link to it
    Alike,      \* paths whose name starts with that of Top
    ScanWorkers,
    MaxErrors   \* bound: operations that fail

ASSUME ImporterAssumption ==
    /\ Importers \subseteq {"fs", "sftp", "ftp", "s3"}
    /\ {Root, Top, Link} \cup Alike \subseteq Tree
    /\ \A path \in Tree : /\ path \in Seq(Nat)
                          /\ \A n \in 0 .. Len(path) : SubSeq(path, 1, n) \in Tree
    /\ MaxErrors \in Nat

VARIABLES
    importer, linked,   \* which one; is it given the link?
    walker,     \* the goroutine that walks: where it is
    todo,       \* paths it has come across
    dirs,       \* ftp: directories a goroutine is about to read
    jobs,       \* channel: paths for the workers
    open,       \* is it open?
    worker,     \* worker -> the path it looks at
    results,    \* what was put on the channel of results: <<path, what>>
    over,       \* is that closed?
    unread,     \* history: directories that could not be read, which nobody is told
    errors

scanVars == <<importer, linked, walker, todo, dirs, jobs, open, worker, results, over, unread, errors>>

Kids(path) == {p \in Tree : IsEntryBelow(path, p)}
Below      == {p \in Tree : IsPrefix(Top, p)}
Above      == {p \in Tree : IsStrictPrefix(p, Top)}

ScanInit ==
    /\ importer \in Importers /\ linked \in BOOLEAN
    /\ linked => importer \in {"fs", "sftp"}
    /\ walker = "ready" /\ todo = {} /\ dirs = {}
    /\ jobs = <<>> /\ open = TRUE
    /\ worker = [w \in ScanWorkers |-> {}]
    /\ results = {} /\ over = FALSE
    /\ unread = {} /\ errors = 0

Fails == errors < MaxErrors /\ errors' = errors + 1
Works == UNCHANGED errors

Result(path, what) == results' = results \cup {<<path, what>>}

Finish == walker' = "done" /\ open' = FALSE

-----------------------------------------------------------------------------
\* walkDir_walker looks at the directory first, and follows one link.
Walk ==
    /\ walker = "ready" /\ importer \in {"fs", "sftp"}
    /\ \/ /\ Works /\ walker' = "prefixes"
          /\ todo' = Above \cup {Root}
          /\ jobs' = IF linked THEN Append(jobs, Link) ELSE jobs
          /\ UNCHANGED <<open, results>>
       \/ /\ Fails /\ Finish /\ Result(IF linked THEN Link ELSE Top, "error")
          /\ UNCHANGED <<todo, jobs>>
    /\ UNCHANGED <<importer, linked, dirs, worker, over, unread>>

\* The ftp importer connects, and adds the directory itself to those above it.
FTPScan ==
    /\ walker = "ready" /\ importer = "ftp"
    /\ walker' = "prefixes" /\ todo' = Above \cup {Root, Top}
    /\ UNCHANGED <<importer, linked, dirs, jobs, open, worker, results, over, unread, errors>>

\* addPrefixDirectories: those above are records as well, or errors.
AddPrefixDirectories ==
    /\ walker = "prefixes"
    /\ \E path \in todo :
          /\ todo' = todo \ {path}
          /\ \/ Works /\ jobs' = Append(jobs, path) /\ UNCHANGED results
             \/ Fails /\ Result(path, "error") /\ UNCHANGED jobs
    /\ UNCHANGED <<importer, linked, walker, dirs, open, worker, over, unread>>

WalkDown ==
    /\ walker = "prefixes" /\ todo = {}
    /\ walker' = "walking"
    /\ IF importer = "ftp" THEN dirs' = {Top} /\ UNCHANGED todo
                           ELSE todo' = {Top} /\ UNCHANGED dirs
    /\ UNCHANGED <<importer, linked, jobs, open, worker, results, over, unread, errors>>

\* filepath.WalkDir, SFTPWalk: a directory that cannot be read is an error of its own;
\* what sftp cannot look at is nothing else.
WalkDir ==
    /\ walker = "walking" /\ importer \in {"fs", "sftp"}
    /\ \E path \in todo :
          \/ /\ Works /\ UNCHANGED results
             /\ jobs' = Append(jobs, path) /\ todo' = (todo \ {path}) \cup Kids(path)
          \/ /\ Fails /\ Result(path, "error") /\ todo' = todo \ {path}
             /\ \/ jobs' = Append(jobs, path)
                \/ importer = "sftp" /\ UNCHANGED jobs
    /\ UNCHANGED <<importer, linked, walker, dirs, open, worker, over, unread>>

WalkDirEnds ==
    /\ walker = "walking" /\ importer \in {"fs", "sftp"} /\ todo = {}
    /\ Finish
    /\ UNCHANGED <<importer, linked, todo, dirs, jobs, worker, results, over, unread, errors>>

\* The ftp importer reads each directory in a goroutine of its own; what it cannot
\* read is only logged.
FTPReadDir ==
    /\ walker \in {"walking", "done"} /\ importer = "ftp"
    /\ \E dir \in dirs :
          /\ dirs' = dirs \ {dir}
          /\ \/ Works /\ todo' = todo \cup Kids(dir) /\ UNCHANGED unread
             \/ Fails /\ unread' = unread \cup {dir} /\ UNCHANGED todo
    /\ UNCHANGED <<importer, linked, walker, jobs, open, worker, results, over>>

\* The goroutine that reads the top closes the channel when it is through; one that
\* is still sending then ends the process.
FTPSend ==
    /\ walker \in {"walking", "done"} /\ importer = "ftp"
    /\ \E path \in todo :
          IF open
            THEN /\ jobs' = Append(jobs, path) /\ todo' = todo \ {path}
                 /\ dirs' = IF Kids(path) = {} THEN dirs ELSE dirs \cup {path}
                 /\ UNCHANGED walker
            ELSE walker' = "panic" /\ UNCHANGED <<jobs, todo, dirs>>
    /\ UNCHANGED <<importer, linked, open, worker, results, over, unread, errors>>

FTPWalkEnds ==
    /\ walker = "walking" /\ importer = "ftp"
    /\ Top \notin dirs /\ todo \cap Kids(Top) = {}
    /\ Finish
    /\ UNCHANGED <<importer, linked, todo, dirs, jobs, worker, results, over, unread, errors>>

\* The s3 importer has no workers.  It follows the prefixes that are on the way to
\* the directory, below it, or only start like it; a listing that fails just ends.
S3Scan ==
    /\ walker = "ready" /\ importer = "s3"
    /\ walker' = "walking" /\ todo' = {Root}
    /\ UNCHANGED <<importer, linked, dirs, jobs, open, worker, results, over, unread, errors>>

ScanRecursive ==
    /\ walker = "walking" /\ importer = "s3"
    /\ \E path \in todo :
          /\ Result(path, "record")
          /\ \/ /\ Works /\ UNCHANGED unread
                /\ todo' = (todo \ {path}) \cup (Kids(path) \cap (Above \cup Below \cup Alike))
             \/ /\ Fails /\ unread' = unread \cup {path}
                /\ \E some \in SUBSET (Kids(path) \cap (Above \cup Below \cup Alike)) :
                      todo' = (todo \ {path}) \cup some
    /\ UNCHANGED <<importer, linked, walker, dirs, jobs, open, worker, over>>

S3Ends ==
    /\ walker = "walking" /\ importer = "s3" /\ todo = {}
    /\ Finish /\ over' = TRUE
    /\ UNCHANGED <<importer, linked, todo, dirs, jobs, worker, results, unread, errors>>

-----------------------------------------------------------------------------
Take(w) ==
    /\ importer # "s3" /\ walker # "panic" /\ worker[w] = {} /\ jobs # <<>>
    /\ worker' = [worker EXCEPT ![w] = {Head(jobs)}]
    /\ jobs' = Tail(jobs)
    /\ UNCHANGED <<importer, linked, walker, todo, dirs, open, results, over, unread, errors>>

\* lstat, attributes, the target of a link: the first that fails makes it an error.
Look(w) ==
    /\ walker # "panic"
    /\ \E path \in worker[w] : \/ Works /\ Result(path, "record")
                               \/ Fails /\ Result(path, "error")
    /\ worker' = [worker EXCEPT ![w] = {}]
    /\ UNCHANGED <<importer, linked, walker, todo, dirs, jobs, open, over, unread>>

\* Slip: the results are closed as soon as all paths are taken.
AllGone == ~ open /\ jobs = <<>> /\ dirs = {} /\ todo = {}

\* The workers leave when the channel is closed and empty, and the goroutines of ftp
\* when they have sent what they read.
AllDone == AllGone /\ \A w \in ScanWorkers : worker[w] = {}

CloseResults ==
    /\ importer # "s3" /\ walker # "panic" /\ ~ over /\ AllDone
    /\ over' = TRUE
    /\ UNCHANGED <<importer, linked, walker, todo, dirs, jobs, open, worker, results, unread, errors>>

ScanNext ==
    \/ Walk \/ FTPScan \/ AddPrefixDirectories \/ WalkDown \/ WalkDir \/ WalkDirEnds
    \/ FTPReadDir \/ FTPSend \/ FTPWalkEnds \/ S3Scan \/ ScanRecursive \/ S3Ends
    \/ \E w \in ScanWorkers : Take(w) \/ Look(w)
    \/ CloseResults

ScanSpec == ScanInit /\ [][ScanNext]_scanVars

-----------------------------------------------------------------------------
Seen(path)   == \E what \in {"record", "error"} : <<path, what>> \in results
Broken(path) == <<path, "error">> \in results

\* When a scan is over, each path below the directory, and each above, is a record
\* or an error, or is in a directory that could not be read: one that is an error
\* itself, or with ftp and s3 one that nobody is told about.  A scan that cannot
\* begin is one error.  Only that of ftp may end the process instead.
ScanComplete ==
    /\ over /\ ~ Broken(IF linked THEN Link ELSE Top) =>
          /\ \A path \in Above \cup Below :
                \/ Seen(path)
                \/ \E dir \in Above \cup Below :
                      /\ IsStrictPrefix(dir, path)
                      /\ dir \in unread \/ (dir \in Below /\ Broken(dir))
          /\ linked => Seen(Link)
    /\ unread # {} => importer \in {"ftp", "s3"}
    /\ walker = "panic" => importer = "ftp"
=============================================================================
