------------------------------ MODULE Readers -------------------------------
(***************************************************************************)
(* The commands that read a snapshot, at the repository it was copied to:  *)
(* restore, check and archive.  All walk the tree of the index; restore    *)
(* hands each file to a goroutine, and these share the table of hard links *)
(* and the file system.                                                    *)
(*                                                                         *)
(* What is read does not change during a walk, so the walk is computed     *)
(* when a command starts.                                                  *)
(***************************************************************************)
EXTENDS Sync

CONSTANTS
    HardLinks,      \* sets of files that are one inode
    ReadOnly,       \* directories whose permissions do not allow to write there
    MaxConcurrency  \* goroutines of a restore

ASSUME ReadersAssumption ==
    /\ HardLinks \subseteq SUBSET Regular
    /\ ReadOnly \subseteq Dirs
    /\ MaxConcurrency \in Nat \ {0}

VARIABLES
    reader,     \* the last command: what, where, its walk and how far it is
    step,       \* restore: file -> where its goroutine is
    hardlinks,  \* restore: inode -> the path that was registered for it
    target,     \* restore: path -> what is there
    linked,     \* restore: path -> the path it was linked to
    events      \* what has been told of which path
readVars == <<reader, step, hardlinks, target, linked, events>>
vars == <<syncVars, readVars>>

-----------------------------------------------------------------------------
\* WalkDir.

\* Getdents: a scan from just after the directory up to what is not below it, or
\* cannot be read.
Getdents(r, s, dir) ==
    LET there == {i \in DOMAIN s.vfs.nodes : <<"node", s.vfs.nodes[i]>> \in Readable(r)}
        scan  == ScanFrom(s.vfs, there, dir \o <<0>>)
        below(i) == IsEntryBelow(dir, scan.pairs[i][1])
        stops == {i \in DOMAIN scan.pairs : ~below(i) \/ ~Resolves(r, scan.pairs[i][2])}
        n     == IF stops = {} THEN Len(scan.pairs) ELSE Min(stops) - 1
    IN  [entries |-> SubSeq(scan.pairs, 1, n),
         ok      |-> IF stops = {} THEN scan.ok ELSE ~below(n + 1)]

\* Each entry, then what is below it; the first error ends the walk.
WalkBelow(dents, visit) ==
    LET below == [i \in DOMAIN dents.entries |-> visit[dents.entries[i][1]]]
        bad   == {i \in DOMAIN below : ~below[i].ok}
        n     == IF bad = {} THEN Len(below) ELSE Min(bad)
    IN  [visits |-> FlattenSeq([i \in 1 .. n |-> <<dents.entries[i]>> \o below[i].visits]),
         ok     |-> bad = {} /\ dents.ok]

\* From each directory.
Visits(r, s) ==
    LET visit[path \in Paths] ==
            IF path \notin Dirs THEN [visits |-> <<>>, ok |-> TRUE]
            ELSE WalkBelow(Getdents(r, s, path), visit)
    IN  visit

Walk(r, s) ==
    LET there == {i \in DOMAIN s.vfs.nodes : <<"node", s.vfs.nodes[i]>> \in Readable(r)}
        root  == ScanFrom(s.vfs, there, Root).pairs
        below == Visits(r, s)[Root]
    IN  IF root = <<>> \/ ~Resolves(r, Head(root)[2]) THEN [visits |-> <<>>, ok |-> FALSE]
        ELSE [below EXCEPT !.visits = <<Head(root)>> \o @]

-----------------------------------------------------------------------------
NoReader == [kind |-> "no", repo |-> "dst", id |-> There, visits |-> <<>>, ok |-> TRUE, at |-> 0,
             done |-> FALSE, archived |-> FALSE, cut |-> FALSE]

\* A command starts with nothing: its own context, a new directory.
Fresh == [step      |-> [f \in Regular |-> "no"],
          hardlinks |-> [l \in HardLinks |-> {}],
          target    |-> [path \in Paths |-> "absent"],
          linked    |-> [f \in Regular |-> {}]]

Init ==
    /\ SyncInit
    /\ reader = NoReader
    /\ step = Fresh.step /\ hardlinks = Fresh.hardlinks /\ target = Fresh.target /\ linked = Fresh.linked
    /\ events = {}

\* A command takes a snapshot that can be loaded; restore the latest of these.
Open(kind, r) ==
    /\ cmd.name = "idle" /\ cmd.readers < MaxReaders /\ cmd.copies > 0
    /\ cmd' = [cmd EXCEPT !.name = kind, !.readers = @ + 1]
    /\ \E id \in Locate(r) :
          /\ kind = "restore" => id = Max(Locate(r))
          /\ LET walk == Walk(r, snaps[r][id])
             IN  reader' = [NoReader EXCEPT !.kind = kind, !.repo = r, !.id = id, !.at = 1,
                                            !.visits = walk.visits, !.ok = walk.ok]
    /\ step' = Fresh.step /\ hardlinks' = Fresh.hardlinks /\ target' = Fresh.target /\ linked' = Fresh.linked
    /\ events' = {}
    /\ UNCHANGED <<errors, repoVars, sync, exposed, clone>>

Whole(r, e)  == e.object # NoObject /\ Legible(r, e.object)
Tell(what, path) == events' = events \cup {<<what, path>>}

-----------------------------------------------------------------------------
\* Restore.

Writable(path) == path = Root \/ (Parent(path) \notin ReadOnly /\ target[Parent(path)] = "dir")

\* The walk gets to the next path.  A directory gets its permissions at once,
\* before anything is in it.  A failure there ends the walk.
RestorePath ==
    /\ cmd.name = "restore" /\ reader.at \in DOMAIN reader.visits
    /\ LET path == reader.visits[reader.at][1]
       IN  \/ /\ Kind[path] = "dir" /\ Writable(path)
              /\ target' = [target EXCEPT ![path] = "dir"]
              /\ reader' = [reader EXCEPT !.at = @ + 1]
              /\ UNCHANGED <<step, events>>
           \/ /\ Kind[path] = "dir" /\ ~Writable(path)
              /\ Tell("error", path)
              /\ reader' = [reader EXCEPT !.at = Len(reader.visits) + 1, !.ok = FALSE]
              /\ UNCHANGED <<step, target>>
           \/ /\ Kind[path] = "link"
              /\ Tell("error", path)
              /\ reader' = [reader EXCEPT !.at = @ + 1]
              /\ UNCHANGED <<step, target>>
           \/ /\ Kind[path] = "regular"
              /\ Cardinality({f \in Regular : step[f] \notin {"no", "end"}}) < MaxConcurrency
              /\ step' = [step EXCEPT ![path] = "lookup"]
              /\ reader' = [reader EXCEPT !.at = @ + 1]
              /\ UNCHANGED <<target, events>>
    /\ UNCHANGED <<syncVars, hardlinks, linked>>

Go(f, from, to) == step[f] = from /\ step' = [step EXCEPT ![f] = to]

\* The table of hard links is looked up and filled under two holds of its mutex.
LookupLink(f) ==
    /\ Go(f, "lookup", IF \A l \in HardLinks : f \notin l THEN "store"
                       ELSE IF \E l \in HardLinks : f \in l /\ hardlinks[l] # {} THEN "link"
                       ELSE "register")
    /\ UNCHANGED <<syncVars, reader, hardlinks, target, linked, events>>

RegisterLink(f) ==
    /\ Go(f, "register", "store")
    /\ \E l \in HardLinks : f \in l /\ hardlinks' = [hardlinks EXCEPT ![l] = {f}]
    /\ UNCHANGED <<syncVars, reader, target, linked, events>>

\* os.Link, to a file that may not be there yet, or never.
Link(f) ==
    /\ Go(f, "link", "end")
    /\ \E l \in HardLinks : \E v \in hardlinks[l] :
          /\ f \in l
          /\ \/ /\ target[v] # "absent" /\ Writable(f)
                /\ linked' = [linked EXCEPT ![f] = {v}]
                /\ UNCHANGED events
             \/ /\ ~(target[v] # "absent" /\ Writable(f))
                /\ Tell("error", f)
                /\ UNCHANGED linked
    /\ UNCHANGED <<syncVars, reader, hardlinks, target>>

\* StoreFile creates the file, ...
Create(f) ==
    /\ \/ /\ Writable(f)
          /\ Go(f, "store", "copy")
          /\ target' = [target EXCEPT ![f] = "part"]
          /\ UNCHANGED events
       \/ /\ ~Writable(f)
          /\ Go(f, "store", "end")
          /\ Tell("error", f)
          /\ UNCHANGED target
    /\ UNCHANGED <<syncVars, reader, hardlinks, linked>>

EntryAt(f) == (CHOOSE i \in DOMAIN reader.visits : reader.visits[i][1] = f)
Readily(f) == Whole(reader.repo, reader.visits[EntryAt(f)][2])

\* Slip: an error of the copy is ignored, as one of Sync and Close is.
CopyQuietly(f) ==
    /\ Go(f, "copy", "end")
    /\ target' = [target EXCEPT ![f] = IF Readily(f) THEN "whole" ELSE "part"]
    /\ Tell("ok", f)
    /\ UNCHANGED <<syncVars, reader, hardlinks, linked>>

\* ... and copies the content, up to the first error.
Copy(f) ==
    /\ Go(f, "copy", "end")
    /\ \/ /\ Readily(f)
          /\ target' = [target EXCEPT ![f] = "whole"]
          /\ Tell("ok", f)
       \/ /\ ~Readily(f)
          /\ Tell("error", f)
          /\ UNCHANGED target
    /\ UNCHANGED <<syncVars, reader, hardlinks, linked>>

Restorer(f) == LookupLink(f) \/ RegisterLink(f) \/ Link(f) \/ Create(f) \/ Copy(f)

EndRestore ==
    /\ Stop("restore")
    /\ reader.at \notin DOMAIN reader.visits /\ \A f \in Regular : step[f] \in {"no", "end"}
    /\ reader' = [reader EXCEPT !.done = TRUE]
    /\ UNCHANGED <<errors, repoVars, sync, exposed, clone, step, hardlinks, target, linked, events>>

-----------------------------------------------------------------------------
\* Check.  Its goroutines only read and tell, so they are one step.

\* Slip: a chunk is good if the repository knows where it is.
VerdictOfStates(r, f, e, fast) ==
    IF e.object # NoObject /\ Content(e) \subseteq Located(r) THEN {<<"ok", f>>} ELSE {<<"bad", f>>}

\* A fast check asks where chunks are and does not read them; it tells that a file
\* is fine even when it told that a chunk of it is missing.
Verdict(r, f, e, fast) ==
    IF e.object = NoObject THEN {<<"bad", f>>}
    ELSE IF fast THEN {<<"ok", f>>} \cup
                      (IF Content(e) \subseteq Located(r) THEN {} ELSE {<<"bad", f>>})
    ELSE IF Legible(r, e.object) THEN {<<"ok", f>>} ELSE {<<"bad", f>>}

Check(fast) ==
    /\ Stop("check")
    /\ events' = UNION {Verdict(reader.repo, v[1], v[2], fast) :
                           v \in {w \in ToSet(reader.visits) : w[1] \in Regular}}
    /\ reader' = [reader EXCEPT !.done = TRUE, !.kind = IF fast THEN "fast check" ELSE "check"]
    /\ UNCHANGED <<errors, repoVars, sync, exposed, clone, step, hardlinks, target, linked>>

-----------------------------------------------------------------------------
\* Archive, into a temporary file that gets its name at the end.

\* Slip: what cannot be read is left out.
ArchivableInPart(room) == reader.ok /\ room > Len(reader.visits)

\* Anything that cannot be read or written is an error.
Archivable(room) ==
    /\ reader.ok /\ room > Len(reader.visits)
    /\ \A v \in ToSet(reader.visits) : v[1] \in Regular => Whole(reader.repo, v[2])

\* There is room for so many entries and the end of the archive.  What gzip still
\* has in its buffer it writes when it is closed, and that error is ignored.
Archive(tarball) ==
    /\ Stop("archive")
    /\ \E room \in 0 .. Len(reader.visits) + 1, flushed \in BOOLEAN :
          reader' = [reader EXCEPT !.done = TRUE, !.archived = Archivable(room),
                                   !.cut = tarball /\ ~flushed]
    /\ UNCHANGED <<errors, repoVars, sync, exposed, clone, step, hardlinks, target, linked, events>>

ReadNext ==
    \/ \E kind \in {"restore", "check", "archive"}, r \in {"dst", "clone"} : Open(kind, r)
    \/ RestorePath \/ EndRestore
    \/ \E f \in Regular : Restorer(f)
    \/ \E b \in BOOLEAN : Check(b) \/ Archive(b)

Next == (SyncNext /\ UNCHANGED readVars) \/ ReadNext

Spec == Init /\ [][Next]_vars

-----------------------------------------------------------------------------
\* The files a snapshot has, as its index says.
Snapshot == snaps[reader.repo][reader.id]
FilesOf(s) == {v \in ToSet(Pairs(s.vfs)) : v[1] \in Regular}

\* A restore that is done has restored each file as it was, under its name or as a
\* link, or has told of an error for it or for the file it is a link to, or has
\* failed as a whole.
RestoreAccounts ==
    reader.kind = "restore" /\ reader.done =>
        \A v \in FilesOf(Snapshot) :
            LET f == v[1]
                copies == {f} \cup linked[f]
            IN  \/ \E q \in copies : target[q] = "whole"
                \/ \E q \in copies : <<"error", q>> \in events
                \/ ~reader.ok

\* A check tells of every file that cannot be read back, or of the path where its
\* walk ended, and of no other; a fast check, of every file with a chunk of which
\* the repository does not know where it is.
CheckTells ==
    reader.kind \in {"check", "fast check"} /\ reader.done =>
        \A v \in FilesOf(Snapshot) :
            LET r == reader.repo
            IN  /\ <<"bad", v[1]>> \in events => v[2] # NoEntry /\ ~Whole(r, v[2])
                /\ \/ ~reader.ok
                   \/ /\ reader.kind = "check" /\ (Whole(r, v[2]) <=> <<"ok", v[1]>> \in events)
                      /\ (~Whole(r, v[2]) => <<"bad", v[1]>> \in events)
                   \/ /\ reader.kind = "fast check"
                      /\ v[2].object = NoObject \/ ~(Content(v[2]) \subseteq Located(r)) =>
                            <<"bad", v[1]>> \in events

\* An archive that has got its name has every file of the snapshot, whole; unless
\* the last part of a tarball could not be written (archive.go:41).
ArchiveWhole ==
    reader.archived =>
        \/ reader.cut
        \/ \A v \in FilesOf(Snapshot) :
              /\ \E i \in DOMAIN reader.visits : reader.visits[i] = v
              /\ v[2] # NoEntry /\ Whole(reader.repo, v[2])
=============================================================================
