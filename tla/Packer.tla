-------------------------------- MODULE Packer --------------------------------
(***************************************************************************)
(* The packer of a snapshot (snapshot/packer.go): the goroutines of a      *)
(* backup hand over blobs on a channel, workers gather them in packfiles,  *)
(* one flusher stores and indexes these (Snapshot.PutPackfile).  A blob is *)
(* in flight from the moment a worker packs it to the moment it is         *)
(* indexed; the goroutines hand over no blob that is in flight or indexed. *)
(***************************************************************************)
EXTENDS Naturals, Sequences, Functions

CONSTANTS
    Clients,   \* goroutines that hand over files, directories and indexes
    Workers,   \* goroutines that fill packfiles
    Blobs,
    Header,    \* the header of the snapshot, handed over by Commit
    Known,     \* blobs the repository has beforehand
    Wants,     \* bound: the blobs each client hands over
    ChanCap,   \* capacity of packerChan
    ResultCap, \* capacity of packerResultChan
    Full,      \* the packfiles over Packfile.MaxSize
    CanFail    \* may PutPackfile fail?

ASSUME PackerAssumption ==
    /\ Workers # {}
    /\ Header \in Blobs \ Known /\ Known \subseteq Blobs
    /\ Wants \in [Clients -> SUBSET (Blobs \ {Header})]
    /\ ChanCap \in Nat \ {0} /\ ResultCap \in Nat \ {0}
    /\ CanFail \in BOOLEAN

VARIABLES
    todo,      \* client: blobs it has still to hand over
    put,       \* client: the blob it is about to send, if any
    chan,      \* packerChan
    msg,       \* worker: the message it has received, if any
    isNew,     \* worker: has it seen that the message is not in flight?
    packer,    \* worker: blobs of the packfile it fills
    wpc,       \* worker: "run", "flush" (about to send its packfile) or "done"
    inflight,  \* inflightMACs
    results,   \* packerResultChan
    flushing,  \* flusher: blobs of the packfile it has received
    fpc,       \* flusher: "recv", "put", "delete", "failed" or "done"
    indexed,   \* blobs the repository has
    main       \* Commit: "files", "header", "wait" or "committed"

vars == <<todo, put, chan, msg, isNew, packer, wpc, inflight, results, flushing, fpc,
          indexed, main>>

TypeOK ==
    /\ todo \in [Clients -> SUBSET Blobs]
    /\ put \in [Clients -> SUBSET Blobs]
    /\ chan \in Seq(Blobs) /\ Len(chan) <= ChanCap
    /\ msg \in [Workers -> SUBSET Blobs]
    /\ isNew \in [Workers -> BOOLEAN]
    /\ packer \in [Workers -> SUBSET Blobs]
    /\ wpc \in [Workers -> {"run", "flush", "done"}]
    /\ inflight \subseteq Blobs
    /\ results \in Seq(SUBSET Blobs) /\ Len(results) <= ResultCap
    /\ flushing \subseteq Blobs
    /\ fpc \in {"recv", "put", "delete", "failed", "done"}
    /\ indexed \subseteq Blobs
    /\ main \in {"files", "header", "wait", "committed"}
    /\ \A w \in Workers : /\ wpc[w] # "run" => msg[w] = {}
                          /\ wpc[w] = "done" => packer[w] = {}

Init ==
    /\ todo = Wants
    /\ put = [c \in Clients |-> {}]
    /\ chan = <<>>
    /\ msg = [w \in Workers |-> {}]
    /\ isNew = [w \in Workers |-> FALSE]
    /\ packer = [w \in Workers |-> {}]
    /\ wpc = [w \in Workers |-> "run"]
    /\ inflight = {}
    /\ results = <<>>
    /\ flushing = {}
    /\ fpc = "recv"
    /\ indexed = Known
    /\ main = "files"

-----------------------------------------------------------------------------
\* The goroutines of the backup.

BlobExists(b) == b \in inflight \/ b \in indexed

\* PutBlobIfNotExists and the check of PutBlob, up to the send.
PutBlob(c) ==
    /\ put[c] = {}
    /\ \E b \in todo[c] :
        /\ todo' = [todo EXCEPT ![c] = @ \ {b}]
        /\ put' = [put EXCEPT ![c] = IF BlobExists(b) THEN {} ELSE {b}]
    /\ UNCHANGED <<chan, msg, isNew, packer, wpc, inflight, results, flushing, fpc,
                   indexed, main>>

\* Slip: the sender marks the blob as in flight.
SendBlobMarking(c) ==
    /\ Len(chan) < ChanCap
    /\ \E b \in put[c] : chan' = Append(chan, b) /\ inflight' = inflight \cup {b}
    /\ put' = [put EXCEPT ![c] = {}]
    /\ UNCHANGED <<todo, msg, isNew, packer, wpc, results, flushing, fpc, indexed, main>>

\* The send blocks while packerChan is full.
SendBlob(c) ==
    /\ Len(chan) < ChanCap
    /\ \E b \in put[c] : chan' = Append(chan, b)
    /\ put' = [put EXCEPT ![c] = {}]
    /\ UNCHANGED <<todo, msg, isNew, packer, wpc, inflight, results, flushing, fpc,
                   indexed, main>>

\* Commit: all is handed over, the header goes last.
PutHeader ==
    /\ main = "files"
    /\ \A c \in Clients : todo[c] = {} /\ put[c] = {}
    /\ Len(chan) < ChanCap
    /\ chan' = Append(chan, Header)
    /\ main' = "header"
    /\ UNCHANGED <<todo, put, msg, isNew, packer, wpc, inflight, results, flushing, fpc,
                   indexed>>

\* PackerManager.Wait closes packerChan ...
CloseChan ==
    /\ main = "header"
    /\ main' = "wait"
    /\ UNCHANGED <<todo, put, chan, msg, isNew, packer, wpc, inflight, results, flushing,
                   fpc, indexed>>

-----------------------------------------------------------------------------
\* The workers.

Receive(w) ==
    /\ wpc[w] = "run" /\ msg[w] = {} /\ chan # <<>>
    /\ msg' = [msg EXCEPT ![w] = {Head(chan)}]
    /\ chan' = Tail(chan)
    /\ UNCHANGED <<todo, put, isNew, packer, wpc, inflight, results, flushing, fpc,
                   indexed, main>>

\* inflightMACs.Load: a blob in flight is dropped, another worker has packed it.
LoadInflight(w) ==
    /\ wpc[w] = "run" /\ ~ isNew[w]
    /\ \E b \in msg[w] :
        IF b \in inflight
          THEN msg' = [msg EXCEPT ![w] = {}] /\ UNCHANGED isNew
          ELSE isNew' = [isNew EXCEPT ![w] = TRUE] /\ UNCHANGED msg
    /\ UNCHANGED <<todo, put, chan, packer, wpc, inflight, results, flushing, fpc,
                   indexed, main>>

\* AddBlobIfNotExists.
Fill(w, b) == packer[w] \cup {b}

\* inflightMACs.Store, and the blob is packed, even if another worker has stored it
\* between Load and Store.
Pack(w) ==
    /\ wpc[w] = "run" /\ isNew[w]
    /\ \E b \in msg[w] :
        /\ inflight' = inflight \cup {b}
        /\ packer' = [packer EXCEPT ![w] = Fill(w, b)]
        /\ wpc' = [wpc EXCEPT
                ![w] = IF b \notin packer[w] /\ Fill(w, b) \in Full THEN "flush" ELSE "run"]
    /\ msg' = [msg EXCEPT ![w] = {}]
    /\ isNew' = [isNew EXCEPT ![w] = FALSE]
    /\ UNCHANGED <<todo, put, chan, results, flushing, fpc, indexed, main>>

\* packerChan is closed and empty: the last packfile goes too, if there is one.
\* Slip: it is forgotten.
ForgetLast(w) ==
    /\ wpc[w] = "run" /\ msg[w] = {} /\ chan = <<>>
    /\ main \in {"wait", "committed"}
    /\ wpc' = [wpc EXCEPT ![w] = "done"]
    /\ UNCHANGED <<todo, put, chan, msg, isNew, packer, inflight, results, flushing, fpc,
                   indexed, main>>

Finish(w) ==
    /\ wpc[w] = "run" /\ msg[w] = {} /\ chan = <<>>
    /\ main \in {"wait", "committed"}
    /\ wpc' = [wpc EXCEPT ![w] = IF packer[w] = {} THEN "done" ELSE "flush"]
    /\ UNCHANGED <<todo, put, chan, msg, isNew, packer, inflight, results, flushing, fpc,
                   indexed, main>>

\* The send blocks while packerResultChan is full.
SendPacker(w) ==
    /\ wpc[w] = "flush" /\ Len(results) < ResultCap
    /\ results' = Append(results, packer[w])
    /\ packer' = [packer EXCEPT ![w] = {}]
    /\ wpc' = [wpc EXCEPT ![w] = "run"]
    /\ UNCHANGED <<todo, put, chan, msg, isNew, inflight, flushing, fpc, indexed, main>>

-----------------------------------------------------------------------------
\* The flusher, and Run, which waits for the workers and then for it.

WorkersDone == \A w \in Workers : wpc[w] = "done"

ReceivePacker ==
    /\ fpc = "recv" /\ results # <<>>
    /\ flushing' = Head(results)
    /\ results' = Tail(results)
    /\ fpc' = "put"
    /\ UNCHANGED <<todo, put, chan, msg, isNew, packer, wpc, inflight, indexed, main>>

\* Slip: after an error the flusher goes on with the next packfile.
PutPackfileSkipping ==
    /\ fpc = "put"
    /\ \/ /\ indexed' = indexed \cup flushing
          /\ fpc' = "delete"
          /\ UNCHANGED flushing
       \/ /\ CanFail
          /\ fpc' = "recv"
          /\ flushing' = {}
          /\ UNCHANGED indexed
    /\ UNCHANGED <<todo, put, chan, msg, isNew, packer, wpc, inflight, results, main>>

\* The packfile is stored and indexed; on an error the flusher is gone, and nobody
\* receives the packfiles that follow.
PutPackfile ==
    /\ fpc = "put"
    /\ \/ /\ indexed' = indexed \cup flushing
          /\ fpc' = "delete"
       \/ /\ CanFail
          /\ fpc' = "failed"
          /\ UNCHANGED indexed
    /\ UNCHANGED <<todo, put, chan, msg, isNew, packer, wpc, inflight, results, flushing,
                   main>>

\* The blobs of the packfile are no longer in flight.
DeleteInflight ==
    /\ fpc = "delete"
    /\ inflight' = inflight \ flushing
    /\ flushing' = {}
    /\ fpc' = "recv"
    /\ UNCHANGED <<todo, put, chan, msg, isNew, packer, wpc, results, indexed, main>>

\* The workers are done: packerResultChan is closed, the flusher ends.
\* Slip: it ends as soon as there is nothing to receive.
FlusherLeaves ==
    /\ fpc = "recv" /\ results = <<>> /\ main = "wait"
    /\ fpc' = "done"
    /\ UNCHANGED <<todo, put, chan, msg, isNew, packer, wpc, inflight, results, flushing,
                   indexed, main>>

FlusherEnds ==
    /\ fpc = "recv" /\ results = <<>> /\ WorkersDone
    /\ fpc' = "done"
    /\ UNCHANGED <<todo, put, chan, msg, isNew, packer, wpc, inflight, results, flushing,
                   indexed, main>>

\* ... and waits until Run has ended.  The flusher's error is only logged.
\* Slip: it waits for the workers only.
CommitUnflushed ==
    /\ main = "wait" /\ WorkersDone
    /\ main' = "committed"
    /\ UNCHANGED <<todo, put, chan, msg, isNew, packer, wpc, inflight, results, flushing,
                   fpc, indexed>>

Commit ==
    /\ main = "wait" /\ WorkersDone /\ fpc \in {"done", "failed"}
    /\ main' = "committed"
    /\ UNCHANGED <<todo, put, chan, msg, isNew, packer, wpc, inflight, results, flushing,
                   fpc, indexed>>

Backup == (\E c \in Clients : PutBlob(c) \/ SendBlob(c)) \/ PutHeader \/ CloseChan \/ Commit

Work(w) == Receive(w) \/ LoadInflight(w) \/ Pack(w) \/ Finish(w) \/ SendPacker(w)

Flush == ReceivePacker \/ PutPackfile \/ DeleteInflight \/ FlusherEnds

\* The end, not a deadlock.
Terminated == main = "committed" /\ UNCHANGED vars

Next == Backup \/ (\E w \in Workers : Work(w)) \/ Flush \/ Terminated

Spec == Init /\ [][Next]_vars

\* The Go scheduler runs every goroutine that can go on; a send that is possible
\* again and again to one of several clients or workers happens at last: the
\* senders of a channel wait in a queue.
FairSpec == /\ Spec /\ WF_vars(Backup) /\ WF_vars(Flush)
            /\ \A w \in Workers : WF_vars(Work(w)) /\ SF_vars(SendPacker(w))
            /\ \A c \in Clients : SF_vars(SendBlob(c))
-----------------------------------------------------------------------------
\* The blobs whose PutBlobIfNotExists has returned, without an error.
accepted == (UNION {Wants[c] \ (todo[c] \cup put[c]) : c \in Clients})
            \cup (IF main = "files" THEN {} ELSE {Header})

\* The blobs packed and not indexed yet, and those on their way to a worker.
Packed   == flushing \cup (UNION Range(results)) \cup (UNION Range(packer))
Pipeline == Packed \cup Range(chan) \cup (UNION Range(msg))

\* A blob is dropped only if the repository has it or some packfile under way has
\* it: two workers that pack the same blob, and the flusher that deletes it from
\* the blobs in flight when the first packfile is indexed, do not lose it.
NothingLost == accepted \subseteq indexed \cup Pipeline

\* A blob in flight is in a packfile: who finds it in flight may count on it.
InflightIsPacked == inflight \subseteq indexed \cup Packed

\* When Commit goes on, all that was handed over is in the repository:
\* Commit says "We are done with packfiles we can flush the last state".
CommitComplete == main = "committed" => accepted \subseteq indexed

\* The packer is a sink that closes when all is stored, unless its flusher failed.
Sink == INSTANCE BlobSink WITH stored <- indexed,
                               closed <- (main = "committed" /\ fpc # "failed")
IsBlobSink == Sink!Spec

\* A backup comes to its end, unless its flusher failed: nobody waits forever for
\* room in a channel.
CommitReturns == <>(main = "committed" \/ fpc = "failed")
=============================================================================
