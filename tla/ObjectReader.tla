---------------------------- MODULE ObjectReader ----------------------------
(***************************************************************************)
(* Reading a file of a snapshot: its object is a list of chunks, and a     *)
(* reader finds its way through them by their lengths, with one chunk open *)
(* at a time.  http.ServeContent seeks: to the end, for the size, and from *)
(* the start.  The size is that which the importer told of: the file may   *)
(* have been longer or shorter when it was read.                           *)
(***************************************************************************)
EXTENDS Integers, Sequences, FiniteSetsExt

CONSTANTS MaxChunks, MaxChunkLength, MaxSize    \* bounds of the files that are read

ASSUME ReaderAssumption ==
    MaxChunks \in Nat \ {0} /\ MaxChunkLength \in Nat /\ MaxSize \in Nat

VARIABLES
    chunks,     \* the lengths of the chunks: what was read of the file
    size,       \* the size of the file when it was listed
    objoff,     \* the chunk the reader is in
    off,        \* the position it says it is at
    rd,         \* the position in that chunk, if it is open
    outcome,    \* of the last call
    since       \* history: where it was last sent, the start, the end or elsewhere

readerVars == <<chunks, size, objoff, off, rd, outcome, since>>

Closed  == -1
Chunks  == DOMAIN chunks
Offsets == -2 .. MaxChunks * MaxChunkLength + 1

\* The bytes before chunk i, and after it.
Before[i \in 1 .. Len(chunks) + 1] == IF i = 1 THEN 0 ELSE Before[i - 1] + chunks[i - 1]
Total    == Before[Len(chunks) + 1]
After(i) == Total - Before[i + 1]

\* A file listed as empty is one empty chunk; of a large one that is empty when it is
\* read there is none.
ReaderInit ==
    /\ chunks \in UNION {[1 .. n -> 0 .. MaxChunkLength] : n \in 0 .. MaxChunks}
    /\ size \in 0 .. MaxSize
    /\ size = 0 => chunks = <<0>>
    /\ objoff = 1 /\ off = 0 /\ rd = Closed
    /\ outcome = "ok" /\ since = "start"

\* Who gets an error gives up.
Calls == outcome \in {"ok", "eof"} /\ UNCHANGED <<chunks, size>>

At(i, position, pos, how) == objoff' = i /\ off' = position /\ rd' = pos /\ outcome' = how

\* Opening a chunk to go to pos in it may fail.
OpenAt(i, position, pos) ==
    \/ pos >= 0 /\ At(i, position, pos, "ok")
    \/ At(i, position, Closed, "error")

-----------------------------------------------------------------------------
\* Slip: the reader of a chunk that is exhausted is kept.
PosKept(i) == IF rd # Closed THEN rd ELSE 0

Pos(i) == IF i = objoff /\ rd # Closed THEN rd ELSE 0

\* The next bytes of this chunk, or of the first after it that has some.
ReadSome ==
    /\ Calls /\ UNCHANGED since
    /\ LET rest == {i \in Chunks : i >= objoff /\ Pos(i) < chunks[i]}
       IN  IF objoff = 0 THEN At(objoff, off, rd, "panic")
           ELSE IF rest = {} THEN At(Len(chunks) + 1, off, Closed, "eof")
           ELSE LET i == Min(rest)
                IN  \E n \in 1 .. chunks[i] - Pos(i) : At(i, off + n, Pos(i) + n, "ok")

\* A chunk to be opened on the way may not be readable.
ReadFails ==
    /\ Calls /\ UNCHANGED since
    /\ \E i \in Chunks :
          /\ i > objoff \/ (i = objoff /\ rd = Closed)
          /\ \A j \in Chunks : objoff <= j /\ j < i => Pos(j) >= chunks[j]
          /\ At(i, off, Closed, "error")

\* A position on the edge of two chunks is the end of the first one.
SeekStart(offset) ==
    /\ Calls /\ since' = "start"
    /\ LET fits == {i \in Chunks : offset - Before[i] <= chunks[i]}
       IN  IF fits = {} THEN At(Len(chunks) + 1, Total, Closed, "ok")
           ELSE LET i == Min(fits) IN OpenAt(i, offset, offset - Before[i])

\* The offset is taken from the size, and added to the end of a chunk.
SeekEnd(offset) ==
    /\ Calls /\ since' = IF offset = 0 THEN "end" ELSE "elsewhere"
    /\ LET fits == {i \in Chunks : offset - After(i) <= chunks[i]}
       IN  IF fits = {} THEN At(0, size - Total, Closed, "ok")
           ELSE LET i == Max(fits) IN OpenAt(i, size - offset, chunks[i] + offset - After(i))

\* The position in the chunk becomes that in the file; where the two were different,
\* the loop that goes on to the next chunk never leaves it, unless there is none.
\* Bound: not far beyond the end.
SeekCurrent(offset) ==
    /\ off + offset <= Total + 1
    /\ Calls /\ since' = "elsewhere"
    /\ LET n    == rd + offset
           rest == IF rd # Closed THEN offset - (n - off) ELSE offset
           pos  == IF rd # Closed THEN n ELSE rd
           here == IF rd # Closed THEN n ELSE off
       IN  IF rd # Closed /\ n < 0 THEN At(objoff, off, rd, "error")
           ELSE IF rest = 0 THEN At(objoff, here, pos, "ok")
           ELSE IF objoff >= Len(chunks) THEN At(Len(chunks) + 1, here, pos, "ok")
           ELSE \/ rest > 0 /\ At(objoff + 1, here, pos, "hang")
                \/ At(objoff + 1, here, pos, "error")

ReaderNext ==
    \/ ReadSome \/ ReadFails
    \/ \E offset \in Offsets : SeekStart(offset) \/ SeekEnd(offset) \/ SeekCurrent(offset)

ReaderSpec == ReaderInit /\ [][ReaderNext]_readerVars

-----------------------------------------------------------------------------
\* Where the next byte comes from, in the file as it was read.
Here == Before[objoff] + (IF objoff \in Chunks /\ rd # Closed THEN rd ELSE 0)

\* From the start on, the position a reader tells is the one it reads from, and it comes
\* to the end of what was read at its end only, over empty chunks and edges of chunks.
\* At the end it tells the size the file was listed with, wherever its content ends.
\* After any other seek a reader may be anywhere and hang or panic, until it is sent
\* to the start; one at the end of a file without chunks panics when it reads.
ReaderSound ==
    /\ since = "start" /\ outcome # "error" =>
          /\ objoff >= 1 /\ off = Here /\ off <= Total
          /\ outcome = "eof" => off = Total
    /\ since = "end" /\ outcome # "error" =>
          /\ off = size
          /\ chunks # <<>> => objoff >= 1 /\ Here = Total
    /\ outcome = "hang" => since = "elsewhere"
    /\ outcome = "panic" => since = "elsewhere" \/ (since = "end" /\ chunks = <<>>)
=============================================================================
