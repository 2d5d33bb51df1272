----------------------------- MODULE PackerProofs -----------------------------
(***************************************************************************)
(* Theorems about Packer, for any number of clients and workers, any       *)
(* capacities of the channels and any sizes of the packfiles, whether or   *)
(* not the flusher fails.                                                  *)
(***************************************************************************)
EXTENDS Packer, TLAPS

\* What is in a channel after a send.
LEMMA RangeOfAppend ==
    ASSUME NEW S, NEW s \in Seq(S), NEW e \in S
    PROVE  Range(Append(s, e)) = Range(s) \cup {e}
<1>1. /\ DOMAIN Append(s, e) = 1 .. Len(s) + 1 /\ DOMAIN s = 1 .. Len(s)
      /\ \A i \in 1 .. Len(s) : Append(s, e)[i] = s[i]
      /\ Append(s, e)[Len(s) + 1] = e /\ Len(s) \in Nat
  OBVIOUS
<1> QED BY <1>1 DEF Range

\* What is in a channel before a receive: the message, and what stays.
LEMMA RangeOfTail ==
    ASSUME NEW S, NEW s \in Seq(S), s # <<>>
    PROVE  /\ Head(s) \in S /\ Tail(s) \in Seq(S) /\ Len(Tail(s)) <= Len(s)
           /\ Range(s) = {Head(s)} \cup Range(Tail(s))
<1>1. /\ Head(s) \in S /\ Tail(s) \in Seq(S) /\ Len(Tail(s)) <= Len(s)
      /\ Len(s) \in Nat \ {0} /\ Head(s) = s[1]
  OBVIOUS
<1>2. DOMAIN s = 1 .. Len(s) /\ DOMAIN Tail(s) = 1 .. Len(s) - 1
  OBVIOUS
<1>3. \A i \in 1 .. Len(s) - 1 : i + 1 \in 1 .. Len(s) /\ Tail(s)[i] = s[i + 1]
  OBVIOUS
<1>4. \A i \in 1 .. Len(s) : i # 1 => i - 1 \in 1 .. Len(s) - 1 /\ s[i] = Tail(s)[i - 1]
  <2> SUFFICES ASSUME NEW i \in 1 .. Len(s), i # 1
               PROVE  i - 1 \in 1 .. Len(s) - 1 /\ s[i] = Tail(s)[i - 1]
    OBVIOUS
  <2>1. i - 1 \in 1 .. Len(s) - 1 /\ (i - 1) + 1 = i
    BY <1>1
  <2> QED BY <1>3, <2>1
<1>5. Range(s) \subseteq {Head(s)} \cup Range(Tail(s))
  <2> SUFFICES ASSUME NEW i \in 1 .. Len(s) PROVE s[i] \in {Head(s)} \cup Range(Tail(s))
    BY <1>2 DEF Range
  <2>1. CASE i = 1
    BY <1>1, <2>1
  <2>2. CASE i # 1
    BY <1>2, <1>4, <2>2 DEF Range
  <2> QED BY <2>1, <2>2
<1>6. {Head(s)} \cup Range(Tail(s)) \subseteq Range(s)
  <2>1. Head(s) \in Range(s)
    BY <1>1, <1>2 DEF Range
  <2>2. Range(Tail(s)) \subseteq Range(s)
    BY <1>2, <1>3 DEF Range
  <2> QED BY <2>1, <2>2
<1> QED BY <1>1, <1>5, <1>6

\* Nothing is in an empty channel.
LEMMA RangeOfEmpty == Range(<<>>) = {}
BY DEF Range

\* The blobs the workers have, before and after one of them changes its own.
LEMMA UnionOfUpdate ==
    ASSUME NEW f \in [Workers -> SUBSET Blobs], NEW w \in Workers, NEW x
    PROVE  (UNION Range([f EXCEPT ![w] = x])) \cup f[w] = (UNION Range(f)) \cup x
<1> DEFINE g == [f EXCEPT ![w] = x]
<1>1. DOMAIN g = Workers /\ g[w] = x /\ \A v \in Workers \ {w} : g[v] = f[v]
  OBVIOUS
<1>2. \A y : y \in UNION Range(g) <=> \E v \in Workers : y \in g[v]
  BY <1>1 DEF Range
<1>3. \A y : y \in UNION Range(f) <=> \E v \in Workers : y \in f[v]
  BY DEF Range
<1> HIDE DEF g
<1>4. \A y : y \in (UNION Range(g)) \cup f[w] <=> y \in (UNION Range(f)) \cup x
  BY <1>1, <1>2, <1>3
<1> QED BY <1>4 DEF g

-----------------------------------------------------------------------------
\* Every variable keeps its type, and a worker sends its packfile and ends only
\* between two messages.
THEOREM TypeCorrect == Spec => []TypeOK
<1>1. Init => TypeOK
  BY PackerAssumption DEF Init, TypeOK
<1>2. TypeOK /\ [Next]_vars => TypeOK'
  <2> SUFFICES ASSUME TypeOK, [Next]_vars PROVE TypeOK'
    OBVIOUS
  <2> USE PackerAssumption DEF TypeOK
  <2>1. ASSUME NEW c \in Clients, PutBlob(c) PROVE TypeOK'
    BY <2>1 DEF PutBlob
  <2>2. ASSUME NEW c \in Clients, SendBlob(c) PROVE TypeOK'
    <3>1. PICK b \in put[c] : chan' = Append(chan, b)
      BY <2>2 DEF SendBlob
    <3>2. chan' \in Seq(Blobs) /\ Len(chan') <= ChanCap
      BY <2>2, <3>1 DEF SendBlob
    <3> QED BY <2>2, <3>2 DEF SendBlob
  <2>3. CASE PutHeader
    <3>1. chan' \in Seq(Blobs) /\ Len(chan') <= ChanCap
      BY <2>3 DEF PutHeader
    <3> QED BY <2>3, <3>1 DEF PutHeader
  <2>4. CASE CloseChan
    BY <2>4 DEF CloseChan
  <2>5. CASE Commit
    BY <2>5 DEF Commit
  <2>6. ASSUME NEW w \in Workers, Receive(w) PROVE TypeOK'
    <3>1. Head(chan) \in Blobs /\ chan' \in Seq(Blobs) /\ Len(chan') <= ChanCap
      BY <2>6, RangeOfTail DEF Receive
    <3> QED BY <2>6, <3>1 DEF Receive
  <2>7. ASSUME NEW w \in Workers, LoadInflight(w) PROVE TypeOK'
    BY <2>7 DEF LoadInflight
  <2>8. ASSUME NEW w \in Workers, Pack(w) PROVE TypeOK'
    BY <2>8 DEF Pack, Fill
  <2>9. ASSUME NEW w \in Workers, Finish(w) PROVE TypeOK'
    BY <2>9 DEF Finish
  <2>10. ASSUME NEW w \in Workers, SendPacker(w) PROVE TypeOK'
    <3>1. results' \in Seq(SUBSET Blobs) /\ Len(results') <= ResultCap
      BY <2>10 DEF SendPacker
    <3> QED BY <2>10, <3>1 DEF SendPacker
  <2>11. CASE ReceivePacker
    <3>1. /\ Head(results) \in SUBSET Blobs /\ results' \in Seq(SUBSET Blobs)
          /\ Len(results') <= ResultCap
      BY <2>11, RangeOfTail DEF ReceivePacker
    <3> QED BY <2>11, <3>1 DEF ReceivePacker
  <2>12. CASE PutPackfile
    BY <2>12 DEF PutPackfile
  <2>13. CASE DeleteInflight
    BY <2>13 DEF DeleteInflight
  <2>14. CASE FlusherEnds
    BY <2>14 DEF FlusherEnds
  <2>15. CASE UNCHANGED vars
    BY <2>15 DEF vars
  <2> QED BY <2>1, <2>2, <2>3, <2>4, <2>5, <2>6, <2>7, <2>8, <2>9, <2>10, <2>11, <2>12,
             <2>13, <2>14, <2>15 DEF Next, Backup, Work, Flush, Terminated
<1> QED BY <1>1, <1>2, PTL DEF Spec

-----------------------------------------------------------------------------
\* A client sends one blob at a time, which it still owed; when the header is
\* handed over, no client owes any.
ClientsInOrder ==
    /\ \A c \in Clients : /\ todo[c] \subseteq Wants[c]
                          /\ put[c] \subseteq Wants[c] \ todo[c]
                          /\ \A x, y \in put[c] : x = y
    /\ main # "files" => \A c \in Clients : todo[c] = {} /\ put[c] = {}

\* A worker has one message at a time, and ends when packerChan is closed and empty.
WorkersInOrder ==
    \A w \in Workers : /\ \A x, y \in msg[w] : x = y
                       /\ wpc[w] = "done" => chan = <<>> /\ main \in {"wait", "committed"}

\* The flusher has a packfile only between receiving and forgetting it, deletes only
\* blobs that are indexed, and ends after the workers; Commit after all of them.
FlusherInOrder ==
    /\ fpc \in {"recv", "done"} => flushing = {}
    /\ fpc = "delete" => flushing \subseteq indexed
    /\ fpc = "done" => results = <<>> /\ WorkersDone
    /\ main = "committed" => WorkersDone /\ fpc \in {"done", "failed"}

\* Only what clients have handed over is on its way.
NothingInvented == Pipeline \subseteq accepted

PackerInv == /\ TypeOK /\ ClientsInOrder /\ WorkersInOrder /\ FlusherInOrder
             /\ InflightIsPacked /\ NothingInvented /\ NothingLost

\* Who is where: everything about the order of the steps.
LEMMA OrderStep ==
    ASSUME TypeOK, TypeOK', ClientsInOrder, WorkersInOrder, FlusherInOrder, [Next]_vars
    PROVE  ClientsInOrder' /\ WorkersInOrder' /\ FlusherInOrder'
<1> USE DEF TypeOK, ClientsInOrder, WorkersInOrder, FlusherInOrder, WorkersDone
<1>1. ASSUME NEW c \in Clients, PutBlob(c)
      PROVE  ClientsInOrder' /\ WorkersInOrder' /\ FlusherInOrder'
  BY <1>1 DEF PutBlob
<1>2. ASSUME NEW c \in Clients, SendBlob(c)
      PROVE  ClientsInOrder' /\ WorkersInOrder' /\ FlusherInOrder'
  <2>1. main = "files"
    BY <1>2 DEF SendBlob
  <2> QED BY <1>2, <2>1 DEF SendBlob
<1>3. CASE PutHeader
  BY <1>3 DEF PutHeader
<1>4. CASE CloseChan
  BY <1>4 DEF CloseChan
<1>5. CASE Commit
  BY <1>5 DEF Commit
<1>6. ASSUME NEW w \in Workers, Receive(w)
      PROVE  ClientsInOrder' /\ WorkersInOrder' /\ FlusherInOrder'
  BY <1>6 DEF Receive
<1>7. ASSUME NEW w \in Workers, LoadInflight(w)
      PROVE  ClientsInOrder' /\ WorkersInOrder' /\ FlusherInOrder'
  BY <1>7 DEF LoadInflight
<1>8. ASSUME NEW w \in Workers, Pack(w)
      PROVE  ClientsInOrder' /\ WorkersInOrder' /\ FlusherInOrder'
  BY <1>8 DEF Pack
<1>9. ASSUME NEW w \in Workers, Finish(w)
      PROVE  ClientsInOrder' /\ WorkersInOrder' /\ FlusherInOrder'
  BY <1>9 DEF Finish
<1>10. ASSUME NEW w \in Workers, SendPacker(w)
       PROVE  ClientsInOrder' /\ WorkersInOrder' /\ FlusherInOrder'
  BY <1>10 DEF SendPacker
<1>11. CASE ReceivePacker
  BY <1>11 DEF ReceivePacker
<1>12. CASE PutPackfile
  BY <1>12 DEF PutPackfile
<1>13. CASE DeleteInflight
  BY <1>13 DEF DeleteInflight
<1>14. CASE FlusherEnds
  BY <1>14 DEF FlusherEnds
<1>15. CASE UNCHANGED vars
  BY <1>15 DEF vars
<1> QED BY <1>1, <1>2, <1>3, <1>4, <1>5, <1>6, <1>7, <1>8, <1>9, <1>10, <1>11, <1>12,
           <1>13, <1>14, <1>15 DEF Next, Backup, Work, Flush, Terminated

-----------------------------------------------------------------------------
\* What each step does to the blobs accepted and to those on their way.

\* A blob that is sent, or is not sent because it exists, becomes accepted.
LEMMA AcceptBlob ==
    ASSUME TypeOK, ClientsInOrder, NEW c \in Clients, NEW b \in Blobs, b \in todo[c] \cup put[c],
           todo' \in [Clients -> SUBSET Blobs], put' \in [Clients -> SUBSET Blobs],
           todo'[c] \cup put'[c] = (todo[c] \cup put[c]) \ {b},
           \A d \in Clients \ {c} : todo'[d] = todo[d] /\ put'[d] = put[d],
           UNCHANGED main
    PROVE  accepted' = accepted \cup {b}
<1>1. Wants[c] \ (todo'[c] \cup put'[c]) = (Wants[c] \ (todo[c] \cup put[c])) \cup {b}
  BY DEF ClientsInOrder
<1>2. \A d \in Clients \ {c} : Wants[d] \ (todo'[d] \cup put'[d]) = Wants[d] \ (todo[d] \cup put[d])
  OBVIOUS
<1>3. UNION {Wants[d] \ (todo'[d] \cup put'[d]) : d \in Clients}
        = (UNION {Wants[d] \ (todo[d] \cup put[d]) : d \in Clients}) \cup {b}
  <2>1. ASSUME NEW x, x \in UNION {Wants[d] \ (todo'[d] \cup put'[d]) : d \in Clients}
        PROVE  x \in (UNION {Wants[d] \ (todo[d] \cup put[d]) : d \in Clients}) \cup {b}
    BY <1>1, <1>2, <2>1
  <2>2. ASSUME NEW x, x \in UNION {Wants[d] \ (todo[d] \cup put[d]) : d \in Clients}
        PROVE  x \in UNION {Wants[d] \ (todo'[d] \cup put'[d]) : d \in Clients}
    <3>1. PICK d \in Clients : x \in Wants[d] \ (todo[d] \cup put[d])
      BY <2>2
    <3>2. x \in Wants[d] \ (todo'[d] \cup put'[d])
      BY <1>1, <1>2, <3>1
    <3> QED BY <3>2
  <2>3. b \in UNION {Wants[d] \ (todo'[d] \cup put'[d]) : d \in Clients}
    BY <1>1
  <2> QED BY <2>1, <2>2, <2>3
<1> QED BY <1>3 DEF accepted

\* PutBlob accepts a blob only if it is in flight or indexed.
LEMMA PutBlobAccepts ==
    ASSUME TypeOK, TypeOK', ClientsInOrder, NEW c \in Clients, PutBlob(c)
    PROVE  \/ UNCHANGED accepted
           \/ \E b \in inflight \cup indexed : accepted' = accepted \cup {b}
<1>1. PICK b \in todo[c] :
         /\ todo' = [todo EXCEPT ![c] = @ \ {b}]
         /\ put' = [put EXCEPT ![c] = IF BlobExists(b) THEN {} ELSE {b}]
  BY DEF PutBlob
<1>2. put[c] = {} /\ UNCHANGED main
  BY DEF PutBlob
<1>3. CASE BlobExists(b)
  <2>1. accepted' = accepted \cup {b}
    <3>1. todo'[c] \cup put'[c] = (todo[c] \cup put[c]) \ {b}
      BY <1>1, <1>2, <1>3 DEF TypeOK
    <3> QED BY <1>1, <1>2, <3>1, AcceptBlob DEF TypeOK
  <2> QED BY <1>3, <2>1 DEF BlobExists
<1>4. CASE ~ BlobExists(b)
  <2>1. \A d \in Clients : todo'[d] \cup put'[d] = todo[d] \cup put[d]
    BY <1>1, <1>2, <1>4 DEF TypeOK
  <2> QED BY <1>2, <2>1 DEF accepted
<1> QED BY <1>3, <1>4

\* A blob that is sent becomes accepted and is on its way.
LEMMA SendBlobAccepts ==
    ASSUME TypeOK, TypeOK', ClientsInOrder, NEW c \in Clients, SendBlob(c)
    PROVE  \E b \in Blobs : /\ accepted' = accepted \cup {b}
                            /\ Pipeline' = Pipeline \cup {b}
                            /\ UNCHANGED Packed
<1>1. PICK b \in put[c] : chan' = Append(chan, b)
  BY DEF SendBlob
<1>2. /\ put' = [put EXCEPT ![c] = {}] /\ put[c] = {b} /\ b \in Blobs /\ b \notin todo[c]
      /\ UNCHANGED <<todo, main, msg, packer, results, flushing>>
  BY <1>1 DEF SendBlob, ClientsInOrder, TypeOK
<1>3. accepted' = accepted \cup {b}
  <2>1. todo'[c] \cup put'[c] = (todo[c] \cup put[c]) \ {b}
    BY <1>2 DEF TypeOK
  <2> QED BY <1>2, <2>1, AcceptBlob DEF TypeOK
<1>4. Range(chan') = Range(chan) \cup {b}
  BY <1>1, <1>2, RangeOfAppend DEF TypeOK
<1> QED BY <1>2, <1>3, <1>4 DEF Pipeline, Packed

\* So does the header.
LEMMA PutHeaderAccepts ==
    ASSUME TypeOK, PutHeader
    PROVE  /\ accepted' = accepted \cup {Header}
           /\ Pipeline' = Pipeline \cup {Header}
           /\ UNCHANGED Packed
<1>1. Range(chan') = Range(chan) \cup {Header}
  BY PackerAssumption, RangeOfAppend DEF PutHeader, TypeOK
<1> QED BY <1>1 DEF PutHeader, accepted, Pipeline, Packed

\* Workers and flusher accept nothing, and move blobs along.
LEMMA WorkMoves ==
    ASSUME TypeOK, WorkersInOrder, NEW w \in Workers, Work(w)
    PROVE  /\ UNCHANGED <<accepted, indexed>>
           /\ Pipeline' \subseteq Pipeline
           /\ Pipeline \subseteq Pipeline' \cup inflight
           /\ Packed \subseteq Packed'
           /\ inflight \subseteq inflight'
           /\ inflight' \subseteq inflight \cup Packed'
<1>1. UNCHANGED <<todo, put, main, indexed>>
  BY DEF Work, Receive, LoadInflight, Pack, Finish, SendPacker
<1>2. UNCHANGED accepted
  BY <1>1 DEF accepted
<1>3. CASE Receive(w)
  <2>1. Range(chan) = msg'[w] \cup Range(chan')
    BY <1>3, RangeOfTail DEF Receive, TypeOK
  <2>2. msg[w] = {} /\ \A v \in Workers \ {w} : msg'[v] = msg[v]
    BY <1>3 DEF Receive, TypeOK
  <2>3. UNION Range(msg') = (UNION Range(msg)) \cup msg'[w]
    BY <1>3, <2>2 DEF Receive, TypeOK, Range
  <2>4. Pipeline' = Pipeline /\ Packed' = Packed /\ inflight' = inflight
    BY <1>3, <2>1, <2>3 DEF Receive, Pipeline, Packed
  <2> QED BY <1>1, <1>2, <2>4
<1>4. CASE LoadInflight(w)
  <2>1. PICK b \in msg[w] :
           IF b \in inflight
             THEN msg' = [msg EXCEPT ![w] = {}] /\ UNCHANGED isNew
             ELSE isNew' = [isNew EXCEPT ![w] = TRUE] /\ UNCHANGED msg
    BY <1>4 DEF LoadInflight
  <2>2. /\ UNION Range(msg') \subseteq UNION Range(msg)
        /\ UNION Range(msg) \subseteq (UNION Range(msg')) \cup inflight
    <3>1. CASE b \in inflight
      <4>1. msg[w] = {b} /\ msg' = [msg EXCEPT ![w] = {}]
        BY <2>1, <3>1 DEF WorkersInOrder
      <4>2. msg \in [Workers -> SUBSET Blobs]
        BY DEF TypeOK
      <4>3. (UNION Range([msg EXCEPT ![w] = {}])) \cup msg[w] = (UNION Range(msg)) \cup {}
        BY <4>2, UnionOfUpdate
      <4> QED BY <3>1, <4>1, <4>3
    <3>2. CASE b \notin inflight
      BY <2>1, <3>2
    <3> QED BY <3>1, <3>2
  <2> QED BY <1>1, <1>2, <1>4, <2>2 DEF LoadInflight, Pipeline, Packed
<1>5. CASE Pack(w)
  <2>1. PICK b \in msg[w] : /\ inflight' = inflight \cup {b}
                            /\ packer' = [packer EXCEPT ![w] = packer[w] \cup {b}]
    BY <1>5 DEF Pack, Fill
  <2>2. msg[w] = {b} /\ msg' = [msg EXCEPT ![w] = {}]
    BY <1>5, <2>1 DEF Pack, WorkersInOrder
  <2>3. UNION Range(packer') = (UNION Range(packer)) \cup {b}
    BY <2>1 DEF TypeOK, Range
  <2>4. /\ UNION Range(msg') \subseteq UNION Range(msg)
        /\ UNION Range(msg) = (UNION Range(msg')) \cup {b}
    <3>1. msg \in [Workers -> SUBSET Blobs]
      BY DEF TypeOK
    <3>2. (UNION Range([msg EXCEPT ![w] = {}])) \cup msg[w] = (UNION Range(msg)) \cup {}
      BY <3>1, UnionOfUpdate
    <3> QED BY <2>2, <3>2
  <2> QED BY <1>1, <1>2, <1>5, <2>1, <2>3, <2>4 DEF Pack, Pipeline, Packed
<1>6. CASE Finish(w)
  BY <1>1, <1>2, <1>6 DEF Finish, Pipeline, Packed
<1>7. CASE SendPacker(w)
  <2>1. Range(results') = Range(results) \cup {packer[w]}
    <3>1. /\ results' = Append(results, packer[w])
          /\ results \in Seq(SUBSET Blobs) /\ packer[w] \in SUBSET Blobs
      BY <1>7 DEF SendPacker, TypeOK
    <3> QED BY <3>1, RangeOfAppend
  <2>2. UNION Range(packer) = (UNION Range(packer')) \cup packer[w]
    BY <1>7 DEF SendPacker, TypeOK, Range
  <2> QED BY <1>1, <1>2, <1>7, <2>1, <2>2 DEF SendPacker, Pipeline, Packed
<1> QED BY <1>3, <1>4, <1>5, <1>6, <1>7 DEF Work

\* The flusher forgets a blob only when it is indexed.
LEMMA FlushMoves ==
    ASSUME TypeOK, FlusherInOrder, Flush
    PROVE  /\ UNCHANGED accepted
           /\ indexed \subseteq indexed' /\ indexed' \subseteq indexed \cup flushing
           /\ Pipeline' \subseteq Pipeline
           /\ Pipeline \subseteq Pipeline' \cup indexed
           /\ Packed \subseteq Packed' \cup indexed
           /\ inflight' \subseteq inflight
<1>1. UNCHANGED accepted
  BY DEF Flush, ReceivePacker, PutPackfile, DeleteInflight, FlusherEnds, accepted
<1>2. CASE ReceivePacker
  <2>1. flushing = {} /\ flushing' = Head(results) /\ results' = Tail(results)
    BY <1>2 DEF ReceivePacker, FlusherInOrder
  <2>2. Range(results) = {Head(results)} \cup Range(Tail(results))
    <3>1. results \in Seq(SUBSET Blobs) /\ results # <<>>
      BY <1>2 DEF ReceivePacker, TypeOK
    <3> QED BY <3>1, RangeOfTail
  <2>3. (UNION Range(results)) = flushing' \cup (UNION Range(results'))
    BY <2>1, <2>2
  <2> QED BY <1>1, <1>2, <2>1, <2>3 DEF ReceivePacker, Pipeline, Packed
<1>3. CASE PutPackfile
  BY <1>1, <1>3 DEF PutPackfile, Pipeline, Packed
<1>4. CASE DeleteInflight
  BY <1>1, <1>4 DEF DeleteInflight, FlusherInOrder, Pipeline, Packed
<1>5. CASE FlusherEnds
  BY <1>1, <1>5 DEF FlusherEnds, Pipeline, Packed
<1> QED BY <1>2, <1>3, <1>4, <1>5 DEF Flush

\* No step loses a blob, takes one out of flight too early, or makes one up.
LEMMA MovesStep ==
    ASSUME PackerInv, TypeOK', [Next]_vars
    PROVE  InflightIsPacked' /\ NothingInvented' /\ NothingLost'
<1> USE DEF PackerInv, InflightIsPacked, NothingInvented, NothingLost
<1>0. Packed \subseteq Pipeline
  BY DEF Pipeline
<1>1. ASSUME NEW c \in Clients, PutBlob(c)
      PROVE  InflightIsPacked' /\ NothingInvented' /\ NothingLost'
  <2>1. UNCHANGED <<Pipeline, Packed, inflight, indexed>>
    BY <1>1 DEF PutBlob, Pipeline, Packed
  <2> QED BY <1>0, <1>1, <2>1, PutBlobAccepts
<1>2. ASSUME NEW c \in Clients, SendBlob(c)
      PROVE  InflightIsPacked' /\ NothingInvented' /\ NothingLost'
  <2>1. UNCHANGED <<inflight, indexed>>
    BY <1>2 DEF SendBlob
  <2> QED BY <1>2, <2>1, SendBlobAccepts
<1>3. CASE PutHeader
  <2>1. UNCHANGED <<inflight, indexed>>
    BY <1>3 DEF PutHeader
  <2> QED BY <1>3, <2>1, PutHeaderAccepts
<1>4. CASE CloseChan \/ Commit \/ UNCHANGED vars
  BY <1>4 DEF CloseChan, Commit, vars, accepted, Pipeline, Packed
<1>5. ASSUME NEW w \in Workers, Work(w)
      PROVE  InflightIsPacked' /\ NothingInvented' /\ NothingLost'
  <2>1. /\ UNCHANGED <<accepted, indexed>>
        /\ Pipeline' \subseteq Pipeline /\ Pipeline \subseteq Pipeline' \cup inflight
        /\ Packed \subseteq Packed' /\ inflight' \subseteq inflight \cup Packed'
    BY <1>5, WorkMoves
  <2>2. Packed' \subseteq Pipeline'
    BY DEF Pipeline
  <2> QED BY <2>1, <2>2
<1>6. CASE Flush
  <2>1. inflight' \subseteq indexed' \cup Packed'
    BY <1>6, FlushMoves
  <2> QED BY <1>6, <2>1, FlushMoves
<1> QED BY <1>1, <1>2, <1>3, <1>4, <1>5, <1>6 DEF Next, Backup, Terminated

\* PackerInv is an invariant.
THEOREM PackerInvariant == Spec => []PackerInv
<1>1. Init => PackerInv
  <2> SUFFICES ASSUME Init PROVE PackerInv
    OBVIOUS
  <2>1. TypeOK
    BY PackerAssumption DEF Init, TypeOK
  <2>2. ClientsInOrder /\ WorkersInOrder /\ FlusherInOrder
    BY DEF Init, ClientsInOrder, WorkersInOrder, FlusherInOrder
  <2>3. Range(chan) = {} /\ Range(results) = {}
    BY RangeOfEmpty DEF Init
  <2>4. UNION Range(msg) = {} /\ UNION Range(packer) = {}
    BY DEF Init, Range
  <2>5. Pipeline = {}
    BY <2>3, <2>4 DEF Init, Pipeline, Packed
  <2>6. accepted = {}
    <3>1. \A c \in Clients : Wants[c] \ (todo[c] \cup put[c]) = {}
      BY DEF Init
    <3> QED BY <3>1 DEF Init, accepted
  <2> QED BY <2>1, <2>2, <2>5, <2>6
          DEF Init, PackerInv, InflightIsPacked, NothingInvented, NothingLost
<1>2. PackerInv /\ TypeOK' /\ [Next]_vars => PackerInv'
  BY OrderStep, MovesStep DEF PackerInv
<1> QED BY <1>1, <1>2, TypeCorrect, PTL DEF Spec

\* A blob accepted is indexed, or some packfile or message under way has it.
THEOREM NoBlobLost == Spec => []NothingLost
<1>1. PackerInv => NothingLost
  BY DEF PackerInv
<1> QED BY <1>1, PackerInvariant, PTL

\* A blob in flight is indexed, or some packfile under way has it.
THEOREM InflightPacked == Spec => []InflightIsPacked
<1>1. PackerInv => InflightIsPacked
  BY DEF PackerInv
<1> QED BY <1>1, PackerInvariant, PTL

\* The packer implements the sink that Repository relies on: it closes when all that
\* it accepted is indexed, or else its flusher has failed.
THEOREM ImplementsBlobSink == Spec => IsBlobSink
<1> DEFINE shut == main = "committed" /\ fpc # "failed"
<1>1. Init => Sink!Init
  BY DEF Init, Sink!Init, accepted
<1>2. PackerInv /\ PackerInv' /\ [Next]_vars => [Sink!Next]_<<accepted, indexed, shut>>
  <2> SUFFICES ASSUME PackerInv, PackerInv', [Next]_vars
               PROVE  [Sink!Next]_<<accepted, indexed, shut>>
    OBVIOUS
  <2> USE DEF PackerInv
  <2>1. ASSUME NEW c \in Clients, PutBlob(c) PROVE [Sink!Next]_<<accepted, indexed, shut>>
    <3>1. main = "files" /\ UNCHANGED <<indexed, main>>
      BY <2>1 DEF PutBlob, ClientsInOrder
    <3>2. inflight \cup indexed \subseteq Blobs
      BY DEF TypeOK
    <3>3. UNCHANGED accepted \/ \E b \in Blobs : accepted' = accepted \cup {b}
      BY <2>1, <3>2, PutBlobAccepts
    <3> QED BY <3>1, <3>3 DEF Sink!Next, Sink!Accept
  <2>2. ASSUME NEW c \in Clients, SendBlob(c) PROVE [Sink!Next]_<<accepted, indexed, shut>>
    <3>1. main = "files" /\ UNCHANGED <<indexed, main>>
      BY <2>2 DEF SendBlob, ClientsInOrder
    <3>2. \E b \in Blobs : accepted' = accepted \cup {b}
      BY <2>2, SendBlobAccepts
    <3> QED BY <3>1, <3>2 DEF Sink!Next, Sink!Accept
  <2>3. CASE PutHeader
    <3>1. main = "files" /\ main' = "header" /\ UNCHANGED indexed
      BY <2>3 DEF PutHeader
    <3>2. Header \in Blobs /\ accepted' = accepted \cup {Header}
      BY <2>3, PackerAssumption, PutHeaderAccepts
    <3> QED BY <3>1, <3>2 DEF Sink!Next, Sink!Accept
  <2>4. CASE CloseChan \/ UNCHANGED vars
    BY <2>4 DEF CloseChan, vars, accepted
  <2>5. CASE Commit
    <3>1. UNCHANGED <<accepted, indexed>>
      BY <2>5 DEF Commit, accepted
    <3>2. CASE fpc = "failed"
      BY <2>5, <3>1, <3>2 DEF Commit
    <3>3. CASE fpc = "done"
      <4>1. Pipeline = {}
        <5>1. results = <<>> /\ flushing = {} /\ WorkersDone
          BY <3>3 DEF FlusherInOrder
        <5>2. chan = <<>> /\ \A w \in Workers : msg[w] = {} /\ packer[w] = {}
          BY <5>1, PackerAssumption DEF WorkersDone, WorkersInOrder, TypeOK
        <5>3. UNION Range(msg) = {} /\ UNION Range(packer) = {}
          BY <5>2 DEF TypeOK, Range
        <5> QED BY <5>1, <5>2, <5>3, RangeOfEmpty DEF Pipeline, Packed
      <4>2. accepted \subseteq indexed
        BY <4>1 DEF NothingLost
      <4> QED BY <2>5, <3>1, <3>3, <4>2 DEF Commit, Sink!Next, Sink!Close
    <3> QED BY <2>5, <3>2, <3>3 DEF Commit
  <2>6. ASSUME NEW w \in Workers, Work(w) PROVE [Sink!Next]_<<accepted, indexed, shut>>
    <3>1. UNCHANGED <<main, fpc>>
      BY <2>6 DEF Work, Receive, LoadInflight, Pack, Finish, SendPacker
    <3> QED BY <2>6, <3>1, WorkMoves
  <2>7. CASE PutPackfile
    <3>1. main # "committed" /\ UNCHANGED main
      BY <2>7 DEF PutPackfile, FlusherInOrder
    <3>2. UNCHANGED accepted
      BY <2>7, FlushMoves DEF Flush
    <3>3. flushing \in SUBSET accepted
      BY DEF NothingInvented, Pipeline, Packed
    <3>4. indexed' = indexed \cup flushing \/ indexed' = indexed
      BY <2>7 DEF PutPackfile
    <3> QED BY <3>1, <3>2, <3>3, <3>4 DEF Sink!Next, Sink!Store
  <2>8. CASE ReceivePacker \/ DeleteInflight \/ FlusherEnds
    <3>1. main # "committed" /\ UNCHANGED <<main, indexed>>
      BY <2>8 DEF ReceivePacker, DeleteInflight, FlusherEnds, FlusherInOrder
    <3> QED BY <2>8, <3>1, FlushMoves DEF Flush
  <2> QED BY <2>1, <2>2, <2>3, <2>4, <2>5, <2>6, <2>7, <2>8 DEF Next, Backup, Flush, Terminated
<1> QED BY <1>1, <1>2, PackerInvariant, PTL DEF Spec, IsBlobSink, Sink!Spec
=============================================================================
