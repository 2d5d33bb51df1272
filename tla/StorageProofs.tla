----------------------------- MODULE StorageProofs -----------------------------
(***************************************************************************)
(* Theorems about Storage, for any set of backends, workers and names and  *)
(* any number of failures.                                                 *)
(***************************************************************************)
EXTENDS Storage, FiniteSetTheorems, TLAPS

Contents == [v : 0 .. MaxVersion, whole : BOOLEAN]
FileOps  == {"put", "get", "delete"}

Ops      == FileOps \cup {"none", "list", "create"}
Places   == {"idle", "send", "begin", "copy", "rename", "dirs", "locks", "config", "answer", "done"}
            \cup {Buckets[i] : i \in DOMAIN Buckets}
Jobs == [op : Ops, name : Names \cup {""}, at : Places, v : 0 .. MaxVersion,
         dir : {"", "locks", "states"}, listed : SUBSET Names, skipped : BOOLEAN, ok : BOOLEAN]

\* What is at hand of every variable that a file depends on.
StorageTypeOK ==
    /\ kind \in Kinds
    /\ files \in [Names -> Contents]
    /\ temps \in [DOMAIN temps -> Contents]
    /\ job \in [Workers -> Jobs]
    /\ version \in 0 .. MaxVersion

\* Where a call that reads or writes a file is.
Placed == \A w \in Workers :
    job[w].op \in FileOps =>
        /\ job[w].name \in Names
        /\ job[w].at \in {"send", "begin", "copy", "rename", "answer", "done"}
        /\ job[w].op = "put" => job[w].v # 0

\* Two that write a file at the same time are handlers of a server.
Alone == kind # "http" =>
    \A w, x \in Workers : job[w].op = "put" /\ job[x].op = "put" /\ job[w].name = job[x].name => w = x

\* The temporary file of a call is its own, and is whole before it is renamed.
TempsOwned == \A w \in Workers :
    job[w].op = "put" /\ job[w].at \in {"copy", "rename"} =>
        /\ OnDisk
        /\ Temp(w) \in DOMAIN temps
        /\ temps[Temp(w)].v = job[w].v
        /\ job[w].at = "rename" => temps[Temp(w)].whole

\* No file in its place is a part of one.
AllWhole == \A n \in Names : files[n].whole

StorageInv == StorageTypeOK /\ Placed /\ Alone /\ TempsOwned /\ AllWhole

LEMMA TempsDiffer ==
    ASSUME Alone, OnDisk, NEW w \in Workers, NEW x \in Workers, w # x,
           job[w].op = "put", job[x].op = "put"
    PROVE  Temp(w) # Temp(x)
<1>1. CASE Local = "sftp"
  <2>1. job[w].name # job[x].name
    BY <1>1 DEF Alone, Local
  <2> QED BY <1>1, <2>1 DEF Temp
<1>2. CASE Local # "sftp"
  BY <1>2 DEF Temp
<1> QED BY <1>1, <1>2

LEMMA StorageInvInit == Init => StorageInv
<1> SUFFICES ASSUME Init PROVE StorageInv
  OBVIOUS
<1> USE StorageAssumption DEF Init
<1>1. temps \in [DOMAIN temps -> Contents]
  BY DOMAIN <<>> = {}, temps = <<>>
<1>2. None \in Jobs
  <2>1. "none" \in Ops /\ "idle" \in Places /\ {} \in SUBSET Names /\ 0 \in 0 .. MaxVersion
    BY DEF Ops, Places
  <2> QED BY <2>1 DEF None, Job, Jobs
<1>3. Absent \in Contents
  BY DEF Absent, Contents
<1>4. StorageTypeOK
  BY <1>1, <1>2, <1>3 DEF StorageTypeOK
<1>5. \A w \in Workers : job[w].op = "none"
  BY DEF None, Job
<1>6. Placed /\ Alone /\ TempsOwned
  BY <1>5 DEF Placed, Alone, TempsOwned, FileOps
<1>7. AllWhole
  BY DEF AllWhole, Absent
<1> QED BY <1>4, <1>6, <1>7 DEF StorageInv

LEMMA BucketPlaces ==
    /\ Buckets[1] \in Places
    /\ \A i \in DOMAIN Buckets : ~Last(Buckets[i]) => After(Buckets[i]) \in Places
<1>1. 1 \in DOMAIN Buckets
  BY StorageAssumption
<1>2. ASSUME NEW i \in DOMAIN Buckets, ~Last(Buckets[i]) PROVE After(Buckets[i]) \in Places
  <2> DEFINE j == CHOOSE k \in DOMAIN Buckets : Buckets[k] = Buckets[i]
  <2>1. j \in DOMAIN Buckets /\ Buckets[j] = Buckets[i]
    OBVIOUS
  <2>2. j # Len(Buckets)
    BY <1>2, <2>1 DEF Last
  <2>3. 1 + j \in DOMAIN Buckets
    BY <2>1, <2>2, StorageAssumption
  <2> QED BY <2>3 DEF After, Places
<1> QED BY <1>1, <1>2 DEF Places

\* A call that goes on, whatever it does to its own temporary file.
LEMMA Moves ==
    ASSUME StorageInv, NEW w \in Workers, NEW j \in Jobs, job' = [job EXCEPT ![w] = j],
           UNCHANGED <<kind, version>>,
           files' \in [Names -> Contents], AllWhole',
           temps' \in [DOMAIN temps' -> Contents],
           \A t \in DOMAIN temps : job[w].op # "put" \/ t # Temp(w) =>
               t \in DOMAIN temps' /\ temps'[t] = temps[t],
           j.op \in FileOps => /\ j.op = job[w].op /\ j.name = job[w].name
                               /\ j.at \in {"begin", "copy", "rename", "answer", "done"}
                               /\ j.op = "put" => j.v = job[w].v,
           j.op = "put" /\ j.at \in {"copy", "rename"} =>
               /\ OnDisk /\ Temp(w) \in DOMAIN temps' /\ temps'[Temp(w)].v = j.v
               /\ j.at = "rename" => temps'[Temp(w)].whole
    PROVE  StorageInv'
<1>1. StorageTypeOK'
  BY DEF StorageInv, StorageTypeOK
<1>2. \A x \in Workers : job'[x] = IF x = w THEN j ELSE job[x]
  BY DEF StorageInv, StorageTypeOK
<1>3. Placed'
  BY <1>2 DEF StorageInv, Placed, FileOps
<1>4. Alone'
  BY <1>2 DEF StorageInv, Alone, FileOps
<1>5. TempsOwned'
  <2> SUFFICES ASSUME NEW x \in Workers, job'[x].op = "put", job'[x].at \in {"copy", "rename"}
               PROVE  /\ OnDisk /\ Temp(x)' \in DOMAIN temps' /\ temps'[Temp(x)'].v = job'[x].v
                      /\ job'[x].at = "rename" => temps'[Temp(x)'].whole
    BY DEF TempsOwned, OnDisk, Local
  <2>1. Temp(x)' = Temp(x)
    BY <1>2 DEF Temp, Local, FileOps
  <2>2. CASE x = w
    BY <1>2, <2>1, <2>2
  <2>3. CASE x # w
    <3>1. Temp(x) \in DOMAIN temps /\ OnDisk
      BY <1>2, <2>3 DEF StorageInv, TempsOwned
    <3>2. job[w].op # "put" \/ Temp(x) # Temp(w)
      BY <1>2, <2>3, <3>1, TempsDiffer DEF StorageInv
    <3> QED BY <1>2, <2>1, <2>3, <3>1, <3>2 DEF StorageInv, TempsOwned
  <2> QED BY <2>2, <2>3
<1> QED BY <1>1, <1>3, <1>4, <1>5 DEF StorageInv

\* The same, without one.
LEMMA GoesOn ==
    ASSUME StorageInv, NEW w \in Workers, NEW j \in Jobs, job' = [job EXCEPT ![w] = j],
           UNCHANGED <<kind, temps, version>>,
           files' \in [Names -> Contents], AllWhole',
           j.op \in FileOps => /\ j.op = job[w].op /\ j.name = job[w].name
                               /\ j.at \in {"begin", "answer", "done"}
                               /\ j.op = "put" => j.v = job[w].v
    PROVE  StorageInv'
<1>1. temps' \in [DOMAIN temps' -> Contents]
  BY DEF StorageInv, StorageTypeOK
<1> QED BY <1>1, Moves DEF FileOps

LEMMA SameFiles ==
    ASSUME StorageInv, UNCHANGED files
    PROVE  files' \in [Names -> Contents] /\ AllWhole'
BY DEF StorageInv, StorageTypeOK, AllWhole

\* What the operators make of a call.
LEMMA Results ==
    ASSUME StorageInv, NEW w \in Workers, NEW ok \in BOOLEAN
    PROVE  /\ Reply(w, ok) => \E j \in Jobs :
                /\ job' = [job EXCEPT ![w] = j]
                /\ j.op = job[w].op /\ j.name = job[w].name /\ j.v = job[w].v /\ j.at = "done" /\ j.ok = ok
           /\ End(w, ok) => \E j \in Jobs :
                /\ job' = [job EXCEPT ![w] = j]
                /\ j.op = job[w].op /\ j.name = job[w].name /\ j.v = job[w].v /\ j.at \in {"answer", "done"} /\ j.ok = ok
           /\ Got(w) /\ job[w].op = "get" => \E j \in Jobs :
                /\ job' = [job EXCEPT ![w] = j]
                /\ j.op = "get" /\ j.name = job[w].name /\ j.at \in {"answer", "done"}
                /\ j.ok = (files[j.name] # Absent) /\ j.v = files[j.name].v
<1> USE DEF StorageInv, StorageTypeOK
<1>1. ASSUME Reply(w, ok)
      PROVE  \E j \in Jobs :
                /\ job' = [job EXCEPT ![w] = j]
                /\ j.op = job[w].op /\ j.name = job[w].name /\ j.v = job[w].v /\ j.at = "done" /\ j.ok = ok
  <2> DEFINE j == [job[w] EXCEPT !.at = "done", !.ok = ok]
  <2>1. job' = [job EXCEPT ![w] = j]
    BY <1>1 DEF Reply
  <2>2. j \in Jobs /\ j.op = job[w].op /\ j.name = job[w].name /\ j.v = job[w].v /\ j.at = "done" /\ j.ok = ok
    BY DEF Jobs, Places
  <2> QED BY <2>1, <2>2
<1>2. ASSUME End(w, ok)
      PROVE  \E j \in Jobs :
                /\ job' = [job EXCEPT ![w] = j]
                /\ j.op = job[w].op /\ j.name = job[w].name /\ j.v = job[w].v /\ j.at \in {"answer", "done"} /\ j.ok = ok
  <2> DEFINE a == IF kind = "http" THEN "answer" ELSE "done"
             j == [job[w] EXCEPT !.at = a, !.ok = ok]
  <2>1. job' = [job EXCEPT ![w] = j]
    BY <1>2 DEF End
  <2>2. a \in {"answer", "done"} /\ a \in Places
    BY DEF Places
  <2> HIDE DEF a
  <2>3. j \in Jobs /\ j.op = job[w].op /\ j.name = job[w].name /\ j.v = job[w].v /\ j.at = a /\ j.ok = ok
    BY <2>2 DEF Jobs
  <2> QED BY <2>1, <2>2, <2>3
<1>4. ASSUME Got(w), job[w].op = "get"
      PROVE  \E j \in Jobs :
                /\ job' = [job EXCEPT ![w] = j]
                /\ j.op = "get" /\ j.name = job[w].name /\ j.at \in {"answer", "done"}
                /\ j.ok = (files[j.name] # Absent) /\ j.v = files[j.name].v
  <2> DEFINE a == IF kind = "http" THEN "answer" ELSE "done"
             found == files[job[w].name] # Absent
             v == files[job[w].name].v
             j == [job[w] EXCEPT !.at = a, !.ok = found, !.v = v]
  <2>1. job' = [job EXCEPT ![w] = j]
    BY <1>4 DEF Got
  <2>2. a \in {"answer", "done"} /\ a \in Places
    BY DEF Places
  <2>3. job[w].name \in Names
    BY <1>4 DEF Placed, FileOps
  <2>4. v \in 0 .. MaxVersion /\ found \in BOOLEAN
    BY <2>3 DEF Contents
  <2> HIDE DEF a, v, found
  <2>5. j \in Jobs /\ j.op = "get" /\ j.name = job[w].name /\ j.at = a /\ j.ok = found /\ j.v = v
    BY <1>4, <2>2, <2>4 DEF Jobs
  <2>6. found = (files[job[w].name] # Absent) /\ v = files[job[w].name].v
    BY DEF found, v
  <2> HIDE DEF j
  <2> QED BY <2>1, <2>2, <2>5, <2>6
<1> QED BY <1>1, <1>2, <1>4

LEMMA Goes ==
    ASSUME StorageInv, NEW w \in Workers, NEW at \in Places, Go(w, at)
    PROVE  \E j \in Jobs :
              /\ job' = [job EXCEPT ![w] = j]
              /\ j.op = job[w].op /\ j.name = job[w].name /\ j.v = job[w].v /\ j.at = at
<1> DEFINE j == [job[w] EXCEPT !.at = at]
<1>1. job' = [job EXCEPT ![w] = j]
  BY DEF Go
<1>2. j \in Jobs /\ j.op = job[w].op /\ j.name = job[w].name /\ j.v = job[w].v /\ j.at = at
  BY DEF Jobs, StorageInv, StorageTypeOK
<1> QED BY <1>1, <1>2

LEMMA ListBucketStep ==
    ASSUME StorageInv, NEW w \in Workers, Listing(w),
           NEW seen \in SUBSET Names, NEW skip \in BOOLEAN, NEW end \in BOOLEAN,
           ListBucket(w, seen, skip, end),
           UNCHANGED <<kind, files, temps, version>>
    PROVE  StorageInv'
<1>1. PICK i \in DOMAIN Buckets : job[w].at = Buckets[i]
  BY DEF Listing
<1> DEFINE stop == end \/ Last(job[w].at)
           next == CASE ~stop            -> After(job[w].at)
                     [] stop /\ kind = "http" -> "answer"
                     [] stop /\ kind # "http" -> "done"
           j == [job[w] EXCEPT !.listed = @ \cup seen, !.skipped = @ \/ skip, !.ok = TRUE, !.at = next]
<1>2. next \in Places
  BY <1>1, BucketPlaces DEF Places
<1>3. job' = [job EXCEPT ![w] = j]
  BY DEF ListBucket
<1> HIDE DEF next
<1>4. j \in Jobs /\ j.op = "list"
  BY <1>2 DEF Jobs, Listing, StorageInv, StorageTypeOK
<1> HIDE DEF j
<1> QED BY <1>3, <1>4, GoesOn, SameFiles DEF FileOps

\* A call in a lock, a state or a packfile begins.
LEMMA CallStep ==
    ASSUME StorageInv, NEW w \in Workers, Call(w)
    PROVE  StorageInv'
<1> DEFINE at == First("begin")
<1>1. /\ {"none", "put", "get", "delete", "list"} \subseteq Ops
      /\ at \in Places /\ at \in {"send", "begin"} /\ First(Buckets[1]) \in Places
      /\ {} \in SUBSET Names
  BY BucketPlaces DEF Ops, FileOps, Places, First
<1>2. UNCHANGED <<kind, files, temps>>
  BY DEF Call
<1>3. CASE \E op \in {"put", "get", "delete"}, n \in Names :
             /\ op = "put" => /\ version < MaxVersion
                              /\ kind # "http" => \A x \in Workers : job[x].op = "put" => job[x].name # n
             /\ LET v == IF op = "put" THEN version + 1 ELSE 0
                IN  /\ job' = [job EXCEPT ![w] = [Job(op, n, First("begin")) EXCEPT !.v = v]]
                    /\ version' = IF op = "put" THEN v ELSE version
  <2>1. PICK op \in {"put", "get", "delete"}, n \in Names :
             /\ op = "put" => /\ version < MaxVersion
                              /\ kind # "http" => \A x \in Workers : job[x].op = "put" => job[x].name # n
             /\ LET v == IF op = "put" THEN version + 1 ELSE 0
                IN  /\ job' = [job EXCEPT ![w] = [Job(op, n, First("begin")) EXCEPT !.v = v]]
                    /\ version' = IF op = "put" THEN v ELSE version
    BY <1>3
  <2> DEFINE v == IF op = "put" THEN version + 1 ELSE 0
             j == [Job(op, n, at) EXCEPT !.v = v]
  <2>2. v \in 0 .. MaxVersion /\ version' \in 0 .. MaxVersion /\ (op = "put" => v # 0)
    BY <2>1, StorageAssumption DEF StorageInv, StorageTypeOK
  <2>3. job' = [job EXCEPT ![w] = j]
    BY <2>1
  <2> HIDE DEF at, v
  <2>4. j \in Jobs /\ j.op = op /\ j.name = n /\ j.at = at /\ j.v = v
    BY <1>1, <2>2 DEF Job, Jobs
  <2> HIDE DEF j
  <2>5. \A x \in Workers : job'[x] = IF x = w THEN j ELSE job[x]
    BY <2>3 DEF StorageInv, StorageTypeOK
  <2>6. StorageTypeOK'
    BY <1>2, <2>2, <2>3, <2>4 DEF StorageInv, StorageTypeOK
  <2>7. Placed'
    BY <1>1, <2>2, <2>4, <2>5 DEF StorageInv, Placed, FileOps
  <2> DEFINE alone == op = "put" /\ kind # "http" => \A x \in Workers : job[x].op = "put" => job[x].name # n
  <2>10. alone
    BY <2>1
  <2>8. Alone'
    BY <1>2, <2>10, <2>4, <2>5 DEF StorageInv, Alone
  <2>9. TempsOwned' /\ AllWhole'
    BY <1>1, <1>2, <2>4, <2>5 DEF StorageInv, TempsOwned, AllWhole, Temp, OnDisk, Local
  <2> QED BY <2>6, <2>7, <2>8, <2>9 DEF StorageInv
<1>4. CASE UNCHANGED version /\ \E d \in {"locks", "states"} :
             job' = [job EXCEPT ![w] = [Job("list", "", First(Buckets[1])) EXCEPT !.dir = d]]
  <2>1. PICK d \in {"locks", "states"} :
             job' = [job EXCEPT ![w] = [Job("list", "", First(Buckets[1])) EXCEPT !.dir = d]]
    BY <1>4
  <2> DEFINE b == First(Buckets[1])
             j == [Job("list", "", b) EXCEPT !.dir = d]
  <2>2. b \in Places /\ 0 \in 0 .. MaxVersion
    BY <1>1, StorageAssumption
  <2>3. job' = [job EXCEPT ![w] = j]
    BY <2>1
  <2> HIDE DEF b
  <2>4. j \in Jobs /\ j.op = "list"
    BY <1>1, <2>2 DEF Job, Jobs
  <2> HIDE DEF j
  <2> QED BY <1>2, <1>4, <2>3, <2>4, GoesOn, SameFiles DEF FileOps
<1> QED BY <1>3, <1>4 DEF Call

\* A reply, to any call.
LEMMA ReplyStep ==
    ASSUME StorageInv, NEW w \in Workers, NEW ok \in BOOLEAN, Reply(w, ok) \/ End(w, ok),
           UNCHANGED <<kind, temps, version>>,
           files' \in [Names -> Contents], AllWhole'
    PROVE  StorageInv'
<1>1. PICK j \in Jobs : /\ job' = [job EXCEPT ![w] = j]
                        /\ j.op = job[w].op /\ j.name = job[w].name /\ j.v = job[w].v
                        /\ j.at \in {"answer", "done"}
  BY Results
<1> QED BY <1>1, GoesOn

LEMMA GoStep ==
    ASSUME StorageInv, NEW w \in Workers, NEW at \in Places, Go(w, at),
           at \in {"begin", "answer", "done"} \/ job[w].op \notin FileOps,
           UNCHANGED <<kind, temps, files, version>>
    PROVE  StorageInv'
<1>1. PICK j \in Jobs : /\ job' = [job EXCEPT ![w] = j]
                        /\ j.op = job[w].op /\ j.name = job[w].name /\ j.v = job[w].v
                        /\ j.at = at
  BY Goes
<1> QED BY <1>1, GoesOn, SameFiles

LEMMA GetStep ==
    ASSUME StorageInv, NEW w \in Workers, job[w].op = "get", Got(w),
           UNCHANGED <<kind, temps, files, version>>
    PROVE  StorageInv'
<1>1. PICK j \in Jobs : /\ job' = [job EXCEPT ![w] = j]
                        /\ j.op = "get" /\ j.name = job[w].name /\ j.at \in {"answer", "done"}
  BY Results
<1> QED BY <1>1, GoesOn, SameFiles

\* What is put in the place of a file is whole.
LEMMA FilesStep ==
    ASSUME StorageInv, NEW w \in Workers, job[w].op \in FileOps,
           Store(w) \/ Remove(job[w].name)
    PROVE  files' \in [Names -> Contents] /\ AllWhole'
<1>1. job[w].name \in Names /\ [v |-> job[w].v, whole |-> TRUE] \in Contents
  BY DEF StorageInv, StorageTypeOK, Placed, Contents, Jobs
<1>2. Absent \in Contents /\ Absent.whole
  BY StorageAssumption DEF Absent, Contents
<1>3. ASSUME NEW c \in Contents, c.whole, files' = [files EXCEPT ![job[w].name] = c]
      PROVE  files' \in [Names -> Contents] /\ AllWhole'
  BY <1>1, <1>3 DEF StorageInv, StorageTypeOK, AllWhole
<1>4. CASE Store(w)
  BY <1>1, <1>3, <1>4 DEF Store
<1>5. CASE Remove(job[w].name)
  BY <1>2, <1>3, <1>5 DEF Remove
<1> QED BY <1>4, <1>5

LEMMA TempStep ==
    ASSUME StorageInv, NEW w \in Workers, CreateTemp(w) \/ Copy(w) \/ Rename(w)
    PROVE  StorageInv'
<1> DEFINE t == Temp(w)
<1>1. job[w].op = "put" /\ job[w].v \in 0 .. MaxVersion /\ OnDisk /\ UNCHANGED <<kind, version>>
  BY DEF CreateTemp, Copy, Rename, At, Fault, count, StorageInv, StorageTypeOK, Jobs
<1>2. temps \in [DOMAIN temps -> Contents]
  BY DEF StorageInv, StorageTypeOK
<1>3. ASSUME NEW j \in Jobs, NEW at \in {"copy", "rename"},
             job' = [job EXCEPT ![w] = j],
             j.op = job[w].op, j.name = job[w].name, j.v = job[w].v, j.at = at,
             temps' = Set(t, [v |-> job[w].v, whole |-> at = "rename"]), UNCHANGED files
      PROVE  StorageInv'
  <2>1. [v |-> job[w].v, whole |-> at = "rename"] \in Contents
    BY <1>1 DEF Contents
  <2>2. temps' \in [DOMAIN temps' -> Contents] /\ DOMAIN temps' = DOMAIN temps \cup {t}
    BY <1>2, <1>3, <2>1 DEF Set
  <2>3. \A x \in DOMAIN temps : x # t => temps'[x] = temps[x]
    BY <1>3, <2>2 DEF Set
  <2>4. temps'[t].v = j.v /\ (at = "rename" => temps'[t].whole)
    BY <1>3, <2>2 DEF Set
  <2> QED BY <1>1, <1>3, <2>2, <2>3, <2>4, Moves, SameFiles
<1>4. ASSUME NEW ok \in BOOLEAN, End(w, ok), temps' = Without(t),
             files' \in [Names -> Contents], AllWhole'
      PROVE  StorageInv'
  <2>1. PICK j \in Jobs : /\ job' = [job EXCEPT ![w] = j]
                          /\ j.op = job[w].op /\ j.name = job[w].name /\ j.v = job[w].v
                          /\ j.at \in {"answer", "done"}
    BY <1>4, Results
  <2>2. temps' \in [DOMAIN temps' -> Contents] /\ DOMAIN temps' = DOMAIN temps \ {t}
    BY <1>2, <1>4 DEF Without
  <2>3. \A x \in DOMAIN temps : x # t => x \in DOMAIN temps' /\ temps'[x] = temps[x]
    BY <1>4, <2>2 DEF Without
  <2> QED BY <1>1, <1>4, <2>1, <2>2, <2>3, Moves
<1>5. "copy" \in Places /\ "rename" \in Places
  BY DEF Places
<1>6. CASE CreateTemp(w)
  <2>1. PICK j \in Jobs : /\ job' = [job EXCEPT ![w] = j]
                          /\ j.op = job[w].op /\ j.name = job[w].name /\ j.v = job[w].v
                          /\ j.at = "copy"
    <3>1. Go(w, "copy")
      BY <1>6 DEF CreateTemp
    <3> QED BY <1>5, <3>1, Goes
  <2>2. temps' = Set(t, [v |-> job[w].v, whole |-> "copy" = "rename"]) /\ UNCHANGED files
    BY <1>6 DEF CreateTemp
  <2> QED BY <1>3, <2>1, <2>2
<1>7. CASE Copy(w)
  <2>1. CASE Go(w, "rename") /\ temps' = Set(t, [v |-> job[w].v, whole |-> TRUE])
    <3>1. PICK j \in Jobs : /\ job' = [job EXCEPT ![w] = j]
                            /\ j.op = job[w].op /\ j.name = job[w].name /\ j.v = job[w].v
                            /\ j.at = "rename"
      BY <1>5, <2>1, Goes
    <3>2. temps' = Set(t, [v |-> job[w].v, whole |-> "rename" = "rename"]) /\ UNCHANGED files
      BY <1>7, <2>1 DEF Copy
    <3> QED BY <1>3, <3>1, <3>2
  <2>2. CASE End(w, FALSE) /\ temps' = Without(t)
    BY <1>4, <1>7, <2>2, SameFiles DEF Copy
  <2> QED BY <1>7, <2>1, <2>2 DEF Copy
<1>8. CASE Rename(w)
  <2>1. temps[t] \in Contents /\ temps[t].whole /\ job[w].name \in Names
    BY <1>2, <1>8 DEF Rename, At, StorageInv, TempsOwned, Placed, FileOps
  <2>2. files' \in [Names -> Contents] /\ AllWhole'
    BY <1>8, <2>1 DEF Rename, StorageInv, StorageTypeOK, AllWhole
  <2> QED BY <1>4, <1>8, <2>2 DEF Rename
<1> QED BY <1>6, <1>7, <1>8

LEMMA StorageStep ==
    ASSUME StorageInv, [Next]_vars
    PROVE  StorageInv'
<1> USE DEF count
<1>1. ASSUME UNCHANGED <<kind, files, temps, job, version>> PROVE StorageInv'
  <2>1. StorageTypeOK'
    BY <1>1 DEF StorageInv, StorageTypeOK
  <2>2. Placed' /\ Alone' /\ AllWhole'
    BY <1>1 DEF StorageInv, Placed, Alone, AllWhole
  <2>3. TempsOwned'
    BY <1>1 DEF StorageInv, TempsOwned, Temp, OnDisk, Local
  <2> QED BY <2>1, <2>2, <2>3 DEF StorageInv
<1>2. ASSUME NEW w \in Workers, CallCreate(w) PROVE StorageInv'
  <2>1. Job("create", "", "begin") \in Jobs /\ Job("create", "", "begin").op = "create"
    <3>1. "create" \in Ops /\ "begin" \in Places /\ {} \in SUBSET Names /\ 0 \in 0 .. MaxVersion
      BY StorageAssumption DEF Ops, Places
    <3> QED BY <3>1 DEF Job, Jobs
  <2> QED BY <1>2, <2>1, GoesOn, SameFiles DEF CallCreate, FileOps
<1>3. ASSUME NEW w \in Workers, Return(w) \/ Crash(w) PROVE StorageInv'
  <2>1. None \in Jobs /\ None.op = "none"
    <3>1. "none" \in Ops /\ "idle" \in Places /\ {} \in SUBSET Names /\ 0 \in 0 .. MaxVersion
      BY StorageAssumption DEF Ops, Places
    <3> QED BY <3>1 DEF None, Job, Jobs
  <2> QED BY <1>3, <2>1, GoesOn, SameFiles DEF Return, Crash, Fault, FileOps
<1>4. ASSUME NEW w \in Workers, Fail(w) PROVE StorageInv'
  BY <1>4, ReplyStep, SameFiles DEF Fail, Fault
<1>5. ASSUME NEW w \in Workers, DiskFiles(w) PROVE StorageInv'
  <2>1. CASE At(w, "get", "begin") /\ Got(w) /\ UNCHANGED files
    BY <1>5, <2>1, GetStep DEF DiskFiles, At
  <2>2. CASE At(w, "delete", "begin") /\ End(w, files[job[w].name] # Absent) /\ Remove(job[w].name)
    <3>1. files' \in [Names -> Contents] /\ AllWhole'
      BY <2>2, FilesStep DEF At, FileOps
    <3>2. PICK ok \in BOOLEAN : End(w, ok)
      BY <2>2
    <3>3. UNCHANGED <<kind, temps, version>>
      BY <1>5 DEF DiskFiles
    <3> QED BY <3>1, <3>2, <3>3, ReplyStep
  <2> QED BY <1>5, <2>1, <2>2 DEF DiskFiles
<1>6. ASSUME NEW w \in Workers, FsList(w) PROVE StorageInv'
  <2>1. There(w) \in SUBSET Names /\ Here(w) \in SUBSET Names
    BY DEF There, Here
  <2> QED BY <1>6, <2>1, ListBucketStep, ReplyStep, SameFiles DEF FsList, Fault
<1>7. ASSUME NEW w \in Workers, SftpList(w) \/ SftpGetLocks(w) PROVE StorageInv'
  <2>1. There(w) \in SUBSET Names /\ Here(w) \in SUBSET Names
    BY DEF There, Here
  <2> QED BY <1>7, <2>1, ListBucketStep, ReplyStep, SameFiles DEF SftpList, SftpGetLocks, Fault
<1>8. ASSUME NEW w \in Workers, S3(w) PROVE StorageInv'
  <2>1. There(w) \in SUBSET Names /\ Here(w) \in SUBSET Names
    BY DEF There, Here
  <2>2. CASE At(w, "get", "begin") /\ Got(w) /\ UNCHANGED <<files, count>>
    BY <1>8, <2>2, GetStep DEF S3, At
  <2>3. CASE /\ \/ At(w, "put", "begin") /\ Store(w)
                \/ At(w, "delete", "begin") /\ Remove(job[w].name)
             /\ \/ Reply(w, TRUE) /\ UNCHANGED count
                \/ Fault /\ Reply(w, FALSE)
    BY <1>8, <2>3, ReplyStep, FilesStep DEF S3, At, Fault, FileOps
  <2>4. CASE /\ Listing(w) /\ UNCHANGED files
             /\ \/ ListBucket(w, IF job[w].dir = "locks" THEN There(w) ELSE Here(w), FALSE,
                              job[w].dir = "locks") /\ UNCHANGED count
                \/ Fault /\ ListBucket(w, {}, TRUE, TRUE)
    BY <1>8, <2>1, <2>4, ListBucketStep DEF S3, Fault
  <2> QED BY <1>8, <2>2, <2>3, <2>4 DEF S3
<1>9. ASSUME NEW w \in Workers, Database(w) PROVE StorageInv'
  <2>1. There(w) \in SUBSET Names
    BY DEF There
  <2>2. CASE At(w, "get", "begin") /\ Got(w) /\ UNCHANGED <<files, count>>
    BY <1>9, <2>2, GetStep DEF Database, At
  <2>3. CASE At(w, "put", "begin") /\ UNCHANGED count
             /\ \/ files[job[w].name] = Absent /\ Store(w) /\ Reply(w, TRUE)
                \/ UNCHANGED files /\ \E ignored \in BOOLEAN : Reply(w, ignored)
    BY <1>9, <2>3, ReplyStep, FilesStep, SameFiles DEF Database, At, FileOps
  <2>4. CASE At(w, "delete", "begin") /\ Remove(job[w].name) /\ Reply(w, TRUE) /\ UNCHANGED count
    BY <1>9, <2>4, ReplyStep, FilesStep DEF Database, At, FileOps
  <2>5. CASE DatabaseList(w) /\ UNCHANGED files
    BY <1>9, <2>1, <2>5, ListBucketStep DEF Database, DatabaseList, Fault
  <2> QED BY <1>9, <2>2, <2>3, <2>4, <2>5 DEF Database
<1>10. ASSUME NEW w \in Workers, Null(w) \/ Answer(w) PROVE StorageInv'
  BY <1>10, ReplyStep, GoStep, SameFiles DEF Null, Answer, Places
<1>11. ASSUME NEW w \in Workers, Handle(w) PROVE StorageInv'
  <2>1. "begin" \in Places
    BY DEF Places
  <2>2. CASE Reply(w, FALSE)
    BY <1>11, <2>2, ReplyStep, SameFiles DEF Handle
  <2>3. CASE Go(w, "begin")
    BY <1>11, <2>1, <2>3, GoStep DEF Handle
  <2>4. CASE job[w].op = "list" /\ Go(w, Buckets[1])
    BY <1>11, <2>4, BucketPlaces, GoStep DEF Handle, FileOps
  <2> QED BY <1>11, <2>2, <2>3, <2>4 DEF Handle
<1>12. ASSUME NEW w \in Workers, Creation(w) PROVE StorageInv'
  <2>1. /\ job[w].op = "create" /\ UNCHANGED <<kind, files, temps, version>>
        /\ \/ \E ok \in BOOLEAN : Reply(w, ok)
           \/ \E at \in {"dirs", "locks", "config"} : Go(w, at)
    BY <1>12 DEF Creation, CheckEmpty, MakeBuckets, MakeLocks, WriteConfig, CreateDatabase, At
  <2>2. {"dirs", "locks", "config"} \subseteq Places
    BY DEF Places
  <2> QED BY <2>1, <2>2, ReplyStep, GoStep, SameFiles DEF FileOps
<1> QED BY <1>1, <1>2, <1>3, <1>4, <1>5, <1>6, <1>7, <1>8, <1>9, <1>10, <1>11, <1>12, CallStep, TempStep
        DEF Next, Backend, Server, vars

-----------------------------------------------------------------------------
\* The refinement.

LEMMA FileStoreInit == Init => FS!Init
<1> SUFFICES ASSUME Init PROVE FS!Init
  OBVIOUS
<1>1. Visible = [n \in Names |-> 0]
  BY DEF Init, Visible, Absent
<1>2. Running = [w \in Workers |-> FS!Idle]
  BY DEF Init, Running, CallOf, None, Job, FS!Idle
<1> QED BY <1>1, <1>2 DEF FS!Init

LEMMA NotSeen ==
    ASSUME NEW j, j.ok \in BOOLEAN, kind = "null" \/ j.op \notin FileOps \/ (j.at \in {"answer", "done"} /\ ~j.ok)
    PROVE  CallOf(j) = FS!Idle
BY DEF CallOf, FileOps, FS!Idle

LEMMA SameSeen ==
    ASSUME NEW i, NEW j, i.ok \in BOOLEAN, i.op = j.op, i.name = j.name, i.v = j.v, i.ok = j.ok,
           \/ i.op \notin FileOps
           \/ i.at \in {"answer", "done"} /\ j.at \in {"answer", "done"}
           \/ i.at \notin {"answer", "done"} /\ j.at \notin {"answer", "done"}
    PROVE  CallOf(i) = CallOf(j)
<1>1. CASE i.op \notin FileOps
  BY <1>1, NotSeen
<1>2. CASE i.at \in {"answer", "done"} /\ j.at \in {"answer", "done"}
  BY <1>2 DEF CallOf
<1>3. CASE i.at \notin {"answer", "done"} /\ j.at \notin {"answer", "done"}
  BY <1>3 DEF CallOf
<1> QED BY <1>1, <1>2, <1>3

\* A step of a call, seen from above.
LEMMA Seen ==
    ASSUME StorageInv, NEW w \in Workers, NEW j, job' = [job EXCEPT ![w] = j], UNCHANGED kind
    PROVE  /\ Running[w] = CallOf(job[w])
           /\ Running' = [Running EXCEPT ![w] = CallOf(j)]
           /\ DOMAIN Running = Workers /\ Running = [x \in Workers |-> Running[x]]
<1>1. Running[w] = CallOf(job[w])
  BY DEF Running
<1>2. \A x \in Workers : job'[x] = IF x = w THEN j ELSE job[x]
  BY DEF StorageInv, StorageTypeOK
<1>3. \A x \in Workers : CallOf(job[x])' = IF x = w THEN CallOf(j) ELSE CallOf(job[x])
  BY <1>2 DEF CallOf
<1> QED BY <1>1, <1>3 DEF Running

\* A call that fails, ends or dies without an effect.
LEMMA Quits ==
    ASSUME StorageInv, NEW w \in Workers, NEW j, job' = [job EXCEPT ![w] = j],
           UNCHANGED <<kind, files>>, CallOf(j) = FS!Idle
    PROVE  [FS!Next]_<<Visible, Running>>
<1>1. Visible' = Visible
  BY DEF Visible
<1>2. Running[w] # FS!Idle => FS!End(w)
  BY <1>1, Seen DEF FS!End
<1>3. Running[w] = FS!Idle => Running' = Running
  <2>1. Running' = [Running EXCEPT ![w] = FS!Idle] /\ Running = [x \in Workers |-> Running[x]]
    BY Seen
  <2> QED BY <2>1
<1> QED BY <1>1, <1>2, <1>3 DEF FS!Next

\* A step that is not seen.
LEMMA Stays ==
    ASSUME StorageInv, NEW w \in Workers, NEW j, job' = [job EXCEPT ![w] = j],
           UNCHANGED <<kind, files>>, CallOf(j) = CallOf(job[w])
    PROVE  [FS!Next]_<<Visible, Running>>
<1>1. Visible' = Visible
  BY DEF Visible
<1>2. Running' = Running
  <2>1. /\ Running' = [Running EXCEPT ![w] = CallOf(j)] /\ Running[w] = CallOf(j)
        /\ Running = [x \in Workers |-> Running[x]]
    BY Seen
  <2> QED BY <2>1
<1> QED BY <1>1, <1>2

\* What a read finds, and what a write leaves behind.
LEMMA SeenFiles ==
    ASSUME StorageInv, NEW n \in Names
    PROVE  /\ Visible[n] = files[n].v
           /\ Visible[n] = 0 <=> files[n] = Absent
           /\ \A c \in Contents : c.whole /\ files' = [files EXCEPT ![n] = c] =>
                Visible' = [Visible EXCEPT ![n] = c.v]
<1>1. files[n] \in Contents /\ files[n].whole
  BY DEF StorageInv, StorageTypeOK, AllWhole
<1>2. Visible[n] = files[n].v
  BY <1>1 DEF Visible
<1>3. Visible[n] = 0 <=> files[n] = Absent
  <2>1. PICK f \in Contents : f = files[n]
    BY <1>1
  <2>2. f.v = 0 /\ f.whole => f = [v |-> 0, whole |-> TRUE]
    BY DEF Contents
  <2> QED BY <1>1, <1>2, <2>1, <2>2 DEF Absent
<1>4. ASSUME NEW c \in Contents, c.whole, files' = [files EXCEPT ![n] = c]
      PROVE  Visible' = [Visible EXCEPT ![n] = c.v]
  <2>1. \A m \in Names : files'[m] = IF m = n THEN c ELSE files[m]
    BY <1>4 DEF StorageInv, StorageTypeOK
  <2>2. \A m \in Names : Visible'[m] = IF m = n THEN c.v ELSE Visible[m]
    BY <1>4, <2>1 DEF Visible
  <2>3. DOMAIN Visible' = Names /\ DOMAIN Visible = Names /\ Visible' = [m \in Names |-> Visible'[m]]
    BY DEF Visible
  <2> QED BY <2>2, <2>3
<1> QED BY <1>2, <1>3, <1>4

\* A call that has its effect, and whose client learns it or not.
LEMMA Applies ==
    ASSUME StorageInv, NEW w \in Workers, NEW j \in Jobs, job' = [job EXCEPT ![w] = j], UNCHANGED kind,
           kind # "null", job[w].op \in FileOps, job[w].at \notin {"answer", "done"},
           j.op = job[w].op, j.name = job[w].name, j.at \in {"answer", "done"},
           \/ job[w].op = "put" /\ j.v = job[w].v /\ Store(w)
           \/ job[w].op = "put" /\ j.v = job[w].v /\ files[j.name] # Absent /\ UNCHANGED files
           \/ job[w].op = "delete" /\ j.v = job[w].v /\ Remove(j.name)
           \/ /\ job[w].op = "get" /\ UNCHANGED files
              /\ j.ok = (files[j.name] # Absent) /\ j.v = files[j.name].v
    PROVE  [FS!Next]_<<Visible, Running>>
<1> DEFINE c == CallOf(job[w])
           n == job[w].name
<1>1. n \in Names /\ [v |-> job[w].v, whole |-> TRUE] \in Contents
  BY DEF StorageInv, StorageTypeOK, Placed, Contents, Jobs
<1>2. c = [op |-> job[w].op, name |-> n, v |-> job[w].v, applied |-> FALSE]
  <2>1. job[w].op \in {"put", "get", "delete"} /\ (job[w].at \in {"answer", "done"}) = FALSE
    BY DEF FileOps
  <2> QED BY <2>1 DEF CallOf
<1>3. c # FS!Idle /\ ~c.applied /\ c.op = job[w].op /\ c.name = n /\ c.v = job[w].v
  BY <1>2 DEF FS!Idle, FileOps
<1>4. j.ok => CallOf(j) = [op |-> job[w].op, name |-> n, v |-> j.v, applied |-> TRUE]
  <2>1. j.op \in {"put", "get", "delete"} /\ (j.at \in {"answer", "done"}) = TRUE
    BY DEF FileOps
  <2> QED BY <2>1 DEF CallOf
<1>5. ~j.ok => CallOf(j) = FS!Idle
  BY DEF CallOf, FS!Idle
<1>6. j.ok \in BOOLEAN
  BY DEF Jobs
<1>7. Running[w] = c /\ Running' = [Running EXCEPT ![w] = CallOf(j)] /\ Running = [x \in Workers |-> Running[x]]
  BY Seen
<1>8. UNCHANGED files => Visible' = Visible
  BY DEF Visible
<1>9. Absent \in Contents /\ Absent.whole /\ Absent.v = 0
  BY StorageAssumption DEF Absent, Contents
<1>10. Store(w) => Visible' = [Visible EXCEPT ![n] = job[w].v]
  BY <1>1, SeenFiles DEF Store
<1>11. Remove(n) => Visible' = [Visible EXCEPT ![n] = 0]
  BY <1>1, <1>9, SeenFiles DEF Remove
<1>12. Visible[n] = files[n].v /\ (Visible[n] = 0 <=> files[n] = Absent)
  BY <1>1, SeenFiles
<1> HIDE DEF c, n
<1>13. ASSUME j.ok, NEW v, v = IF c.op = "get" THEN Visible[c.name] ELSE c.v, j.v = v
       PROVE  Running' = [Running EXCEPT ![w] = [op |-> c.op, name |-> c.name, v |-> v, applied |-> TRUE]]
  BY <1>3, <1>4, <1>7, <1>13
<1>14. CASE job[w].op = "put" /\ j.v = job[w].v /\ Store(w)
  <2>1. j.ok => FS!Apply(w)
    BY <1>3, <1>7, <1>10, <1>13, <1>14 DEF FS!Apply
  <2>2. ~j.ok => FS!ApplyAndFail(w)
    BY <1>3, <1>5, <1>7, <1>10, <1>14 DEF FS!ApplyAndFail
  <2> QED BY <1>6, <2>1, <2>2 DEF FS!Next
<1>15. CASE job[w].op = "put" /\ j.v = job[w].v /\ files[j.name] # Absent /\ UNCHANGED files
  <2>1. c.op = "put" /\ c.name = n /\ j.v = c.v /\ Visible[n] # 0
    BY <1>3, <1>12, <1>15 DEF n
  <2>2. ASSUME j.ok PROVE FS!Apply(w)
    <3>1. Running' = [Running EXCEPT ![w] =
             [op |-> c.op, name |-> c.name,
              v |-> IF c.op = "get" THEN Visible[c.name] ELSE c.v, applied |-> TRUE]]
      BY <1>13, <2>1, <2>2
    <3> QED BY <1>3, <1>7, <1>8, <1>15, <2>1, <3>1 DEF FS!Apply
  <2>3. ~j.ok => [FS!Next]_<<Visible, Running>>
    BY <1>5, <1>15, Quits
  <2> QED BY <1>6, <2>2, <2>3 DEF FS!Next
<1>16. CASE job[w].op = "delete" /\ j.v = job[w].v /\ Remove(j.name)
  <2>1. j.ok => FS!Apply(w)
    BY <1>3, <1>7, <1>11, <1>13, <1>16 DEF FS!Apply, n
  <2>2. ~j.ok => FS!ApplyAndFail(w)
    BY <1>3, <1>5, <1>7, <1>11, <1>16 DEF FS!ApplyAndFail, n
  <2> QED BY <1>6, <2>1, <2>2 DEF FS!Next
<1>17. CASE /\ job[w].op = "get" /\ UNCHANGED files
            /\ j.ok = (files[j.name] # Absent) /\ j.v = files[j.name].v
  <2>1. c.op = "get" /\ c.name = n /\ j.v = Visible[n] /\ (j.ok => Visible[n] # 0)
    BY <1>3, <1>12, <1>17 DEF n
  <2>3. ASSUME j.ok PROVE FS!Apply(w)
    <3>1. Running' = [Running EXCEPT ![w] =
             [op |-> c.op, name |-> c.name,
              v |-> IF c.op = "get" THEN Visible[c.name] ELSE c.v, applied |-> TRUE]]
      BY <1>13, <2>1, <2>3
    <3> QED BY <1>3, <1>7, <1>8, <1>17, <2>1, <2>3, <3>1 DEF FS!Apply
  <2>2. ~j.ok => [FS!Next]_<<Visible, Running>>
    BY <1>5, <1>17, Quits
  <2> QED BY <1>6, <2>2, <2>3 DEF FS!Next
<1> QED BY <1>14, <1>15, <1>16, <1>17

\* The steps that an operation of a store is made of.
LEMMA ReplySeen ==
    ASSUME StorageInv, NEW w \in Workers, NEW ok \in BOOLEAN, Reply(w, ok) \/ End(w, ok), UNCHANGED kind
    PROVE  /\ UNCHANGED files /\ (~ok \/ kind = "null" \/ job[w].op \notin FileOps) =>
                [FS!Next]_<<Visible, Running>>
           /\ /\ kind # "null" /\ job[w].op \in FileOps /\ job[w].at \notin {"answer", "done"}
              /\ \/ job[w].op = "put" /\ Store(w)
                 \/ job[w].op = "put" /\ files[job[w].name] # Absent /\ UNCHANGED files
                 \/ job[w].op = "delete" /\ Remove(job[w].name)
              => [FS!Next]_<<Visible, Running>>
<1>1. PICK j \in Jobs :
         /\ job' = [job EXCEPT ![w] = j]
         /\ j.op = job[w].op /\ j.name = job[w].name /\ j.v = job[w].v /\ j.at \in {"answer", "done"} /\ j.ok = ok
  BY Results
<1>2. ~ok \/ kind = "null" \/ job[w].op \notin FileOps => CallOf(j) = FS!Idle
  BY <1>1, NotSeen
<1>3. UNCHANGED files /\ (~ok \/ kind = "null" \/ job[w].op \notin FileOps) =>
         [FS!Next]_<<Visible, Running>>
  BY <1>1, <1>2, Quits
<1>4. ASSUME kind # "null", job[w].op \in FileOps, job[w].at \notin {"answer", "done"},
             \/ job[w].op = "put" /\ Store(w)
             \/ job[w].op = "put" /\ files[job[w].name] # Absent /\ UNCHANGED files
             \/ job[w].op = "delete" /\ Remove(job[w].name)
      PROVE  [FS!Next]_<<Visible, Running>>
  BY <1>1, <1>4, Applies
<1> QED BY <1>3, <1>4

\* A step between the beginning of a call and its end, or of another call.
LEMMA GoSeen ==
    ASSUME StorageInv, NEW w \in Workers, NEW at \in Places, Go(w, at), UNCHANGED <<kind, files>>,
           \/ job[w].op \notin FileOps
           \/ job[w].at \in {"answer", "done"} /\ at \in {"answer", "done"}
           \/ job[w].at \notin {"answer", "done"} /\ at \notin {"answer", "done"}
    PROVE  [FS!Next]_<<Visible, Running>>
<1> DEFINE j == [job[w] EXCEPT !.at = at]
<1>1. job' = [job EXCEPT ![w] = j]
  BY DEF Go
<1>2. j.op = job[w].op /\ j.name = job[w].name /\ j.v = job[w].v /\ j.at = at /\ j.ok = job[w].ok
      /\ job[w].ok \in BOOLEAN
  BY DEF Jobs, StorageInv, StorageTypeOK
<1> HIDE DEF j
<1>3. CallOf(j) = CallOf(job[w])
  BY <1>2, SameSeen
<1> QED BY <1>1, <1>3, Stays

LEMMA GetSeen ==
    ASSUME StorageInv, NEW w \in Workers, At(w, "get", "begin"), Got(w), UNCHANGED <<kind, files>>, kind # "null"
    PROVE  [FS!Next]_<<Visible, Running>>
<1>1. PICK j \in Jobs :
         /\ job' = [job EXCEPT ![w] = j]
         /\ j.op = "get" /\ j.name = job[w].name /\ j.at \in {"answer", "done"}
         /\ j.ok = (files[j.name] # Absent) /\ j.v = files[j.name].v
  <2>1. TRUE \in BOOLEAN
    OBVIOUS
  <2> QED BY <2>1, Results DEF At
<1> QED BY <1>1, Applies DEF At, FileOps

\* To remove what is not there.
LEMMA NothingRemoved ==
    ASSUME StorageInv, NEW n \in Names, files[n] = Absent, Remove(n)
    PROVE  UNCHANGED files
BY DEF StorageInv, StorageTypeOK, Remove

LEMMA ListSeen ==
    ASSUME StorageInv, NEW w \in Workers, Listing(w), UNCHANGED <<kind, files>>,
           NEW seen, NEW skip, NEW end, ListBucket(w, seen, skip, end)
    PROVE  [FS!Next]_<<Visible, Running>>
<1> DEFINE stop == end \/ Last(job[w].at)
           next == CASE ~stop            -> After(job[w].at)
                     [] stop /\ kind = "http" -> "answer"
                     [] stop /\ kind # "http" -> "done"
           j == [job[w] EXCEPT !.listed = @ \cup seen, !.skipped = @ \/ skip, !.ok = TRUE, !.at = next]
<1>1. job' = [job EXCEPT ![w] = j]
  BY DEF ListBucket
<1> HIDE DEF next
<1>2. job[w].op = "list" /\ j.op = "list" /\ j.ok = TRUE
  BY DEF Jobs, Listing, StorageInv, StorageTypeOK
<1> HIDE DEF j
<1>3. CallOf(j) = FS!Idle
  <2>1. j.op \notin FileOps /\ j.ok \in BOOLEAN
    BY <1>2 DEF FileOps
  <2> QED BY <2>1, NotSeen
<1> QED BY <1>1, <1>3, Quits

\* Every step of a store is one of a FileStore, or is not seen.
LEMMA FileStoreStep ==
    ASSUME StorageInv, [Next]_vars
    PROVE  [FS!Next]_<<Visible, Running>>
<1> USE DEF count
<1>1. ASSUME UNCHANGED <<kind, files, job>> PROVE [FS!Next]_<<Visible, Running>>
  BY <1>1 DEF Visible, Running, CallOf
<1>2. ASSUME NEW w \in Workers, Call(w) PROVE [FS!Next]_<<Visible, Running>>
  <2> DEFINE at == First("begin")
  <2>1. Visible' = Visible /\ kind' = kind /\ files' = files
    BY <1>2 DEF Call, Visible
  <2>2. Running[w] = FS!Idle
    <3>1. job[w].op \notin FileOps /\ job[w].ok \in BOOLEAN
      <4>1. job[w] = None
        BY <1>2 DEF Call
      <4>2. None.op \notin FileOps /\ None.ok \in BOOLEAN
        BY DEF None, Job, FileOps
      <4> QED BY <4>1, <4>2
    <3>2. CallOf(job[w]) = FS!Idle
      BY <3>1, NotSeen
    <3> QED BY <3>2 DEF Running
  <2>3. CASE \E op \in {"put", "get", "delete"}, n \in Names :
               LET v == IF op = "put" THEN version + 1 ELSE 0
               IN  /\ job' = [job EXCEPT ![w] = [Job(op, n, First("begin")) EXCEPT !.v = v]]
                   /\ op = "put" => version < MaxVersion
    <3>1. PICK op \in {"put", "get", "delete"}, n \in Names :
               LET v == IF op = "put" THEN version + 1 ELSE 0
               IN  /\ job' = [job EXCEPT ![w] = [Job(op, n, First("begin")) EXCEPT !.v = v]]
                   /\ op = "put" => version < MaxVersion
      BY <2>3
    <3> DEFINE v == IF op = "put" THEN version + 1 ELSE 0
               j == [Job(op, n, at) EXCEPT !.v = v]
               c == [op |-> op, name |-> n, v |-> v, applied |-> FALSE]
    <3>2. v \in 1 .. MaxVersion \cup {0} /\ job' = [job EXCEPT ![w] = j]
      BY <3>1, StorageAssumption DEF StorageInv, StorageTypeOK
    <3>3. at \notin {"answer", "done"}
      BY DEF First
    <3> HIDE DEF at, v
    <3>4. j.op = op /\ j.name = n /\ j.v = v /\ j.at = at /\ j.ok \in BOOLEAN
      BY DEF Job
    <3> HIDE DEF j
    <3>5. CASE kind = "null"
      <4>1. CallOf(j) = FS!Idle
        BY <3>4, <3>5, NotSeen
      <4> QED BY <2>1, <3>2, <4>1, Quits
    <3>6. CASE kind # "null"
      <4>1. CallOf(j) = c
        <5>1. (j.at \in {"answer", "done"}) = FALSE /\ j.op \in {"put", "get", "delete"}
          BY <3>3, <3>4
        <5> QED BY <3>4, <3>6, <5>1 DEF CallOf
      <4>2. c \in FS!Calls \ {FS!Idle} /\ ~c.applied
        BY <3>2 DEF FS!Calls, FS!Idle
      <4>3. Running' = [Running EXCEPT ![w] = c]
        BY <2>1, <3>2, <4>1, Seen
      <4> HIDE DEF c
      <4>4. FS!Begin(w)
        BY <2>1, <2>2, <4>2, <4>3 DEF FS!Begin
      <4> QED BY <4>4 DEF FS!Next
    <3> QED BY <3>5, <3>6
  <2>4. CASE \E d \in {"locks", "states"} :
               job' = [job EXCEPT ![w] = [Job("list", "", First(Buckets[1])) EXCEPT !.dir = d]]
    <3>1. PICK d \in {"locks", "states"} :
               job' = [job EXCEPT ![w] = [Job("list", "", First(Buckets[1])) EXCEPT !.dir = d]]
      BY <2>4
    <3> DEFINE b == First(Buckets[1])
               j == [Job("list", "", b) EXCEPT !.dir = d]
    <3>2. job' = [job EXCEPT ![w] = j]
      BY <3>1
    <3> HIDE DEF b
    <3>3. j.op \notin FileOps /\ j.ok \in BOOLEAN
      BY DEF Job, FileOps
    <3> HIDE DEF j
    <3>4. CallOf(j) = FS!Idle
      BY <3>3, NotSeen
    <3> QED BY <2>1, <3>2, <3>4, Quits
  <2> QED BY <1>2, <2>3, <2>4 DEF Call
<1>3. ASSUME NEW w \in Workers, CallCreate(w) PROVE [FS!Next]_<<Visible, Running>>
  <2> DEFINE j == Job("create", "", "begin")
  <2>1. j.op \notin FileOps /\ j.ok \in BOOLEAN /\ job' = [job EXCEPT ![w] = j] /\ UNCHANGED <<kind, files>>
    BY <1>3 DEF CallCreate, Job, FileOps
  <2> HIDE DEF j
  <2>2. CallOf(j) = FS!Idle
    BY <2>1, NotSeen
  <2> QED BY <2>1, <2>2, Quits
<1>4. ASSUME NEW w \in Workers, Return(w) \/ Crash(w) PROVE [FS!Next]_<<Visible, Running>>
  <2>1. None.op \notin FileOps /\ None.ok \in BOOLEAN
    BY DEF None, Job, FileOps
  <2> QED BY <1>4, <2>1, NotSeen, Quits DEF Return, Crash
<1>5. ASSUME NEW w \in Workers, Fail(w) PROVE [FS!Next]_<<Visible, Running>>
  BY <1>5, ReplySeen DEF Fail
<1>6. ASSUME NEW w \in Workers, CreateTemp(w) \/ Copy(w) PROVE [FS!Next]_<<Visible, Running>>
  <2>1. {"copy", "rename"} \subseteq Places
    BY DEF Places
  <2>2. UNCHANGED <<kind, files>> /\ job[w].at \in {"begin", "copy"}
    BY <1>6 DEF CreateTemp, Copy, At
  <2>3. Go(w, "copy") \/ Go(w, "rename") \/ End(w, FALSE)
    BY <1>6 DEF CreateTemp, Copy
  <2> QED BY <2>1, <2>2, <2>3, GoSeen, ReplySeen
<1>7. ASSUME NEW w \in Workers, Rename(w) PROVE [FS!Next]_<<Visible, Running>>
  <2>1. /\ kind # "null" /\ job[w].op = "put" /\ job[w].op \in FileOps
        /\ job[w].at \notin {"answer", "done"} /\ UNCHANGED kind
    BY <1>7 DEF Rename, OnDisk, Local, At, FileOps
  <2>2. CASE files' = [files EXCEPT ![job[w].name] = temps[Temp(w)]] /\ End(w, TRUE)
    <3>1. temps[Temp(w)] = [v |-> job[w].v, whole |-> TRUE]
      <4>1. PICK f \in Contents : f = temps[Temp(w)]
        BY <1>7 DEF Rename, At, StorageInv, StorageTypeOK, TempsOwned
      <4>2. f.v = job[w].v /\ f.whole
        BY <1>7, <4>1 DEF Rename, At, StorageInv, TempsOwned
      <4> QED BY <4>1, <4>2 DEF Contents
    <3>2. Store(w)
      BY <2>2, <3>1 DEF Store
    <3> QED BY <2>1, <2>2, <3>2, ReplySeen
  <2>3. CASE End(w, FALSE) /\ UNCHANGED files
    BY <2>1, <2>3, ReplySeen
  <2> QED BY <1>7, <2>2, <2>3 DEF Rename
<1>8. ASSUME NEW w \in Workers, NEW ok \in BOOLEAN, At(w, "delete", "begin"), Remove(job[w].name),
             kind # "null", UNCHANGED kind, Reply(w, ok) \/ End(w, ok)
      PROVE  [FS!Next]_<<Visible, Running>>
  BY <1>8, ReplySeen DEF At, FileOps
<1>9. ASSUME NEW w \in Workers, NEW ok \in BOOLEAN, At(w, "put", "begin"),
             Store(w) \/ (files[job[w].name] # Absent /\ UNCHANGED files),
             kind # "null", UNCHANGED kind, Reply(w, ok)
      PROVE  [FS!Next]_<<Visible, Running>>
  BY <1>9, ReplySeen DEF At, FileOps
<1>10. ASSUME NEW w \in Workers, DiskFiles(w) PROVE [FS!Next]_<<Visible, Running>>
  <2>1. kind # "null" /\ UNCHANGED kind
    BY <1>10 DEF DiskFiles, OnDisk, Local
  <2>2. CASE At(w, "get", "begin") /\ Got(w) /\ UNCHANGED files
    BY <2>1, <2>2, GetSeen
  <2>3. CASE At(w, "delete", "begin") /\ End(w, files[job[w].name] # Absent) /\ Remove(job[w].name)
    <3>1. PICK ok \in BOOLEAN : End(w, ok)
      BY <2>3
    <3> QED BY <1>8, <2>1, <2>3, <3>1
  <2> QED BY <1>10, <2>2, <2>3 DEF DiskFiles
<1>11. ASSUME NEW w \in Workers, FsList(w) \/ SftpList(w) \/ SftpGetLocks(w)
       PROVE  [FS!Next]_<<Visible, Running>>
  <2>1. UNCHANGED <<kind, files>> /\ Listing(w) /\ job[w].op \notin FileOps
    BY <1>11 DEF FsList, SftpList, SftpGetLocks, Listing, FileOps
  <2>2. \/ \E seen, skip, end : ListBucket(w, seen, skip, end)
        \/ Reply(w, FALSE) \/ End(w, FALSE)
    BY <1>11 DEF FsList, SftpList, SftpGetLocks
  <2> QED BY <2>1, <2>2, ListSeen, ReplySeen
<1>12. ASSUME NEW w \in Workers, S3(w) PROVE [FS!Next]_<<Visible, Running>>
  <2>1. kind # "null" /\ UNCHANGED kind
    BY <1>12 DEF S3, Local
  <2>2. CASE At(w, "get", "begin") /\ Got(w) /\ UNCHANGED files
    BY <2>1, <2>2, GetSeen
  <2>3. CASE /\ \/ At(w, "put", "begin") /\ Store(w)
                \/ At(w, "delete", "begin") /\ Remove(job[w].name)
             /\ Reply(w, TRUE) \/ Reply(w, FALSE)
    BY <1>8, <1>9, <2>1, <2>3
  <2>4. CASE Listing(w) /\ UNCHANGED files /\ \E seen, skip, end : ListBucket(w, seen, skip, end)
    BY <2>1, <2>4, ListSeen
  <2> QED BY <1>12, <2>2, <2>3, <2>4 DEF S3
<1>13. ASSUME NEW w \in Workers, Database(w) PROVE [FS!Next]_<<Visible, Running>>
  <2>1. kind # "null" /\ UNCHANGED kind
    BY <1>13 DEF Database, Local
  <2>2. CASE At(w, "get", "begin") /\ Got(w) /\ UNCHANGED files
    BY <2>1, <2>2, GetSeen
  <2>3. CASE At(w, "put", "begin") /\ Store(w) /\ Reply(w, TRUE)
    BY <1>9, <2>1, <2>3
  <2>4. CASE /\ At(w, "put", "begin") /\ files[job[w].name] # Absent /\ UNCHANGED files
             /\ \E ignored \in BOOLEAN : Reply(w, ignored)
    BY <1>9, <2>1, <2>4
  <2>5. CASE At(w, "delete", "begin") /\ Remove(job[w].name) /\ Reply(w, TRUE)
    BY <1>8, <2>1, <2>5
  <2>6. CASE DatabaseList(w) /\ UNCHANGED files
    BY <2>1, <2>6, ListSeen DEF DatabaseList
  <2> QED BY <1>13, <2>2, <2>3, <2>4, <2>5, <2>6 DEF Database
<1>14. ASSUME NEW w \in Workers, Null(w) PROVE [FS!Next]_<<Visible, Running>>
  BY <1>14, ReplySeen DEF Null
<1>15. ASSUME NEW w \in Workers, Handle(w) PROVE [FS!Next]_<<Visible, Running>>
  <2>1. "begin" \in Places /\ UNCHANGED <<kind, files>> /\ job[w].at = "send"
    BY <1>15 DEF Places, Handle
  <2>2. Reply(w, FALSE) \/ Go(w, "begin") \/ (job[w].op \notin FileOps /\ Go(w, Buckets[1]))
    BY <1>15 DEF Handle, FileOps
  <2> QED BY <2>1, <2>2, BucketPlaces, GoSeen, ReplySeen
<1>16. ASSUME NEW w \in Workers, Answer(w) PROVE [FS!Next]_<<Visible, Running>>
  <2>1. "done" \in Places
    BY DEF Places
  <2> QED BY <1>16, <2>1, GoSeen DEF Answer
<1>17. ASSUME NEW w \in Workers, Creation(w) PROVE [FS!Next]_<<Visible, Running>>
  <2>1. /\ job[w].op \notin FileOps /\ UNCHANGED <<kind, files>>
        /\ \/ \E ok \in BOOLEAN : Reply(w, ok)
           \/ \E at \in {"dirs", "locks", "config"} : Go(w, at)
    BY <1>17 DEF Creation, CheckEmpty, MakeBuckets, MakeLocks, WriteConfig, CreateDatabase, At, FileOps
  <2>2. {"dirs", "locks", "config"} \subseteq Places
    BY DEF Places
  <2> QED BY <2>1, <2>2, ReplySeen, GoSeen
<1> QED BY <1>1, <1>2, <1>3, <1>4, <1>5, <1>6, <1>7, <1>10, <1>11, <1>12, <1>13, <1>14, <1>15, <1>16, <1>17
        DEF Next, Backend, Server, vars

-----------------------------------------------------------------------------
\* Creation, which rests on Mkdir.

\* Whoever has made the directory of the locks, or has seen Create succeed.
Past(w) == w \in created \/ At(w, "create", "config")

CreateInv ==
    kind \in {"fs", "sftp"} =>
        /\ created \subseteq config
        /\ created \subseteq Workers
        /\ \A w \in Workers : Past(w) => "locks" \in dirs
        /\ \A w, x \in Workers : Past(w) /\ Past(x) => w = x

LEMMA CreateInvInit == Init => CreateInv
<1> SUFFICES ASSUME Init PROVE CreateInv
  OBVIOUS
<1>1. created = {} /\ \A w \in Workers : job[w].op = "none"
  BY DEF Init, None, Job
<1> QED BY <1>1 DEF CreateInv, Past, At

\* A step that makes, creates and lets nobody in.
LEMMA NobodyPasses ==
    ASSUME CreateInv, UNCHANGED <<kind, config, created>>, dirs \subseteq dirs',
           \A w \in Workers : At(w, "create", "config")' => At(w, "create", "config")
    PROVE  CreateInv'
BY DEF CreateInv, Past

\* A step of one worker, at whatever it is.
LEMMA OnePasses ==
    ASSUME StorageInv, CreateInv, UNCHANGED <<kind, config, created>>, dirs \subseteq dirs',
           NEW w \in Workers, NEW j, job' = [job EXCEPT ![w] = j], j.op # "create" \/ j.at # "config"
    PROVE  CreateInv'
<1>1. \A x \in Workers : job'[x] = IF x = w THEN j ELSE job[x]
  BY DEF StorageInv, StorageTypeOK
<1>2. \A x \in Workers : At(x, "create", "config")' => At(x, "create", "config")
  BY <1>1 DEF At
<1> QED BY <1>2, NobodyPasses

LEMMA ReplyPasses ==
    ASSUME StorageInv, CreateInv, UNCHANGED <<kind, config, created>>, dirs \subseteq dirs',
           NEW w \in Workers, NEW ok \in BOOLEAN, Reply(w, ok) \/ End(w, ok)
    PROVE  CreateInv'
<1>1. PICK j \in Jobs : job' = [job EXCEPT ![w] = j] /\ j.at \in {"answer", "done"}
  BY Results
<1> QED BY <1>1, OnePasses

LEMMA GoPasses ==
    ASSUME StorageInv, CreateInv, UNCHANGED <<kind, config, created>>, dirs \subseteq dirs',
           NEW w \in Workers, NEW at \in Places, Go(w, at), job[w].op # "create" \/ at # "config"
    PROVE  CreateInv'
<1>1. PICK j \in Jobs : job' = [job EXCEPT ![w] = j] /\ j.op = job[w].op /\ j.at = at
  BY Goes
<1> QED BY <1>1, OnePasses

LEMMA GotPasses ==
    ASSUME StorageInv, CreateInv, UNCHANGED <<kind, config, created, dirs>>,
           NEW w \in Workers, At(w, "get", "begin"), Got(w)
    PROVE  CreateInv'
<1>1. TRUE \in BOOLEAN
  OBVIOUS
<1>2. PICK j \in Jobs : job' = [job EXCEPT ![w] = j] /\ j.op = "get"
  BY <1>1, Results DEF At
<1> QED BY <1>2, OnePasses

LEMMA ListPasses ==
    ASSUME StorageInv, CreateInv, UNCHANGED <<kind, config, created, dirs>>,
           NEW w \in Workers, Listing(w), NEW seen, NEW skip, NEW end, ListBucket(w, seen, skip, end)
    PROVE  CreateInv'
<1> DEFINE stop == end \/ Last(job[w].at)
           next == CASE ~stop            -> After(job[w].at)
                     [] stop /\ kind = "http" -> "answer"
                     [] stop /\ kind # "http" -> "done"
           j == [job[w] EXCEPT !.listed = @ \cup seen, !.skipped = @ \/ skip, !.ok = TRUE, !.at = next]
<1>1. job' = [job EXCEPT ![w] = j]
  BY DEF ListBucket
<1> HIDE DEF next
<1>2. j.op = "list"
  BY DEF Jobs, Listing, StorageInv, StorageTypeOK
<1> HIDE DEF j
<1> QED BY <1>1, <1>2, OnePasses

LEMMA CreateStep ==
    ASSUME StorageInv, CreateInv, [Next]_vars
    PROVE  CreateInv'
<1> USE DEF count
<1>1. ASSUME UNCHANGED <<kind, config, created, dirs, job>> PROVE CreateInv'
  BY <1>1 DEF CreateInv, Past, At
<1>2. ASSUME NEW w \in Workers, Call(w) PROVE CreateInv'
  <2>1. UNCHANGED <<kind, config, created, dirs>>
    BY <1>2 DEF Call
  <2>2. CASE \E op \in {"put", "get", "delete"}, n \in Names, v \in {version + 1, 0} :
               job' = [job EXCEPT ![w] = [Job(op, n, First("begin")) EXCEPT !.v = v]]
    <3>1. PICK op \in {"put", "get", "delete"}, n \in Names, v \in {version + 1, 0} :
               job' = [job EXCEPT ![w] = [Job(op, n, First("begin")) EXCEPT !.v = v]]
      BY <2>2
    <3>2. [Job(op, n, First("begin")) EXCEPT !.v = v].op # "create"
      BY DEF Job
    <3> QED BY <2>1, <3>1, <3>2, OnePasses
  <2>3. CASE \E d \in {"locks", "states"} :
               job' = [job EXCEPT ![w] = [Job("list", "", First(Buckets[1])) EXCEPT !.dir = d]]
    <3>1. PICK d \in {"locks", "states"} :
               job' = [job EXCEPT ![w] = [Job("list", "", First(Buckets[1])) EXCEPT !.dir = d]]
      BY <2>3
    <3>2. [Job("list", "", First(Buckets[1])) EXCEPT !.dir = d].op # "create"
      BY DEF Job
    <3> QED BY <2>1, <3>1, <3>2, OnePasses
  <2> QED BY <1>2, <2>2, <2>3 DEF Call
<1>3. ASSUME NEW w \in Workers, CallCreate(w) PROVE CreateInv'
  <2>1. Job("create", "", "begin").at # "config"
    BY DEF Job
  <2> QED BY <1>3, <2>1, OnePasses DEF CallCreate
<1>4. ASSUME NEW w \in Workers, Return(w) \/ Crash(w) PROVE CreateInv'
  <2>1. None.op # "create"
    BY DEF None, Job
  <2> QED BY <1>4, <2>1, OnePasses DEF Return, Crash
<1>5. ASSUME NEW w \in Workers, Fail(w) PROVE CreateInv'
  BY <1>5, ReplyPasses DEF Fail
<1>6. ASSUME NEW w \in Workers, CreateTemp(w) \/ Copy(w) \/ Rename(w) PROVE CreateInv'
  <2>1. {"copy", "rename"} \subseteq Places
    BY DEF Places
  <2>2. UNCHANGED <<kind, config, created, dirs>>
    BY <1>6 DEF CreateTemp, Copy, Rename
  <2>3. Go(w, "copy") \/ Go(w, "rename") \/ \E ok \in BOOLEAN : End(w, ok)
    BY <1>6 DEF CreateTemp, Copy, Rename
  <2> QED BY <2>1, <2>2, <2>3, GoPasses, ReplyPasses
<1>7. ASSUME NEW w \in Workers, DiskFiles(w) \/ S3(w) \/ Database(w) PROVE CreateInv'
  <2>1. UNCHANGED <<kind, config, created, dirs>>
    BY <1>7 DEF DiskFiles, S3, Database
  <2>2. \/ At(w, "get", "begin") /\ Got(w)
        \/ \E ok \in BOOLEAN : Reply(w, ok) \/ End(w, ok)
        \/ Listing(w) /\ \E seen, skip, end : ListBucket(w, seen, skip, end)
    BY <1>7 DEF DiskFiles, S3, Database, DatabaseList
  <2> QED BY <2>1, <2>2, GotPasses, ReplyPasses, ListPasses
<1>8. ASSUME NEW w \in Workers, FsList(w) \/ SftpList(w) \/ SftpGetLocks(w) PROVE CreateInv'
  <2>1. UNCHANGED <<kind, config, created, dirs>> /\ Listing(w)
    BY <1>8 DEF FsList, SftpList, SftpGetLocks
  <2>2. \/ \E seen, skip, end : ListBucket(w, seen, skip, end)
        \/ Reply(w, FALSE) \/ End(w, FALSE)
    BY <1>8 DEF FsList, SftpList, SftpGetLocks
  <2> QED BY <2>1, <2>2, ListPasses, ReplyPasses
<1>9. ASSUME kind \notin {"fs", "sftp"}, UNCHANGED kind PROVE CreateInv'
  BY <1>9 DEF CreateInv
<1>10. ASSUME NEW w \in Workers, Null(w) \/ Handle(w) \/ Answer(w) \/ CreateDatabase(w) PROVE CreateInv'
  BY <1>9, <1>10 DEF Null, Handle, Answer, CreateDatabase
<1>14. ASSUME Server PROVE CreateInv'
  BY <1>9, <1>14 DEF Server
<1>11. ASSUME NEW w \in Workers, CheckEmpty(w) \/ MakeBuckets(w) PROVE CreateInv'
  <2>1. {"dirs", "locks"} \subseteq Places
    BY DEF Places
  <2>2. UNCHANGED <<kind, config, created>> /\ dirs \subseteq dirs'
    BY <1>11 DEF CheckEmpty, MakeBuckets
  <2>3. \/ kind \notin {"fs", "sftp"}
        \/ \E ok \in BOOLEAN : Reply(w, ok)
        \/ Go(w, "dirs") \/ Go(w, "locks")
    BY <1>11 DEF CheckEmpty, MakeBuckets, OnDisk, Local
  <2> QED BY <1>9, <2>1, <2>2, <2>3, GoPasses, ReplyPasses
<1>12. ASSUME NEW w \in Workers, MakeLocks(w) PROVE CreateInv'
  <2>1. CASE Reply(w, FALSE) /\ UNCHANGED dirs
    BY <1>12, <2>1, ReplyPasses DEF MakeLocks
  <2>2. CASE "locks" \notin dirs /\ Go(w, "config") /\ dirs' = dirs \cup {"locks"}
    <3>1. \A x \in Workers : job'[x] = IF x = w THEN [job[w] EXCEPT !.at = "config"] ELSE job[x]
      BY <2>2 DEF Go, StorageInv, StorageTypeOK
    <3>2. \A x \in Workers : At(x, "create", "config")' => x = w \/ At(x, "create", "config")
      BY <3>1 DEF At
    <3> QED BY <1>12, <2>2, <3>2 DEF MakeLocks, CreateInv, Past
  <2> QED BY <1>12, <2>1, <2>2 DEF MakeLocks
<1>13. ASSUME NEW w \in Workers, WriteConfig(w) PROVE CreateInv'
  <2>1. /\ At(w, "create", "config") /\ config' = {w} /\ created' = created \cup {w}
        /\ Reply(w, TRUE) /\ UNCHANGED <<kind, dirs>>
    BY <1>13 DEF WriteConfig
  <2>2. PICK j \in Jobs : job' = [job EXCEPT ![w] = j] /\ j.at = "done"
    <3>1. TRUE \in BOOLEAN
      OBVIOUS
    <3> QED BY <2>1, <3>1, Results
  <2>3. \A x \in Workers : job'[x] = IF x = w THEN j ELSE job[x]
    BY <2>2 DEF StorageInv, StorageTypeOK
  <2>4. \A x \in Workers : At(x, "create", "config")' => At(x, "create", "config")
    BY <2>2, <2>3 DEF At
  <2> QED BY <2>1, <2>4 DEF CreateInv, Past
<1> QED BY <1>1, <1>2, <1>3, <1>4, <1>5, <1>6, <1>7, <1>8, <1>10, <1>11, <1>12, <1>13, <1>14
        DEF Next, Backend, Creation, vars

LEMMA CreateInvOne == CreateInv => OneCreation
<1> SUFFICES ASSUME CreateInv, kind \in {"fs", "sftp"}
             PROVE  Cardinality(created) <= 1 /\ created \subseteq config
  BY DEF OneCreation
<1>1. CASE created = {}
  BY <1>1, FS_EmptySet
<1>2. CASE created # {}
  <2>1. PICK w : w \in created
    BY <1>2
  <2>2. created = {w}
    BY <2>1 DEF CreateInv, Past
  <2> QED BY <2>2, FS_Singleton DEF CreateInv
<1> QED BY <1>1, <1>2

-----------------------------------------------------------------------------
\* A refresh that succeeded, where a put replaces the file and no two write the
\* same name at once.
Refreshed(j) == j.op = "put" /\ j.at = "done" /\ j.ok =>
                    files[j.name] = Absent \/ files[j.name].v = j.v

RefreshInv == kind \in {"fs", "sftp", "s3"} => \A w \in Workers : Refreshed(job[w])

\* A step of one call: it writes no name but its own, removes what it likes, and
\* has written what it says it has.
LEMMA RefreshFrame ==
    ASSUME StorageInv, RefreshInv, UNCHANGED kind,
           NEW w \in Workers, NEW j, job' = [job EXCEPT ![w] = j],
           \A n \in Names : \/ files'[n] = files[n] \/ files'[n] = Absent
                            \/ job[w].op = "put" /\ n = job[w].name,
           kind \in {"fs", "sftp", "s3"} => Refreshed(j)'
    PROVE  RefreshInv'
<1> SUFFICES ASSUME kind \in {"fs", "sftp", "s3"}, NEW x \in Workers
             PROVE  Refreshed(job[x])'
  BY DEF RefreshInv
<1>1. job'[x] = IF x = w THEN j ELSE job[x]
  BY DEF StorageInv, StorageTypeOK
<1>2. CASE x = w
  BY <1>1, <1>2
<1>3. CASE x # w
  <2> SUFFICES ASSUME job[x].op = "put", job[x].at = "done", job[x].ok
               PROVE  files'[job[x].name] = Absent \/ files'[job[x].name].v = job[x].v
    BY <1>1, <1>3 DEF Refreshed
  <2>1. files[job[x].name] = Absent \/ files[job[x].name].v = job[x].v
    BY DEF RefreshInv, Refreshed
  <2>2. job[x].name \in Names
    BY DEF StorageInv, Placed, FileOps
  <2>3. ~(job[w].op = "put" /\ job[x].name = job[w].name)
    BY <1>3 DEF StorageInv, Alone
  <2> QED BY <2>1, <2>2, <2>3
<1> QED BY <1>2, <1>3

\* A step that writes nothing, of a call that does not end a put with success.
LEMMA RefreshKept ==
    ASSUME StorageInv, RefreshInv, UNCHANGED <<kind, files>>,
           NEW w \in Workers, NEW j, job' = [job EXCEPT ![w] = j],
           \/ kind \notin {"fs", "sftp", "s3"}
           \/ j.op # "put" \/ j.at # "done" \/ ~j.ok
    PROVE  RefreshInv'
BY RefreshFrame DEF Refreshed

\* A store, and a removal.
LEMMA RefreshWritten ==
    ASSUME StorageInv, RefreshInv, UNCHANGED kind,
           NEW w \in Workers, NEW j, job' = [job EXCEPT ![w] = j],
           job[w].op = "put", j.op = "put", j.name = job[w].name, j.v = job[w].v,
           NEW c \in Contents, c.v = j.v, files' = [files EXCEPT ![job[w].name] = c]
    PROVE  RefreshInv'
<1>1. job[w].name \in Names
  BY DEF StorageInv, Placed, FileOps
<1>2. \A n \in Names : files'[n] = IF n = job[w].name THEN c ELSE files[n]
  BY DEF StorageInv, StorageTypeOK
<1>3. Refreshed(j)'
  BY <1>1, <1>2 DEF Refreshed
<1> QED BY <1>2, <1>3, RefreshFrame

LEMMA RefreshRemoved ==
    ASSUME StorageInv, RefreshInv, UNCHANGED kind,
           NEW w \in Workers, NEW j, job' = [job EXCEPT ![w] = j], j.op # "put",
           NEW n \in Names, Remove(n)
    PROVE  RefreshInv'
<1>1. \A m \in Names : files'[m] = IF m = n THEN Absent ELSE files[m]
  BY DEF Remove, StorageInv, StorageTypeOK
<1>2. Refreshed(j)'
  BY DEF Refreshed
<1> QED BY <1>1, <1>2, RefreshFrame

\* The end of a call that is not a put, or that failed.
LEMMA RefreshReplied ==
    ASSUME StorageInv, RefreshInv, UNCHANGED <<kind, files>>,
           NEW w \in Workers, NEW ok \in BOOLEAN, Reply(w, ok) \/ End(w, ok),
           kind \notin {"fs", "sftp", "s3"} \/ job[w].op # "put" \/ ~ok
    PROVE  RefreshInv'
<1>1. PICK j \in Jobs : /\ job' = [job EXCEPT ![w] = j]
                        /\ j.op = job[w].op /\ j.ok = ok
  BY Results
<1> QED BY <1>1, RefreshKept

LEMMA RefreshGoes ==
    ASSUME StorageInv, RefreshInv, UNCHANGED <<kind, files>>,
           NEW w \in Workers, NEW at \in Places, Go(w, at),
           kind \notin {"fs", "sftp", "s3"} \/ job[w].op # "put" \/ at # "done"
    PROVE  RefreshInv'
<1>1. PICK j \in Jobs : job' = [job EXCEPT ![w] = j] /\ j.op = job[w].op /\ j.at = at
  BY Goes
<1> QED BY <1>1, RefreshKept

LEMMA RefreshGot ==
    ASSUME StorageInv, RefreshInv, UNCHANGED <<kind, files>>,
           NEW w \in Workers, At(w, "get", "begin"), Got(w)
    PROVE  RefreshInv'
<1>1. TRUE \in BOOLEAN
  OBVIOUS
<1>2. PICK j \in Jobs : job' = [job EXCEPT ![w] = j] /\ j.op = "get"
  BY <1>1, Results DEF At
<1> QED BY <1>2, RefreshKept

LEMMA RefreshListed ==
    ASSUME StorageInv, RefreshInv, UNCHANGED <<kind, files>>,
           NEW w \in Workers, Listing(w), NEW seen, NEW skip, NEW end, ListBucket(w, seen, skip, end)
    PROVE  RefreshInv'
<1> DEFINE stop == end \/ Last(job[w].at)
           next == CASE ~stop            -> After(job[w].at)
                     [] stop /\ kind = "http" -> "answer"
                     [] stop /\ kind # "http" -> "done"
           j == [job[w] EXCEPT !.listed = @ \cup seen, !.skipped = @ \/ skip, !.ok = TRUE, !.at = next]
<1>1. job' = [job EXCEPT ![w] = j]
  BY DEF ListBucket
<1> HIDE DEF next
<1>2. j.op = "list"
  BY DEF Jobs, Listing, StorageInv, StorageTypeOK
<1> HIDE DEF j
<1> QED BY <1>1, <1>2, RefreshKept

LEMMA RefreshInvInit == Init => RefreshInv
<1> SUFFICES ASSUME Init, NEW w \in Workers PROVE Refreshed(job[w])
  BY DEF RefreshInv
<1>1. job[w].op = "none"
  BY DEF Init, None, Job
<1> QED BY <1>1 DEF Refreshed

LEMMA RefreshStep ==
    ASSUME StorageInv, RefreshInv, [Next]_vars
    PROVE  RefreshInv'
<1> USE DEF count
<1>1. ASSUME UNCHANGED <<kind, files, job>> PROVE RefreshInv'
  BY <1>1 DEF RefreshInv, Refreshed
<1>2. ASSUME NEW w \in Workers, Call(w) PROVE RefreshInv'
  <2>1. UNCHANGED <<kind, files>>
    BY <1>2 DEF Call
  <2>2. CASE \E op \in {"put", "get", "delete"}, n \in Names, v \in {version + 1, 0} :
               job' = [job EXCEPT ![w] = [Job(op, n, First("begin")) EXCEPT !.v = v]]
    <3>1. PICK op \in {"put", "get", "delete"}, n \in Names, v \in {version + 1, 0} :
               job' = [job EXCEPT ![w] = [Job(op, n, First("begin")) EXCEPT !.v = v]]
      BY <2>2
    <3>2. [Job(op, n, First("begin")) EXCEPT !.v = v].at # "done"
      BY DEF Job, First
    <3> QED BY <2>1, <3>1, <3>2, RefreshKept
  <2>3. CASE \E d \in {"locks", "states"} :
               job' = [job EXCEPT ![w] = [Job("list", "", First(Buckets[1])) EXCEPT !.dir = d]]
    <3>1. PICK d \in {"locks", "states"} :
               job' = [job EXCEPT ![w] = [Job("list", "", First(Buckets[1])) EXCEPT !.dir = d]]
      BY <2>3
    <3>2. [Job("list", "", First(Buckets[1])) EXCEPT !.dir = d].op # "put"
      BY DEF Job
    <3> QED BY <2>1, <3>1, <3>2, RefreshKept
  <2> QED BY <1>2, <2>2, <2>3 DEF Call
<1>3. ASSUME NEW w \in Workers, CallCreate(w) PROVE RefreshInv'
  <2>1. Job("create", "", "begin").op # "put"
    BY DEF Job
  <2> QED BY <1>3, <2>1, RefreshKept DEF CallCreate
<1>4. ASSUME NEW w \in Workers, Return(w) \/ Crash(w) PROVE RefreshInv'
  <2>1. None.op # "put"
    BY DEF None, Job
  <2> QED BY <1>4, <2>1, RefreshKept DEF Return, Crash
<1>5. ASSUME NEW w \in Workers, Fail(w) PROVE RefreshInv'
  BY <1>5, RefreshReplied DEF Fail
<1>6. ASSUME NEW w \in Workers, CreateTemp(w) \/ Copy(w) PROVE RefreshInv'
  <2>1. {"copy", "rename"} \subseteq Places
    BY DEF Places
  <2>2. UNCHANGED <<kind, files>>
    BY <1>6 DEF CreateTemp, Copy
  <2>3. Go(w, "copy") \/ Go(w, "rename") \/ End(w, FALSE)
    BY <1>6 DEF CreateTemp, Copy
  <2> QED BY <2>1, <2>2, <2>3, RefreshGoes, RefreshReplied
<1>7. ASSUME NEW w \in Workers, Rename(w) PROVE RefreshInv'
  <2>1. UNCHANGED kind /\ At(w, "put", "rename")
    BY <1>7 DEF Rename
  <2>2. CASE End(w, FALSE) /\ UNCHANGED files
    BY <2>1, <2>2, RefreshReplied
  <2>3. CASE files' = [files EXCEPT ![job[w].name] = temps[Temp(w)]] /\ End(w, TRUE)
    <3> DEFINE c == temps[Temp(w)]
    <3>1. c \in Contents /\ c.v = job[w].v
      BY <2>1 DEF StorageInv, StorageTypeOK, TempsOwned, At
    <3>4. files' = [files EXCEPT ![job[w].name] = c]
      BY <2>3
    <3>2. TRUE \in BOOLEAN
      OBVIOUS
    <3>3. PICK j \in Jobs : /\ job' = [job EXCEPT ![w] = j]
                            /\ j.op = job[w].op /\ j.name = job[w].name /\ j.v = job[w].v
      BY <2>3, <3>2, Results
    <3>5. UNCHANGED kind /\ job[w].op = "put" /\ j.op = "put" /\ j.name = job[w].name /\ c.v = j.v
      BY <2>1, <3>1, <3>3 DEF At
    <3> HIDE DEF c
    <3> QED BY <1>7, <3>1, <3>3, <3>4, <3>5, RefreshWritten
  <2> QED BY <1>7, <2>2, <2>3 DEF Rename
<1>8. ASSUME NEW w \in Workers, NEW ok \in BOOLEAN, At(w, "put", "begin"), UNCHANGED kind,
             Store(w), Reply(w, ok)
      PROVE  RefreshInv'
  <2>1. PICK j \in Jobs : /\ job' = [job EXCEPT ![w] = j]
                          /\ j.op = job[w].op /\ j.name = job[w].name /\ j.v = job[w].v
    BY <1>8, Results
  <2> DEFINE c == [v |-> job[w].v, whole |-> TRUE]
  <2>2. c \in Contents /\ c.v = j.v
    BY <2>1 DEF Contents, StorageInv, StorageTypeOK, Jobs
  <2>3. files' = [files EXCEPT ![job[w].name] = c]
    BY <1>8 DEF Store
  <2> HIDE DEF c
  <2> QED BY <1>8, <2>1, <2>2, <2>3, RefreshWritten DEF At
<1>9. ASSUME NEW w \in Workers, NEW ok \in BOOLEAN, At(w, "delete", "begin"), UNCHANGED kind,
             Remove(job[w].name), Reply(w, ok) \/ End(w, ok)
      PROVE  RefreshInv'
  <2>1. PICK j \in Jobs : job' = [job EXCEPT ![w] = j] /\ j.op = job[w].op
    BY <1>9, Results
  <2>2. job[w].name \in Names
    BY <1>9 DEF StorageInv, Placed, FileOps, At
  <2> QED BY <1>9, <2>1, <2>2, RefreshRemoved DEF At
<1>10. ASSUME NEW w \in Workers, DiskFiles(w) \/ S3(w) PROVE RefreshInv'
  <2>1. UNCHANGED kind
    BY <1>10 DEF DiskFiles, S3
  <2>2. \/ At(w, "get", "begin") /\ Got(w) /\ UNCHANGED files
        \/ At(w, "put", "begin") /\ Store(w) /\ \E ok \in BOOLEAN : Reply(w, ok)
        \/ At(w, "delete", "begin") /\ Remove(job[w].name) /\ \E ok \in BOOLEAN : Reply(w, ok) \/ End(w, ok)
        \/ Listing(w) /\ UNCHANGED files /\ \E seen, skip, end : ListBucket(w, seen, skip, end)
    BY <1>10 DEF DiskFiles, S3
  <2> QED BY <1>8, <1>9, <2>1, <2>2, RefreshGot, RefreshListed
<1>11. ASSUME NEW w \in Workers, FsList(w) \/ SftpList(w) \/ SftpGetLocks(w) PROVE RefreshInv'
  <2>1. UNCHANGED <<kind, files>> /\ Listing(w)
    BY <1>11 DEF FsList, SftpList, SftpGetLocks
  <2>2. \/ \E seen, skip, end : ListBucket(w, seen, skip, end)
        \/ Reply(w, FALSE) \/ End(w, FALSE)
    BY <1>11 DEF FsList, SftpList, SftpGetLocks
  <2> QED BY <2>1, <2>2, RefreshListed, RefreshReplied
<1>12. ASSUME kind \notin {"fs", "sftp", "s3"}, UNCHANGED kind PROVE RefreshInv'
  BY <1>12 DEF RefreshInv
<1>13. ASSUME NEW w \in Workers, Database(w) \/ Null(w) \/ Handle(w) \/ Answer(w) PROVE RefreshInv'
  BY <1>12, <1>13 DEF Database, Local, Null, Handle, Answer
<1>14. ASSUME NEW w \in Workers, Creation(w) PROVE RefreshInv'
  <2>1. /\ job[w].op # "put" /\ UNCHANGED <<kind, files>>
        /\ \/ \E ok \in BOOLEAN : Reply(w, ok)
           \/ \E at \in {"dirs", "locks", "config"} : Go(w, at)
    BY <1>14 DEF Creation, CheckEmpty, MakeBuckets, MakeLocks, WriteConfig, CreateDatabase, At
  <2>2. {"dirs", "locks", "config"} \subseteq Places
    BY DEF Places
  <2> QED BY <2>1, <2>2, RefreshReplied, RefreshGoes
<1>15. ASSUME Server PROVE RefreshInv'
  BY <1>1, <1>15 DEF Server
<1> QED BY <1>1, <1>2, <1>3, <1>4, <1>5, <1>6, <1>7, <1>10, <1>11, <1>13, <1>14, <1>15
        DEF Next, Backend, vars

-----------------------------------------------------------------------------
\* Listings.  The names that have been there all the time are there still, and
\* those of the buckets that were read have been listed, unless a failure was
\* passed over.
StillThere(j, s) == j.op = "list" => \A n \in s : Dir[n] = j.dir /\ files[n] # Absent

Passed(j) == kind = "null" \/ (j.skipped /\ kind \in {"sftp", "s3", "database"})

Heard(j, s) ==
    j.op = "list" /\ ~Passed(j) =>
        /\ \A i \in DOMAIN Buckets : j.at = Buckets[i] =>
               \A n \in s : Bucket[n] < i => n \in j.listed
        /\ j.at \in {"answer", "done"} /\ j.ok => s \subseteq j.listed

ListInv == /\ stable \in [Workers -> SUBSET Names]
           /\ \A w \in Workers : StillThere(job[w], stable[w]) /\ Heard(job[w], stable[w])

LEMMA FirstAndLast == /\ 1 \in DOMAIN Buckets /\ Len(Buckets) \in DOMAIN Buckets
                     /\ DOMAIN Buckets \subseteq Nat
BY StorageAssumption

\* A step of one call, that takes a name which disappears out of all that is
\* expected of the others.
LEMMA ListFrame ==
    ASSUME StorageInv, ListInv, UNCHANGED kind,
           NEW w \in Workers, NEW j, job' = [job EXCEPT ![w] = j],
           stable' \in [Workers -> SUBSET Names],
           \A x \in Workers : x # w => stable'[x] \subseteq stable[x],
           \A n \in Names : files[n] # Absent /\ files'[n] = Absent => \A x \in Workers : n \notin stable'[x],
           j.op = "list" => /\ \A n \in stable'[w] : Dir[n] = j.dir /\ files[n] # Absent
                            /\ Heard(j, stable'[w])
    PROVE  ListInv'
<1> SUFFICES ASSUME NEW x \in Workers
             PROVE  StillThere(job[x], stable[x])' /\ Heard(job[x], stable[x])'
  BY DEF ListInv
<1>1. job'[x] = IF x = w THEN j ELSE job[x]
  BY DEF StorageInv, StorageTypeOK
<1>2. stable'[x] \subseteq Names
  OBVIOUS
<1>3. CASE x = w
  <2>1. StillThere(job[x], stable[x])'
    BY <1>1, <1>2, <1>3 DEF StillThere
  <2>2. Heard(job[x], stable[x])'
    BY <1>1, <1>3 DEF Heard, Passed
  <2> QED BY <2>1, <2>2
<1>4. CASE x # w
  <2>1. stable'[x] \subseteq stable[x] /\ StillThere(job[x], stable[x]) /\ Heard(job[x], stable[x])
    BY <1>4 DEF ListInv
  <2>2. StillThere(job[x], stable[x])'
    BY <1>1, <1>2, <1>4, <2>1 DEF StillThere
  <2>3. Heard(job[x], stable[x])'
    BY <1>1, <1>4, <2>1 DEF Heard, Passed
  <2> QED BY <2>2, <2>3
<1> QED BY <1>3, <1>4

\* A step of a call that lists, and one of a call that does not.
LEMMA ListGoesOn ==
    ASSUME StorageInv, ListInv, UNCHANGED <<kind, files, stable>>,
           NEW w \in Workers, NEW j, job' = [job EXCEPT ![w] = j],
           j.op = "list" => job[w].op = "list" /\ j.dir = job[w].dir /\ Heard(j, stable[w])
    PROVE  ListInv'
<1>1. \A n \in stable[w] : j.op = "list" => Dir[n] = j.dir /\ files[n] # Absent
  BY DEF ListInv, StillThere
<1> QED BY <1>1, ListFrame DEF ListInv

LEMMA ListKept ==
    ASSUME StorageInv, ListInv, UNCHANGED <<kind, stable>>,
           NEW w \in Workers, NEW j, job' = [job EXCEPT ![w] = j], j.op # "list",
           \A n \in Names : files'[n] = files[n] \/ files'[n] # Absent
    PROVE  ListInv'
BY ListFrame DEF ListInv

LEMMA ListRemoved ==
    ASSUME StorageInv, ListInv, UNCHANGED kind,
           NEW w \in Workers, NEW j, job' = [job EXCEPT ![w] = j], j.op # "list",
           NEW n \in Names, Remove(n)
    PROVE  ListInv'
<1>1. \A m \in Names : files'[m] = IF m = n THEN Absent ELSE files[m]
  BY DEF Remove, StorageInv, StorageTypeOK
<1>2. \A x \in Workers : stable'[x] = stable[x] \ {n}
  BY DEF Remove
<1>3. stable' \in [Workers -> SUBSET Names]
  BY DEF Remove, ListInv
<1> QED BY <1>1, <1>2, <1>3, ListFrame

\* A call that ends expects nothing.
LEMMA ListEnds ==
    ASSUME StorageInv, ListInv, UNCHANGED <<kind, files>>,
           NEW w \in Workers, job' = [job EXCEPT ![w] = None], stable' = [stable EXCEPT ![w] = {}]
    PROVE  ListInv'
<1>1. \A x \in Workers : x # w => stable'[x] = stable[x]
  BY DEF ListInv
<1>2. stable' \in [Workers -> SUBSET Names] /\ stable'[w] = {}
  BY DEF ListInv
<1>3. None.op # "list"
  BY DEF None, Job
<1> QED BY <1>1, <1>2, <1>3, ListFrame

\* A listing that fails, and any other call that ends or goes on.
LEMMA ListReplied ==
    ASSUME StorageInv, ListInv, UNCHANGED <<kind, files, stable>>,
           NEW w \in Workers, NEW ok \in BOOLEAN, Reply(w, ok) \/ End(w, ok),
           job[w].op # "list" \/ ~ok \/ kind = "null"
    PROVE  ListInv'
<1> DEFINE a == IF End(w, ok) /\ kind = "http" THEN "answer" ELSE "done"
           j == [job[w] EXCEPT !.at = a, !.ok = ok]
<1>1. job' = [job EXCEPT ![w] = j]
  BY DEF Reply, End
<1>2. a \in {"answer", "done"}
  OBVIOUS
<1> HIDE DEF a
<1>3. j.op = job[w].op /\ j.dir = job[w].dir /\ j.at = a /\ j.ok = ok
  BY DEF StorageInv, StorageTypeOK, Jobs
<1> HIDE DEF j
<1>4. j.op = "list" => Heard(j, stable[w])
  BY <1>2, <1>3, BucketsAssumption DEF Heard, Passed
<1> QED BY <1>1, <1>3, <1>4, ListGoesOn

LEMMA ListGoes ==
    ASSUME StorageInv, ListInv, UNCHANGED <<kind, files, stable>>,
           NEW w \in Workers, NEW at \in Places, Go(w, at),
           \/ job[w].op # "list"
           \/ at = Buckets[1]
           \/ at = "done" /\ job[w].at = "answer"
    PROVE  ListInv'
<1> DEFINE j == [job[w] EXCEPT !.at = at]
<1>1. job' = [job EXCEPT ![w] = j]
  BY DEF Go
<1>2. /\ j.op = job[w].op /\ j.dir = job[w].dir /\ j.at = at /\ j.ok = job[w].ok
      /\ j.listed = job[w].listed /\ j.skipped = job[w].skipped
  BY DEF StorageInv, StorageTypeOK, Jobs
<1> HIDE DEF j
<1>3. CASE job[w].op # "list"
  BY <1>1, <1>2, <1>3, ListGoesOn
<1>4. CASE at = Buckets[1]
  <2>1. \A i \in DOMAIN Buckets : at = Buckets[i] => i = 1
    BY <1>4, FirstAndLast, BucketsAssumption
  <2>2. \A n \in stable[w] : Bucket[n] \in Nat /\ Bucket[n] >= 1
    BY StorageAssumption DEF ListInv
  <2>3. at \notin {"answer", "done"}
    BY <1>4, FirstAndLast, BucketsAssumption
  <2>4. Heard(j, stable[w])
    BY <1>2, <2>1, <2>2, <2>3 DEF Heard
  <2> QED BY <1>1, <1>2, <2>4, ListGoesOn
<1>5. CASE at = "done" /\ job[w].at = "answer"
  <2>1. Heard(job[w], stable[w])
    BY DEF ListInv
  <2>2. Heard(j, stable[w])
    BY <1>2, <1>5, <2>1, BucketsAssumption DEF Heard, Passed
  <2> QED BY <1>1, <1>2, <2>2, ListGoesOn
<1> QED BY <1>3, <1>4, <1>5

LEMMA ListGot ==
    ASSUME StorageInv, ListInv, UNCHANGED <<kind, files, stable>>,
           NEW w \in Workers, At(w, "get", "begin"), Got(w)
    PROVE  ListInv'
<1>1. TRUE \in BOOLEAN
  OBVIOUS
<1>2. PICK j \in Jobs : job' = [job EXCEPT ![w] = j] /\ j.op = "get"
  BY <1>1, Results DEF At
<1> QED BY <1>2, ListKept

\* A bucket is read, whole unless that is noted.
LEMMA ListRead ==
    ASSUME StorageInv, ListInv, UNCHANGED <<kind, files, stable>>,
           NEW w \in Workers, Listing(w),
           NEW seen \in SUBSET Names, NEW skip \in BOOLEAN, NEW end \in BOOLEAN,
           ListBucket(w, seen, skip, end),
           \/ skip /\ kind \in {"sftp", "s3", "database"}
           \/ There(w) \subseteq seen
           \/ Here(w) \subseteq seen /\ ~end
    PROVE  ListInv'
<1>1. PICK i \in DOMAIN Buckets : job[w].at = Buckets[i]
  BY DEF Listing
<1> DEFINE stop == end \/ Last(job[w].at)
           next == CASE ~stop            -> After(job[w].at)
                     [] stop /\ kind = "http" -> "answer"
                     [] stop /\ kind # "http" -> "done"
           all == job[w].listed \cup seen
           skipped == job[w].skipped \/ skip
           j == [job[w] EXCEPT !.listed = all, !.skipped = skipped, !.ok = TRUE, !.at = next]
<1>2. job' = [job EXCEPT ![w] = j]
  BY DEF ListBucket
<1>3. /\ ~stop => /\ i + 1 \in DOMAIN Buckets /\ next = Buckets[i + 1]
                  /\ next \notin {"answer", "done"}
      /\ stop => next \in {"answer", "done"}
  <2>1. CASE ~stop
    <3>1. next = After(Buckets[i])
      BY <1>1, <2>1
    <3>2. After(Buckets[i]) = Buckets[1 + i]
      <4> DEFINE k == CHOOSE m \in DOMAIN Buckets : Buckets[m] = Buckets[i]
      <4>1. k \in DOMAIN Buckets /\ Buckets[k] = Buckets[i]
        OBVIOUS
      <4>2. k = i
        BY <4>1, BucketsAssumption
      <4> QED BY <4>2 DEF After
    <3>3. i # Len(Buckets)
      BY <1>1, <2>1 DEF Last
    <3>4. i + 1 \in DOMAIN Buckets /\ 1 + i = i + 1
      BY <3>3, StorageAssumption
    <3> QED BY <2>1, <3>1, <3>2, <3>4, BucketsAssumption
  <2>2. CASE stop
    BY <2>2
  <2> QED BY <2>1, <2>2
<1> HIDE DEF next
<1>4. /\ j.op = "list" /\ job[w].op = "list" /\ j.dir = job[w].dir /\ j.at = next /\ j.ok = TRUE
      /\ j.listed = all /\ j.skipped = skipped
  BY DEF Jobs, Listing, StorageInv, StorageTypeOK
<1> HIDE DEF j
<1>5. There(w) \subseteq Names /\ stable[w] \subseteq There(w)
  BY <1>4 DEF There, ListInv, StillThere
<1>6. Heard(j, stable[w])
  <2> SUFFICES ASSUME ~Passed(j)
               PROVE  /\ \A k \in DOMAIN Buckets : next = Buckets[k] =>
                             \A n \in stable[w] : Bucket[n] < k => n \in all
                      /\ next \in {"answer", "done"} => stable[w] \subseteq all
    BY <1>4 DEF Heard
  <2>1. ~Passed(job[w]) /\ (There(w) \subseteq seen \/ (Here(w) \subseteq seen /\ ~end))
    BY <1>4 DEF Passed
  <2>2. \A n \in stable[w] : Bucket[n] < i => n \in job[w].listed
    BY <1>1, <1>4, <2>1 DEF ListInv, Heard
  <2>3. \A n \in stable[w] : Bucket[n] = i => n \in all
    BY <1>1, <1>5, <2>1 DEF Here
  <2>4. \A n \in stable[w] : Bucket[n] \in DOMAIN Buckets
    BY <1>5, StorageAssumption
  <2>5. CASE ~stop
    <3>1. \A k \in DOMAIN Buckets : next = Buckets[k] => k = i + 1
      BY <1>3, <2>5, BucketsAssumption
    <3>2. \A n \in stable[w] : Bucket[n] < i + 1 => Bucket[n] < i \/ Bucket[n] = i
      BY <2>4, StorageAssumption
    <3>3. \A n \in stable[w] : Bucket[n] < i + 1 => n \in all
      BY <2>2, <2>3, <3>2
    <3> QED BY <1>3, <2>5, <3>1, <3>3
  <2>6. CASE stop
    <3>1. stable[w] \subseteq all
      <4>1. CASE There(w) \subseteq seen
        BY <1>5, <4>1
      <4>2. CASE ~end /\ Last(job[w].at)
        <5>1. i = Len(Buckets)
          BY <1>1, <4>2, FirstAndLast, BucketsAssumption DEF Last
        <5>2. \A n \in stable[w] : Bucket[n] < i \/ Bucket[n] = i
          BY <2>4, <5>1, StorageAssumption
        <5> QED BY <2>2, <2>3, <5>2
      <4> QED BY <2>1, <2>6, <4>1, <4>2
    <3>2. \A k \in DOMAIN Buckets : next # Buckets[k]
      BY <1>3, <2>6, BucketsAssumption
    <3> QED BY <3>1, <3>2
  <2> QED BY <2>5, <2>6
<1> QED BY <1>2, <1>4, <1>6, ListGoesOn

LEMMA ListInvInit == Init => ListInv
<1> SUFFICES ASSUME Init PROVE ListInv
  OBVIOUS
<1>1. \A w \in Workers : job[w].op = "none" /\ stable[w] = {}
  BY DEF Init, None, Job
<1>2. stable \in [Workers -> SUBSET Names]
  BY DEF Init
<1> QED BY <1>1, <1>2 DEF ListInv, StillThere, Heard

LEMMA ListStep ==
    ASSUME StorageInv, ListInv, [Next]_vars
    PROVE  ListInv'
<1> USE DEF count
<1>1. ASSUME UNCHANGED <<kind, files, job, stable>> PROVE ListInv'
  BY <1>1 DEF ListInv, StillThere, Heard, Passed
<1>2. ASSUME NEW w \in Workers, Call(w) PROVE ListInv'
  <2>1. UNCHANGED <<kind, files>>
    BY <1>2 DEF Call
  <2>2. CASE /\ UNCHANGED stable
             /\ \E op \in {"put", "get", "delete"}, n \in Names, v \in {version + 1, 0} :
                  job' = [job EXCEPT ![w] = [Job(op, n, First("begin")) EXCEPT !.v = v]]
    <3>1. PICK op \in {"put", "get", "delete"}, n \in Names, v \in {version + 1, 0} :
               job' = [job EXCEPT ![w] = [Job(op, n, First("begin")) EXCEPT !.v = v]]
      BY <2>2
    <3>2. [Job(op, n, First("begin")) EXCEPT !.v = v].op # "list"
      BY DEF Job
    <3> QED BY <2>1, <2>2, <3>1, <3>2, ListKept
  <2>3. CASE \E d \in {"locks", "states"} :
               /\ job' = [job EXCEPT ![w] = [Job("list", "", First(Buckets[1])) EXCEPT !.dir = d]]
               /\ stable' = [stable EXCEPT ![w] = {n \in Names : Dir[n] = d /\ files[n] # Absent}]
    <3>1. PICK d \in {"locks", "states"} :
               /\ job' = [job EXCEPT ![w] = [Job("list", "", First(Buckets[1])) EXCEPT !.dir = d]]
               /\ stable' = [stable EXCEPT ![w] = {n \in Names : Dir[n] = d /\ files[n] # Absent}]
      BY <2>3
    <3> DEFINE b == First(Buckets[1])
               j == [Job("list", "", b) EXCEPT !.dir = d]
    <3>2. job' = [job EXCEPT ![w] = j]
      BY <3>1
    <3>3. /\ \A i \in DOMAIN Buckets : b = Buckets[i] => i = 1
          /\ b \notin {"answer", "done"}
      BY FirstAndLast, BucketsAssumption DEF First
    <3>4. stable' \in [Workers -> SUBSET Names] /\ \A x \in Workers : x # w => stable'[x] = stable[x]
      BY <3>1 DEF ListInv
    <3>5. stable'[w] = {n \in Names : Dir[n] = d /\ files[n] # Absent}
      BY <3>1 DEF ListInv
    <3> HIDE DEF b
    <3>6. j.op = "list" /\ j.dir = d /\ j.at = b
      BY DEF Job
    <3> HIDE DEF j
    <3>7. \A n \in stable'[w] : Bucket[n] \in Nat /\ Bucket[n] >= 1
      BY <3>5, StorageAssumption
    <3>8. Heard(j, stable'[w])
      BY <3>3, <3>6, <3>7 DEF Heard
    <3> QED BY <2>1, <3>2, <3>4, <3>5, <3>6, <3>8, ListFrame
  <2> QED BY <1>2, <2>2, <2>3 DEF Call
<1>3. ASSUME NEW w \in Workers, CallCreate(w) PROVE ListInv'
  <2>1. Job("create", "", "begin").op # "list"
    BY DEF Job
  <2> QED BY <1>3, <2>1, ListKept DEF CallCreate
<1>4. ASSUME NEW w \in Workers, Return(w) \/ Crash(w) PROVE ListInv'
  BY <1>4, ListEnds DEF Return, Crash
<1>5. ASSUME NEW w \in Workers, Fail(w) PROVE ListInv'
  BY <1>5, ListReplied DEF Fail
<1>6. ASSUME NEW w \in Workers, CreateTemp(w) \/ Copy(w) PROVE ListInv'
  <2>1. {"copy", "rename"} \subseteq Places
    BY DEF Places
  <2>2. UNCHANGED <<kind, files, stable>> /\ job[w].op = "put"
    BY <1>6 DEF CreateTemp, Copy, At
  <2>3. Go(w, "copy") \/ Go(w, "rename") \/ End(w, FALSE)
    BY <1>6 DEF CreateTemp, Copy
  <2> QED BY <2>1, <2>2, <2>3, ListGoes, ListReplied
<1>7. ASSUME NEW w \in Workers, NEW ok \in BOOLEAN, job[w].op = "put", UNCHANGED <<kind, stable>>,
             Reply(w, ok) \/ End(w, ok),
             NEW c, c.v # 0, files' = [files EXCEPT ![job[w].name] = c]
      PROVE  ListInv'
  <2>1. PICK j \in Jobs : job' = [job EXCEPT ![w] = j] /\ j.op = job[w].op
    BY <1>7, Results
  <2>2. \A n \in Names : files'[n] = files[n] \/ files'[n] = c
    BY <1>7 DEF StorageInv, StorageTypeOK
  <2>3. c # Absent
    BY <1>7 DEF Absent
  <2> QED BY <1>7, <2>1, <2>2, <2>3, ListKept
<1>8. ASSUME NEW w \in Workers, Rename(w) PROVE ListInv'
  <2>1. UNCHANGED <<kind, stable>> /\ job[w].op = "put" /\ job[w].at = "rename"
    BY <1>8 DEF Rename, At
  <2>2. CASE End(w, FALSE) /\ UNCHANGED files
    BY <2>1, <2>2, ListReplied
  <2>3. CASE files' = [files EXCEPT ![job[w].name] = temps[Temp(w)]] /\ End(w, TRUE)
    <3> DEFINE c == temps[Temp(w)]
    <3>1. c.v # 0
      BY <2>1 DEF StorageInv, TempsOwned, Placed, FileOps
    <3>2. files' = [files EXCEPT ![job[w].name] = c] /\ TRUE \in BOOLEAN
      BY <2>3
    <3> HIDE DEF c
    <3> QED BY <1>7, <2>1, <2>3, <3>1, <3>2
  <2> QED BY <1>8, <2>2, <2>3 DEF Rename
<1>9. ASSUME NEW w \in Workers, NEW ok \in BOOLEAN, job[w].op = "put", UNCHANGED <<kind, stable>>,
             Store(w), Reply(w, ok)
      PROVE  ListInv'
  <2> DEFINE c == [v |-> job[w].v, whole |-> TRUE]
  <2>1. c.v # 0
    BY <1>9 DEF StorageInv, Placed, FileOps
  <2>2. files' = [files EXCEPT ![job[w].name] = c]
    BY <1>9 DEF Store
  <2> HIDE DEF c
  <2> QED BY <1>7, <1>9, <2>1, <2>2
<1>10. ASSUME NEW w \in Workers, NEW ok \in BOOLEAN, job[w].op = "delete", UNCHANGED kind,
              Remove(job[w].name), Reply(w, ok) \/ End(w, ok)
       PROVE  ListInv'
  <2>1. PICK j \in Jobs : job' = [job EXCEPT ![w] = j] /\ j.op = job[w].op
    BY <1>10, Results
  <2>2. job[w].name \in Names
    BY <1>10 DEF StorageInv, Placed, FileOps
  <2> QED BY <1>10, <2>1, <2>2, ListRemoved
<1>11. ASSUME NEW w \in Workers, DiskFiles(w) PROVE ListInv'
  <2>1. UNCHANGED kind
    BY <1>11 DEF DiskFiles
  <2>2. CASE At(w, "get", "begin") /\ Got(w) /\ UNCHANGED <<files, stable>>
    BY <2>1, <2>2, ListGot
  <2>3. CASE At(w, "delete", "begin") /\ End(w, files[job[w].name] # Absent) /\ Remove(job[w].name)
    <3>1. PICK ok \in BOOLEAN : End(w, ok)
      BY <2>3
    <3> QED BY <1>10, <2>1, <2>3, <3>1 DEF At
  <2> QED BY <1>11, <2>2, <2>3 DEF DiskFiles
<1>12. \A w \in Workers : There(w) \in SUBSET Names /\ Here(w) \in SUBSET Names
  BY DEF There, Here
<1>13. ASSUME NEW w \in Workers, FsList(w) PROVE ListInv'
  <2>1. UNCHANGED <<kind, files, stable>> /\ Listing(w)
    BY <1>13 DEF FsList
  <2> DEFINE locks == job[w].dir = "locks"
  <2>2. CASE ListBucket(w, IF locks THEN There(w) ELSE Here(w), FALSE, locks)
    <3>1. CASE locks
      BY <1>12, <2>1, <2>2, <3>1, ListRead
    <3>2. CASE ~locks
      BY <1>12, <2>1, <2>2, <3>2, ListRead
    <3> QED BY <3>1, <3>2
  <2>3. CASE End(w, FALSE)
    BY <2>1, <2>3, ListReplied
  <2> QED BY <1>13, <2>2, <2>3 DEF FsList
<1>14. ASSUME NEW w \in Workers, SftpList(w) \/ SftpGetLocks(w) PROVE ListInv'
  <2>1. UNCHANGED <<kind, files, stable>> /\ Listing(w) /\ Local = "sftp"
    BY <1>14 DEF SftpList, SftpGetLocks
  <2>2. kind = "sftp" /\ {} \in SUBSET Names
    BY <2>1 DEF Local
  <2>3. \/ ListBucket(w, Here(w), FALSE, FALSE) \/ ListBucket(w, {}, TRUE, FALSE)
        \/ ListBucket(w, There(w), FALSE, TRUE) \/ Reply(w, FALSE)
    BY <1>14 DEF SftpList, SftpGetLocks
  <2>4. CASE ListBucket(w, Here(w), FALSE, FALSE)
    BY <1>12, <2>1, <2>4, ListRead
  <2>5. CASE ListBucket(w, {}, TRUE, FALSE)
    BY <2>1, <2>2, <2>5, ListRead
  <2>6. CASE ListBucket(w, There(w), FALSE, TRUE)
    BY <1>12, <2>1, <2>6, ListRead
  <2> QED BY <2>1, <2>3, <2>4, <2>5, <2>6, ListReplied
<1>15. ASSUME NEW w \in Workers, S3(w) PROVE ListInv'
  <2>1. UNCHANGED kind /\ kind = "s3" /\ {} \in SUBSET Names
    BY <1>15 DEF S3, Local
  <2>2. CASE At(w, "get", "begin") /\ Got(w) /\ UNCHANGED <<files, stable>>
    BY <2>1, <2>2, ListGot
  <2>3. CASE /\ \/ At(w, "put", "begin") /\ Store(w) /\ UNCHANGED stable
                \/ At(w, "delete", "begin") /\ Remove(job[w].name)
             /\ Reply(w, TRUE) \/ Reply(w, FALSE)
    BY <1>9, <1>10, <2>1, <2>3 DEF At
  <2>4. CASE /\ Listing(w) /\ UNCHANGED <<files, stable>>
             /\ ListBucket(w, IF job[w].dir = "locks" THEN There(w) ELSE Here(w), FALSE, job[w].dir = "locks")
    <3>1. CASE job[w].dir = "locks"
      BY <1>12, <2>1, <2>4, <3>1, ListRead
    <3>2. CASE job[w].dir # "locks"
      BY <1>12, <2>1, <2>4, <3>2, ListRead
    <3> QED BY <3>1, <3>2
  <2>5. CASE Listing(w) /\ UNCHANGED <<files, stable>> /\ ListBucket(w, {}, TRUE, TRUE)
    BY <2>1, <2>5, ListRead
  <2> QED BY <1>15, <2>2, <2>3, <2>4, <2>5 DEF S3
<1>16. ASSUME NEW w \in Workers, Database(w) PROVE ListInv'
  <2>1. UNCHANGED kind /\ kind = "database"
    BY <1>16 DEF Database, Local
  <2>2. CASE At(w, "get", "begin") /\ Got(w) /\ UNCHANGED <<files, stable>>
    BY <2>1, <2>2, ListGot
  <2>3. CASE At(w, "put", "begin") /\ Store(w) /\ Reply(w, TRUE) /\ UNCHANGED stable
    BY <1>9, <2>1, <2>3 DEF At
  <2>4. CASE /\ At(w, "put", "begin") /\ UNCHANGED <<files, stable>>
             /\ \E ignored \in BOOLEAN : Reply(w, ignored)
    BY <2>1, <2>4, ListReplied DEF At
  <2>5. CASE At(w, "delete", "begin") /\ Remove(job[w].name) /\ Reply(w, TRUE)
    BY <1>10, <2>1, <2>5 DEF At
  <2>6. CASE DatabaseList(w) /\ UNCHANGED <<files, stable>>
    <3>1. Listing(w)
      BY <2>6 DEF DatabaseList
    <3>2. CASE ListBucket(w, There(w), FALSE, TRUE)
      BY <1>12, <2>1, <2>6, <3>1, <3>2, ListRead
    <3>3. CASE \E part \in SUBSET There(w) : ListBucket(w, part, TRUE, TRUE)
      <4>1. PICK part \in SUBSET There(w) : ListBucket(w, part, TRUE, TRUE)
        BY <3>3
      <4>2. part \in SUBSET Names
        BY <1>12
      <4> QED BY <2>1, <2>6, <3>1, <4>1, <4>2, ListRead
    <3> QED BY <2>6, <3>2, <3>3 DEF DatabaseList
  <2> QED BY <1>16, <2>2, <2>3, <2>4, <2>5, <2>6 DEF Database
<1>17. ASSUME NEW w \in Workers, Null(w) PROVE ListInv'
  <2>1. kind = "null" /\ Reply(w, TRUE) /\ UNCHANGED <<kind, files, stable>>
    BY <1>17 DEF Null
  <2> QED BY <2>1, ListReplied
<1>18. ASSUME NEW w \in Workers, Handle(w) PROVE ListInv'
  <2>1. "begin" \in Places /\ UNCHANGED <<kind, files, stable>>
    BY <1>18 DEF Places, Handle
  <2>2. \/ Reply(w, FALSE) \/ (job[w].op # "list" /\ Go(w, "begin"))
        \/ Go(w, Buckets[1])
    BY <1>18 DEF Handle
  <2> QED BY <2>1, <2>2, BucketPlaces, ListGoes, ListReplied
<1>19. ASSUME NEW w \in Workers, Answer(w) PROVE ListInv'
  <2>1. "done" \in Places
    BY DEF Places
  <2> QED BY <1>19, <2>1, ListGoes DEF Answer
<1>20. ASSUME NEW w \in Workers, Creation(w) PROVE ListInv'
  <2>1. /\ job[w].op # "list" /\ UNCHANGED <<kind, files, stable>>
        /\ \/ \E ok \in BOOLEAN : Reply(w, ok)
           \/ \E at \in {"dirs", "locks", "config"} : Go(w, at)
    BY <1>20 DEF Creation, CheckEmpty, MakeBuckets, MakeLocks, WriteConfig, CreateDatabase, At
  <2>2. {"dirs", "locks", "config"} \subseteq Places
    BY DEF Places
  <2> QED BY <2>1, <2>2, ListReplied, ListGoes
<1>21. ASSUME Server PROVE ListInv'
  BY <1>1, <1>21 DEF Server
<1> QED BY <1>1, <1>2, <1>3, <1>4, <1>5, <1>6, <1>8, <1>11, <1>13, <1>14, <1>15, <1>16, <1>17, <1>18,
           <1>19, <1>20, <1>21
        DEF Next, Backend, vars

-----------------------------------------------------------------------------
\* Whatever fails and whoever dies, no lock, state or packfile is ever read in
\* part: the temporary file has everything before it is renamed, and nobody else
\* writes to it.
THEOREM NothingInPart == Spec => []AllWhole
<1>1. Spec => []StorageInv
  BY StorageInvInit, StorageStep, PTL DEF Spec
<1>2. StorageInv => AllWhole
  BY DEF StorageInv
<1> QED BY <1>1, <1>2, PTL

\* All the stores are what Repository and RepoLock take a store to be: files
\* appear whole, in one step of the call that writes them, and disappear so.
THEOREM StoresAreFileStores == Spec => IsFileStore
<1>1. Spec => []StorageInv
  BY StorageInvInit, StorageStep, PTL DEF Spec
<1> QED BY <1>1, FileStoreInit, FileStoreStep, PTL DEF Spec, IsFileStore, FS!Spec

\* Of all that try to create a store in one directory, one succeeds, and the
\* configuration is its: Mkdir refuses the directory of the locks to the others.
THEOREM StoresCreatedOnce == Spec => []OneCreation
<1>1. Spec => [](StorageInv /\ CreateInv)
  BY StorageInvInit, StorageStep, CreateInvInit, CreateStep, PTL DEF Spec
<1> QED BY <1>1, CreateInvOne, PTL

\* A lock that was written again with success is what is read from then on:
\* where a put replaces the file, nobody else has written the name since, and a
\* lock that is no longer there has been removed.
THEOREM RefreshesAreSeen == Spec => []RefreshIsSeen
<1>1. Spec => [](StorageInv /\ RefreshInv)
  BY StorageInvInit, StorageStep, RefreshInvInit, RefreshStep, PTL DEF Spec
<1>2. StorageInv /\ RefreshInv => RefreshIsSeen
  <2> SUFFICES ASSUME StorageInv, RefreshInv, NEW w \in Workers, At(w, "put", "done"), job[w].ok,
                      kind \notin {"null", "database", "http"}, files[job[w].name] # Absent
               PROVE  files[job[w].name].v >= job[w].v
    BY DEF RefreshIsSeen
  <2>1. kind \in {"fs", "sftp", "s3"}
    BY StorageAssumption DEF StorageInv, StorageTypeOK
  <2>2. files[job[w].name].v = job[w].v
    BY <2>1 DEF RefreshInv, Refreshed, At
  <2>3. job[w].v \in Int
    <3>1. job[w].v \in 0 .. MaxVersion
      BY DEF StorageInv, StorageTypeOK, Jobs
    <3> QED BY <3>1
  <2>4. \A a, b : a = b /\ b \in Int => a >= b
    OBVIOUS
  <2> QED BY ONLY <2>2, <2>3, <2>4
<1> QED BY <1>1, <1>2, PTL

\* A listing that succeeds has every file that was there all the time: each name
\* is in one bucket, and each bucket is read once, before the listing ends.  Only
\* the file system and the server report every failure; elsewhere a listing may
\* have passed over one.
THEOREM ListingsAreComplete == Spec => []ListsAll
<1>1. Spec => [](StorageInv /\ ListInv)
  BY StorageInvInit, StorageStep, ListInvInit, ListStep, PTL DEF Spec
<1>2. ListInv => ListsAll
  BY DEF ListInv, Heard, Passed, ListsAll
<1> QED BY <1>1, <1>2, PTL
=============================================================================
