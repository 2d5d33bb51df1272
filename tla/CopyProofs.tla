----------------------------- MODULE CopyProofs ------------------------------
(***************************************************************************)
(* Of the snapshots that move between repositories and of the commands     *)
(* that read them: five invariants, for every source, every order of the   *)
(* trees and every bound. Three inductive invariants carry them. Shaped    *)
(* says that each index is a tree; Reading, what a restore, a check or an  *)
(* archive has done; Copying, what a sync or a clone has put in place.     *)
(***************************************************************************)
EXTENDS Readers, TreeProofs

-----------------------------------------------------------------------------
\* A concatenation holds what one of its parts holds.
LEMMA FlattenSeqHas ==
    ASSUME NEW V, NEW ss \in Seq(Seq(V)), NEW v
    PROVE  v \in ToSet(FlattenSeq(ss)) <=> \E i \in 1 .. Len(ss) : v \in ToSet(ss[i])
<1> DEFINE flat == FlattenSeq(ss)
<1>1. flat \in Seq(V)
  BY FlattenSeqIs
<1>2. PICK c, x : Places(ss, flat, c, x)
  BY FlattenSeqIs
<1> HIDE DEF flat
<1>3. DOMAIN flat = 1 .. Len(flat) /\ \A i \in 1 .. Len(ss) : DOMAIN ss[i] = 1 .. Len(ss[i])
  BY <1>1
<1>4. ASSUME v \in ToSet(flat) PROVE \E i \in 1 .. Len(ss) : v \in ToSet(ss[i])
  <2>1. PICK p \in 1 .. Len(flat) : flat[p] = v
    BY <1>3, <1>4 DEF ToSet
  <2>2. c[p] \in 1 .. Len(ss) /\ x[p] \in 1 .. Len(ss[c[p]]) /\ v = ss[c[p]][x[p]]
    BY <1>2, <2>1 DEF Places
  <2> QED BY <1>3, <2>2 DEF ToSet
<1>5. ASSUME NEW i \in 1 .. Len(ss), v \in ToSet(ss[i]) PROVE v \in ToSet(flat)
  <2>1. PICK j \in 1 .. Len(ss[i]) : ss[i][j] = v
    BY <1>3, <1>5 DEF ToSet
  <2>2. PICK p \in 1 .. Len(flat) : c[p] = i /\ x[p] = j
    BY <1>2 DEF Places
  <2>3. flat[p] = v
    BY <1>2, <2>1, <2>2 DEF Places
  <2> QED BY <1>3, <2>3 DEF ToSet
<1> QED BY <1>4, <1>5 DEF flat

\* A sequence with one element appended holds it and what it held.
LEMMA AppendedHas ==
    ASSUME NEW V, NEW s \in Seq(V), NEW e \in V
    PROVE  s \o <<e>> \in Seq(V) /\ \A v : v \in ToSet(s \o <<e>>) <=> v \in ToSet(s) \/ v = e
<1> DEFINE u == s \o <<e>>
<1>1. <<e>> \in Seq(V) /\ Len(<<e>>) = 1 /\ <<e>>[1] = e
  OBVIOUS
<1>2. u \in Seq(V) /\ Len(u) = Len(s) + 1 /\ \A i \in 1 .. Len(s) + 1 : u[i] = IF i <= Len(s) THEN s[i] ELSE <<e>>[i - Len(s)]
  BY <1>1, ConcatProperties
<1>3. Len(s) \in Nat /\ DOMAIN s = 1 .. Len(s)
  OBVIOUS
<1> HIDE DEF u
<1>4. DOMAIN u = 1 .. Len(s) + 1 /\ u[Len(s) + 1] = e /\ \A i \in 1 .. Len(s) : u[i] = s[i]
  <2>1. (Len(s) + 1) - Len(s) = 1 /\ Len(s) + 1 \in 1 .. Len(s) + 1 /\ ~(Len(s) + 1 <= Len(s))
    BY <1>3
  <2>2. \A i \in 1 .. Len(s) : i \in 1 .. Len(s) + 1 /\ i <= Len(s)
    BY <1>3
  <2> QED BY <1>1, <1>2, <2>1, <2>2
<1>5. \A i \in 1 .. Len(s) + 1 : i \in 1 .. Len(s) \/ i = Len(s) + 1
  BY <1>3
<1>6. \A i \in 1 .. Len(s) : i \in 1 .. Len(s) + 1
  BY <1>3
<1>7. Len(s) + 1 \in 1 .. Len(s) + 1
  BY <1>3
<1>8. ASSUME NEW v PROVE v \in ToSet(u) <=> v \in ToSet(s) \/ v = e
  <2>1. v \in ToSet(u) <=> \E i \in 1 .. Len(s) + 1 : u[i] = v
    BY <1>4 DEF ToSet
  <2>2. v \in ToSet(s) <=> \E i \in 1 .. Len(s) : s[i] = v
    BY <1>3 DEF ToSet
  <2> QED BY <1>4, <1>5, <1>6, <1>7, <2>1, <2>2
<1> QED BY <1>2, <1>8 DEF u

-----------------------------------------------------------------------------
\* The source of a backup.
LEMMA PathsAre ==
    /\ Paths \subseteq Path /\ IsFiniteSet(Paths) /\ Root \in Dirs /\ Dirs \subseteq Paths /\ Regular \subseteq Paths
    /\ Regular \cap Dirs = {} /\ Root \in Path
    /\ \A path \in Paths : path # Root => Parent(path) \in Dirs
<1>1. Paths \subseteq Path /\ IsFiniteSet(Paths) /\ Root \in Dirs /\ Dirs \subseteq Paths
  BY SyncAssumption DEF Paths, Path, Dirs
<1>2. Regular = {path \in Paths : Kind[path] = "regular"}
  BY SyncAssumption DEF Regular, Paths
<1>3. \A path \in Paths : path # Root => Parent(path) \in Dirs
  BY SyncAssumption DEF Paths, Dirs
<1> QED BY <1>1, <1>2, <1>3 DEF Dirs

\* path.Dir: the directory of an entry is one name shorter, and the entry is one
\* directly below it.
LEMMA ParentIs ==
    ASSUME NEW path \in Path, path # Root
    PROVE  Len(path) \in Nat \ {0} /\ Len(Parent(path)) = Len(path) - 1 /\ IsEntryBelow(Parent(path), path)
           /\ Parent(path) \in Path
<1>1. Len(path) \in Nat /\ Len(path) # 0
  BY DEF Path, Root
<1>2. Parent(path) = SubSeq(path, 1, Len(path) - 1)
  BY DEF Parent, Front
<1>3. 1 \in 1 .. Len(path) + 1 /\ Len(path) - 1 \in 1 - 1 .. Len(path) /\ (Len(path) - 1) - 1 + 1 = Len(path) - 1
  BY <1>1
<1>4. /\ SubSeq(path, 1, Len(path) - 1) \in Seq(Nat) /\ Len(SubSeq(path, 1, Len(path) - 1)) = (Len(path) - 1) - 1 + 1
      /\ \A i \in 1 .. (Len(path) - 1) - 1 + 1 : SubSeq(path, 1, Len(path) - 1)[i] = path[1 + i - 1]
  BY <1>3, SubSeqProperties DEF Path
<1>5. Parent(path) \in Path /\ Len(Parent(path)) = Len(path) - 1 /\ \A i \in 1 .. Len(path) - 1 : Parent(path)[i] = path[i]
  <2>1. \A i \in 1 .. Len(path) - 1 : 1 + i - 1 = i
    BY <1>1
  <2> QED BY <1>2, <1>3, <1>4, <2>1 DEF Path
<1>6. IsPrefix(Parent(path), path)
  BY <1>1, <1>5, PrefixIs
<1> QED BY <1>1, <1>5, <1>6 DEF IsEntryBelow

\* The pathnames of an index in the order in which a backup inserts them are all
\* its pathnames.
LEMMA InsertionsAre == Insertions \in Seq(Paths) /\ ToSet(Insertions) = Paths
<1> DEFINE dirs == InStringOrder(Dirs)
           L == Len(dirs)
           below(dir) == {f \in Paths \ Dirs : IsEntryBelow(dir, f)}
           of(dir) == InStringOrder(below(dir)) \o <<dir>>
           ss == [i \in DOMAIN dirs |-> of(dirs[Len(dirs) + 1 - i])]
<1>1. dirs \in Seq(Dirs) /\ ToSet(dirs) = Dirs
  BY PathsAre, FS_Subset, InStringOrderIs
<1>2. ASSUME NEW dir \in Dirs
      PROVE  of(dir) \in Seq(Paths) /\ \A v : v \in ToSet(of(dir)) <=> v \in below(dir) \/ v = dir
  <2>1. below(dir) \subseteq Path /\ IsFiniteSet(below(dir)) /\ below(dir) \subseteq Paths
    BY PathsAre, FS_Subset
  <2>2. InStringOrder(below(dir)) \in Seq(below(dir)) /\ ToSet(InStringOrder(below(dir))) = below(dir)
    BY <2>1, InStringOrderIs
  <2> DEFINE s == InStringOrder(below(dir))
  <2>3. s \in Seq(Paths) /\ dir \in Paths
    BY <2>1, <2>2, PathsAre
  <2> HIDE DEF s, below
  <2>4. s \o <<dir>> \in Seq(Paths) /\ \A v : v \in ToSet(s \o <<dir>>) <=> v \in ToSet(s) \/ v = dir
    BY <2>3, AppendedHas
  <2> QED BY <2>2, <2>4 DEF s
<1>3. Insertions = FlattenSeq(ss)
  BY DEF Insertions
<1> HIDE DEF dirs, of
<1>4. DOMAIN dirs = 1 .. L /\ L \in Nat
  BY <1>1
<1>5. \A i \in 1 .. L : L + 1 - i \in 1 .. L /\ L + 1 - (L + 1 - i) = i /\ dirs[L + 1 - i] \in Dirs
  <2>1. \A i \in 1 .. L : L + 1 - i \in 1 .. L /\ L + 1 - (L + 1 - i) = i
    BY <1>4
  <2> QED BY <1>1, <1>4, <2>1
<1>6. ss \in Seq(Seq(Paths)) /\ Len(ss) = L /\ \A i \in 1 .. L : ss[i] = of(dirs[L + 1 - i])
  <2>1. ss \in [1 .. L -> Seq(Paths)]
    BY <1>2, <1>4, <1>5
  <2> QED BY <1>4, <2>1
<1> HIDE DEF ss, L
<1>7. FlattenSeq(ss) \in Seq(Paths) /\ \A v : v \in ToSet(FlattenSeq(ss)) <=> \E i \in 1 .. L : v \in ToSet(ss[i])
  BY <1>6, FlattenSeqIs, FlattenSeqHas
<1>8. ASSUME NEW v \in Paths PROVE v \in ToSet(FlattenSeq(ss))
  <2> DEFINE dir == IF v \in Dirs THEN v ELSE Parent(v)
  <2>1. dir \in Dirs /\ (v \in below(dir) \/ v = dir)
    <3>1. CASE v \in Dirs
      BY <3>1
    <3>2. CASE v \notin Dirs
      <4>1. v # Root /\ Parent(v) \in Dirs /\ IsEntryBelow(Parent(v), v)
        BY <3>2, PathsAre, ParentIs
      <4> QED BY <3>2, <4>1
    <3> QED BY <3>1, <3>2
  <2> HIDE DEF dir, below
  <2>2. PICK j \in 1 .. L : dirs[j] = dir
    BY <1>1, <1>4, <2>1 DEF ToSet
  <2>3. L + 1 - j \in 1 .. L /\ ss[L + 1 - j] = of(dir)
    BY <1>5, <1>6, <2>2
  <2> QED BY <1>2, <1>7, <2>1, <2>3
<1>9. ASSUME NEW v \in ToSet(FlattenSeq(ss)) PROVE v \in Paths
  BY <1>7 DEF ToSet
<1> QED BY <1>3, <1>7, <1>8, <1>9

-----------------------------------------------------------------------------
\* A tree of paths, each with itself as the value.
Names(t, S, K) == IsTree(t, S) /\ Listed(t, S) = {<<k, k>> : k \in K}

\* In an index whose values are its keys, each of them is listed with itself only.
LEMMA NameIsListed ==
    ASSUME NEW t, NEW S, NEW K, Names(t, S, K)
    PROVE  \A k, v : <<k, v>> \in Listed(t, S) <=> k \in K /\ v = k
<1> SUFFICES ASSUME NEW k, NEW v PROVE <<k, v>> \in {<<l, l>> : l \in K} <=> k \in K /\ v = k
  BY DEF Names
<1> QED OBVIOUS

\* A pathname is inserted (BTree.Insert): the index has it and those it had.
LEMMA InsertName ==
    ASSUME NEW t, NEW S, S \subseteq Path, NEW K, Names(t, S, K), NEW p \in S
    PROVE  Names(Insert(t, p, p), S, K \cup {p}) /\ Insert(t, p, p).cmp = t.cmp
<1>1. Inserts(S, t, p, p, Insert(t, p, p))
  BY InsertIs DEF Names
<1>2. \A k, v : <<k, v>> \in Listed(t, S) <=> k \in K /\ v = k
  BY NameIsListed
<1>3. CASE p \in K
  <2>1. Insert(t, p, p) = t
    BY <1>1, <1>2, <1>3 DEF Inserts
  <2>2. K \cup {p} = K
    BY <1>3
  <2> QED BY <2>1, <2>2
<1>4. CASE p \notin K
  <2>1. IsTree(Insert(t, p, p), S) /\ Insert(t, p, p).cmp = t.cmp /\ Listed(Insert(t, p, p), S) = Listed(t, S) \cup {<<p, p>>}
    BY <1>1, <1>2, <1>4 DEF Inserts
  <2>2. Listed(t, S) = {<<k, k>> : k \in K}
    BY DEF Names
  <2>3. {<<k, k>> : k \in K} \cup {<<p, p>>} = {<<k, k>> : k \in K \cup {p}}
    OBVIOUS
  <2> QED BY <2>1, <2>2, <2>3 DEF Names
<1> QED BY <1>3, <1>4

\* Such an index is persisted as it is: its keys are those it had.
LEMMA PersistName ==
    ASSUME NEW t, NEW S, S \subseteq Path, NEW K, K \subseteq S, Names(t, S, K)
    PROVE  Names(Persist(t, [path \in S |-> path]), S, K)
<1> DEFINE conv == [path \in S |-> path]
           u == Persist(t, conv)
<1>1. \A k, v : <<k, v>> \in Listed(t, S) <=> k \in K /\ v = k
  BY NameIsListed
<1>2. Converts(t, S, conv, S)
  BY <1>1 DEF Converts
<1>3. Stored(S, t, conv, S, u)
  BY <1>2, PersistIs DEF Names
<1>4. \A k \in Path : \A w : <<k, w>> \in Listed(u, S) <=> k \in K /\ w = k
  <2>1. \A v \in K : v \in S /\ conv[v] = v
    OBVIOUS
  <2> HIDE DEF conv, u
  <2> SUFFICES ASSUME NEW k \in Path, NEW w PROVE <<k, w>> \in Listed(u, S) <=> k \in K /\ w = k
    OBVIOUS
  <2>2. <<k, w>> \in Listed(u, S) <=> \E v \in S : <<k, v>> \in Listed(t, S) /\ w = conv[v]
    BY <1>3 DEF Stored
  <2>3. ASSUME <<k, w>> \in Listed(u, S) PROVE k \in K /\ w = k
    <3>1. PICK v \in S : <<k, v>> \in Listed(t, S) /\ w = conv[v]
      BY <2>2, <2>3
    <3> QED BY <1>1, <2>1, <3>1
  <2>4. ASSUME k \in K, w = k PROVE <<k, w>> \in Listed(u, S)
    <3>1. k \in S /\ <<k, k>> \in Listed(t, S) /\ w = conv[k]
      BY <1>1, <2>1, <2>4
    <3> QED BY <2>2, <3>1
  <2> QED BY <2>3, <2>4
<1> HIDE DEF u
<1>5. \A kv \in Listed(u, S) : \E k \in Path, v \in S : kv = <<k, v>>
  BY DEF Listed
<1>6. Listed(u, S) = {<<k, k>> : k \in K}
  <2>1. ASSUME NEW kv \in Listed(u, S) PROVE kv \in {<<k, k>> : k \in K}
    <3>1. PICK k \in Path, v \in S : kv = <<k, v>>
      BY <1>5
    <3> QED BY <1>4, <3>1
  <2>2. ASSUME NEW k \in K PROVE <<k, k>> \in Listed(u, S)
    BY <1>4
  <2> QED BY <2>1, <2>2
<1> QED BY <1>3, <1>6 DEF Stored, Names, u

\* BTree.Find tells whether a pathname is in such an index.
LEMMA NameIsFound ==
    ASSUME NEW t, NEW S, S \subseteq Path, NEW K, Names(t, S, K), NEW k \in S
    PROVE  Find(t, k) # <<>> <=> k \in K
<1>1. \A l, v : <<l, v>> \in Listed(t, S) <=> l \in K /\ v = l
  BY NameIsListed
<1>2. PICK h, span : WellShaped(t, S, h, span)
  BY DEF Names, IsTree
<1>3. k \in Path
  OBVIOUS
<1>4. /\ \A v \in S : <<k, v>> \in Listed(t, S) => Find(t, k) = <<v>>
      /\ \/ \E v \in S : <<k, v>> \in Listed(t, S) /\ Find(t, k) = <<v>>
         \/ Find(t, k) = <<>>
  BY <1>2, <1>3, FindIs
<1>5. \A v : <<v>> # <<>>
  OBVIOUS
<1> QED BY <1>1, <1>4, <1>5

-----------------------------------------------------------------------------
\* The index of the source.
Entries == {Entry(p, ObjectOf(p)) : p \in Paths} \cup {NoEntry}

\* The index of the pathnames grows by one insertion after the other (Backup
\* inserts an entry when it has been read).
LEMMA GrowingIs ==
    /\ Growing[0] = EmptyTree("path")
    /\ \A i \in 1 .. Len(Insertions) : Growing[i] = Insert(Growing[i - 1], Insertions[i], Insertions[i])
<1> DEFINE L == Len(Insertions)
           To(n, f) == f = [i \in 0 .. n |-> IF i = 0 THEN EmptyTree("path") ELSE Insert(f[i - 1], Insertions[i], Insertions[i])]
           S == {n \in Nat : \E f : To(n, f)}
<1>1. 0 \in S
  <2>1. To(0, [i \in 0 .. 0 |-> EmptyTree("path")])
    BY DEF To
  <2> QED BY <2>1
<1>2. ASSUME NEW n \in Nat, n \in S PROVE n + 1 \in S
  <2>1. PICK f : To(n, f)
    BY <1>2
  <2> DEFINE g == [i \in 0 .. n + 1 |-> IF i = n + 1 THEN Insert(f[n], Insertions[n + 1], Insertions[n + 1]) ELSE f[i]]
  <2>2. f = [i \in 0 .. n |-> IF i = 0 THEN EmptyTree("path") ELSE Insert(f[i - 1], Insertions[i], Insertions[i])]
    BY <2>1
  <2>3. ASSUME NEW i \in 0 .. n + 1
        PROVE  g[i] = IF i = 0 THEN EmptyTree("path") ELSE Insert(g[i - 1], Insertions[i], Insertions[i])
    <3>1. CASE i = n + 1
      <4>1. i - 1 = n /\ n \in 0 .. n + 1 /\ n # n + 1 /\ i # 0
        BY <3>1
      <4>2. g[i - 1] = f[n]
        BY <4>1
      <4> QED BY <3>1, <4>1, <4>2
    <3>2. CASE i # n + 1
      <4>1. i \in 0 .. n /\ (i # 0 => i - 1 \in 0 .. n /\ i - 1 \in 0 .. n + 1 /\ i - 1 # n + 1)
        BY <3>2
      <4>2. g[i] = f[i] /\ (i # 0 => g[i - 1] = f[i - 1])
        BY <3>2, <4>1
      <4>3. f[i] = IF i = 0 THEN EmptyTree("path") ELSE Insert(f[i - 1], Insertions[i], Insertions[i])
        BY <2>2, <4>1
      <4> QED BY <4>2, <4>3
    <3> QED BY <3>1, <3>2
  <2>4. g = [i \in 0 .. n + 1 |-> g[i]]
    OBVIOUS
  <2> HIDE DEF g
  <2>5. g = [i \in 0 .. n + 1 |-> IF i = 0 THEN EmptyTree("path") ELSE Insert(g[i - 1], Insertions[i], Insertions[i])]
    BY <2>3, <2>4
  <2>6. n + 1 \in Nat /\ To(n + 1, g)
    BY <2>5
  <2> QED BY <2>6
<1>3. Nat \subseteq S
  <2> HIDE DEF S
  <2> QED BY <1>1, <1>2, SetInduction
<1>4. L \in Nat
  BY InsertionsAre
<1>5. PICK f : f = [i \in 0 .. L |-> IF i = 0 THEN EmptyTree("path") ELSE Insert(f[i - 1], Insertions[i], Insertions[i])]
  <2>1. L \in S
    BY <1>3, <1>4
  <2> QED BY <2>1
<1> DEFINE up == CHOOSE g : g = [i \in 0 .. L |-> IF i = 0 THEN EmptyTree("path") ELSE Insert(g[i - 1], Insertions[i], Insertions[i])]
<1>6. up = [i \in 0 .. L |-> IF i = 0 THEN EmptyTree("path") ELSE Insert(up[i - 1], Insertions[i], Insertions[i])]
  BY <1>5
<1>7. Growing = up
  BY DEF Growing
<1> HIDE DEF up, L
<1>8. up[0] = EmptyTree("path") /\ \A i \in 1 .. L : up[i] = Insert(up[i - 1], Insertions[i], Insertions[i])
  <2>1. 0 \in 0 .. L /\ \A i \in 1 .. L : i \in 0 .. L /\ i # 0
    BY <1>4
  <2> QED BY <1>6, <2>1
<1> QED BY <1>7, <1>8 DEF L

\* When all are inserted the index has every pathname of the source, and only
\* those.
LEMMA GrowingNames ==
    Names(Growing[Len(Insertions)], Paths, Paths) /\ Growing[Len(Insertions)].cmp = "path"
<1> DEFINE L == Len(Insertions)
           K(i) == {Insertions[j] : j \in 1 .. i}
           S == {i \in Nat : i <= L => Names(Growing[i], Paths, K(i)) /\ Growing[i].cmp = "path"}
<1>1. L \in Nat /\ Insertions \in Seq(Paths) /\ DOMAIN Insertions = 1 .. L /\ Paths \subseteq Path
  BY InsertionsAre, PathsAre
<1>2. 0 \in S
  <2>1. K(0) = {}
    OBVIOUS
  <2>2. IsTree(EmptyTree("path"), Paths) /\ Listed(EmptyTree("path"), Paths) = {} /\ EmptyTree("path").cmp = "path"
    BY EmptyTreeIsTree DEF Cmps
  <2> HIDE DEF K
  <2>3. Names(EmptyTree("path"), Paths, K(0))
    BY <2>1, <2>2 DEF Names
  <2> QED BY <2>2, <2>3, GrowingIs
<1>3. ASSUME NEW i \in Nat, i \in S PROVE i + 1 \in S
  <2> SUFFICES ASSUME i + 1 <= L PROVE Names(Growing[i + 1], Paths, K(i + 1)) /\ Growing[i + 1].cmp = "path"
    OBVIOUS
  <2>1. i <= L /\ i + 1 \in 1 .. L /\ (i + 1) - 1 = i
    BY <1>1
  <2> DEFINE p == Insertions[i + 1]
  <2>2. p \in Paths
    BY <1>1, <2>1
  <2>3. Growing[i + 1] = Insert(Growing[i], p, p)
    BY <2>1, GrowingIs
  <2>4. K(i + 1) = K(i) \cup {p}
    <3>1. \A j : j \in 1 .. i + 1 <=> j \in 1 .. i \/ j = i + 1
      OBVIOUS
    <3> QED BY <3>1
  <2>5. Names(Growing[i], Paths, K(i)) /\ Growing[i].cmp = "path"
    BY <1>3, <2>1
  <2> HIDE DEF p, K
  <2>6. Names(Insert(Growing[i], p, p), Paths, K(i) \cup {p}) /\ Insert(Growing[i], p, p).cmp = Growing[i].cmp
    BY <1>1, <2>2, <2>5, InsertName
  <2> QED BY <2>3, <2>4, <2>5, <2>6
<1>4. Nat \subseteq S
  <2> HIDE DEF S
  <2> QED BY <1>2, <1>3, SetInduction
<1>5. K(L) = Paths
  <2> HIDE DEF L
  <2>1. \A v : v \in Paths <=> \E j \in 1 .. L : Insertions[j] = v
    BY <1>1, InsertionsAre DEF ToSet
  <2> QED BY <2>1
<1>6. L \in S /\ L <= L
  <2> HIDE DEF S, L
  <2> QED BY <1>1, <1>4
<1> QED BY <1>5, <1>6

\* The index of a snapshot of the paths K, in which values may be missing.
IndexOf(t, K) ==
    /\ IsTree(t, Entries) /\ t.cmp = "path"
    /\ \A k, e : <<k, e>> \in Listed(t, Entries) => k \in K /\ e \in {Entry(k, ObjectOf(k)), NoEntry}
    /\ \A k \in K : \E e : <<k, e>> \in Listed(t, Entries)

\* When a snapshot is committed, persistVFS converts pathnames to entries: the
\* index written has one entry for each pathname, its own.
LEMMA PersistIndex ==
    ASSUME NEW t, NEW K, K \subseteq Paths, Names(t, K, K), t.cmp = "path",
           NEW conv, \A k \in K : conv[k] = Entry(k, ObjectOf(k))
    PROVE  IndexOf(Persist(t, conv), K)
<1> DEFINE u == Persist(t, conv)
<1>1. \A k, v : <<k, v>> \in Listed(t, K) <=> k \in K /\ v = k
  BY NameIsListed
<1>2. \A k \in K : conv[k] \in Entries /\ k \in Path
  BY PathsAre DEF Entries
<1>3. Converts(t, K, conv, Entries)
  BY <1>1, <1>2 DEF Converts
<1>4. Stored(K, t, conv, Entries, u)
  BY <1>3, PersistIs DEF Names
<1> HIDE DEF u
<1>5. ASSUME NEW k, NEW e, <<k, e>> \in Listed(u, Entries) PROVE k \in K /\ e = Entry(k, ObjectOf(k))
  <2>1. k \in Path
    BY <1>5 DEF Listed
  <2>2. PICK v \in K : <<k, v>> \in Listed(t, K) /\ e = conv[v]
    BY <1>4, <1>5, <2>1 DEF Stored
  <2> QED BY <1>1, <2>2
<1>6. ASSUME NEW k \in K PROVE \E e : <<k, e>> \in Listed(u, Entries)
  <2>1. <<k, k>> \in Listed(t, K)
    BY <1>1
  <2>2. <<k, conv[k]>> \in Listed(u, Entries)
    BY <1>2, <1>4, <2>1 DEF Stored
  <2> QED BY <2>2
<1> QED BY <1>4, <1>5, <1>6 DEF Stored, IndexOf, u

\* The index of a full snapshot has an entry for every pathname.
LEMMA IndexIs == IndexOf(Index, Paths)
<1> DEFINE conv == [path \in Paths |-> Entry(path, ObjectOf(path))]
           t == Growing[Len(Insertions)]
<1>1. Index = Persist(t, conv)
  BY DEF Index
<1>2. Names(t, Paths, Paths) /\ t.cmp = "path"
  BY GrowingNames
<1>3. \A k \in Paths : conv[k] = Entry(k, ObjectOf(k))
  OBVIOUS
<1> HIDE DEF t, conv
<1> QED BY <1>1, <1>2, <1>3, PersistIndex

\* The index of a snapshot of an empty directory has the root, no error and no
\* attribute.
LEMMA SmallIs == IndexOf(Small.vfs, {Root}) /\ Small.errs = {} /\ Small.attrs = {}
<1> DEFINE conv == [path \in {Root} |-> Entry(Root, NoObject)]
           none == EmptyTree("path")
           t == Insert(none, Root, Root)
           S == {Root}
<1>1. Small.vfs = Persist(t, conv) /\ Small.errs = {} /\ Small.attrs = {}
  BY DEF Small
<1>2. IsTree(none, S) /\ Listed(none, S) = {} /\ none.cmp = "path"
  BY EmptyTreeIsTree DEF Cmps
<1>3. PICK K : K = {}
  OBVIOUS
<1>4. S \subseteq Path /\ Root \in S /\ S \subseteq Paths /\ ObjectOf(Root) = NoObject
  BY PathsAre DEF ObjectOf
<1>5. \A k \in S : conv[k] = Entry(k, ObjectOf(k))
  BY <1>4
<1> HIDE DEF none, conv
<1>6. Names(none, S, K)
  BY <1>2, <1>3 DEF Names
<1>7. Names(t, S, K \cup {Root}) /\ t.cmp = "path"
  <2> HIDE DEF S
  <2> QED BY <1>2, <1>4, <1>6, InsertName
<1>8. K \cup {Root} = S
  BY <1>3
<1> HIDE DEF t, S
<1>9. IndexOf(Persist(t, conv), S)
  BY <1>4, <1>5, <1>7, <1>8, PersistIndex
<1> QED BY <1>1, <1>9 DEF S

-----------------------------------------------------------------------------
\* What the commands keep, whatever they do.

SyncFields == {"phase", "from", "to", "both", "todo", "known", "view", "id", "left", "conv", "put", "swept"}
CloneFields == {"phase", "listed", "begun", "failed"}
CmdFields == {"name", "copies", "readers"}

IsIndex(t) == IndexOf(t, Paths) \/ IndexOf(t, {Root})
IsSnapshot(s) == s = [vfs |-> s.vfs, errs |-> s.errs, attrs |-> s.attrs] /\ IsIndex(s.vfs)

\* The error index is a tree of some of the errors, at the end of all.
ErrorsAre ==
    \E K \in SUBSET ErrorPaths :
       /\ Names(errors, ErrorPaths, K) /\ errors.cmp = "string"
       /\ cmd.name = "commit" => K = ErrorPaths

\* A command runs alone.
CmdIs ==
    /\ cmd = [f \in CmdFields |-> cmd[f]] /\ cmd.copies \in Nat /\ cmd.readers \in Nat
    /\ cmd.readers > 0 => cmd.name \notin {"scan", "commit", "sync", "clone"}
    /\ cmd.name = "sync" <=> sync.phase # "no"
    /\ cmd.name = "clone" <=> clone.phase \in {"packfiles", "states"}

SnapsAre ==
    /\ snaps = [r \in Repositories |-> snaps[r]]
    /\ packs = [r \in Repositories |-> packs[r]]
    /\ lost = [r \in Repositories |-> lost[r]]
    /\ \A r \in Repositories : \A id \in DOMAIN snaps[r] : IsSnapshot(snaps[r][id])

\* While the values of an index are copied, each value is done or left, and becomes
\* itself or nothing.
SyncIs ==
    /\ sync = [f \in SyncFields |-> sync[f]]
    /\ sync.from \in {"src", "dst"} /\ sync.to \in {"src", "dst"} /\ sync.from # sync.to
    /\ sync.phase \in {"no", "next", "values"}
    /\ sync.phase = "no" => sync = Idle
    /\ sync.todo \subseteq DOMAIN snaps[sync.from]
    /\ sync.phase = "values" =>
          /\ sync.id \in DOMAIN snaps[sync.from]
          /\ sync.left \in Seq(Entries)
          /\ ToSet(Conversions(snaps[sync.from][sync.id].vfs)) \subseteq DOMAIN sync.conv \cup ToSet(sync.left)
          /\ \A e \in DOMAIN sync.conv : sync.conv[e] \in {e, NoEntry}

CloneIs ==
    /\ clone = [f \in CloneFields |-> clone[f]]
    /\ clone.phase \in {"no", "packfiles", "states", "done"}

Shaped == ErrorsAre /\ CmdIs /\ SnapsAre /\ SyncIs /\ CloneIs

\* A map with one entry set.
LEMMA WithIs ==
    ASSUME NEW map, NEW key, NEW value
    PROVE  /\ DOMAIN With(map, key, value) = DOMAIN map \cup {key} /\ With(map, key, value)[key] = value
           /\ \A k \in DOMAIN map : k # key => With(map, key, value)[k] = map[k]
BY DEF With

\* The names of the repositories of the model.
LEMMA RepositoriesAre == {"src", "dst"} \subseteq Repositories /\ "clone" \in Repositories
BY DEF Repositories

\* What conversions leave of an index is the index of a snapshot.
LEMMA ConvertedIs ==
    ASSUME NEW t, IsIndex(t), NEW conv, ToSet(Conversions(t)) \subseteq DOMAIN conv,
           \A e \in DOMAIN conv : conv[e] \in {e, NoEntry}
    PROVE  IsIndex(Persist(t, conv)) /\ Converts(t, Entries, conv, Entries)
<1> DEFINE u == Persist(t, conv)
<1>1. IsTree(t, Entries)
  BY DEF IsIndex, IndexOf
<1>2. \A e : e \in ToSet(Conversions(t)) <=> \E k \in Path : <<k, e>> \in Listed(t, Entries)
  BY <1>1, ConversionsAre
<1>3. NoEntry \in Entries
  BY DEF Entries
<1>4. \A k \in Path, e \in Entries : <<k, e>> \in Listed(t, Entries) => conv[e] \in {e, NoEntry}
  BY <1>2
<1>5. Converts(t, Entries, conv, Entries)
  BY <1>3, <1>4 DEF Converts
<1>6. Stored(Entries, t, conv, Entries, u)
  BY <1>1, <1>5, PersistIs
<1> HIDE DEF u
<1>7. ASSUME NEW K, IndexOf(t, K) PROVE IndexOf(u, K)
  <2>1. ASSUME NEW k, NEW w, <<k, w>> \in Listed(u, Entries)
        PROVE  k \in K /\ w \in {Entry(k, ObjectOf(k)), NoEntry}
    <3>1. k \in Path
      BY <2>1 DEF Listed
    <3>2. PICK e \in Entries : <<k, e>> \in Listed(t, Entries) /\ w = conv[e]
      BY <1>6, <2>1, <3>1 DEF Stored
    <3> QED BY <1>4, <1>7, <3>1, <3>2 DEF IndexOf
  <2>2. ASSUME NEW k \in K PROVE \E w : <<k, w>> \in Listed(u, Entries)
    <3>1. PICK e : <<k, e>> \in Listed(t, Entries)
      BY <1>7 DEF IndexOf
    <3>2. k \in Path /\ e \in Entries
      BY <3>1 DEF Listed
    <3>3. <<k, conv[e]>> \in Listed(u, Entries)
      BY <1>6, <3>1, <3>2 DEF Stored
    <3> QED BY <3>3
  <2>3. IsTree(u, Entries) /\ u.cmp = "path"
    BY <1>6, <1>7 DEF Stored, IndexOf
  <2> QED BY <2>1, <2>2, <2>3 DEF IndexOf
<1> QED BY <1>5, <1>7 DEF IsIndex, u

-----------------------------------------------------------------------------
\* Each action keeps it.

\* Shaped holds before anything has run.
LEMMA ShapedInit == Init => Shaped
<1> SUFFICES ASSUME Init PROVE Shaped
  OBVIOUS
<1>0. SyncInit
  BY DEF Init
<1>1. errors = EmptyTree("string") /\ cmd = [name |-> "scan", copies |-> 0, readers |-> 0] /\ sync = Idle /\ clone = NoClone
      /\ lost = [r \in Repositories |-> {}] /\ packs = [r \in Repositories |-> packs[r]]
      /\ snaps = [r \in Repositories |-> IF r = "dst" THEN With(<<>>, There, Small) ELSE <<>>]
  BY <1>0 DEF SyncInit
<1>2. ErrorsAre
  <2>1. IsTree(errors, ErrorPaths) /\ Listed(errors, ErrorPaths) = {} /\ errors.cmp = "string" /\ cmd.name # "commit"
    BY <1>1, EmptyTreeIsTree DEF Cmps
  <2>2. PICK K : K = {}
    OBVIOUS
  <2>3. Names(errors, ErrorPaths, K) /\ K \in SUBSET ErrorPaths
    BY <2>1, <2>2 DEF Names
  <2> QED BY <2>1, <2>3 DEF ErrorsAre
<1>3. CmdIs
  BY <1>1 DEF CmdIs, CmdFields, Idle, NoClone
<1>4. CloneIs
  BY <1>1 DEF CloneIs, CloneFields, NoClone
<1>5. SnapsAre
  <2>1. \A r \in Repositories : DOMAIN snaps[r] \subseteq {There} /\ \A id \in DOMAIN snaps[r] : snaps[r][id] = Small
    BY <1>1 DEF With
  <2>2. IsSnapshot(Small)
    <3>1. Small = [vfs |-> Small.vfs, errs |-> Small.errs, attrs |-> Small.attrs]
      BY DEF Small
    <3> QED BY <3>1, SmallIs DEF IsSnapshot, IsIndex
  <2>3. lost = [r \in Repositories |-> lost[r]] /\ snaps = [r \in Repositories |-> snaps[r]]
    BY <1>1
  <2> QED BY <1>1, <2>1, <2>2, <2>3 DEF SnapsAre
<1>6. SyncIs
  BY <1>1 DEF SyncIs, SyncFields, Idle
<1> QED BY <1>2, <1>3, <1>4, <1>5, <1>6 DEF Shaped

\* Snapshots are added, never changed.
LEMMA SnapsAreAdded ==
    ASSUME Shaped, NEW r \in Repositories, NEW id, NEW s, NEW blobs, Add(r, id, s, blobs), IsSnapshot(s), lost' = lost
    PROVE  /\ SnapsAre' /\ \A q \in Repositories : DOMAIN snaps[q] \subseteq DOMAIN snaps'[q]
           /\ \A q \in Repositories : \A i \in DOMAIN snaps[q] : (q = r => i # id) => snaps'[q][i] = snaps[q][i]
           /\ \A q \in Repositories \ {r} : snaps'[q] = snaps[q] /\ packs'[q] = packs[q]
           /\ snaps'[r] = With(snaps[r], id, s) /\ packs'[r] = With(packs[r], id, blobs)
<1>1. SnapsAre
  BY DEF Shaped
<1>2. /\ snaps' = [snaps EXCEPT ![r] = With(snaps[r], id, s)]
      /\ packs' = [packs EXCEPT ![r] = With(packs[r], id, blobs)]
  BY DEF Add
<1>3. /\ snaps = [q \in Repositories |-> snaps[q]] /\ packs = [q \in Repositories |-> packs[q]]
      /\ lost = [q \in Repositories |-> lost[q]]
  BY <1>1 DEF SnapsAre
<1>4. /\ snaps' = [q \in Repositories |-> snaps'[q]] /\ packs' = [q \in Repositories |-> packs'[q]]
      /\ lost' = [q \in Repositories |-> lost'[q]]
      /\ snaps'[r] = With(snaps[r], id, s) /\ packs'[r] = With(packs[r], id, blobs)
      /\ \A q \in Repositories \ {r} : snaps'[q] = snaps[q] /\ packs'[q] = packs[q]
  BY <1>2, <1>3
<1>5. /\ DOMAIN snaps'[r] = DOMAIN snaps[r] \cup {id} /\ snaps'[r][id] = s
      /\ \A k \in DOMAIN snaps[r] : k # id => snaps'[r][k] = snaps[r][k]
  BY <1>4 DEF With
<1>6. \A q \in Repositories : \A i \in DOMAIN snaps'[q] : IsSnapshot(snaps'[q][i])
  BY <1>1, <1>4, <1>5 DEF SnapsAre
<1> QED BY <1>4, <1>5, <1>6 DEF SnapsAre

\* The errors of a backup stay an index of error paths while it is not touched.
LEMMA ErrorsAreKept ==
    ASSUME ErrorsAre, errors' = errors, cmd'.name = "commit" => cmd.name = "commit"
    PROVE  ErrorsAre'
BY DEF ErrorsAre

\* recordError and persistErrors keep Shaped: the index of the errors stays a tree
\* of the paths that failed.
LEMMA ShapedErrors ==
    ASSUME Shaped, UNCHANGED <<repoVars, sync, exposed, clone>>,
           PersistErrors \/ \E path \in ErrorPaths : RecordError(path)
    PROVE  Shaped'
<1>0. ErrorPaths \subseteq Path
  BY SyncAssumption DEF Path
<1>1. PICK K \in SUBSET ErrorPaths : Names(errors, ErrorPaths, K) /\ errors.cmp = "string"
  BY DEF Shaped, ErrorsAre
<1>2. cmd.name = "scan" /\ CmdIs
  BY DEF Shaped, RecordError, PersistErrors
<1>3. sync.phase = "no" /\ clone.phase \notin {"packfiles", "states"} /\ cmd.readers = 0
  BY <1>2 DEF CmdIs
<1>4. SnapsAre' /\ SyncIs' /\ CloneIs'
  BY DEF Shaped, SnapsAre, SyncIs, CloneIs, repoVars
<1>5. CASE \E path \in ErrorPaths : RecordError(path)
  <2>1. PICK path \in ErrorPaths : RecordError(path)
    BY <1>5
  <2>2. errors' = Insert(errors, path, path) /\ cmd' = cmd
    BY <2>1 DEF RecordError
  <2>3. Names(errors', ErrorPaths, K \cup {path}) /\ errors'.cmp = "string" /\ K \cup {path} \in SUBSET ErrorPaths
    BY <1>0, <1>1, <2>2, InsertName
  <2>4. ErrorsAre'
    BY <1>2, <2>2, <2>3 DEF ErrorsAre
  <2>5. CmdIs'
    BY <1>2, <2>2 DEF CmdIs
  <2> QED BY <1>4, <2>4, <2>5 DEF Shaped
<1>6. CASE PersistErrors
  <2>1. /\ \A path \in ErrorPaths : Find(errors, path) # <<>>
        /\ errors' = Persist(errors, [path \in ErrorPaths |-> path]) /\ cmd' = [cmd EXCEPT !.name = "commit"]
    BY <1>6 DEF PersistErrors
  <2>2. \A path \in ErrorPaths : path \in K
    BY <1>0, <1>1, <2>1, NameIsFound
  <2>3. K = ErrorPaths
    BY <2>2
  <2>4. Names(errors', ErrorPaths, ErrorPaths)
    BY <1>0, <1>1, <2>1, <2>3, PersistName
  <2>5. errors'.cmp = "string"
    <3>1. Persist(errors, [path \in ErrorPaths |-> path]).cmp = errors.cmp
      <4>1. errors \in Tree(ErrorPaths)
        BY <1>1, TreeFacts DEF Names, IsTree
      <4> QED BY <4>1, PersistParts
    <3> QED BY <1>1, <2>1, <3>1
  <2>6. ErrorsAre'
    BY <2>4, <2>5 DEF ErrorsAre
  <2>7. CmdIs'
    BY <1>2, <1>3, <2>1 DEF CmdIs, CmdFields
  <2> QED BY <1>4, <2>6, <2>7 DEF Shaped
<1> QED BY <1>5, <1>6

\* The commit of the first backup keeps Shaped: what it adds to the repository is
\* a snapshot whose index is a tree.
LEMMA ShapedCommit ==
    ASSUME Shaped, Commit
    PROVE  Shaped'
<1> DEFINE s == [vfs |-> Index, errs |-> ErrorPaths, attrs |-> {Attribute(p) : p \in Attributed}]
<1>1. /\ cmd.name = "commit" /\ cmd' = [cmd EXCEPT !.name = "idle"] /\ errors' = EmptyTree("string")
      /\ Add("src", Former, s, Blobs(Former, s))
      /\ UNCHANGED <<lost, sync, exposed, clone>>
  BY DEF Commit, Stop
<1>2. CmdIs /\ SyncIs /\ CloneIs
  BY DEF Shaped
<1>3. sync.phase = "no" /\ clone.phase \notin {"packfiles", "states"} /\ sync = Idle
  BY <1>1, <1>2 DEF CmdIs, SyncIs
<1>4. CmdIs'
  BY <1>1, <1>2, <1>3 DEF CmdIs, CmdFields
<1>5. ErrorsAre'
  <2>1. IsTree(errors', ErrorPaths) /\ Listed(errors', ErrorPaths) = {} /\ errors'.cmp = "string" /\ cmd'.name # "commit"
    BY <1>1, <1>2, EmptyTreeIsTree DEF Cmps, CmdIs, CmdFields
  <2>2. PICK K : K = {}
    OBVIOUS
  <2>3. Names(errors', ErrorPaths, K) /\ K \in SUBSET ErrorPaths
    BY <2>1, <2>2 DEF Names
  <2> QED BY <2>1, <2>3 DEF ErrorsAre
<1>6. IsSnapshot(s)
  BY IndexIs DEF IsSnapshot, IsIndex
<1> HIDE DEF s
<1>7. SnapsAre' /\ \A q \in Repositories : DOMAIN snaps[q] \subseteq DOMAIN snaps'[q]
  BY <1>1, <1>6, SnapsAreAdded, RepositoriesAre
<1>8. SyncIs'
  BY <1>1, <1>2, <1>3, <1>7, RepositoriesAre DEF SyncIs
<1>9. CloneIs'
  BY <1>1, <1>2 DEF CloneIs
<1> QED BY <1>4, <1>5, <1>7, <1>8, <1>9 DEF Shaped

\* What is said of the state of a sync is about one snapshot.
LEMMA SyncIsKept ==
    ASSUME SyncIs, sync' = sync, \A q \in Repositories : DOMAIN snaps[q] \subseteq DOMAIN snaps'[q],
           \A q \in Repositories : \A i \in DOMAIN snaps[q] : snaps'[q][i] = snaps[q][i]
    PROVE  SyncIs'
<1>1. sync.from \in Repositories
  BY RepositoriesAre DEF SyncIs
<1>2. sync.todo \subseteq DOMAIN snaps'[sync.from]
  BY <1>1 DEF SyncIs
<1>3. CASE sync.phase = "values"
  <2>1. sync.id \in DOMAIN snaps[sync.from]
    BY <1>3 DEF SyncIs
  <2>2. snaps'[sync.from][sync.id] = snaps[sync.from][sync.id] /\ sync.id \in DOMAIN snaps'[sync.from]
    BY <1>1, <2>1
  <2> QED BY <1>2, <2>2 DEF SyncIs
<1>4. CASE sync.phase # "values"
  BY <1>2, <1>4 DEF SyncIs
<1> QED BY <1>3, <1>4

\* A second backup keeps Shaped, for the same reason.
LEMMA ShapedCommitAgain ==
    ASSUME Shaped, CommitAgain
    PROVE  Shaped'
<1>1. /\ Former \in DOMAIN snaps["src"] /\ Latter \notin DOMAIN snaps["src"]
      /\ Add("src", Latter, snaps["src"][Former], {<<"header", Latter>>})
      /\ UNCHANGED <<errors, lost, cmd, sync, exposed, clone>>
  BY DEF CommitAgain
<1>2. IsSnapshot(snaps["src"][Former]) /\ "src" \in Repositories
  BY <1>1, RepositoriesAre DEF Shaped, SnapsAre
<1>3. /\ SnapsAre' /\ \A q \in Repositories : DOMAIN snaps[q] \subseteq DOMAIN snaps'[q]
      /\ \A q \in Repositories : \A i \in DOMAIN snaps[q] : (q = "src" => i # Latter) => snaps'[q][i] = snaps[q][i]
  BY <1>1, <1>2, SnapsAreAdded
<1>4. SyncIs'
  BY <1>1, <1>3, SyncIsKept DEF Shaped
<1>5. ErrorsAre' /\ CmdIs' /\ CloneIs'
  BY <1>1 DEF Shaped, ErrorsAre, CmdIs, CloneIs
<1> QED BY <1>3, <1>4, <1>5 DEF Shaped

\* A chunk that is lost keeps Shaped: no snapshot changes.
LEMMA ShapedLose ==
    ASSUME Shaped, NEW r \in Repositories, Lose(r)
    PROVE  Shaped'
<1>1. PICK blob \in Readable(r) : lost' = [lost EXCEPT ![r] = @ \cup {blob}]
  BY DEF Lose
<1>2. UNCHANGED <<errors, packs, snaps, cmd, sync, exposed, clone>>
  BY DEF Lose
<1>3. SnapsAre'
  <2>1. lost' = [q \in Repositories |-> lost'[q]]
    BY <1>1 DEF Shaped, SnapsAre
  <2> QED BY <1>2, <2>1 DEF Shaped, SnapsAre
<1>4. ErrorsAre' /\ CmdIs' /\ SyncIs' /\ CloneIs'
  BY <1>2 DEF Shaped, ErrorsAre, CmdIs, SyncIs, CloneIs
<1> QED BY <1>3, <1>4 DEF Shaped

\* The cleanup of what no snapshot needs keeps Shaped.
LEMMA ShapedColour ==
    ASSUME Shaped, Colour
    PROVE  Shaped'
<1>1. /\ packs' = [packs EXCEPT !["dst"] = Restrict(packs["dst"], DOMAIN packs["dst"] \ {Removed})]
      /\ sync' = [sync EXCEPT !.swept = sync.phase # "no"]
      /\ UNCHANGED <<errors, snaps, lost, cmd, exposed, clone>>
  BY DEF Colour
<1>2. SnapsAre'
  <2>1. packs' = [q \in Repositories |-> packs'[q]]
    BY <1>1 DEF Shaped, SnapsAre
  <2> QED BY <1>1, <2>1 DEF Shaped, SnapsAre
<1>3. SyncIs
  BY DEF Shaped
<1>4. /\ sync' = [f \in SyncFields |-> sync'[f]]
      /\ \A f \in SyncFields : f # "swept" => sync'[f] = sync[f]
      /\ sync'.swept = (sync.phase # "no")
  BY <1>1, <1>3 DEF SyncIs, SyncFields
<1>5. /\ sync'.phase = sync.phase /\ sync'.from = sync.from /\ sync'.to = sync.to /\ sync'.todo = sync.todo
      /\ sync'.id = sync.id /\ sync'.left = sync.left /\ sync'.conv = sync.conv
  BY <1>4 DEF SyncFields
<1>6. sync'.phase = "no" => sync' = Idle
  <2> SUFFICES ASSUME sync'.phase = "no" PROVE sync' = Idle
    OBVIOUS
  <2>1. sync = Idle /\ sync.phase = "no"
    BY <1>3, <1>5 DEF SyncIs
  <2>2. sync' = [Idle EXCEPT !.swept = FALSE]
    BY <1>1, <2>1
  <2> QED BY <2>2 DEF Idle
<1>7. SyncIs'
  BY <1>1, <1>3, <1>4, <1>5, <1>6 DEF SyncIs
<1>8. ErrorsAre' /\ CmdIs' /\ CloneIs'
  BY <1>1, <1>5 DEF Shaped, ErrorsAre, CmdIs, CloneIs
<1> QED BY <1>2, <1>7, <1>8 DEF Shaped

-----------------------------------------------------------------------------
\* A step that changes the synchronisation only keeps Shaped when it keeps its
\* part.
LEMMA ShapedKept ==
    ASSUME Shaped, UNCHANGED <<errors, repoVars, cmd, clone>>, SyncIs', sync'.phase # "no" <=> sync.phase # "no"
    PROVE  Shaped'
BY DEF Shaped, ErrorsAre, CmdIs, SnapsAre, CloneIs, repoVars

\* The start of a synchronisation keeps Shaped: it has snapshots to copy only that
\* the source has.
LEMMA ShapedOpenSync ==
    ASSUME Shaped, NEW from \in {"src", "dst"}, NEW to \in {"src", "dst"}, from # to, NEW both \in BOOLEAN, OpenSync(from, to, both)
    PROVE  Shaped'
<1>1. /\ cmd.name = "idle" /\ cmd.readers = 0 /\ cmd' = [cmd EXCEPT !.name = "sync", !.copies = @ + 1]
      /\ sync' = [Idle EXCEPT !.phase = "next", !.from = from, !.to = to, !.both = both,
                            !.todo  = Locate(from) \ DOMAIN snaps[to],
                            !.known = DOMAIN snaps[from],
                            !.view  = [r \in Repositories |-> Located(r)]]
      /\ UNCHANGED <<errors, repoVars, exposed, clone>>
  BY DEF OpenSync, RunCopy
<1> DEFINE todo == Locate(from) \ DOMAIN snaps[to]
           known == DOMAIN snaps[from]
           view == [r \in Repositories |-> Located(r)]
<1>2. sync' = [phase |-> "next", from |-> from, to |-> to, both |-> both, todo |-> todo, known |-> known,
               view |-> view, id |-> 0, left |-> <<>>, conv |-> <<>>, put |-> {}, swept |-> FALSE]
  <2>1. sync' = [Idle EXCEPT !.phase = "next", !.from = from, !.to = to, !.both = both,
                            !.todo  = todo, !.known = known, !.view  = view]
    BY <1>1
  <2> HIDE DEF todo, known, view
  <2> QED BY <2>1 DEF Idle
<1>3. todo \subseteq DOMAIN snaps[from]
  BY DEF Locate
<1> HIDE DEF todo, known, view
<1>4. SyncIs'
  <2>1. snaps' = snaps
    BY <1>1 DEF repoVars
  <2>2. /\ sync'.phase = "next" /\ sync'.from = from /\ sync'.to = to /\ sync'.todo = todo
        /\ sync' = [f \in SyncFields |-> sync'[f]]
    BY <1>2 DEF SyncFields
  <2> HIDE <1>2
  <2> QED BY <1>3, <2>1, <2>2 DEF SyncIs
<1>5. sync'.phase = "next"
  BY <1>2
<1>6. clone.phase \notin {"packfiles", "states"} /\ cmd = [f \in CmdFields |-> cmd[f]] /\ cmd.copies \in Nat
  BY <1>1 DEF Shaped, CmdIs
<1>7. /\ cmd'.name = "sync" /\ cmd'.readers = 0 /\ cmd'.copies = cmd.copies + 1 /\ cmd' = [f \in CmdFields |-> cmd'[f]]
  BY <1>1, <1>6 DEF CmdFields
<1>8. CmdIs'
  <2>1. clone'.phase = clone.phase
    BY <1>1
  <2>2. cmd'.copies \in Nat
    BY ONLY <1>6, <1>7
  <2> QED BY ONLY <1>5, <1>6, <1>7, <2>1, <2>2 DEF CmdIs
<1>9. ErrorsAre' /\ SnapsAre' /\ CloneIs'
  BY <1>1, <1>7 DEF Shaped, ErrorsAre, SnapsAre, CloneIs, repoVars
<1> QED BY <1>4, <1>8, <1>9 DEF Shaped

\* A copy that failed is dropped: what was converted for it is forgotten, what is
\* known of the two repositories is not.
LEMMA AbandonIs ==
    ASSUME SyncIs
    PROVE  /\ Abandon = [f \in SyncFields |-> Abandon[f]]
           /\ Abandon.phase = "next" /\ Abandon.id = 0 /\ Abandon.left = <<>> /\ Abandon.conv = <<>> /\ Abandon.put = {}
           /\ \A f \in {"from", "to", "both", "todo", "known", "view", "swept"} : Abandon[f] = sync[f]
BY DEF SyncIs, SyncFields, Abandon

\* So a copy that is dropped keeps Shaped.
LEMMA ShapedAbandon ==
    ASSUME Shaped, sync' = Abandon, UNCHANGED <<errors, repoVars, cmd, clone>>, sync.phase # "no"
    PROVE  Shaped'
<1>1. SyncIs /\ snaps' = snaps
  BY DEF Shaped, repoVars
<1>2. /\ sync' = [f \in SyncFields |-> sync'[f]] /\ sync'.phase = "next"
      /\ sync'.from = sync.from /\ sync'.to = sync.to /\ sync'.todo = sync.todo
  BY <1>1, AbandonIs
<1>3. SyncIs'
  BY <1>1, <1>2 DEF SyncIs
<1> QED BY <1>2, <1>3, ShapedKept

\* The start of the copy of one snapshot (synchronize) keeps Shaped: the values to
\* convert are those of the index of that snapshot.
LEMMA ShapedNextSnapshot ==
    ASSUME Shaped, NEW id \in sync.todo, NextSnapshot(id)
    PROVE  Shaped'
<1> DEFINE s == snaps[sync.from][id]
           rest == [Abandon EXCEPT !.todo = @ \ {id}]
           fit  == {<<"header", id>>} \cup {<<"node", n>> : n \in ToSet(s.vfs.nodes)}
           left == Conversions(s.vfs)
<1>1. /\ sync.phase = "next"
      /\ sync' = IF fit \subseteq Readable(sync.from)
                 THEN [rest EXCEPT !.phase = "values", !.id = id, !.left = left]
                 ELSE rest
      /\ UNCHANGED <<errors, repoVars, cmd, exposed, clone>>
  BY DEF NextSnapshot
<1>2. SyncIs /\ snaps' = snaps
  BY <1>1 DEF Shaped, repoVars
<1>3. id \in DOMAIN snaps[sync.from] /\ sync.from \in Repositories
  BY <1>2, RepositoriesAre DEF SyncIs
<1>4. IsIndex(s.vfs)
  BY <1>3 DEF Shaped, SnapsAre, IsSnapshot
<1>5. left \in Seq(Entries)
  BY <1>4, ConversionsAre DEF IsIndex, IndexOf
<1>6. /\ rest = [f \in SyncFields |-> rest[f]] /\ rest.phase = "next" /\ rest.conv = <<>>
      /\ rest.from = sync.from /\ rest.to = sync.to /\ rest.todo = sync.todo \ {id}
  BY <1>2, AbandonIs DEF SyncFields
<1> HIDE DEF rest, left
<1>7. CASE fit \subseteq Readable(sync.from)
  <2>1. sync' = [rest EXCEPT !.phase = "values", !.id = id, !.left = left]
    BY <1>1, <1>7
  <2>2. /\ sync' = [f \in SyncFields |-> sync'[f]] /\ sync'.phase = "values" /\ sync'.conv = <<>> /\ sync'.id = id /\ sync'.left = left
        /\ sync'.from = sync.from /\ sync'.to = sync.to /\ sync'.todo = sync.todo \ {id}
    BY <1>6, <2>1 DEF SyncFields
  <2>3. ToSet(Conversions(snaps[sync.from][id].vfs)) \subseteq DOMAIN sync'.conv \cup ToSet(sync'.left)
    BY <2>2 DEF left
  <2>4. \A e \in DOMAIN sync'.conv : sync'.conv[e] \in {e, NoEntry}
    BY <2>2
  <2> HIDE <2>1
  <2>5. SyncIs'
    BY <1>2, <1>3, <1>5, <2>2, <2>3, <2>4 DEF SyncIs
  <2> QED BY <1>1, <2>2, <2>5, ShapedKept
<1>8. CASE ~(fit \subseteq Readable(sync.from))
  <2>1. sync' = rest
    BY <1>1, <1>8
  <2>2. SyncIs'
    BY <1>2, <1>6, <2>1 DEF SyncIs
  <2> QED BY <1>1, <1>6, <2>1, <2>2, ShapedKept
<1> QED BY <1>7, <1>8

\* One entry that is converted (the callback of persistVFS) keeps Shaped: it is
\* copied as it is, or there is no entry.
LEMMA ShapedCopyEntry ==
    ASSUME Shaped, CopyEntry
    PROVE  Shaped'
<1> DEFINE e     == Head(sync.left)
           whole == e.object = NoObject \/ Legible(sync.from, e.object)
           copy  == IF whole THEN e ELSE NoEntry
           blobs == IF whole THEN {<<"entry", e>>} \cup Content(e) ELSE Prefix(sync.from, e.object)
           put   == sync.put \cup Missing(blobs)
           conv  == With(sync.conv, e, copy)
<1>1. /\ sync.phase = "values" /\ sync.left # <<>>
      /\ sync' = IF Resolves(sync.from, e)
                 THEN [sync EXCEPT !.left = Tail(sync.left), !.conv = conv, !.put = put]
                 ELSE Abandon
      /\ UNCHANGED <<errors, repoVars, cmd, exposed, clone>>
  BY DEF CopyEntry
<1>2. SyncIs /\ snaps' = snaps
  BY <1>1 DEF Shaped, repoVars
<1>3. copy \in {e, NoEntry}
  OBVIOUS
<1> HIDE DEF copy, put
<1>4. CASE Resolves(sync.from, e)
  <2>1. sync' = [sync EXCEPT !.left = Tail(sync.left), !.conv = conv, !.put = put]
    BY <1>1, <1>4
  <2>2. /\ sync.left \in Seq(Entries) /\ sync.id \in DOMAIN snaps[sync.from]
        /\ ToSet(Conversions(snaps[sync.from][sync.id].vfs)) \subseteq DOMAIN sync.conv \cup ToSet(sync.left)
        /\ \A x \in DOMAIN sync.conv : sync.conv[x] \in {x, NoEntry}
    BY <1>1, <1>2 DEF SyncIs
  <2>3. DOMAIN conv = DOMAIN sync.conv \cup {e} /\ \A x \in DOMAIN conv : conv[x] \in {x, NoEntry}
    BY <1>3, <2>2 DEF With
  <2>4. Tail(sync.left) \in Seq(Entries) /\ \A x \in ToSet(sync.left) : x = e \/ x \in ToSet(Tail(sync.left))
    <3>1. PICK q : q = sync.left
      OBVIOUS
    <3>2. q \in Seq(Entries) /\ q # <<>>
      BY <1>1, <2>2, <3>1
    <3>3. Tail(q) \in Seq(Entries) /\ \A x \in ToSet(q) : x = Head(q) \/ x \in ToSet(Tail(q))
      <4>1. Tail(q) \in Seq(Entries) /\ Len(q) \in Nat \ {0} /\ Len(Tail(q)) = Len(q) - 1 /\ Head(q) = q[1]
            /\ \A i \in 1 .. Len(q) - 1 : Tail(q)[i] = q[i + 1]
        BY <3>2
      <4>2. ASSUME NEW x \in ToSet(q) PROVE x = Head(q) \/ x \in ToSet(Tail(q))
        <5>1. PICK i \in 1 .. Len(q) : q[i] = x
          BY <3>2 DEF ToSet
        <5>2. CASE i = 1
          BY <4>1, <5>1, <5>2
        <5>3. CASE i # 1
          <6>1. i - 1 \in 1 .. Len(q) - 1 /\ (i - 1) + 1 = i
            BY <4>1, <5>3
          <6>2. Tail(q)[i - 1] = x /\ i - 1 \in DOMAIN Tail(q)
            BY <4>1, <5>1, <6>1
          <6> QED BY <6>2 DEF ToSet
        <5> QED BY <5>2, <5>3
      <4> QED BY <4>1, <4>2
    <3> QED BY <3>1, <3>3
  <2> HIDE DEF e, conv
  <2>5. /\ sync' = [f \in SyncFields |-> sync'[f]] /\ sync'.conv = conv /\ sync'.left = Tail(sync.left)
        /\ \A f \in {"phase", "from", "to", "todo", "id"} : sync'[f] = sync[f]
    BY <1>2, <2>1 DEF SyncIs, SyncFields
  <2> HIDE <2>1
  <2>6. /\ sync'.phase = "values" /\ sync'.from = sync.from /\ sync'.to = sync.to /\ sync'.todo = sync.todo /\ sync'.id = sync.id
    BY <1>1, <2>5
  <2>7. ToSet(Conversions(snaps[sync.from][sync.id].vfs)) \subseteq DOMAIN conv \cup ToSet(Tail(sync.left))
    BY <2>2, <2>3, <2>4
  <2>8. SyncIs'
    BY <1>2, <2>2, <2>3, <2>4, <2>5, <2>6, <2>7 DEF SyncIs
  <2> QED BY <1>1, <2>6, <2>8, ShapedKept
<1>5. CASE ~Resolves(sync.from, e)
  <2>1. sync' = Abandon
    BY <1>1, <1>5
  <2> QED BY <1>1, <2>1, ShapedAbandon
<1> QED BY <1>4, <1>5

\* The commit of a copy keeps Shaped: the index Persist writes is a tree again.
LEMMA ShapedCommitCopy ==
    ASSUME Shaped, CommitCopy
    PROVE  Shaped'
<1> DEFINE s    == snaps[sync.from][sync.id]
           vfs  == Persist(s.vfs, sync.conv)
           attrs == {CopyOfAttribute(x) : x \in s.attrs}
           copy == [s EXCEPT !.vfs = vfs, !.attrs = attrs]
           put  == sync.put \cup Missing(Own(sync.id, copy))
<1>1. /\ sync.phase = "values" /\ sync.left = <<>> /\ sync' = Abandon
      /\ Add(sync.to, sync.id, copy, put) \/ UNCHANGED <<packs, snaps, exposed>>
      /\ UNCHANGED <<errors, lost, cmd, clone>>
  BY DEF CommitCopy
<1>2. SyncIs
  BY DEF Shaped
<1>3. CASE UNCHANGED <<packs, snaps, exposed>>
  BY <1>1, <1>3, ShapedAbandon DEF repoVars
<1>4. CASE Add(sync.to, sync.id, copy, put)
  <2>1. sync.id \in DOMAIN snaps[sync.from] /\ sync.from \in Repositories /\ sync.to \in Repositories
    BY <1>1, <1>2, RepositoriesAre DEF SyncIs
  <2>2. IsSnapshot(s)
    BY <2>1 DEF Shaped, SnapsAre
  <2>3. IsIndex(vfs)
    <3>1. PICK t : t = s.vfs
      OBVIOUS
    <3>2. PICK conv : conv = sync.conv
      OBVIOUS
    <3>3. ToSet(<<>>) = {}
      BY DEF ToSet
    <3>4. ToSet(Conversions(t)) \subseteq DOMAIN conv /\ \A e \in DOMAIN conv : conv[e] \in {e, NoEntry}
      BY <1>1, <1>2, <3>1, <3>2, <3>3 DEF SyncIs
    <3>5. IsIndex(t)
      BY <2>2, <3>1 DEF IsSnapshot
    <3>6. IsIndex(Persist(t, conv))
      BY <3>4, <3>5, ConvertedIs
    <3> QED BY <3>1, <3>2, <3>6
  <2> HIDE DEF vfs, attrs
  <2>4. IsSnapshot(copy)
    <3>1. s = [vfs |-> s.vfs, errs |-> s.errs, attrs |-> s.attrs]
      BY <2>2 DEF IsSnapshot
    <3> HIDE DEF s
    <3>2. copy = [vfs |-> vfs, errs |-> s.errs, attrs |-> attrs]
      <4> DEFINE was == [s EXCEPT !.vfs = vfs]
      <4>1. copy = [was EXCEPT !.attrs = attrs]
        OBVIOUS
      <4>2. was = [vfs |-> vfs, errs |-> s.errs, attrs |-> s.attrs]
        BY <3>1
      <4> HIDE DEF was, copy
      <4> QED BY <4>1, <4>2
    <3>3. copy.vfs = vfs /\ copy.errs = s.errs /\ copy.attrs = attrs
      BY <3>2
    <3> QED BY <2>3, <3>2, <3>3 DEF IsSnapshot
  <2> HIDE DEF copy, put
  <2>5. SnapsAre' /\ \A q \in Repositories : DOMAIN snaps[q] \subseteq DOMAIN snaps'[q]
    BY <1>1, <1>4, <2>1, <2>4, SnapsAreAdded
  <2>6. /\ sync' = [f \in SyncFields |-> sync'[f]] /\ sync'.phase = "next"
        /\ sync'.from = sync.from /\ sync'.to = sync.to /\ sync'.todo = sync.todo
    BY <1>1, <1>2, AbandonIs
  <2>7. sync'.todo \subseteq DOMAIN snaps'[sync'.from]
    BY <1>2, <2>1, <2>5, <2>6 DEF SyncIs
  <2>8. SyncIs'
    BY <1>2, <2>6, <2>7 DEF SyncIs
  <2>9. ErrorsAre' /\ CmdIs' /\ CloneIs'
    BY <1>1, <2>6 DEF Shaped, ErrorsAre, CmdIs, CloneIs
  <2> QED BY <2>5, <2>8, <2>9 DEF Shaped
<1> QED BY <1>1, <1>3, <1>4

\* The second direction of a synchronisation with both keeps Shaped.
LEMMA ShapedTurn ==
    ASSUME Shaped, Turn
    PROVE  Shaped'
<1> DEFINE todo == Locate(sync.to) \ sync.known
<1>1. /\ sync.phase = "next"
      /\ sync' = [sync EXCEPT !.from = sync.to, !.to = sync.from, !.both = FALSE, !.todo = todo]
      /\ UNCHANGED <<errors, repoVars, cmd, exposed, clone>>
  BY DEF Turn
<1>2. SyncIs /\ snaps' = snaps
  BY <1>1 DEF Shaped, repoVars
<1>3. todo \subseteq DOMAIN snaps[sync.to]
  BY DEF Locate
<1> HIDE DEF todo
<1>4. /\ sync' = [f \in SyncFields |-> sync'[f]] /\ sync'.phase = "next"
      /\ sync'.from = sync.to /\ sync'.to = sync.from /\ sync'.todo = todo
  BY <1>1, <1>2 DEF SyncIs, SyncFields
<1>5. SyncIs'
  BY <1>2, <1>3, <1>4 DEF SyncIs
<1> QED BY <1>1, <1>4, <1>5, ShapedKept

\* The end of a synchronisation keeps Shaped.
LEMMA ShapedEndSync ==
    ASSUME Shaped, EndSync
    PROVE  Shaped'
<1>1. /\ sync.phase = "next" /\ sync' = Idle /\ cmd.name = "sync" /\ cmd' = [cmd EXCEPT !.name = "idle"]
      /\ UNCHANGED <<errors, repoVars, exposed, clone>>
  BY DEF EndSync, Stop
<1>2. CmdIs
  BY DEF Shaped
<1>3. CmdIs'
  BY <1>1, <1>2 DEF CmdIs, CmdFields, Idle
<1>4. SyncIs'
  BY <1>1 DEF SyncIs, SyncFields, Idle
<1>5. ErrorsAre' /\ SnapsAre' /\ CloneIs'
  BY <1>1, <1>2 DEF Shaped, ErrorsAre, CmdIs, CmdFields, SnapsAre, CloneIs, repoVars
<1> QED BY <1>3, <1>4, <1>5 DEF Shaped

-----------------------------------------------------------------------------
\* A function restricted to a part of its domain.
LEMMA RestrictIs ==
    ASSUME NEW f, NEW S, S \subseteq DOMAIN f
    PROVE  DOMAIN Restrict(f, S) = S /\ \A x \in S : Restrict(f, S)[x] = f[x]
BY DEF Restrict

\* What a clone copied is a part of what it meant to copy.
LEMMA CopiedIs ==
    ASSUME NEW S, NEW ok \in Copied(S)
    PROVE  ok \subseteq S
BY DEF Copied

\* A clone keeps Shaped: the snapshots of the clone are those of the source.
LEMMA ShapedClone ==
    ASSUME Shaped, StartClone \/ ClonePackfiles \/ CloneStates
    PROVE  Shaped'
<1>0. CmdIs /\ SnapsAre /\ CloneIs /\ SyncIs
  BY DEF Shaped
<1>1. CASE StartClone
  <2>1. /\ cmd.name = "idle" /\ cmd.readers = 0 /\ cmd' = [cmd EXCEPT !.name = "clone", !.copies = @ + 1]
        /\ clone' = [NoClone EXCEPT !.phase = "packfiles", !.listed = DOMAIN packs["src"], !.begun = DOMAIN snaps["src"]]
        /\ UNCHANGED <<errors, repoVars, sync, exposed>>
    BY <1>1 DEF StartClone, RunCopy
  <2>2. clone'.phase = "packfiles" /\ clone' = [f \in CloneFields |-> clone'[f]]
    BY <2>1 DEF NoClone, CloneFields
  <2>3. cmd'.name = "clone" /\ cmd'.readers = 0 /\ cmd'.copies = cmd.copies + 1 /\ cmd' = [f \in CmdFields |-> cmd'[f]]
    BY <1>0, <2>1 DEF CmdIs, CmdFields
  <2>4. CmdIs'
    <3>1. sync'.phase = sync.phase /\ sync.phase = "no" /\ cmd.copies \in Nat
      BY <1>0, <2>1 DEF CmdIs
    <3>2. cmd'.copies \in Nat
      BY ONLY <2>3, <3>1
    <3> QED BY ONLY <2>2, <2>3, <3>1, <3>2 DEF CmdIs
  <2>5. ErrorsAre' /\ SnapsAre' /\ SyncIs'
    BY <2>1, <2>3 DEF Shaped, ErrorsAre, SnapsAre, SyncIs, repoVars
  <2> QED BY <2>2, <2>4, <2>5 DEF Shaped, CloneIs
<1>2. CASE ClonePackfiles
  <2>1. PICK ok \in Copied(clone.listed) :
          /\ packs' = [packs EXCEPT !["clone"] = Restrict(packs["src"], ok)]
          /\ clone' = [clone EXCEPT !.phase = "states", !.failed = @ \/ ok # clone.listed]
    BY <1>2 DEF ClonePackfiles
  <2>2. /\ clone.phase = "packfiles" /\ lost' = [lost EXCEPT !["clone"] = lost["src"]]
        /\ UNCHANGED <<errors, snaps, cmd, sync, exposed>>
    BY <1>2 DEF ClonePackfiles
  <2>3. clone'.phase = "states" /\ clone' = [f \in CloneFields |-> clone'[f]]
    BY <1>0, <2>1 DEF CloneIs, CloneFields
  <2>4. packs' = [r \in Repositories |-> packs'[r]] /\ lost' = [r \in Repositories |-> lost'[r]]
    BY <1>0, <2>1, <2>2 DEF SnapsAre
  <2>5. SnapsAre'
    BY <1>0, <2>2, <2>4 DEF SnapsAre
  <2>6. ErrorsAre' /\ SyncIs' /\ CmdIs'
    BY <2>2, <2>3 DEF Shaped, ErrorsAre, SyncIs, CmdIs
  <2> QED BY <2>3, <2>5, <2>6 DEF Shaped, CloneIs
<1>3. CASE CloneStates
  <2>1. PICK ok \in Copied(DOMAIN snaps["src"]) :
          /\ snaps' = [snaps EXCEPT !["clone"] = Restrict(snaps["src"], ok)]
          /\ clone' = [clone EXCEPT !.phase = "done", !.failed = @ \/ ok # DOMAIN snaps["src"]]
    BY <1>3 DEF CloneStates
  <2>2. /\ clone.phase = "states" /\ cmd.name = "clone" /\ cmd' = [cmd EXCEPT !.name = "idle"]
        /\ UNCHANGED <<errors, packs, lost, sync, exposed>>
    BY <1>3 DEF CloneStates, Stop
  <2>3. clone'.phase = "done" /\ clone' = [f \in CloneFields |-> clone'[f]]
    BY <1>0, <2>1 DEF CloneIs, CloneFields
  <2>4. cmd'.name = "idle" /\ cmd'.readers = cmd.readers /\ cmd'.copies = cmd.copies /\ cmd' = [f \in CmdFields |-> cmd'[f]]
    BY <1>0, <2>2 DEF CmdIs, CmdFields
  <2>5. CmdIs'
    BY <1>0, <2>2, <2>3, <2>4 DEF CmdIs
  <2>6. ok \subseteq DOMAIN snaps["src"]
    BY CopiedIs
  <2>7. /\ snaps' = [r \in Repositories |-> snaps'[r]] /\ snaps'["clone"] = Restrict(snaps["src"], ok)
        /\ snaps'["src"] = snaps["src"] /\ snaps'["dst"] = snaps["dst"]
    BY <1>0, <2>1 DEF SnapsAre, Repositories
  <2>8. DOMAIN snaps'["clone"] = ok /\ \A id \in ok : snaps'["clone"][id] = snaps["src"][id]
    BY <2>6, <2>7 DEF Restrict
  <2>9. \A r \in Repositories : \A id \in DOMAIN snaps'[r] : IsSnapshot(snaps'[r][id])
    <3>1. \A id \in DOMAIN snaps'["clone"] : IsSnapshot(snaps'["clone"][id])
      BY <1>0, <2>6, <2>8 DEF SnapsAre, Repositories
    <3> QED BY <1>0, <2>7, <3>1 DEF SnapsAre, Repositories
  <2>10. SnapsAre'
    BY <1>0, <2>2, <2>7, <2>9 DEF SnapsAre
  <2>11. SyncIs'
    <3>1. snaps'[sync.from] = snaps[sync.from]
      BY <1>0, <2>7 DEF SyncIs
    <3> QED BY <1>0, <2>2, <3>1 DEF SyncIs
  <2>12. ErrorsAre'
    BY <2>2, <2>4 DEF Shaped, ErrorsAre
  <2> QED BY <2>3, <2>5, <2>10, <2>11, <2>12 DEF Shaped, CloneIs
<1> QED BY <1>1, <1>2, <1>3

-----------------------------------------------------------------------------
\* The readers change nothing but the name of the command.
LEMMA ShapedRead ==
    ASSUME Shaped, UNCHANGED <<errors, repoVars, sync, clone>>,
           \/ cmd' = cmd
           \/ \E kind \in {"restore", "check", "archive"} :
                 cmd.name = "idle" /\ cmd' = [cmd EXCEPT !.name = kind, !.readers = @ + 1]
           \/ cmd.name \in {"restore", "check", "archive"} /\ cmd' = [cmd EXCEPT !.name = "idle"]
    PROVE  Shaped'
<1>0. CmdIs
  BY DEF Shaped
<1>1. SnapsAre' /\ SyncIs' /\ CloneIs'
  BY DEF Shaped, SnapsAre, SyncIs, CloneIs, repoVars
<1>2. CASE cmd' = cmd
  BY <1>1, <1>2 DEF Shaped, ErrorsAre, CmdIs
<1>3. CASE \E kind \in {"restore", "check", "archive"} :
              cmd.name = "idle" /\ cmd' = [cmd EXCEPT !.name = kind, !.readers = @ + 1]
  <2>1. PICK kind \in {"restore", "check", "archive"} :
              cmd.name = "idle" /\ cmd' = [cmd EXCEPT !.name = kind, !.readers = @ + 1]
    BY <1>3
  <2>2. cmd'.name = kind /\ cmd'.readers = cmd.readers + 1 /\ cmd'.copies = cmd.copies /\ cmd' = [f \in CmdFields |-> cmd'[f]]
    BY <1>0, <2>1 DEF CmdIs, CmdFields
  <2>3. CmdIs'
    <3>1. /\ sync'.phase = sync.phase /\ sync.phase = "no" /\ clone'.phase = clone.phase
          /\ clone.phase \notin {"packfiles", "states"} /\ cmd.copies \in Nat /\ cmd.readers \in Nat
      BY <1>0, <2>1 DEF CmdIs
    <3>2. cmd'.copies \in Nat /\ cmd'.readers \in Nat
      BY ONLY <2>2, <3>1
    <3> QED BY ONLY <2>1, <2>2, <3>1, <3>2 DEF CmdIs
  <2>4. ErrorsAre'
    BY <2>2 DEF Shaped, ErrorsAre
  <2> QED BY <1>1, <2>3, <2>4 DEF Shaped
<1>4. CASE cmd.name \in {"restore", "check", "archive"} /\ cmd' = [cmd EXCEPT !.name = "idle"]
  <2>2. cmd'.name = "idle" /\ cmd'.readers = cmd.readers /\ cmd'.copies = cmd.copies /\ cmd' = [f \in CmdFields |-> cmd'[f]]
    BY <1>0, <1>4 DEF CmdIs, CmdFields
  <2>3. CmdIs'
    BY <1>0, <1>4, <2>2 DEF CmdIs
  <2>4. ErrorsAre'
    BY <2>2 DEF Shaped, ErrorsAre
  <2> QED BY <1>1, <2>3, <2>4 DEF Shaped
<1> QED BY <1>2, <1>3, <1>4

\* What restore, check and archive do: no repository changes, a command starts
\* when none runs, and it ends.
LEMMA ReadersOnlyRead ==
    ASSUME ReadNext
    PROVE  /\ UNCHANGED <<errors, repoVars, sync, exposed, clone>>
           /\ \/ cmd' = cmd
              \/ \E kind \in {"restore", "check", "archive"} :
                    cmd.name = "idle" /\ cmd' = [cmd EXCEPT !.name = kind, !.readers = @ + 1]
              \/ cmd.name \in {"restore", "check", "archive"} /\ cmd' = [cmd EXCEPT !.name = "idle"]
<1>1. ASSUME NEW kind \in {"restore", "check", "archive"}, NEW r \in {"dst", "clone"}, Open(kind, r)
      PROVE  /\ UNCHANGED <<errors, repoVars, sync, exposed, clone>>
             /\ cmd.name = "idle" /\ cmd' = [cmd EXCEPT !.name = kind, !.readers = @ + 1]
  BY <1>1 DEF Open
<1>2. ASSUME RestorePath PROVE UNCHANGED <<errors, repoVars, cmd, sync, exposed, clone>>
  BY <1>2 DEF RestorePath, syncVars
<1>3. ASSUME NEW f \in Regular, Restorer(f) PROVE UNCHANGED <<errors, repoVars, cmd, sync, exposed, clone>>
  BY <1>3 DEF Restorer, LookupLink, RegisterLink, Link, Create, Copy, syncVars
<1>4. ASSUME EndRestore \/ \E b \in BOOLEAN : Check(b) \/ Archive(b)
      PROVE  /\ UNCHANGED <<errors, repoVars, sync, exposed, clone>>
             /\ cmd.name \in {"restore", "check", "archive"} /\ cmd' = [cmd EXCEPT !.name = "idle"]
  BY <1>4 DEF EndRestore, Check, Archive, Stop
<1> QED BY <1>1, <1>2, <1>3, <1>4 DEF ReadNext

\* Every step keeps Shaped.
LEMMA ShapedStep ==
    ASSUME Shaped, [Next]_vars
    PROVE  Shaped'
<1>1. CASE UNCHANGED vars
  BY <1>1, ShapedRead DEF vars, syncVars, repoVars
<1>2. CASE ReadNext
  BY <1>2, ReadersOnlyRead, ShapedRead
<1>3. CASE SyncNext
  <2>1. CASE \E path \in ErrorPaths : RecordError(path)
    BY <2>1, ShapedErrors DEF RecordError
  <2>2. CASE PersistErrors
    BY <2>2, ShapedErrors DEF PersistErrors
  <2>3. CASE \E from, to \in {"src", "dst"}, both \in BOOLEAN :
                from # to /\ (both => from = "src") /\ OpenSync(from, to, both)
    BY <2>3, ShapedOpenSync
  <2> QED BY <1>3, <2>1, <2>2, <2>3, ShapedCommit, ShapedCommitAgain, ShapedColour, ShapedLose, ShapedNextSnapshot,
             ShapedCopyEntry, ShapedCommitCopy, ShapedTurn, ShapedEndSync, ShapedClone DEF SyncNext
<1> QED BY <1>1, <1>2, <1>3 DEF Next

\* In every state the indexes of all snapshots, and the index of the errors while
\* it grows, have the shape of a B+tree, and a copy has converted values of the
\* index it copies. This is what makes the other invariants of these modules
\* inductive.
THEOREM ShapedAlways == Spec => []Shaped
<1>1. Init => Shaped
  BY ShapedInit
<1>2. Shaped /\ [Next]_vars => Shaped'
  BY ShapedStep
<1> QED BY <1>1, <1>2, PTL DEF Spec

-----------------------------------------------------------------------------
\* A shaped state has sound trees: the theorem TreesAreSound, for each index.
LEMMA ShapedTreesSound ==
    ASSUME Shaped
    PROVE  TreesSound
<1>1. PICK K \in SUBSET ErrorPaths :
         Names(errors, ErrorPaths, K) /\ errors.cmp = "string" /\ (cmd.name = "commit" => K = ErrorPaths)
  BY DEF Shaped, ErrorsAre
<1>2. ErrorPaths \subseteq Path
  BY SyncAssumption DEF Path
<1>3. Sound(errors, ErrorPaths)
  BY <1>1, <1>2, TreesAreSound DEF Names
<1>4. ASSUME cmd.name = "commit" PROVE ToSet(Keys(errors)) = ErrorPaths
  <2>0. Names(errors, ErrorPaths, ErrorPaths)
    BY <1>1, <1>4
  <2>1. \A k, v : <<k, v>> \in Listed(errors, ErrorPaths) <=> k \in ErrorPaths /\ v = k
    BY <2>0, NameIsListed
  <2> DEFINE p == Pairs(errors)
  <2>2. p \in Seq(Path \X ErrorPaths) /\ ToSet(p) = Listed(errors, ErrorPaths)
    BY <1>1, PairsAre DEF Names
  <2>3. Keys(errors) = [i \in DOMAIN p |-> p[i][1]]
    BY DEF Keys
  <2> HIDE DEF p
  <2>4. \A k : k \in ToSet(Keys(errors)) <=> \E i \in DOMAIN p : k = p[i][1]
    BY <2>3 DEF ToSet
  <2>5. \A i \in DOMAIN p : p[i] \in ToSet(p) /\ p[i] = <<p[i][1], p[i][2]>>
    BY <2>2 DEF ToSet
  <2>6. ASSUME NEW k \in ErrorPaths PROVE \E i \in DOMAIN p : k = p[i][1]
    <3>1. <<k, k>> \in ToSet(p)
      BY <2>1, <2>2
    <3>2. PICK i \in DOMAIN p : p[i] = <<k, k>>
      BY <3>1 DEF ToSet
    <3> QED BY <3>2
  <2>7. ASSUME NEW i \in DOMAIN p PROVE p[i][1] \in ErrorPaths
    <3>1. p[i] \in Listed(errors, ErrorPaths) /\ p[i] = <<p[i][1], p[i][2]>>
      BY <2>2, <2>5
    <3>2. PICK k, v : k = p[i][1] /\ v = p[i][2]
      OBVIOUS
    <3>3. <<k, v>> \in Listed(errors, ErrorPaths)
      BY <3>1, <3>2
    <3>4. k \in ErrorPaths
      BY ONLY <2>1, <3>3
    <3> QED BY <3>2, <3>4
  <2>8. \A k : k \in ToSet(Keys(errors)) <=> k \in ErrorPaths
    <3>1. ASSUME NEW k \in ToSet(Keys(errors)) PROVE k \in ErrorPaths
      <4>1. PICK i \in DOMAIN p : k = p[i][1]
        BY <2>4
      <4> QED BY <2>7, <4>1
    <3> QED BY <2>4, <2>6, <3>1
  <2> QED BY <2>8
<1>5. ASSUME NEW id \in DOMAIN snaps["dst"] PROVE Sound(snaps["dst"][id].vfs, Paths \cup {d \o <<0>> : d \in Dirs})
  <2>1. IsTree(snaps["dst"][id].vfs, Entries)
    BY RepositoriesAre DEF Shaped, SnapsAre, IsSnapshot, IsIndex, IndexOf
  <2>2. \A d \in Dirs : d \o <<0>> \in Path
    BY PathsAre DEF Path
  <2>3. Paths \cup {d \o <<0>> : d \in Dirs} \subseteq Path
    BY <2>2, PathsAre
  <2> QED BY <2>1, <2>3, TreesAreSound
<1> QED BY <1>3, <1>4, <1>5 DEF TreesSound

\* TreesSound, for every set of pathnames and every order of the trees: the
\* forward and the reverse iteration, the iteration by nodes, the search and the
\* scan from a key agree on each index, also on one that was copied or persisted
\* again (BTree.Insert, Find, ScanFrom, ScanAllReverse, IterDFS, Persist).
THEOREM TreesSoundAlways == Spec => []TreesSound
<1>1. Shaped => TreesSound
  BY ShapedTreesSound
<1> QED BY <1>1, ShapedAlways, PTL

-----------------------------------------------------------------------------
\* Paths below a directory.

\* isEntryBelow: one name more, and the same names before; and what it is to be
\* anywhere below.
LEMMA BelowIs ==
    ASSUME NEW a \in Path, NEW b \in Path
    PROVE  /\ IsEntryBelow(a, b) <=> Len(b) = Len(a) + 1 /\ \A i \in 1 .. Len(a) : a[i] = b[i]
           /\ IsStrictPrefix(a, b) <=> Len(a) < Len(b) /\ \A i \in 1 .. Len(a) : a[i] = b[i]
<1>1. Len(a) \in Nat /\ Len(b) \in Nat
  BY DEF Path
<1>2. IsPrefix(a, b) <=> Len(a) <= Len(b) /\ \A i \in 1 .. Len(a) : a[i] = b[i]
  BY PrefixIs
<1>3. Len(a) = Len(b) /\ (\A i \in 1 .. Len(a) : a[i] = b[i]) => a = b
  BY SeqEqual DEF Path
<1> QED BY <1>1, <1>2, <1>3 DEF IsEntryBelow, IsStrictPrefix

\* The smallest pathname there could be directly below a directory, from which
\* Getdents scans.
LEMMA FirstIs ==
    ASSUME NEW dir \in Path
    PROVE  /\ dir \o <<0>> \in Path /\ Len(dir \o <<0>>) = Len(dir) + 1
           /\ \A i \in 1 .. Len(dir) : (dir \o <<0>>)[i] = dir[i]
           /\ (dir \o <<0>>)[Len(dir) + 1] = 0
BY DEF Path

\* Nothing directly below a directory is before it.
LEMMA NotBeforeTheFirst ==
    ASSUME NEW dir \in Path, NEW l \in Path, IsEntryBelow(dir, l)
    PROVE  ~Before("path", l, dir \o <<0>>)
<1> DEFINE first == dir \o <<0>>
<1>1. first \in Path /\ Len(first) = Len(dir) + 1 /\ (\A i \in 1 .. Len(dir) : first[i] = dir[i]) /\ first[Len(dir) + 1] = 0
  BY FirstIs
<1> HIDE DEF first
<1>2. Len(l) = Len(dir) + 1 /\ \A i \in 1 .. Len(dir) : dir[i] = l[i]
  BY BelowIs
<1> SUFFICES ASSUME Before("path", l, first) PROVE FALSE
  BY DEF first
<1>3. Len(dir) \in Nat /\ \A i \in 1 .. Len(l) : l[i] \in Nat
  BY DEF Path
<1>4. StringLess(l, first)
  BY <1>1, <1>2, <1>3 DEF Before, PathLess
<1>5. PICK i \in Nat : Differ(l, first, i)
  BY <1>1, <1>4, StringLessIs
<1>6. i \in 1 .. Len(dir) + 1 /\ l[i] < first[i]
  BY <1>1, <1>2, <1>3, <1>5 DEF Differ
<1>7. CASE i = Len(dir) + 1
  BY <1>1, <1>2, <1>3, <1>6, <1>7
<1>8. CASE i \in 1 .. Len(dir)
  <2>1. l[i] = first[i] /\ l[i] \in Nat
    BY <1>1, <1>2, <1>3, <1>8
  <2> QED BY <1>6, <2>1
<1> QED BY <1>3, <1>6, <1>7, <1>8

\* Where the listing of a directory begins its scan.
FirstBelow(dir) == dir \o <<0>>

\* PathCmp keeps what is directly below a directory together: what is between two
\* such entries is one.
LEMMA BelowIsConvex ==
    ASSUME NEW dir \in Path, NEW k \in Path, NEW l \in Path, IsEntryBelow(dir, l),
           ~Before("path", k, FirstBelow(dir)), ~Before("path", l, k)
    PROVE  IsEntryBelow(dir, k)
<1> DEFINE first == FirstBelow(dir)
           n == Len(dir)
<1>1. first \in Path /\ Len(first) = n + 1 /\ (\A i \in 1 .. n : first[i] = dir[i])
  BY FirstIs DEF FirstBelow
<1>2. (k = first \/ Before("path", first, k)) /\ (k = l \/ Before("path", k, l))
  <2> HIDE DEF first
  <2> QED BY <1>1, Ordered DEF Cmps, first
<1> HIDE DEF first
<1>3. Len(l) = n + 1 /\ \A i \in 1 .. n : dir[i] = l[i]
  BY BelowIs
<1>4. n \in Nat /\ Len(k) \in Nat /\ \A i \in 1 .. Len(k) : k[i] \in Nat
  BY DEF Path
<1>5. \A i \in 1 .. n + 1 : l[i] \in Nat /\ first[i] \in Nat
  BY <1>1, <1>3 DEF Path
<1>6. CASE k = first \/ k = l
  <2>1. Len(k) = n + 1 /\ \A i \in 1 .. n : dir[i] = k[i]
    BY <1>1, <1>3, <1>6
  <2> QED BY <2>1, BelowIs
<1>7. CASE Before("path", first, k) /\ Before("path", k, l)
  <2>1. Len(k) = n + 1 /\ StringLess(first, k) /\ StringLess(k, l)
    BY <1>1, <1>3, <1>4, <1>7 DEF Before, PathLess
  <2>2. PICK i \in Nat : Differ(first, k, i)
    BY <1>1, <2>1, StringLessIs
  <2>3. PICK j \in Nat : Differ(k, l, j)
    BY <2>1, StringLessIs
  <2>4. /\ i \in 1 .. n + 1 /\ first[i] < k[i] /\ \A x \in 1 .. i - 1 : first[x] = k[x]
        /\ j \in 1 .. n + 1 /\ k[j] < l[j] /\ \A x \in 1 .. j - 1 : k[x] = l[x]
    BY <1>1, <1>3, <1>4, <2>1, <2>2, <2>3 DEF Differ
  <2>5. i = n + 1
    <3> SUFFICES ASSUME i # n + 1 PROVE FALSE
      OBVIOUS
    <3>1. i \in 1 .. n /\ first[i] = l[i]
      BY <1>1, <1>3, <1>4, <2>4
    <3>2. CASE j < i
      <4>1. j \in 1 .. n /\ first[j] = l[j] /\ first[j] = k[j]
        BY <1>1, <1>3, <1>4, <2>4, <3>1, <3>2
      <4> QED BY <1>4, <1>5, <2>1, <2>4, <4>1
    <3>3. CASE i < j
      <4>1. k[i] = l[i]
        BY <1>4, <2>4, <3>3
      <4> QED BY <1>4, <1>5, <2>1, <2>4, <3>1, <4>1
    <3>4. CASE i = j
      <4>1. first[i] \in Nat /\ k[i] \in Nat /\ first[i] < k[i] /\ k[i] < l[i]
        BY <1>4, <1>5, <2>1, <2>4, <3>4
      <4> QED BY <1>5, <2>4, <3>1, <4>1
    <3> QED BY <1>4, <2>4, <3>2, <3>3, <3>4
  <2>6. \A x \in 1 .. n : dir[x] = k[x]
    BY <1>1, <1>4, <2>4, <2>5
  <2> QED BY <2>1, <2>6, BelowIs
<1> QED BY <1>2, <1>6, <1>7

\* What is above a path is a directory.
LEMMA AncestorsAre ==
    ASSUME NEW a \in Path, NEW b \in Paths, IsStrictPrefix(a, b)
    PROVE  a \in Dirs
<1> DEFINE n == Len(a)
           S == {m \in Nat : \A q \in Paths : Len(q) <= m /\ IsStrictPrefix(a, q) => a \in Dirs}
<1>1. n \in Nat /\ \A q \in Paths : q \in Path /\ Len(q) \in Nat
  BY PathsAre DEF Path
<1>2. 0 \in S
  <2> SUFFICES ASSUME NEW q \in Paths, Len(q) <= 0, IsStrictPrefix(a, q) PROVE FALSE
    OBVIOUS
  <2>1. Len(a) < Len(q)
    BY <1>1, BelowIs
  <2> QED BY <1>1, <2>1
<1>3. ASSUME NEW m \in Nat, m \in S PROVE m + 1 \in S
  <2> SUFFICES ASSUME NEW q \in Paths, Len(q) <= m + 1, IsStrictPrefix(a, q) PROVE a \in Dirs
    OBVIOUS
  <2> DEFINE p == Parent(q)
  <2>1. q \in Path /\ Len(a) < Len(q) /\ \A i \in 1 .. n : a[i] = q[i]
    BY <1>1, BelowIs
  <2>2. q # Root
    BY <1>1, <2>1 DEF Root
  <2>3. Len(p) = Len(q) - 1 /\ IsEntryBelow(p, q) /\ p \in Path /\ p \in Dirs /\ p \in Paths
    BY <2>1, <2>2, ParentIs, PathsAre
  <2> HIDE DEF p
  <2>4. \A i \in 1 .. Len(p) : p[i] = q[i]
    BY <2>1, <2>3, BelowIs
  <2>5. Len(a) <= Len(p) /\ \A i \in 1 .. n : a[i] = p[i]
    BY <1>1, <2>1, <2>3, <2>4
  <2>6. CASE Len(a) = Len(p)
    <3>1. a = p
      BY <2>3, <2>5, <2>6, SeqEqual DEF Path
    <3> QED BY <2>3, <3>1
  <2>7. CASE Len(a) < Len(p)
    <3>1. IsStrictPrefix(a, p) /\ Len(p) <= m
      BY <1>1, <2>1, <2>3, <2>5, <2>7, BelowIs
    <3> QED BY <1>3, <2>3, <3>1
  <2> QED BY <1>1, <2>3, <2>5, <2>6, <2>7
<1>4. Nat \subseteq S
  <2> HIDE DEF S
  <2> QED BY <1>2, <1>3, SetInduction
<1>5. Len(b) \in S /\ Len(b) <= Len(b)
  BY <1>1, <1>4
<1> QED BY <1>5

\* The path just below a, on the way to b.
LEMMA OnTheWay ==
    ASSUME NEW a \in Path, NEW b \in Path, IsStrictPrefix(a, b)
    PROVE  \E c \in Path : IsEntryBelow(a, c) /\ (c = b \/ IsStrictPrefix(c, b))
<1> DEFINE n == Len(a)
           c == SubSeq(b, 1, n + 1)
<1>1. n \in Nat /\ Len(b) \in Nat /\ n < Len(b) /\ \A i \in 1 .. n : a[i] = b[i]
  BY BelowIs DEF Path
<1>2. 1 \in 1 .. Len(b) + 1 /\ n + 1 \in 1 - 1 .. Len(b) /\ (n + 1) - 1 + 1 = n + 1
  BY <1>1
<1>3. c \in Path /\ Len(c) = n + 1 /\ \A i \in 1 .. n + 1 : c[i] = b[1 + i - 1]
  BY <1>2, SubSeqProperties DEF Path
<1>4. \A i \in 1 .. n + 1 : c[i] = b[i]
  <2>1. \A i \in 1 .. n + 1 : 1 + i - 1 = i
    BY <1>1
  <2> QED BY <1>3, <2>1
<1> HIDE DEF c
<1>5. IsEntryBelow(a, c)
  <2>1. \A i \in 1 .. n : a[i] = c[i]
    BY <1>1, <1>4
  <2> QED BY <1>3, <2>1, BelowIs
<1>6. c = b \/ IsStrictPrefix(c, b)
  <2>1. CASE n + 1 = Len(b)
    BY <1>3, <1>4, <2>1, SeqEqual DEF Path
  <2>2. CASE n + 1 # Len(b)
    BY <1>1, <1>3, <1>4, <2>2, BelowIs
  <2> QED BY <2>1, <2>2
<1> QED BY <1>3, <1>5, <1>6

\* Two paths just below one that lead to the same path are the same.
LEMMA OneWay ==
    ASSUME NEW a \in Path, NEW c \in Path, NEW d \in Path, NEW b \in Path,
           IsEntryBelow(a, c), IsEntryBelow(a, d), c = b \/ IsStrictPrefix(c, b), d = b \/ IsStrictPrefix(d, b)
    PROVE  c = d
<1>1. Len(c) = Len(a) + 1 /\ Len(d) = Len(a) + 1
  BY BelowIs
<1>2. (\A i \in 1 .. Len(c) : c[i] = b[i]) /\ \A i \in 1 .. Len(d) : d[i] = b[i]
  BY BelowIs
<1> QED BY <1>1, <1>2, SeqEqual DEF Path

\* What is directly below a directory is below it, and so is everything below
\* that.
LEMMA BelowIsStrict ==
    ASSUME NEW a \in Path, NEW b \in Path, IsEntryBelow(a, b)
    PROVE  IsStrictPrefix(a, b) /\ \A c \in Path : IsStrictPrefix(b, c) => IsStrictPrefix(a, c)
<1>1. Len(a) \in Nat /\ Len(b) = Len(a) + 1 /\ \A i \in 1 .. Len(a) : a[i] = b[i]
  BY BelowIs DEF Path
<1>2. IsStrictPrefix(a, b)
  BY <1>1, BelowIs
<1>3. ASSUME NEW c \in Path, IsStrictPrefix(b, c) PROVE IsStrictPrefix(a, c)
  <2>1. Len(c) \in Nat /\ Len(b) < Len(c) /\ \A i \in 1 .. Len(b) : b[i] = c[i]
    BY <1>3, BelowIs DEF Path
  <2>2. Len(a) < Len(c) /\ \A i \in 1 .. Len(a) : a[i] = c[i]
    BY <1>1, <2>1
  <2> QED BY <2>2, BelowIs
<1> QED BY <1>2, <1>3

-----------------------------------------------------------------------------
\* A tree has one value for a key.
LEMMA OneValue ==
    ASSUME NEW V, NEW t, IsTree(t, V), NEW x \in Listed(t, V), NEW y \in Listed(t, V), x[1] = y[1]
    PROVE  x = y
<1>1. PICK h, span : WellShaped(t, V, h, span)
  BY DEF IsTree
<1>2. x \in Path \X V /\ y \in Path \X V
  BY DEF Listed
<1>3. PICK k \in Path, v \in V, w \in V : x = <<k, v>> /\ y = <<k, w>>
  BY <1>2
<1>4. Find(t, k) = <<v>> /\ Find(t, k) = <<w>>
  BY <1>1, <1>3, FindIs
<1>5. v = w
  BY <1>4
<1> QED BY <1>3, <1>5

\* What Getdents says of a directory.
Dents(r, t, dir, d) ==
    /\ d.entries \in Seq(Path \X Entries) /\ d.ok \in BOOLEAN
    /\ \A i \in 1 .. Len(d.entries) :
          /\ d.entries[i] \in Listed(t, Entries) /\ IsEntryBelow(dir, d.entries[i][1]) /\ Resolves(r, d.entries[i][2])
    /\ \A i, j \in 1 .. Len(d.entries) : d.entries[i][1] = d.entries[j][1] => i = j
    /\ d.ok => \A kv \in Listed(t, Entries) : IsEntryBelow(dir, kv[1]) => \E i \in 1 .. Len(d.entries) : d.entries[i] = kv

\* The least number of a set is in it and not above any other.
LEMMA LeastOf ==
    ASSUME NEW S, S \subseteq Nat, S # {}
    PROVE  Min(S) \in S /\ \A x \in S : Min(S) <= x
<1>1. \E x \in S : \A y \in S : x <= y
  BY LeastNumber
<1> QED BY <1>1 DEF Min

\* Filesystem.Getdents returns entries directly below the directory, none twice,
\* and all of them unless it ends with an error: the scan may stop at the first
\* entry that is not below.
LEMMA GetdentsIs ==
    ASSUME NEW r, NEW s, IsIndex(s.vfs), NEW dir \in Path
    PROVE  Dents(r, s.vfs, dir, Getdents(r, s, dir))
<1> DEFINE t     == s.vfs
           there == {i \in DOMAIN t.nodes : <<"node", t.nodes[i]>> \in Readable(r)}
           scan  == ScanFrom(t, there, dir \o <<0>>)
           pairs == scan.pairs
           first == dir \o <<0>>
           up    == {l \in Path : ~Before(t.cmp, l, first)}
           below(i) == IsEntryBelow(dir, pairs[i][1])
           stops == {i \in DOMAIN pairs : ~below(i) \/ ~Resolves(r, pairs[i][2])}
           n     == IF stops = {} THEN Len(pairs) ELSE Min(stops) - 1
           d     == Getdents(r, s, dir)
<1>1. IsTree(t, Entries) /\ t.cmp = "path" /\ first \in Path
  BY FirstIs DEF IsIndex, IndexOf
<1>2. ScanOf(t, Entries, there, up, scan)
  <2> HIDE DEF there, first, t
  <2> QED BY <1>1, ScanFromIs DEF first
<1>3. d = [entries |-> SubSeq(pairs, 1, n), ok |-> IF stops = {} THEN scan.ok ELSE ~below(n + 1)]
  BY DEF Getdents
<1> HIDE DEF d, scan, there
<1>4. /\ pairs \in Seq(Path \X Entries) /\ scan.ok \in BOOLEAN /\ Sorted("path", pairs)
      /\ \A q \in ToSet(pairs) : q \in Listed(t, Entries) /\ ~Before("path", q[1], first)
      /\ \A kv \in Listed(t, Entries), q \in ToSet(pairs) :
            ~Before("path", kv[1], first) /\ Before("path", kv[1], q[1]) => kv \in ToSet(pairs)
      /\ scan.ok => \A kv \in Listed(t, Entries) : ~Before("path", kv[1], first) => kv \in ToSet(pairs)
  <2>1. \A kv \in Listed(t, Entries) : kv[1] \in Path
    BY DEF Listed
  <2> HIDE DEF first, t
  <2> QED BY <1>1, <1>2, <2>1 DEF ScanOf
<1> HIDE DEF up
<1> DEFINE L == Len(pairs)
<1>5. L \in Nat /\ DOMAIN pairs = 1 .. L /\ \A i \in 1 .. L : pairs[i] \in ToSet(pairs) /\ pairs[i][1] \in Path
  <2>1. L \in Nat /\ DOMAIN pairs = 1 .. L /\ \A i \in 1 .. L : pairs[i] \in Path \X Entries
    BY <1>4
  <2> QED BY <2>1 DEF ToSet
<1>6. /\ n \in 0 .. L /\ \A i \in 1 .. n : i \in 1 .. L /\ below(i) /\ Resolves(r, pairs[i][2])
      /\ stops # {} => n + 1 \in 1 .. L /\ n + 1 \in stops
  <2>1. CASE stops = {}
    <3>1. \A i \in DOMAIN pairs : below(i) /\ Resolves(r, pairs[i][2])
      BY <2>1
    <3> HIDE DEF pairs, below
    <3> QED BY <1>5, <2>1, <3>1
  <2>2. CASE stops # {}
    <3>1. stops \subseteq Nat
      BY <1>5
    <3>2. Min(stops) \in stops /\ \A x \in stops : Min(stops) <= x
      BY <2>2, <3>1, LeastOf
    <3>3. Min(stops) \in 1 .. L /\ n = Min(stops) - 1
      BY <1>5, <2>2, <3>2
    <3>4. \A i \in 1 .. n : i \in 1 .. L /\ i \notin stops
      <4> HIDE DEF stops, n, L
      <4>1. \A i \in 1 .. n : i \in 1 .. L /\ ~(Min(stops) <= i)
        BY <1>5, <3>3
      <4> QED BY <3>2, <4>1
    <3>5. \A i \in 1 .. L : i \notin stops => below(i) /\ Resolves(r, pairs[i][2])
      BY <1>5
    <3> HIDE DEF pairs, below, n, stops, L
    <3> QED BY <1>5, <3>2, <3>3, <3>4, <3>5
  <2> QED BY <2>1, <2>2
<1>7. /\ d.entries \in Seq(Path \X Entries) /\ Len(d.entries) = n /\ \A i \in 1 .. n : d.entries[i] = pairs[i]
  <2> DEFINE PV == Path \X Entries
  <2>1. d.entries = SubSeq(pairs, 1, n)
    BY <1>3
  <2> HIDE DEF n, pairs, PV
  <2>2. 1 \in 1 .. L + 1 /\ n \in 1 - 1 .. L /\ n - 1 + 1 = n /\ pairs \in Seq(PV) /\ \A i \in 1 .. n : 1 + i - 1 = i
    BY <1>4, <1>5, <1>6 DEF PV
  <2>3. SubSeq(pairs, 1, n) \in Seq(PV) /\ Len(SubSeq(pairs, 1, n)) = n - 1 + 1
        /\ \A i \in 1 .. n - 1 + 1 : SubSeq(pairs, 1, n)[i] = pairs[1 + i - 1]
    BY <2>2, SubSeqProperties
  <2> QED BY <2>1, <2>2, <2>3 DEF PV
<1>8. d.ok = IF stops = {} THEN scan.ok ELSE ~below(n + 1)
  BY <1>3
<1> HIDE DEF n
<1>9. \A i \in 1 .. Len(d.entries) :
          /\ d.entries[i] \in Listed(t, Entries) /\ IsEntryBelow(dir, d.entries[i][1]) /\ Resolves(r, d.entries[i][2])
  BY <1>4, <1>5, <1>6, <1>7
<1>10. \A i, j \in 1 .. Len(d.entries) : d.entries[i][1] = d.entries[j][1] => i = j
  <2> SUFFICES ASSUME NEW i \in 1 .. n, NEW j \in 1 .. n, pairs[i][1] = pairs[j][1], i # j PROVE FALSE
    BY <1>7
  <2>1. i \in 1 .. L /\ j \in 1 .. L /\ ~Before("path", pairs[i][1], pairs[i][1])
    BY <1>5, <1>6, Ordered DEF Cmps
  <2>2. i < j \/ j < i
    BY <1>5, <2>1
  <2> QED BY <1>4, <1>5, <2>1, <2>2 DEF Sorted
<1>11. ASSUME d.ok, NEW kv \in Listed(t, Entries), IsEntryBelow(dir, kv[1])
       PROVE  \E i \in 1 .. Len(d.entries) : d.entries[i] = kv
  <2>1. kv[1] \in Path
    BY DEF Listed
  <2>2. ~Before("path", kv[1], first)
    BY <1>11, <2>1, NotBeforeTheFirst
  <2>3. CASE stops = {}
    <3>1. kv \in ToSet(pairs)
      BY <1>4, <1>8, <1>11, <2>2, <2>3
    <3>2. PICK i \in 1 .. L : pairs[i] = kv
      BY <1>5, <3>1 DEF ToSet
    <3>3. n = L
      BY <2>3 DEF n
    <3> QED BY <1>7, <3>2, <3>3
  <2>4. CASE stops # {}
    <3> DEFINE q == pairs[n + 1]
    <3>1. n + 1 \in 1 .. L /\ ~below(n + 1)
      BY <1>6, <1>8, <1>11, <2>4
    <3>2. q \in ToSet(pairs) /\ q[1] \in Path /\ ~IsEntryBelow(dir, q[1]) /\ ~Before("path", q[1], first)
      BY <1>4, <1>5, <3>1
    <3> HIDE DEF q, first
    <3>3. Before("path", kv[1], q[1])
      BY <1>11, <2>1, <3>2, BelowIsConvex DEF first, FirstBelow
    <3>4. kv \in ToSet(pairs)
      BY <1>4, <2>2, <3>2, <3>3
    <3>5. PICK i \in 1 .. L : pairs[i] = kv
      BY <1>5, <3>4 DEF ToSet
    <3>6. i < n + 1
      <4> SUFFICES ASSUME ~(i < n + 1) PROVE FALSE
        OBVIOUS
      <4>1. i = n + 1 \/ n + 1 < i
        BY <1>6, <3>1, <3>5
      <4>2. CASE i = n + 1
        BY <1>11, <3>1, <3>5, <4>2
      <4>3. CASE n + 1 < i
        <5>1. Before("path", q[1], kv[1])
          BY <1>4, <1>5, <3>1, <3>5, <4>3 DEF Sorted, q
        <5> QED BY <2>1, <3>2, <3>3, <5>1, Ordered DEF Cmps
      <4> QED BY <4>1, <4>2, <4>3
    <3>7. i \in 1 .. n
      BY <1>6, <3>6
    <3> QED BY <1>7, <3>5, <3>7
  <2> QED BY <2>3, <2>4
<1>12. d.ok \in BOOLEAN
  BY <1>4, <1>8
<1> QED BY <1>7, <1>9, <1>10, <1>11, <1>12 DEF Dents, d

-----------------------------------------------------------------------------
\* One eval of the walk, when the visits of what is below a directory are known.

VisitSet == [visits : Seq(Path \X Entries), ok : BOOLEAN]

Failing(d, f) == {i \in DOMAIN d.entries : ~f[d.entries[i][1]].ok}
Reached(d, f) == IF Failing(d, f) = {} THEN Len(d.entries) ELSE Min(Failing(d, f))
Piece(d, f, i) == <<d.entries[i]>> \o f[d.entries[i][1]].visits
Pieces(d, f) == [i \in 1 .. Reached(d, f) |-> Piece(d, f, i)]

VisitOf(r, s, path, f) ==
    LET d == Getdents(r, s, path)
    IN  IF path \notin Dirs THEN [visits |-> <<>>, ok |-> TRUE]
        ELSE [visits |-> FlattenSeq(Pieces(d, f)), ok |-> Failing(d, f) = {} /\ d.ok]

\* The keys of an index are pathnames of the source, and what is above one of them
\* is a directory.
LEMMA KeysAre ==
    ASSUME NEW t, IsIndex(t), NEW kv \in Listed(t, Entries)
    PROVE  /\ kv[1] \in Paths /\ kv \in Path \X Entries
           /\ \A dir \in Path : IsEntryBelow(dir, kv[1]) => dir \in Dirs
<1>1. kv \in Path \X Entries /\ kv[1] \in Path
  BY DEF Listed
<1>2. PICK k, e : k = kv[1] /\ e = kv[2]
  OBVIOUS
<1>3. kv = <<k, e>>
  BY <1>1, <1>2
<1>4. kv[1] \in Paths
  BY <1>2, <1>3, PathsAre DEF IsIndex, IndexOf
<1> QED BY <1>1, <1>4, AncestorsAre, BelowIsStrict

\* How many entries of a directory the walk gets to.
LEMMA ReachedIs ==
    ASSUME NEW d, NEW f, d.entries \in Seq(Path \X Entries)
    PROVE  /\ Reached(d, f) \in 0 .. Len(d.entries)
           /\ Failing(d, f) = {} => Reached(d, f) = Len(d.entries)
<1> DEFINE L == Len(d.entries)
<1>1. L \in Nat /\ DOMAIN d.entries = 1 .. L
  OBVIOUS
<1>2. CASE Failing(d, f) = {}
  BY <1>1, <1>2 DEF Reached
<1>3. CASE Failing(d, f) # {}
  <2>1. Failing(d, f) \subseteq 1 .. L
    BY <1>1 DEF Failing
  <2>2. Min(Failing(d, f)) \in Failing(d, f)
    BY <1>1, <1>3, <2>1, LeastOf
  <2> QED BY <1>1, <1>3, <2>1, <2>2 DEF Reached
<1> QED BY <1>2, <1>3

\* What the walk visits for one entry of a directory: the entry, then what is
\* below it.
LEMMA PieceIs ==
    ASSUME NEW d, NEW f, d.entries \in Seq(Path \X Entries), NEW i \in 1 .. Len(d.entries),
           f[d.entries[i][1]] \in VisitSet
    PROVE  LET v == f[d.entries[i][1]].visits
           IN  /\ Piece(d, f, i) \in Seq(Path \X Entries) /\ Len(Piece(d, f, i)) = Len(v) + 1
               /\ Piece(d, f, i)[1] = d.entries[i]
               /\ \A j \in 1 .. Len(v) : Piece(d, f, i)[j + 1] = v[j]
               /\ \A j \in 1 .. Len(v) + 1 : j = 1 \/ (j - 1 \in 1 .. Len(v) /\ Piece(d, f, i)[j] = v[j - 1])
<1> DEFINE PV == Path \X Entries
           v  == f[d.entries[i][1]].visits
           e  == d.entries[i]
           u  == <<e>> \o v
<1>1. v \in Seq(PV) /\ e \in PV
  BY DEF VisitSet
<1> HIDE DEF v, e, PV
<1>2. <<e>> \in Seq(PV) /\ Len(<<e>>) = 1 /\ <<e>>[1] = e
  BY <1>1
<1>3. u \in Seq(PV) /\ Len(u) = 1 + Len(v) /\ \A j \in 1 .. 1 + Len(v) : u[j] = IF j <= 1 THEN <<e>>[j] ELSE v[j - 1]
  BY <1>1, <1>2, ConcatProperties
<1>4. Len(v) \in Nat
  BY <1>1
<1> HIDE DEF u
<1>5. Len(u) = Len(v) + 1 /\ u[1] = e
  <2>1. 1 \in 1 .. 1 + Len(v) /\ 1 <= 1
    BY <1>4
  <2> QED BY <1>2, <1>3, <1>4, <2>1
<1>6. ASSUME NEW j \in 1 .. Len(v) PROVE u[j + 1] = v[j]
  <2>1. j + 1 \in 1 .. 1 + Len(v) /\ ~(j + 1 <= 1) /\ (j + 1) - 1 = j
    BY <1>4
  <2> QED BY <1>3, <2>1
<1>7. ASSUME NEW j \in 1 .. Len(v) + 1, j # 1 PROVE j - 1 \in 1 .. Len(v) /\ u[j] = v[j - 1]
  <2>1. j \in 1 .. 1 + Len(v) /\ ~(j <= 1) /\ j - 1 \in 1 .. Len(v)
    BY <1>4, <1>7
  <2> QED BY <1>3, <2>1
<1>8. Piece(d, f, i) = u
  BY DEF Piece, u, e, v
<1> QED BY <1>3, <1>5, <1>6, <1>7, <1>8 DEF v, e, PV

\* What the walk visits for a directory, entry by entry.
LEMMA PiecesAre ==
    ASSUME NEW d, NEW f, d.entries \in Seq(Path \X Entries), \A i \in 1 .. Len(d.entries) : f[d.entries[i][1]] \in VisitSet
    PROVE  /\ Pieces(d, f) \in Seq(Seq(Path \X Entries)) /\ Len(Pieces(d, f)) = Reached(d, f)
           /\ \A i \in 1 .. Reached(d, f) : Pieces(d, f)[i] = Piece(d, f, i)
<1> DEFINE PV == Path \X Entries
           n == Reached(d, f)
<1>1. n \in Nat /\ \A i \in 1 .. n : i \in 1 .. Len(d.entries)
  <2> HIDE DEF n
  <2>1. n \in 0 .. Len(d.entries)
    BY ReachedIs DEF n
  <2>2. Len(d.entries) \in Nat
    OBVIOUS
  <2> QED BY <2>1, <2>2
<1>2. \A i \in 1 .. n : Piece(d, f, i) \in Seq(PV)
  BY <1>1, PieceIs
<1> HIDE DEF n, PV
<1>3. [i \in 1 .. n |-> Piece(d, f, i)] \in [1 .. n -> Seq(PV)]
  BY <1>2
<1>4. [i \in 1 .. n |-> Piece(d, f, i)] \in Seq(Seq(PV)) /\ Len([i \in 1 .. n |-> Piece(d, f, i)]) = n
  BY <1>1, <1>3
<1> QED BY <1>4 DEF Pieces, n, PV

\* One step of the walk is a visit when those below are.
LEMMA VisitOfIs ==
    ASSUME NEW r, NEW s, IsIndex(s.vfs), NEW path \in Paths, NEW f,
           \A q \in Paths : IsEntryBelow(path, q) => f[q] \in VisitSet
    PROVE  VisitOf(r, s, path, f) \in VisitSet
<1> DEFINE d == Getdents(r, s, path)
<1>1. Dents(r, s.vfs, path, d) /\ path \in Path
  BY PathsAre, GetdentsIs
<1> HIDE DEF d
<1>2. /\ d.entries \in Seq(Path \X Entries) /\ d.ok \in BOOLEAN
      /\ \A i \in 1 .. Len(d.entries) : d.entries[i] \in Listed(s.vfs, Entries) /\ IsEntryBelow(path, d.entries[i][1])
  BY <1>1 DEF Dents
<1>3. \A i \in 1 .. Len(d.entries) : f[d.entries[i][1]] \in VisitSet
  BY <1>2, KeysAre
<1>4. FlattenSeq(Pieces(d, f)) \in Seq(Path \X Entries)
  BY <1>2, <1>3, PiecesAre, FlattenSeqIs
<1>5. <<>> \in Seq(Path \X Entries)
  OBVIOUS
<1> QED BY <1>2, <1>4, <1>5 DEF VisitOf, VisitSet, d

\* How many paths are longer.
Deeper == [p \in Paths |-> Cardinality({q \in Paths : Len(p) < Len(q)})]

\* A pathname that is longer has fewer pathnames that are longer still: the walk
\* goes down only so far.
LEMMA DeeperIs ==
    /\ Deeper \in [Paths -> Nat]
    /\ \A p, q \in Paths : Len(p) < Len(q) => Deeper[q] < Deeper[p]
<1>0. \A p \in Paths : Len(p) \in Nat
  BY PathsAre DEF Path
<1> DEFINE S(p) == {q \in Paths : Len(p) < Len(q)}
<1>1. \A p \in Paths : S(p) \in SUBSET Paths /\ IsFiniteSet(S(p)) /\ Cardinality(S(p)) \in Nat
  BY PathsAre, FS_Subset, FS_CardinalityType
<1>2. ASSUME NEW p \in Paths, NEW q \in Paths, Len(p) < Len(q) PROVE Deeper[q] < Deeper[p]
  <2>1. S(q) \in SUBSET S(p) /\ q \in S(p) /\ q \notin S(q)
    BY <1>0, <1>2
  <2>2. Cardinality(S(q)) <= Cardinality(S(p)) /\ (Cardinality(S(p)) = Cardinality(S(q)) => S(p) = S(q))
    <3> HIDE DEF S
    <3> QED BY <1>1, <2>1, FS_Subset
  <2>3. Deeper[q] = Cardinality(S(q)) /\ Deeper[p] = Cardinality(S(p))
    BY DEF Deeper
  <2>4. S(p) # S(q)
    BY <2>1
  <2> HIDE DEF S
  <2> QED BY <1>1, <2>2, <2>3, <2>4
<1>3. Deeper \in [Paths -> Nat]
  BY <1>1 DEF Deeper
<1> QED BY <1>2, <1>3

\* The walk, step by step (walkdir calls itself on each entry that is a
\* directory).
LEMMA VisitsAre ==
    ASSUME NEW r, NEW s, IsIndex(s.vfs)
    PROVE  /\ Visits(r, s) \in [Paths -> VisitSet]
           /\ \A path \in Paths : Visits(r, s)[path] = VisitOf(r, s, path, Visits(r, s))
<1> DEFINE eval == [p \in Paths |-> [f \in [Paths -> VisitSet] |-> VisitOf(r, s, p, f)]]
<1>1. VisitSet # {}
  <2>1. [visits |-> <<>>, ok |-> TRUE] \in VisitSet
    BY DEF VisitSet
  <2> QED BY <2>1
<1>2. eval \in [Paths -> [[Paths -> VisitSet] -> VisitSet]]
  BY VisitOfIs
<1>3. ASSUME NEW p \in Paths, NEW f \in [Paths -> VisitSet], NEW g \in [Paths -> VisitSet],
             \A y \in Paths : Deeper[y] < Deeper[p] => f[y] = g[y]
      PROVE  VisitOf(r, s, p, f) = VisitOf(r, s, p, g)
  <2> DEFINE d == Getdents(r, s, p)
  <2>1. Dents(r, s.vfs, p, d) /\ p \in Path
    BY PathsAre, GetdentsIs
  <2> HIDE DEF d
  <2>2. ASSUME NEW i \in DOMAIN d.entries PROVE f[d.entries[i][1]] = g[d.entries[i][1]]
    <3>1. i \in 1 .. Len(d.entries)
      BY <2>1, <2>2 DEF Dents
    <3>2. d.entries[i][1] \in Paths /\ IsEntryBelow(p, d.entries[i][1])
      BY <2>1, <3>1, KeysAre DEF Dents
    <3>3. Len(p) < Len(d.entries[i][1])
      BY <2>1, <3>2, PathsAre, BelowIsStrict, BelowIs
    <3> QED BY <1>3, <3>2, <3>3, DeeperIs
  <2>3. Failing(d, f) = Failing(d, g)
    BY <2>2 DEF Failing
  <2>4. Reached(d, f) = Reached(d, g)
    BY <2>3 DEF Reached
  <2>5. \A i \in 1 .. Reached(d, f) : i \in DOMAIN d.entries
    <3>1. d.entries \in Seq(Path \X Entries)
      BY <2>1 DEF Dents
    <3>2. Reached(d, f) \in 0 .. Len(d.entries) /\ Len(d.entries) \in Nat /\ DOMAIN d.entries = 1 .. Len(d.entries)
      BY <3>1, ReachedIs
    <3> QED BY <3>2
  <2>6. \A i \in 1 .. Reached(d, f) : Piece(d, f, i) = Piece(d, g, i)
    BY <2>2, <2>5 DEF Piece
  <2>7. Pieces(d, f) = Pieces(d, g)
    BY <2>4, <2>6 DEF Pieces
  <2> QED BY <2>3, <2>7 DEF VisitOf, d
<1>4. Recursive(Paths, VisitSet, Deeper, eval)
  <2>1. \A p \in Paths, f, g \in [Paths -> VisitSet] :
           (\A y \in Paths : Deeper[y] < Deeper[p] => f[y] = g[y]) => eval[p][f] = eval[p][g]
    BY <1>3
  <2> HIDE DEF eval
  <2> QED BY <1>1, <1>2, <2>1, DeeperIs DEF Recursive
<1>5. PICK f \in [Paths -> VisitSet] : \A p \in Paths : f[p] = eval[p][f]
  <2> HIDE DEF eval
  <2> QED BY <1>4, RecursiveFunction
<1>6. f = [p \in Paths |-> VisitOf(r, s, p, f)]
  BY <1>5
<1> DEFINE visit == CHOOSE g : g = [p \in Paths |-> VisitOf(r, s, p, g)]
<1>7. visit = [p \in Paths |-> VisitOf(r, s, p, visit)]
  BY <1>6
<1> DEFINE As(g) == [path \in Paths |->
            IF path \notin Dirs THEN [visits |-> <<>>, ok |-> TRUE] ELSE WalkBelow(Getdents(r, s, path), g)]
<1>8. ASSUME NEW g PROVE As(g) = [p \in Paths |-> VisitOf(r, s, p, g)]
  <2> SUFFICES ASSUME NEW p \in Paths PROVE As(g)[p] = VisitOf(r, s, p, g)
    OBVIOUS
  <2> DEFINE d == Getdents(r, s, p)
             below == [i \in DOMAIN d.entries |-> g[d.entries[i][1]]]
             bad   == {i \in DOMAIN below : ~below[i].ok}
             n     == IF bad = {} THEN Len(below) ELSE Min(bad)
             parts == [i \in 1 .. n |-> <<d.entries[i]>> \o below[i].visits]
  <2>1. Dents(r, s.vfs, p, d)
    BY PathsAre, GetdentsIs
  <2>2. As(g)[p] = IF p \notin Dirs THEN [visits |-> <<>>, ok |-> TRUE]
                   ELSE [visits |-> FlattenSeq(parts), ok |-> bad = {} /\ d.ok]
    BY DEF WalkBelow
  <2> HIDE DEF As
  <2>3. d.entries \in Seq(Path \X Entries)
    BY <2>1 DEF Dents
  <2> HIDE DEF d
  <2>4. bad = Failing(d, g)
    BY DEF Failing
  <2>5. Len(below) = Len(d.entries)
    BY <2>3
  <2>6. n = Reached(d, g)
    BY <2>4, <2>5 DEF Reached
  <2>7. \A i \in 1 .. n : i \in DOMAIN d.entries
    <3>1. Reached(d, g) \in 0 .. Len(d.entries) /\ Len(d.entries) \in Nat /\ DOMAIN d.entries = 1 .. Len(d.entries)
      BY <2>3, ReachedIs
    <3> HIDE DEF n
    <3> QED BY <2>6, <3>1
  <2>8. \A i \in 1 .. n : <<d.entries[i]>> \o below[i].visits = Piece(d, g, i)
    <3> HIDE DEF n
    <3> QED BY <2>7 DEF Piece
  <2>9. parts = Pieces(d, g)
    <3> HIDE DEF n, below
    <3> QED BY <2>6, <2>8 DEF Pieces
  <2> HIDE DEF parts, bad
  <2> QED BY <2>2, <2>4, <2>9 DEF VisitOf, d
<1>9. Visits(r, s) = CHOOSE g : g = As(g)
  BY DEF Visits
<1> HIDE DEF As
<1>10. Visits(r, s) = visit
  BY <1>8, <1>9
<1> HIDE DEF visit
<1>11. ASSUME NEW p \in Paths, \A y \in Paths : Deeper[y] < Deeper[p] => y \in {q \in Paths : visit[q] \in VisitSet}
       PROVE  p \in {q \in Paths : visit[q] \in VisitSet}
  <2>1. ASSUME NEW q \in Paths, IsEntryBelow(p, q) PROVE visit[q] \in VisitSet
    <3>1. Len(p) < Len(q)
      BY <2>1, PathsAre, BelowIsStrict, BelowIs
    <3> QED BY <1>11, <3>1, DeeperIs
  <2>2. VisitOf(r, s, p, visit) \in VisitSet
    BY <2>1, VisitOfIs
  <2>3. visit[p] = VisitOf(r, s, p, visit)
    BY <1>7
  <2> QED BY <2>2, <2>3
<1>12. Paths \subseteq {q \in Paths : visit[q] \in VisitSet}
  <2> DEFINE S == {q \in Paths : visit[q] \in VisitSet}
  <2>1. \A p \in Paths : (\A y \in Paths : Deeper[y] < Deeper[p] => y \in S) => p \in S
    BY <1>11
  <2> HIDE DEF S
  <2>2. Paths \subseteq S
    BY <2>1, DeeperIs, MeasureInduction
  <2> QED BY <2>2 DEF S
<1>13. visit \in [Paths -> VisitSet]
  BY <1>7, <1>12
<1> QED BY <1>7, <1>10, <1>13

-----------------------------------------------------------------------------
\* What the walk from a directory has visited: entries of the index below it that
\* resolve, each once, and all of them when nothing failed.
Visited(r, t, path, w) ==
    /\ w \in VisitSet
    /\ \A i \in 1 .. Len(w.visits) :
          /\ w.visits[i] \in Listed(t, Entries) /\ IsStrictPrefix(path, w.visits[i][1]) /\ Resolves(r, w.visits[i][2])
    /\ \A i, j \in 1 .. Len(w.visits) : w.visits[i][1] = w.visits[j][1] => i = j
    /\ w.ok => \A kv \in Listed(t, Entries) : IsStrictPrefix(path, kv[1]) => kv \in ToSet(w.visits)

\* A piece: an entry, and what was visited below it.
PieceOf(r, t, path, d, f, i, p) ==
    LET key == d.entries[i][1]
    IN  /\ \A j \in 1 .. Len(p) :
              /\ p[j] \in Listed(t, Entries) /\ IsStrictPrefix(path, p[j][1]) /\ Resolves(r, p[j][2])
              /\ p[j][1] = key \/ IsStrictPrefix(key, p[j][1])
        /\ \A j, k \in 1 .. Len(p) : p[j][1] = p[k][1] => j = k
        /\ d.entries[i] \in ToSet(p) /\ ToSet(f[key].visits) \subseteq ToSet(p)

\* What is visited for an entry of a directory is that entry and what is below it,
\* none of it twice.
LEMMA PieceVisits ==
    ASSUME NEW r, NEW t, IsIndex(t), NEW path \in Path, NEW d, Dents(r, t, path, d), NEW f,
           NEW i \in 1 .. Len(d.entries), Visited(r, t, d.entries[i][1], f[d.entries[i][1]])
    PROVE  PieceOf(r, t, path, d, f, i, Piece(d, f, i))
<1> DEFINE e == d.entries[i]
           key == e[1]
           v == f[key].visits
           p == Piece(d, f, i)
<1>1. /\ d.entries \in Seq(Path \X Entries) /\ e \in Listed(t, Entries) /\ IsEntryBelow(path, key) /\ Resolves(r, e[2])
  BY DEF Dents
<1>2. key \in Path /\ \A kv \in Listed(t, Entries) : kv[1] \in Path
  BY <1>1 DEF Listed
<1>3. /\ f[key] \in VisitSet /\ v \in Seq(Path \X Entries)
      /\ \A j \in 1 .. Len(v) : v[j] \in Listed(t, Entries) /\ IsStrictPrefix(key, v[j][1]) /\ Resolves(r, v[j][2])
      /\ \A j, k \in 1 .. Len(v) : v[j][1] = v[k][1] => j = k
  BY DEF Visited, VisitSet
<1>4. /\ p \in Seq(Path \X Entries) /\ Len(p) = Len(v) + 1 /\ p[1] = e
      /\ \A j \in 1 .. Len(v) : p[j + 1] = v[j]
      /\ \A j \in 1 .. Len(v) + 1 : j = 1 \/ (j - 1 \in 1 .. Len(v) /\ p[j] = v[j - 1])
  BY <1>1, <1>3, PieceIs
<1> HIDE DEF p, v, key, e
<1>5. Len(v) \in Nat /\ DOMAIN v = 1 .. Len(v) /\ DOMAIN p = 1 .. Len(p)
  BY <1>3, <1>4
<1>6. IsStrictPrefix(path, key) /\ \A c \in Path : IsStrictPrefix(key, c) => IsStrictPrefix(path, c) /\ c # key
  BY <1>1, <1>2, BelowIsStrict DEF IsStrictPrefix
<1>7. ASSUME NEW j \in 1 .. Len(p)
      PROVE  /\ p[j] \in Listed(t, Entries) /\ IsStrictPrefix(path, p[j][1]) /\ Resolves(r, p[j][2])
             /\ (j = 1 /\ p[j][1] = key) \/ (j # 1 /\ IsStrictPrefix(key, p[j][1]))
  <2>1. CASE j = 1
    BY <1>1, <1>4, <1>6, <2>1 DEF key
  <2>2. CASE j # 1
    <3>1. j - 1 \in 1 .. Len(v) /\ p[j] = v[j - 1]
      BY <1>4, <2>2
    <3>2. p[j] \in Listed(t, Entries) /\ IsStrictPrefix(key, p[j][1]) /\ Resolves(r, p[j][2])
      BY <1>3, <3>1
    <3> QED BY <1>2, <1>6, <2>2, <3>2
  <2> QED BY <2>1, <2>2
<1>8. ASSUME NEW j \in 1 .. Len(p), NEW k \in 1 .. Len(p), p[j][1] = p[k][1] PROVE j = k
  <2>1. p[j][1] \in Path /\ p[k][1] \in Path
    BY <1>2, <1>7
  <2>2. CASE j = 1 \/ k = 1
    BY <1>6, <1>7, <1>8, <2>1, <2>2
  <2>3. CASE j # 1 /\ k # 1
    <3>1. j - 1 \in 1 .. Len(v) /\ p[j] = v[j - 1] /\ k - 1 \in 1 .. Len(v) /\ p[k] = v[k - 1]
      BY <1>4, <2>3
    <3>2. j - 1 = k - 1
      BY <1>3, <1>8, <3>1
    <3> QED BY <1>4, <1>5, <3>2
  <2> QED BY <2>2, <2>3
<1>9. e \in ToSet(p) /\ ToSet(v) \subseteq ToSet(p)
  <2>1. 1 \in 1 .. Len(p) /\ \A j \in 1 .. Len(v) : j + 1 \in 1 .. Len(p)
    BY <1>4, <1>5
  <2>2. \A j \in 1 .. Len(p) : p[j] \in ToSet(p)
    BY <1>5 DEF ToSet
  <2>3. \A x \in ToSet(v) : \E j \in 1 .. Len(v) : x = v[j]
    BY <1>5 DEF ToSet
  <2> QED BY <1>4, <2>1, <2>2, <2>3
<1> QED BY <1>7, <1>8, <1>9 DEF PieceOf, p, v, key, e

\* When each entry of a directory is visited as it should be, so is the directory:
\* two entries have nothing below both.
LEMMA VisitedStep ==
    ASSUME NEW r, NEW s, IsIndex(s.vfs), NEW path \in Paths, NEW f,
           \A q \in Paths : IsEntryBelow(path, q) => Visited(r, s.vfs, q, f[q])
    PROVE  Visited(r, s.vfs, path, VisitOf(r, s, path, f))
<1> DEFINE t == s.vfs
           d == Getdents(r, s, path)
           n == Reached(d, f)
           ss == Pieces(d, f)
           w == VisitOf(r, s, path, f)
<1>1. Dents(r, t, path, d) /\ path \in Path
  BY PathsAre, GetdentsIs
<1>2. \A kv \in Listed(t, Entries) : kv[1] \in Path /\ kv[1] \in Paths /\ kv \in Path \X Entries
  BY KeysAre, PathsAre
<1>3. w = IF path \notin Dirs THEN [visits |-> <<>>, ok |-> TRUE]
          ELSE [visits |-> FlattenSeq(ss), ok |-> Failing(d, f) = {} /\ d.ok]
  BY DEF VisitOf
<1> HIDE DEF w, d
<1>4. /\ d.entries \in Seq(Path \X Entries) /\ d.ok \in BOOLEAN
      /\ \A i \in 1 .. Len(d.entries) : d.entries[i] \in Listed(t, Entries) /\ IsEntryBelow(path, d.entries[i][1])
      /\ \A i, j \in 1 .. Len(d.entries) : d.entries[i][1] = d.entries[j][1] => i = j
  BY <1>1 DEF Dents
<1>5. \A i \in 1 .. Len(d.entries) : Visited(r, t, d.entries[i][1], f[d.entries[i][1]])
  BY <1>2, <1>4
<1>6. CASE path \notin Dirs
  <2>1. w = [visits |-> <<>>, ok |-> TRUE]
    BY <1>3, <1>6
  <2>2. w \in VisitSet /\ Len(w.visits) = 0
    <3>1. <<>> \in Seq(Path \X Entries) /\ Len(<<>>) = 0
      OBVIOUS
    <3> QED BY <2>1, <3>1 DEF VisitSet
  <2>3. \A kv \in Listed(t, Entries) : ~IsStrictPrefix(path, kv[1])
    BY <1>1, <1>2, <1>6, AncestorsAre
  <2>4. \A i \in 1 .. Len(w.visits) : FALSE
    BY <2>2
  <2>5. /\ \A i \in 1 .. Len(w.visits) :
              /\ w.visits[i] \in Listed(t, Entries) /\ IsStrictPrefix(path, w.visits[i][1]) /\ Resolves(r, w.visits[i][2])
        /\ \A i, j \in 1 .. Len(w.visits) : w.visits[i][1] = w.visits[j][1] => i = j
    BY <2>4
  <2> QED BY ONLY <2>2, <2>3, <2>5 DEF Visited, w
<1>7. CASE path \in Dirs
  <2> DEFINE PV == Path \X Entries
             flat == FlattenSeq(ss)
  <2>1. w = [visits |-> flat, ok |-> Failing(d, f) = {} /\ d.ok]
    BY <1>3, <1>7
  <2>2. \A i \in 1 .. Len(d.entries) : f[d.entries[i][1]] \in VisitSet
    BY <1>5 DEF Visited
  <2>3. /\ ss \in Seq(Seq(PV)) /\ Len(ss) = n /\ \A i \in 1 .. n : ss[i] = Piece(d, f, i)
    BY <1>4, <2>2, PiecesAre
  <2>4. \A i \in 1 .. n : i \in 1 .. Len(d.entries)
    <3>1. Reached(d, f) \in 0 .. Len(d.entries) /\ Len(d.entries) \in Nat
      BY <1>4, ReachedIs
    <3> QED BY <3>1
  <2>5. Failing(d, f) = {} => n = Len(d.entries)
    BY <1>4, ReachedIs
  <2> HIDE DEF ss, n, PV
  <2>6. flat \in Seq(PV)
    BY <2>3, FlattenSeqIs
  <2>7. PICK c, x : Places(ss, flat, c, x)
    BY <2>3, FlattenSeqIs
  <2>8. \A v : v \in ToSet(flat) <=> \E i \in 1 .. n : v \in ToSet(ss[i])
    BY <2>3, FlattenSeqHas
  <2> HIDE DEF flat
  <2>9. ASSUME NEW i \in 1 .. n
        PROVE  /\ \A j \in 1 .. Len(ss[i]) :
                     /\ ss[i][j] \in Listed(t, Entries) /\ IsStrictPrefix(path, ss[i][j][1]) /\ Resolves(r, ss[i][j][2])
                     /\ ss[i][j][1] = d.entries[i][1] \/ IsStrictPrefix(d.entries[i][1], ss[i][j][1])
               /\ \A j, k \in 1 .. Len(ss[i]) : ss[i][j][1] = ss[i][k][1] => j = k
               /\ d.entries[i] \in ToSet(ss[i]) /\ ToSet(f[d.entries[i][1]].visits) \subseteq ToSet(ss[i])
    <3>1. i \in 1 .. Len(d.entries) /\ ss[i] = Piece(d, f, i)
      BY <2>3, <2>4
    <3>2. PieceOf(r, t, path, d, f, i, ss[i])
      <4> HIDE DEF t
      <4> QED BY <1>1, <1>5, <3>1, PieceVisits DEF t
    <3> QED BY <3>2 DEF PieceOf
  <2>10. \A p \in 1 .. Len(flat) : c[p] \in 1 .. n /\ x[p] \in 1 .. Len(ss[c[p]]) /\ flat[p] = ss[c[p]][x[p]]
    BY <2>3, <2>7 DEF Places
  <2>11. \A p, q \in 1 .. Len(flat) : p < q => c[p] # c[q] \/ x[p] # x[q]
    <3>1. \A p, q \in 1 .. Len(flat) : p < q => c[p] < c[q] \/ (c[p] = c[q] /\ x[p] < x[q])
      BY <2>7 DEF Places
    <3>2. \A p \in 1 .. Len(flat) : c[p] \in Int /\ x[p] \in Int
      BY <2>10
    <3> QED BY <3>1, <3>2
  <2>12. ASSUME NEW p \in 1 .. Len(flat), NEW q \in 1 .. Len(flat), flat[p][1] = flat[q][1], p # q PROVE FALSE
    <3> DEFINE k == flat[p][1]
               a == d.entries[c[p]][1]
               b == d.entries[c[q]][1]
    <3>0. ASSUME NEW u \in 1 .. Len(flat)
          PROVE  /\ flat[u][1] \in Path
                 /\ flat[u][1] = d.entries[c[u]][1] \/ IsStrictPrefix(d.entries[c[u]][1], flat[u][1])
      <4>1. PICK i, j : i = c[u] /\ j = x[u]
        OBVIOUS
      <4>2. i \in 1 .. n /\ j \in 1 .. Len(ss[i]) /\ flat[u] = ss[i][j]
        BY <2>10, <4>1
      <4>3. ss[i][j] \in Listed(t, Entries) /\ (ss[i][j][1] = d.entries[i][1] \/ IsStrictPrefix(d.entries[i][1], ss[i][j][1]))
        BY <2>9, <4>2
      <4> QED BY <1>2, <4>1, <4>2, <4>3
    <3>1. k \in Path /\ (a = k \/ IsStrictPrefix(a, k)) /\ (b = k \/ IsStrictPrefix(b, k))
      BY <2>12, <3>0
    <3>2. a \in Path /\ b \in Path /\ IsEntryBelow(path, a) /\ IsEntryBelow(path, b)
      BY <1>2, <1>4, <2>4, <2>10
    <3>3. a = b
      <4> HIDE DEF k, a, b
      <4> QED BY <1>1, <3>1, <3>2, OneWay
    <3>4. c[p] = c[q]
      BY <1>4, <2>4, <2>10, <3>3
    <3>5. x[p] = x[q]
      <4>1. PICK i, j, l : i = c[p] /\ j = x[p] /\ l = x[q]
        OBVIOUS
      <4>2. i \in 1 .. n /\ j \in 1 .. Len(ss[i]) /\ l \in 1 .. Len(ss[i]) /\ ss[i][j][1] = ss[i][l][1]
        BY <2>10, <2>12, <3>4, <4>1
      <4>3. j = l
        BY <2>9, <4>2
      <4> QED BY <4>1, <4>3
    <3>6. p < q \/ q < p
      BY <2>6, <2>12
    <3> QED BY <2>11, <3>4, <3>5, <3>6
  <2>13. \A p \in 1 .. Len(flat) : flat[p] \in Listed(t, Entries) /\ IsStrictPrefix(path, flat[p][1]) /\ Resolves(r, flat[p][2])
    BY <2>9, <2>10
  <2>14. ASSUME w.ok, NEW kv \in Listed(t, Entries), IsStrictPrefix(path, kv[1]) PROVE kv \in ToSet(flat)
    <3>0. Failing(d, f) = {} /\ d.ok /\ n = Len(d.entries)
      BY <2>1, <2>5, <2>14
    <3> DEFINE k == kv[1]
    <3>1. k \in Path /\ k \in Paths
      BY <1>2
    <3>2. PICK a \in Path : IsEntryBelow(path, a) /\ (a = k \/ IsStrictPrefix(a, k))
      BY <1>1, <2>14, <3>1, OnTheWay
    <3>3. PICK e : <<a, e>> \in Listed(t, Entries) /\ (a = k => <<a, e>> = kv)
      <4>1. CASE a = k
        <5>1. PICK u, v : kv = <<u, v>>
          BY <1>2
        <5> QED BY <4>1, <5>1
      <4>2. CASE a # k
        <5>1. a \in Dirs
          BY <3>1, <3>2, <4>2, AncestorsAre
        <5>2. a \in Paths /\ a # Root /\ k # Root
          <6>1. Len(a) = Len(path) + 1 /\ Len(path) \in Nat /\ Len(a) < Len(k)
            BY <1>1, <3>1, <3>2, <4>2, BelowIs DEF Path
          <6> QED BY <5>1, <6>1, PathsAre DEF Root
        <5>3. ~IndexOf(t, {Root})
          <6> SUFFICES ASSUME IndexOf(t, {Root}) PROVE FALSE
            OBVIOUS
          <6>1. PICK u, v : kv = <<u, v>>
            BY <1>2
          <6>2. u \in {Root}
            BY <6>1 DEF IndexOf
          <6> QED BY <5>2, <6>1, <6>2
        <5>4. \E e : <<a, e>> \in Listed(t, Entries)
          BY <5>2, <5>3 DEF IsIndex, IndexOf
        <5> QED BY <4>2, <5>4
      <4> QED BY <4>1, <4>2
    <3>4. PICK i \in 1 .. n : d.entries[i] = <<a, e>>
      <4>1. <<a, e>>[1] = a
        OBVIOUS
      <4> QED BY <1>1, <3>0, <3>2, <3>3, <4>1 DEF Dents
    <3>5. CASE a = k
      BY <2>8, <2>9, <3>3, <3>4, <3>5
    <3>6. CASE a # k
      <4>1. d.entries[i][1] = a /\ i \in 1 .. Len(d.entries) /\ IsStrictPrefix(a, k)
        BY <2>4, <3>2, <3>4, <3>6
      <4>2. f[a].ok
        <5>1. i \in DOMAIN d.entries
          BY <1>4, <4>1
        <5> QED BY <3>0, <4>1, <5>1 DEF Failing
      <4>3. kv \in ToSet(f[a].visits)
        BY <1>5, <4>1, <4>2 DEF Visited
      <4> QED BY <2>8, <2>9, <4>1, <4>3
    <3> QED BY <3>5, <3>6
  <2>15. w \in VisitSet /\ w.visits = flat
    <3>1. PICK ok \in BOOLEAN : ok = (Failing(d, f) = {} /\ d.ok)
      OBVIOUS
    <3>2. w = [visits |-> flat, ok |-> ok]
      BY <2>1, <3>1
    <3>3. VisitSet = [visits : Seq(PV), ok : BOOLEAN]
      BY DEF VisitSet, PV
    <3>4. w \in [visits : Seq(PV), ok : BOOLEAN]
      BY <2>6, <3>2
    <3>5. w.visits = flat
      BY <3>2
    <3> QED BY <3>3, <3>4, <3>5
  <2>16. \A p, q \in 1 .. Len(flat) : flat[p][1] = flat[q][1] => p = q
    BY <2>12
  <2>17. w.ok => \A kv \in Listed(t, Entries) : IsStrictPrefix(path, kv[1]) => kv \in ToSet(flat)
    BY <2>14
  <2>18. Visited(r, t, path, w)
    BY ONLY <2>13, <2>15, <2>16, <2>17 DEF Visited
  <2> QED BY <2>18 DEF w
<1> QED BY <1>6, <1>7 DEF w

\* The walk from any directory visits only entries below it, none twice, and all
\* of them unless it ends with an error.
LEMMA VisitsVisit ==
    ASSUME NEW r, NEW s, IsIndex(s.vfs)
    PROVE  \A path \in Paths : Visited(r, s.vfs, path, Visits(r, s)[path])
<1> DEFINE f == Visits(r, s)
           S == {p \in Paths : Visited(r, s.vfs, p, f[p])}
<1>1. \A path \in Paths : f[path] = VisitOf(r, s, path, f)
  BY VisitsAre
<1> HIDE DEF f
<1>2. ASSUME NEW p \in Paths, \A y \in Paths : Deeper[y] < Deeper[p] => y \in S PROVE p \in S
  <2>1. ASSUME NEW q \in Paths, IsEntryBelow(p, q) PROVE Visited(r, s.vfs, q, f[q])
    <3>1. Len(p) < Len(q)
      BY <2>1, PathsAre, BelowIsStrict, BelowIs
    <3> QED BY <1>2, <3>1, DeeperIs
  <2>2. Visited(r, s.vfs, p, VisitOf(r, s, p, f))
    BY <2>1, VisitedStep
  <2> QED BY <1>1, <2>2
<1>3. Paths \subseteq S
  <2> HIDE DEF S
  <2> QED BY <1>2, DeeperIs, MeasureInduction
<1> QED BY <1>3 DEF f

-----------------------------------------------------------------------------
\* The walk of a command.
Walked(r, t, visits, ok) ==
    /\ visits \in Seq(Path \X Entries) /\ ok \in BOOLEAN
    /\ \A i \in 1 .. Len(visits) : visits[i] \in Listed(t, Entries) /\ Resolves(r, visits[i][2])
    /\ \A i, j \in 1 .. Len(visits) : visits[i][1] = visits[j][1] => i = j
    /\ ok => \A kv \in Listed(t, Entries) : kv \in ToSet(visits)

\* WalkDir visits entries of the index, none twice, each readable, and every one
\* unless it ends with an error: what restore, check and archive rely on.
THEOREM WalkIs ==
    ASSUME NEW r, NEW s, IsIndex(s.vfs)
    PROVE  Walked(r, s.vfs, Walk(r, s).visits, Walk(r, s).ok)
<1> DEFINE t     == s.vfs
           there == {i \in DOMAIN t.nodes : <<"node", t.nodes[i]>> \in Readable(r)}
           scan  == ScanFrom(t, there, Root)
           root  == scan.pairs
           below == Visits(r, s)[Root]
           w     == Walk(r, s)
           PV    == Path \X Entries
<1>1. w = IF root = <<>> \/ ~Resolves(r, Head(root)[2]) THEN [visits |-> <<>>, ok |-> FALSE]
          ELSE [below EXCEPT !.visits = <<Head(root)>> \o @]
  BY DEF Walk
<1>2. IsTree(t, Entries) /\ t.cmp = "path" /\ Root \in Path /\ Root \in Paths
  BY PathsAre DEF IsIndex, IndexOf
<1>3. ScanOf(t, Entries, there, {l \in Path : ~Before(t.cmp, l, Root)}, scan)
  <2> HIDE DEF there, t
  <2> QED BY <1>2, ScanFromIs
<1>4. Visited(r, t, Root, below)
  BY <1>2, VisitsVisit
<1> HIDE DEF w, scan, there, below
<1>5. CASE root = <<>> \/ ~Resolves(r, Head(root)[2])
  <2>1. w.visits = <<>> /\ w.ok = FALSE
    BY <1>1, <1>5
  <2>2. <<>> \in Seq(PV) /\ Len(<<>>) = 0
    OBVIOUS
  <2>3. \A i \in 1 .. Len(w.visits) : FALSE
    BY <2>1, <2>2
  <2> QED BY <2>1, <2>2, <2>3 DEF Walked, w
<1>6. CASE ~(root = <<>> \/ ~Resolves(r, Head(root)[2]))
  <2> DEFINE e == Head(root)
             v == below.visits
             p == <<e>> \o v
  <2>1. /\ root \in Seq(PV) /\ Sorted("path", root)
        /\ \A q \in ToSet(root) : q \in Listed(t, Entries)
        /\ \A kv \in Listed(t, Entries), q \in ToSet(root) :
              ~Before("path", kv[1], Root) /\ Before("path", kv[1], q[1]) => kv \in ToSet(root)
    <3>1. \A kv \in Listed(t, Entries) : kv[1] \in Path
      BY DEF Listed
    <3> HIDE DEF t
    <3> QED BY <1>2, <1>3, <3>1 DEF ScanOf
  <2>2. root # <<>> /\ Len(root) \in Nat \ {0} /\ e = root[1] /\ e \in ToSet(root) /\ DOMAIN root = 1 .. Len(root)
    <3>1. root # <<>> /\ Len(root) \in Nat \ {0} /\ e = root[1] /\ DOMAIN root = 1 .. Len(root)
      BY <1>6, <2>1
    <3>2. 1 \in DOMAIN root
      BY <3>1
    <3> QED BY <3>1, <3>2 DEF ToSet
  <2>3. Resolves(r, e[2]) /\ e \in Listed(t, Entries)
    BY <1>6, <2>1, <2>2
  <2>4. \A kv \in Listed(t, Entries) : kv[1] \in Path /\ kv \in PV
    BY DEF Listed
  <2> HIDE DEF root, e
  <2>5. \A l \in Path : ~Before("path", l, Root) /\ (l # Root => IsStrictPrefix(Root, l))
    <3> SUFFICES ASSUME NEW l \in Path PROVE ~Before("path", l, Root) /\ (l # Root => IsStrictPrefix(Root, l))
      OBVIOUS
    <3>1. l = Root => ~Before("path", l, Root)
      BY <1>2, Ordered DEF Cmps
    <3>2. ASSUME l # Root PROVE Len(Root) < Len(l) /\ Len(Root) = 0 /\ Len(l) \in Nat
      BY <3>2 DEF Root, Path
    <3>3. ASSUME l # Root PROVE IsStrictPrefix(Root, l)
      <4>1. \A i \in 1 .. Len(Root) : Root[i] = l[i]
        BY <3>2, <3>3
      <4> QED BY <1>2, <3>2, <3>3, <4>1, BelowIs
    <3>4. ASSUME l # Root PROVE ~Before("path", l, Root)
      <4>0. PICK a, b : a = Len(l) /\ b = Len(Root)
        OBVIOUS
      <4>1. ~(a < b) /\ a # b
        <5>1. b < a /\ b = 0 /\ a \in Nat
          BY <3>2, <3>4, <4>0
        <5> QED BY ONLY <5>1
      <4> QED BY <4>0, <4>1 DEF Before, PathLess
    <3> QED BY <3>1, <3>3, <3>4
  <2>6. e[1] = Root
    <3> SUFFICES ASSUME e[1] # Root PROVE FALSE
      OBVIOUS
    <3>1. PICK x : <<Root, x>> \in Listed(t, Entries)
      BY <1>2 DEF IsIndex, IndexOf
    <3> DEFINE kv == <<Root, x>>
    <3>2. kv \in Listed(t, Entries) /\ kv[1] = Root
      BY <3>1
    <3> HIDE DEF kv
    <3>3. e[1] \in Path /\ Before("path", Root, e[1])
      BY <1>2, <2>3, <2>4, <2>5, Ordered DEF Cmps
    <3>4. kv \in ToSet(root)
      BY <1>2, <2>1, <2>2, <2>5, <3>2, <3>3
    <3>5. PICK i \in 1 .. Len(root) : root[i] = kv
      BY <2>2, <3>4 DEF ToSet
    <3>6. i # 1
      BY <2>2, <3>2, <3>5
    <3>7. 1 < i /\ 1 \in DOMAIN root /\ i \in DOMAIN root
      BY <2>2, <3>5, <3>6
    <3>8. Before("path", e[1], Root)
      BY <2>1, <2>2, <3>2, <3>5, <3>7 DEF Sorted
    <3> QED BY <2>5, <3>3, <3>8
  <2>7. w.visits = p /\ w.ok = below.ok /\ v \in Seq(PV) /\ below.ok \in BOOLEAN
    <3>1. below \in VisitSet
      BY <1>4 DEF Visited
    <3>2. below = [visits |-> v, ok |-> below.ok] /\ v \in Seq(PV) /\ below.ok \in BOOLEAN
      BY <3>1 DEF VisitSet
    <3>3. w = [below EXCEPT !.visits = p]
      BY <1>1, <1>6 DEF e
    <3> HIDE DEF p, PV
    <3> QED BY <3>2, <3>3
  <2> HIDE DEF v, PV
  <2>8. /\ p \in Seq(PV) /\ Len(v) \in Nat /\ Len(p) = Len(v) + 1 /\ p[1] = e
        /\ \A j \in 1 .. Len(v) : p[j + 1] = v[j]
        /\ \A j \in 1 .. Len(v) + 1 : j = 1 \/ (j - 1 \in 1 .. Len(v) /\ p[j] = v[j - 1])
    <3>1. e \in PV /\ v \in Seq(PV) /\ Len(v) \in Nat
      BY <2>3, <2>4, <2>7
    <3>2. <<e>> \in Seq(PV) /\ Len(<<e>>) = 1 /\ <<e>>[1] = e
      BY <3>1
    <3>3. p \in Seq(PV) /\ Len(p) = 1 + Len(v) /\ \A j \in 1 .. 1 + Len(v) : p[j] = IF j <= 1 THEN <<e>>[j] ELSE v[j - 1]
      BY <3>1, <3>2, ConcatProperties
    <3> HIDE DEF p
    <3>4. p[1] = e
      <4>1. 1 \in 1 .. 1 + Len(v)
        BY <3>1
      <4> QED BY <3>2, <3>3, <4>1
    <3>5. ASSUME NEW j \in 1 .. Len(v) PROVE p[j + 1] = v[j]
      <4>1. j + 1 \in 1 .. 1 + Len(v) /\ ~(j + 1 <= 1) /\ (j + 1) - 1 = j
        BY <3>1
      <4> QED BY <3>3, <4>1
    <3>6. ASSUME NEW j \in 1 .. Len(v) + 1, j # 1 PROVE j - 1 \in 1 .. Len(v) /\ p[j] = v[j - 1]
      <4>1. j \in 1 .. 1 + Len(v) /\ ~(j <= 1) /\ j - 1 \in 1 .. Len(v)
        BY <3>1, <3>6
      <4> QED BY <3>3, <4>1
    <3> QED BY <3>1, <3>3, <3>4, <3>5, <3>6
  <2> HIDE DEF p
  <2>9. /\ \A i \in 1 .. Len(v) : v[i] \in Listed(t, Entries) /\ IsStrictPrefix(Root, v[i][1]) /\ Resolves(r, v[i][2])
        /\ \A i, j \in 1 .. Len(v) : v[i][1] = v[j][1] => i = j
        /\ below.ok => \A kv \in Listed(t, Entries) : IsStrictPrefix(Root, kv[1]) => kv \in ToSet(v)
    BY <1>4 DEF Visited, v
  <2>10. \A i \in 1 .. Len(p) : /\ p[i] \in Listed(t, Entries) /\ Resolves(r, p[i][2])
                                /\ (i = 1 /\ p[i][1] = Root) \/ (i # 1 /\ p[i][1] # Root)
    <3> SUFFICES ASSUME NEW i \in 1 .. Len(p)
                 PROVE  /\ p[i] \in Listed(t, Entries) /\ Resolves(r, p[i][2])
                        /\ (i = 1 /\ p[i][1] = Root) \/ (i # 1 /\ p[i][1] # Root)
      OBVIOUS
    <3>1. CASE i = 1
      BY <2>3, <2>6, <2>8, <3>1
    <3>2. CASE i # 1
      <4>1. i - 1 \in 1 .. Len(v) /\ p[i] = v[i - 1]
        BY <2>8, <3>2
      <4> QED BY <2>9, <3>2, <4>1 DEF IsStrictPrefix
    <3> QED BY <3>1, <3>2
  <2>11. \A i, j \in 1 .. Len(p) : p[i][1] = p[j][1] => i = j
    <3> SUFFICES ASSUME NEW i \in 1 .. Len(p), NEW j \in 1 .. Len(p), p[i][1] = p[j][1] PROVE i = j
      OBVIOUS
    <3>1. CASE i = 1 \/ j = 1
      BY <2>10, <3>1
    <3>2. CASE i # 1 /\ j # 1
      <4>1. i - 1 \in 1 .. Len(v) /\ p[i] = v[i - 1] /\ j - 1 \in 1 .. Len(v) /\ p[j] = v[j - 1]
        BY <2>8, <3>2
      <4>2. i - 1 = j - 1
        BY <2>9, <4>1
      <4> QED BY <2>8, <4>2
    <3> QED BY <3>1, <3>2
  <2>12. ASSUME w.ok, NEW kv \in Listed(t, Entries) PROVE kv \in ToSet(p)
    <3>0. DOMAIN p = 1 .. Len(p) /\ DOMAIN v = 1 .. Len(v)
      BY <2>7, <2>8
    <3>1. CASE kv[1] = Root
      <4>1. kv = e
        <5> HIDE DEF t
        <5> QED BY <1>2, <2>3, <2>6, <2>12, <3>1, OneValue
      <4>2. 1 \in DOMAIN p
        BY <2>8, <3>0
      <4> QED BY <2>8, <4>1, <4>2 DEF ToSet
    <3>2. CASE kv[1] # Root
      <4>1. kv \in ToSet(v)
        BY <2>4, <2>5, <2>7, <2>9, <2>12, <3>2
      <4>2. PICK j \in 1 .. Len(v) : v[j] = kv
        BY <3>0, <4>1 DEF ToSet
      <4>3. j + 1 \in DOMAIN p /\ p[j + 1] = kv
        BY <2>8, <3>0, <4>2
      <4> QED BY <4>3 DEF ToSet
    <3> QED BY <3>1, <3>2
  <2> QED BY <2>7, <2>8, <2>10, <2>11, <2>12 DEF Walked, w, PV
<1> QED BY <1>5, <1>6

-----------------------------------------------------------------------------
\* What the commands that read keep.

ReaderFields == {"kind", "repo", "id", "visits", "ok", "at", "done", "archived", "cut"}

\* A walk, when these blobs can be read.
WalkedIn(readable, t, visits, ok) ==
    /\ visits \in Seq(Path \X Entries) /\ ok \in BOOLEAN
    /\ \A i \in 1 .. Len(visits) :
          LET e == visits[i][2]
          IN  /\ visits[i] \in Listed(t, Entries) /\ e # NoEntry
              /\ e.object = NoObject \/ <<"object", e.object>> \in readable
    /\ \A i, j \in 1 .. Len(visits) : visits[i][1] = visits[j][1] => i = j
    /\ ok => \A kv \in Listed(t, Entries) : kv \in ToSet(visits)

\* The last command has walked its snapshot.
ReaderIs ==
    /\ reader = [f \in ReaderFields |-> reader[f]] /\ reader.at \in Nat
    /\ cmd.name \in {"restore", "check", "archive"} => reader.kind = cmd.name /\ ~reader.done
    /\ reader.kind = "no" => ~reader.done /\ ~reader.archived
    /\ reader.kind # "no" =>
          /\ cmd.readers > 0 /\ reader.at > 0 /\ reader.repo \in {"dst", "clone"}
          /\ reader.id \in DOMAIN snaps[reader.repo]
          /\ WalkedIn(Readable(reader.repo), snaps[reader.repo][reader.id].vfs, reader.visits, reader.ok)
    /\ reader.kind # "restore" => \A f \in Regular : step[f] = "no"

\* A file that has been restored, or of which an error was told; and one of which
\* that is sure to come.
Told(f)   == target[f] = "whole" \/ <<"error", f>> \in events
Placed(f) == step[f] \in {"store", "copy"} \/ (step[f] = "end" /\ Told(f))

\* Goroutines run for the files the walk has passed.  What is registered and linked
\* to is placed; a goroutine ends with its file told of, or linked.
RestoreIs ==
    /\ step = [f \in Regular |-> step[f]] /\ target = [p \in Paths |-> target[p]]
    /\ hardlinks = [l \in HardLinks |-> hardlinks[l]] /\ linked = [f \in Regular |-> linked[f]]
    /\ \A f \in Regular : step[f] # "no" => \E i \in 1 .. Len(reader.visits) : i < reader.at /\ reader.visits[i][1] = f
    /\ reader.ok => \A i \in 1 .. Len(reader.visits) :
                       i < reader.at /\ reader.visits[i][1] \in Regular => step[reader.visits[i][1]] # "no"
    /\ \A l \in HardLinks : \A v \in hardlinks[l] : v \in Regular /\ Placed(v)
    /\ \A f \in Regular : \A v \in linked[f] : v \in Regular /\ Placed(v)
    /\ \A f \in Regular : step[f] = "end" => Told(f) \/ linked[f] # {}
    /\ reader.kind = "restore" /\ reader.done =>
          reader.at \notin DOMAIN reader.visits /\ \A f \in Regular : step[f] \in {"no", "end"}

Reading == Shaped /\ ReaderIs /\ RestoreIs /\ CheckTells /\ ArchiveWhole

\* The walk in the words of the invariant of a command that reads.
LEMMA WalkedInIs ==
    ASSUME NEW r, NEW t, NEW visits, NEW ok, Walked(r, t, visits, ok)
    PROVE  WalkedIn(Readable(r), t, visits, ok)
<1>1. \A i \in 1 .. Len(visits) :
          LET e == visits[i][2]
          IN  e # NoEntry /\ (e.object = NoObject \/ <<"object", e.object>> \in Readable(r))
  BY DEF Walked, Resolves
<1> QED BY <1>1 DEF Walked, WalkedIn

\* Reading holds before anything has run.
LEMMA ReadingInit == Init => Reading
<1> SUFFICES ASSUME Init PROVE Reading
  OBVIOUS
<1>1. reader = NoReader /\ step = Fresh.step /\ hardlinks = Fresh.hardlinks /\ target = Fresh.target /\ linked = Fresh.linked
  BY DEF Init
<1>2. cmd.name = "scan"
  BY DEF Init, SyncInit
<1>3. /\ reader = [f \in ReaderFields |-> reader[f]] /\ reader.kind = "no" /\ reader.at = 0 /\ ~reader.done /\ ~reader.archived
      /\ reader.visits = <<>>
  BY <1>1 DEF NoReader, ReaderFields
<1>4. /\ step = [f \in Regular |-> "no"] /\ hardlinks = [l \in HardLinks |-> {}]
      /\ target = [path \in Paths |-> "absent"] /\ linked = [f \in Regular |-> {}]
  BY <1>1 DEF Fresh
<1>5. ReaderIs
  BY <1>2, <1>3, <1>4 DEF ReaderIs
<1>6. RestoreIs
  <2>1. Len(reader.visits) = 0
    BY <1>3
  <2> QED BY <1>3, <1>4, <2>1 DEF RestoreIs
<1>7. CheckTells /\ ArchiveWhole
  BY <1>3 DEF CheckTells, ArchiveWhole
<1> QED BY <1>5, <1>6, <1>7, ShapedInit DEF Reading

-----------------------------------------------------------------------------
\* Once a command has read, nothing changes where it read.
LEMMA NothingMoves ==
    ASSUME Shaped, SyncNext, cmd.readers > 0
    PROVE  /\ cmd' = cmd /\ lost' = lost
           /\ \A r \in {"dst", "clone"} : snaps'[r] = snaps[r] /\ packs'[r] = packs[r]
<1>1. cmd.name \notin {"scan", "commit", "sync", "clone"} /\ cmd.readers # 0 /\ sync.phase = "no" /\ clone.phase \notin {"packfiles", "states"}
  BY DEF Shaped, CmdIs
<1>2. CommitAgain
  BY <1>1 DEF SyncNext, RecordError, PersistErrors, Commit, Stop, Colour, Lose, OpenSync, RunCopy, NextSnapshot, CopyEntry,
              CommitCopy, Turn, EndSync, StartClone, ClonePackfiles, CloneStates
<1>3. /\ cmd' = cmd /\ lost' = lost
      /\ Add("src", Latter, snaps["src"][Former], {<<"header", Latter>>})
  BY <1>2 DEF CommitAgain
<1>4. \A r \in {"dst", "clone"} : snaps'[r] = snaps[r] /\ packs'[r] = packs[r]
  BY <1>3, RepositoriesAre DEF Add, Shaped, SnapsAre
<1> QED BY <1>3, <1>4

\* What a step that copies makes of the command that runs.
LEMMA CopiesAreNamed ==
    ASSUME Shaped, SyncNext
    PROVE  cmd' = cmd \/ cmd'.name \in {"commit", "idle", "sync", "clone"}
<1>1. cmd = [f \in CmdFields |-> cmd[f]]
  BY DEF Shaped, CmdIs
<1> QED BY <1>1 DEF CmdFields, SyncNext, RecordError, PersistErrors, Commit, CommitAgain, Stop, Colour, Lose, OpenSync, RunCopy,
                    NextSnapshot, CopyEntry, CommitCopy, Turn, EndSync, StartClone, ClonePackfiles, CloneStates

\* Nothing where the command read has changed, and nothing of what it says.
LEMMA CheckKept ==
    ASSUME CheckTells, events' = events, reader' = reader,
           reader.kind # "no" => /\ snaps'[reader.repo] = snaps[reader.repo] /\ packs'[reader.repo] = packs[reader.repo]
                                 /\ lost'[reader.repo] = lost[reader.repo]
    PROVE  CheckTells'
BY DEF CheckTells, FilesOf, Snapshot, Whole, Legible, Readable, Located

\* What an archive said stays true while its snapshot, its repository and what it
\* wrote stay.
LEMMA ArchiveKept ==
    ASSUME ArchiveWhole, reader'.archived = reader.archived, reader'.cut = reader.cut, reader'.repo = reader.repo,
           reader'.id = reader.id, reader'.visits = reader.visits,
           reader.archived => /\ snaps'[reader.repo] = snaps[reader.repo] /\ packs'[reader.repo] = packs[reader.repo]
                              /\ lost'[reader.repo] = lost[reader.repo]
    PROVE  ArchiveWhole'
BY DEF ArchiveWhole, FilesOf, Snapshot, Whole, Legible, Readable, Located

\* A step that copies keeps what is known of the commands that read: none of them
\* runs, or what it read of is not touched.
LEMMA ReadingAndCopies ==
    ASSUME Reading, SyncNext, UNCHANGED readVars
    PROVE  ReaderIs' /\ RestoreIs' /\ CheckTells' /\ ArchiveWhole'
<1>1. /\ reader' = reader /\ step' = step /\ hardlinks' = hardlinks /\ target' = target /\ linked' = linked /\ events' = events
  BY DEF readVars
<1>2. Shaped /\ ReaderIs /\ RestoreIs /\ CheckTells /\ ArchiveWhole
  BY DEF Reading
<1>3. reader.kind # "no" =>
         /\ cmd' = cmd /\ snaps'[reader.repo] = snaps[reader.repo] /\ packs'[reader.repo] = packs[reader.repo]
         /\ lost'[reader.repo] = lost[reader.repo]
  BY <1>2, NothingMoves DEF ReaderIs
<1>4. reader.archived => reader.kind # "no"
  BY <1>2 DEF ReaderIs
<1>5. cmd' = cmd \/ cmd'.name \in {"commit", "idle", "sync", "clone"}
  BY <1>2, CopiesAreNamed
<1>6. reader.kind # "no" => Readable(reader.repo)' = Readable(reader.repo)
  BY <1>1, <1>3 DEF Readable, Located
<1>7. ReaderIs'
  BY <1>1, <1>2, <1>3, <1>5, <1>6 DEF ReaderIs
<1>8. RestoreIs'
  BY <1>1, <1>2 DEF RestoreIs, Placed, Told
<1> QED BY <1>1, <1>2, <1>3, <1>4, <1>7, <1>8, CheckKept, ArchiveKept

-----------------------------------------------------------------------------
\* The start of a restore, a check or an archive keeps Reading: what it will visit
\* is the walk of the snapshot, and nothing has been restored.
LEMMA ReadingOpen ==
    ASSUME Reading, NEW kind \in {"restore", "check", "archive"}, NEW r \in {"dst", "clone"}, Open(kind, r)
    PROVE  ReaderIs' /\ RestoreIs' /\ CheckTells' /\ ArchiveWhole'
<1>1. PICK id \in Locate(r) :
         reader' = [NoReader EXCEPT !.kind = kind, !.repo = r, !.id = id, !.at = 1,
                                    !.visits = Walk(r, snaps[r][id]).visits, !.ok = Walk(r, snaps[r][id]).ok]
  BY DEF Open
<1>2. /\ cmd.name = "idle" /\ cmd' = [cmd EXCEPT !.name = kind, !.readers = @ + 1]
      /\ step' = Fresh.step /\ hardlinks' = Fresh.hardlinks /\ target' = Fresh.target /\ linked' = Fresh.linked
      /\ UNCHANGED <<errors, repoVars, sync, exposed, clone>>
  BY DEF Open
<1> DEFINE visits == Walk(r, snaps[r][id]).visits
           ok == Walk(r, snaps[r][id]).ok
<1>3. id \in DOMAIN snaps[r] /\ r \in Repositories
  BY RepositoriesAre DEF Locate
<1>4. IsIndex(snaps[r][id].vfs)
  BY <1>3 DEF Reading, Shaped, SnapsAre, IsSnapshot
<1>5. WalkedIn(Readable(r), snaps[r][id].vfs, visits, ok)
  BY <1>4, WalkIs, WalkedInIs
<1> HIDE DEF visits, ok
<1>6. reader' = [kind |-> kind, repo |-> r, id |-> id, visits |-> visits, ok |-> ok, at |-> 1, done |-> FALSE, archived |-> FALSE,
                 cut |-> FALSE]
  BY <1>1 DEF NoReader, visits, ok
<1>7. /\ reader' = [f \in ReaderFields |-> reader'[f]] /\ reader'.kind = kind /\ reader'.repo = r /\ reader'.id = id
      /\ reader'.visits = visits /\ reader'.ok = ok /\ reader'.at = 1 /\ reader'.done = FALSE /\ reader'.archived = FALSE
  BY <1>6 DEF ReaderFields
<1>8. /\ step' = [f \in Regular |-> "no"] /\ hardlinks' = [l \in HardLinks |-> {}]
      /\ target' = [path \in Paths |-> "absent"] /\ linked' = [f \in Regular |-> {}]
  BY <1>2 DEF Fresh
<1>9. cmd'.name = kind /\ cmd'.readers > 0
  <2>1. cmd = [f \in CmdFields |-> cmd[f]] /\ cmd.readers \in Nat
    BY DEF Reading, Shaped, CmdIs
  <2>2. cmd'.name = kind /\ cmd'.readers = cmd.readers + 1
    BY <1>2, <2>1 DEF CmdFields
  <2>3. cmd'.readers > 0
    BY ONLY <2>1, <2>2
  <2> QED BY <2>2, <2>3
<1>10. Readable(r)' = Readable(r) /\ snaps' = snaps
  BY <1>2 DEF Readable, Located, repoVars
<1> HIDE <1>1, <1>2, <1>6
<1>11. ReaderIs'
  <2>1. reader'.id \in DOMAIN snaps'[reader'.repo] /\ reader'.repo \in {"dst", "clone"} /\ reader'.at > 0 /\ reader'.at \in Nat
    BY <1>3, <1>7, <1>10
  <2>2. Readable(reader.repo)' = Readable(r)
    BY <1>7, <1>10
  <2>3. WalkedIn(Readable(reader.repo)', snaps'[reader'.repo][reader'.id].vfs, reader'.visits, reader'.ok)
    BY <1>5, <1>7, <1>10, <2>2
  <2>4. \A f \in Regular : step'[f] = "no"
    BY <1>8
  <2> QED BY <1>7, <1>9, <2>1, <2>3, <2>4 DEF ReaderIs
<1>12. RestoreIs'
  <2>1. \A i \in 1 .. Len(reader'.visits) : ~(i < reader'.at)
    <3>1. visits \in Seq(Path \X Entries)
      BY <1>5 DEF WalkedIn
    <3> QED BY <1>7, <3>1
  <2> QED BY <1>7, <1>8, <2>1 DEF RestoreIs
<1>13. CheckTells' /\ ArchiveWhole'
  BY <1>7 DEF CheckTells, ArchiveWhole
<1> QED BY <1>11, <1>12, <1>13

-----------------------------------------------------------------------------
\* The rest of a restore.

\* A path of the index is a path of the source.
LEMMA VisitIsPath ==
    ASSUME Reading, reader.kind # "no", NEW i \in DOMAIN reader.visits
    PROVE  i \in 1 .. Len(reader.visits) /\ reader.visits[i][1] \in Paths
<1>1. /\ reader.id \in DOMAIN snaps[reader.repo] /\ reader.repo \in Repositories
      /\ WalkedIn(Readable(reader.repo), snaps[reader.repo][reader.id].vfs, reader.visits, reader.ok)
  BY RepositoriesAre DEF Reading, ReaderIs
<1> DEFINE t == snaps[reader.repo][reader.id].vfs
<1>2. IsIndex(t)
  BY <1>1 DEF Reading, Shaped, SnapsAre, IsSnapshot
<1> HIDE DEF t
<1>3. i \in 1 .. Len(reader.visits) /\ reader.visits[i] \in Listed(t, Entries) /\ reader.visits[i] \in Path \X Entries
  <2>1. reader.visits \in Seq(Path \X Entries)
    BY <1>1 DEF WalkedIn
  <2>2. i \in 1 .. Len(reader.visits) /\ reader.visits[i] \in Path \X Entries
    BY <2>1
  <2>3. reader.visits[i] \in Listed(t, Entries)
    BY <1>1, <2>2 DEF WalkedIn, t
  <2> QED BY <2>2, <2>3
<1>4. PICK k \in Path, w \in Entries : reader.visits[i] = <<k, w>>
  BY <1>3
<1>5. Root \in Paths
  BY SyncAssumption DEF Paths
<1>6. k \in Paths
  BY <1>2, <1>3, <1>4, <1>5 DEF IsIndex, IndexOf
<1> QED BY <1>3, <1>4, <1>6

\* A step of a restore at its walk, or of one of its goroutines.
LEMMA ReaderMoves ==
    ASSUME ReaderIs, UNCHANGED syncVars,
           reader' = [f \in ReaderFields |-> reader'[f]], reader'.kind = reader.kind, reader'.repo = reader.repo,
           reader'.id = reader.id, reader'.visits = reader.visits, reader'.done = reader.done,
           reader'.archived = reader.archived, reader'.ok \in {reader.ok, FALSE}, reader'.at \in Nat, reader.at > 0 => reader'.at > 0,
           reader.kind = "restore" \/ step' = step
    PROVE  ReaderIs'
<1>1. cmd' = cmd /\ snaps' = snaps /\ packs' = packs /\ lost' = lost
  BY DEF syncVars, repoVars
<1>2. Readable(reader.repo)' = Readable(reader.repo)
  BY <1>1 DEF Readable, Located
<1>3. ASSUME reader.kind # "no"
      PROVE  WalkedIn(Readable(reader.repo)', snaps'[reader'.repo][reader'.id].vfs, reader'.visits, reader'.ok)
  <2>1. WalkedIn(Readable(reader.repo), snaps[reader.repo][reader.id].vfs, reader.visits, reader.ok)
    BY <1>3 DEF ReaderIs
  <2>2. WalkedIn(Readable(reader.repo), snaps[reader.repo][reader.id].vfs, reader.visits, reader'.ok)
    BY <2>1 DEF WalkedIn
  <2> QED BY <1>1, <1>2, <2>2
<1> QED BY <1>1, <1>2, <1>3 DEF ReaderIs

\* While a command that reads runs, the reader is that command and is not done.
LEMMA CommandReads ==
    ASSUME ReaderIs, cmd.name \in {"restore", "check", "archive"}
    PROVE  reader.kind = cmd.name /\ ~reader.done
BY DEF ReaderIs

\* What was said of a file, and its place in the target, are kept while its own
\* step, its own target and the events are.
LEMMA FileKept ==
    ASSUME NEW f, step'[f] = step[f], target'[f] = target[f], events \subseteq events'
    PROVE  (Told(f) => Told(f)') /\ (Placed(f) => Placed(f)')
BY DEF Told, Placed

\* A restore says nothing that CheckTells is about.
LEMMA RestoreChecksNothing ==
    ASSUME reader'.kind = "restore" PROVE CheckTells'
BY DEF CheckTells

\* One path of a restore (the callback of WalkDir in Restore) keeps Reading: the
\* goroutine of a file is started when the walk gets to it.
LEMMA ReadingRestorePath ==
    ASSUME Reading, RestorePath
    PROVE  ReaderIs' /\ RestoreIs'
<1> DEFINE at == reader.at
           visits == reader.visits
           path == visits[at][1]
<1>1. /\ cmd.name = "restore" /\ at \in DOMAIN visits
      /\ UNCHANGED <<syncVars, hardlinks, linked>>
  BY DEF RestorePath
<1>2. ReaderIs /\ RestoreIs
  BY DEF Reading
<1>3. reader.kind = "restore" /\ ~reader.done
  BY <1>1, <1>2, CommandReads
<1>4. at \in 1 .. Len(visits) /\ path \in Paths
  BY <1>1, <1>3, VisitIsPath
<1>5. /\ reader = [f \in ReaderFields |-> reader[f]] /\ step = [f \in Regular |-> step[f]] /\ target = [p \in Paths |-> target[p]]
      /\ visits \in Seq(Path \X Entries)
      /\ \A i, j \in 1 .. Len(visits) : visits[i][1] = visits[j][1] => i = j
  BY <1>2, <1>3 DEF ReaderIs, RestoreIs, WalkedIn
<1>6. Regular = {p \in Paths : Kind[p] = "regular"}
  BY SyncAssumption DEF Regular, Paths
<1>7. CASE /\ Kind[path] \in {"dir", "link"}
           /\ target' = [target EXCEPT ![path] = "dir"] \/ target' = target
           /\ reader' = [reader EXCEPT !.at = @ + 1] \/ reader' = [reader EXCEPT !.at = Len(reader.visits) + 1, !.ok = FALSE]
           /\ step' = step /\ events \subseteq events'
  <2>1. path \notin Regular
    BY <1>6, <1>7
  <2>2. /\ reader' = [f \in ReaderFields |-> reader'[f]] /\ reader'.kind = reader.kind /\ reader'.repo = reader.repo
        /\ reader'.id = reader.id /\ reader'.visits = visits /\ reader'.done = reader.done
        /\ reader'.archived = reader.archived
        /\ \/ reader'.ok = reader.ok /\ reader'.at = at + 1
           \/ reader'.ok = FALSE /\ reader'.at = Len(visits) + 1
    BY <1>5, <1>7 DEF ReaderFields
  <2>3. target' = [p \in Paths |-> target'[p]] /\ \A f \in Regular : target'[f] = target[f] /\ step'[f] = step[f]
    <3>1. step' = step /\ \A f \in Regular : f # path
      BY <1>7, <2>1
    <3>2. CASE target' = [target EXCEPT ![path] = "dir"]
      BY <1>4, <1>5, <1>6, <3>1, <3>2
    <3>3. CASE target' = target
      BY <1>5, <3>1, <3>3
    <3> QED BY <1>7, <3>2, <3>3
  <2> HIDE <1>7
  <2>4. step' = step /\ events \subseteq events'
    BY <1>7
  <2>5. reader'.at \in Nat /\ at < reader'.at /\ reader'.at > 0 /\ reader'.ok \in {reader.ok, FALSE}
    <3>1. Len(visits) \in Nat /\ at \in Nat /\ at <= Len(visits)
      BY <1>4, <1>5
    <3>2. reader'.at = at + 1 \/ reader'.at = Len(visits) + 1
      BY <2>2
    <3>3. reader'.at \in Nat /\ at < reader'.at /\ reader'.at > 0
      BY ONLY <3>1, <3>2
    <3> QED BY <2>2, <3>3
  <2>6. ReaderIs'
    BY <1>1, <1>2, <2>2, <2>4, <2>5, ReaderMoves
  <2>7. \A f \in Regular : (Told(f) => Told(f)') /\ (Placed(f) => Placed(f)')
    BY <2>3, <2>4, FileKept
  <2>8. \A f \in Regular : step'[f] # "no" => \E i \in 1 .. Len(visits) : i < reader'.at /\ visits[i][1] = f
    <3> SUFFICES ASSUME NEW f \in Regular, step[f] # "no" PROVE \E i \in 1 .. Len(visits) : i < reader'.at /\ visits[i][1] = f
      BY <2>4
    <3>1. PICK i \in 1 .. Len(visits) : i < at /\ visits[i][1] = f
      BY <1>2 DEF RestoreIs
    <3>2. i < reader'.at
      BY <1>4, <2>5, <3>1
    <3> QED BY <3>1, <3>2
  <2>9. reader'.ok => \A i \in 1 .. Len(visits) : i < reader'.at /\ visits[i][1] \in Regular => step'[visits[i][1]] # "no"
    <3> SUFFICES ASSUME reader'.ok, NEW i \in 1 .. Len(visits), i < reader'.at, visits[i][1] \in Regular
                 PROVE  step[visits[i][1]] # "no"
      BY <2>4
    <3>1. reader.ok /\ reader'.at = at + 1
      BY <2>2
    <3>2. i < at
      <4>1. i # at
        BY <2>1
      <4> QED BY <1>4, <3>1, <4>1
    <3> QED BY <1>2, <3>1, <3>2 DEF RestoreIs
  <2>10. RestoreIs'
    <3>1. hardlinks' = hardlinks /\ linked' = linked
      BY <1>1
    <3> QED BY <1>2, <1>3, <2>2, <2>3, <2>4, <2>7, <2>8, <2>9, <3>1 DEF RestoreIs
  <2> QED BY <2>6, <2>10
<1>8. CASE /\ Kind[path] = "regular"
           /\ step' = [step EXCEPT ![path] = "lookup"]
           /\ reader' = [reader EXCEPT !.at = @ + 1]
           /\ UNCHANGED <<target, events>>
  <2>1. path \in Regular
    BY <1>4, <1>6, <1>8
  <2>2. /\ reader' = [f \in ReaderFields |-> reader'[f]] /\ reader'.kind = reader.kind /\ reader'.repo = reader.repo
        /\ reader'.id = reader.id /\ reader'.visits = visits /\ reader'.done = reader.done
        /\ reader'.archived = reader.archived /\ reader'.ok = reader.ok /\ reader'.at = at + 1
    BY <1>5, <1>8 DEF ReaderFields
  <2>3. /\ step' = [f \in Regular |-> step'[f]] /\ step'[path] = "lookup"
        /\ \A f \in Regular : f # path => step'[f] = step[f]
    BY <1>5, <1>8, <2>1
  <2>4. target' = target /\ events' = events
    BY <1>8
  <2> HIDE <1>8
  <2>5. reader'.at \in Nat /\ at < reader'.at /\ reader'.at > 0
    BY <1>4, <1>5, <2>2
  <2>6. ReaderIs'
    BY <1>1, <1>2, <1>3, <2>2, <2>5, ReaderMoves
  <2>7. step[path] = "no"
    <3> SUFFICES ASSUME step[path] # "no" PROVE FALSE
      OBVIOUS
    <3>1. PICK i \in 1 .. Len(visits) : i < at /\ visits[i][1] = path
      BY <1>2, <2>1 DEF RestoreIs
    <3>2. i = at
      BY <1>4, <1>5, <3>1
    <3> QED BY <1>4, <3>1, <3>2
  <2>8. ~Placed(path) /\ \A f \in Regular : f # path => (Told(f) => Told(f)') /\ (Placed(f) => Placed(f)')
    BY <2>3, <2>4, <2>7, FileKept DEF Placed
  <2>9. \A f \in Regular : step'[f] # "no" => \E i \in 1 .. Len(visits) : i < reader'.at /\ visits[i][1] = f
    <3> SUFFICES ASSUME NEW f \in Regular, step'[f] # "no" PROVE \E i \in 1 .. Len(visits) : i < reader'.at /\ visits[i][1] = f
      OBVIOUS
    <3>1. CASE f = path
      BY <1>4, <2>5, <3>1
    <3>2. CASE f # path
      <4>1. PICK i \in 1 .. Len(visits) : i < at /\ visits[i][1] = f
        BY <1>2, <2>3, <3>2 DEF RestoreIs
      <4>2. i < reader'.at
        BY <1>4, <2>5, <4>1
      <4> QED BY <4>1, <4>2
    <3> QED BY <3>1, <3>2
  <2>10. reader'.ok => \A i \in 1 .. Len(visits) : i < reader'.at /\ visits[i][1] \in Regular => step'[visits[i][1]] # "no"
    <3> SUFFICES ASSUME reader'.ok, NEW i \in 1 .. Len(visits), i < reader'.at, visits[i][1] \in Regular
                 PROVE  step'[visits[i][1]] # "no"
      OBVIOUS
    <3>1. CASE visits[i][1] = path
      BY <2>3, <3>1
    <3>2. CASE visits[i][1] # path
      <4>1. i < at
        <5>1. i # at
          BY <3>2
        <5> QED BY <1>4, <2>2, <5>1
      <4>2. reader.ok
        BY <2>2
      <4>3. step[visits[i][1]] # "no"
        BY <1>2, <4>1, <4>2 DEF RestoreIs
      <4> QED BY <2>3, <3>2, <4>3
    <3> QED BY <3>1, <3>2
  <2>11. RestoreIs'
    <3>1. hardlinks' = hardlinks /\ linked' = linked
      BY <1>1
    <3>2. \A f \in Regular : Placed(f) => Placed(f)'
      BY <2>8
    <3>3. \A f \in Regular : step'[f] = "end" => Told(f)' \/ linked'[f] # {}
      BY <1>2, <2>3, <2>8, <3>1 DEF RestoreIs
    <3> HIDE <2>8
    <3> QED BY <1>2, <1>3, <2>2, <2>3, <2>4, <2>9, <2>10, <3>1, <3>2, <3>3 DEF RestoreIs
  <2> QED BY <2>6, <2>11
<1>9. /\ \/ /\ Kind[path] = "dir"
            /\ target' = [target EXCEPT ![path] = "dir"]
            /\ reader' = [reader EXCEPT !.at = @ + 1]
            /\ UNCHANGED <<step, events>>
         \/ /\ Kind[path] = "dir"
            /\ events' = events \cup {<<"error", path>>}
            /\ reader' = [reader EXCEPT !.at = Len(reader.visits) + 1, !.ok = FALSE]
            /\ UNCHANGED <<step, target>>
         \/ /\ Kind[path] = "link"
            /\ events' = events \cup {<<"error", path>>}
            /\ reader' = [reader EXCEPT !.at = @ + 1]
            /\ UNCHANGED <<step, target>>
         \/ /\ Kind[path] = "regular"
            /\ step' = [step EXCEPT ![path] = "lookup"]
            /\ reader' = [reader EXCEPT !.at = @ + 1]
            /\ UNCHANGED <<target, events>>
  BY DEF RestorePath, Tell
<1> QED BY <1>7, <1>8, <1>9

-----------------------------------------------------------------------------
\* What one step of the goroutine of a file must keep: it changes its own file
\* only, and a link is recorded only with a file that was written.
LEMMA RestorerKeeps ==
    ASSUME Reading, NEW f \in Regular, step[f] \notin {"no", "end"}, UNCHANGED <<syncVars, reader>>,
           NEW to, to # "no", step' = [step EXCEPT ![f] = to],
           target' = [p \in Paths |-> target'[p]], \A g \in Regular \ {f} : target'[g] = target[g],
           events \subseteq events', Placed(f) => Placed(f)',
           hardlinks' = [l \in HardLinks |-> hardlinks'[l]],
           \A l \in HardLinks : \A v \in hardlinks'[l] : v \in hardlinks[l] \/ (v = f /\ Placed(f)'),
           linked' = [g \in Regular |-> linked'[g]], \A g \in Regular \ {f} : linked'[g] = linked[g],
           \A v \in linked'[f] : v \in linked[f] \/ (v \in Regular /\ Placed(v)),
           to = "end" => Told(f)' \/ linked'[f] # {}
    PROVE  ReaderIs' /\ RestoreIs' /\ CheckTells' /\ ArchiveWhole'
<1>1. ReaderIs /\ RestoreIs /\ ArchiveWhole /\ reader' = reader /\ snaps' = snaps /\ packs' = packs /\ lost' = lost
  BY DEF Reading, syncVars, repoVars
<1>2. reader.kind = "restore"
  BY <1>1 DEF ReaderIs
<1>3. ~reader.done
  BY <1>1, <1>2 DEF RestoreIs
<1>4. reader = [x \in ReaderFields |-> reader[x]] /\ reader.at \in Nat /\ step = [g \in Regular |-> step[g]]
  BY <1>1 DEF ReaderIs, RestoreIs
<1>5. ReaderIs'
  BY <1>1, <1>2, <1>4, ReaderMoves
<1>6. CheckTells'
  BY <1>1, <1>2, RestoreChecksNothing
<1>7. ArchiveWhole'
  BY <1>1, ArchiveKept
<1>8. /\ step' = [g \in Regular |-> step'[g]] /\ step'[f] = to /\ \A g \in Regular \ {f} : step'[g] = step[g]
  BY <1>4
<1> HIDE <1>4
<1>9. \A g \in Regular \ {f} : (Told(g) => Told(g)') /\ (Placed(g) => Placed(g)')
  BY <1>8, FileKept
<1>10. \A g \in Regular : Placed(g) => Placed(g)'
  BY <1>9
<1>11. \A g \in Regular : step'[g] # "no" => step[g] # "no"
  BY <1>8
<1>12. \A g \in Regular : step[g] # "no" => step'[g] # "no"
  BY <1>8
<1>13. \A l \in HardLinks : \A v \in hardlinks'[l] : v \in Regular /\ Placed(v)'
  BY <1>1, <1>10 DEF RestoreIs
<1>14. \A g \in Regular : \A v \in linked'[g] : v \in Regular /\ Placed(v)'
  <2> SUFFICES ASSUME NEW g \in Regular, NEW v \in linked'[g] PROVE v \in Regular /\ Placed(v)'
    OBVIOUS
  <2>1. CASE v \in linked[g]
    BY <1>1, <1>10, <2>1 DEF RestoreIs
  <2>2. CASE v \notin linked[g]
    BY <1>10, <2>2
  <2> QED BY <2>1, <2>2
<1>15. \A g \in Regular : step'[g] = "end" => Told(g)' \/ linked'[g] # {}
  <2> SUFFICES ASSUME NEW g \in Regular, step'[g] = "end" PROVE Told(g)' \/ linked'[g] # {}
    OBVIOUS
  <2>1. CASE g = f
    BY <1>8, <2>1
  <2>2. CASE g # f
    BY <1>1, <1>8, <1>9, <2>2 DEF RestoreIs
  <2> QED BY <2>1, <2>2
<1>16. RestoreIs'
  <2> HIDE <1>9, <1>10
  <2> QED BY <1>1, <1>3, <1>8, <1>11, <1>12, <1>13, <1>14, <1>15 DEF RestoreIs
<1> QED BY <1>5, <1>6, <1>7, <1>16

\* A step of the goroutine that restores a file keeps Reading: it ends with an
\* event for the file, or as a hard link to one that was written.
LEMMA ReadingRestorer ==
    ASSUME Reading, NEW f \in Regular, Restorer(f)
    PROVE  ReaderIs' /\ RestoreIs' /\ CheckTells' /\ ArchiveWhole'
<1>1. RestoreIs /\ Regular \subseteq Paths
  BY SyncAssumption DEF Reading, Regular, Paths
<1>2. /\ step = [g \in Regular |-> step[g]] /\ target = [p \in Paths |-> target[p]]
      /\ hardlinks = [l \in HardLinks |-> hardlinks[l]] /\ linked = [g \in Regular |-> linked[g]]
      /\ \A l \in HardLinks : \A v \in hardlinks[l] : v \in Regular /\ Placed(v)
  BY <1>1 DEF RestoreIs
<1>3. CASE LookupLink(f)
  <2>1. /\ step[f] = "lookup" /\ UNCHANGED <<syncVars, reader>>
        /\ hardlinks' = hardlinks /\ target' = target /\ linked' = linked /\ events' = events
    BY <1>3 DEF LookupLink, Go
  <2>2. PICK to \in {"store", "link", "register"} : step' = [step EXCEPT ![f] = to]
    BY <1>3 DEF LookupLink, Go
  <2>3. ~Placed(f)
    BY <2>1 DEF Placed
  <2> QED BY <1>2, <2>1, <2>2, <2>3, RestorerKeeps
<1>4. CASE RegisterLink(f)
  <2>1. /\ step[f] = "register" /\ step' = [step EXCEPT ![f] = "store"] /\ UNCHANGED <<syncVars, reader>>
        /\ target' = target /\ linked' = linked /\ events' = events
    BY <1>4 DEF RegisterLink, Go
  <2>2. PICK l \in HardLinks : hardlinks' = [hardlinks EXCEPT ![l] = {f}]
    BY <1>4 DEF RegisterLink
  <2>3. Placed(f)'
    BY <1>2, <2>1 DEF Placed
  <2>4. /\ hardlinks' = [k \in HardLinks |-> hardlinks'[k]]
        /\ \A k \in HardLinks : \A v \in hardlinks'[k] : v \in hardlinks[k] \/ (v = f /\ Placed(f)')
    BY <1>2, <2>2, <2>3
  <2> HIDE <2>2
  <2> QED BY <1>2, <2>1, <2>3, <2>4, RestorerKeeps
<1>5. CASE Link(f)
  <2>1. /\ step[f] = "link" /\ step' = [step EXCEPT ![f] = "end"] /\ UNCHANGED <<syncVars, reader>>
        /\ target' = target /\ hardlinks' = hardlinks
    BY <1>5 DEF Link, Go
  <2>2. PICK l \in HardLinks : \E v \in hardlinks[l] :
           \/ linked' = [linked EXCEPT ![f] = {v}] /\ events' = events
           \/ events' = events \cup {<<"error", f>>} /\ linked' = linked
    BY <1>5 DEF Link, Tell
  <2>3. PICK v \in hardlinks[l] :
           \/ linked' = [linked EXCEPT ![f] = {v}] /\ events' = events
           \/ events' = events \cup {<<"error", f>>} /\ linked' = linked
    BY <2>2
  <2> HIDE <2>2
  <2>4. ~Placed(f)
    BY <2>1 DEF Placed
  <2>5. v \in Regular /\ Placed(v)
    BY <1>2
  <2>6. /\ events \subseteq events' /\ linked' = [g \in Regular |-> linked'[g]]
        /\ \A g \in Regular \ {f} : linked'[g] = linked[g]
        /\ \A w \in linked'[f] : w \in linked[f] \/ w = v
        /\ <<"error", f>> \in events' \/ linked'[f] # {}
    <3>1. CASE linked' = [linked EXCEPT ![f] = {v}] /\ events' = events
      BY <1>2, <3>1
    <3>2. CASE events' = events \cup {<<"error", f>>} /\ linked' = linked
      BY <1>2, <3>2
    <3> QED BY <2>3, <3>1, <3>2
  <2> HIDE <2>3
  <2>7. Told(f)' \/ linked'[f] # {}
    BY <2>6 DEF Told
  <2>8. \A w \in linked'[f] : w \in linked[f] \/ (w \in Regular /\ Placed(w))
    BY <2>5, <2>6
  <2> QED BY <1>2, <2>1, <2>4, <2>6, <2>7, <2>8, RestorerKeeps
<1>6. CASE Create(f)
  <2>1. /\ step[f] = "store" /\ UNCHANGED <<syncVars, reader>>
        /\ hardlinks' = hardlinks /\ linked' = linked
    BY <1>6 DEF Create, Go
  <2>2. CASE /\ step' = [step EXCEPT ![f] = "copy"] /\ target' = [target EXCEPT ![f] = "part"] /\ events' = events
    <3>1. Placed(f)'
      BY <1>2, <2>2 DEF Placed
    <3>2. target' = [p \in Paths |-> target'[p]] /\ \A g \in Regular \ {f} : target'[g] = target[g]
      BY <1>1, <1>2, <2>2
    <3>3. events \subseteq events' /\ step' = [step EXCEPT ![f] = "copy"]
      BY <2>2
    <3> HIDE <2>2
    <3> QED BY <1>2, <2>1, <3>1, <3>2, <3>3, RestorerKeeps
  <2>3. CASE /\ step' = [step EXCEPT ![f] = "end"] /\ target' = target /\ events' = events \cup {<<"error", f>>}
    <3>1. Told(f)' /\ events \subseteq events'
      BY <2>3 DEF Told
    <3>2. Placed(f)'
      BY <1>2, <2>3, <3>1 DEF Placed
    <3> QED BY <1>2, <2>1, <2>3, <3>1, <3>2, RestorerKeeps
  <2> QED BY <1>6, <2>2, <2>3 DEF Create, Go, Tell
<1>7. CASE Copy(f)
  <2>1. /\ step[f] = "copy" /\ step' = [step EXCEPT ![f] = "end"] /\ UNCHANGED <<syncVars, reader>>
        /\ hardlinks' = hardlinks /\ linked' = linked
    BY <1>7 DEF Copy, Go
  <2>2. \/ target' = [target EXCEPT ![f] = "whole"] /\ events' = events \cup {<<"ok", f>>}
        \/ target' = target /\ events' = events \cup {<<"error", f>>}
    BY <1>7 DEF Copy, Tell
  <2>3. /\ target' = [p \in Paths |-> target'[p]] /\ \A g \in Regular \ {f} : target'[g] = target[g]
        /\ events \subseteq events' /\ Told(f)'
    <3>1. CASE target' = [target EXCEPT ![f] = "whole"] /\ events' = events \cup {<<"ok", f>>}
      BY <1>1, <1>2, <3>1 DEF Told
    <3>2. CASE target' = target /\ events' = events \cup {<<"error", f>>}
      BY <1>2, <3>2 DEF Told
    <3> QED BY <2>2, <3>1, <3>2
  <2> HIDE <2>2
  <2>4. Placed(f)'
    BY <1>2, <2>1, <2>3 DEF Placed
  <2> QED BY <1>2, <2>1, <2>3, <2>4, RestorerKeeps
<1> QED BY <1>3, <1>4, <1>5, <1>6, <1>7 DEF Restorer

-----------------------------------------------------------------------------
\* The ends of the commands.

\* The end of a command that reads keeps Reading: a restore ends when the walk has
\* ended and every goroutine has.
LEMMA ReadingEnds ==
    ASSUME Reading, cmd.name \in {"restore", "check", "archive"}, Stop(cmd.name),
           UNCHANGED <<errors, repoVars, sync, exposed, clone, step, hardlinks, target, linked>>,
           reader' = [f \in ReaderFields |-> reader'[f]], reader'.kind = reader.kind \/ (reader.kind = "check" /\ reader'.kind = "fast check"),
           reader'.repo = reader.repo, reader'.ok = reader.ok, reader'.at = reader.at,
           reader'.id = reader.id, reader'.visits = reader.visits, reader'.done = TRUE,
           events \subseteq events' \/ reader.kind # "restore",
           cmd.name = "restore" => reader.at \notin DOMAIN reader.visits /\ \A f \in Regular : step[f] \in {"no", "end"}
    PROVE  ReaderIs' /\ RestoreIs'
<1>1. Shaped /\ ReaderIs /\ RestoreIs
  BY DEF Reading
<1>2. reader.kind = cmd.name /\ ~reader.done
  BY <1>1, CommandReads
<1>3. cmd'.name = "idle" /\ cmd'.readers = cmd.readers
  <2>1. cmd = [f \in CmdFields |-> cmd[f]]
    BY <1>1 DEF Shaped, CmdIs
  <2> QED BY <2>1 DEF Stop, CmdFields
<1>4. snaps' = snaps /\ packs' = packs /\ lost' = lost
  BY DEF repoVars
<1>5. Readable(reader.repo)' = Readable(reader.repo)
  BY <1>4 DEF Readable, Located
<1>6. ReaderIs'
  BY <1>1, <1>2, <1>3, <1>4, <1>5 DEF ReaderIs
<1>7. RestoreIs'
  <2>1. CASE reader.kind = "restore"
    <3>1. \A f \in Regular : (Told(f) => Told(f)') /\ (Placed(f) => Placed(f)')
      BY <2>1, FileKept
    <3> QED BY <1>1, <1>2, <2>1, <3>1 DEF RestoreIs
  <2>2. CASE reader.kind # "restore"
    <3>1. \A f \in Regular : step[f] = "no"
      BY <1>1, <2>2 DEF ReaderIs
    <3>2. \A f \in Regular : ~Placed(f)
      BY <3>1 DEF Placed
    <3>3. reader'.kind # "restore"
      BY <2>2
    <3>4. step' = step /\ hardlinks' = hardlinks /\ target' = target /\ linked' = linked
      OBVIOUS
    <3>5. /\ \A l \in HardLinks : hardlinks[l] = {}
          /\ \A f \in Regular : linked[f] = {}
      BY <1>1, <3>2 DEF RestoreIs
    <3>6. /\ step' = [f \in Regular |-> step'[f]] /\ target' = [p \in Paths |-> target'[p]]
          /\ hardlinks' = [l \in HardLinks |-> hardlinks'[l]] /\ linked' = [f \in Regular |-> linked'[f]]
      BY <1>1, <3>4 DEF RestoreIs
    <3>7. reader'.ok => \A i \in 1 .. Len(reader'.visits) :
                         i < reader'.at /\ reader'.visits[i][1] \in Regular => step'[reader'.visits[i][1]] # "no"
      <4>1. reader.ok => \A i \in 1 .. Len(reader.visits) :
                         i < reader.at /\ reader.visits[i][1] \in Regular => step[reader.visits[i][1]] # "no"
        BY <1>1 DEF RestoreIs
      <4>2. reader'.visits = reader.visits /\ reader'.at = reader.at /\ reader'.ok = reader.ok
        OBVIOUS
      <4> QED BY ONLY <3>4, <4>1, <4>2
    <3>8. \A f \in Regular : step'[f] = "no" /\ linked'[f] = {}
      BY <3>1, <3>4, <3>5
    <3>9. \A l \in HardLinks : hardlinks'[l] = {}
      BY <3>4, <3>5
    <3> QED BY <3>3, <3>6, <3>7, <3>8, <3>9 DEF RestoreIs
  <2> QED BY <2>1, <2>2
<1> QED BY <1>6, <1>7

-----------------------------------------------------------------------------
\* The index a command walked: each file it names was visited as the index says,
\* and each was, if the walk was whole.
LEMMA FilesAre ==
    ASSUME Reading, reader.kind # "no"
    PROVE  /\ \A v \in FilesOf(Snapshot) : v[1] \in Regular
           /\ \A v \in FilesOf(Snapshot), w \in ToSet(reader.visits) : v[1] = w[1] => v = w
           /\ reader.ok => \A v \in FilesOf(Snapshot) : v \in ToSet(reader.visits)
           /\ \A w \in ToSet(reader.visits) :
                 w[2] # NoEntry /\ (w[2].object = NoObject \/ <<"object", w[2].object>> \in Readable(reader.repo))
           /\ reader.visits \in Seq(Path \X Entries)
<1> DEFINE t == Snapshot.vfs
<1>1. /\ reader.id \in DOMAIN snaps[reader.repo] /\ reader.repo \in Repositories
      /\ WalkedIn(Readable(reader.repo), t, reader.visits, reader.ok)
  BY RepositoriesAre DEF Reading, ReaderIs, Snapshot
<1>2. IsTree(t, Entries)
  BY <1>1 DEF Reading, Shaped, SnapsAre, IsSnapshot, IsIndex, IndexOf, Snapshot
<1> HIDE DEF t
<1>3. ToSet(Pairs(t)) = Listed(t, Entries)
  BY <1>2, PairsAre
<1>4. FilesOf(Snapshot) = {v \in Listed(t, Entries) : v[1] \in Regular}
  BY <1>3 DEF FilesOf, t
<1>5. reader.visits \in Seq(Path \X Entries)
  BY <1>1 DEF WalkedIn
<1>6. ASSUME NEW w \in ToSet(reader.visits)
      PROVE  w \in Listed(t, Entries) /\ w[2] # NoEntry /\ (w[2].object = NoObject \/ <<"object", w[2].object>> \in Readable(reader.repo))
  <2>1. PICK i \in 1 .. Len(reader.visits) : reader.visits[i] = w
    BY <1>5 DEF ToSet
  <2> QED BY <1>1, <2>1 DEF WalkedIn
<1>7. \A v \in FilesOf(Snapshot), w \in ToSet(reader.visits) : v[1] = w[1] => v = w
  BY <1>2, <1>4, <1>6, OneValue
<1>8. reader.ok => \A v \in FilesOf(Snapshot) : v \in ToSet(reader.visits)
  BY <1>1, <1>4 DEF WalkedIn
<1> QED BY <1>4, <1>5, <1>6, <1>7, <1>8

\* What a check says of a file whose entry it could resolve.
VerdictSays(r, f, e, fast) ==
    /\ \A g : <<"bad", g>> \in Verdict(r, f, e, fast) => g = f /\ ~Whole(r, e)
    /\ \A g : <<"ok", g>> \in Verdict(r, f, e, fast) => g = f /\ (fast \/ Whole(r, e))
    /\ ~fast => IF Whole(r, e) THEN <<"ok", f>> \in Verdict(r, f, e, fast)
                ELSE <<"bad", f>> \in Verdict(r, f, e, fast)
    /\ fast /\ (e.object = NoObject \/ ~(Content(e) \subseteq Located(r))) => <<"bad", f>> \in Verdict(r, f, e, fast)

\* snapshotCheckPath: what is said of a file. "ok" of a file that is not whole is
\* said by a fast check only, "bad" is said of none that is whole.
LEMMA VerdictIs ==
    ASSUME NEW r, NEW f, NEW e, e.object = NoObject \/ <<"object", e.object>> \in Readable(r), NEW fast \in BOOLEAN
    PROVE  VerdictSays(r, f, e, fast)
<1>1. CASE e.object = NoObject
  BY <1>1 DEF Verdict, Whole, VerdictSays
<1>2. CASE e.object # NoObject /\ ~fast
  BY <1>2 DEF Verdict, Whole, VerdictSays
<1>3. CASE e.object # NoObject /\ fast
  <2>1. ASSUME ~(Content(e) \subseteq Located(r)) PROVE ~Legible(r, e.object)
    <3>1. <<"object", e.object>> \in Located(r)
      BY <1>3 DEF Readable
    <3>2. PICK c \in ToSet(e.object) : <<"chunk", c>> \notin Located(r)
      BY <1>3, <2>1, <3>1 DEF Content
    <3>3. PICK i \in DOMAIN e.object : e.object[i] = c
      BY <3>2 DEF ToSet
    <3> QED BY <3>2, <3>3 DEF Legible, Readable
  <2> QED BY <1>3, <2>1 DEF Verdict, Whole, VerdictSays
<1> QED BY <1>1, <1>2, <1>3

\* A check keeps Reading: it says what it should of each file it visits
\* (Snapshot.Check).
LEMMA ReadingCheck ==
    ASSUME Reading, NEW fast \in BOOLEAN, Check(fast)
    PROVE  ReaderIs' /\ RestoreIs' /\ CheckTells' /\ ArchiveWhole'
<1>1. /\ cmd.name = "check" /\ Stop("check")
      /\ reader' = [reader EXCEPT !.done = TRUE, !.kind = IF fast THEN "fast check" ELSE "check"]
      /\ events' = UNION {Verdict(reader.repo, v[1], v[2], fast) : v \in {w \in ToSet(reader.visits) : w[1] \in Regular}}
      /\ UNCHANGED <<errors, repoVars, sync, exposed, clone, step, hardlinks, target, linked>>
  BY DEF Check, Stop
<1>2. Shaped /\ ReaderIs /\ RestoreIs /\ CheckTells /\ ArchiveWhole
  BY DEF Reading
<1>3. reader.kind = "check" /\ ~reader.done
  BY <1>1, <1>2, CommandReads
<1>4. reader = [f \in ReaderFields |-> reader[f]]
  BY <1>2 DEF ReaderIs
<1>5. /\ reader' = [f \in ReaderFields |-> reader'[f]] /\ reader'.kind = (IF fast THEN "fast check" ELSE "check")
      /\ reader'.repo = reader.repo /\ reader'.ok = reader.ok /\ reader'.at = reader.at
      /\ reader'.id = reader.id /\ reader'.visits = reader.visits /\ reader'.done = TRUE
      /\ reader'.archived = reader.archived /\ reader'.cut = reader.cut
  BY <1>1, <1>4 DEF ReaderFields
<1> DEFINE told == UNION {Verdict(reader.repo, v[1], v[2], fast) : v \in {w \in ToSet(reader.visits) : w[1] \in Regular}}
<1>6. events' = told
  BY <1>1
<1>7. cmd.name = "check" /\ Stop("check") /\ UNCHANGED <<errors, repoVars, sync, exposed, clone, step, hardlinks, target, linked>>
  BY <1>1
<1> HIDE <1>1, <1>4
<1>8. ReaderIs' /\ RestoreIs'
  BY <1>3, <1>5, <1>7, ReadingEnds
<1>9. snaps' = snaps /\ packs' = packs /\ lost' = lost
  BY <1>7 DEF repoVars
<1>10. ArchiveWhole'
  BY <1>2, <1>5, <1>9, ArchiveKept
<1> DEFINE r == reader.repo
<1>11. /\ FilesOf(Snapshot)' = FilesOf(Snapshot) /\ Located(r)' = Located(r)
       /\ \A e : Whole(r, e)' <=> Whole(r, e)
  BY <1>5, <1>9 DEF FilesOf, Snapshot, Whole, Legible, Readable, Located
<1>12. ASSUME NEW v \in FilesOf(Snapshot)
       PROVE  /\ <<"bad", v[1]>> \in told => v[2] # NoEntry /\ ~Whole(r, v[2])
              /\ <<"ok", v[1]>> \in told => fast \/ Whole(r, v[2])
              /\ reader.ok => /\ ~fast => IF Whole(r, v[2]) THEN <<"ok", v[1]>> \in told ELSE <<"bad", v[1]>> \in told
                              /\ fast /\ (v[2].object = NoObject \/ ~(Content(v[2]) \subseteq Located(r))) => <<"bad", v[1]>> \in told
  <2>1. \A w \in ToSet(reader.visits) :
            w[2] # NoEntry /\ (w[2].object = NoObject \/ <<"object", w[2].object>> \in Readable(r))
    BY <1>3, FilesAre
  <2>2. v[1] \in Regular /\ (reader.ok => v \in ToSet(reader.visits)) /\ \A w \in ToSet(reader.visits) : v[1] = w[1] => v = w
    BY <1>3, FilesAre
  <2>21. \A w \in ToSet(reader.visits) : VerdictSays(r, w[1], w[2], fast)
    BY <2>1, VerdictIs
  <2>3. ASSUME NEW what \in {"bad", "ok"}, <<what, v[1]>> \in told
        PROVE  v \in ToSet(reader.visits) /\ <<what, v[1]>> \in Verdict(r, v[1], v[2], fast)
    <3>1. PICK w \in ToSet(reader.visits) : <<what, v[1]>> \in Verdict(r, w[1], w[2], fast)
      BY <2>3
    <3>2. w[1] = v[1]
      BY <2>21, <3>1 DEF VerdictSays
    <3> QED BY <2>2, <3>1, <3>2
  <2>4. ASSUME NEW what, v \in ToSet(reader.visits), <<what, v[1]>> \in Verdict(r, v[1], v[2], fast)
        PROVE  <<what, v[1]>> \in told
    BY <2>2, <2>4
  <2> HIDE DEF told
  <2>5. <<"bad", v[1]>> \in told => v[2] # NoEntry /\ ~Whole(r, v[2])
    BY <2>1, <2>21, <2>3 DEF VerdictSays
  <2>6. <<"ok", v[1]>> \in told => fast \/ Whole(r, v[2])
    BY <2>1, <2>21, <2>3 DEF VerdictSays
  <2>7. ASSUME reader.ok
        PROVE  /\ ~fast => IF Whole(r, v[2]) THEN <<"ok", v[1]>> \in told ELSE <<"bad", v[1]>> \in told
               /\ fast /\ (v[2].object = NoObject \/ ~(Content(v[2]) \subseteq Located(r))) => <<"bad", v[1]>> \in told
    BY <2>2, <2>21, <2>4, <2>7 DEF VerdictSays
  <2> QED BY <2>5, <2>6, <2>7
<1> HIDE DEF told
<1>13. CheckTells'
  <2> SUFFICES ASSUME NEW v \in FilesOf(Snapshot)
               PROVE  /\ <<"bad", v[1]>> \in events' => v[2] # NoEntry /\ ~Whole(r, v[2])
                      /\ \/ ~reader.ok
                         \/ /\ reader'.kind = "check" /\ (Whole(r, v[2]) <=> <<"ok", v[1]>> \in events')
                            /\ (~Whole(r, v[2]) => <<"bad", v[1]>> \in events')
                         \/ /\ reader'.kind = "fast check"
                            /\ v[2].object = NoObject \/ ~(Content(v[2]) \subseteq Located(r)) => <<"bad", v[1]>> \in events'
    BY <1>5, <1>11 DEF CheckTells
  <2> QED BY <1>5, <1>6, <1>12
<1> QED BY <1>8, <1>10, <1>13

\* An archive keeps Reading: it is complete when it ended without error
\* (Snapshot.Archive).
LEMMA ReadingArchive ==
    ASSUME Reading, NEW tarball \in BOOLEAN, Archive(tarball)
    PROVE  ReaderIs' /\ RestoreIs' /\ CheckTells' /\ ArchiveWhole'
<1>1. PICK room \in 0 .. Len(reader.visits) + 1, flushed \in BOOLEAN :
          reader' = [reader EXCEPT !.done = TRUE, !.archived = Archivable(room), !.cut = tarball /\ ~flushed]
  BY DEF Archive
<1>2. cmd.name = "archive" /\ Stop("archive") /\ UNCHANGED <<errors, repoVars, sync, exposed, clone, step, hardlinks, target, linked, events>>
  BY DEF Archive, Stop
<1>3. Shaped /\ ReaderIs /\ RestoreIs
  BY DEF Reading
<1>4. reader.kind = "archive" /\ ~reader.done /\ reader = [f \in ReaderFields |-> reader[f]]
  BY <1>2, <1>3, CommandReads DEF ReaderIs
<1>5. /\ reader' = [f \in ReaderFields |-> reader'[f]] /\ reader'.kind = "archive"
      /\ reader'.repo = reader.repo /\ reader'.ok = reader.ok /\ reader'.at = reader.at
      /\ reader'.id = reader.id /\ reader'.visits = reader.visits /\ reader'.done = TRUE
      /\ reader'.archived = Archivable(room)
  BY <1>1, <1>4 DEF ReaderFields
<1> HIDE <1>1
<1>6. ReaderIs' /\ RestoreIs'
  BY <1>2, <1>4, <1>5, ReadingEnds
<1>7. CheckTells'
  BY <1>5 DEF CheckTells
<1>8. snaps' = snaps /\ packs' = packs /\ lost' = lost
  BY <1>2 DEF repoVars
<1>9. ArchiveWhole'
  <2> SUFFICES ASSUME reader'.archived, NEW v \in FilesOf(Snapshot)
               PROVE  /\ \E i \in DOMAIN reader.visits : reader.visits[i] = v
                      /\ v[2] # NoEntry /\ Whole(reader.repo, v[2])
    <3>1. FilesOf(Snapshot)' = FilesOf(Snapshot) /\ \A e : Whole(reader.repo, e)' <=> Whole(reader.repo, e)
      BY <1>5, <1>8 DEF FilesOf, Snapshot, Whole, Legible, Readable, Located
    <3> QED BY <1>5, <3>1 DEF ArchiveWhole
  <2>1. reader.ok /\ \A w \in ToSet(reader.visits) : w[1] \in Regular => Whole(reader.repo, w[2])
    BY <1>5 DEF Archivable
  <2>2. v \in ToSet(reader.visits) /\ v[1] \in Regular /\ v[2] # NoEntry
    BY <1>4, <2>1, FilesAre
  <2> QED BY <2>1, <2>2 DEF ToSet
<1> QED BY <1>6, <1>7, <1>9

\* The end of a restore keeps Reading.
LEMMA ReadingEndRestore ==
    ASSUME Reading, EndRestore
    PROVE  ReaderIs' /\ RestoreIs' /\ CheckTells' /\ ArchiveWhole'
<1>1. /\ cmd.name = "restore" /\ Stop("restore") /\ reader' = [reader EXCEPT !.done = TRUE]
      /\ reader.at \notin DOMAIN reader.visits /\ \A f \in Regular : step[f] \in {"no", "end"}
      /\ UNCHANGED <<errors, repoVars, sync, exposed, clone, step, hardlinks, target, linked, events>>
  BY DEF EndRestore, Stop
<1>2. Shaped /\ ReaderIs /\ RestoreIs /\ ArchiveWhole
  BY DEF Reading
<1>3. reader.kind = "restore" /\ ~reader.done /\ reader = [f \in ReaderFields |-> reader[f]]
  BY <1>1, <1>2, CommandReads DEF ReaderIs
<1>4. /\ reader' = [f \in ReaderFields |-> reader'[f]] /\ reader'.kind = reader.kind
      /\ reader'.repo = reader.repo /\ reader'.ok = reader.ok /\ reader'.at = reader.at
      /\ reader'.id = reader.id /\ reader'.visits = reader.visits /\ reader'.done = TRUE
      /\ reader'.archived = reader.archived /\ reader'.cut = reader.cut
  BY <1>1, <1>3 DEF ReaderFields
<1>5. ReaderIs' /\ RestoreIs'
  BY <1>1, <1>3, <1>4, ReadingEnds
<1>6. CheckTells'
  BY <1>3, <1>4, RestoreChecksNothing
<1>7. ArchiveWhole'
  BY <1>1, <1>2, <1>4, ArchiveKept DEF repoVars
<1> QED BY <1>5, <1>6, <1>7

\* A directory of a restore changes nothing of a check or an archive.
LEMMA ReadingPath ==
    ASSUME Reading, RestorePath
    PROVE  ReaderIs' /\ RestoreIs' /\ CheckTells' /\ ArchiveWhole'
<1>1. ReaderIs /\ ArchiveWhole
  BY DEF Reading
<1>2. cmd.name = "restore" /\ UNCHANGED syncVars
  BY DEF RestorePath
<1>3. reader.kind = "restore" /\ reader = [f \in ReaderFields |-> reader[f]]
  BY <1>1, <1>2, CommandReads DEF ReaderIs
<1>4. reader' = [reader EXCEPT !.at = @ + 1] \/ reader' = [reader EXCEPT !.at = Len(reader.visits) + 1, !.ok = FALSE]
  BY DEF RestorePath
<1>5. /\ reader'.kind = reader.kind /\ reader'.repo = reader.repo
      /\ reader'.id = reader.id /\ reader'.visits = reader.visits
      /\ reader'.archived = reader.archived /\ reader'.cut = reader.cut
  BY <1>3, <1>4 DEF ReaderFields
<1> HIDE <1>4
<1>6. CheckTells'
  BY <1>3, <1>5, RestoreChecksNothing
<1>7. ArchiveWhole'
  BY <1>1, <1>2, <1>5, ArchiveKept DEF syncVars, repoVars
<1> QED BY <1>6, <1>7, ReadingRestorePath

\* Every step keeps Reading.
LEMMA ReadingStep ==
    ASSUME Reading, [Next]_vars
    PROVE  Reading'
<1>1. Shaped'
  BY ShapedStep DEF Reading
<1>2. CASE UNCHANGED vars
  <2>1. Shaped /\ ReaderIs /\ RestoreIs /\ CheckTells /\ ArchiveWhole /\ UNCHANGED syncVars /\ UNCHANGED readVars
    BY <1>2 DEF Reading, vars
  <2>2. /\ reader' = reader /\ step' = step /\ hardlinks' = hardlinks /\ target' = target /\ linked' = linked /\ events' = events
        /\ cmd' = cmd /\ snaps' = snaps /\ packs' = packs /\ lost' = lost
    BY <2>1 DEF readVars, syncVars, repoVars
  <2>3. Readable(reader.repo)' = Readable(reader.repo)
    BY <2>2 DEF Readable, Located
  <2>4. ReaderIs'
    BY <2>1, <2>2, <2>3 DEF ReaderIs
  <2>5. RestoreIs'
    BY <2>1, <2>2 DEF RestoreIs, Placed, Told
  <2>6. CheckTells' /\ ArchiveWhole'
    BY <2>1, <2>2, CheckKept, ArchiveKept
  <2> QED BY <1>1, <2>4, <2>5, <2>6 DEF Reading
<1>3. CASE SyncNext /\ UNCHANGED readVars
  BY <1>1, <1>3, ReadingAndCopies DEF Reading
<1>4. CASE ReadNext
  <2>1. CASE \E kind \in {"restore", "check", "archive"}, r \in {"dst", "clone"} : Open(kind, r)
    BY <1>1, <2>1, ReadingOpen DEF Reading
  <2>2. CASE RestorePath
    BY <1>1, <2>2, ReadingPath DEF Reading
  <2>3. CASE EndRestore
    BY <1>1, <2>3, ReadingEndRestore DEF Reading
  <2>4. CASE \E f \in Regular : Restorer(f)
    BY <1>1, <2>4, ReadingRestorer DEF Reading
  <2>5. CASE \E b \in BOOLEAN : Check(b)
    BY <1>1, <2>5, ReadingCheck DEF Reading
  <2>6. CASE \E b \in BOOLEAN : Archive(b)
    BY <1>1, <2>6, ReadingArchive DEF Reading
  <2> QED BY <1>4, <2>1, <2>2, <2>3, <2>4, <2>5, <2>6 DEF ReadNext
<1> QED BY <1>2, <1>3, <1>4 DEF Next

\* In every state a command that reads visits the entries of its snapshot, a file
\* has a goroutine when the walk has passed it, and a hard link is recorded only
\* when the file behind it was written: the inductive invariant behind the three
\* theorems below.
THEOREM ReadingAlways == Spec => []Reading
<1>1. Init => Reading
  BY ReadingInit
<1>2. Reading /\ [Next]_vars => Reading'
  BY ReadingStep
<1> QED BY <1>1, <1>2, PTL DEF Spec

\* CheckTells, for every source and every loss of chunks: a check that is done,
\* and that did not fail to read the tree, has told of each regular file whether
\* it is whole (Snapshot.Check, snapshotCheckPath).
THEOREM CheckTellsAlways == Spec => []CheckTells
<1>1. Reading => CheckTells
  BY DEF Reading
<1> QED BY <1>1, ReadingAlways, PTL

\* ArchiveWhole: an archive that has got its name has every file of its snapshot,
\* whole, unless the last part of a tarball could not be written
\* (Snapshot.Archive).
THEOREM ArchiveWholeAlways == Spec => []ArchiveWhole
<1>1. Reading => ArchiveWhole
  BY DEF Reading
<1> QED BY <1>1, ReadingAlways, PTL

\* RestoreAccounts: when a restore has ended, each regular file of the snapshot is
\* whole or an error was told, of it or of the file it is a link to, or the
\* restore failed as a whole (Snapshot.Restore with its goroutines and its map of
\* hard links).
THEOREM RestoreAccountsAlways == Spec => []RestoreAccounts
<1>1. ASSUME Reading PROVE RestoreAccounts
  <2> SUFFICES ASSUME reader.kind = "restore", reader.done, reader.ok, NEW v \in FilesOf(Snapshot)
               PROVE  \/ \E q \in {v[1]} \cup linked[v[1]] : target[q] = "whole"
                      \/ \E q \in {v[1]} \cup linked[v[1]] : <<"error", q>> \in events
    BY DEF RestoreAccounts
  <2>1. ReaderIs /\ RestoreIs
    BY <1>1 DEF Reading
  <2>2. v \in ToSet(reader.visits) /\ v[1] \in Regular /\ reader.visits \in Seq(Path \X Entries)
    BY <1>1, FilesAre
  <2>3. PICK i \in 1 .. Len(reader.visits) : reader.visits[i] = v
    BY <2>2 DEF ToSet
  <2>4. reader.at \in Nat /\ reader.at > 0 /\ reader.at \notin 1 .. Len(reader.visits)
    BY <2>1, <2>2 DEF ReaderIs, RestoreIs
  <2>5. i < reader.at
    BY <2>4
  <2>6. step[v[1]] = "end"
    BY <2>1, <2>2, <2>3, <2>5 DEF RestoreIs
  <2>7. CASE Told(v[1])
    BY <2>7 DEF Told
  <2>8. CASE linked[v[1]] # {}
    <3>1. PICK q \in linked[v[1]] : q \in Regular /\ Placed(q)
      BY <2>1, <2>2, <2>8 DEF RestoreIs
    <3>2. step[q] \in {"no", "end"}
      BY <2>1, <3>1 DEF RestoreIs
    <3>3. Told(q)
      BY <3>1, <3>2 DEF Placed
    <3> QED BY <3>1, <3>3 DEF Told
  <2> QED BY <2>1, <2>2, <2>6, <2>7, <2>8 DEF RestoreIs
<1> QED BY <1>1, ReadingAlways, PTL

-----------------------------------------------------------------------------
\* What is true while snapshots are copied.

\* What the two backups of the source commit.
Original == [vfs |-> Index, errs |-> ErrorPaths, attrs |-> {Attribute(p) : p \in Attributed}]

\* The snapshots of the source are its own, but for the one the destination had
\* from the start; the others of the destination are copies.
OriginsAre ==
    /\ DOMAIN snaps["src"] \subseteq {There, Former, Latter}
    /\ DOMAIN snaps["dst"] \subseteq {There} \cup DOMAIN snaps["src"]
    /\ \A id \in DOMAIN snaps["src"] \ {There} : snaps["src"][id] = Original
    /\ There \in DOMAIN snaps["dst"] /\ snaps["dst"][There] = Small
    /\ \A r \in {"src", "dst"} : DOMAIN packs[r] \subseteq DOMAIN snaps[r] \cup {Removed}
    /\ cmd.name \in {"scan", "commit"} => DOMAIN snaps["src"] = {}

\* What snapshots need can be found where they are; at the destination, unless
\* maintenance swept while they were copied.
BlobsAre ==
    /\ \A id \in DOMAIN snaps["src"] : Blobs(id, snaps["src"][id]) \subseteq Located("src")
    /\ \A id \in DOMAIN snaps["dst"] :
          id = There \/ id \notin exposed => Blobs(id, snaps["dst"][id]) \subseteq Located("dst")

\* The snapshots a sync still has to copy are not where it copies them to.
Doing == IF sync.phase = "values" THEN {sync.id} ELSE {}
GoingIs ==
    /\ sync.todo \cup Doing \subseteq IF sync.from = "src" THEN {Former, Latter} ELSE {There}
    /\ (sync.todo \cup Doing) \cap DOMAIN snaps[sync.to] = {}
    /\ sync.todo \cap Doing = {}
    /\ sync.both => /\ sync.from = "src" /\ sync.todo \cup Doing \subseteq sync.known
                    /\ DOMAIN snaps["dst"] \subseteq {There} \cup sync.known
                    /\ There \in DOMAIN snaps["src"] => There \in sync.known

\* A chunk of it is lost.
Damaged(object, blobs) == object # NoObject /\ \E i \in DOMAIN object : <<"chunk", object[i]>> \in blobs

\* What a sync believes of the repositories holds, but for what was swept; each
\* value it converted is there, or was damaged.
ConvertedAre ==
    /\ sync.phase # "no" =>
          /\ sync.view["src"] \subseteq Located("src")
          /\ sync.swept \/ sync.view["dst"] \subseteq Located("dst")
    /\ sync.phase = "values" =>
          LET there == sync.view[sync.to] \cup sync.put
          IN  /\ DOMAIN sync.conv \cup ToSet(sync.left) \subseteq ToSet(Conversions(snaps[sync.from][sync.id].vfs))
              /\ \A e \in DOMAIN sync.conv :
                    \/ sync.conv[e] = e /\ (e = NoEntry \/ {<<"entry", e>>} \cup Content(e) \subseteq there)
                    \/ sync.conv[e] = NoEntry /\ Damaged(e.object, lost[sync.from])

\* A copy is what it was, but for what was damaged.
Same(was, is, blobs) ==
    LET x == Pairs(was.vfs)
        y == Pairs(is.vfs)
    IN  /\ is.errs = was.errs /\ Len(y) = Len(x)
        /\ \A i \in DOMAIN y : /\ y[i][1] = x[i][1]
                               /\ y[i][2] = x[i][2] \/ (y[i][2] = NoEntry /\ Damaged(x[i][2].object, blobs))
        /\ {a.path : a \in is.attrs} = {a.path : a \in was.attrs}
        /\ \A a \in is.attrs : a \in was.attrs \/ (a.object = NoObject /\ Damaged(Attribute(a.path).object, blobs))
CopiesAre ==
    /\ There \in DOMAIN snaps["src"] => Same(snaps["dst"][There], snaps["src"][There], lost["dst"])
    /\ \A id \in DOMAIN snaps["dst"] \ {There} : Same(Original, snaps["dst"][id], lost["src"])

\* The files a clone copies hold what was committed before.
Begun(packfiles) == \A id \in clone.begun : Blobs(id, snaps["src"][id]) \subseteq packfiles
ClonedAre ==
    /\ clone.phase \in {"packfiles", "states"} => clone.begun \subseteq DOMAIN snaps["src"]
    /\ clone.phase = "packfiles" =>
          /\ clone.listed \subseteq DOMAIN packs["src"]
          /\ Begun(UNION {packs["src"][f] : f \in clone.listed})
    /\ clone.phase = "states" /\ ~clone.failed => Begun(Located("clone"))
    /\ clone.phase = "done" /\ ~clone.failed =>
          \A id \in clone.begun : /\ id \in DOMAIN snaps["clone"]
                                  /\ Blobs(id, snaps["clone"][id]) \subseteq Located("clone")

Copying == Shaped /\ OriginsAre /\ BlobsAre /\ GoingIs /\ ConvertedAre /\ CopiesAre /\ ClonedAre

-----------------------------------------------------------------------------
\* Blobs that are added, and blobs that are found.

\* The blobs of a repository when a packfile is added to it.
LEMMA AddedBlobs ==
    ASSUME NEW map, NEW key, key \notin DOMAIN map, NEW value
    PROVE  UNION Range(With(map, key, value)) = (UNION Range(map)) \cup value
<1> DEFINE m == With(map, key, value)
<1>1. DOMAIN m = DOMAIN map \cup {key} /\ m[key] = value /\ \A k \in DOMAIN map : m[k] = map[k]
  BY DEF With
<1> HIDE DEF m
<1>2. \A b : b \in UNION Range(m) <=> \E k \in DOMAIN m : b \in m[k]
  BY DEF Range
<1>3. \A b : b \in UNION Range(map) <=> \E k \in DOMAIN map : b \in map[k]
  BY DEF Range
<1>4. \A b : b \in UNION Range(m) <=> b \in (UNION Range(map)) \cup value
  BY <1>1, <1>2, <1>3
<1> QED BY <1>4 DEF m

\* A copy that is the same but for chunks that were lost is the same when more are
\* lost.
LEMMA SameKept ==
    ASSUME NEW was, NEW is, NEW less, NEW more, less \subseteq more, Same(was, is, less)
    PROVE  Same(was, is, more)
<1>1. \A object : Damaged(object, less) => Damaged(object, more)
  BY DEF Damaged
<1> QED BY <1>1 DEF Same

\* The values of an index are those of its nodes.
LEMMA ValuesAre ==
    ASSUME NEW t, IsTree(t, Entries)
    PROVE  UNION {ToSet(n.vals) : n \in ToSet(t.nodes)} = ToSet(Conversions(t))
<1>1. PICK h, span : WellShaped(t, Entries, h, span)
  BY DEF IsTree
<1>2. t \in Tree(Entries) /\ \A x \in DOMAIN t.nodes : NodeShaped(t, h, span, span, 0, x) /\ h[x] \in Nat
  BY <1>1 DEF WellShaped, Shape
<1>3. t.nodes \in Seq(Node(Entries))
  BY <1>2 DEF Tree
<1>4. \A v : v \in ToSet(Conversions(t)) <=> \E k \in Path : <<k, v>> \in Listed(t, Entries)
  BY ConversionsAre
<1>5. ASSUME NEW x \in DOMAIN t.nodes
      PROVE  LET n == t.nodes[x]
             IN  /\ n.keys \in Seq(Path) /\ n.vals \in Seq(Entries) /\ n \in ToSet(t.nodes)
                 /\ \A i \in DOMAIN n.vals : i \in DOMAIN n.keys /\ n.keys[i] \in Path /\ n.vals[i] \in Entries
  <2> DEFINE n == t.nodes[x]
  <2>1. n \in Node(Entries) /\ n \in ToSet(t.nodes)
    BY <1>3 DEF ToSet
  <2>2. n.keys \in Seq(Path) /\ n.vals \in Seq(Entries)
    BY <2>1 DEF Node
  <2>3. n.vals = <<>> \/ Len(n.vals) = Len(n.keys)
    BY <1>2 DEF NodeShaped, LeafShaped, InnerShaped
  <2> HIDE DEF n
  <2>4. \A i \in DOMAIN n.vals : i \in DOMAIN n.keys /\ n.keys[i] \in Path /\ n.vals[i] \in Entries
    <3>1. CASE n.vals = <<>>
      BY <3>1
    <3>2. CASE Len(n.vals) = Len(n.keys)
      BY <2>2, <3>2
    <3> QED BY <2>3, <3>1, <3>2
  <2> QED BY <2>1, <2>2, <2>4 DEF n
<1>6. ASSUME NEW v PROVE v \in UNION {ToSet(n.vals) : n \in ToSet(t.nodes)} <=> \E x \in DOMAIN t.nodes : \E i \in DOMAIN t.nodes[x].vals : t.nodes[x].vals[i] = v
  <2>1. v \in UNION {ToSet(n.vals) : n \in ToSet(t.nodes)} <=> \E n \in ToSet(t.nodes) : v \in ToSet(n.vals)
    OBVIOUS
  <2>2. (\E n \in ToSet(t.nodes) : v \in ToSet(n.vals)) <=> \E x \in DOMAIN t.nodes : v \in ToSet(t.nodes[x].vals)
    BY <1>5 DEF ToSet
  <2> QED BY <2>1, <2>2 DEF ToSet
<1>7. ASSUME NEW v PROVE (\E k \in Path : <<k, v>> \in Listed(t, Entries)) <=> \E x \in DOMAIN t.nodes : \E i \in DOMAIN t.nodes[x].vals : t.nodes[x].vals[i] = v
  <2>1. ASSUME NEW k \in Path, <<k, v>> \in Listed(t, Entries) PROVE \E x \in DOMAIN t.nodes : \E i \in DOMAIN t.nodes[x].vals : t.nodes[x].vals[i] = v
    BY <2>1 DEF Listed
  <2>2. ASSUME NEW x \in DOMAIN t.nodes, NEW i \in DOMAIN t.nodes[x].vals, t.nodes[x].vals[i] = v
        PROVE  \E k \in Path : <<k, v>> \in Listed(t, Entries)
    <3>1. t.nodes[x].keys[i] \in Path /\ v \in Entries
      BY <1>5, <2>2
    <3>2. <<t.nodes[x].keys[i], v>> \in Listed(t, Entries)
      BY <2>2, <3>1 DEF Listed
    <3> QED BY <3>1, <3>2
  <2> QED BY <2>1, <2>2
<1> QED BY <1>4, <1>6, <1>7

\* What a value of an index refers to belongs to the snapshot.
LEMMA ValueBlobs ==
    ASSUME NEW id, NEW s, IsIndex(s.vfs), NEW e \in ToSet(Conversions(s.vfs)), e # NoEntry
    PROVE  {<<"entry", e>>} \cup Content(e) \subseteq Blobs(id, s)
<1>1. IsTree(s.vfs, Entries)
  BY DEF IsIndex, IndexOf
<1>2. UNION {ToSet(n.vals) : n \in ToSet(s.vfs.nodes)} = ToSet(Conversions(s.vfs))
  BY <1>1, ValuesAre
<1>3. e \in EntriesOf(s)
  BY <1>2 DEF EntriesOf
<1> QED BY <1>3 DEF Blobs

\* The content of an attribute is among the blobs of its snapshot.
LEMMA AttributeBlobs ==
    ASSUME NEW id, NEW s, NEW x \in s.attrs
    PROVE  Content(x) \subseteq Blobs(id, s)
BY DEF Blobs, Own

\* Another backup of the same source needs what the first did, and its header.
LEMMA BlobsOfOther ==
    ASSUME NEW id, NEW other, NEW s
    PROVE  Blobs(other, s) \subseteq Blobs(id, s) \cup {<<"header", other>>}
BY DEF Blobs, Own

\* What a sync copies, it copies from a place that has it all.
LEMMA SourceHolds ==
    ASSUME Copying, sync.phase # "no", NEW id \in sync.todo \cup Doing
    PROVE  /\ id \in DOMAIN snaps[sync.from] /\ IsSnapshot(snaps[sync.from][id])
           /\ Blobs(id, snaps[sync.from][id]) \subseteq Located(sync.from)
           /\ snaps[sync.from][id] = IF sync.from = "src" THEN Original ELSE snaps["dst"][There]
<1>1. /\ sync.from \in {"src", "dst"} /\ sync.todo \subseteq DOMAIN snaps[sync.from]
      /\ sync.phase = "values" => sync.id \in DOMAIN snaps[sync.from]
  BY DEF Copying, Shaped, SyncIs
<1>2. id \in DOMAIN snaps[sync.from]
  BY <1>1 DEF Doing
<1>3. IsSnapshot(snaps[sync.from][id])
  BY <1>1, <1>2, RepositoriesAre DEF Copying, Shaped, SnapsAre
<1>4. CASE sync.from = "src"
  <2>1. id \in {Former, Latter}
    BY <1>4 DEF Copying, GoingIs
  <2>2. id # There
    BY <2>1 DEF There, Former, Latter
  <2> QED BY <1>2, <1>3, <1>4, <2>2 DEF Copying, BlobsAre, OriginsAre
<1>5. CASE sync.from = "dst"
  <2>1. id = There
    BY <1>5 DEF Copying, GoingIs
  <2> QED BY <1>2, <1>3, <1>5, <2>1 DEF Copying, BlobsAre
<1> QED BY <1>1, <1>4, <1>5

-----------------------------------------------------------------------------
\* Copying holds before anything has run.
LEMMA CopyingInit == Init => Copying
<1> SUFFICES ASSUME Init PROVE Copying
  OBVIOUS
<1>1. /\ Shaped /\ cmd.name = "scan" /\ sync = Idle /\ clone = NoClone /\ exposed = {}
      /\ packs = [r \in Repositories |-> IF r = "dst" THEN With(With(<<>>, Removed, Garbage), There, Blobs(There, Small)) ELSE <<>>]
      /\ snaps = [r \in Repositories |-> IF r = "dst" THEN With(<<>>, There, Small) ELSE <<>>]
  BY ShapedInit DEF Init, SyncInit
<1>2. /\ snaps["src"] = <<>> /\ snaps["dst"] = With(<<>>, There, Small)
      /\ packs["src"] = <<>> /\ packs["dst"] = With(With(<<>>, Removed, Garbage), There, Blobs(There, Small))
  BY <1>1, RepositoriesAre
<1>3. /\ DOMAIN snaps["src"] = {} /\ DOMAIN snaps["dst"] = {There} /\ snaps["dst"][There] = Small
      /\ DOMAIN packs["src"] = {} /\ DOMAIN packs["dst"] = {Removed, There} /\ packs["dst"][There] = Blobs(There, Small)
  BY <1>2 DEF With
<1> HIDE <1>2
<1>4. sync.phase = "no" /\ sync.todo = {} /\ ~sync.both /\ clone.phase = "no"
  BY <1>1 DEF Idle, NoClone
<1> HIDE <1>1
<1>5. OriginsAre
  BY <1>3 DEF OriginsAre
<1>6. BlobsAre
  BY <1>3 DEF BlobsAre, Located, Range
<1>7. GoingIs /\ ConvertedAre /\ ClonedAre
  BY <1>4 DEF GoingIs, ConvertedAre, ClonedAre, Doing
<1>8. CopiesAre
  BY <1>3 DEF CopiesAre
<1>9. Shaped
  BY <1>1
<1> QED BY <1>5, <1>6, <1>7, <1>8, <1>9 DEF Copying

\* As long as nothing is written where snapshots are copied, and nothing swept, and
\* only blobs get lost.
LEMMA CopyingQuiet ==
    ASSUME Copying, exposed' = exposed,
           \A r \in {"src", "dst"} : snaps'[r] = snaps[r] /\ packs'[r] = packs[r] /\ lost[r] \subseteq lost'[r]
    PROVE  /\ BlobsAre' /\ CopiesAre'
           /\ (cmd'.name \in {"scan", "commit"} => cmd.name \in {"scan", "commit"}) => OriginsAre'
           /\ clone' = clone /\ snaps' = snaps /\ packs' = packs => ClonedAre'
           /\ sync' = sync => GoingIs' /\ ConvertedAre'
<1>1. OriginsAre /\ BlobsAre /\ GoingIs /\ ConvertedAre /\ CopiesAre /\ ClonedAre
  BY DEF Copying
<1>2. BlobsAre'
  BY <1>1 DEF BlobsAre, Located
<1>3. CopiesAre'
  <2>1. There \in DOMAIN snaps["src"] => Same(snaps["dst"][There], snaps["src"][There], lost'["dst"])
    BY <1>1, SameKept DEF CopiesAre
  <2>2. \A id \in DOMAIN snaps["dst"] \ {There} : Same(Original, snaps["dst"][id], lost'["src"])
    BY <1>1, SameKept DEF CopiesAre
  <2> QED BY <2>1, <2>2 DEF CopiesAre
<1>4. ASSUME cmd'.name \in {"scan", "commit"} => cmd.name \in {"scan", "commit"} PROVE OriginsAre'
  BY <1>1, <1>4 DEF OriginsAre
<1>5. ASSUME clone' = clone, snaps' = snaps, packs' = packs PROVE ClonedAre'
  BY <1>1, <1>5 DEF ClonedAre, Begun, Located
<1>6. sync.from \in {"src", "dst"} /\ sync.to \in {"src", "dst"}
  BY DEF Copying, Shaped, SyncIs
<1>7. ASSUME sync' = sync PROVE GoingIs'
  BY <1>1, <1>6, <1>7 DEF GoingIs, Doing
<1>8. ASSUME sync' = sync PROVE ConvertedAre'
  <2>1. \A object : Damaged(object, lost[sync.from]) => Damaged(object, lost'[sync.from])
    BY <1>6 DEF Damaged
  <2>2. snaps'[sync.from] = snaps[sync.from] /\ Located("src")' = Located("src") /\ Located("dst")' = Located("dst")
    BY <1>6 DEF Located
  <2> QED BY <1>1, <1>8, <2>1, <2>2 DEF ConvertedAre
<1> QED BY <1>2, <1>3, <1>4, <1>5, <1>7, <1>8

\* A chunk that is lost keeps Copying: the copies made before stay what they are.
LEMMA CopyingLose ==
    ASSUME Copying, Shaped', NEW r \in Repositories, Lose(r)
    PROVE  Copying'
<1>1. /\ r # "clone" /\ \E blob \in Readable(r) : lost' = [lost EXCEPT ![r] = @ \cup {blob}]
      /\ UNCHANGED <<errors, packs, snaps, cmd, sync, exposed, clone>>
  BY DEF Lose
<1>2. lost = [q \in Repositories |-> lost[q]]
  BY DEF Copying, Shaped, SnapsAre
<1>3. lost["src"] \subseteq lost'["src"] /\ lost["dst"] \subseteq lost'["dst"]
  BY <1>1, <1>2, RepositoriesAre
<1>4. snaps' = snaps /\ packs' = packs /\ cmd' = cmd /\ sync' = sync /\ exposed' = exposed /\ clone' = clone
  BY <1>1
<1> HIDE <1>1
<1> QED BY <1>3, <1>4, CopyingQuiet DEF Copying

\* Nothing of a sync or clone, and no backup.
LEMMA CopyingRead ==
    ASSUME Copying, Shaped', UNCHANGED <<repoVars, sync, exposed, clone>>,
           cmd'.name \in {"scan", "commit"} => cmd.name \in {"scan", "commit"}
    PROVE  Copying'
<1>1. snaps' = snaps /\ packs' = packs /\ lost' = lost /\ sync' = sync /\ exposed' = exposed /\ clone' = clone
  BY DEF repoVars
<1> QED BY <1>1, CopyingQuiet DEF Copying

\* The start of a synchronisation keeps Copying: the snapshots to copy are those
\* the other side does not have, and what is known to be there is there.
LEMMA CopyingOpenSync ==
    ASSUME Copying, Shaped', NEW from \in {"src", "dst"}, NEW to \in {"src", "dst"}, from # to, NEW both \in BOOLEAN,
           both => from = "src", OpenSync(from, to, both)
    PROVE  Copying'
<1> DEFINE todo == Locate(from) \ DOMAIN snaps[to]
           known == DOMAIN snaps[from]
           view == [r \in Repositories |-> Located(r)]
<1>1. /\ cmd' = [cmd EXCEPT !.name = "sync", !.copies = @ + 1]
      /\ sync' = [Idle EXCEPT !.phase = "next", !.from = from, !.to = to, !.both = both,
                            !.todo  = todo, !.known = known, !.view  = view]
      /\ UNCHANGED <<errors, repoVars, exposed, clone>>
  BY DEF OpenSync, RunCopy
<1>2. cmd'.name = "sync" /\ snaps' = snaps /\ packs' = packs /\ lost' = lost /\ exposed' = exposed /\ clone' = clone
  <2>1. cmd = [f \in CmdFields |-> cmd[f]]
    BY DEF Copying, Shaped, CmdIs
  <2> QED BY <1>1, <2>1 DEF CmdFields, repoVars
<1>3. BlobsAre' /\ CopiesAre' /\ OriginsAre' /\ ClonedAre'
  BY <1>2, CopyingQuiet
<1>4. todo \subseteq DOMAIN snaps[from] /\ todo \cap DOMAIN snaps[to] = {}
  BY DEF Locate
<1> HIDE DEF todo, known, view
<1>5. /\ sync'.phase = "next" /\ sync'.from = from /\ sync'.to = to /\ sync'.both = both /\ sync'.todo = todo
      /\ sync'.known = known /\ sync'.view = view
  BY <1>1 DEF Idle
<1> HIDE <1>1
<1>6. OriginsAre
  BY DEF Copying
<1>7. Doing' = {}
  BY <1>5 DEF Doing
<1>8. GoingIs'
  <2>1. todo \subseteq IF from = "src" THEN {Former, Latter} ELSE {There}
    <3>1. CASE from = "src"
      BY <1>4, <1>6, <3>1 DEF OriginsAre
    <3>2. CASE from = "dst"
      BY <1>4, <1>6, <3>2 DEF OriginsAre
    <3> QED BY <3>1, <3>2
  <2>2. both => /\ todo \subseteq known /\ DOMAIN snaps["dst"] \subseteq {There} \cup known
                /\ There \in DOMAIN snaps["src"] => There \in known
    BY <1>4, <1>6 DEF OriginsAre, known
  <2> QED BY <1>2, <1>4, <1>5, <1>7, <2>1, <2>2 DEF GoingIs
<1>9. ConvertedAre'
  <2>1. view["src"] = Located("src") /\ view["dst"] = Located("dst")
    BY RepositoriesAre DEF view
  <2> QED BY <1>2, <1>5, <2>1 DEF ConvertedAre, Located
<1> QED BY <1>3, <1>8, <1>9 DEF Copying

\* One snapshot less to copy, or given up.
LEMMA CopyingAbandon ==
    ASSUME Copying, Shaped', sync' = Abandon, UNCHANGED <<errors, repoVars, cmd, exposed, clone>>, sync.phase # "no"
    PROVE  Copying'
<1>1. snaps' = snaps /\ packs' = packs /\ lost' = lost /\ cmd' = cmd
  BY DEF repoVars
<1>2. BlobsAre' /\ CopiesAre' /\ OriginsAre' /\ ClonedAre'
  BY <1>1, CopyingQuiet
<1>3. SyncIs /\ GoingIs /\ ConvertedAre
  BY DEF Copying, Shaped
<1>4. /\ sync'.phase = "next" /\ sync'.from = sync.from /\ sync'.to = sync.to /\ sync'.both = sync.both /\ sync'.todo = sync.todo
      /\ sync'.known = sync.known /\ sync'.view = sync.view /\ sync'.swept = sync.swept
  BY <1>3, AbandonIs
<1>5. GoingIs'
  BY <1>1, <1>3, <1>4 DEF GoingIs, Doing
<1>6. ConvertedAre'
  BY <1>1, <1>3, <1>4 DEF ConvertedAre, Located
<1> QED BY <1>2, <1>5, <1>6 DEF Copying

\* The start of the copy of one snapshot keeps Copying: nothing has been converted
\* yet.
LEMMA CopyingNextSnapshot ==
    ASSUME Copying, Shaped', NEW id \in sync.todo, NextSnapshot(id)
    PROVE  Copying'
<1> DEFINE s == snaps[sync.from][id]
           rest == [Abandon EXCEPT !.todo = @ \ {id}]
           fit  == {<<"header", id>>} \cup {<<"node", n>> : n \in ToSet(s.vfs.nodes)}
           left == Conversions(s.vfs)
<1>1. /\ sync.phase = "next"
      /\ sync' = IF fit \subseteq Readable(sync.from)
                 THEN [rest EXCEPT !.phase = "values", !.id = id, !.left = left]
                 ELSE rest
      /\ UNCHANGED <<errors, repoVars, cmd, exposed, clone>>
  BY DEF NextSnapshot
<1>2. snaps' = snaps /\ packs' = packs /\ lost' = lost /\ cmd' = cmd
  BY <1>1 DEF repoVars
<1>3. BlobsAre' /\ CopiesAre' /\ OriginsAre' /\ ClonedAre'
  BY <1>1, <1>2, CopyingQuiet
<1>4. SyncIs /\ GoingIs /\ ConvertedAre
  BY DEF Copying, Shaped
<1>5. /\ rest = [f \in SyncFields |-> rest[f]] /\ rest.phase = "next" /\ rest.from = sync.from /\ rest.to = sync.to
      /\ rest.both = sync.both /\ rest.todo = sync.todo \ {id} /\ rest.known = sync.known /\ rest.view = sync.view
      /\ rest.swept = sync.swept /\ rest.conv = <<>>
  BY <1>4, AbandonIs DEF SyncFields
<1> HIDE DEF rest, fit, left
<1>6. /\ sync'.from = sync.from /\ sync'.to = sync.to
      /\ sync'.both = sync.both /\ sync'.todo = sync.todo \ {id} /\ sync'.known = sync.known /\ sync'.view = sync.view
      /\ sync'.swept = sync.swept /\ sync'.conv = <<>>
      /\ \/ sync'.phase = "next"
         \/ sync'.phase = "values" /\ sync'.id = id /\ sync'.left = left
  <2>1. CASE sync' = rest
    BY <1>5, <2>1
  <2>2. CASE sync' = [rest EXCEPT !.phase = "values", !.id = id, !.left = left]
    BY <1>5, <2>2 DEF SyncFields
  <2> QED BY <1>1, <2>1, <2>2
<1> HIDE <1>5
<1>7. GoingIs'
  <2>1. Doing = {} /\ Doing' \subseteq {id}
    BY <1>1, <1>6 DEF Doing
  <2>2. sync'.todo \cup Doing' \subseteq sync.todo \cup Doing /\ sync'.todo \cap Doing' = {}
    BY <1>6, <2>1
  <2> QED BY <1>2, <1>4, <1>6, <2>2 DEF GoingIs
<1>8. ConvertedAre'
  <2>1. DOMAIN sync'.conv = {}
    BY <1>6
  <2>2. sync'.phase # "no" => sync'.view["src"] \subseteq Located("src")' /\ (sync'.swept \/ sync'.view["dst"] \subseteq Located("dst")')
    BY <1>1, <1>2, <1>4, <1>6 DEF ConvertedAre, Located
  <2>3. sync'.phase = "values" => ToSet(sync'.left) \subseteq ToSet(Conversions(snaps'[sync'.from][sync'.id].vfs))
    BY <1>2, <1>6 DEF left
  <2> QED BY <2>1, <2>2, <2>3 DEF ConvertedAre
<1> QED BY <1>3, <1>7, <1>8 DEF Copying

\* The second direction of a synchronisation with both keeps Copying: what is
\* copied back is not what was just copied, as the list of the first direction is
\* known.
LEMMA CopyingTurn ==
    ASSUME Copying, Shaped', Turn
    PROVE  Copying'
<1> DEFINE todo == Locate(sync.to) \ sync.known
<1>1. /\ sync.phase = "next" /\ sync.todo = {} /\ sync.both
      /\ sync' = [sync EXCEPT !.from = sync.to, !.to = sync.from, !.both = FALSE, !.todo = todo]
      /\ UNCHANGED <<errors, repoVars, cmd, exposed, clone>>
  BY DEF Turn
<1>2. snaps' = snaps /\ packs' = packs /\ lost' = lost /\ cmd' = cmd
  BY <1>1 DEF repoVars
<1>3. BlobsAre' /\ CopiesAre' /\ OriginsAre' /\ ClonedAre'
  BY <1>1, <1>2, CopyingQuiet
<1>4. SyncIs /\ GoingIs /\ ConvertedAre
  BY DEF Copying, Shaped
<1>5. todo \subseteq DOMAIN snaps[sync.to] \ sync.known
  BY DEF Locate
<1> HIDE DEF todo
<1>6. /\ sync'.from = sync.to /\ sync'.to = sync.from /\ sync'.both = FALSE /\ sync'.todo = todo /\ sync'.phase = "next"
      /\ sync'.view = sync.view /\ sync'.swept = sync.swept
  BY <1>1, <1>4 DEF SyncIs, SyncFields
<1>7. sync.from = "src" /\ sync.to = "dst"
  BY <1>1, <1>4 DEF GoingIs, SyncIs
<1>8. todo \subseteq {There} /\ todo \cap DOMAIN snaps["src"] = {}
  BY <1>1, <1>4, <1>5, <1>7 DEF GoingIs
<1>9. GoingIs'
  BY <1>2, <1>6, <1>7, <1>8 DEF GoingIs, Doing
<1>10. ConvertedAre'
  BY <1>1, <1>2, <1>4, <1>6 DEF ConvertedAre, Located
<1> QED BY <1>3, <1>9, <1>10 DEF Copying

\* The end of a synchronisation keeps Copying.
LEMMA CopyingEndSync ==
    ASSUME Copying, Shaped', EndSync
    PROVE  Copying'
<1>1. /\ sync' = Idle /\ UNCHANGED <<errors, repoVars, exposed, clone>> /\ Stop("sync")
  BY DEF EndSync
<1>2. snaps' = snaps /\ packs' = packs /\ lost' = lost /\ cmd'.name = "idle"
  <2>1. cmd = [f \in CmdFields |-> cmd[f]]
    BY DEF Copying, Shaped, CmdIs
  <2> QED BY <1>1, <2>1 DEF repoVars, Stop, CmdFields
<1>3. BlobsAre' /\ CopiesAre' /\ OriginsAre' /\ ClonedAre'
  BY <1>1, <1>2, CopyingQuiet
<1>4. sync'.phase = "no" /\ sync'.todo = {} /\ ~sync'.both
  BY <1>1 DEF Idle
<1> HIDE <1>1
<1>5. GoingIs' /\ ConvertedAre'
  BY <1>4 DEF GoingIs, ConvertedAre, Doing
<1> QED BY <1>3, <1>5 DEF Copying

-----------------------------------------------------------------------------
\* What the files of a clone hold, if the source only gets more.
LEMMA ClonedKept ==
    ASSUME ClonedAre, clone' = clone, snaps'["clone"] = snaps["clone"], packs'["clone"] = packs["clone"],
           \A id \in DOMAIN snaps["src"] : id \in DOMAIN snaps'["src"] /\ snaps'["src"][id] = snaps["src"][id],
           \A f \in DOMAIN packs["src"] : f \in DOMAIN packs'["src"] /\ packs'["src"][f] = packs["src"][f]
    PROVE  ClonedAre'
<1>1. Located("clone")' = Located("clone")
  BY DEF Located
<1>2. ASSUME clone.phase = "packfiles"
      PROVE  /\ clone.listed \subseteq DOMAIN packs'["src"]
             /\ \A id \in clone.begun : Blobs(id, snaps'["src"][id]) \subseteq UNION {packs'["src"][f] : f \in clone.listed}
  <2>1. /\ clone.listed \subseteq DOMAIN packs["src"] /\ clone.begun \subseteq DOMAIN snaps["src"]
        /\ \A id \in clone.begun : Blobs(id, snaps["src"][id]) \subseteq UNION {packs["src"][f] : f \in clone.listed}
    BY <1>2 DEF ClonedAre, Begun
  <2>2. {packs'["src"][f] : f \in clone.listed} = {packs["src"][f] : f \in clone.listed}
    BY <2>1
  <2> QED BY <2>1, <2>2
<1>3. ASSUME clone.phase = "states", ~clone.failed
      PROVE  \A id \in clone.begun : Blobs(id, snaps'["src"][id]) \subseteq Located("clone")
  BY <1>3 DEF ClonedAre, Begun
<1>4. clone.phase \in {"packfiles", "states"} => clone.begun \subseteq DOMAIN snaps'["src"]
  BY DEF ClonedAre
<1>5. clone.phase = "done" /\ ~clone.failed =>
          \A id \in clone.begun : id \in DOMAIN snaps["clone"] /\ Blobs(id, snaps["clone"][id]) \subseteq Located("clone")
  BY DEF ClonedAre
<1> QED BY <1>1, <1>2, <1>3, <1>4, <1>5 DEF ClonedAre, Begun

\* A snapshot that is new at r.
LEMMA CopyingAdd ==
    ASSUME Copying, NEW r \in {"src", "dst"}, NEW id \in {There, Former, Latter}, id \notin DOMAIN snaps[r],
           NEW s, NEW blobs, Add(r, id, s, blobs), IsSnapshot(s), lost' = lost, clone' = clone, cmd'.name \notin {"scan", "commit"},
           exposed \subseteq exposed', r = "src" \/ id \notin exposed' => Blobs(id, s) \subseteq Located(r) \cup blobs,
           r = "src" /\ id # There => s = Original, r = "src" /\ id = There => Same(snaps["dst"][There], s, lost["dst"]),
           r = "dst" => id \in DOMAIN snaps["src"] /\ Same(Original, s, lost["src"])
    PROVE  /\ OriginsAre' /\ BlobsAre' /\ CopiesAre' /\ ClonedAre'
           /\ \A q \in {"src", "dst"} : Located(q) \subseteq Located(q)'
           /\ blobs \subseteq Located(r)'
           /\ \A q \in {"src", "dst"} : \A i \in DOMAIN snaps[q] : snaps'[q][i] = snaps[q][i]
           /\ DOMAIN snaps'[r] = DOMAIN snaps[r] \cup {id}
           /\ \A q \in {"src", "dst"} : q # r => snaps'[q] = snaps[q]
<1>0. r \in Repositories
  BY RepositoriesAre
<1>1. /\ \A q \in Repositories \ {r} : snaps'[q] = snaps[q] /\ packs'[q] = packs[q]
      /\ snaps'[r] = With(snaps[r], id, s) /\ packs'[r] = With(packs[r], id, blobs)
  BY <1>0, SnapsAreAdded DEF Copying
<1>2. OriginsAre /\ BlobsAre /\ CopiesAre /\ ClonedAre
  BY DEF Copying
<1>3. id \notin DOMAIN packs[r]
  <2>1. id # Removed
    BY DEF There, Former, Latter, Removed
  <2> QED BY <1>2, <2>1 DEF OriginsAre
<1>4. /\ DOMAIN snaps'[r] = DOMAIN snaps[r] \cup {id} /\ snaps'[r][id] = s
      /\ \A i \in DOMAIN snaps[r] : snaps'[r][i] = snaps[r][i]
      /\ DOMAIN packs'[r] = DOMAIN packs[r] \cup {id}
      /\ \A i \in DOMAIN packs[r] : packs'[r][i] = packs[r][i]
  BY <1>1, <1>3 DEF With
<1>5. Located(r)' = Located(r) \cup blobs
  <2>1. UNION Range(With(packs[r], id, blobs)) = (UNION Range(packs[r])) \cup blobs
    BY <1>3, AddedBlobs
  <2>2. packs'[r] = With(packs[r], id, blobs)
    BY <1>1
  <2>3. Located(r)' = UNION Range(packs'[r]) /\ Located(r) = UNION Range(packs[r])
    BY DEF Located
  <2> QED BY ONLY <2>1, <2>2, <2>3
<1>6. /\ \A q \in {"src", "dst", "clone"} : q # r => snaps'[q] = snaps[q] /\ packs'[q] = packs[q]
      /\ \A q \in {"src", "dst"} : q # r => Located(q)' = Located(q)
  BY <1>1, RepositoriesAre DEF Located
<1> HIDE <1>1
<1>7. \A q \in {"src", "dst"} : Located(q) \subseteq Located(q)'
  BY <1>5, <1>6
<1>8. ClonedAre'
  <2>1. snaps'["clone"] = snaps["clone"] /\ packs'["clone"] = packs["clone"]
    BY <1>6
  <2>2. \A i \in DOMAIN snaps["src"] : i \in DOMAIN snaps'["src"] /\ snaps'["src"][i] = snaps["src"][i]
    BY <1>4, <1>6
  <2>3. \A f \in DOMAIN packs["src"] : f \in DOMAIN packs'["src"] /\ packs'["src"][f] = packs["src"][f]
    BY <1>4, <1>6
  <2> QED BY <1>2, <2>1, <2>2, <2>3, ClonedKept
<1>9. CASE r = "src"
  <2>1. snaps'["dst"] = snaps["dst"] /\ packs'["dst"] = packs["dst"]
    BY <1>6, <1>9
  <2>2. OriginsAre'
    BY <1>2, <1>4, <1>9, <2>1 DEF OriginsAre
  <2>3. BlobsAre'
    <3>1. \A i \in DOMAIN snaps'["src"] : Blobs(i, snaps'["src"][i]) \subseteq Located("src")'
      BY <1>2, <1>4, <1>5, <1>9 DEF BlobsAre
    <3>2. \A i \in DOMAIN snaps'["dst"] : i = There \/ i \notin exposed' => Blobs(i, snaps'["dst"][i]) \subseteq Located("dst")'
      BY <1>2, <1>7, <2>1 DEF BlobsAre
    <3> QED BY <3>1, <3>2 DEF BlobsAre
  <2>4. CopiesAre'
    <3>1. There \in DOMAIN snaps'["src"] => Same(snaps'["dst"][There], snaps'["src"][There], lost["dst"])
      BY <1>2, <1>4, <1>9, <2>1 DEF CopiesAre
    <3>2. \A i \in DOMAIN snaps'["dst"] \ {There} : Same(Original, snaps'["dst"][i], lost["src"])
      BY <1>2, <2>1 DEF CopiesAre
    <3> QED BY <3>1, <3>2 DEF CopiesAre
  <2> QED BY <1>4, <1>5, <1>6, <1>7, <1>8, <1>9, <2>2, <2>3, <2>4
<1>10. CASE r = "dst"
  <2>1. snaps'["src"] = snaps["src"] /\ packs'["src"] = packs["src"]
    BY <1>6, <1>10
  <2>2. id # There
    BY <1>2, <1>10 DEF OriginsAre
  <2>3. OriginsAre'
    BY <1>2, <1>4, <1>10, <2>1, <2>2 DEF OriginsAre
  <2>4. BlobsAre'
    <3>1. \A i \in DOMAIN snaps'["src"] : Blobs(i, snaps'["src"][i]) \subseteq Located("src")'
      BY <1>2, <1>7, <2>1 DEF BlobsAre
    <3>2. \A i \in DOMAIN snaps'["dst"] : i = There \/ i \notin exposed' => Blobs(i, snaps'["dst"][i]) \subseteq Located("dst")'
      BY <1>2, <1>4, <1>5, <1>10, <2>2 DEF BlobsAre
    <3> QED BY <3>1, <3>2 DEF BlobsAre
  <2>5. CopiesAre'
    <3>1. There \in DOMAIN snaps'["src"] => Same(snaps'["dst"][There], snaps'["src"][There], lost["dst"])
      BY <1>2, <1>4, <1>10, <2>1, <2>2 DEF CopiesAre, OriginsAre
    <3>2. \A i \in DOMAIN snaps'["dst"] \ {There} : Same(Original, snaps'["dst"][i], lost["src"])
      BY <1>2, <1>4, <1>10 DEF CopiesAre
    <3> QED BY <3>1, <3>2 DEF CopiesAre
  <2> QED BY <1>4, <1>5, <1>6, <1>7, <1>8, <1>10, <2>3, <2>4, <2>5
<1> QED BY <1>9, <1>10

\* A backup, when nothing is copied.
LEMMA CopyingCommit ==
    ASSUME Copying, Shaped', Commit
    PROVE  Copying'
<1>1. /\ cmd.name = "commit" /\ cmd' = [cmd EXCEPT !.name = "idle"] /\ Add("src", Former, Original, Blobs(Former, Original))
      /\ UNCHANGED <<lost, sync, exposed, clone>>
  BY DEF Commit, Stop, Original
<1>2. cmd'.name = "idle" /\ sync.phase = "no" /\ sync = Idle
  BY <1>1 DEF Copying, Shaped, CmdIs, CmdFields, SyncIs
<1>3. DOMAIN snaps["src"] = {}
  BY <1>1 DEF Copying, OriginsAre
<1>4. IsSnapshot(Original)
  BY IndexIs DEF IsSnapshot, IsIndex, Original
<1>5. OriginsAre' /\ BlobsAre' /\ CopiesAre' /\ ClonedAre'
  <2>1. Former # There /\ lost' = lost /\ clone' = clone /\ exposed' = exposed
    BY <1>1 DEF Former, There
  <2> HIDE DEF Original
  <2> QED BY <1>1, <1>2, <1>3, <1>4, <2>1, CopyingAdd
<1>6. sync'.phase = "no" /\ sync'.todo = {} /\ ~sync'.both
  BY <1>1, <1>2 DEF Idle
<1> HIDE <1>1, <1>2
<1>7. GoingIs' /\ ConvertedAre'
  BY <1>6 DEF GoingIs, ConvertedAre, Doing
<1> QED BY <1>5, <1>7 DEF Copying

\* A backup, perhaps while a sync runs.
LEMMA CopyingCommitAgain ==
    ASSUME Copying, Shaped', CommitAgain
    PROVE  Copying'
<1>1. /\ Former \in DOMAIN snaps["src"] /\ Latter \notin DOMAIN snaps["src"]
      /\ Add("src", Latter, snaps["src"][Former], {<<"header", Latter>>})
      /\ UNCHANGED <<errors, lost, cmd, sync, exposed, clone>>
  BY DEF CommitAgain
<1>2. OriginsAre /\ BlobsAre /\ GoingIs /\ ConvertedAre /\ SyncIs
  BY DEF Copying, Shaped
<1>3. Former # There /\ Latter # There
  BY DEF Former, Latter, There
<1>4. snaps["src"][Former] = Original /\ cmd.name \notin {"scan", "commit"}
  BY <1>1, <1>2, <1>3 DEF OriginsAre
<1>5. IsSnapshot(Original)
  BY IndexIs DEF IsSnapshot, IsIndex, Original
<1> HIDE DEF Original
<1>6. Blobs(Latter, Original) \subseteq Located("src") \cup {<<"header", Latter>>}
  <2>1. Blobs(Former, Original) \subseteq Located("src")
    BY <1>1, <1>2, <1>4 DEF BlobsAre
  <2> QED BY <2>1, BlobsOfOther
<1>7. /\ OriginsAre' /\ BlobsAre' /\ CopiesAre' /\ ClonedAre'
      /\ \A q \in {"src", "dst"} : Located(q) \subseteq Located(q)'
      /\ \A q \in {"src", "dst"} : \A i \in DOMAIN snaps[q] : snaps'[q][i] = snaps[q][i]
      /\ DOMAIN snaps'["src"] = DOMAIN snaps["src"] \cup {Latter}
      /\ \A q \in {"src", "dst"} : q # "src" => snaps'[q] = snaps[q]
  <2>1. cmd'.name \notin {"scan", "commit"} /\ lost' = lost /\ clone' = clone /\ exposed \subseteq exposed'
    BY <1>1, <1>4
  <2>2. Add("src", Latter, Original, {<<"header", Latter>>})
    BY <1>1, <1>4
  <2> QED BY <1>1, <1>3, <1>5, <1>6, <2>1, <2>2, CopyingAdd
<1>8. sync' = sync /\ lost' = lost
  BY <1>1
<1>9. GoingIs'
  <2>1. Doing' = Doing
    BY <1>8 DEF Doing
  <2>2. (sync.todo \cup Doing) \cap DOMAIN snaps'[sync.to] = {}
    <3>1. CASE sync.to = "src"
      <4>1. sync.from # "src"
        BY <1>2, <3>1 DEF SyncIs
      <4> QED BY <1>2, <1>3, <1>7, <3>1, <4>1 DEF GoingIs
    <3>2. CASE sync.to = "dst"
      BY <1>2, <1>7, <3>2 DEF GoingIs
    <3> QED BY <1>2, <3>1, <3>2 DEF SyncIs
  <2> QED BY <1>2, <1>3, <1>7, <1>8, <2>1, <2>2 DEF GoingIs
<1>10. ConvertedAre'
  <2>1. sync.phase = "values" => snaps'[sync.from][sync.id] = snaps[sync.from][sync.id]
    BY <1>2, <1>7 DEF SyncIs
  <2> HIDE <1>1
  <2> QED BY <1>2, <1>7, <1>8, <2>1 DEF ConvertedAre
<1> QED BY <1>7, <1>9, <1>10 DEF Copying

\* Maintenance takes away only what no snapshot at the destination needs; a sync
\* that runs may be about to.
LEMMA CopyingColour ==
    ASSUME Copying, Shaped', Colour
    PROVE  Copying'
<1> DEFINE needed == UNION {Blobs(id, snaps["dst"][id]) : id \in DOMAIN snaps["dst"]}
<1>1. /\ Removed \in DOMAIN packs["dst"] /\ packs["dst"][Removed] \cap needed = {}
      /\ packs' = [packs EXCEPT !["dst"] = Restrict(packs["dst"], DOMAIN packs["dst"] \ {Removed})]
      /\ sync' = [sync EXCEPT !.swept = sync.phase # "no"]
      /\ UNCHANGED <<errors, snaps, lost, cmd, exposed, clone>>
  BY DEF Colour
<1>2. OriginsAre /\ BlobsAre /\ GoingIs /\ ConvertedAre /\ CopiesAre /\ ClonedAre /\ SyncIs
  BY DEF Copying, Shaped
<1>3. packs = [r \in Repositories |-> packs[r]]
  BY DEF Copying, Shaped, SnapsAre
<1>4. /\ packs'["dst"] = Restrict(packs["dst"], DOMAIN packs["dst"] \ {Removed})
      /\ packs'["src"] = packs["src"] /\ packs'["clone"] = packs["clone"]
  BY <1>1, <1>3, RepositoriesAre
<1>5. DOMAIN packs'["dst"] = DOMAIN packs["dst"] \ {Removed} /\ \A i \in DOMAIN packs'["dst"] : packs'["dst"][i] = packs["dst"][i]
  BY <1>4, RestrictIs
<1>6. Located("src")' = Located("src")
  BY <1>4 DEF Located
<1>7. \A b \in Located("dst") : b \in needed => b \in Located("dst")'
  <2> SUFFICES ASSUME NEW b \in Located("dst"), b \in needed PROVE b \in Located("dst")'
    OBVIOUS
  <2>1. PICK i \in DOMAIN packs["dst"] : b \in packs["dst"][i]
    BY DEF Located, Range
  <2>2. i # Removed
    BY <1>1, <2>1
  <2>3. i \in DOMAIN packs'["dst"] /\ b \in packs'["dst"][i]
    BY <1>5, <2>1, <2>2
  <2> QED BY <2>3 DEF Located, Range
<1>8. \A id \in DOMAIN snaps["dst"] : Blobs(id, snaps["dst"][id]) \subseteq needed
  OBVIOUS
<1> HIDE DEF needed
<1>9. /\ sync'.phase = sync.phase /\ sync'.from = sync.from /\ sync'.to = sync.to /\ sync'.both = sync.both
      /\ sync'.todo = sync.todo /\ sync'.known = sync.known /\ sync'.view = sync.view /\ sync'.id = sync.id
      /\ sync'.left = sync.left /\ sync'.conv = sync.conv /\ sync'.put = sync.put /\ sync'.swept = (sync.phase # "no")
  BY <1>1, <1>2 DEF SyncIs, SyncFields
<1>10. snaps' = snaps /\ lost' = lost /\ cmd' = cmd /\ exposed' = exposed /\ clone' = clone
  BY <1>1
<1> HIDE <1>1
<1>11. OriginsAre'
  BY <1>2, <1>4, <1>5, <1>10 DEF OriginsAre
<1>12. BlobsAre'
  <2>1. \A id \in DOMAIN snaps["dst"] : id = There \/ id \notin exposed => Blobs(id, snaps["dst"][id]) \subseteq Located("dst")'
    BY <1>2, <1>7, <1>8 DEF BlobsAre
  <2> QED BY <1>2, <1>6, <1>10, <2>1 DEF BlobsAre
<1>13. GoingIs'
  BY <1>2, <1>9, <1>10 DEF GoingIs, Doing
<1>14. ConvertedAre'
  BY <1>2, <1>6, <1>9, <1>10 DEF ConvertedAre
<1>15. CopiesAre'
  BY <1>2, <1>10 DEF CopiesAre
<1>16. ClonedAre'
  BY <1>2, <1>4, <1>10, ClonedKept
<1> QED BY <1>11, <1>12, <1>13, <1>14, <1>15, <1>16 DEF Copying

-----------------------------------------------------------------------------
\* A value that cannot be read whole has a chunk that is lost.
LEMMA DamagedIs ==
    ASSUME NEW r, NEW e, e.object # NoObject, Content(e) \subseteq Located(r), ~Legible(r, e.object)
    PROVE  Damaged(e.object, lost[r])
<1>1. PICK i \in DOMAIN e.object : <<"chunk", e.object[i]>> \notin Readable(r)
  BY DEF Legible
<1>2. e.object[i] \in ToSet(e.object)
  BY DEF ToSet
<1>3. <<"chunk", e.object[i]>> \in Content(e)
  BY <1>2 DEF Content
<1>4. <<"chunk", e.object[i]>> \in lost[r]
  BY <1>1, <1>3 DEF Readable
<1> QED BY <1>4 DEF Damaged

\* An object with a lost chunk cannot be read.
LEMMA DamagedIsIllegible ==
    ASSUME NEW r, NEW object, Damaged(object, lost[r])
    PROVE  object # NoObject /\ ~Legible(r, object)
BY DEF Damaged, Legible, Readable

\* One entry that is converted keeps Copying: its blobs are in the destination or
\* were put there, or a chunk of its object is lost and the copy has no entry.
LEMMA CopyingCopyEntry ==
    ASSUME Copying, Shaped', CopyEntry
    PROVE  Copying'
<1> DEFINE e     == Head(sync.left)
           whole == e.object = NoObject \/ Legible(sync.from, e.object)
           copy  == IF whole THEN e ELSE NoEntry
           blobs == IF whole THEN {<<"entry", e>>} \cup Content(e) ELSE Prefix(sync.from, e.object)
           put   == sync.put \cup Missing(blobs)
           conv  == With(sync.conv, e, copy)
           s     == snaps[sync.from][sync.id]
           was   == sync.view[sync.to] \cup sync.put
           now   == sync.view[sync.to] \cup put
<1>1. /\ sync.phase = "values" /\ sync.left # <<>>
      /\ sync' = IF Resolves(sync.from, e)
                 THEN [sync EXCEPT !.left = Tail(sync.left), !.conv = conv, !.put = put]
                 ELSE Abandon
      /\ UNCHANGED <<errors, repoVars, cmd, exposed, clone>>
  BY DEF CopyEntry
<1>2. SyncIs /\ GoingIs /\ ConvertedAre /\ snaps' = snaps /\ packs' = packs /\ lost' = lost
  BY <1>1 DEF Copying, Shaped, repoVars
<1>3. CASE ~Resolves(sync.from, e)
  <2>1. sync' = Abandon
    BY <1>1, <1>3
  <2> QED BY <1>1, <2>1, CopyingAbandon
<1>4. CASE Resolves(sync.from, e)
  <2>1. sync' = [sync EXCEPT !.left = Tail(sync.left), !.conv = conv, !.put = put]
    BY <1>1, <1>4
  <2>2. /\ sync.left \in Seq(Entries) /\ DOMAIN sync.conv \cup ToSet(sync.left) \subseteq ToSet(Conversions(s.vfs))
        /\ \A x \in DOMAIN sync.conv :
                    \/ sync.conv[x] = x /\ (x = NoEntry \/ {<<"entry", x>>} \cup Content(x) \subseteq was)
                    \/ sync.conv[x] = NoEntry /\ Damaged(x.object, lost[sync.from])
    BY <1>1, <1>2 DEF SyncIs, ConvertedAre
  <2>3. e \in ToSet(sync.left) /\ ToSet(Tail(sync.left)) \subseteq ToSet(sync.left)
    <3>1. PICK q : q = sync.left
      OBVIOUS
    <3>2. q \in Seq(Entries) /\ q # <<>>
      BY <1>1, <2>2, <3>1
    <3>3. Head(q) \in ToSet(q) /\ ToSet(Tail(q)) \subseteq ToSet(q)
      <4>1. Tail(q) \in Seq(Entries) /\ Len(q) \in Nat \ {0} /\ Len(Tail(q)) = Len(q) - 1 /\ Head(q) = q[1]
            /\ \A i \in 1 .. Len(q) - 1 : Tail(q)[i] = q[i + 1]
        BY <3>2
      <4>2. ASSUME NEW x \in ToSet(Tail(q)) PROVE x \in ToSet(q)
        <5>1. PICK i \in 1 .. Len(q) - 1 : Tail(q)[i] = x
          BY <4>1 DEF ToSet
        <5>2. i + 1 \in 1 .. Len(q)
          BY <4>1, <5>1
        <5>3. i + 1 \in DOMAIN q /\ q[i + 1] = x
          BY <3>2, <4>1, <5>1, <5>2
        <5> QED BY <5>3 DEF ToSet
      <4>3. 1 \in DOMAIN q
        BY <3>2, <4>1
      <4> QED BY <4>1, <4>2, <4>3 DEF ToSet
    <3> QED BY <3>1, <3>3
  <2>4. sync.id \in Doing
    BY <1>1 DEF Doing
  <2>5. IsIndex(s.vfs) /\ Blobs(sync.id, s) \subseteq Located(sync.from)
    BY <1>1, <2>4, SourceHolds DEF IsSnapshot
  <2>6. e \in ToSet(Conversions(s.vfs)) /\ e # NoEntry
    BY <1>4, <2>2, <2>3 DEF Resolves
  <2>7. {<<"entry", e>>} \cup Content(e) \subseteq Located(sync.from)
    <3> HIDE DEF e, s
    <3> QED BY <2>5, <2>6, ValueBlobs
  <2>8. now = was \cup blobs
    BY DEF Missing
  <2>9. \/ copy = e /\ {<<"entry", e>>} \cup Content(e) \subseteq now
        \/ copy = NoEntry /\ Damaged(e.object, lost[sync.from])
    <3>1. CASE whole
      <4>1. copy = e /\ blobs = {<<"entry", e>>} \cup Content(e)
        BY <3>1
      <4> HIDE DEF copy, blobs, now, was
      <4> QED BY <2>8, <4>1
    <3>2. CASE ~whole
      <4>1. copy = NoEntry /\ e.object # NoObject /\ ~Legible(sync.from, e.object)
        BY <3>2
      <4> HIDE DEF e
      <4> QED BY <2>7, <4>1, DamagedIs
    <3> QED BY <3>1, <3>2
  <2> HIDE DEF e, copy, blobs, put, whole
  <2>10. DOMAIN conv = DOMAIN sync.conv \cup {e} /\ conv[e] = copy /\ \A x \in DOMAIN sync.conv : x # e => conv[x] = sync.conv[x]
    BY DEF With
  <2> HIDE DEF conv
  <2>11. /\ DOMAIN conv \cup ToSet(Tail(sync.left)) \subseteq ToSet(Conversions(s.vfs))
         /\ \A x \in DOMAIN conv :
                    \/ conv[x] = x /\ (x = NoEntry \/ {<<"entry", x>>} \cup Content(x) \subseteq now)
                    \/ conv[x] = NoEntry /\ Damaged(x.object, lost[sync.from])
    <3>1. DOMAIN conv \cup ToSet(Tail(sync.left)) \subseteq ToSet(Conversions(s.vfs))
      BY <2>2, <2>3, <2>10
    <3>2. ASSUME NEW x \in DOMAIN conv
          PROVE  \/ conv[x] = x /\ (x = NoEntry \/ {<<"entry", x>>} \cup Content(x) \subseteq now)
                 \/ conv[x] = NoEntry /\ Damaged(x.object, lost[sync.from])
      <4>1. CASE x = e
        BY <2>9, <2>10, <4>1
      <4>2. CASE x # e
        <5>1. was \subseteq now
          BY <2>8
        <5> HIDE DEF was, now
        <5> QED BY <2>2, <2>10, <4>2, <5>1
      <4> QED BY <4>1, <4>2
    <3> QED BY <3>1, <3>2
  <2>12. /\ sync'.phase = "values" /\ sync'.from = sync.from /\ sync'.to = sync.to /\ sync'.both = sync.both
         /\ sync'.todo = sync.todo /\ sync'.known = sync.known /\ sync'.view = sync.view /\ sync'.swept = sync.swept
         /\ sync'.id = sync.id /\ sync'.left = Tail(sync.left) /\ sync'.conv = conv /\ sync'.put = put
    BY <1>1, <1>2, <2>1 DEF SyncIs, SyncFields
  <2> HIDE <2>1
  <2>13. cmd' = cmd /\ exposed' = exposed /\ clone' = clone
    BY <1>1
  <2>14. BlobsAre' /\ CopiesAre' /\ OriginsAre' /\ ClonedAre'
    BY <1>2, <2>13, CopyingQuiet
  <2>15. GoingIs'
    BY <1>1, <1>2, <2>12 DEF GoingIs, Doing
  <2>16. ConvertedAre'
    <3>1. /\ sync'.view["src"] \subseteq Located("src")' /\ (sync'.swept \/ sync'.view["dst"] \subseteq Located("dst")')
      BY <1>1, <1>2, <2>12 DEF ConvertedAre, Located
    <3>2. snaps'[sync'.from][sync'.id] = s /\ lost'[sync'.from] = lost[sync.from] /\ sync'.view[sync'.to] \cup sync'.put = now
      BY <1>2, <2>12
    <3> HIDE DEF s, now
    <3> QED BY <2>11, <2>12, <3>1, <3>2 DEF ConvertedAre
  <2> QED BY <2>14, <2>15, <2>16 DEF Copying
<1> QED BY <1>3, <1>4

-----------------------------------------------------------------------------
\* What is read of a snapshot, when it is converted, is what it was.
LEMMA ConvertedSame ==
    ASSUME NEW s, IsSnapshot(s), NEW copy, NEW conv, NEW blobs,
           copy.vfs = Persist(s.vfs, conv), copy.errs = s.errs,
           ToSet(Conversions(s.vfs)) \subseteq DOMAIN conv,
           \A e \in DOMAIN conv : conv[e] = e \/ (conv[e] = NoEntry /\ Damaged(e.object, blobs)),
           {a.path : a \in copy.attrs} = {a.path : a \in s.attrs},
           \A a \in copy.attrs : a \in s.attrs \/ (a.object = NoObject /\ Damaged(Attribute(a.path).object, blobs))
    PROVE  Same(s, copy, blobs) /\ IsIndex(copy.vfs)
<1> DEFINE t == s.vfs
           x == Pairs(t)
           y == Pairs(copy.vfs)
<1>1. IsIndex(t) /\ IsTree(t, Entries)
  BY DEF IsSnapshot, IsIndex, IndexOf
<1>2. \A e \in DOMAIN conv : conv[e] \in {e, NoEntry}
  OBVIOUS
<1>3. Converts(t, Entries, conv, Entries) /\ IsIndex(copy.vfs)
  BY <1>1, <1>2, ConvertedIs
<1>4. y = [i \in DOMAIN x |-> <<x[i][1], conv[x[i][2]]>>]
  BY <1>1, <1>3, PersistedPairs
<1>5. x \in Seq(Path \X Entries) /\ ToSet(x) = Listed(t, Entries)
  BY <1>1, PairsAre
<1>6. \A e : e \in ToSet(Conversions(t)) <=> \E k \in Path : <<k, e>> \in Listed(t, Entries)
  BY <1>1, ConversionsAre
<1>7. \A i \in DOMAIN x : x[i][2] \in DOMAIN conv
  <2> SUFFICES ASSUME NEW i \in DOMAIN x PROVE x[i][2] \in DOMAIN conv
    OBVIOUS
  <2>1. x[i] \in Path \X Entries /\ x[i] \in ToSet(x)
    BY <1>5 DEF ToSet
  <2>2. PICK k \in Path, e \in Entries : x[i] = <<k, e>>
    BY <2>1
  <2>3. <<k, e>> \in Listed(t, Entries)
    BY <1>5, <2>1, <2>2
  <2>4. e \in DOMAIN conv
    BY <1>6, <2>3
  <2> QED BY <2>2, <2>4
<1> HIDE DEF x, y, t
<1>8. Len(y) = Len(x) /\ DOMAIN y = DOMAIN x
  BY <1>4, <1>5
<1>9. \A i \in DOMAIN y : /\ y[i][1] = x[i][1]
                          /\ y[i][2] = x[i][2] \/ (y[i][2] = NoEntry /\ Damaged(x[i][2].object, blobs))
  <2> SUFFICES ASSUME NEW i \in DOMAIN x
               PROVE  /\ y[i][1] = x[i][1]
                      /\ y[i][2] = x[i][2] \/ (y[i][2] = NoEntry /\ Damaged(x[i][2].object, blobs))
    BY <1>8
  <2>1. y[i][1] = x[i][1] /\ y[i][2] = conv[x[i][2]]
    BY <1>4
  <2>2. PICK e : e = x[i][2]
    OBVIOUS
  <2> QED BY <1>7, <2>1, <2>2
<1> QED BY <1>3, <1>8, <1>9 DEF Same, x, y, t

\* The entries of a copy are there.
LEMMA ConvertedBlobs ==
    ASSUME NEW id, NEW s, IsSnapshot(s), NEW copy, NEW conv, NEW there,
           copy.vfs = Persist(s.vfs, conv), IsIndex(copy.vfs),
           ToSet(Conversions(s.vfs)) \subseteq DOMAIN conv,
           \A e \in DOMAIN conv : \/ conv[e] = e /\ (e = NoEntry \/ {<<"entry", e>>} \cup Content(e) \subseteq there)
                                  \/ conv[e] = NoEntry,
           Own(id, copy) \subseteq there
    PROVE  Blobs(id, copy) \subseteq there
<1> DEFINE t == s.vfs
           u == copy.vfs
<1>1. IsIndex(t) /\ IsTree(t, Entries) /\ IsTree(u, Entries)
  BY DEF IsSnapshot, IsIndex, IndexOf
<1>2. \A e \in DOMAIN conv : conv[e] \in {e, NoEntry}
  OBVIOUS
<1>3. Converts(t, Entries, conv, Entries)
  BY <1>1, <1>2, ConvertedIs
<1>4. Stored(Entries, t, conv, Entries, u)
  BY <1>1, <1>3, PersistIs
<1>5. \A e : e \in ToSet(Conversions(t)) <=> \E k \in Path : <<k, e>> \in Listed(t, Entries)
  BY <1>1, ConversionsAre
<1>6. \A e : e \in ToSet(Conversions(u)) <=> \E k \in Path : <<k, e>> \in Listed(u, Entries)
  BY <1>1, ConversionsAre
<1>7. EntriesOf(copy) = ToSet(Conversions(u)) \ {NoEntry}
  BY <1>1, ValuesAre DEF EntriesOf
<1> HIDE DEF t, u
<1>8. ASSUME NEW v \in EntriesOf(copy) PROVE {<<"entry", v>>} \cup Content(v) \subseteq there
  <2>1. v # NoEntry /\ v \in ToSet(Conversions(u))
    BY <1>7
  <2>2. PICK k \in Path : <<k, v>> \in Listed(u, Entries)
    BY <1>6, <2>1
  <2>3. PICK e \in Entries : <<k, e>> \in Listed(t, Entries) /\ v = conv[e]
    BY <1>4, <2>2 DEF Stored
  <2>4. e \in DOMAIN conv
    BY <1>5, <2>3 DEF t
  <2> QED BY <2>1, <2>3, <2>4
<1> QED BY <1>8 DEF Blobs

-----------------------------------------------------------------------------
\* The attributes of a snapshot that is copied.
LEMMA AttributesAre ==
    ASSUME Copying, sync.phase = "values", NEW a \in snaps[sync.from][sync.id].attrs
    PROVE  a = Attribute(a.path)
<1>1. sync.id \in Doing
  BY DEF Doing
<1>2. snaps[sync.from][sync.id] = IF sync.from = "src" THEN Original ELSE snaps["dst"][There]
  BY <1>1, SourceHolds
<1>3. snaps["dst"][There] = Small
  BY DEF Copying, OriginsAre
<1>4. a \in {Attribute(p) : p \in Attributed}
  BY <1>2, <1>3, SmallIs DEF Original
<1> QED BY <1>4 DEF Attribute, Entry

\* The copy of an attribute is the attribute, or one without content when it
\* cannot be read.
LEMMA CopyOfAttributeIs ==
    ASSUME NEW a, a = Attribute(a.path)
    PROVE  /\ CopyOfAttribute(a).path = a.path
           /\ \/ CopyOfAttribute(a) = a
              \/ CopyOfAttribute(a).object = NoObject /\ ~Legible(sync.from, a.object)
<1>1. a = [path |-> a.path, object |-> <<EmptyChunk>>]
  BY DEF Attribute, Entry
<1>2. CASE Legible(sync.from, a.object)
  BY <1>2 DEF CopyOfAttribute
<1>3. CASE ~Legible(sync.from, a.object)
  <2>1. CopyOfAttribute(a) = [a EXCEPT !.object = NoObject]
    BY <1>3 DEF CopyOfAttribute
  <2>2. CopyOfAttribute(a) = [path |-> a.path, object |-> NoObject]
    BY <1>1, <2>1
  <2> QED BY <1>3, <2>2
<1> QED BY <1>2, <1>3

\* A copy that is committed is what it was; and it is there, unless maintenance
\* swept.
LEMMA CopyingCommitCopy ==
    ASSUME Copying, Shaped', CommitCopy
    PROVE  Copying'
<1> DEFINE s    == snaps[sync.from][sync.id]
           vfs  == Persist(s.vfs, sync.conv)
           attrs == {CopyOfAttribute(a) : a \in s.attrs}
           copy == [s EXCEPT !.vfs = vfs, !.attrs = attrs]
           own  == Own(sync.id, copy)
           put  == sync.put \cup Missing(own)
           believed == sync.view[sync.to] \cup sync.put
           there == believed \cup own
<1>1. /\ sync.phase = "values" /\ sync.left = <<>> /\ sync' = Abandon
      /\ \/ /\ Add(sync.to, sync.id, copy, put)
            /\ exposed' = IF sync.swept THEN exposed \cup {sync.id} ELSE exposed
         \/ UNCHANGED <<packs, snaps, exposed>>
      /\ UNCHANGED <<errors, lost, cmd, clone>>
  BY DEF CommitCopy
<1>2. SyncIs /\ GoingIs /\ ConvertedAre /\ BlobsAre /\ OriginsAre /\ CmdIs
  BY DEF Copying, Shaped
<1>3. CASE UNCHANGED <<packs, snaps, exposed>>
  BY <1>1, <1>3, CopyingAbandon DEF repoVars
<1>4. CASE /\ Add(sync.to, sync.id, copy, put)
           /\ exposed' = IF sync.swept THEN exposed \cup {sync.id} ELSE exposed
  <2>1. sync.id \in Doing
    BY <1>1 DEF Doing
  <2>2. /\ sync.id \in DOMAIN snaps[sync.from] /\ IsSnapshot(s) /\ Blobs(sync.id, s) \subseteq Located(sync.from)
        /\ s = IF sync.from = "src" THEN Original ELSE snaps["dst"][There]
    BY <1>1, <2>1, SourceHolds
  <2>3. \A a \in s.attrs : a = Attribute(a.path)
    BY <1>1, AttributesAre
  <2>4. /\ sync.from \in {"src", "dst"} /\ sync.to \in {"src", "dst"} /\ sync.from # sync.to
        /\ ToSet(Conversions(s.vfs)) \subseteq DOMAIN sync.conv
    <3>1. ToSet(<<>>) = {}
      BY DEF ToSet
    <3>2. ToSet(Conversions(s.vfs)) \subseteq DOMAIN sync.conv \cup ToSet(sync.left)
      BY <1>1, <1>2 DEF SyncIs
    <3> QED BY <1>1, <1>2, <3>1, <3>2 DEF SyncIs
  <2>5. \A e \in DOMAIN sync.conv :
            \/ sync.conv[e] = e /\ (e = NoEntry \/ {<<"entry", e>>} \cup Content(e) \subseteq believed)
            \/ sync.conv[e] = NoEntry /\ Damaged(e.object, lost[sync.from])
    BY <1>1, <1>2 DEF ConvertedAre
  <2>6. Add(sync.to, sync.id, copy, put)
    BY <1>4
  <2>7. put \cup believed = there
    BY DEF Missing
  <2>8. Own(sync.id, copy) \subseteq there
    OBVIOUS
  <2> HIDE DEF vfs, attrs
  <2>9. copy = [vfs |-> vfs, errs |-> s.errs, attrs |-> attrs]
    <3>1. s = [vfs |-> s.vfs, errs |-> s.errs, attrs |-> s.attrs]
      BY <2>2 DEF IsSnapshot
    <3> DEFINE was == [s EXCEPT !.vfs = vfs]
    <3>2. copy = [was EXCEPT !.attrs = attrs]
      OBVIOUS
    <3>3. was = [vfs |-> vfs, errs |-> s.errs, attrs |-> s.attrs]
      BY <3>1
    <3> HIDE DEF was, copy
    <3> QED BY <3>2, <3>3
  <2>10. copy.vfs = vfs /\ copy.errs = s.errs /\ copy.attrs = attrs
    BY <2>9
  <2> HIDE DEF copy, own, put
  <2>11. {a.path : a \in copy.attrs} = {a.path : a \in s.attrs}
    <3>1. \A a \in s.attrs : CopyOfAttribute(a).path = a.path
      BY <2>3, CopyOfAttributeIs
    <3> HIDE DEF s
    <3> QED BY <2>10, <3>1 DEF attrs
  <2>12. \A a \in copy.attrs : a \in s.attrs \/ (a.object = NoObject /\ Damaged(Attribute(a.path).object, lost[sync.from]))
    <3> SUFFICES ASSUME NEW b \in s.attrs
                 PROVE  LET a == CopyOfAttribute(b)
                        IN  a \in s.attrs \/ (a.object = NoObject /\ Damaged(Attribute(a.path).object, lost[sync.from]))
      BY <2>10 DEF attrs
    <3>1. b = Attribute(b.path)
      BY <2>3
    <3>2. CopyOfAttribute(b).path = b.path
      BY <3>1, CopyOfAttributeIs
    <3>3. CASE CopyOfAttribute(b) = b
      BY <3>3
    <3>4. CASE CopyOfAttribute(b).object = NoObject /\ ~Legible(sync.from, b.object)
      <4>1. b.object # NoObject
        BY <3>1, SyncAssumption DEF Attribute, Entry
      <4>2. Content(b) \subseteq Located(sync.from)
        BY <2>2, AttributeBlobs
      <4>3. Damaged(b.object, lost[sync.from])
        BY <3>4, <4>1, <4>2, DamagedIs
      <4> QED BY <3>1, <3>2, <3>4, <4>3
    <3> QED BY <3>1, <3>3, <3>4, CopyOfAttributeIs
  <2>13. Same(s, copy, lost[sync.from]) /\ IsIndex(copy.vfs)
    <3>1. copy.vfs = Persist(s.vfs, sync.conv)
      BY <2>10 DEF vfs
    <3>2. \A e \in DOMAIN sync.conv : sync.conv[e] = e \/ (sync.conv[e] = NoEntry /\ Damaged(e.object, lost[sync.from]))
      BY <2>5
    <3> HIDE DEF s
    <3> QED BY <2>2, <2>4, <2>10, <2>11, <2>12, <3>1, <3>2, ConvertedSame
  <2>14. IsSnapshot(copy)
    BY <2>9, <2>10, <2>13 DEF IsSnapshot
  <2>15. Blobs(sync.id, copy) \subseteq there
    <3>1. copy.vfs = Persist(s.vfs, sync.conv)
      BY <2>10 DEF vfs
    <3>2. \A e \in DOMAIN sync.conv :
              \/ sync.conv[e] = e /\ (e = NoEntry \/ {<<"entry", e>>} \cup Content(e) \subseteq there)
              \/ sync.conv[e] = NoEntry
      BY <2>5
    <3> HIDE DEF s, there
    <3> QED BY <2>2, <2>4, <2>8, <2>13, <3>1, <3>2, ConvertedBlobs
  <2>16. sync.to = "src" \/ ~sync.swept => Blobs(sync.id, copy) \subseteq Located(sync.to) \cup put
    <3>1. sync.to = "src" \/ ~sync.swept => sync.view[sync.to] \subseteq Located(sync.to)
      BY <1>1, <1>2, <2>4 DEF ConvertedAre
    <3>2. there \subseteq sync.view[sync.to] \cup put
      BY <2>7 DEF put
    <3> HIDE DEF there
    <3> QED BY <2>15, <3>1, <3>2
  <2> HIDE DEF s, believed, there
  <2>17. /\ sync.id \notin DOMAIN snaps[sync.to] /\ sync.id \in {There, Former, Latter}
         /\ sync.to = "src" => sync.id = There /\ s = snaps["dst"][There] /\ sync.from = "dst"
         /\ sync.to = "dst" => s = Original /\ sync.from = "src" /\ sync.id \in DOMAIN snaps["src"]
    <3>1. CASE sync.from = "src"
      BY <1>2, <2>1, <2>2, <2>4, <3>1 DEF GoingIs
    <3>2. CASE sync.from = "dst"
      BY <1>2, <2>1, <2>2, <2>4, <3>2 DEF GoingIs
    <3> QED BY <2>4, <3>1, <3>2
  <2>18. /\ sync.to \in {"src", "dst"}
         /\ sync.to = "src" /\ sync.id # There => copy = Original
         /\ sync.to = "src" /\ sync.id = There => Same(snaps["dst"][There], copy, lost["dst"])
         /\ sync.to = "dst" => sync.id \in DOMAIN snaps["src"] /\ Same(Original, copy, lost["src"])
    BY <2>4, <2>13, <2>17
  <2>19. /\ exposed \subseteq exposed'
         /\ sync.to = "src" \/ sync.id \notin exposed' => Blobs(sync.id, copy) \subseteq Located(sync.to) \cup put
    BY <1>4, <2>16
  <2>20. cmd' = cmd /\ lost' = lost /\ clone' = clone /\ cmd'.name \notin {"scan", "commit"}
    BY <1>1, <1>2 DEF CmdIs
  <2>21. /\ OriginsAre' /\ BlobsAre' /\ CopiesAre' /\ ClonedAre'
         /\ \A q \in {"src", "dst"} : Located(q) \subseteq Located(q)'
         /\ DOMAIN snaps'[sync.to] = DOMAIN snaps[sync.to] \cup {sync.id}
         /\ \A q \in {"src", "dst"} : q # sync.to => snaps'[q] = snaps[q]
    <3>1. PICK r \in {"src", "dst"} : r = sync.to
      BY <2>4
    <3>2. PICK id \in {There, Former, Latter} : id = sync.id
      BY <2>17
    <3>3. Add(r, id, copy, put) /\ id \notin DOMAIN snaps[r]
      BY <2>6, <2>17, <3>1, <3>2
    <3>4. /\ r = "src" /\ id # There => copy = Original
          /\ r = "src" /\ id = There => Same(snaps["dst"][There], copy, lost["dst"])
          /\ r = "dst" => id \in DOMAIN snaps["src"] /\ Same(Original, copy, lost["src"])
          /\ exposed \subseteq exposed'
          /\ r = "src" \/ id \notin exposed' => Blobs(id, copy) \subseteq Located(r) \cup put
      BY <2>18, <2>19, <3>1, <3>2
    <3>5. /\ OriginsAre' /\ BlobsAre' /\ CopiesAre' /\ ClonedAre'
          /\ \A q \in {"src", "dst"} : Located(q) \subseteq Located(q)'
          /\ DOMAIN snaps'[r] = DOMAIN snaps[r] \cup {id}
          /\ \A q \in {"src", "dst"} : q # r => snaps'[q] = snaps[q]
      BY <2>14, <2>20, <3>3, <3>4, CopyingAdd
    <3> QED BY <3>1, <3>2, <3>5
  <2>22. /\ sync'.phase = "next" /\ sync'.from = sync.from /\ sync'.to = sync.to /\ sync'.both = sync.both /\ sync'.todo = sync.todo
         /\ sync'.known = sync.known /\ sync'.view = sync.view /\ sync'.swept = sync.swept
    BY <1>1, <1>2, AbandonIs
  <2>23. GoingIs'
    <3>1. Doing' = {} /\ sync.id \notin sync.todo
      BY <1>2, <2>1, <2>22 DEF GoingIs, Doing
    <3>2. sync.todo \cap DOMAIN snaps'[sync.to] = {}
      BY <1>2, <2>21, <3>1 DEF GoingIs
    <3>3. sync.both => /\ sync.from = "src" /\ sync.todo \subseteq sync.known
                       /\ DOMAIN snaps'["dst"] \subseteq {There} \cup sync.known
                       /\ There \in DOMAIN snaps'["src"] => There \in sync.known
      <4> SUFFICES ASSUME sync.both
                   PROVE  /\ sync.from = "src" /\ sync.todo \subseteq sync.known
                          /\ DOMAIN snaps'["dst"] \subseteq {There} \cup sync.known
                          /\ There \in DOMAIN snaps'["src"] => There \in sync.known
        OBVIOUS
      <4>1. sync.from = "src" /\ sync.to = "dst"
        BY <1>2, <2>4 DEF GoingIs
      <4>2. DOMAIN snaps'["dst"] = DOMAIN snaps["dst"] \cup {sync.id} /\ snaps'["src"] = snaps["src"]
        BY <2>21, <4>1
      <4> QED BY <1>2, <2>1, <4>1, <4>2 DEF GoingIs
    <3> QED BY <1>2, <2>22, <3>1, <3>2, <3>3 DEF GoingIs
  <2>24. ConvertedAre'
    <3>1. sync.view["src"] \subseteq Located("src") /\ (sync.swept \/ sync.view["dst"] \subseteq Located("dst"))
      BY <1>1, <1>2 DEF ConvertedAre
    <3> QED BY <2>21, <2>22, <3>1 DEF ConvertedAre
  <2> QED BY <2>21, <2>23, <2>24 DEF Copying
<1> QED BY <1>1, <1>3, <1>4

-----------------------------------------------------------------------------
\* The steps of a clone.

\* The start of a clone keeps Copying: the packfiles it lists hold the blobs of
\* the snapshots of the source.
LEMMA CopyingStartClone ==
    ASSUME Copying, Shaped', StartClone
    PROVE  Copying'
<1>1. /\ cmd' = [cmd EXCEPT !.name = "clone", !.copies = @ + 1]
      /\ clone' = [NoClone EXCEPT !.phase = "packfiles", !.listed = DOMAIN packs["src"], !.begun = DOMAIN snaps["src"]]
      /\ UNCHANGED <<errors, repoVars, sync, exposed>>
  BY DEF StartClone, RunCopy
<1>2. cmd'.name = "clone"
  BY <1>1 DEF Copying, Shaped, CmdIs, CmdFields
<1>3. /\ clone'.phase = "packfiles" /\ clone'.listed = DOMAIN packs["src"] /\ clone'.begun = DOMAIN snaps["src"]
  BY <1>1 DEF NoClone
<1>4. snaps' = snaps /\ packs' = packs /\ lost' = lost /\ sync' = sync /\ exposed' = exposed
  BY <1>1 DEF repoVars
<1> HIDE <1>1
<1>5. ClonedAre'
  <2>1. Located("src") = UNION {packs["src"][f] : f \in DOMAIN packs["src"]}
    BY DEF Located, Range
  <2>2. \A id \in DOMAIN snaps["src"] : Blobs(id, snaps["src"][id]) \subseteq Located("src")
    BY DEF Copying, BlobsAre
  <2> QED BY <1>3, <1>4, <2>1, <2>2 DEF ClonedAre, Begun
<1>6. BlobsAre' /\ CopiesAre' /\ OriginsAre' /\ GoingIs' /\ ConvertedAre'
  BY <1>2, <1>4, CopyingQuiet
<1> QED BY <1>5, <1>6 DEF Copying

\* The copy of the packfiles keeps Copying: when none failed the clone has those
\* blobs.
LEMMA CopyingClonePackfiles ==
    ASSUME Copying, Shaped', ClonePackfiles
    PROVE  Copying'
<1>1. PICK ok \in Copied(clone.listed) :
          /\ packs' = [packs EXCEPT !["clone"] = Restrict(packs["src"], ok)]
          /\ clone' = [clone EXCEPT !.phase = "states", !.failed = @ \/ ok # clone.listed]
  BY DEF ClonePackfiles
<1>2. /\ clone.phase = "packfiles" /\ lost' = [lost EXCEPT !["clone"] = lost["src"]]
      /\ snaps' = snaps /\ cmd' = cmd /\ sync' = sync /\ exposed' = exposed
  BY DEF ClonePackfiles
<1>3. /\ packs = [r \in Repositories |-> packs[r]] /\ lost = [r \in Repositories |-> lost[r]]
      /\ clone = [f \in CloneFields |-> clone[f]]
  BY DEF Copying, Shaped, SnapsAre, CloneIs
<1>4. /\ \A r \in {"src", "dst"} : packs'[r] = packs[r] /\ lost'[r] = lost[r]
      /\ packs'["clone"] = Restrict(packs["src"], ok)
  BY <1>1, <1>2, <1>3, RepositoriesAre
<1>5. clone'.phase = "states" /\ clone'.begun = clone.begun /\ (~clone'.failed => ok = clone.listed)
  BY <1>1, <1>3 DEF CloneFields
<1> HIDE <1>1, <1>3
<1>6. BlobsAre' /\ CopiesAre' /\ OriginsAre' /\ GoingIs' /\ ConvertedAre'
  BY <1>2, <1>4, CopyingQuiet
<1>7. ClonedAre'
  <2>1. /\ clone.listed \subseteq DOMAIN packs["src"] /\ clone.begun \subseteq DOMAIN snaps["src"]
        /\ \A id \in clone.begun : Blobs(id, snaps["src"][id]) \subseteq UNION {packs["src"][f] : f \in clone.listed}
    BY <1>2 DEF Copying, ClonedAre, Begun
  <2>2. ASSUME ok = clone.listed PROVE Located("clone")' = UNION {packs["src"][f] : f \in clone.listed}
    <3>1. DOMAIN packs'["clone"] = clone.listed /\ \A f \in clone.listed : packs'["clone"][f] = packs["src"][f]
      BY <1>4, <2>1, <2>2, RestrictIs
    <3>2. {packs'["clone"][f] : f \in DOMAIN packs'["clone"]} = {packs["src"][f] : f \in clone.listed}
      BY <3>1
    <3> QED BY <3>2 DEF Located, Range
  <2> QED BY <1>2, <1>5, <2>1, <2>2 DEF ClonedAre, Begun
<1> QED BY <1>6, <1>7 DEF Copying

\* The copy of the states keeps Copying: when none failed the clone has the
\* snapshots whose packfiles were copied before.
LEMMA CopyingCloneStates ==
    ASSUME Copying, Shaped', CloneStates
    PROVE  Copying'
<1>1. PICK ok \in Copied(DOMAIN snaps["src"]) :
          /\ snaps' = [snaps EXCEPT !["clone"] = Restrict(snaps["src"], ok)]
          /\ clone' = [clone EXCEPT !.phase = "done", !.failed = @ \/ ok # DOMAIN snaps["src"]]
  BY DEF CloneStates
<1>2. /\ clone.phase = "states" /\ Stop("clone")
      /\ packs' = packs /\ lost' = lost /\ sync' = sync /\ exposed' = exposed
  BY DEF CloneStates
<1>3. /\ snaps = [r \in Repositories |-> snaps[r]] /\ clone = [f \in CloneFields |-> clone[f]] /\ cmd = [f \in CmdFields |-> cmd[f]]
  BY DEF Copying, Shaped, SnapsAre, CloneIs, CmdIs
<1>4. (\A r \in {"src", "dst"} : snaps'[r] = snaps[r]) /\ snaps'["clone"] = Restrict(snaps["src"], ok)
  BY <1>1, <1>3, RepositoriesAre
<1>5. /\ clone'.phase = "done" /\ clone'.begun = clone.begun
      /\ ~clone'.failed => ok = DOMAIN snaps["src"] /\ ~clone.failed
  BY <1>1, <1>3 DEF CloneFields
<1>6. cmd'.name = "idle"
  BY <1>2, <1>3 DEF Stop, CmdFields
<1> HIDE <1>1, <1>3
<1>7. BlobsAre' /\ CopiesAre' /\ OriginsAre' /\ GoingIs' /\ ConvertedAre'
  BY <1>2, <1>4, <1>6, CopyingQuiet
<1>8. ClonedAre'
  <2>1. clone.begun \subseteq DOMAIN snaps["src"] /\ (~clone.failed => \A id \in clone.begun : Blobs(id, snaps["src"][id]) \subseteq Located("clone"))
    BY <1>2 DEF Copying, ClonedAre, Begun
  <2>2. ok = DOMAIN snaps["src"] => DOMAIN snaps'["clone"] = DOMAIN snaps["src"] /\ \A id \in DOMAIN snaps["src"] : snaps'["clone"][id] = snaps["src"][id]
    BY <1>4, RestrictIs
  <2>3. Located("clone")' = Located("clone")
    BY <1>2 DEF Located
  <2> QED BY <1>5, <2>1, <2>2, <2>3 DEF ClonedAre
<1> QED BY <1>7, <1>8 DEF Copying

-----------------------------------------------------------------------------
\* Every step keeps Copying.
LEMMA CopyingStep ==
    ASSUME Copying, [Next]_vars
    PROVE  Copying'
<1>0. Shaped'
  BY ShapedStep DEF Copying
<1>1. CASE UNCHANGED vars
  BY <1>0, <1>1, CopyingRead DEF vars, syncVars, repoVars
<1>2. CASE ReadNext
  <2>1. UNCHANGED <<repoVars, sync, exposed, clone>> /\ (cmd'.name \in {"scan", "commit"} => cmd.name \in {"scan", "commit"})
    <3>1. cmd = [f \in CmdFields |-> cmd[f]]
      BY DEF Copying, Shaped, CmdIs
    <3> QED BY <1>2, <3>1, ReadersOnlyRead DEF CmdFields
  <2> QED BY <1>0, <2>1, CopyingRead
<1>3. CASE SyncNext
  <2>1. CASE \E path \in ErrorPaths : RecordError(path)
    BY <1>0, <2>1, CopyingRead DEF RecordError
  <2>2. CASE PersistErrors
    BY <1>0, <2>2, CopyingRead DEF PersistErrors
  <2>3. CASE Commit
    BY <1>0, <2>3, CopyingCommit
  <2>4. CASE CommitAgain
    BY <1>0, <2>4, CopyingCommitAgain
  <2>5. CASE Colour
    BY <1>0, <2>5, CopyingColour
  <2>6. CASE \E r \in Repositories : Lose(r)
    BY <1>0, <2>6, CopyingLose
  <2>7. CASE \E from, to \in {"src", "dst"}, both \in BOOLEAN : from # to /\ (both => from = "src") /\ OpenSync(from, to, both)
    BY <1>0, <2>7, CopyingOpenSync
  <2>8. CASE \E id \in sync.todo : NextSnapshot(id)
    BY <1>0, <2>8, CopyingNextSnapshot
  <2>9. CASE CopyEntry
    BY <1>0, <2>9, CopyingCopyEntry
  <2>10. CASE CommitCopy
    BY <1>0, <2>10, CopyingCommitCopy
  <2>11. CASE Turn
    BY <1>0, <2>11, CopyingTurn
  <2>12. CASE EndSync
    BY <1>0, <2>12, CopyingEndSync
  <2>13. CASE StartClone
    BY <1>0, <2>13, CopyingStartClone
  <2>14. CASE ClonePackfiles
    BY <1>0, <2>14, CopyingClonePackfiles
  <2>15. CASE CloneStates
    BY <1>0, <2>15, CopyingCloneStates
  <2> QED BY <1>3, <2>1, <2>2, <2>3, <2>4, <2>5, <2>6, <2>7, <2>8, <2>9, <2>10, <2>11, <2>12, <2>13, <2>14, <2>15 DEF SyncNext
<1> QED BY <1>1, <1>2, <1>3 DEF Next

\* In every state what was converted of a copy is in its destination, the
\* snapshots there are the originals but for what was lost, and a clone that did
\* not fail has the blobs of the snapshots it lists: the inductive invariant
\* behind CopyFaithful.
THEOREM CopyingAlways == Spec => []Copying
<1>1. Init => Copying
  BY CopyingInit
<1>2. Copying /\ [Next]_vars => Copying'
  BY CopyingStep
<1> QED BY <1>1, <1>2, PTL DEF Spec

\* The invariant Copying says what CopyFaithful does.
LEMMA CopiesAreFaithful ==
    ASSUME Copying
    PROVE  CopyFaithful
<1>1. OriginsAre /\ BlobsAre /\ CopiesAre /\ ClonedAre
  BY DEF Copying
<1> DEFINE lacks(x, r) == x.object # NoObject /\ ~Legible(r, x.object)
           same(id, r, q) ==
              LET was  == Pairs(snaps[r][id].vfs)
                  is   == Pairs(snaps[q][id].vfs)
              IN  /\ snaps[q][id].errs = snaps[r][id].errs
                  /\ Len(is) = Len(was)
                  /\ \A i \in DOMAIN is : /\ is[i][1] = was[i][1]
                                          /\ \/ is[i][2] = was[i][2]
                                             \/ (is[i][2] = NoEntry /\ lacks(was[i][2], r))
                  /\ {x.path : x \in snaps[q][id].attrs} = {x.path : x \in snaps[r][id].attrs}
                  /\ \A x \in snaps[q][id].attrs :
                        x \in snaps[r][id].attrs \/ (x.object = NoObject /\ lacks(Attribute(x.path), r))
<1>2. ASSUME NEW id, NEW r, NEW q, Same(snaps[r][id], snaps[q][id], lost[r]) PROVE same(id, r, q)
  <2>1. \A x : Damaged(x.object, lost[r]) => lacks(x, r)
    BY DamagedIsIllegible
  <2> HIDE DEF lacks
  <2> QED BY <1>2, <2>1 DEF Same
<1> HIDE DEF same
<1>3. ASSUME NEW id \in DOMAIN snaps["src"] \cap DOMAIN snaps["dst"]
      PROVE  /\ IF id = There THEN same(id, "dst", "src") ELSE same(id, "src", "dst")
             /\ id = There \/ id \in exposed \/ Blobs(id, snaps["dst"][id]) \subseteq Located("dst")
  <2>1. CASE id = There
    BY <1>1, <1>2, <2>1 DEF CopiesAre
  <2>2. CASE id # There
    <3>1. snaps["src"][id] = Original /\ Same(Original, snaps["dst"][id], lost["src"])
      BY <1>1, <2>2 DEF OriginsAre, CopiesAre
    <3>2. same(id, "src", "dst")
      BY <1>2, <3>1
    <3> QED BY <1>1, <2>2, <3>2 DEF BlobsAre
  <2> QED BY <2>1, <2>2
<1>4. clone.phase = "done" /\ ~clone.failed =>
          \A id \in clone.begun : /\ id \in DOMAIN snaps["clone"]
                                  /\ Blobs(id, snaps["clone"][id]) \subseteq Located("clone")
  BY <1>1 DEF ClonedAre
<1> QED BY <1>3, <1>4 DEF CopyFaithful, same, lacks

\* CopyFaithful, for every source, every loss of chunks and any number of copies
\* in either direction: a copy has the pathnames, the errors and the attributes of
\* the original, and an entry is missing only when a chunk of it is lost; a clone
\* that did not fail has everything its snapshots refer to, and so has a copy no
\* cleanup has exposed (sync.go, clone.go, persistVFS).
THEOREM CopyFaithfulAlways == Spec => []CopyFaithful
<1>1. Copying => CopyFaithful
  BY CopiesAreFaithful
<1> QED BY <1>1, CopyingAlways, PTL
=============================================================================
