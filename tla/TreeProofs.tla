----------------------------- MODULE TreeProofs ------------------------------
(***************************************************************************)
(* What the operations of a B+tree return, for every order of at least 3,  *)
(* every set of keys and both comparisons. A tree is given a shape: of     *)
(* each node, how far it is from the leaves and which keys belong to it.   *)
(* From the shape follows that the iterators, the search and Persist       *)
(* agree on one sorted list of pairs (TreesAreSound, PersistIs); and       *)
(* Insert, however many nodes it cuts on its way up, keeps it and adds     *)
(* one pair (InsertIs).                                                    *)
(***************************************************************************)
EXTENDS BTree, FiniteSetTheorems, SequenceTheorems, WellFoundedInduction, TLAPS

-----------------------------------------------------------------------------
\* The least number principle, for sets.
LEMMA LeastNumber ==
    ASSUME NEW T, T \subseteq Nat, T # {}
    PROVE  \E x \in T : \A y \in T : x <= y
<1> DEFINE R == OpToRel(<, Nat)
<1>1. IsWellFoundedOn(R, Nat)
  BY NatLessThanWellFounded
<1>2. \A x, y \in Nat : <<x, y>> \in R <=> x < y
  BY DEF OpToRel
<1> HIDE DEF R
<1>3. PICK x \in T : \A y \in T : ~ (<<y, x>> \in R)
  BY <1>1, WFMin
<1>4. ASSUME NEW y \in T PROVE x <= y
  <2>1. x \in Nat /\ y \in Nat /\ ~ (y < x)
    BY <1>2, <1>3
  <2> QED BY <2>1
<1> QED BY <1>4

\* Induction over numbers, and over a measure, for sets in the place of predicates.
LEMMA SetInduction ==
    ASSUME NEW S, 0 \in S, \A n \in Nat : n \in S => n + 1 \in S
    PROVE  Nat \subseteq S
<1> SUFFICES ASSUME Nat \ S # {} PROVE FALSE
  OBVIOUS
<1>1. PICK x \in Nat \ S : \A y \in Nat \ S : x <= y
  BY LeastNumber
<1>2. x # 0 /\ x - 1 \in Nat /\ ~ (x <= x - 1)
  OBVIOUS
<1>3. x - 1 \in S /\ (x - 1) + 1 = x
  BY <1>1, <1>2
<1> QED BY <1>1, <1>2, <1>3

\* Induction on a measure: a set that holds an element as soon as it holds all
\* smaller ones holds everything. This is how the walks of a tree are reasoned
\* about, on the height of a node.
LEMMA MeasureInduction ==
    ASSUME NEW D, NEW m \in [D -> Nat], NEW S,
           \A x \in D : (\A y \in D : m[y] < m[x] => y \in S) => x \in S
    PROVE  D \subseteq S
<1> SUFFICES ASSUME D \ S # {} PROVE FALSE
  OBVIOUS
<1> DEFINE T == {m[x] : x \in D \ S}
<1>1. T \subseteq Nat /\ T # {}
  OBVIOUS
<1>2. PICK n \in T : \A y \in T : n <= y
  BY <1>1, LeastNumber
<1>3. PICK x \in D \ S : n = m[x]
  BY <1>2
<1>4. \A y \in D : m[y] < m[x] => y \in S
  <2> SUFFICES ASSUME NEW y \in D, m[y] < m[x], y \notin S PROVE FALSE
    OBVIOUS
  <2>1. m[y] \in T /\ m[y] \in Nat /\ m[x] \in Nat
    OBVIOUS
  <2> QED BY <1>2, <1>3, <2>1
<1> QED BY <1>3, <1>4

\* A function can be defined by recursion over a measure: step says what its value
\* is, and asks only for values of a smaller measure.
Recursive(D, V, m, step) ==
    /\ V # {} /\ m \in [D -> Nat] /\ step \in [D -> [[D -> V] -> V]]
    /\ \A x \in D, f, g \in [D -> V] :
          (\A y \in D : m[y] < m[x] => f[y] = g[y]) => step[x][f] = step[x][g]

\* A function that is defined by what it is on smaller elements exists. The walks
\* of the code (findleaf, the iterators, persist) go on on the nodes below.
LEMMA RecursiveFunction ==
    ASSUME NEW D, NEW V, NEW m, NEW step, Recursive(D, V, m, step)
    PROVE  \E f \in [D -> V] : \A x \in D : f[x] = step[x][f]
<1> USE DEF Recursive
<1> DEFINE Until(n, f) == \A x \in D : m[x] < n => f[x] = step[x][f]
           S == {n \in Nat : \E f \in [D -> V] : Until(n, f)}
<1>1. 0 \in S
  <2>1. PICK v \in V : TRUE
    OBVIOUS
  <2>2. [x \in D |-> v] \in [D -> V]
    OBVIOUS
  <2>3. \A x \in D : m[x] \in Nat /\ ~ (m[x] < 0)
    OBVIOUS
  <2>4. Until(0, [x \in D |-> v])
    BY <2>3
  <2> HIDE DEF Until
  <2> QED BY <2>2, <2>4
<1>2. ASSUME NEW n \in Nat, n \in S PROVE n + 1 \in S
  <2>1. PICK f \in [D -> V] : Until(n, f)
    BY <1>2
  <2> DEFINE g == [x \in D |-> step[x][f]]
  <2>2. g \in [D -> V] /\ \A x \in D : g[x] = step[x][f]
    OBVIOUS
  <2>3. ASSUME NEW x \in D, m[x] < n + 1 PROVE g[x] = step[x][g]
    <3>1. \A y \in D : m[y] < m[x] => f[y] = g[y]
      <4> SUFFICES ASSUME NEW y \in D, m[y] < m[x] PROVE f[y] = g[y]
        OBVIOUS
      <4>1. m[x] \in Nat /\ m[y] \in Nat /\ m[y] < n
        BY <2>3
      <4> HIDE DEF g
      <4> QED BY <2>1, <2>2, <4>1
    <3> HIDE DEF g
    <3>2. step[x][f] = step[x][g]
      BY <2>2, <3>1
    <3> QED BY <2>2, <3>2
  <2> HIDE DEF g
  <2>4. Until(n + 1, g)
    BY <2>3
  <2> HIDE DEF Until
  <2> QED BY <2>2, <2>4
<1>3. Nat \subseteq S
  <2> HIDE DEF S
  <2> QED BY <1>1, <1>2, SetInduction
<1> DEFINE F == [n \in Nat |-> CHOOSE f \in [D -> V] : Until(n, f)]
<1>4. \A n \in Nat : F[n] \in [D -> V] /\ Until(n, F[n])
  BY <1>3
<1> HIDE DEF F
<1>5. \A x \in D : \A n, k \in Nat : m[x] < n /\ m[x] < k => F[n][x] = F[k][x]
  <2> DEFINE same == {x \in D : \A n, k \in Nat : m[x] < n /\ m[x] < k => F[n][x] = F[k][x]}
  <2>1. ASSUME NEW x \in D, \A y \in D : m[y] < m[x] => y \in same
        PROVE  x \in same
    <3> SUFFICES ASSUME NEW n \in Nat, NEW k \in Nat, m[x] < n, m[x] < k PROVE F[n][x] = F[k][x]
      OBVIOUS
    <3>1. \A y \in D : m[y] < m[x] => F[n][y] = F[k][y]
      <4> SUFFICES ASSUME NEW y \in D, m[y] < m[x] PROVE F[n][y] = F[k][y]
        OBVIOUS
      <4>1. m[x] \in Nat /\ m[y] \in Nat /\ m[y] < n /\ m[y] < k
        OBVIOUS
      <4> QED BY <2>1, <4>1
    <3>2. step[x][F[n]] = step[x][F[k]]
      BY <1>4, <3>1
    <3>3. F[n][x] = step[x][F[n]] /\ F[k][x] = step[x][F[k]]
      BY <1>4
    <3> QED BY <3>2, <3>3
  <2> HIDE DEF same
  <2>2. D \subseteq same
    BY <2>1, MeasureInduction
  <2> QED BY <2>2 DEF same
<1> DEFINE f == [x \in D |-> F[m[x] + 1][x]]
<1>6. f \in [D -> V] /\ \A x \in D : f[x] = F[m[x] + 1][x]
  BY <1>4
<1> HIDE DEF f
<1>7. ASSUME NEW x \in D PROVE f[x] = step[x][f]
  <2>1. m[x] \in Nat /\ m[x] + 1 \in Nat /\ m[x] < m[x] + 1
    OBVIOUS
  <2>2. \A y \in D : m[y] < m[x] => F[m[x] + 1][y] = f[y]
    <3> SUFFICES ASSUME NEW y \in D, m[y] < m[x] PROVE F[m[x] + 1][y] = f[y]
      OBVIOUS
    <3>1. m[y] \in Nat /\ m[y] + 1 \in Nat /\ m[y] < m[y] + 1 /\ m[y] < m[x] + 1
      BY <2>1
    <3> QED BY <1>5, <1>6, <2>1, <3>1
  <2>3. step[x][F[m[x] + 1]] = step[x][f]
    BY <1>4, <1>6, <2>1, <2>2
  <2> QED BY <1>4, <1>6, <2>1, <2>3
<1> QED BY <1>6, <1>7

-----------------------------------------------------------------------------
\* The orders of the keys.

Path == Seq(Nat)
Cmps == {"path", "string"}

\* Where the first difference of two paths is, and that it is in favour of a.
Differ(a, b, i) ==
    /\ i \in 1 .. Len(b) /\ i <= Len(a) + 1
    /\ \A j \in 1 .. i - 1 : a[j] = b[j]
    /\ i <= Len(a) => a[i] < b[i]

\* A pathname is a prefix of another when it is not longer and agrees with it
\* (strings.HasPrefix, as isEntryBelow uses it).
LEMMA PrefixIs ==
    ASSUME NEW a \in Path, NEW b \in Path
    PROVE  IsPrefix(a, b) <=> Len(a) <= Len(b) /\ \A i \in 1 .. Len(a) : a[i] = b[i]
<1>1. Len(a) \in Nat /\ Len(b) \in Nat
  BY DEF Path
<1> SUFFICES ASSUME Len(a) <= Len(b)
             PROVE  SubSeq(a, 1, Len(a)) = SubSeq(b, 1, Len(a)) <=> \A i \in 1 .. Len(a) : a[i] = b[i]
  BY DEF IsPrefix
<1> DEFINE s == SubSeq(a, 1, Len(a))
           t == SubSeq(b, 1, Len(a))
<1>2. /\ s \in Seq(Nat) /\ Len(s) = Len(a) /\ \A i \in 1 .. Len(a) : s[i] = a[i]
      /\ t \in Seq(Nat) /\ Len(t) = Len(a) /\ \A i \in 1 .. Len(a) : t[i] = b[i]
  BY <1>1 DEF Path
<1> HIDE DEF s, t
<1>3. (\A i \in 1 .. Len(a) : a[i] = b[i]) => s = t
  BY <1>1, <1>2, SeqEqual
<1> QED BY <1>2, <1>3 DEF s, t

\* strings.Compare, which orders the index of the errors: at the first place where
\* they differ the first name is smaller, or has ended.
LEMMA StringLessIs ==
    ASSUME NEW a \in Path, NEW b \in Path
    PROVE  StringLess(a, b) <=> \E i \in Nat : Differ(a, b, i)
<1>1. /\ Len(a) \in Nat /\ Len(b) \in Nat
      /\ \A i \in 1 .. Len(a) : a[i] \in Nat
      /\ \A i \in 1 .. Len(b) : b[i] \in Nat
  BY DEF Path
<1> DEFINE m == Min({Len(a), Len(b)})
<1>2. /\ 1 .. m \subseteq Nat
      /\ \A i \in Nat : i \in 1 .. m <=> i >= 1 /\ i <= Len(a) /\ i <= Len(b)
  <2>1. \E x \in {Len(a), Len(b)} : \A y \in {Len(a), Len(b)} : x <= y
    BY <1>1
  <2>2. m \in {Len(a), Len(b)} /\ \A y \in {Len(a), Len(b)} : m <= y
    BY <2>1 DEF Min
  <2> HIDE DEF m
  <2>3. m \in Nat /\ m <= Len(a) /\ m <= Len(b) /\ (m = Len(a) \/ m = Len(b))
    BY <1>1, <2>2
  <2> QED BY <1>1, <2>3
<1>7. StringLess(a, b) <=> \/ IsStrictPrefix(a, b)
                          \/ \E i \in 1 .. m : a[i] < b[i] /\ \A j \in 1 .. i - 1 : a[j] = b[j]
  BY DEF StringLess
<1> HIDE DEF m
<1>3. ASSUME IsStrictPrefix(a, b) PROVE Differ(a, b, Len(a) + 1)
  <2>1. Len(a) <= Len(b) /\ \A i \in 1 .. Len(a) : a[i] = b[i]
    BY <1>3, PrefixIs DEF IsStrictPrefix
  <2>2. Len(a) # Len(b)
    <3> SUFFICES ASSUME Len(a) = Len(b) PROVE FALSE
      OBVIOUS
    <3>1. a = b
      BY <1>1, <2>1, SeqEqual DEF Path
    <3> QED BY <1>3, <3>1 DEF IsStrictPrefix
  <2> QED BY <1>1, <2>1, <2>2 DEF Differ
<1>4. ASSUME NEW i \in 1 .. m, a[i] < b[i] /\ \A j \in 1 .. i - 1 : a[j] = b[j]
      PROVE  Differ(a, b, i)
  BY <1>1, <1>2, <1>4 DEF Differ
<1>5. ASSUME NEW i \in Nat, Differ(a, b, i) PROVE StringLess(a, b)
  <2>1. CASE i <= Len(a)
    <3>1. i \in 1 .. m
      BY <1>1, <1>2, <1>5, <2>1 DEF Differ
    <3> QED BY <1>5, <1>7, <2>1, <3>1 DEF Differ
  <2>2. CASE i > Len(a)
    <3>1. i = Len(a) + 1 /\ i <= Len(b)
      BY <1>1, <1>5, <2>2 DEF Differ
    <3>2. Len(a) <= Len(b) /\ \A j \in 1 .. Len(a) : a[j] = b[j]
      BY <1>1, <1>5, <3>1 DEF Differ
    <3>3. IsPrefix(a, b) /\ a # b
      BY <1>1, <3>1, <3>2, PrefixIs
    <3> QED BY <1>7, <3>3 DEF IsStrictPrefix
  <2> QED BY <1>1, <2>1, <2>2
<1>6. ASSUME StringLess(a, b) PROVE \E i \in Nat : Differ(a, b, i)
  <2>1. CASE IsStrictPrefix(a, b)
    BY <1>1, <1>3, <2>1
  <2>2. CASE \E i \in 1 .. m : a[i] < b[i] /\ \A j \in 1 .. i - 1 : a[j] = b[j]
    <3>1. PICK i \in 1 .. m : a[i] < b[i] /\ \A j \in 1 .. i - 1 : a[j] = b[j]
      BY <2>2
    <3>2. i \in Nat
      BY <1>2
    <3> QED BY <1>4, <3>1, <3>2
  <2> QED BY <1>6, <1>7, <2>1, <2>2
<1> QED BY <1>5, <1>6

\* strings.Compare orders the names: none is before itself, before is transitive,
\* and of two names one is before the other.
LEMMA StringsAreOrdered ==
    /\ \A a \in Path : ~StringLess(a, a)
    /\ \A a, b, c \in Path : StringLess(a, b) /\ StringLess(b, c) => StringLess(a, c)
    /\ \A a, b \in Path : a = b \/ StringLess(a, b) \/ StringLess(b, a)
<1>1. \A a \in Path : Len(a) \in Nat /\ \A i \in 1 .. Len(a) : a[i] \in Nat
  BY DEF Path
<1>2. ASSUME NEW a \in Path, StringLess(a, a) PROVE FALSE
  <2>1. PICK i \in Nat : Differ(a, a, i)
    BY <1>2, StringLessIs
  <2> QED BY <1>1, <2>1 DEF Differ
<1>3. ASSUME NEW a \in Path, NEW b \in Path, NEW c \in Path, StringLess(a, b), StringLess(b, c)
      PROVE  StringLess(a, c)
  <2>1. PICK i \in Nat : Differ(a, b, i)
    BY <1>3, StringLessIs
  <2>2. PICK j \in Nat : Differ(b, c, j)
    BY <1>3, StringLessIs
  <2>3. CASE i <= j
    <3>1. i \in 1 .. Len(c) /\ i <= Len(a) + 1 /\ i <= Len(b)
      BY <1>1, <2>1, <2>2, <2>3 DEF Differ
    <3>2. \A l \in 1 .. i - 1 : a[l] = c[l]
      BY <1>1, <2>1, <2>2, <2>3 DEF Differ
    <3>3. b[i] <= c[i]
      <4>1. CASE i < j
        BY <1>1, <2>2, <3>1, <4>1 DEF Differ
      <4>2. CASE i = j
        BY <1>1, <2>2, <3>1, <4>2 DEF Differ
      <4> QED BY <2>3, <4>1, <4>2
    <3>4. i <= Len(a) => a[i] < c[i]
      BY <1>1, <2>1, <3>1, <3>3 DEF Differ
    <3>5. Differ(a, c, i)
      BY <3>1, <3>2, <3>4 DEF Differ
    <3> QED BY <3>5, StringLessIs
  <2>4. CASE j < i
    <3>1. j \in 1 .. Len(c) /\ j <= Len(a) /\ j <= Len(b)
      BY <1>1, <2>1, <2>2, <2>4 DEF Differ
    <3>2. \A l \in 1 .. j - 1 : a[l] = c[l]
      BY <1>1, <2>1, <2>2, <2>4 DEF Differ
    <3>3. a[j] = b[j] /\ b[j] < c[j]
      BY <1>1, <2>1, <2>2, <2>4, <3>1 DEF Differ
    <3>4. Differ(a, c, j)
      BY <1>1, <3>1, <3>2, <3>3 DEF Differ
    <3> QED BY <3>4, StringLessIs
  <2> QED BY <2>3, <2>4
<1>4. ASSUME NEW a \in Path, NEW b \in Path, a # b PROVE StringLess(a, b) \/ StringLess(b, a)
  <2> DEFINE T == {i \in 1 .. Len(a) + 1 : i <= Len(b) + 1 /\
                        (i = Len(a) + 1 \/ i = Len(b) + 1 \/ a[i] # b[i])}
  <2>1. T \subseteq Nat /\ T # {}
    <3>1. CASE Len(a) <= Len(b)
      <4>1. Len(a) + 1 \in T
        BY <1>1, <3>1
      <4> QED BY <1>1, <4>1
    <3>2. CASE Len(b) < Len(a)
      <4>1. Len(b) + 1 \in T
        BY <1>1, <3>2
      <4> QED BY <1>1, <4>1
    <3> QED BY <1>1, <3>1, <3>2
  <2>2. PICK i \in T : \A j \in T : i <= j
    BY <2>1, LeastNumber
  <2>3. \A j \in 1 .. i - 1 : a[j] = b[j]
    <3> SUFFICES ASSUME NEW j \in 1 .. i - 1, a[j] # b[j] PROVE FALSE
      OBVIOUS
    <3>1. j \in T /\ ~ (i <= j)
      BY <1>1
    <3> QED BY <2>2, <3>1
  <2>4. ~ (i = Len(a) + 1 /\ i = Len(b) + 1)
    <3> SUFFICES ASSUME i = Len(a) + 1, i = Len(b) + 1 PROVE FALSE
      OBVIOUS
    <3>1. Len(a) = Len(b) /\ \A j \in 1 .. Len(a) : a[j] = b[j]
      BY <1>1, <2>3
    <3>2. a = b
      BY <3>1, SeqEqual DEF Path
    <3> QED BY <1>4, <3>2
  <2>5. i \in Nat
    BY <2>1
  <2>6. Differ(a, b, i) \/ Differ(b, a, i)
    <3>1. CASE i = Len(a) + 1
      BY <1>1, <2>2, <2>3, <2>4, <3>1 DEF Differ
    <3>2. CASE i = Len(b) + 1
      BY <1>1, <2>2, <2>3, <2>4, <3>2 DEF Differ
    <3>3. CASE i # Len(a) + 1 /\ i # Len(b) + 1
      <4>1. i \in 1 .. Len(a) /\ i \in 1 .. Len(b) /\ a[i] # b[i]
        BY <1>1, <2>2, <3>3
      <4>2. a[i] \in Nat /\ b[i] \in Nat
        BY <1>1, <4>1
      <4> QED BY <1>1, <2>3, <4>1, <4>2 DEF Differ
    <3> QED BY <3>1, <3>2, <3>3
  <2> QED BY <2>5, <2>6, StringLessIs
<1> QED BY <1>2, <1>3, <1>4

\* Keys are in a strict total order.
LEMMA Ordered ==
    ASSUME NEW cmp \in Cmps
    PROVE  /\ \A a \in Path : ~Before(cmp, a, a)
           /\ \A a, b, c \in Path : Before(cmp, a, b) /\ Before(cmp, b, c) => Before(cmp, a, c)
           /\ \A a, b \in Path : a = b \/ Before(cmp, a, b) \/ Before(cmp, b, a)
<1>1. \A a \in Path : Len(a) \in Nat
  BY DEF Path
<1>2. CASE cmp = "string"
  BY <1>2, StringsAreOrdered DEF Before
<1>3. CASE cmp = "path"
  <2>1. \A a, b \in Path : Before(cmp, a, b) <=> PathLess(a, b)
    BY <1>3 DEF Before
  <2> QED BY <1>1, <2>1, StringsAreOrdered DEF PathLess
<1> QED BY <1>2, <1>3 DEF Cmps

-----------------------------------------------------------------------------
\* Sequences.

Inserted(V, s, i, e, r) ==
    /\ r \in Seq(V) /\ Len(r) = Len(s) + 1
    /\ \A j \in 1 .. Len(s) + 1 : r[j] = IF j < i THEN s[j] ELSE IF j = i THEN e ELSE s[j - 1]

\* slices.Insert, of node.insertAt: what is before the place stays, what is at it
\* or after it moves by one.
LEMMA InsertedIs ==
    ASSUME NEW V, NEW s \in Seq(V), NEW i \in 1 .. Len(s) + 1, NEW e \in V
    PROVE  Inserted(V, s, i, e, InsertAt(s, i, e))
<1> DEFINE a == SubSeq(s, 1, i - 1)
           b == SubSeq(s, i, Len(s))
<1>1. Len(s) \in Nat /\ \A j \in 1 .. Len(s) : s[j] \in V
  OBVIOUS
<1>2. a \in Seq(V) /\ Len(a) = i - 1 /\ \A j \in 1 .. i - 1 : a[j] = s[j]
  <2>1. \A j \in 1 .. i - 1 : s[j] \in V
    BY <1>1
  <2> QED BY <1>1, <2>1, SubSeqProperties
<1>3. b \in Seq(V) /\ Len(b) = Len(s) + 1 - i /\ \A j \in 1 .. Len(s) - i + 1 : b[j] = s[i + j - 1]
  <2>1. \A j \in i .. Len(s) : s[j] \in V
    BY <1>1
  <2> QED BY <1>1, <2>1, SubSeqProperties
<1> HIDE DEF a, b
<1> DEFINE c == a \o <<e>>
<1>4. c \in Seq(V) /\ Len(c) = i /\ \A j \in 1 .. i : c[j] = IF j < i THEN s[j] ELSE e
  <2>1. <<e>> \in Seq(V) /\ Len(<<e>>) = 1 /\ <<e>>[1] = e
    OBVIOUS
  <2>2. c \in Seq(V) /\ Len(c) = i /\ \A j \in 1 .. i : c[j] = IF j <= i - 1 THEN a[j] ELSE <<e>>[j - (i - 1)]
    BY <1>2, <2>1, ConcatProperties
  <2>3. \A j \in 1 .. i : j > i - 1 => j - (i - 1) = 1
    OBVIOUS
  <2> HIDE DEF c
  <2> QED BY <1>2, <2>1, <2>2, <2>3
<1> HIDE DEF c
<1> DEFINE d == c \o b
<1>5. d \in Seq(V) /\ Len(d) = Len(s) + 1 /\ \A j \in 1 .. Len(s) + 1 : d[j] = IF j <= i THEN c[j] ELSE b[j - i]
  <2>1. /\ d \in Seq(V) /\ Len(d) = Len(c) + Len(b)
        /\ \A j \in 1 .. Len(c) + Len(b) : d[j] = IF j <= Len(c) THEN c[j] ELSE b[j - Len(c)]
    BY <1>3, <1>4, ConcatProperties
  <2>2. Len(c) = i /\ Len(c) + Len(b) = Len(s) + 1
    BY <1>1, <1>3, <1>4
  <2> QED BY <2>1, <2>2
<1>6. InsertAt(s, i, e) = d
  BY DEF InsertAt, a, b, c
<1> HIDE DEF d
<1>7. \A j \in 1 .. Len(s) + 1 : d[j] = IF j < i THEN s[j] ELSE IF j = i THEN e ELSE s[j - 1]
  <2> SUFFICES ASSUME NEW j \in 1 .. Len(s) + 1
               PROVE  d[j] = IF j < i THEN s[j] ELSE IF j = i THEN e ELSE s[j - 1]
    OBVIOUS
  <2>1. CASE j <= i
    <3>1. j \in 1 .. i /\ d[j] = c[j]
      BY <1>1, <1>5, <2>1
    <3> QED BY <1>4, <2>1, <3>1
  <2>2. CASE j > i
    <3>1. j - i \in 1 .. Len(s) - i + 1 /\ i + (j - i) - 1 = j - 1 /\ d[j] = b[j - i]
      BY <1>1, <1>5, <2>2
    <3>2. b[j - i] = s[j - 1]
      BY <1>3, <3>1
    <3> QED BY <2>2, <3>1, <3>2
  <2> QED BY <1>1, <2>1, <2>2
<1> QED BY <1>5, <1>6, <1>7 DEF Inserted

\* The places of a sequence that is put together: to each one the sequence it
\* comes from and the place there, in that order.
Places(ss, seq, c, x) ==
    /\ c \in [1 .. Len(seq) -> 1 .. Len(ss)] /\ x \in [1 .. Len(seq) -> Nat]
    /\ \A p \in 1 .. Len(seq) : x[p] \in 1 .. Len(ss[c[p]]) /\ seq[p] = ss[c[p]][x[p]]
    /\ \A p, q \in 1 .. Len(seq) : p < q => c[p] < c[q] \/ (c[p] = c[q] /\ x[p] < x[q])
    /\ \A i \in 1 .. Len(ss) : \A j \in 1 .. Len(ss[i]) : \E p \in 1 .. Len(seq) : c[p] = i /\ x[p] = j

\* When another sequence is appended to a concatenation, what it holds gets the
\* places after those there are.
LEMMA PlacesOfNext ==
    ASSUME NEW V, NEW ss \in Seq(Seq(V)), NEW n \in 0 .. Len(ss) - 1, NEW seq \in Seq(V),
           NEW c, NEW x, Places(SubSeq(ss, 1, n), seq, c, x)
    PROVE  \E d, y : Places(SubSeq(ss, 1, n + 1), seq \o ss[n + 1], d, y)
<1> DEFINE was == SubSeq(ss, 1, n)
           is  == SubSeq(ss, 1, n + 1)
           out == seq \o ss[n + 1]
           L   == Len(seq)
           M   == Len(ss[n + 1])
<1>1. Len(ss) \in Nat /\ \A i \in 1 .. Len(ss) : ss[i] \in Seq(V)
  OBVIOUS
<1>2. Len(was) = n /\ \A i \in 1 .. n : was[i] = ss[i]
  BY <1>1, SubSeqProperties
<1>3. Len(is) = n + 1 /\ \A i \in 1 .. n + 1 : is[i] = ss[i]
  BY <1>1, SubSeqProperties
<1>4. L \in Nat /\ M \in Nat /\ ss[n + 1] \in Seq(V)
  BY <1>1
<1>5. Len(out) = L + M /\ \A p \in 1 .. L + M : out[p] = IF p <= L THEN seq[p] ELSE ss[n + 1][p - L]
  BY <1>4, ConcatProperties
<1> DEFINE d == [p \in 1 .. L + M |-> IF p <= L THEN c[p] ELSE n + 1]
           y == [p \in 1 .. L + M |-> IF p <= L THEN x[p] ELSE p - L]
<1>6. Places(was, seq, c, x)
  OBVIOUS
<1> HIDE DEF was, is, out, L, M
<1>7. \A p \in 1 .. L : c[p] \in 1 .. n /\ x[p] \in Nat /\ x[p] \in 1 .. Len(ss[c[p]]) /\ seq[p] = ss[c[p]][x[p]]
  BY <1>2, <1>6 DEF Places, L
<1>8. \A p \in 1 .. L + M : \/ p \in 1 .. L /\ d[p] = c[p] /\ y[p] = x[p] /\ out[p] = seq[p]
                            \/ p - L \in 1 .. M /\ p > L /\ d[p] = n + 1 /\ y[p] = p - L /\ out[p] = ss[n + 1][p - L]
  BY <1>4, <1>5
<1>9. d \in [1 .. L + M -> 1 .. n + 1] /\ y \in [1 .. L + M -> Nat]
  BY <1>4, <1>7
<1> HIDE DEF d, y
<1>10. \A p \in 1 .. L + M : y[p] \in 1 .. Len(is[d[p]]) /\ out[p] = is[d[p]][y[p]]
  <2> SUFFICES ASSUME NEW p \in 1 .. L + M PROVE y[p] \in 1 .. Len(is[d[p]]) /\ out[p] = is[d[p]][y[p]]
    OBVIOUS
  <2>1. CASE p \in 1 .. L /\ d[p] = c[p] /\ y[p] = x[p] /\ out[p] = seq[p]
    <3>1. c[p] \in 1 .. n + 1
      BY <1>7, <2>1
    <3> QED BY <1>3, <1>7, <2>1, <3>1
  <2>2. CASE p - L \in 1 .. M /\ p > L /\ d[p] = n + 1 /\ y[p] = p - L /\ out[p] = ss[n + 1][p - L]
    BY <1>3, <2>2 DEF M
  <2> QED BY <1>8, <2>1, <2>2
<1>11. \A p, q \in 1 .. L + M : p < q => d[p] < d[q] \/ (d[p] = d[q] /\ y[p] < y[q])
  <2> SUFFICES ASSUME NEW p \in 1 .. L + M, NEW q \in 1 .. L + M, p < q
               PROVE  d[p] < d[q] \/ (d[p] = d[q] /\ y[p] < y[q])
    OBVIOUS
  <2>1. CASE q <= L
    <3>1. p \in 1 .. L /\ q \in 1 .. L
      BY <1>4, <2>1
    <3>2. c[p] < c[q] \/ (c[p] = c[q] /\ x[p] < x[q])
      BY <1>6, <3>1 DEF Places, L
    <3> QED BY <1>4, <1>8, <2>1, <3>1, <3>2
  <2>2. CASE q > L
    <3>1. d[q] = n + 1 /\ y[q] = q - L
      BY <1>4, <1>8, <2>2
    <3>2. CASE p <= L
      <4>1. p \in 1 .. L /\ d[p] = c[p]
        BY <1>4, <1>8, <3>2
      <4>2. c[p] \in 1 .. n
        BY <1>7, <4>1
      <4> QED BY <3>1, <4>1, <4>2
    <3>3. CASE p > L
      BY <1>4, <1>8, <3>1, <3>3
    <3> QED BY <1>4, <3>2, <3>3
  <2> QED BY <1>4, <2>1, <2>2
<1>12. ASSUME NEW i \in 1 .. n + 1, NEW j \in 1 .. Len(is[i])
       PROVE  \E p \in 1 .. L + M : d[p] = i /\ y[p] = j
  <2>1. CASE i = n + 1
    <3>1. j \in 1 .. M
      BY <1>3, <2>1 DEF M
    <3>2. L + j \in 1 .. L + M /\ L + j > L /\ (L + j) - L = j /\ L + j \notin 1 .. L
      BY <1>4, <3>1
    <3> QED BY <1>8, <2>1, <3>2
  <2>2. CASE i \in 1 .. n
    <3>1. j \in 1 .. Len(was[i])
      BY <1>2, <1>3, <2>2
    <3>2. PICK p \in 1 .. L : c[p] = i /\ x[p] = j
      BY <1>2, <1>6, <2>2, <3>1 DEF Places, L
    <3>3. p \in 1 .. L + M /\ ~ (p > L)
      BY <1>4
    <3> QED BY <1>8, <3>2, <3>3
  <2> QED BY <2>1, <2>2
<1>13. Places(is, out, d, y)
  BY <1>3, <1>5, <1>9, <1>10, <1>11, <1>12 DEF Places
<1> QED BY <1>13 DEF is, out

\* A concatenation holds what its parts hold, in their order: what a walk that
\* visits the children of a node in turn (persist, the iterators) returns.
LEMMA FlattenSeqIs ==
    ASSUME NEW V, NEW ss \in Seq(Seq(V))
    PROVE  /\ FlattenSeq(ss) \in Seq(V)
           /\ \E c, x : Places(ss, FlattenSeq(ss), c, x)
<1> DEFINE n == Len(ss)
<1>1. n \in Nat /\ \A i \in 1 .. n : ss[i] \in Seq(V)
  OBVIOUS
<1>2. CASE n = 0
  <2>1. ss = <<>> /\ FlattenSeq(ss) = <<>>
    BY <1>2 DEF FlattenSeq
  <2>2. Places(<<>>, <<>>, <<>>, <<>>)
    BY DEF Places
  <2>3. Places(ss, FlattenSeq(ss), <<>>, <<>>) /\ FlattenSeq(ss) \in Seq(V)
    <3>1. <<>> \in Seq(V)
      OBVIOUS
    <3> QED BY <2>1, <2>2, <3>1
  <2> QED BY <2>3
<1>3. CASE n # 0
  <2> DEFINE D == 1 .. n
             step == [i \in D |-> [f \in [D -> Seq(V)] |-> IF i = 1 THEN ss[i] ELSE f[i - 1] \o ss[i]]]
             m == [i \in D |-> i]
  <2>1. \E f \in [D -> Seq(V)] : \A i \in D : f[i] = step[i][f]
    <3>1. m \in [D -> Nat] /\ Seq(V) # {} /\ \A i \in D : m[i] = i
      BY EmptySeq
    <3>2. step \in [D -> [[D -> Seq(V)] -> Seq(V)]]
      <4> SUFFICES ASSUME NEW i \in D, NEW f \in [D -> Seq(V)]
                   PROVE  (IF i = 1 THEN ss[i] ELSE f[i - 1] \o ss[i]) \in Seq(V)
        OBVIOUS
      <4>1. i # 1 => i - 1 \in D
        OBVIOUS
      <4> QED BY <1>1, <4>1, ConcatProperties
    <3>3. \A i \in D, f, g \in [D -> Seq(V)] :
             (\A y \in D : m[y] < m[i] => f[y] = g[y]) => step[i][f] = step[i][g]
      <4> SUFFICES ASSUME NEW i \in D, NEW f \in [D -> Seq(V)], NEW g \in [D -> Seq(V)],
                          \A y \in D : m[y] < m[i] => f[y] = g[y]
                   PROVE  step[i][f] = step[i][g]
        OBVIOUS
      <4>1. i # 1 => i - 1 \in D /\ m[i - 1] < m[i]
        BY <3>1
      <4> QED BY <4>1
    <3> DEFINE W == Seq(V)
    <3> HIDE DEF D, m, step, W
    <3>4. Recursive(D, W, m, step)
      BY <3>1, <3>2, <3>3 DEF W, Recursive
    <3>5. \E f \in [D -> W] : \A i \in D : f[i] = step[i][f]
      BY <3>4, RecursiveFunction
    <3> QED BY <3>5 DEF W
  <2> DEFINE flatten == CHOOSE f : f = [i \in D |-> IF i = 1 THEN ss[i] ELSE f[i - 1] \o ss[i]]
  <2>2. flatten = [i \in D |-> IF i = 1 THEN ss[i] ELSE flatten[i - 1] \o ss[i]]
    <3>1. PICK f \in [D -> Seq(V)] : \A i \in D : f[i] = step[i][f]
      BY <2>1
    <3>3. \A i \in D : f[i] = IF i = 1 THEN ss[i] ELSE f[i - 1] \o ss[i]
      BY <3>1
    <3>2. f = [i \in D |-> IF i = 1 THEN ss[i] ELSE f[i - 1] \o ss[i]]
      <4> HIDE DEF D, step
      <4> QED BY <3>3
    <3> HIDE DEF D, step
    <3> QED BY <3>2
  <2>3. FlattenSeq(ss) = flatten[n]
    BY <1>3 DEF FlattenSeq
  <2> HIDE DEF flatten
  <2>4. \A i \in D : flatten[i] = IF i = 1 THEN ss[i] ELSE flatten[i - 1] \o ss[i]
    BY <2>2
  <2>12. \A i \in D : i # 1 => flatten[i] = flatten[i - 1] \o ss[i]
    BY <2>4
  <2> DEFINE S == {i \in Nat : i + 1 <= n => /\ flatten[i + 1] \in Seq(V)
                                             /\ \E c, x : Places(SubSeq(ss, 1, i + 1), flatten[i + 1], c, x)}
  <2>5. \E c, x : Places(SubSeq(ss, 1, 0), <<>>, c, x)
    <3>1. SubSeq(ss, 1, 0) = <<>>
      BY SubSeqEmpty
    <3>2. Places(<<>>, <<>>, <<>>, <<>>)
      BY DEF Places
    <3> QED BY <3>1, <3>2
  <2>6. 0 \in S
    <3>1. 1 \in D /\ 0 \in 0 .. n - 1 /\ 0 + 1 = 1
      BY <1>1, <1>3
    <3>2. flatten[1] = ss[1] /\ ss[1] \in Seq(V)
      BY <1>1, <2>4, <3>1
    <3>3. <<>> \o ss[1] = ss[1] /\ <<>> \in Seq(V)
      BY <3>2, ConcatEmptySeq
    <3>4. PICK c, x : Places(SubSeq(ss, 1, 0), <<>>, c, x)
      BY <2>5
    <3>5. \E d, y : Places(SubSeq(ss, 1, 0 + 1), <<>> \o ss[0 + 1], d, y)
      BY <3>1, <3>3, <3>4, PlacesOfNext
    <3> QED BY <3>1, <3>2, <3>3, <3>5
  <2>7. ASSUME NEW i \in Nat, i \in S PROVE i + 1 \in S
    <3> SUFFICES ASSUME (i + 1) + 1 <= n
                 PROVE  /\ flatten[(i + 1) + 1] \in Seq(V)
                        /\ \E c, x : Places(SubSeq(ss, 1, (i + 1) + 1), flatten[(i + 1) + 1], c, x)
      OBVIOUS
    <3> DEFINE k == i + 1
    <3>1. k + 1 \in D /\ k \in 0 .. n - 1 /\ k + 1 # 1 /\ k + 1 - 1 = k
      BY <1>1
    <3>2. flatten[k] \in Seq(V) /\ \E c, x : Places(SubSeq(ss, 1, k), flatten[k], c, x)
      BY <1>1, <2>7
    <3>3. flatten[k + 1] = flatten[k] \o ss[k + 1] /\ ss[k + 1] \in Seq(V)
      <4>1. ss[k + 1] \in Seq(V)
        BY <1>1, <3>1
      <4> HIDE DEF k, D
      <4> HIDE DEF S, step, m, n
      <4>2. \A j \in D : j # 1 => flatten[j] = flatten[j - 1] \o ss[j]
        BY <2>12
      <4>3. PICK j \in D : j = k + 1
        BY <3>1
      <4>4. j # 1 /\ j - 1 = k
        BY <3>1, <4>3
      <4>5. flatten[j] = flatten[j - 1] \o ss[j]
        BY <4>2, <4>4
      <4> QED BY <4>1, <4>3, <4>4, <4>5
    <3>4. flatten[k + 1] \in Seq(V)
      BY <3>2, <3>3, ConcatProperties
    <3>5. \E c, x : Places(SubSeq(ss, 1, k + 1), flatten[k + 1], c, x)
      <4> HIDE DEF k
      <4> QED BY <3>1, <3>2, <3>3, PlacesOfNext
    <3> QED BY <3>4, <3>5
  <2>8. Nat \subseteq S
    <3> HIDE DEF S
    <3> QED BY <2>6, <2>7, SetInduction
  <2>9. n - 1 \in Nat /\ (n - 1) + 1 = n
    BY <1>1, <1>3
  <2>10. flatten[n] \in Seq(V) /\ \E c, x : Places(SubSeq(ss, 1, n), flatten[n], c, x)
    <3>1. n - 1 \in S
      <4> HIDE DEF S
      <4> QED BY <2>8, <2>9
    <3>2. flatten[(n - 1) + 1] \in Seq(V) /\ \E c, x : Places(SubSeq(ss, 1, (n - 1) + 1), flatten[(n - 1) + 1], c, x)
      BY <1>1, <2>9, <3>1
    <3> QED BY <2>9, <3>2
  <2>11. SubSeq(ss, 1, n) = ss
    BY SubSeqFull
  <2> QED BY <2>3, <2>10, <2>11
<1> QED BY <1>2, <1>3

-----------------------------------------------------------------------------
\* Sorted keys.

Increasing(cmp, keys) == \A i, j \in DOMAIN keys : i < j => Before(cmp, keys[i], keys[j])

\* The keys that belong below the pointer at a place.
Slot(cmp, keys, j) ==
    {k \in Path : /\ j > 1 => ~Before(cmp, k, keys[j - 1])
                  /\ j <= Len(keys) => Before(cmp, k, keys[j])}

\* The binary search of node.go (slices.BinarySearchFunc): in keys that increase,
\* the ones it counts are the first ones, and the key it looks for is the next one
\* or is not there.
LEMMA SmallerIs ==
    ASSUME NEW cmp \in Cmps, NEW n, n.keys \in Seq(Path), Increasing(cmp, n.keys), NEW k \in Path
    PROVE  /\ Smaller(cmp, n, k) \in 0 .. Len(n.keys)
           /\ \A i \in 1 .. Len(n.keys) : Before(cmp, n.keys[i], k) <=> i <= Smaller(cmp, n, k)
           /\ Has(n, k) <=> /\ Smaller(cmp, n, k) < Len(n.keys)
                            /\ n.keys[Smaller(cmp, n, k) + 1] = k
<1> DEFINE keys == n.keys
           L    == Len(keys)
           T    == {i \in 1 .. L + 1 : i = L + 1 \/ ~Before(cmp, keys[i], k)}
<1>1. L \in Nat /\ DOMAIN keys = 1 .. L /\ \A i \in 1 .. L : keys[i] \in Path
  OBVIOUS
<1>2. T \subseteq Nat /\ L + 1 \in T
  BY <1>1
<1>3. PICK x \in T : \A y \in T : x <= y
  BY <1>2, LeastNumber
<1>4. x \in 1 .. L + 1
  OBVIOUS
<1>5. \A i \in 1 .. L : Before(cmp, keys[i], k) <=> i <= x - 1
  <2> SUFFICES ASSUME NEW i \in 1 .. L PROVE Before(cmp, keys[i], k) <=> i <= x - 1
    OBVIOUS
  <2>1. CASE i <= x - 1
    <3>1. ~ (x <= i) /\ i \in 1 .. L + 1 /\ i # L + 1
      BY <1>1, <1>4, <2>1
    <3>2. i \notin T
      BY <1>3, <3>1
    <3> QED BY <2>1, <3>1, <3>2
  <2>2. CASE ~ (i <= x - 1)
    <3>1. x <= i /\ x \in 1 .. L /\ ~Before(cmp, keys[x], k)
      BY <1>1, <1>4, <2>2
    <3>2. SUFFICES ASSUME Before(cmp, keys[i], k) PROVE FALSE
      BY <2>2
    <3>3. x < i
      BY <3>1, <3>2, <1>1, <1>4
    <3>4. Before(cmp, keys[x], keys[i])
      BY <1>1, <3>1, <3>3 DEF Increasing
    <3> QED BY <1>1, <3>1, <3>2, <3>4, Ordered
  <2> QED BY <2>1, <2>2
<1>6. {i \in DOMAIN keys : Before(cmp, keys[i], k)} = 1 .. x - 1
  <2>1. \A i \in 1 .. x - 1 : i \in 1 .. L /\ i <= x - 1
    BY <1>1, <1>4
  <2>2. \A i \in 1 .. L : i <= x - 1 => i \in 1 .. x - 1
    BY <1>1, <1>4
  <2> QED BY <1>1, <1>5, <2>1, <2>2
<1>7. Cardinality(1 .. x - 1) = x - 1
  BY <1>1, <1>4, FS_Interval
<1>8. Smaller(cmp, n, k) = x - 1
  BY <1>6, <1>7 DEF Smaller
<1>9. x - 1 \in 0 .. L
  BY <1>1, <1>4
<1>10. Has(n, k) <=> x - 1 < L /\ keys[(x - 1) + 1] = k
  <2>1. (x - 1) + 1 = x
    BY <1>4
  <2>2. ASSUME x - 1 < L, keys[x] = k PROVE Has(n, k)
    BY <1>1, <1>4, <2>2 DEF Has
  <2>3. ASSUME Has(n, k) PROVE x - 1 < L /\ keys[x] = k
    <3>1. PICK i \in 1 .. L : keys[i] = k
      BY <1>1, <2>3 DEF Has
    <3>2. ~Before(cmp, keys[i], k)
      BY <1>1, <3>1, Ordered
    <3>3. ~ (i <= x - 1) /\ x <= i /\ x \in 1 .. L
      BY <1>1, <1>4, <1>5, <3>2
    <3>4. ~Before(cmp, keys[x], k)
      BY <1>5, <1>4, <3>3
    <3>5. x < i => Before(cmp, keys[x], keys[i])
      BY <1>1, <3>3 DEF Increasing
    <3>6. x = i
      BY <1>1, <1>4, <3>1, <3>3, <3>4, <3>5
    <3> QED BY <1>1, <1>4, <3>1, <3>3, <3>6
  <2> QED BY <2>1, <2>2, <2>3
<1> QED BY <1>5, <1>8, <1>9, <1>10

\* A key belongs below one pointer.
ChildAt(cmp, n, k) == Smaller(cmp, n, k) + (IF Has(n, k) THEN 2 ELSE 1)

\* findleaf goes to the child between whose two keys the key belongs.
LEMMA ChildSlot ==
    ASSUME NEW cmp \in Cmps, NEW n, n.keys \in Seq(Path), Increasing(cmp, n.keys), NEW k \in Path
    PROVE  /\ ChildAt(cmp, n, k) \in 1 .. Len(n.keys) + 1
           /\ k \in Slot(cmp, n.keys, ChildAt(cmp, n, k))
<1> DEFINE s == Smaller(cmp, n, k)
           L == Len(n.keys)
<1>1. /\ s \in 0 .. L
      /\ \A i \in 1 .. L : Before(cmp, n.keys[i], k) <=> i <= s
      /\ Has(n, k) <=> s < L /\ n.keys[s + 1] = k
  BY SmallerIs
<1>2. L \in Nat /\ \A i \in 1 .. L : n.keys[i] \in Path
  OBVIOUS
<1> HIDE DEF s
<1>3. CASE Has(n, k)
  <2>1. ChildAt(cmp, n, k) = s + 2 /\ s + 1 \in 1 .. L /\ n.keys[s + 1] = k
    BY <1>1, <1>2, <1>3 DEF ChildAt, s
  <2>2. ~Before(cmp, k, n.keys[s + 1])
    BY <2>1, Ordered
  <2>3. s + 2 <= L => Before(cmp, k, n.keys[s + 2])
    <3> HAVE s + 2 <= L
    <3>1. s + 2 \in DOMAIN n.keys /\ s + 1 \in DOMAIN n.keys /\ s + 1 < s + 2
      BY <1>1, <1>2, <2>1
    <3> QED BY <2>1, <3>1 DEF Increasing
  <2>4. (s + 2) - 1 = s + 1 /\ s + 2 \in 1 .. L + 1
    BY <1>1, <1>2, <2>1
  <2> QED BY <2>1, <2>2, <2>3, <2>4 DEF Slot
<1>4. CASE ~Has(n, k)
  <2>1. ChildAt(cmp, n, k) = s + 1 /\ s + 1 \in 1 .. L + 1 /\ (s + 1) - 1 = s
    BY <1>1, <1>2, <1>4 DEF ChildAt, s
  <2>2. s + 1 > 1 => ~Before(cmp, k, n.keys[s])
    <3> HAVE s + 1 > 1
    <3>1. s \in 1 .. L /\ n.keys[s] \in Path
      BY <1>1, <1>2
    <3>2. Before(cmp, n.keys[s], k)
      BY <1>1, <3>1
    <3> QED BY <3>1, <3>2, Ordered
  <2>3. s + 1 <= L => Before(cmp, k, n.keys[s + 1])
    <3> HAVE s + 1 <= L
    <3>1. s + 1 \in 1 .. L /\ n.keys[s + 1] \in Path /\ n.keys[s + 1] # k /\ ~ (s + 1 <= s)
      BY <1>1, <1>2, <1>4
    <3>2. ~Before(cmp, n.keys[s + 1], k)
      BY <1>1, <3>1
    <3> QED BY <3>1, <3>2, Ordered
  <2> QED BY <2>1, <2>2, <2>3 DEF Slot
<1> QED BY <1>3, <1>4

\* What belongs to a child is before what belongs to a child right of it.
LEMMA SlotsAreOrdered ==
    ASSUME NEW cmp \in Cmps, NEW keys \in Seq(Path), Increasing(cmp, keys),
           NEW i \in 1 .. Len(keys) + 1, NEW j \in 1 .. Len(keys) + 1, i < j,
           NEW a \in Slot(cmp, keys, i), NEW b \in Slot(cmp, keys, j)
    PROVE  Before(cmp, a, b)
<1>1. Len(keys) \in Nat /\ DOMAIN keys = 1 .. Len(keys) /\ \A l \in 1 .. Len(keys) : keys[l] \in Path
  OBVIOUS
<1>2. i \in 1 .. Len(keys) /\ j - 1 \in 1 .. Len(keys) /\ i <= j - 1 /\ i <= Len(keys) /\ j > 1
  BY <1>1
<1>3. a \in Path /\ b \in Path /\ Before(cmp, a, keys[i]) /\ ~Before(cmp, b, keys[j - 1])
  BY <1>2 DEF Slot
<1>4. i = j - 1 \/ Before(cmp, keys[i], keys[j - 1])
  BY <1>1, <1>2 DEF Increasing
<1>5. keys[i] \in Path /\ keys[j - 1] \in Path
  BY <1>1, <1>2
<1>6. Before(cmp, a, keys[j - 1])
  BY <1>3, <1>4, <1>5, Ordered
<1> QED BY <1>3, <1>5, <1>6, Ordered

-----------------------------------------------------------------------------
\* Two sorted sequences of the same pairs are the same.
LEMMA UniqueSorted ==
    ASSUME NEW cmp \in Cmps, NEW V, NEW s \in Seq(Path \X V), NEW t \in Seq(Path \X V),
           Sorted(cmp, s), Sorted(cmp, t), ToSet(s) = ToSet(t)
    PROVE  s = t
<1>1. /\ Len(s) \in Nat /\ DOMAIN s = 1 .. Len(s) /\ \A i \in 1 .. Len(s) : s[i][1] \in Path
      /\ Len(t) \in Nat /\ DOMAIN t = 1 .. Len(t) /\ \A i \in 1 .. Len(t) : t[i][1] \in Path
  OBVIOUS
<1>2. /\ \A i, j \in 1 .. Len(s) : i < j => Before(cmp, s[i][1], s[j][1])
      /\ \A i, j \in 1 .. Len(t) : i < j => Before(cmp, t[i][1], t[j][1])
  BY <1>1 DEF Sorted
<1>3. /\ \A i \in 1 .. Len(s) : \E j \in 1 .. Len(t) : t[j] = s[i]
      /\ \A i \in 1 .. Len(t) : \E j \in 1 .. Len(s) : s[j] = t[i]
  BY <1>1 DEF ToSet
<1> DEFINE Same(n) == \A i \in 1 .. n : i <= Len(s) /\ i <= Len(t) /\ s[i] = t[i]
           S == {n \in Nat : n <= Len(s) \/ n <= Len(t) => Same(n)}
<1>4. 0 \in S
  OBVIOUS
<1>5. ASSUME NEW n \in Nat, n \in S PROVE n + 1 \in S
  <2> SUFFICES ASSUME n + 1 <= Len(s) \/ n + 1 <= Len(t) PROVE Same(n + 1)
    OBVIOUS
  <2>1. Same(n)
    BY <1>1, <1>5
  <2> DEFINE k == n + 1
  <2>2. k \in Nat /\ \A i \in 1 .. k : i \in 1 .. n \/ i = k
    OBVIOUS
  <2>3. ASSUME k <= Len(s) PROVE \E j \in 1 .. Len(t) : t[j] = s[k] /\ j >= k
    <3>1. k \in 1 .. Len(s)
      BY <1>1, <2>3
    <3>2. PICK j \in 1 .. Len(t) : t[j] = s[k]
      BY <1>3, <3>1
    <3>3. SUFFICES ASSUME j <= n PROVE FALSE
      BY <3>2
    <3>4. j \in 1 .. n /\ j < k
      BY <3>3
    <3>5. s[j] = s[k] /\ j \in 1 .. Len(s)
      BY <1>1, <2>1, <3>2, <3>4
    <3>6. Before(cmp, s[j][1], s[k][1]) /\ s[k][1] \in Path
      BY <1>1, <1>2, <3>1, <3>4, <3>5
    <3> QED BY <3>5, <3>6, Ordered
  <2>4. ASSUME k <= Len(t) PROVE \E j \in 1 .. Len(s) : s[j] = t[k] /\ j >= k
    <3>1. k \in 1 .. Len(t)
      BY <1>1, <2>4
    <3>2. PICK j \in 1 .. Len(s) : s[j] = t[k]
      BY <1>3, <3>1
    <3>3. SUFFICES ASSUME j <= n PROVE FALSE
      BY <3>2
    <3>4. j \in 1 .. n /\ j < k
      BY <3>3
    <3>5. t[j] = t[k] /\ j \in 1 .. Len(t)
      BY <1>1, <2>1, <3>2, <3>4
    <3>6. Before(cmp, t[j][1], t[k][1]) /\ t[k][1] \in Path
      BY <1>1, <1>2, <3>1, <3>4, <3>5
    <3> QED BY <3>5, <3>6, Ordered
  <2> HIDE DEF k
  <2>5. k \in 1 .. Len(s) /\ k \in 1 .. Len(t)
    BY <1>1, <2>2, <2>3, <2>4 DEF k
  <2>6. s[k] = t[k]
    <3>1. PICK j \in 1 .. Len(t) : t[j] = s[k] /\ j >= k
      BY <2>3, <2>5
    <3>2. PICK i \in 1 .. Len(s) : s[i] = t[k] /\ i >= k
      BY <2>4, <2>5
    <3>3. SUFFICES ASSUME i # k, j # k PROVE FALSE
      BY <3>1, <3>2
    <3>4. Before(cmp, t[k][1], t[j][1]) /\ Before(cmp, s[k][1], s[i][1])
      BY <1>1, <1>2, <2>5, <3>1, <3>2, <3>3
    <3>5. Before(cmp, t[k][1], s[k][1]) /\ Before(cmp, s[k][1], t[k][1]) /\ s[k][1] \in Path /\ t[k][1] \in Path
      BY <1>1, <2>5, <3>1, <3>2, <3>4
    <3> QED BY <3>5, Ordered
  <2>7. Same(k)
    <3> SUFFICES ASSUME NEW i \in 1 .. k PROVE i <= Len(s) /\ i <= Len(t) /\ s[i] = t[i]
      OBVIOUS
    <3>1. CASE i \in 1 .. n
      BY <2>1, <3>1
    <3>2. CASE i = k
      BY <1>1, <2>5, <2>6, <3>2
    <3> QED BY <2>2, <3>1, <3>2
  <2> QED BY <2>7 DEF k
<1>6. Nat \subseteq S
  <2> HIDE DEF S
  <2> QED BY <1>4, <1>5, SetInduction
<1>7. Same(Len(s)) /\ Same(Len(t))
  BY <1>1, <1>6
<1>8. Len(s) = Len(t)
  <2>1. Len(s) > 0 => Len(s) <= Len(t)
    <3> HAVE Len(s) > 0
    <3>1. Len(s) \in 1 .. Len(s)
      BY <1>1
    <3> QED BY <1>7, <3>1
  <2>2. Len(t) > 0 => Len(t) <= Len(s)
    <3> HAVE Len(t) > 0
    <3>1. Len(t) \in 1 .. Len(t)
      BY <1>1
    <3> QED BY <1>7, <3>1
  <2>3. Len(s) \in Nat /\ Len(t) \in Nat
    BY <1>1
  <2> QED BY <2>1, <2>2, <2>3
<1>9. \A i \in 1 .. Len(s) : s[i] = t[i]
  BY <1>7
<1> QED BY <1>8, <1>9, SeqEqual

-----------------------------------------------------------------------------
\* The shape of a tree.  Of a node it is known how far it is from the leaves (h) and
\* which keys belong to it (span).  The nodes of one height share all keys.  While an
\* insertion goes up, there is an orphan, and the keys of it and of the node it was
\* cut from are what the parent takes that node to have (seen).

Node(V) == [keys : Seq(Path), vals : Seq(V), ptrs : Seq(Nat), next : Nat]
Tree(V) == [root : Nat, nodes : Seq(Node(V)), cmp : Cmps]

InnerShaped(t, h, span, seen, orphan, x) ==
    LET n == t.nodes[x]
    IN  /\ n.vals = <<>> /\ n.next = 0 /\ Len(n.ptrs) = Len(n.keys) + 1
        /\ \A j \in 1 .. Len(n.ptrs) :
              /\ n.ptrs[j] \in DOMAIN t.nodes /\ n.ptrs[j] # orphan
              /\ h[n.ptrs[j]] + 1 = h[x]
              /\ seen[n.ptrs[j]] = span[x] \cap Slot(t.cmp, n.keys, j)

Linked(t, h, span, x) ==
    LET y == t.nodes[x].next
    IN  \/ y = 0 /\ \A a \in span[x], k \in Path : Before(t.cmp, a, k) => k \in span[x]
        \/ /\ y \in DOMAIN t.nodes /\ h[y] = 0
           /\ \A a \in span[x], b \in span[y] :
                 /\ Before(t.cmp, a, b)
                 /\ \A k \in Path : Before(t.cmp, a, k) /\ Before(t.cmp, k, b) => k \in span[x] \cup span[y]

LeafShaped(t, h, span, x) ==
    LET n == t.nodes[x]
    IN  n.ptrs = <<>> /\ Len(n.vals) = Len(n.keys) /\ Linked(t, h, span, x)

Convex(cmp, keys) == \A a, b \in keys, k \in Path : Before(cmp, a, k) /\ Before(cmp, k, b) => k \in keys

NodeShaped(t, h, span, seen, orphan, x) ==
    LET n == t.nodes[x]
    IN  /\ Len(n.keys) < Order /\ Increasing(t.cmp, n.keys)
        /\ \A i \in DOMAIN n.keys : n.keys[i] \in span[x]
        /\ span[x] # {} /\ span[x] \subseteq seen[x] /\ Convex(t.cmp, span[x])
        /\ h[x] = 0 => LeafShaped(t, h, span, x)
        /\ h[x] # 0 => InnerShaped(t, h, span, seen, orphan, x)

Shape(t, V, h, span, seen, orphan) ==
    /\ t \in Tree(V) /\ t.root \in DOMAIN t.nodes /\ t.root # orphan
    /\ h \in [DOMAIN t.nodes -> Nat]
    /\ span \in [DOMAIN t.nodes -> SUBSET Path] /\ seen \in [DOMAIN t.nodes -> SUBSET Path]
    /\ seen[t.root] = Path
    /\ \A x \in DOMAIN t.nodes : NodeShaped(t, h, span, seen, orphan, x)
    /\ \A x, y \in DOMAIN t.nodes : x # y /\ h[x] = h[y] => span[x] \cap span[y] = {}
    /\ \A x \in DOMAIN t.nodes : h[x] <= h[t.root]

WellShaped(t, V, h, span) == Shape(t, V, h, span, span, 0)
IsTree(t, V) == \E h, span : WellShaped(t, V, h, span)

\* The pairs of a tree.
Listed(t, V) ==
    {kv \in Path \X V : \E x \in DOMAIN t.nodes : \E i \in DOMAIN t.nodes[x].vals :
                           t.nodes[x].keys[i] = kv[1] /\ t.nodes[x].vals[i] = kv[2]}

\* btree.New: a tree that is one empty leaf has the shape of a tree and lists no
\* pair.
LEMMA EmptyTreeIsTree ==
    ASSUME NEW V, NEW cmp \in Cmps
    PROVE  IsTree(EmptyTree(cmp), V) /\ Listed(EmptyTree(cmp), V) = {} /\ EmptyTree(cmp).cmp = cmp
<1> DEFINE t == EmptyTree(cmp)
           h == [x \in {1} |-> 0]
           span == [x \in {1} |-> Path]
<1>1. <<>> \in Path /\ <<>> \in Seq(V) /\ <<>> \in Seq(Nat) /\ Len(<<>>) = 0 /\ DOMAIN <<>> = {}
  BY DEF Path
<1>2. EmptyLeaf \in Node(V) /\ EmptyLeaf.keys = <<>> /\ EmptyLeaf.vals = <<>> /\ EmptyLeaf.ptrs = <<>> /\ EmptyLeaf.next = 0
  BY <1>1 DEF EmptyLeaf, Node, Path
<1>3. t \in Tree(V) /\ t.root = 1 /\ t.nodes = <<EmptyLeaf>> /\ t.cmp = cmp
  BY <1>2 DEF EmptyTree, Tree
<1>4. DOMAIN t.nodes = {1} /\ t.nodes[1] = EmptyLeaf
  BY <1>3
<1>5. NodeShaped(t, h, span, span, 0, 1)
  <2>1. Len(EmptyLeaf.keys) < Order
    BY <1>1, <1>2, OrderAssumption
  <2> QED BY <1>1, <1>2, <1>3, <1>4, <2>1 DEF NodeShaped, LeafShaped, Linked, Increasing, Convex
<1> HIDE DEF t
<1>6. WellShaped(t, V, h, span)
  BY <1>3, <1>4, <1>5 DEF WellShaped, Shape
<1>7. Listed(t, V) = {}
  BY <1>1, <1>2, <1>4 DEF Listed
<1> QED BY <1>3, <1>6, <1>7 DEF IsTree, t

\* What is used of a shape most often.
LEMMA Facts ==
    ASSUME NEW V, NEW t, NEW h, NEW span, NEW seen, NEW orphan, Shape(t, V, h, span, seen, orphan),
           NEW x \in DOMAIN t.nodes
    PROVE  LET n == t.nodes[x]
           IN  /\ DOMAIN t.nodes = 1 .. Len(t.nodes) /\ Len(t.nodes) \in Nat /\ t.cmp \in Cmps
               /\ x \in Nat /\ x # 0
               /\ n \in Node(V) /\ n.keys \in Seq(Path) /\ n.vals \in Seq(V) /\ n.ptrs \in Seq(Nat) /\ n.next \in Nat
               /\ Len(n.keys) \in Nat /\ DOMAIN n.keys = 1 .. Len(n.keys)
               /\ \A i \in 1 .. Len(n.keys) : n.keys[i] \in Path
               /\ h[x] \in Nat /\ span[x] \subseteq Path /\ seen[x] \subseteq Path
               /\ Increasing(t.cmp, n.keys)
               /\ IsLeaf(n) <=> h[x] = 0
               /\ NodeShaped(t, h, span, seen, orphan, x)
<1>1. /\ t.nodes \in Seq(Node(V)) /\ t.cmp \in Cmps
      /\ h[x] \in Nat /\ span[x] \subseteq Path /\ seen[x] \subseteq Path
      /\ NodeShaped(t, h, span, seen, orphan, x)
  BY DEF Shape, Tree
<1>2. DOMAIN t.nodes = 1 .. Len(t.nodes) /\ Len(t.nodes) \in Nat /\ t.nodes[x] \in Node(V)
  BY <1>1
<1>3. /\ t.nodes[x].keys \in Seq(Path) /\ t.nodes[x].vals \in Seq(V)
      /\ t.nodes[x].ptrs \in Seq(Nat) /\ t.nodes[x].next \in Nat
  BY <1>2 DEF Node
<1>4. /\ Len(t.nodes[x].keys) \in Nat /\ DOMAIN t.nodes[x].keys = 1 .. Len(t.nodes[x].keys)
      /\ \A i \in 1 .. Len(t.nodes[x].keys) : t.nodes[x].keys[i] \in Path
  BY <1>3
<1>5. Increasing(t.cmp, t.nodes[x].keys)
  BY <1>1 DEF NodeShaped
<1>6. IsLeaf(t.nodes[x]) <=> h[x] = 0
  <2>1. h[x] = 0 => t.nodes[x].ptrs = <<>>
    BY <1>1 DEF NodeShaped, LeafShaped
  <2>2. h[x] # 0 => Len(t.nodes[x].ptrs) = Len(t.nodes[x].keys) + 1
    BY <1>1 DEF NodeShaped, InnerShaped
  <2>3. h[x] # 0 => t.nodes[x].ptrs # <<>>
    BY <1>4, <2>2
  <2> QED BY <2>1, <2>3 DEF IsLeaf
<1> QED BY <1>1, <1>2, <1>3, <1>4, <1>5, <1>6

\* What the shape says of all the nodes: they are leaves at height 0, the nodes of
\* one height share no key, and all keys belong to the root.
LEMMA TreeFacts ==
    ASSUME NEW V, NEW t, NEW h, NEW span, WellShaped(t, V, h, span)
    PROVE  /\ h \in [DOMAIN t.nodes -> Nat] /\ \A p \in DOMAIN t.nodes : IsLeaf(t.nodes[p]) <=> h[p] = 0
           /\ t.root \in DOMAIN t.nodes /\ span[t.root] = Path /\ t.cmp \in Cmps /\ t \in Tree(V)
           /\ span \in [DOMAIN t.nodes -> SUBSET Path]
           /\ \A x, y \in DOMAIN t.nodes : x # y /\ h[x] = h[y] => span[x] \cap span[y] = {}
           /\ \A x \in DOMAIN t.nodes : h[x] <= h[t.root]
           /\ \A x \in DOMAIN t.nodes : span[x] # {} /\ span[x] \subseteq Path
<1>1. Shape(t, V, h, span, span, 0)
  BY DEF WellShaped
<1>2. \A p \in DOMAIN t.nodes : p # 0 /\ (IsLeaf(t.nodes[p]) <=> h[p] = 0) /\ NodeShaped(t, h, span, span, 0, p)
  <2> SUFFICES ASSUME NEW p \in DOMAIN t.nodes
               PROVE  p # 0 /\ (IsLeaf(t.nodes[p]) <=> h[p] = 0) /\ NodeShaped(t, h, span, span, 0, p)
    OBVIOUS
  <2> QED BY <1>1, Facts
<1>3. \A x \in DOMAIN t.nodes : span[x] # {} /\ span[x] \subseteq Path
  BY <1>1, <1>2 DEF NodeShaped, Shape
<1> QED BY <1>1, <1>2, <1>3 DEF Shape, Tree

\* What the shape says of an inner node: its children are one level below it, they
\* share its keys in the order of its pointers, and findleaf picks the child a key
\* belongs to.
LEMMA ChildFacts ==
    ASSUME NEW V, NEW t, NEW h, NEW span, WellShaped(t, V, h, span),
           NEW x \in DOMAIN t.nodes, h[x] # 0
    PROVE  /\ \A j \in 1 .. Len(t.nodes[x].ptrs) :
                 LET c == t.nodes[x].ptrs[j]
                 IN  c \in DOMAIN t.nodes /\ h[c] \in Nat /\ h[c] + 1 = h[x] /\ h[c] < h[x]
                     /\ span[c] = span[x] \cap Slot(t.cmp, t.nodes[x].keys, j)
           /\ Len(t.nodes[x].ptrs) = Len(t.nodes[x].keys) + 1
           /\ \A k \in Path : \E j \in 1 .. Len(t.nodes[x].ptrs) :
                 /\ Child(t.cmp, t.nodes[x], k) = t.nodes[x].ptrs[j]
                 /\ k \in Slot(t.cmp, t.nodes[x].keys, j)
<1>1. Shape(t, V, h, span, span, 0)
  BY DEF WellShaped
<1>2. InnerShaped(t, h, span, span, 0, x)
  BY <1>1, Facts DEF NodeShaped
<1>3. ASSUME NEW j \in 1 .. Len(t.nodes[x].ptrs)
      PROVE  LET c == t.nodes[x].ptrs[j]
             IN  c \in DOMAIN t.nodes /\ h[c] \in Nat /\ h[c] + 1 = h[x] /\ h[c] < h[x]
                 /\ span[c] = span[x] \cap Slot(t.cmp, t.nodes[x].keys, j)
  <2> DEFINE c == t.nodes[x].ptrs[j]
  <2>1. c \in DOMAIN t.nodes /\ h[c] + 1 = h[x] /\ span[c] = span[x] \cap Slot(t.cmp, t.nodes[x].keys, j)
    BY <1>2 DEF InnerShaped
  <2>2. h[c] \in Nat
    BY <1>1, <2>1, Facts
  <2> QED BY <2>1, <2>2
<1>4. Len(t.nodes[x].ptrs) = Len(t.nodes[x].keys) + 1
  BY <1>2 DEF InnerShaped
<1>5. ASSUME NEW k \in Path
      PROVE  \E j \in 1 .. Len(t.nodes[x].ptrs) :
                /\ Child(t.cmp, t.nodes[x], k) = t.nodes[x].ptrs[j]
                /\ k \in Slot(t.cmp, t.nodes[x].keys, j)
  <2> DEFINE n == t.nodes[x]
             j == ChildAt(t.cmp, n, k)
  <2>1. t.cmp \in Cmps /\ n.keys \in Seq(Path) /\ Increasing(t.cmp, n.keys)
    BY <1>1, Facts
  <2> HIDE DEF n
  <2>2. j \in 1 .. Len(n.keys) + 1 /\ k \in Slot(t.cmp, n.keys, j)
    BY <2>1, ChildSlot
  <2>3. Child(t.cmp, n, k) = n.ptrs[j]
    BY DEF Child, ChildAt
  <2> HIDE DEF j
  <2> QED BY <1>4, <2>2, <2>3 DEF n
<1> QED BY <1>3, <1>4, <1>5

-----------------------------------------------------------------------------
\* A way down.

Down(t, h, span, k, x, path) ==
    /\ path \in Seq(DOMAIN t.nodes) /\ Len(path) \in Nat \ {0} /\ path[1] = x
    /\ h[path[Len(path)]] = 0
    /\ \A i \in 1 .. Len(path) - 1 : h[path[i]] # 0 /\ path[i + 1] = Child(t.cmp, t.nodes[path[i]], k)
    /\ \A i \in 1 .. Len(path) : k \in span[path[i]]

\* findleaf, step by step: from an inner node it goes on with the child for the
\* key, and a leaf is the end.
LEMMA DescentsIs ==
    ASSUME NEW V, NEW t, NEW h, NEW span, WellShaped(t, V, h, span), NEW k \in Path
    PROVE  \A p \in DOMAIN t.nodes :
              Descents(t, k)[p] = IF IsLeaf(t.nodes[p]) THEN <<p>>
                                  ELSE <<p>> \o Descents(t, k)[Child(t.cmp, t.nodes[p], k)]
<1> DEFINE D == DOMAIN t.nodes
           W == Seq(D)
           step == [p \in D |-> [f \in [D -> W] |->
                       IF IsLeaf(t.nodes[p]) THEN <<p>> ELSE <<p>> \o f[Child(t.cmp, t.nodes[p], k)]]]
<1>1. /\ h \in [D -> Nat]
      /\ \A p \in D : IsLeaf(t.nodes[p]) <=> h[p] = 0
  BY TreeFacts
<1>2. \A p \in D : ~IsLeaf(t.nodes[p]) => Child(t.cmp, t.nodes[p], k) \in D /\ h[Child(t.cmp, t.nodes[p], k)] < h[p]
  <2> SUFFICES ASSUME NEW p \in D, ~IsLeaf(t.nodes[p])
               PROVE  Child(t.cmp, t.nodes[p], k) \in D /\ h[Child(t.cmp, t.nodes[p], k)] < h[p]
    OBVIOUS
  <2>1. h[p] # 0
    BY <1>1
  <2>2. PICK j \in 1 .. Len(t.nodes[p].ptrs) : Child(t.cmp, t.nodes[p], k) = t.nodes[p].ptrs[j]
    BY <2>1, ChildFacts
  <2> QED BY <2>1, <2>2, ChildFacts
<1>3. Recursive(D, W, h, step)
  <2>1. step \in [D -> [[D -> W] -> W]]
    <3> SUFFICES ASSUME NEW p \in D, NEW f \in [D -> W]
                 PROVE  (IF IsLeaf(t.nodes[p]) THEN <<p>> ELSE <<p>> \o f[Child(t.cmp, t.nodes[p], k)]) \in W
      OBVIOUS
    <3>1. <<p>> \in W
      <4> HIDE DEF D
      <4> QED OBVIOUS
    <3>2. ~IsLeaf(t.nodes[p]) => f[Child(t.cmp, t.nodes[p], k)] \in W
      BY <1>2
    <3> HIDE DEF D
    <3> QED BY <3>1, <3>2, ConcatProperties
  <2>2. <<>> \in W
    OBVIOUS
  <2>3. ASSUME NEW p \in D, NEW f \in [D -> W], NEW g \in [D -> W], \A y \in D : h[y] < h[p] => f[y] = g[y]
        PROVE  step[p][f] = step[p][g]
    <3> HIDE DEF D, W
    <3> QED BY <1>2, <2>3
  <2> HIDE DEF D, W, step
  <2> QED BY <1>1, <2>1, <2>2, <2>3 DEF Recursive
<1>4. PICK f \in [D -> W] : \A p \in D : f[p] = step[p][f]
  <2> HIDE DEF D, W, step
  <2> QED BY <1>3, RecursiveFunction
<1>5. \A p \in D : f[p] = IF IsLeaf(t.nodes[p]) THEN <<p>> ELSE <<p>> \o f[Child(t.cmp, t.nodes[p], k)]
  BY <1>4
<1>6. f = [p \in D |-> IF IsLeaf(t.nodes[p]) THEN <<p>> ELSE <<p>> \o f[Child(t.cmp, t.nodes[p], k)]]
  <2> HIDE DEF D, step
  <2> QED BY <1>5
<1> DEFINE path == CHOOSE g : g = [p \in D |-> IF IsLeaf(t.nodes[p]) THEN <<p>> ELSE <<p>> \o g[Child(t.cmp, t.nodes[p], k)]]
<1>7. path = [p \in D |-> IF IsLeaf(t.nodes[p]) THEN <<p>> ELSE <<p>> \o path[Child(t.cmp, t.nodes[p], k)]]
  <2> HIDE DEF D, step
  <2> QED BY <1>6
<1>8. Descents(t, k) = path
  BY DEF Descents
<1> HIDE DEF path
<1> QED BY <1>7, <1>8

\* findleaf terminates: from a node the key belongs to it takes one child after
\* the other and ends in the leaf the key belongs to.
LEMMA PathsGoDown ==
    ASSUME NEW V, NEW t, NEW h, NEW span, WellShaped(t, V, h, span), NEW k \in Path
    PROVE  \A x \in DOMAIN t.nodes : k \in span[x] => Down(t, h, span, k, x, Descents(t, k)[x])
<1> DEFINE D == DOMAIN t.nodes
           path == Descents(t, k)
           S == {x \in D : k \in span[x] => Down(t, h, span, k, x, path[x])}
<1>1. h \in [D -> Nat] /\ \A p \in D : IsLeaf(t.nodes[p]) <=> h[p] = 0
  BY TreeFacts
<1>2. ASSUME NEW x \in D, \A y \in D : h[y] < h[x] => y \in S
      PROVE  x \in S
  <2> SUFFICES ASSUME k \in span[x] PROVE Down(t, h, span, k, x, path[x])
    OBVIOUS
  <2>1. CASE h[x] = 0
    <3>1. path[x] = <<x>>
      BY <1>1, <2>1, DescentsIs
    <3>2. x \in D /\ <<x>> \in Seq(D) /\ Len(<<x>>) = 1 /\ <<x>>[1] = x
      <4> HIDE DEF D
      <4> QED OBVIOUS
    <3> HIDE DEF D, path
    <3> QED BY <2>1, <3>1, <3>2 DEF Down, D
  <2>2. CASE h[x] # 0
    <3> DEFINE c == Child(t.cmp, t.nodes[x], k)
    <3>1. path[x] = <<x>> \o path[c]
      BY <1>1, <2>2, DescentsIs
    <3>2. PICK j \in 1 .. Len(t.nodes[x].ptrs) : c = t.nodes[x].ptrs[j] /\ k \in Slot(t.cmp, t.nodes[x].keys, j)
      BY <2>2, ChildFacts
    <3>3. c \in D /\ h[c] < h[x] /\ k \in span[c]
      BY <2>2, <3>2, ChildFacts
    <3>4. Down(t, h, span, k, c, path[c])
      BY <1>2, <3>3
    <3> DEFINE q == path[c]
               p == path[x]
    <3>5. /\ q \in Seq(D) /\ Len(q) \in Nat \ {0} /\ q[1] = c /\ h[q[Len(q)]] = 0
          /\ \A i \in 1 .. Len(q) - 1 : h[q[i]] # 0 /\ q[i + 1] = Child(t.cmp, t.nodes[q[i]], k)
          /\ \A i \in 1 .. Len(q) : k \in span[q[i]]
      BY <3>4 DEF Down
    <3> HIDE DEF q, D
    <3>6. p \in Seq(D) /\ Len(p) = Len(q) + 1 /\ \A i \in 1 .. Len(q) + 1 : p[i] = IF i = 1 THEN x ELSE q[i - 1]
      <4>1. <<x>> \in Seq(D) /\ Len(<<x>>) = 1 /\ <<x>>[1] = x
        OBVIOUS
      <4>2. /\ <<x>> \o q \in Seq(D) /\ Len(<<x>> \o q) = 1 + Len(q)
            /\ \A i \in 1 .. 1 + Len(q) : (<<x>> \o q)[i] = IF i <= 1 THEN <<x>>[i] ELSE q[i - 1]
        BY <3>5, <4>1, ConcatProperties
      <4>3. p = <<x>> \o q
        BY <3>1 DEF q
      <4> HIDE DEF p
      <4> QED BY <3>5, <4>1, <4>2, <4>3
    <3> HIDE DEF p
    <3>7. Len(p) \in Nat \ {0} /\ p[1] = x /\ p[Len(p)] = q[Len(q)]
      BY <3>5, <3>6
    <3>8. ASSUME NEW i \in 1 .. Len(p) - 1 PROVE h[p[i]] # 0 /\ p[i + 1] = Child(t.cmp, t.nodes[p[i]], k)
      <4>1. CASE i = 1
        <5>1. p[1] = x /\ p[1 + 1] = q[1]
          BY <3>5, <3>6
        <5> QED BY <2>2, <3>5, <4>1, <5>1
      <4>2. CASE i # 1
        <5>1. i - 1 \in 1 .. Len(q) - 1 /\ p[i] = q[i - 1] /\ p[i + 1] = q[(i - 1) + 1]
          BY <3>5, <3>6, <4>2
        <5> QED BY <3>5, <5>1
      <4> QED BY <4>1, <4>2
    <3>9. ASSUME NEW i \in 1 .. Len(p) PROVE k \in span[p[i]]
      <4>1. i = 1 \/ (i - 1 \in 1 .. Len(q) /\ p[i] = q[i - 1])
        BY <3>5, <3>6
      <4> QED BY <3>5, <3>7, <4>1
    <3>10. Down(t, h, span, k, x, p)
      BY <3>5, <3>6, <3>7, <3>8, <3>9 DEF Down, D
    <3> QED BY <3>10 DEF p
  <2> QED BY <2>1, <2>2
<1>3. D \subseteq S
  <2> HIDE DEF S, D
  <2> QED BY <1>1, <1>2, MeasureInduction
<1> QED BY <1>3

-----------------------------------------------------------------------------
\* What a leaf has.

\* What the shape says of a leaf: as many values as keys, each key one that
\* belongs to it, each pair one that the tree lists.
LEMMA LeafFacts ==
    ASSUME NEW V, NEW t, NEW h, NEW span, WellShaped(t, V, h, span), NEW x \in DOMAIN t.nodes, h[x] = 0
    PROVE  LET n == t.nodes[x]
           IN  /\ n.ptrs = <<>> /\ Len(n.vals) = Len(n.keys) /\ DOMAIN n.vals = 1 .. Len(n.keys) /\ Linked(t, h, span, x)
               /\ \A i \in 1 .. Len(n.keys) : n.vals[i] \in V /\ n.keys[i] \in span[x] /\ <<n.keys[i], n.vals[i]>> \in Listed(t, V)
<1> DEFINE n == t.nodes[x]
<1>1. Shape(t, V, h, span, span, 0)
  BY DEF WellShaped
<1>2. /\ n.vals \in Seq(V) /\ Len(n.keys) \in Nat /\ DOMAIN n.keys = 1 .. Len(n.keys)
      /\ \A i \in 1 .. Len(n.keys) : n.keys[i] \in Path
      /\ NodeShaped(t, h, span, span, 0, x)
  BY <1>1, Facts
<1>3. n.ptrs = <<>> /\ Len(n.vals) = Len(n.keys) /\ Linked(t, h, span, x)
  BY <1>2 DEF NodeShaped, LeafShaped
<1>4. DOMAIN n.vals = 1 .. Len(n.keys) /\ \A i \in 1 .. Len(n.keys) : n.vals[i] \in V
  BY <1>2, <1>3
<1>5. \A i \in 1 .. Len(n.keys) : n.keys[i] \in span[x]
  BY <1>2 DEF NodeShaped
<1>6. \A i \in 1 .. Len(n.keys) : <<n.keys[i], n.vals[i]>> \in Listed(t, V)
  <2> SUFFICES ASSUME NEW i \in 1 .. Len(n.keys) PROVE <<n.keys[i], n.vals[i]>> \in Listed(t, V)
    OBVIOUS
  <2> DEFINE kv == <<n.keys[i], n.vals[i]>>
  <2>1. kv \in Path \X V /\ kv[1] = n.keys[i] /\ kv[2] = n.vals[i] /\ i \in DOMAIN n.vals
    BY <1>2, <1>4
  <2> HIDE DEF kv
  <2> QED BY <2>1 DEF Listed, kv
<1> QED BY <1>3, <1>4, <1>5, <1>6

\* A pair that the tree lists is in the leaf its key belongs to, and in that one
\* only: the search of one leaf is enough.
LEMMA ListedAt ==
    ASSUME NEW V, NEW t, NEW h, NEW span, WellShaped(t, V, h, span), NEW kv \in Listed(t, V)
    PROVE  /\ kv \in Path \X V
           /\ \E x \in DOMAIN t.nodes : h[x] = 0 /\ kv[1] \in span[x]
           /\ \A x \in DOMAIN t.nodes : h[x] = 0 /\ kv[1] \in span[x] =>
                 \E i \in 1 .. Len(t.nodes[x].keys) : kv = <<t.nodes[x].keys[i], t.nodes[x].vals[i]>>
<1>1. PICK x \in DOMAIN t.nodes : \E i \in DOMAIN t.nodes[x].vals :
                                     t.nodes[x].keys[i] = kv[1] /\ t.nodes[x].vals[i] = kv[2]
  BY DEF Listed
<1>2. PICK i \in DOMAIN t.nodes[x].vals : t.nodes[x].keys[i] = kv[1] /\ t.nodes[x].vals[i] = kv[2]
  BY <1>1
<1>3. kv \in Path \X V /\ kv = <<kv[1], kv[2]>>
  BY DEF Listed
<1>4. h[x] = 0
  <2> SUFFICES ASSUME h[x] # 0 PROVE FALSE
    OBVIOUS
  <2>1. NodeShaped(t, h, span, span, 0, x)
    BY Facts DEF WellShaped
  <2>2. t.nodes[x].vals = <<>>
    BY <2>1 DEF NodeShaped, InnerShaped
  <2> QED BY <2>2
<1>5. i \in 1 .. Len(t.nodes[x].keys) /\ kv[1] \in span[x]
  <2>1. /\ DOMAIN t.nodes[x].vals = 1 .. Len(t.nodes[x].keys)
        /\ \A j \in 1 .. Len(t.nodes[x].keys) : t.nodes[x].keys[j] \in span[x]
    <3>1. DOMAIN t.nodes[x].vals = 1 .. Len(t.nodes[x].keys)
      BY <1>4, LeafFacts
    <3>2. ASSUME NEW j \in 1 .. Len(t.nodes[x].keys) PROVE t.nodes[x].keys[j] \in span[x]
      BY <1>4, LeafFacts
    <3> QED BY <3>1, <3>2
  <2>2. i \in 1 .. Len(t.nodes[x].keys)
    BY <2>1
  <2> QED BY <1>2, <2>1, <2>2
<1>6. \A y \in DOMAIN t.nodes : h[y] = 0 /\ kv[1] \in span[y] => y = x
  BY <1>4, <1>5, TreeFacts
<1> QED BY <1>2, <1>3, <1>4, <1>5, <1>6

\* BTree.Find returns the value of a key the tree lists, and nothing for another
\* one: a key is looked for in the leaf where insertion would put it, so it cannot
\* be missed.
THEOREM FindIs ==
    ASSUME NEW V, NEW t, NEW h, NEW span, WellShaped(t, V, h, span), NEW k \in Path
    PROVE  /\ PathTo(t, k) \in Seq(DOMAIN t.nodes) /\ LeafOf(t, k) \in DOMAIN t.nodes
           /\ h[LeafOf(t, k)] = 0 /\ k \in span[LeafOf(t, k)]
           /\ \A v \in V : <<k, v>> \in Listed(t, V) => Find(t, k) = <<v>> /\ Has(t.nodes[LeafOf(t, k)], k)
           /\ \/ \E v \in V : <<k, v>> \in Listed(t, V) /\ Find(t, k) = <<v>>
              \/ Find(t, k) = <<>> /\ ~Has(t.nodes[LeafOf(t, k)], k)
<1> DEFINE at == LeafOf(t, k)
           n  == t.nodes[at]
           s  == Smaller(t.cmp, n, k)
<1>1. Down(t, h, span, k, t.root, PathTo(t, k))
  BY TreeFacts, PathsGoDown DEF PathTo
<1>2. PathTo(t, k) \in Seq(DOMAIN t.nodes) /\ at \in DOMAIN t.nodes /\ h[at] = 0 /\ k \in span[at]
  <2> DEFINE path == PathTo(t, k)
             D == DOMAIN t.nodes
  <2>1. path \in Seq(D) /\ Len(path) \in 1 .. Len(path) /\ at = path[Len(path)]
    BY <1>1 DEF Down, LeafOf, Last
  <2>2. path[Len(path)] \in D
    <3> HIDE DEF D, path
    <3> QED BY <2>1
  <2> QED BY <1>1, <2>1, <2>2 DEF Down
<1> HIDE DEF at
<1>3. n.keys \in Seq(Path) /\ Increasing(t.cmp, n.keys) /\ t.cmp \in Cmps
  BY <1>2, Facts DEF WellShaped
<1>4. /\ Len(n.vals) = Len(n.keys) /\ DOMAIN n.vals = 1 .. Len(n.keys)
      /\ \A i \in 1 .. Len(n.keys) : n.vals[i] \in V /\ <<n.keys[i], n.vals[i]>> \in Listed(t, V)
  BY <1>2, LeafFacts
<1>5. /\ s \in 0 .. Len(n.keys)
      /\ \A i \in 1 .. Len(n.keys) : Before(t.cmp, n.keys[i], k) <=> i <= s
      /\ Has(n, k) <=> s < Len(n.keys) /\ n.keys[s + 1] = k
  <2> HIDE DEF n
  <2> QED BY <1>3, SmallerIs
<1>6. Find(t, k) = IF Has(n, k) THEN <<n.vals[s + 1]>> ELSE <<>>
  BY DEF Find, at
<1>7. Len(n.keys) \in Nat
  BY <1>3
<1>8. ASSUME NEW v \in V, <<k, v>> \in Listed(t, V) PROVE Find(t, k) = <<v>> /\ Has(n, k)
  <2>1. PICK i \in 1 .. Len(n.keys) : <<k, v>> = <<n.keys[i], n.vals[i]>>
    BY <1>2, <1>8, ListedAt
  <2>2. n.keys[i] = k /\ n.vals[i] = v
    BY <2>1
  <2>3. Has(n, k)
    BY <1>3, <2>2 DEF Has
  <2>4. s + 1 \in 1 .. Len(n.keys) /\ n.keys[s + 1] = k
    BY <1>5, <1>7, <2>3
  <2>5. ~Before(t.cmp, k, k)
    BY <1>3, Ordered
  <2>6. i = s + 1
    <3>1. ~ (i < s + 1) /\ ~ (s + 1 < i)
      BY <1>3, <2>2, <2>4, <2>5 DEF Increasing
    <3> QED BY <1>5, <3>1
  <2> QED BY <1>6, <2>2, <2>3, <2>6
<1>9. \/ \E v \in V : <<k, v>> \in Listed(t, V) /\ Find(t, k) = <<v>>
      \/ Find(t, k) = <<>> /\ ~Has(n, k)
  <2>1. CASE Has(n, k)
    <3>1. s + 1 \in 1 .. Len(n.keys) /\ n.keys[s + 1] = k
      BY <1>5, <1>7, <2>1
    <3>2. n.vals[s + 1] \in V /\ <<k, n.vals[s + 1]>> \in Listed(t, V)
      BY <1>4, <3>1
    <3>3. Find(t, k) = <<n.vals[s + 1]>>
      BY <1>6, <2>1
    <3> QED BY <3>2, <3>3
  <2>2. CASE ~Has(n, k)
    BY <1>6, <2>2
  <2> QED BY <2>1, <2>2
<1> QED BY <1>2, <1>8, <1>9 DEF at

-----------------------------------------------------------------------------
\* Scans.

\* The keys from a leaf on.
Up(t, span, x) == IF x = 0 THEN {} ELSE {k \in Path : \E a \in span[x] : ~Before(t.cmp, k, a)}

\* From a leaf to the right are its keys and those from the next leaf on
\* (node.Next), all after its own.
LEMMA UpIs ==
    ASSUME NEW V, NEW t, NEW h, NEW span, WellShaped(t, V, h, span), NEW x \in DOMAIN t.nodes, h[x] = 0
    PROVE  LET y == t.nodes[x].next
           IN  /\ y = 0 \/ (y \in DOMAIN t.nodes /\ h[y] = 0)
               /\ Up(t, span, x) = span[x] \cup Up(t, span, y)
               /\ \A a \in span[x], k \in Up(t, span, y) : Before(t.cmp, a, k)
<1> DEFINE y == t.nodes[x].next
<1>1. Linked(t, h, span, x) /\ x # 0 /\ t.cmp \in Cmps /\ span[x] \subseteq Path /\ 0 \notin DOMAIN t.nodes
  BY LeafFacts, Facts, TreeFacts DEF WellShaped
<1>2. \A k \in Path : ~Before(t.cmp, k, k)
  BY <1>1, Ordered
<1>3. \A k \in span[x] : k \in Up(t, span, x)
  BY <1>1, <1>2 DEF Up
<1>4. CASE y = 0
  <2>1. \A a \in span[x], k \in Path : Before(t.cmp, a, k) => k \in span[x]
    BY <1>1, <1>4 DEF Linked
  <2>2. Up(t, span, y) = {}
    BY <1>4 DEF Up
  <2>3. ASSUME NEW k \in Up(t, span, x) PROVE k \in span[x]
    <3>1. PICK a \in span[x] : k \in Path /\ ~Before(t.cmp, k, a)
      BY <1>1 DEF Up
    <3>2. k = a \/ Before(t.cmp, a, k)
      BY <1>1, <3>1, Ordered
    <3> QED BY <2>1, <3>1, <3>2
  <2> QED BY <1>3, <1>4, <2>2, <2>3
<1>5. CASE y # 0
  <2>1. /\ y \in DOMAIN t.nodes /\ h[y] = 0
        /\ \A a \in span[x], b \in span[y] :
              /\ Before(t.cmp, a, b)
              /\ \A k \in Path : Before(t.cmp, a, k) /\ Before(t.cmp, k, b) => k \in span[x] \cup span[y]
    BY <1>1, <1>5 DEF Linked
  <2>2. span[y] # {} /\ span[y] \subseteq Path /\ span[x] # {}
    BY <2>1, TreeFacts
  <2>3. ASSUME NEW a \in span[x], NEW k \in Up(t, span, y) PROVE Before(t.cmp, a, k) /\ k \in Up(t, span, x)
    <3>1. PICK b \in span[y] : k \in Path /\ ~Before(t.cmp, k, b)
      BY <1>5 DEF Up
    <3>2. k = b \/ Before(t.cmp, b, k)
      BY <1>1, <2>2, <3>1, Ordered
    <3>3. a \in Path /\ b \in Path /\ Before(t.cmp, a, b)
      BY <1>1, <2>1, <2>2
    <3>4. Before(t.cmp, a, k)
      BY <1>1, <3>1, <3>2, <3>3, Ordered
    <3>5. ~Before(t.cmp, k, a)
      BY <1>1, <3>1, <3>3, <3>4, Ordered
    <3> QED BY <1>1, <3>1, <3>4, <3>5 DEF Up
  <2>4. ASSUME NEW k \in Up(t, span, x) PROVE k \in span[x] \cup Up(t, span, y)
    <3>1. PICK a \in span[x] : k \in Path /\ ~Before(t.cmp, k, a)
      BY <1>1 DEF Up
    <3>2. PICK b \in span[y] : TRUE
      BY <2>2
    <3>3. CASE ~Before(t.cmp, k, b)
      BY <1>5, <3>1, <3>3 DEF Up
    <3>4. CASE Before(t.cmp, k, b)
      <4>1. k = a \/ Before(t.cmp, a, k)
        BY <1>1, <3>1, Ordered
      <4>2. k \in span[x] \cup span[y]
        BY <2>1, <3>1, <3>4, <4>1
      <4>3. k \in span[y] => k \in Up(t, span, y)
        BY <1>2, <1>5, <3>1 DEF Up
      <4> QED BY <4>2, <4>3
    <3> QED BY <3>3, <3>4
  <2>5. \A a \in span[x], k \in Up(t, span, y) : Before(t.cmp, a, k)
    BY <2>3
  <2>6. Up(t, span, x) = span[x] \cup Up(t, span, y)
    BY <1>3, <2>2, <2>3, <2>4
  <2> QED BY <2>1, <2>5, <2>6
<1> QED BY <1>4, <1>5

\* A scan of the keys in up: what it finds, in order, and all of it when nothing
\* went wrong.
ScanOf(t, V, there, up, r) ==
    /\ r.pairs \in Seq(Path \X V) /\ r.ok \in BOOLEAN
    /\ Sorted(t.cmp, r.pairs)
    /\ ToSet(r.pairs) \subseteq {kv \in Listed(t, V) : kv[1] \in up}
    /\ \A kv \in Listed(t, V), q \in ToSet(r.pairs) :
          kv[1] \in up /\ Before(t.cmp, kv[1], q[1]) => kv \in ToSet(r.pairs)
    /\ r.ok => \A kv \in Listed(t, V) : kv[1] \in up => kv \in ToSet(r.pairs)
    /\ DOMAIN t.nodes \subseteq there => r.ok

\* An iterator that returns nothing: right when there is no key left, or when it
\* stopped with an error.
LEMMA ScanOfNothing ==
    ASSUME NEW V, NEW t, NEW there, NEW up, NEW ok \in BOOLEAN,
           ok => up = {}, DOMAIN t.nodes \subseteq there => ok
    PROVE  ScanOf(t, V, there, up, [pairs |-> <<>>, ok |-> ok])
<1>1. <<>> \in Seq(Path \X V) /\ DOMAIN <<>> = {} /\ ToSet(<<>>) = {}
  BY DEF ToSet
<1> QED BY <1>1 DEF ScanOf, Sorted

\* The pairs of a leaf from a place on are its keys and values from there on.
LEMMA PairsFromIs ==
    ASSUME NEW V, NEW t, NEW h, NEW span, WellShaped(t, V, h, span), NEW x \in DOMAIN t.nodes, h[x] = 0,
           NEW from \in 1 .. Len(t.nodes[x].keys) + 1
    PROVE  LET n == t.nodes[x]
               s == PairsFrom(n, from)
           IN  /\ s \in Seq(Path \X V) /\ Len(s) = Len(n.keys) - from + 1 /\ DOMAIN s = 1 .. Len(n.keys) - from + 1
               /\ \A i \in 1 .. Len(s) : from + i - 1 \in 1 .. Len(n.keys) /\ s[i] = <<n.keys[from + i - 1], n.vals[from + i - 1]>>
               /\ \A i \in 1 .. Len(n.keys) : i >= from => <<n.keys[i], n.vals[i]>> \in ToSet(s)
<1> DEFINE n == t.nodes[x]
           s == PairsFrom(n, from)
           L == Len(n.keys)
<1>1. /\ Len(n.vals) = L
      /\ \A i \in 1 .. L : n.vals[i] \in V /\ n.keys[i] \in Path
      /\ L \in Nat
  BY LeafFacts, Facts DEF WellShaped
<1> HIDE DEF n, L
<1>2. s = [i \in 1 .. L - from + 1 |-> <<n.keys[from + i - 1], n.vals[from + i - 1]>>]
  BY <1>1 DEF PairsFrom
<1>3. from \in 1 .. L + 1 /\ L - from + 1 \in Nat /\ \A i \in 1 .. L - from + 1 : from + i - 1 \in 1 .. L
  BY <1>1 DEF L, n
<1>4. s \in Seq(Path \X V) /\ Len(s) = L - from + 1 /\ DOMAIN s = 1 .. L - from + 1
  BY <1>1, <1>2, <1>3
<1>5. \A i \in 1 .. Len(s) : from + i - 1 \in 1 .. L /\ s[i] = <<n.keys[from + i - 1], n.vals[from + i - 1]>>
  BY <1>2, <1>3, <1>4
<1>6. ASSUME NEW i \in 1 .. L, i >= from PROVE <<n.keys[i], n.vals[i]>> \in ToSet(s)
  <2>1. i - from + 1 \in 1 .. L - from + 1 /\ from + (i - from + 1) - 1 = i
    BY <1>1, <1>3, <1>6
  <2>2. s[i - from + 1] = <<n.keys[i], n.vals[i]>>
    BY <1>2, <2>1
  <2> QED BY <1>4, <2>1, <2>2 DEF ToSet
<1> QED BY <1>4, <1>5, <1>6 DEF n, L

\* A leaf and then the next ones.
LEMMA ScanJoins ==
    ASSUME NEW V, NEW t, NEW h, NEW span, WellShaped(t, V, h, span), NEW x \in DOMAIN t.nodes, h[x] = 0,
           NEW from \in 1 .. Len(t.nodes[x].keys) + 1,
           NEW there, NEW up, NEW rest,
           up \subseteq span[x] \cup Up(t, span, t.nodes[x].next), Up(t, span, t.nodes[x].next) \subseteq up,
           \A i \in 1 .. Len(t.nodes[x].keys) : t.nodes[x].keys[i] \in up <=> i >= from,
           ScanOf(t, V, there, Up(t, span, t.nodes[x].next), rest)
    PROVE  ScanOf(t, V, there, up, [pairs |-> PairsFrom(t.nodes[x], from) \o rest.pairs, ok |-> rest.ok])
<1> DEFINE n    == t.nodes[x]
           s    == PairsFrom(n, from)
           q    == rest.pairs
           r    == s \o q
           next == Up(t, span, n.next)
           PV   == Path \X V
<1>1. /\ s \in Seq(PV) /\ Len(s) = Len(n.keys) - from + 1 /\ DOMAIN s = 1 .. Len(n.keys) - from + 1
      /\ \A i \in 1 .. Len(s) : from + i - 1 \in 1 .. Len(n.keys) /\ s[i] = <<n.keys[from + i - 1], n.vals[from + i - 1]>>
      /\ \A i \in 1 .. Len(n.keys) : i >= from => <<n.keys[i], n.vals[i]>> \in ToSet(s)
  BY PairsFromIs
<1>2. /\ q \in Seq(PV) /\ rest.ok \in BOOLEAN /\ Sorted(t.cmp, q)
      /\ ToSet(q) \subseteq {kv \in Listed(t, V) : kv[1] \in next}
      /\ \A kv \in Listed(t, V), z \in ToSet(q) : kv[1] \in next /\ Before(t.cmp, kv[1], z[1]) => kv \in ToSet(q)
      /\ rest.ok => \A kv \in Listed(t, V) : kv[1] \in next => kv \in ToSet(q)
      /\ DOMAIN t.nodes \subseteq there => rest.ok
  BY DEF ScanOf
<1>3. /\ DOMAIN n.keys = 1 .. Len(n.keys) /\ Len(n.keys) \in Nat
      /\ \A i \in 1 .. Len(n.keys) : n.keys[i] \in Path
      /\ Increasing(t.cmp, n.keys)
      /\ t.cmp \in Cmps
  BY Facts DEF WellShaped
<1>4. \A i \in 1 .. Len(n.keys) : n.keys[i] \in span[x] /\ <<n.keys[i], n.vals[i]>> \in Listed(t, V)
  BY LeafFacts
<1>5. \A a \in span[x], k \in next : Before(t.cmp, a, k)
  BY UpIs
<1>6. next \subseteq up /\ up \subseteq span[x] \cup next /\ \A i \in 1 .. Len(n.keys) : n.keys[i] \in up <=> i >= from
  OBVIOUS
<1> HIDE DEF n, s, q, r, next, PV
<1>7. DOMAIN s = 1 .. Len(s) /\ DOMAIN q = 1 .. Len(q) /\ Len(s) \in Nat /\ Len(q) \in Nat /\ from \in Nat /\ from >= 1
  BY <1>1, <1>2, <1>3
<1>8. /\ r \in Seq(PV) /\ Len(r) = Len(s) + Len(q) /\ DOMAIN r = 1 .. Len(s) + Len(q)
      /\ \A i \in 1 .. Len(s) + Len(q) : r[i] = IF i <= Len(s) THEN s[i] ELSE q[i - Len(s)]
  <2>1. s \in Seq(PV) /\ q \in Seq(PV)
    BY <1>1, <1>2
  <2>2. /\ r \in Seq(PV) /\ Len(r) = Len(s) + Len(q)
        /\ \A i \in 1 .. Len(s) + Len(q) : r[i] = IF i <= Len(s) THEN s[i] ELSE q[i - Len(s)]
    BY <2>1, ConcatProperties DEF r
  <2>3. DOMAIN r = 1 .. Len(r)
    BY <2>2
  <2> QED BY <2>2, <2>3
<1>9. ToSet(r) = ToSet(s) \cup ToSet(q)
  <2>1. ASSUME NEW i \in DOMAIN r PROVE r[i] \in ToSet(s) \cup ToSet(q)
    <3>1. CASE i <= Len(s)
      <4>1. i \in DOMAIN s /\ r[i] = s[i]
        BY <1>7, <1>8, <3>1
      <4> QED BY <4>1 DEF ToSet
    <3>2. CASE i > Len(s)
      <4>1. i - Len(s) \in DOMAIN q /\ r[i] = q[i - Len(s)]
        BY <1>7, <1>8, <3>2
      <4> QED BY <4>1 DEF ToSet
    <3> QED BY <1>7, <1>8, <3>1, <3>2
  <2>2. ASSUME NEW i \in DOMAIN s PROVE s[i] \in ToSet(r)
    <3>1. i \in DOMAIN r /\ r[i] = s[i]
      BY <1>7, <1>8
    <3> QED BY <3>1 DEF ToSet
  <2>3. ASSUME NEW i \in DOMAIN q PROVE q[i] \in ToSet(r)
    <3>1. i + Len(s) \in DOMAIN r /\ (i + Len(s)) - Len(s) = i /\ ~ (i + Len(s) <= Len(s))
      BY <1>7, <1>8
    <3>2. r[i + Len(s)] = q[i]
      BY <1>8, <3>1
    <3> QED BY <3>1, <3>2 DEF ToSet
  <2>4. ToSet(r) \subseteq ToSet(s) \cup ToSet(q)
    BY <2>1 DEF ToSet
  <2>5. ToSet(s) \subseteq ToSet(r) /\ ToSet(q) \subseteq ToSet(r)
    BY <2>2, <2>3 DEF ToSet
  <2> QED BY <2>4, <2>5
<1>10. \A kv \in ToSet(s) : kv \in Listed(t, V) /\ kv[1] \in up /\ kv[1] \in span[x]
  <2> SUFFICES ASSUME NEW i \in 1 .. Len(s) PROVE s[i] \in Listed(t, V) /\ s[i][1] \in up /\ s[i][1] \in span[x]
    BY <1>7 DEF ToSet
  <2>1. from + i - 1 \in 1 .. Len(n.keys) /\ s[i] = <<n.keys[from + i - 1], n.vals[from + i - 1]>> /\ from + i - 1 >= from
    BY <1>1, <1>7
  <2> QED BY <1>4, <1>6, <2>1
<1>11. Sorted(t.cmp, r)
  <2> SUFFICES ASSUME NEW i \in 1 .. Len(s) + Len(q), NEW j \in 1 .. Len(s) + Len(q), i < j
               PROVE  Before(t.cmp, r[i][1], r[j][1])
    BY <1>8 DEF Sorted
  <2>1. CASE j <= Len(s)
    <3>1. i \in 1 .. Len(s) /\ j \in 1 .. Len(s) /\ r[i] = s[i] /\ r[j] = s[j]
      BY <1>7, <1>8, <2>1
    <3>2. /\ from + i - 1 \in 1 .. Len(n.keys) /\ s[i][1] = n.keys[from + i - 1]
          /\ from + j - 1 \in 1 .. Len(n.keys) /\ s[j][1] = n.keys[from + j - 1]
          /\ from + i - 1 < from + j - 1
      BY <1>1, <1>7, <3>1
    <3>3. Before(t.cmp, n.keys[from + i - 1], n.keys[from + j - 1])
      BY <1>3, <3>2 DEF Increasing
    <3> QED BY <3>1, <3>2, <3>3
  <2>2. CASE i <= Len(s) /\ j > Len(s)
    <3>1. i \in DOMAIN s /\ j - Len(s) \in DOMAIN q /\ r[i] = s[i] /\ r[j] = q[j - Len(s)]
      BY <1>7, <1>8, <2>2
    <3>2. r[i] \in ToSet(s) /\ r[j] \in ToSet(q)
      BY <3>1 DEF ToSet
    <3>3. r[i][1] \in span[x] /\ r[j][1] \in next
      BY <1>2, <1>10, <3>2
    <3> QED BY <1>5, <3>3
  <2>3. CASE i > Len(s)
    <3>1. /\ i - Len(s) \in DOMAIN q /\ j - Len(s) \in DOMAIN q /\ i - Len(s) < j - Len(s)
          /\ r[i] = q[i - Len(s)] /\ r[j] = q[j - Len(s)]
      BY <1>7, <1>8, <2>3
    <3> QED BY <1>2, <3>1 DEF Sorted
  <2> QED BY <1>7, <2>1, <2>2, <2>3
<1>12. ASSUME NEW kv \in Listed(t, V), kv[1] \in up
       PROVE  kv \in ToSet(s) \/ kv[1] \in next
  <2> SUFFICES ASSUME kv[1] \in span[x] PROVE kv \in ToSet(s)
    BY <1>6, <1>12
  <2>1. PICK i \in 1 .. Len(n.keys) : kv = <<n.keys[i], n.vals[i]>>
    BY ListedAt DEF n
  <2>2. i >= from
    BY <1>6, <1>12, <2>1
  <2> QED BY <1>1, <2>1, <2>2
<1>13. ToSet(r) \subseteq {kv \in Listed(t, V) : kv[1] \in up}
  BY <1>2, <1>6, <1>9, <1>10
<1>14. ASSUME NEW kv \in Listed(t, V), NEW z \in ToSet(r), kv[1] \in up, Before(t.cmp, kv[1], z[1])
       PROVE  kv \in ToSet(r)
  <2> SUFFICES ASSUME kv[1] \in next PROVE kv \in ToSet(r)
    BY <1>9, <1>12, <1>14
  <2>1. z \in ToSet(q)
    <3> SUFFICES ASSUME z \in ToSet(s) PROVE FALSE
      BY <1>9
    <3>1. z[1] \in span[x] /\ z \in Listed(t, V)
      BY <1>10
    <3>2. Before(t.cmp, z[1], kv[1])
      BY <1>5, <3>1
    <3>3. z[1] \in Path /\ kv[1] \in Path
      BY <3>1, ListedAt
    <3> QED BY <1>3, <1>14, <3>2, <3>3, Ordered
  <2> QED BY <1>2, <1>9, <1>14, <2>1
<1>15. rest.ok => \A kv \in Listed(t, V) : kv[1] \in up => kv \in ToSet(r)
  BY <1>2, <1>9, <1>12
<1> DEFINE res == [pairs |-> r, ok |-> rest.ok]
<1>16. res.pairs = r /\ res.ok = rest.ok
  OBVIOUS
<1> HIDE DEF res
<1>17. ScanOf(t, V, there, up, res)
  BY <1>2, <1>8, <1>11, <1>13, <1>14, <1>15, <1>16 DEF ScanOf, PV
<1> QED BY <1>17 DEF res, r, s, q, n

\* There are ever fewer leaves to come.
LEMMA LeavesToCome ==
    ASSUME NEW V, NEW t, NEW h, NEW span, WellShaped(t, V, h, span)
    PROVE  \E m \in [{0} \cup DOMAIN t.nodes -> Nat] :
              \A x \in DOMAIN t.nodes : m[t.nodes[x].next] < m[x] /\ t.nodes[x].next \in {0} \cup DOMAIN t.nodes
<1> DEFINE D == DOMAIN t.nodes
           to(x) == {z \in D : h[z] = 0 /\ span[z] \subseteq Up(t, span, x)}
           m == [x \in {0} \cup D |-> IF x = 0 THEN 0 ELSE IF h[x] = 0 THEN Cardinality(to(x)) ELSE 1]
<1>1. D = 1 .. Len(t.nodes) /\ Len(t.nodes) \in Nat /\ IsFiniteSet(D) /\ 0 \notin D
  <2>1. D = 1 .. Len(t.nodes) /\ Len(t.nodes) \in Nat
    BY TreeFacts DEF Tree
  <2> QED BY <2>1, FS_Interval
<1>2. \A x : IsFiniteSet(to(x)) /\ Cardinality(to(x)) \in Nat
  <2> SUFFICES ASSUME NEW x PROVE IsFiniteSet(to(x)) /\ Cardinality(to(x)) \in Nat
    OBVIOUS
  <2>1. to(x) \subseteq D
    OBVIOUS
  <2> HIDE DEF to, D
  <2> QED BY <1>1, <2>1, FS_Subset, FS_CardinalityType
<1>3. m \in [{0} \cup D -> Nat] /\ m[0] = 0
  <2> HIDE DEF to, D
  <2> QED BY <1>2
<1>4. ASSUME NEW x \in D, h[x] = 0
      PROVE  Cardinality(to(x)) > 0 /\ \A y \in D : y = t.nodes[x].next => Cardinality(to(y)) < Cardinality(to(x))
  <2>1. x \in to(x)
    BY <1>4, UpIs
  <2>2. to(x) # {} /\ Cardinality(to(x)) > 0
    <3> HIDE DEF to, D
    <3>1. Cardinality(to(x)) # 0
      BY <1>2, <2>1, FS_EmptySet
    <3> QED BY <1>2, <2>1, <3>1
  <2>3. ASSUME NEW y \in D, y = t.nodes[x].next PROVE Cardinality(to(y)) < Cardinality(to(x))
    <3>1. Up(t, span, y) \subseteq Up(t, span, x) /\ \A a \in span[x], k \in Up(t, span, y) : Before(t.cmp, a, k)
      BY <1>4, <2>3, UpIs
    <3>2. span[x] # {} /\ span[x] \subseteq Path /\ t.cmp \in Cmps
      BY TreeFacts
    <3>3. ~ (span[x] \subseteq Up(t, span, y))
      BY <3>1, <3>2, Ordered
    <3>4. to(y) \subseteq to(x) /\ x \notin to(y)
      BY <3>1, <3>3
    <3> HIDE DEF to, D
    <3>5. to(y) # to(x)
      BY <2>1, <3>4
    <3>6. Cardinality(to(y)) <= Cardinality(to(x)) /\ Cardinality(to(y)) # Cardinality(to(x))
      BY <1>2, <3>4, <3>5, FS_Subset
    <3> QED BY <1>2, <3>6
  <2> QED BY <2>2, <2>3
<1>5. ASSUME NEW x \in D PROVE m[t.nodes[x].next] < m[x] /\ t.nodes[x].next \in {0} \cup D
  <2>1. CASE h[x] = 0
    <3>1. t.nodes[x].next = 0 \/ (t.nodes[x].next \in D /\ h[t.nodes[x].next] = 0)
      BY <2>1, UpIs
    <3> HIDE DEF to
    <3>2. m[x] = Cardinality(to(x))
      BY <1>1, <2>1
    <3>3. CASE t.nodes[x].next = 0
      BY <1>3, <1>4, <2>1, <3>2, <3>3
    <3>4. CASE t.nodes[x].next \in D /\ h[t.nodes[x].next] = 0
      <4>1. m[t.nodes[x].next] = Cardinality(to(t.nodes[x].next))
        BY <1>1, <3>4
      <4> QED BY <1>4, <2>1, <3>2, <3>4, <4>1
    <3> QED BY <3>1, <3>3, <3>4
  <2>2. CASE h[x] # 0
    <3>1. NodeShaped(t, h, span, span, 0, x)
      BY Facts DEF WellShaped
    <3>2. t.nodes[x].next = 0
      BY <2>2, <3>1 DEF NodeShaped, InnerShaped
    <3>3. m[x] = 1
      BY <1>1, <2>2
    <3> QED BY <1>3, <3>2, <3>3
  <2> QED BY <2>1, <2>2
<1> QED BY <1>3, <1>5

Joined(n, from, rest) == [pairs |-> PairsFrom(n, from) \o rest.pairs, ok |-> rest.ok]
NoPairs(ok) == [pairs |-> <<>>, ok |-> ok]

\* The forward iterator, step by step: the pairs of a leaf, then those from the
\* next one on; an unreadable leaf ends it with an error.
LEMMA ScansAre ==
    ASSUME NEW V, NEW t, NEW h, NEW span, WellShaped(t, V, h, span), NEW there
    PROVE  /\ Scans(t, there)[0] = NoPairs(TRUE)
           /\ \A p \in DOMAIN t.nodes : p \notin there => Scans(t, there)[p] = NoPairs(FALSE)
           /\ \A p \in DOMAIN t.nodes : p \in there => Scans(t, there)[p] = Joined(t.nodes[p], 1, Scans(t, there)[t.nodes[p].next])
<1> DEFINE D == {0} \cup DOMAIN t.nodes
           PV == Path \X V
           W == [pairs : Seq(PV), ok : BOOLEAN]
           is(p, f) == IF p = 0 THEN NoPairs(TRUE)
                       ELSE IF p \notin there THEN NoPairs(FALSE)
                       ELSE Joined(t.nodes[p], 1, f[t.nodes[p].next])
           step == [p \in D |-> [f \in [D -> W] |-> is(p, f)]]
<1>1. PICK m \in [D -> Nat] : \A x \in DOMAIN t.nodes : m[t.nodes[x].next] < m[x] /\ t.nodes[x].next \in D
  BY LeavesToCome
<1>2. 0 \notin DOMAIN t.nodes
  BY TreeFacts DEF Tree
<1>3. \A p \in DOMAIN t.nodes : PairsFrom(t.nodes[p], 1) \in Seq(PV)
  <2> SUFFICES ASSUME NEW p \in DOMAIN t.nodes PROVE PairsFrom(t.nodes[p], 1) \in Seq(PV)
    OBVIOUS
  <2>1. Len(t.nodes[p].keys) \in Nat /\ NodeShaped(t, h, span, span, 0, p)
    BY Facts DEF WellShaped
  <2>2. CASE h[p] = 0
    <3>1. 1 \in 1 .. Len(t.nodes[p].keys) + 1
      BY <2>1
    <3> QED BY <2>2, <3>1, PairsFromIs
  <2>3. CASE h[p] # 0
    <3>1. t.nodes[p].vals = <<>>
      BY <2>1, <2>3 DEF NodeShaped, InnerShaped
    <3>2. PairsFrom(t.nodes[p], 1) = <<>>
      BY <3>1 DEF PairsFrom
    <3>3. <<>> \in Seq(PV)
      <4> HIDE DEF PV
      <4> QED OBVIOUS
    <3> QED BY <3>2, <3>3
  <2> QED BY <2>2, <2>3
<1>4. Recursive(D, W, m, step)
  <2>1. NoPairs(TRUE) \in W /\ NoPairs(FALSE) \in W
    <3>1. <<>> \in Seq(PV)
      <4> HIDE DEF PV
      <4> QED OBVIOUS
    <3> HIDE DEF PV
    <3> QED BY <3>1 DEF NoPairs
  <2>2. step \in [D -> [[D -> W] -> W]]
    <3> SUFFICES ASSUME NEW p \in D, NEW f \in [D -> W] PROVE is(p, f) \in W
      OBVIOUS
    <3>1. CASE p = 0 \/ p \notin there
      <4> HIDE DEF W
      <4> QED BY <2>1, <3>1
    <3>2. CASE p # 0 /\ p \in there
      <4>1. p \in DOMAIN t.nodes
        BY <3>2
      <4>2. f[t.nodes[p].next] \in W
        BY <1>1, <4>1
      <4>3. f[t.nodes[p].next].pairs \in Seq(PV) /\ f[t.nodes[p].next].ok \in BOOLEAN
        BY <4>2
      <4>4. PairsFrom(t.nodes[p], 1) \o f[t.nodes[p].next].pairs \in Seq(PV)
        BY <1>3, <4>1, <4>3, ConcatProperties
      <4> HIDE DEF PV
      <4> QED BY <3>2, <4>3, <4>4 DEF Joined
    <3> QED BY <3>1, <3>2
  <2>3. ASSUME NEW p \in D, NEW f \in [D -> W], NEW g \in [D -> W], \A y \in D : m[y] < m[p] => f[y] = g[y]
        PROVE  step[p][f] = step[p][g]
    <3>1. CASE p = 0
      BY <3>1
    <3>2. CASE p # 0
      <4>1. f[t.nodes[p].next] = g[t.nodes[p].next]
        BY <1>1, <2>3, <3>2
      <4> HIDE DEF W
      <4> QED BY <3>2, <4>1
    <3> QED BY <3>1, <3>2
  <2> HIDE DEF D, W, step
  <2> QED BY <2>1, <2>2, <2>3 DEF Recursive
<1>5. PICK f \in [D -> W] : \A p \in D : f[p] = step[p][f]
  <2> HIDE DEF D, W, step
  <2> QED BY <1>4, RecursiveFunction
<1> DEFINE body(p, g) == CASE p = 0 -> [pairs |-> <<>>, ok |-> TRUE]
                           [] p # 0 /\ p \notin there -> [pairs |-> <<>>, ok |-> FALSE]
                           [] p # 0 /\ p \in there ->
                                [pairs |-> PairsFrom(t.nodes[p], 1) \o g[t.nodes[p].next].pairs,
                                 ok    |-> g[t.nodes[p].next].ok]
<1>6. \A p, g : body(p, g) = is(p, g)
  BY DEF NoPairs, Joined
<1>7. f = [p \in D |-> body(p, f)]
  <2>1. \A p \in D : f[p] = is(p, f)
    BY <1>5
  <2> HIDE DEF D, is, body
  <2> QED BY <1>6, <2>1
<1> DEFINE run == CHOOSE g : g = [p \in D |-> body(p, g)]
<1>8. run = [p \in D |-> body(p, run)]
  <2> HIDE DEF D, body
  <2> QED BY <1>7
<1>9. Scans(t, there) = run
  BY DEF Scans
<1> HIDE DEF run
<1>10. \A p \in D : run[p] = is(p, run)
  <2> HIDE DEF body, is
  <2> QED BY <1>6, <1>8
<1> QED BY <1>2, <1>9, <1>10

\* The forward iterator from a leaf returns, in order, the pairs from there to the
\* end, or a part of them without a gap and an error.
LEMMA ScansFind ==
    ASSUME NEW V, NEW t, NEW h, NEW span, WellShaped(t, V, h, span), NEW there
    PROVE  /\ ScanOf(t, V, there, {}, Scans(t, there)[0])
           /\ \A x \in DOMAIN t.nodes : h[x] = 0 => ScanOf(t, V, there, Up(t, span, x), Scans(t, there)[x])
<1> DEFINE D == {0} \cup DOMAIN t.nodes
           S == {x \in D : x = 0 \/ h[x] = 0 => ScanOf(t, V, there, Up(t, span, x), Scans(t, there)[x])}
<1>1. PICK m \in [D -> Nat] : \A x \in DOMAIN t.nodes : m[t.nodes[x].next] < m[x] /\ t.nodes[x].next \in D
  BY LeavesToCome
<1>2. ScanOf(t, V, there, Up(t, span, 0), Scans(t, there)[0])
  <2>1. Up(t, span, 0) = {}
    BY DEF Up
  <2>2. Scans(t, there)[0] = [pairs |-> <<>>, ok |-> TRUE]
    BY ScansAre DEF NoPairs
  <2> QED BY <2>1, <2>2, ScanOfNothing
<1>3. ASSUME NEW x \in D, \A y \in D : m[y] < m[x] => y \in S
      PROVE  x \in S
  <2> SUFFICES ASSUME x # 0, h[x] = 0 PROVE ScanOf(t, V, there, Up(t, span, x), Scans(t, there)[x])
    BY <1>2
  <2> DEFINE n == t.nodes[x]
  <2>1. x \in DOMAIN t.nodes
    OBVIOUS
  <2>2. /\ n.next = 0 \/ (n.next \in DOMAIN t.nodes /\ h[n.next] = 0)
        /\ Up(t, span, x) = span[x] \cup Up(t, span, n.next)
    BY <2>1, UpIs
  <2>3. ScanOf(t, V, there, Up(t, span, n.next), Scans(t, there)[n.next])
    BY <1>1, <1>3, <2>1, <2>2
  <2>4. CASE x \notin there
    <3>1. Scans(t, there)[x] = [pairs |-> <<>>, ok |-> FALSE]
      BY <2>1, <2>4, ScansAre DEF NoPairs
    <3>2. ~ (DOMAIN t.nodes \subseteq there)
      BY <2>1, <2>4
    <3> QED BY <3>1, <3>2, ScanOfNothing
  <2>5. CASE x \in there
    <3> DEFINE rest == Scans(t, there)[n.next]
    <3>1. Scans(t, there)[x] = [pairs |-> PairsFrom(n, 1) \o rest.pairs, ok |-> rest.ok]
      <4> HIDE DEF n, rest
      <4>1. Scans(t, there)[x] = Joined(n, 1, rest)
        BY <2>1, <2>5, ScansAre DEF n, rest
      <4> QED BY <4>1 DEF Joined
    <3>2. Len(n.keys) \in Nat /\ 1 \in 1 .. Len(n.keys) + 1
      BY <2>1, Facts DEF WellShaped
    <3>3. \A i \in 1 .. Len(n.keys) : n.keys[i] \in Up(t, span, x) <=> i >= 1
      <4>1. \A i \in 1 .. Len(n.keys) : n.keys[i] \in span[x]
        BY <2>1, LeafFacts
      <4> QED BY <2>2, <3>2, <4>1
    <3> HIDE DEF rest, S, D
    <3>4. ScanOf(t, V, there, Up(t, span, x), [pairs |-> PairsFrom(t.nodes[x], 1) \o rest.pairs, ok |-> rest.ok])
      BY <2>1, <2>2, <2>3, <3>2, <3>3, ScanJoins DEF rest
    <3> QED BY <3>1, <3>4
  <2> QED BY <2>4, <2>5
<1>4. D \subseteq S
  <2> HIDE DEF S, D
  <2> QED BY <1>3, MeasureInduction
<1>5. \A x \in DOMAIN t.nodes : h[x] = 0 => ScanOf(t, V, there, Up(t, span, x), Scans(t, there)[x])
  BY <1>4
<1>6. ScanOf(t, V, there, {}, Scans(t, there)[0])
  BY <1>2 DEF Up
<1> QED BY <1>5, <1>6

-----------------------------------------------------------------------------
\* ScanAll goes down by the first pointer of each node.
LEMMA LeftmostsAre ==
    ASSUME NEW V, NEW t, NEW h, NEW span, WellShaped(t, V, h, span)
    PROVE  \A p \in DOMAIN t.nodes :
              Leftmosts(t)[p] = IF IsLeaf(t.nodes[p]) THEN p ELSE Leftmosts(t)[t.nodes[p].ptrs[1]]
<1> DEFINE D == DOMAIN t.nodes
           step == [p \in D |-> [f \in [D -> D] |-> IF IsLeaf(t.nodes[p]) THEN p ELSE f[t.nodes[p].ptrs[1]]]]
<1>1. h \in [D -> Nat] /\ t.root \in D /\ \A p \in D : IsLeaf(t.nodes[p]) <=> h[p] = 0
  BY TreeFacts
<1>2. ASSUME NEW p \in D, ~IsLeaf(t.nodes[p]) PROVE t.nodes[p].ptrs[1] \in D /\ h[t.nodes[p].ptrs[1]] < h[p]
  <2>1. h[p] # 0 /\ Len(t.nodes[p].keys) \in Nat
    BY <1>1, <1>2, Facts DEF WellShaped
  <2>2. 1 \in 1 .. Len(t.nodes[p].ptrs)
    BY <2>1, ChildFacts
  <2> QED BY <2>1, <2>2, ChildFacts
<1>3. Recursive(D, D, h, step)
  <2>1. step \in [D -> [[D -> D] -> D]]
    <3> HIDE DEF D
    <3> QED BY <1>2
  <2>2. ASSUME NEW p \in D, NEW f \in [D -> D], NEW g \in [D -> D], \A y \in D : h[y] < h[p] => f[y] = g[y]
        PROVE  step[p][f] = step[p][g]
    <3> HIDE DEF D
    <3> QED BY <1>2, <2>2
  <2> HIDE DEF D, step
  <2> QED BY <1>1, <2>1, <2>2 DEF Recursive
<1>4. PICK f \in [D -> D] : \A p \in D : f[p] = step[p][f]
  <2> HIDE DEF D, step
  <2> QED BY <1>3, RecursiveFunction
<1>5. f = [p \in D |-> IF IsLeaf(t.nodes[p]) THEN p ELSE f[t.nodes[p].ptrs[1]]]
  <2>1. \A p \in D : f[p] = IF IsLeaf(t.nodes[p]) THEN p ELSE f[t.nodes[p].ptrs[1]]
    BY <1>4
  <2> HIDE DEF D
  <2> QED BY <2>1
<1> DEFINE leaf == CHOOSE g : g = [p \in D |-> IF IsLeaf(t.nodes[p]) THEN p ELSE g[t.nodes[p].ptrs[1]]]
<1>6. leaf = [p \in D |-> IF IsLeaf(t.nodes[p]) THEN p ELSE leaf[t.nodes[p].ptrs[1]]]
  <2> HIDE DEF D
  <2> QED BY <1>5
<1>7. Leftmosts(t) = leaf
  BY DEF Leftmosts
<1> HIDE DEF leaf
<1> QED BY <1>6, <1>7

\* The leaf ScanAll starts from has no key before it: the iteration misses nothing
\* on the left.
LEMMA LeftmostIsFirst ==
    ASSUME NEW V, NEW t, NEW h, NEW span, WellShaped(t, V, h, span)
    PROVE  \A x \in DOMAIN t.nodes :
              LET z == Leftmosts(t)[x]
              IN  z \in DOMAIN t.nodes /\ h[z] = 0 /\ span[z] \subseteq span[x] /\ span[x] \subseteq Up(t, span, z)
<1> DEFINE D == DOMAIN t.nodes
           Good(x) == LET z == Leftmosts(t)[x]
                      IN  z \in D /\ h[z] = 0 /\ span[z] \subseteq span[x] /\ span[x] \subseteq Up(t, span, z)
           S == {x \in D : Good(x)}
<1>1. h \in [D -> Nat] /\ t.cmp \in Cmps /\ \A p \in D : IsLeaf(t.nodes[p]) <=> h[p] = 0
  BY TreeFacts
<1>2. ASSUME NEW x \in D, \A y \in D : h[y] < h[x] => y \in S PROVE Good(x)
  <2>1. CASE h[x] = 0
    <3>1. Leftmosts(t)[x] = x
      BY <1>1, <2>1, LeftmostsAre
    <3>2. span[x] \subseteq Up(t, span, x)
      BY <2>1, UpIs
    <3> QED BY <2>1, <3>1, <3>2
  <2>2. CASE h[x] # 0
    <3> DEFINE n == t.nodes[x]
               c == n.ptrs[1]
               z == Leftmosts(t)[c]
    <3>1. Leftmosts(t)[x] = z
      BY <1>1, <2>2, LeftmostsAre
    <3>2. Len(n.keys) \in Nat /\ n.keys \in Seq(Path) /\ Increasing(t.cmp, n.keys)
      BY Facts DEF WellShaped
    <3>3. Len(n.ptrs) = Len(n.keys) + 1 /\ 1 \in 1 .. Len(n.ptrs)
      BY <2>2, <3>2, ChildFacts
    <3>4. c \in D /\ h[c] < h[x] /\ span[c] = span[x] \cap Slot(t.cmp, n.keys, 1)
      BY <2>2, <3>3, ChildFacts
    <3>5. z \in D /\ h[z] = 0 /\ span[z] \subseteq span[c] /\ span[c] \subseteq Up(t, span, z)
      BY <1>2, <3>4
    <3>6. span[z] # {} /\ span[x] \subseteq Path /\ z # 0
      BY <3>5, TreeFacts DEF Tree
    <3> HIDE DEF c, z, n
    <3>7. ASSUME NEW k \in span[x] PROVE k \in Up(t, span, z)
      <4>1. PICK j \in 1 .. Len(n.ptrs) : k \in Slot(t.cmp, n.keys, j)
        BY <2>2, <3>6, ChildFacts DEF n
      <4>2. CASE j = 1
        BY <3>4, <3>5, <4>1, <4>2
      <4>3. CASE j # 1
        <5>1. PICK a \in span[z] : a \in Slot(t.cmp, n.keys, 1)
          BY <3>4, <3>5, <3>6
        <5>2. 1 \in 1 .. Len(n.keys) + 1 /\ j \in 1 .. Len(n.keys) + 1 /\ 1 < j
          BY <3>3, <4>3
        <5>3. Before(t.cmp, a, k)
          BY <1>1, <3>2, <4>1, <5>1, <5>2, SlotsAreOrdered
        <5>4. k \in Path /\ a \in Path /\ ~Before(t.cmp, k, a)
          BY <1>1, <3>4, <3>5, <3>6, <5>3, Ordered
        <5> QED BY <3>6, <5>4 DEF Up
      <4> QED BY <4>2, <4>3
    <3> QED BY <3>1, <3>4, <3>5, <3>7
  <2> QED BY <2>1, <2>2
<1>3. \A x \in D : (\A y \in D : h[y] < h[x] => y \in S) => x \in S
  BY <1>2
<1>4. D \subseteq S
  <2> HIDE DEF S, D
  <2> QED BY <1>1, <1>3, MeasureInduction
<1> QED BY <1>4

\* The scan of all, and what a tree lists.
LEMMA ScanAllIs ==
    ASSUME NEW V, NEW t, NEW h, NEW span, WellShaped(t, V, h, span), NEW there
    PROVE  ScanOf(t, V, there, Path, ScanAll(t, there))
<1> DEFINE z == Leftmosts(t)[t.root]
<1>1. t.root \in DOMAIN t.nodes /\ span[t.root] = Path
  BY TreeFacts
<1>2. z \in DOMAIN t.nodes /\ h[z] = 0 /\ Path \subseteq Up(t, span, z)
  BY <1>1, LeftmostIsFirst
<1>3. Up(t, span, z) = Path
  BY <1>2 DEF Up
<1> HIDE DEF z
<1>4. ScanOf(t, V, there, Path, Scans(t, there)[z])
  BY <1>2, <1>3, ScansFind
<1> QED BY <1>4 DEF ScanAll, z

\* ScanAll returns exactly the pairs of the tree, by increasing keys, and no error
\* when all nodes can be read.
THEOREM PairsAre ==
    ASSUME NEW V, NEW t, IsTree(t, V)
    PROVE  /\ Pairs(t) \in Seq(Path \X V) /\ Sorted(t.cmp, Pairs(t)) /\ ToSet(Pairs(t)) = Listed(t, V)
           /\ ScanAll(t, DOMAIN t.nodes).ok
<1>1. PICK h, span : WellShaped(t, V, h, span)
  BY DEF IsTree
<1>2. ScanOf(t, V, DOMAIN t.nodes, Path, ScanAll(t, DOMAIN t.nodes))
  BY <1>1, ScanAllIs
<1>3. \A kv \in Listed(t, V) : kv[1] \in Path
  BY DEF Listed
<1> QED BY <1>2, <1>3 DEF ScanOf, Pairs

\* A scan from a key.
LEMMA ScanFromIs ==
    ASSUME NEW V, NEW t, IsTree(t, V), NEW there, NEW k \in Path
    PROVE  ScanOf(t, V, there, {l \in Path : ~Before(t.cmp, l, k)}, ScanFrom(t, there, k))
<1>1. PICK h, span : WellShaped(t, V, h, span)
  BY DEF IsTree
<1> DEFINE x    == LeafOf(t, k)
           n    == t.nodes[x]
           from == Smaller(t.cmp, n, k) + 1
           up   == {l \in Path : ~Before(t.cmp, l, k)}
           rest == Scans(t, there)[n.next]
<1>2. x \in DOMAIN t.nodes /\ h[x] = 0 /\ k \in span[x] /\ PathTo(t, k) \in Seq(DOMAIN t.nodes)
  BY <1>1, FindIs
<1>3. /\ t.cmp \in Cmps /\ n.keys \in Seq(Path) /\ Increasing(t.cmp, n.keys) /\ Len(n.keys) \in Nat
      /\ \A i \in 1 .. Len(n.keys) : n.keys[i] \in Path
  BY <1>1, <1>2, Facts DEF WellShaped
<1>4. /\ n.next = 0 \/ (n.next \in DOMAIN t.nodes /\ h[n.next] = 0)
      /\ Up(t, span, x) = span[x] \cup Up(t, span, n.next)
      /\ \A a \in span[x], l \in Up(t, span, n.next) : Before(t.cmp, a, l)
  BY <1>1, <1>2, UpIs
<1>5. from \in 1 .. Len(n.keys) + 1 /\ \A i \in 1 .. Len(n.keys) : n.keys[i] \in up <=> i >= from
  <2>1. /\ Smaller(t.cmp, n, k) \in 0 .. Len(n.keys)
        /\ \A i \in 1 .. Len(n.keys) : Before(t.cmp, n.keys[i], k) <=> i <= Smaller(t.cmp, n, k)
    <3> HIDE DEF n
    <3> QED BY <1>3, SmallerIs
  <2> QED BY <1>3, <2>1
<1>6. ScanOf(t, V, there, Up(t, span, n.next), rest)
  <2>1. CASE n.next = 0
    BY <1>1, <2>1, ScansFind DEF Up
  <2>2. CASE n.next # 0
    BY <1>1, <1>4, <2>2, ScansFind
  <2> QED BY <2>1, <2>2
<1>7. up \subseteq span[x] \cup Up(t, span, n.next)
  <2>1. x # 0
    BY <1>1, <1>2, TreeFacts DEF Tree
  <2> QED BY <1>2, <1>4, <2>1 DEF Up
<1>8. Up(t, span, n.next) \subseteq up
  <2> SUFFICES ASSUME NEW l \in Up(t, span, n.next) PROVE l \in Path /\ ~Before(t.cmp, l, k)
    OBVIOUS
  <2>1. l \in Path /\ Before(t.cmp, k, l)
    BY <1>2, <1>4 DEF Up
  <2> QED BY <1>3, <2>1, Ordered
<1>9. ScanOf(t, V, there, up, [pairs |-> PairsFrom(n, from) \o rest.pairs, ok |-> rest.ok])
  <2> HIDE DEF x, up, from, rest
  <2> QED BY <1>1, <1>2, <1>5, <1>6, <1>7, <1>8, ScanJoins
<1>10. ScanFrom(t, there, k) = IF ~(Range(PathTo(t, k)) \subseteq there) THEN [pairs |-> <<>>, ok |-> FALSE]
                               ELSE [pairs |-> PairsFrom(n, from) \o rest.pairs, ok |-> rest.ok]
  BY DEF ScanFrom, LeafOf
<1>11. Range(PathTo(t, k)) \subseteq DOMAIN t.nodes
  BY <1>2 DEF Range
<1>12. CASE ~(Range(PathTo(t, k)) \subseteq there)
  <2>1. ~(DOMAIN t.nodes \subseteq there)
    BY <1>11, <1>12
  <2>2. ScanOf(t, V, there, up, [pairs |-> <<>>, ok |-> FALSE])
    <3> HIDE DEF up
    <3> QED BY <2>1, ScanOfNothing
  <2> QED BY <1>10, <1>12, <2>2
<1>13. CASE Range(PathTo(t, k)) \subseteq there
  BY <1>9, <1>10, <1>13
<1> QED BY <1>12, <1>13

-----------------------------------------------------------------------------
\* The nodes from the right to the left.

\* persist, step by step: the children of a node from the right to the left, then
\* the node.
LEMMA RightToLeftsAre ==
    ASSUME NEW V, NEW t, NEW h, NEW span, WellShaped(t, V, h, span)
    PROVE  \A p \in DOMAIN t.nodes :
              LET ptrs == t.nodes[p].ptrs
                  ss   == [i \in DOMAIN ptrs |-> RightToLefts(t)[ptrs[Len(ptrs) + 1 - i]]]
              IN  /\ ss \in Seq(Seq(DOMAIN t.nodes)) /\ Len(ss) = Len(ptrs)
                  /\ RightToLefts(t)[p] = FlattenSeq(ss) \o <<p>>
<1> DEFINE D == DOMAIN t.nodes
           W == Seq(D)
           ptrs(p) == t.nodes[p].ptrs
           below(p, f) == [i \in DOMAIN ptrs(p) |-> f[ptrs(p)[Len(ptrs(p)) + 1 - i]]]
           step == [p \in D |-> [f \in [D -> W] |-> FlattenSeq(below(p, f)) \o <<p>>]]
<1>1. h \in [D -> Nat] /\ \A p \in D : IsLeaf(t.nodes[p]) <=> h[p] = 0
  BY TreeFacts
<1>2. ASSUME NEW p \in D
      PROVE  /\ DOMAIN ptrs(p) = 1 .. Len(ptrs(p)) /\ Len(ptrs(p)) \in Nat
             /\ \A i \in DOMAIN ptrs(p) : /\ Len(ptrs(p)) + 1 - i \in DOMAIN ptrs(p)
                                          /\ ptrs(p)[Len(ptrs(p)) + 1 - i] \in D /\ h[ptrs(p)[Len(ptrs(p)) + 1 - i]] < h[p]
  <2>1. ptrs(p) \in Seq(Nat)
    BY Facts DEF WellShaped
  <2>2. DOMAIN ptrs(p) = 1 .. Len(ptrs(p)) /\ Len(ptrs(p)) \in Nat
    BY <2>1
  <2>3. CASE h[p] = 0
    <3>1. ptrs(p) = <<>>
      BY <1>1, <2>3 DEF IsLeaf
    <3> QED BY <2>2, <3>1
  <2>4. CASE h[p] # 0
    <3> SUFFICES ASSUME NEW i \in 1 .. Len(ptrs(p))
                 PROVE  /\ Len(ptrs(p)) + 1 - i \in 1 .. Len(ptrs(p))
                        /\ ptrs(p)[Len(ptrs(p)) + 1 - i] \in D /\ h[ptrs(p)[Len(ptrs(p)) + 1 - i]] < h[p]
      BY <2>2
    <3>1. Len(ptrs(p)) + 1 - i \in 1 .. Len(ptrs(p))
      BY <2>2
    <3> QED BY <2>4, <3>1, ChildFacts
  <2> QED BY <2>3, <2>4
<1>3. ASSUME NEW p \in D, NEW f \in [D -> W] PROVE below(p, f) \in Seq(W) /\ Len(below(p, f)) = Len(ptrs(p))
  <2>1. \A i \in 1 .. Len(ptrs(p)) : f[ptrs(p)[Len(ptrs(p)) + 1 - i]] \in W
    BY <1>2
  <2>2. below(p, f) = [i \in 1 .. Len(ptrs(p)) |-> f[ptrs(p)[Len(ptrs(p)) + 1 - i]]]
    BY <1>2
  <2>3. Len(ptrs(p)) \in Nat
    BY <1>2
  <2> HIDE DEF W, D, ptrs, below
  <2> QED BY <2>1, <2>2, <2>3
<1>4. Recursive(D, W, h, step)
  <2>1. step \in [D -> [[D -> W] -> W]]
    <3> SUFFICES ASSUME NEW p \in D, NEW f \in [D -> W] PROVE FlattenSeq(below(p, f)) \o <<p>> \in W
      OBVIOUS
    <3>1. FlattenSeq(below(p, f)) \in W
      BY <1>3, FlattenSeqIs
    <3>2. <<p>> \in W
      <4> HIDE DEF D
      <4> QED OBVIOUS
    <3> HIDE DEF below
    <3> QED BY <3>1, <3>2, ConcatProperties
  <2>2. ASSUME NEW p \in D, NEW f \in [D -> W], NEW g \in [D -> W], \A y \in D : h[y] < h[p] => f[y] = g[y]
        PROVE  step[p][f] = step[p][g]
    <3>1. \A i \in DOMAIN ptrs(p) : f[ptrs(p)[Len(ptrs(p)) + 1 - i]] = g[ptrs(p)[Len(ptrs(p)) + 1 - i]]
      BY <1>2, <2>2
    <3>2. below(p, f) = below(p, g)
      <4> HIDE DEF ptrs
      <4> QED BY <3>1
    <3> HIDE DEF below
    <3> QED BY <3>2
  <2>3. <<>> \in W
    OBVIOUS
  <2> HIDE DEF D, W, step
  <2> QED BY <1>1, <2>1, <2>2, <2>3 DEF Recursive
<1>5. PICK f \in [D -> W] : \A p \in D : f[p] = step[p][f]
  <2> HIDE DEF D, W, step
  <2> QED BY <1>4, RecursiveFunction
<1>6. f = [p \in D |-> FlattenSeq(below(p, f)) \o <<p>>]
  <2>1. \A p \in D : f[p] = FlattenSeq(below(p, f)) \o <<p>>
    <3> HIDE DEF below, D, W
    <3> QED BY <1>5
  <2> HIDE DEF D, W, below
  <2> QED BY <2>1
<1> DEFINE visit == CHOOSE g : g = [p \in D |-> FlattenSeq(below(p, g)) \o <<p>>]
<1>7. visit = [p \in D |-> FlattenSeq(below(p, visit)) \o <<p>>]
  <2> HIDE DEF D, below
  <2> QED BY <1>6
<1>8. visit \in [D -> W]
  <2> DEFINE S == {p \in D : visit[p] \in W}
  <2>1. ASSUME NEW p \in D, \A y \in D : h[y] < h[p] => y \in S PROVE p \in S
    <3>1. \A i \in DOMAIN ptrs(p) : visit[ptrs(p)[Len(ptrs(p)) + 1 - i]] \in W
      BY <1>2, <2>1
    <3>2. DOMAIN ptrs(p) = 1 .. Len(ptrs(p)) /\ Len(ptrs(p)) \in Nat
      BY <1>2
    <3>3. below(p, visit) \in Seq(W)
      <4> HIDE DEF W, D, ptrs, visit
      <4> QED BY <3>1, <3>2
    <3>4. FlattenSeq(below(p, visit)) \in W
      BY <3>3, FlattenSeqIs
    <3>5. <<p>> \in W
      <4> HIDE DEF D
      <4> QED OBVIOUS
    <3>6. visit[p] = FlattenSeq(below(p, visit)) \o <<p>>
      <4> HIDE DEF D, below, visit
      <4> QED BY <1>7
    <3> HIDE DEF below, visit, D
    <3>7. visit[p] \in W
      BY <3>4, <3>5, <3>6, ConcatProperties
    <3> QED BY <3>7
  <2>2. D \subseteq S
    <3> HIDE DEF S, D
    <3> QED BY <1>1, <2>1, MeasureInduction
  <2>3. visit = [p \in D |-> visit[p]]
    <3> HIDE DEF D, below, visit
    <3> QED BY <1>7
  <2> HIDE DEF D, W, visit
  <2> QED BY <2>2, <2>3
<1>9. RightToLefts(t) = visit
  BY DEF RightToLefts
<1> HIDE DEF visit
<1> SUFFICES ASSUME NEW p \in D
             PROVE  below(p, visit) \in Seq(W) /\ Len(below(p, visit)) = Len(ptrs(p)) /\ visit[p] = FlattenSeq(below(p, visit)) \o <<p>>
  BY <1>9
<1>10. visit[p] = FlattenSeq(below(p, visit)) \o <<p>>
  <2> HIDE DEF below, D
  <2> QED BY <1>7
<1> QED BY <1>3, <1>8, <1>10

\* The walk of a node is the node and the walks of its children in turn.
WalksDown(t) ==
    \A p \in DOMAIN t.nodes :
       LET ptrs == t.nodes[p].ptrs
           ss   == [i \in DOMAIN ptrs |-> IterDFSs(t)[ptrs[i]]]
       IN  /\ ss \in Seq(Seq(DOMAIN t.nodes)) /\ Len(ss) = Len(ptrs)
           /\ IterDFSs(t)[p] = <<p>> \o FlattenSeq(ss)

\* IterDFS, step by step: a node, then its children from the left to the right.
LEMMA IterDFSsAre ==
    ASSUME NEW V, NEW t, NEW h, NEW span, WellShaped(t, V, h, span)
    PROVE  WalksDown(t)
<1> DEFINE D == DOMAIN t.nodes
           W == Seq(D)
           ptrs(p) == t.nodes[p].ptrs
           below(p, f) == [i \in DOMAIN ptrs(p) |-> f[ptrs(p)[i]]]
           step == [p \in D |-> [f \in [D -> W] |-> <<p>> \o FlattenSeq(below(p, f))]]
<1>1. h \in [D -> Nat] /\ \A p \in D : IsLeaf(t.nodes[p]) <=> h[p] = 0
  BY TreeFacts
<1>2. ASSUME NEW p \in D
      PROVE  /\ DOMAIN ptrs(p) = 1 .. Len(ptrs(p)) /\ Len(ptrs(p)) \in Nat
             /\ \A i \in DOMAIN ptrs(p) : ptrs(p)[i] \in D /\ h[ptrs(p)[i]] < h[p]
  <2>1. ptrs(p) \in Seq(Nat)
    BY Facts DEF WellShaped
  <2>2. DOMAIN ptrs(p) = 1 .. Len(ptrs(p)) /\ Len(ptrs(p)) \in Nat
    BY <2>1
  <2>3. CASE h[p] = 0
    <3>1. ptrs(p) = <<>>
      BY <1>1, <2>3 DEF IsLeaf
    <3> QED BY <2>2, <3>1
  <2>4. CASE h[p] # 0
    <3> SUFFICES ASSUME NEW i \in 1 .. Len(ptrs(p))
                 PROVE  ptrs(p)[i] \in D /\ h[ptrs(p)[i]] < h[p]
      BY <2>2
    <3> QED BY <2>4, ChildFacts
  <2> QED BY <2>3, <2>4
<1>3. ASSUME NEW p \in D, NEW f \in [D -> W] PROVE below(p, f) \in Seq(W) /\ Len(below(p, f)) = Len(ptrs(p))
  <2>1. \A i \in 1 .. Len(ptrs(p)) : f[ptrs(p)[i]] \in W
    BY <1>2
  <2>2. below(p, f) = [i \in 1 .. Len(ptrs(p)) |-> f[ptrs(p)[i]]]
    BY <1>2
  <2>3. Len(ptrs(p)) \in Nat
    BY <1>2
  <2> HIDE DEF W, D, ptrs, below
  <2> QED BY <2>1, <2>2, <2>3
<1>4. Recursive(D, W, h, step)
  <2>1. step \in [D -> [[D -> W] -> W]]
    <3> SUFFICES ASSUME NEW p \in D, NEW f \in [D -> W] PROVE <<p>> \o FlattenSeq(below(p, f)) \in W
      OBVIOUS
    <3>1. FlattenSeq(below(p, f)) \in W
      BY <1>3, FlattenSeqIs
    <3>2. <<p>> \in W
      <4> HIDE DEF D
      <4> QED OBVIOUS
    <3> HIDE DEF below
    <3> QED BY <3>1, <3>2, ConcatProperties
  <2>2. ASSUME NEW p \in D, NEW f \in [D -> W], NEW g \in [D -> W], \A y \in D : h[y] < h[p] => f[y] = g[y]
        PROVE  step[p][f] = step[p][g]
    <3>1. \A i \in DOMAIN ptrs(p) : f[ptrs(p)[i]] = g[ptrs(p)[i]]
      BY <1>2, <2>2
    <3>2. below(p, f) = below(p, g)
      <4> HIDE DEF ptrs
      <4> QED BY <3>1
    <3> HIDE DEF below
    <3> QED BY <3>2
  <2>3. <<>> \in W
    OBVIOUS
  <2> HIDE DEF D, W, step
  <2> QED BY <1>1, <2>1, <2>2, <2>3 DEF Recursive
<1>5. PICK f \in [D -> W] : \A p \in D : f[p] = step[p][f]
  <2> HIDE DEF D, W, step
  <2> QED BY <1>4, RecursiveFunction
<1>6. f = [p \in D |-> <<p>> \o FlattenSeq(below(p, f))]
  <2>1. \A p \in D : f[p] = <<p>> \o FlattenSeq(below(p, f))
    <3> HIDE DEF below, D, W
    <3> QED BY <1>5
  <2> HIDE DEF D, W, below
  <2> QED BY <2>1
<1> DEFINE visit == CHOOSE g : g = [p \in D |-> <<p>> \o FlattenSeq(below(p, g))]
<1>7. visit = [p \in D |-> <<p>> \o FlattenSeq(below(p, visit))]
  <2> HIDE DEF D, below
  <2> QED BY <1>6
<1>8. visit \in [D -> W]
  <2> DEFINE S == {p \in D : visit[p] \in W}
  <2>1. ASSUME NEW p \in D, \A y \in D : h[y] < h[p] => y \in S PROVE p \in S
    <3>1. \A i \in DOMAIN ptrs(p) : visit[ptrs(p)[i]] \in W
      BY <1>2, <2>1
    <3>2. DOMAIN ptrs(p) = 1 .. Len(ptrs(p)) /\ Len(ptrs(p)) \in Nat
      BY <1>2
    <3>3. below(p, visit) \in Seq(W)
      <4> HIDE DEF W, D, ptrs, visit
      <4> QED BY <3>1, <3>2
    <3>4. FlattenSeq(below(p, visit)) \in W
      BY <3>3, FlattenSeqIs
    <3>5. <<p>> \in W
      <4> HIDE DEF D
      <4> QED OBVIOUS
    <3>6. visit[p] = <<p>> \o FlattenSeq(below(p, visit))
      <4> HIDE DEF D, below, visit
      <4> QED BY <1>7
    <3> HIDE DEF below, visit, D
    <3>7. visit[p] \in W
      BY <3>4, <3>5, <3>6, ConcatProperties
    <3> QED BY <3>7
  <2>2. D \subseteq S
    <3> HIDE DEF S, D
    <3> QED BY <1>1, <2>1, MeasureInduction
  <2>3. visit = [p \in D |-> visit[p]]
    <3> HIDE DEF D, below, visit
    <3> QED BY <1>7
  <2> HIDE DEF D, W, visit
  <2> QED BY <2>2, <2>3
<1>9. IterDFSs(t) = visit
  BY DEF IterDFSs
<1> HIDE DEF visit
<1> SUFFICES ASSUME NEW p \in D
             PROVE  below(p, visit) \in Seq(W) /\ Len(below(p, visit)) = Len(ptrs(p)) /\ visit[p] = <<p>> \o FlattenSeq(below(p, visit))
  BY <1>9 DEF WalksDown
<1>10. visit[p] = <<p>> \o FlattenSeq(below(p, visit))
  <2> HIDE DEF below, D
  <2> QED BY <1>7
<1> QED BY <1>3, <1>8, <1>10

-----------------------------------------------------------------------------
\* After a node come those to the left of it, and those it is below.
After(t, h, span, x, y) ==
    \/ \A a \in span[x], b \in span[y] : Before(t.cmp, b, a)
    \/ h[x] < h[y] /\ span[x] \subseteq span[y]

RightOrder(t, h, span, x, order) ==
    /\ order \in Seq(DOMAIN t.nodes) /\ Len(order) \in Nat \ {0} /\ order[Len(order)] = x
    /\ \A p \in 1 .. Len(order) : span[order[p]] \subseteq span[x] /\ h[order[p]] <= h[x]
    /\ \A p, q \in 1 .. Len(order) : p < q => After(t, h, span, order[p], order[q])
    /\ \A k \in span[x], n \in 0 .. h[x] : \E p \in 1 .. Len(order) : h[order[p]] = n /\ k \in span[order[p]]

\* persist from a node gets to each node below it, what is right of another one or
\* below it first.
LEMMA RightToLeftsOrder ==
    ASSUME NEW V, NEW t, NEW h, NEW span, WellShaped(t, V, h, span)
    PROVE  \A x \in DOMAIN t.nodes : RightOrder(t, h, span, x, RightToLefts(t)[x])
<1> DEFINE D == DOMAIN t.nodes
           S == {x \in D : RightOrder(t, h, span, x, RightToLefts(t)[x])}
<1>1. h \in [D -> Nat] /\ t.cmp \in Cmps /\ \A p \in D : IsLeaf(t.nodes[p]) <=> h[p] = 0
  BY TreeFacts
<1>2. ASSUME NEW x \in D, \A y \in D : h[y] < h[x] => y \in S
      PROVE  RightOrder(t, h, span, x, RightToLefts(t)[x])
  <2> DEFINE n == t.nodes[x]
             m == Len(n.ptrs)
             ss == [i \in DOMAIN n.ptrs |-> RightToLefts(t)[n.ptrs[m + 1 - i]]]
             flat == FlattenSeq(ss)
             L == Len(flat)
             order == RightToLefts(t)[x]
             child(i) == n.ptrs[m + 1 - i]
  <2>1. ss \in Seq(Seq(D)) /\ Len(ss) = m /\ order = flat \o <<x>>
    BY RightToLeftsAre
  <2>2. flat \in Seq(D) /\ \E c, y : Places(ss, flat, c, y)
    <3> HIDE DEF ss, D
    <3> QED BY <2>1, FlattenSeqIs
  <2>3. PICK c, y : Places(ss, flat, c, y)
    BY <2>2
  <2>4. L \in Nat /\ m \in Nat
    <3>1. n.ptrs \in Seq(Nat)
      BY Facts DEF WellShaped
    <3>2. L \in Nat
      <4> HIDE DEF flat, D
      <4> QED BY <2>2
    <3> QED BY <3>1, <3>2
  <2>5. order \in Seq(D) /\ Len(order) = L + 1 /\ \A p \in 1 .. L + 1 : order[p] = IF p <= L THEN flat[p] ELSE x
    <3> HIDE DEF order, flat, D
    <3>1. <<x>> \in Seq(D) /\ Len(<<x>>) = 1 /\ <<x>>[1] = x
      OBVIOUS
    <3>2. /\ flat \o <<x>> \in Seq(D) /\ Len(flat \o <<x>>) = L + 1
          /\ \A p \in 1 .. L + 1 : (flat \o <<x>>)[p] = IF p <= L THEN flat[p] ELSE <<x>>[p - L]
      BY <2>2, <3>1, ConcatProperties
    <3>3. \A p \in 1 .. L + 1 : ~ (p <= L) => p - L = 1
      BY <2>4
    <3> QED BY <2>1, <3>1, <3>2, <3>3
  <2>6. ASSUME NEW i \in 1 .. m
        PROVE  /\ ss[i] = RightToLefts(t)[child(i)] /\ h[x] # 0 /\ m + 1 - i \in 1 .. m
               /\ child(i) \in D /\ h[child(i)] < h[x] /\ h[child(i)] + 1 = h[x]
               /\ span[child(i)] = span[x] \cap Slot(t.cmp, n.keys, m + 1 - i)
               /\ RightOrder(t, h, span, child(i), ss[i])
    <3>1. DOMAIN n.ptrs = 1 .. m
      BY Facts DEF WellShaped
    <3>2. ss[i] = RightToLefts(t)[child(i)] /\ m + 1 - i \in 1 .. m
      BY <2>4, <3>1
    <3>3. h[x] # 0
      <4> SUFFICES ASSUME h[x] = 0 PROVE FALSE
        OBVIOUS
      <4>1. n.ptrs = <<>>
        BY <1>1 DEF IsLeaf
      <4>2. m = 0
        BY <4>1
      <4> QED BY <4>2
    <3>4. /\ child(i) \in D /\ h[child(i)] < h[x] /\ h[child(i)] + 1 = h[x]
          /\ span[child(i)] = span[x] \cap Slot(t.cmp, n.keys, m + 1 - i)
      <4>1. \A j \in 1 .. m : /\ n.ptrs[j] \in D /\ h[n.ptrs[j]] < h[x] /\ h[n.ptrs[j]] + 1 = h[x]
                              /\ span[n.ptrs[j]] = span[x] \cap Slot(t.cmp, n.keys, j)
        BY <3>3, ChildFacts
      <4> HIDE DEF D, n, m
      <4> QED BY <3>2, <4>1
    <3> QED BY <1>2, <3>2, <3>3, <3>4
  <2>7. ASSUME NEW p \in 1 .. L
        PROVE  /\ c[p] \in 1 .. m /\ y[p] \in 1 .. Len(ss[c[p]]) /\ flat[p] = ss[c[p]][y[p]] /\ order[p] = flat[p]
               /\ flat[p] \in D
               /\ span[flat[p]] \subseteq span[child(c[p])] /\ h[flat[p]] <= h[child(c[p])]
               /\ span[flat[p]] \subseteq span[x] /\ h[flat[p]] < h[x]
    <3>1. c[p] \in 1 .. m /\ y[p] \in 1 .. Len(ss[c[p]]) /\ flat[p] = ss[c[p]][y[p]]
      <4> HIDE DEF flat, ss
      <4> QED BY <2>1, <2>3 DEF Places
    <3>2. order[p] = flat[p] /\ flat[p] \in D
      <4> HIDE DEF flat, D, order
      <4> QED BY <2>2, <2>4, <2>5
    <3> HIDE DEF ss, flat, D, order, child, n, m
    <3>3. /\ child(c[p]) \in D /\ h[child(c[p])] < h[x]
          /\ span[child(c[p])] \subseteq span[x]
          /\ RightOrder(t, h, span, child(c[p]), ss[c[p]])
      BY <2>6, <3>1
    <3>4. span[flat[p]] \subseteq span[child(c[p])] /\ h[flat[p]] <= h[child(c[p])]
      BY <3>1, <3>3 DEF RightOrder
    <3>5. h[flat[p]] \in Nat /\ h[child(c[p])] \in Nat /\ h[x] \in Nat
      BY <1>1, <3>2, <3>3
    <3> QED BY <3>1, <3>2, <3>3, <3>4, <3>5
  <2>8. t.cmp \in Cmps /\ n.keys \in Seq(Path) /\ Increasing(t.cmp, n.keys) /\ Len(n.keys) \in Nat
    BY Facts DEF WellShaped
  <2>9. h[x] # 0 => m = Len(n.keys) + 1
    BY ChildFacts
  <2> HIDE DEF ss, flat, order, child, n, m, S, L
  <2>10. order[Len(order)] = x /\ Len(order) \in Nat \ {0}
    BY <2>4, <2>5
  <2>11. \A p \in 1 .. Len(order) : p \in 1 .. L \/ (p = L + 1 /\ order[p] = x)
    BY <2>4, <2>5
  <2>12. \A p \in 1 .. Len(order) : span[order[p]] \subseteq span[x] /\ h[order[p]] <= h[x]
    <3> SUFFICES ASSUME NEW p \in 1 .. Len(order) PROVE span[order[p]] \subseteq span[x] /\ h[order[p]] <= h[x]
      OBVIOUS
    <3>1. CASE p \in 1 .. L
      <4>1. h[order[p]] < h[x] /\ h[order[p]] \in Nat /\ h[x] \in Nat
        BY <1>1, <2>7, <3>1
      <4> QED BY <2>7, <3>1, <4>1
    <3>2. CASE order[p] = x
      BY <1>1, <3>2
    <3> QED BY <2>11, <3>1, <3>2
  <2>13. ASSUME NEW p \in 1 .. Len(order), NEW q \in 1 .. Len(order), p < q
         PROVE  After(t, h, span, order[p], order[q])
    <3>1. p \in 1 .. L
      BY <2>4, <2>5, <2>13
    <3>2. CASE q \in 1 .. L
      <4>1. c[p] < c[q] \/ (c[p] = c[q] /\ y[p] < y[q])
        BY <2>3, <2>13, <3>1, <3>2 DEF Places, L
      <4>2. CASE c[p] = c[q] /\ y[p] < y[q]
        <5>1. RightOrder(t, h, span, child(c[p]), ss[c[p]])
          BY <2>6, <2>7, <3>1
        <5>2. After(t, h, span, ss[c[p]][y[p]], ss[c[p]][y[q]])
          BY <2>7, <3>1, <3>2, <4>2, <5>1 DEF RightOrder
        <5> QED BY <2>7, <3>1, <3>2, <4>2, <5>2
      <4>3. CASE c[p] < c[q]
        <5> DEFINE i == m + 1 - c[q]
                   j == m + 1 - c[p]
        <5>1. h[x] # 0 /\ i \in 1 .. Len(n.keys) + 1 /\ j \in 1 .. Len(n.keys) + 1 /\ i < j
          <6>1. c[p] \in 1 .. m /\ c[q] \in 1 .. m
            BY <2>7, <3>1, <3>2
          <6>2. h[x] # 0
            BY <2>6, <6>1
          <6>3. m = Len(n.keys) + 1
            BY <2>9, <6>2
          <6>4. \A u, v \in 1 .. m : u < v => m + 1 - v \in 1 .. m /\ m + 1 - u \in 1 .. m /\ m + 1 - v < m + 1 - u
            BY <2>4
          <6>5. i \in 1 .. m /\ j \in 1 .. m /\ i < j
            BY <4>3, <6>1, <6>4
          <6> QED BY <6>2, <6>3, <6>5
        <5>2. ASSUME NEW a \in span[order[p]], NEW b \in span[order[q]] PROVE Before(t.cmp, b, a)
          <6>1. a \in Slot(t.cmp, n.keys, j)
            BY <2>6, <2>7, <3>1
          <6>2. b \in Slot(t.cmp, n.keys, i)
            BY <2>6, <2>7, <3>2
          <6> HIDE DEF i, j
          <6> QED BY <2>8, <5>1, <6>1, <6>2, SlotsAreOrdered
        <5> QED BY <5>2 DEF After
      <4> QED BY <4>1, <4>2, <4>3
    <3>3. CASE order[q] = x
      BY <2>7, <3>1, <3>3 DEF After
    <3> QED BY <2>11, <3>2, <3>3
  <2>14. ASSUME NEW k \in span[x], NEW l \in 0 .. h[x]
         PROVE  \E p \in 1 .. Len(order) : h[order[p]] = l /\ k \in span[order[p]]
    <3>1. CASE l = h[x]
      <4>1. Len(order) \in 1 .. Len(order)
        BY <2>10
      <4> QED BY <2>10, <3>1, <4>1
    <3>2. CASE l # h[x]
      <4>1. h[x] # 0 /\ h[x] \in Nat
        BY <1>1, <2>14, <3>2
      <4>2. k \in Path
        BY TreeFacts
      <4>3. PICK j \in 1 .. m : k \in Slot(t.cmp, n.keys, j)
        BY <4>1, <4>2, ChildFacts DEF n, m
      <4> DEFINE i == m + 1 - j
      <4>4. i \in 1 .. m /\ m + 1 - i = j
        BY <2>4
      <4> HIDE DEF i
      <4>5. k \in span[child(i)] /\ h[child(i)] + 1 = h[x] /\ h[child(i)] \in Nat /\ RightOrder(t, h, span, child(i), ss[i])
        <5>1. child(i) \in D /\ h[child(i)] + 1 = h[x] /\ RightOrder(t, h, span, child(i), ss[i])
          BY <2>6, <4>4
        <5>2. span[child(i)] = span[x] \cap Slot(t.cmp, n.keys, j)
          BY <2>6, <4>4
        <5> QED BY <1>1, <4>3, <5>1, <5>2
      <4>6. l \in 0 .. h[child(i)]
        BY <3>2, <4>1, <4>5
      <4>7. PICK r \in 1 .. Len(ss[i]) : h[ss[i][r]] = l /\ k \in span[ss[i][r]]
        BY <4>5, <4>6 DEF RightOrder
      <4>8. PICK p \in 1 .. L : c[p] = i /\ y[p] = r
        BY <2>1, <2>3, <4>4 DEF Places, L
      <4>9. order[p] = ss[i][r] /\ p \in 1 .. Len(order)
        BY <2>4, <2>5, <2>7, <4>8
      <4> QED BY <4>7, <4>9
    <3> QED BY <3>1, <3>2
  <2> HIDE DEF D
  <2>15. RightOrder(t, h, span, x, order)
    BY <2>5, <2>10, <2>12, <2>13, <2>14 DEF RightOrder, D
  <2> QED BY <2>15 DEF order
<1>3. D \subseteq S
  <2>1. \A x \in D : (\A y \in D : h[y] < h[x] => y \in S) => x \in S
    BY <1>2
  <2> HIDE DEF S, D
  <2> QED BY <1>1, <2>1, MeasureInduction
<1> QED BY <1>3

-----------------------------------------------------------------------------
\* persist from the root gets to every node once, the root last: Persist writes
\* each node, and no node before the ones it points to.
LEMMA RightToLeftIs ==
    ASSUME NEW V, NEW t, NEW h, NEW span, WellShaped(t, V, h, span)
    PROVE  LET order == RightToLeft(t)
           IN  /\ RightOrder(t, h, span, t.root, order)
               /\ DOMAIN order = 1 .. Len(order)
               /\ \A p \in 1 .. Len(order) : order[p] \in DOMAIN t.nodes
               /\ \A x \in DOMAIN t.nodes : \E p \in 1 .. Len(order) : order[p] = x
               /\ \A p, q \in 1 .. Len(order) : order[p] = order[q] => p = q
<1> DEFINE order == RightToLeft(t)
           D == DOMAIN t.nodes
           L == Len(order)
<1>1. /\ t.root \in D /\ span[t.root] = Path /\ h \in [D -> Nat] /\ t.cmp \in Cmps
      /\ \A x \in D : h[x] <= h[t.root] /\ span[x] # {} /\ span[x] \subseteq Path
      /\ \A x, y \in D : x # y /\ h[x] = h[y] => span[x] \cap span[y] = {}
  BY TreeFacts
<1>2. RightOrder(t, h, span, t.root, order)
  BY <1>1, RightToLeftsOrder DEF RightToLeft
<1> HIDE DEF order, D
<1>3. order \in Seq(D) /\ DOMAIN order = 1 .. L /\ L \in Nat /\ \A p \in 1 .. L : order[p] \in D
  <2>1. order \in Seq(D)
    BY <1>2 DEF RightOrder, D
  <2> QED BY <2>1
<1>4. ASSUME NEW x \in D PROVE \E p \in 1 .. L : order[p] = x
  <2>1. PICK k \in span[x] : k \in Path
    BY <1>1
  <2>2. h[x] \in 0 .. h[t.root]
    BY <1>1
  <2>3. PICK p \in 1 .. L : h[order[p]] = h[x] /\ k \in span[order[p]]
    BY <1>1, <1>2, <2>1, <2>2 DEF RightOrder
  <2>4. order[p] = x
    BY <1>1, <1>3, <2>1, <2>3
  <2> QED BY <2>4
<1>5. ASSUME NEW p \in 1 .. L, NEW q \in 1 .. L, order[p] = order[q], p < q PROVE FALSE
  <2> DEFINE x == order[p]
  <2>1. After(t, h, span, x, x)
    BY <1>2, <1>5 DEF RightOrder
  <2>2. x \in D /\ h[x] \in Nat
    BY <1>1, <1>3
  <2>3. PICK k \in span[x] : k \in Path
    BY <1>1, <2>2
  <2> HIDE DEF x
  <2>4. Before(t.cmp, k, k)
    BY <2>1, <2>2, <2>3 DEF After
  <2> QED BY <1>1, <2>3, <2>4, Ordered
<1>6. ASSUME NEW p \in 1 .. L, NEW q \in 1 .. L, order[p] = order[q] PROVE p = q
  <2>1. ~ (p < q) /\ ~ (q < p)
    BY <1>5, <1>6
  <2> QED BY <1>3, <2>1
<1> QED BY <1>2, <1>3, <1>4, <1>6 DEF order, D

\* IterDFS visits every node of the tree: what a synchronisation or a cleanup that
\* walks the nodes needs.
LEMMA IterDFSIs ==
    ASSUME NEW V, NEW t, IsTree(t, V)
    PROVE  Range(IterDFS(t)) = DOMAIN t.nodes
<1>1. PICK h, span : WellShaped(t, V, h, span)
  BY DEF IsTree
<1> DEFINE D == DOMAIN t.nodes
           Covers(x) == /\ IterDFSs(t)[x] \in Seq(D)
                        /\ \A k \in span[x], n \in 0 .. h[x] : \E y \in Range(IterDFSs(t)[x]) : h[y] = n /\ k \in span[y]
           S == {x \in D : Covers(x)}
<1>2. /\ t.root \in D /\ span[t.root] = Path /\ h \in [D -> Nat] /\ t.cmp \in Cmps
      /\ \A x \in D : h[x] <= h[t.root] /\ span[x] # {} /\ span[x] \subseteq Path
      /\ \A x, y \in D : x # y /\ h[x] = h[y] => span[x] \cap span[y] = {}
  BY <1>1, TreeFacts
<1>3. ASSUME NEW x \in D, \A y \in D : h[y] < h[x] => y \in S PROVE Covers(x)
  <2> DEFINE n == t.nodes[x]
             ss == [i \in DOMAIN n.ptrs |-> IterDFSs(t)[n.ptrs[i]]]
             flat == FlattenSeq(ss)
             L == Len(flat)
             all == IterDFSs(t)[x]
  <2>1. ss \in Seq(Seq(D)) /\ Len(ss) = Len(n.ptrs) /\ all = <<x>> \o flat
    <3>1. WalksDown(t)
      BY <1>1, IterDFSsAre
    <3> QED BY ONLY <3>1, x \in D DEF WalksDown
  <2>2. flat \in Seq(D) /\ \E c, y : Places(ss, flat, c, y)
    <3> HIDE DEF ss, D
    <3> QED BY <2>1, FlattenSeqIs
  <2>3. PICK c, y : Places(ss, flat, c, y)
    BY <2>2
  <2>4. DOMAIN n.ptrs = 1 .. Len(n.ptrs)
    BY <1>1, Facts DEF WellShaped
  <2>5. \A i \in 1 .. Len(n.ptrs) : ss[i] = IterDFSs(t)[n.ptrs[i]]
    BY <2>4
  <2> HIDE DEF flat, ss, D
  <2>6. all \in Seq(D) /\ Len(all) = L + 1 /\ L \in Nat /\ \A p \in 1 .. L + 1 : all[p] = IF p <= 1 THEN x ELSE flat[p - 1]
    <3>1. <<x>> \in Seq(D) /\ Len(<<x>>) = 1 /\ <<x>>[1] = x /\ L \in Nat
      BY <2>2
    <3> HIDE DEF all
    <3>2. /\ <<x>> \o flat \in Seq(D) /\ Len(<<x>> \o flat) = 1 + L
          /\ \A p \in 1 .. 1 + L : (<<x>> \o flat)[p] = IF p <= 1 THEN <<x>>[p] ELSE flat[p - 1]
      BY <2>2, <3>1, ConcatProperties
    <3> QED BY <2>1, <3>1, <3>2
  <2> HIDE DEF all
  <2>7. DOMAIN all = 1 .. L + 1 /\ x \in Range(all) /\ \A p \in 1 .. L : flat[p] \in Range(all)
    <3>1. DOMAIN all = 1 .. L + 1
      BY <2>6
    <3>2. all[1] = x /\ 1 \in DOMAIN all
      BY <2>6, <3>1
    <3>3. ASSUME NEW p \in 1 .. L PROVE all[p + 1] = flat[p] /\ p + 1 \in DOMAIN all
      <4>1. p + 1 \in 1 .. L + 1 /\ ~ (p + 1 <= 1) /\ (p + 1) - 1 = p
        BY <2>6
      <4> QED BY <2>6, <3>1, <4>1
    <3>4. \A p \in 1 .. L : flat[p] \in Range(all)
      BY <3>3 DEF Range
    <3> QED BY <3>1, <3>2, <3>4 DEF Range
  <2>8. ASSUME NEW k \in span[x], NEW l \in 0 .. h[x] PROVE \E z \in Range(all) : h[z] = l /\ k \in span[z]
    <3>1. CASE l = h[x]
      BY <2>7, <3>1
    <3>2. CASE l # h[x]
      <4>1. h[x] # 0 /\ h[x] \in Nat /\ k \in Path
        BY <1>2, <3>2, <2>8
      <4>2. PICK j \in 1 .. Len(n.ptrs) : k \in Slot(t.cmp, n.keys, j)
        <5>1. x \in DOMAIN t.nodes
          BY DEF D
        <5> QED BY <1>1, <4>1, <5>1, ChildFacts
      <4> DEFINE d == n.ptrs[j]
      <4>3. d \in D /\ h[d] + 1 = h[x] /\ h[d] < h[x] /\ span[d] = span[x] \cap Slot(t.cmp, n.keys, j)
        BY <1>1, <4>1, ChildFacts DEF D
      <4>4. Covers(d) /\ h[d] \in Nat
        BY <1>2, <1>3, <4>3
      <4>5. k \in span[d] /\ l \in 0 .. h[d] /\ ss[j] = IterDFSs(t)[d]
        BY <2>5, <3>2, <4>1, <4>2, <4>3, <4>4
      <4>6. PICK z \in Range(ss[j]) : h[z] = l /\ k \in span[z]
        BY <4>4, <4>5
      <4>7. PICK r \in 1 .. Len(ss[j]) : ss[j][r] = z
        <5>1. ss[j] \in Seq(D)
          BY <4>4, <4>5
        <5> QED BY <4>6, <5>1 DEF Range
      <4>8. PICK p \in 1 .. L : c[p] = j /\ y[p] = r
        BY <2>1, <2>3, <4>7 DEF Places
      <4>9. flat[p] = z
        BY <2>3, <4>7, <4>8 DEF Places
      <4> QED BY <2>7, <4>6, <4>9
    <3> QED BY <3>1, <3>2
  <2> QED BY <2>6, <2>8 DEF all
<1>4. D \subseteq S
  <2>1. \A x \in D : (\A y \in D : h[y] < h[x] => y \in S) => x \in S
    BY <1>3
  <2> HIDE DEF S, D
  <2> QED BY <1>2, <2>1, MeasureInduction
<1> DEFINE all == IterDFSs(t)[t.root]
<1>5. Covers(t.root)
  BY <1>2, <1>4
<1> HIDE DEF D
<1>6. Range(all) \subseteq D
  BY <1>5 DEF Range
<1>7. ASSUME NEW x \in D PROVE x \in Range(all)
  <2>1. PICK k \in span[x] : k \in Path
    BY <1>2
  <2>2. h[x] \in 0 .. h[t.root]
    BY <1>2
  <2>3. PICK y \in Range(all) : h[y] = h[x] /\ k \in span[y]
    BY <1>2, <1>5, <2>1, <2>2
  <2> QED BY <1>2, <1>6, <2>1, <2>3
<1> QED BY <1>6, <1>7 DEF D, IterDFS

-----------------------------------------------------------------------------
\* The values, and the pairs from the last one to the first.

\* A reversed sequence: its length, its places and what it holds.
LEMMA ReverseIs ==
    ASSUME NEW U, NEW s \in Seq(U)
    PROVE  /\ Reverse(s) \in Seq(U) /\ Len(Reverse(s)) = Len(s) /\ Reverse(Reverse(s)) = s
           /\ \A i \in 1 .. Len(s) : Reverse(s)[i] = s[Len(s) - i + 1]
           /\ \A x : x \in ToSet(Reverse(s)) <=> x \in ToSet(s)
<1> DEFINE r == Reverse(s)
           L == Len(s)
<1>1. L \in Nat /\ DOMAIN s = 1 .. L /\ \A i \in 1 .. L : s[i] \in U
  OBVIOUS
<1>2. \A i \in 1 .. L : L - i + 1 \in 1 .. L /\ L - (L - i + 1) + 1 = i
  BY <1>1
<1>3. r = [i \in 1 .. L |-> s[L - i + 1]]
  BY DEF Reverse
<1>4. r \in Seq(U) /\ Len(r) = L /\ DOMAIN r = 1 .. L /\ \A i \in 1 .. L : r[i] = s[L - i + 1]
  <2> HIDE DEF r, L
  <2> QED BY <1>1, <1>2, <1>3
<1>5. Reverse(r) = [i \in 1 .. L |-> r[L - i + 1]]
  BY <1>4 DEF Reverse
<1>6. Reverse(r) \in Seq(U) /\ Len(Reverse(r)) = L /\ \A i \in 1 .. L : Reverse(r)[i] = s[i]
  <2> HIDE DEF r, L
  <2> QED BY <1>1, <1>2, <1>4, <1>5
<1>7. Reverse(r) = s
  <2> HIDE DEF r
  <2> QED BY <1>6, SeqEqual
<1>8. \A x : x \in ToSet(r) <=> x \in ToSet(s)
  <2> HIDE DEF r, L
  <2>1. \A i \in 1 .. L : s[i] = r[L - i + 1]
    BY <1>2, <1>4
  <2> QED BY <1>1, <1>2, <1>4, <2>1 DEF ToSet
<1> QED BY <1>4, <1>7, <1>8

PairsOf(n, V, s) ==
    /\ s \in Seq(Path \X V) /\ Len(s) = Len(n.keys) /\ Len(n.keys) \in Nat
    /\ \A j \in 1 .. Len(n.keys) : s[j] = <<n.keys[j], n.vals[j]>>

\* The pairs of a leaf, one for each of its keys.
LEMMA AllPairs ==
    ASSUME NEW V, NEW t, NEW h, NEW span, WellShaped(t, V, h, span), NEW x \in DOMAIN t.nodes, h[x] = 0
    PROVE  PairsOf(t.nodes[x], V, PairsFrom(t.nodes[x], 1))
<1>1. Len(t.nodes[x].keys) \in Nat
  BY Facts DEF WellShaped
<1>2. PICK from \in 1 .. Len(t.nodes[x].keys) + 1 : from = 1
  BY <1>1
<1> DEFINE n == t.nodes[x]
           s == PairsFrom(n, from)
<1>3. /\ s \in Seq(Path \X V) /\ Len(s) = Len(n.keys) - from + 1 /\ DOMAIN s = 1 .. Len(n.keys) - from + 1
      /\ \A i \in 1 .. Len(s) : from + i - 1 \in 1 .. Len(n.keys) /\ s[i] = <<n.keys[from + i - 1], n.vals[from + i - 1]>>
      /\ \A i \in 1 .. Len(n.keys) : i >= from => <<n.keys[i], n.vals[i]>> \in ToSet(s)
  BY PairsFromIs, Zenon
<1>4. Len(s) = Len(n.keys) /\ \A j \in 1 .. Len(n.keys) : from + j - 1 = j
  BY <1>1, <1>2, <1>3
<1>5. \A j \in 1 .. Len(n.keys) : s[j] = <<n.keys[j], n.vals[j]>>
  <2> HIDE DEF s, n
  <2> QED BY <1>3, <1>4
<1>6. PairsOf(n, V, s)
  <2> HIDE DEF s, n
  <2> QED BY <1>1, <1>3, <1>4, <1>5 DEF PairsOf, n
<1> QED BY <1>2, <1>6

\* ScanAllReverse, which goes down by the pointers, returns the same pairs as
\* ScanAll, which follows the links between the leaves, in reverse.
LEMMA ScanReverseIs ==
    ASSUME NEW V, NEW t, IsTree(t, V)
    PROVE  ScanReverse(t) = Reverse(Pairs(t))
<1>1. PICK h, span : WellShaped(t, V, h, span)
  BY DEF IsTree
<1> DEFINE D == DOMAIN t.nodes
           order == RightToLeft(t)
           m == Len(order)
           PV == Path \X V
           ss == [i \in DOMAIN order |-> Reverse(PairsFrom(t.nodes[order[i]], 1))]
           flat == FlattenSeq(ss)
           L == Len(flat)
           w == Reverse(flat)
<1>2. /\ RightOrder(t, h, span, t.root, order)
      /\ DOMAIN order = 1 .. m
      /\ \A p \in 1 .. m : order[p] \in D
      /\ \A x \in D : \E p \in 1 .. m : order[p] = x
  BY <1>1, RightToLeftIs
<1>3. m \in Nat
  BY <1>2 DEF RightOrder
<1>4. ASSUME NEW i \in 1 .. m
      PROVE  /\ ss[i] \in Seq(PV)
             /\ h[order[i]] # 0 => Len(ss[i]) = 0
             /\ h[order[i]] = 0 =>
                   /\ Len(ss[i]) = Len(t.nodes[order[i]].keys)
                   /\ \A j \in 1 .. Len(ss[i]) :
                         LET l == Len(ss[i]) - j + 1
                         IN  l \in 1 .. Len(ss[i]) /\ ss[i][j] = <<t.nodes[order[i]].keys[l], t.nodes[order[i]].vals[l]>>
  <2>4. order[i] \in D /\ ss[i] = Reverse(PairsFrom(t.nodes[order[i]], 1))
    BY <1>2
  <2>5. PICK x \in D : x = order[i]
    BY <2>4
  <2> HIDE DEF order, ss
  <2> DEFINE n == t.nodes[x]
             s == PairsFrom(n, 1)
  <2>1. x \in D /\ ss[i] = Reverse(s)
    BY <2>4, <2>5
  <2>2. CASE h[x] # 0
    <3>1. NodeShaped(t, h, span, span, 0, x)
      BY <1>1, <2>1, Facts DEF WellShaped
    <3>2. n.vals = <<>>
      BY <2>2, <3>1 DEF NodeShaped, InnerShaped
    <3>3. s = <<>>
      BY <3>2 DEF PairsFrom
    <3>4. <<>> \in Seq(PV) /\ Len(<<>>) = 0
      <4> HIDE DEF PV
      <4> QED OBVIOUS
    <3>5. ss[i] \in Seq(PV) /\ Len(ss[i]) = 0
      <4> HIDE DEF s, ss, PV
      <4> QED BY <2>1, <3>3, <3>4, ReverseIs
    <3> QED BY <2>2, <2>5, <3>5
  <2>3. CASE h[x] = 0
    <3>2. PairsOf(n, V, s)
      <4>1. x \in DOMAIN t.nodes /\ h[x] = 0
        BY <2>1, <2>3
      <4> QED BY <1>1, <4>1, AllPairs
    <3>3. s \in Seq(PV) /\ Len(s) = Len(n.keys) /\ Len(n.keys) \in Nat
      BY <3>2 DEF PairsOf
    <3>4. \A j \in 1 .. Len(s) : s[j] = <<n.keys[j], n.vals[j]>>
      BY <3>2, <3>3 DEF PairsOf
    <3> HIDE DEF s, ss, PV, n
    <3>5. ss[i] \in Seq(PV) /\ Len(ss[i]) = Len(s) /\ \A j \in 1 .. Len(s) : ss[i][j] = s[Len(s) - j + 1]
      BY <2>1, <3>3, ReverseIs
    <3>6. \A j \in 1 .. Len(s) : Len(s) - j + 1 \in 1 .. Len(s)
      BY <3>3
    <3>7. \A j \in 1 .. Len(ss[i]) : LET l == Len(ss[i]) - j + 1
                                     IN  l \in 1 .. Len(ss[i]) /\ ss[i][j] = <<n.keys[l], n.vals[l]>>
      BY <3>4, <3>5, <3>6
    <3> QED BY <2>3, <2>5, <3>3, <3>5, <3>7 DEF n
  <2> QED BY <2>2, <2>3
<1>5. ss \in Seq(Seq(PV)) /\ Len(ss) = m
  <2>1. ss = [i \in 1 .. m |-> ss[i]]
    BY <1>2
  <2> HIDE DEF ss, PV, order, m
  <2> QED BY <1>3, <1>4, <2>1
<1>6. flat \in Seq(PV) /\ \E c, y : Places(ss, flat, c, y)
  <2> HIDE DEF ss, PV
  <2> QED BY <1>5, FlattenSeqIs
<1>7. PICK c, y : Places(ss, flat, c, y)
  BY <1>6
<1> HIDE DEF flat, ss, PV, order, m, D
<1>8. L \in Nat /\ DOMAIN flat = 1 .. L
  BY <1>6
<1>9. ASSUME NEW p \in 1 .. L
      PROVE  /\ c[p] \in 1 .. m /\ y[p] \in 1 .. Len(ss[c[p]]) /\ flat[p] = ss[c[p]][y[p]] /\ h[order[c[p]]] = 0
             /\ LET l == Len(ss[c[p]]) - y[p] + 1
                IN  /\ l \in 1 .. Len(t.nodes[order[c[p]]].keys)
                    /\ flat[p] = <<t.nodes[order[c[p]]].keys[l], t.nodes[order[c[p]]].vals[l]>>
  <2>1. c[p] \in 1 .. m /\ y[p] \in 1 .. Len(ss[c[p]]) /\ flat[p] = ss[c[p]][y[p]]
    BY <1>5, <1>7 DEF Places
  <2>2. h[order[c[p]]] = 0
    <3> SUFFICES ASSUME h[order[c[p]]] # 0 PROVE FALSE
      OBVIOUS
    <3>1. Len(ss[c[p]]) = 0
      BY <1>4, <2>1
    <3> QED BY <2>1, <3>1
  <2> QED BY <1>4, <2>1, <2>2
<1>10. ASSUME NEW p \in 1 .. L, NEW q \in 1 .. L, p < q PROVE Before(t.cmp, flat[q][1], flat[p][1])
  <2> DEFINE i == c[p]
             j == c[q]
             a == Len(ss[i]) - y[p] + 1
             b == Len(ss[j]) - y[q] + 1
  <2>1. i < j \/ (i = j /\ y[p] < y[q])
    BY <1>7, <1>10 DEF Places
  <2>2. /\ a \in 1 .. Len(t.nodes[order[i]].keys) /\ flat[p][1] = t.nodes[order[i]].keys[a] /\ i \in 1 .. m
        /\ b \in 1 .. Len(t.nodes[order[j]].keys) /\ flat[q][1] = t.nodes[order[j]].keys[b] /\ j \in 1 .. m
        /\ y[p] \in 1 .. Len(ss[i]) /\ y[q] \in 1 .. Len(ss[j])
        /\ h[order[i]] = 0 /\ h[order[j]] = 0
    <3>1. /\ a \in 1 .. Len(t.nodes[order[i]].keys) /\ flat[p] = <<t.nodes[order[i]].keys[a], t.nodes[order[i]].vals[a]>>
          /\ i \in 1 .. m /\ y[p] \in 1 .. Len(ss[i]) /\ h[order[i]] = 0
      BY <1>9
    <3>2. /\ b \in 1 .. Len(t.nodes[order[j]].keys) /\ flat[q] = <<t.nodes[order[j]].keys[b], t.nodes[order[j]].vals[b]>>
          /\ j \in 1 .. m /\ y[q] \in 1 .. Len(ss[j]) /\ h[order[j]] = 0
      BY <1>9
    <3> HIDE DEF a, b, i, j
    <3> QED BY <3>1, <3>2
  <2>3. order[i] \in DOMAIN t.nodes /\ order[j] \in DOMAIN t.nodes
    BY <1>2, <2>2 DEF D
  <2>4. CASE i = j /\ y[p] < y[q]
    <3>1. b < a
      <4>1. Len(ss[i]) \in Nat
        BY <1>4, <2>2
      <4> QED BY <2>2, <2>4, <4>1
    <3> HIDE DEF a, b
    <3>2. /\ Increasing(t.cmp, t.nodes[order[i]].keys) /\ DOMAIN t.nodes[order[i]].keys = 1 .. Len(t.nodes[order[i]].keys)
      BY <1>1, <2>3, Facts DEF WellShaped
    <3> QED BY <2>2, <2>4, <3>1, <3>2 DEF Increasing
  <2>5. CASE i < j
    <3>1. After(t, h, span, order[i], order[j])
      BY <1>2, <2>2, <2>5 DEF RightOrder, m
    <3>2. \A u \in span[order[i]], v \in span[order[j]] : Before(t.cmp, v, u)
      BY <2>2, <3>1 DEF After
    <3> HIDE DEF a, b, i, j
    <3>3. flat[p][1] \in span[order[i]] /\ flat[q][1] \in span[order[j]]
      <4>1. \A l \in 1 .. Len(t.nodes[order[i]].keys) : t.nodes[order[i]].keys[l] \in span[order[i]]
        <5>1. PICK x \in DOMAIN t.nodes : x = order[i]
          BY <2>3
        <5>2. h[x] = 0
          BY <2>2, <5>1
        <5>3. \A l \in 1 .. Len(t.nodes[x].keys) : t.nodes[x].keys[l] \in span[x]
          BY <1>1, <5>2, LeafFacts
        <5> QED BY <5>1, <5>3
      <4>2. \A l \in 1 .. Len(t.nodes[order[j]].keys) : t.nodes[order[j]].keys[l] \in span[order[j]]
        <5>1. PICK x \in DOMAIN t.nodes : x = order[j]
          BY <2>3
        <5>2. h[x] = 0
          BY <2>2, <5>1
        <5>3. \A l \in 1 .. Len(t.nodes[x].keys) : t.nodes[x].keys[l] \in span[x]
          BY <1>1, <5>2, LeafFacts
        <5> QED BY <5>1, <5>3
      <4> QED BY <2>2, <4>1, <4>2
    <3> QED BY <3>2, <3>3
  <2> QED BY <2>1, <2>4, <2>5
<1>11. w \in Seq(PV) /\ Len(w) = L /\ Reverse(w) = flat /\ (\A i \in 1 .. L : w[i] = flat[L - i + 1]) /\ ToSet(w) = ToSet(flat)
  BY <1>6, ReverseIs
<1> HIDE DEF w
<1>12. Sorted(t.cmp, w)
  <2>1. DOMAIN w = 1 .. L
    BY <1>11
  <2>2. ASSUME NEW i \in 1 .. L, NEW j \in 1 .. L, i < j PROVE Before(t.cmp, w[i][1], w[j][1])
    <3>1. L - i + 1 \in 1 .. L /\ L - j + 1 \in 1 .. L /\ L - j + 1 < L - i + 1
      BY <1>8, <2>2
    <3>2. Before(t.cmp, flat[L - i + 1][1], flat[L - j + 1][1])
      BY <1>10, <3>1
    <3> QED BY <1>11, <3>2
  <2> QED BY <2>1, <2>2 DEF Sorted
<1>13. ToSet(flat) = Listed(t, V)
  <2>1. ASSUME NEW p \in 1 .. L PROVE flat[p] \in Listed(t, V)
    <3>1. order[c[p]] \in DOMAIN t.nodes /\ h[order[c[p]]] = 0
      BY <1>2, <1>9 DEF D
    <3> DEFINE x == order[c[p]]
    <3>2. \A l \in 1 .. Len(t.nodes[x].keys) : <<t.nodes[x].keys[l], t.nodes[x].vals[l]>> \in Listed(t, V)
      BY <1>1, <3>1, LeafFacts
    <3>3. \E l \in 1 .. Len(t.nodes[x].keys) : flat[p] = <<t.nodes[x].keys[l], t.nodes[x].vals[l]>>
      BY <1>9
    <3> HIDE DEF x
    <3> QED BY <3>2, <3>3
  <2>2. ASSUME NEW kv \in Listed(t, V) PROVE \E p \in 1 .. L : flat[p] = kv
    <3>1. PICK x \in D : h[x] = 0 /\ kv[1] \in span[x]
      BY <1>1, ListedAt DEF D
    <3>2. PICK l \in 1 .. Len(t.nodes[x].keys) : kv = <<t.nodes[x].keys[l], t.nodes[x].vals[l]>>
      BY <1>1, <3>1, ListedAt DEF D
    <3>3. PICK i \in 1 .. m : order[i] = x
      BY <1>2
    <3>4. Len(ss[i]) = Len(t.nodes[x].keys) /\ Len(ss[i]) \in Nat
      BY <1>4, <3>1, <3>3
    <3> DEFINE j == Len(ss[i]) - l + 1
    <3>5. j \in 1 .. Len(ss[i]) /\ Len(ss[i]) - j + 1 = l
      BY <3>4
    <3> HIDE DEF j
    <3>6. ss[i][j] = kv
      BY <1>4, <3>1, <3>2, <3>3, <3>5
    <3>7. PICK p \in 1 .. L : c[p] = i /\ y[p] = j
      BY <1>5, <1>7, <3>5 DEF Places
    <3> QED BY <1>7, <3>6, <3>7 DEF Places
  <2> QED BY <1>8, <2>1, <2>2 DEF ToSet
<1>14. Pairs(t) \in Seq(PV) /\ Sorted(t.cmp, Pairs(t)) /\ ToSet(Pairs(t)) = Listed(t, V) /\ t.cmp \in Cmps
  BY <1>1, PairsAre, TreeFacts DEF PV
<1>15. w = Pairs(t)
  <2> DEFINE u == Pairs(t)
  <2> HIDE DEF u
  <2>1. w \in Seq(Path \X V) /\ u \in Seq(Path \X V) /\ t.cmp \in Cmps
    BY <1>11, <1>14 DEF PV, u
  <2>2. Sorted(t.cmp, w) /\ Sorted(t.cmp, u) /\ ToSet(w) = ToSet(u)
    BY <1>11, <1>12, <1>13, <1>14 DEF u
  <2>3. w = u
    BY <2>1, <2>2, UniqueSorted
  <2> QED BY <2>3 DEF u
<1>16. ScanReverse(t) = flat
  BY DEF ScanReverse, flat, ss, order
<1> QED BY <1>11, <1>15, <1>16

-----------------------------------------------------------------------------
\* The values Persist hands to its conversion are those of the tree, each of them.
LEMMA ConversionsAre ==
    ASSUME NEW V, NEW t, IsTree(t, V)
    PROVE  /\ Conversions(t) \in Seq(V)
           /\ \A v : v \in ToSet(Conversions(t)) <=> \E k \in Path : <<k, v>> \in Listed(t, V)
<1>1. PICK h, span : WellShaped(t, V, h, span)
  BY DEF IsTree
<1> DEFINE D == DOMAIN t.nodes
           order == RightToLeft(t)
           m == Len(order)
           ss == [i \in DOMAIN order |-> t.nodes[order[i]].vals]
           flat == FlattenSeq(ss)
<1>2. /\ RightOrder(t, h, span, t.root, order)
      /\ DOMAIN order = 1 .. m
      /\ \A p \in 1 .. m : order[p] \in D
      /\ \A x \in D : \E p \in 1 .. m : order[p] = x
  BY <1>1, RightToLeftIs
<1>3. m \in Nat
  BY <1>2 DEF RightOrder
<1>4. \A x \in D : t.nodes[x].vals \in Seq(V) /\ DOMAIN t.nodes[x].vals \subseteq 1 .. Len(t.nodes[x].keys)
  <2> SUFFICES ASSUME NEW x \in D PROVE t.nodes[x].vals \in Seq(V) /\ DOMAIN t.nodes[x].vals \subseteq 1 .. Len(t.nodes[x].keys)
    OBVIOUS
  <2>1. t.nodes[x].vals \in Seq(V) /\ (h[x] = 0 \/ h[x] # 0) /\ NodeShaped(t, h, span, span, 0, x)
    BY <1>1, Facts DEF WellShaped
  <2>2. h[x] = 0 => DOMAIN t.nodes[x].vals = 1 .. Len(t.nodes[x].keys)
    BY <1>1, LeafFacts
  <2>3. h[x] # 0 => t.nodes[x].vals = <<>>
    BY <2>1 DEF NodeShaped, InnerShaped
  <2> QED BY <2>1, <2>2, <2>3
<1>5. ss \in Seq(Seq(V)) /\ Len(ss) = m /\ \A i \in 1 .. m : ss[i] = t.nodes[order[i]].vals
  <2> HIDE DEF m, D
  <2>1. ss = [i \in 1 .. m |-> ss[i]] /\ \A i \in 1 .. m : ss[i] \in Seq(V) /\ ss[i] = t.nodes[order[i]].vals
    BY <1>2, <1>4
  <2> HIDE DEF ss
  <2> QED BY <1>3, <2>1
<1>6. flat \in Seq(V) /\ \E c, y : Places(ss, flat, c, y)
  <2> HIDE DEF ss
  <2> QED BY <1>5, FlattenSeqIs
<1>7. PICK c, y : Places(ss, flat, c, y)
  BY <1>6
<1> HIDE DEF flat, ss, order, m
<1>8. DOMAIN flat = 1 .. Len(flat)
  BY <1>6
<1>9. ASSUME NEW p \in 1 .. Len(flat) PROVE \E k \in Path : <<k, flat[p]>> \in Listed(t, V)
  <2>1. c[p] \in 1 .. m /\ y[p] \in 1 .. Len(ss[c[p]]) /\ flat[p] = ss[c[p]][y[p]]
    BY <1>5, <1>7 DEF Places
  <2>2. PICK x \in D : x = order[c[p]]
    BY <1>2, <2>1
  <2> DEFINE n == t.nodes[x]
  <2>3. flat[p] = n.vals[y[p]] /\ y[p] \in DOMAIN n.vals /\ n.vals \in Seq(V)
    BY <1>4, <1>5, <2>1, <2>2
  <2>4. flat[p] \in V
    BY <2>3
  <2>5. n.keys[y[p]] \in Path
    BY <1>1, <1>4, <2>3, Facts DEF WellShaped
  <2>6. <<n.keys[y[p]], flat[p]>> \in Listed(t, V)
    BY <2>3, <2>4, <2>5 DEF Listed
  <2> QED BY <2>5, <2>6
<1>10. ASSUME NEW k \in Path, NEW v, <<k, v>> \in Listed(t, V) PROVE \E p \in 1 .. Len(flat) : flat[p] = v
  <2>1. PICK x \in D : \E i \in DOMAIN t.nodes[x].vals : t.nodes[x].vals[i] = v
    BY <1>10 DEF Listed
  <2>i. PICK i \in DOMAIN t.nodes[x].vals : t.nodes[x].vals[i] = v
    BY <2>1
  <2>2. PICK j \in 1 .. m : order[j] = x
    BY <1>2
  <2>3. ss[j] = t.nodes[x].vals /\ i \in 1 .. Len(ss[j])
    BY <1>4, <1>5, <2>1, <2>2
  <2>4. PICK p \in 1 .. Len(flat) : c[p] = j /\ y[p] = i
    BY <1>5, <1>7, <2>3 DEF Places
  <2>5. flat[p] = ss[c[p]][y[p]]
    BY <1>7 DEF Places
  <2> QED BY <2>i, <2>3, <2>4, <2>5
<1>11. \A v : v \in ToSet(flat) <=> \E p \in 1 .. Len(flat) : flat[p] = v
  BY <1>8 DEF ToSet
<1>12. \A v : v \in ToSet(flat) <=> \E k \in Path : <<k, v>> \in Listed(t, V)
  <2>1. ASSUME NEW v, v \in ToSet(flat) PROVE \E k \in Path : <<k, v>> \in Listed(t, V)
    BY <1>9, <1>11, <2>1
  <2>2. ASSUME NEW v, NEW k \in Path, <<k, v>> \in Listed(t, V) PROVE v \in ToSet(flat)
    BY <1>10, <1>11, <2>2
  <2> QED BY <2>1, <2>2
<1> QED BY <1>6, <1>12 DEF Conversions, flat, ss, order

-----------------------------------------------------------------------------
\* The pairs from a key on are a suffix of all of them.
LEMMA ScanIsSuffix ==
    ASSUME NEW V, NEW t, IsTree(t, V), NEW k \in Path
    PROVE  ScanFrom(t, DOMAIN t.nodes, k).pairs
             = SubSeq(Pairs(t), Cardinality({i \in DOMAIN Pairs(t) : Before(t.cmp, Pairs(t)[i][1], k)}) + 1, Len(Pairs(t)))
<1> DEFINE all == Pairs(t)
           L == Len(all)
           PV == Path \X V
           keys == [i \in 1 .. L |-> all[i][1]]
           n == [keys |-> keys]
           s == Smaller(t.cmp, n, k)
           w == SubSeq(all, s + 1, L)
           r == ScanFrom(t, DOMAIN t.nodes, k)
           up == {l \in Path : ~Before(t.cmp, l, k)}
<1>1. all \in Seq(PV) /\ Sorted(t.cmp, all) /\ ToSet(all) = Listed(t, V)
  BY PairsAre
<1>2. t.cmp \in Cmps
  BY TreeFacts DEF IsTree
<1>3. ScanOf(t, V, DOMAIN t.nodes, up, r)
  BY ScanFromIs
<1> HIDE DEF all, r
<1>4. L \in Nat /\ DOMAIN all = 1 .. L /\ \A i \in 1 .. L : all[i] \in PV
  BY <1>1
<1>5. keys \in Seq(Path) /\ Len(keys) = L /\ DOMAIN keys = 1 .. L
  BY <1>4
<1>6. Increasing(t.cmp, keys)
  BY <1>1, <1>4, <1>5 DEF Increasing, Sorted
<1>7. s \in 0 .. L /\ \A i \in 1 .. L : Before(t.cmp, all[i][1], k) <=> i <= s
  <2>1. n.keys = keys
    OBVIOUS
  <2> HIDE DEF keys, n
  <2>2. s \in 0 .. Len(n.keys) /\ \A i \in 1 .. Len(n.keys) : Before(t.cmp, n.keys[i], k) <=> i <= s
    BY <1>2, <1>5, <1>6, <2>1, SmallerIs
  <2> QED BY <1>5, <2>1, <2>2 DEF keys
<1>8. s = Cardinality({i \in DOMAIN all : Before(t.cmp, all[i][1], k)})
  BY <1>4, <1>5 DEF Smaller
<1> HIDE DEF s, keys, n, L
<1>9. w \in Seq(PV) /\ Len(w) = L - s /\ \A i \in 1 .. L - s : w[i] = all[s + i]
  <2>1. s + 1 \in 1 .. L + 1 /\ L \in 0 .. L
    BY <1>4, <1>7
  <2>2. w = [i \in 1 .. L - s |-> all[s + i]]
    BY <1>4, <1>7, SubSeqProperties DEF L
  <2>3. L - s \in Nat /\ \A i \in 1 .. L - s : all[s + i] \in PV
    BY <1>4, <1>7
  <2> HIDE DEF w, PV
  <2> QED BY <2>2, <2>3
<1>10. Sorted(t.cmp, w)
  <2> HIDE DEF w
  <2>1. \A i \in 1 .. L - s : s + i \in 1 .. L
    BY <1>4, <1>7
  <2>2. \A i, j \in 1 .. L - s : i < j => s + i < s + j
    BY <1>4, <1>7
  <2>3. DOMAIN w = 1 .. L - s
    BY <1>9
  <2>4. ASSUME NEW i \in 1 .. L - s, NEW j \in 1 .. L - s, i < j PROVE Before(t.cmp, w[i][1], w[j][1])
    <3>1. s + i \in DOMAIN all /\ s + j \in DOMAIN all /\ s + i < s + j
      BY <1>4, <2>1, <2>2, <2>4
    <3>2. Before(t.cmp, all[s + i][1], all[s + j][1])
      BY <1>1, <3>1 DEF Sorted
    <3> QED BY <1>9, <3>2
  <2> QED BY <2>3, <2>4 DEF Sorted
<1>11. \A kv : kv \in ToSet(w) <=> kv \in Listed(t, V) /\ kv[1] \in up
  <2> HIDE DEF w
  <2>0. DOMAIN w = 1 .. L - s
    BY <1>9
  <2>1. ASSUME NEW i \in 1 .. L - s PROVE w[i] \in Listed(t, V) /\ w[i][1] \in up
    <3>1. s + i \in 1 .. L /\ ~(s + i <= s)
      BY <1>4, <1>7
    <3>2. ~Before(t.cmp, all[s + i][1], k) /\ all[s + i] \in Listed(t, V) /\ all[s + i][1] \in Path
      BY <1>1, <1>4, <1>7, <3>1 DEF ToSet
    <3> QED BY <1>9, <3>2
  <2>2. ASSUME NEW kv \in Listed(t, V), kv[1] \in up PROVE \E i \in 1 .. L - s : w[i] = kv
    <3>1. PICK i \in 1 .. L : all[i] = kv
      BY <1>1, <1>4 DEF ToSet
    <3>2. ~(i <= s)
      BY <1>7, <2>2, <3>1
    <3>3. i - s \in 1 .. L - s /\ s + (i - s) = i
      BY <1>4, <1>7, <3>2
    <3> QED BY <1>9, <3>1, <3>3
  <2>3. \A kv : kv \in ToSet(w) <=> \E i \in 1 .. L - s : w[i] = kv
    BY <2>0 DEF ToSet
  <2> HIDE DEF up
  <2> QED BY <2>1, <2>2, <2>3
<1>12. r.pairs \in Seq(PV) /\ Sorted(t.cmp, r.pairs)
  BY <1>3 DEF ScanOf
<1>13. \A kv : kv \in ToSet(r.pairs) <=> kv \in Listed(t, V) /\ kv[1] \in up
  BY <1>3 DEF ScanOf
<1>14. ToSet(r.pairs) = ToSet(w)
  BY <1>11, <1>13
<1>15. r.pairs = w
  <2> HIDE DEF w, PV
  <2> QED BY <1>2, <1>9, <1>10, <1>12, <1>14, UniqueSorted DEF PV
<1> QED BY <1>8, <1>15 DEF all, r, L

\* A tree of that shape is what Sound says of one.
THEOREM TreesAreSound ==
    ASSUME NEW V, NEW t, IsTree(t, V), NEW probes, probes \subseteq Path
    PROVE  Sound(t, probes)
<1> DEFINE all == Pairs(t)
<1>0. PICK h, span : WellShaped(t, V, h, span)
  BY DEF IsTree
<1>1. all \in Seq(Path \X V) /\ Sorted(t.cmp, all) /\ ToSet(all) = Listed(t, V)
  BY PairsAre
<1>2. \A p \in DOMAIN t.nodes : Len(t.nodes[p].keys) < Order
  <2> SUFFICES ASSUME NEW p \in DOMAIN t.nodes PROVE Len(t.nodes[p].keys) < Order
    OBVIOUS
  <2>1. NodeShaped(t, h, span, span, 0, p)
    BY <1>0, Facts DEF WellShaped
  <2> QED BY <2>1 DEF NodeShaped
<1>3. ScanReverse(t) = Reverse(all)
  BY ScanReverseIs
<1>4. Range(IterDFS(t)) = DOMAIN t.nodes
  BY IterDFSIs
<1>5. ASSUME NEW i \in DOMAIN all PROVE Find(t, all[i][1]) = <<all[i][2]>>
  <2>1. all[i] \in Path \X V /\ all[i] \in Listed(t, V)
    BY <1>1 DEF ToSet
  <2>2. PICK k \in Path, v \in V : all[i] = <<k, v>>
    BY <2>1
  <2>3. Find(t, k) = <<v>>
    BY <1>0, <2>1, <2>2, FindIs
  <2> HIDE DEF all
  <2> QED BY <2>2, <2>3
<1>6. ASSUME NEW k \in probes, Find(t, k) # <<>> PROVE \E i \in DOMAIN all : all[i][1] = k
  <2>0. k \in Path
    OBVIOUS
  <2>1. PICK v \in V : <<k, v>> \in Listed(t, V)
    BY <1>0, <1>6, <2>0, FindIs
  <2>2. PICK i \in DOMAIN all : all[i] = <<k, v>>
    BY <1>1, <2>1 DEF ToSet
  <2> HIDE DEF all
  <2> QED BY <2>2
<1>7. \A k \in probes : ScanFrom(t, DOMAIN t.nodes, k).pairs
                          = SubSeq(all, Cardinality({i \in DOMAIN all : Before(t.cmp, all[i][1], k)}) + 1, Len(all))
  <2> SUFFICES ASSUME NEW k \in Path
               PROVE  ScanFrom(t, DOMAIN t.nodes, k).pairs
                          = SubSeq(all, Cardinality({i \in DOMAIN all : Before(t.cmp, all[i][1], k)}) + 1, Len(all))
    OBVIOUS
  <2> QED BY ScanIsSuffix
<1> HIDE DEF all
<1> QED BY <1>1, <1>2, <1>3, <1>4, <1>5, <1>6, <1>7 DEF Sound, all

-----------------------------------------------------------------------------
\* The halves of a node that is cut.

\* The first part of a slice, as node.split takes it.
LEMMA UptoIs ==
    ASSUME NEW U, NEW s \in Seq(U), NEW i \in Nat
    PROVE  /\ Upto(s, i) \in Seq(U)
           /\ Len(Upto(s, i)) = IF i <= Len(s) THEN i ELSE Len(s)
           /\ \A j \in 1 .. Len(Upto(s, i)) : j \in 1 .. Len(s) /\ Upto(s, i)[j] = s[j]
<1> DEFINE L == Len(s)
           m == IF i <= L THEN i ELSE L
<1>1. L \in Nat /\ m \in Nat /\ m <= L
  OBVIOUS
<1>2. Min({i, L}) = m
  <2>1. m \in {i, L} /\ \A y \in {i, L} : m <= y
    BY <1>1
  <2>2. \A x \in {i, L} : (\A y \in {i, L} : x <= y) => x = m
    BY <1>1
  <2> HIDE DEF m, L
  <2> QED BY <2>1, <2>2 DEF Min
<1>3. Upto(s, i) = SubSeq(s, 1, m)
  BY <1>2 DEF Upto
<1> HIDE DEF m
<1>4. \A j \in 1 .. m : s[j] \in U /\ 1 + j - 1 = j /\ j \in 1 .. L
  BY <1>1
<1>5. /\ SubSeq(s, 1, m) \in Seq(U) /\ Len(SubSeq(s, 1, m)) = IF 1 <= m THEN m - 1 + 1 ELSE 0
      /\ \A j \in 1 .. m - 1 + 1 : SubSeq(s, 1, m)[j] = s[1 + j - 1]
  BY <1>1, <1>4, SubSeqProperties
<1>6. Len(SubSeq(s, 1, m)) = m /\ \A j \in 1 .. m : SubSeq(s, 1, m)[j] = s[j]
  BY <1>1, <1>4, <1>5
<1> QED BY <1>3, <1>4, <1>5, <1>6 DEF m

\* The second part of a slice, as node.split takes it.
LEMMA RestIs ==
    ASSUME NEW U, NEW s \in Seq(U), NEW i \in Nat
    PROVE  LET r == SubSeq(s, i + 1, Len(s))
           IN  /\ r \in Seq(U)
               /\ Len(r) = IF i <= Len(s) THEN Len(s) - i ELSE 0
               /\ \A j \in 1 .. Len(r) : i + j \in 1 .. Len(s) /\ r[j] = s[i + j]
<1> DEFINE L == Len(s)
           r == SubSeq(s, i + 1, L)
<1>1. L \in Nat /\ \A j \in i + 1 .. L : s[j] \in U
  OBVIOUS
<1>2. /\ r \in Seq(U) /\ Len(r) = IF i + 1 <= L THEN L - (i + 1) + 1 ELSE 0
      /\ \A j \in 1 .. L - (i + 1) + 1 : r[j] = s[i + 1 + j - 1]
  BY <1>1, SubSeqProperties
<1> HIDE DEF r
<1>3. Len(r) = IF i <= L THEN L - i ELSE 0
  BY <1>1, <1>2
<1>4. \A j \in 1 .. Len(r) : i + j \in 1 .. L /\ j \in 1 .. L - (i + 1) + 1 /\ i + 1 + j - 1 = i + j
  BY <1>1, <1>3
<1> QED BY <1>2, <1>3, <1>4 DEF r

\* The place where a full node is cut leaves at least one key on the left and two
\* on the right: Order is at least 3.
LEMMA CutIs ==
    ASSUME NEW n, Len(n.keys) = Order
    PROVE  Cut(n) \in Nat /\ Cut(n) >= 1 /\ Cut(n) <= Order - 2
<1> DEFINE a == (Order + 1) \div 2 - 1
<1>1. a \in Int /\ 1 <= a /\ a <= Order - 2
  BY OrderAssumption
<1>2. Cut(n) = Max({a, 1})
  BY DEF Cut
<1> HIDE DEF a
<1>3. a \in {a, 1} /\ \A y \in {a, 1} : y <= a
  BY <1>1
<1>4. \A x \in {a, 1} : (\A y \in {a, 1} : y <= x) => x = a
  BY <1>1
<1>5. Max({a, 1}) = a
  BY <1>3, <1>4 DEF Max
<1> QED BY <1>1, <1>2, <1>5

\* What a full node is cut into.
Halves(V, n, c) ==
    /\ c \in Nat /\ c >= 1 /\ c <= Order - 2
    /\ Left(n) \in Node(V) /\ Right(n) \in Node(V)
    /\ Left(n).next = n.next /\ Right(n).next = n.next
    /\ Len(Left(n).keys) = c /\ \A i \in 1 .. c : Left(n).keys[i] = n.keys[i]
    /\ Len(Right(n).keys) = Order - c /\ \A i \in 1 .. Order - c : Right(n).keys[i] = n.keys[c + i]
    /\ n.vals = <<>> => Left(n).vals = <<>> /\ Right(n).vals = <<>>
    /\ n.ptrs = <<>> => Left(n).ptrs = <<>> /\ Right(n).ptrs = <<>>
    /\ Len(n.vals) = Order => /\ Len(Left(n).vals) = c /\ \A i \in 1 .. c : Left(n).vals[i] = n.vals[i]
                              /\ Len(Right(n).vals) = Order - c /\ \A i \in 1 .. Order - c : Right(n).vals[i] = n.vals[c + i]
    /\ Len(n.ptrs) = Order + 1 => /\ Len(Left(n).ptrs) = c + 1 /\ \A i \in 1 .. c + 1 : Left(n).ptrs[i] = n.ptrs[i]
                                  /\ Len(Right(n).ptrs) = Order - c /\ \A i \in 1 .. Order - c : Right(n).ptrs[i] = n.ptrs[c + 1 + i]

\* One sequence of a node, up to a place and after it.
HalvesOf(s, c, a, b) ==
    /\ Len(s) = 0 => a = <<>> /\ b = <<>>
    /\ c <= Len(s) => /\ Len(a) = c /\ \A i \in 1 .. c : a[i] = s[i]
                      /\ Len(b) = Len(s) - c /\ \A i \in 1 .. Len(s) - c : b[i] = s[c + i]

\* The two parts of a slice that is cut: nothing is lost and nothing is twice.
LEMMA HalvesOfIs ==
    ASSUME NEW U, NEW s \in Seq(U), NEW c \in Nat
    PROVE  /\ Upto(s, c) \in Seq(U) /\ SubSeq(s, c + 1, Len(s)) \in Seq(U)
           /\ HalvesOf(s, c, Upto(s, c), SubSeq(s, c + 1, Len(s)))
<1> DEFINE a == Upto(s, c)
           b == SubSeq(s, c + 1, Len(s))
<1>1. /\ a \in Seq(U) /\ Len(a) = IF c <= Len(s) THEN c ELSE Len(s)
      /\ \A j \in 1 .. Len(a) : a[j] = s[j]
  BY UptoIs
<1>2. /\ b \in Seq(U) /\ Len(b) = IF c <= Len(s) THEN Len(s) - c ELSE 0
      /\ \A j \in 1 .. Len(b) : b[j] = s[c + j]
  BY RestIs
<1> HIDE DEF a, b
<1>3. Len(s) \in Nat
  OBVIOUS
<1>4. ASSUME Len(s) = 0 PROVE a = <<>> /\ b = <<>>
  <2>1. Len(a) = 0 /\ Len(b) = 0
    BY <1>1, <1>2, <1>4
  <2> QED BY <1>1, <1>2, <2>1
<1> QED BY <1>1, <1>2, <1>3, <1>4 DEF HalvesOf, a, b

\* node.split: the keys of a full node, its values and its pointers, all cut at
\* their place.
LEMMA HalvesAre ==
    ASSUME NEW V, NEW n \in Node(V), Len(n.keys) = Order
    PROVE  Halves(V, n, Cut(n))
<1> DEFINE c == Cut(n)
<1>1. c \in Nat /\ c >= 1 /\ c <= Order - 2 /\ c + 1 \in Nat /\ Order \in Nat
  BY CutIs, OrderAssumption
<1>2. n.keys \in Seq(Path) /\ n.vals \in Seq(V) /\ n.ptrs \in Seq(Nat) /\ n.next \in Nat
  BY DEF Node
<1>n. n = [keys |-> n.keys, vals |-> n.vals, ptrs |-> n.ptrs, next |-> n.next]
  BY DEF Node
<1>3. Left(n) = [keys |-> Upto(n.keys, c), vals |-> Upto(n.vals, c), ptrs |-> Upto(n.ptrs, c + 1), next |-> n.next]
  <2>1. Left(n) = [n EXCEPT !.keys = Upto(n.keys, c), !.vals = Upto(n.vals, c), !.ptrs = Upto(n.ptrs, c + 1)]
    BY <1>n DEF Left
  <2> HIDE DEF c
  <2> QED BY <1>n, <2>1
<1>4. Right(n) = [keys |-> SubSeq(n.keys, c + 1, Len(n.keys)), vals |-> SubSeq(n.vals, c + 1, Len(n.vals)),
                  ptrs |-> SubSeq(n.ptrs, c + 2, Len(n.ptrs)), next |-> n.next]
  <2>1. Right(n) = [n EXCEPT !.keys = SubSeq(n.keys, c + 1, Len(n.keys)),
                             !.vals = SubSeq(n.vals, c + 1, Len(n.vals)),
                             !.ptrs = SubSeq(n.ptrs, c + 2, Len(n.ptrs))]
    BY <1>n DEF Right
  <2> HIDE DEF c
  <2> QED BY <1>n, <2>1
<1> HIDE DEF c
<1>5. c + 2 = (c + 1) + 1
  BY <1>1
<1>6. /\ Left(n).keys \in Seq(Path) /\ Right(n).keys \in Seq(Path) /\ HalvesOf(n.keys, c, Left(n).keys, Right(n).keys)
  <2>1. /\ Upto(n.keys, c) \in Seq(Path) /\ SubSeq(n.keys, c + 1, Len(n.keys)) \in Seq(Path)
        /\ HalvesOf(n.keys, c, Upto(n.keys, c), SubSeq(n.keys, c + 1, Len(n.keys)))
    BY <1>1, <1>2, HalvesOfIs
  <2> QED BY <1>3, <1>4, <2>1
<1>7. /\ Left(n).vals \in Seq(V) /\ Right(n).vals \in Seq(V) /\ HalvesOf(n.vals, c, Left(n).vals, Right(n).vals)
  <2>1. /\ Upto(n.vals, c) \in Seq(V) /\ SubSeq(n.vals, c + 1, Len(n.vals)) \in Seq(V)
        /\ HalvesOf(n.vals, c, Upto(n.vals, c), SubSeq(n.vals, c + 1, Len(n.vals)))
    BY <1>1, <1>2, HalvesOfIs
  <2> QED BY <1>3, <1>4, <2>1
<1>8. /\ Left(n).ptrs \in Seq(Nat) /\ Right(n).ptrs \in Seq(Nat) /\ HalvesOf(n.ptrs, c + 1, Left(n).ptrs, Right(n).ptrs)
  <2>1. /\ Upto(n.ptrs, c + 1) \in Seq(Nat) /\ SubSeq(n.ptrs, (c + 1) + 1, Len(n.ptrs)) \in Seq(Nat)
        /\ HalvesOf(n.ptrs, c + 1, Upto(n.ptrs, c + 1), SubSeq(n.ptrs, (c + 1) + 1, Len(n.ptrs)))
    BY <1>1, <1>2, HalvesOfIs
  <2> QED BY <1>3, <1>4, <1>5, <2>1
<1>9. Left(n) \in Node(V) /\ Right(n) \in Node(V)
  <2>1. Left(n) \in Node(V)
    BY <1>2, <1>3, <1>6, <1>7, <1>8 DEF Node
  <2>2. Right(n) \in Node(V)
    BY <1>2, <1>4, <1>6, <1>7, <1>8 DEF Node
  <2> QED BY <2>1, <2>2
<1> DEFINE l == Left(n)
           r == Right(n)
<1>10. l.next = n.next /\ r.next = n.next
  BY <1>3, <1>4
<1> HIDE DEF l, r
<1>11. Len(l.keys) = c /\ (\A i \in 1 .. c : l.keys[i] = n.keys[i]) /\ Len(r.keys) = Order - c /\ (\A i \in 1 .. Order - c : r.keys[i] = n.keys[c + i])
  BY <1>1, <1>6 DEF HalvesOf, l, r
<1>12. n.vals = <<>> => l.vals = <<>> /\ r.vals = <<>>
  BY <1>7 DEF HalvesOf, l, r
<1>13. n.ptrs = <<>> => l.ptrs = <<>> /\ r.ptrs = <<>>
  BY <1>8 DEF HalvesOf, l, r
<1>14. Len(n.vals) = Order => /\ Len(l.vals) = c /\ \A i \in 1 .. c : l.vals[i] = n.vals[i]
                              /\ Len(r.vals) = Order - c /\ \A i \in 1 .. Order - c : r.vals[i] = n.vals[c + i]
  BY <1>1, <1>7 DEF HalvesOf, l, r
<1>15. Len(n.ptrs) = Order + 1 => /\ Len(l.ptrs) = c + 1 /\ \A i \in 1 .. c + 1 : l.ptrs[i] = n.ptrs[i]
                                  /\ Len(r.ptrs) = Order - c /\ \A i \in 1 .. Order - c : r.ptrs[i] = n.ptrs[c + 1 + i]
  <2> SUFFICES ASSUME Len(n.ptrs) = Order + 1
               PROVE  /\ Len(l.ptrs) = c + 1 /\ \A i \in 1 .. c + 1 : l.ptrs[i] = n.ptrs[i]
                      /\ Len(r.ptrs) = Order - c /\ \A i \in 1 .. Order - c : r.ptrs[i] = n.ptrs[c + 1 + i]
    OBVIOUS
  <2>1. c + 1 <= Len(n.ptrs) /\ Len(n.ptrs) - (c + 1) = Order - c
    BY <1>1
  <2> QED BY <1>8, <2>1 DEF HalvesOf, l, r
<1>16. l \in Node(V) /\ r \in Node(V)
  BY <1>9 DEF l, r
<1>17. Halves(V, n, c)
  BY <1>1, <1>10, <1>11, <1>12, <1>13, <1>14, <1>15, <1>16 DEF Halves, l, r
<1> QED BY <1>17 DEF c

-----------------------------------------------------------------------------
\* A key goes into a node.

\* The facts about an order of the keys that the proofs about the slots use:
\* either comparison of btree.go (PathCmp or strings.Compare) has them.
LEMMA Comparisons ==
    ASSUME NEW cmp \in Cmps, NEW a \in Path, NEW b \in Path, NEW c \in Path
    PROVE  /\ ~Before(cmp, a, a)
           /\ Before(cmp, a, b) => ~Before(cmp, b, a) /\ a # b
           /\ Before(cmp, a, b) /\ Before(cmp, b, c) => Before(cmp, a, c)
           /\ ~Before(cmp, b, a) /\ Before(cmp, b, c) => Before(cmp, a, c)
           /\ Before(cmp, a, b) /\ ~Before(cmp, c, b) => Before(cmp, a, c)
           /\ ~Before(cmp, b, a) /\ ~Before(cmp, c, b) => ~Before(cmp, c, a)
           /\ a = b \/ Before(cmp, a, b) \/ Before(cmp, b, a)
  BY Ordered

Below(cmp, keys, k)  == {l \in keys : Before(cmp, l, k)}
Beyond(cmp, keys, k) == {l \in keys : ~Before(cmp, l, k)}

\* A new key goes in at the place the binary search tells, and the keys still
\* increase.
LEMMA KeyGoesIn ==
    ASSUME NEW cmp \in Cmps, NEW n, n.keys \in Seq(Path), Increasing(cmp, n.keys), NEW k \in Path, ~Has(n, k)
    PROVE  LET i == Smaller(cmp, n, k) + 1
               s == InsertAt(n.keys, i, k)
           IN  /\ i \in 1 .. Len(n.keys) + 1
               /\ Inserted(Path, n.keys, i, k, s)
               /\ Increasing(cmp, s)
<1> DEFINE keys == n.keys
           L == Len(keys)
           i == Smaller(cmp, n, k) + 1
           s == InsertAt(keys, i, k)
<1>1. L \in Nat /\ DOMAIN keys = 1 .. L /\ \A x \in 1 .. L : keys[x] \in Path
  OBVIOUS
<1>2. Smaller(cmp, n, k) \in 0 .. L /\ \A x \in 1 .. L : Before(cmp, keys[x], k) <=> x <= Smaller(cmp, n, k)
  BY SmallerIs
<1>3. i \in 1 .. L + 1 /\ \A x \in 1 .. L : Before(cmp, keys[x], k) <=> x < i
  BY <1>1, <1>2
<1>4. ASSUME NEW x \in 1 .. L, ~(x < i) PROVE Before(cmp, k, keys[x])
  <2>1. keys[x] \in Path /\ keys[x] # k /\ ~Before(cmp, keys[x], k)
    BY <1>1, <1>3, <1>4 DEF Has
  <2> QED BY <2>1, Comparisons
<1>i. keys \in Seq(Path) /\ k \in Path /\ Increasing(cmp, keys)
  OBVIOUS
<1> HIDE DEF keys
<1> HIDE DEF i
<1>5. /\ s \in Seq(Path) /\ Len(s) = L + 1
      /\ \A j \in 1 .. L + 1 : s[j] = IF j < i THEN keys[j] ELSE IF j = i THEN k ELSE keys[j - 1]
  <2>1. Inserted(Path, keys, i, k, s)
    BY <1>3, <1>i, InsertedIs
  <2> QED BY <2>1 DEF Inserted
<1> HIDE DEF L, s
<1>6. ASSUME NEW a \in 1 .. L + 1, NEW b \in 1 .. L + 1, a < b PROVE Before(cmp, s[a], s[b])
  <2>1. CASE b < i
    <3>1. s[a] = keys[a] /\ s[b] = keys[b] /\ a \in 1 .. L /\ b \in 1 .. L
      BY <1>1, <1>3, <1>5, <1>6, <2>1
    <3> QED BY <1>1, <1>6, <1>i, <3>1 DEF Increasing
  <2>2. CASE b = i
    <3>1. s[a] = keys[a] /\ s[b] = k /\ a \in 1 .. L /\ a < i
      BY <1>1, <1>3, <1>5, <1>6, <2>2
    <3> QED BY <1>3, <3>1
  <2>3. CASE b > i /\ a < i
    <3>1. s[a] = keys[a] /\ s[b] = keys[b - 1] /\ a \in 1 .. L /\ b - 1 \in 1 .. L /\ a < b - 1
      BY <1>1, <1>3, <1>5, <1>6, <2>3
    <3> QED BY <1>1, <1>i, <3>1 DEF Increasing
  <2>4. CASE b > i /\ a = i
    <3>1. s[a] = k /\ s[b] = keys[b - 1] /\ b - 1 \in 1 .. L /\ ~(b - 1 < i)
      BY <1>1, <1>3, <1>5, <1>6, <2>4
    <3> QED BY <1>4, <3>1
  <2>5. CASE b > i /\ a > i
    <3>1. s[a] = keys[a - 1] /\ s[b] = keys[b - 1] /\ a - 1 \in 1 .. L /\ b - 1 \in 1 .. L /\ a - 1 < b - 1
      BY <1>1, <1>3, <1>5, <1>6, <2>5
    <3> QED BY <1>1, <1>i, <3>1 DEF Increasing
  <2>6. b < i \/ b = i \/ (b > i /\ a < i) \/ (b > i /\ a = i) \/ (b > i /\ a > i)
    BY <1>1, <1>3
  <2> QED BY <2>1, <2>2, <2>3, <2>4, <2>5, <2>6
<1>7. DOMAIN s = 1 .. L + 1
  BY <1>1, <1>5
<1>8. Increasing(cmp, s)
  BY <1>6, <1>7 DEF Increasing
<1> QED BY <1>3, <1>5, <1>8 DEF keys, L, i, s, Inserted

SlotsWith(cmp, keys, j, k, s) ==
    /\ Slot(cmp, s, j) = Below(cmp, Slot(cmp, keys, j), k)
    /\ Slot(cmp, s, j + 1) = Beyond(cmp, Slot(cmp, keys, j), k)
    /\ \A l \in 1 .. Len(keys) + 2 : l < j => Slot(cmp, s, l) = Slot(cmp, keys, l)
    /\ \A l \in 1 .. Len(keys) + 2 : l > j + 1 => Slot(cmp, s, l) = Slot(cmp, keys, l - 1)

\* A new key cuts the slot it is put into in two, and the other slots stay as they
\* are.
LEMMA KeyParts ==
    ASSUME NEW cmp \in Cmps, NEW keys \in Seq(Path), NEW j \in 1 .. Len(keys) + 1, NEW k \in Slot(cmp, keys, j),
           NEW s, Inserted(Path, keys, j, k, s)
    PROVE  SlotsWith(cmp, keys, j, k, s)
<1> DEFINE L == Len(keys)
<1>1. L \in Nat /\ \A x \in 1 .. L : keys[x] \in Path
  OBVIOUS
<1>2. /\ k \in Path
      /\ j > 1 => ~Before(cmp, k, keys[j - 1])
      /\ j <= L => Before(cmp, k, keys[j])
  BY DEF Slot
<1> HIDE DEF L
<1>3. j \in 1 .. L + 1 /\ Len(s) = L + 1
      /\ \A x \in 1 .. L + 1 : s[x] = IF x < j THEN keys[x] ELSE IF x = j THEN k ELSE keys[x - 1]
  BY DEF L, Inserted
<1>4. Slot(cmp, s, j) = Below(cmp, Slot(cmp, keys, j), k)
  <2>1. s[j] = k /\ j <= L + 1 /\ (j > 1 => s[j - 1] = keys[j - 1])
    BY <1>1, <1>3
  <2>2. ASSUME NEW p \in Path PROVE Before(cmp, p, k) /\ j <= L => Before(cmp, p, keys[j])
    <3>1. j <= L => keys[j] \in Path
      BY <1>1, <1>3
    <3> QED BY <1>2, <3>1, Comparisons
  <2> QED BY <1>2, <1>3, <2>1, <2>2 DEF Slot, Below, L
<1>5. Slot(cmp, s, j + 1) = Beyond(cmp, Slot(cmp, keys, j), k)
  <2>1. s[(j + 1) - 1] = k /\ j + 1 > 1 /\ (j + 1 <= L + 1 <=> j <= L) /\ (j <= L => s[j + 1] = keys[j])
    BY <1>1, <1>3
  <2>2. ASSUME NEW p \in Path PROVE ~Before(cmp, p, k) /\ j > 1 => ~Before(cmp, p, keys[j - 1])
    <3>1. j > 1 => keys[j - 1] \in Path
      BY <1>1, <1>3
    <3> QED BY <1>2, <3>1, Comparisons
  <2> QED BY <1>2, <1>3, <2>1, <2>2 DEF Slot, Beyond, L
<1>6. ASSUME NEW l \in 1 .. L + 2, l < j PROVE Slot(cmp, s, l) = Slot(cmp, keys, l)
  <2>1. s[l] = keys[l] /\ l <= L + 1 /\ l <= L /\ (l > 1 => s[l - 1] = keys[l - 1])
    BY <1>1, <1>3, <1>6
  <2> QED BY <1>3, <2>1 DEF Slot, L
<1>7. ASSUME NEW l \in 1 .. L + 2, l > j + 1 PROVE Slot(cmp, s, l) = Slot(cmp, keys, l - 1)
  <2>1. /\ l > 1 /\ l - 1 > 1 /\ s[l - 1] = keys[(l - 1) - 1] /\ (l <= L + 1 <=> l - 1 <= L)
        /\ l - 1 <= L => s[l] = keys[l - 1]
    BY <1>1, <1>3, <1>7
  <2> QED BY <1>3, <2>1 DEF Slot, L
<1> QED BY <1>4, <1>5, <1>6, <1>7 DEF L, SlotsWith

\* Where it goes when there is a key of the same slot before it.
LEMMA KeyOfSlot ==
    ASSUME NEW cmp \in Cmps, NEW n, n.keys \in Seq(Path), Increasing(cmp, n.keys),
           NEW j \in 1 .. Len(n.keys) + 1, NEW a \in Slot(cmp, n.keys, j), NEW k \in Slot(cmp, n.keys, j), Before(cmp, a, k)
    PROVE  Smaller(cmp, n, k) + 1 = j /\ ~Has(n, k)
<1> DEFINE keys == n.keys
           L == Len(keys)
           s == Smaller(cmp, n, k)
<1>1. /\ k \in Path /\ a \in Path
      /\ j > 1 => ~Before(cmp, a, keys[j - 1])
      /\ j <= L => Before(cmp, k, keys[j])
  BY DEF Slot
<1>2. L \in Nat /\ \A x \in 1 .. L : keys[x] \in Path
  OBVIOUS
<1>3. /\ s \in 0 .. L /\ \A x \in 1 .. L : Before(cmp, keys[x], k) <=> x <= s
      /\ Has(n, k) <=> s < L /\ keys[s + 1] = k
  BY <1>1, SmallerIs
<1>b. Before(cmp, a, k) /\ j \in 1 .. L + 1
  OBVIOUS
<1> HIDE DEF s, keys, L
<1>4. j > 1 => j - 1 <= s
  <2> SUFFICES ASSUME j > 1 PROVE j - 1 <= s
    OBVIOUS
  <2>1. j - 1 \in 1 .. L
    BY <1>2, <1>b
  <2>2. Before(cmp, keys[j - 1], k)
    BY <1>1, <1>2, <1>b, <2>1, Comparisons
  <2> QED BY <1>3, <2>1, <2>2
<1>5. j <= L => ~(j <= s) /\ keys[j] # k
  <2> SUFFICES ASSUME j <= L PROVE ~(j <= s) /\ keys[j] # k
    OBVIOUS
  <2>1. j \in 1 .. L
    BY <1>2, <1>b
  <2>2. ~Before(cmp, keys[j], k) /\ keys[j] # k
    BY <1>1, <1>2, <2>1, Comparisons
  <2> QED BY <1>3, <2>1, <2>2
<1>6. s + 1 = j
  BY <1>2, <1>3, <1>4, <1>5, <1>b
<1>7. ~Has(n, k)
  BY <1>2, <1>3, <1>5, <1>6
<1> QED BY <1>6, <1>7 DEF s

-----------------------------------------------------------------------------
\* A tree with one node that may be full.

NodeFits(t, h, span, seen, orphan, x) ==
    LET n == t.nodes[x]
    IN  /\ Increasing(t.cmp, n.keys)
        /\ \A i \in DOMAIN n.keys : n.keys[i] \in span[x]
        /\ span[x] # {} /\ span[x] \subseteq seen[x] /\ Convex(t.cmp, span[x])
        /\ h[x] = 0 => LeafShaped(t, h, span, x)
        /\ h[x] # 0 => InnerShaped(t, h, span, seen, orphan, x)

\* The shape of a node is its size and what else it must fit.
LEMMA ShapedIs ==
    ASSUME NEW t, NEW h, NEW span, NEW seen, NEW orphan, NEW x
    PROVE  NodeShaped(t, h, span, seen, orphan, x) <=> Len(t.nodes[x].keys) < Order /\ NodeFits(t, h, span, seen, orphan, x)
  BY DEF NodeShaped, NodeFits

Frame(t, V, h, span, seen, orphan) ==
    /\ t \in Tree(V) /\ t.root \in DOMAIN t.nodes /\ t.root # orphan
    /\ h \in [DOMAIN t.nodes -> Nat]
    /\ span \in [DOMAIN t.nodes -> SUBSET Path] /\ seen \in [DOMAIN t.nodes -> SUBSET Path]
    /\ seen[t.root] = Path
    /\ \A x, y \in DOMAIN t.nodes : x # y /\ h[x] = h[y] => span[x] \cap span[y] = {}
    /\ \A x \in DOMAIN t.nodes : h[x] <= h[t.root]

\* The shape of a tree is its frame and the shape of each of its nodes.
LEMMA ShapeIs ==
    ASSUME NEW V, NEW t, NEW h, NEW span, NEW seen, NEW orphan
    PROVE  Shape(t, V, h, span, seen, orphan) <=>
              /\ Frame(t, V, h, span, seen, orphan)
              /\ \A x \in DOMAIN t.nodes : NodeFits(t, h, span, seen, orphan, x) /\ Len(t.nodes[x].keys) < Order
  BY ShapedIs DEF Shape, Frame

Loose(t, V, h, span, at) ==
    /\ Frame(t, V, h, span, span, 0) /\ at \in DOMAIN t.nodes
    /\ \A x \in DOMAIN t.nodes : NodeFits(t, h, span, span, 0, x)
    /\ \A x \in DOMAIN t.nodes : x # at => Len(t.nodes[x].keys) < Order

\* A tree whose one node that might be full is not full has the shape of a tree.
LEMMA LooseIsWell ==
    ASSUME NEW V, NEW t, NEW h, NEW span, NEW at, Loose(t, V, h, span, at), Len(t.nodes[at].keys) < Order
    PROVE  WellShaped(t, V, h, span)
  BY ShapeIs DEF Loose, WellShaped

WithNode(t, at, n) == [t EXCEPT !.nodes[at] = n]

\* A tree with one node replaced (Store.Update): the other nodes, the root and the
\* comparison stay.
LEMMA WithNodeIs ==
    ASSUME NEW V, NEW t \in Tree(V), NEW at \in DOMAIN t.nodes, NEW n \in Node(V)
    PROVE  LET u == WithNode(t, at, n)
           IN  /\ u \in Tree(V) /\ u.root = t.root /\ u.cmp = t.cmp /\ DOMAIN u.nodes = DOMAIN t.nodes
               /\ Len(u.nodes) = Len(t.nodes)
               /\ u.nodes[at] = n /\ \A x \in DOMAIN t.nodes : x # at => u.nodes[x] = t.nodes[x]
<1>1. t = [root |-> t.root, nodes |-> t.nodes, cmp |-> t.cmp] /\ t.nodes \in Seq(Node(V)) /\ t.root \in Nat /\ t.cmp \in Cmps
  BY DEF Tree
<1> DEFINE nodes == [t.nodes EXCEPT ![at] = n]
<1>2. WithNode(t, at, n) = [root |-> t.root, nodes |-> nodes, cmp |-> t.cmp]
  <2>1. WithNode(t, at, n) = [t EXCEPT !.nodes = nodes]
    BY <1>1 DEF WithNode
  <2> HIDE DEF nodes
  <2> QED BY <1>1, <2>1
<1>3. /\ nodes \in Seq(Node(V)) /\ DOMAIN nodes = DOMAIN t.nodes /\ nodes[at] = n /\ Len(nodes) = Len(t.nodes)
      /\ \A x \in DOMAIN t.nodes : x # at => nodes[x] = t.nodes[x]
  BY <1>1
<1> HIDE DEF nodes
<1> QED BY <1>1, <1>2, <1>3 DEF Tree

PairsIn(n) == {<<n.keys[i], n.vals[i]>> : i \in DOMAIN n.vals}

\* A tree lists the pairs its nodes hold.
LEMMA ListedIs ==
    ASSUME NEW V, NEW t, NEW kv
    PROVE  kv \in Listed(t, V) <=> kv \in Path \X V /\ \E x \in DOMAIN t.nodes : kv \in PairsIn(t.nodes[x])
<1>1. ASSUME kv \in Path \X V PROVE kv = <<kv[1], kv[2]>>
  BY <1>1
<1>2. ASSUME NEW x, kv \in Path \X V
      PROVE  kv \in PairsIn(t.nodes[x]) <=> \E i \in DOMAIN t.nodes[x].vals : t.nodes[x].keys[i] = kv[1] /\ t.nodes[x].vals[i] = kv[2]
  BY <1>1, <1>2 DEF PairsIn
<1> QED BY <1>2 DEF Listed

Adds(t, u, at, more) ==
    /\ at \in DOMAIN t.nodes /\ DOMAIN t.nodes \subseteq DOMAIN u.nodes
    /\ \A x \in DOMAIN t.nodes : x # at => u.nodes[x] = t.nodes[x]
    /\ \A kv : (\E x \in DOMAIN u.nodes : (x \notin DOMAIN t.nodes \/ x = at) /\ kv \in PairsIn(u.nodes[x]))
                    <=> kv \in PairsIn(t.nodes[at]) \cup more

\* When one node changes and others are new, the tree lists what it listed and
\* what these hold more.
LEMMA ListedWith ==
    ASSUME NEW V, NEW t, NEW u, NEW at, NEW more, more \subseteq Path \X V, Adds(t, u, at, more)
    PROVE  Listed(u, V) = Listed(t, V) \cup more
<1>1. ASSUME NEW kv, kv \in Listed(u, V) PROVE kv \in Listed(t, V) \cup more
  <2>1. kv \in Path \X V /\ \E x \in DOMAIN u.nodes : kv \in PairsIn(u.nodes[x])
    BY <1>1, ListedIs
  <2>2. kv \in more \/ \E x \in DOMAIN t.nodes : kv \in PairsIn(t.nodes[x])
    BY <2>1 DEF Adds
  <2> QED BY <2>1, <2>2, ListedIs
<1>2. ASSUME NEW kv, kv \in Listed(t, V) \cup more PROVE kv \in Listed(u, V)
  <2>1. kv \in Path \X V /\ (kv \in more \/ \E x \in DOMAIN t.nodes : kv \in PairsIn(t.nodes[x]))
    BY <1>2, ListedIs
  <2>2. \E x \in DOMAIN u.nodes : kv \in PairsIn(u.nodes[x])
    BY <2>1 DEF Adds
  <2> QED BY <2>1, <2>2, ListedIs
<1> QED BY <1>1, <1>2

\* A leaf takes a pair.
LEMMA LeafTakes ==
    ASSUME NEW V, NEW t, NEW h, NEW span, WellShaped(t, V, h, span), NEW at \in DOMAIN t.nodes, h[at] = 0,
           NEW k \in span[at], ~Has(t.nodes[at], k), NEW v \in V
    PROVE  LET n == LeafWith(t, t.nodes[at], k, v)
           IN  /\ n \in Node(V) /\ n.ptrs = <<>> /\ n.next = t.nodes[at].next
               /\ Len(n.keys) = Len(t.nodes[at].keys) + 1 /\ Len(n.vals) = Len(n.keys)
               /\ Increasing(t.cmp, n.keys) /\ \A i \in 1 .. Len(n.keys) : n.keys[i] \in span[at]
               /\ PairsIn(n) = PairsIn(t.nodes[at]) \cup {<<k, v>>}
<1> DEFINE old == t.nodes[at]
           n == LeafWith(t, old, k, v)
           i == Smaller(t.cmp, old, k) + 1
           L == Len(old.keys)
           a == InsertAt(old.keys, i, k)
           b == InsertAt(old.vals, i, v)
<1>1. /\ old \in Node(V) /\ old.keys \in Seq(Path) /\ old.vals \in Seq(V) /\ t.cmp \in Cmps /\ Increasing(t.cmp, old.keys)
      /\ L \in Nat
  BY Facts DEF WellShaped
<1>2. old.ptrs = <<>> /\ Len(old.vals) = L /\ \A x \in 1 .. L : old.keys[x] \in span[at]
  BY LeafFacts
<1>3. k \in Path /\ ~Has(old, k)
  BY TreeFacts
<1> HIDE DEF old
<1>4. /\ i \in 1 .. L + 1 /\ a \in Seq(Path) /\ Len(a) = L + 1
      /\ \A j \in 1 .. L + 1 : a[j] = IF j < i THEN old.keys[j] ELSE IF j = i THEN k ELSE old.keys[j - 1]
      /\ Increasing(t.cmp, a)
  BY <1>1, <1>3, KeyGoesIn DEF Inserted
<1> HIDE DEF i
<1>5. /\ b \in Seq(V) /\ Len(b) = L + 1
      /\ \A j \in 1 .. L + 1 : b[j] = IF j < i THEN old.vals[j] ELSE IF j = i THEN v ELSE old.vals[j - 1]
  <2>1. Len(old.vals) = L /\ i \in 1 .. Len(old.vals) + 1 /\ v \in V
    BY <1>2, <1>4
  <2> HIDE DEF L
  <2>2. Inserted(V, old.vals, i, v, b)
    <3>1. old.vals \in Seq(V) /\ i \in 1 .. Len(old.vals) + 1 /\ v \in V
      BY <1>1, <2>1
    <3> QED BY <3>1, InsertedIs
  <2> HIDE DEF b
  <2> QED BY <2>1, <2>2 DEF Inserted
<1>6. n = [keys |-> a, vals |-> b, ptrs |-> old.ptrs, next |-> old.next]
  <2>1. old = [keys |-> old.keys, vals |-> old.vals, ptrs |-> old.ptrs, next |-> old.next]
    BY <1>1 DEF Node
  <2>2. n = [old EXCEPT !.keys = a, !.vals = b]
    BY <2>1 DEF LeafWith, i
  <2> HIDE DEF a, b, n
  <2> QED BY <2>1, <2>2
<1> HIDE DEF a, b, n, L
<1>7. n \in Node(V) /\ n.ptrs = <<>> /\ n.next = old.next /\ n.keys = a /\ n.vals = b
  BY <1>1, <1>2, <1>4, <1>5, <1>6 DEF Node
<1>8. \A j \in 1 .. L + 1 : a[j] \in span[at]
  <2> SUFFICES ASSUME NEW j \in 1 .. L + 1 PROVE a[j] \in span[at]
    OBVIOUS
  <2>1. j < i \/ j = i \/ (j > i /\ j - 1 \in 1 .. L)
    BY <1>1, <1>4
  <2>2. j < i => j \in 1 .. L
    BY <1>1, <1>4
  <2>3. j > i => ~(j < i) /\ j # i
    BY <1>4
  <2> QED BY <1>2, <1>4, <2>1, <2>2, <2>3
<1>9. DOMAIN b = 1 .. L + 1 /\ DOMAIN old.vals = 1 .. L
  BY <1>1, <1>2, <1>5
<1>10. ASSUME NEW j \in 1 .. L + 1 PROVE <<a[j], b[j]>> \in PairsIn(old) \cup {<<k, v>>}
  <2>1. CASE j < i
    <3>1. j \in 1 .. L /\ a[j] = old.keys[j] /\ b[j] = old.vals[j]
      BY <1>1, <1>4, <1>5, <2>1
    <3> QED BY <1>9, <3>1 DEF PairsIn
  <2>2. CASE j = i
    <3>1. a[j] = k /\ b[j] = v
      BY <1>4, <1>5, <2>2
    <3> QED BY <3>1
  <2>3. CASE j > i
    <3>1. j - 1 \in 1 .. L /\ a[j] = old.keys[j - 1] /\ b[j] = old.vals[j - 1]
      BY <1>1, <1>4, <1>5, <2>3
    <3> QED BY <1>9, <3>1 DEF PairsIn
  <2> QED BY <1>4, <2>1, <2>2, <2>3
<1>11. ASSUME NEW j \in 1 .. L PROVE \E l \in 1 .. L + 1 : a[l] = old.keys[j] /\ b[l] = old.vals[j]
  <2>1. CASE j < i
    <3>1. j \in 1 .. L + 1 /\ a[j] = old.keys[j] /\ b[j] = old.vals[j]
      BY <1>1, <1>4, <1>5, <2>1
    <3> QED BY <3>1
  <2>2. CASE ~(j < i)
    <3>1. j + 1 \in 1 .. L + 1 /\ (j + 1) - 1 = j /\ ~(j + 1 < i) /\ j + 1 # i
      BY <1>1, <1>4, <2>2
    <3>2. a[j + 1] = old.keys[j] /\ b[j + 1] = old.vals[j]
      BY <1>4, <1>5, <3>1
    <3> QED BY <3>1, <3>2
  <2> QED BY <2>1, <2>2
<1>12. i \in 1 .. L + 1 /\ a[i] = k /\ b[i] = v
  BY <1>4, <1>5
<1>13. PairsIn(n) = PairsIn(old) \cup {<<k, v>>}
  <2>1. PairsIn(n) = {<<a[j], b[j]>> : j \in 1 .. L + 1}
    BY <1>7, <1>9 DEF PairsIn
  <2>2. PairsIn(old) = {<<old.keys[j], old.vals[j]>> : j \in 1 .. L}
    BY <1>9 DEF PairsIn
  <2>3. \A kv \in PairsIn(n) : kv \in PairsIn(old) \cup {<<k, v>>}
    BY <1>10, <2>1
  <2>4. \A kv \in PairsIn(old) : kv \in PairsIn(n)
    BY <1>11, <2>1, <2>2
  <2>5. <<k, v>> \in PairsIn(n)
    BY <1>12, <2>1
  <2> QED BY <2>3, <2>4, <2>5
<1> QED BY <1>4, <1>5, <1>7, <1>8, <1>13 DEF old, n, L

\* A leaf that took a key which belongs to it is as before but that it may be
\* full.
LEMMA LeafFits ==
    ASSUME NEW V, NEW t, NEW h, NEW span, WellShaped(t, V, h, span), NEW at \in DOMAIN t.nodes, h[at] = 0,
           NEW n \in Node(V), n.ptrs = <<>>, n.next = t.nodes[at].next, Len(n.vals) = Len(n.keys),
           Increasing(t.cmp, n.keys), \A i \in 1 .. Len(n.keys) : n.keys[i] \in span[at]
    PROVE  Loose(WithNode(t, at, n), V, h, span, at)
<1> DEFINE u == WithNode(t, at, n)
<1>1. /\ Frame(t, V, h, span, span, 0)
      /\ \A x \in DOMAIN t.nodes : NodeFits(t, h, span, span, 0, x) /\ Len(t.nodes[x].keys) < Order
  BY ShapeIs DEF WellShaped
<1>2. t \in Tree(V)
  BY <1>1 DEF Frame
<1>3. /\ u \in Tree(V) /\ u.root = t.root /\ u.cmp = t.cmp /\ DOMAIN u.nodes = DOMAIN t.nodes
      /\ u.nodes[at] = n /\ \A x \in DOMAIN t.nodes : x # at => u.nodes[x] = t.nodes[x]
  BY <1>2, WithNodeIs
<1>4. DOMAIN n.keys = 1 .. Len(n.keys)
  BY DEF Node
<1> HIDE DEF u
<1>5. Frame(u, V, h, span, span, 0)
  BY <1>1, <1>3 DEF Frame
<1>6. ASSUME NEW x \in DOMAIN t.nodes PROVE NodeFits(u, h, span, span, 0, x)
  <2>1. CASE x = at
    <3>1. NodeFits(t, h, span, span, 0, at)
      BY <1>1
    <3>2. span[at] # {} /\ Convex(t.cmp, span[at]) /\ Linked(t, h, span, at)
      BY <3>1 DEF NodeFits, LeafShaped
    <3>3. Linked(u, h, span, at)
      BY <1>3, <3>2 DEF Linked
    <3>4. LeafShaped(u, h, span, at)
      BY <1>3, <3>3 DEF LeafShaped
    <3> QED BY <1>3, <1>4, <2>1, <3>2, <3>4 DEF NodeFits
  <2>2. CASE x # at
    <3>1. NodeFits(t, h, span, span, 0, x)
      BY <1>1
    <3>2. h[x] = 0 => LeafShaped(u, h, span, x)
      <4> SUFFICES ASSUME h[x] = 0 PROVE LeafShaped(u, h, span, x)
        OBVIOUS
      <4>1. LeafShaped(t, h, span, x)
        BY <3>1 DEF NodeFits
      <4>2. Linked(u, h, span, x)
        BY <1>3, <2>2, <4>1 DEF LeafShaped, Linked
      <4> QED BY <1>3, <2>2, <4>1, <4>2 DEF LeafShaped
    <3>3. h[x] # 0 => InnerShaped(u, h, span, span, 0, x)
      BY <1>3, <2>2, <3>1 DEF NodeFits, InnerShaped
    <3> QED BY <1>3, <2>2, <3>1, <3>2, <3>3 DEF NodeFits
  <2> QED BY <2>1, <2>2
<1> QED BY <1>1, <1>3, <1>5, <1>6 DEF Loose, u

-----------------------------------------------------------------------------
\* A node is cut in two: the keys of the right half are those from the key that goes
\* up on, and no inner node points to it yet.

Pending(s, h, span, seen, q) ==
    LET t == s.tree
    IN  /\ s.ptr \in DOMAIN t.nodes /\ q \in DOMAIN t.nodes /\ q # s.ptr /\ h[s.ptr] = h[q]
        /\ s.key \in span[s.ptr]
        /\ span[q] = Below(t.cmp, seen[q], s.key) /\ span[s.ptr] = Beyond(t.cmp, seen[q], s.key)
        /\ \A x \in DOMAIN t.nodes : x # q => seen[x] = span[x]

WithNodes(t, at, l, r) == [t EXCEPT !.nodes = Append([@ EXCEPT ![at] = l], r)]

\* A tree with one node replaced and one appended (Store.Update and Store.Put,
\* when a node is cut): the others stay.
LEMMA WithNodesIs ==
    ASSUME NEW V, NEW t \in Tree(V), NEW at \in DOMAIN t.nodes, NEW l \in Node(V), NEW r \in Node(V)
    PROVE  LET u   == WithNodes(t, at, l, r)
               new == Len(t.nodes) + 1
           IN  /\ u \in Tree(V) /\ u.root = t.root /\ u.cmp = t.cmp
               /\ Len(t.nodes) \in Nat /\ DOMAIN t.nodes = 1 .. Len(t.nodes)
               /\ DOMAIN u.nodes = 1 .. new /\ DOMAIN u.nodes = DOMAIN t.nodes \cup {new} /\ new \notin DOMAIN t.nodes /\ new # 0
               /\ u.nodes[at] = l /\ u.nodes[new] = r
               /\ \A x \in DOMAIN t.nodes : x # at => u.nodes[x] = t.nodes[x]
<1>1. t = [root |-> t.root, nodes |-> t.nodes, cmp |-> t.cmp] /\ t.nodes \in Seq(Node(V)) /\ t.root \in Nat /\ t.cmp \in Cmps
  BY DEF Tree
<1> DEFINE nodes == [t.nodes EXCEPT ![at] = l]
           all == Append(nodes, r)
           N == Len(t.nodes)
<1>2. WithNodes(t, at, l, r) = [root |-> t.root, nodes |-> all, cmp |-> t.cmp]
  <2>1. WithNodes(t, at, l, r) = [t EXCEPT !.nodes = all]
    BY <1>1 DEF WithNodes
  <2> HIDE DEF all
  <2> QED BY <1>1, <2>1
<1>3. /\ nodes \in Seq(Node(V)) /\ DOMAIN nodes = DOMAIN t.nodes /\ nodes[at] = l /\ Len(nodes) = N
      /\ \A x \in DOMAIN t.nodes : x # at => nodes[x] = t.nodes[x]
  BY <1>1
<1>4. N \in Nat /\ DOMAIN t.nodes = 1 .. N /\ N + 1 \notin 1 .. N /\ N + 1 # 0 /\ 1 .. N + 1 = 1 .. N \cup {N + 1}
  <2>1. N \in Nat /\ DOMAIN t.nodes = 1 .. N
    BY <1>1
  <2> HIDE DEF N
  <2> QED BY <2>1
<1> HIDE DEF nodes, N
<1>5. /\ all \in Seq(Node(V)) /\ Len(all) = N + 1 /\ (\A i \in 1 .. N : all[i] = nodes[i]) /\ all[N + 1] = r
  BY <1>3, AppendProperties
<1>6. DOMAIN all = 1 .. N + 1
  <2> HIDE DEF all
  <2> QED BY <1>4, <1>5
<1> HIDE DEF all
<1> QED BY <1>1, <1>2, <1>3, <1>4, <1>5, <1>6 DEF Tree, N

HalfFits(t, h, span, at, m, keys) ==
    /\ Len(m.keys) < Order /\ Increasing(t.cmp, m.keys) /\ \A i \in DOMAIN m.keys : m.keys[i] \in keys
    /\ h[at] = 0 => m.ptrs = <<>> /\ Len(m.vals) = Len(m.keys)
    /\ h[at] # 0 => /\ m.vals = <<>> /\ m.next = 0 /\ Len(m.ptrs) = Len(m.keys) + 1
                    /\ \A j \in 1 .. Len(m.ptrs) : /\ m.ptrs[j] \in DOMAIN t.nodes /\ h[m.ptrs[j]] + 1 = h[at]
                                                   /\ span[m.ptrs[j]] = keys \cap Slot(t.cmp, m.keys, j)

\* A node is cut in two and the new one is not in its parent yet: all is in shape
\* but that the parent takes the old node to have the keys of both.
LEMMA CutShape ==
    ASSUME NEW V, NEW t, NEW h, NEW span, NEW at, Loose(t, V, h, span, at),
           NEW l \in Node(V), NEW r \in Node(V), NEW low \in span[at], NEW k \in span[at], Before(t.cmp, low, k),
           HalfFits(t, h, span, at, l, Below(t.cmp, span[at], k)), HalfFits(t, h, span, at, r, Beyond(t.cmp, span[at], k)),
           h[at] = 0 => l.next = Len(t.nodes) + 1 /\ r.next = t.nodes[at].next
    PROVE  LET u   == WithNodes(t, at, l, r)
               new == Len(t.nodes) + 1
           IN  \E hh, ss, ee : /\ Shape(u, V, hh, ss, ee, new) /\ Pending(Rising(u, k, new), hh, ss, ee, at)
                               /\ \A x \in DOMAIN t.nodes : hh[x] = h[x]
<1> DEFINE u == WithNodes(t, at, l, r)
           new == Len(t.nodes) + 1
           D == DOMAIN t.nodes
           E == DOMAIN u.nodes
           cmp == t.cmp
           keys == span[at]
           lo == Below(cmp, keys, k)
           hi == Beyond(cmp, keys, k)
           hh == [x \in E |-> IF x = new THEN h[at] ELSE h[x]]
           ss == [x \in E |-> IF x = new THEN hi ELSE IF x = at THEN lo ELSE span[x]]
           ee == [x \in E |-> IF x = new THEN hi ELSE span[x]]
<1>1. /\ t \in Tree(V) /\ t.root \in D /\ h \in [D -> Nat] /\ span \in [D -> SUBSET Path] /\ span[t.root] = Path /\ cmp \in Cmps
      /\ \A x, y \in D : x # y /\ h[x] = h[y] => span[x] \cap span[y] = {}
      /\ \A x \in D : h[x] <= h[t.root]
      /\ at \in D
  BY DEF Loose, Frame, Tree
<1>2. \A x \in D : NodeFits(t, h, span, span, 0, x) /\ (x # at => Len(t.nodes[x].keys) < Order)
  BY DEF Loose
<1>3. /\ u \in Tree(V) /\ u.root = t.root /\ u.cmp = cmp
      /\ E = D \cup {new} /\ new \notin D /\ new # 0
      /\ u.nodes[at] = l /\ u.nodes[new] = r
      /\ \A x \in D : x # at => u.nodes[x] = t.nodes[x]
  BY <1>1, WithNodesIs
<1>4. /\ keys \subseteq Path /\ k \in keys /\ k \in Path /\ low \in keys /\ low \in lo /\ lo \subseteq keys /\ hi \subseteq keys
      /\ lo \cup hi = keys /\ lo \cap hi = {}
  BY <1>1 DEF Below, Beyond
<1>5. k \in hi
  BY <1>1, <1>4, Comparisons DEF Beyond
<1>6. NodeFits(t, h, span, span, 0, at) /\ Convex(cmp, keys)
  BY <1>1, <1>2 DEF NodeFits
<1>7. \A a \in lo, b \in hi : Before(cmp, a, b)
  BY <1>1, <1>4, Comparisons DEF Below, Beyond
<1>8. Convex(cmp, lo) /\ Convex(cmp, hi)
  <2>1. ASSUME NEW a \in lo, NEW b \in lo, NEW c \in Path, Before(cmp, a, c), Before(cmp, c, b) PROVE c \in lo
    <3>1. c \in keys
      BY <1>4, <1>6, <2>1 DEF Convex
    <3>2. b \in Path /\ Before(cmp, b, k)
      BY <1>4 DEF Below
    <3>3. Before(cmp, c, k)
      BY <1>1, <1>4, <2>1, <3>2, Comparisons
    <3> QED BY <3>1, <3>3 DEF Below
  <2>2. ASSUME NEW a \in hi, NEW b \in hi, NEW c \in Path, Before(cmp, a, c), Before(cmp, c, b) PROVE c \in hi
    <3>1. c \in keys
      BY <1>4, <1>6, <2>2 DEF Convex
    <3>2. a \in Path /\ ~Before(cmp, a, k)
      BY <1>4 DEF Beyond
    <3>3. ~Before(cmp, c, k)
      BY <1>1, <1>4, <2>2, <3>2, Comparisons
    <3> QED BY <3>1, <3>3 DEF Beyond
  <2> QED BY <2>1, <2>2 DEF Convex
<1>h. /\ HalfFits(t, h, span, at, l, lo) /\ HalfFits(t, h, span, at, r, hi)
      /\ h[at] = 0 => l.next = new /\ r.next = t.nodes[at].next
  OBVIOUS
<1>d. DOMAIN l.keys = 1 .. Len(l.keys) /\ DOMAIN r.keys = 1 .. Len(r.keys)
  BY DEF Node
<1> HIDE DEF u, new, E, lo, hi, keys
<1>9. /\ hh \in [E -> Nat] /\ ss \in [E -> SUBSET Path] /\ ee \in [E -> SUBSET Path]
      /\ hh[new] = h[at] /\ ss[new] = hi /\ ee[new] = hi /\ ss[at] = lo /\ ee[at] = keys
      /\ \A x \in D : hh[x] = h[x] /\ ee[x] = span[x] /\ (x # at => ss[x] = span[x])
  <2>1. hi \in SUBSET Path /\ lo \in SUBSET Path
    BY <1>4
  <2>2. \A x \in E : x = new \/ x \in D
    BY <1>3
  <2>3. at # new /\ new \in E /\ D \subseteq E
    BY <1>1, <1>3
  <2> QED BY <1>1, <1>3, <2>1, <2>2, <2>3 DEF keys
<1> HIDE DEF hh, ss, ee
<1>10. Frame(u, V, hh, ss, ee, new)
  <2>1. \A x, y \in E : x # y /\ hh[x] = hh[y] => ss[x] \cap ss[y] = {}
    <3>1. ASSUME NEW x \in D, NEW y \in D, x # y, h[x] = h[y] PROVE ss[x] \cap ss[y] = {}
      <4>1. ss[x] \subseteq span[x] /\ ss[y] \subseteq span[y]
        BY <1>4, <1>9 DEF keys
      <4> QED BY <1>1, <3>1, <4>1
    <3>2. ASSUME NEW x \in D, h[x] = h[at] PROVE ss[x] \cap hi = {} /\ hi \cap ss[x] = {}
      <4>1. CASE x = at
        BY <1>4, <1>9, <4>1
      <4>2. CASE x # at
        BY <1>1, <1>4, <1>9, <3>2, <4>2 DEF keys
      <4> QED BY <4>1, <4>2
    <3> QED BY <1>3, <1>9, <3>1, <3>2
  <2>2. \A x \in E : hh[x] <= hh[u.root]
    BY <1>1, <1>3, <1>9
  <2>3. ee[u.root] = Path /\ u.root \in E /\ u.root # new
    BY <1>1, <1>3, <1>9
  <2> QED BY <1>3, <1>9, <2>1, <2>2, <2>3 DEF Frame, E
<1>p. \A x \in D : \A j \in 1 .. Len(t.nodes[x].ptrs) : h[x] # 0 => t.nodes[x].ptrs[j] \in D
  BY <1>2 DEF NodeFits, InnerShaped
<1>11. ASSUME NEW x \in D, x # at PROVE NodeFits(u, hh, ss, ee, new, x) /\ Len(u.nodes[x].keys) < Order
  <2>1. NodeFits(t, h, span, span, 0, x) /\ u.nodes[x] = t.nodes[x] /\ hh[x] = h[x] /\ ss[x] = span[x] /\ ee[x] = span[x]
        /\ Len(t.nodes[x].keys) < Order
    BY <1>2, <1>3, <1>9, <1>11
  <2>2. ASSUME h[x] = 0 PROVE LeafShaped(u, hh, ss, x)
    <3> DEFINE y == t.nodes[x].next
    <3>1. LeafShaped(t, h, span, x)
      BY <2>1, <2>2 DEF NodeFits
    <3>2. Linked(u, hh, ss, x)
      <4>1. CASE y = 0 /\ \A a \in span[x], c \in Path : Before(t.cmp, a, c) => c \in span[x]
        BY <1>3, <2>1, <4>1 DEF Linked
      <4>2. CASE /\ y \in D /\ h[y] = 0
                 /\ \A a \in span[x], b \in span[y] :
                       /\ Before(t.cmp, a, b)
                       /\ \A c \in Path : Before(t.cmp, a, c) /\ Before(t.cmp, c, b) => c \in span[x] \cup span[y]
        <5>1. y \in E /\ hh[y] = 0
          BY <1>3, <1>9, <4>2
        <5>2. CASE y # at
          <6>1. ss[y] = span[y]
            BY <1>9, <4>2, <5>2
          <6> QED BY <1>3, <2>1, <4>2, <5>1, <6>1 DEF Linked, E
        <5>3. CASE y = at
          <6>1. ASSUME NEW a \in span[x], NEW b \in lo, NEW c \in Path, Before(cmp, a, c), Before(cmp, c, b) PROVE c \in span[x] \cup lo
            <7>1. b \in keys /\ b \in Path /\ Before(cmp, b, k)
              BY <1>4 DEF Below, lo
            <7>2. c \in span[x] \cup keys
              BY <4>2, <5>3, <6>1, <7>1 DEF keys
            <7>3. Before(cmp, c, k)
              BY <1>1, <1>4, <6>1, <7>1, Comparisons
            <7> QED BY <7>2, <7>3 DEF Below, lo
          <6>2. \A a \in span[x], b \in lo : Before(cmp, a, b)
            BY <1>4, <4>2, <5>3 DEF keys
          <6>3. ss[y] = lo
            BY <1>9, <5>3
          <6> HIDE DEF y
          <6>4. u.nodes[x].next = y
            BY <2>1 DEF y
          <6> QED BY <1>3, <2>1, <5>1, <6>1, <6>2, <6>3, <6>4 DEF Linked, E
        <5> QED BY <5>2, <5>3
      <4> QED BY <3>1, <4>1, <4>2 DEF LeafShaped, Linked
    <3> QED BY <2>1, <3>1, <3>2 DEF LeafShaped
  <2>3. ASSUME h[x] # 0 PROVE InnerShaped(u, hh, ss, ee, new, x)
    <3>1. InnerShaped(t, h, span, span, 0, x)
      BY <2>1, <2>3 DEF NodeFits
    <3>2. ASSUME NEW j \in 1 .. Len(t.nodes[x].ptrs)
          PROVE  LET c == t.nodes[x].ptrs[j]
                 IN  c \in E /\ c # new /\ hh[c] + 1 = h[x] /\ ee[c] = span[x] \cap Slot(cmp, t.nodes[x].keys, j)
      <4> DEFINE c == t.nodes[x].ptrs[j]
      <4>1. c \in D /\ h[c] + 1 = h[x] /\ span[c] = span[x] \cap Slot(cmp, t.nodes[x].keys, j)
        BY <3>1 DEF InnerShaped
      <4> HIDE DEF c
      <4> QED BY <1>3, <1>9, <4>1 DEF c
    <3> QED BY <1>3, <2>1, <3>1, <3>2 DEF InnerShaped, E
  <2>4. span[x] # {} /\ span[x] \subseteq span[x] /\ Convex(cmp, span[x]) /\ Increasing(cmp, t.nodes[x].keys)
        /\ \A i \in DOMAIN t.nodes[x].keys : t.nodes[x].keys[i] \in span[x]
    BY <2>1 DEF NodeFits
  <2> QED BY <1>3, <2>1, <2>2, <2>3, <2>4 DEF NodeFits
<1>12. ASSUME NEW x, NEW m, NEW S, u.nodes[x] = m, ss[x] = S, S \subseteq ee[x], hh[x] = h[at], HalfFits(t, h, span, at, m, S),
              S # {}, Convex(cmp, S), h[at] = 0 => Linked(u, hh, ss, x)
       PROVE  NodeFits(u, hh, ss, ee, new, x) /\ Len(u.nodes[x].keys) < Order
  <2>1. h[at] = 0 => LeafShaped(u, hh, ss, x)
    BY <1>12 DEF HalfFits, LeafShaped
  <2>2. ASSUME h[at] # 0 PROVE InnerShaped(u, hh, ss, ee, new, x)
    <3>1. /\ m.vals = <<>> /\ m.next = 0 /\ Len(m.ptrs) = Len(m.keys) + 1
          /\ \A j \in 1 .. Len(m.ptrs) : /\ m.ptrs[j] \in D /\ h[m.ptrs[j]] + 1 = h[at]
                                         /\ span[m.ptrs[j]] = S \cap Slot(cmp, m.keys, j)
      BY <1>12, <2>2 DEF HalfFits
    <3>2. ASSUME NEW j \in 1 .. Len(m.ptrs)
          PROVE  m.ptrs[j] \in E /\ m.ptrs[j] # new /\ hh[m.ptrs[j]] + 1 = hh[x] /\ ee[m.ptrs[j]] = S \cap Slot(cmp, m.keys, j)
      <4>1. m.ptrs[j] \in D
        BY <3>1
      <4> QED BY <1>3, <1>9, <1>12, <3>1, <4>1
    <3> QED BY <1>3, <1>12, <3>1, <3>2 DEF InnerShaped, E
  <2>3. Len(m.keys) < Order /\ Increasing(cmp, m.keys) /\ \A i \in DOMAIN m.keys : m.keys[i] \in S
    BY <1>12 DEF HalfFits
  <2> QED BY <1>3, <1>12, <2>1, <2>2, <2>3 DEF NodeFits
<1>13. h[at] = 0 => Linked(u, hh, ss, at)
  <2> SUFFICES ASSUME h[at] = 0 PROVE Linked(u, hh, ss, at)
    OBVIOUS
  <2>1. u.nodes[at].next = new /\ new \in E /\ hh[new] = 0
    BY <1>3, <1>9, <1>h
  <2>2. \A a \in lo, b \in hi, c \in Path : Before(cmp, a, c) /\ Before(cmp, c, b) => c \in lo \cup hi
    BY <1>4, <1>6 DEF Convex
  <2> QED BY <1>3, <1>7, <1>9, <2>1, <2>2 DEF Linked, E
<1>14. h[at] = 0 => Linked(u, hh, ss, new)
  <2> SUFFICES ASSUME h[at] = 0 PROVE Linked(u, hh, ss, new)
    OBVIOUS
  <2> DEFINE y == t.nodes[at].next
  <2>1. u.nodes[new].next = y
    BY <1>3, <1>h
  <2>2. Linked(t, h, span, at)
    BY <1>6 DEF NodeFits, LeafShaped
  <2>3. CASE y = 0 /\ \A a \in keys, c \in Path : Before(cmp, a, c) => c \in keys
    <3>1. ASSUME NEW a \in hi, NEW c \in Path, Before(cmp, a, c) PROVE c \in hi
      <4>1. a \in keys /\ a \in Path /\ ~Before(cmp, a, k)
        BY <1>4 DEF Beyond, hi
      <4>2. c \in keys /\ ~Before(cmp, c, k)
        BY <1>1, <1>4, <2>3, <3>1, <4>1, Comparisons
      <4> QED BY <4>2 DEF Beyond, hi
    <3> QED BY <1>3, <1>9, <2>1, <2>3, <3>1 DEF Linked
  <2>4. CASE /\ y \in D /\ h[y] = 0
             /\ \A a \in keys, b \in span[y] :
                   /\ Before(cmp, a, b)
                   /\ \A c \in Path : Before(cmp, a, c) /\ Before(cmp, c, b) => c \in keys \cup span[y]
    <3>1. y # at
      <4>1. low \in keys /\ low \in Path /\ ~Before(cmp, low, low)
        BY <1>1, <1>4, Comparisons
      <4> QED BY <2>4, <4>1 DEF keys
    <3>2. y \in E /\ hh[y] = 0 /\ ss[y] = span[y]
      BY <1>3, <1>9, <2>4, <3>1
    <3>3. ASSUME NEW a \in hi, NEW b \in span[y], NEW c \in Path, Before(cmp, a, c), Before(cmp, c, b) PROVE c \in hi \cup span[y]
      <4>1. a \in keys /\ a \in Path /\ ~Before(cmp, a, k)
        BY <1>4 DEF Beyond, hi
      <4>2. c \in keys \cup span[y]
        BY <2>4, <3>3, <4>1
      <4>3. ~Before(cmp, c, k)
        BY <1>1, <1>4, <3>3, <4>1, Comparisons
      <4> QED BY <4>2, <4>3 DEF Beyond, hi
    <3>4. \A a \in hi, b \in span[y] : Before(cmp, a, b)
      BY <1>4, <2>4
    <3> HIDE DEF y
    <3> QED BY <1>3, <1>9, <2>1, <3>2, <3>3, <3>4 DEF Linked, E
  <2> QED BY <2>2, <2>3, <2>4 DEF Linked, keys
<1>15. NodeFits(u, hh, ss, ee, new, at) /\ Len(u.nodes[at].keys) < Order
  <2>1. /\ u.nodes[at] = l /\ ss[at] = lo /\ lo \subseteq ee[at] /\ hh[at] = h[at] /\ HalfFits(t, h, span, at, l, lo)
        /\ lo # {} /\ Convex(cmp, lo)
    BY <1>1, <1>3, <1>4, <1>8, <1>9, <1>h
  <2> QED BY <1>12, <1>13, <2>1
<1>16. NodeFits(u, hh, ss, ee, new, new) /\ Len(u.nodes[new].keys) < Order
  <2>1. /\ u.nodes[new] = r /\ ss[new] = hi /\ hi \subseteq ee[new] /\ hh[new] = h[at] /\ HalfFits(t, h, span, at, r, hi)
        /\ hi # {} /\ Convex(cmp, hi)
    BY <1>3, <1>5, <1>8, <1>9, <1>h
  <2> QED BY <1>12, <1>14, <2>1
<1>17. Shape(u, V, hh, ss, ee, new)
  <2>1. \A x \in E : NodeFits(u, hh, ss, ee, new, x) /\ Len(u.nodes[x].keys) < Order
    BY <1>3, <1>11, <1>15, <1>16
  <2> QED BY <1>10, <2>1, ShapeIs DEF E
<1>18. Pending(Rising(u, k, new), hh, ss, ee, at)
  <2> DEFINE s == Rising(u, k, new)
  <2>1. s.tree = u /\ s.key = k /\ s.ptr = new
    BY DEF Rising
  <2>2. \A x \in E : x # at => ee[x] = ss[x]
    BY <1>3, <1>9
  <2>3. new \in E /\ at \in E /\ at # new
    BY <1>1, <1>3
  <2>4. ss[at] = Below(u.cmp, ee[at], k) /\ ss[new] = Beyond(u.cmp, ee[at], k) /\ k \in ss[new] /\ hh[new] = hh[at]
    BY <1>1, <1>3, <1>5, <1>9 DEF lo, hi
  <2>5. Pending(s, hh, ss, ee, at)
    <3> HIDE DEF s
    <3> QED BY <2>1, <2>2, <2>3, <2>4 DEF Pending, E
  <2> QED BY <2>5
<1> QED BY <1>9, <1>17, <1>18 DEF u, new

-----------------------------------------------------------------------------
\* Both halves of a full node are as they have to be.

\* The keys of a node that is cut: those left of the cut are below the first one
\* right of it, the others are not.
LEMMA CutKeys ==
    ASSUME NEW cmp \in Cmps, NEW keys \in Seq(Path), Increasing(cmp, keys), NEW c \in 1 .. Len(keys) - 1,
           NEW all, all \subseteq Path, \A i \in 1 .. Len(keys) : keys[i] \in all
    PROVE  /\ keys[c + 1] \in all /\ keys[1] \in all /\ Before(cmp, keys[1], keys[c + 1])
           /\ \A i \in 1 .. c : keys[i] \in Below(cmp, all, keys[c + 1])
           /\ \A i \in 1 .. Len(keys) - c : keys[c + i] \in Beyond(cmp, all, keys[c + 1])
           /\ \A i, j \in 1 .. Len(keys) : i < j => Before(cmp, keys[i], keys[j])
<1> DEFINE L == Len(keys)
           k == keys[c + 1]
<1>1. L \in Nat /\ DOMAIN keys = 1 .. L /\ \A x \in 1 .. L : keys[x] \in Path
  OBVIOUS
<1> HIDE DEF L
<1>2. c \in 1 .. L - 1 /\ \A i \in 1 .. L : keys[i] \in all
  BY DEF L
<1>3. \A i, j \in 1 .. L : i < j => Before(cmp, keys[i], keys[j])
  BY <1>1 DEF Increasing
<1>4. c + 1 \in 1 .. L /\ 1 \in 1 .. L /\ 1 < c + 1
  BY <1>1, <1>2
<1>5. ASSUME NEW i \in 1 .. c PROVE keys[i] \in Below(cmp, all, k)
  <2>1. i \in 1 .. L /\ i < c + 1
    BY <1>1, <1>2
  <2> QED BY <1>2, <1>3, <1>4, <2>1 DEF Below
<1>6. ASSUME NEW i \in 1 .. L - c PROVE keys[c + i] \in Beyond(cmp, all, k)
  <2>1. c + i \in 1 .. L /\ (c + i = c + 1 \/ c + 1 < c + i)
    BY <1>1, <1>2
  <2>2. keys[c + i] \in all /\ keys[c + i] \in Path /\ k \in Path
    BY <1>1, <1>2, <1>4, <2>1
  <2>3. keys[c + i] = k \/ Before(cmp, k, keys[c + i])
    BY <1>3, <1>4, <2>1
  <2>4. ~Before(cmp, keys[c + i], k)
    BY <2>2, <2>3, Comparisons
  <2> QED BY <2>2, <2>4 DEF Beyond
<1> QED BY <1>2, <1>3, <1>4, <1>5, <1>6 DEF L

CutOf(keys, c, a, b) ==
    /\ Len(a) = c /\ \A i \in 1 .. c : a[i] = keys[i]
    /\ Len(b) = Len(keys) - c - 1 /\ \A i \in 1 .. Len(keys) - c - 1 : b[i] = keys[c + 1 + i]

SlotsOfCut(cmp, keys, c, all, a, b) ==
    /\ \A j \in 1 .. c + 1 : Below(cmp, all, keys[c + 1]) \cap Slot(cmp, a, j) = all \cap Slot(cmp, keys, j)
    /\ \A j \in 1 .. Len(keys) - c : Beyond(cmp, all, keys[c + 1]) \cap Slot(cmp, b, j) = all \cap Slot(cmp, keys, c + 1 + j)

\* The slots of the halves of an inner node, the first key of the right one gone.
LEMMA CutSlots ==
    ASSUME NEW cmp \in Cmps, NEW keys \in Seq(Path), Increasing(cmp, keys), NEW c \in 1 .. Len(keys) - 2,
           NEW all, all \subseteq Path, NEW a \in Seq(Path), NEW b \in Seq(Path), CutOf(keys, c, a, b)
    PROVE  SlotsOfCut(cmp, keys, c, all, a, b)
<1> DEFINE L == Len(keys)
           k == keys[c + 1]
<1>1. L \in Nat /\ DOMAIN keys = 1 .. L /\ \A x \in 1 .. L : keys[x] \in Path
  OBVIOUS
<1> HIDE DEF L
<1>2. /\ c \in 1 .. L - 2
      /\ Len(a) = c /\ \A i \in 1 .. c : a[i] = keys[i]
      /\ Len(b) = L - c - 1 /\ \A i \in 1 .. L - c - 1 : b[i] = keys[c + 1 + i]
  BY DEF L, CutOf
<1>3. \A i, j \in 1 .. L : i < j => Before(cmp, keys[i], keys[j])
  BY <1>1 DEF Increasing
<1>4. c + 1 \in 1 .. L /\ k \in Path
  BY <1>1, <1>2
<1>5. ASSUME NEW j \in 1 .. c + 1 PROVE Below(cmp, all, k) \cap Slot(cmp, a, j) = all \cap Slot(cmp, keys, j)
  <2>1. j > 1 => a[j - 1] = keys[j - 1]
    BY <1>2
  <2>2. CASE j = c + 1
    <3>1. ~(j <= Len(a)) /\ j <= L
      BY <1>1, <1>2, <2>2
    <3> QED BY <2>1, <2>2, <3>1 DEF Slot, Below, L
  <2>3. CASE j # c + 1
    <3>1. j \in 1 .. c /\ j <= Len(a) /\ j <= L /\ j \in 1 .. L /\ j < c + 1
      BY <1>1, <1>2, <2>3
    <3>2. a[j] = keys[j] /\ keys[j] \in Path /\ Before(cmp, keys[j], k)
      BY <1>1, <1>2, <1>3, <1>4, <3>1
    <3>3. \A p \in Path : Before(cmp, p, keys[j]) => Before(cmp, p, k)
      BY <1>4, <3>2, Comparisons
    <3> QED BY <2>1, <3>1, <3>2, <3>3 DEF Slot, Below, L
  <2> QED BY <2>2, <2>3
<1>6. ASSUME NEW j \in 1 .. L - c PROVE Beyond(cmp, all, k) \cap Slot(cmp, b, j) = all \cap Slot(cmp, keys, c + 1 + j)
  <2> DEFINE i == c + 1 + j
  <2>1. (j <= Len(b) <=> i <= L) /\ (j <= Len(b) => b[j] = keys[i]) /\ i > 1
    BY <1>1, <1>2
  <2>2. CASE j = 1
    <3>1. i - 1 = c + 1 /\ ~(j > 1)
      BY <1>2, <2>2
    <3> HIDE DEF i
    <3>2. \A p \in all : p \in Slot(cmp, b, j) <=> (j <= Len(b) => Before(cmp, p, b[j]))
      BY <3>1 DEF Slot
    <3>3. \A p \in all : p \in Slot(cmp, keys, i) <=> ~Before(cmp, p, k) /\ (i <= L => Before(cmp, p, keys[i]))
      BY <2>1, <3>1 DEF Slot, L
    <3>4. \A p \in all : (j <= Len(b) => Before(cmp, p, b[j])) <=> (i <= L => Before(cmp, p, keys[i]))
      BY <2>1
    <3>5. \A p \in all : p \in Slot(cmp, keys, i) <=> ~Before(cmp, p, k) /\ p \in Slot(cmp, b, j)
      BY <3>2, <3>3, <3>4
    <3> HIDE DEF k
    <3> QED BY <3>5 DEF Beyond, i
  <2>3. CASE j # 1
    <3>0. L \in Nat /\ c \in Nat /\ j \in Nat /\ j <= L - c /\ j >= 1
      BY <1>1, <1>2
    <3>1. j > 1 /\ j - 1 \in 1 .. L - c - 1 /\ c + 1 + (j - 1) = i - 1 /\ i - 1 \in 1 .. L /\ c + 1 < i - 1
      BY <2>3, <3>0
    <3>2. b[j - 1] = keys[i - 1]
      BY <1>2, <3>1
    <3> HIDE DEF i
    <3>3. keys[i - 1] \in Path /\ Before(cmp, k, keys[i - 1])
      BY <1>1, <1>3, <1>4, <3>1
    <3>4. \A p \in Path : ~Before(cmp, p, keys[i - 1]) => ~Before(cmp, p, k)
      BY <1>4, <3>3, Comparisons
    <3>5. \A p \in all : p \in Slot(cmp, b, j) <=> ~Before(cmp, p, keys[i - 1]) /\ (j <= Len(b) => Before(cmp, p, b[j]))
      BY <3>1, <3>2 DEF Slot
    <3>6. \A p \in all : p \in Slot(cmp, keys, i) <=> ~Before(cmp, p, keys[i - 1]) /\ (i <= L => Before(cmp, p, keys[i]))
      BY <2>1 DEF Slot, L
    <3>7. \A p \in all : (j <= Len(b) => Before(cmp, p, b[j])) <=> (i <= L => Before(cmp, p, keys[i]))
      BY <2>1
    <3>8. \A p \in all : p \in Slot(cmp, keys, i) <=> ~Before(cmp, p, k) /\ p \in Slot(cmp, b, j)
      BY <3>4, <3>5, <3>6, <3>7
    <3> HIDE DEF k
    <3> QED BY <3>8 DEF Beyond, i
  <2> QED BY <2>2, <2>3
<1> QED BY <1>5, <1>6 DEF L, SlotsOfCut

\* A full leaf is cut, and the two are linked.
CutLeaf(t, at) ==
    LET n == t.nodes[at]
    IN  WithNodes(t, at, [Left(n) EXCEPT !.next = Len(t.nodes) + 1], Right(n))

\* BTree.Insert, when a leaf is full: its right half becomes a new leaf that it
\* links to, and no pair is lost; only the parent does not know yet.
LEMMA LeafIsCut ==
    ASSUME NEW V, NEW t, NEW h, NEW span, NEW at, Loose(t, V, h, span, at), h[at] = 0, Len(t.nodes[at].keys) = Order
    PROVE  LET u   == CutLeaf(t, at)
               new == Len(t.nodes) + 1
               k   == Head(Right(t.nodes[at]).keys)
           IN  /\ \E hh, ss, ee : /\ Shape(u, V, hh, ss, ee, new) /\ Pending(Rising(u, k, new), hh, ss, ee, at)
                                  /\ \A x \in DOMAIN t.nodes : hh[x] = h[x]
               /\ Listed(u, V) = Listed(t, V)
<1> DEFINE n == t.nodes[at]
           c == Cut(n)
           new == Len(t.nodes) + 1
           l == [Left(n) EXCEPT !.next = new]
           r == Right(n)
           cmp == t.cmp
           all == span[at]
           k == n.keys[c + 1]
           u == WithNodes(t, at, l, r)
<1>1. t \in Tree(V) /\ at \in DOMAIN t.nodes /\ NodeFits(t, h, span, span, 0, at) /\ all \subseteq Path /\ cmp \in Cmps /\ Order \in Nat
  BY OrderAssumption DEF Loose, Frame, Tree
<1>2. n \in Node(V) /\ n.keys \in Seq(Path) /\ DOMAIN n.keys = 1 .. Len(n.keys) /\ new \in Nat
  <2>1. n \in Node(V) /\ Len(t.nodes) \in Nat
    BY <1>1 DEF Tree
  <2> QED BY <2>1 DEF Node
<1>3. n.ptrs = <<>> /\ Len(n.vals) = Len(n.keys) /\ Increasing(cmp, n.keys) /\ (\A i \in 1 .. Len(n.keys) : n.keys[i] \in all)
  BY <1>1, <1>2 DEF NodeFits, LeafShaped
<1>4. Halves(V, n, c)
  BY <1>2, HalvesAre
<1>5. Len(n.keys) = Order /\ h[at] = 0 /\ Loose(t, V, h, span, at)
  OBVIOUS
<1>6. l \in Node(V) /\ l.keys = Left(n).keys /\ l.vals = Left(n).vals /\ l.ptrs = Left(n).ptrs /\ l.next = new
  <2>1. Left(n) \in Node(V)
    BY <1>4 DEF Halves
  <2> DEFINE m == Left(n)
  <2> HIDE DEF m, new
  <2>2. /\ [m EXCEPT !.next = new] \in Node(V) /\ [m EXCEPT !.next = new].keys = m.keys /\ [m EXCEPT !.next = new].vals = m.vals
        /\ [m EXCEPT !.next = new].ptrs = m.ptrs /\ [m EXCEPT !.next = new].next = new
    BY <1>2, <2>1 DEF Node, m
  <2> QED BY <2>2 DEF m
<1> HIDE DEF n, c, new, l, r, all, cmp
<1>7. /\ c \in Nat /\ c >= 1 /\ c <= Order - 2 /\ r \in Node(V) /\ r.next = n.next
      /\ l.ptrs = <<>> /\ r.ptrs = <<>>
      /\ Len(l.keys) = c /\ (\A i \in 1 .. c : l.keys[i] = n.keys[i])
      /\ Len(r.keys) = Order - c /\ (\A i \in 1 .. Order - c : r.keys[i] = n.keys[c + i])
      /\ Len(l.vals) = c /\ (\A i \in 1 .. c : l.vals[i] = n.vals[i])
      /\ Len(r.vals) = Order - c /\ (\A i \in 1 .. Order - c : r.vals[i] = n.vals[c + i])
  BY <1>3, <1>4, <1>5, <1>6 DEF Halves, r
<1>8. c \in 1 .. Len(n.keys) - 1
  BY <1>1, <1>5, <1>7
<1>9. /\ k \in all /\ n.keys[1] \in all /\ Before(cmp, n.keys[1], k)
      /\ \A i \in 1 .. c : n.keys[i] \in Below(cmp, all, k)
      /\ \A i \in 1 .. Order - c : n.keys[c + i] \in Beyond(cmp, all, k)
      /\ \A i, j \in 1 .. Order : i < j => Before(cmp, n.keys[i], n.keys[j])
  BY <1>1, <1>2, <1>3, <1>5, <1>8, CutKeys
<1>d. DOMAIN l.keys = 1 .. c /\ DOMAIN r.keys = 1 .. Order - c /\ DOMAIN l.vals = 1 .. c /\ DOMAIN r.vals = 1 .. Order - c
      /\ DOMAIN n.vals = 1 .. Order
  <2>1. /\ l.keys \in Seq(Path) /\ r.keys \in Seq(Path) /\ l.vals \in Seq(V) /\ r.vals \in Seq(V) /\ n.vals \in Seq(V)
    BY <1>2, <1>6, <1>7 DEF Node
  <2> QED BY <1>3, <1>5, <1>7, <2>1
<1>10. HalfFits(t, h, span, at, l, Below(cmp, all, k))
  <2>1. Increasing(cmp, l.keys)
    <3>1. \A i \in 1 .. c : i \in 1 .. Order
      BY <1>1, <1>7
    <3> QED BY <1>7, <1>9, <1>d, <3>1 DEF Increasing
  <2>2. Len(l.keys) < Order /\ Len(l.vals) = Len(l.keys)
    BY <1>1, <1>7
  <2> QED BY <1>5, <1>7, <1>9, <1>d, <2>1, <2>2 DEF HalfFits, cmp
<1>11. HalfFits(t, h, span, at, r, Beyond(cmp, all, k))
  <2>1. Increasing(cmp, r.keys)
    <3>1. \A i \in 1 .. Order - c : c + i \in 1 .. Order
      BY <1>1, <1>7
    <3>2. \A i, j \in 1 .. Order - c : i < j => c + i < c + j
      BY <1>1, <1>7
    <3>3. ASSUME NEW i \in 1 .. Order - c, NEW j \in 1 .. Order - c, i < j PROVE Before(cmp, r.keys[i], r.keys[j])
      <4>1. Before(cmp, n.keys[c + i], n.keys[c + j])
        BY <1>9, <3>1, <3>2, <3>3
      <4> QED BY <1>7, <4>1
    <3> QED BY <1>d, <3>3 DEF Increasing
  <2>2. Len(r.keys) < Order /\ Len(r.vals) = Len(r.keys)
    BY <1>1, <1>7
  <2> QED BY <1>5, <1>7, <1>9, <1>d, <2>1, <2>2 DEF HalfFits, cmp
<1>12. Head(r.keys) = k
  <2>1. r.keys \in Seq(Path) /\ 1 \in 1 .. Order - c
    BY <1>1, <1>7 DEF Node
  <2>2. r.keys[1] = k
    BY <1>7, <2>1
  <2>3. Head(r.keys) = r.keys[1]
    BY <1>7, <2>1
  <2> QED BY <2>2, <2>3
<1>13. \E hh, ss, ee : /\ Shape(u, V, hh, ss, ee, new) /\ Pending(Rising(u, k, new), hh, ss, ee, at)
                       /\ \A x \in DOMAIN t.nodes : hh[x] = h[x]
  <2>1. l.next = new /\ r.next = t.nodes[at].next
    BY <1>6, <1>7 DEF n
  <2>2. k \in span[at] /\ n.keys[1] \in span[at] /\ Before(t.cmp, n.keys[1], k)
    BY <1>9 DEF all, cmp
  <2>3. HalfFits(t, h, span, at, l, Below(t.cmp, span[at], k)) /\ HalfFits(t, h, span, at, r, Beyond(t.cmp, span[at], k))
    BY <1>10, <1>11 DEF all, cmp
  <2> HIDE DEF k
  <2> QED BY <1>5, <1>6, <1>7, <2>1, <2>2, <2>3, CutShape DEF new
<1>14. Listed(u, V) = Listed(t, V)
  <2>1. /\ DOMAIN u.nodes = DOMAIN t.nodes \cup {new} /\ new \notin DOMAIN t.nodes
        /\ u.nodes[at] = l /\ u.nodes[new] = r /\ \A x \in DOMAIN t.nodes : x # at => u.nodes[x] = t.nodes[x]
    BY <1>1, <1>6, <1>7, WithNodesIs DEF new
  <2>2. \A kv : kv \in PairsIn(n) <=> \E i \in 1 .. Order : kv = <<n.keys[i], n.vals[i]>>
    BY <1>d DEF PairsIn
  <2>3. \A kv : kv \in PairsIn(l) <=> \E i \in 1 .. c : kv = <<n.keys[i], n.vals[i]>>
    BY <1>7, <1>d DEF PairsIn
  <2>4. \A kv : kv \in PairsIn(r) <=> \E i \in 1 .. Order - c : kv = <<n.keys[c + i], n.vals[c + i]>>
    <3>1. PairsIn(r) = {<<r.keys[i], r.vals[i]>> : i \in 1 .. Order - c}
      BY <1>d DEF PairsIn
    <3>2. \A i \in 1 .. Order - c : <<r.keys[i], r.vals[i]>> = <<n.keys[c + i], n.vals[c + i]>>
      BY <1>7
    <3> QED BY <3>1, <3>2
  <2>5. \A i \in 1 .. Order : i \in 1 .. c \/ (i - c \in 1 .. Order - c /\ c + (i - c) = i)
    BY <1>1, <1>7
  <2>6. (\A i \in 1 .. c : i \in 1 .. Order) /\ (\A i \in 1 .. Order - c : c + i \in 1 .. Order)
    BY <1>1, <1>7
  <2>7. \A kv : kv \in PairsIn(n) <=> kv \in PairsIn(l) \/ kv \in PairsIn(r)
    <3>1. ASSUME NEW i \in 1 .. Order PROVE <<n.keys[i], n.vals[i]>> \in PairsIn(l) \/ <<n.keys[i], n.vals[i]>> \in PairsIn(r)
      <4>1. CASE i \in 1 .. c
        BY <2>3, <4>1
      <4>2. CASE i - c \in 1 .. Order - c /\ c + (i - c) = i
        BY <2>4, <4>2
      <4> QED BY <2>5, <4>1, <4>2
    <3> QED BY <2>2, <2>3, <2>4, <2>6, <3>1
  <2>8. \A kv : (\E x \in DOMAIN u.nodes : (x \notin DOMAIN t.nodes \/ x = at) /\ kv \in PairsIn(u.nodes[x]))
                    <=> kv \in PairsIn(t.nodes[at]) \cup {}
    BY <1>1, <2>1, <2>7 DEF n
  <2> HIDE DEF u
  <2>9. Listed(u, V) = Listed(t, V) \cup {}
    <3>1. at \in DOMAIN t.nodes /\ {} \subseteq Path \X V /\ DOMAIN t.nodes \subseteq DOMAIN u.nodes
          /\ \A x \in DOMAIN t.nodes : x # at => u.nodes[x] = t.nodes[x]
      BY <1>1, <2>1
    <3>2. PICK more : more = {}
      OBVIOUS
    <3>3. more \subseteq Path \X V
      BY <3>2
    <3>4. \A kv : (\E x \in DOMAIN u.nodes : (x \notin DOMAIN t.nodes \/ x = at) /\ kv \in PairsIn(u.nodes[x]))
                    <=> kv \in PairsIn(t.nodes[at]) \cup more
      BY <2>8, <3>2
    <3>5. Listed(u, V) = Listed(t, V) \cup more
      BY <3>1, <3>3, <3>4, ListedWith DEF Adds
    <3> QED BY <3>2, <3>5
  <2> QED BY <2>9
<1>15. CutLeaf(t, at) = u
  BY DEF CutLeaf, n, l, r, new
<1> HIDE DEF u, k
<1> QED BY <1>12, <1>13, <1>14, <1>15 DEF r, n, new

-----------------------------------------------------------------------------
\* A full inner node is cut; the first key of the right half goes up.
CutInner(t, at) ==
    LET n == t.nodes[at]
    IN  WithNodes(t, at, Left(n), [Right(n) EXCEPT !.keys = Tail(@)])

\* insertUpwards, when an inner node is full: the first key of the right half
\* moves up and is not a key of it any more, and no child is lost.
LEMMA InnerIsCut ==
    ASSUME NEW V, NEW t, NEW h, NEW span, NEW at, Loose(t, V, h, span, at), h[at] # 0, Len(t.nodes[at].keys) = Order
    PROVE  LET u   == CutInner(t, at)
               new == Len(t.nodes) + 1
               k   == Head(Right(t.nodes[at]).keys)
           IN  /\ \E hh, ss, ee : /\ Shape(u, V, hh, ss, ee, new) /\ Pending(Rising(u, k, new), hh, ss, ee, at)
                                  /\ \A x \in DOMAIN t.nodes : hh[x] = h[x]
               /\ Listed(u, V) = Listed(t, V)
<1> DEFINE n == t.nodes[at]
           c == Cut(n)
           new == Len(t.nodes) + 1
           l == Left(n)
           m == Right(n)
           r == [m EXCEPT !.keys = Tail(m.keys)]
           cmp == t.cmp
           all == span[at]
           k == n.keys[c + 1]
           u == WithNodes(t, at, l, r)
<1>1. t \in Tree(V) /\ at \in DOMAIN t.nodes /\ NodeFits(t, h, span, span, 0, at) /\ all \subseteq Path /\ cmp \in Cmps /\ Order \in Nat
  BY OrderAssumption DEF Loose, Frame, Tree
<1>2. n \in Node(V) /\ n.keys \in Seq(Path) /\ DOMAIN n.keys = 1 .. Len(n.keys) /\ new \in Nat
  <2>1. n \in Node(V) /\ Len(t.nodes) \in Nat
    BY <1>1 DEF Tree
  <2> QED BY <2>1 DEF Node
<1>3. /\ n.vals = <<>> /\ n.next = 0 /\ Len(n.ptrs) = Len(n.keys) + 1 /\ Increasing(cmp, n.keys)
      /\ \A i \in 1 .. Len(n.keys) : n.keys[i] \in all
      /\ \A j \in 1 .. Len(n.ptrs) : /\ n.ptrs[j] \in DOMAIN t.nodes /\ h[n.ptrs[j]] + 1 = h[at]
                                     /\ span[n.ptrs[j]] = all \cap Slot(cmp, n.keys, j)
  BY <1>1, <1>2 DEF NodeFits, InnerShaped
<1>4. Halves(V, n, c)
  BY <1>2, HalvesAre
<1>5. Len(n.keys) = Order /\ h[at] # 0 /\ Loose(t, V, h, span, at)
  OBVIOUS
<1> HIDE DEF n, c, new, l, m, all, cmp
<1>6. /\ c \in Nat /\ c >= 1 /\ c <= Order - 2 /\ l \in Node(V) /\ m \in Node(V) /\ l.next = 0 /\ m.next = 0
      /\ l.vals = <<>> /\ m.vals = <<>>
      /\ Len(l.keys) = c /\ (\A i \in 1 .. c : l.keys[i] = n.keys[i])
      /\ Len(m.keys) = Order - c /\ (\A i \in 1 .. Order - c : m.keys[i] = n.keys[c + i])
      /\ Len(l.ptrs) = c + 1 /\ (\A i \in 1 .. c + 1 : l.ptrs[i] = n.ptrs[i])
      /\ Len(m.ptrs) = Order - c /\ (\A i \in 1 .. Order - c : m.ptrs[i] = n.ptrs[c + 1 + i])
  BY <1>3, <1>4, <1>5 DEF Halves, l, m
<1>7. l.keys \in Seq(Path) /\ m.keys \in Seq(Path) /\ m.keys # <<>> /\ 1 \in 1 .. Order - c
  <2>1. 1 \in 1 .. Order - c /\ Order - c # 0
    BY <1>1, <1>6
  <2> QED BY <1>6, <2>1 DEF Node
<1>8. Head(m.keys) = k
  <2>1. Head(m.keys) = m.keys[1] /\ c + 1 = c + 1
    BY <1>7
  <2> QED BY <1>6, <1>7, <2>1
<1>9. Tail(m.keys) \in Seq(Path) /\ Len(Tail(m.keys)) = Order - c - 1
      /\ \A i \in 1 .. Order - c - 1 : Tail(m.keys)[i] = n.keys[c + 1 + i]
  <2>1. /\ Tail(m.keys) \in Seq(Path) /\ Len(Tail(m.keys)) = Len(m.keys) - 1
        /\ \A i \in 1 .. Len(Tail(m.keys)) : Tail(m.keys)[i] = m.keys[i + 1]
    BY <1>7, HeadTailProperties
  <2>2. \A i \in 1 .. Order - c - 1 : i + 1 \in 1 .. Order - c /\ c + (i + 1) = c + 1 + i
    BY <1>1, <1>6
  <2> DEFINE w == Tail(m.keys)
  <2> HIDE DEF w
  <2>3. Len(w) = Order - c - 1
    BY <1>6, <2>1 DEF w
  <2>4. \A i \in 1 .. Order - c - 1 : w[i] = n.keys[c + 1 + i]
    <3> SUFFICES ASSUME NEW i \in 1 .. Order - c - 1 PROVE w[i] = n.keys[c + 1 + i]
      OBVIOUS
    <3>1. w[i] = m.keys[i + 1]
      BY <2>1, <2>3 DEF w
    <3>2. m.keys[i + 1] = n.keys[c + (i + 1)]
      BY <1>6, <2>2
    <3> QED BY <2>2, <3>1, <3>2
  <2> QED BY <2>1, <2>3, <2>4 DEF w
<1>10. r \in Node(V) /\ r.keys = Tail(m.keys) /\ r.vals = m.vals /\ r.ptrs = m.ptrs /\ r.next = m.next
  <2> DEFINE w == Tail(m.keys)
  <2>1. w \in Seq(Path)
    BY <1>9
  <2> HIDE DEF w
  <2>2. /\ [m EXCEPT !.keys = w] \in Node(V) /\ [m EXCEPT !.keys = w].keys = w /\ [m EXCEPT !.keys = w].vals = m.vals
        /\ [m EXCEPT !.keys = w].ptrs = m.ptrs /\ [m EXCEPT !.keys = w].next = m.next
    BY <1>6, <2>1 DEF Node
  <2> QED BY <2>2 DEF w
<1> HIDE DEF r
<1>11. /\ r.vals = <<>> /\ r.next = 0 /\ r.keys \in Seq(Path) /\ Len(r.keys) = Order - c - 1
       /\ \A i \in 1 .. Order - c - 1 : r.keys[i] = n.keys[c + 1 + i]
       /\ Len(r.ptrs) = Order - c /\ (\A i \in 1 .. Order - c : r.ptrs[i] = n.ptrs[c + 1 + i])
  BY <1>6, <1>9, <1>10
<1>12. c \in 1 .. Len(n.keys) - 1 /\ c \in 1 .. Len(n.keys) - 2
  BY <1>1, <1>5, <1>6
<1>13. /\ k \in all /\ n.keys[1] \in all /\ Before(cmp, n.keys[1], k)
       /\ \A i \in 1 .. c : n.keys[i] \in Below(cmp, all, k)
       /\ \A i \in 1 .. Order - c : n.keys[c + i] \in Beyond(cmp, all, k)
       /\ \A i, j \in 1 .. Order : i < j => Before(cmp, n.keys[i], n.keys[j])
  BY <1>1, <1>2, <1>3, <1>5, <1>12, CutKeys
<1>14. /\ \A j \in 1 .. c + 1 : Below(cmp, all, k) \cap Slot(cmp, l.keys, j) = all \cap Slot(cmp, n.keys, j)
       /\ \A j \in 1 .. Order - c : Beyond(cmp, all, k) \cap Slot(cmp, r.keys, j) = all \cap Slot(cmp, n.keys, c + 1 + j)
  <2>1. cmp \in Cmps /\ n.keys \in Seq(Path) /\ Increasing(cmp, n.keys) /\ all \subseteq Path
    BY <1>1, <1>2, <1>3
  <2>2. c \in 1 .. Len(n.keys) - 2 /\ l.keys \in Seq(Path) /\ r.keys \in Seq(Path)
    BY <1>7, <1>11, <1>12
  <2>3. Len(l.keys) = c /\ \A i \in 1 .. c : l.keys[i] = n.keys[i]
    BY <1>6
  <2>4. Len(r.keys) = Len(n.keys) - c - 1 /\ \A i \in 1 .. Len(n.keys) - c - 1 : r.keys[i] = n.keys[c + 1 + i]
    BY <1>5, <1>11
  <2>5. CutOf(n.keys, c, l.keys, r.keys)
    BY <2>3, <2>4 DEF CutOf
  <2>6. SlotsOfCut(cmp, n.keys, c, all, l.keys, r.keys)
    BY <2>1, <2>2, <2>5, CutSlots
  <2> QED BY <1>5, <2>6 DEF SlotsOfCut
<1>d. DOMAIN l.keys = 1 .. c /\ DOMAIN r.keys = 1 .. Order - c - 1
  BY <1>6, <1>7, <1>11
<1>15. HalfFits(t, h, span, at, l, Below(cmp, all, k))
  <2>1. Increasing(cmp, l.keys)
    <3>1. \A i \in 1 .. c : i \in 1 .. Order
      BY <1>1, <1>6
    <3> QED BY <1>6, <1>13, <1>d, <3>1 DEF Increasing
  <2>2. Len(l.keys) < Order /\ Len(l.ptrs) = Len(l.keys) + 1 /\ \A i \in DOMAIN l.keys : l.keys[i] \in Below(cmp, all, k)
    BY <1>1, <1>6, <1>13, <1>d
  <2>3. ASSUME NEW j \in 1 .. Len(l.ptrs)
        PROVE  /\ l.ptrs[j] \in DOMAIN t.nodes /\ h[l.ptrs[j]] + 1 = h[at]
               /\ span[l.ptrs[j]] = Below(cmp, all, k) \cap Slot(cmp, l.keys, j)
    <3>1. j \in 1 .. c + 1 /\ j \in 1 .. Len(n.ptrs) /\ l.ptrs[j] = n.ptrs[j]
      BY <1>1, <1>3, <1>5, <1>6
    <3> HIDE DEF k
    <3> QED BY <1>3, <1>14, <3>1
  <2> HIDE DEF k
  <2> QED BY <1>5, <1>6, <2>1, <2>2, <2>3 DEF HalfFits, cmp
<1>16. HalfFits(t, h, span, at, r, Beyond(cmp, all, k))
  <2>0. \A i \in 1 .. Order - c - 1 : c + 1 + i \in 1 .. Order /\ i + 1 \in 1 .. Order - c /\ c + (i + 1) = c + 1 + i
    BY <1>1, <1>6
  <2>1. Increasing(cmp, r.keys)
    <3>1. \A i, j \in 1 .. Order - c - 1 : i < j => c + 1 + i < c + 1 + j
      BY <1>1, <1>6
    <3>2. ASSUME NEW i \in 1 .. Order - c - 1, NEW j \in 1 .. Order - c - 1, i < j PROVE Before(cmp, r.keys[i], r.keys[j])
      <4>1. Before(cmp, n.keys[c + 1 + i], n.keys[c + 1 + j])
        BY <1>13, <2>0, <3>1, <3>2
      <4> QED BY <1>11, <4>1
    <3> QED BY <1>d, <3>2 DEF Increasing
  <2>2. Len(r.keys) < Order /\ Len(r.ptrs) = Len(r.keys) + 1
    BY <1>1, <1>6, <1>11
  <2>3. ASSUME NEW i \in DOMAIN r.keys PROVE r.keys[i] \in Beyond(cmp, all, k)
    <3>1. i \in 1 .. Order - c - 1 /\ r.keys[i] = n.keys[c + (i + 1)] /\ i + 1 \in 1 .. Order - c
      BY <1>11, <1>d, <2>0
    <3> QED BY <1>13, <3>1
  <2>4. ASSUME NEW j \in 1 .. Len(r.ptrs)
        PROVE  /\ r.ptrs[j] \in DOMAIN t.nodes /\ h[r.ptrs[j]] + 1 = h[at]
               /\ span[r.ptrs[j]] = Beyond(cmp, all, k) \cap Slot(cmp, r.keys, j)
    <3>1. j \in 1 .. Order - c /\ r.ptrs[j] = n.ptrs[c + 1 + j]
      BY <1>11
    <3>2. c + 1 + j \in 1 .. Len(n.ptrs)
      BY <1>1, <1>3, <1>5, <1>6, <3>1
    <3> HIDE DEF k
    <3> QED BY <1>3, <1>14, <3>1, <3>2
  <2> HIDE DEF k
  <2> QED BY <1>5, <1>11, <2>1, <2>2, <2>3, <2>4 DEF HalfFits, cmp
<1>17. \E hh, ss, ee : /\ Shape(u, V, hh, ss, ee, new) /\ Pending(Rising(u, k, new), hh, ss, ee, at)
                       /\ \A x \in DOMAIN t.nodes : hh[x] = h[x]
  <2>1. k \in span[at] /\ n.keys[1] \in span[at] /\ Before(t.cmp, n.keys[1], k)
    BY <1>13 DEF all, cmp
  <2>2. HalfFits(t, h, span, at, l, Below(t.cmp, span[at], k)) /\ HalfFits(t, h, span, at, r, Beyond(t.cmp, span[at], k))
    BY <1>15, <1>16 DEF all, cmp
  <2> HIDE DEF k
  <2> QED BY <1>5, <1>6, <1>10, <2>1, <2>2, CutShape DEF new
<1>18. Listed(u, V) = Listed(t, V)
  <2>1. /\ DOMAIN u.nodes = DOMAIN t.nodes \cup {new} /\ new \notin DOMAIN t.nodes
        /\ u.nodes[at] = l /\ u.nodes[new] = r /\ \A x \in DOMAIN t.nodes : x # at => u.nodes[x] = t.nodes[x]
    BY <1>1, <1>6, <1>10, WithNodesIs DEF new
  <2>2. PairsIn(n) = {} /\ PairsIn(l) = {} /\ PairsIn(r) = {}
    BY <1>3, <1>6, <1>11 DEF PairsIn
  <2> HIDE DEF u
  <2>3. PICK more : more = {}
    OBVIOUS
  <2>4. \A kv : (\E x \in DOMAIN u.nodes : (x \notin DOMAIN t.nodes \/ x = at) /\ kv \in PairsIn(u.nodes[x]))
                    <=> kv \in PairsIn(t.nodes[at]) \cup more
    BY <1>1, <2>1, <2>2, <2>3 DEF n
  <2>5. at \in DOMAIN t.nodes /\ more \subseteq Path \X V /\ DOMAIN t.nodes \subseteq DOMAIN u.nodes
        /\ \A x \in DOMAIN t.nodes : x # at => u.nodes[x] = t.nodes[x]
    BY <1>1, <2>1, <2>3
  <2>6. Listed(u, V) = Listed(t, V) \cup more
    BY <2>4, <2>5, ListedWith DEF Adds
  <2> QED BY <2>3, <2>6
<1>19. CutInner(t, at) = u
  <2>1. r = [m EXCEPT !.keys = Tail(@)]
    BY <1>6 DEF r, Node
  <2> QED BY <2>1 DEF CutInner, n, l, m
<1> HIDE DEF u, k
<1> QED BY <1>8, <1>17, <1>18, <1>19 DEF m, n, new

-----------------------------------------------------------------------------
\* An inner node takes the key and the node that come up from below.

KeyedNode(t, old, s) ==
    LET i == Smaller(t.cmp, old, s.key) + 1
    IN  [old EXCEPT !.keys = InsertAt(@, i, s.key), !.ptrs = InsertAt(@, i + 1, s.ptr)]

\* insertUpwards puts the key and the new node into the parent, which then has all
\* its children again and may be full.
LEMMA InnerTakes ==
    ASSUME NEW V, NEW s, NEW h, NEW span, NEW seen, NEW q, Shape(s.tree, V, h, span, seen, s.ptr), Pending(s, h, span, seen, q),
           NEW at \in DOMAIN s.tree.nodes, h[at] # 0,
           NEW j \in 1 .. Len(s.tree.nodes[at].ptrs), s.tree.nodes[at].ptrs[j] = q
    PROVE  LET t == s.tree
               n == KeyedNode(t, t.nodes[at], s)
           IN  /\ n \in Node(V) /\ Len(n.keys) = Len(t.nodes[at].keys) + 1 /\ n.vals = <<>> /\ t.nodes[at].vals = <<>>
               /\ Loose(WithNode(t, at, n), V, h, span, at)
<1> DEFINE t == s.tree
           old == t.nodes[at]
           D == DOMAIN t.nodes
           cmp == t.cmp
           k == s.key
           p == s.ptr
           keys == old.keys
           all == span[at]
           i == Smaller(cmp, old, k) + 1
           a == InsertAt(keys, i, k)
           b == InsertAt(old.ptrs, i + 1, p)
           n == KeyedNode(t, old, s)
           u == WithNode(t, at, n)
<1>1. /\ Frame(t, V, h, span, seen, p)
      /\ \A x \in D : NodeFits(t, h, span, seen, p, x) /\ Len(t.nodes[x].keys) < Order
  BY ShapeIs
<1>2. /\ t \in Tree(V) /\ t.root \in D /\ h \in [D -> Nat] /\ span \in [D -> SUBSET Path] /\ seen[t.root] = Path /\ cmp \in Cmps
      /\ t.root # 0 /\ 0 \notin D
      /\ \A x, y \in D : x # y /\ h[x] = h[y] => span[x] \cap span[y] = {}
      /\ \A x \in D : h[x] <= h[t.root]
  BY <1>1 DEF Frame, Tree
<1>3. /\ p \in D /\ q \in D /\ q # p /\ h[p] = h[q] /\ k \in span[p]
      /\ span[q] = Below(cmp, seen[q], k) /\ span[p] = Beyond(cmp, seen[q], k)
      /\ \A x \in D : x # q => seen[x] = span[x]
  BY DEF Pending
<1>4. /\ old \in Node(V) /\ keys \in Seq(Path) /\ old.ptrs \in Seq(Nat) /\ Increasing(cmp, keys) /\ Len(keys) \in Nat /\ p \in Nat
      /\ old = [keys |-> old.keys, vals |-> old.vals, ptrs |-> old.ptrs, next |-> old.next] /\ all \subseteq Path
      /\ DOMAIN keys = 1 .. Len(keys)
  <2>1. old \in Node(V) /\ p \in Nat /\ at \in D
    BY <1>2, <1>3 DEF Tree
  <2>2. Increasing(cmp, keys)
    BY <1>1 DEF NodeFits
  <2> QED BY <1>2, <2>1, <2>2 DEF Node
<1>5. InnerShaped(t, h, span, seen, p, at) /\ all # {} /\ Convex(cmp, all) /\ \A x \in DOMAIN keys : keys[x] \in all
  <2>1. NodeFits(t, h, span, seen, p, at)
    BY <1>1
  <2> QED BY <2>1 DEF NodeFits
<1>6. /\ old.vals = <<>> /\ old.next = 0 /\ Len(old.ptrs) = Len(keys) + 1
      /\ \A x \in 1 .. Len(old.ptrs) :
            /\ old.ptrs[x] \in D /\ old.ptrs[x] # p /\ h[old.ptrs[x]] + 1 = h[at]
            /\ seen[old.ptrs[x]] = all \cap Slot(cmp, keys, x)
  BY <1>5 DEF InnerShaped
<1>7. /\ j \in 1 .. Len(keys) + 1 /\ old.ptrs[j] = q /\ h[q] + 1 = h[at] /\ seen[q] = all \cap Slot(cmp, keys, j)
  BY <1>6
<1>8. PICK low \in Path : low \in seen[q] /\ Before(cmp, low, k)
  <2>1. span[q] # {} /\ span[q] \subseteq Path
    BY <1>1, <1>2, <1>3 DEF NodeFits
  <2> QED BY <1>3, <2>1 DEF Below
<1>9. k \in seen[q] /\ k \in all /\ k \in Slot(cmp, keys, j) /\ k \in Path /\ low \in Slot(cmp, keys, j) /\ low \in all
  <2>1. k \in seen[q]
    BY <1>3 DEF Beyond
  <2> QED BY <1>4, <1>7, <1>8, <2>1
<1>10. i = j /\ ~Has(old, k)
  BY <1>2, <1>4, <1>7, <1>8, <1>9, KeyOfSlot
<1>11. Inserted(Path, keys, j, k, a) /\ Increasing(cmp, a)
  <2>1. Inserted(Path, keys, i, k, a) /\ Increasing(cmp, a)
    BY <1>2, <1>4, <1>9, <1>10, KeyGoesIn
  <2> QED BY <1>10, <2>1
<1> HIDE DEF i, old, t, D, k, p, keys, all, cmp
<1>12. Inserted(Nat, old.ptrs, j + 1, p, b)
  <2>1. i + 1 \in 1 .. Len(old.ptrs) + 1 /\ i + 1 = j + 1
    BY <1>4, <1>6, <1>7, <1>10
  <2>2. Inserted(Nat, old.ptrs, i + 1, p, b)
    BY <1>4, <2>1, InsertedIs
  <2> QED BY <2>1, <2>2
<1>13. n = [keys |-> a, vals |-> old.vals, ptrs |-> b, next |-> old.next]
  <2>1. n = [old EXCEPT !.keys = a, !.ptrs = b]
    BY <1>4 DEF KeyedNode, i, cmp, k, p, keys
  <2> HIDE DEF a, b, n
  <2> QED BY <1>4, <2>1
<1> HIDE DEF a, b, n
<1>14. /\ a \in Seq(Path) /\ Len(a) = Len(keys) + 1 /\ \A x \in 1 .. Len(keys) + 1 : a[x] = IF x < j THEN keys[x] ELSE IF x = j THEN k ELSE keys[x - 1]
       /\ b \in Seq(Nat) /\ Len(b) = Len(keys) + 2
  BY <1>4, <1>6, <1>11, <1>12 DEF Inserted
<1>15. n \in Node(V) /\ n.keys = a /\ n.vals = <<>> /\ n.ptrs = b /\ n.next = 0
  BY <1>4, <1>6, <1>13, <1>14 DEF Node
<1>16. SlotsWith(cmp, keys, j, k, a)
  BY <1>2, <1>4, <1>7, <1>9, <1>11, KeyParts
<1>17. ASSUME NEW x \in 1 .. Len(keys) + 1, x # j PROVE old.ptrs[x] # q
  <2> SUFFICES ASSUME old.ptrs[x] = q PROVE FALSE
    OBVIOUS
  <2>1. low \in Slot(cmp, keys, x)
    <3>1. seen[q] = all \cap Slot(cmp, keys, x)
      BY <1>6, <1>17
    <3> QED BY <1>8, <3>1
  <2>2. x < j \/ j < x
    BY <1>7, <1>17
  <2>3. Before(cmp, low, low)
    BY <1>2, <1>4, <1>7, <1>9, <1>17, <2>1, <2>2, SlotsAreOrdered
  <2> QED BY <1>2, <1>8, <2>3, Comparisons
<1>18. ASSUME NEW x \in 1 .. Len(keys) + 2
       PROVE  b[x] \in D /\ h[b[x]] + 1 = h[at] /\ span[b[x]] = all \cap Slot(cmp, a, x)
  <2>0. b[x] = IF x < j + 1 THEN old.ptrs[x] ELSE IF x = j + 1 THEN p ELSE old.ptrs[x - 1]
    BY <1>6, <1>12 DEF Inserted
  <2>1. CASE x < j
    <3>1. x \in 1 .. Len(keys) + 1 /\ x # j /\ x < j + 1
      BY <1>7, <2>1
    <3>2. b[x] = old.ptrs[x] /\ b[x] # q
      BY <1>17, <2>0, <3>1
    <3>3. Slot(cmp, a, x) = Slot(cmp, keys, x)
      BY <1>16, <2>1 DEF SlotsWith
    <3>4. b[x] \in D /\ h[b[x]] + 1 = h[at] /\ seen[b[x]] = all \cap Slot(cmp, keys, x)
      BY <1>6, <3>1, <3>2
    <3> QED BY <1>3, <3>2, <3>3, <3>4
  <2>2. CASE x = j
    <3>1. b[x] = q
      BY <1>7, <2>0, <2>2
    <3>2. Slot(cmp, a, x) = Below(cmp, Slot(cmp, keys, j), k)
      BY <1>16, <2>2 DEF SlotsWith
    <3>3. Below(cmp, all \cap Slot(cmp, keys, j), k) = all \cap Below(cmp, Slot(cmp, keys, j), k)
      BY DEF Below
    <3> QED BY <1>3, <1>7, <3>1, <3>2, <3>3
  <2>3. CASE x = j + 1
    <3>1. b[x] = p
      BY <1>7, <2>0, <2>3
    <3>2. Slot(cmp, a, x) = Beyond(cmp, Slot(cmp, keys, j), k)
      BY <1>16, <2>3 DEF SlotsWith
    <3>3. Beyond(cmp, all \cap Slot(cmp, keys, j), k) = all \cap Beyond(cmp, Slot(cmp, keys, j), k)
      BY DEF Beyond
    <3> QED BY <1>3, <1>7, <3>1, <3>2, <3>3
  <2>4. CASE x > j + 1
    <3>1. x - 1 \in 1 .. Len(keys) + 1 /\ x - 1 # j /\ ~(x < j + 1) /\ x # j + 1
      BY <1>7, <2>4
    <3>2. b[x] = old.ptrs[x - 1] /\ b[x] # q
      BY <1>17, <2>0, <3>1
    <3>3. Slot(cmp, a, x) = Slot(cmp, keys, x - 1)
      BY <1>16, <2>4 DEF SlotsWith
    <3>4. b[x] \in D /\ h[b[x]] + 1 = h[at] /\ seen[b[x]] = all \cap Slot(cmp, keys, x - 1)
      BY <1>6, <3>1, <3>2
    <3> QED BY <1>3, <3>2, <3>3, <3>4
  <2>5. x < j \/ x = j \/ x = j + 1 \/ x > j + 1
    BY <1>7
  <2> QED BY <2>1, <2>2, <2>3, <2>4, <2>5
<1>19. ASSUME NEW x \in 1 .. Len(keys) + 1 PROVE a[x] \in all
  <2>1. x < j => x \in 1 .. Len(keys)
    BY <1>4, <1>7
  <2>2. x > j => x - 1 \in 1 .. Len(keys) /\ ~(x < j) /\ x # j
    BY <1>4, <1>7
  <2>3. x < j \/ x = j \/ x > j
    BY <1>7
  <2>4. \A y \in 1 .. Len(keys) : keys[y] \in all
    BY <1>4, <1>5
  <2> QED BY <1>9, <1>14, <2>1, <2>2, <2>3, <2>4
<1>a. at \in D /\ h[at] # 0
  BY DEF D, t
<1>20. /\ u \in Tree(V) /\ u.root = t.root /\ u.cmp = cmp /\ DOMAIN u.nodes = D
       /\ u.nodes[at] = n /\ \A x \in D : x # at => u.nodes[x] = t.nodes[x]
  BY <1>2, <1>15, <1>a, WithNodeIs DEF D, cmp
<1> HIDE DEF u
<1>21. Frame(u, V, h, span, span, 0)
  <2>1. t.root # q
    <3>1. h[q] + 1 <= h[t.root] /\ h[q] \in Nat
      BY <1>2, <1>3, <1>7, <1>a
    <3> QED BY <1>2, <3>1
  <2>2. span[t.root] = Path
    BY <1>2, <1>3, <2>1
  <2> QED BY <1>2, <1>20, <2>2 DEF Frame
<1>22. NodeFits(u, h, span, span, 0, at)
  <2>1. InnerShaped(u, h, span, span, 0, at)
    <3>1. \A x \in 1 .. Len(b) : b[x] \in D /\ b[x] # 0 /\ h[b[x]] + 1 = h[at] /\ span[b[x]] = all \cap Slot(cmp, a, x)
      BY <1>2, <1>14, <1>18
    <3>2. Len(b) = Len(a) + 1
      BY <1>4, <1>14
    <3> QED BY <1>15, <1>20, <3>1, <3>2 DEF InnerShaped, all
  <2>2. DOMAIN a = 1 .. Len(keys) + 1
    BY <1>14
  <2> QED BY <1>5, <1>11, <1>15, <1>19, <1>20, <1>a, <2>1, <2>2 DEF NodeFits, all
<1>23. ASSUME NEW x \in D, x # at PROVE NodeFits(u, h, span, span, 0, x) /\ Len(u.nodes[x].keys) < Order
  <2>1. NodeFits(t, h, span, seen, p, x) /\ u.nodes[x] = t.nodes[x] /\ Len(t.nodes[x].keys) < Order
    BY <1>1, <1>20, <1>23
  <2>2. ASSUME h[x] = 0 PROVE LeafShaped(u, h, span, x)
    <3>1. LeafShaped(t, h, span, x)
      BY <2>1, <2>2 DEF NodeFits
    <3>2. Linked(t, h, span, x)
      BY <3>1 DEF LeafShaped
    <3>3. Linked(u, h, span, x)
      BY <1>20, <2>1, <3>2 DEF Linked, D, cmp
    <3> QED BY <1>20, <2>1, <3>1, <3>3 DEF LeafShaped
  <2>3. ASSUME h[x] # 0 PROVE InnerShaped(u, h, span, span, 0, x)
    <3>1. InnerShaped(t, h, span, seen, p, x)
      BY <2>1, <2>3 DEF NodeFits
    <3>2. ASSUME NEW l \in 1 .. Len(t.nodes[x].ptrs)
          PROVE  LET c == t.nodes[x].ptrs[l]
                 IN  c \in D /\ c # 0 /\ h[c] + 1 = h[x] /\ span[c] = span[x] \cap Slot(cmp, t.nodes[x].keys, l)
      <4> DEFINE c == t.nodes[x].ptrs[l]
      <4>1. c \in D /\ h[c] + 1 = h[x] /\ seen[c] = span[x] \cap Slot(cmp, t.nodes[x].keys, l)
        BY <3>1 DEF InnerShaped, D, cmp
      <4> HIDE DEF c
      <4>2. c # q
        <5> SUFFICES ASSUME c = q PROVE FALSE
          OBVIOUS
        <5>1. h[x] = h[at] /\ low \in span[x] /\ low \in span[at]
          BY <1>7, <1>8, <1>9, <4>1 DEF all
        <5>2. span[x] \cap span[at] = {}
          BY <1>2, <1>23, <1>a, <5>1
        <5> QED BY <5>1, <5>2
      <4>3. span[c] = seen[c] /\ c # 0
        BY <1>2, <1>3, <4>1, <4>2
      <4> QED BY <4>1, <4>3 DEF c
    <3> QED BY <1>20, <2>1, <3>1, <3>2 DEF InnerShaped
  <2>4. span[x] # {} /\ Convex(cmp, span[x]) /\ Increasing(cmp, t.nodes[x].keys)
        /\ \A y \in DOMAIN t.nodes[x].keys : t.nodes[x].keys[y] \in span[x]
    BY <2>1 DEF NodeFits, cmp
  <2> QED BY <1>20, <2>1, <2>2, <2>3, <2>4 DEF NodeFits
<1>24. Loose(u, V, h, span, at)
  BY <1>20, <1>21, <1>22, <1>23, <1>a DEF Loose
<1> QED BY <1>6, <1>14, <1>15, <1>24 DEF u, n, t, old, keys

-----------------------------------------------------------------------------
\* What an insertion is on its way up: nothing above q has changed yet.
Climb(V, t0, h0, s, q, list) ==
    /\ s.tree \in Tree(V) /\ s.tree.root = t0.root /\ s.tree.cmp = t0.cmp /\ Listed(s.tree, V) = list
    /\ \A x \in DOMAIN t0.nodes : x \in DOMAIN s.tree.nodes
    /\ \A x \in DOMAIN t0.nodes : h0[x] > h0[q] => s.tree.nodes[x] = t0.nodes[x]
    /\ s.ptr = 0 => IsTree(s.tree, V)
    /\ s.ptr # 0 => \E h, span, seen : /\ Shape(s.tree, V, h, span, seen, s.ptr) /\ Pending(s, h, span, seen, q)
                                       /\ \A x \in DOMAIN t0.nodes : h[x] = h0[x]

\* The parts of what goes up.
LEMMA RisingIs ==
    ASSUME NEW t, NEW k, NEW p
    PROVE  Rising(t, k, p).tree = t /\ Rising(t, k, p).key = k /\ Rising(t, k, p).ptr = p
  BY DEF Rising

\* A node that is replaced twice is what it is the second time.
LEMMA WithNodesOver ==
    ASSUME NEW V, NEW t \in Tree(V), NEW at \in DOMAIN t.nodes, NEW n \in Node(V), NEW l, NEW r
    PROVE  WithNodes(WithNode(t, at, n), at, l, r) = WithNodes(t, at, l, r)
<1> DEFINE a == [t.nodes EXCEPT ![at] = n]
           u == WithNode(t, at, n)
<1>1. t = [root |-> t.root, nodes |-> t.nodes, cmp |-> t.cmp] /\ t.nodes \in Seq(Node(V))
  BY DEF Tree
<1>2. u = [root |-> t.root, nodes |-> a, cmp |-> t.cmp]
  <2>1. u = [t EXCEPT !.nodes = a]
    BY <1>1 DEF WithNode
  <2> HIDE DEF a, u
  <2> QED BY <1>1, <2>1
<1>3. [a EXCEPT ![at] = l] = [t.nodes EXCEPT ![at] = l]
  BY <1>1
<1> HIDE DEF a, u
<1>4. WithNodes(u, at, l, r) = [root |-> t.root, nodes |-> Append([a EXCEPT ![at] = l], r), cmp |-> t.cmp]
  <2> DEFINE b == Append([a EXCEPT ![at] = l], r)
  <2>1. WithNodes(u, at, l, r) = [u EXCEPT !.nodes = b]
    BY <1>2 DEF WithNodes
  <2> HIDE DEF b
  <2> QED BY <1>2, <2>1 DEF b
<1>5. WithNodes(t, at, l, r) = [root |-> t.root, nodes |-> Append([t.nodes EXCEPT ![at] = l], r), cmp |-> t.cmp]
  <2> DEFINE b == Append([t.nodes EXCEPT ![at] = l], r)
  <2>1. WithNodes(t, at, l, r) = [t EXCEPT !.nodes = b]
    BY <1>1 DEF WithNodes
  <2> HIDE DEF b
  <2> QED BY <1>1, <2>1 DEF b
<1> QED BY <1>3, <1>4, <1>5 DEF u

\* A step of Into, in the terms of the lemmas.
LEMMA IntoParts ==
    ASSUME NEW V, NEW s, s.tree \in Tree(V), NEW at \in DOMAIN s.tree.nodes, KeyedNode(s.tree, s.tree.nodes[at], s) \in Node(V)
    PROVE  LET t == s.tree
               n == KeyedNode(t, t.nodes[at], s)
               u == WithNode(t, at, n)
           IN  /\ s.ptr = 0 => Into(s, at) = s
               /\ s.ptr # 0 /\ Len(n.keys) < Order => Into(s, at) = Rising(u, s.key, 0)
               /\ s.ptr # 0 /\ ~(Len(n.keys) < Order) => Into(s, at) = Rising(CutInner(u, at), Head(Right(n).keys), Len(t.nodes) + 1)
<1> DEFINE t == s.tree
           n == KeyedNode(t, t.nodes[at], s)
           u == WithNode(t, at, n)
           right == Right(n)
           cut == [t EXCEPT !.nodes = Append([@ EXCEPT ![at] = Left(n)], [right EXCEPT !.keys = Tail(@)])]
<1>1. Into(s, at) = IF s.ptr = 0 THEN s
                    ELSE IF Len(n.keys) < Order THEN Rising(u, s.key, 0)
                    ELSE Rising(cut, Head(right.keys), Len(t.nodes) + 1)
  BY DEF Into, KeyedNode, WithNode
<1>2. cut = WithNodes(t, at, Left(n), [Right(n) EXCEPT !.keys = Tail(@)])
  BY DEF WithNodes
<1>3. u.nodes[at] = n
  BY WithNodeIs
<1>4. CutInner(u, at) = WithNodes(u, at, Left(n), [Right(n) EXCEPT !.keys = Tail(@)])
  <2> HIDE DEF n, u
  <2> QED BY <1>3 DEF CutInner
<1>5. CutInner(u, at) = cut
  <2>1. WithNodes(u, at, Left(n), [Right(n) EXCEPT !.keys = Tail(@)]) = WithNodes(t, at, Left(n), [Right(n) EXCEPT !.keys = Tail(@)])
    BY WithNodesOver
  <2> HIDE DEF n, u, cut
  <2> QED BY <1>2, <1>4, <2>1
<1>6. /\ s.ptr = 0 => Into(s, at) = s
      /\ s.ptr # 0 /\ Len(n.keys) < Order => Into(s, at) = Rising(u, s.key, 0)
      /\ s.ptr # 0 /\ ~(Len(n.keys) < Order) => Into(s, at) = Rising(CutInner(u, at), Head(right.keys), Len(t.nodes) + 1)
  <2> HIDE DEF n, u, cut, right
  <2> QED BY <1>1, <1>5
<1> QED BY <1>6

\* One step of insertUpwards, by whichever way: the new node is in place in the
\* parent, or the parent was cut and its right half goes up.
LEMMA IntoClimbs ==
    ASSUME NEW V, NEW t0, NEW h0, NEW s, NEW q \in DOMAIN t0.nodes, NEW list, Climb(V, t0, h0, s, q, list),
           NEW at \in DOMAIN t0.nodes, h0[at] # 0, h0[q] \in Nat, h0[at] = h0[q] + 1,
           NEW j \in 1 .. Len(t0.nodes[at].ptrs), t0.nodes[at].ptrs[j] = q,
           \A x \in DOMAIN t0.nodes : h0[x] \in Nat
    PROVE  Climb(V, t0, h0, Into(s, at), at, list)
<1> DEFINE t == s.tree
           n == KeyedNode(t, t.nodes[at], s)
           u == WithNode(t, at, n)
           r == Into(s, at)
<1>1. /\ t \in Tree(V) /\ t.root = t0.root /\ t.cmp = t0.cmp /\ Listed(t, V) = list
      /\ \A x \in DOMAIN t0.nodes : x \in DOMAIN t.nodes
      /\ \A x \in DOMAIN t0.nodes : h0[x] > h0[q] => t.nodes[x] = t0.nodes[x]
      /\ s.ptr = 0 => IsTree(t, V)
  BY DEF Climb
<1>2. at \in DOMAIN t.nodes /\ t.nodes[at] = t0.nodes[at]
  BY <1>1
<1>3. \A x \in DOMAIN t0.nodes : h0[x] > h0[at] => h0[x] > h0[q] /\ x # at
  OBVIOUS
<1>4. CASE s.ptr = 0
  <2>1. r = s
    BY <1>4 DEF Into
  <2> QED BY <1>1, <1>3, <1>4, <2>1 DEF Climb
<1>5. CASE s.ptr # 0
  <2>1. PICK h, span, seen : /\ Shape(s.tree, V, h, span, seen, s.ptr) /\ Pending(s, h, span, seen, q)
                             /\ \A x \in DOMAIN t0.nodes : h[x] = h0[x]
    BY <1>5 DEF Climb
  <2>2. /\ n \in Node(V) /\ Len(n.keys) = Len(t.nodes[at].keys) + 1 /\ n.vals = <<>> /\ t.nodes[at].vals = <<>>
        /\ Loose(u, V, h, span, at)
    <3>1. h[at] # 0 /\ j \in 1 .. Len(s.tree.nodes[at].ptrs) /\ s.tree.nodes[at].ptrs[j] = q
      BY <1>2, <2>1
    <3> QED BY <1>2, <2>1, <3>1, InnerTakes
  <2>3. Len(t.nodes[at].keys) < Order /\ Len(t.nodes[at].keys) \in Nat /\ Order \in Nat
    BY <1>2, <2>1, Facts, ShapeIs, OrderAssumption
  <2>4. /\ u \in Tree(V) /\ u.root = t.root /\ u.cmp = t.cmp /\ DOMAIN u.nodes = DOMAIN t.nodes /\ Len(u.nodes) = Len(t.nodes)
        /\ u.nodes[at] = n /\ \A x \in DOMAIN t.nodes : x # at => u.nodes[x] = t.nodes[x]
    BY <1>1, <1>2, <2>2, WithNodeIs
  <2>5. /\ Len(n.keys) < Order => r = Rising(u, s.key, 0)
        /\ ~(Len(n.keys) < Order) => r = Rising(CutInner(u, at), Head(Right(n).keys), Len(t.nodes) + 1)
    BY <1>1, <1>2, <1>5, <2>2, IntoParts
  <2> HIDE DEF n, u, r, t
  <2>6. Listed(u, V) = list
    <3>1. PICK more : more = {}
      OBVIOUS
    <3>2. PairsIn(n) = {} /\ PairsIn(t.nodes[at]) = {}
      BY <2>2 DEF PairsIn
    <3>3. \A kv : (\E x \in DOMAIN u.nodes : (x \notin DOMAIN t.nodes \/ x = at) /\ kv \in PairsIn(u.nodes[x]))
                      <=> kv \in PairsIn(t.nodes[at]) \cup more
      BY <1>2, <2>4, <3>1, <3>2
    <3>4. more \subseteq Path \X V /\ DOMAIN t.nodes \subseteq DOMAIN u.nodes
      BY <2>4, <3>1
    <3>6. at \in DOMAIN t.nodes /\ \A x \in DOMAIN t.nodes : x # at => u.nodes[x] = t.nodes[x]
      BY <1>2, <2>4
    <3>5. Listed(u, V) = Listed(t, V) \cup more
      <4>1. Adds(t, u, at, more)
        BY <3>3, <3>4, <3>6 DEF Adds
      <4> QED BY <3>4, <4>1, ListedWith
    <3> QED BY <1>1, <3>1, <3>5
  <2>7. CASE Len(n.keys) < Order
    <3>1. WellShaped(u, V, h, span)
      BY <2>2, <2>4, <2>7, LooseIsWell
    <3>2. r.tree = u /\ r.ptr = 0
      BY <2>5, <2>7, RisingIs
    <3>3. IsTree(u, V)
      BY <3>1 DEF IsTree
    <3>4. \A x \in DOMAIN t0.nodes : h0[x] > h0[at] => u.nodes[x] = t0.nodes[x]
      BY <1>1, <1>3, <2>4
    <3> QED BY <1>1, <2>4, <2>6, <3>2, <3>3, <3>4 DEF Climb, r
  <2>8. CASE ~(Len(n.keys) < Order)
    <3> DEFINE w == CutInner(u, at)
               new == Len(t.nodes) + 1
               k == Head(Right(n).keys)
    <3>1. Len(u.nodes[at].keys) = Order /\ h[at] # 0
      BY <2>1, <2>2, <2>3, <2>4, <2>8
    <3>2. /\ \E hh, ss, ee : /\ Shape(w, V, hh, ss, ee, Len(u.nodes) + 1)
                             /\ Pending(Rising(w, Head(Right(u.nodes[at]).keys), Len(u.nodes) + 1), hh, ss, ee, at)
                             /\ \A x \in DOMAIN u.nodes : hh[x] = h[x]
          /\ Listed(w, V) = Listed(u, V)
      BY <2>2, <3>1, InnerIsCut
    <3>3. r = Rising(w, k, new) /\ new = Len(u.nodes) + 1 /\ k = Head(Right(u.nodes[at]).keys)
      BY <2>4, <2>5, <2>8
    <3>4. PICK hh, ss, ee : /\ Shape(w, V, hh, ss, ee, new) /\ Pending(r, hh, ss, ee, at)
                            /\ \A x \in DOMAIN u.nodes : hh[x] = h[x]
      BY <3>2, <3>3
    <3>5. r.tree = w /\ r.ptr = new
      BY <3>3, RisingIs
    <3>6. /\ w \in Tree(V) /\ w.root = u.root /\ w.cmp = u.cmp /\ DOMAIN w.nodes = DOMAIN u.nodes \cup {new} /\ new # 0
          /\ \A x \in DOMAIN u.nodes : x # at => w.nodes[x] = u.nodes[x]
      <4>1. Halves(V, n, Cut(n))
        BY <2>2, <2>4, <3>1, HalvesAre
      <4>2. Left(n) \in Node(V) /\ Right(n) \in Node(V)
        BY <4>1 DEF Halves
      <4>3. [Right(n) EXCEPT !.keys = Tail(@)] \in Node(V)
        <5>1. Right(n).keys \in Seq(Path) /\ Right(n).keys # <<>>
          <6>1. Len(Right(n).keys) # 0
            BY <2>3, <4>1 DEF Halves
          <6> QED BY <4>2, <6>1 DEF Node
        <5>2. Tail(Right(n).keys) \in Seq(Path)
          BY <5>1, HeadTailProperties
        <5> DEFINE m == Right(n)
                   tl == Tail(m.keys)
        <5> HIDE DEF m, tl
        <5>3. [m EXCEPT !.keys = tl] \in Node(V) /\ [m EXCEPT !.keys = tl] = [m EXCEPT !.keys = Tail(@)]
          BY <4>2, <5>2 DEF Node, m, tl
        <5> QED BY <5>3 DEF m
      <4>4. at \in DOMAIN u.nodes
        BY <1>2, <2>4
      <4>5. w = WithNodes(u, at, Left(n), [Right(n) EXCEPT !.keys = Tail(@)])
        BY <2>4 DEF CutInner
      <4> DEFINE l == Left(n)
                 m == [Right(n) EXCEPT !.keys = Tail(@)]
                 y == WithNodes(u, at, l, m)
                 nu == Len(u.nodes) + 1
      <4>6. u \in Tree(V) /\ l \in Node(V) /\ m \in Node(V)
        BY <2>4, <4>2, <4>3
      <4> HIDE DEF l, m
      <4>7. /\ y \in Tree(V) /\ y.root = u.root /\ y.cmp = u.cmp /\ Len(u.nodes) \in Nat
            /\ DOMAIN y.nodes = DOMAIN u.nodes \cup {nu} /\ nu # 0
            /\ \A x \in DOMAIN u.nodes : x # at => y.nodes[x] = u.nodes[x]
        BY <4>4, <4>6, WithNodesIs
      <4>8. w = y /\ nu = new
        BY <3>3, <4>5 DEF l, m
      <4> HIDE DEF w, y, nu, new
      <4> QED BY <4>7, <4>8
    <3> HIDE DEF w, new, k
    <3>7. \A x \in DOMAIN t0.nodes : h0[x] > h0[at] => w.nodes[x] = t0.nodes[x]
      BY <1>1, <1>3, <2>4, <3>6
    <3>8. \A x \in DOMAIN t0.nodes : hh[x] = h0[x] /\ x \in DOMAIN w.nodes
      BY <1>1, <2>1, <2>4, <3>4, <3>6
    <3>9. \E h1, s1, e1 : /\ Shape(r.tree, V, h1, s1, e1, r.ptr) /\ Pending(r, h1, s1, e1, at)
                          /\ \A x \in DOMAIN t0.nodes : h1[x] = h0[x]
      BY <3>4, <3>5, <3>8
    <3>10. Listed(w, V) = list
      BY <2>6, <3>2
    <3> QED BY <1>1, <2>4, <3>5, <3>6, <3>7, <3>8, <3>9, <3>10 DEF Climb, r
  <2> QED BY <2>7, <2>8
<1> QED BY <1>4, <1>5

-----------------------------------------------------------------------------
\* A new root has two pointers and one key.
LEMMA RootNodeIs ==
    ASSUME NEW keys, NEW ptrs
    PROVE  [EmptyLeaf EXCEPT !.keys = keys, !.ptrs = ptrs] = [keys |-> keys, vals |-> <<>>, ptrs |-> ptrs, next |-> 0]
<1>1. PICK e : e = <<>>
  OBVIOUS
<1> DEFINE r == [keys |-> e, vals |-> e, ptrs |-> e, next |-> 0]
           a == [r EXCEPT !.keys = keys]
<1>2. EmptyLeaf = r
  BY <1>1 DEF EmptyLeaf
<1>3. a = [keys |-> keys, vals |-> e, ptrs |-> e, next |-> 0]
  OBVIOUS
<1>4. [EmptyLeaf EXCEPT !.keys = keys, !.ptrs = ptrs] = [a EXCEPT !.ptrs = ptrs]
  <2> HIDE DEF r
  <2> QED BY <1>2
<1>5. [a EXCEPT !.ptrs = ptrs] = [keys |-> keys, vals |-> e, ptrs |-> ptrs, next |-> 0]
  <2> HIDE DEF a
  <2> QED BY <1>3
<1> QED BY <1>1, <1>4, <1>5

\* insertUpwards, when the root itself was cut: the new root over both halves
\* makes a tree of them, with the same pairs.
LEMMA NewRootIs ==
    ASSUME NEW V, NEW s, NEW h, NEW span, NEW seen, Shape(s.tree, V, h, span, seen, s.ptr), Pending(s, h, span, seen, s.tree.root)
    PROVE  IsTree(NewRoot(s), V) /\ Listed(NewRoot(s), V) = Listed(s.tree, V) /\ NewRoot(s).cmp = s.tree.cmp
<1> DEFINE t == s.tree
           D == DOMAIN t.nodes
           cmp == t.cmp
           k == s.key
           p == s.ptr
           q == t.root
           keys == <<k>>
           ptrs == <<q, p>>
           n == [EmptyLeaf EXCEPT !.keys = keys, !.ptrs = ptrs]
           new == Len(t.nodes) + 1
           all == Append(t.nodes, n)
           u == NewRoot(s)
           hh == [x \in D \cup {new} |-> IF x = new THEN h[q] + 1 ELSE h[x]]
           ss == [x \in D \cup {new} |-> IF x = new THEN Path ELSE span[x]]
<1>1. /\ Frame(t, V, h, span, seen, p)
      /\ \A x \in D : NodeFits(t, h, span, seen, p, x) /\ Len(t.nodes[x].keys) < Order
  BY ShapeIs
<1>2. /\ t \in Tree(V) /\ q \in D /\ h \in [D -> Nat] /\ span \in [D -> SUBSET Path] /\ seen[q] = Path /\ cmp \in Cmps
      /\ \A x, y \in D : x # y /\ h[x] = h[y] => span[x] \cap span[y] = {}
      /\ \A x \in D : h[x] <= h[q]
  BY <1>1 DEF Frame, Tree
<1>3. /\ p \in D /\ q # p /\ h[p] = h[q] /\ k \in span[p]
      /\ span[q] = Below(cmp, Path, k) /\ span[p] = Beyond(cmp, Path, k)
      /\ \A x \in D : x # q => seen[x] = span[x]
  BY <1>2 DEF Pending
<1>4. t = [root |-> t.root, nodes |-> t.nodes, cmp |-> t.cmp] /\ t.nodes \in Seq(Node(V)) /\ k \in Path
      /\ D = 1 .. Len(t.nodes) /\ Len(t.nodes) \in Nat /\ p \in Nat /\ q \in Nat
  BY <1>2, <1>3 DEF Tree
<1> HIDE DEF t, D, cmp, k, p, q
<1>5. /\ keys \in Seq(Path) /\ Len(keys) = 1 /\ keys[1] = k /\ DOMAIN keys = {1} /\ Len(keys) < Order
      /\ ptrs \in Seq(Nat) /\ Len(ptrs) = 2 /\ ptrs[1] = q /\ ptrs[2] = p
  BY <1>4, OrderAssumption
<1> HIDE DEF keys, ptrs
<1>6. n \in Node(V) /\ n.keys = keys /\ n.ptrs = ptrs /\ n.vals = <<>> /\ n.next = 0
  <2>1. n = [keys |-> keys, vals |-> <<>>, ptrs |-> ptrs, next |-> 0]
    BY RootNodeIs
  <2> HIDE DEF n
  <2>2. <<>> \in Seq(V) /\ 0 \in Nat
    OBVIOUS
  <2> QED BY <1>5, <2>1, <2>2 DEF Node
<1> HIDE DEF n
<1>7. u = [root |-> new, nodes |-> all, cmp |-> cmp]
  <2>1. u = [t EXCEPT !.root = new, !.nodes = all]
    BY <1>4 DEF NewRoot, n, keys, ptrs, t, q, p, k
  <2> HIDE DEF u, all, new
  <2> QED BY <1>4, <2>1 DEF cmp
<1>8. /\ all \in Seq(Node(V)) /\ Len(all) = new /\ all[new] = n /\ \A x \in D : all[x] = t.nodes[x]
      /\ new \in Nat /\ new \notin D /\ new # 0 /\ 1 .. new = D \cup {new} /\ 0 \notin D
  <2>1. /\ all \in Seq(Node(V)) /\ Len(all) = Len(t.nodes) + 1
        /\ (\A i \in 1 .. Len(t.nodes) : all[i] = t.nodes[i]) /\ all[Len(t.nodes) + 1] = n
    BY <1>4, <1>6, AppendProperties
  <2>2. /\ new \in Nat /\ new \notin 1 .. Len(t.nodes) /\ new # 0 /\ 1 .. new = 1 .. Len(t.nodes) \cup {new}
    BY <1>4
  <2> HIDE DEF all
  <2> QED BY <1>4, <2>1, <2>2
<1> HIDE DEF u, all, new
<1>9. /\ u \in Tree(V) /\ u.root = new /\ u.cmp = cmp /\ DOMAIN u.nodes = D \cup {new} /\ u.nodes[new] = n
      /\ \A x \in D : u.nodes[x] = t.nodes[x]
  <2>1. DOMAIN all = D \cup {new}
    BY <1>8
  <2>2. cmp \in Cmps
    BY <1>2
  <2> QED BY <1>7, <1>8, <2>1, <2>2 DEF Tree
<1>10. /\ hh \in [D \cup {new} -> Nat] /\ ss \in [D \cup {new} -> SUBSET Path] /\ hh[new] = h[q] + 1 /\ ss[new] = Path
       /\ \A x \in D : hh[x] = h[x] /\ ss[x] = span[x] /\ hh[x] # hh[new] /\ hh[x] <= hh[new]
  BY <1>2, <1>8
<1> HIDE DEF hh, ss
<1>11. Frame(u, V, hh, ss, ss, 0)
  <2>1. \A x, y \in D \cup {new} : x # y /\ hh[x] = hh[y] => ss[x] \cap ss[y] = {}
    BY <1>2, <1>10
  <2>2. \A x \in D \cup {new} : hh[x] <= hh[new]
    BY <1>10
  <2> QED BY <1>8, <1>9, <1>10, <2>1, <2>2 DEF Frame
<1>12. NodeFits(u, hh, ss, ss, 0, new) /\ Len(u.nodes[new].keys) < Order
  <2>1. Slot(cmp, keys, 1) = Below(cmp, Path, k) /\ Slot(cmp, keys, 2) = Beyond(cmp, Path, k)
    <3>1. ~(1 > 1) /\ 2 > 1 /\ 1 <= Len(keys) /\ ~(2 <= Len(keys)) /\ 2 - 1 = 1
      BY <1>5
    <3> QED BY <1>5, <3>1 DEF Slot, Below, Beyond
  <2>2. ASSUME NEW j \in 1 .. Len(ptrs)
        PROVE  ptrs[j] \in D /\ ptrs[j] # 0 /\ hh[ptrs[j]] + 1 = hh[new] /\ ss[ptrs[j]] = Path \cap Slot(cmp, keys, j)
    <3>1. j = 1 \/ j = 2
      BY <1>5
    <3>2. Below(cmp, Path, k) = Path \cap Below(cmp, Path, k) /\ Beyond(cmp, Path, k) = Path \cap Beyond(cmp, Path, k)
      BY DEF Below, Beyond
    <3>3. q # 0 /\ p # 0
      BY <1>2, <1>3, <1>8
    <3> QED BY <1>2, <1>3, <1>5, <1>10, <2>1, <3>1, <3>2, <3>3
  <2>3. InnerShaped(u, hh, ss, ss, 0, new)
    <3>1. u.nodes[new].vals = <<>> /\ u.nodes[new].next = 0 /\ u.nodes[new].ptrs = ptrs /\ u.nodes[new].keys = keys
      BY <1>6, <1>9
    <3>2. Len(ptrs) = Len(keys) + 1
      BY <1>5
    <3>3. \A j \in 1 .. Len(ptrs) : /\ ptrs[j] \in DOMAIN u.nodes /\ ptrs[j] # 0 /\ hh[ptrs[j]] + 1 = hh[new]
                                   /\ ss[ptrs[j]] = ss[new] \cap Slot(u.cmp, keys, j)
      BY <1>9, <1>10, <2>2
    <3> QED BY <3>1, <3>2, <3>3 DEF InnerShaped
  <2>4. Increasing(cmp, keys)
    BY <1>5 DEF Increasing
  <2>5. hh[new] # 0 /\ Path # {} /\ Convex(cmp, Path) /\ \A i \in DOMAIN keys : keys[i] \in Path
    BY <1>2, <1>4, <1>5, <1>10 DEF Convex
  <2> QED BY <1>5, <1>6, <1>9, <1>10, <2>3, <2>4, <2>5 DEF NodeFits
<1>13. ASSUME NEW x \in D PROVE NodeFits(u, hh, ss, ss, 0, x) /\ Len(u.nodes[x].keys) < Order
  <2>1. NodeFits(t, h, span, seen, p, x) /\ u.nodes[x] = t.nodes[x] /\ Len(t.nodes[x].keys) < Order /\ hh[x] = h[x] /\ ss[x] = span[x]
    BY <1>1, <1>9, <1>10
  <2>2. ASSUME h[x] = 0 PROVE LeafShaped(u, hh, ss, x)
    <3>1. LeafShaped(t, h, span, x)
      BY <2>1, <2>2 DEF NodeFits
    <3>2. Linked(t, h, span, x)
      BY <3>1 DEF LeafShaped
    <3>3. Linked(u, hh, ss, x)
      <4> DEFINE y == t.nodes[x].next
      <4>1. CASE y = 0 /\ \A a \in span[x], c \in Path : Before(cmp, a, c) => c \in span[x]
        BY <1>9, <2>1, <4>1 DEF Linked
      <4>2. CASE /\ y \in D /\ h[y] = 0
                 /\ \A a \in span[x], b \in span[y] :
                       /\ Before(cmp, a, b)
                       /\ \A c \in Path : Before(cmp, a, c) /\ Before(cmp, c, b) => c \in span[x] \cup span[y]
        <5>1. y \in D \cup {new} /\ hh[y] = 0 /\ ss[y] = span[y]
          BY <1>10, <4>2
        <5> HIDE DEF y
        <5>2. u.nodes[x].next = y
          BY <2>1 DEF y
        <5> QED BY <1>9, <2>1, <4>2, <5>1, <5>2 DEF Linked
      <4> QED BY <3>2, <4>1, <4>2 DEF Linked, D, cmp
    <3> QED BY <2>1, <3>1, <3>3 DEF LeafShaped
  <2>3. ASSUME h[x] # 0 PROVE InnerShaped(u, hh, ss, ss, 0, x)
    <3>1. InnerShaped(t, h, span, seen, p, x)
      BY <2>1, <2>3 DEF NodeFits
    <3>2. ASSUME NEW l \in 1 .. Len(t.nodes[x].ptrs)
          PROVE  LET c == t.nodes[x].ptrs[l]
                 IN  c \in D \cup {new} /\ c # 0 /\ hh[c] + 1 = hh[x] /\ ss[c] = ss[x] \cap Slot(cmp, t.nodes[x].keys, l)
      <4> DEFINE c == t.nodes[x].ptrs[l]
      <4>1. c \in D /\ h[c] + 1 = h[x] /\ seen[c] = span[x] \cap Slot(cmp, t.nodes[x].keys, l)
        BY <3>1 DEF InnerShaped, D, cmp
      <4> HIDE DEF c
      <4>2. c # q
        <5>1. h[x] <= h[q] /\ h[x] \in Nat /\ h[q] \in Nat
          BY <1>2
        <5> QED BY <4>1, <5>1
      <4>3. seen[c] = span[c] /\ c # 0
        BY <1>3, <1>8, <4>1, <4>2
      <4> QED BY <1>10, <2>1, <4>1, <4>3 DEF c
    <3> QED BY <1>9, <2>1, <3>1, <3>2 DEF InnerShaped
  <2>4. span[x] # {} /\ Convex(cmp, span[x]) /\ Increasing(cmp, t.nodes[x].keys)
        /\ \A y \in DOMAIN t.nodes[x].keys : t.nodes[x].keys[y] \in span[x]
    BY <2>1 DEF NodeFits, cmp
  <2> QED BY <1>9, <2>1, <2>2, <2>3, <2>4 DEF NodeFits
<1>14. WellShaped(u, V, hh, ss)
  <2>1. \A x \in D \cup {new} : NodeFits(u, hh, ss, ss, 0, x) /\ Len(u.nodes[x].keys) < Order
    BY <1>12, <1>13
  <2> QED BY <1>9, <1>11, <2>1, ShapeIs DEF WellShaped
<1>15. IsTree(u, V)
  BY <1>14 DEF IsTree
<1>16. Listed(u, V) = Listed(t, V)
  <2>1. PairsIn(n) = {}
    BY <1>6 DEF PairsIn
  <2>2. PICK more : more = {}
    OBVIOUS
  <2>3. Adds(t, u, q, more)
    <3>1. \A kv : (\E x \in DOMAIN u.nodes : (x \notin DOMAIN t.nodes \/ x = q) /\ kv \in PairsIn(u.nodes[x]))
                     <=> kv \in PairsIn(t.nodes[q]) \cup more
      BY <1>2, <1>8, <1>9, <2>1, <2>2 DEF D
    <3> QED BY <1>2, <1>9, <2>2, <3>1 DEF Adds, D
  <2>4. Listed(u, V) = Listed(t, V) \cup more
    BY <2>2, <2>3, ListedWith
  <2> QED BY <2>2, <2>4
<1> QED BY <1>9, <1>15, <1>16 DEF u, t, cmp

-----------------------------------------------------------------------------
\* insertUpwards, step by step: from the parent of the leaf to the root.
LEMMA RisesAre ==
    ASSUME NEW s, NEW path, Len(path) \in Nat
    PROVE  /\ Rises(s, path)[0] = s
           /\ \A i \in 1 .. Len(path) : Rises(s, path)[i] = Into(Rises(s, path)[i - 1], path[Len(path) + 1 - i])
<1> DEFINE L == Len(path)
           To(n, f) == f = [i \in 0 .. n |-> IF i = 0 THEN s ELSE Into(f[i - 1], path[L + 1 - i])]
           S == {n \in Nat : \E f : To(n, f)}
<1>1. 0 \in S
  <2>1. To(0, [i \in 0 .. 0 |-> s])
    BY DEF To
  <2> QED BY <2>1
<1>2. ASSUME NEW n \in Nat, n \in S PROVE n + 1 \in S
  <2>1. PICK f : To(n, f)
    BY <1>2
  <2> DEFINE g == [i \in 0 .. n + 1 |-> IF i = n + 1 THEN Into(f[n], path[L + 1 - (n + 1)]) ELSE f[i]]
  <2>2. f = [i \in 0 .. n |-> IF i = 0 THEN s ELSE Into(f[i - 1], path[L + 1 - i])]
    BY <2>1
  <2>3. ASSUME NEW i \in 0 .. n + 1 PROVE g[i] = IF i = 0 THEN s ELSE Into(g[i - 1], path[L + 1 - i])
    <3>1. CASE i = n + 1
      <4>1. i - 1 = n /\ n \in 0 .. n + 1 /\ n # n + 1 /\ i # 0
        BY <3>1
      <4>2. g[i - 1] = f[n]
        BY <4>1
      <4> QED BY <3>1, <4>1, <4>2
    <3>2. CASE i # n + 1
      <4>1. i \in 0 .. n /\ (i # 0 => i - 1 \in 0 .. n /\ i - 1 \in 0 .. n + 1 /\ i - 1 # n + 1)
        BY <3>2
      <4>2. g[i] = f[i] /\ (i # 0 => g[i - 1] = f[i - 1])
        BY <3>2, <4>1
      <4>3. f[i] = IF i = 0 THEN s ELSE Into(f[i - 1], path[L + 1 - i])
        BY <2>2, <4>1
      <4> QED BY <4>2, <4>3
    <3> QED BY <3>1, <3>2
  <2>4. g = [i \in 0 .. n + 1 |-> g[i]]
    OBVIOUS
  <2> HIDE DEF g
  <2>5. g = [i \in 0 .. n + 1 |-> IF i = 0 THEN s ELSE Into(g[i - 1], path[L + 1 - i])]
    BY <2>3, <2>4
  <2>6. n + 1 \in Nat /\ To(n + 1, g)
    BY <2>5
  <2> QED BY <2>6
<1>3. Nat \subseteq S
  <2> HIDE DEF S
  <2> QED BY <1>1, <1>2, SetInduction
<1>4. PICK f : f = [i \in 0 .. L |-> IF i = 0 THEN s ELSE Into(f[i - 1], path[L + 1 - i])]
  <2>1. L \in S
    BY <1>3
  <2> QED BY <2>1
<1> DEFINE up == CHOOSE g : g = [i \in 0 .. L |-> IF i = 0 THEN s ELSE Into(g[i - 1], path[L + 1 - i])]
<1>5. up = [i \in 0 .. L |-> IF i = 0 THEN s ELSE Into(up[i - 1], path[L + 1 - i])]
  BY <1>4
<1>6. Rises(s, path) = up
  BY DEF Rises
<1> HIDE DEF up
<1>7. L \in Nat
  OBVIOUS
<1> HIDE DEF L
<1>8. up[0] = s /\ \A i \in 1 .. L : up[i] = Into(up[i - 1], path[L + 1 - i])
  <2>1. 0 \in 0 .. L /\ \A i \in 1 .. L : i \in 0 .. L /\ i # 0
    BY <1>7
  <2> QED BY <1>5, <2>1
<1> QED BY <1>6, <1>8 DEF L

-----------------------------------------------------------------------------
\* The way up: as far as the path goes, the insertion climbs.
LEMMA RisesClimb ==
    ASSUME NEW V, NEW t, NEW h, NEW span, WellShaped(t, V, h, span), NEW k \in Path,
           NEW path, Down(t, h, span, k, t.root, path), NEW s, NEW list,
           Climb(V, t, h, s, path[Len(path)], list), NEW front, Len(front) = Len(path) - 1,
           \A i \in 1 .. Len(front) : front[i] = path[i]
    PROVE  Climb(V, t, h, Rises(s, front)[Len(front)], t.root, list)
<1> DEFINE m == Len(path)
           D == DOMAIN t.nodes
           S == {i \in Nat : i <= m - 1 => Climb(V, t, h, Rises(s, front)[i], path[m - i], list)}
<1>1. /\ path \in Seq(D) /\ m \in Nat \ {0} /\ path[1] = t.root /\ h[path[m]] = 0
      /\ \A i \in 1 .. m - 1 : h[path[i]] # 0 /\ path[i + 1] = Child(t.cmp, t.nodes[path[i]], k)
  BY DEF Down
<1>2. h \in [D -> Nat]
  BY TreeFacts
<1>3. Len(front) \in Nat /\ Len(front) = m - 1
  BY <1>1
<1>4. /\ Rises(s, front)[0] = s
      /\ \A i \in 1 .. Len(front) : Rises(s, front)[i] = Into(Rises(s, front)[i - 1], front[Len(front) + 1 - i])
  BY ONLY <1>3, RisesAre
<1> DEFINE up == Rises(s, front)
<1> HIDE DEF m
<1>5. 0 \in S
  <2>1. m - 0 = m
    BY <1>1
  <2> QED BY <1>4, <2>1 DEF m
<1>6. ASSUME NEW i \in Nat, i \in S PROVE i + 1 \in S
  <2> SUFFICES ASSUME i + 1 <= m - 1 PROVE Climb(V, t, h, up[i + 1], path[m - (i + 1)], list)
    BY <1>6
  <2> DEFINE l == m - (i + 1)
             at == path[l]
             q == path[m - i]
  <2>1. l \in 1 .. m - 1 /\ l \in 1 .. m /\ m - i = l + 1 /\ m - i \in 1 .. m /\ i + 1 \in 1 .. Len(front)
        /\ Len(front) + 1 - (i + 1) = l /\ (i + 1) - 1 = i /\ l \in 1 .. Len(front) /\ i <= m - 1
    BY <1>1, <1>3
  <2>2. at \in D /\ q \in D
    BY <1>1, <2>1 DEF m
  <2>3. Climb(V, t, h, up[i], q, list)
    BY <1>6, <2>1
  <2>4. up[i + 1] = Into(up[i], at)
    BY <1>4, <2>1
  <2>5. h[at] # 0 /\ q = Child(t.cmp, t.nodes[at], k)
    BY <1>1, <2>1
  <2> HIDE DEF at, q, up, l
  <2>6. PICK j \in 1 .. Len(t.nodes[at].ptrs) : q = t.nodes[at].ptrs[j]
    BY <2>2, <2>5, ChildFacts
  <2>7. h[at] = h[q] + 1 /\ h[q] \in Nat
    BY <2>2, <2>5, <2>6, ChildFacts
  <2>8. \A x \in D : h[x] \in Nat
    BY <1>2
  <2>9. Climb(V, t, h, Into(up[i], at), at, list)
    BY <2>2, <2>3, <2>5, <2>6, <2>7, <2>8, IntoClimbs
  <2> QED BY <2>4, <2>9 DEF at, l
<1>7. Nat \subseteq S
  <2> HIDE DEF S
  <2> QED BY <1>5, <1>6, SetInduction
<1>8. m - 1 \in Nat /\ m - 1 <= m - 1 /\ m - (m - 1) = 1
  BY <1>1
<1>9. m - 1 \in S
  BY <1>7, <1>8
<1> QED BY <1>1, <1>3, <1>8, <1>9

\* insertUpwards, from the leaf that was cut to the root: the result has the shape
\* of a tree and the pairs there were.
LEMMA InsertUpwardsIs ==
    ASSUME NEW V, NEW t, NEW h, NEW span, WellShaped(t, V, h, span), NEW k \in Path,
           NEW path, Down(t, h, span, k, t.root, path), NEW s, NEW list,
           Climb(V, t, h, s, path[Len(path)], list)
    PROVE  /\ IsTree(InsertUpwards(s, Front(path)), V) /\ InsertUpwards(s, Front(path)).cmp = t.cmp
           /\ Listed(InsertUpwards(s, Front(path)), V) = list
<1> DEFINE front == Front(path)
           top == Rises(s, front)[Len(front)]
<1>1. path \in Seq(DOMAIN t.nodes) /\ Len(path) \in Nat \ {0}
  BY DEF Down
<1>2. front = SubSeq(path, 1, Len(path) - 1)
  BY DEF Front
<1>3. Len(front) = Len(path) - 1 /\ \A i \in 1 .. Len(front) : front[i] = path[i]
  <2>1. Len(path) - 1 \in Nat /\ Len(path) - 1 \in 0 .. Len(path)
    BY <1>1
  <2> HIDE DEF front
  <2>2. Len(front) = Len(path) - 1
    <3>1. 1 \in 1 .. Len(path) + 1 /\ Len(path) - 1 \in 1 - 1 .. Len(path) /\ (Len(path) - 1) - 1 + 1 = Len(path) - 1
      BY <1>1
    <3>2. Len(SubSeq(path, 1, Len(path) - 1)) = (Len(path) - 1) - 1 + 1
      BY <1>1, <3>1, SubSeqProperties
    <3> QED BY <1>2, <3>1, <3>2
  <2>3. \A i \in 1 .. Len(path) - 1 : front[i] = path[i]
    BY <1>1, <1>2, <2>1
  <2> QED BY <2>2, <2>3
<1>4. InsertUpwards(s, front) = IF top.ptr = 0 THEN top.tree ELSE NewRoot(top)
  BY DEF InsertUpwards
<1> HIDE DEF front
<1>5. Climb(V, t, h, top, t.root, list)
  BY <1>3, RisesClimb
<1> HIDE DEF top
<1>6. CASE top.ptr = 0
  BY <1>4, <1>5, <1>6 DEF Climb, front
<1>7. CASE top.ptr # 0
  <2>1. PICK hh, ss, ee : Shape(top.tree, V, hh, ss, ee, top.ptr) /\ Pending(top, hh, ss, ee, t.root)
    BY <1>5, <1>7 DEF Climb
  <2>2. top.tree.root = t.root /\ top.tree.cmp = t.cmp /\ Listed(top.tree, V) = list
    BY <1>5 DEF Climb
  <2>3. IsTree(NewRoot(top), V) /\ Listed(NewRoot(top), V) = Listed(top.tree, V) /\ NewRoot(top).cmp = top.tree.cmp
    BY <2>1, <2>2, NewRootIs
  <2> QED BY <1>4, <1>7, <2>2, <2>3 DEF front
<1> QED BY <1>6, <1>7

\* What an insertion promises.
Inserts(V, t, k, v, u) ==
    /\ IsTree(u, V) /\ u.cmp = t.cmp
    /\ (\E w : <<k, w>> \in Listed(t, V)) => u = t
    /\ ~(\E w : <<k, w>> \in Listed(t, V)) => Listed(u, V) = Listed(t, V) \cup {<<k, v>>}

\* BTree.Insert looks for its key in the leaf it belongs to, and finds it exactly
\* when the tree lists it.
LEMMA LeafHas ==
    ASSUME NEW V, NEW t, NEW h, NEW span, WellShaped(t, V, h, span), NEW k \in Path
    PROVE  /\ Down(t, h, span, k, t.root, PathTo(t, k))
           /\ Last(PathTo(t, k)) = PathTo(t, k)[Len(PathTo(t, k))]
           /\ Last(PathTo(t, k)) \in DOMAIN t.nodes /\ h[Last(PathTo(t, k))] = 0
           /\ k \in span[Last(PathTo(t, k))]
           /\ Has(t.nodes[Last(PathTo(t, k))], k) <=> \E w : <<k, w>> \in Listed(t, V)
<1> DEFINE path == PathTo(t, k)
           at == Last(path)
           n == t.nodes[at]
<1>1. t.root \in DOMAIN t.nodes /\ span[t.root] = Path
      /\ \A x, y \in DOMAIN t.nodes : x # y /\ h[x] = h[y] => span[x] \cap span[y] = {}
      /\ \A p \in DOMAIN t.nodes : IsLeaf(t.nodes[p]) <=> h[p] = 0
  BY TreeFacts
<1>2. Down(t, h, span, k, t.root, path)
  <2>1. path = Descents(t, k)[t.root]
    BY DEF PathTo
  <2> QED BY <1>1, <2>1, PathsGoDown
<1>3. at = path[Len(path)]
  BY DEF Last
<1>4. /\ path \in Seq(DOMAIN t.nodes) /\ Len(path) \in Nat \ {0} /\ h[path[Len(path)]] = 0
      /\ \A i \in 1 .. Len(path) : k \in span[path[i]]
  BY <1>2 DEF Down
<1>5. at \in DOMAIN t.nodes /\ h[at] = 0 /\ k \in span[at]
  <2>1. Len(path) \in 1 .. Len(path)
    BY <1>4
  <2> HIDE DEF path, at
  <2> QED BY <1>3, <1>4, <2>1
<1> HIDE DEF path, at
<1>6. Shape(t, V, h, span, span, 0)
  BY DEF WellShaped
<1>7. n.keys \in Seq(Path) /\ n.vals \in Seq(V) /\ DOMAIN n.keys = 1 .. Len(n.keys) /\ NodeShaped(t, h, span, span, 0, at)
  BY <1>5, <1>6, Facts
<1>8. Len(n.vals) = Len(n.keys) /\ DOMAIN n.vals = DOMAIN n.keys
  BY <1>5, <1>7 DEF NodeShaped, LeafShaped
<1>9. ASSUME Has(n, k) PROVE \E w : <<k, w>> \in Listed(t, V)
  <2>1. PICK i \in DOMAIN n.keys : n.keys[i] = k
    BY <1>9 DEF Has
  <2>2. i \in DOMAIN n.vals /\ n.vals[i] \in V
    BY <1>7, <1>8, <2>1
  <2>3. <<k, n.vals[i]>> \in Listed(t, V)
    BY <1>5, <2>1, <2>2 DEF Listed
  <2> QED BY <2>3
<1>10. ASSUME NEW w, <<k, w>> \in Listed(t, V) PROVE Has(n, k)
  <2>1. PICK x \in DOMAIN t.nodes : \E i \in DOMAIN t.nodes[x].vals : t.nodes[x].keys[i] = k
    BY <1>10 DEF Listed
  <2>2. PICK i \in DOMAIN t.nodes[x].vals : t.nodes[x].keys[i] = k
    BY <2>1
  <2>3. NodeShaped(t, h, span, span, 0, x) /\ t.nodes[x].vals \in Seq(V) /\ DOMAIN t.nodes[x].keys = 1 .. Len(t.nodes[x].keys)
    BY <1>6, Facts
  <2>4. h[x] = 0
    <3>1. h[x] # 0 => t.nodes[x].vals = <<>>
      BY <2>3 DEF NodeShaped, InnerShaped
    <3> QED BY <2>2, <3>1
  <2>5. i \in DOMAIN t.nodes[x].keys
    <3>1. Len(t.nodes[x].vals) = Len(t.nodes[x].keys)
      BY <2>3, <2>4 DEF NodeShaped, LeafShaped
    <3> QED BY <2>2, <2>3, <3>1
  <2>6. k \in span[x]
    BY <2>2, <2>3, <2>5 DEF NodeShaped
  <2>7. x = at
    BY <1>1, <1>5, <2>4, <2>6
  <2> QED BY <2>2, <2>5, <2>7 DEF Has
<1> QED BY <1>2, <1>3, <1>5, <1>9, <1>10 DEF path, at

\* BTree.Insert: a tree stays a tree; a key that exists is refused and nothing
\* changes; a new one is added with its value and no other pair is touched,
\* however many nodes are cut on the way.
THEOREM InsertIs ==
    ASSUME NEW V, NEW t, IsTree(t, V), NEW k \in Path, NEW v \in V
    PROVE  Inserts(V, t, k, v, Insert(t, k, v))
<1>1. PICK h, span : WellShaped(t, V, h, span)
  BY DEF IsTree
<1> DEFINE path == PathTo(t, k)
           at == Last(path)
           old == t.nodes[at]
           n == LeafWith(t, old, k, v)
           w == WithNode(t, at, n)
           new == Len(t.nodes) + 1
           u == CutLeaf(w, at)
           kk == Head(Right(n).keys)
<1>2. /\ Down(t, h, span, k, t.root, path) /\ at = path[Len(path)]
      /\ at \in DOMAIN t.nodes /\ h[at] = 0 /\ k \in span[at]
      /\ Has(old, k) <=> \E x : <<k, x>> \in Listed(t, V)
  BY <1>1, LeafHas
<1>3. t \in Tree(V) /\ t.root \in DOMAIN t.nodes
      /\ h \in [DOMAIN t.nodes -> Nat]
  BY <1>1, TreeFacts
<1> HIDE DEF path, at
<1>4. CASE Has(old, k)
  <2>1. Insert(t, k, v) = t
    BY <1>4 DEF Insert, path, at
  <2> QED BY <1>2, <1>4, <2>1 DEF Inserts
<1>5. CASE ~Has(old, k)
  <2>1. /\ n \in Node(V) /\ n.ptrs = <<>> /\ n.next = old.next
        /\ Len(n.keys) = Len(old.keys) + 1 /\ Len(n.vals) = Len(n.keys)
        /\ Increasing(t.cmp, n.keys) /\ \A i \in 1 .. Len(n.keys) : n.keys[i] \in span[at]
        /\ PairsIn(n) = PairsIn(old) \cup {<<k, v>>}
    <3>1. ~Has(t.nodes[at], k) /\ at \in DOMAIN t.nodes /\ h[at] = 0 /\ k \in span[at]
      BY <1>2, <1>5
    <3> QED BY ONLY <1>1, <3>1, v \in V, LeafTakes
  <2> HIDE DEF n
  <2>2. Loose(w, V, h, span, at)
    BY <1>1, <1>2, <2>1, LeafFits
  <2>3. /\ w \in Tree(V) /\ w.root = t.root /\ w.cmp = t.cmp /\ DOMAIN w.nodes = DOMAIN t.nodes
        /\ Len(w.nodes) = Len(t.nodes)
        /\ w.nodes[at] = n /\ \A x \in DOMAIN t.nodes : x # at => w.nodes[x] = t.nodes[x]
    BY <1>2, <1>3, <2>1, WithNodeIs
  <2>4. PICK more : more = {<<k, v>>}
    OBVIOUS
  <2>5. Listed(w, V) = Listed(t, V) \cup more
    <3>1. Adds(t, w, at, more)
      <4> HIDE DEF w
      <4>1. \A kv : (\E x \in DOMAIN w.nodes : (x \notin DOMAIN t.nodes \/ x = at) /\ kv \in PairsIn(w.nodes[x]))
                       <=> kv \in PairsIn(t.nodes[at]) \cup more
        BY <1>2, <2>1, <2>3, <2>4
      <4> QED BY <1>2, <2>3, <2>4, <4>1 DEF Adds
    <3>2. more \subseteq Path \X V
      BY <2>4
    <3> HIDE DEF w
    <3> QED BY <3>1, <3>2, ListedWith
  <2>6. CASE Len(n.keys) < Order
    <3>1. Insert(t, k, v) = w
      BY <1>5, <2>6 DEF Insert, n, path, at, WithNode
    <3> HIDE DEF w
    <3>2. IsTree(w, V)
      BY <2>2, <2>3, <2>6, LooseIsWell DEF IsTree
    <3> QED BY <1>2, <1>5, <2>3, <2>4, <2>5, <3>1, <3>2 DEF Inserts
  <2>7. CASE ~(Len(n.keys) < Order)
    <3> DEFINE s == Rising(u, kk, new)
    <3>1. Len(n.keys) = Order
      <4>1. Len(old.keys) < Order /\ Len(old.keys) \in Nat
        <5>1. Shape(t, V, h, span, span, 0)
          BY <1>1 DEF WellShaped
        <5> QED BY <1>2, <5>1, Facts DEF NodeShaped
      <4> QED BY <2>1, <2>7, <4>1, OrderAssumption
    <3>2. Insert(t, k, v) = InsertUpwards(s, Front(path))
      <4> DEFINE left == [Left(n) EXCEPT !.next = new]
                 right == Right(n)
      <4>1. Insert(t, k, v) = InsertUpwards(Rising([t EXCEPT !.nodes = Append([@ EXCEPT ![at] = left], right)], Head(right.keys), new), Front(path))
        BY <1>5, <2>7 DEF Insert, n, path, at
      <4>2. [t EXCEPT !.nodes = Append([@ EXCEPT ![at] = left], right)] = WithNodes(t, at, left, right)
        BY DEF WithNodes
      <4>3. u = WithNodes(w, at, left, right)
        BY <2>3 DEF CutLeaf
      <4>4. WithNodes(w, at, left, right) = WithNodes(t, at, left, right)
        BY <1>2, <1>3, <2>1, WithNodesOver
      <4> QED BY <4>1, <4>2, <4>3, <4>4
    <3>3. /\ \E hh, ss, ee : /\ Shape(u, V, hh, ss, ee, new) /\ Pending(s, hh, ss, ee, at)
                             /\ \A x \in DOMAIN t.nodes : hh[x] = h[x]
          /\ Listed(u, V) = Listed(w, V)
      <4> DEFINE n0 == w.nodes[at]
      <4>1. Len(w.nodes[at].keys) = Order /\ h[at] = 0 /\ Loose(w, V, h, span, at)
        BY <1>2, <2>2, <2>3, <3>1
      <4>2. /\ \E hh, ss, ee : /\ Shape(u, V, hh, ss, ee, Len(w.nodes) + 1)
                               /\ Pending(Rising(u, Head(Right(w.nodes[at]).keys), Len(w.nodes) + 1), hh, ss, ee, at)
                               /\ \A x \in DOMAIN w.nodes : hh[x] = h[x]
            /\ Listed(u, V) = Listed(w, V)
        BY ONLY <4>1, LeafIsCut
      <4> HIDE DEF w, u
      <4> QED BY <2>3, <4>2
    <3>4. /\ u \in Tree(V) /\ u.root = t.root /\ u.cmp = t.cmp /\ \A x \in DOMAIN t.nodes : x \in DOMAIN u.nodes /\ (x # at => u.nodes[x] = t.nodes[x])
      <4> DEFINE left == [Left(n) EXCEPT !.next = new]
                 right == Right(n)
      <4>1. u = WithNodes(w, at, left, right)
        BY <2>3 DEF CutLeaf
      <4>2. left \in Node(V) /\ right \in Node(V)
        <5>1. Left(n) \in Node(V) /\ right \in Node(V)
          BY <2>1, <3>1, HalvesAre DEF Halves
        <5>2. new \in Nat
          BY <1>3 DEF Tree
        <5> DEFINE l == Left(n)
        <5> HIDE DEF l, new
        <5>3. [l EXCEPT !.next = new] \in Node(V)
          BY <5>1, <5>2 DEF Node, l
        <5> QED BY <5>1, <5>3 DEF l
      <4> HIDE DEF left, right, u, w
      <4>3. /\ u \in Tree(V) /\ u.root = w.root /\ u.cmp = w.cmp
            /\ Len(w.nodes) \in Nat /\ DOMAIN w.nodes = 1 .. Len(w.nodes)
            /\ \A x \in DOMAIN w.nodes : x # at => u.nodes[x] = w.nodes[x]
            /\ DOMAIN u.nodes = DOMAIN w.nodes \cup {Len(w.nodes) + 1}
        <5>1. at \in DOMAIN w.nodes /\ w \in Tree(V)
          BY <1>2, <2>3
        <5> QED BY ONLY <4>1, <4>2, <5>1, WithNodesIs
      <4> QED BY <2>3, <4>3
    <3>5. Climb(V, t, h, s, at, Listed(w, V))
      <4>1. s.tree = u /\ s.ptr = new /\ new # 0
        <5>1. Len(t.nodes) \in Nat
          BY <1>3 DEF Tree
        <5> QED BY <5>1, RisingIs
      <4>2. \A x \in DOMAIN t.nodes : h[x] > h[at] => x # at
        BY <1>2, <1>3
      <4> HIDE DEF s, u, w, new
      <4> QED BY <3>3, <3>4, <4>1, <4>2 DEF Climb
    <3> HIDE DEF s, u, w
    <3>6. /\ IsTree(InsertUpwards(s, Front(path)), V) /\ InsertUpwards(s, Front(path)).cmp = t.cmp
          /\ Listed(InsertUpwards(s, Front(path)), V) = Listed(w, V)
      BY <1>1, <1>2, <3>5, InsertUpwardsIs
    <3> QED BY <1>2, <1>5, <2>4, <2>5, <3>2, <3>6 DEF Inserts
  <2> QED BY <2>6, <2>7
<1> QED BY <1>4, <1>5

-----------------------------------------------------------------------------
\* The greatest number of a set that has one that is not smaller.
LEMMA MaxIs ==
    ASSUME NEW n \in Nat, NEW T, T \subseteq 1 .. n, T # {}
    PROVE  Max(T) \in T /\ \A x \in T : x <= Max(T)
<1> DEFINE U == {n - x : x \in T}
<1>1. U \subseteq Nat /\ U # {}
  <2>1. \A x \in T : n - x \in Nat
    OBVIOUS
  <2> QED BY <2>1
<1>2. PICK y \in U : \A z \in U : y <= z
  BY <1>1, LeastNumber
<1>3. PICK x \in T : y = n - x
  BY <1>2
<1>4. \A z \in T : z <= x
  <2> SUFFICES ASSUME NEW z \in T PROVE z <= x
    OBVIOUS
  <2>1. n - z \in U
    OBVIOUS
  <2>2. n - x <= n - z
    BY <1>2, <1>3, <2>1
  <2>3. z \in Nat /\ x \in Nat
    OBVIOUS
  <2> QED BY <2>2, <2>3
<1>5. \E w \in T : \A z \in T : z <= w
  BY <1>4
<1> QED BY <1>5 DEF Max

-----------------------------------------------------------------------------
\* What Persist writes for a node.
LeavesBefore(t, order, i) == {j \in 1 .. i - 1 : IsLeaf(t.nodes[order[j]])}
PlaceOf(order, p) == CHOOSE i \in DOMAIN order : order[i] = p

Written(t, conv, order, i) ==
    LET n == t.nodes[order[i]]
    IN  [keys |-> n.keys, vals |-> [j \in DOMAIN n.vals |-> conv[n.vals[j]]],
         ptrs |-> [j \in DOMAIN n.ptrs |-> PlaceOf(order, n.ptrs[j])],
         next |-> IF IsLeaf(n) THEN IF LeavesBefore(t, order, i) = {} THEN 0 ELSE Max(LeavesBefore(t, order, i)) ELSE 0]

\* The values of a tree can all be converted.
Converts(t, V, conv, W) == \A k \in Path, v \in V : <<k, v>> \in Listed(t, V) => conv[v] \in W

\* A node as Persist writes it: its keys, its values converted, its pointers at
\* the places where its children were written, and the last leaf written before as
\* the next one.
LEMMA WrittenIs ==
    ASSUME NEW V, NEW t, NEW h, NEW span, WellShaped(t, V, h, span), NEW conv, NEW W, Converts(t, V, conv, W),
           NEW i \in 1 .. Len(RightToLeft(t))
    PROVE  LET order == RightToLeft(t)
               n     == t.nodes[order[i]]
               m     == Written(t, conv, order, i)
           IN  /\ m \in Node(W) /\ m.keys = n.keys /\ Len(m.vals) = Len(n.vals) /\ Len(m.ptrs) = Len(n.ptrs)
               /\ \A j \in 1 .. Len(n.vals) : m.vals[j] = conv[n.vals[j]]
               /\ \A j \in 1 .. Len(n.ptrs) : m.ptrs[j] \in 1 .. Len(order) /\ order[m.ptrs[j]] = n.ptrs[j]
               /\ h[order[i]] # 0 => m.next = 0
               /\ h[order[i]] = 0 =>
                     \/ m.next = 0 /\ \A j \in 1 .. i - 1 : h[order[j]] # 0
                     \/ /\ m.next \in 1 .. i - 1 /\ h[order[m.next]] = 0
                        /\ \A j \in 1 .. i - 1 : h[order[j]] = 0 => j <= m.next
<1> DEFINE order == RightToLeft(t)
           L == Len(order)
           x == order[i]
           n == t.nodes[x]
           m == Written(t, conv, order, i)
           D == DOMAIN t.nodes
<1>1. /\ DOMAIN order = 1 .. L
      /\ \A p \in 1 .. L : order[p] \in D
      /\ \A y \in D : \E p \in 1 .. L : order[p] = y
      /\ RightOrder(t, h, span, t.root, order)
  BY RightToLeftIs
<1>2. L \in Nat
  BY <1>1 DEF RightOrder
<1>3. x \in D
  BY <1>1
<1>4. /\ n.keys \in Seq(Path) /\ n.vals \in Seq(V) /\ n.ptrs \in Seq(Nat) /\ NodeShaped(t, h, span, span, 0, x)
      /\ \A p \in D : h[p] \in Nat /\ (IsLeaf(t.nodes[p]) <=> h[p] = 0)
  BY <1>3, Facts, TreeFacts DEF WellShaped
<1>5. /\ DOMAIN n.vals = 1 .. Len(n.vals) /\ DOMAIN n.ptrs = 1 .. Len(n.ptrs) /\ Len(n.vals) \in Nat /\ Len(n.ptrs) \in Nat
  BY <1>4
<1>6. ASSUME NEW j \in 1 .. Len(n.vals) PROVE conv[n.vals[j]] \in W
  <2>1. h[x] = 0
    <3>1. h[x] # 0 => n.vals = <<>>
      BY <1>4 DEF NodeShaped, InnerShaped
    <3>2. n.vals = <<>> => Len(n.vals) = 0
      OBVIOUS
    <3> QED BY <3>1, <3>2
  <2>2. /\ Len(n.vals) = Len(n.keys)
        /\ \A l \in 1 .. Len(n.keys) : <<n.keys[l], n.vals[l]>> \in Listed(t, V)
    BY <1>3, <2>1, LeafFacts
  <2>3. n.vals[j] \in V /\ n.keys[j] \in Path
    BY <1>4, <2>2
  <2> HIDE DEF n
  <2> QED BY <2>2, <2>3 DEF Converts
<1>7. ASSUME NEW j \in 1 .. Len(n.ptrs) PROVE PlaceOf(order, n.ptrs[j]) \in 1 .. L /\ order[PlaceOf(order, n.ptrs[j])] = n.ptrs[j]
  <2>1. h[x] # 0
    <3>1. h[x] = 0 => n.ptrs = <<>>
      BY <1>4 DEF NodeShaped, LeafShaped
    <3>2. n.ptrs = <<>> => Len(n.ptrs) = 0
      OBVIOUS
    <3> QED BY <3>1, <3>2
  <2>2. n.ptrs[j] \in D
    BY <1>3, <2>1, ChildFacts
  <2> HIDE DEF n, order
  <2> QED BY <1>1, <2>2 DEF PlaceOf
<1> DEFINE vals == [j \in DOMAIN n.vals |-> conv[n.vals[j]]]
           ptrs == [j \in DOMAIN n.ptrs |-> PlaceOf(order, n.ptrs[j])]
           next == IF IsLeaf(n) THEN IF LeavesBefore(t, order, i) = {} THEN 0 ELSE Max(LeavesBefore(t, order, i)) ELSE 0
<1>8. m = [keys |-> n.keys, vals |-> vals, ptrs |-> ptrs, next |-> next]
  BY DEF Written
<1>9. vals \in Seq(W) /\ Len(vals) = Len(n.vals) /\ \A j \in 1 .. Len(n.vals) : vals[j] = conv[n.vals[j]]
  <2>1. vals \in [1 .. Len(n.vals) -> W]
    BY <1>5, <1>6
  <2> HIDE DEF n
  <2> QED BY <1>5, <2>1
<1>10. /\ ptrs \in Seq(Nat) /\ Len(ptrs) = Len(n.ptrs)
       /\ \A j \in 1 .. Len(n.ptrs) : ptrs[j] \in 1 .. L /\ order[ptrs[j]] = n.ptrs[j]
  <2>1. ptrs \in [1 .. Len(n.ptrs) -> Nat]
    BY <1>2, <1>5, <1>7
  <2> HIDE DEF n, order
  <2> QED BY <1>5, <1>7, <2>1
<1>11. /\ next \in Nat
       /\ h[x] # 0 => next = 0
       /\ h[x] = 0 =>
             \/ next = 0 /\ \A j \in 1 .. i - 1 : h[order[j]] # 0
             \/ /\ next \in 1 .. i - 1 /\ h[order[next]] = 0
                /\ \A j \in 1 .. i - 1 : h[order[j]] = 0 => j <= next
  <2> DEFINE T == LeavesBefore(t, order, i)
  <2>1. T = {j \in 1 .. i - 1 : h[order[j]] = 0}
    <3>1. \A j \in 1 .. i - 1 : order[j] \in D
      BY <1>1, <1>2
    <3> HIDE DEF order, D
    <3> QED BY <1>4, <3>1 DEF LeavesBefore
  <2>2. IsLeaf(n) <=> h[x] = 0
    BY <1>3, <1>4
  <2>3. i - 1 \in Nat
    BY <1>2
  <2> HIDE DEF T, x, n, order
  <2>4. T # {} => Max(T) \in T /\ \A j \in T : j <= Max(T)
    BY <2>1, <2>3, MaxIs
  <2>5. next = IF h[x] = 0 THEN IF T = {} THEN 0 ELSE Max(T) ELSE 0
    BY <2>2 DEF T
  <2> HIDE DEF next
  <2> QED BY <2>1, <2>3, <2>4, <2>5
<1> HIDE DEF n, m, vals, ptrs, next
<1>12. m \in Node(W)
  BY <1>4, <1>8, <1>9, <1>10, <1>11 DEF Node
<1>13. m.keys = n.keys /\ m.vals = vals /\ m.ptrs = ptrs /\ m.next = next
  BY <1>8
<1> HIDE DEF x, order, L
<1>14. /\ m \in Node(W) /\ m.keys = n.keys /\ Len(m.vals) = Len(n.vals) /\ Len(m.ptrs) = Len(n.ptrs)
       /\ \A j \in 1 .. Len(n.vals) : m.vals[j] = conv[n.vals[j]]
       /\ \A j \in 1 .. Len(n.ptrs) : m.ptrs[j] \in 1 .. L /\ order[m.ptrs[j]] = n.ptrs[j]
       /\ h[x] # 0 => m.next = 0
       /\ h[x] = 0 =>
             \/ m.next = 0 /\ \A j \in 1 .. i - 1 : h[order[j]] # 0
             \/ /\ m.next \in 1 .. i - 1 /\ h[order[m.next]] = 0
                /\ \A j \in 1 .. i - 1 : h[order[j]] = 0 => j <= m.next
  BY <1>9, <1>10, <1>11, <1>12, <1>13
<1> QED BY <1>14 DEF n, m, x, order, L

\* Where a leaf is in the order of Persist, there is the last one before it, which
\* is the next one of the list.
Links(t, h, span, order, i) ==
    /\ (\A j \in 1 .. i - 1 : h[order[j]] # 0) =>
           \A a \in span[order[i]], k \in Path : Before(t.cmp, a, k) => k \in span[order[i]]
    /\ \A y \in 1 .. i - 1 :
           h[order[y]] = 0 /\ (\A j \in 1 .. i - 1 : h[order[j]] = 0 => j <= y) =>
           \A a \in span[order[i]], b \in span[order[y]] :
              /\ Before(t.cmp, a, b)
              /\ \A k \in Path : Before(t.cmp, a, k) /\ Before(t.cmp, k, b) => k \in span[order[i]] \cup span[order[y]]

\* The last leaf that Persist wrote before a leaf is the next one to the right: it
\* goes from the right to the left.
LEMMA LinksAre ==
    ASSUME NEW V, NEW t, NEW h, NEW span, WellShaped(t, V, h, span), NEW i \in 1 .. Len(RightToLeft(t)), h[RightToLeft(t)[i]] = 0
    PROVE  Links(t, h, span, RightToLeft(t), i)
<1> DEFINE order == RightToLeft(t)
           L == Len(order)
           D == DOMAIN t.nodes
           cmp == t.cmp
<1>1. /\ DOMAIN order = 1 .. L
      /\ \A p \in 1 .. L : order[p] \in D
      /\ RightOrder(t, h, span, t.root, order)
  BY RightToLeftIs
<1>2. L \in Nat
  BY <1>1 DEF RightOrder
<1>3. /\ cmp \in Cmps /\ h \in [D -> Nat] /\ t.root \in D /\ span[t.root] = Path
      /\ \A x \in D : span[x] # {} /\ span[x] \subseteq Path
  BY TreeFacts
<1> HIDE DEF order, L, D, cmp
<1>4. ASSUME NEW p \in 1 .. L, NEW q \in 1 .. L, p < q, h[order[p]] = 0, h[order[q]] = 0,
             NEW a \in span[order[p]], NEW b \in span[order[q]]
      PROVE  Before(cmp, b, a)
  <2>1. After(t, h, span, order[p], order[q])
    BY <1>1, <1>4 DEF RightOrder, L
  <2>2. ~(h[order[p]] < h[order[q]])
    BY <1>4
  <2> QED BY <2>1, <2>2 DEF After, cmp
<1>5. ASSUME NEW k \in Path PROVE \E p \in 1 .. L : h[order[p]] = 0 /\ k \in span[order[p]]
  <2>1. 0 \in 0 .. h[t.root]
    BY <1>3
  <2> QED BY <1>1, <1>3, <2>1 DEF RightOrder, L
<1>6. \A a, c, b \in Path : ~(Before(cmp, a, c) /\ Before(cmp, c, a))
  BY <1>3, Ordered
<1>i. i \in 1 .. L /\ h[order[i]] = 0
  BY DEF order, L
<1>7. ASSUME \A j \in 1 .. i - 1 : h[order[j]] # 0, NEW a \in span[order[i]], NEW k \in Path, Before(cmp, a, k)
      PROVE  k \in span[order[i]]
  <2>1. PICK p \in 1 .. L : h[order[p]] = 0 /\ k \in span[order[p]]
    BY <1>5
  <2>2. CASE p < i
    <3>1. p \in 1 .. i - 1
      BY <1>2, <1>i, <2>2
    <3> QED BY <1>7, <2>1, <3>1
  <2>3. CASE i < p
    <3>1. Before(cmp, k, a)
      BY <1>4, <1>i, <2>1, <2>3
    <3> QED BY <1>1, <1>3, <1>6, <1>7, <1>i, <3>1
  <2>4. CASE i = p
    BY <2>1, <2>4
  <2> QED BY <1>2, <1>i, <2>2, <2>3, <2>4
<1>8. ASSUME NEW y \in 1 .. i - 1, h[order[y]] = 0, \A j \in 1 .. i - 1 : h[order[j]] = 0 => j <= y,
             NEW a \in span[order[i]], NEW b \in span[order[y]]
      PROVE  /\ Before(cmp, a, b)
             /\ \A k \in Path : Before(cmp, a, k) /\ Before(cmp, k, b) => k \in span[order[i]] \cup span[order[y]]
  <2>1. y \in 1 .. L /\ y < i /\ i \in Nat /\ y \in Nat
    BY <1>2, <1>i
  <2>2. Before(cmp, a, b)
    BY <1>4, <1>8, <1>i, <2>1
  <2>3. ASSUME NEW k \in Path, Before(cmp, a, k), Before(cmp, k, b) PROVE k \in span[order[i]] \cup span[order[y]]
    <3>1. PICK p \in 1 .. L : h[order[p]] = 0 /\ k \in span[order[p]]
      BY <1>5
    <3>2. CASE p < y
      <4>1. Before(cmp, b, k)
        BY <1>4, <1>8, <2>1, <3>1, <3>2
      <4> QED BY <1>1, <1>3, <1>6, <2>1, <2>3, <4>1
    <3>3. CASE i < p
      <4>1. Before(cmp, k, a)
        BY <1>4, <1>i, <3>1, <3>3
      <4> QED BY <1>1, <1>3, <1>6, <1>i, <2>3, <4>1
    <3>4. CASE y < p /\ p < i
      <4>1. p \in 1 .. i - 1 /\ ~(p <= y)
        BY <1>2, <2>1, <3>4
      <4> QED BY <1>8, <3>1, <4>1
    <3>5. CASE p = y \/ p = i
      BY <3>1, <3>5
    <3> QED BY <1>2, <2>1, <3>2, <3>3, <3>4, <3>5
  <2> QED BY <2>2, <2>3
<1> QED BY <1>7, <1>8 DEF order, cmp, Links

-----------------------------------------------------------------------------
\* The store has the same tree, with the nodes in another order and other values.
Stored(V, t, conv, W, u) ==
    /\ IsTree(u, W) /\ u.cmp = t.cmp
    /\ \A k \in Path : \A w : <<k, w>> \in Listed(u, W) <=> \E v \in V : <<k, v>> \in Listed(t, V) /\ w = conv[v]

\* What Persist returns, in the words of the lemmas above.
LEMMA PersistParts ==
    ASSUME NEW V, NEW t \in Tree(V), NEW conv
    PROVE  Persist(t, conv) = [root |-> Len(RightToLeft(t)),
                               nodes |-> [i \in DOMAIN RightToLeft(t) |-> Written(t, conv, RightToLeft(t), i)],
                               cmp |-> t.cmp]
<1> DEFINE order == RightToLeft(t)
           nodes == [i \in DOMAIN order |-> Written(t, conv, order, i)]
<1>1. t = [root |-> t.root, nodes |-> t.nodes, cmp |-> t.cmp]
  BY DEF Tree
<1>2. Persist(t, conv) = [t EXCEPT !.root = Len(order), !.nodes = nodes]
  BY DEF Persist, Written, LeavesBefore, PlaceOf
<1> DEFINE a == [t EXCEPT !.root = Len(order)]
<1>3. a = [root |-> Len(order), nodes |-> t.nodes, cmp |-> t.cmp]
  <2> HIDE DEF order
  <2> QED BY <1>1
<1>4. [t EXCEPT !.root = Len(order), !.nodes = nodes] = [a EXCEPT !.nodes = nodes]
  <2> HIDE DEF order, nodes
  <2> QED BY <1>1
<1>5. [a EXCEPT !.nodes = nodes] = [root |-> Len(order), nodes |-> nodes, cmp |-> t.cmp]
  <2> HIDE DEF a, order, nodes
  <2> QED BY <1>3
<1> QED BY <1>2, <1>4, <1>5

\* Persist: the copy has the shape of a tree, with the links of its leaves set,
\* and lists the same keys with the converted values.
THEOREM PersistIs ==
    ASSUME NEW V, NEW t, IsTree(t, V), NEW conv, NEW W, Converts(t, V, conv, W)
    PROVE  Stored(V, t, conv, W, Persist(t, conv))
<1>0. PICK h, span : WellShaped(t, V, h, span)
  BY DEF IsTree
<1> DEFINE order == RightToLeft(t)
           L == Len(order)
           D == DOMAIN t.nodes
           u == Persist(t, conv)
           cmp == t.cmp
           m(i) == Written(t, conv, order, i)
           hh == [i \in 1 .. L |-> h[order[i]]]
           ss == [i \in 1 .. L |-> span[order[i]]]
<1>1. /\ DOMAIN order = 1 .. L
      /\ \A p \in 1 .. L : order[p] \in D
      /\ \A x \in D : \E p \in 1 .. L : order[p] = x
      /\ \A p, q \in 1 .. L : order[p] = order[q] => p = q
      /\ RightOrder(t, h, span, t.root, order)
  BY <1>0, RightToLeftIs
<1>2. L \in Nat /\ L # 0 /\ order[L] = t.root
  BY <1>1 DEF RightOrder
<1>3. /\ cmp \in Cmps /\ h \in [D -> Nat] /\ t.root \in D /\ span[t.root] = Path /\ t \in Tree(V)
      /\ span \in [D -> SUBSET Path]
      /\ \A x, y \in D : x # y /\ h[x] = h[y] => span[x] \cap span[y] = {}
      /\ \A x \in D : h[x] <= h[t.root]
      /\ \A x \in D : span[x] # {} /\ span[x] \subseteq Path
  BY <1>0, TreeFacts
<1>4. u = [root |-> L, nodes |-> [i \in 1 .. L |-> m(i)], cmp |-> cmp]
  BY <1>1, <1>3, PersistParts
<1>5. ASSUME NEW i \in 1 .. L
      PROVE  LET n == t.nodes[order[i]]
             IN  /\ m(i) \in Node(W) /\ m(i).keys = n.keys /\ Len(m(i).vals) = Len(n.vals) /\ Len(m(i).ptrs) = Len(n.ptrs)
                 /\ \A j \in 1 .. Len(n.vals) : m(i).vals[j] = conv[n.vals[j]]
                 /\ \A j \in 1 .. Len(n.ptrs) : m(i).ptrs[j] \in 1 .. L /\ order[m(i).ptrs[j]] = n.ptrs[j]
                 /\ h[order[i]] # 0 => m(i).next = 0
                 /\ h[order[i]] = 0 =>
                       \/ m(i).next = 0 /\ \A j \in 1 .. i - 1 : h[order[j]] # 0
                       \/ /\ m(i).next \in 1 .. i - 1 /\ h[order[m(i).next]] = 0
                          /\ \A j \in 1 .. i - 1 : h[order[j]] = 0 => j <= m(i).next
  BY <1>0, WrittenIs
<1>6. \A i \in 1 .. L : h[order[i]] = 0 => Links(t, h, span, order, i)
  BY <1>0, LinksAre
<1>7. ASSUME NEW i \in 1 .. L
      PROVE  /\ NodeShaped(t, h, span, span, 0, order[i]) /\ t.nodes[order[i]] \in Node(V)
             /\ h[order[i]] # 0 => \A j \in 1 .. Len(t.nodes[order[i]].ptrs) :
                   LET c == t.nodes[order[i]].ptrs[j]
                   IN  h[c] + 1 = h[order[i]] /\ span[c] = span[order[i]] \cap Slot(cmp, t.nodes[order[i]].keys, j)
  <2> DEFINE x == order[i]
  <2>1. x \in D
    BY <1>1
  <2> HIDE DEF x
  <2>2. NodeShaped(t, h, span, span, 0, x) /\ t.nodes[x] \in Node(V)
    BY <1>0, <2>1, Facts DEF WellShaped
  <2>3. ASSUME h[x] # 0, NEW j \in 1 .. Len(t.nodes[x].ptrs)
        PROVE  LET c == t.nodes[x].ptrs[j]
               IN  h[c] + 1 = h[x] /\ span[c] = span[x] \cap Slot(cmp, t.nodes[x].keys, j)
    BY <1>0, <2>1, <2>3, ChildFacts
  <2> QED BY <2>2, <2>3 DEF x
<1> HIDE DEF order, L, D, u, cmp, m
<1>8. /\ u.root = L /\ u.cmp = cmp /\ DOMAIN u.nodes = 1 .. L /\ u \in Tree(W)
      /\ \A i \in 1 .. L : u.nodes[i] = m(i)
  <2> DEFINE nodes == [i \in 1 .. L |-> m(i)]
  <2>1. nodes \in Seq(Node(W)) /\ DOMAIN nodes = 1 .. L /\ \A i \in 1 .. L : nodes[i] = m(i)
    BY <1>2, <1>5
  <2> HIDE DEF nodes
  <2>2. u = [root |-> L, nodes |-> nodes, cmp |-> cmp]
    BY <1>4 DEF nodes
  <2> QED BY <1>2, <1>3, <2>1, <2>2 DEF Tree
<1>9. /\ hh \in [1 .. L -> Nat] /\ ss \in [1 .. L -> SUBSET Path]
      /\ \A i \in 1 .. L : hh[i] = h[order[i]] /\ ss[i] = span[order[i]]
  BY <1>1, <1>3
<1> HIDE DEF hh, ss
<1>10. ASSUME NEW i \in 1 .. L, hh[i] = 0 PROVE LeafShaped(u, hh, ss, i)
  <2> DEFINE n == t.nodes[order[i]]
  <2>1. h[order[i]] = 0
    BY <1>9, <1>10
  <2>2. n.ptrs = <<>> /\ Len(n.vals) = Len(n.keys)
    BY <1>7, <2>1 DEF NodeShaped, LeafShaped
  <2>3. u.nodes[i].ptrs = <<>>
    <3>1. Len(m(i).ptrs) = 0 /\ m(i).ptrs \in Seq(Nat)
      <4>1. Len(m(i).ptrs) = Len(n.ptrs) /\ m(i) \in Node(W)
        BY <1>5
      <4> QED BY <2>2, <4>1 DEF Node
    <3> QED BY <1>8, <3>1
  <2>4. Len(u.nodes[i].vals) = Len(u.nodes[i].keys)
    BY <1>5, <1>8, <2>2
  <2>5. Linked(u, hh, ss, i)
    <3> DEFINE y == m(i).next
    <3>0. u.nodes[i].next = y /\ u.cmp = cmp
      BY <1>8
    <3>1. CASE y = 0 /\ \A j \in 1 .. i - 1 : h[order[j]] # 0
      <4>1. \A a \in span[order[i]], k \in Path : Before(cmp, a, k) => k \in span[order[i]]
        BY <1>6, <2>1, <3>1 DEF Links, cmp
      <4> QED BY <1>9, <3>0, <3>1, <4>1 DEF Linked
    <3>2. CASE y \in 1 .. i - 1 /\ h[order[y]] = 0 /\ \A j \in 1 .. i - 1 : h[order[j]] = 0 => j <= y
      <4> HIDE DEF y
      <4>1. \A a \in span[order[i]], b \in span[order[y]] :
                /\ Before(cmp, a, b)
                /\ \A k \in Path : Before(cmp, a, k) /\ Before(cmp, k, b) => k \in span[order[i]] \cup span[order[y]]
        BY <1>6, <2>1, <3>2 DEF Links, cmp
      <4>2. y \in 1 .. L
        BY <1>2, <3>2
      <4>3. y \in DOMAIN u.nodes /\ hh[y] = 0 /\ ss[y] = span[order[y]] /\ ss[i] = span[order[i]]
        BY <1>8, <1>9, <3>2, <4>2
      <4> QED BY <3>0, <4>1, <4>3 DEF Linked
    <3> QED BY <1>5, <2>1, <3>1, <3>2
  <2> QED BY <2>3, <2>4, <2>5 DEF LeafShaped
<1>11. ASSUME NEW i \in 1 .. L, hh[i] # 0 PROVE InnerShaped(u, hh, ss, ss, 0, i)
  <2> DEFINE n == t.nodes[order[i]]
  <2>1. h[order[i]] # 0
    BY <1>9, <1>11
  <2>2. n.vals = <<>> /\ Len(n.ptrs) = Len(n.keys) + 1
    BY <1>7, <2>1 DEF NodeShaped, InnerShaped
  <2>3. u.nodes[i].vals = <<>>
    <3>1. Len(m(i).vals) = 0 /\ m(i).vals \in Seq(W)
      <4>1. Len(m(i).vals) = Len(n.vals) /\ m(i) \in Node(W)
        BY <1>5
      <4> QED BY <2>2, <4>1 DEF Node
    <3> QED BY <1>8, <3>1
  <2>4. u.nodes[i].next = 0 /\ Len(u.nodes[i].ptrs) = Len(u.nodes[i].keys) + 1 /\ u.nodes[i].keys = n.keys
        /\ Len(u.nodes[i].ptrs) = Len(n.ptrs)
    BY <1>5, <1>8, <2>1, <2>2
  <2>5. ASSUME NEW j \in 1 .. Len(u.nodes[i].ptrs)
        PROVE  LET c == u.nodes[i].ptrs[j]
               IN  c \in DOMAIN u.nodes /\ c # 0 /\ hh[c] + 1 = hh[i] /\ ss[c] = ss[i] \cap Slot(u.cmp, u.nodes[i].keys, j)
    <3> DEFINE c == u.nodes[i].ptrs[j]
    <3>1. j \in 1 .. Len(n.ptrs)
      BY <2>4
    <3>2. c \in 1 .. L /\ order[c] = n.ptrs[j]
      BY <1>5, <1>8, <3>1
    <3>3. h[n.ptrs[j]] + 1 = h[order[i]] /\ span[n.ptrs[j]] = span[order[i]] \cap Slot(cmp, n.keys, j)
      BY <1>7, <2>1, <3>1
    <3> HIDE DEF c, n
    <3>4. c # 0
      BY <1>2, <3>2
    <3> QED BY <1>8, <1>9, <2>4, <3>2, <3>3, <3>4 DEF c
  <2> QED BY <2>3, <2>4, <2>5 DEF InnerShaped
<1>12. ASSUME NEW i \in 1 .. L PROVE NodeShaped(u, hh, ss, ss, 0, i)
  <2> DEFINE x == order[i]
             n == t.nodes[x]
  <2>1. /\ Len(n.keys) < Order /\ Increasing(cmp, n.keys)
        /\ \A j \in DOMAIN n.keys : n.keys[j] \in span[x]
        /\ span[x] # {} /\ Convex(cmp, span[x])
    BY <1>7 DEF NodeShaped, cmp
  <2>2. u.nodes[i].keys = n.keys /\ u.cmp = cmp /\ ss[i] = span[x]
    BY <1>5, <1>8, <1>9
  <2> HIDE DEF x, n
  <2> QED BY <1>10, <1>11, <2>1, <2>2 DEF NodeShaped
<1>13. WellShaped(u, W, hh, ss)
  <2>1. L \in 1 .. L /\ L # 0
    BY <1>2
  <2>2. ss[L] = Path
    BY <1>2, <1>3, <1>9, <2>1
  <2>3. \A x, y \in 1 .. L : x # y /\ hh[x] = hh[y] => ss[x] \cap ss[y] = {}
    BY <1>1, <1>3, <1>9
  <2>4. \A x \in 1 .. L : hh[x] <= hh[L]
    BY <1>1, <1>2, <1>3, <1>9, <2>1
  <2> QED BY <1>8, <1>9, <1>12, <2>1, <2>2, <2>3, <2>4 DEF WellShaped, Shape
<1>14. IsTree(u, W)
  BY <1>13 DEF IsTree
<1>15. ASSUME NEW k \in Path, NEW w PROVE <<k, w>> \in Listed(u, W) <=> \E v \in V : <<k, v>> \in Listed(t, V) /\ w = conv[v]
  <2>1. ASSUME <<k, w>> \in Listed(u, W) PROVE \E v \in V : <<k, v>> \in Listed(t, V) /\ w = conv[v]
    <3>1. PICK i \in DOMAIN u.nodes : \E j \in DOMAIN u.nodes[i].vals : u.nodes[i].keys[j] = k /\ u.nodes[i].vals[j] = w
      BY <2>1 DEF Listed
    <3>2. PICK j \in DOMAIN u.nodes[i].vals : u.nodes[i].keys[j] = k /\ u.nodes[i].vals[j] = w
      BY <3>1
    <3> DEFINE n == t.nodes[order[i]]
    <3>3. i \in 1 .. L /\ n \in Node(V)
      BY <1>7, <1>8, <3>1
    <3>4. n.vals \in Seq(V) /\ DOMAIN n.vals = 1 .. Len(n.vals)
      BY <3>3 DEF Node
    <3>5. /\ u.nodes[i].keys = n.keys /\ Len(u.nodes[i].vals) = Len(n.vals) /\ u.nodes[i] \in Node(W)
          /\ \A l \in 1 .. Len(n.vals) : u.nodes[i].vals[l] = conv[n.vals[l]]
      <4>1. u.nodes[i] = m(i)
        BY <1>8, <3>3
      <4> QED BY <1>5, <3>3, <4>1
    <3>6. u.nodes[i].vals \in Seq(W)
      BY <3>5 DEF Node
    <3>7. j \in 1 .. Len(n.vals)
      BY <3>2, <3>5, <3>6
    <3>8. order[i] \in D /\ n.vals[j] \in V /\ n.keys[j] = k /\ w = conv[n.vals[j]]
      BY <1>1, <3>2, <3>3, <3>4, <3>5, <3>7
    <3>9. <<k, n.vals[j]>> \in Listed(t, V)
      BY <3>4, <3>7, <3>8 DEF Listed, D
    <3> QED BY <3>8, <3>9
  <2>2. ASSUME NEW v \in V, <<k, v>> \in Listed(t, V), w = conv[v] PROVE <<k, w>> \in Listed(u, W)
    <3>1. PICK x \in D : \E j \in DOMAIN t.nodes[x].vals : t.nodes[x].keys[j] = k /\ t.nodes[x].vals[j] = v
      BY <2>2 DEF Listed, D
    <3>2. PICK j \in DOMAIN t.nodes[x].vals : t.nodes[x].keys[j] = k /\ t.nodes[x].vals[j] = v
      BY <3>1
    <3>3. PICK i \in 1 .. L : order[i] = x
      BY <1>1
    <3> DEFINE n == t.nodes[order[i]]
    <3>4. n \in Node(V)
      BY <1>7
    <3>5. DOMAIN n.vals = 1 .. Len(n.vals) /\ j \in 1 .. Len(n.vals)
      BY <3>2, <3>3, <3>4 DEF Node
    <3>6. /\ u.nodes[i].keys = n.keys /\ Len(u.nodes[i].vals) = Len(n.vals) /\ u.nodes[i] \in Node(W)
          /\ u.nodes[i].vals[j] = conv[n.vals[j]]
      BY <1>5, <1>8, <3>5
    <3>7. j \in DOMAIN u.nodes[i].vals
      BY <3>5, <3>6 DEF Node
    <3>8. u.nodes[i].keys[j] = k /\ u.nodes[i].vals[j] = w
      BY <2>2, <3>2, <3>3, <3>6
    <3>9. w \in W
      BY <2>2 DEF Converts
    <3> QED BY <1>8, <3>7, <3>8, <3>9 DEF Listed
  <2> QED BY <2>1, <2>2
<1> QED BY <1>8, <1>14, <1>15 DEF Stored, u, cmp

-----------------------------------------------------------------------------
\* The list of what Persist wrote is the list of the tree, converted.
LEMMA PersistedPairs ==
    ASSUME NEW V, NEW t, IsTree(t, V), NEW conv, NEW W, Converts(t, V, conv, W)
    PROVE  Pairs(Persist(t, conv)) = [i \in DOMAIN Pairs(t) |-> <<Pairs(t)[i][1], conv[Pairs(t)[i][2]]>>]
<1> DEFINE u == Persist(t, conv)
           a == Pairs(t)
           b == Pairs(u)
           c == [i \in DOMAIN a |-> <<a[i][1], conv[a[i][2]]>>]
           cmp == t.cmp
<1>1. Stored(V, t, conv, W, u)
  BY PersistIs
<1>2. a \in Seq(Path \X V) /\ Sorted(cmp, a) /\ ToSet(a) = Listed(t, V) /\ cmp \in Cmps
  <2>1. PICK h, span : WellShaped(t, V, h, span)
    BY DEF IsTree
  <2> QED BY <2>1, PairsAre, TreeFacts
<1>3. b \in Seq(Path \X W) /\ Sorted(cmp, b) /\ ToSet(b) = Listed(u, W)
  BY <1>1, PairsAre DEF Stored
<1> HIDE DEF u, a, b, cmp
<1>4. DOMAIN a = 1 .. Len(a) /\ Len(a) \in Nat
  BY <1>2
<1>5. ASSUME NEW i \in 1 .. Len(a)
      PROVE  /\ a[i][1] \in Path /\ a[i][2] \in V /\ a[i] = <<a[i][1], a[i][2]>> /\ <<a[i][1], a[i][2]>> \in Listed(t, V)
             /\ conv[a[i][2]] \in W
  <2>1. a[i] \in Path \X V /\ a[i] \in Listed(t, V)
    BY <1>2, <1>4 DEF ToSet
  <2> QED BY <2>1 DEF Converts
<1>6. c \in Seq(Path \X W) /\ DOMAIN c = 1 .. Len(a) /\ \A i \in 1 .. Len(a) : c[i][1] = a[i][1] /\ c[i] = <<a[i][1], conv[a[i][2]]>>
  <2>1. c \in [1 .. Len(a) -> Path \X W]
    BY <1>4, <1>5
  <2> QED BY <1>4, <2>1
<1>7. Sorted(cmp, c)
  BY <1>2, <1>4, <1>6 DEF Sorted
<1>8. ASSUME NEW kw PROVE kw \in ToSet(c) <=> kw \in Listed(u, W)
  <2>1. ASSUME kw \in ToSet(c) PROVE kw \in Listed(u, W)
    <3>1. PICK i \in 1 .. Len(a) : kw = c[i]
      BY <1>6, <2>1 DEF ToSet
    <3>2. kw = <<a[i][1], conv[a[i][2]]>>
      BY <1>6, <3>1
    <3>3. <<a[i][1], conv[a[i][2]]>> \in Listed(u, W)
      BY <1>1, <1>5 DEF Stored, u
    <3> QED BY <3>2, <3>3
  <2>2. ASSUME kw \in Listed(u, W) PROVE kw \in ToSet(c)
    <3>1. PICK k \in Path, w \in W : kw = <<k, w>>
      BY <2>2 DEF Listed
    <3>2. PICK v \in V : <<k, v>> \in Listed(t, V) /\ w = conv[v]
      BY <1>1, <2>2, <3>1 DEF Stored, u
    <3>3. PICK i \in 1 .. Len(a) : a[i] = <<k, v>>
      BY <1>2, <1>4, <3>2 DEF ToSet
    <3>4. c[i] = <<k, w>>
      BY <1>6, <3>2, <3>3
    <3> QED BY <1>6, <3>1, <3>4 DEF ToSet
  <2> QED BY <2>1, <2>2
<1> HIDE DEF c
<1>9. ToSet(c) = ToSet(b)
  BY <1>3, <1>8
<1>10. b = c
  BY <1>2, <1>3, <1>6, <1>7, <1>9, UniqueSorted
<1> QED BY <1>10 DEF b, u, c, a

-----------------------------------------------------------------------------
\* The paths of a set in the order of the strings: each of them, once.
LEMMA InStringOrderIs ==
    ASSUME NEW S, S \subseteq Path, IsFiniteSet(S)
    PROVE  InStringOrder(S) \in Seq(S) /\ ToSet(InStringOrder(S)) = S
<1> DEFINE n == Cardinality(S)
           smaller(p) == {q \in S : StringLess(q, p)}
           rank == [p \in S |-> Cardinality(smaller(p)) + 1]
           seq == InStringOrder(S)
<1>1. n \in Nat
  BY FS_CardinalityType
<1>2. ASSUME NEW p \in S PROVE IsFiniteSet(smaller(p)) /\ Cardinality(smaller(p)) \in 0 .. n - 1 /\ Cardinality(smaller(p)) \in Nat
  <2>1. IsFiniteSet(smaller(p)) /\ Cardinality(smaller(p)) <= n /\ (n = Cardinality(smaller(p)) => S = smaller(p))
    BY FS_Subset
  <2>2. p \notin smaller(p)
    BY StringsAreOrdered
  <2>3. Cardinality(smaller(p)) \in Nat /\ Cardinality(smaller(p)) # n
    BY <2>1, <2>2, FS_CardinalityType
  <2> HIDE DEF smaller, n
  <2> QED BY <1>1, <2>1, <2>3
<1>3. ASSUME NEW p \in S, NEW q \in S, StringLess(p, q) PROVE Cardinality(smaller(p)) < Cardinality(smaller(q))
  <2>1. smaller(p) \subseteq smaller(q)
    BY <1>3, StringsAreOrdered
  <2>2. p \in smaller(q) /\ p \notin smaller(p)
    BY <1>3, StringsAreOrdered
  <2>3. Cardinality(smaller(p)) <= Cardinality(smaller(q)) /\ Cardinality(smaller(p)) # Cardinality(smaller(q))
    BY <1>2, <2>1, <2>2, FS_Subset
  <2>4. Cardinality(smaller(p)) \in Nat /\ Cardinality(smaller(q)) \in Nat
    BY <1>2
  <2> HIDE DEF smaller
  <2> QED BY <2>3, <2>4
<1>4. \A p, q \in S : p # q => rank[p] # rank[q]
  <2> SUFFICES ASSUME NEW p \in S, NEW q \in S, p # q PROVE rank[p] # rank[q]
    OBVIOUS
  <2>1. StringLess(p, q) \/ StringLess(q, p)
    BY StringsAreOrdered
  <2>2. Cardinality(smaller(p)) \in Nat /\ Cardinality(smaller(q)) \in Nat
    BY <1>2
  <2>3. Cardinality(smaller(p)) # Cardinality(smaller(q))
    <3>1. CASE StringLess(p, q)
      <4>1. Cardinality(smaller(p)) < Cardinality(smaller(q))
        BY <1>3, <3>1
      <4> HIDE DEF smaller
      <4> QED BY <2>2, <4>1
    <3>2. CASE StringLess(q, p)
      <4>1. Cardinality(smaller(q)) < Cardinality(smaller(p))
        BY <1>3, <3>2
      <4> HIDE DEF smaller
      <4> QED BY <2>2, <4>1
    <3> QED BY <2>1, <3>1, <3>2
  <2> HIDE DEF smaller
  <2> QED BY <2>2, <2>3
<1>5. rank \in [S -> 1 .. n]
  <2> SUFFICES ASSUME NEW p \in S PROVE Cardinality(smaller(p)) + 1 \in 1 .. n
    OBVIOUS
  <2>1. Cardinality(smaller(p)) \in 0 .. n - 1
    BY <1>2
  <2> HIDE DEF smaller, n
  <2> QED BY <1>1, <2>1
<1>6. \A i \in 1 .. n : \E p \in S : rank[p] = i
  <2>1. rank \in Injection(S, 1 .. n)
    <3> HIDE DEF rank, n
    <3> QED BY <1>4, <1>5 DEF Injection, IsInjective
  <2>2. IsFiniteSet(1 .. n) /\ Cardinality(1 .. n) = n
    <3> HIDE DEF n
    <3>1. IsFiniteSet(1 .. n) /\ Cardinality(1 .. n) = IF 1 > n THEN 0 ELSE n - 1 + 1
      BY <1>1, FS_Interval
    <3> QED BY <1>1, <3>1
  <2>3. rank \in Surjection(S, 1 .. n)
    <3> HIDE DEF rank
    <3> QED BY <2>1, <2>2, FS_Injection
  <2> HIDE DEF rank, n
  <2> QED BY <2>3 DEF Surjection
<1>7. ASSUME NEW i \in 1 .. n PROVE seq[i] \in S /\ rank[seq[i]] = i
  <2>1. PICK p \in S : rank[p] = i
    BY <1>6
  <2>2. Cardinality(smaller(p)) = i - 1
    <3>1. rank[p] = Cardinality(smaller(p)) + 1
      OBVIOUS
    <3>2. Cardinality(smaller(p)) \in Nat
      BY <1>2
    <3> HIDE DEF rank, smaller
    <3> QED BY <2>1, <3>1, <3>2
  <2>3. seq[i] = CHOOSE path \in S : Cardinality(smaller(path)) = i - 1
    BY DEF InStringOrder
  <2> HIDE DEF seq
  <2>4. seq[i] \in S /\ Cardinality(smaller(seq[i])) = i - 1
    <3> HIDE DEF smaller
    <3> QED BY <2>2, <2>3
  <2>5. rank[seq[i]] = (i - 1) + 1
    BY <2>4
  <2>6. i \in Nat /\ (i - 1) + 1 = i
    <3> HIDE DEF n
    <3> QED BY <1>1
  <2> QED BY <2>4, <2>5, <2>6
<1>8. seq = [i \in 1 .. n |-> seq[i]] /\ DOMAIN seq = 1 .. n
  <2> DEFINE at(i) == CHOOSE path \in S : Cardinality({q \in S : StringLess(q, path)}) = i - 1
  <2>1. seq = [i \in 1 .. n |-> at(i)]
    BY DEF InStringOrder
  <2> HIDE DEF seq, at, n
  <2> QED BY <2>1
<1> HIDE DEF seq, rank, n
<1>9. seq \in Seq(S)
  BY <1>1, <1>7, <1>8
<1>10. ASSUME NEW p \in S PROVE p \in ToSet(seq)
  <2>1. rank[p] \in 1 .. n
    BY <1>5
  <2>2. seq[rank[p]] \in S /\ rank[seq[rank[p]]] = rank[p]
    BY <1>7, <2>1
  <2>3. seq[rank[p]] = p
    BY <1>4, <2>2
  <2> QED BY <1>8, <2>1, <2>3 DEF ToSet
<1>11. \A p \in ToSet(seq) : p \in S
  BY <1>7, <1>8 DEF ToSet
<1> QED BY <1>9, <1>10, <1>11 DEF seq
=============================================================================
