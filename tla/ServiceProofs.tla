---------------------------- MODULE ServiceProofs ----------------------------
(***************************************************************************)
(* Theorems about what serves a repository and what is around it:          *)
(* Packfile, for packfiles of any number of blobs of any lengths, with any *)
(* sizes of MACs, pieces and chunks, and whatever happens to a stored      *)
(* file; ObjectReader, for files of any number of chunks of any lengths;   *)
(* Agent, for any number of clients, any of which may be killed, and any   *)
(* number of events; Scheduler, for any tasks with any retentions;         *)
(* Importer, for any tree.                                                 *)
(*                                                                         *)
(* Packfile and ObjectReader go through sequences from the front:          *)
(* induction over numbers is taken from the well-foundedness of < on them, *)
(* for sets in the place of predicates.                                    *)
(***************************************************************************)
EXTENDS Packfile, ObjectReader, Agent, Scheduler, Importer, SequenceTheorems, WellFoundedInduction, TLAPS

\* The least number principle, and with it induction, for sets.
LEMMA LeastNumber ==
    ASSUME NEW T, T \subseteq Nat, T # {}
    PROVE  \E x \in T : \A y \in T : x <= y
<1> DEFINE R == OpToRel(<, Nat)
<1>1. IsWellFoundedOn(R, Nat)
  BY NatLessThanWellFounded
<1>2. \A x, y \in Nat : <<x, y>> \in R <=> x < y
  BY DEF OpToRel
<1> HIDE DEF R
<1>3. PICK x \in T : \A y \in T : ~ (<<y, x>> \in R)
  BY <1>1, WFMin
<1>4. ASSUME NEW y \in T PROVE x <= y
  <2>1. x \in Nat /\ y \in Nat /\ ~ (y < x)
    BY <1>2, <1>3
  <2> QED BY <2>1
<1> QED BY <1>4

LEMMA SetInduction ==
    ASSUME NEW S, 0 \in S, \A n \in Nat : n \in S => n + 1 \in S
    PROVE  Nat \subseteq S
<1> SUFFICES ASSUME Nat \ S # {} PROVE FALSE
  OBVIOUS
<1>1. PICK x \in Nat \ S : \A y \in Nat \ S : x <= y
  BY LeastNumber
<1>2. x # 0
  OBVIOUS
<1>3. x - 1 \in Nat /\ x - 1 < x /\ x - 1 + 1 = x
  BY <1>2
<1>4. x - 1 \in S
  BY <1>1, <1>3
<1> QED BY <1>1, <1>3, <1>4

LEMMA MinIs ==
    ASSUME NEW T, T \subseteq Nat, T # {}
    PROVE  Min(T) \in T /\ \A y \in T : Min(T) <= y
<1>1. \E x \in T : \A y \in T : x <= y
  BY LeastNumber
<1> QED BY <1>1 DEF Min

LEMMA MaxIs ==
    ASSUME NEW N \in Nat, NEW T, T \subseteq 1 .. N, T # {}
    PROVE  Max(T) \in T /\ \A y \in T : y <= Max(T)
<1> DEFINE U == {N - x : x \in T}
<1>1. U \subseteq Nat /\ U # {}
  <2>1. ASSUME NEW x \in T PROVE N - x \in Nat
    <3>1. x \in 1 .. N
      OBVIOUS
    <3> QED BY <3>1
  <2> QED BY <2>1
<1>2. PICK u \in U : \A y \in U : u <= y
  <2> HIDE DEF U
  <2> QED BY <1>1, LeastNumber
<1>3. PICK x \in T : u = N - x
  BY <1>2
<1>4. \A y \in T : y <= x
  <2> TAKE y \in T
  <2>1. N - y \in U
    OBVIOUS
  <2>2. u <= N - y
    BY <1>2, <2>1
  <2>3. x \in 1 .. N /\ y \in 1 .. N
    OBVIOUS
  <2> HIDE DEF U
  <2> QED BY <1>3, <2>2, <2>3
<1>5. \E z \in T : \A y \in T : z >= y
  BY <1>4
<1>6. Max(T) \in T /\ \A y \in T : Max(T) >= y
  <2> HIDE DEF U
  <2> QED BY <1>5 DEF Max
<1> QED BY <1>6

\* The sums of the numbers before each are well defined.
IsSums(s, N, c) == s = [i \in 1 .. N + 1 |-> IF i = 1 THEN 0 ELSE s[i - 1] + c[i - 1]]

LEMMA SumsExist ==
    ASSUME NEW N \in Nat, NEW c \in [1 .. N -> Nat]
    PROVE  \E s \in [1 .. N + 1 -> Nat] : IsSums(s, N, c)
<1> DEFINE S == {n \in Nat : n <= N => \E s \in [1 .. n + 1 -> Nat] : IsSums(s, n, c)}
<1>1. 0 \in S
  <2> DEFINE z == [i \in 1 .. 1 |-> 0]
  <2>1. z \in [1 .. 1 -> Nat] /\ IsSums(z, 0, c)
    BY DEF IsSums
  <2> QED BY <2>1
<1>2. ASSUME NEW n \in Nat, n \in S PROVE n + 1 \in S
  <2> SUFFICES ASSUME n + 1 <= N PROVE \E s \in [1 .. n + 2 -> Nat] : IsSums(s, n + 1, c)
    OBVIOUS
  <2>1. PICK s \in [1 .. n + 1 -> Nat] : IsSums(s, n, c)
    BY <1>2
  <2> DEFINE t == [i \in 1 .. n + 2 |-> IF i = n + 2 THEN s[n + 1] + c[n + 1] ELSE s[i]]
  <2>2. n + 1 \in 1 .. N /\ c[n + 1] \in Nat /\ s[n + 1] \in Nat
    OBVIOUS
  <2>3. t \in [1 .. n + 2 -> Nat]
    BY <2>2
  <2>4. ASSUME NEW i \in 1 .. n + 2
        PROVE  t[i] = IF i = 1 THEN 0 ELSE t[i - 1] + c[i - 1]
    <3>1. CASE i = n + 2
      BY <3>1
    <3>2. CASE i # n + 2
      <4>1. i \in 1 .. n + 1 /\ (i # 1 => i - 1 \in 1 .. n + 1 /\ i - 1 # n + 2)
        BY <3>2
      <4>2. s[i] = IF i = 1 THEN 0 ELSE s[i - 1] + c[i - 1]
        BY <2>1, <4>1 DEF IsSums
      <4>3. t[i] = s[i] /\ (i # 1 => t[i - 1] = s[i - 1])
        BY <3>2, <4>1
      <4> QED BY <4>2, <4>3
    <3> QED BY <3>1, <3>2
  <2>5. IsSums(t, n + 1, c)
    <3> HIDE DEF t
    <3>1. n + 1 + 1 = n + 2
      OBVIOUS
    <3> QED BY <2>3, <2>4, <3>1 DEF IsSums
  <2> QED BY <2>3, <2>5
<1>3. Nat \subseteq S
  <2> HIDE DEF S
  <2> QED BY <1>1, <1>2, SetInduction
<1>4. N \in S
  BY <1>3
<1> QED BY <1>4

LEMMA SumsAreNumbers ==
    ASSUME NEW N \in Nat, NEW c \in [1 .. N -> Nat], NEW s, IsSums(s, N, c)
    PROVE  s \in [1 .. N + 1 -> Nat]
<1> DEFINE S == {n \in Nat : n + 1 <= N + 1 => s[n + 1] \in Nat}
<1>1. 0 \in S
  BY DEF IsSums
<1>2. ASSUME NEW n \in Nat, n \in S PROVE n + 1 \in S
  <2> SUFFICES ASSUME n + 2 <= N + 1 PROVE s[n + 2] \in Nat
    OBVIOUS
  <2>1. n + 2 \in 1 .. N + 1 /\ n + 1 \in 1 .. N /\ n + 2 # 1 /\ n + 2 - 1 = n + 1
    OBVIOUS
  <2>2. s[n + 2] = s[n + 1] + c[n + 1] /\ c[n + 1] \in Nat
    BY <2>1 DEF IsSums
  <2> QED BY <1>2, <2>2
<1>3. Nat \subseteq S
  <2> HIDE DEF S
  <2> QED BY <1>1, <1>2, SetInduction
<1>4. ASSUME NEW i \in 1 .. N + 1 PROVE s[i] \in Nat
  <2>1. i - 1 \in Nat /\ i - 1 + 1 = i
    OBVIOUS
  <2>2. i - 1 \in S
    BY <1>3, <2>1
  <2> QED BY <2>1, <2>2
<1> QED BY <1>4 DEF IsSums

\* Sums grow, and do not over zeros.
LEMMA SumsGrow ==
    ASSUME NEW N \in Nat, NEW c \in [1 .. N -> Nat], NEW s \in [1 .. N + 1 -> Nat], IsSums(s, N, c)
    PROVE  \A i, j \in 1 .. N + 1 : i <= j =>
              /\ s[i] <= s[j]
              /\ (\A k \in i .. j - 1 : c[k] = 0) => s[i] = s[j]
<1> SUFFICES ASSUME NEW i \in 1 .. N + 1
             PROVE  \A j \in 1 .. N + 1 : i <= j =>
                       /\ s[i] <= s[j]
                       /\ (\A k \in i .. j - 1 : c[k] = 0) => s[i] = s[j]
  OBVIOUS
<1> DEFINE Q(j) == /\ s[i] <= s[j]
                   /\ (\A k \in i .. j - 1 : c[k] = 0) => s[i] = s[j]
           S == {n \in Nat : i + n <= N + 1 => Q(i + n)}
<1>1. 0 \in S
  OBVIOUS
<1>2. ASSUME NEW n \in Nat, n \in S PROVE n + 1 \in S
  <2> SUFFICES ASSUME i + (n + 1) <= N + 1 PROVE Q(i + (n + 1))
    OBVIOUS
  <2>1. Q(i + n)
    BY <1>2
  <2>2. /\ i + n \in 1 .. N /\ i + (n + 1) \in 1 .. N + 1 /\ i + (n + 1) # 1
        /\ i + (n + 1) - 1 = i + n
    OBVIOUS
  <2>3. s[i + (n + 1)] = s[i + n] + c[i + n] /\ c[i + n] \in Nat
    BY <2>2 DEF IsSums
  <2>4. \A k \in i .. (i + n) - 1 : k \in i .. (i + (n + 1)) - 1
    OBVIOUS
  <2>5. i + n \in i .. (i + (n + 1)) - 1
    OBVIOUS
  <2>6. s[i] \in Nat /\ s[i + n] \in Nat
    BY <2>2
  <2>7. s[i + (n + 1)] \in Nat /\ s[i] <= s[i + (n + 1)]
    BY <2>1, <2>3, <2>6
  <2>8. ASSUME \A k \in i .. (i + (n + 1)) - 1 : c[k] = 0
        PROVE  s[i] = s[i + (n + 1)]
    <3>1. c[i + n] = 0
      BY <2>5, <2>8
    <3>2. s[i] = s[i + n]
      BY <2>1, <2>4, <2>8
    <3> QED BY <2>3, <2>6, <3>1, <3>2
  <2> QED BY <2>7, <2>8
<1>3. Nat \subseteq S
  <2> HIDE DEF S
  <2> QED BY <1>1, <1>2, SetInduction
<1>4. ASSUME NEW j \in 1 .. N + 1, i <= j PROVE Q(j)
  <2>1. j - i \in Nat /\ i + (j - i) = j
    BY <1>4
  <2>2. j - i \in S
    BY <1>3, <2>1
  <2>3. Q(i + (j - i))
    BY <2>1, <2>2
  <2> QED BY <2>1, <2>3
<1> QED BY <1>4

ReaderTypeOK ==
    /\ chunks \in Seq(Nat) /\ size \in Nat
    /\ objoff \in 0 .. Len(chunks) + 1 /\ off \in Int /\ rd \in Int
    /\ outcome \in {"ok", "eof", "error", "panic", "hang"} /\ since \in {"start", "end", "elsewhere"}

\* An open chunk is read within its bounds.
InBounds ==
    since # "elsewhere" /\ outcome # "error" /\ objoff \in Chunks /\ rd # Closed => rd \in 0 .. chunks[objoff]

ReaderInv == ReaderTypeOK /\ InBounds /\ ReaderSound

LEMMA BeforeIs ==
    ASSUME ReaderTypeOK
    PROVE  /\ Chunks = 1 .. Len(chunks) /\ Len(chunks) \in Nat
           /\ \A i \in Chunks : chunks[i] \in Nat
           /\ \A i \in 1 .. Len(chunks) + 1 : Before[i] \in Nat
           /\ Before[1] = 0
           /\ \A i \in Chunks : Before[i + 1] = Before[i] + chunks[i]
           /\ \A i, j \in 1 .. Len(chunks) + 1 : i <= j =>
                 /\ Before[i] <= Before[j]
                 /\ (\A k \in i .. j - 1 : chunks[k] = 0) => Before[i] = Before[j]
<1>1. Chunks = 1 .. Len(chunks) /\ Len(chunks) \in Nat /\ chunks \in [1 .. Len(chunks) -> Nat]
  BY LenProperties DEF ReaderTypeOK, Chunks
<1>2. PICK N \in Nat : N = Len(chunks)
  BY <1>1
<1>3. PICK c \in [1 .. N -> Nat] : c = chunks
  BY <1>1, <1>2
<1>4. \E s \in [1 .. N + 1 -> Nat] : IsSums(s, N, c)
  BY SumsExist
<1>5. \E s : s = [i \in 1 .. Len(chunks) + 1 |-> IF i = 1 THEN 0 ELSE s[i - 1] + chunks[i - 1]]
  BY <1>2, <1>3, <1>4 DEF IsSums
<1>6. Before = [i \in 1 .. Len(chunks) + 1 |-> IF i = 1 THEN 0 ELSE Before[i - 1] + chunks[i - 1]]
  BY <1>5 DEF Before
<1>7. PICK b : b = Before
  OBVIOUS
<1>8. IsSums(b, N, c)
  BY <1>2, <1>3, <1>6, <1>7 DEF IsSums
<1>9. b \in [1 .. N + 1 -> Nat]
  BY <1>8, SumsAreNumbers
<1>10. \A i, j \in 1 .. N + 1 : i <= j =>
           /\ b[i] <= b[j]
           /\ (\A k \in i .. j - 1 : c[k] = 0) => b[i] = b[j]
  BY <1>8, <1>9, SumsGrow
<1>11. b[1] = 0 /\ \A i \in 1 .. N : b[i + 1] = b[i] + c[i]
  <2>1. b[1] = 0
    BY <1>8 DEF IsSums
  <2>2. ASSUME NEW i \in 1 .. N PROVE b[i + 1] = b[i] + c[i]
    <3>1. i + 1 \in 1 .. N + 1 /\ i + 1 # 1 /\ i + 1 - 1 = i
      OBVIOUS
    <3> QED BY <1>8, <3>1 DEF IsSums
  <2> QED BY <2>1, <2>2
<1> QED BY <1>1, <1>2, <1>3, <1>7, <1>9, <1>10, <1>11

LEMMA ReaderInvInit == ReaderInit => ReaderInv
<1> SUFFICES ASSUME ReaderInit PROVE ReaderInv
  OBVIOUS
<1>1. PICK n \in 0 .. MaxChunks : chunks \in [1 .. n -> 0 .. MaxChunkLength]
  BY DEF ReaderInit
<1>2. n \in Nat /\ chunks \in [1 .. n -> Nat]
  BY <1>1, ReaderAssumption
<1>3. chunks \in Seq(Nat)
  BY <1>2, SeqDef
<1>4. Len(chunks) = n
  BY <1>2, <1>3, LenProperties
<1>5. ReaderTypeOK
  BY <1>2, <1>3, <1>4 DEF ReaderInit, ReaderTypeOK, Closed
<1>6. Before[1] = 0 /\ Total \in Nat
  BY <1>5, BeforeIs DEF Total
<1>7. ReaderSound /\ InBounds
  BY <1>5, <1>6, BeforeIs DEF ReaderInit, ReaderSound, InBounds, Closed, Here
<1> QED BY <1>5, <1>7 DEF ReaderInv

\* What a call does not change.
LEMMA SameFile ==
    ASSUME UNCHANGED <<chunks, size>>
    PROVE  chunks' = chunks /\ size' = size /\ Chunks' = Chunks /\ Before' = Before /\ Total' = Total
BY DEF Chunks, Before, Total

LEMMA ReadSomeInv == ASSUME ReaderInv, ReadSome PROVE ReaderInv'
<1> USE DEF ReaderInv
<1> DEFINE N == Len(chunks)
           rest == {i \in Chunks : i >= objoff /\ Pos(i) < chunks[i]}
<1>1. /\ outcome \in {"ok", "eof"} /\ chunks' = chunks /\ size' = size /\ since' = since
      /\ Chunks' = Chunks /\ Before' = Before /\ Total' = Total
  BY SameFile DEF ReadSome, Calls
<1>2. /\ Chunks = 1 .. N /\ N \in Nat
      /\ \A i \in Chunks : chunks[i] \in Nat
      /\ \A i \in 1 .. N + 1 : Before[i] \in Nat
      /\ \A i \in Chunks : Before[i + 1] = Before[i] + chunks[i]
      /\ \A i, j \in 1 .. N + 1 : i <= j => Before[i] <= Before[j]
      /\ \A i, j \in 1 .. N + 1 : i <= j /\ (\A k \in i .. j - 1 : chunks[k] = 0) => Before[i] = Before[j]
  BY BeforeIs DEF ReaderTypeOK
<1>3. /\ objoff \in 0 .. N + 1 /\ off \in Int /\ rd \in Int /\ since \in {"start", "end", "elsewhere"}
      /\ chunks \in Seq(Nat) /\ size \in Nat
  BY DEF ReaderTypeOK
<1>4. ASSUME NEW i \in Chunks PROVE Pos(i) \in Int
  BY <1>3 DEF Pos
\* Up to the next bytes, all is read or empty.
<1>5. ASSUME since # "elsewhere", objoff # 0, NEW j \in 1 .. N + 1, objoff <= j,
             \A i \in Chunks : objoff <= i /\ i < j => i \notin rest
      PROVE  /\ Here = Before[j] + (IF j \in Chunks THEN Pos(j) ELSE 0)
             /\ j \in Chunks => Pos(j) \in 0 .. chunks[j]
  <2>1. /\ objoff \in 1 .. N + 1
        /\ Here = Before[objoff] + (IF objoff \in Chunks /\ rd # Closed THEN rd ELSE 0)
        /\ objoff \in Chunks /\ rd # Closed => rd \in 0 .. chunks[objoff]
    BY <1>1, <1>3, <1>5 DEF InBounds, Here
  <2>2. CASE j = objoff
    BY <1>2, <1>3, <2>1, <2>2 DEF Pos
  <2>3. CASE objoff < j
    <3>1. objoff \in Chunks /\ objoff + 1 \in 1 .. N + 1 /\ objoff + 1 <= j
      BY <1>2, <1>5, <2>1, <2>3
    <3>2. Here = Before[objoff + 1]
      <4>1. ~ (Pos(objoff) < chunks[objoff])
        <5>1. objoff <= objoff /\ objoff < j /\ objoff >= objoff
          BY <1>3, <2>3
        <5>2. objoff \notin rest
          BY <1>5, <3>1, <5>1
        <5> QED BY <3>1, <5>1, <5>2
      <4>2. Here = Before[objoff] + Pos(objoff) /\ Pos(objoff) \in 0 .. chunks[objoff]
        BY <1>2, <2>1, <3>1 DEF Pos
      <4> QED BY <1>2, <3>1, <4>1, <4>2
    <3>3. ASSUME NEW k \in objoff + 1 .. j - 1 PROVE chunks[k] = 0
      <4>1. k \in Chunks /\ objoff < k /\ k < j
        BY <1>2, <1>5, <2>1
      <4>2. objoff <= k /\ k >= objoff /\ k # objoff
        BY <1>3, <4>1
      <4>3. k \notin rest
        BY <1>5, <4>1, <4>2
      <4>4. ~ (Pos(k) < chunks[k])
        BY <4>1, <4>2, <4>3
      <4>5. Pos(k) = 0 /\ chunks[k] \in Nat
        BY <1>2, <4>1, <4>2 DEF Pos
      <4> QED BY <4>4, <4>5
    <3>4. Here = Before[j]
      BY <1>2, <3>1, <3>2, <3>3
    <3>5. j \in Chunks => Pos(j) = 0
      BY <2>3 DEF Pos
    <3> QED BY <1>2, <3>4, <3>5
  <2> QED BY <1>5, <2>1, <2>2, <2>3
<1>6. CASE objoff = 0
  <2>1. At(objoff, off, rd, "panic")
    BY <1>6 DEF ReadSome
  <2>2. since = "elsewhere" \/ (since = "end" /\ chunks = <<>>)
    BY <1>1, <1>3, <1>6 DEF ReaderSound
  <2>3. ReaderTypeOK'
    BY <1>1, <1>3, <2>1 DEF ReaderTypeOK, At
  <2>4. since = "end" /\ outcome # "error" => off = size
    BY DEF ReaderSound
  <2>5. InBounds'
    BY <1>1, <1>2, <1>6, <2>1 DEF InBounds, At
  <2>6. ReaderSound'
    BY <1>1, <2>1, <2>2, <2>4 DEF ReaderSound, At
  <2> QED BY <2>3, <2>5, <2>6
<1>7. CASE objoff # 0 /\ rest = {}
  <2>1. At(N + 1, off, Closed, "eof")
    BY <1>7 DEF ReadSome
  <2>2. ReaderTypeOK'
    BY <1>1, <1>2, <1>3, <2>1 DEF ReaderTypeOK, At, Closed
  <2>3. since # "elsewhere" => Here = Total
    <3>1. N + 1 \in 1 .. N + 1 /\ objoff <= N + 1 /\ N + 1 \notin Chunks
      BY <1>2, <1>3
    <3>2. ASSUME since # "elsewhere" PROVE Here = Before[N + 1]
      <4>1. \A i \in Chunks : objoff <= i /\ i < N + 1 => i \notin rest
        BY <1>7
      <4> HIDE DEF rest
      <4>2. Here = Before[N + 1] + (IF N + 1 \in Chunks THEN Pos(N + 1) ELSE 0)
        BY <1>5, <1>7, <3>1, <3>2, <4>1
      <4>3. Before[N + 1] \in Nat
        BY <1>2, <3>1
      <4> QED BY <3>1, <4>2, <4>3
    <3> QED BY <3>2 DEF Total
  <2>4. Total \in Nat /\ Total = Before[N + 1] /\ N + 1 \notin Chunks /\ N + 1 >= 1
    BY <1>2 DEF Total
  <2>5. Here' = Total
    BY <1>1, <2>1, <2>4 DEF Here, At
  <2>6. ReaderSound' /\ InBounds'
    BY <1>1, <2>1, <2>3, <2>4, <2>5 DEF ReaderSound, InBounds, At
  <2> QED BY <2>2, <2>6
<1>8. CASE objoff # 0 /\ rest # {}
  <2>1. rest \subseteq Nat
    BY <1>2
  <2>2. Min(rest) \in rest /\ \A y \in rest : Min(rest) <= y
    <3> HIDE DEF rest
    <3> QED BY <1>8, <2>1, MinIs
  <2>3. PICK i : i = Min(rest)
    OBVIOUS
  <2>4. PICK n \in 1 .. chunks[i] - Pos(i) : At(i, off + n, Pos(i) + n, "ok")
    BY <1>8, <2>3 DEF ReadSome
  <2>5. /\ i \in Chunks /\ i >= objoff /\ Pos(i) < chunks[i] /\ Pos(i) \in Int
        /\ \A k \in Chunks : objoff <= k /\ k < i => k \notin rest
    <3>1. i \in rest /\ \A y \in rest : i <= y
      BY <2>2, <2>3
    <3>2. i \in Chunks /\ i >= objoff /\ Pos(i) < chunks[i]
      BY <3>1
    <3> HIDE DEF rest
    <3>3. ASSUME NEW k \in Chunks, k < i PROVE k \notin rest
      <4>1. k \in Nat /\ i \in Nat
        BY <1>2, <3>2
      <4> QED BY <3>1, <3>3, <4>1
    <3> QED BY <1>4, <3>2, <3>3
  <2>6. n \in Int /\ n >= 1 /\ Pos(i) + n <= chunks[i]
    BY <1>2, <2>5
  <2>7. ReaderTypeOK'
    BY <1>1, <1>2, <1>3, <2>4, <2>5, <2>6 DEF ReaderTypeOK, At
  <2>8. ASSUME since # "elsewhere"
        PROVE  /\ Here + n = Before[i] + (Pos(i) + n) /\ Pos(i) + n \in 0 .. chunks[i]
               /\ Here + n <= Total /\ Pos(i) + n # Closed /\ i >= 1 /\ Here \in Int
    <3>1. i \in 1 .. N + 1 /\ objoff <= i /\ i + 1 \in 1 .. N + 1 /\ N + 1 \in 1 .. N + 1 /\ i + 1 <= N + 1
      BY <1>2, <1>3, <2>5
    <3>2. Here = Before[i] + Pos(i) /\ Pos(i) \in 0 .. chunks[i]
      BY <1>5, <1>8, <2>5, <2>8, <3>1
    <3>3. Before[i + 1] = Before[i] + chunks[i] /\ Before[i + 1] <= Total /\ Before[i] \in Nat /\ Total \in Nat
      BY <1>2, <2>5, <3>1 DEF Total
    <3>4. chunks[i] \in Nat /\ Pos(i) \in Int /\ Pos(i) >= 0
      BY <1>2, <2>5, <3>2
    <3>5. Pos(i) + n \in 0 .. chunks[i] /\ Pos(i) + n # Closed
      BY <2>6, <3>4 DEF Closed
    <3>6. Here + n = Before[i] + (Pos(i) + n)
      BY <2>6, <3>2, <3>3, <3>4
    <3>7. Here + n <= Total
      BY <2>6, <3>3, <3>4, <3>6
    <3>8. Here \in Int
      BY <3>2, <3>3, <3>4
    <3> QED BY <3>1, <3>5, <3>6, <3>7, <3>8
  <2>9. Pos(i) + n # Closed => Here' = Before[i] + (Pos(i) + n)
    BY <1>1, <2>4, <2>5 DEF Here, At
  <2>10. InBounds'
    BY <1>1, <2>4, <2>5, <2>8 DEF InBounds, At
  \* At the end there is nothing left.
  <2>11. since # "end"
    <3> SUFFICES ASSUME since = "end" PROVE FALSE
      OBVIOUS
    <3>1. Here + n <= Total /\ Here \in Int /\ Total \in Nat
      BY <1>2, <2>8 DEF Total
    <3>2. Here = Total
      BY <1>1, <1>2, <2>5 DEF ReaderSound
    <3> QED BY <2>6, <3>1, <3>2
  <2>12. ReaderSound'
    BY <1>1, <2>4, <2>5, <2>8, <2>9, <2>11 DEF ReaderSound, At
  <2> QED BY <2>7, <2>10, <2>12
<1> QED BY <1>6, <1>7, <1>8

LEMMA ReadFailsInv == ASSUME ReaderInv, ReadFails PROVE ReaderInv'
<1> USE DEF ReaderInv
<1>1. /\ outcome \in {"ok", "eof"} /\ chunks' = chunks /\ size' = size /\ since' = since /\ Chunks = 1 .. Len(chunks)
  BY BeforeIs DEF ReadFails, Calls
<1>2. PICK i \in Chunks : At(i, off, Closed, "error")
  BY DEF ReadFails
<1>3. ReaderTypeOK'
  BY <1>1, <1>2 DEF ReaderTypeOK, At, Closed
<1> QED BY <1>1, <1>2, <1>3 DEF ReaderSound, InBounds, At

LEMMA SeekStartInv == ASSUME ReaderInv, NEW offset \in Offsets, SeekStart(offset) PROVE ReaderInv'
<1> USE DEF ReaderInv
<1> DEFINE N == Len(chunks)
           fits == {i \in Chunks : offset - Before[i] <= chunks[i]}
<1>1. /\ outcome \in {"ok", "eof"} /\ chunks' = chunks /\ size' = size /\ since' = "start"
      /\ Chunks' = Chunks /\ Before' = Before /\ Total' = Total
  BY SameFile DEF SeekStart, Calls
<1>2. /\ Chunks = 1 .. N /\ N \in Nat
      /\ \A i \in Chunks : chunks[i] \in Nat
      /\ \A i \in 1 .. N + 1 : Before[i] \in Nat
      /\ Before[1] = 0
      /\ \A i \in Chunks : Before[i + 1] = Before[i] + chunks[i]
      /\ \A i, j \in 1 .. N + 1 : i <= j => Before[i] <= Before[j]
      /\ chunks \in Seq(Nat) /\ size \in Nat /\ offset \in Int
  BY BeforeIs DEF ReaderTypeOK, Offsets
<1>3. Total = Before[N + 1] /\ Total \in Nat /\ N + 1 \notin Chunks /\ N + 1 >= 1
  BY <1>2 DEF Total
<1>4. CASE fits = {}
  <2>1. At(N + 1, Total, Closed, "ok")
    BY <1>4 DEF SeekStart
  <2>2. ReaderTypeOK'
    BY <1>1, <1>2, <1>3, <2>1 DEF ReaderTypeOK, At, Closed
  <2>3. ReaderSound' /\ InBounds'
    BY <1>1, <1>3, <2>1 DEF ReaderSound, InBounds, At, Here
  <2> QED BY <2>2, <2>3
<1>5. CASE fits # {}
  <2>1. fits \subseteq Nat
    BY <1>2
  <2>2. Min(fits) \in fits /\ \A y \in fits : Min(fits) <= y
    <3> HIDE DEF fits
    <3> QED BY <1>5, <2>1, MinIs
  <2>3. PICK i : i = Min(fits)
    OBVIOUS
  <2>4. OpenAt(i, offset, offset - Before[i])
    BY <1>5, <2>3 DEF SeekStart
  <2>5. i \in Chunks /\ offset - Before[i] <= chunks[i]
    <3>1. i \in fits
      BY <2>2, <2>3
    <3> QED BY <3>1
  <2>6. i \in 1 .. N + 1 /\ i + 1 \in 1 .. N + 1 /\ N + 1 \in 1 .. N + 1 /\ i + 1 <= N + 1 /\ i >= 1
    BY <1>2, <2>5
  <2>7. Before[i] \in Nat /\ chunks[i] \in Nat /\ Before[i] + chunks[i] <= Total
    BY <1>2, <1>3, <2>5, <2>6
  <2>8. CASE At(i, offset, Closed, "error")
    <3>1. ReaderTypeOK'
      BY <1>1, <1>2, <2>6, <2>8 DEF ReaderTypeOK, At, Closed
    <3> QED BY <2>8, <3>1 DEF ReaderSound, InBounds, At
  <2>9. CASE offset - Before[i] >= 0 /\ At(i, offset, offset - Before[i], "ok")
    <3>1. ReaderTypeOK'
      BY <1>1, <1>2, <2>6, <2>7, <2>9 DEF ReaderTypeOK, At
    <3>2. /\ offset - Before[i] \in 0 .. chunks[i] /\ offset - Before[i] # Closed
          /\ offset = Before[i] + (offset - Before[i]) /\ offset <= Total
      <4>1. PICK b \in Nat : b = Before[i]
        BY <2>7
      <4>2. offset \in Int /\ chunks[i] \in Nat /\ Total \in Nat
        BY <1>2, <1>3, <2>7
      <4>3. offset - b >= 0 /\ offset - b <= chunks[i] /\ b + chunks[i] <= Total
        BY <2>5, <2>7, <2>9, <4>1
      <4>4. /\ offset - b \in 0 .. chunks[i] /\ offset - b # Closed
            /\ offset = b + (offset - b) /\ offset <= Total
        BY <4>2, <4>3 DEF Closed
      <4> QED BY <4>1, <4>4
    <3>3. ReaderSound' /\ InBounds'
      BY <1>1, <2>5, <2>6, <2>9, <3>2 DEF ReaderSound, InBounds, At, Here
    <3> QED BY <3>1, <3>3
  <2> QED BY <2>4, <2>8, <2>9 DEF OpenAt
<1> QED BY <1>4, <1>5

LEMMA SeekEndInv == ASSUME ReaderInv, NEW offset \in Offsets, SeekEnd(offset) PROVE ReaderInv'
<1> USE DEF ReaderInv
<1> DEFINE N == Len(chunks)
           fits == {i \in Chunks : offset - After(i) <= chunks[i]}
<1>1. /\ outcome \in {"ok", "eof"} /\ chunks' = chunks /\ size' = size
      /\ since' = IF offset = 0 THEN "end" ELSE "elsewhere"
      /\ Chunks' = Chunks /\ Before' = Before /\ Total' = Total
  BY SameFile DEF SeekEnd, Calls
<1>2. /\ Chunks = 1 .. N /\ N \in Nat /\ (chunks # <<>> => N \in Chunks)
      /\ \A i \in Chunks : chunks[i] \in Nat
      /\ \A i \in 1 .. N + 1 : Before[i] \in Nat
      /\ \A i \in Chunks : Before[i + 1] = Before[i] + chunks[i]
      /\ chunks \in Seq(Nat) /\ size \in Nat /\ offset \in Int
  BY BeforeIs, EmptySeq DEF ReaderTypeOK, Offsets
<1>3. Total = Before[N + 1] /\ Total \in Nat
  BY <1>2 DEF Total
<1>4. After(N) = 0
  BY <1>3 DEF After
<1>5. CASE fits = {}
  <2>1. At(0, size - Total, Closed, "ok") /\ size - Total \in Int
    BY <1>2, <1>3, <1>5 DEF SeekEnd
  <2>2. offset = 0 => chunks = <<>> /\ Total = 0
    <3> SUFFICES ASSUME offset = 0 PROVE chunks = <<>>
      BY BeforeIs DEF Total, ReaderTypeOK
    <3> SUFFICES ASSUME chunks # <<>> PROVE FALSE
      OBVIOUS
    <3>1. ~ (offset - After(N) <= chunks[N])
      BY <1>2, <1>5
    <3>2. chunks[N] \in Nat
      BY <1>2
    <3> QED BY <1>4, <3>1, <3>2
  <2>3. ReaderTypeOK'
    BY <1>1, <1>2, <2>1 DEF ReaderTypeOK, At, Closed
  <2>4. 0 \notin Chunks
    BY <1>2
  <2>5. offset = 0 => off' = size
    BY <1>2, <2>1, <2>2 DEF At
  <2> QED BY <1>1, <2>1, <2>2, <2>3, <2>4, <2>5 DEF ReaderSound, InBounds, At
<1>6. CASE fits # {}
  <2>1. fits \subseteq 1 .. N
    BY <1>2
  <2>2. Max(fits) \in fits /\ \A y \in fits : y <= Max(fits)
    <3> HIDE DEF fits
    <3>1. PICK n \in Nat : n = N
      BY <1>2
    <3>2. PICK T : T = fits
      OBVIOUS
    <3> QED BY <1>6, <2>1, <3>1, <3>2, MaxIs
  <2>3. PICK i : i = Max(fits)
    OBVIOUS
  <2>4. OpenAt(i, size - offset, chunks[i] + offset - After(i))
    BY <1>6, <2>3 DEF SeekEnd
  <2>5. i \in Chunks /\ i \in fits /\ \A y \in fits : y <= i
    BY <2>2, <2>3
  <2>6. i \in 1 .. N + 1 /\ i + 1 \in 1 .. N + 1 /\ After(i) \in Int /\ chunks[i] \in Nat
    <3>1. i \in 1 .. N + 1 /\ i + 1 \in 1 .. N + 1
      BY <1>2, <2>5
    <3>2. Before[i + 1] \in Nat /\ chunks[i] \in Nat
      BY <1>2, <2>5, <3>1
    <3> QED BY <1>3, <3>1, <3>2 DEF After
  <2>7. ReaderTypeOK'
    <3>1. /\ objoff' = i /\ off' = size - offset
          /\ rd' = chunks[i] + offset - After(i) \/ rd' = Closed
          /\ outcome' \in {"ok", "error"}
      BY <2>4 DEF OpenAt, At
    <3>2. size - offset \in Int /\ chunks[i] + offset - After(i) \in Int /\ i \in 0 .. N + 1
      BY <1>2, <1>3, <2>6
    <3>3. off' \in Int /\ rd' \in Int /\ objoff' \in 0 .. N + 1
      BY <3>1, <3>2 DEF Closed
    <3> QED BY <1>1, <1>2, <3>1, <3>3 DEF ReaderTypeOK
  <2>8. CASE offset # 0
    BY <1>1, <2>4, <2>7, <2>8 DEF ReaderSound, InBounds, OpenAt, At
  \* Which is at the end of the last chunk.
  <2>9. CASE offset = 0
    <3>1. i = N /\ N \in Chunks
      <4>0. N \in Chunks
        BY <1>2, <2>5
      <4>1. chunks[N] \in Nat /\ offset - After(N) <= chunks[N]
        BY <1>2, <1>4, <2>9, <4>0
      <4>2. N \in fits
        BY <4>0, <4>1
      <4>3. N <= i
        BY <2>5, <4>2
      <4> QED BY <1>2, <2>5, <4>0, <4>3
    <3>2. /\ size - offset = size /\ chunks[i] + offset - After(i) = chunks[N]
          /\ Total = Before[N] + chunks[N] /\ chunks[N] \in Nat
      BY <1>2, <1>3, <1>4, <2>9, <3>1
    <3>3. At(N, size, chunks[N], "ok") \/ At(N, size, Closed, "error")
      BY <2>4, <3>1, <3>2 DEF OpenAt
    <3>4. chunks[N] \in 0 .. chunks[N] /\ chunks[N] # Closed
      BY <3>2 DEF Closed
    <3>5. ReaderSound' /\ InBounds'
      BY <1>1, <1>2, <1>3, <2>5, <3>1, <3>2, <3>3, <3>4 DEF ReaderSound, InBounds, At, Here
    <3> QED BY <2>7, <3>5
  <2> QED BY <2>8, <2>9
<1> QED BY <1>5, <1>6

LEMMA SeekCurrentInv == ASSUME ReaderInv, NEW offset \in Offsets, SeekCurrent(offset) PROVE ReaderInv'
<1> USE DEF ReaderInv
<1>1. chunks' = chunks /\ size' = size /\ since' = "elsewhere" /\ offset \in Int
  BY DEF SeekCurrent, Calls, Offsets
<1>2. \E i \in 0 .. Len(chunks) + 1, position, pos \in Int, how \in {"ok", "error", "hang"} :
         At(i, position, pos, how)
  <2>1. /\ Len(chunks) \in Nat /\ objoff \in 0 .. Len(chunks) + 1 /\ Len(chunks) + 1 \in 0 .. Len(chunks) + 1
        /\ off \in Int /\ rd \in Int /\ rd + offset \in Int
    BY <1>1 DEF ReaderTypeOK
  <2> DEFINE n == rd + offset
             here == IF rd # Closed THEN n ELSE off
             pos == IF rd # Closed THEN n ELSE rd
  <2>2. here \in Int /\ pos \in Int
    BY <2>1
  <2>3. \/ At(objoff, off, rd, "error") \/ At(objoff, here, pos, "ok")
        \/ At(Len(chunks) + 1, here, pos, "ok")
        \/ ~ (objoff >= Len(chunks)) /\ \E how \in {"hang", "error"} : At(objoff + 1, here, pos, how)
    BY DEF SeekCurrent
  <2>4. CASE ~ (objoff >= Len(chunks)) /\ \E how \in {"hang", "error"} : At(objoff + 1, here, pos, how)
    <3>1. objoff + 1 \in 0 .. Len(chunks) + 1
      BY <2>1, <2>4
    <3> HIDE DEF here, pos
    <3> QED BY <2>2, <2>4, <3>1
  <2> HIDE DEF here, pos
  <2> QED BY <2>1, <2>2, <2>3, <2>4
<1>3. ReaderTypeOK'
  BY <1>1, <1>2 DEF ReaderTypeOK, At
<1> QED BY <1>1, <1>3 DEF ReaderSound, InBounds

LEMMA ReaderInvStep == ReaderInv /\ [ReaderNext]_readerVars => ReaderInv'
<1> SUFFICES ASSUME ReaderInv, [ReaderNext]_readerVars PROVE ReaderInv'
  OBVIOUS
<1>1. CASE UNCHANGED readerVars
  BY <1>1, SameFile DEF readerVars, ReaderInv, ReaderTypeOK, ReaderSound, InBounds, Here
<1> QED BY <1>1, ReadSomeInv, ReadFailsInv, SeekStartInv, SeekEndInv, SeekCurrentInv DEF ReaderNext

\* For files of any number of chunks of any lengths, listed with any size: from the
\* start on a reader is where it says it is, and comes to the end of what was read at
\* its end only; sent to the end it is there and tells the listed size (vfs/reader.go).
THEOREM ReaderIsSound == ReaderSpec => []ReaderSound
BY ReaderInvInit, ReaderInvStep, PTL DEF ReaderSpec, ReaderInv

-----------------------------------------------------------------------------
\* Pieces, one after the other, are the whole.
LEMMA FlattenPieces ==
    ASSUME NEW S, NEW cells \in Seq(S), NEW p \in Nat, NEW cut \in [0 .. p -> 0 .. Len(cells)],
           cut[0] = 0, cut[p] = Len(cells), \A i \in 1 .. p : cut[i - 1] <= cut[i]
    PROVE  FlattenSeq([i \in 1 .. p |-> SubSeq(cells, cut[i - 1] + 1, cut[i])]) = cells
<1> DEFINE seqs == [i \in 1 .. p |-> SubSeq(cells, cut[i - 1] + 1, cut[i])]
           T == Seq(S)
<1>1. /\ Len(cells) \in Nat
      /\ \A i \in 0 .. p : cut[i] \in 0 .. Len(cells) /\ SubSeq(cells, 1, cut[i]) \in Seq(S)
      /\ \A i \in 1 .. p : SubSeq(cells, cut[i - 1] + 1, cut[i]) \in Seq(S)
  <2>1. Len(cells) \in Nat /\ \A i \in 1 .. Len(cells) : cells[i] \in S
    OBVIOUS
  <2>2. ASSUME NEW i \in 0 .. p PROVE SubSeq(cells, 1, cut[i]) \in Seq(S)
    BY <2>1
  <2>3. ASSUME NEW i \in 1 .. p PROVE SubSeq(cells, cut[i - 1] + 1, cut[i]) \in Seq(S)
    <3>1. cut[i - 1] \in 0 .. Len(cells) /\ cut[i] \in 0 .. Len(cells)
      OBVIOUS
    <3>2. \A j \in cut[i - 1] + 1 .. cut[i] : cells[j] \in S
      BY <2>1, <3>1
    <3> QED BY <3>1, <3>2, SubSeqProperties
  <2> QED BY <2>1, <2>2, <2>3
<1>2. seqs \in Seq(Seq(S)) /\ Len(seqs) = p
  <2>1. seqs \in [1 .. p -> Seq(S)]
    BY <1>1
  <2>2. seqs \in Seq(Seq(S))
    BY <2>1, SeqDef
  <2> QED BY <2>1, <2>2, LenProperties
<1>3. CASE p = 0
  <2>1. cells = <<>> /\ seqs = <<>>
    BY <1>2, <1>3
  <2> HIDE DEF seqs
  <2> QED BY <1>2, <1>3, <2>1 DEF FlattenSeq
<1>4. CASE p # 0
  <2> DEFINE flatten[i \in 1 .. Len(seqs)] == IF i = 1 THEN seqs[i] ELSE flatten[i - 1] \o seqs[i]
             is == [i \in 1 .. p |-> SubSeq(cells, 1, cut[i])]
  <2>1. FlattenSeq(seqs) = flatten[Len(seqs)]
    BY <1>2, <1>4 DEF FlattenSeq
  <2>2. ASSUME NEW i \in 1 .. p
        PROVE  SubSeq(cells, 1, cut[i]) = IF i = 1 THEN seqs[i] ELSE SubSeq(cells, 1, cut[i - 1]) \o seqs[i]
    <3>1. cut[i - 1] \in 0 .. Len(cells) /\ cut[i] \in cut[i - 1] .. Len(cells)
      BY <1>1
    <3>2. SubSeq(cells, 1, cut[i - 1]) \o SubSeq(cells, cut[i - 1] + 1, cut[i]) = SubSeq(cells, 1, cut[i])
      <4>1. 1 \in 1 .. Len(cells) + 1 /\ cut[i - 1] \in 1 - 1 .. Len(cells)
        BY <1>1, <3>1
      <4> QED BY <3>1, <4>1, ConcatAdjacentSubSeq
    <3>3. seqs[i] = SubSeq(cells, cut[i - 1] + 1, cut[i])
      OBVIOUS
    <3>4. i = 1 => cut[i - 1] + 1 = 1
      OBVIOUS
    <3> HIDE DEF seqs
    <3> QED BY <3>2, <3>3, <3>4
  <2>3. is = [i \in 1 .. p |-> IF i = 1 THEN seqs[i] ELSE is[i - 1] \o seqs[i]]
    <3>1. ASSUME NEW i \in 1 .. p PROVE is[i] = IF i = 1 THEN seqs[i] ELSE is[i - 1] \o seqs[i]
      <4>1. i # 1 => i - 1 \in 1 .. p
        OBVIOUS
      <4>2. is[i] = SubSeq(cells, 1, cut[i]) /\ (i # 1 => is[i - 1] = SubSeq(cells, 1, cut[i - 1]))
        BY <4>1
      <4> HIDE DEF is, seqs
      <4> QED BY <2>2, <4>2
    <3>2. is = [i \in 1 .. p |-> is[i]]
      OBVIOUS
    <3> HIDE DEF is, seqs
    <3> QED BY <3>1, <3>2
  <2>4. flatten = [i \in 1 .. p |-> IF i = 1 THEN seqs[i] ELSE flatten[i - 1] \o seqs[i]]
    <3> HIDE DEF is, seqs
    <3> QED BY <1>2, <2>3
  <2> HIDE DEF flatten
  <2> DEFINE I == {n \in Nat : n + 1 \in 1 .. p => flatten[n + 1] = SubSeq(cells, 1, cut[n + 1])}
  <2>5. 0 \in I
    <3>1. 1 \in 1 .. p
      BY <1>4
    <3> HIDE DEF seqs
    <3> QED BY <2>2, <2>4, <3>1
  <2>6. ASSUME NEW n \in Nat, n \in I PROVE n + 1 \in I
    <3> SUFFICES ASSUME n + 2 \in 1 .. p PROVE flatten[n + 2] = SubSeq(cells, 1, cut[n + 2])
      OBVIOUS
    <3>1. n + 1 \in 1 .. p /\ n + 2 # 1 /\ n + 2 - 1 = n + 1
      OBVIOUS
    <3>2. flatten[n + 1] = SubSeq(cells, 1, cut[n + 1])
      BY <2>6, <3>1
    <3> HIDE DEF seqs
    <3>3. PICK i \in 1 .. p : i = n + 2 /\ i # 1 /\ i - 1 = n + 1
      BY <3>1
    <3>4. flatten[i] = flatten[i - 1] \o seqs[i]
      BY <2>4, <3>3
    <3>5. SubSeq(cells, 1, cut[i]) = SubSeq(cells, 1, cut[i - 1]) \o seqs[i]
      BY <2>2, <3>3
    <3> QED BY <3>2, <3>3, <3>4, <3>5
  <2>7. Nat \subseteq I
    <3> HIDE DEF I
    <3> QED BY <2>5, <2>6, SetInduction
  <2>8. flatten[p] = SubSeq(cells, 1, cut[p])
    <3>1. p - 1 \in Nat /\ p - 1 + 1 = p /\ p \in 1 .. p
      BY <1>4
    <3>2. p - 1 \in I
      BY <2>7, <3>1
    <3> QED BY <3>1, <3>2
  <2> QED BY <1>2, <2>1, <2>8, SubSeqFull
<1> QED BY <1>3, <1>4

LEMMA DivIs ==
    ASSUME NEW a \in Nat, NEW b \in Nat \ {0}
    PROVE  a \div b \in Nat /\ b * (a \div b) <= a /\ a < b * (a \div b) + b
OBVIOUS

LEMMA Times == \A a, b, c \in Nat : a <= b => a * c <= b * c
OBVIOUS

LEMMA PiecesCover ==
    ASSUME NEW n \in Nat
    PROVE  /\ Pieces(n) \in Nat /\ n <= Pieces(n) * SealSize
           /\ \A i \in 1 .. Pieces(n) : (i - 1) * SealSize < n
<1>1. SealSize \in Nat /\ SealSize >= 1 /\ n + SealSize - 1 \in Nat
  BY PackfileAssumption
<1> DEFINE p == Pieces(n)
<1>2. /\ p \in Nat /\ SealSize * p <= n + SealSize - 1
      /\ n + SealSize - 1 < SealSize * p + SealSize
  BY <1>1, DivIs DEF Pieces
<1> HIDE DEF p
<1>3. p * SealSize = SealSize * p /\ p * SealSize \in Nat
  BY <1>1, <1>2
<1>4. ASSUME NEW i \in 1 .. p PROVE (i - 1) * SealSize < n
  <2>1. i \in Nat /\ i <= p /\ i * SealSize <= p * SealSize
    BY <1>1, <1>2, Times
  <2>2. (i - 1) * SealSize = i * SealSize - SealSize /\ i * SealSize \in Nat
    BY <1>1, <2>1
  <2> QED BY <1>1, <1>2, <1>3, <2>1, <2>2
<1> QED BY <1>1, <1>2, <1>3, <1>4 DEF p

\* DecryptStream undoes EncryptStream.
LEMMA DecodeEncode ==
    ASSUME NEW S, NEW cells \in Seq(S)
    PROVE  /\ Decode(Encode(cells)) = cells /\ Decodable(Encode(cells))
           /\ Encode(cells) \in Seq({<<"subkey", 0>>} \cup {"sealed"} \X Seq(S))
           /\ Len(Encode(cells)) = 1 + Pieces(Len(cells))
<1> DEFINE n == Len(cells)
           p == Pieces(n)
           piece(i) == SubSeq(cells, (i - 1) * SealSize + 1, Min({i * SealSize, n}))
           T == {<<"subkey", 0>>} \cup {"sealed"} \X Seq(S)
           key == <<<<"subkey", 0>>>>
           sealed == [i \in 1 .. p |-> <<"sealed", piece(i)>>]
           cut == [i \in 0 .. p |-> IF i = p THEN n ELSE i * SealSize]
<1>1. n \in Nat /\ SealSize \in Nat /\ SealSize >= 1 /\ \A i \in 1 .. n : cells[i] \in S
  BY PackfileAssumption
<1>2. /\ p \in Nat /\ n <= p * SealSize
      /\ \A i \in 1 .. p : (i - 1) * SealSize < n
  BY <1>1, PiecesCover
<1> HIDE DEF n, p
<1>3. ASSUME NEW i \in 0 .. p, i # p PROVE i * SealSize \in 0 .. n - 1
  <2>1. i + 1 \in 1 .. p /\ i + 1 - 1 = i /\ i \in Nat
    BY <1>2, <1>3
  <2>2. i * SealSize < n
    <3>1. PICK k \in 1 .. p : k = i + 1 /\ k - 1 = i
      BY <2>1
    <3>2. (k - 1) * SealSize < n
      BY <1>2
    <3> QED BY <3>1, <3>2
  <2>3. i * SealSize \in Nat
    BY <1>1, <2>1
  <2> QED BY <1>1, <2>2, <2>3
<1>4. cut \in [0 .. p -> 0 .. n] /\ cut[p] = n /\ cut[0] = 0
  <2>1. \A i \in 0 .. p : cut[i] \in 0 .. n
    BY <1>1, <1>3
  <2>2. p \in 0 .. p /\ 0 \in 0 .. p
    BY <1>2
  <2>3. p = 0 => n = 0
    BY <1>1, <1>2
  <2>4. 0 * SealSize = 0
    BY <1>1
  <2> QED BY <2>1, <2>2, <2>3, <2>4
<1>5. ASSUME NEW i \in 1 .. p
      PROVE  /\ cut[i - 1] = (i - 1) * SealSize /\ cut[i] = Min({i * SealSize, n})
             /\ cut[i - 1] <= cut[i]
  <2>1. i - 1 \in 0 .. p /\ i - 1 # p /\ i \in 0 .. p /\ i \in Nat /\ i - 1 \in Nat
    BY <1>2
  <2>2. cut[i - 1] = (i - 1) * SealSize
    BY <2>1
  <2>3. i * SealSize \in Nat /\ (i - 1) * SealSize <= i * SealSize
    BY <1>1, <2>1, Times
  <2>4. {i * SealSize, n} \subseteq Nat /\ {i * SealSize, n} # {}
    BY <1>1, <2>3
  <2>5. /\ Min({i * SealSize, n}) \in {i * SealSize, n}
        /\ Min({i * SealSize, n}) <= i * SealSize /\ Min({i * SealSize, n}) <= n
    BY <2>4, MinIs
  <2>6. CASE i = p
    <3>1. n <= i * SealSize
      BY <1>2, <2>6
    <3>2. Min({i * SealSize, n}) = n
      BY <1>1, <2>3, <2>5, <3>1
    <3>3. (i - 1) * SealSize < n /\ (i - 1) * SealSize \in Nat
      BY <1>1, <1>2, <2>1
    <3> QED BY <1>1, <1>4, <2>2, <2>6, <3>2, <3>3
  <2>7. CASE i # p
    <3>1. i * SealSize \in 0 .. n - 1
      BY <1>3, <2>1, <2>7
    <3>2. Min({i * SealSize, n}) = i * SealSize
      BY <1>1, <2>5, <3>1
    <3>3. cut[i] = i * SealSize
      BY <2>1, <2>7
    <3> QED BY <2>2, <2>3, <3>2, <3>3
  <2> QED BY <2>6, <2>7
<1> HIDE DEF cut
<1>6. FlattenSeq([i \in 1 .. p |-> SubSeq(cells, cut[i - 1] + 1, cut[i])]) = cells
  BY <1>1, <1>2, <1>4, <1>5, FlattenPieces DEF n
<1>7. [i \in 1 .. p |-> SubSeq(cells, cut[i - 1] + 1, cut[i])] = [i \in 1 .. p |-> piece(i)]
  BY <1>5
<1>8. ASSUME NEW i \in 1 .. p PROVE piece(i) \in Seq(S)
  <2>1. cut[i - 1] \in 0 .. n /\ cut[i] \in 0 .. n
    BY <1>2, <1>4
  <2>2. \A j \in cut[i - 1] + 1 .. cut[i] : cells[j] \in S
    BY <1>1, <2>1
  <2>3. SubSeq(cells, cut[i - 1] + 1, cut[i]) \in Seq(S)
    BY <2>1, <2>2, SubSeqProperties
  <2> QED BY <1>5, <2>3
<1> HIDE DEF piece
<1>9. key \in Seq(T) /\ Len(key) = 1 /\ key[1] = <<"subkey", 0>>
  OBVIOUS
<1>10. sealed \in Seq(T) /\ Len(sealed) = p /\ \A i \in 1 .. p : sealed[i] = <<"sealed", piece(i)>>
  <2>1. sealed \in [1 .. p -> T]
    BY <1>8
  <2>2. sealed \in Seq(T)
    BY <1>2, <2>1, SeqDef
  <2> QED BY <1>2, <2>1, <2>2, LenProperties
<1>11. Encode(cells) = key \o sealed
  BY DEF Encode, n, p, piece
<1> HIDE DEF key, sealed, T
<1>12. /\ Encode(cells) \in Seq(T) /\ Len(Encode(cells)) = 1 + p
       /\ Encode(cells)[1] = <<"subkey", 0>>
       /\ \A i \in 1 .. p : Encode(cells)[i + 1] = <<"sealed", piece(i)>>
  <2>1. /\ Encode(cells) \in Seq(T) /\ Len(Encode(cells)) = 1 + p
        /\ \A i \in 1 .. 1 + p : Encode(cells)[i] = IF i <= 1 THEN key[i] ELSE sealed[i - 1]
    <3>1. /\ key \o sealed \in Seq(T) /\ Len(key \o sealed) = Len(key) + Len(sealed)
          /\ \A i \in 1 .. Len(key) + Len(sealed) :
                (key \o sealed)[i] = IF i <= Len(key) THEN key[i] ELSE sealed[i - Len(key)]
      BY <1>9, <1>10, ConcatProperties
    <3> QED BY <1>9, <1>10, <1>11, <3>1
  <2>2. ASSUME NEW i \in 1 .. p PROVE Encode(cells)[i + 1] = <<"sealed", piece(i)>>
    <3>1. i + 1 \in 1 .. 1 + p /\ ~ (i + 1 <= 1) /\ i + 1 - 1 = i
      BY <1>2
    <3>2. Encode(cells)[i + 1] = sealed[i]
      BY <2>1, <3>1
    <3> QED BY <1>10, <3>2
  <2>3. 1 \in 1 .. 1 + p
    BY <1>2
  <2> QED BY <1>9, <2>1, <2>2, <2>3
<1>13. Decode(Encode(cells)) = cells
  <2>1. Len(Encode(cells)) - 1 = p
    BY <1>2, <1>12
  <2>2. \A i \in 1 .. p : Encode(cells)[i + 1][2] = piece(i)
    BY <1>12
  <2>3. [i \in 1 .. Len(Encode(cells)) - 1 |-> Encode(cells)[i + 1][2]] = [i \in 1 .. p |-> piece(i)]
    BY <2>1, <2>2
  <2> QED BY <1>6, <1>7, <2>3 DEF Decode
<1>14. Decodable(Encode(cells))
  <2>1. Encode(cells) # <<>>
    BY <1>2, <1>12
  <2>2. ASSUME NEW i \in 2 .. Len(Encode(cells)) PROVE Encode(cells)[i][1] = "sealed"
    <3>1. i - 1 \in 1 .. p /\ i - 1 + 1 = i
      BY <1>2, <1>12
    <3>2. Encode(cells)[i - 1 + 1] = <<"sealed", piece(i - 1)>>
      BY <1>12, <3>1
    <3> QED BY <3>1, <3>2
  <2> QED BY <1>12, <2>1, <2>2 DEF Decodable
<1> QED BY <1>12, <1>13, <1>14 DEF n, p, T

\* What was put together comes apart.
LEMMA Parts ==
    ASSUME NEW S, NEW s \in Seq(S), NEW t \in Seq(S)
    PROVE  /\ SubSeq(s \o t, 1, Len(s)) = s
           /\ SubSeq(s \o t, Len(s) + 1, Len(s \o t)) = t
<1> DEFINE u == s \o t
           a == SubSeq(u, 1, Len(s))
           b == SubSeq(u, Len(s) + 1, Len(u))
<1>1. Len(s) \in Nat /\ Len(t) \in Nat
  OBVIOUS
<1>2. /\ u \in Seq(S) /\ Len(u) = Len(s) + Len(t)
      /\ \A i \in 1 .. Len(s) + Len(t) : u[i] = IF i <= Len(s) THEN s[i] ELSE t[i - Len(s)]
  BY ConcatProperties
<1>3. \A i \in 1 .. Len(u) : u[i] \in S
  BY <1>2, ElementOfSeq
<1> HIDE DEF u
<1>4. a = s
  <2>1. \A i \in 1 .. Len(s) : u[i] \in S
    BY <1>1, <1>2, <1>3
  <2>2. a \in Seq(S) /\ Len(a) = Len(s) /\ \A i \in 1 .. Len(s) - 1 + 1 : a[i] = u[1 + i - 1]
    BY <1>1, <2>1, SubSeqProperties
  <2> HIDE DEF a
  <2>3. ASSUME NEW i \in 1 .. Len(a) PROVE a[i] = s[i]
    <3>1. i \in 1 .. Len(s) - 1 + 1 /\ i \in 1 .. Len(s) + Len(t) /\ 1 + i - 1 = i /\ i <= Len(s)
      BY <1>1, <2>2
    <3> QED BY <1>2, <2>2, <3>1
  <2> QED BY <2>2, <2>3, SeqEqual
<1>5. b = t
  <2>1. \A i \in Len(s) + 1 .. Len(u) : u[i] \in S
    BY <1>1, <1>2, <1>3
  <2>2. /\ b \in Seq(S) /\ Len(b) = Len(t)
        /\ \A i \in 1 .. Len(u) - (Len(s) + 1) + 1 : b[i] = u[Len(s) + 1 + i - 1]
    BY <1>1, <1>2, <2>1, SubSeqProperties
  <2> HIDE DEF b
  <2>3. ASSUME NEW i \in 1 .. Len(b) PROVE b[i] = t[i]
    <3>1. i \in 1 .. Len(u) - (Len(s) + 1) + 1 /\ i \in Nat /\ Len(s) + 1 + i - 1 = Len(s) + i
      BY <1>1, <1>2, <2>2
    <3>2. PICK k \in 1 .. Len(s) + Len(t) : k = Len(s) + i /\ ~ (k <= Len(s)) /\ k - Len(s) = i
      BY <1>1, <2>2, <3>1
    <3> QED BY <1>2, <2>2, <3>1, <3>2
  <2> QED BY <2>2, <2>3, SeqEqual
<1> QED BY <1>4, <1>5 DEF u

LEMMA FrontAndLast ==
    ASSUME NEW S, NEW s \in Seq(S), NEW e \in S
    PROVE  Front(s \o <<e>>) = s /\ Last(s \o <<e>>) = e /\ Len(s \o <<e>>) = Len(s) + 1
<1>1. <<e>> \in Seq(S) /\ Len(<<e>>) = 1 /\ Len(s) \in Nat
  OBVIOUS
<1>2. /\ Len(s \o <<e>>) = Len(s) + 1
      /\ \A i \in 1 .. Len(s) + 1 : (s \o <<e>>)[i] = IF i <= Len(s) THEN s[i] ELSE <<e>>[i - Len(s)]
  BY <1>1, ConcatProperties
<1>3. SubSeq(s \o <<e>>, 1, Len(s)) = s
  BY <1>1, Parts
<1>4. (s \o <<e>>)[Len(s) + 1] = e
  <2>1. Len(s) + 1 \in 1 .. Len(s) + 1 /\ ~ (Len(s) + 1 <= Len(s)) /\ Len(s) + 1 - Len(s) = 1
    BY <1>1
  <2> QED BY <1>2, <2>1
<1>5. Len(s \o <<e>>) - 1 = Len(s)
  BY <1>1, <1>2
<1> QED BY <1>2, <1>3, <1>4, <1>5 DEF Front, Last

-----------------------------------------------------------------------------
Bytes   == {"byte"} \X (Nat \X Nat)
Entries == [mac : Nat, offset : Nat, length : Nat]
Rows    == {"record"} \X Entries
MACs(S) == {"mac"} \X (Nat \X Seq(S))
Footers == {"footer"} \X [count : Nat, indexOffset : Nat, indexMAC : Seq(MACs(Rows))]
Coded(S) == {<<"subkey", 0>>} \cup {"sealed"} \X Seq(S)

\* The cells of a packfile, decoded or not; those of a file, damaged or not.
Cells == Bytes \cup Rows \cup Footers \cup Coded(Rows) \cup Coded(Footers)
         \cup {"length"} \X Nat \cup {Header}
FileCells == Cells \cup MACs(Cells) \cup {<<"junk", 0>>}

\* The index says where the bytes of each blob are.
PackfileOK(pack) ==
    /\ pack \in [blobs : Seq(Bytes), index : Seq(Entries)]
    /\ \A i \in DOMAIN pack.index :
          /\ pack.index[i].offset + pack.index[i].length <= Len(pack.blobs)
          /\ \A j \in 1 .. pack.index[i].length :
                pack.blobs[pack.index[i].offset + j] = <<"byte", <<pack.index[i].mac, j>>>>

LEMMA MACIs ==
    ASSUME NEW S, NEW cells \in Seq(S)
    PROVE  /\ MAC(cells) \in Seq(MACs(S)) /\ Len(MAC(cells)) = MACSize
           /\ \A i \in 1 .. MACSize : MAC(cells)[i] = <<"mac", <<i, cells>>>>
<1>1. MACSize \in Nat
  BY PackfileAssumption
<1>2. MAC(cells) \in [1 .. MACSize -> MACs(S)]
  BY <1>1 DEF MAC, MACs
<1>3. MAC(cells) \in Seq(MACs(S))
  BY <1>1, <1>2, SeqDef
<1> QED BY <1>1, <1>2, <1>3, LenProperties DEF MAC

\* The index and the footer of a packfile, as they are written.
LEMMA PartsOfPackfile ==
    ASSUME NEW pack, PackfileOK(pack)
    PROVE  /\ Records(pack) \in Seq(Rows) /\ Len(Records(pack)) = Len(pack.index)
           /\ \A i \in 1 .. Len(pack.index) : Records(pack)[i] = <<"record", pack.index[i]>>
           /\ SerializeFooter(pack) \in Seq(Footers)
           /\ SerializeFooter(pack) = <<<<"footer", [count |-> Len(pack.index), indexOffset |-> Len(pack.blobs),
                                                     indexMAC |-> MAC(Records(pack))]>>>>
<1>1. /\ pack.index \in Seq(Entries) /\ Len(pack.index) \in Nat /\ DOMAIN pack.index = 1 .. Len(pack.index)
      /\ Len(pack.blobs) \in Nat
  BY DEF PackfileOK
<1>2. Records(pack) \in [1 .. Len(pack.index) -> Rows]
  BY <1>1 DEF Records, Rows
<1>3. Records(pack) \in Seq(Rows)
  BY <1>1, <1>2, SeqDef
<1>4. Len(Records(pack)) = Len(pack.index)
  BY <1>1, <1>2, <1>3, LenProperties
<1>5. MAC(Records(pack)) \in Seq(MACs(Rows))
  BY <1>3, MACIs
<1>6. SerializeFooter(pack) \in Seq(Footers)
  BY <1>1, <1>5 DEF SerializeFooter, Footers
<1> QED BY <1>1, <1>3, <1>4, <1>6 DEF Records, SerializeFooter

\* NewFromBytes undoes PackFile.Serialize.
LEMMA PlainReadsBack ==
    ASSUME NEW pack, PackfileOK(pack)
    PROVE  NewFromBytes(Plain(pack)) = {pack}
<1> DEFINE blobs   == pack.blobs
           records == Records(pack)
           footer  == [count |-> Len(pack.index), indexOffset |-> Len(pack.blobs), indexMAC |-> MAC(records)]
           head    == blobs \o records
           cells   == Plain(pack)
<1>1. /\ blobs \in Seq(Cells) /\ records \in Seq(Cells) /\ <<"footer", footer>> \in Cells
      /\ pack.index \in Seq(Entries) /\ Len(pack.index) \in Nat
      /\ DOMAIN pack.index = 1 .. Len(pack.index) /\ Len(blobs) \in Nat
  <2>1. Bytes \subseteq Cells /\ Rows \subseteq Cells /\ Footers \subseteq Cells
    BY DEF Cells
  <2>2. pack.blobs \in Seq(Bytes) /\ pack.index \in Seq(Entries)
    BY DEF PackfileOK
  <2>3. SerializeFooter(pack)[1] \in Footers
    BY PartsOfPackfile
  <2>4. <<"footer", footer>> \in Footers
    BY <2>3 DEF SerializeFooter
  <2> QED BY <2>1, <2>2, <2>4, PartsOfPackfile, SeqMonotonic
<1>2. cells = head \o <<<<"footer", footer>>>>
  BY DEF Plain, SerializeFooter
<1>3. /\ head \in Seq(Cells) /\ Len(head) = Len(blobs) + Len(records)
  BY <1>1, ConcatProperties
<1> HIDE DEF head, cells, records
<1>4. Last(cells) = <<"footer", footer>> /\ Front(cells) = head /\ Len(cells) = Len(head) + 1
  BY <1>1, <1>2, <1>3, FrontAndLast
<1>5. Last(cells)[2].indexOffset = Len(blobs) /\ Last(cells)[2].indexMAC = MAC(records)
  BY <1>4
<1>6. Len(records) = Len(pack.index)
  BY PartsOfPackfile DEF records
<1>7. SubSeq(cells, Len(blobs) + 1, Len(cells) - 1) = records /\ SubSeq(cells, 1, Len(blobs)) = blobs
  <2>1. Len(cells) - 1 = Len(head) /\ Len(head) \in Nat
    BY <1>3, <1>4
  <2>2. /\ SubSeq(head, 1, Len(blobs)) = blobs
        /\ SubSeq(head, Len(blobs) + 1, Len(head)) = records
    BY <1>1, Parts DEF head
  <2>3. <<<<"footer", footer>>>> \in Seq(Cells)
    BY <1>1
  <2> HIDE DEF footer
  <2>4. /\ cells \in Seq(Cells)
        /\ \A i \in 1 .. Len(head) : cells[i] = head[i]
    <3>1. /\ cells \in Seq(Cells)
          /\ \A i \in 1 .. Len(head) + 1 : cells[i] = IF i <= Len(head) THEN head[i] ELSE <<<<"footer", footer>>>>[i - Len(head)]
      BY <1>2, <1>3, <2>3, ConcatProperties
    <3> QED BY <2>1, <3>1
  <2>5. ASSUME NEW m \in 1 .. Len(head) + 1, NEW n \in 0 .. Len(head)
        PROVE  SubSeq(cells, m, n) = SubSeq(head, m, n)
    <3>1. \A i \in m .. n : cells[i] = head[i] /\ head[i] \in Cells
      BY <1>3, <2>1, <2>4, ElementOfSeq
    <3>2. \A i \in m .. n : cells[i] \in Cells
      BY <3>1
    <3>3. m \in Int /\ n \in Int
      BY <2>1
    <3>4. /\ SubSeq(cells, m, n) \in Seq(Cells)
          /\ Len(SubSeq(cells, m, n)) = (IF m <= n THEN n - m + 1 ELSE 0)
          /\ \A i \in 1 .. n - m + 1 : SubSeq(cells, m, n)[i] = cells[m + i - 1]
      BY <3>2, <3>3, SubSeqProperties
    <3>5. /\ SubSeq(head, m, n) \in Seq(Cells)
          /\ Len(SubSeq(head, m, n)) = (IF m <= n THEN n - m + 1 ELSE 0)
          /\ \A i \in 1 .. n - m + 1 : SubSeq(head, m, n)[i] = head[m + i - 1]
      BY <3>1, <3>3, SubSeqProperties
    <3>6. ASSUME NEW i \in 1 .. Len(SubSeq(cells, m, n))
          PROVE  SubSeq(cells, m, n)[i] = SubSeq(head, m, n)[i]
      <4>1. i \in 1 .. n - m + 1 /\ m + i - 1 \in m .. n
        BY <2>1, <3>3, <3>4
      <4> QED BY <3>1, <3>4, <3>5, <4>1
    <3> QED BY <3>4, <3>5, <3>6, SeqEqual
  <2>6. Len(blobs) + 1 \in 1 .. Len(head) + 1 /\ Len(head) \in 0 .. Len(head) /\ Len(blobs) \in 0 .. Len(head)
        /\ 1 \in 1 .. Len(head) + 1
    <3>1. Len(blobs) \in Nat /\ Len(records) \in Nat /\ Len(head) = Len(blobs) + Len(records)
      BY <1>1, <1>3, <1>6
    <3> HIDE DEF blobs
    <3> QED BY <3>1
  <2> QED BY <2>1, <2>2, <2>5, <2>6
<1>8. [i \in DOMAIN records |-> records[i][2]] = pack.index
  <2>1. records \in Seq(Cells) /\ DOMAIN records = 1 .. Len(pack.index)
    BY <1>1, <1>6, LenProperties
  <2>2. \A i \in 1 .. Len(pack.index) : records[i][2] = pack.index[i]
    BY PartsOfPackfile DEF records
  <2>3. pack.index = [i \in 1 .. Len(pack.index) |-> pack.index[i]]
    BY <1>1
  <2> QED BY <2>1, <2>2, <2>3
<1>9. \A i \in DOMAIN pack.index : pack.index[i].offset + pack.index[i].length <= Len(blobs)
  BY DEF PackfileOK
<1>10. pack = [blobs |-> blobs, index |-> pack.index]
  BY DEF PackfileOK
<1>11. NewFromBytes(cells) = {[blobs |-> blobs, index |-> pack.index]}
  <2> HIDE DEF footer, blobs
  <2> QED BY <1>5, <1>7, <1>8, <1>9 DEF NewFromBytes
<1> QED BY <1>10, <1>11 DEF cells

LEMMA LayoutIs ==
    ASSUME NEW pack, PackfileOK(pack)
    PROVE  /\ Layout(pack) \in Seq(Cells) /\ Len(pack.blobs) <= Len(Layout(pack))
           /\ \A i \in 1 .. Len(pack.blobs) : Layout(pack)[i] = pack.blobs[i]
           /\ GetPackfile(Layout(pack)) = {pack}
<1> DEFINE blobs   == pack.blobs
           records == Records(pack)
           plain   == SerializeFooter(pack)
           coded   == Encode(plain)
           indexed == Encode(records)
           rest    == blobs \o indexed
           body    == rest \o coded
           length  == <<"length", Len(coded)>>
           cells   == body \o <<length>>
           footer  == [count |-> Len(pack.index), indexOffset |-> Len(pack.blobs), indexMAC |-> MAC(records)]
<1>1. cells = Layout(pack)
  BY DEF Layout
<1>2. /\ records \in Seq(Rows) /\ plain \in Seq(Footers) /\ plain[1][2] = footer
  <2>1. plain = <<<<"footer", footer>>>>
    BY DEF SerializeFooter
  <2>2. Records(pack) \in Seq(Rows) /\ SerializeFooter(pack) \in Seq(Footers)
    BY PartsOfPackfile
  <2> HIDE DEF footer
  <2>3. plain[1][2] = footer
    BY <2>1
  <2> QED BY <2>2, <2>3
<1> HIDE DEF records, plain
<1>3. /\ Decode(coded) = plain /\ Decodable(coded) /\ coded \in Seq(Coded(Footers))
      /\ Decode(indexed) = records /\ Decodable(indexed) /\ indexed \in Seq(Coded(Rows))
  BY <1>2, DecodeEncode DEF Coded
<1> HIDE DEF coded, indexed
<1>4. blobs \in Seq(Cells) /\ coded \in Seq(Cells) /\ indexed \in Seq(Cells)
  <2>1. Bytes \subseteq Cells /\ Coded(Rows) \subseteq Cells /\ Coded(Footers) \subseteq Cells
    BY DEF Cells
  <2>2. blobs \in Seq(Bytes)
    BY DEF PackfileOK
  <2> QED BY <1>3, <2>1, <2>2, SeqMonotonic
<1>5. Len(blobs) \in Nat /\ Len(coded) \in Nat /\ Len(indexed) \in Nat
  BY <1>4, LenProperties
<1>6. rest \in Seq(Cells) /\ Len(rest) = Len(blobs) + Len(indexed)
  BY <1>4, ConcatProperties
<1>7. body \in Seq(Cells) /\ Len(body) = Len(rest) + Len(coded)
  BY <1>4, <1>6, ConcatProperties
<1>8. length \in Cells
  BY <1>5 DEF Cells
<1>9. SubSeq(rest, 1, Len(blobs)) = blobs /\ SubSeq(rest, Len(blobs) + 1, Len(rest)) = indexed
  BY <1>4, Parts
<1>10. SubSeq(body, 1, Len(rest)) = rest /\ SubSeq(body, Len(rest) + 1, Len(body)) = coded
  BY <1>4, <1>6, Parts
<1>11. Front(cells) = body /\ Last(cells) = length /\ Len(cells) = Len(body) + 1
  BY <1>7, <1>8, FrontAndLast
<1>12. cells \in Seq(Cells) /\ Len(blobs) <= Len(cells) /\ \A i \in 1 .. Len(blobs) : cells[i] = blobs[i]
  <2>1. <<length>> \in Seq(Cells) /\ Len(<<length>>) = 1
    BY <1>8
  <2> HIDE DEF length
  <2>2. cells \in Seq(Cells) /\ \A i \in 1 .. Len(body) + 1 : i <= Len(body) => cells[i] = body[i]
    BY <1>7, <2>1, ConcatProperties
  <2>3. \A i \in 1 .. Len(rest) + Len(coded) : i <= Len(rest) => body[i] = rest[i]
    BY <1>4, <1>6, ConcatProperties
  <2>4. \A i \in 1 .. Len(blobs) + Len(indexed) : i <= Len(blobs) => rest[i] = blobs[i]
    BY <1>4, ConcatProperties
  <2> HIDE DEF blobs, rest, body, cells
  <2>5. ASSUME NEW i \in 1 .. Len(blobs) PROVE cells[i] = blobs[i]
    <3>1. /\ i \in 1 .. Len(body) + 1 /\ i <= Len(body)
          /\ i \in 1 .. Len(rest) + Len(coded) /\ i <= Len(rest)
          /\ i \in 1 .. Len(blobs) + Len(indexed) /\ i <= Len(blobs)
      BY <1>5, <1>6, <1>7
    <3> QED BY <2>2, <2>3, <2>4, <3>1
  <2>6. Len(blobs) <= Len(cells)
    BY <1>5, <1>6, <1>7, <1>11
  <2> QED BY <2>2, <2>5, <2>6
<1>13. GetPackfile(cells) = NewFromBytes(blobs \o records \o plain)
  <2> DEFINE enc == Last(cells)[2]
  <2>1. enc = Len(coded) /\ Len(Front(cells)) - enc = Len(rest)
    <3> HIDE DEF cells, body, rest, blobs
    <3>1. Last(cells)[2] = Len(coded) /\ Front(cells) = body
      BY <1>11
    <3>2. Len(body) - Len(coded) = Len(rest)
      BY <1>5, <1>6, <1>7
    <3> QED BY <3>1, <3>2
  <2>2. /\ SubSeq(Front(cells), Len(Front(cells)) - enc + 1, Len(Front(cells))) = coded
        /\ SubSeq(Front(cells), 1, Len(Front(cells)) - enc) = rest
    BY <1>10, <1>11, <2>1
  <2>3. NewFooterFromBytes(plain) = footer /\ footer.indexOffset = Len(blobs) /\ footer.indexMAC = MAC(records)
    BY <1>2 DEF NewFooterFromBytes
  <2> HIDE DEF blobs, rest, body, cells, enc, footer
  <2> QED BY <1>3, <1>9, <2>2, <2>3 DEF GetPackfile, enc
<1>14. NewFromBytes(blobs \o records \o plain) = {pack}
  BY PlainReadsBack DEF Plain, records, plain
<1> HIDE DEF cells
<1> QED BY <1>1, <1>12, <1>13, <1>14

\* What is stored: a header, the packfile, and the MAC of both.
LEMMA SerializeIs ==
    ASSUME NEW cells \in Seq(Cells)
    PROVE  /\ <<Header>> \o cells \in Seq(Cells) /\ Len(<<Header>> \o cells) = 1 + Len(cells)
           /\ Serialize(cells) \in Seq(FileCells)
           /\ Len(Serialize(cells)) = 1 + Len(cells) + MACSize
           /\ Serialize(cells)[1] = Header
           /\ \A i \in 1 .. Len(cells) : Serialize(cells)[1 + i] = cells[i]
           /\ \A i \in 1 .. 1 + Len(cells) : Serialize(cells)[i] = (<<Header>> \o cells)[i]
           /\ \A i \in 1 .. MACSize :
                 Serialize(cells)[1 + Len(cells) + i] = <<"mac", <<i, <<Header>> \o cells>>>>
<1> DEFINE head == <<Header>> \o cells
<1>1. <<Header>> \in Seq(Cells) /\ Len(<<Header>>) = 1 /\ <<Header>>[1] = Header /\ Len(cells) \in Nat
      /\ MACSize \in Nat
  BY PackfileAssumption DEF Cells
<1>2. /\ head \in Seq(Cells) /\ Len(head) = 1 + Len(cells)
      /\ \A i \in 1 .. 1 + Len(cells) : head[i] = IF i <= 1 THEN <<Header>>[i] ELSE cells[i - 1]
  <2>1. /\ head \in Seq(Cells) /\ Len(head) = Len(<<Header>>) + Len(cells)
        /\ \A i \in 1 .. Len(<<Header>>) + Len(cells) :
              head[i] = IF i <= Len(<<Header>>) THEN <<Header>>[i] ELSE cells[i - Len(<<Header>>)]
    BY <1>1, ConcatProperties
  <2> QED BY <1>1, <2>1
<1> HIDE DEF head
<1>3. /\ MAC(head) \in Seq(MACs(Cells)) /\ Len(MAC(head)) = MACSize
      /\ \A i \in 1 .. MACSize : MAC(head)[i] = <<"mac", <<i, head>>>>
  BY <1>2, MACIs
<1>4. head \in Seq(FileCells) /\ MAC(head) \in Seq(FileCells)
  <2>1. Cells \subseteq FileCells /\ MACs(Cells) \subseteq FileCells
    BY DEF FileCells
  <2> QED BY <1>2, <1>3, <2>1, SeqMonotonic
<1>5. Serialize(cells) = head \o MAC(head)
  BY DEF Serialize, head
<1>6. /\ Serialize(cells) \in Seq(FileCells)
      /\ Len(Serialize(cells)) = 1 + Len(cells) + MACSize
      /\ \A i \in 1 .. 1 + Len(cells) + MACSize :
            Serialize(cells)[i] = IF i <= 1 + Len(cells) THEN head[i] ELSE MAC(head)[i - (1 + Len(cells))]
  <2>1. /\ head \o MAC(head) \in Seq(FileCells) /\ Len(head \o MAC(head)) = Len(head) + Len(MAC(head))
        /\ \A i \in 1 .. Len(head) + Len(MAC(head)) :
              (head \o MAC(head))[i] = IF i <= Len(head) THEN head[i] ELSE MAC(head)[i - Len(head)]
    BY <1>4, ConcatProperties
  <2> QED BY <1>2, <1>3, <1>5, <2>1
<1>7. ASSUME NEW i \in 1 .. 1 + Len(cells) PROVE Serialize(cells)[i] = head[i]
  BY <1>1, <1>6
<1>8. ASSUME NEW i \in 1 .. Len(cells) PROVE Serialize(cells)[1 + i] = cells[i]
  <2>1. PICK k \in 1 .. 1 + Len(cells) : k = 1 + i /\ ~ (k <= 1) /\ k - 1 = i
    BY <1>1
  <2> QED BY <1>2, <1>7, <2>1
<1>9. ASSUME NEW i \in 1 .. MACSize PROVE Serialize(cells)[1 + Len(cells) + i] = <<"mac", <<i, head>>>>
  <2>1. PICK k \in 1 .. 1 + Len(cells) + MACSize :
            k = 1 + Len(cells) + i /\ ~ (k <= 1 + Len(cells)) /\ k - (1 + Len(cells)) = i
    BY <1>1
  <2> QED BY <1>3, <1>6, <2>1
<1>10. Serialize(cells)[1] = Header
  <2>1. 1 \in 1 .. 1 + Len(cells)
    BY <1>1
  <2> QED BY <1>1, <1>2, <1>7, <2>1
<1> QED BY <1>2, <1>6, <1>7, <1>8, <1>9, <1>10 DEF head

-----------------------------------------------------------------------------
Written == Serialize(Layout(packfile))

\* What the store has is what was written, but for what has happened to it.
FileOK ==
    \/ stored = <<>> /\ harm = "no" /\ reader.at = "idle"
    \/ stored = Written /\ harm = "no"
    \/ harm = "cut" /\ \E n \in 1 .. Len(Written) - 1 : stored = SubSeq(Written, 1, n)
    \/ harm = "flipped" /\ \E k \in 1 .. Len(Written) : stored = [Written EXCEPT ![k] = <<"junk", 0>>]

\* What was handed on, what is kept back and what is to come are the file; once
\* anything was handed on, what may be the MAC is kept back.
ReadingOK ==
    /\ reader \in [at : {"idle", "reading", "done", "spinning", "error"}, left : Seq(FileCells),
                   rest : Seq(FileCells), hashed : Seq(FileCells)]
    /\ reader.at = "idle" => reader.left = <<>>
    /\ reader.at \in {"reading", "done", "spinning"} =>
          /\ stored # <<>> /\ (reader.hashed \o reader.left) \o reader.rest = stored
          /\ Len(reader.hashed) >= 1 /\ (Len(reader.hashed) > 1 => Len(reader.left) >= MACSize)
    /\ reader.at \in {"done", "spinning"} => reader.rest = <<>>
    /\ reader.at = "done" => reader.left = MAC(reader.hashed)
    /\ reader.at = "spinning" => Len(reader.left) < MACSize
    /\ reader.at = "error" => harm # "no"

PackInv == PackfileOK(packfile) /\ FileOK /\ ReadingOK

LEMMA WrittenIs ==
    ASSUME PackfileOK(packfile)
    PROVE  /\ Written \in Seq(FileCells)
           /\ Len(Layout(packfile)) \in Nat /\ Layout(packfile) \in Seq(Cells)
           /\ Len(Written) = 1 + Len(Layout(packfile)) + MACSize
           /\ FileOK => stored \in Seq(FileCells)
<1>1. /\ Layout(packfile) \in Seq(Cells) /\ Len(Layout(packfile)) \in Nat
  BY LayoutIs
<1>2. Written \in Seq(FileCells) /\ Len(Written) = 1 + Len(Layout(packfile)) + MACSize
  BY <1>1, SerializeIs DEF Written
<1>3. ASSUME FileOK PROVE stored \in Seq(FileCells)
  <2>1. CASE stored = <<>> \/ stored = Written
    BY <1>2, <2>1, EmptySeq
  <2>2. ASSUME NEW n \in 1 .. Len(Written) - 1, stored = SubSeq(Written, 1, n)
        PROVE  stored \in Seq(FileCells)
    <3>1. \A i \in 1 .. n : Written[i] \in FileCells
      BY <1>2, ElementOfSeq
    <3> QED BY <2>2, <3>1, SubSeqProperties
  <2>3. ASSUME NEW k \in 1 .. Len(Written), stored = [Written EXCEPT ![k] = <<"junk", 0>>]
        PROVE  stored \in Seq(FileCells)
    <3>1. <<"junk", 0>> \in FileCells
      BY DEF FileCells
    <3> QED BY <1>2, <2>3, <3>1, ExceptSeq
  <2> QED BY <1>3, <2>1, <2>2, <2>3 DEF FileOK
<1> QED BY <1>1, <1>2, <1>3

\* A file that was read to its end, and whose MAC was right, is what was written.
LEMMA MACTells ==
    ASSUME PackfileOK(packfile), FileOK, NEW hashed \in Seq(FileCells), NEW ahead \in Seq(FileCells),
           hashed \o ahead = stored, Len(ahead) = MACSize, Len(hashed) >= 1
    PROVE  /\ ahead = MAC(hashed) => harm = "no" /\ hashed = <<Header>> \o Layout(packfile)
           /\ harm = "no" => ahead = MAC(hashed)
<1> DEFINE cells == Layout(packfile)
           head  == <<Header>> \o cells
           n     == 1 + Len(cells)
<1>1. cells \in Seq(Cells) /\ Len(cells) \in Nat /\ n \in Nat
  BY WrittenIs
<1>2. MACSize \in Nat /\ MACSize >= 1
  BY PackfileAssumption
<1>3. /\ Written \in Seq(FileCells) /\ head \in Seq(Cells) /\ Len(head) = n
      /\ Len(Written) = n + MACSize
      /\ \A i \in 1 .. n : Written[i] = head[i]
      /\ \A i \in 1 .. MACSize : Written[n + i] = <<"mac", <<i, head>>>>
  <2> HIDE DEF head
  <2> QED BY <1>1, SerializeIs DEF Written, head
<1>4. \A i \in 1 .. n : head[i] \in Cells /\ head[i] # <<"junk", 0>> /\ \A v : head[i] # <<"mac", v>>
  <2>1. \A c \in Cells : c # <<"junk", 0>> /\ \A v : c # <<"mac", v>>
    BY DEF Cells, Bytes, Rows, Footers, Coded, Header
  <2>2. \A i \in 1 .. n : head[i] \in Cells
    <3> HIDE DEF head
    <3> QED BY <1>3, ElementOfSeq
  <2> HIDE DEF head
  <2> QED BY <2>1, <2>2
<1> HIDE DEF cells, head, n
<1>5. /\ Len(hashed) \in Nat /\ Len(stored) = Len(hashed) + MACSize
      /\ \A i \in 1 .. Len(hashed) : stored[i] = hashed[i]
      /\ \A i \in 1 .. MACSize : stored[Len(hashed) + i] = ahead[i]
  <2>1. /\ Len(hashed) \in Nat /\ Len(stored) = Len(hashed) + MACSize
        /\ \A i \in 1 .. Len(hashed) + MACSize :
              stored[i] = IF i <= Len(hashed) THEN hashed[i] ELSE ahead[i - Len(hashed)]
    BY ConcatProperties
  <2>2. \A i \in 1 .. Len(hashed) : stored[i] = hashed[i]
    BY <1>2, <2>1
  <2>3. ASSUME NEW i \in 1 .. MACSize PROVE stored[Len(hashed) + i] = ahead[i]
    <3>1. Len(hashed) \in Nat
      BY <2>1
    <3>2. PICK h \in Nat : h = Len(hashed)
      BY <3>1
    <3>3. h + i \in 1 .. h + MACSize /\ ~ (h + i <= h) /\ h + i - h = i
      BY <1>2
    <3> QED BY <2>1, <3>2, <3>3
  <2> QED BY <2>1, <2>2, <2>3
<1>6. \A i \in 1 .. MACSize : MAC(hashed)[i] = <<"mac", <<i, hashed>>>>
  BY MACIs
<1>7. ASSUME harm = "no" PROVE hashed = head /\ ahead = MAC(hashed)
  <2>1. stored = Written
    <3>1. stored # <<>>
      BY <1>2, <1>5, EmptySeq
    <3> QED BY <1>7, <3>1 DEF FileOK
  <2>2. Len(hashed) = n
    BY <1>1, <1>2, <1>3, <1>5, <2>1
  <2>3. hashed = head
    <3>1. head \in Seq(FileCells)
      <4>1. Cells \subseteq FileCells
        BY DEF FileCells
      <4> QED BY <1>3, <4>1, SeqMonotonic
    <3>2. \A i \in 1 .. Len(hashed) : hashed[i] = head[i]
      BY <1>3, <1>5, <2>1, <2>2
    <3> QED BY <1>3, <2>2, <3>1, <3>2, SeqEqual
  <2>4. \A i \in 1 .. MACSize : ahead[i] = MAC(hashed)[i]
    BY <1>3, <1>5, <1>6, <2>1, <2>2, <2>3
  <2>5. MAC(hashed) \in Seq(MACs(FileCells)) /\ Len(MAC(hashed)) = MACSize
    BY MACIs
  <2>6. ahead = MAC(hashed)
    <3>1. ahead = [i \in 1 .. MACSize |-> ahead[i]]
      OBVIOUS
    <3>2. [i \in 1 .. MACSize |-> ahead[i]] = [i \in 1 .. MACSize |-> <<"mac", <<i, hashed>>>>]
      BY <1>6, <2>4
    <3> QED BY <3>1, <3>2 DEF MAC
  <2> QED BY <2>3, <2>6
<1>8. ASSUME ahead = MAC(hashed) PROVE harm = "no"
  <2>1. \A i \in 1 .. MACSize : stored[Len(hashed) + i] = <<"mac", <<i, hashed>>>>
    BY <1>5, <1>6, <1>8
  <2>2. ASSUME NEW m \in 1 .. Len(Written) - 1, stored = SubSeq(Written, 1, m) PROVE FALSE
    <3>1. Len(stored) = m /\ \A i \in 1 .. m : stored[i] = Written[i]
      <4>1. \A i \in 1 .. m : Written[i] \in FileCells
        BY <1>3, ElementOfSeq
      <4>2. /\ Len(SubSeq(Written, 1, m)) = m
            /\ \A i \in 1 .. m - 1 + 1 : SubSeq(Written, 1, m)[i] = Written[1 + i - 1]
        BY <4>1, SubSeqProperties
      <4>3. ASSUME NEW i \in 1 .. m PROVE SubSeq(Written, 1, m)[i] = Written[i]
        <5>1. i \in 1 .. m - 1 + 1 /\ 1 + i - 1 = i
          OBVIOUS
        <5> QED BY <4>2, <5>1
      <4> QED BY <2>2, <4>2, <4>3
    <3>2. Len(hashed) + MACSize = m /\ m \in 1 .. m
      BY <1>5, <3>1
    <3>3. MACSize \in 1 .. MACSize
      BY <1>2
    <3>4. Written[m] = <<"mac", <<MACSize, hashed>>>>
      BY <2>1, <3>1, <3>2, <3>3
    <3>5. CASE m <= n
      <4>1. Written[m] = head[m] /\ m \in 1 .. n
        BY <1>1, <1>3, <3>5
      <4> QED BY <1>4, <3>4, <4>1
    <3>6. CASE m > n
      <4>1. PICK i \in 1 .. MACSize : i = m - n /\ n + i = m /\ i # MACSize
        BY <1>1, <1>2, <1>3, <3>6
      <4>2. Written[m] = <<"mac", <<i, head>>>>
        BY <1>3, <4>1
      <4> QED BY <3>4, <4>1, <4>2
    <3> QED BY <1>1, <3>5, <3>6
  <2>3. ASSUME NEW k \in 1 .. Len(Written), stored = [Written EXCEPT ![k] = <<"junk", 0>>] PROVE FALSE
    <3>1. /\ Len(stored) = n + MACSize
          /\ \A i \in 1 .. Len(Written) : stored[i] = IF i = k THEN <<"junk", 0>> ELSE Written[i]
      <4>1. <<"junk", 0>> \in FileCells
        BY DEF FileCells
      <4> QED BY <1>3, <2>3, <4>1, ExceptSeq
    <3>2. Len(hashed) = n
      BY <1>1, <1>2, <1>5, <3>1
    <3>3. k <= n
      <4> SUFFICES ASSUME k > n PROVE FALSE
        BY <1>1, <1>3
      <4>1. PICK i \in 1 .. MACSize : k = n + i
        BY <1>1, <1>2, <1>3
      <4>2. stored[n + i] = <<"junk", 0>> /\ stored[n + i] = <<"mac", <<i, hashed>>>>
        BY <2>1, <3>1, <3>2, <4>1
      <4> QED BY <4>2
    <3>4. hashed = head
      <4>1. 1 \in 1 .. MACSize /\ n + 1 \in 1 .. Len(Written) /\ n + 1 # k
        BY <1>1, <1>2, <1>3, <3>3
      <4>2. Written[n + 1] = <<"mac", <<1, head>>>>
        BY <1>3, <4>1
      <4>3. stored[n + 1] = Written[n + 1]
        BY <3>1, <4>1
      <4>4. stored[n + 1] = <<"mac", <<1, hashed>>>>
        BY <2>1, <3>2, <4>1
      <4>5. <<"mac", <<1, head>>>> = <<"mac", <<1, hashed>>>>
        BY ONLY <4>2, <4>3, <4>4
      <4>6. <<1, head>> = <<1, hashed>>
        BY ONLY <4>5
      <4> QED BY ONLY <4>6
    <3>5. hashed[k] = <<"junk", 0>> /\ k \in 1 .. n
      <4>1. k \in 1 .. n
        BY <1>1, <1>3, <3>3
      <4>2. stored[k] = hashed[k]
        BY <1>5, <3>2, <4>1
      <4>3. stored[k] = <<"junk", 0>>
        BY <3>1
      <4> QED BY <4>1, <4>2, <4>3
    <3> QED BY <1>4, <3>4, <3>5
  <2> QED BY <2>2, <2>3 DEF FileOK
<1> QED BY <1>7, <1>8 DEF head, cells

LEMMA PackfileOKInit == PackInit => PackInv
<1> SUFFICES ASSUME PackInit PROVE PackInv
  OBVIOUS
<1>1. packfile.blobs = <<>> /\ packfile.index = <<>>
      /\ packfile \in [blobs : Seq(Bytes), index : Seq(Entries)]
  BY DEF PackInit
<1>2. PackfileOK(packfile)
  BY <1>1 DEF PackfileOK
<1>3. FileOK
  BY DEF PackInit, FileOK
<1>4. ReadingOK
  <2>1. <<>> \in Seq(FileCells)
    BY EmptySeq
  <2> QED BY <2>1 DEF PackInit, ReadingOK
<1> QED BY <1>2, <1>3, <1>4 DEF PackInv

LEMMA AddBlobKeeps ==
    ASSUME NEW pack, PackfileOK(pack), NEW mac \in Nat, NEW length \in Nat
    PROVE  PackfileOK(AddBlob(pack, mac, [i \in 1 .. length |-> <<"byte", <<mac, i>>>>]))
<1> DEFINE data  == [i \in 1 .. length |-> <<"byte", <<mac, i>>>>]
           blobs == pack.blobs
           entry == [mac |-> mac, offset |-> Len(blobs), length |-> Len(data)]
           new   == AddBlob(pack, mac, data)
<1>1. /\ blobs \in Seq(Bytes) /\ Len(blobs) \in Nat /\ pack.index \in Seq(Entries)
      /\ Len(pack.index) \in Nat /\ DOMAIN pack.index = 1 .. Len(pack.index)
  BY DEF PackfileOK
<1>2. data \in Seq(Bytes) /\ Len(data) = length /\ \A i \in 1 .. length : data[i] = <<"byte", <<mac, i>>>>
  <2>1. data \in [1 .. length -> Bytes]
    BY DEF Bytes
  <2>2. data \in Seq(Bytes)
    BY <2>1, SeqDef
  <2> QED BY <2>1, <2>2, LenProperties
<1> HIDE DEF data
<1>3. entry \in Entries
  BY <1>1, <1>2 DEF Entries
<1>4. new.blobs = blobs \o data /\ new.index = Append(pack.index, entry)
      /\ new = [blobs |-> blobs \o data, index |-> Append(pack.index, entry)]
  BY DEF AddBlob
<1>5. /\ Append(pack.index, entry) \in Seq(Entries)
      /\ Len(Append(pack.index, entry)) = Len(pack.index) + 1
      /\ \A i \in 1 .. Len(pack.index) : Append(pack.index, entry)[i] = pack.index[i]
      /\ Append(pack.index, entry)[Len(pack.index) + 1] = entry
  BY <1>1, <1>3, AppendProperties
<1>6. /\ blobs \o data \in Seq(Bytes) /\ Len(blobs \o data) = Len(blobs) + length
      /\ \A i \in 1 .. Len(blobs) + length :
            (blobs \o data)[i] = IF i <= Len(blobs) THEN blobs[i] ELSE data[i - Len(blobs)]
  BY <1>1, <1>2, ConcatProperties
<1>7. ASSUME NEW i \in DOMAIN new.index
      PROVE  /\ new.index[i].offset + new.index[i].length <= Len(new.blobs)
             /\ \A j \in 1 .. new.index[i].length :
                   new.blobs[new.index[i].offset + j] = <<"byte", <<new.index[i].mac, j>>>>
  <2>1. i \in 1 .. Len(pack.index) + 1
    <3>1. DOMAIN new.index = 1 .. Len(pack.index) + 1
      BY <1>4, <1>5, LenProperties
    <3> QED BY <3>1
  <2>2. CASE i = Len(pack.index) + 1
    <3>1. new.index[i] = entry
      BY <1>4, <1>5, <2>2
    <3>2. ASSUME NEW j \in 1 .. length PROVE new.blobs[Len(blobs) + j] = <<"byte", <<mac, j>>>>
      <4>1. PICK b \in Nat : b = Len(blobs)
        BY <1>1
      <4>2. b + j \in 1 .. b + length /\ ~ (b + j <= b) /\ b + j - b = j
        OBVIOUS
      <4> QED BY <1>2, <1>4, <1>6, <4>1, <4>2
    <3>3. entry.offset = Len(blobs) /\ entry.length = length /\ entry.mac = mac
      BY <1>2
    <3>4. Len(new.blobs) = Len(blobs) + length
      BY <1>4, <1>6
    <3>5. entry.offset + entry.length <= Len(new.blobs)
      BY <3>3, <3>4
    <3> HIDE DEF new, entry
    <3> QED BY <3>1, <3>2, <3>3, <3>5
  <2>3. CASE i # Len(pack.index) + 1
    <3>1. i \in 1 .. Len(pack.index)
      BY <1>1, <2>1, <2>3
    <3>2. PICK e \in Entries : e = pack.index[i]
      BY <1>1, <3>1, ElementOfSeq
    <3>3. new.index[i] = e
      BY <1>4, <1>5, <3>1, <3>2
    <3>4. e.offset \in Nat /\ e.length \in Nat /\ e.offset + e.length <= Len(blobs)
      BY <1>1, <3>1, <3>2 DEF PackfileOK, Entries
    <3>5. \A j \in 1 .. e.length : blobs[e.offset + j] = <<"byte", <<e.mac, j>>>>
      BY <1>1, <3>1, <3>2 DEF PackfileOK
    <3>6. Len(new.blobs) = Len(blobs) + length
      BY <1>4, <1>6
    <3>7. ASSUME NEW j \in 1 .. e.length PROVE new.blobs[e.offset + j] = blobs[e.offset + j]
      <4> HIDE DEF blobs, new
      <4>1. e.offset + j \in 1 .. Len(blobs) + length /\ e.offset + j <= Len(blobs)
        BY <1>1, <3>4
      <4> QED BY <1>4, <1>6, <4>1
    <3>8. e.offset + e.length <= Len(new.blobs)
      BY <1>1, <3>4, <3>6
    <3> HIDE DEF new, blobs
    <3> QED BY <3>3, <3>5, <3>7, <3>8
  <2> QED BY <2>2, <2>3
<1>8. new \in [blobs : Seq(Bytes), index : Seq(Entries)]
  BY <1>4, <1>5, <1>6
<1> HIDE DEF new
<1>9. PackfileOK(new)
  BY <1>7, <1>8 DEF PackfileOK
<1> QED BY <1>9 DEF new, data

LEMMA NothingStored == PackInv /\ stored = <<>> => harm = "no" /\ reader.at = "idle"
<1> SUFFICES ASSUME PackInv, stored = <<>> PROVE harm = "no" /\ reader.at = "idle"
  OBVIOUS
<1>1. Len(Written) >= 1 /\ Written # <<>> /\ Written \in Seq(FileCells)
  <2>1. /\ Written \in Seq(FileCells) /\ Len(Layout(packfile)) \in Nat
        /\ Len(Written) = 1 + Len(Layout(packfile)) + MACSize
    BY WrittenIs DEF PackInv
  <2>2. Len(Written) >= 1
    BY <2>1, PackfileAssumption
  <2> QED BY <2>1, <2>2
<1>2. ~ \E n \in 1 .. Len(Written) - 1 : stored = SubSeq(Written, 1, n)
  <2> SUFFICES ASSUME NEW n \in 1 .. Len(Written) - 1, stored = SubSeq(Written, 1, n) PROVE FALSE
    OBVIOUS
  <2>1. \A i \in 1 .. n : Written[i] \in FileCells
    BY <1>1, ElementOfSeq
  <2>2. Len(SubSeq(Written, 1, n)) = n
    BY <2>1, SubSeqProperties
  <2> QED BY <2>2
<1>3. ~ \E k \in 1 .. Len(Written) : stored = [Written EXCEPT ![k] = <<"junk", 0>>]
  <2> SUFFICES ASSUME NEW k \in 1 .. Len(Written), stored = [Written EXCEPT ![k] = <<"junk", 0>>] PROVE FALSE
    OBVIOUS
  <2>1. <<"junk", 0>> \in FileCells
    BY DEF FileCells
  <2>2. Len([Written EXCEPT ![k] = <<"junk", 0>>]) = Len(Written)
    BY <1>1, <2>1, ExceptSeq
  <2> QED BY <1>1, <2>2
<1>4. harm = "no" /\ reader.at = "idle"
  BY <1>1, <1>2, <1>3 DEF PackInv, FileOK
<1> QED BY <1>4

LEMMA PackStep == PackInv /\ Pack => PackInv'
<1> SUFFICES ASSUME PackInv, Pack PROVE PackInv'
  OBVIOUS
<1>1. PICK length \in 0 .. MaxLength :
         packfile' = AddBlob(packfile, Len(packfile.index) + 1,
                             [i \in 1 .. length |-> <<"byte", <<Len(packfile.index) + 1, i>>>>])
  BY DEF Pack
<1>2. stored = <<>> /\ stored' = stored /\ harm' = harm /\ reader' = reader
  BY DEF Pack
<1>3. PackfileOK(packfile)'
  <2>1. Len(packfile.index) + 1 \in Nat /\ length \in Nat
    BY PackfileAssumption DEF PackInv, PackfileOK
  <2>2. PICK mac \in Nat : mac = Len(packfile.index) + 1
    BY <2>1
  <2>3. PackfileOK(AddBlob(packfile, mac, [i \in 1 .. length |-> <<"byte", <<mac, i>>>>]))
    BY <2>1, AddBlobKeeps DEF PackInv
  <2>4. PackfileOK(packfile')
    BY <1>1, <2>2, <2>3
  <2> QED BY <2>4 DEF PackfileOK
<1>4. harm = "no" /\ reader.at = "idle"
  BY <1>2, NothingStored
<1>5. FileOK'
  BY <1>2, <1>4 DEF FileOK
<1>6. ReadingOK'
  BY <1>2 DEF PackInv, ReadingOK
<1> QED BY <1>3, <1>5, <1>6 DEF PackInv

LEMMA PutStep == PackInv /\ PutPackfile => PackInv'
<1> SUFFICES ASSUME PackInv, PutPackfile PROVE PackInv'
  OBVIOUS
<1>1. packfile' = packfile /\ harm' = harm /\ reader' = reader /\ stored = <<>> /\ stored' = Written
  BY DEF PutPackfile, Written
<1>2. harm = "no" /\ reader.at = "idle"
  BY <1>1, NothingStored
<1>3. Written' = Written /\ PackfileOK(packfile)'
  BY <1>1 DEF Written, PackInv, PackfileOK
<1>4. FileOK'
  BY <1>1, <1>2, <1>3 DEF FileOK
<1>5. ReadingOK'
  BY <1>1, <1>2 DEF PackInv, ReadingOK
<1> QED BY <1>3, <1>4, <1>5 DEF PackInv

LEMMA DamageStep == PackInv /\ Damage => PackInv'
<1> SUFFICES ASSUME PackInv, Damage PROVE PackInv'
  OBVIOUS
<1>1. packfile' = packfile /\ reader' = reader /\ stored # <<>> /\ harm = "no" /\ reader.at = "idle"
  BY DEF Damage
<1>2. stored = Written
  BY <1>1 DEF PackInv, FileOK
<1>3. Written' = Written /\ PackfileOK(packfile)'
  BY <1>1 DEF Written, PackInv, PackfileOK
<1>4. DOMAIN stored = 1 .. Len(Written)
  BY <1>2, WrittenIs, LenProperties DEF PackInv
<1>5. FileOK'
  <2>1. ASSUME NEW n \in 1 .. Len(stored) - 1, stored' = SubSeq(stored, 1, n), harm' = "cut" PROVE FileOK'
    <3>1. \E m \in 1 .. Len(Written) - 1 : stored' = SubSeq(Written, 1, m)
      BY <1>2, <2>1
    <3> QED BY <1>3, <2>1, <3>1 DEF FileOK
  <2>2. ASSUME NEW i \in DOMAIN stored, stored' = [stored EXCEPT ![i] = <<"junk", 0>>], harm' = "flipped"
        PROVE  FileOK'
    <3>1. \E k \in 1 .. Len(Written) : stored' = [Written EXCEPT ![k] = <<"junk", 0>>]
      BY <1>2, <1>4, <2>2
    <3> QED BY <1>3, <2>2, <3>1 DEF FileOK
  <2> QED BY <2>1, <2>2 DEF Damage
<1>6. ReadingOK'
  BY <1>1 DEF PackInv, ReadingOK
<1> QED BY <1>3, <1>5, <1>6 DEF PackInv

\* What is taken from the front of a sequence and put behind another is lost to neither.
LEMMA Moved ==
    \A a, c \in Seq(FileCells) : \A n \in 0 .. Len(c) :
           /\ SubSeq(c, 1, n) \in Seq(FileCells) /\ SubSeq(c, n + 1, Len(c)) \in Seq(FileCells)
           /\ a \o SubSeq(c, 1, n) \in Seq(FileCells)
           /\ Len(a \o SubSeq(c, 1, n)) = Len(a) + n
           /\ Len(SubSeq(c, n + 1, Len(c))) = Len(c) - n
           /\ (a \o SubSeq(c, 1, n)) \o SubSeq(c, n + 1, Len(c)) = a \o c
<1> TAKE a, c \in Seq(FileCells)
<1> TAKE n \in 0 .. Len(c)
<1>1. Len(c) \in Nat /\ Len(a) \in Nat /\ \A i \in 1 .. Len(c) : c[i] \in FileCells
  OBVIOUS
<1>2. SubSeq(c, 1, n) \in Seq(FileCells) /\ Len(SubSeq(c, 1, n)) = n
  <2>1. \A i \in 1 .. n : c[i] \in FileCells
    BY <1>1
  <2> QED BY <1>1, <2>1, SubSeqProperties
<1>3. SubSeq(c, n + 1, Len(c)) \in Seq(FileCells) /\ Len(SubSeq(c, n + 1, Len(c))) = Len(c) - n
  <2>1. \A i \in n + 1 .. Len(c) : c[i] \in FileCells
    BY <1>1
  <2>2. /\ SubSeq(c, n + 1, Len(c)) \in Seq(FileCells)
        /\ Len(SubSeq(c, n + 1, Len(c))) = IF n + 1 <= Len(c) THEN Len(c) - (n + 1) + 1 ELSE 0
    BY <1>1, <2>1, SubSeqProperties
  <2> QED BY <1>1, <2>2
<1>4. SubSeq(c, 1, n) \o SubSeq(c, n + 1, Len(c)) = c
  <2>1. 1 \in 1 .. Len(c) + 1 /\ n \in 1 - 1 .. Len(c) /\ Len(c) \in n .. Len(c)
    BY <1>1
  <2> QED BY <2>1, ConcatAdjacentSubSeq, SubSeqFull
<1>5. (a \o SubSeq(c, 1, n)) \o SubSeq(c, n + 1, Len(c)) = a \o c
  <2> DEFINE t == SubSeq(c, 1, n)
             u == SubSeq(c, n + 1, Len(c))
  <2>1. t \in Seq(FileCells) /\ u \in Seq(FileCells) /\ t \o u = c
    BY <1>2, <1>3, <1>4
  <2> HIDE DEF t, u
  <2>2. \A x, y \in Seq(FileCells) : (a \o x) \o y = a \o (x \o y)
    BY ConcatAssociative
  <2>3. (a \o t) \o u = a \o (t \o u)
    BY <2>1, <2>2
  <2> QED BY <2>1, <2>3 DEF t, u
<1> QED BY <1>1, <1>2, <1>3, <1>5, ConcatProperties

LEMMA DeserializeStep == PackInv /\ Deserialize => PackInv'
<1> SUFFICES ASSUME PackInv, Deserialize PROVE PackInv'
  OBVIOUS
<1>1. packfile' = packfile /\ stored' = stored /\ harm' = harm /\ stored # <<>>
  BY DEF Deserialize
<1>2. Written' = Written /\ PackfileOK(packfile)'
  BY <1>1 DEF Written, PackInv, PackfileOK
<1>3. FileOK'
  BY <1>1, <1>2 DEF PackInv, FileOK
<1>4. stored \in Seq(FileCells)
  BY WrittenIs DEF PackInv
<1>5. CASE stored[1] = Header
  <2>1. reader' = [at |-> "reading", left |-> <<>>, rest |-> Tail(stored), hashed |-> <<Header>>]
    BY <1>5 DEF Deserialize
  <2>2. <<Header>> \in Seq(FileCells) /\ Len(<<Header>>) = 1 /\ Tail(stored) \in Seq(FileCells)
        /\ <<>> \in Seq(FileCells)
    <3>1. Header \in FileCells
      BY DEF FileCells, Cells
    <3> QED BY <1>1, <1>4, <3>1, HeadTailProperties, EmptySeq
  <2>3. <<Header>> \o Tail(stored) = stored
    <3>1. Len(stored) \in Nat /\ Len(stored) >= 1
      BY <1>1, <1>4, EmptySeq
    <3>2. 1 \in 1 .. Len(stored) /\ Len(stored) \in 1 .. Len(stored)
      BY <3>1
    <3>3. SubSeq(stored, 1, Len(stored)) = <<stored[1]>> \o SubSeq(stored, 1 + 1, Len(stored))
      BY <1>4, <3>2, SubSeqRecursiveFirst
    <3>4. SubSeq(stored, 1, Len(stored)) = stored /\ Tail(stored) = SubSeq(stored, 2, Len(stored))
      BY <1>1, <1>4, SubSeqFull, TailIsSubSeq
    <3> QED BY <1>5, <3>3, <3>4
  <2>4. (<<Header>> \o <<>>) \o Tail(stored) = stored
    BY <2>2, <2>3, ConcatEmptySeq
  <2>5. ReadingOK'
    BY <1>1, <2>1, <2>2, <2>4 DEF ReadingOK
  <2> QED BY <1>2, <1>3, <2>5 DEF PackInv
<1>6. CASE stored[1] # Header
  <2>1. reader' = [reader EXCEPT !.at = "error"]
    BY <1>6 DEF Deserialize
  <2>2. harm # "no"
    <3> SUFFICES ASSUME harm = "no" PROVE FALSE
      OBVIOUS
    <3>1. stored = Written
      BY <1>1 DEF PackInv, FileOK
    <3>2. Layout(packfile) \in Seq(Cells)
      BY WrittenIs DEF PackInv
    <3> QED BY <1>6, <3>1, <3>2, SerializeIs DEF Written
  <2>3. ReadingOK'
    BY <1>1, <2>1, <2>2 DEF PackInv, ReadingOK
  <2> QED BY <1>2, <1>3, <2>3 DEF PackInv
<1> QED BY <1>5, <1>6

\* What is handed on is there, and a MAC is kept back of it, if it is anything.
LEMMA FlushedIs ==
    ASSUME NEW n \in Nat, NEW f \in Flushed(n)
    PROVE  f \in 0 .. n /\ (f <= n - MACSize \/ f = 0)
BY PackfileAssumption DEF Flushed, Kept

LEMMA ReadStep == PackInv /\ Read => PackInv'
<1> SUFFICES ASSUME PackInv, Read PROVE PackInv'
  OBVIOUS
<1>1. packfile' = packfile /\ stored' = stored /\ harm' = harm /\ reader.at = "reading"
  BY DEF Read
<1>2. Written' = Written /\ PackfileOK(packfile)'
  BY <1>1 DEF Written, PackInv, PackfileOK
<1>3. PICK n \in 0 .. Min({ChunkSize, Len(reader.rest)}) :
        LET ahead == reader.left \o SubSeq(reader.rest, 1, n)
            rest == SubSeq(reader.rest, n + 1, Len(reader.rest))
        IN  \E f \in Flushed(Len(ahead)) :
               LET hashed == reader.hashed \o SubSeq(ahead, 1, f)
                   last   == SubSeq(ahead, f + 1, Len(ahead))
               IN  reader' =
                     [at |-> IF ~ (rest = <<>>) THEN "reading"
                             ELSE IF Len(last) < MACSize THEN "spinning"
                             ELSE IF Len(last) > MACSize THEN "reading"
                             ELSE IF last = MAC(hashed) THEN "done" ELSE "error",
                      left |-> last, rest |-> rest, hashed |-> hashed]
  BY DEF Read
<1> DEFINE ahead == reader.left \o SubSeq(reader.rest, 1, n)
           rest == SubSeq(reader.rest, n + 1, Len(reader.rest))
<1>4. /\ reader.left \in Seq(FileCells) /\ reader.rest \in Seq(FileCells) /\ reader.hashed \in Seq(FileCells)
      /\ stored # <<>> /\ (reader.hashed \o reader.left) \o reader.rest = stored
      /\ Len(reader.hashed) >= 1 /\ (Len(reader.hashed) > 1 => Len(reader.left) >= MACSize)
      /\ FileOK /\ PackfileOK(packfile)
  BY <1>1 DEF PackInv, ReadingOK
<1>5. n \in 0 .. Len(reader.rest) /\ n \in Nat
  <2>1. Len(reader.rest) \in Nat /\ ChunkSize \in Nat
    BY <1>4, LenProperties, PackfileAssumption
  <2>2. /\ Min({ChunkSize, Len(reader.rest)}) \in Nat
        /\ Min({ChunkSize, Len(reader.rest)}) <= Len(reader.rest)
    <3>1. {ChunkSize, Len(reader.rest)} \subseteq Nat /\ {ChunkSize, Len(reader.rest)} # {}
      BY <2>1
    <3>2. /\ Min({ChunkSize, Len(reader.rest)}) \in {ChunkSize, Len(reader.rest)}
          /\ \A y \in {ChunkSize, Len(reader.rest)} : Min({ChunkSize, Len(reader.rest)}) <= y
      BY <3>1, MinIs
    <3> QED BY <3>1, <3>2
  <2> QED BY <2>1, <2>2
<1>6. /\ ahead \in Seq(FileCells) /\ rest \in Seq(FileCells) /\ Len(ahead) = Len(reader.left) + n
      /\ ahead \o rest = reader.left \o reader.rest
  <2>1. PICK c \in Seq(FileCells), m \in Nat : c = reader.rest /\ m = n /\ m \in 0 .. Len(c)
    BY <1>4, <1>5
  <2>2. PICK a \in Seq(FileCells) : a = reader.left
    BY <1>4
  <2>3. /\ SubSeq(c, m + 1, Len(c)) \in Seq(FileCells) /\ a \o SubSeq(c, 1, m) \in Seq(FileCells)
        /\ Len(a \o SubSeq(c, 1, m)) = Len(a) + m
        /\ (a \o SubSeq(c, 1, m)) \o SubSeq(c, m + 1, Len(c)) = a \o c
    BY <2>1, Moved
  <2> QED BY <2>1, <2>2, <2>3
<1>7. PICK f \in 0 .. Len(ahead) :
        /\ f <= Len(ahead) - MACSize \/ f = 0
        /\ LET hashed == reader.hashed \o SubSeq(ahead, 1, f)
               last   == SubSeq(ahead, f + 1, Len(ahead))
           IN  reader' =
                     [at |-> IF ~ (rest = <<>>) THEN "reading"
                             ELSE IF Len(last) < MACSize THEN "spinning"
                             ELSE IF Len(last) > MACSize THEN "reading"
                             ELSE IF last = MAC(hashed) THEN "done" ELSE "error",
                      left |-> last, rest |-> rest, hashed |-> hashed]
  <2>1. Len(ahead) \in Nat
    BY <1>6, LenProperties
  <2> QED BY <1>3, <2>1, FlushedIs
<1> DEFINE hashed == reader.hashed \o SubSeq(ahead, 1, f)
           last   == SubSeq(ahead, f + 1, Len(ahead))
<1>8. reader' = [at |-> IF ~ (rest = <<>>) THEN "reading"
                        ELSE IF Len(last) < MACSize THEN "spinning"
                        ELSE IF Len(last) > MACSize THEN "reading"
                        ELSE IF last = MAC(hashed) THEN "done" ELSE "error",
                 left |-> last, rest |-> rest, hashed |-> hashed]
  BY <1>7
<1> HIDE DEF ahead, rest
<1>9. /\ hashed \in Seq(FileCells) /\ last \in Seq(FileCells)
      /\ Len(hashed) = Len(reader.hashed) + f /\ Len(last) = Len(ahead) - f
      /\ hashed \o last = reader.hashed \o ahead
  <2>1. PICK c \in Seq(FileCells), m \in 0 .. Len(ahead) : c = ahead /\ m = f
    BY <1>6
  <2>2. PICK a \in Seq(FileCells) : a = reader.hashed
    BY <1>4
  <2>3. m \in 0 .. Len(c)
    BY <2>1
  <2>4. /\ SubSeq(c, m + 1, Len(c)) \in Seq(FileCells) /\ a \o SubSeq(c, 1, m) \in Seq(FileCells)
        /\ Len(a \o SubSeq(c, 1, m)) = Len(a) + m /\ Len(SubSeq(c, m + 1, Len(c))) = Len(c) - m
        /\ (a \o SubSeq(c, 1, m)) \o SubSeq(c, m + 1, Len(c)) = a \o c
    BY <2>3, Moved
  <2> QED BY <2>1, <2>2, <2>4
<1> HIDE DEF hashed, last
<1>10. (hashed \o last) \o rest = stored
  <2>1. \A s, t, u \in Seq(FileCells) : (s \o t) \o u = s \o (t \o u)
    BY ConcatAssociative
  <2>2. (hashed \o last) \o rest = reader.hashed \o (ahead \o rest)
    <3>1. (reader.hashed \o ahead) \o rest = reader.hashed \o (ahead \o rest)
      BY <1>4, <1>6, <2>1
    <3> QED BY <1>9, <3>1
  <2>3. reader.hashed \o (reader.left \o reader.rest) = stored
    BY <1>4, <2>1
  <2> QED BY <1>6, <2>2, <2>3
<1>11. /\ Len(hashed) >= 1 /\ (Len(hashed) > 1 => Len(last) >= MACSize)
       /\ Len(last) \in Nat
  <2>1. /\ Len(reader.hashed) \in Nat /\ Len(reader.left) \in Nat /\ Len(ahead) \in Nat /\ MACSize \in Nat
        /\ Len(last) \in Nat
    BY <1>4, <1>6, <1>9, LenProperties, PackfileAssumption
  <2>2. f <= Len(ahead) - MACSize \/ f = 0
    BY <1>7
  <2> QED BY <1>4, <1>5, <1>6, <1>9, <2>1, <2>2
<1>12. MACSize \in Nat
  BY PackfileAssumption
<1>13. rest = <<>> => hashed \o last = stored
  BY <1>9, <1>10, ConcatProperties, ConcatEmptySeq
<1>14. rest = <<>> /\ Len(last) = MACSize /\ last # MAC(hashed) => harm # "no"
  BY <1>4, <1>9, <1>11, <1>13, MACTells
<1>15. ReadingOK'
  <2>1. /\ reader'.left = last /\ reader'.rest = rest /\ reader'.hashed = hashed
        /\ reader' \in [at : {"idle", "reading", "done", "spinning", "error"}, left : Seq(FileCells),
                        rest : Seq(FileCells), hashed : Seq(FileCells)]
        /\ reader'.at # "idle"
    BY <1>8, <1>6, <1>9
  <2>2. /\ reader'.at \in {"done", "spinning", "error"} => rest = <<>>
        /\ reader'.at = "done" => last = MAC(hashed)
        /\ reader'.at = "spinning" => Len(last) < MACSize
        /\ reader'.at = "error" => Len(last) = MACSize /\ last # MAC(hashed)
    BY <1>8, <1>11, <1>12
  <2> QED BY <1>1, <1>4, <1>10, <1>11, <1>14, <2>1, <2>2 DEF ReadingOK
<1>16. FileOK'
  BY <1>1, <1>2, <1>4 DEF FileOK
<1> QED BY <1>2, <1>15, <1>16 DEF PackInv

LEMMA PackStepKeeps == PackInv /\ [PackNext]_packVars => PackInv'
<1> SUFFICES ASSUME PackInv, [PackNext]_packVars PROVE PackInv'
  OBVIOUS
<1>1. CASE Pack
  BY <1>1, PackStep
<1>2. CASE PutPackfile
  BY <1>2, PutStep
<1>3. CASE Damage
  BY <1>3, DamageStep
<1>4. CASE Deserialize
  BY <1>4, DeserializeStep
<1>5. CASE Read
  BY <1>5, ReadStep
<1>6. CASE UNCHANGED packVars
  <2>1. packfile' = packfile /\ stored' = stored /\ harm' = harm /\ reader' = reader
    BY <1>6 DEF packVars
  <2>2. Written' = Written
    BY <2>1 DEF Written
  <2>3. PackfileOK(packfile)' /\ FileOK'
    BY <2>1, <2>2 DEF PackInv, PackfileOK, FileOK
  <2>4. ReadingOK'
    BY <2>1 DEF PackInv, ReadingOK
  <2> QED BY <2>3, <2>4 DEF PackInv
<1> QED BY <1>1, <1>2, <1>3, <1>4, <1>5, <1>6 DEF PackNext

\* The bytes at a location of the index are those of its blob.
LEMMA BlobsReadBack ==
    ASSUME PackfileOK(packfile), stored = Written, NEW k \in DOMAIN packfile.index
    PROVE  LET data == GetPackfileBlob(stored, packfile.index[k])
           IN  /\ Len(data) = packfile.index[k].length
               /\ \A j \in DOMAIN data : data[j] = <<"byte", <<packfile.index[k].mac, j>>>>
<1> DEFINE cells == Layout(packfile)
           blobs == packfile.blobs
<1>1. PICK e \in Entries : e = packfile.index[k]
  <2>1. packfile.index \in Seq(Entries)
    BY DEF PackfileOK
  <2> QED BY <2>1, LenProperties, ElementOfSeq
<1>2. /\ e.offset \in Nat /\ e.length \in Nat /\ e.offset + e.length <= Len(blobs)
      /\ \A j \in 1 .. e.length : blobs[e.offset + j] = <<"byte", <<e.mac, j>>>>
  BY <1>1 DEF PackfileOK, Entries
<1>3. /\ cells \in Seq(Cells) /\ Len(blobs) <= Len(cells) /\ Len(cells) \in Nat /\ Len(blobs) \in Nat
      /\ \A i \in 1 .. Len(blobs) : cells[i] = blobs[i]
  <2>1. blobs \in Seq(Bytes)
    BY DEF PackfileOK
  <2> QED BY <2>1, LayoutIs
<1> HIDE DEF cells, blobs
<1>4. /\ stored \in Seq(FileCells) /\ Len(stored) = 1 + Len(cells) + MACSize
      /\ \A i \in 1 .. Len(cells) : stored[1 + i] = cells[i]
  BY <1>3, SerializeIs DEF Written, cells
<1>5. MACSize \in Nat
  BY PackfileAssumption
<1> DEFINE m == 1 + e.offset + 1
           n == 1 + e.offset + e.length
<1>6. m \in Int /\ n \in Int /\ n - m + 1 = e.length /\ (m <= n <=> e.length # 0)
  BY <1>2
<1>7. \A i \in m .. n : stored[i] \in FileCells
  <2>1. \A i \in m .. n : i \in 1 .. Len(stored)
    BY <1>2, <1>3, <1>4, <1>5
  <2> QED BY <1>4, <2>1, ElementOfSeq
<1> HIDE DEF m, n
<1> DEFINE data == SubSeq(stored, m, n)
<1>8. /\ data \in Seq(FileCells) /\ Len(data) = e.length
      /\ \A j \in 1 .. e.length : data[j] = stored[m + j - 1]
  <2>1. /\ data \in Seq(FileCells) /\ Len(data) = IF m <= n THEN n - m + 1 ELSE 0
        /\ \A j \in 1 .. n - m + 1 : data[j] = stored[m + j - 1]
    BY <1>6, <1>7, SubSeqProperties
  <2> HIDE DEF data
  <2> QED BY <1>2, <1>6, <2>1
<1> HIDE DEF data
<1>9. ASSUME NEW j \in 1 .. e.length PROVE data[j] = <<"byte", <<e.mac, j>>>>
  <2>1. /\ m + j - 1 = 1 + (e.offset + j) /\ e.offset + j \in 1 .. Len(blobs)
        /\ e.offset + j \in 1 .. Len(cells)
    BY <1>2, <1>3 DEF m
  <2>2. stored[1 + (e.offset + j)] = blobs[e.offset + j]
    BY <1>3, <1>4, <2>1
  <2> QED BY <1>2, <1>8, <2>1, <2>2
<1>10. DOMAIN data = 1 .. e.length
  BY <1>8, LenProperties
<1>11. GetPackfileBlob(stored, packfile.index[k]) = data
  BY <1>1 DEF GetPackfileBlob, data, m, n
<1> QED BY <1>1, <1>8, <1>9, <1>10, <1>11

LEMMA PackInvReadsBack == PackInv => ReadBack
<1> SUFFICES ASSUME PackInv PROVE ReadBack
  OBVIOUS
<1>1. PackfileOK(packfile) /\ FileOK /\ ReadingOK
  BY DEF PackInv
<1>2. /\ reader.left \in Seq(FileCells) /\ reader.rest \in Seq(FileCells) /\ reader.hashed \in Seq(FileCells)
      /\ Len(reader.left) \in Nat /\ Len(reader.hashed) \in Nat
      /\ MACSize \in Nat /\ MACSize >= 1
  <2>1. /\ reader.left \in Seq(FileCells) /\ reader.rest \in Seq(FileCells)
        /\ reader.hashed \in Seq(FileCells)
    BY <1>1 DEF ReadingOK
  <2> QED BY <2>1, LenProperties, PackfileAssumption
<1>3. /\ Written \in Seq(FileCells) /\ Layout(packfile) \in Seq(Cells) /\ Len(Layout(packfile)) \in Nat
      /\ Len(Written) = 1 + Len(Layout(packfile)) + MACSize
  BY <1>1, WrittenIs
<1>4. ASSUME reader.at \in {"done", "spinning"}
      PROVE  /\ reader.hashed \o reader.left = stored /\ stored # <<>> /\ Len(reader.hashed) >= 1
             /\ Len(stored) = Len(reader.hashed) + Len(reader.left)
  <2>1. /\ (reader.hashed \o reader.left) \o <<>> = stored /\ stored # <<>> /\ Len(reader.hashed) >= 1
    BY <1>1, <1>4 DEF ReadingOK
  <2>2. /\ reader.hashed \o reader.left \in Seq(FileCells)
        /\ Len(reader.hashed \o reader.left) = Len(reader.hashed) + Len(reader.left)
    BY <1>2, ConcatProperties
  <2> QED BY <2>1, <2>2, ConcatEmptySeq
<1>5. ASSUME reader.at = "done"
      PROVE  /\ harm = "no" /\ GetPackfile(Tail(reader.hashed)) = {packfile}
             /\ NewFromBytes(Plain(packfile)) = {packfile}
             /\ \A i \in DOMAIN packfile.index :
                   LET data == GetPackfileBlob(stored, packfile.index[i])
                   IN  /\ Len(data) = packfile.index[i].length
                       /\ \A j \in DOMAIN data : data[j] = <<"byte", <<packfile.index[i].mac, j>>>>
  <2>1. reader.left = MAC(reader.hashed) /\ Len(MAC(reader.hashed)) = MACSize
    BY <1>1, <1>2, <1>5, MACIs DEF ReadingOK
  <2>2. harm = "no" /\ reader.hashed = <<Header>> \o Layout(packfile)
    BY <1>1, <1>2, <1>4, <1>5, <2>1, MACTells
  <2>3. Tail(reader.hashed) = Layout(packfile)
    <3> DEFINE cells == Layout(packfile)
               u == <<Header>> \o cells
    <3>1. /\ <<Header>> \in Seq(Cells) /\ Len(<<Header>>) = 1 /\ cells \in Seq(Cells)
      BY <1>3 DEF Cells
    <3> HIDE DEF cells
    <3>2. SubSeq(u, Len(<<Header>>) + 1, Len(u)) = cells
      BY <3>1, Parts
    <3>3. u \in Seq(Cells) /\ Len(u) >= 1
      <4>1. u \in Seq(Cells) /\ Len(u) = Len(<<Header>>) + Len(cells)
        BY <3>1, ConcatProperties
      <4>2. Len(cells) \in Nat
        BY <3>1
      <4> HIDE DEF u
      <4> QED BY <3>1, <4>1, <4>2
    <3> HIDE DEF u
    <3>4. Tail(u) = SubSeq(u, 2, Len(u))
      <4>1. u # <<>>
        BY <3>3
      <4> QED BY <3>3, <4>1, TailIsSubSeq
    <3>5. Tail(u) = cells
      BY <3>1, <3>2, <3>4
    <3> QED BY <2>2, <3>5 DEF u, cells
  <2>4. stored = Written
    BY <1>1, <1>4, <1>5, <2>2 DEF FileOK
  <2>5. GetPackfile(Layout(packfile)) = {packfile}
    BY <1>1, LayoutIs
  <2> QED BY <1>1, <2>2, <2>3, <2>4, <2>5, PlainReadsBack, BlobsReadBack
<1>6. reader.at = "error" => harm # "no"
  BY <1>1 DEF ReadingOK
<1>7. ASSUME reader.at = "spinning" PROVE harm = "cut" /\ Len(stored) <= MACSize
  <2> DEFINE h == Len(reader.hashed)
             l == Len(reader.left)
  <2>0. h >= 1 /\ Len(stored) = h + l /\ h \in Nat /\ l \in Nat
    BY <1>2, <1>4, <1>7
  <2>1. l < MACSize /\ (h > 1 => l >= MACSize)
    BY <1>1, <1>7 DEF ReadingOK
  <2>2. Len(stored) <= MACSize
    <3> HIDE DEF h, l
    <3> QED BY <1>2, <2>0, <2>1
  <2>3. Len(stored) < Len(Written)
    <3> HIDE DEF h, l
    <3>1. Len(stored) \in Nat
      BY <2>0
    <3> QED BY <1>2, <1>3, <2>2, <3>1
  <2>4. stored # Written
    <3> SUFFICES ASSUME stored = Written PROVE FALSE
      OBVIOUS
    <3>1. Len(Written) \in Nat /\ Len(Written) < Len(Written)
      BY <1>3, <2>3
    <3> QED BY <3>1
  <2>5. ~ \E k \in 1 .. Len(Written) : stored = [Written EXCEPT ![k] = <<"junk", 0>>]
    <3> SUFFICES ASSUME NEW k \in 1 .. Len(Written), stored = [Written EXCEPT ![k] = <<"junk", 0>>] PROVE FALSE
      OBVIOUS
    <3>1. <<"junk", 0>> \in FileCells
      BY DEF FileCells
    <3>2. Len([Written EXCEPT ![k] = <<"junk", 0>>]) = Len(Written)
      BY <1>3, <3>1, ExceptSeq
    <3>3. Len(Written) \in Nat /\ Len(Written) < Len(Written)
      BY <1>3, <2>3, <3>2
    <3> QED BY <3>3
  <2> QED BY <1>1, <1>4, <1>7, <2>2, <2>4, <2>5 DEF FileOK
<1> QED BY <1>5, <1>6, <1>7 DEF ReadBack

\* A packfile that is read to its end without an error is the one that was written,
\* whatever happened to the file and however little of it comes at once: the MAC and the
\* layout tell.  An error is due to harm, and the reader goes round for ever only in a
\* file cut to less than a MAC (deserializeReader.Read, GetPackfile, GetPackfileBlob).
THEOREM PackfilesReadBack == PackSpec => []ReadBack
<1>1. PackInit => PackInv
  BY PackfileOKInit
<1>2. PackInv /\ [PackNext]_packVars => PackInv'
  BY PackStepKeeps
<1>3. PackInv => ReadBack
  BY PackInvReadsBack
<1> QED BY <1>1, <1>2, <1>3, PTL DEF PackSpec

-----------------------------------------------------------------------------
\* The types of what a client's status depends on.
AgentTypeOK ==
    /\ client \in [Clients -> {"idle", "dialing", "greeting", "sending", "waiting",
                               "reopening", Running, "ended", "killed"}]
    /\ status \in [Clients -> {0, 1}]
    /\ conn \in [Clients -> {"none", "open", "exit", "eof", "reset"}]
    /\ srv \in [Clients -> {"none", "accepted", "greeted", "received", Running,
                            "draining", "ended"}]
    /\ done \in [Clients -> Results \cup {"no", "cut"}]

\* What is served has been sent, and who has sent a command only waits for its end.
Served == \A c \in Clients :
    /\ srv[c] \in {"received", Running, "draining"} => c \in sent
    /\ c \in sent => client[c] \in {"waiting", "ended", "killed"}

\* A connection that ended has a handler that did, and is all a client ends on.
Connected == \A c \in Clients :
    /\ conn[c] \in {"exit", "eof", "reset"} => srv[c] = "ended"
    /\ conn[c] = "none" <=> srv[c] = "none"
    /\ conn[c] = "reset" => c \in sent
    /\ client[c] \in {"greeting", "sending", "waiting"} => conn[c] # "none"
    /\ client[c] = "ended" /\ c \in sent => conn[c] \in {"exit", "eof", "reset"}

\* Nothing is done before the handler runs the command, or the client ends; what the
\* agent tells of has come to its end.
Undone == \A c \in Clients :
    /\ c \notin sent /\ client[c] # "ended" => done[c] = "no"
    /\ c \in sent /\ srv[c] \in {"accepted", "greeted", "received", Running} => done[c] = "no"
    /\ srv[c] = "draining" \/ conn[c] = "exit" => done[c] \in Results
    /\ conn[c] = "reset" => done[c] # "ok"

AgentInv == AgentTypeOK /\ Served /\ Connected /\ Undone /\ StatusTells

LEMMA AgentInvInit == AgentInit => AgentInv
BY DEF AgentInit, AgentInv, AgentTypeOK, Served, Connected, Undone, StatusTells, Running, Results

\* What a client does.
LEMMA ClientStepInv ==
    ASSUME AgentInv, NEW c \in Clients,
           OpenCache(c) \/ NoAgent(c) \/ ClientStep(c) \/ Kill(c)
    PROVE  AgentInv'
<1> USE DEF AgentInv, AgentTypeOK, Served, Connected, Undone, StatusTells, Running, Results,
            Becomes, Serves, Answer, End, Release, clientVars, srvVars
<1>1. CASE OpenCache(c)
  BY <1>1 DEF OpenCache
<1>2. CASE NoAgent(c)
  BY <1>2 DEF NoAgent
<1>3. CASE Dial(c)
  BY <1>3 DEF Dial, RetryAgentless
<1>4. CASE Handshake(c)
  BY <1>4 DEF Handshake, RetryAgentless
<1>5. CASE EncodeRPC(c)
  BY <1>5 DEF EncodeRPC
<1>6. CASE SendCommand(c)
  BY <1>6 DEF SendCommand, StatusOfAnswer
<1>7. CASE Reopen(c)
  BY <1>7 DEF Reopen
<1>8. CASE ExecuteHere(c)
  BY <1>8 DEF ExecuteHere
<1>9. CASE Kill(c)
  BY <1>9 DEF Kill
<1> QED BY <1>1, <1>2, <1>3, <1>4, <1>5, <1>6, <1>7, <1>8, <1>9 DEF ClientStep

\* What a handler does.
LEMMA HandleInv ==
    ASSUME AgentInv, NEW c \in Clients, Handle(c)
    PROVE  AgentInv'
<1> USE DEF AgentInv, AgentTypeOK, Served, Connected, Undone, StatusTells, Running, Results,
            Serves, Answer, Hangup, clientVars, srvVars
<1>1. CASE Greet(c)
  BY <1>1 DEF Greet
<1>2. CASE DecodeRPC(c)
  BY <1>2 DEF DecodeRPC
<1>3. CASE OpenRepository(c)
  BY <1>3 DEF OpenRepository
<1>4. CASE ExecuteThere(c)
  BY <1>4 DEF ExecuteThere
<1>5. CASE Exit(c)
  BY <1>5 DEF Exit
<1>6. CASE SendEvent(c) \/ Forward(c)
  BY <1>6 DEF SendEvent, Forward
<1> QED BY <1>1, <1>2, <1>3, <1>4, <1>5, <1>6 DEF Handle

\* The process of the agent ends, wherever its handlers are.
LEMMA ProcessEndsInv ==
    ASSUME AgentInv, ProcessEnds
    PROVE  AgentInv'
<1> USE DEF AgentInv, ProcessEnds, clientVars, Running
<1>1. AgentTypeOK'
  BY DEF AgentTypeOK
<1>2. Served'
  BY DEF AgentTypeOK, Served
<1>3. Connected'
  BY DEF AgentTypeOK, Served, Connected
<1>4. Undone'
  BY DEF AgentTypeOK, Served, Connected, Undone
<1>5. StatusTells'
  BY DEF AgentTypeOK, Served, Connected, Undone, StatusTells, Results
<1> QED BY <1>1, <1>2, <1>3, <1>4, <1>5

\* The command of a client that fails was not done to its end, and that of one that
\* succeeds was, unless its connection ended without a word about it (agent.go:100) or
\* it failed with a status and no error, which ExecuteRPC drops (agent.go:54).
THEOREM StatusIsTrue == AgentSpec => []StatusTells
<1>1. AgentInv /\ [AgentNext]_agentVars => AgentInv'
  <2> SUFFICES ASSUME AgentInv, [AgentNext]_agentVars PROVE AgentInv'
    OBVIOUS
  <2>1. CASE AgentStop \/ AcceptFails
    BY <2>1, ProcessEndsInv DEF AgentStop, AcceptFails
  <2>2. CASE Launch \/ ListenAndServe \/ TaskOpens \/ UNCHANGED agentVars
    BY <2>2 DEF Launch, ListenAndServe, TaskOpens, agentVars, clientVars, srvVars, AgentInv,
                AgentTypeOK, Served, Connected, Undone, StatusTells
  <2> QED BY <2>1, <2>2, ClientStepInv, HandleInv DEF AgentNext
<1>2. AgentInv => StatusTells
  BY DEF AgentInv
<1> QED BY <1>1, <1>2, AgentInvInit, PTL DEF AgentSpec

-----------------------------------------------------------------------------
\* Scheduler: any number of tasks, any retentions.

SchedTypeOK ==
    /\ at \in [Lockers -> {"asleep", "locking", "purging", "dead"}]
    /\ begun \in [Backups -> 0 .. Old]
    /\ conf \in [named : BOOLEAN, from : BOOLEAN]

\* The snapshot a retention comes after, where nothing can have taken it.
NewOneKept ==
    /\ \A t \in Lockers : at[t] = "purging" => Retention[t] > 0
    /\ \A t \in Backups : at[t] = "purging" /\ begun[t] < Retention[t] /\ Shortest(t) =>
           <<t, begun[t]>> \in snaps

SchedInv == SchedTypeOK /\ NewOneKept

LEMMA RetentionTypes == /\ Old \in Nat /\ \A t \in Lockers : Retention[t] \in Nat
                        /\ Backups \subseteq Lockers /\ Maintainers \subseteq Lockers
<1>1. \A t \in Lockers : Retention[t] \in 0 .. Old
  BY SchedulerAssumption
<1> QED BY <1>1, SchedulerAssumption DEF Lockers

LEMMA SchedInvInit == SchedulerInit => SchedInv
<1>1. 0 \in 0 .. Old /\ Backups \subseteq Lockers
  BY RetentionTypes
<1> QED BY <1>1 DEF SchedulerInit, SchedInv, SchedTypeOK, NewOneKept

\* What a retention takes is older than a snapshot whose own is not longer.
LEMMA PurgeSpares ==
    ASSUME SchedInv, NEW u \in Lockers, at[u] = "purging", NEW t \in Backups,
           begun[t] < Retention[t], Shortest(t)
    PROVE  <<t, begun[t]>> \notin Obsolete(u)
<1>1. Retention[u] > 0 /\ Retention[t] <= Retention[u]
  BY DEF SchedInv, NewOneKept, Shortest
<1>2. begun[t] \in Int /\ Retention[t] \in Int /\ Retention[u] \in Int
  BY RetentionTypes DEF SchedInv, SchedTypeOK
<1>3. ~(<<t, begun[t]>>[2] >= Retention[u])
  BY <1>1, <1>2
<1> QED BY <1>3 DEF Obsolete

LEMMA SchedInvStep == SchedInv /\ [SchedulerNext]_schedVars => SchedInv'
<1> SUFFICES ASSUME SchedInv, [SchedulerNext]_schedVars PROVE SchedInv'
  OBVIOUS
<1>1. SchedTypeOK /\ NewOneKept /\ Backups \subseteq Lockers /\ Maintainers \subseteq Lockers /\ Old \in Nat
  BY RetentionTypes DEF SchedInv
<1>2. CASE UNCHANGED <<at, begun, snaps, conf>>
  BY <1>1, <1>2 DEF SchedInv, SchedTypeOK, NewOneKept
<1>3. ASSUME NEW t \in Lockers, Start(t) PROVE SchedInv'
  <2>1. /\ at[t] = "asleep" /\ at' = [at EXCEPT ![t] = "locking"]
        /\ begun' = [b \in Backups |-> IF b = t THEN 0 ELSE begun[b]]
        /\ UNCHANGED <<snaps, conf>>
    BY <1>3 DEF Start, Goto
  <2>2. /\ at' \in [Lockers -> {"asleep", "locking", "purging", "dead"}]
        /\ begun' \in [Backups -> 0 .. Old]
    BY <1>1, <2>1 DEF SchedTypeOK
  <2> QED BY <1>1, <2>1, <2>2 DEF SchedInv, SchedTypeOK, NewOneKept
<1>4. ASSUME NEW t \in Backups, RunBackup(t) PROVE SchedInv'
  <2>1. PICK made \in BOOLEAN, ok \in BOOLEAN :
            /\ ok => made
            /\ snaps' = IF made THEN snaps \cup {<<t, begun[t]>>} ELSE snaps
            /\ at' = [at EXCEPT ![t] = AfterBackup(t, ok)]
    BY <1>4 DEF RunBackup, Goto
  <2>2. UNCHANGED <<begun, conf>>
    BY <1>4 DEF RunBackup
  <2>3. /\ AfterBackup(t, ok) \in {"purging", "asleep"}
        /\ AfterBackup(t, ok) = "purging" => ok /\ Retention[t] > 0
    BY DEF AfterBackup
  <2>4. at' \in [Lockers -> {"asleep", "locking", "purging", "dead"}]
    BY <1>1, <2>1, <2>3 DEF SchedTypeOK
  <2>5. snaps \subseteq snaps' /\ (ok => <<t, begun[t]>> \in snaps')
    BY <2>1
  <2>6. at'[t] = AfterBackup(t, ok) /\ \A u \in Lockers : u # t => at'[u] = at[u]
    BY <1>1, <2>1 DEF SchedTypeOK
  <2>7. NewOneKept'
    BY <1>1, <2>2, <2>3, <2>5, <2>6 DEF NewOneKept, Shortest
  <2> QED BY <1>1, <2>2, <2>4, <2>7 DEF SchedInv, SchedTypeOK
<1>5. ASSUME NEW m \in Maintainers, RunMaintenance(m) PROVE SchedInv'
  <2>1. at' = [at EXCEPT ![m] = "purging"] /\ UNCHANGED <<begun, snaps, conf>>
    BY <1>5 DEF RunMaintenance, Goto
  <2>2. m \notin Backups /\ Retention[m] > 0
    BY SchedulerAssumption
  <2> QED BY <1>1, <2>1, <2>2 DEF SchedInv, SchedTypeOK, NewOneKept, Shortest
<1>6. ASSUME NEW t \in Lockers, Refused(t) PROVE SchedInv'
  <2>1. /\ at' = [at EXCEPT ![t] = IF t \in Maintainers THEN "purging" ELSE AfterBackup(t, FALSE)]
        /\ UNCHANGED <<begun, snaps, conf>>
    BY <1>6 DEF Refused, Goto
  <2>2. AfterBackup(t, FALSE) = "asleep" /\ (t \in Maintainers => t \notin Backups /\ Retention[t] > 0)
    BY SchedulerAssumption DEF AfterBackup
  <2> QED BY <1>1, <2>1, <2>2 DEF SchedInv, SchedTypeOK, NewOneKept, Shortest
<1>7. ASSUME NEW u \in Lockers, Purge(u) PROVE SchedInv'
  <2>1. PICK gone \in SUBSET Obsolete(u) : snaps' = snaps \ gone
    BY <1>7 DEF Purge
  <2>2. at[u] = "purging" /\ at' = [at EXCEPT ![u] = "asleep"] /\ UNCHANGED <<begun, conf>>
    BY <1>7 DEF Purge, Goto
  <2>3. ASSUME NEW t \in Backups, at'[t] = "purging", begun[t] < Retention[t], Shortest(t)
        PROVE  <<t, begun[t]>> \in snaps'
    <3>1. at[t] = "purging"
      BY <1>1, <2>2, <2>3 DEF SchedTypeOK
    <3>2. <<t, begun[t]>> \in snaps
      BY <1>1, <2>3, <3>1 DEF NewOneKept
    <3> QED BY <2>1, <2>2, <2>3, <3>2, PurgeSpares
  <2>4. \A t \in Lockers : at'[t] = "purging" => Retention[t] > 0
    BY <1>1, <2>2 DEF NewOneKept, SchedTypeOK
  <2>5. NewOneKept'
    BY <2>2, <2>3, <2>4 DEF NewOneKept, Shortest
  <2>6. SchedTypeOK'
    BY <1>1, <2>2 DEF SchedTypeOK
  <2> QED BY <2>5, <2>6 DEF SchedInv
<1>8. CASE SyncTask
  <2>1. snaps \subseteq snaps' /\ UNCHANGED <<at, begun, conf>>
    BY <1>8 DEF SyncTask
  <2> QED BY <1>1, <2>1 DEF SchedInv, SchedTypeOK, NewOneKept, Shortest
<1>9. ASSUME NEW t \in Lockers, Die(t) PROVE SchedInv'
  <2>1. at' = [at EXCEPT ![t] = "dead"] /\ UNCHANGED <<begun, snaps, conf>>
    BY <1>9 DEF Die, Goto
  <2> QED BY <1>1, <2>1 DEF SchedInv, SchedTypeOK, NewOneKept, Shortest
<1>10. CASE Time
  <2>1. /\ snaps' = {<<s[1], Older(s[2])>> : s \in snaps} /\ UNCHANGED <<at, conf>>
        /\ begun' = [t \in Backups |-> IF at[t] \in {"locking", "purging"} THEN Older(begun[t])
                                       ELSE begun[t]]
    BY <1>10 DEF Time
  <2>2. \A n \in 0 .. Old : Older(n) \in 0 .. Old /\ Older(n) >= n
    BY <1>1 DEF Older
  <2>3. begun' \in [Backups -> 0 .. Old] /\ \A t \in Backups : begun'[t] >= begun[t]
    BY <1>1, <2>1, <2>2 DEF SchedTypeOK
  <2>4. ASSUME NEW t \in Backups, at[t] = "purging", begun'[t] < Retention[t], Shortest(t)
        PROVE  <<t, begun'[t]>> \in snaps'
    <3>1. begun[t] < Retention[t]
      <4>1. begun[t] \in Int /\ begun'[t] \in Int /\ Retention[t] \in Int /\ begun'[t] >= begun[t]
        BY <1>1, <2>3, RetentionTypes DEF SchedTypeOK
      <4> QED BY <2>4, <4>1
    <3>2. <<t, begun[t]>> \in snaps
      BY <1>1, <2>4, <3>1 DEF NewOneKept
    <3>3. <<t, Older(begun[t])>> \in snaps' /\ begun'[t] = Older(begun[t])
      <4>1. <<t, begun[t]>>[1] = t /\ <<t, begun[t]>>[2] = begun[t]
        OBVIOUS
      <4> QED BY <2>1, <2>4, <3>2, <4>1
    <3> QED BY <3>3
  <2>5. NewOneKept'
    BY <1>1, <2>1, <2>4 DEF NewOneKept, Shortest
  <2> QED BY <1>1, <2>1, <2>3, <2>5 DEF SchedInv, SchedTypeOK
<1>11. ASSUME NEW t \in Lockers, TryLock(t) \/ Refresh(t) PROVE SchedInv'
  BY <1>2, <1>11 DEF TryLock, Refresh
<1> QED BY <1>2, <1>3, <1>4, <1>5, <1>6, <1>7, <1>8, <1>9, <1>10, <1>11 DEF SchedulerNext, Step, schedVars

\* A step in which the retention of a backup ends is that retention.
LEMMA KeepsOneStep ==
    ASSUME SchedInv, SchedulerNext, NEW t \in Backups,
           at[t] = "purging", at'[t] = "asleep", begun[t] < Retention[t], Shortest(t)
    PROVE  \E s \in snaps' : s[1] = t
<1>1. <<t, begun[t]>> \in snaps /\ t \in Lockers /\ at \in [Lockers -> {"asleep", "locking", "purging", "dead"}]
  BY RetentionTypes DEF SchedInv, NewOneKept, SchedTypeOK
<1>2. CASE Purge(t)
  <2>1. PICK gone \in SUBSET Obsolete(t) : snaps' = snaps \ gone
    BY <1>2 DEF Purge
  <2>2. <<t, begun[t]>> \in snaps'
    BY <1>1, <2>1, PurgeSpares
  <2> QED BY <2>2
<1>3. ASSUME NEW u \in Lockers, Purge(u), u # t PROVE FALSE
  BY <1>1, <1>3 DEF Purge, Goto
<1>4. ASSUME NEW u \in Lockers, Start(u) PROVE FALSE
  BY <1>1, <1>4 DEF Start, Goto
<1>5. ASSUME NEW u \in Backups, RunBackup(u) PROVE FALSE
  <2>1. at[u] = "locking" /\ \E l : at' = [at EXCEPT ![u] = l]
    BY <1>5 DEF RunBackup, Goto
  <2> QED BY <1>1, <2>1
<1>6. ASSUME NEW u \in Maintainers, RunMaintenance(u) PROVE FALSE
  BY <1>1, <1>6 DEF RunMaintenance, Goto
<1>7. ASSUME NEW u \in Lockers, Refused(u) PROVE FALSE
  <2>1. at[u] = "locking" /\ \E l : at' = [at EXCEPT ![u] = l]
    BY <1>7 DEF Refused, Goto
  <2> QED BY <1>1, <2>1
<1>8. ASSUME NEW u \in Lockers, TryLock(u) \/ Refresh(u) \/ Die(u) PROVE FALSE
  BY <1>1, <1>8 DEF TryLock, Refresh, Die, Goto
<1>9. CASE SyncTask \/ Time
  BY <1>9 DEF SyncTask, Time
<1> QED BY <1>2, <1>3, <1>4, <1>5, <1>6, <1>7, <1>8, <1>9 DEF SchedulerNext, Step

\* For any number of tasks with any retentions, whatever fails or dies: the
\* retention that comes after a backup (tasks.go:81-99) leaves a snapshot of its
\* job, if the backup did not take longer than it and no other task has a shorter
\* one.
THEOREM RetentionKeepsOne == SchedulerSpec => KeepsOne
<1>1. SchedInv /\ [SchedulerNext]_schedVars =>
          [\A t \in Backups :
              /\ at[t] = "purging" /\ at'[t] = "asleep" /\ begun[t] < Retention[t] /\ Shortest(t)
              /\ \E s \in snaps : s[1] = t
              => \E s \in snaps' : s[1] = t]_schedVars
  BY KeepsOneStep
<1>2. SchedulerInit /\ [][SchedulerNext]_schedVars => []SchedInv
  BY SchedInvInit, SchedInvStep, PTL
<1> QED BY <1>1, <1>2, PTL DEF SchedulerSpec, KeepsOne

-----------------------------------------------------------------------------
\* Importer: any tree, any number of workers, any failures.

ScanTypeOK ==
    /\ importer \in {"fs", "sftp", "ftp", "s3"} /\ linked \in BOOLEAN
    /\ walker \in {"ready", "prefixes", "walking", "done", "panic"}
    /\ todo \subseteq Tree /\ dirs \subseteq Below /\ jobs \in Seq(Tree)
    /\ worker \in [ScanWorkers -> SUBSET Tree]
    /\ \A w \in ScanWorkers : \A p, q \in worker[w] : p = q

\* Where the walker can be, and what is left when the results are closed.
WalkerAt ==
    /\ linked => importer \in {"fs", "sftp"}
    /\ walker = "ready" => todo = {} /\ dirs = {}
    /\ walker = "prefixes" => importer # "s3"
    /\ walker = "panic" \/ dirs # {} => importer = "ftp"
    /\ unread # {} => importer \in {"ftp", "s3"}
    /\ importer = "s3" => jobs = <<>> /\ \A w \in ScanWorkers : worker[w] = {}
    /\ ~ open => walker \in {"done", "panic"}
    /\ over => /\ walker = "done" /\ todo = {} /\ dirs = {} /\ jobs = <<>>
               /\ \A w \in ScanWorkers : worker[w] = {}

\* A path that has been handed to the workers, or is a result.
Reached(path) == \/ Seen(path)
                 \/ \E i \in DOMAIN jobs : jobs[i] = path
                 \/ \E w \in ScanWorkers : path \in worker[w]

\* One that will not be looked at, for a directory above it could not be read.
Excused(path) == \E dir \in Above \cup Below :
    /\ IsStrictPrefix(dir, path)
    /\ dir \in unread \/ (dir \in Below /\ Broken(dir))

\* One that the walker will come across.
Ahead(path) == \/ path \in todo
               \/ \E dir \in todo \cup dirs : IsStrictPrefix(dir, path)

Covered(path) == Reached(path) \/ Excused(path) \/ Ahead(path)

\* The scan could not begin.
Failed == Broken(IF linked THEN Link ELSE Top)

PathsCovered ==
    /\ walker = "prefixes" => /\ \A path \in Above : Reached(path) \/ path \in todo
                              /\ importer = "ftp" => Reached(Top) \/ Top \in todo
    /\ walker \in {"walking", "done"} =>
          /\ Failed \/ \A path \in Above \cup Below : Covered(path)
          /\ importer # "s3" => todo \subseteq Below
    /\ linked /\ walker # "ready" => Reached(Link)

ScanInv == ScanTypeOK /\ WalkerAt /\ PathsCovered

\* Prefixes, name by name.
LEMMA PrefixIs ==
    ASSUME NEW s \in Seq(Nat), NEW t \in Seq(Nat)
    PROVE  IsPrefix(s, t) <=> Len(s) <= Len(t) /\ \A i \in 1 .. Len(s) : s[i] = t[i]
<1>1. CASE Len(s) <= Len(t)
  <2>1. /\ SubSeq(s, 1, Len(s)) = s /\ SubSeq(t, 1, Len(s)) \in Seq(Nat)
        /\ Len(SubSeq(t, 1, Len(s))) = Len(s)
        /\ \A i \in 1 .. Len(s) : SubSeq(t, 1, Len(s))[i] = t[i]
    BY <1>1
  <2>2. SubSeq(t, 1, Len(s)) = s <=> \A i \in 1 .. Len(s) : s[i] = t[i]
    BY <2>1
  <2> QED BY <1>1, <2>1, <2>2 DEF IsPrefix
<1>2. CASE ~(Len(s) <= Len(t))
  BY <1>2 DEF IsPrefix
<1> QED BY <1>1, <1>2

LEMMA StrictPrefixIs ==
    ASSUME NEW s \in Seq(Nat), NEW t \in Seq(Nat)
    PROVE  IsStrictPrefix(s, t) <=> Len(s) < Len(t) /\ \A i \in 1 .. Len(s) : s[i] = t[i]
<1>1. Len(s) = Len(t) /\ (\A i \in 1 .. Len(s) : s[i] = t[i]) => s = t
  OBVIOUS
<1> QED BY <1>1, PrefixIs DEF IsStrictPrefix

\* The paths of the tree are sequences of names, and it has what is above them.
LEMMA TreeIs == /\ Tree \subseteq Seq(Nat) /\ Root \in Tree /\ Top \in Tree /\ Link \in Tree
                /\ Above \subseteq Tree /\ Below \subseteq Tree /\ Alike \subseteq Tree
                /\ Top \in Below
<1>1. Tree \subseteq Seq(Nat) /\ Root \in Tree /\ Top \in Tree /\ Link \in Tree /\ Alike \subseteq Tree
  BY ImporterAssumption
<1>2. Top \in Below
  BY <1>1, PrefixIs DEF Below
<1> QED BY <1>1, <1>2 DEF Above, Below

\* Whoever is on the way to a path has a next one on that way.
LEMMA OnTheWay ==
    ASSUME NEW d \in Tree, NEW p \in Tree, IsStrictPrefix(d, p)
    PROVE  \E k \in Kids(d) : /\ k = p \/ IsStrictPrefix(k, p)
                              /\ d \in Below => k \in Below
                              /\ p \in Above => k \in Above
                              /\ p \in Below => k \in Above \cup Below
<1> DEFINE k == SubSeq(p, 1, Len(d) + 1)
<1>1. /\ d \in Seq(Nat) /\ p \in Seq(Nat) /\ Top \in Seq(Nat) /\ Len(d) < Len(p)
      /\ \A i \in 1 .. Len(d) : d[i] = p[i]
  BY TreeIs, StrictPrefixIs
<1>2. k \in Tree
  <2>1. Len(d) + 1 \in 0 .. Len(p)
    BY <1>1
  <2> QED BY <2>1, ImporterAssumption
<1>3. k \in Seq(Nat) /\ Len(k) = Len(d) + 1 /\ \A i \in 1 .. Len(d) + 1 : k[i] = p[i]
  BY <1>1
<1> HIDE DEF k
<1>4. k \in Kids(d)
  <2>1. ASSUME NEW i \in 1 .. Len(d) PROVE d[i] = k[i]
    <3>1. i \in 1 .. Len(d) + 1
      BY <1>1
    <3> QED BY <1>1, <1>3, <3>1
  <2>2. IsPrefix(d, k)
    <3>1. Len(d) <= Len(k)
      BY <1>1, <1>3
    <3> QED BY <1>1, <1>3, <2>1, <3>1, PrefixIs
  <2> QED BY <1>2, <1>3, <2>2 DEF Kids, IsEntryBelow
<1>5. k = p \/ IsStrictPrefix(k, p)
  <2>1. CASE Len(d) + 1 = Len(p)
    BY <1>1, <1>3, <2>1
  <2>2. CASE Len(d) + 1 < Len(p)
    BY <1>1, <1>3, <2>2, StrictPrefixIs
  <2> QED BY <1>1, <2>1, <2>2
<1>6. d \in Below => k \in Below
  <2> SUFFICES ASSUME d \in Below PROVE IsPrefix(Top, k)
    BY <1>2 DEF Below
  <2>1. Len(Top) <= Len(d) /\ \A i \in 1 .. Len(Top) : Top[i] = d[i]
    BY <1>1, PrefixIs DEF Below
  <2>2. ASSUME NEW i \in 1 .. Len(Top) PROVE Top[i] = k[i]
    <3>1. i \in 1 .. Len(d) /\ i \in 1 .. Len(d) + 1
      BY <1>1, <2>1
    <3> QED BY <1>1, <1>3, <2>1, <3>1
  <2>3. Len(Top) <= Len(k)
    BY <1>1, <1>3, <2>1
  <2> QED BY <1>1, <1>3, <2>2, <2>3, PrefixIs
<1>7. p \in Above => k \in Above
  <2> SUFFICES ASSUME p \in Above PROVE IsStrictPrefix(k, Top)
    BY <1>2 DEF Above
  <2>1. Len(p) < Len(Top) /\ \A i \in 1 .. Len(p) : p[i] = Top[i]
    BY <1>1, StrictPrefixIs DEF Above
  <2>2. ASSUME NEW i \in 1 .. Len(k) PROVE k[i] = Top[i]
    <3>1. i \in 1 .. Len(d) + 1 /\ i \in 1 .. Len(p)
      BY <1>1, <1>3
    <3> QED BY <1>1, <1>3, <2>1, <3>1
  <2>3. Len(k) < Len(Top)
    BY <1>1, <1>3, <2>1
  <2> QED BY <1>1, <1>3, <2>2, <2>3, StrictPrefixIs
<1>8. p \in Below => k \in Above \cup Below
  <2> SUFFICES ASSUME p \in Below PROVE IsStrictPrefix(k, Top) \/ IsPrefix(Top, k)
    BY <1>2 DEF Above, Below
  <2>1. Len(Top) <= Len(p) /\ \A i \in 1 .. Len(Top) : Top[i] = p[i]
    BY <1>1, PrefixIs DEF Below
  <2>2. CASE Len(k) < Len(Top)
    <3>1. ASSUME NEW i \in 1 .. Len(k) PROVE k[i] = Top[i]
      <4>1. i \in 1 .. Len(d) + 1 /\ i \in 1 .. Len(Top)
        BY <1>1, <1>3, <2>2
      <4> QED BY <1>1, <1>3, <2>1, <4>1
    <3> QED BY <1>1, <1>3, <2>2, <3>1, StrictPrefixIs
  <2>3. CASE Len(Top) <= Len(k)
    <3>1. ASSUME NEW i \in 1 .. Len(Top) PROVE Top[i] = k[i]
      <4>1. i \in 1 .. Len(d) + 1
        BY <1>1, <1>3, <2>3
      <4> QED BY <1>1, <1>3, <2>1, <4>1
    <3> QED BY <1>1, <1>3, <2>3, <3>1, PrefixIs
  <2> QED BY <1>1, <1>3, <2>2, <2>3
<1> QED BY <1>4, <1>5, <1>6, <1>7, <1>8

\* What is on the way to a path above the top or below it is such a path itself.
LEMMA WayIsThere ==
    ASSUME NEW d \in Tree, NEW p \in Above \cup Below, IsStrictPrefix(d, p)
    PROVE  d \in Above \cup Below
<1>1. /\ d \in Seq(Nat) /\ p \in Seq(Nat) /\ Top \in Seq(Nat) /\ Len(d) < Len(p)
      /\ \A i \in 1 .. Len(d) : d[i] = p[i]
  BY TreeIs, StrictPrefixIs
<1>2. CASE p \in Above
  <2>1. Len(p) < Len(Top) /\ \A i \in 1 .. Len(p) : p[i] = Top[i]
    BY <1>1, <1>2, StrictPrefixIs DEF Above
  <2>2. ASSUME NEW i \in 1 .. Len(d) PROVE d[i] = Top[i]
    <3>1. i \in 1 .. Len(p)
      BY <1>1
    <3> QED BY <1>1, <2>1, <3>1
  <2>3. Len(d) < Len(Top)
    BY <1>1, <2>1
  <2>4. IsStrictPrefix(d, Top)
    BY <1>1, <2>2, <2>3, StrictPrefixIs
  <2> QED BY <2>4 DEF Above
<1>3. CASE p \in Below
  <2>1. Len(Top) <= Len(p) /\ \A i \in 1 .. Len(Top) : Top[i] = p[i]
    BY <1>1, <1>3, PrefixIs DEF Below
  <2>2. CASE Len(d) < Len(Top)
    <3>1. ASSUME NEW i \in 1 .. Len(d) PROVE d[i] = Top[i]
      <4>1. i \in 1 .. Len(Top)
        BY <1>1, <2>2
      <4> QED BY <1>1, <2>1, <4>1
    <3>2. IsStrictPrefix(d, Top)
      BY <1>1, <2>2, <3>1, StrictPrefixIs
    <3> QED BY <3>2 DEF Above
  <2>3. CASE Len(Top) <= Len(d)
    <3>1. \A i \in 1 .. Len(Top) : Top[i] = d[i]
      BY <1>1, <2>1, <2>3
    <3>2. IsPrefix(Top, d)
      BY <1>1, <2>3, <3>1, PrefixIs
    <3> QED BY <3>2 DEF Below
  <2> QED BY <1>1, <2>2, <2>3
<1> QED BY <1>2, <1>3

\* What is below a directory that is below the top is below the top.
LEMMA KidsBelow == \A d \in Below : Kids(d) \subseteq Below
<1> SUFFICES ASSUME NEW d \in Below, NEW k \in Kids(d) PROVE IsPrefix(Top, k)
  BY DEF Kids, Below
<1>1. /\ d \in Seq(Nat) /\ k \in Seq(Nat) /\ Top \in Seq(Nat)
      /\ IsPrefix(Top, d) /\ IsPrefix(d, k)
  BY TreeIs DEF Kids, Below, IsEntryBelow
<1>2. /\ Len(Top) <= Len(d) /\ \A i \in 1 .. Len(Top) : Top[i] = d[i]
      /\ Len(d) <= Len(k) /\ \A i \in 1 .. Len(d) : d[i] = k[i]
  BY <1>1, PrefixIs
<1>3. ASSUME NEW i \in 1 .. Len(Top) PROVE Top[i] = k[i]
  <2>1. i \in 1 .. Len(d)
    BY <1>1, <1>2
  <2> QED BY <1>2, <2>1
<1>4. Len(Top) <= Len(k)
  BY <1>1, <1>2
<1> QED BY <1>1, <1>3, <1>4, PrefixIs

\* The top and the root are on the way to all below them.
LEMMA TopAndRoot == /\ \A p \in Below : p = Top \/ IsStrictPrefix(Top, p)
                    /\ \A p \in Tree : p = Root \/ IsStrictPrefix(Root, p)
<1>1. \A p \in Below : p = Top \/ IsStrictPrefix(Top, p)
  BY DEF Below, IsStrictPrefix
<1>2. ASSUME NEW p \in Tree PROVE p = Root \/ IsStrictPrefix(Root, p)
  <2>1. Root \in Seq(Nat) /\ p \in Seq(Nat) /\ Len(Root) = 0
    BY TreeIs DEF Root
  <2>2. Len(Root) <= Len(p) /\ \A i \in 1 .. Len(Root) : Root[i] = p[i]
    BY <2>1
  <2>3. IsPrefix(Root, p)
    BY <2>1, <2>2, PrefixIs
  <2> QED BY <2>3 DEF IsStrictPrefix
<1> QED BY <1>1, <1>2

\* A path that is sent has been reached, and so have those sent before it.
LEMMA SentIsReached ==
    ASSUME ScanTypeOK, NEW x \in Tree, jobs' = Append(jobs, x),
           worker' = worker, results \subseteq results'
    PROVE  /\ jobs' \in Seq(Tree) /\ Reached(x)'
           /\ \A p : Reached(p) => Reached(p)'
<1>1. /\ jobs \in Seq(Tree) /\ jobs' \in Seq(Tree) /\ Len(jobs') = Len(jobs) + 1
      /\ jobs'[Len(jobs) + 1] = x /\ \A i \in 1 .. Len(jobs) : jobs'[i] = jobs[i]
  BY DEF ScanTypeOK
<1>2. DOMAIN jobs = 1 .. Len(jobs) /\ DOMAIN jobs' = 1 .. Len(jobs) + 1 /\ Len(jobs) \in Nat
  BY <1>1
<1>3. \E i \in DOMAIN jobs' : jobs'[i] = x
  <2>1. Len(jobs) + 1 \in DOMAIN jobs'
    BY <1>2
  <2> QED BY <1>1, <2>1
<1>4. ASSUME NEW p, Reached(p) PROVE Reached(p)'
  <2>1. CASE Seen(p)
    BY <2>1 DEF Seen, Reached
  <2>2. CASE \E i \in DOMAIN jobs : jobs[i] = p
    <3>1. PICK i \in DOMAIN jobs : jobs[i] = p
      BY <2>2
    <3>2. i \in DOMAIN jobs' /\ jobs'[i] = p
      BY <1>1, <1>2, <3>1
    <3> QED BY <3>2 DEF Reached
  <2>3. CASE \E w \in ScanWorkers : p \in worker[w]
    BY <2>3 DEF Reached
  <2> QED BY <1>4, <2>1, <2>2, <2>3 DEF Reached
<1> QED BY <1>1, <1>3, <1>4 DEF Reached

LEMMA ReachedStays ==
    ASSUME results \subseteq results', jobs' = jobs, worker' = worker
    PROVE  \A p : Reached(p) => Reached(p)'
BY DEF Reached, Seen

\* What is covered stays so when the walker moves on from some paths, if it has sent
\* them, and has found what comes next on the way to the others, or cannot find it.
LEMMA WalkGoesOn ==
    ASSUME walker \in {"walking", "done"}, PathsCovered,
           linked' = linked, results \subseteq results', unread \subseteq unread',
           \A p : Reached(p) => Reached(p)',
           \A q \in todo : q \in todo' \/ Reached(q)',
           \A d \in todo \cup dirs : \/ d \in todo' \cup dirs'
                                     \/ \A p \in Above \cup Below :
                                           IsStrictPrefix(d, p) => Covered(p)'
    PROVE  (Failed \/ \A p \in Above \cup Below : Covered(p))'
<1>1. CASE Failed
  BY <1>1 DEF Failed, Broken
<1>2. CASE \A p \in Above \cup Below : Covered(p)
  <2> SUFFICES ASSUME NEW p \in Above \cup Below PROVE Covered(p)'
    OBVIOUS
  <2>1. CASE Reached(p)
    BY <2>1 DEF Covered
  <2>2. CASE Excused(p)
    <3>1. Excused(p)'
      BY <2>2 DEF Excused, Broken
    <3> QED BY <3>1 DEF Covered
  <2>3. CASE p \in todo
    BY <2>3 DEF Covered, Ahead
  <2>4. CASE \E d \in todo \cup dirs : IsStrictPrefix(d, p)
    BY <2>4 DEF Covered, Ahead
  <2> QED BY <1>2, <2>1, <2>2, <2>3, <2>4 DEF Covered, Ahead
<1> QED BY <1>1, <1>2 DEF PathsCovered

LEMMA ScanInvInit == ScanInit => ScanInv
BY ImporterAssumption
   DEF ScanInit, ScanInv, ScanTypeOK, WalkerAt, PathsCovered, Reached

LEMMA WalkInv == ASSUME ScanInv, Walk PROVE ScanInv'
<1> USE DEF ScanInv, Walk
<1>1. /\ todo = {} /\ dirs = {} /\ walker = "ready" /\ importer \in {"fs", "sftp"}
      /\ ~ over /\ unread = {} /\ open
  BY DEF WalkerAt
<1>2. CASE walker' = "prefixes" /\ todo' = Above \cup {Root} /\ UNCHANGED <<open, results>>
           /\ jobs' = IF linked THEN Append(jobs, Link) ELSE jobs
  <2>1. jobs' \in Seq(Tree) /\ (linked => Reached(Link)')
    <3>1. CASE linked
      BY <1>2, <3>1, TreeIs, SentIsReached
    <3>2. CASE ~ linked
      BY <1>2, <3>2 DEF ScanTypeOK
    <3> QED BY <3>1, <3>2
  <2>2. ScanTypeOK'
    BY <1>2, <2>1, TreeIs DEF ScanTypeOK
  <2>3. WalkerAt'
    BY <1>1, <1>2 DEF WalkerAt
  <2>4. PathsCovered'
    BY <1>1, <1>2, <2>1 DEF PathsCovered
  <2> QED BY <2>2, <2>3, <2>4
<1>3. CASE Finish /\ Result(IF linked THEN Link ELSE Top, "error") /\ UNCHANGED <<todo, jobs>>
  <2>1. Failed'
    BY <1>3 DEF Result, Failed, Broken
  <2>2. linked => Reached(Link)'
    BY <1>3 DEF Result, Reached, Seen
  <2>3. ScanTypeOK'
    BY <1>3 DEF ScanTypeOK, Finish
  <2>4. WalkerAt'
    BY <1>1, <1>3 DEF WalkerAt, Finish
  <2>5. PathsCovered'
    BY <1>1, <1>3, <2>1, <2>2 DEF PathsCovered, Finish
  <2> QED BY <2>3, <2>4, <2>5
<1> QED BY <1>2, <1>3

LEMMA FTPScanInv == ASSUME ScanInv, FTPScan PROVE ScanInv'
<1> USE DEF ScanInv, FTPScan
<1>1. ScanTypeOK'
  BY TreeIs DEF ScanTypeOK
<1>2. WalkerAt'
  BY DEF WalkerAt
<1>3. PathsCovered'
  BY DEF PathsCovered, WalkerAt
<1> QED BY <1>1, <1>2, <1>3

LEMMA AddPrefixDirectoriesInv == ASSUME ScanInv, AddPrefixDirectories PROVE ScanInv'
<1> USE DEF ScanInv
<1>1. PICK x \in todo :
          /\ todo' = todo \ {x}
          /\ \/ Works /\ jobs' = Append(jobs, x) /\ UNCHANGED results
             \/ Fails /\ Result(x, "error") /\ UNCHANGED jobs
  BY DEF AddPrefixDirectories
<1>2. /\ walker = "prefixes" /\ ~ over /\ importer # "s3"
      /\ UNCHANGED <<importer, linked, walker, dirs, open, worker, over, unread>>
  BY DEF AddPrefixDirectories, WalkerAt
<1>3. /\ jobs' \in Seq(Tree) /\ Reached(x)'
      /\ \A p : Reached(p) => Reached(p)'
  <2>1. x \in Tree
    BY DEF ScanTypeOK
  <2>2. CASE jobs' = Append(jobs, x) /\ UNCHANGED results
    BY <1>2, <2>1, <2>2, SentIsReached
  <2>3. CASE Result(x, "error") /\ UNCHANGED jobs
    <3>1. results \subseteq results' /\ Reached(x)' /\ jobs' \in Seq(Tree)
      BY <2>3 DEF Result, Reached, Seen, ScanTypeOK
    <3> QED BY <1>2, <2>3, <3>1, ReachedStays
  <2> QED BY <1>1, <2>2, <2>3
<1>4. ScanTypeOK'
  BY <1>1, <1>2, <1>3 DEF ScanTypeOK
<1>5. WalkerAt'
  BY <1>1, <1>2 DEF WalkerAt
<1>6. PathsCovered'
  BY <1>1, <1>2, <1>3 DEF PathsCovered
<1> QED BY <1>4, <1>5, <1>6

LEMMA WalkDownInv == ASSUME ScanInv, WalkDown PROVE ScanInv'
<1> USE DEF ScanInv, WalkDown
<1>1. \A p : Reached(p) => Reached(p)'
  BY ReachedStays
<1>2. \A p \in Above : Reached(p)'
  BY <1>1 DEF PathsCovered
<1>3. ASSUME NEW p \in Below PROVE Covered(p)'
  <2>1. CASE importer = "ftp" /\ p = Top
    BY <1>1, <2>1 DEF PathsCovered, Covered
  <2>2. CASE importer # "ftp" /\ p = Top
    BY <2>2 DEF Covered, Ahead
  <2>3. CASE IsStrictPrefix(Top, p)
    BY <2>3 DEF Covered, Ahead
  <2> QED BY <2>1, <2>2, <2>3, TopAndRoot
<1>4. ScanTypeOK'
  BY TreeIs DEF ScanTypeOK
<1>5. WalkerAt'
  BY DEF WalkerAt
<1>6. PathsCovered'
  <2>1. todo' \subseteq Below
    BY TreeIs
  <2>2. linked => Reached(Link)'
    BY <1>1 DEF PathsCovered
  <2>3. \A p \in Above \cup Below : Covered(p)'
    BY <1>2, <1>3 DEF Covered
  <2> QED BY <2>1, <2>2, <2>3 DEF PathsCovered
<1> QED BY <1>4, <1>5, <1>6

LEMMA WalkDirInv == ASSUME ScanInv, WalkDir PROVE ScanInv'
<1> USE DEF ScanInv
<1>1. /\ walker = "walking" /\ importer \in {"fs", "sftp"} /\ ~ over /\ todo \subseteq Below
      /\ UNCHANGED <<importer, linked, walker, dirs, open, worker, over, unread>>
  BY DEF WalkDir, WalkerAt, PathsCovered
<1>2. PICK x \in todo :
          \/ /\ Works /\ UNCHANGED results
             /\ jobs' = Append(jobs, x) /\ todo' = (todo \ {x}) \cup Kids(x)
          \/ /\ Fails /\ Result(x, "error") /\ todo' = todo \ {x}
             /\ \/ jobs' = Append(jobs, x)
                \/ importer = "sftp" /\ UNCHANGED jobs
  BY DEF WalkDir
<1>3. x \in Below /\ x \in Tree
  BY <1>1, TreeIs
<1>4. /\ jobs' \in Seq(Tree) /\ Reached(x)' /\ results \subseteq results'
      /\ \A p : Reached(p) => Reached(p)'
  <2>1. results \subseteq results'
    BY <1>2 DEF Result
  <2>2. CASE jobs' = Append(jobs, x)
    BY <1>1, <1>3, <2>1, <2>2, SentIsReached
  <2>3. CASE Result(x, "error") /\ UNCHANGED jobs
    <3>1. Reached(x)' /\ jobs' \in Seq(Tree)
      BY <2>3 DEF Result, Reached, Seen, ScanTypeOK
    <3> QED BY <1>1, <2>1, <2>3, <3>1, ReachedStays
  <2> QED BY <1>2, <2>1, <2>2, <2>3
<1>5. ASSUME NEW p \in Above \cup Below, IsStrictPrefix(x, p) PROVE Covered(p)'
  <2>1. CASE todo' = (todo \ {x}) \cup Kids(x)
    <3>1. PICK k \in Kids(x) : k = p \/ IsStrictPrefix(k, p)
      BY <1>3, <1>5, TreeIs, OnTheWay
    <3> QED BY <2>1, <3>1 DEF Covered, Ahead
  <2>2. CASE Result(x, "error")
    BY <1>3, <1>5, <2>2 DEF Covered, Excused, Result, Broken
  <2> QED BY <1>2, <2>1, <2>2
<1>6. todo' \subseteq Below
  BY <1>1, <1>2, <1>3, KidsBelow
<1>7. ScanTypeOK'
  BY <1>1, <1>4, <1>6, TreeIs DEF ScanTypeOK
<1>8. WalkerAt'
  BY <1>1 DEF WalkerAt
<1>9. PathsCovered'
  <2>1. (Failed \/ \A p \in Above \cup Below : Covered(p))'
    <3>1. \A q \in todo : q \in todo' \/ Reached(q)'
      BY <1>2, <1>4
    <3>2. \A d \in todo \cup dirs : \/ d \in todo' \cup dirs'
                                    \/ \A p \in Above \cup Below :
                                          IsStrictPrefix(d, p) => Covered(p)'
      BY <1>1, <1>2, <1>5
    <3> QED BY <1>1, <1>4, <3>1, <3>2, WalkGoesOn
  <2> QED BY <1>1, <1>4, <1>6, <2>1 DEF PathsCovered
<1> QED BY <1>7, <1>8, <1>9

\* A channel of results that is closed stays so, and nothing else moves.
LEMMA WalkDirEndsInv == ASSUME ScanInv, WalkDirEnds \/ FTPWalkEnds PROVE ScanInv'
<1> USE DEF ScanInv
<1>1. /\ walker = "walking" /\ walker' = "done" /\ open' = FALSE /\ importer # "s3" /\ ~ over
      /\ UNCHANGED <<importer, linked, todo, dirs, jobs, worker, results, over, unread, errors>>
  BY DEF WalkDirEnds, FTPWalkEnds, Finish, WalkerAt
<1>2. ScanTypeOK' /\ WalkerAt'
  BY <1>1 DEF ScanTypeOK, WalkerAt
<1>3. \A p : Reached(p) => Reached(p)'
  BY <1>1, ReachedStays
<1>4. (Failed \/ \A p \in Above \cup Below : Covered(p))'
  BY <1>1, <1>3, WalkGoesOn
<1> QED BY <1>1, <1>2, <1>3, <1>4 DEF PathsCovered

LEMMA FTPReadDirInv == ASSUME ScanInv, FTPReadDir PROVE ScanInv'
<1> USE DEF ScanInv
<1>1. PICK x \in dirs :
          /\ dirs' = dirs \ {x}
          /\ \/ Works /\ todo' = todo \cup Kids(x) /\ UNCHANGED unread
             \/ Fails /\ unread' = unread \cup {x} /\ UNCHANGED todo
  BY DEF FTPReadDir
<1>2. /\ walker \in {"walking", "done"} /\ importer = "ftp" /\ ~ over
      /\ todo \subseteq Below /\ x \in Below /\ x \in Tree
      /\ UNCHANGED <<importer, linked, walker, jobs, open, worker, results, over>>
  BY TreeIs DEF FTPReadDir, WalkerAt, PathsCovered, ScanTypeOK
<1>3. \A p : Reached(p) => Reached(p)'
  BY <1>2, ReachedStays
<1>4. ASSUME NEW p \in Above \cup Below, IsStrictPrefix(x, p) PROVE Covered(p)'
  <2>1. CASE todo' = todo \cup Kids(x)
    <3>1. PICK k \in Kids(x) : k = p \/ IsStrictPrefix(k, p)
      BY <1>2, <1>4, TreeIs, OnTheWay
    <3> QED BY <2>1, <3>1 DEF Covered, Ahead
  <2>2. CASE unread' = unread \cup {x}
    BY <1>2, <1>4, <2>2 DEF Covered, Excused
  <2> QED BY <1>1, <2>1, <2>2
<1>5. todo' \subseteq Below /\ dirs' \subseteq Below
  BY <1>1, <1>2, KidsBelow DEF ScanTypeOK
<1>6. ScanTypeOK'
  BY <1>2, <1>5, TreeIs DEF ScanTypeOK
<1>7. WalkerAt'
  BY <1>2 DEF WalkerAt
<1>8. PathsCovered'
  <2>1. (Failed \/ \A p \in Above \cup Below : Covered(p))'
    <3>1. \A q \in todo : q \in todo' \/ Reached(q)'
      BY <1>1
    <3>2. \A d \in todo \cup dirs : \/ d \in todo' \cup dirs'
                                    \/ \A p \in Above \cup Below :
                                          IsStrictPrefix(d, p) => Covered(p)'
      BY <1>1, <1>4
    <3>3. unread \subseteq unread'
      BY <1>1
    <3> QED BY <1>2, <1>3, <3>1, <3>2, <3>3, WalkGoesOn
  <2> QED BY <1>2, <1>3, <1>5, <2>1 DEF PathsCovered
<1> QED BY <1>6, <1>7, <1>8

LEMMA FTPSendInv == ASSUME ScanInv, FTPSend PROVE ScanInv'
<1> USE DEF ScanInv
<1>1. PICK x \in todo :
          IF open
            THEN /\ jobs' = Append(jobs, x) /\ todo' = todo \ {x}
                 /\ dirs' = IF Kids(x) = {} THEN dirs ELSE dirs \cup {x}
                 /\ UNCHANGED walker
            ELSE walker' = "panic" /\ UNCHANGED <<jobs, todo, dirs>>
  BY DEF FTPSend
<1>2. /\ walker \in {"walking", "done"} /\ importer = "ftp" /\ ~ over /\ ~ linked
      /\ todo \subseteq Below /\ x \in Below /\ x \in Tree
      /\ UNCHANGED <<importer, linked, open, worker, results, over, unread, errors>>
  BY TreeIs DEF FTPSend, WalkerAt, PathsCovered, ScanTypeOK
<1>3. CASE ~ open
  <2>1. ScanTypeOK' /\ WalkerAt' /\ PathsCovered'
    BY <1>1, <1>2, <1>3 DEF ScanTypeOK, WalkerAt, PathsCovered
  <2> QED BY <2>1
<1>4. CASE open
  <2>1. /\ jobs' = Append(jobs, x) /\ todo' = todo \ {x} /\ walker' = walker
        /\ dirs' = IF Kids(x) = {} THEN dirs ELSE dirs \cup {x}
    BY <1>1, <1>4
  <2>2. /\ jobs' \in Seq(Tree) /\ Reached(x)'
        /\ \A p : Reached(p) => Reached(p)'
    BY <1>2, <2>1, SentIsReached
  <2>3. ASSUME NEW p \in Above \cup Below, IsStrictPrefix(x, p) PROVE x \in dirs'
    <3>1. Kids(x) # {}
      BY <1>2, <2>3, TreeIs, OnTheWay
    <3> QED BY <2>1, <3>1
  <2>4. ScanTypeOK'
    BY <1>2, <2>1, <2>2, TreeIs DEF ScanTypeOK
  <2>5. WalkerAt'
    BY <1>2, <1>4, <2>1 DEF WalkerAt
  <2>6. PathsCovered'
    <3>1. \A q \in todo : q \in todo' \/ Reached(q)'
      BY <2>1, <2>2
    <3>2. \A d \in todo \cup dirs : \/ d \in todo' \cup dirs'
                                    \/ \A p \in Above \cup Below :
                                          IsStrictPrefix(d, p) => Covered(p)'
      BY <2>1, <2>3
    <3>3. (Failed \/ \A p \in Above \cup Below : Covered(p))'
      BY <1>2, <2>2, <3>1, <3>2, WalkGoesOn
    <3> QED BY <1>2, <2>1, <3>3 DEF PathsCovered
  <2> QED BY <2>4, <2>5, <2>6
<1> QED BY <1>3, <1>4

LEMMA S3ScanInv == ASSUME ScanInv, S3Scan PROVE ScanInv'
<1> USE DEF ScanInv, S3Scan
<1>1. ScanTypeOK' /\ WalkerAt'
  BY TreeIs DEF ScanTypeOK, WalkerAt
<1>2. \A p \in Above \cup Below : Covered(p)'
  BY TreeIs, TopAndRoot DEF Covered, Ahead
<1>3. PathsCovered'
  BY <1>2 DEF PathsCovered, WalkerAt
<1> QED BY <1>1, <1>3

LEMMA ScanRecursiveInv == ASSUME ScanInv, ScanRecursive PROVE ScanInv'
<1> USE DEF ScanInv
<1> DEFINE Follows(x) == Kids(x) \cap (Above \cup Below \cup Alike)
<1>1. PICK x \in todo :
          /\ Result(x, "record")
          /\ \/ /\ Works /\ UNCHANGED unread
                /\ todo' = (todo \ {x}) \cup Follows(x)
             \/ /\ Fails /\ unread' = unread \cup {x}
                /\ \E some \in SUBSET Follows(x) : todo' = (todo \ {x}) \cup some
  BY DEF ScanRecursive
<1>2. /\ walker = "walking" /\ importer = "s3" /\ ~ over /\ ~ linked /\ x \in Tree
      /\ UNCHANGED <<importer, linked, walker, dirs, jobs, open, worker, over>>
  BY DEF ScanRecursive, WalkerAt, ScanTypeOK
<1>3. results \subseteq results' /\ unread \subseteq unread' /\ Reached(x)'
  BY <1>1 DEF Result, Reached, Seen
<1>4. \A p : Reached(p) => Reached(p)'
  BY <1>2, <1>3, ReachedStays
<1>5. ASSUME NEW p \in Above \cup Below, IsStrictPrefix(x, p) PROVE Covered(p)'
  <2>1. CASE todo' = (todo \ {x}) \cup Follows(x)
    <3>1. PICK k \in Kids(x) : /\ k = p \/ IsStrictPrefix(k, p)
                               /\ k \in Above \cup Below
      BY <1>2, <1>5, TreeIs, OnTheWay
    <3> QED BY <2>1, <3>1 DEF Covered, Ahead
  <2>2. CASE unread' = unread \cup {x}
    <3>1. x \in Above \cup Below
      BY <1>2, <1>5, WayIsThere
    <3> QED BY <1>5, <2>2, <3>1 DEF Covered, Excused
  <2> QED BY <1>1, <2>1, <2>2
<1>6. todo' \subseteq Tree /\ \A q \in todo : q \in todo' \/ q = x
  <2>1. Follows(x) \subseteq Tree
    BY TreeIs
  <2> HIDE DEF Follows
  <2> QED BY <1>1, <2>1 DEF ScanTypeOK
<1>7. ScanTypeOK'
  BY <1>2, <1>6 DEF ScanTypeOK
<1>8. WalkerAt'
  BY <1>2 DEF WalkerAt
<1>9. PathsCovered'
  <2>1. \A q \in todo : q \in todo' \/ Reached(q)'
    BY <1>3, <1>6
  <2>2. \A d \in todo \cup dirs : \/ d \in todo' \cup dirs'
                                  \/ \A p \in Above \cup Below :
                                        IsStrictPrefix(d, p) => Covered(p)'
    BY <1>2, <1>5, <1>6
  <2>3. (Failed \/ \A p \in Above \cup Below : Covered(p))'
    BY <1>2, <1>3, <1>4, <2>1, <2>2, WalkGoesOn
  <2> QED BY <1>2, <2>3 DEF PathsCovered
<1> QED BY <1>7, <1>8, <1>9

LEMMA S3EndsInv == ASSUME ScanInv, S3Ends PROVE ScanInv'
<1> USE DEF ScanInv, S3Ends, Finish
<1>1. ScanTypeOK' /\ WalkerAt'
  BY DEF ScanTypeOK, WalkerAt
<1>2. \A p : Reached(p) => Reached(p)'
  BY ReachedStays
<1>3. (Failed \/ \A p \in Above \cup Below : Covered(p))'
  BY <1>2, WalkGoesOn
<1>4. PathsCovered'
  BY <1>2, <1>3 DEF PathsCovered
<1> QED BY <1>1, <1>4

\* What a worker takes it holds, and what it has looked at is a result.
LEMMA TakeInv == ASSUME ScanInv, NEW w \in ScanWorkers, Take(w) PROVE ScanInv'
<1> USE DEF ScanInv
<1>1. /\ importer # "s3" /\ walker # "panic" /\ worker[w] = {} /\ jobs # <<>> /\ ~ over
      /\ worker' = [worker EXCEPT ![w] = {Head(jobs)}] /\ jobs' = Tail(jobs)
      /\ UNCHANGED <<importer, linked, walker, todo, dirs, open, results, over, unread, errors>>
  BY DEF Take, WalkerAt
<1>2. /\ jobs \in Seq(Tree) /\ Len(jobs) \in Nat /\ Len(jobs) > 0 /\ Head(jobs) = jobs[1]
      /\ Head(jobs) \in Tree /\ jobs' \in Seq(Tree) /\ Len(jobs') = Len(jobs) - 1
      /\ \A i \in 1 .. Len(jobs) - 1 : jobs'[i] = jobs[i + 1]
  BY <1>1 DEF ScanTypeOK
<1>3. /\ worker' \in [ScanWorkers -> SUBSET Tree] /\ worker'[w] = {Head(jobs)}
      /\ \A v \in ScanWorkers : v # w => worker'[v] = worker[v]
  BY <1>1, <1>2 DEF ScanTypeOK
<1>4. ASSUME NEW p, Reached(p) PROVE Reached(p)'
  <2>1. CASE Seen(p)
    BY <1>1, <2>1 DEF Seen, Reached
  <2>2. CASE \E i \in DOMAIN jobs : jobs[i] = p
    <3>1. PICK i \in 1 .. Len(jobs) : jobs[i] = p
      BY <1>2, <2>2
    <3>2. CASE i = 1
      BY <1>2, <1>3, <3>1, <3>2 DEF Reached
    <3>3. CASE i # 1
      <4>1. i - 1 \in 1 .. Len(jobs) - 1 /\ i - 1 + 1 = i
        BY <1>2, <3>3
      <4>2. i - 1 \in DOMAIN jobs' /\ jobs'[i - 1] = p
        BY <1>2, <3>1, <4>1
      <4> QED BY <4>2 DEF Reached
    <3> QED BY <3>2, <3>3
  <2>3. CASE \E v \in ScanWorkers : p \in worker[v]
    <3>1. PICK v \in ScanWorkers : p \in worker[v]
      BY <2>3
    <3>2. p \in worker'[v]
      BY <1>1, <1>3, <3>1
    <3> QED BY <3>2 DEF Reached
  <2> QED BY <1>4, <2>1, <2>2, <2>3 DEF Reached
<1>5. ScanTypeOK'
  <2>1. ASSUME NEW v \in ScanWorkers PROVE \A p, q \in worker'[v] : p = q
    BY <1>3 DEF ScanTypeOK
  <2> QED BY <1>1, <1>2, <1>3, <2>1 DEF ScanTypeOK
<1>6. WalkerAt'
  BY <1>1 DEF WalkerAt
<1>7. PathsCovered'
  <2>1. walker \in {"walking", "done"} => (Failed \/ \A p \in Above \cup Below : Covered(p))'
    BY <1>1, <1>4, WalkGoesOn
  <2> QED BY <1>1, <1>4, <2>1 DEF PathsCovered
<1> QED BY <1>5, <1>6, <1>7

LEMMA LookInv == ASSUME ScanInv, NEW w \in ScanWorkers, Look(w) PROVE ScanInv'
<1> USE DEF ScanInv
<1>1. PICK x \in worker[w] : Result(x, "record") \/ Result(x, "error")
  BY DEF Look
<1>2. /\ walker # "panic" /\ importer # "s3" /\ ~ over
      /\ worker' = [worker EXCEPT ![w] = {}]
      /\ UNCHANGED <<importer, linked, walker, todo, dirs, jobs, open, over, unread>>
  BY DEF Look, WalkerAt
<1>3. /\ worker' \in [ScanWorkers -> SUBSET Tree] /\ worker'[w] = {}
      /\ \A v \in ScanWorkers : v # w => worker'[v] = worker[v]
  BY <1>2 DEF ScanTypeOK
<1>4. results \subseteq results' /\ Seen(x)'
  BY <1>1 DEF Result, Seen
<1>5. ASSUME NEW p, Reached(p) PROVE Reached(p)'
  <2>1. CASE Seen(p)
    BY <1>4, <2>1 DEF Seen, Reached
  <2>2. CASE \E i \in DOMAIN jobs : jobs[i] = p
    BY <1>2, <2>2 DEF Reached
  <2>3. CASE \E v \in ScanWorkers : p \in worker[v]
    <3>1. PICK v \in ScanWorkers : p \in worker[v]
      BY <2>3
    <3>2. CASE v = w
      <4>1. p = x
        BY <1>1, <3>1, <3>2 DEF ScanTypeOK
      <4> QED BY <1>4, <4>1 DEF Reached
    <3>3. CASE v # w
      BY <1>3, <3>1, <3>3 DEF Reached
    <3> QED BY <3>2, <3>3
  <2> QED BY <1>5, <2>1, <2>2, <2>3 DEF Reached
<1>6. ScanTypeOK'
  <2>1. ASSUME NEW v \in ScanWorkers PROVE \A p, q \in worker'[v] : p = q
    BY <1>3 DEF ScanTypeOK
  <2> QED BY <1>2, <1>3, <2>1 DEF ScanTypeOK
<1>7. WalkerAt'
  BY <1>2 DEF WalkerAt
<1>8. PathsCovered'
  <2>1. walker \in {"walking", "done"} => (Failed \/ \A p \in Above \cup Below : Covered(p))'
    BY <1>2, <1>4, <1>5, WalkGoesOn
  <2> QED BY <1>2, <1>5, <2>1 DEF PathsCovered
<1> QED BY <1>6, <1>7, <1>8

LEMMA CloseResultsInv == ASSUME ScanInv, CloseResults \/ UNCHANGED scanVars PROVE ScanInv'
<1> USE DEF ScanInv
<1>1. /\ UNCHANGED <<importer, linked, walker, todo, dirs, jobs, open, worker, results, unread, errors>>
      /\ \/ over' = over
         \/ /\ over' /\ importer # "s3" /\ walker # "panic" /\ ~ open
            /\ jobs = <<>> /\ dirs = {} /\ todo = {} /\ \A w \in ScanWorkers : worker[w] = {}
  BY DEF CloseResults, AllDone, AllGone, scanVars
<1>2. \A p : Reached(p) => Reached(p)'
  BY <1>1, ReachedStays
<1>3. ScanTypeOK'
  BY <1>1 DEF ScanTypeOK
<1>4. WalkerAt'
  BY <1>1 DEF WalkerAt
<1>5. PathsCovered'
  <2>1. walker \in {"walking", "done"} => (Failed \/ \A p \in Above \cup Below : Covered(p))'
    BY <1>1, <1>2, WalkGoesOn
  <2> QED BY <1>1, <1>2, <2>1 DEF PathsCovered
<1> QED BY <1>3, <1>4, <1>5

LEMMA ScanInvStep == ScanInv /\ [ScanNext]_scanVars => ScanInv'
BY WalkInv, FTPScanInv, AddPrefixDirectoriesInv, WalkDownInv, WalkDirInv, WalkDirEndsInv,
   FTPReadDirInv, FTPSendInv, S3ScanInv, ScanRecursiveInv, S3EndsInv, TakeInv, LookInv,
   CloseResultsInv
   DEF ScanNext

\* When the channel of results is closed nothing is left, and what was reached is a
\* result.
LEMMA ScanInvComplete == ScanInv => ScanComplete
<1> SUFFICES ASSUME ScanInv PROVE ScanComplete
  OBVIOUS
<1> USE DEF ScanInv
<1>1. ASSUME over, ~ Broken(IF linked THEN Link ELSE Top)
      PROVE  /\ \A path \in Above \cup Below : Seen(path) \/ Excused(path)
             /\ linked => Seen(Link)
  <2>1. /\ walker = "done" /\ todo = {} /\ dirs = {} /\ jobs = <<>>
        /\ \A w \in ScanWorkers : worker[w] = {}
    BY <1>1 DEF WalkerAt
  <2>2. \A path : Reached(path) => Seen(path)
    BY <2>1 DEF Reached
  <2>3. \A path : ~ Ahead(path)
    BY <2>1 DEF Ahead
  <2>4. \A path \in Above \cup Below : Covered(path)
    BY <1>1, <2>1 DEF PathsCovered, Failed
  <2>5. linked => Reached(Link)
    BY <2>1 DEF PathsCovered
  <2> QED BY <2>2, <2>3, <2>4, <2>5 DEF Covered
<1>2. unread # {} => importer \in {"ftp", "s3"}
  BY DEF WalkerAt
<1>3. walker = "panic" => importer = "ftp"
  BY DEF WalkerAt
<1> QED BY <1>1, <1>2, <1>3 DEF ScanComplete, Excused

\* For any tree, any number of workers and any operations that fail: each of the
\* importers (fs, sftp, ftp, s3) accounts for every path below the directory and
\* above it, as a record, as an error, or by a directory that could not be read.
THEOREM ScansAreComplete == ScanSpec => []ScanComplete
BY ScanInvInit, ScanInvStep, ScanInvComplete, PTL DEF ScanSpec
=============================================================================
