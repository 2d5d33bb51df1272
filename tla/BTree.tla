-------------------------------- MODULE BTree --------------------------------
(***************************************************************************)
(* The B+tree of the indexes of a snapshot: insertion, lookup, the three   *)
(* iterators, and Persist, which copies a tree to a store where a node is  *)
(* never rewritten.                                                        *)
(*                                                                         *)
(* A node has an address, its place in nodes.  An inner node has one       *)
(* pointer more than keys; a leaf has as many values as keys, and the      *)
(* address of the next leaf, 0 for the last one.                           *)
(***************************************************************************)
EXTENDS Paths

CONSTANT Order      \* a node has fewer keys than that

ASSUME OrderAssumption == Order \in Nat /\ Order >= 3

\* The keys are pathnames; a tree says how they are compared.
Before(cmp, a, b) ==
    \/ cmp = "path" /\ PathLess(a, b)
    \/ cmp = "string" /\ StringLess(a, b)

EmptyLeaf      == [keys |-> <<>>, vals |-> <<>>, ptrs |-> <<>>, next |-> 0]
EmptyTree(cmp) == [root |-> 1, nodes |-> <<EmptyLeaf>>, cmp |-> cmp]

IsLeaf(n) == n.ptrs = <<>>

\* A binary search: how many keys are smaller, and is the key there?
Smaller(cmp, n, k) == Cardinality({i \in DOMAIN n.keys : Before(cmp, n.keys[i], k)})
Has(n, k)          == \E i \in DOMAIN n.keys : n.keys[i] = k

Child(cmp, n, k) == n.ptrs[Smaller(cmp, n, k) + (IF Has(n, k) THEN 2 ELSE 1)]

\* From each node, the nodes down to the leaf where a key belongs.
Descents(t, k) ==
    LET path[p \in DOMAIN t.nodes] ==
            IF IsLeaf(t.nodes[p]) THEN <<p>> ELSE <<p>> \o path[Child(t.cmp, t.nodes[p], k)]
    IN  path

PathTo(t, k) == Descents(t, k)[t.root]
LeafOf(t, k) == Last(PathTo(t, k))

Find(t, k) ==
    LET n == t.nodes[LeafOf(t, k)]
    IN  IF Has(n, k) THEN <<n.vals[Smaller(t.cmp, n, k) + 1]>> ELSE <<>>

-----------------------------------------------------------------------------
\* Insertion.

\* A node that is full is cut in two.
Cut(n) == Max({(Len(n.keys) + 1) \div 2 - 1, 1})

Upto(seq, i) == SubSeq(seq, 1, Min({i, Len(seq)}))
Left(n) == [n EXCEPT !.keys = Upto(@, Cut(n)), !.vals = Upto(@, Cut(n)), !.ptrs = Upto(@, Cut(n) + 1)]
Right(n) == [n EXCEPT !.keys = SubSeq(@, Cut(n) + 1, Len(@)),
                      !.vals = SubSeq(@, Cut(n) + 1, Len(@)),
                      !.ptrs = SubSeq(@, Cut(n) + 2, Len(@))]

\* What goes up: the tree, the address of a new node, and the key that leads to
\* it; the address is 0 when all is in place.
Rising(t, k, p) == [tree |-> t, key |-> k, ptr |-> p]

\* The key and the new node go into an inner node; when that is full the first key
\* of its right half moves up.
Into(s, at) ==
    LET t     == s.tree
        old   == t.nodes[at]
        i     == Smaller(t.cmp, old, s.key) + 1
        n     == [old EXCEPT !.keys = InsertAt(@, i, s.key), !.ptrs = InsertAt(@, i + 1, s.ptr)]
        right == Right(n)
    IN  IF s.ptr = 0 THEN s
        ELSE IF Len(n.keys) < Order THEN Rising([t EXCEPT !.nodes[at] = n], s.key, 0)
        ELSE Rising([t EXCEPT !.nodes = Append([@ EXCEPT ![at] = Left(n)], [right EXCEPT !.keys = Tail(@)])],
                    Head(right.keys), Len(t.nodes) + 1)

NewRoot(s) ==
    LET n == [EmptyLeaf EXCEPT !.keys = <<s.key>>, !.ptrs = <<s.tree.root, s.ptr>>]
    IN  [s.tree EXCEPT !.root = Len(s.tree.nodes) + 1, !.nodes = Append(@, n)]

\* The inner nodes of a path, from the last one.
Rises(s, path) ==
    LET up[i \in 0 .. Len(path)] == IF i = 0 THEN s ELSE Into(up[i - 1], path[Len(path) + 1 - i])
    IN  up

InsertUpwards(s, path) ==
    LET top == Rises(s, path)[Len(path)]
    IN  IF top.ptr = 0 THEN top.tree ELSE NewRoot(top)

LeafWith(t, n, k, v) ==
    LET i == Smaller(t.cmp, n, k) + 1
    IN  [n EXCEPT !.keys = InsertAt(@, i, k), !.vals = InsertAt(@, i, v)]

\* Slip: the leaf that is cut keeps its old neighbour.
InsertUnlinked(t, k, v) ==
    LET path  == PathTo(t, k)
        at    == Last(path)
        n     == LeafWith(t, t.nodes[at], k, v)
        right == Right(n)
    IN  IF Has(t.nodes[at], k) THEN t
        ELSE IF Len(n.keys) < Order THEN [t EXCEPT !.nodes[at] = n]
        ELSE InsertUpwards(Rising([t EXCEPT !.nodes = Append([@ EXCEPT ![at] = Left(n)], right)],
                                  Head(right.keys), Len(t.nodes) + 1),
                           Front(path))

\* A key that exists is refused.
Insert(t, k, v) ==
    LET path  == PathTo(t, k)
        at    == Last(path)
        n     == LeafWith(t, t.nodes[at], k, v)
        new   == Len(t.nodes) + 1
        left  == [Left(n) EXCEPT !.next = new]
        right == Right(n)
    IN  IF Has(t.nodes[at], k) THEN t
        ELSE IF Len(n.keys) < Order THEN [t EXCEPT !.nodes[at] = n]
        ELSE InsertUpwards(Rising([t EXCEPT !.nodes = Append([@ EXCEPT ![at] = left], right)],
                                  Head(right.keys), new),
                           Front(path))

-----------------------------------------------------------------------------
\* The iterators.  A scan reads nodes as it gets to them, and ends with an error
\* at one that cannot be read; nodes outside there cannot.

PairsFrom(n, from) == [i \in 1 .. Len(n.vals) - from + 1 |-> <<n.keys[from + i - 1], n.vals[from + i - 1]>>]

\* From each leaf, and from the address that stands for none, to the end.
Scans(t, there) ==
    LET run[p \in {0} \cup DOMAIN t.nodes] ==
            LET n    == t.nodes[p]
                rest == run[n.next]
            IN  CASE p = 0 -> [pairs |-> <<>>, ok |-> TRUE]
                  [] p # 0 /\ p \notin there -> [pairs |-> <<>>, ok |-> FALSE]
                  [] p # 0 /\ p \in there -> [pairs |-> PairsFrom(n, 1) \o rest.pairs, ok |-> rest.ok]
    IN  run

Leftmosts(t) ==
    LET leaf[p \in DOMAIN t.nodes] == IF IsLeaf(t.nodes[p]) THEN p ELSE leaf[t.nodes[p].ptrs[1]]
    IN  leaf

ScanAll(t, there) == Scans(t, there)[Leftmosts(t)[t.root]]

\* From a key, or from the next one if it is not there: that may be in the next
\* leaf.
ScanFrom(t, there, k) ==
    LET path == PathTo(t, k)
        n    == t.nodes[Last(path)]
        rest == Scans(t, there)[n.next]
    IN  IF ~(Range(path) \subseteq there) THEN [pairs |-> <<>>, ok |-> FALSE]
        ELSE [pairs |-> PairsFrom(n, Smaller(t.cmp, n, k) + 1) \o rest.pairs, ok |-> rest.ok]

\* The nodes below each one from the right to the left, and then itself.
RightToLefts(t) ==
    LET visit[p \in DOMAIN t.nodes] ==
            LET ptrs == t.nodes[p].ptrs
            IN  FlattenSeq([i \in DOMAIN ptrs |-> visit[ptrs[Len(ptrs) + 1 - i]]]) \o <<p>>
    IN  visit

RightToLeft(t) == RightToLefts(t)[t.root]

\* From the last pair to the first, without the links between the leaves.
ScanReverse(t) ==
    LET order == RightToLeft(t)
    IN  FlattenSeq([i \in DOMAIN order |-> Reverse(PairsFrom(t.nodes[order[i]], 1))])

\* The nodes, each before those below it.
IterDFSs(t) ==
    LET visit[p \in DOMAIN t.nodes] ==
            LET ptrs == t.nodes[p].ptrs
            IN  <<p>> \o FlattenSeq([i \in DOMAIN ptrs |-> visit[ptrs[i]]])
    IN  visit

IterDFS(t) == IterDFSs(t)[t.root]

-----------------------------------------------------------------------------
\* Persist: below a node first, from right to left, so that a leaf knows the
\* address of the next one when it is written; conv converts the values.

Persist(t, conv) ==
    LET order     == RightToLeft(t)
        ptr(p)    == CHOOSE i \in DOMAIN order : order[i] = p
        leaves(i) == {j \in 1 .. i - 1 : IsLeaf(t.nodes[order[j]])}
        lastptr(i) == IF leaves(i) = {} THEN 0 ELSE Max(leaves(i))
        copy(n, i) == [keys |-> n.keys, vals |-> [j \in DOMAIN n.vals |-> conv[n.vals[j]]],
                       ptrs |-> [j \in DOMAIN n.ptrs |-> ptr(n.ptrs[j])],
                       next |-> IF IsLeaf(n) THEN lastptr(i) ELSE 0]
    IN  [t EXCEPT !.root = Len(order), !.nodes = [i \in DOMAIN order |-> copy(t.nodes[order[i]], i)]]

\* The values in the order in which Persist converts them.
Conversions(t) ==
    LET order == RightToLeft(t)
    IN  FlattenSeq([i \in DOMAIN order |-> t.nodes[order[i]].vals])

-----------------------------------------------------------------------------
\* A tree is a sorted list: this is what the parts above must agree on.

Pairs(t) == ScanAll(t, DOMAIN t.nodes).pairs
Keys(t)  == [i \in DOMAIN Pairs(t) |-> Pairs(t)[i][1]]
Sorted(cmp, pairs) == \A i, j \in DOMAIN pairs : i < j => Before(cmp, pairs[i][1], pairs[j][1])

Sound(t, probes) ==
    LET all == Pairs(t)
        smaller(k) == {i \in DOMAIN all : Before(t.cmp, all[i][1], k)}
    IN  /\ \A p \in DOMAIN t.nodes : Len(t.nodes[p].keys) < Order
        /\ Sorted(t.cmp, all)
        /\ ScanReverse(t) = Reverse(all)
        /\ Range(IterDFS(t)) = DOMAIN t.nodes
        /\ \A i \in DOMAIN all : Find(t, all[i][1]) = <<all[i][2]>>
        /\ \A k \in probes :
              /\ ScanFrom(t, DOMAIN t.nodes, k).pairs = SubSeq(all, Cardinality(smaller(k)) + 1, Len(all))
              /\ Find(t, k) # <<>> => \E i \in DOMAIN all : all[i][1] = k
=============================================================================
