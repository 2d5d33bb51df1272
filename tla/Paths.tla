------------------------------- MODULE Paths -------------------------------
(***************************************************************************)
(* Pathnames, as sequences of names; <<>> is "/".  The names are numbers,  *)
(* in the order of the strings they stand for.                             *)
(***************************************************************************)
EXTENDS Integers, Sequences, SequencesExt, FiniteSetsExt

Root == <<>>
Parent(path) == Front(path)

\* strings.Compare: a directory comes before what is in it, and all of that
\* before its next sibling.  (So it is when no name has a character that sorts
\* before the slash.)
StringLess(a, b) ==
    \/ IsStrictPrefix(a, b)
    \/ \E i \in 1 .. Min({Len(a), Len(b)}) :
          a[i] < b[i] /\ \A j \in 1 .. i - 1 : a[j] = b[j]

\* PathCmp: level by level, and in the order of the strings within a level.
PathLess(a, b) ==
    \/ Len(a) < Len(b)
    \/ Len(a) = Len(b) /\ StringLess(a, b)

\* isEntryBelow, for a parent that ends in a slash.
IsEntryBelow(parent, entry) == Len(entry) = Len(parent) + 1 /\ IsPrefix(parent, entry)

\* The paths of a set from the first to the last one, as the strings they are.
InStringOrder(paths) ==
    [i \in 1 .. Cardinality(paths) |->
        CHOOSE path \in paths : Cardinality({q \in paths : StringLess(q, path)}) = i - 1]
=============================================================================
