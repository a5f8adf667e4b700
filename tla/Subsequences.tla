----------------------------- MODULE Subsequences -----------------------------
(***************************************************************************)
(* The subsequence of a sequence that a set of elements picks, by the rank *)
(* of the places where they stand.  It is SelectSeq with a set for a test; *)
(* the definition without recursion is one that can be proved about.       *)
(***************************************************************************)
EXTENDS Integers, FiniteSets, SequencesExt

\* Where s has an element of S, and how many such places there are up to i.
Places(s, S) == {i \in 1 .. Len(s) : s[i] \in S}
Rank(s, S, i) == Cardinality({j \in 1 .. i : s[j] \in S})

Keep(s, S) ==
    LET I == Places(s, S)
    IN  [k \in 1 .. Cardinality(I) |-> s[CHOOSE i \in I : Rank(s, S, i) = k]]
=============================================================================
