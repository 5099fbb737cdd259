----------------------------- MODULE Subsequence -----------------------------
(***************************************************************************)
(* The elements of a sequence that are in a set, in their order.  SelectSeq  *)
(* of the standard modules does the same by a recursion that the provers     *)
(* cannot expand; here the place of an element is the number of kept         *)
(* elements up to it.                                                        *)
(***************************************************************************)
EXTENDS Integers, FiniteSets, Sequences

KeptIn(s, S) == {i \in DOMAIN s : s[i] \in S}

\* the number of places in K up to i
Rank(K, i) == Cardinality({j \in K : j <= i})

Kth(K, k) == CHOOSE i \in K : Rank(K, i) = k

Only(s, S) ==
  [k \in 1 .. Cardinality(KeptIn(s, S)) |-> s[Kth(KeptIn(s, S), k)]]
=============================================================================
