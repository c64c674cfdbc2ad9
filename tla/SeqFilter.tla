----------------------------- MODULE SeqFilter ------------------------------
(* Filtering a sequence by a set.  SelectSeq takes an operator, which leaves *)
(* the provers nothing to reason about; Only takes the set of what it keeps. *)
EXTENDS Naturals, Sequences, FiniteSets

RangeOf(s) == {s[i] : i \in DOMAIN s}

\* How many of the first n elements of s are in S.
Rank(s, S, n) == Cardinality({j \in 1..n : s[j] \in S})

\* The elements of s that are in S, in their order.
Only(s, S) ==
    [k \in 1..Rank(s, S, Len(s)) |->
        s[CHOOSE i \in DOMAIN s : s[i] \in S /\ Rank(s, S, i) = k]]
=============================================================================
