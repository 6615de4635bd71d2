---------------------------- MODULE Subsequence ------------------------------
(***************************************************************************)
(* What a loop that appends some of the elements of a sequence to a new    *)
(* one computes, in terms of the positions of these elements.              *)
(***************************************************************************)
EXTENDS Integers, Sequences, FiniteSets

\* The n-th of the positions I.
Nth(I, n) == CHOOSE i \in I : Cardinality(I \cap 1..i) = n

\* The elements of s at the positions I, in their order.
Subsequence(s, I) == [n \in 1..Cardinality(I) |-> s[Nth(I, n)]]

=============================================================================
