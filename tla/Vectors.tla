------------------------------ MODULE Vectors ------------------------------
(***************************************************************************)
(* The part of std::vector that the broker uses and the Sequences module   *)
(* does not name: dropping elements while the others keep their order      *)
(* (std::erase_if).  Pick is written with ranks, not recursively, so that  *)
(* it can be reasoned about: see VectorsProofs.                            *)
(***************************************************************************)
EXTENDS Naturals, Sequences, FiniteSets

\* How many elements of the index set K are not beyond i.
Rank(K, i) == Cardinality({j \in K : j <= i})

\* The k-th smallest element of the index set K.
Nth(K, k) == CHOOSE i \in K : Rank(K, i) = k

\* The elements of s at the indices K, in the order they have in s.
Pick(s, K) == [k \in 1..Cardinality(K) |-> s[Nth(K, k)]]
============================================================================
