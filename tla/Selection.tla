----------------------------- MODULE Selection ------------------------------
(***************************************************************************)
(* What a filter over a sequence keeps, in its order.                      *)
(***************************************************************************)
EXTENDS Naturals, FiniteSets

\* The numbers of a finite set in increasing order: the k-th one has k - 1 before it.
InOrder(I) == [k \in 1 .. Cardinality(I) |-> CHOOSE i \in I : Cardinality({j \in I : j < i}) = k - 1]

\* The elements of a sequence that are in A, in order
Those(s, A) ==
  LET at == InOrder({i \in DOMAIN s : s[i] \in A}) IN [k \in DOMAIN at |-> s[at[k]]]
=============================================================================
