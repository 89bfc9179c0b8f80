----------------------------- MODULE Selection ------------------------------
(***************************************************************************)
(* What a filter keeps of a sequence.  It is stated by the place that each *)
(* kept member gets, the number of those kept before it, so that proofs    *)
(* need no recursion.                                                      *)
(***************************************************************************)
EXTENDS Naturals, FiniteSets

\* How many of the positions in S are before i.
Rank(S, i) == Cardinality({j \in S : j < i})

\* The members of h at the positions in S, in their order.
Keeping(h, S) == [n \in 1 .. Cardinality(S) |-> h[CHOOSE i \in S : Rank(S, i) = n - 1]]

=============================================================================
