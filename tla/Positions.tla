----------------------------- MODULE Positions -----------------------------
(***************************************************************************)
(* Positions in a queue of posted handlers.                                *)
(***************************************************************************)
EXTENDS Naturals, FiniteSets

\* How many of the positions S are up to i.
Rank(S, i) == Cardinality({j \in S : j <= i})

=============================================================================
