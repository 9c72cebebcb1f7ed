--------------------------- MODULE MCRefreshTokens ---------------------------
(***************************************************************************)
(* RefreshTokens on small instances.  Tokens and requests are              *)
(* interchangeable.                                                        *)
(***************************************************************************)
EXTENDS RefreshTokensBaton, FiniteSets, TLC

Symmetry == Permutations(Tokens) \cup Permutations(Requests)

\* Bound: everything overlaps on the first day; on the days after it, which are
\* there for the lifetimes, one request runs at a time on one session row.
OverlapOnFirstDay ==
  clock > 0 =>
    /\ Cardinality({r \in Requests : pc[r] # "idle"}) <= 1
    /\ Cardinality(Inserted) <= 1
=============================================================================
