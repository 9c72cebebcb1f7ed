---------------------------- MODULE MCWebSession ----------------------------
(***************************************************************************)
(* WebSession on small instances.  Tabs, calls, POSTs and requests are     *)
(* interchangeable, and so are tokens.                                     *)
(***************************************************************************)
EXTENDS WebSession, TLC

Symmetry ==
  Permutations(Tabs) \cup Permutations(Calls) \cup Permutations(Posts)
    \cup Permutations(Requests) \cup Permutations(Tokens)

\* A browser that is no longer calm is followed until its first refresh is done
\* and a second access token has expired.
CalmGoesOn == calm \/ (Cardinality(known) <= 2 /\ Cardinality(dead) <= 1)
=============================================================================
