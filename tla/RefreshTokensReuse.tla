-------------------------- MODULE RefreshTokensReuse --------------------------
(***************************************************************************)
(* RefreshTokens with a history of the reuses that were detected and       *)
(* answered: revokeFamily has gone through, both statements of it, and the *)
(* client that presented the used token has its 401.                       *)
(***************************************************************************)
EXTENDS RefreshTokens

VARIABLE detected  \* history: families whose reuse was detected and answered

\* The last statement of r's revokeFamily, after a token that was used.
Detects(r) ==
  /\ held[r] \in used
  /\ \/ todo[r] = {"tokens"}  /\ CutTokens(r)
     \/ todo[r] = {"session"} /\ CutSession(r)

ReuseInit == Init /\ detected = {}
ReuseNext ==
  /\ Next
  /\ detected' = detected \cup {fam[held[r]] : r \in {q \in Requests : Detects(q)}}

ReuseSpec == ReuseInit /\ [][ReuseNext]_<<vars, detected>>

-----------------------------------------------------------------------------
\* What the test "revokes the token family and session when reuse is detected"
\* says, for the clients: once the reuse is answered, no client holds a token of
\* the family that could still be redeemed.
ReuseRevokesFamilyAndSession ==
  \A f \in detected : \A t \in Family(f) \cap known : ~(Live(t) /\ ses[t] \in active)

=============================================================================
