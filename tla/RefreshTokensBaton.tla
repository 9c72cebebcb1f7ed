-------------------------- MODULE RefreshTokensBaton --------------------------
(***************************************************************************)
(* The rows of user_refresh_token, with the requests that work on them,    *)
(* implement the baton.                                                    *)
(***************************************************************************)
EXTENDS RefreshTokens

CONSTANTS InFlight, Lost, Unborn

ASSUME HolderAssumption ==
  /\ {InFlight, Lost, Unborn} \cap Tokens = {}
  /\ InFlight # Lost /\ InFlight # Unborn /\ Lost # Unborn

LiveIn(f)  == {t \in rows : fam[t] = f /\ Live(t)}
Started(f) == f \in rows /\ fam[f] = f

Holder(f) ==
  IF LiveIn(f) # {} THEN CHOOSE t \in LiveIn(f) : TRUE
  ELSE IF \E r \in Requests : Minting(r) /\ fam[held[r]] = f THEN InFlight
  ELSE IF Started(f) THEN Lost ELSE Unborn

Baton == INSTANCE FamilyBaton
           WITH Families <- Tokens,
                holder <- [f \in Tokens |-> Holder(f)],
                past <- rows

\* Every statement of every request moves the batons the way FamilyBaton
\* allows, or not at all: a family is never forked, a revoked family whose
\* rotations are over stays dead, a redeemed token is never redeemed again.
HoldsBaton == Baton!Spec

=============================================================================
