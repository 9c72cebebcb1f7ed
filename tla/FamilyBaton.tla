----------------------------- MODULE FamilyBaton -----------------------------
(***************************************************************************)
(* What token rotation promises, without requests, sessions or statements. *)
(* A family of refresh tokens is a baton.  It is held by one token, or it  *)
(* is in flight from a token that was redeemed to its successor, or it is  *)
(* lost.  A lost baton is never found again, and no token holds a baton    *)
(* twice.                                                                  *)
(***************************************************************************)
CONSTANTS
  Families, Tokens,
  InFlight,  \* the last holder was redeemed, the successor is not there yet
  Lost,      \* revoked, or the redemption was never completed
  Unborn     \* nobody has logged in with this family yet

VARIABLES
  holder,    \* who holds the baton of each family
  past       \* tokens that hold, or have held, some baton

vars == <<holder, past>>

TypeOK ==
  /\ holder \in [Families -> Tokens \cup {InFlight, Lost, Unborn}]
  /\ past \subseteq Tokens

Init ==
  /\ holder = [f \in Families |-> Unborn]
  /\ past = {}

\* The baton of f goes to a token that has never held one.
Hand(f) ==
  \E t \in Tokens \ past :
    /\ holder' = [holder EXCEPT ![f] = t]
    /\ past' = past \cup {t}

Start(f) == holder[f] = Unborn /\ Hand(f)

Redeem(f) ==
  /\ holder[f] \in Tokens
  /\ holder' = [holder EXCEPT ![f] = InFlight]
  /\ UNCHANGED past

Succeed(f) == holder[f] = InFlight /\ Hand(f)

\* A logout or a new login loses the batons of a whole session at once.
Lose(F) ==
  /\ \A f \in F : holder[f] \in Tokens \cup {InFlight}
  /\ holder' = [f \in Families |-> IF f \in F THEN Lost ELSE holder[f]]
  /\ UNCHANGED past

Next ==
  \/ \E f \in Families : Start(f) \/ Redeem(f) \/ Succeed(f)
  \/ \E F \in SUBSET Families : Lose(F)

Spec == Init /\ [][Next]_vars
=============================================================================
