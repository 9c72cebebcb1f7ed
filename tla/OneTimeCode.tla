----------------------------- MODULE OneTimeCode -----------------------------
(***************************************************************************)
(* What a one-time login code promises: it is issued, then either lets in  *)
(* exactly one login or is withdrawn, and neither is ever undone.          *)
(***************************************************************************)
EXTENDS Naturals

CONSTANT Codes    \* codes that may ever be issued

VARIABLES
  state,  \* of each code
  uses    \* logins each code has let in

vars == <<state, uses>>

TypeOK ==
  /\ state \in [Codes -> {"unissued", "open", "spent", "withdrawn"}]
  /\ uses \in [Codes -> {0, 1}]

Init ==
  /\ state = [c \in Codes |-> "unissued"]
  /\ uses = [c \in Codes |-> 0]

Issue(c) ==
  /\ state[c] = "unissued"
  /\ state' = [state EXCEPT ![c] = "open"]
  /\ UNCHANGED uses

\* Several open codes may be withdrawn at once.
Withdraw(S) ==
  /\ \A c \in S : state[c] = "open"
  /\ state' = [c \in Codes |-> IF c \in S THEN "withdrawn" ELSE state[c]]
  /\ UNCHANGED uses

Spend(c) ==
  /\ state[c] = "open"
  /\ state' = [state EXCEPT ![c] = "spent"]
  /\ uses' = [uses EXCEPT ![c] = @ + 1]

Next ==
  \/ \E c \in Codes : Issue(c) \/ Spend(c)
  \/ \E S \in SUBSET Codes : Withdraw(S)

Spec == Init /\ [][Next]_vars

=============================================================================
