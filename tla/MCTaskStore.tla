----------------------------- MODULE MCTaskStore -----------------------------
(***************************************************************************)
(* TaskStore on a small instance.  Its run checks liveness, so that the    *)
(* requests are not declared interchangeable: a constraint has them made   *)
(* in order instead.                                                       *)
(***************************************************************************)
EXTENDS TaskStore

CONSTANTS q1, q2

\* The requests differ in nothing but their names: the first is made first.
InOrder == call[q2].at = "idle" \/ call[q1].at # "idle"
=============================================================================
