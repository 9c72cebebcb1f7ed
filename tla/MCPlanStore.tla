----------------------------- MODULE MCPlanStore -----------------------------
(***************************************************************************)
(* PlanStore on a small instance.  Requests are interchangeable; plans and *)
(* ids are numbers and are not.                                            *)
(***************************************************************************)
EXTENDS PlanStore, TLC

Symmetry == Permutations(Requests)

\* No plan has a code other than its id.
Plain == \A o \in DOMAIN objects : objects[o].row.code = objects[o].id

\* Bounds: calls overlap only while codes are ids and no plan has phases; a third
\* request is made only while codes are ids, on two lists and without a fault.
Bounded ==
  /\ alone \/ (Plain /\ \A b \in Born : phased[b] = 0)
  /\ begun <= 2 \/ (Plain /\ Newest <= 2 /\ faults = 0)
=============================================================================
