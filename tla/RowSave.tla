------------------------------- MODULE RowSave -------------------------------
(***************************************************************************)
(* repository.save(entity) of TypeORM on one existing row, as the services *)
(* use it: a SELECT of the row, then an UPDATE of the columns in which the *)
(* entity differs from what was selected.  A row and an entity are records *)
(* with the same fields; the columns an entity was read with long ago are  *)
(* written like the columns that were set on purpose.                      *)
(***************************************************************************)

\* What save() decides to write when its SELECT returns the row.
Changed(row, entity) == {col \in DOMAIN row : entity[col] # row[col]}

\* What the UPDATE of those columns leaves behind.
Written(row, entity, cols) ==
  [col \in DOMAIN row |-> IF col \in cols THEN entity[col] ELSE row[col]]

=============================================================================
