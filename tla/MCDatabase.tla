------------------------------ MODULE MCDatabase ------------------------------
(* Database with two columns, of which backup_id is one, and two values. *)
EXTENDS Database, TLC

Columns == {"backup_id", "backup_status"}

Symmetry == Permutations(Object) \cup Permutations(Value)
=============================================================================
