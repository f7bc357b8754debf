----------------------------- MODULE MCDatabase -----------------------------
(* Instances of Database for TLC. *)
EXTENDS Database

CONSTANTS a, b

MCOutputs == {<<a>>, <<a, b>>}
=============================================================================
