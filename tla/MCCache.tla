------------------------------- MODULE MCCache -------------------------------
(* Model-checking instances of Cache. *)
EXTENDS Cache
=============================================================================
