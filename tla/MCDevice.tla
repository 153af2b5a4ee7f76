------------------------------- MODULE MCDevice -------------------------------
(* Model-checking instances of Device. *)
EXTENDS Device
=============================================================================
