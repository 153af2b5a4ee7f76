------------------------------- MODULE MCMutex -------------------------------
(* Model-checking instances of Mutex. *)
EXTENDS Mutex
=============================================================================
