------------------------------- MODULE MCClock -------------------------------
(* Model-checking instances of Clock: words of 4 bits, slices as task_setup *)
(* gives them (idle has priority 1), shortened for the other tasks.         *)
EXTENDS Clock

Slices == [n \in Pid |-> IF n = Idle THEN 1 ELSE 2]
=============================================================================
