----------------------------- MODULE MCTerminal ------------------------------
(* The shell, its job and a child of the job, a keyboard and a serial line. *)
EXTENDS Terminal

MCLine == {"\r"}
=============================================================================
