------------------------------- MODULE MCUnwind -------------------------------
(* Unwind with a step limit, or a memory limit, on small programs.          *)
EXTENDS Unwind
===============================================================================
