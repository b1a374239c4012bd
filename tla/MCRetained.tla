------------------------------ MODULE MCRetained ------------------------------
(* Retained with tokens that are in force, released, reused or forged.      *)
EXTENDS Retained
===============================================================================
