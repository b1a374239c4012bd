----------------------------- MODULE MCCollector -----------------------------
(* Collector on a few addresses; all but the root are alike.                *)
EXTENDS Collector

CONSTANTS c0, c1, c2, c3

Symmetry == Permutations({c1, c2, c3} \cap Cell)
===============================================================================
