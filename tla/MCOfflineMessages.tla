--------------------------- MODULE MCOfflineMessages ---------------------------
(* Two messages; symmetric in the safety runs.                                *)
EXTENDS OfflineMessages, TLC

CONSTANTS m1, m2, d1, d2

Symmetry == Permutations({m1, m2}) \union Permutations({d1, d2})
================================================================================
