------------------------------ MODULE JsPoolMC ------------------------------
(* Instances of JsPool for TLC.                                               *)
EXTENDS JsPool, TLC

Symmetry == Permutations(Tasks)

=============================================================================
