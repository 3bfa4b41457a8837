--------------------------- MODULE SequenceNextMC ---------------------------
(* SequenceNext on a small instance: calls and keys are interchangeable.     *)
EXTENDS SequenceNext, TLC

Symmetry == Permutations(Requests) \cup Permutations(Keys)

=============================================================================
