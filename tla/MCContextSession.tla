-------------------------- MODULE MCContextSession --------------------------
(* ContextSession on small sets of model values, all interchangeable.      *)
EXTENDS ContextSession, TLC

Symmetry == Permutations(Objects) \cup Permutations(Sessions)
=============================================================================
