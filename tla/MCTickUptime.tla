---------------------------- MODULE MCTickUptime ----------------------------
(* Model-checking instances of TickUptime. *)
EXTENDS TickUptime, TLC

Symmetry == Permutations(Callers)
=============================================================================
