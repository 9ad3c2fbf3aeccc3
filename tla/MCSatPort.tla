----------------------------- MODULE MCSatPort -----------------------------
(* Model-checking instances of SatPort. Tasks, and the semaphores a heap can *)
(* give, are interchangeable.                                                *)
EXTENDS SatPort, TLC

Symmetry == Permutations(Threads) \cup Permutations(Sems)
=============================================================================
