--------------------------- MODULE MCMessageNonce ---------------------------
(* Model-checking instances of MessageNonce: the .cfg files give the         *)
(* constants; tasks are interchangeable where no liveness is checked.        *)
EXTENDS MessageNonce, TLC

TaskSymmetry == Permutations(Threads)
=============================================================================
