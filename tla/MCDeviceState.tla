--------------------------- MODULE MCDeviceState ---------------------------
(* Model-checking instances of DeviceState. *)
EXTENDS DeviceState, TLC

Symmetry == Permutations(Threads)
=============================================================================
