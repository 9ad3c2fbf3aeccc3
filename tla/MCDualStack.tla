---------------------------- MODULE MCDualStack ----------------------------
(***************************************************************************)
(* All the samples, with room for two satellites.                        *)
(***************************************************************************)
EXTENDS DualStackSamples

MCPlatforms == {"zephyr", "esp", "ti", "silabs"}
=============================================================================
