---------------------------- MODULE MCBoardRadio ----------------------------
(***************************************************************************)
(* All the boards, packets of two symbols.                               *)
(***************************************************************************)
EXTENDS BoardRadio

MCBoards ==
  {"nrf52", "nrf53", "nrf54", "mpsl", "esp", "zephyr_rail", "sisdk_rail", "ti"}
=============================================================================
