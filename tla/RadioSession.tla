---------------------------- MODULE RadioSession ----------------------------
(***************************************************************************)
(* What hubble_sat_port_packet_send promises ("This API is thread safe",   *)
(* include/hubble/port/sat_radio.h): the transmissions of one call form a  *)
(* session with the radio to itself. A session opens, transmits, and       *)
(* closes; no other call transmits meanwhile.                              *)
(***************************************************************************)
EXTENDS Naturals

CONSTANTS
  Threads,   \* the callers
  MaxTx,     \* the most transmissions one call makes
  NoThread

VARIABLES
  owner,     \* the caller whose session is open
  planned    \* transmissions the open session has yet to make

vars == << owner, planned >>

Init == owner = NoThread /\ planned = 0

Open(t) ==
  /\ owner = NoThread
  /\ owner' = t
  /\ planned' \in 1 .. MaxTx

Transmit(t) ==
  /\ owner = t
  /\ planned > 0
  /\ planned' = planned - 1
  /\ UNCHANGED owner

(* Early when a transmission failed. *)
Close(t) ==
  /\ owner = t
  /\ owner' = NoThread
  /\ planned' = 0

Next == \E t \in Threads : Open(t) \/ Transmit(t) \/ Close(t)

Spec == Init /\ [][Next]_vars
=============================================================================
