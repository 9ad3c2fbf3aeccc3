---------------------------- MODULE SymbolRadio ----------------------------
(***************************************************************************)
(* What the radio drivers of the supported boards share. A driver offers   *)
(* hubble_sat_board_enable, _disable and _packet_send, plus the test mode  *)
(* (DTM) calls. A packet is a row of symbols: the carrier is on, at the    *)
(* symbol's frequency, for a fixed time, and off for a fixed time. Two     *)
(* tasks use the driver: one that transmits through the port, which lets   *)
(* one task in at a time, and the test mode, which the port does not       *)
(* serialise with the first.                                               *)
(***************************************************************************)
EXTENDS Naturals, Sequences

CONSTANTS
  Boards,   \* the boards whose driver is modelled
  Symbols   \* symbols of a packet

ASSUME SymbolRadioAssumption ==
  /\ Symbols \in Nat \ {0}
  /\ Boards \subseteq
       {"nrf52", "nrf53", "nrf54", "mpsl", "esp", "zephyr_rail", "sisdk_rail", "ti"}

Users == {"port", "test"}
Nobody == "nobody"

VARIABLES
  board,   \* the driver in use
  cond,    \* how the application behaves, see Conditions
  hw,      \* the radio, its timer and what connects them
  saved,   \* _normal_power, _power: what Bluetooth had when the radio was enabled
  lock,    \* holder of _transmit_sem
  sym,     \* count of _symbol_sem (_done_sem of the MPSL driver)
  air,     \* the symbols the current packet has put on the air; 0 is a spoiled one
  pc, i, ret,   \* per task: where it is, the current symbol, what it returns
  ts       \* the MPSL timeslot driver's own state, see MpslRadio

task == << pc, i, ret >>
vars == << board, cond, hw, saved, lock, sym, air, task, ts >>

(* alone:  the test mode is used only while the port is idle.               *)
(* prompt: the transmitting task runs within the pause between two symbols. *)
(* tidy:   the test mode does not set the power of a radio at rest, and its *)
(*         carrier always starts.                                           *)
(* Only where they make a difference: the other drivers do not depend on the *)
(* task being prompt, nor on how their test mode is used.                    *)
Conditions(b) ==
  { c \in [ alone : BOOLEAN, prompt : BOOLEAN, tidy : BOOLEAN ] :
      /\ c.prompt => c.alone /\ b \in {"nrf52", "nrf53", "nrf54"}
      /\ b \in {"mpsl", "esp", "ti"} => c.tidy }

(* hw: carrier  the radio is emitting                                        *)
(*     tone     the symbol it is tuned to; 0 is any other                    *)
(*     tim      the symbol timer: "disabled", "off", "gap", "on", "armed"    *)
(*     wire     the timer's events are routed to the radio,                  *)
(*     chan     and the channels that carry them enabled                     *)
(*     irq, ev  the radio's interrupt is enabled, its event is pending       *)
(*     mode     whose settings the radio has: power, step, owner             *)
(*     pa       the external amplifier of an nRF52: "setup", "on", "sleep"   *)
(*     clock    who keeps the HF clock running: users, "kept"                *)
PCs == { "idle", "enabling", "configuring", "calling", "enabled", "waiting", "queueing",
         "tuning", "streaming", "symbol", "gap", "ending", "sleeping", "sent", "toning",
         "tone", "disabling", "closing" }

(* Where a task is inside hubble_sat_board_packet_send, past the semaphore. *)
InLoop == {"queueing", "tuning", "streaming", "symbol", "gap", "ending"}

Init ==
  /\ board \in Boards
  /\ cond \in Conditions(board)
  /\ hw = [ carrier |-> FALSE, tone |-> 0,
            tim |-> IF board = "esp" THEN "disabled" ELSE "off",
            wire |-> board = "nrf52", chan |-> FALSE, irq |-> FALSE, ev |-> FALSE,
            mode |-> "ble", pa |-> "setup", clock |-> {} ]
  /\ saved = "ble"
  /\ lock = Nobody
  /\ sym = 0
  /\ air = << >>
  /\ pc = [ u \in Users |-> "idle" ]
  /\ i = [ u \in Users |-> 0 ]
  /\ ret = [ u \in Users |-> "ok" ]
  /\ ts = [ queue |-> << >>, result |-> "ok", called |-> FALSE, open |-> FALSE,
            request |-> "none", index |-> 0, out |-> "ok", signals |-> << >> ]

-----------------------------------------------------------------------------
Goto(u, from, to) == pc[u] = from /\ pc' = [ pc EXCEPT ![u] = to ]

Return(u, r) == ret' = [ ret EXCEPT ![u] = r ]

(* The conditions under which a packet must be whole, and "air" is kept: the *)
(* test mode leaves the port alone, and a task that tunes the radio for a    *)
(* timer that does not wait is on time.                                      *)
Watched == cond.alone /\ (board \in {"nrf52", "nrf53", "nrf54"} => cond.prompt)

(* Room for one symbol more than the packet has is enough to see a packet    *)
(* that is too long.                                                         *)
Emit(s) == air' = IF Watched /\ Len(air) <= Symbols THEN Append(air, s) ELSE air

(* The radio is tuned to a symbol: under a carrier that spoils it. *)
Tuned(s) == IF Watched /\ ~hw.carrier THEN s ELSE 0

(* A call returns, and its locals are gone. *)
Back(u, from) ==
  /\ Goto(u, from, "idle")
  /\ ret' = [ ret EXCEPT ![u] = "ok" ]

(* The symbol after the current one, or the end of the loop. *)
NextSymbol(u, from) ==
  /\ Goto(u, from, IF i[u] = Symbols THEN "ending" ELSE "tuning")
  /\ i' = [ i EXCEPT ![u] = IF @ = Symbols THEN 0 ELSE @ + 1 ]

(* The loop is left with an error. *)
Break(u, from) ==
  /\ Goto(u, from, "ending")
  /\ i' = [ i EXCEPT ![u] = 0 ]
  /\ Return(u, "error")

(* Mutant of Take: the symbol semaphore is not reset.                        *)
TakeNoReset(u) ==
  /\ Goto(u, "waiting", "tuning")
  /\ lock = Nobody
  /\ lock' = u
  /\ UNCHANGED sym
  /\ air' = << >>
  /\ i' = [ i EXCEPT ![u] = 1 ]

(* hubble_sat_board_packet_send takes _transmit_sem, forgets what an earlier *)
(* transmission left in _symbol_sem, and starts with the first symbol.       *)
Take(u) ==
  /\ Goto(u, "waiting", "tuning")
  /\ lock = Nobody
  /\ lock' = u
  /\ sym' = 0
  /\ air' = << >>
  /\ i' = [ i EXCEPT ![u] = 1 ]

(* The semaphore is given before the board of an nRF52 puts its amplifier to *)
(* sleep.                                                                    *)
Give(u) ==
  /\ Goto(u, "ending", IF board = "nrf52" THEN "sleeping" ELSE "sent")
  /\ lock' = Nobody

-----------------------------------------------------------------------------
(* The callers: hubble_sat_port_packet_send, which has the port's semaphore  *)
(* here, and the test mode's packet and carrier calls, which have none.      *)
Call(u) ==
  /\ Goto(u, "idle", "enabling")
  /\ cond.alone => \A v \in Users : pc[v] = "idle"
  /\ UNCHANGED << board, cond, hw, saved, lock, sym, air, i, ret, ts >>

(* The port transmits again as long as nothing failed. The board of an nRF52 *)
(* turns its amplifier on before it calls the driver.                        *)
SendCall(u) ==
  /\ \/ Goto(u, "enabled", "waiting")
     \/ u = "port" /\ ret[u] = "ok" /\ Goto(u, "sent", "waiting")
  /\ air' = IF pc[u] = "sent" THEN << >> ELSE air
  /\ hw' = [ hw EXCEPT !.pa = IF board = "nrf52" THEN "on" ELSE @ ]
  /\ UNCHANGED << board, cond, saved, lock, sym, i, ret, ts >>

(* After the last transmission, or when its frames cannot be computed. *)
Leave(u) ==
  /\ Goto(u, "sent", "disabling") \/ Goto(u, "enabled", "disabling")
  /\ air' = << >>
  /\ UNCHANGED << board, cond, hw, saved, lock, sym, i, ret, ts >>

Caller(u) == Call(u) \/ SendCall(u) \/ Leave(u)
=============================================================================
