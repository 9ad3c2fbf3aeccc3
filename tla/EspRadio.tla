----------------------------- MODULE EspRadio ------------------------------
(***************************************************************************)
(* The Espressif driver:                                                   *)
(* port/esp-idf/hubblenetwork-sdk/boards/espressif/radio.c. The task turns *)
(* the tone on and off itself and sleeps in between, on a semaphore that a *)
(* one-shot timer gives. The timer counts only while it is enabled, which  *)
(* is what enabling the radio does; hw.mode is the step of the synthesizer *)
(* (phy_set_step_01k), which Bluetooth does not use.                       *)
(***************************************************************************)
EXTENDS SymbolRadio

(* _timer_cb *)
EspTimer ==
  /\ board = "esp"
  /\ hw.tim = "armed"
  /\ hw' = [ hw EXCEPT !.tim = "off" ]
  /\ sym' = 1
  /\ UNCHANGED << board, cond, saved, lock, air, task, ts >>

(* gptimer_enable refuses a timer that is enabled. *)
EspEnable(u) ==
  /\ board = "esp"
  /\ \/ /\ hw.tim = "disabled"
        /\ Goto(u, "enabling", "enabled")
        /\ hw' = [ hw EXCEPT !.tim = "off", !.mode = "sat" ]
        /\ UNCHANGED ret
     \/ Back(u, "enabling") /\ UNCHANGED hw
  /\ UNCHANGED << board, cond, saved, lock, sym, air, i, ts >>

(* Whatever runs is stopped, and a timer disabled twice is an error. *)
EspDisable(u) ==
  /\ board = "esp"
  /\ Back(u, "disabling")
  /\ hw' = [ hw EXCEPT !.tim = "disabled", !.mode = "ble" ]
  /\ UNCHANGED << board, cond, saved, lock, sym, air, i, ts >>

EspTake(u) ==
  /\ board = "esp"
  /\ Take(u)
  /\ UNCHANGED << board, cond, hw, saved, ret, ts >>

(* _radio_cw_start up to its first wait. *)
EspOn(u) ==
  /\ board = "esp"
  /\ \/ /\ hw.tim # "disabled"
        /\ Goto(u, "tuning", "symbol")
        /\ hw' = [ hw EXCEPT !.carrier = TRUE, !.tone = Tuned(i[u]), !.tim = "armed" ]
        /\ UNCHANGED << i, ret >>
     \/ Break(u, "tuning") /\ hw' = [ hw EXCEPT !.carrier = FALSE, !.tone = 0 ]
  /\ UNCHANGED << board, cond, saved, lock, sym, air, ts >>

(* The tone's time is over, unless the semaphore was given by something else. *)
EspOff(u) ==
  /\ board = "esp"
  /\ sym = 1
  /\ sym' = 0
  /\ Emit(IF hw.tim = "armed" THEN 0 ELSE hw.tone)
  /\ \/ /\ hw.tim # "disabled"
        /\ Goto(u, "symbol", "gap")
        /\ hw' = [ hw EXCEPT !.carrier = FALSE, !.tone = 0, !.tim = "armed" ]
        /\ UNCHANGED << i, ret >>
     \/ Break(u, "symbol") /\ hw' = [ hw EXCEPT !.carrier = FALSE, !.tone = 0 ]
  /\ UNCHANGED << board, cond, saved, lock, ts >>

EspGap(u) ==
  /\ board = "esp"
  /\ sym = 1
  /\ sym' = 0
  /\ NextSymbol(u, "gap")
  /\ UNCHANGED << board, cond, hw, saved, lock, air, ret, ts >>

EspGive(u) ==
  /\ board = "esp"
  /\ Give(u)
  /\ UNCHANGED << board, cond, hw, saved, sym, air, i, ret, ts >>

(* The test mode's tone cannot fail, and is stopped by a register write. *)
EspCwStart(u) ==
  /\ board = "esp"
  /\ Goto(u, "enabled", "tone")
  /\ hw' = [ hw EXCEPT !.carrier = TRUE, !.tone = 0 ]
  /\ UNCHANGED << board, cond, saved, lock, sym, air, i, ret, ts >>

EspCwStop(u) ==
  /\ board = "esp"
  /\ Goto(u, "tone", "disabling")
  /\ hw' = [ hw EXCEPT !.carrier = FALSE, !.tone = 0 ]
  /\ UNCHANGED << board, cond, saved, lock, sym, air, i, ret, ts >>

EspSend(u) == EspTake(u) \/ EspOn(u) \/ EspOff(u) \/ EspGap(u) \/ EspGive(u)

EspStep(u) == EspEnable(u) \/ EspSend(u) \/ EspDisable(u)

EspTest == EspCwStart("test") \/ EspCwStop("test")
=============================================================================
