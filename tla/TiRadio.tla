------------------------------ MODULE TiRadio ------------------------------
(***************************************************************************)
(* The Texas Instruments driver:                                           *)
(* port/freertos/boards/ti/cc23xx_cc27xx/radio.c. A symbol is a command    *)
(* with an absolute start and a duration, submitted to the radio and       *)
(* waited for; its object is a global that the test mode uses too.         *)
(* hw.mode tells which stack the multimode scheduler (DMM) lets through.   *)
(* hw.tim = "armed" while the object is submitted.                         *)
(***************************************************************************)
EXTENDS SymbolRadio

TiEnable(u) ==
  /\ board = "ti"
  /\ Goto(u, "enabling", "enabled")
  /\ hw' = [ hw EXCEPT !.mode = "sat" ]
  /\ UNCHANGED << board, cond, saved, lock, sym, air, i, ret, ts >>

TiDisable(u) ==
  /\ board = "ti"
  /\ Back(u, "disabling")
  /\ hw' = [ hw EXCEPT !.mode = "ble" ]
  /\ UNCHANGED << board, cond, saved, lock, sym, air, i, ts >>

(* Mutant of TiTake: the driver trusts its callers.                          *)
TiTakeNoLock(u) ==
  /\ board = "ti"
  /\ Goto(u, "waiting", "tuning")
  /\ lock' = u
  /\ sym' = 0
  /\ air' = << >>
  /\ i' = [ i EXCEPT ![u] = 1 ]
  /\ UNCHANGED << board, cond, hw, saved, ret, ts >>

TiTake(u) ==
  /\ board = "ti"
  /\ Take(u)
  /\ UNCHANGED << board, cond, hw, saved, ret, ts >>

(* _radio_cw_start submits. The start is absolute and may not be delayed: a  *)
(* task that is late gets an error, as does one whose object is in use.      *)
TiSubmit(u) ==
  /\ board = "ti"
  /\ \/ /\ Goto(u, "tuning", "symbol")
        /\ hw' = [ hw EXCEPT !.carrier = TRUE, !.tim = "armed",
                             !.tone = IF hw.tim = "armed" THEN 0 ELSE Tuned(i[u]) ]
        /\ UNCHANGED << i, ret >>
     \/ Break(u, "tuning") /\ UNCHANGED hw
  /\ UNCHANGED << board, cond, saved, lock, sym, air, ts >>

(* RCL_Command_pend returns; what was emitted is cut when it is an error. *)
TiDone(u) ==
  /\ board = "ti"
  /\ \/ NextSymbol(u, "symbol") /\ Emit(hw.tone) /\ UNCHANGED ret
     \/ Break(u, "symbol") /\ Emit(0)
  /\ hw' = [ hw EXCEPT !.carrier = FALSE, !.tone = 0, !.tim = "off" ]
  /\ UNCHANGED << board, cond, saved, lock, sym, ts >>

TiGive(u) ==
  /\ board = "ti"
  /\ Give(u)
  /\ UNCHANGED << board, cond, hw, saved, sym, air, i, ret, ts >>

(* The test mode's carrier lasts ten seconds, in which the call blocks. *)
TiCwStart(u) ==
  /\ board = "ti"
  /\ Goto(u, "enabled", "toning")
  /\ hw' = [ hw EXCEPT !.carrier = TRUE, !.tone = 0, !.tim = "armed" ]
  /\ UNCHANGED << board, cond, saved, lock, sym, air, i, ret, ts >>

TiCwDone(u) ==
  /\ board = "ti"
  /\ \/ Goto(u, "toning", "tone") /\ UNCHANGED ret
     \/ Goto(u, "toning", "disabling") /\ Return(u, "error")
  /\ hw' = [ hw EXCEPT !.carrier = FALSE, !.tone = 0, !.tim = "off" ]
  /\ UNCHANGED << board, cond, saved, lock, sym, air, i, ts >>

(* hubble_sat_board_cw_stop returns -ENOTSUP, and the port disables. *)
TiCwStop(u) ==
  /\ board = "ti"
  /\ Goto(u, "tone", "disabling")
  /\ Return(u, "error")
  /\ UNCHANGED << board, cond, hw, saved, lock, sym, air, i, ts >>

TiSend(u) == TiTake(u) \/ TiSubmit(u) \/ TiDone(u) \/ TiGive(u)

TiStep(u) == TiEnable(u) \/ TiSend(u) \/ TiDisable(u)

TiTest == TiCwStart("test") \/ TiCwDone("test") \/ TiCwStop("test")
=============================================================================
