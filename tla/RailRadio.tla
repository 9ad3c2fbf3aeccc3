----------------------------- MODULE RailRadio -----------------------------
(***************************************************************************)
(* The Silicon Labs drivers, over the RAIL library:                        *)
(* port/zephyr/boards/silabs/efr32/radio.c and, with FreeRTOS semaphores,  *)
(* port/sisdk/boards/efr32/radio.c. The task starts and stops a carrier    *)
(* stream and waits for a timer in between. RAIL has one timer: setting it *)
(* again replaces its expiry, and nothing else cancels it. hw.mode is the  *)
(* transmit power, which Bluetooth shares.                                 *)
(***************************************************************************)
EXTENDS SymbolRadio

Rail == {"zephyr_rail", "sisdk_rail"}

(* _timer_cb *)
RailTimer ==
  /\ board \in Rail
  /\ hw.tim = "armed"
  /\ hw' = [ hw EXCEPT !.tim = "off" ]
  /\ sym' = 1
  /\ UNCHANGED << board, cond, saved, lock, air, task, ts >>

(* hubble_sat_board_enable: the power is saved before the new one is set. *)
RailEnable(u) ==
  /\ board \in Rail
  /\ saved' = hw.mode
  /\ \/ Goto(u, "enabling", "enabled") /\ hw' = [ hw EXCEPT !.mode = "sat" ] /\ UNCHANGED ret
     \/ Back(u, "enabling") /\ UNCHANGED hw
  /\ UNCHANGED << board, cond, lock, sym, air, i, ts >>

(* Mutant of RailDisable: the stream is not stopped before idling.           *)
RailDisableStreaming(u) ==
  /\ board \in Rail
  /\ Back(u, "disabling")
  /\ hw' = [ hw EXCEPT !.mode = saved ]
  /\ UNCHANGED << board, cond, saved, lock, sym, air, i, ts >>

(* hubble_sat_board_disable: a stream that was left on is stopped here. *)
RailDisable(u) ==
  /\ board \in Rail
  /\ Back(u, "disabling")
  /\ hw' = [ hw EXCEPT !.carrier = FALSE, !.tone = 0, !.mode = saved ]
  /\ UNCHANGED << board, cond, saved, lock, sym, air, i, ts >>

RailTake(u) ==
  /\ board \in Rail
  /\ Take(u)
  /\ UNCHANGED << board, cond, hw, saved, ret, ts >>

(* The channel, at a frame's first symbol, the frequency offset, the timer. *)
RailArm(u) ==
  /\ board \in Rail
  /\ \/ /\ Goto(u, "tuning", "streaming")
        /\ hw' = [ hw EXCEPT !.tim = "armed" ]
        /\ UNCHANGED << i, ret >>
     \/ Break(u, "tuning") /\ UNCHANGED hw
  /\ UNCHANGED << board, cond, saved, lock, sym, air, ts >>

(* sl_rail_start_tx_stream. When it fails the timer stays set. *)
RailOn(u) ==
  /\ board \in Rail
  /\ \/ /\ Goto(u, "streaming", "symbol")
        /\ hw' = [ hw EXCEPT !.carrier = TRUE, !.tone = Tuned(i[u]) ]
        /\ UNCHANGED << i, ret >>
     \/ Break(u, "streaming") /\ UNCHANGED hw
  /\ UNCHANGED << board, cond, saved, lock, sym, air, ts >>

(* The symbol's time is over, unless the semaphore was given by an expiry    *)
(* that an earlier packet left. Stopping the stream, or setting the timer    *)
(* for the pause, may fail.                                                  *)
RailOff(u) ==
  /\ board \in Rail
  /\ sym = 1
  /\ sym' = 0
  /\ Emit(IF hw.tim = "armed" THEN 0 ELSE hw.tone)
  /\ \/ /\ Goto(u, "symbol", "gap")
        /\ hw' = [ hw EXCEPT !.carrier = FALSE, !.tone = 0, !.tim = "armed" ]
        /\ UNCHANGED << i, ret >>
     \/ /\ Break(u, "symbol")
        /\ hw' \in { hw, [ hw EXCEPT !.carrier = FALSE, !.tone = 0 ] }
  /\ UNCHANGED << board, cond, saved, lock, ts >>

RailGap(u) ==
  /\ board \in Rail
  /\ sym = 1
  /\ sym' = 0
  /\ NextSymbol(u, "gap")
  /\ UNCHANGED << board, cond, hw, saved, lock, air, ret, ts >>

RailGive(u) ==
  /\ board \in Rail
  /\ Give(u)
  /\ UNCHANGED << board, cond, hw, saved, sym, air, i, ret, ts >>

RailCwStart(u) ==
  /\ board \in Rail
  /\ \/ /\ Goto(u, "enabled", "tone")
        /\ hw' = [ hw EXCEPT !.carrier = TRUE, !.tone = 0 ]
        /\ UNCHANGED ret
     \/ Goto(u, "enabled", "disabling") /\ Return(u, "error") /\ UNCHANGED hw
  /\ UNCHANGED << board, cond, saved, lock, sym, air, i, ts >>

(* Whether or not the stream stops, the port then disables the radio. *)
RailCwStop(u) ==
  /\ board \in Rail
  /\ Goto(u, "tone", "disabling")
  /\ \/ hw' = [ hw EXCEPT !.carrier = FALSE, !.tone = 0 ] /\ UNCHANGED ret
     \/ Return(u, "error") /\ UNCHANGED hw
  /\ UNCHANGED << board, cond, saved, lock, sym, air, i, ts >>

(* hubble_sat_board_power_set, of an idle radio too. *)
RailPowerSet ==
  /\ board \in Rail
  /\ ~cond.tidy /\ pc["test"] = "idle"
  /\ hw' = [ hw EXCEPT !.mode = "sat" ]
  /\ UNCHANGED << board, cond, saved, lock, sym, air, task, ts >>

RailSend(u) ==
  RailTake(u) \/ RailArm(u) \/ RailOn(u) \/ RailOff(u) \/ RailGap(u) \/ RailGive(u)

RailStep(u) == RailEnable(u) \/ RailSend(u) \/ RailDisable(u)

RailTest == RailCwStart("test") \/ RailCwStop("test") \/ RailPowerSet
=============================================================================
