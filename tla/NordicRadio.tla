---------------------------- MODULE NordicRadio ----------------------------
(***************************************************************************)
(* The drivers of the nRF52, nRF53 and nRF54 that own the radio:           *)
(* port/zephyr/boards/nordic/nrf5x/nrf5x_soc.c, their test mode sat_dtm.c  *)
(* and the nRF52's amplifier. A timer that restarts by itself turns the    *)
(* radio on and off through peripheral interconnect channels, with no help *)
(* from the processor; the task only tunes the radio during each pause. A  *)
(* disable of the radio raises an event, whose interrupt wakes the task.   *)
(***************************************************************************)
EXTENDS SymbolRadio

Nordic == {"nrf52", "nrf53", "nrf54"}

Routed == hw.wire /\ hw.chan

(* The task is back in its wait, with nothing left to take. *)
OnTime ==
  \E u \in Users : lock = u /\ pc[u] = "symbol" /\ sym = 0 /\ ~hw.ev

(* CC0: the pause is over and the radio starts, wherever the task is. *)
TimerOn ==
  /\ hw.tim = "gap"
  /\ board = "mpsl" => ts.request = "running" /\ ~hw.ev
  /\ board # "mpsl" /\ cond.prompt => OnTime
  /\ hw' = [ hw EXCEPT !.tim = "on", !.carrier = @ \/ Routed ]
  /\ UNCHANGED << board, cond, saved, lock, sym, air, task, ts >>

(* CC1: the radio stops, its event is raised and the timer starts again. A   *)
(* symbol that an nRF52 sends with its amplifier asleep is lost.             *)
TimerOff ==
  /\ hw.tim = "on"
  /\ IF Routed /\ hw.carrier
     THEN /\ hw' = [ hw EXCEPT !.tim = "gap", !.carrier = FALSE, !.ev = TRUE ]
          /\ Emit(IF board = "nrf52" /\ hw.pa # "on" THEN 0 ELSE hw.tone)
     ELSE /\ hw' = [ hw EXCEPT !.tim = "gap" ]
          /\ UNCHANGED air
  /\ UNCHANGED << board, cond, saved, lock, sym, task, ts >>

(* _radio_isr *)
RadioIsr ==
  /\ board \in Nordic
  /\ hw.irq /\ hw.ev
  /\ hw' = [ hw EXCEPT !.ev = FALSE ]
  /\ sym' = 1
  /\ UNCHANGED << board, cond, saved, lock, air, task, ts >>

-----------------------------------------------------------------------------
(* hubble_sat_soc_enable of the nRF52. The clock is requested, and waited    *)
(* for, before anything else is touched.                                     *)
RequestClock52(u) ==
  /\ board = "nrf52"
  /\ \/ /\ Goto(u, "enabling", "configuring")
        /\ hw' = [ hw EXCEPT !.clock = @ \cup {u} ]
        /\ UNCHANGED ret
     \/ Back(u, "enabling") /\ UNCHANGED hw
  /\ UNCHANGED << board, cond, saved, lock, sym, air, i, ts >>

Enable52(u) ==
  /\ board = "nrf52"
  /\ Goto(u, "configuring", "enabled")
  /\ saved' = hw.mode
  /\ hw' = [ hw EXCEPT !.irq = TRUE, !.mode = "sat" ]
  /\ UNCHANGED << board, cond, lock, sym, air, i, ret, ts >>

(* hubble_sat_soc_disable. A release that fails leaves the clock running.    *)
Disable52(u) ==
  /\ board = "nrf52"
  /\ Back(u, "disabling")
  /\ \E clock \in { hw.clock \ {u}, (hw.clock \ {u}) \cup {"kept"} } :
       hw' = [ hw EXCEPT !.irq = FALSE, !.mode = saved, !.clock = clock ]
  /\ UNCHANGED << board, cond, saved, lock, sym, air, i, ts >>

(* _dppi_setup and _dppi_clear *)
DppiSetup(h) == [ h EXCEPT !.wire = TRUE ]
DppiClear(h) == [ h EXCEPT !.wire = FALSE ]

(* The enable of the nRF53: the clock is never released.                     *)
Enable53(u) ==
  /\ board = "nrf53"
  /\ \/ /\ Goto(u, "enabling", "enabled")
        /\ saved' = hw.mode
        /\ hw' = [ DppiSetup(hw) EXCEPT !.irq = TRUE, !.mode = "sat",
                                        !.clock = @ \cup {"kept"} ]
        /\ UNCHANGED ret
     \/ Back(u, "enabling") /\ UNCHANGED << hw, saved >>
  /\ UNCHANGED << board, cond, lock, sym, air, i, ts >>

Disable53(u) ==
  /\ board = "nrf53"
  /\ Back(u, "disabling")
  /\ hw' = [ DppiClear(hw) EXCEPT !.irq = FALSE, !.mode = saved ]
  /\ UNCHANGED << board, cond, saved, lock, sym, air, i, ts >>

(* _radio_reset: the radio is forced off, and its event is then consumed.    *)
RadioReset(h) ==
  [ h EXCEPT !.irq = FALSE, !.carrier = FALSE, !.ev = @ /\ ~h.carrier,
             !.wire = FALSE, !.tim = "off" ]

Enable54(u) ==
  /\ board = "nrf54"
  /\ \/ /\ Goto(u, "enabling", "enabled")
        /\ saved' = hw.mode
        /\ hw' = [ DppiSetup(RadioReset(hw)) EXCEPT !.irq = TRUE, !.mode = "sat",
                                                    !.clock = @ \cup {"kept"} ]
        /\ UNCHANGED ret
     \/ Back(u, "enabling") /\ UNCHANGED << hw, saved >>
  /\ UNCHANGED << board, cond, lock, sym, air, i, ts >>

Disable54(u) ==
  /\ board = "nrf54"
  /\ Back(u, "disabling")
  /\ hw' = [ DppiClear(hw) EXCEPT !.irq = FALSE, !.mode = saved ]
  /\ UNCHANGED << board, cond, saved, lock, sym, air, i, ts >>

-----------------------------------------------------------------------------
(* hubble_sat_soc_packet_send: the timer starts with a pause. *)
Start(u) ==
  /\ Take(u)
  /\ hw' = [ hw EXCEPT !.chan = TRUE, !.tim = "gap" ]
  /\ UNCHANGED << board, cond, saved, ret, ts >>

(* hubble_nrf_lib_frequency_set; under a carrier it spoils the symbol. *)
Tune(u) ==
  /\ \/ /\ Goto(u, "tuning", "symbol")
        /\ hw' = [ hw EXCEPT !.tone = Tuned(i[u]) ]
        /\ UNCHANGED << i, ret >>
     \/ Break(u, "tuning") /\ UNCHANGED hw
  /\ UNCHANGED << board, cond, saved, lock, sym, air, ts >>

Woken(u) ==
  /\ sym = 1
  /\ sym' = 0
  /\ NextSymbol(u, "symbol")
  /\ UNCHANGED << board, cond, hw, saved, lock, air, ret, ts >>

(* The channels and the timer are stopped; the radio is not. *)
End(u) ==
  /\ Give(u)
  /\ hw' = [ hw EXCEPT !.chan = FALSE, !.tim = "off" ]
  /\ UNCHANGED << board, cond, saved, sym, air, i, ret, ts >>

(* hubble_board_fem_sleep, even if another task is transmitting by now.      *)
FemSleep(u) ==
  /\ Goto(u, "sleeping", "sent")
  /\ hw' = [ hw EXCEPT !.pa = "sleep" ]
  /\ UNCHANGED << board, cond, saved, lock, sym, air, i, ret, ts >>

SymbolLoop(u) == Start(u) \/ Tune(u) \/ Woken(u) \/ End(u)

Send52(u) == board = "nrf52" /\ (SymbolLoop(u) \/ FemSleep(u))
Send53(u) == board = "nrf53" /\ SymbolLoop(u)
Send54(u) == board = "nrf54" /\ SymbolLoop(u)

-----------------------------------------------------------------------------
(* The test mode. A carrier that cannot be tuned leaves the amplifier on:    *)
(* the port disables the radio only.                                         *)
CwStart(u) ==
  /\ board \in Nordic
  /\ \/ /\ Goto(u, "enabled", "tone")
        /\ hw' = [ hw EXCEPT !.carrier = TRUE, !.tone = 0,
                             !.pa = IF board = "nrf52" THEN "on" ELSE @ ]
        /\ UNCHANGED ret
     \/ /\ ~cond.tidy
        /\ Goto(u, "enabled", "disabling")
        /\ hw' = [ hw EXCEPT !.pa = IF board = "nrf52" THEN "on" ELSE @ ]
        /\ Return(u, "error")
  /\ UNCHANGED << board, cond, saved, lock, sym, air, i, ts >>

(* The interrupt may have consumed the event before the loop cleared it. *)
CwStop(u) ==
  /\ board \in Nordic
  /\ Goto(u, "tone", "disabling")
  /\ hw' = [ hw EXCEPT !.carrier = FALSE, !.ev = FALSE,
                       !.pa = IF board = "nrf52" THEN "sleep" ELSE @ ]
  /\ sym' \in {sym, IF hw.irq /\ hw.carrier THEN 1 ELSE sym}
  /\ UNCHANGED << board, cond, saved, lock, air, i, ret, ts >>

(* hubble_sat_soc_power_set writes the register whether or not the radio is  *)
(* enabled.                                                                  *)
PowerSet ==
  /\ board \in Nordic
  /\ ~cond.tidy /\ pc["test"] = "idle"
  /\ hw' = [ hw EXCEPT !.mode = "sat" ]
  /\ UNCHANGED << board, cond, saved, lock, sym, air, task, ts >>

NordicStep(u) ==
  \/ RequestClock52(u) \/ Enable52(u) \/ Enable53(u) \/ Enable54(u)
  \/ Send52(u) \/ Send53(u) \/ Send54(u)
  \/ Disable52(u) \/ Disable53(u) \/ Disable54(u)

NordicTest == CwStart("test") \/ CwStop("test") \/ PowerSet
=============================================================================
