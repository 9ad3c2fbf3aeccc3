----------------------------- MODULE BoardRadio -----------------------------
(***************************************************************************)
(* The radio drivers and their two users. The board is chosen once; what   *)
(* every driver owes its callers is stated for all of them.                *)
(***************************************************************************)
EXTENDS MpslRadio, EspRadio, RailRadio, TiRadio

Driver(u) ==
  NordicStep(u) \/ MpslCaller(u) \/ EspStep(u) \/ RailStep(u) \/ TiStep(u)

(* The timers, the interrupts and MPSL. *)
Machine ==
  TimerOn \/ TimerOff \/ RadioIsr \/ MpslSignal \/ EspTimer \/ RailTimer

TestMode == NordicTest \/ EspTest \/ RailTest \/ TiTest

Next ==
  \/ \E u \in Users : Caller(u) \/ Driver(u)
  \/ TestMode
  \/ MpslThread
  \/ Machine

(* A task that may take a step takes it, and a semaphore passes to the task  *)
(* that waits for it; timers and interrupts come; MPSL answers a request.    *)
Fairness ==
  /\ WF_vars(TimerOn) /\ WF_vars(TimerOff) /\ WF_vars(RadioIsr)
  /\ WF_vars(EspTimer) /\ WF_vars(RailTimer)
  /\ WF_vars(MpslThread) /\ WF_vars(MpslSignal)
  /\ \A u \in Users : SF_vars(Driver(u))

Spec == Init /\ [][Next]_vars /\ Fairness

-----------------------------------------------------------------------------
(* "This semaphore is used to protect a packet transmission and avoid race   *)
(* conditions" (nrf52_soc.c:48): whoever is between the take and the give of *)
(* hubble_sat_board_packet_send holds _transmit_sem, so that two packets     *)
(* never share the timer and the symbol semaphore - also when the test mode  *)
(* transmits in the middle of the port's session.                            *)
OneSender == \A u \in Users : pc[u] \in InLoop => lock = u

(* A packet that hubble_sat_board_packet_send reports as sent was on the air *)
(* symbol by symbol, in order, whole: when the test mode does not touch the  *)
(* radio meanwhile, and, where the timer does not wait for the task, the     *)
(* task keeps up with it (the MPSL driver retunes in the callback, and TI's  *)
(* commands fail when late). With RAIL the first symbol may be cut by the    *)
(* expiry that a failed packet left set.                                     *)
WholePacket ==
  \A u \in Users :
    pc[u] = "sent" /\ ret[u] = "ok" /\ cond.alone /\ (board \in Nordic => cond.prompt)
      => \/ air = [ s \in 1 .. Symbols |-> s ]
         \/ /\ board \in Rail
            /\ air = [ s \in 1 .. Symbols |-> IF s = 1 THEN 0 ELSE s ]

(* When nobody uses the radio it emits nothing, has the power, the step and  *)
(* the owner Bluetooth gave it, the nRF52's amplifier is not left powered    *)
(* and its clock is requested by nobody (enable and disable pair up, also    *)
(* around errors: hubble_sat_soc_disable).                                   *)
HandedBack ==
  /\ cond.alone /\ cond.tidy /\ (board \in Nordic => cond.prompt)
  /\ \A u \in Users : pc[u] = "idle"
  => /\ ~hw.carrier
     /\ hw.mode = "ble"
     /\ hw.pa # "on"
     /\ hw.clock \subseteq {"kept"}

(* A packet handed to the driver comes back: the symbol timer wakes the task *)
(* for each symbol, MPSL answers, and the transmission semaphore is given on *)
(* every path. With Nordic's drivers only as long as the test mode stays     *)
(* away: its disable masks the interrupt the sender waits for, and with MPSL *)
(* two callers can take each other's answer and close the session in use.    *)
(* The other drivers refuse a second enable (gptimer_enable), or wait for a  *)
(* timer or a command that the disable leaves alone.                         *)
SendReturns ==
  \A u \in Users :
    (board \in Nordic \cup {"mpsl"} => cond.alone) /\ pc[u] = "waiting"
      ~> pc[u] = "sent"
=============================================================================
