----------------------------- MODULE MpslRadio -----------------------------
(***************************************************************************)
(* The driver used when Nordic's Bluetooth controller owns the radio:      *)
(* port/zephyr/boards/nordic/nrf_softdevice.c. The radio may be touched    *)
(* only inside a timeslot of the multiprotocol scheduler (MPSL), whose     *)
(* functions may be called only from one cooperative thread. Three parties *)
(* share the driver's statics: the callers, that queue calls and wait; the *)
(* thread, that serves the queue; and the callback, that MPSL calls when a *)
(* slot starts, is extended, refused or over. The semaphore "sym" is this  *)
(* driver's _done_sem, and "ts" holds the rest:                            *)
(*   queue, result, called    _mpsl_msgq, _call_result, _call_done_sem     *)
(*   open, request, signals   MPSL's: the session, its request, the        *)
(*                            signals it is about to deliver               *)
(*   index, out               _tx_index, _tx_result                        *)
(***************************************************************************)
EXTENDS NordicRadio

Put(call) == [ ts EXCEPT !.queue = Append(@, call) ]

-----------------------------------------------------------------------------
(* _mpsl_call_sync: one queue and one semaphore for every caller.            *)
OpenCall(u) ==
  /\ board = "mpsl"
  /\ Goto(u, "enabling", "calling")
  /\ ts' = Put("open")
  /\ UNCHANGED << board, cond, hw, saved, lock, sym, air, i, ret >>

CloseCall(u) ==
  /\ board = "mpsl"
  /\ Goto(u, "disabling", "closing")
  /\ ts' = Put("close")
  /\ UNCHANGED << board, cond, hw, saved, lock, sym, air, i, ret >>

(* hubble_sat_soc_enable fails when the session did not open;                *)
(* hubble_sat_soc_disable never does.                                        *)
CallReturn(u) ==
  /\ board = "mpsl"
  /\ ts.called
  /\ \/ ts.result = "ok" /\ Goto(u, "calling", "enabled") /\ UNCHANGED ret
     \/ ts.result # "ok" /\ Back(u, "calling")
     \/ Back(u, "closing")
  /\ ts' = [ ts EXCEPT !.called = FALSE ]
  /\ UNCHANGED << board, cond, hw, saved, lock, sym, air, i >>

(* _mpsl_thread. Only one session can be open. A session that closes takes   *)
(* its request and the signals not yet delivered with it.                    *)
ThreadOpen ==
  /\ ts.queue # << >> /\ Head(ts.queue) = "open"
  /\ \/ /\ ~ts.open
        /\ ts' = [ ts EXCEPT !.queue = Tail(@), !.called = TRUE, !.result = "ok", !.open = TRUE ]
     \/ ts' = [ ts EXCEPT !.queue = Tail(@), !.called = TRUE, !.result = "error" ]
  /\ UNCHANGED << board, cond, hw, saved, lock, sym, air, task >>

ThreadClose ==
  /\ ts.queue # << >> /\ Head(ts.queue) = "close"
  /\ \E r \in {"ok", "error"} :
       ts' = [ ts EXCEPT !.queue = Tail(@), !.called = TRUE, !.result = r, !.open = FALSE,
                         !.signals = << >>,
                         !.request = IF @ = "pending" THEN "none" ELSE @ ]
  /\ UNCHANGED << board, cond, hw, saved, lock, sym, air, task >>

(* A request that is refused at once is reported to the waiting caller.      *)
ThreadRequest ==
  /\ ts.queue # << >> /\ Head(ts.queue) = "request"
  /\ \/ /\ ts.open /\ ts.request = "none"
        /\ ts' = [ ts EXCEPT !.queue = Tail(@), !.result = "ok", !.request = "pending" ]
        /\ UNCHANGED sym
     \/ /\ ts' = [ ts EXCEPT !.queue = Tail(@), !.result = "error", !.out = "error" ]
        /\ sym' = 1
  /\ UNCHANGED << board, cond, hw, saved, lock, air, task >>

-----------------------------------------------------------------------------
(* hubble_sat_soc_packet_send: the queue is emptied, whoever filled it.      *)
MpslTake(u) ==
  /\ board = "mpsl"
  /\ Goto(u, "waiting", "queueing")
  /\ lock = Nobody
  /\ lock' = u
  /\ air' = << >>
  /\ sym' = 0
  /\ ts' = [ ts EXCEPT !.queue = << >>, !.index = 0, !.out = "error" ]
  /\ UNCHANGED << board, cond, hw, saved, i, ret >>

Queue(u) ==
  /\ board = "mpsl"
  /\ Goto(u, "queueing", "symbol")
  /\ ts' = Put("request")
  /\ UNCHANGED << board, cond, hw, saved, lock, sym, air, i, ret >>

Done(u) ==
  /\ board = "mpsl"
  /\ Goto(u, "symbol", "ending")
  /\ sym = 1
  /\ sym' = 0
  /\ Return(u, ts.out)
  /\ UNCHANGED << board, cond, hw, saved, lock, air, i, ts >>

MpslGive(u) ==
  /\ board = "mpsl"
  /\ Give(u)
  /\ UNCHANGED << board, cond, hw, saved, sym, air, i, ret, ts >>

-----------------------------------------------------------------------------
(* _radio_tx_start, in the callback that says that the slot has started. *)
SlotStart ==
  /\ ts.request = "pending"
  /\ ts' = [ ts EXCEPT !.request = "running", !.index = 0 ]
  /\ hw' = [ DppiSetup(hw) EXCEPT !.mode = "sat", !.ev = FALSE, !.irq = TRUE, !.chan = TRUE,
                                  !.tone = Tuned(1), !.tim = "gap" ]
  /\ UNCHANGED << board, cond, saved, lock, sym, air, task >>

(* _radio_tx_stop; the controller sets the radio up for its next event.      *)
TxStop(h) ==
  [ DppiClear(h) EXCEPT !.tim = "off", !.chan = FALSE, !.irq = FALSE, !.ev = FALSE,
                        !.mode = "ble" ]

(* The slot ends; the session has no other request and MPSL will say so.     *)
SlotOver(t, out) ==
  [ t EXCEPT !.request = "none", !.out = out, !.signals = << "idle" >> ]

(* The radio's interrupt, forwarded: the next symbol and more time, or the   *)
(* end of the packet.                                                        *)
RadioSignal ==
  /\ ts.request = "running" /\ hw.irq /\ hw.ev
  /\ IF ts.index + 1 < Symbols
     THEN /\ ts' = [ ts EXCEPT !.index = @ + 1, !.request = "extending" ]
          /\ hw' = [ hw EXCEPT !.ev = FALSE, !.tone = Tuned(ts.index + 2) ]
     ELSE ts' = SlotOver(ts, "ok") /\ hw' = TxStop(hw)
  /\ UNCHANGED << board, cond, saved, lock, sym, air, task >>

ExtendSignal ==
  /\ ts.request = "extending"
  /\ \/ ts' = [ ts EXCEPT !.request = "running" ] /\ UNCHANGED hw
     \/ ts' = SlotOver(ts, "error") /\ hw' = TxStop(hw)
  /\ UNCHANGED << board, cond, saved, lock, sym, air, task >>

(* BLOCKED or CANCELLED; an idle session may be reported next. *)
BlockedSignal ==
  /\ ts.request = "pending"
  /\ \E next \in { << >>, << "idle" >> } :
       ts' = [ ts EXCEPT !.request = "none", !.out = "error", !.signals = next ]
  /\ sym' = 1
  /\ UNCHANGED << board, cond, hw, saved, lock, air, task >>

(* Mutant of IdleSignal: the caller is not told.                             *)
IdleSignalSilent ==
  /\ ts.signals = << "idle" >>
  /\ ts' = [ ts EXCEPT !.signals = << >> ]
  /\ UNCHANGED << board, cond, hw, saved, lock, sym, air, task >>

IdleSignal ==
  /\ ts.signals = << "idle" >>
  /\ ts' = [ ts EXCEPT !.signals = << >> ]
  /\ sym' = 1
  /\ UNCHANGED << board, cond, hw, saved, lock, air, task >>

MpslCaller(u) ==
  \/ OpenCall(u) \/ CloseCall(u) \/ CallReturn(u)
  \/ MpslTake(u) \/ Queue(u) \/ Done(u) \/ MpslGive(u)

MpslThread == ThreadOpen \/ ThreadClose \/ ThreadRequest

MpslSignal == SlotStart \/ RadioSignal \/ ExtendSignal \/ BlockedSignal \/ IdleSignal
=============================================================================
