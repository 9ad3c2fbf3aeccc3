------------------------------ MODULE TiBeacon ------------------------------
(***************************************************************************)
(* samples/freertos/ti/sat-dual-stack: advertising is started, stopped and *)
(* refreshed by functions that BLEAppUtil_invokeFunction queues for the    *)
(* Bluetooth task. The tasks that ask for it do not wait for the outcome,  *)
(* and never learn it.                                                     *)
(***************************************************************************)
EXTENDS DualStack

(* BLEAppUtil_invokeFunction *)
Invoke(function) ==
  /\ Len(host.queue) < QueueRoom
  /\ host' = [ host EXCEPT !.queue = Append(@, function) ]

(* ble_init, whose failure is only logged, and the start of ble_hubble_sync. *)
TiInit ==
  /\ platform = "ti"
  /\ Goto("app", "init", "adding")
  /\ Invoke("init") \/ (faulty /\ UNCHANGED host)
  /\ UNCHANGED << fixed, air, data, link, prov, sems, timer, note >>

TiPair ==
  /\ platform = "ti"
  /\ \/ Goto("app", "adding", "syncing") /\ Invoke("pair")
     \/ Fail("adding") /\ UNCHANGED host
  /\ UNCHANGED << fixed, air, data, link, prov, sems, timer, note >>

(* ble_adv_start and ble_adv_stop return once the call is queued. *)
TiStart ==
  /\ platform = "ti"
  /\ \/ Goto("app", "start", "waiting") /\ Invoke("start")
     \/ Fail("start") /\ UNCHANGED host
  /\ UNCHANGED << fixed, air, data, link, prov, sems, timer, note >>

TiStop ==
  /\ platform = "ti"
  /\ \/ Goto("app", "stop", "transmit") /\ Invoke("stop")
     \/ Fail("stop") /\ UNCHANGED host
  /\ UNCHANGED << fixed, air, data, link, prov, sems, timer, note >>

(* _adv_refresh_task_entry: a call that cannot be queued ends the task. *)
TiRefresh ==
  /\ platform = "ti"
  /\ note /\ note' = FALSE
  /\ \/ Goto("refresh", "idle", "idle") /\ Invoke("update")
     \/ faulty /\ Goto("refresh", "idle", "ended") /\ UNCHANGED host
  /\ UNCHANGED << fixed, air, data, link, prov, sems, timer >>

-----------------------------------------------------------------------------
(* The Bluetooth task. *)
Invoked(function) ==
  /\ platform = "ti"
  /\ host.queue # << >> /\ Head(host.queue) = function

Popped == [ host EXCEPT !.queue = Tail(@) ]

(* _adv_init *)
TiAdvInit ==
  /\ Invoked("init")
  /\ \E ready \in {TRUE, ~faulty} : host' = [ Popped EXCEPT !.ready = ready ]
  /\ UNCHANGED << fixed, pc, air, data, link, prov, sems, timer, note >>

(* _hubble_conn_start, also when a connection ends without the time. *)
TiConnStart ==
  /\ \/ Invoked("pair") /\ host' = Popped /\ UNCHANGED link
     \/ /\ platform = "ti"
        /\ air = "pair" \/ (link /\ ~prov.time)
        /\ link' = FALSE /\ UNCHANGED host
  /\ \/ host.ready /\ air' = "pair"
     \/ (faulty \/ ~host.ready) /\ air' = "off"
  /\ UNCHANGED << fixed, pc, data, prov, sems, timer, note >>

(* _beacon_start: the timer is started last. *)
TiBeaconStart ==
  /\ Invoked("start")
  /\ host' = Popped
  /\ \/ /\ air' = "beacon" /\ data' = "fresh"
        /\ timer' = [ timer EXCEPT !.refresh = TRUE ]
     \/ faulty /\ UNCHANGED << air, data, timer >>
  /\ UNCHANGED << fixed, pc, link, prov, sems, note >>

(* _beacon_stop stops the timer even if the advertising did not stop.        *)
TiBeaconStop ==
  /\ Invoked("stop")
  /\ host' = Popped
  /\ air' \in {"off"} \cup (IF faulty THEN {air} ELSE {})
  /\ timer' = [ timer EXCEPT !.refresh = FALSE ]
  /\ UNCHANGED << fixed, pc, data, link, prov, sems, note >>

(* _ble_adv_update loads a payload, whether or not it is on the air. *)
TiAdvUpdate ==
  /\ Invoked("update")
  /\ host' = Popped
  /\ data' \in {"fresh"} \cup (IF faulty THEN {data} ELSE {})
  /\ UNCHANGED << fixed, pc, air, link, prov, sems, timer, note >>

(* main_thread; the write callback and the connection events of a peer. *)
TiMain == platform = "ti" /\ MainLoop
TiPeer == platform = "ti" /\ Peer

TiApp == TiMain \/ TiInit \/ TiPair \/ TiStart \/ TiStop
TiHost == TiAdvInit \/ TiConnStart \/ TiBeaconStart \/ TiBeaconStop \/ TiAdvUpdate
=============================================================================
