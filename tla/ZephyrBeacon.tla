---------------------------- MODULE ZephyrBeacon ----------------------------
(***************************************************************************)
(* samples/zephyr/sat-dual-stack: Bluetooth is disabled altogether while a *)
(* packet is sent to the satellite. The system work queue refreshes the    *)
(* beacon's payload, in place, and restarts the connectable advertising.   *)
(***************************************************************************)
EXTENDS DualStack

(* ble_init *)
ZephyrInit ==
  /\ platform = "zephyr"
  /\ \/ /\ Goto("app", "init", "syncing")
        /\ host' = [ host EXCEPT !.ready = TRUE ]
        /\ air' = "pair"
     \/ /\ Fail("init")
        /\ \E enabled \in BOOLEAN : host' = [ host EXCEPT !.ready = enabled ]
        /\ UNCHANGED air
  /\ UNCHANGED << fixed, data, link, prov, sems, timer, note >>

(* Mutant of ZephyrRestart: a disconnection does not queue the work.         *)
ZephyrRestartForgotten ==
  /\ platform = "zephyr"
  /\ \/ air = "pair" /\ air' = "off" /\ UNCHANGED link
     \/ link /\ ~prov.time /\ link' = FALSE /\ UNCHANGED air
  /\ host' = [ host EXCEPT !.restart = air = "pair" ]
  /\ UNCHANGED << fixed, pc, data, prov, sems, timer, note >>

(* _connected with an error, and _disconnected before the time was written. *)
ZephyrRestart ==
  /\ platform = "zephyr"
  /\ \/ air = "pair" /\ air' = "off" /\ UNCHANGED link
     \/ link /\ ~prov.time /\ link' = FALSE /\ UNCHANGED air
  /\ host' = [ host EXCEPT !.restart = TRUE ]
  /\ UNCHANGED << fixed, pc, data, prov, sems, timer, note >>

(* _prov_restart_work_handler: nobody looks at the error. *)
ZephyrRestartWork ==
  /\ platform = "zephyr"
  /\ host.restart
  /\ host' = [ host EXCEPT !.restart = FALSE ]
  /\ air' \in IF host.ready /\ air = "off" THEN { "pair" } \cup (IF faulty THEN {"off"} ELSE {})
                                           ELSE { air }
  /\ UNCHANGED << fixed, pc, data, link, prov, sems, timer, note >>

(* ble_adv_start: enable Bluetooth, advertise, start the refresh timer. *)
ZephyrEnable ==
  /\ platform = "zephyr"
  /\ \/ Goto("app", "start", "enabled") /\ host' = [ host EXCEPT !.ready = TRUE ]
     \/ ~host.ready /\ Fail("start") /\ UNCHANGED host
  /\ UNCHANGED << fixed, air, data, link, prov, sems, timer, note >>

ZephyrAdvertise ==
  /\ platform = "zephyr"
  /\ \/ IF air = "off"
        THEN Goto("app", "enabled", "arming") /\ air' = "beacon" /\ data' = "fresh"
        ELSE End("enabled") /\ UNCHANGED << air, data >>
     \/ Fail("enabled") /\ UNCHANGED << air, data >>
  /\ UNCHANGED << fixed, link, prov, sems, timer, note, host >>

ZephyrArm ==
  /\ platform = "zephyr"
  /\ Goto("app", "arming", "waiting")
  /\ timer' = [ timer EXCEPT !.refresh = TRUE ]
  /\ UNCHANGED << fixed, air, data, link, prov, sems, note, host >>

(* ble_adv_stop; a refresh that is queued already stays queued. *)
ZephyrTimerStop ==
  /\ platform = "zephyr"
  /\ Goto("app", "stop", "quiet")
  /\ timer' = [ timer EXCEPT !.refresh = FALSE ]
  /\ UNCHANGED << fixed, air, data, link, prov, sems, note, host >>

(* The result of bt_le_adv_stop is ignored; a Bluetooth that is disabled     *)
(* advertises nothing.                                                       *)
ZephyrDisable ==
  /\ platform = "zephyr"
  /\ \/ /\ Goto("app", "quiet", "transmit")
        /\ host' = [ host EXCEPT !.ready = FALSE ]
        /\ air' = "off"
     \/ Fail("quiet") /\ UNCHANGED host /\ air' \in {air, "off"}
  /\ UNCHANGED << fixed, data, link, prov, sems, timer, note >>

(* _adv_refresh_work_handler: the payload of an advertising that is off is   *)
(* not accepted.                                                             *)
ZephyrRefresh ==
  /\ platform = "zephyr"
  /\ note
  /\ note' = FALSE
  /\ data' \in IF air = "beacon" THEN {"fresh"} \cup (IF faulty THEN {data} ELSE {})
                                 ELSE {data}
  /\ UNCHANGED << fixed, pc, air, link, prov, sems, timer, host >>

(* main, and the peer's side: _prov_write, _connected and _disconnected. *)
ZephyrMain == platform = "zephyr" /\ MainLoop
ZephyrPeer == platform = "zephyr" /\ Peer

ZephyrApp ==
  \/ ZephyrMain \/ ZephyrInit \/ ZephyrEnable \/ ZephyrAdvertise \/ ZephyrArm
  \/ ZephyrTimerStop \/ ZephyrDisable
ZephyrWork == ZephyrRestartWork \/ ZephyrRefresh
=============================================================================
