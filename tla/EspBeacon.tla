----------------------------- MODULE EspBeacon -----------------------------
(***************************************************************************)
(* samples/esp-idf/sat-dual-stack: a task refreshes the beacon by stopping *)
(* and starting it with the functions the main task uses, and nothing      *)
(* keeps the two tasks apart. The refresh timer fires once. Advertising is *)
(* one procedure of the NimBLE host, whatever it advertises.               *)
(***************************************************************************)
EXTENDS DualStack

EspInit ==
  /\ platform = "esp"
  /\ Goto("app", "init", "syncing") \/ Fail("init")
  /\ UNCHANGED << fixed, air, data, link, prov, sems, timer, note, host >>

(* _on_nimble_stack_sync, from the host's own task: once ble_init has        *)
(* created it, and again after each reset of the controller.                 *)
EspSync ==
  /\ platform = "esp"
  /\ pc["app"] # "init" /\ ~host.ready
  /\ host' = [ host EXCEPT !.ready = TRUE ]
  /\ air' \in {"pair"} \cup (IF faulty THEN {"off"} ELSE {})
  /\ UNCHANGED << fixed, pc, data, link, prov, sems, timer, note >>

(* _on_nimble_stack_reset: nothing advertises, a peer is disconnected, and the    *)
(* advertising its event handler starts is refused.                          *)
EspReset ==
  /\ platform = "esp"
  /\ faulty /\ host.ready
  /\ host' = [ host EXCEPT !.ready = FALSE ]
  /\ air' = "off" /\ link' = FALSE
  /\ sems' = [ sems EXCEPT !.sync = IF link /\ prov.time THEN 1 ELSE @ ]
  /\ UNCHANGED << fixed, pc, data, prov, timer, note >>

(* _gap_event_handler: a connection fails, or ends without the time. *)
EspRestart ==
  /\ platform = "esp"
  /\ air = "pair" \/ (link /\ ~prov.time)
  /\ link' = FALSE
  /\ air' \in {"pair"} \cup (IF faulty THEN {"off"} ELSE {})
  /\ UNCHANGED << fixed, pc, data, prov, sems, timer, note, host >>

-----------------------------------------------------------------------------
(* What follows a call of ble_adv_start and of ble_adv_stop: the refresh     *)
(* task ignores what they return.                                            *)
Started(t) == IF t = "app" THEN "waiting" ELSE "idle"
Stopped(t) == IF t = "app" THEN "transmit" ELSE "start"
Failed(t, next) == IF t = "app" THEN "ended" ELSE next

(* ble_adv_start: a timer that runs is not started again. *)
EspStart(t) ==
  /\ platform = "esp"
  /\ \/ /\ ~timer.refresh
        /\ Goto(t, "start", "fields")
        /\ timer' = [ timer EXCEPT !.refresh = TRUE ]
     \/ /\ timer.refresh \/ faulty
        /\ Goto(t, "start", Failed(t, "idle"))
        /\ UNCHANGED timer
  /\ UNCHANGED << fixed, air, data, link, prov, sems, note, host >>

(* An advertising that is active is kept. *)
EspAdvertise(t) ==
  /\ platform = "esp"
  /\ \/ /\ host.ready
        /\ Goto(t, "fields", Started(t))
        /\ air' = IF air = "off" THEN "beacon" ELSE air
        /\ data' = "fresh"
        /\ UNCHANGED timer
     \/ /\ faulty
        /\ Goto(t, "fields", Failed(t, "idle"))
        /\ timer' = [ timer EXCEPT !.refresh = FALSE ]
        /\ UNCHANGED << air, data >>
  /\ UNCHANGED << fixed, link, prov, sems, note, host >>

(* ble_adv_stop: nothing to do, and the timer left alone, if nothing is      *)
(* active; an advertising that has stopped meanwhile is an error.            *)
EspStopCheck(t) ==
  /\ platform = "esp"
  /\ Goto(t, "stop", IF air = "off" THEN Stopped(t) ELSE "quiet")
  /\ UNCHANGED << fixed, air, data, link, prov, sems, timer, note, host >>

EspStop(t) ==
  /\ platform = "esp"
  /\ \/ air # "off" /\ Goto(t, "quiet", Stopped(t)) /\ air' = "off"
     \/ (air = "off" \/ faulty) /\ Goto(t, "quiet", Failed(t, "start")) /\ UNCHANGED air
  /\ timer' = [ timer EXCEPT !.refresh = FALSE ]
  /\ UNCHANGED << fixed, data, link, prov, sems, note, host >>

(* _adv_refresh_task *)
EspNotified ==
  /\ platform = "esp"
  /\ note /\ note' = FALSE
  /\ Goto("refresh", "idle", IF air = "off" THEN "idle" ELSE "stop")
  /\ UNCHANGED << fixed, air, data, link, prov, sems, timer, host >>

EspBeaconStep(t) == EspStart(t) \/ EspAdvertise(t) \/ EspStopCheck(t) \/ EspStop(t)
(* app_main; the write callback and the GAP events of a peer. *)
EspMain == platform = "esp" /\ MainLoop
EspPeer == platform = "esp" /\ Peer

EspApp == EspMain \/ EspInit \/ EspBeaconStep("app")
EspRefresh == EspNotified \/ EspBeaconStep("refresh")
=============================================================================
