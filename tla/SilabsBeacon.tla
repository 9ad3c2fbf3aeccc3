---------------------------- MODULE SilabsBeacon ----------------------------
(***************************************************************************)
(* samples/freertos/silabs/sat-dual-stack: _bt_sem keeps the main task and *)
(* the refresh task apart, and _is_beacon_active tells the second whether  *)
(* there is a beacon to refresh. The main task that fails stops what it    *)
(* started and deletes its semaphores.                                     *)
(***************************************************************************)
EXTENDS DualStack

(* ble_init; a task that cannot be created takes the semaphore back. *)
SilabsInit ==
  /\ platform = "silabs"
  /\ \/ Goto("app", "init", "syncing") /\ sems' = [ sems EXCEPT !.bt = "free" ]
     \/ Fail("init") /\ UNCHANGED sems
  /\ UNCHANGED << fixed, air, data, link, prov, timer, note, host >>

(* sl_bt_on_event: the boot event, whatever the main task does meanwhile. *)
SilabsBoot ==
  /\ platform = "silabs"
  /\ ~host.ready
  /\ host' = [ host EXCEPT !.ready = TRUE ]
  /\ air' \in {"pair"} \cup (IF faulty THEN {"off"} ELSE {})
  /\ UNCHANGED << fixed, pc, data, link, prov, sems, timer, note >>

(* sl_bt_on_event: a connection closed without the time forgets the orbits. *)
SilabsRestart ==
  /\ platform = "silabs"
  /\ air = "pair" \/ (link /\ ~prov.time)
  /\ link' = FALSE
  /\ prov' = [ prov EXCEPT !.count = 0 ]
  /\ air' \in {"pair"} \cup (IF faulty THEN {"off"} ELSE {})
  /\ UNCHANGED << fixed, pc, data, sems, timer, note, host >>

-----------------------------------------------------------------------------
BtTake(t, from, to) ==
  /\ platform = "silabs"
  /\ Goto(t, from, to)
  /\ sems.bt = "free"
  /\ sems' = [ sems EXCEPT !.bt = t ]
  /\ UNCHANGED << fixed, air, data, link, prov, timer, host >>

BtGive == sems' = [ sems EXCEPT !.bt = "free" ]

(* ble_adv_start, under _bt_sem: a timer that runs is not started again, and *)
(* an advertising that fails stops it.                                       *)
SilabsStartTake == BtTake("app", "start", "arming") /\ UNCHANGED note

SilabsStart ==
  /\ platform = "silabs"
  /\ \/ IF host.active \/ timer.refresh
        THEN /\ Goto("app", "arming", IF host.active THEN "waiting" ELSE "cleaning")
             /\ UNCHANGED << air, data, timer, host >>
        ELSE /\ Goto("app", "arming", "waiting")
             /\ timer' = [ timer EXCEPT !.refresh = TRUE ]
             /\ air' = "beacon" /\ data' = "fresh"
             /\ host' = [ host EXCEPT !.active = TRUE ]
     \/ Fail("arming") /\ UNCHANGED << air, data, timer, host >>
  /\ BtGive
  /\ UNCHANGED << fixed, link, prov, note >>

(* Mutant of SilabsStopBody: the refresh timer keeps running.                *)
SilabsStopBodyTimer(from, next) ==
  /\ host' = [ host EXCEPT !.active = FALSE ]
  /\ UNCHANGED timer
  /\ \/ Goto("app", from, next) /\ air' = "off"
     \/ faulty /\ Goto("app", from, IF from = "quiet" THEN "cleaning" ELSE next)
        /\ UNCHANGED air

(* Mutant of SilabsStopBody: what sl_bt_advertiser_stop returns is ignored.  *)
SilabsStopBodyIgnored(from, next) ==
  /\ host' = [ host EXCEPT !.active = FALSE ]
  /\ timer' = [ timer EXCEPT !.refresh = FALSE ]
  /\ Goto("app", from, next)
  /\ air' \in {"off"} \cup (IF faulty THEN {air} ELSE {})

(* A beacon that did not stop is an error, except to a task that is ending. *)
SilabsStopBody(from, next) ==
  /\ host' = [ host EXCEPT !.active = FALSE ]
  /\ timer' = [ timer EXCEPT !.refresh = FALSE ]
  /\ \/ Goto("app", from, next) /\ air' = "off"
     \/ faulty /\ Goto("app", from, IF from = "quiet" THEN "cleaning" ELSE next)
        /\ UNCHANGED air

(* ble_adv_stop, in the loop and when the task ends. *)
SilabsStopTake == BtTake("app", "stop", "quiet") /\ UNCHANGED note

SilabsStop ==
  /\ platform = "silabs"
  /\ \E from \in {"quiet", "cleaned"} :
       LET next == IF from = "quiet" THEN "transmit" ELSE "deleting" IN
       \/ host.active /\ SilabsStopBody(from, next)
       \/ ~host.active /\ Goto("app", from, next) /\ UNCHANGED << air, timer, host >>
  /\ BtGive
  /\ UNCHANGED << fixed, data, link, prov, note >>

(* The end of _app_task. Without its semaphore ble_adv_stop returns at once. *)
SilabsEnd ==
  /\ platform = "silabs"
  /\ \/ /\ Goto("app", "cleaning", "cleaned")
        /\ sems.bt = "free"
        /\ sems' = [ sems EXCEPT !.bt = "app" ]
     \/ /\ Goto("app", "cleaning", "deleting")
        /\ sems.bt = "none"
        /\ UNCHANGED sems
  /\ timer' = [ timer EXCEPT !.pass = FALSE ]
  /\ UNCHANGED << fixed, air, data, link, prov, note, host >>

SilabsDelete ==
  /\ platform = "silabs"
  /\ Goto("app", "deleting", "ended")
  /\ sems' = [ sems EXCEPT !.alive = FALSE ]
  /\ UNCHANGED << fixed, air, data, link, prov, timer, note, host >>

(* _adv_refresh_task *)
SilabsNotified == note /\ note' = FALSE /\ BtTake("refresh", "idle", "checking")

SilabsRefresh ==
  /\ platform = "silabs"
  /\ Goto("refresh", "checking", "idle")
  /\ data' \in IF host.active THEN {"fresh"} \cup (IF faulty THEN {data} ELSE {}) ELSE {data}
  /\ BtGive
  /\ UNCHANGED << fixed, air, link, prov, timer, note, host >>

(* _app_task; the write callback and the events of a peer. *)
SilabsMain == platform = "silabs" /\ MainLoop
SilabsPeer == platform = "silabs" /\ Peer

SilabsApp ==
  \/ SilabsMain \/ SilabsInit \/ SilabsStartTake \/ SilabsStart \/ SilabsStopTake \/ SilabsStop
  \/ SilabsEnd \/ SilabsDelete
SilabsTask == SilabsNotified \/ SilabsRefresh
=============================================================================
