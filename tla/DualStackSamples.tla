-------------------------- MODULE DualStackSamples --------------------------
(***************************************************************************)
(* The four dual-stack samples: the platform is chosen once, and what the  *)
(* samples' documentation promises is stated for all of them.              *)
(***************************************************************************)
EXTENDS ZephyrBeacon, EspBeacon, TiBeacon, SilabsBeacon

App == ZephyrApp \/ EspApp \/ TiApp \/ SilabsApp

Refresh == ZephyrWork \/ EspRefresh \/ TiRefresh \/ SilabsTask

Host == EspSync \/ TiHost \/ SilabsBoot

(* What a connection that fails, or ends without the time, makes of it. *)
Restart == ZephyrRestart \/ EspRestart \/ SilabsRestart

Peers == ZephyrPeer \/ EspPeer \/ TiPeer \/ SilabsPeer \/ Restart

Next ==
  \/ App \/ Refresh \/ Host
  \/ PassTimer \/ RefreshTimer
  \/ Rotate \/ Peers \/ EspReset

(* Tasks, work queues and the refresh timer run; a semaphore passes to its   *)
(* waiters. Nothing is assumed of the peer, nor of the next pass, that may   *)
(* be a day away; the Bluetooth task of TI is fair to the functions it was   *)
(* handed.                                                                   *)
Fairness ==
  /\ SF_vars(App) /\ SF_vars(Refresh)
  /\ WF_vars(EspSync) /\ WF_vars(SilabsBoot) /\ WF_vars(TiHost)
  /\ WF_vars(RefreshTimer)

Spec == Init /\ [][Next]_vars /\ Fairness

-----------------------------------------------------------------------------
(* "The device stops BLE advertising and transmits to the satellite"         *)
(* (README.md of each sample): the beacon is not on the air while            *)
(* hubble_sat_packet_send runs, however the hourly refresh interleaves with  *)
(* the stop. On TI the stop is only asked for, so it may still be under way, *)
(* or fail unseen; on Espressif the refresh task may start the beacon again. *)
Quiet ==
  pc["app"] = "sending" /\ air = "beacon"
    => \/ platform = "esp"
       \/ platform = "ti" /\ (faulty \/ \E k \in 1 .. Len(host.queue) : host.queue[k] = "stop")

(* "The device stops BLE advertising and transmits to the satellite", stated *)
(* without the exemptions of Quiet: while every call succeeds, no beacon is  *)
(* on the air during the transmission. On Espressif the refresh task may     *)
(* start it again after the main task has stopped it.                        *)
Silent == ~faulty /\ pc["app"] = "sending" => air # "beacon"

(* "The loop repeats for the next pass": while the platform's calls succeed  *)
(* and the peer wrote orbits, the main task never returns - on the platforms *)
(* whose refresh does not use the calls the main task relies on. A peer that *)
(* is connected when it has ended still finds the semaphore its leaving      *)
(* gives, unless Bluetooth outlived a set-up that failed.                    *)
LoopRepeats ==
  /\ pc["app"] \in {"cleaning", "ended"} => faulty \/ prov.count = 0 \/ platform = "esp"
  /\ link => sems.alive \/ sems.bt = "none"

(* "(re-advertises if the peer disconnects before the time is written)": a   *)
(* device that waits for a peer can be connected to again and again, until   *)
(* the time is known. A restart that fails is only logged (Silicon Labs      *)
(* asserts), so the calls must succeed.                                      *)
Pairable ==
  ~faulty /\ pc["app"] = "syncing" ~> air = "pair" \/ link \/ pc["app"] # "syncing"

(* "The beacon advertising payload refreshes periodically": a payload of an  *)
(* old period is replaced, or its beacon stops - the refresh timer runs      *)
(* whenever the beacon does, and its notification reaches the controller. On *)
(* Espressif the refresh task's beacon may outlive the main task's loop, and *)
(* then nothing refreshes it.                                                *)
Refreshed ==
  ~faulty /\ air = "beacon" /\ data = "stale"
    ~> air # "beacon" \/ data = "fresh" \/ pc["app"] = "ended"
=============================================================================
