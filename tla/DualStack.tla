----------------------------- MODULE DualStack -----------------------------
(***************************************************************************)
(* The dual-stack samples, one for each platform: an application that is   *)
(* provisioned over a Bluetooth connection with the time and the orbital   *)
(* parameters of satellites, then alternates between a Bluetooth beacon    *)
(* and a transmission to a satellite at each of its passes. This module    *)
(* has what they share: the main task's loop, the timers, the peer. What   *)
(* differs, starting and stopping the advertising and refreshing its       *)
(* payload every hour, is in one module per platform.                      *)
(***************************************************************************)
EXTENDS Naturals, Sequences

CONSTANTS
  Platforms,  \* the platforms whose sample is modelled
  MaxSat,     \* HUBBLE_MAX_SAT: orbital parameters the device has room for
  QueueRoom   \* bound: calls the Bluetooth task of TI may lag behind

ASSUME DualStackAssumption ==
  /\ Platforms \subseteq {"zephyr", "esp", "ti", "silabs"}
  /\ MaxSat \in Nat \ {0} /\ QueueRoom \in Nat \ {0}

(* The main task and the one that refreshes the beacon.                      *)
Tasks == {"app", "refresh"}

VARIABLES
  platform,  \* the sample
  faulty,    \* calls of the platform and of the SDK may fail
  pc,        \* per task: where it is
  air,       \* what the Bluetooth controller advertises: "off", "pair", "beacon"
  data,      \* the beacon's payload is the one of the current period
  link,      \* a peer is connected
  prov,      \* what peers have written: unix_time_ms, orb_params_count
  sems,      \* sync_sem, sat_tx_sem and _bt_sem
  timer,     \* the timers that run: the satellite pass, the hourly refresh
  note,      \* the refresh task, or its work, has been told to refresh
  host       \* the Bluetooth host of the platform

fixed == << platform, faulty >>
vars == << platform, faulty, pc, air, data, link, prov, sems, timer, note, host >>

(* air:  "pair" and "beacon" exclude each other.                             *)
(* sems: sync_sem and sat_tx_sem are binary; _bt_sem exists on Silicon Labs  *)
(*       only, where what the task that ends deletes is no longer alive.     *)
(* host: ready    bt_enable, the NimBLE sync, the advertising sets           *)
(*       restart  _prov_restart_work is queued (Zephyr)                      *)
(*       active   _is_beacon_active (Silicon Labs)                           *)
(*       queue    functions to call in the Bluetooth task (TI)               *)
Init ==
  /\ platform \in Platforms
  /\ faulty \in BOOLEAN
  /\ pc = [ app |-> "init", refresh |-> "idle" ]
  /\ air = "off"
  /\ data = "fresh"
  /\ link = FALSE
  /\ prov = [ time |-> FALSE, count |-> 0 ]
  /\ sems = [ sync |-> 0, tx |-> 0, alive |-> TRUE, bt |-> "none" ]
  /\ timer = [ pass |-> FALSE, refresh |-> FALSE ]
  /\ note = FALSE
  /\ host = [ ready |-> FALSE, restart |-> FALSE, active |-> FALSE, queue |-> << >> ]

-----------------------------------------------------------------------------
Goto(t, from, to) == pc[t] = from /\ pc' = [ pc EXCEPT ![t] = to ]

(* A call of the main task fails: only Silicon Labs' cleans up.              *)
Fail(from) ==
  /\ faulty
  /\ Goto("app", from, IF platform = "silabs" THEN "cleaning" ELSE "ended")

(* The main task returns: an error that is not the platform's fault.         *)
End(from) == Goto("app", from, IF platform = "silabs" THEN "cleaning" ELSE "ended")

(* The main task waits for a peer that has written the time.                 *)
Synced ==
  /\ Goto("app", "syncing", "setting")
  /\ sems.sync = 1
  /\ sems' = [ sems EXCEPT !.sync = 0 ]
  /\ UNCHANGED << fixed, air, data, link, prov, timer, note, host >>

(* hubble_init and hubble_sat_satellites_set, that refuses an empty table.   *)
SatellitesSet ==
  /\ \/ prov.count > 0 /\ Goto("app", "setting", "planning")
     \/ prov.count = 0 /\ End("setting")
     \/ Fail("setting")
  /\ UNCHANGED << fixed, air, data, link, prov, sems, timer, note, host >>

(* The next pass is computed, and the one after it if it has begun; a timer  *)
(* is set for its start.                                                     *)
Plan ==
  /\ \/ Goto("app", "planning", "start") /\ timer' = [ timer EXCEPT !.pass = TRUE ]
     \/ Fail("planning") /\ UNCHANGED timer
  /\ UNCHANGED << fixed, air, data, link, prov, sems, note, host >>

Woken ==
  /\ Goto("app", "waiting", "stop")
  /\ sems.tx = 1
  /\ sems' = [ sems EXCEPT !.tx = 0 ]
  /\ UNCHANGED << fixed, air, data, link, prov, timer, note, host >>

(* hubble_sat_packet_get, then hubble_sat_packet_send. *)
PacketGet ==
  /\ Goto("app", "transmit", "sending") \/ Fail("transmit")
  /\ UNCHANGED << fixed, air, data, link, prov, sems, timer, note, host >>

PacketSend ==
  /\ Goto("app", "sending", "planning") \/ Fail("sending")
  /\ UNCHANGED << fixed, air, data, link, prov, sems, timer, note, host >>

MainLoop == Synced \/ SatellitesSet \/ Plan \/ Woken \/ PacketGet \/ PacketSend

-----------------------------------------------------------------------------
(* _sat_timer_cb *)
PassTimer ==
  /\ timer.pass
  /\ timer' = [ timer EXCEPT !.pass = FALSE ]
  /\ sems' = [ sems EXCEPT !.tx = 1 ]
  /\ UNCHANGED << fixed, pc, air, data, link, prov, note, host >>

(* Mutant of RefreshTimer: the timer is started for one expiration.          *)
RefreshTimerOnce ==
  /\ timer.refresh
  /\ \A t \in Tasks : pc[t] # "fields"
  /\ timer' = [ timer EXCEPT !.refresh = FALSE ]
  /\ note' = TRUE
  /\ UNCHANGED << fixed, pc, air, data, link, prov, sems, host >>

(* The refresh timer's callback; the timer is periodic except on Espressif.  *)
(* It counts an hour: it does not expire before the call that starts it has  *)
(* started the beacon too.                                                   *)
RefreshTimer ==
  /\ timer.refresh
  /\ \A t \in Tasks : pc[t] # "fields"
  /\ timer' = [ timer EXCEPT !.refresh = platform # "esp" ]
  /\ note' = TRUE
  /\ UNCHANGED << fixed, pc, air, data, link, prov, sems, host >>

(* The counter changes: the payload on the air is an old one.                *)
Rotate ==
  /\ air = "beacon" /\ data = "fresh"
  /\ data' = "stale"
  /\ UNCHANGED << fixed, pc, air, link, prov, sems, timer, note, host >>

(* A peer connects, which ends the advertising. *)
Connect ==
  /\ air = "pair" /\ ~link
  /\ link' = TRUE /\ air' = "off"
  /\ UNCHANGED << fixed, pc, data, prov, sems, timer, note, host >>

(* It writes; a table that is full keeps what it has.                        *)
Write ==
  /\ link
  /\ prov' \in { [ prov EXCEPT !.time = TRUE ],
                 [ prov EXCEPT !.count = IF @ < MaxSat THEN @ + 1 ELSE @ ] }
  /\ UNCHANGED << fixed, pc, air, data, link, sems, timer, note, host >>

(* A peer leaves: the main task is told when there is a time.                *)
Left ==
  /\ link /\ prov.time
  /\ link' = FALSE
  /\ sems' = [ sems EXCEPT !.sync = 1 ]
  /\ UNCHANGED << fixed, pc, air, data, prov, timer, note, host >>

Peer == Connect \/ Write \/ Left
=============================================================================
