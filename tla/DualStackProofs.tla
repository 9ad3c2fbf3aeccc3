-------------------------- MODULE DualStackProofs ---------------------------
(***************************************************************************)
(* The dual-stack samples, for every set of platforms, any room for        *)
(* satellites and any lag of TI's Bluetooth task: the beacon is silent     *)
(* while a packet is sent, and the main loop goes on.                      *)
(***************************************************************************)
EXTENDS DualStackSamples, TLAPS

(* The places of the main task in which the beacon is off on every platform, *)
(* and those of a main task that returns.                                    *)
Unlit ==
  { "init", "adding", "syncing", "setting", "planning", "start", "enabled",
    "transmit", "sending" }
Ending == { "cleaning", "cleaned", "deleting", "ended" }

AppPlaces == Unlit \cup Ending \cup { "fields", "arming", "waiting", "stop", "quiet" }
RefreshPlaces == { "idle", "checking", "stop", "quiet", "start", "fields", "ended" }
Functions == { "init", "pair", "start", "stop", "update" }


Places == [ Tasks -> AppPlaces \cup RefreshPlaces ]
Written == [ time : BOOLEAN, count : Nat ]
Timers == [ pass : BOOLEAN, refresh : BOOLEAN ]
Semaphores ==
  [ sync : {0, 1}, tx : {0, 1}, alive : BOOLEAN, bt : {"none", "free", "app", "refresh"} ]
Hosts ==
  [ ready : BOOLEAN, restart : BOOLEAN, active : BOOLEAN, queue : Seq(Functions) ]

Types ==
  /\ platform \in {"zephyr", "esp", "ti", "silabs"} /\ faulty \in BOOLEAN
  /\ pc \in Places
  /\ air \in {"off", "pair", "beacon"}
  /\ link \in BOOLEAN
  /\ prov \in Written
  /\ sems \in Semaphores
  /\ timer \in Timers
  /\ host \in Hosts

(* The main task has a time to go on with, or never asked for one: nobody is *)
(* connected and nothing advertises for a peer again. On Silicon Labs a peer *)
(* may connect to a device whose set-up failed.                              *)
Provisioned ==
  \/ sems.sync = 1
  \/ pc["app"] \notin {"init", "adding", "syncing"} /\ (platform = "silabs" => sems.bt # "none")

Calls(function) == \E k \in 1 .. Len(host.queue) : host.queue[k] = function

Peering ==
  platform # "esp" =>
    /\ link => air # "pair"
    /\ Provisioned => ~link /\ air # "pair"
    /\ platform \in {"zephyr", "ti"} /\ pc["app"] \in {"init", "adding"}
         => ~link /\ air # "pair" /\ sems.sync = 0

(* The work that restarts the advertising is queued between two connections. *)
ZephyrInv ==
  platform = "zephyr" =>
    /\ host.restart => ~link /\ air = "off" /\ pc["app"] = "syncing" /\ sems.sync = 0
    /\ pc["app"] \in Unlit => air # "beacon"

(* The advertising for a peer is asked for once. A start that the Bluetooth  *)
(* task has yet to make is followed by a stop, wherever the beacon is off.   *)
TiInv ==
  platform = "ti" =>
    /\ \A j, k \in 1 .. Len(host.queue) :
         host.queue[j] = "pair" =>
           /\ host.queue[k] = "pair" => j = k
           /\ ~link /\ air # "pair" /\ sems.sync = 0 /\ pc["app"] = "syncing"
    /\ pc["app"] \in Unlit /\ ~faulty =>
         /\ air = "beacon" => Calls("stop")
         /\ \A k \in 1 .. Len(host.queue) : host.queue[k] = "start" =>
              \E j \in k + 1 .. Len(host.queue) : host.queue[j] = "stop"

(* The Bluetooth stack has booted. *)
Ready == link \/ air = "pair" \/ sems.sync = 1 \/ Provisioned => host.ready

(* _bt_sem is there once the set-up succeeded; the refresh timer runs as     *)
(* long as the beacon is active.                                             *)
SilabsInv ==
  platform = "silabs" =>
    /\ Ready
    /\ pc["app"] = "init" => sems.bt = "none"
    /\ sems.bt = "none" =>
         /\ pc["refresh"] # "checking"
         /\ pc["app"] = "init" \/ (pc["app"] \in Ending \ {"cleaned"} /\ faulty)
    /\ ~sems.alive => pc["app"] = "ended"
    /\ timer.refresh = host.active
    /\ pc["app"] \in Unlit \cup {"arming"} => ~host.active /\ air # "beacon"
    /\ air = "beacon" => host.active \/ pc["app"] \in Ending

(* A task that returns was failed by a call, or has no orbits.               *)
Looping ==
  /\ platform # "esp" /\ pc["app"] \in Ending => faulty \/ prov.count = 0
  /\ platform # "silabs" => sems.alive

DInv == Types /\ Peering /\ ZephyrInv /\ TiInv /\ SilabsInv /\ Looping

USE DEF Places, Written, Timers, Semaphores, Hosts, Ready

-----------------------------------------------------------------------------
(* A task that goes from one place to another; the other one stays.          *)
LEMMA Moved ==
  ASSUME Types, NEW t \in Tasks, NEW from, NEW to \in AppPlaces \cup RefreshPlaces,
         Goto(t, from, to)
  PROVE  /\ pc[t] = from /\ pc'[t] = to
         /\ \A u \in Tasks : u # t => pc'[u] = pc[u]
         /\ pc' \in Places
  BY DEF Types, Goto

LEMMA AppMoves ==
  ASSUME Types, NEW from, NEW to \in AppPlaces, Goto("app", from, to)
  PROVE  /\ pc["app"] = from /\ pc'["app"] = to /\ pc'["refresh"] = pc["refresh"]
         /\ pc' \in Places
  BY Moved DEF Tasks

(* A main task that returns, because a call failed or for lack of orbits.    *)
LEMMA AppEnds ==
  ASSUME Types, NEW from, End(from) \/ Fail(from)
  PROVE  /\ pc["app"] = from /\ pc'["app"] \in Ending /\ pc'["refresh"] = pc["refresh"]
         /\ pc' \in Places
  BY AppMoves DEF End, Fail, Ending, AppPlaces

(* What the invariant is about. *)
concerned == << platform, faulty, pc, air, link, prov, host >>

LEMMA Unmoved ==
  ASSUME DInv, UNCHANGED concerned, sems' \in Semaphores,
         sems'.sync = sems.sync \/ sems'.sync = 0, sems'.bt = sems.bt, sems'.alive = sems.alive,
         timer' \in Timers,
         platform = "silabs" => timer'.refresh = timer.refresh,
         pc["app"] = "syncing" => sems'.sync = sems.sync
  PROVE  DInv'
<1> USE DEF DInv, concerned, Provisioned
<1>1. Types'
  BY DEF Types
<1>2. Peering'
  BY DEF Peering, Types
<1>3. ZephyrInv'
  BY DEF ZephyrInv, Types
<1>4. TiInv'
  BY DEF TiInv, Types, Calls
<1>5. SilabsInv'
  BY DEF SilabsInv, Types
<1>6. Looping'
  BY DEF Looping, Types
<1> QED BY <1>1, <1>2, <1>3, <1>4, <1>5, <1>6

-----------------------------------------------------------------------------
(* The main loop: a step that moves the main task between places where the   *)
(* beacon is off, or ends it, and changes nothing else.                      *)
LEMMA LoopMoves ==
  ASSUME DInv, pc["app"] \in Unlit \ {"init", "adding", "syncing"},
         pc'["app"] \in (Unlit \ {"init", "adding", "syncing"}) \cup Ending,
         pc'["app"] \in Ending => faulty \/ prov.count = 0,
         pc'["refresh"] = pc["refresh"],
         pc' \in Places,
         UNCHANGED << platform, faulty, air, link, prov, sems, host >>,
         timer' \in Timers, timer'.refresh = timer.refresh
  PROVE  DInv'
<1> USE DEF DInv, Provisioned, Unlit, Ending
<1>1. Types'
  BY DEF Types
<1>2. Peering'
  BY DEF Peering, Types
<1>3. ZephyrInv'
  BY DEF ZephyrInv, Types
<1>4. TiInv'
  BY DEF TiInv, Types, Calls
<1>5. SilabsInv'
  BY DEF SilabsInv, Types
<1>6. Looping'
  BY DEF Looping, Types
<1> QED BY <1>1, <1>2, <1>3, <1>4, <1>5, <1>6

LEMMA SyncedKeeps ==
  ASSUME DInv, Synced
  PROVE  DInv'
<1>1. /\ pc["app"] = "syncing" /\ pc'["app"] = "setting" /\ pc'["refresh"] = pc["refresh"]
      /\ pc' \in Places
  BY AppMoves DEF DInv, Synced, AppPlaces, Unlit
<1>2. /\ sems.sync = 1 /\ sems'.sync = 0 /\ sems'.bt = sems.bt /\ sems'.alive = sems.alive
      /\ sems' \in Semaphores
      /\ UNCHANGED << platform, faulty, air, data, link, prov, timer, note, host >>
  BY DEF DInv, Types, Synced, fixed
<1> USE <1>1, <1>2 DEF DInv, Provisioned, Unlit, Ending
<1>3. Types'
  BY DEF Types
<1>4. Peering'
  BY DEF Peering, Types
<1>5. ZephyrInv'
  BY DEF ZephyrInv, Types
<1>6. TiInv'
  BY DEF TiInv, Types, Calls
<1>7. SilabsInv'
  BY DEF SilabsInv, Types
<1>8. Looping'
  BY DEF Looping, Types
<1> QED BY <1>3, <1>4, <1>5, <1>6, <1>7, <1>8

LEMMA MainKeeps ==
  ASSUME DInv, MainLoop
  PROVE  DInv'
<1>1. Types /\ faulty \in BOOLEAN
  BY DEF DInv, Types
<1>2. ASSUME SatellitesSet
      PROVE  DInv'
  <2>1. pc["app"] = "setting" /\ pc'["refresh"] = pc["refresh"]
        /\ pc'["app"] \in {"planning"} \cup Ending
        /\ pc' \in Places
    BY <1>1, <1>2, AppMoves, AppEnds DEF SatellitesSet, AppPlaces, Unlit
  <2>2. pc'["app"] \in Ending => faulty \/ prov.count = 0
    BY <1>1, <1>2, AppMoves DEF SatellitesSet, AppPlaces, Unlit, Ending, Fail
  <2> QED
    BY <1>1, <1>2, <2>1, <2>2, LoopMoves DEF SatellitesSet, Unlit, Types, fixed
<1>3. ASSUME Plan
      PROVE  DInv'
  <2>1. pc["app"] = "planning" /\ pc'["refresh"] = pc["refresh"]
        /\ pc'["app"] \in {"start"} \cup Ending
        /\ pc' \in Places
    BY <1>1, <1>3, AppMoves, AppEnds DEF Plan, AppPlaces, Unlit
  <2>2. pc'["app"] \in Ending => faulty
    BY <1>1, <1>3, AppMoves DEF Plan, AppPlaces, Unlit, Ending, Fail
  <2>3. timer' \in Timers /\ timer'.refresh = timer.refresh
    BY <1>1, <1>3 DEF Plan, Types
  <2> QED
    BY <1>1, <1>3, <2>1, <2>2, <2>3, LoopMoves DEF Plan, Unlit, fixed
<1>4. ASSUME PacketGet
      PROVE  DInv'
  <2>1. pc["app"] = "transmit" /\ pc'["refresh"] = pc["refresh"]
        /\ pc'["app"] \in {"sending"} \cup Ending
        /\ pc' \in Places
    BY <1>1, <1>4, AppMoves, AppEnds DEF PacketGet, AppPlaces, Unlit
  <2>2. pc'["app"] \in Ending => faulty
    BY <1>1, <1>4, AppMoves DEF PacketGet, AppPlaces, Unlit, Ending, Fail
  <2> QED
    BY <1>1, <1>4, <2>1, <2>2, LoopMoves DEF PacketGet, Unlit, Types, fixed
<1>5. ASSUME PacketSend
      PROVE  DInv'
  <2>1. pc["app"] = "sending" /\ pc'["refresh"] = pc["refresh"]
        /\ pc'["app"] \in {"planning"} \cup Ending
        /\ pc' \in Places
    BY <1>1, <1>5, AppMoves, AppEnds DEF PacketSend, AppPlaces, Unlit
  <2>2. pc'["app"] \in Ending => faulty
    BY <1>1, <1>5, AppMoves DEF PacketSend, AppPlaces, Unlit, Ending, Fail
  <2> QED
    BY <1>1, <1>5, <2>1, <2>2, LoopMoves DEF PacketSend, Unlit, Types, fixed
<1>6. ASSUME Woken
      PROVE  DInv'
  <2>1. /\ pc["app"] = "waiting" /\ pc'["app"] = "stop" /\ pc'["refresh"] = pc["refresh"]
        /\ pc' \in Places
    BY <1>1, <1>6, AppMoves DEF Woken, AppPlaces
  <2>2. /\ sems'.sync = sems.sync /\ sems'.bt = sems.bt /\ sems'.alive = sems.alive
        /\ sems' \in Semaphores
        /\ UNCHANGED << platform, faulty, air, link, prov, timer, host >>
    BY <1>1, <1>6 DEF Types, Woken, fixed
  <2> USE <2>1, <2>2 DEF DInv, Provisioned, Unlit, Ending
  <2>3. Types'
    BY DEF Types
  <2>4. Peering' /\ ZephyrInv' /\ Looping'
    BY DEF Peering, ZephyrInv, Looping, Types
  <2>5. TiInv'
    BY DEF TiInv, Types, Calls
  <2>6. SilabsInv'
    BY DEF SilabsInv, Types
  <2> QED BY <2>3, <2>4, <2>5, <2>6
<1> QED
  BY SyncedKeeps, <1>2, <1>3, <1>4, <1>5, <1>6 DEF MainLoop

-----------------------------------------------------------------------------
(* The timers, the rotation, and the peer.                                   *)
LEMMA TimersKeep ==
  ASSUME DInv, PassTimer \/ RefreshTimer \/ Rotate
  PROVE  DInv'
<1>1. CASE PassTimer
  BY <1>1, Unmoved DEF PassTimer, DInv, Types, concerned, fixed
<1>2. CASE RefreshTimer
  BY <1>2, Unmoved DEF RefreshTimer, DInv, Types, concerned, fixed
<1>3. CASE Rotate
  BY <1>3, Unmoved DEF Rotate, DInv, Types, concerned, fixed
<1> QED BY <1>1, <1>2, <1>3

LEMMA ConnectKeeps ==
  ASSUME DInv, Connect
  PROVE  DInv'
<1>1. /\ air = "pair" /\ ~link /\ link' = TRUE /\ air' = "off"
      /\ UNCHANGED << platform, faulty, pc, prov, sems, timer, host >>
  BY DEF Connect, fixed
<1> USE <1>1 DEF DInv, Provisioned
<1>2. Types'
  BY DEF Types
<1>3. Peering' /\ ZephyrInv' /\ Looping'
  BY DEF Peering, ZephyrInv, Looping, Types
<1>4. TiInv'
  BY DEF TiInv, Types, Calls
<1>5. SilabsInv'
  BY DEF SilabsInv, Types
<1> QED BY <1>2, <1>3, <1>4, <1>5

LEMMA WriteKeeps ==
  ASSUME DInv, Write
  PROVE  DInv'
<1>1. /\ link /\ UNCHANGED << platform, faulty, pc, air, link, sems, timer, host >>
      /\ prov' \in Written
  <2>1. CASE prov' = [ prov EXCEPT !.time = TRUE ]
    BY <2>1 DEF Write, fixed, DInv, Types
  <2>2. CASE prov' = [ prov EXCEPT !.count = IF @ < MaxSat THEN @ + 1 ELSE @ ]
    <3>1. prov'.time = prov.time /\ prov'.count \in {prov.count, prov.count + 1}
          /\ prov' \in Written
      BY <2>2 DEF DInv, Types
    <3> QED BY <3>1 DEF Write, fixed
  <2> QED BY <2>1, <2>2 DEF Write
<1>2. Looping'
  <2>1. platform # "esp" /\ pc["app"] \in Ending => faulty
    <3>1. platform # "esp" => ~Provisioned
      BY <1>1 DEF DInv, Peering
    <3>2. platform # "esp" /\ pc["app"] \in Ending => platform = "silabs" /\ sems.bt = "none"
      BY <3>1 DEF Provisioned, Ending
    <3> QED BY <3>2 DEF DInv, SilabsInv, Ending
  <2> QED BY <1>1, <2>1 DEF DInv, Looping
<1> USE <1>1 DEF DInv, Provisioned
<1>3. Types'
  BY DEF Types
<1>4. Peering' /\ ZephyrInv'
  BY DEF Peering, ZephyrInv, Types
<1>5. TiInv'
  BY DEF TiInv, Types, Calls
<1>6. SilabsInv'
  BY DEF SilabsInv, Types
<1> QED BY <1>2, <1>3, <1>4, <1>5, <1>6

LEMMA LeftKeeps ==
  ASSUME DInv, Left
  PROVE  DInv'
<1>1. /\ link /\ link' = FALSE /\ UNCHANGED << platform, faulty, pc, air, prov, timer, host >>
      /\ sems'.sync = 1 /\ sems'.bt = sems.bt /\ sems'.alive = sems.alive
      /\ sems' \in Semaphores
  BY DEF Left, fixed, DInv, Types
<1> USE <1>1 DEF DInv, Provisioned
<1>2. Types'
  BY DEF Types
<1>3. Peering' /\ ZephyrInv' /\ Looping'
  BY DEF Peering, ZephyrInv, Looping, Types
<1>4. TiInv'
  BY DEF TiInv, Types, Calls
<1>5. SilabsInv'
  BY DEF SilabsInv, Types
<1> QED BY <1>2, <1>3, <1>4, <1>5

LEMMA PeerKeeps ==
  ASSUME DInv, Peer
  PROVE  DInv'
BY ConnectKeeps, WriteKeeps, LeftKeeps DEF Peer

-----------------------------------------------------------------------------
(* Zephyr. *)
LEMMA ZephyrPrepares ==
  ASSUME DInv, ZephyrInit \/ ZephyrRestart \/ ZephyrRestartWork
  PROVE  DInv'
<1> USE DEF DInv, Provisioned, Unlit, Ending
<1>1. Types
  OBVIOUS
<1>2. ASSUME ZephyrInit
      PROVE  DInv'
  <2>1. /\ platform = "zephyr" /\ UNCHANGED << platform, faulty, link, prov, sems, timer >>
        /\ host'.restart = host.restart /\ host'.ready \in BOOLEAN
        /\ host' \in Hosts
    BY <1>2 DEF ZephyrInit, fixed, Types
  <2>2. /\ pc["app"] = "init" /\ pc'["refresh"] = pc["refresh"]
        /\ pc' \in Places
        /\ \/ pc'["app"] = "syncing" /\ air' = "pair"
           \/ faulty /\ pc'["app"] \in Ending /\ air' = air
    BY <1>1, <1>2, AppMoves, AppEnds DEF ZephyrInit, AppPlaces, Fail
  <2>3. Types'
    BY <2>1, <2>2 DEF Types
  <2>4. Peering' /\ ZephyrInv' /\ Looping'
    BY <2>1, <2>2 DEF Peering, ZephyrInv, Looping, Types
  <2> QED BY <2>1, <2>3, <2>4 DEF TiInv, SilabsInv
<1>3. ASSUME ZephyrRestart
      PROVE  DInv'
  <2>1. /\ platform = "zephyr" /\ UNCHANGED << platform, faulty, pc, prov, sems, timer >>
        /\ host'.restart = TRUE
        /\ host' \in Hosts
        /\ air = "pair" \/ link
    BY <1>3 DEF ZephyrRestart, fixed, Types
  <2>2. /\ pc["app"] = "syncing" /\ sems.sync = 0
    BY <2>1 DEF Peering, Types, Tasks
  <2>3. link' = FALSE /\ air' = "off"
    <3>1. CASE air = "pair"
      BY <1>3, <3>1 DEF ZephyrRestart, Peering, Types
    <3>2. CASE link
      BY <1>3, <2>1, <2>2, <3>2 DEF ZephyrRestart, ZephyrInv, Peering, Types
    <3> HIDE DEF DInv
    <3> QED BY <2>1, <3>1, <3>2
  <2>4. Types'
    BY <2>1, <2>3 DEF Types
  <2>5. Peering' /\ ZephyrInv' /\ Looping'
    BY <2>1, <2>2, <2>3 DEF Peering, ZephyrInv, Looping
  <2> QED BY <2>1, <2>4, <2>5 DEF TiInv, SilabsInv
<1>4. ASSUME ZephyrRestartWork
      PROVE  DInv'
  <2>1. /\ platform = "zephyr" /\ UNCHANGED << platform, faulty, pc, link, prov, sems, timer >>
        /\ host.restart /\ host'.restart = FALSE
        /\ host' \in Hosts
        /\ air' \in {"pair", "off", air}
    BY <1>4 DEF ZephyrRestartWork, fixed, Types
  <2>2. ~link /\ air = "off" /\ pc["app"] = "syncing" /\ sems.sync = 0
    BY <2>1 DEF ZephyrInv
  <2>3. Types'
    BY <2>1, <2>2 DEF Types
  <2>4. Peering' /\ ZephyrInv' /\ Looping'
    BY <2>1, <2>2 DEF Peering, ZephyrInv, Looping
  <2> QED BY <2>1, <2>3, <2>4 DEF TiInv, SilabsInv
<1> QED BY <1>2, <1>3, <1>4

(* ble_adv_start: nobody but the main task starts an advertising by then.    *)
LEMMA ZephyrStarts ==
  ASSUME DInv, ZephyrEnable \/ ZephyrAdvertise \/ ZephyrArm
  PROVE  DInv'
<1> USE DEF DInv, Provisioned, Unlit, Ending
<1>1. Types
  OBVIOUS
<1>2. ASSUME ZephyrEnable
      PROVE  DInv'
  <2>1. /\ platform = "zephyr" /\ UNCHANGED << platform, faulty, air, link, prov, sems, timer >>
        /\ host'.restart = host.restart
        /\ host' \in Hosts
    BY <1>2 DEF ZephyrEnable, fixed, Types
  <2>2. /\ pc["app"] = "start" /\ pc'["refresh"] = pc["refresh"]
        /\ pc' \in Places
        /\ pc'["app"] = "enabled" \/ (faulty /\ pc'["app"] \in Ending)
    BY <1>1, <1>2, AppMoves, AppEnds DEF ZephyrEnable, AppPlaces, Fail
  <2>3. Types'
    BY <2>1, <2>2 DEF Types
  <2>4. Peering' /\ ZephyrInv' /\ Looping'
    BY <2>1, <2>2 DEF Peering, ZephyrInv, Looping
  <2> QED BY <2>1, <2>3, <2>4 DEF TiInv, SilabsInv
<1>3. ASSUME ZephyrAdvertise
      PROVE  DInv'
  <2>1. /\ UNCHANGED << platform, faulty, link, prov, sems, timer, host >>
        /\ platform = "zephyr"
        /\ pc["app"] = "enabled" /\ pc'["refresh"] = pc["refresh"]
        /\ pc' \in Places
    BY <1>1, <1>3, AppMoves, AppEnds DEF ZephyrAdvertise, fixed, AppPlaces
  <2>2. air = "off"
    BY <2>1 DEF Types, Peering, ZephyrInv
  <2>3. \/ pc'["app"] = "arming" /\ air' = "beacon"
        \/ faulty /\ pc'["app"] \in Ending /\ air' = "off"
    BY <1>1, <1>3, <2>2, AppMoves, AppEnds DEF ZephyrAdvertise, AppPlaces, Fail
  <2>4. Types'
    BY <2>1, <2>3 DEF Types
  <2>5. Peering' /\ ZephyrInv' /\ Looping'
    BY <2>1, <2>3 DEF Peering, ZephyrInv, Looping
  <2> QED BY <2>1, <2>4, <2>5 DEF TiInv, SilabsInv
<1>4. ASSUME ZephyrArm
      PROVE  DInv'
  <2>1. /\ platform = "zephyr" /\ UNCHANGED << platform, faulty, air, link, prov, sems, host >>
        /\ timer' \in Timers
    BY <1>4 DEF ZephyrArm, fixed, Types
  <2>2. /\ pc["app"] = "arming" /\ pc'["refresh"] = pc["refresh"] /\ pc'["app"] = "waiting"
        /\ pc' \in Places
    BY <1>1, <1>4, AppMoves DEF ZephyrArm, AppPlaces
  <2>3. Types'
    BY <2>1, <2>2 DEF Types
  <2>4. Peering' /\ ZephyrInv' /\ Looping'
    BY <2>1, <2>2 DEF Peering, ZephyrInv, Looping
  <2> QED BY <2>1, <2>3, <2>4 DEF TiInv, SilabsInv
<1> QED BY <1>2, <1>3, <1>4

(* ble_adv_stop: Bluetooth is off before a transmission.                     *)
LEMMA ZephyrStops ==
  ASSUME DInv, ZephyrTimerStop \/ ZephyrDisable
  PROVE  DInv'
<1> USE DEF DInv, Provisioned, Unlit, Ending
<1>1. Types
  OBVIOUS
<1>2. ASSUME ZephyrTimerStop
      PROVE  DInv'
  <2>1. /\ platform = "zephyr" /\ UNCHANGED << platform, faulty, air, link, prov, sems, host >>
        /\ timer' \in Timers
    BY <1>2 DEF ZephyrTimerStop, fixed, Types
  <2>2. /\ pc["app"] = "stop" /\ pc'["refresh"] = pc["refresh"] /\ pc'["app"] = "quiet"
        /\ pc' \in Places
    BY <1>1, <1>2, AppMoves DEF ZephyrTimerStop, AppPlaces
  <2>3. Types'
    BY <2>1, <2>2 DEF Types
  <2>4. Peering' /\ ZephyrInv' /\ Looping'
    BY <2>1, <2>2 DEF Peering, ZephyrInv, Looping
  <2> QED BY <2>1, <2>3, <2>4 DEF TiInv, SilabsInv
<1>3. ASSUME ZephyrDisable
      PROVE  DInv'
  <2>1. /\ platform = "zephyr" /\ UNCHANGED << platform, faulty, link, prov, sems, timer >>
        /\ host'.restart = host.restart
        /\ host' \in Hosts
    BY <1>3 DEF ZephyrDisable, fixed, Types
  <2>2. /\ pc["app"] = "quiet" /\ pc'["refresh"] = pc["refresh"]
        /\ pc' \in Places
        /\ \/ pc'["app"] = "transmit" /\ air' = "off"
           \/ faulty /\ pc'["app"] \in Ending /\ air' \in {air, "off"}
    BY <1>1, <1>3, AppMoves, AppEnds DEF ZephyrDisable, AppPlaces, Fail
  <2>3. Types'
    BY <2>1, <2>2 DEF Types
  <2>4. Peering' /\ ZephyrInv' /\ Looping'
    BY <2>1, <2>2 DEF Peering, ZephyrInv, Looping
  <2> QED BY <2>1, <2>3, <2>4 DEF TiInv, SilabsInv
<1> QED BY <1>2, <1>3

LEMMA ZephyrKeeps ==
  ASSUME DInv, ZephyrApp \/ ZephyrWork \/ ZephyrPeer \/ ZephyrRestart
  PROVE  DInv'
<1>1. CASE ZephyrRefresh
  BY <1>1, Unmoved DEF ZephyrRefresh, DInv, Types, concerned, fixed
<1> QED
  BY <1>1, MainKeeps, PeerKeeps, ZephyrPrepares, ZephyrStarts, ZephyrStops
     DEF ZephyrApp, ZephyrMain, ZephyrWork, ZephyrPeer

-----------------------------------------------------------------------------
(* Espressif, of which only the types and the semaphores matter here.        *)
LEMMA EspSide ==
  ASSUME Types', platform = "esp", platform' = platform, sems'.alive = sems.alive, Looping
  PROVE  DInv'
BY DEF DInv, Peering, ZephyrInv, TiInv, SilabsInv, Looping

LEMMA EspKeeps ==
  ASSUME DInv, EspApp \/ EspRefresh \/ EspPeer \/ EspRestart \/ EspSync \/ EspReset
  PROVE  DInv'
<1> USE DEF AppPlaces, RefreshPlaces, Unlit, Ending, fixed
<1>1. Types /\ Looping
  BY DEF DInv
<1>2. ASSUME NEW task \in Tasks, EspBeaconStep(task)
      PROVE  DInv'
  <2>1. /\ platform = "esp" /\ UNCHANGED << platform, faulty, link, prov, sems, host >>
        /\ timer' \in Timers /\ air' \in {"off", "pair", "beacon"}
    BY <1>1, <1>2 DEF EspBeaconStep, EspStart, EspAdvertise, EspStopCheck, EspStop, Types
  <2>2. PICK from, to \in AppPlaces \cup RefreshPlaces : Goto(task, from, to)
    BY <1>2 DEF EspBeaconStep, EspStart, EspAdvertise, EspStopCheck, EspStop, Started, Stopped,
                Failed
  <2>3. Types'
    BY <1>1, <2>1, <2>2, Moved DEF Types
  <2> QED BY <1>1, <2>1, <2>3, EspSide
<1>3. CASE EspInit
  <2>1. pc' \in Places
    BY <1>1, <1>3, AppMoves, AppEnds DEF EspInit
  <2> QED BY <1>1, <1>3, <2>1, EspSide DEF EspInit, Types
<1>4. CASE EspNotified
  <2>1. pc' \in Places
    BY <1>1, <1>4, Moved DEF EspNotified, Tasks
  <2> QED BY <1>1, <1>4, <2>1, EspSide DEF EspNotified, Types
<1>5. CASE EspRestart
  <2>1. /\ air' \in {"off", "pair", "beacon"} /\ link' = FALSE /\ platform = "esp"
        /\ UNCHANGED << platform, faulty, pc, prov, sems, timer, host >>
    BY <1>5 DEF EspRestart
  <2>2. Types'
    <3>1. link' \in BOOLEAN
      BY <2>1
    <3> QED BY <1>1, <2>1, <3>1 DEF Types
  <2> QED BY <1>1, <2>1, <2>2, EspSide
<1>6. CASE EspSync
  <2>1. air' \in {"off", "pair", "beacon"}
    BY <1>6 DEF EspSync
  <2>2. host' \in Hosts
    BY <1>1, <1>6 DEF EspSync, Types
  <2> QED BY <1>1, <1>6, <2>1, <2>2, EspSide DEF EspSync, Types
<1>7. CASE EspReset
  <2>1. /\ sems'.alive = sems.alive
        /\ sems' \in Semaphores
    BY <1>1, <1>7 DEF EspReset, Types
  <2> QED BY <1>1, <1>7, <2>1, EspSide DEF EspReset, Types
<1> QED
  BY <1>2, <1>3, <1>4, <1>5, <1>6, <1>7, MainKeeps, PeerKeeps
     DEF EspApp, EspMain, EspRefresh, EspPeer, Tasks

-----------------------------------------------------------------------------
(* Texas Instruments: a function is queued, or the head of the queue runs.   *)
LEMMA Queued ==
  ASSUME Types, NEW function \in Functions, Invoke(function)
  PROVE  /\ host' \in Hosts
         /\ Len(host'.queue) = Len(host.queue) + 1
         /\ host'.queue[Len(host.queue) + 1] = function
         /\ \A k \in 1 .. Len(host.queue) : host'.queue[k] = host.queue[k]
         /\ Len(host.queue) \in Nat
<1>1. host'.queue = Append(host.queue, function) /\ host.queue \in Seq(Functions)
  BY DEF Invoke, Types
<1>2. host' \in Hosts
  <2>1. host' = [ host EXCEPT !.queue = Append(host.queue, function) ]
    BY DEF Invoke
  <2>2. Append(host.queue, function) \in Seq(Functions)
    BY <1>1
  <2> QED BY <2>1, <2>2 DEF Types
<1> QED BY <1>1, <1>2

LEMMA Unqueued ==
  ASSUME Types, NEW function, Invoked(function)
  PROVE  /\ Popped \in Hosts
         /\ host.queue[1] = function /\ Len(host.queue) \in Nat \ {0}
         /\ Len(Popped.queue) = Len(host.queue) - 1
         /\ \A k \in 1 .. Len(host.queue) - 1 : Popped.queue[k] = host.queue[k + 1]
<1>1. host.queue \in Seq(Functions) /\ host.queue # << >> /\ Popped.queue = Tail(host.queue)
  BY DEF Invoked, Popped, Types
<1>2. Popped \in Hosts
  <2>1. Popped = [ host EXCEPT !.queue = Tail(host.queue) ]
    BY DEF Popped
  <2>2. Tail(host.queue) \in Seq(Functions)
    BY <1>1
  <2> QED BY <2>1, <2>2 DEF Types
<1>3. host.queue[1] = function
  BY <1>1 DEF Invoked
<1> QED BY <1>1, <1>2, <1>3

(* What TiInv says of a queue and of the rest of the state. *)
OnePair ==
  \A j, k \in 1 .. Len(host.queue) :
    host.queue[j] = "pair" =>
      /\ host.queue[k] = "pair" => j = k
      /\ ~link /\ air # "pair" /\ sems.sync = 0 /\ pc["app"] = "syncing"

Stopping ==
  pc["app"] \in Unlit /\ ~faulty =>
    /\ air = "beacon" => Calls("stop")
    /\ \A k \in 1 .. Len(host.queue) : host.queue[k] = "start" =>
         \E j \in k + 1 .. Len(host.queue) : host.queue[j] = "stop"

(* On TI the other parts of the invariant follow from a few facts. *)
LEMMA TiSide ==
  ASSUME Types', platform' = "ti", Peering', OnePair', Stopping', Looping'
  PROVE  DInv'
BY DEF DInv, ZephyrInv, TiInv, SilabsInv, OnePair, Stopping

LEMMA TiFacts ==
  ASSUME DInv, platform = "ti"
  PROVE  Types /\ Peering /\ OnePair /\ Stopping /\ Looping
BY DEF DInv, TiInv, OnePair, Stopping

(* A function other than the start of the pairing and of the beacon is       *)
(* queued, and nothing else happens.                                         *)
LEMMA QueuedKeeps ==
  ASSUME DInv, platform = "ti", NEW function \in {"init", "stop", "update"}, Invoke(function),
         UNCHANGED << platform, faulty, link, air, sems, prov >>,
         pc'["app"] = "syncing" <=> pc["app"] = "syncing",
         pc'["app"] \in Unlit => pc["app"] \in Unlit \/ function = "stop"
  PROVE  OnePair' /\ Stopping'
<1>1. Types /\ OnePair /\ Stopping
  BY TiFacts
<1>2. function \in Functions
  BY DEF Functions
<1>3. OnePair'
  BY <1>1, <1>2, Queued DEF OnePair
<1>4. Stopping'
  <2>1. Calls("stop") => Calls("stop")'
    BY <1>1, <1>2, Queued DEF Calls
  <2>2. function = "stop" => Stopping'
    BY <1>1, <1>2, Queued DEF Stopping, Calls
  <2>3. function # "stop" => Stopping'
    <3> SUFFICES ASSUME function # "stop", (pc["app"] \in Unlit)', ~faulty PROVE Stopping'
      BY DEF Stopping
    <3>1. pc["app"] \in Unlit /\ function # "start"
      OBVIOUS
    <3>2. air' = "beacon" => Calls("stop")'
      BY <1>1, <2>1, <3>1 DEF Stopping
    <3>3. ASSUME NEW k \in 1 .. Len(host'.queue), host'.queue[k] = "start"
          PROVE  \E j \in k + 1 .. Len(host'.queue) : host'.queue[j] = "stop"
      <4>1. k \in 1 .. Len(host.queue) /\ host.queue[k] = "start"
        BY <1>1, <1>2, <3>1, <3>3, Queued
      <4>2. PICK j \in k + 1 .. Len(host.queue) : host.queue[j] = "stop"
        BY <1>1, <3>1, <4>1 DEF Stopping
      <4> QED BY <1>1, <1>2, <4>1, <4>2, Queued
    <3> QED BY <3>2, <3>3 DEF Stopping
  <2> QED BY <2>2, <2>3
<1> QED BY <1>3, <1>4

(* The head of the queue is taken: what it was bound to follow remains true. *)
LEMMA UnqueuedKeeps ==
  ASSUME DInv, NEW function, Invoked(function), host'.queue = Popped.queue,
         UNCHANGED << platform, faulty, pc, link, sems, prov >>,
         air' = air \/ function \in {"pair", "start", "stop"},
         function = "pair" => air' \in {"pair", "off"},
         function = "start" => air' \in {"beacon", air},
         function = "stop" => air' = "off" \/ (faulty /\ air' = air)
  PROVE  OnePair' /\ Stopping'
<1>1. Types /\ OnePair /\ Stopping /\ platform = "ti"
  BY TiFacts DEF Invoked
<1>2. /\ host.queue[1] = function /\ Len(host.queue) \in Nat \ {0}
      /\ Len(host'.queue) = Len(host.queue) - 1
      /\ \A k \in 1 .. Len(host'.queue) :
           k + 1 \in 1 .. Len(host.queue) /\ host'.queue[k] = host.queue[k + 1]
  BY <1>1, Unqueued
<1>3. OnePair'
  <2> SUFFICES ASSUME NEW j \in 1 .. Len(host'.queue), NEW k \in 1 .. Len(host'.queue),
                      host'.queue[j] = "pair"
               PROVE  /\ host'.queue[k] = "pair" => j = k
                      /\ ~link /\ air' # "pair" /\ sems.sync = 0 /\ pc["app"] = "syncing"
    BY DEF OnePair
  <2>1. /\ j + 1 \in 1 .. Len(host.queue) /\ host.queue[j + 1] = "pair"
        /\ k + 1 \in 1 .. Len(host.queue) /\ host'.queue[k] = host.queue[k + 1]
    BY <1>2
  <2>2. function # "pair"
    <3>1. 1 \in 1 .. Len(host.queue) /\ j + 1 # 1
      BY <1>2
    <3> QED BY <1>1, <1>2, <2>1, <3>1 DEF OnePair
  <2>3. host.queue[k + 1] = "pair" => j + 1 = k + 1
    BY <1>1, <2>1 DEF OnePair
  <2>4. ~link /\ air # "pair" /\ sems.sync = 0 /\ pc["app"] = "syncing"
    BY <1>1, <2>1 DEF OnePair
  <2> QED BY <2>1, <2>2, <2>3, <2>4
<1>4. Stopping'
  <2> SUFFICES ASSUME pc["app"] \in Unlit, ~faulty PROVE Stopping'
    BY DEF Stopping
  <2>1. ASSUME NEW k \in 1 .. Len(host.queue), host.queue[k] = "start"
        PROVE  \E j \in k .. Len(host'.queue) : host'.queue[j] = "stop"
    <3>1. PICK j \in k + 1 .. Len(host.queue) : host.queue[j] = "stop"
      BY <1>1, <2>1 DEF Stopping
    <3>2. j - 1 \in k .. Len(host'.queue) /\ host'.queue[j - 1] = host.queue[(j - 1) + 1]
      BY <1>2
    <3> QED BY <3>1, <3>2
  <2>2. ASSUME NEW k \in 1 .. Len(host'.queue), host'.queue[k] = "start"
        PROVE  \E j \in k + 1 .. Len(host'.queue) : host'.queue[j] = "stop"
    BY <1>2, <2>1, <2>2
  <2>3. ASSUME air' = "beacon" PROVE Calls("stop")'
    <3>1. CASE function = "start"
      BY <1>2, <2>1, <3>1 DEF Calls
    <3>2. CASE function # "start"
      <4>1. air = "beacon" /\ function # "stop"
        BY <1>1, <2>3, <3>2
      <4>2. PICK k \in 1 .. Len(host.queue) : host.queue[k] = "stop"
        BY <1>1, <4>1 DEF Stopping, Calls
      <4>3. k # 1
        BY <4>1, <4>2, <1>2
      <4>4. k - 1 \in 1 .. Len(host'.queue) /\ host'.queue[k - 1] = host.queue[(k - 1) + 1]
        BY <4>3, <1>2
      <4> QED BY <4>2, <4>4 DEF Calls
    <3> QED BY <3>1, <3>2
  <2> QED BY <2>2, <2>3 DEF Stopping
<1> QED BY <1>3, <1>4

(* The main task, and the task that refreshes the beacon.                    *)
LEMMA TiTasks ==
  ASSUME DInv, TiInit \/ TiPair \/ TiStart \/ TiStop \/ TiRefresh
  PROVE  DInv'
<1> USE DEF Unlit, Ending
<1>1. /\ Types /\ Peering /\ OnePair /\ Stopping /\ Looping /\ platform = "ti"
      /\ UNCHANGED << platform, faulty, air, link, prov, sems, timer >>
  BY TiFacts DEF TiInit, TiPair, TiStart, TiStop, TiRefresh, fixed
<1>2. ASSUME TiInit
      PROVE  DInv'
  <2>1. /\ pc["app"] = "init" /\ pc'["app"] = "adding" /\ pc'["refresh"] = pc["refresh"]
        /\ pc' \in Places
    BY <1>1, <1>2, AppMoves DEF TiInit, AppPlaces
  <2>2. OnePair' /\ Stopping' /\ Types'
    <3>1. CASE Invoke("init")
      <4>1. OnePair' /\ Stopping'
        BY <1>1, <2>1, <3>1, QueuedKeeps
      <4> QED BY <1>1, <2>1, <3>1, <4>1, Queued DEF Functions, Types
    <3>2. CASE host' = host
      BY <1>1, <2>1, <3>2 DEF OnePair, Stopping, Calls, Types
    <3> QED BY <1>2, <3>1, <3>2 DEF TiInit
  <2>3. Peering' /\ Looping'
    BY <1>1, <2>1 DEF Peering, Looping, Provisioned
  <2> QED BY <1>1, <2>2, <2>3, TiSide
<1>3. ASSUME TiPair
      PROVE  DInv'
  <2>1. /\ pc["app"] = "adding" /\ pc'["refresh"] = pc["refresh"]
        /\ pc' \in Places
        /\ \/ pc'["app"] = "syncing" /\ Invoke("pair")
           \/ faulty /\ pc'["app"] \in Ending /\ host' = host
    BY <1>1, <1>3, AppMoves, AppEnds DEF TiPair, AppPlaces, Fail
  <2>2. ~link /\ air # "pair" /\ sems.sync = 0
    BY <1>1, <2>1 DEF Peering
  <2>3. \A k \in 1 .. Len(host.queue) : host.queue[k] # "pair"
    BY <1>1, <2>1 DEF OnePair
  <2>4. \A k \in 1 .. Len(host.queue) : ~faulty /\ host.queue[k] = "start" =>
          \E j \in k + 1 .. Len(host.queue) : host.queue[j] = "stop"
    BY <1>1, <2>1 DEF Stopping
  <2>5. CASE pc'["app"] = "syncing" /\ Invoke("pair")
    <3>1. /\ host' \in Hosts
          /\ Len(host'.queue) = Len(host.queue) + 1
          /\ host'.queue[Len(host.queue) + 1] = "pair"
          /\ \A k \in 1 .. Len(host.queue) : host'.queue[k] = host.queue[k]
          /\ Len(host.queue) \in Nat
      BY <1>1, <2>5, Queued DEF Functions
    <3>2. Types'
      BY <1>1, <2>1, <3>1 DEF Types
    <3>3. OnePair'
      <4>1. \A k \in 1 .. Len(host'.queue) :
              host'.queue[k] = "pair" => k = Len(host.queue) + 1
        BY <2>3, <3>1
      <4>2. ~link' /\ air' # "pair" /\ sems'.sync = 0 /\ pc'["app"] = "syncing"
        BY <1>1, <2>2, <2>5
      <4> QED BY <4>1, <4>2 DEF OnePair
    <3>4. Stopping'
      <4>1. ASSUME NEW k \in 1 .. Len(host'.queue), host'.queue[k] = "start", ~faulty
            PROVE  \E j \in k + 1 .. Len(host'.queue) : host'.queue[j] = "stop"
        <5>1. k \in 1 .. Len(host.queue) /\ host.queue[k] = "start"
          BY <3>1, <4>1
        <5> QED BY <2>4, <3>1, <4>1, <5>1
      <4>2. air = "beacon" /\ ~faulty => Calls("stop")'
        BY <1>1, <2>1, <3>1 DEF Stopping, Calls
      <4> QED BY <1>1, <4>1, <4>2 DEF Stopping
    <3>5. Peering' /\ Looping'
      BY <1>1, <2>1, <2>2, <2>5 DEF Peering, Looping, Provisioned
    <3> QED BY <1>1, <3>2, <3>3, <3>4, <3>5, TiSide
  <2>6. CASE faulty /\ pc'["app"] \in Ending /\ host' = host
    <3>1. Types'
      BY <1>1, <2>1, <2>6 DEF Types
    <3>2. OnePair' /\ Stopping'
      BY <1>1, <2>3, <2>6 DEF OnePair, Stopping
    <3>3. Peering' /\ Looping'
      BY <1>1, <2>1, <2>2, <2>6 DEF Peering, Looping, Provisioned
    <3> QED BY <1>1, <3>1, <3>2, <3>3, TiSide
  <2> QED BY <2>1, <2>5, <2>6
<1>4. ASSUME NEW from \in {"start", "stop"}, pc["app"] = from,
             pc' \in Places,
             faulty, pc'["app"] \in Ending, host' = host
      PROVE  DInv'
  <2>1. Types'
    BY <1>1, <1>4 DEF Types
  <2>2. OnePair' /\ Stopping'
    BY <1>1, <1>4 DEF OnePair, Stopping
  <2>3. Peering' /\ Looping'
    BY <1>1, <1>4 DEF Peering, Looping, Provisioned
  <2> QED BY <1>1, <2>1, <2>2, <2>3, TiSide
<1>5. ASSUME TiStart
      PROVE  DInv'
  <2>1. /\ pc["app"] = "start" /\ pc'["refresh"] = pc["refresh"]
        /\ pc' \in Places
        /\ \/ pc'["app"] = "waiting" /\ Invoke("start")
           \/ faulty /\ pc'["app"] \in Ending /\ host' = host
    BY <1>1, <1>5, AppMoves, AppEnds DEF TiStart, AppPlaces, Fail
  <2>2. CASE pc'["app"] = "waiting" /\ Invoke("start")
    <3>1. Types'
      BY <1>1, <2>1, <2>2, Queued DEF Types, Functions
    <3>2. OnePair'
      BY <1>1, <2>1, <2>2, Queued DEF OnePair, Functions
    <3>3. Peering' /\ Looping' /\ Stopping'
      BY <1>1, <2>1, <2>2 DEF Peering, Looping, Provisioned, Stopping
    <3> QED BY <1>1, <3>1, <3>2, <3>3, TiSide
  <2> QED BY <1>4, <2>1, <2>2
<1>6. ASSUME TiStop
      PROVE  DInv'
  <2>1. /\ pc["app"] = "stop" /\ pc'["refresh"] = pc["refresh"]
        /\ pc' \in Places
        /\ \/ pc'["app"] = "transmit" /\ Invoke("stop")
           \/ faulty /\ pc'["app"] \in Ending /\ host' = host
    BY <1>1, <1>6, AppMoves, AppEnds DEF TiStop, AppPlaces, Fail
  <2>2. CASE pc'["app"] = "transmit" /\ Invoke("stop")
    <3>1. OnePair' /\ Stopping'
      BY <1>1, <2>1, <2>2, QueuedKeeps
    <3>2. Types'
      BY <1>1, <2>1, <2>2, Queued DEF Types, Functions
    <3>3. Peering' /\ Looping'
      BY <1>1, <2>1, <2>2 DEF Peering, Looping, Provisioned
    <3> QED BY <1>1, <3>1, <3>2, <3>3, TiSide
  <2> QED BY <1>4, <2>1, <2>2
<1>7. ASSUME TiRefresh
      PROVE  DInv'
  <2>1. /\ pc'["app"] = pc["app"]
        /\ pc' \in Places
    BY <1>1, <1>7, Moved DEF TiRefresh, Tasks, RefreshPlaces
  <2>2. CASE Invoke("update")
    <3>2. OnePair' /\ Stopping'
      BY <1>1, <2>1, <2>2, QueuedKeeps
    <3>3. Types'
      BY <1>1, <2>1, <2>2, Queued DEF Types, Functions
    <3>4. Peering' /\ Looping'
      BY <1>1, <2>1 DEF Peering, Looping, Provisioned
    <3> QED BY <1>1, <3>2, <3>3, <3>4, TiSide
  <2>3. CASE host' = host
    <3>1. Types'
      BY <1>1, <2>1, <2>3 DEF Types
    <3>2. OnePair' /\ Stopping'
      BY <1>1, <2>1, <2>3 DEF OnePair, Stopping, Calls
    <3>3. Peering' /\ Looping'
      BY <1>1, <2>1 DEF Peering, Looping, Provisioned
    <3> QED BY <1>1, <3>1, <3>2, <3>3, TiSide
  <2> QED BY <1>7, <2>2, <2>3 DEF TiRefresh
<1> QED BY <1>2, <1>3, <1>5, <1>6, <1>7

(* The Bluetooth task runs the head of its queue; a connection that ends     *)
(* without the time is restarted by its event.                               *)
LEMMA TiHostKeeps ==
  ASSUME DInv, TiHost
  PROVE  DInv'
<1> USE DEF Unlit, Ending
<1>1. platform = "ti"
  BY DEF TiHost, TiAdvInit, TiConnStart, TiBeaconStart, TiBeaconStop, TiAdvUpdate, Invoked
<1>2. Types /\ Peering /\ OnePair /\ Stopping /\ Looping
  BY <1>1, TiFacts
<1>3. ASSUME TiAdvInit
      PROVE  DInv'
  <2>1. UNCHANGED << platform, faulty, pc, air, data, link, prov, sems, timer, note >>
        /\ Invoked("init")
    BY <1>3 DEF TiAdvInit, fixed
  <2>2. PICK ready \in BOOLEAN : host' = [ Popped EXCEPT !.ready = ready ]
    BY <1>2, <1>3 DEF TiAdvInit, Types
  <2>3. host' \in Hosts /\ host'.queue = Popped.queue
    BY <1>2, <2>1, <2>2, Unqueued
  <2>4. Types'
    BY <1>2, <2>1, <2>3 DEF Types
  <2>5. Peering' /\ Looping'
    BY <1>1, <1>2, <2>1 DEF Peering, Looping, Provisioned
  <2>6. OnePair' /\ Stopping'
    BY <2>1, <2>3, UnqueuedKeeps
  <2> QED BY <1>1, <2>1, <2>4, <2>5, <2>6, TiSide
<1>4. ASSUME TiConnStart
      PROVE  DInv'
  <2>1. /\ UNCHANGED << platform, faulty, pc, data, prov, sems, timer, note >>
        /\ air' \in {"pair", "off"}
    BY <1>4 DEF TiConnStart, fixed
  <2>2. CASE Invoked("pair") /\ host' = Popped /\ link' = link
    <3>1. ~link /\ sems.sync = 0 /\ pc["app"] = "syncing"
      <4>1. host.queue[1] = "pair" /\ 1 \in 1 .. Len(host.queue)
        BY <1>2, <2>2, Unqueued
      <4> QED BY <1>2, <4>1 DEF OnePair
    <3>2. Types'
      BY <1>2, <2>1, <2>2, Unqueued DEF Types
    <3>3. Peering' /\ Looping'
      BY <1>1, <1>2, <2>1, <2>2, <3>1 DEF Peering, Looping, Provisioned
    <3>4. OnePair' /\ Stopping'
      BY <2>1, <2>2, UnqueuedKeeps
    <3> QED BY <1>1, <2>1, <3>2, <3>3, <3>4, TiSide
  <2>3. CASE (air = "pair" \/ link) /\ link' = FALSE /\ host' = host
    <3>1. ~Provisioned /\ pc["app"] \notin {"init", "adding"}
      BY <1>1, <1>2, <2>3 DEF Peering
    <3>2. Types'
      <4>1. link' \in BOOLEAN /\ air' \in {"off", "pair", "beacon"} /\ host' = host
        BY <2>1, <2>3
      <4> QED BY <1>2, <2>1, <4>1 DEF Types
    <3>3. Peering' /\ Looping'
      BY <1>1, <1>2, <2>1, <2>3, <3>1 DEF Peering, Looping, Provisioned
    <3>4. OnePair'
      BY <1>2, <2>1, <2>3 DEF OnePair
    <3>5. Stopping'
      BY <1>2, <2>1, <2>3 DEF Stopping
    <3> QED BY <1>1, <2>1, <3>2, <3>3, <3>4, <3>5, TiSide
  <2> QED BY <1>4, <2>2, <2>3 DEF TiConnStart
<1>5. ASSUME TiBeaconStart
      PROVE  DInv'
  <2>1. /\ UNCHANGED << platform, faulty, pc, link, prov, sems, note >>
        /\ Invoked("start") /\ host' = Popped
        /\ air' \in {"beacon", air}
    BY <1>5 DEF TiBeaconStart, fixed
  <2>2. timer' \in Timers
    BY <1>2, <1>5 DEF TiBeaconStart, Types
  <2>3. Types'
    BY <1>2, <2>1, <2>2, Unqueued DEF Types
  <2>4. Peering' /\ Looping'
    <3>1. air' = "pair" => air = "pair"
      BY <2>1
    <3> QED BY <1>1, <1>2, <2>1, <3>1 DEF Peering, Looping, Provisioned
  <2>5. OnePair' /\ Stopping'
    BY <2>1, UnqueuedKeeps
  <2> QED BY <1>1, <2>1, <2>3, <2>4, <2>5, TiSide
<1>6. ASSUME TiBeaconStop
      PROVE  DInv'
  <2>1. /\ UNCHANGED << platform, faulty, pc, link, prov, sems, note >>
        /\ Invoked("stop") /\ host' = Popped
        /\ air' = "off" \/ (faulty /\ air' = air)
    BY <1>6 DEF TiBeaconStop, fixed
  <2>2. timer' \in Timers
    BY <1>2, <1>6 DEF TiBeaconStop, Types
  <2>3. Types'
    BY <1>2, <2>1, <2>2, Unqueued DEF Types
  <2>4. Peering' /\ Looping'
    BY <1>1, <1>2, <2>1 DEF Peering, Looping, Provisioned
  <2>5. OnePair' /\ Stopping'
    BY <2>1, UnqueuedKeeps
  <2> QED BY <1>1, <2>1, <2>3, <2>4, <2>5, TiSide
<1>7. ASSUME TiAdvUpdate
      PROVE  DInv'
  <2>1. /\ UNCHANGED << platform, faulty, pc, air, link, prov, sems, timer, note >>
        /\ Invoked("update") /\ host' = Popped
    BY <1>7 DEF TiAdvUpdate, fixed
  <2>2. Types'
    BY <1>2, <2>1, Unqueued DEF Types
  <2>3. Peering' /\ Looping'
    BY <1>1, <1>2, <2>1 DEF Peering, Looping, Provisioned
  <2>4. OnePair' /\ Stopping'
    BY <2>1, UnqueuedKeeps
  <2> QED BY <1>1, <2>1, <2>2, <2>3, <2>4, TiSide
<1> QED BY <1>3, <1>4, <1>5, <1>6, <1>7 DEF TiHost

LEMMA TiKeeps ==
  ASSUME DInv, TiApp \/ TiRefresh \/ TiHost \/ TiPeer
  PROVE  DInv'
BY MainKeeps, PeerKeeps, TiTasks, TiHostKeeps DEF TiApp, TiMain, TiPeer

-----------------------------------------------------------------------------
(* Silicon Labs: what remains to be shown of a step.                         *)
LEMMA SilabsSide ==
  ASSUME Types', platform' = "silabs", Peering', SilabsInv', Looping'
  PROVE  DInv'
BY DEF DInv, ZephyrInv, TiInv

LEMMA SilabsPeers ==
  ASSUME DInv, SilabsInit \/ SilabsBoot \/ SilabsRestart
  PROVE  DInv'
<1> USE DEF Unlit, Ending
<1>1. platform = "silabs" /\ Types /\ Peering /\ SilabsInv /\ Looping
  BY DEF DInv, SilabsInit, SilabsBoot, SilabsRestart
<1>2. ASSUME SilabsInit
      PROVE  DInv'
  <2>1. /\ UNCHANGED << platform, faulty, air, link, prov, timer, host >>
        /\ pc["app"] = "init" /\ pc'["refresh"] = pc["refresh"]
        /\ pc' \in Places
        /\ \/ pc'["app"] = "syncing" /\ sems' = [ sems EXCEPT !.bt = "free" ]
           \/ faulty /\ pc'["app"] \in {"cleaning"} /\ sems' = sems
    BY <1>1, <1>2, AppMoves DEF SilabsInit, AppPlaces, Fail, fixed
  <2>2. /\ sems.bt = "none" /\ sems'.sync = sems.sync /\ sems'.alive = sems.alive
        /\ sems' \in Semaphores
        /\ \/ pc'["app"] = "syncing" /\ sems'.bt = "free"
           \/ faulty /\ pc'["app"] = "cleaning" /\ sems'.bt = sems.bt
    BY <1>1, <2>1 DEF Types, SilabsInv
  <2>3. Types'
    BY <1>1, <2>1, <2>2 DEF Types
  <2>4. Peering' /\ Looping'
    BY <1>1, <2>1, <2>2 DEF Peering, Looping, Provisioned
  <2>5. SilabsInv'
    BY <1>1, <2>1, <2>2 DEF SilabsInv, Provisioned
  <2> QED BY <1>1, <2>1, <2>3, <2>4, <2>5, SilabsSide
<1>3. ASSUME SilabsBoot
      PROVE  DInv'
  <2>1. /\ UNCHANGED << platform, faulty, pc, data, link, prov, sems, timer, note >>
        /\ ~host.ready /\ air' \in {"pair", "off"}
        /\ host'.ready /\ host'.active = host.active
        /\ host' \in Hosts
    BY <1>1, <1>3 DEF SilabsBoot, fixed, Types
  <2>2. ~link /\ ~Provisioned
    BY <1>1, <2>1 DEF SilabsInv
  <2>3. Types'
    BY <1>1, <2>1 DEF Types
  <2>4. Peering' /\ Looping'
    BY <1>1, <2>1, <2>2 DEF Peering, Looping, Provisioned
  <2>5. SilabsInv'
    BY <1>1, <2>1, <2>2 DEF SilabsInv, Provisioned
  <2> QED BY <1>1, <2>1, <2>3, <2>4, <2>5, SilabsSide
<1>4. ASSUME SilabsRestart
      PROVE  DInv'
  <2>1. /\ UNCHANGED << platform, faulty, pc, data, sems, timer, note, host >>
        /\ air = "pair" \/ link
        /\ link' = FALSE /\ air' \in {"pair", "off"}
    BY <1>4 DEF SilabsRestart, fixed
  <2>2. prov' \in Written /\ prov'.count = 0
    BY <1>1, <1>4 DEF SilabsRestart, Types
  <2>3. ~Provisioned /\ host.ready
    BY <1>1, <2>1 DEF Peering, SilabsInv
  <2>4. Types'
    <3>1. link' \in BOOLEAN
      BY <2>1
    <3> QED BY <1>1, <2>1, <2>2, <3>1 DEF Types
  <2>5. Peering' /\ Looping'
    BY <1>1, <2>1, <2>2, <2>3 DEF Peering, Looping, Provisioned
  <2>6. SilabsInv'
    BY <1>1, <2>1, <2>3 DEF SilabsInv, Provisioned
  <2> QED BY <1>1, <2>1, <2>4, <2>5, <2>6, SilabsSide
<1> QED BY <1>2, <1>3, <1>4

(* The semaphore is taken and given, and tasks move; the invariant's facts   *)
(* about places and the beacon are left to show.                             *)
LEMMA SilabsMoves ==
  ASSUME DInv, platform = "silabs", UNCHANGED << platform, faulty, link, prov >>,
         pc' \in Places,
         Types', sems'.sync = sems.sync, sems.bt = "none" <=> sems'.bt = "none",
         sems.bt = "none" => pc["app"] = pc'["app"] \/ pc'["app"] \in Ending,
         pc["app"] \notin {"init", "adding", "syncing"} \/ pc["app"] = pc'["app"],
         pc'["app"] \notin {"init", "adding", "syncing"} \/ pc["app"] = pc'["app"],
         pc'["app"] \in Ending => pc["app"] \in Ending \/ faulty,
         air' = "pair" => air = "pair", host'.ready = host.ready
  PROVE  /\ Peering'
         /\ pc["app"] \in Ending => faulty \/ prov'.count = 0
         /\ Looping'
         /\ Ready'
<1>1. Peering /\ SilabsInv /\ Looping
  BY DEF DInv
<1>2. Provisioned' => Provisioned
  BY DEF Provisioned
<1>3. Peering'
  BY <1>1, <1>2 DEF Peering
<1>4. Looping' /\ (pc["app"] \in Ending => faulty \/ prov'.count = 0)
  BY <1>1 DEF Looping
<1>5. Ready'
  BY <1>1, <1>2 DEF SilabsInv
<1> QED BY <1>3, <1>4, <1>5

(* ble_adv_start and ble_adv_stop. *)
LEMMA SilabsBeaconKeeps ==
  ASSUME DInv, SilabsStartTake \/ SilabsStart \/ SilabsStopTake \/ SilabsStop
  PROVE  DInv'
<1> USE DEF Unlit, Ending
<1>1. platform = "silabs" /\ Types /\ Peering /\ SilabsInv /\ Looping
  BY DEF DInv, SilabsStartTake, SilabsStart, SilabsStopTake, SilabsStop, BtTake
<1>2. ASSUME NEW from \in {"start", "stop"}, NEW to \in {"arming", "quiet"},
             BtTake("app", from, to), from = "start" <=> to = "arming"
      PROVE  DInv'
  <2>1. /\ UNCHANGED << platform, faulty, air, link, prov, timer, host >>
        /\ pc["app"] = from /\ pc'["app"] = to /\ pc'["refresh"] = pc["refresh"]
        /\ pc' \in Places
    BY <1>1, <1>2, AppMoves DEF BtTake, AppPlaces, fixed
  <2>2. /\ sems.bt = "free" /\ sems'.bt = "app" /\ sems'.sync = sems.sync
        /\ sems'.alive = sems.alive /\ sems' \in Semaphores
    BY <1>1, <1>2 DEF BtTake, Types
  <2>3. Types'
    BY <1>1, <2>1, <2>2 DEF Types
  <2>4. Peering' /\ Looping' /\ Ready'
    BY <1>1, <2>1, <2>2, <2>3, SilabsMoves
  <2>5. pc'["app"] = "arming" => pc["app"] = "start"
    BY <1>2, <2>1
  <2>6. SilabsInv'
    BY <1>1, <2>1, <2>2, <2>4, <2>5 DEF SilabsInv
  <2> QED BY <1>1, <2>1, <2>3, <2>4, <2>6, SilabsSide
<1>3. ASSUME SilabsStart
      PROVE  DInv'
  <2>1. pc["app"] = "arming" /\ ~host.active /\ timer.refresh = FALSE /\ air # "beacon"
        /\ sems.bt # "none"
    BY <1>1, <1>3 DEF SilabsStart, Goto, Fail, SilabsInv, Types
  <2>2. /\ UNCHANGED << platform, faulty, link, prov >>
        /\ sems'.bt = "free" /\ sems'.sync = sems.sync
        /\ sems'.alive = sems.alive /\ sems' \in Semaphores
    BY <1>1, <1>3 DEF SilabsStart, BtGive, fixed, Types
  <2>3. CASE /\ Goto("app", "arming", "waiting")
             /\ timer' = [ timer EXCEPT !.refresh = TRUE ]
             /\ air' = "beacon" /\ data' = "fresh"
             /\ host' = [ host EXCEPT !.active = TRUE ]
    <3>1. /\ pc'["app"] = "waiting" /\ pc'["refresh"] = pc["refresh"] /\ pc' \in Places
      BY <1>1, <2>3, AppMoves DEF AppPlaces
    <3>2. /\ timer'.refresh = TRUE /\ timer' \in Timers
          /\ host'.active = TRUE /\ host'.ready = host.ready
          /\ host' \in Hosts
      BY <1>1, <2>3 DEF Types
    <3>3. Types'
      BY <1>1, <2>2, <2>3, <3>1, <3>2 DEF Types
    <3>4. Peering' /\ Looping' /\ Ready'
      BY <1>1, <2>1, <2>2, <2>3, <3>1, <3>2, <3>3, SilabsMoves
    <3>5. SilabsInv'
      BY <1>1, <2>1, <2>2, <2>3, <3>1, <3>2, <3>4 DEF SilabsInv
    <3> QED BY <1>1, <2>2, <3>3, <3>4, <3>5, SilabsSide
  <2>4. CASE Fail("arming") /\ UNCHANGED << air, data, timer, host >>
    <3>1. /\ pc'["app"] = "cleaning" /\ pc'["refresh"] = pc["refresh"] /\ pc' \in Places
          /\ faulty
      BY <1>1, <2>4, AppMoves DEF AppPlaces, Fail
    <3>2. Types'
      BY <1>1, <2>2, <2>4, <3>1 DEF Types
    <3>3. Peering' /\ Looping' /\ Ready'
      BY <1>1, <2>1, <2>2, <2>4, <3>1, <3>2, SilabsMoves
    <3>4. /\ sems.alive /\ sems'.bt # "none" /\ timer' = timer /\ host' = host
          /\ timer.refresh = host.active /\ ~host.active /\ air' # "beacon"
      <4>1. timer' = timer /\ host' = host /\ air' = air
        BY <2>4
      <4>2. sems.alive /\ timer.refresh = host.active
        BY <1>1, <2>1 DEF SilabsInv
      <4> QED BY <2>1, <2>2, <4>1, <4>2
    <3>5. SilabsInv'
      BY <2>2, <3>1, <3>3, <3>4 DEF SilabsInv
    <3> QED BY <1>1, <2>2, <3>2, <3>3, <3>5, SilabsSide
  <2> QED BY <1>3, <2>1, <2>3, <2>4 DEF SilabsStart
<1>4. ASSUME SilabsStop
      PROVE  DInv'
  <2>1. PICK from \in {"quiet", "cleaned"} :
          LET next == IF from = "quiet" THEN "transmit" ELSE "deleting" IN
          \/ host.active /\ SilabsStopBody(from, next)
          \/ ~host.active /\ Goto("app", from, next) /\ UNCHANGED << air, timer, host >>
    BY <1>4 DEF SilabsStop
  <2>2. PICK next : next = IF from = "quiet" THEN "transmit" ELSE "deleting"
    OBVIOUS
  <2>3. /\ UNCHANGED << platform, faulty, link, prov >>
        /\ sems'.bt = "free" /\ sems'.sync = sems.sync
        /\ sems'.alive = sems.alive /\ sems' \in Semaphores
    BY <1>1, <1>4 DEF SilabsStop, BtGive, fixed, Types
  <2>4. /\ timer'.refresh = FALSE /\ timer' \in Timers
        /\ host'.active = FALSE /\ host'.ready = host.ready
        /\ host' \in Hosts
    <3>1. CASE host.active
      BY <1>1, <2>1, <3>1 DEF SilabsStopBody, Types
    <3>2. CASE ~host.active
      BY <1>1, <2>1, <3>2 DEF Types, SilabsInv
    <3> QED BY <3>1, <3>2
  <2>5. /\ pc["app"] = from /\ pc'["refresh"] = pc["refresh"] /\ pc' \in Places
        /\ \/ pc'["app"] = next /\ air' \in {"off", air}
              /\ (next = "transmit" => air' = "off" \/ ~host.active)
           \/ faulty /\ pc'["app"] = "cleaning" /\ air' = air
           \/ from = "cleaned" /\ pc'["app"] = "deleting" /\ air' = air
    <3>1. CASE host.active /\ Goto("app", from, next) /\ air' = "off"
      BY <1>1, <2>2, <3>1, AppMoves DEF AppPlaces
    <3>2. CASE /\ host.active /\ faulty /\ UNCHANGED air
               /\ Goto("app", from, IF from = "quiet" THEN "cleaning" ELSE next)
      BY <1>1, <2>2, <3>2, AppMoves DEF AppPlaces
    <3>3. CASE ~host.active /\ Goto("app", from, next) /\ UNCHANGED air
      BY <1>1, <2>2, <3>3, AppMoves DEF AppPlaces
    <3> QED BY <2>1, <2>2, <3>1, <3>2, <3>3 DEF SilabsStopBody
  <2>6. sems.alive /\ sems.bt # "none" /\ (air = "beacon" /\ from = "quiet" => host.active)
    BY <1>1, <2>5 DEF SilabsInv
  <2>7. Types'
    <3>1. air' \in {"off", "pair", "beacon"}
      BY <1>1, <2>5 DEF Types
    <3> QED BY <1>1, <2>3, <2>4, <2>5, <3>1 DEF Types
  <2>8. /\ pc["app"] \notin {"init", "adding", "syncing"}
        /\ pc'["app"] \in {"transmit"} \cup Ending
        /\ pc'["app"] \in Ending => pc["app"] \in Ending \/ faulty
        /\ air' \in {"off", air}
        /\ pc'["app"] = "transmit" => air' # "beacon"
        /\ pc'["app"] # "ended"
    BY <2>2, <2>5, <2>6
  <2>9. Peering' /\ Looping' /\ Ready'
    BY <1>1, <2>3, <2>4, <2>5, <2>6, <2>7, <2>8, SilabsMoves
  <2>10. SilabsInv'
    BY <1>1, <2>3, <2>4, <2>5, <2>6, <2>8, <2>9 DEF SilabsInv
  <2> QED BY <1>1, <2>3, <2>7, <2>9, <2>10, SilabsSide
<1> QED BY <1>2, <1>3, <1>4 DEF SilabsStartTake, SilabsStopTake

(* The end of the main task, and the task that refreshes the beacon.         *)
LEMMA SilabsEnds ==
  ASSUME DInv, SilabsEnd \/ SilabsDelete \/ SilabsNotified \/ SilabsRefresh
  PROVE  DInv'
<1> USE DEF Unlit, Ending
<1>1. platform = "silabs" /\ Types /\ Peering /\ SilabsInv /\ Looping
  BY DEF DInv, SilabsEnd, SilabsDelete, SilabsNotified, SilabsRefresh, BtTake
<1>2. ASSUME SilabsEnd
      PROVE  DInv'
  <2>1. /\ UNCHANGED << platform, faulty, air, link, prov, host >>
        /\ pc["app"] = "cleaning" /\ pc'["app"] \in {"cleaned", "deleting"}
        /\ pc'["refresh"] = pc["refresh"] /\ pc' \in Places
    BY <1>1, <1>2, AppMoves DEF SilabsEnd, AppPlaces, fixed
  <2>2. /\ sems.bt = "none" <=> sems'.bt = "none"
        /\ pc'["app"] = "cleaned" => sems'.bt # "none"
        /\ sems'.sync = sems.sync /\ sems'.alive = sems.alive /\ sems' \in Semaphores
    <3>1. CASE sems.bt = "free" /\ sems' = [ sems EXCEPT !.bt = "app" ]
      BY <1>1, <3>1 DEF Types
    <3>2. CASE Goto("app", "cleaning", "deleting") /\ UNCHANGED sems
      BY <1>1, <3>2, AppMoves DEF Types, AppPlaces
    <3> QED BY <1>2, <3>1, <3>2 DEF SilabsEnd
  <2>3. timer'.refresh = timer.refresh /\ timer' \in Timers
    BY <1>1, <1>2 DEF SilabsEnd, Types
  <2>4. Types'
    BY <1>1, <2>1, <2>2, <2>3 DEF Types
  <2>5. Peering' /\ Looping' /\ Ready'
    BY <1>1, <2>1, <2>2, <2>4, SilabsMoves
  <2>6. SilabsInv'
    BY <1>1, <2>1, <2>2, <2>3, <2>5 DEF SilabsInv
  <2> QED BY <1>1, <2>1, <2>4, <2>5, <2>6, SilabsSide
<1>3. ASSUME SilabsDelete
      PROVE  DInv'
  <2>1. /\ UNCHANGED << platform, faulty, air, link, prov, timer, host >>
        /\ pc["app"] = "deleting" /\ pc'["app"] = "ended"
        /\ pc'["refresh"] = pc["refresh"] /\ pc' \in Places
    BY <1>1, <1>3, AppMoves DEF SilabsDelete, AppPlaces, fixed
  <2>2. sems'.bt = sems.bt /\ sems'.sync = sems.sync /\ sems' \in Semaphores
    BY <1>1, <1>3 DEF SilabsDelete, Types
  <2>3. Types'
    BY <1>1, <2>1, <2>2 DEF Types
  <2>4. Peering' /\ Looping' /\ Ready'
    BY <1>1, <2>1, <2>2, <2>3, SilabsMoves
  <2>5. SilabsInv'
    BY <1>1, <2>1, <2>2, <2>4 DEF SilabsInv
  <2> QED BY <1>1, <2>1, <2>3, <2>4, <2>5, SilabsSide
<1>4. ASSUME SilabsNotified \/ SilabsRefresh
      PROVE  DInv'
  <2>1. /\ UNCHANGED << platform, faulty, air, link, prov, timer, host >>
        /\ pc'["app"] = pc["app"] /\ pc' \in Places
        /\ \/ pc["refresh"] = "idle" /\ sems.bt = "free"
              /\ sems' = [ sems EXCEPT !.bt = "refresh" ]
           \/ pc["refresh"] = "checking" /\ sems' = [ sems EXCEPT !.bt = "free" ]
    BY <1>1, <1>4, Moved
       DEF SilabsNotified, SilabsRefresh, BtTake, BtGive, fixed, Tasks, RefreshPlaces
  <2>2. /\ sems.bt # "none" /\ sems'.bt # "none"
        /\ sems'.sync = sems.sync /\ sems'.alive = sems.alive /\ sems' \in Semaphores
    BY <1>1, <2>1 DEF Types, SilabsInv
  <2>3. Types'
    BY <1>1, <2>1, <2>2 DEF Types
  <2>4. Peering' /\ Looping' /\ Ready'
    BY <1>1, <2>1, <2>2, <2>3, SilabsMoves
  <2>5. SilabsInv'
    BY <1>1, <2>1, <2>2, <2>4 DEF SilabsInv
  <2> QED BY <1>1, <2>1, <2>3, <2>4, <2>5, SilabsSide
<1> QED BY <1>2, <1>3, <1>4

LEMMA SilabsKeeps ==
  ASSUME DInv, SilabsApp \/ SilabsTask \/ SilabsPeer \/ SilabsBoot \/ SilabsRestart
  PROVE  DInv'
BY MainKeeps, PeerKeeps, SilabsPeers, SilabsBeaconKeeps, SilabsEnds
   DEF SilabsApp, SilabsMain, SilabsTask, SilabsPeer

-----------------------------------------------------------------------------
LEMMA DInit == Init => DInv
<1> SUFFICES ASSUME Init PROVE DInv
  OBVIOUS
<1>1. Types
  <2>1. platform \in {"zephyr", "esp", "ti", "silabs"}
    BY DualStackAssumption DEF Init
  <2>2. pc \in Places
    BY DEF Init, Tasks, AppPlaces, RefreshPlaces, Unlit
  <2>3. host \in Hosts
    BY DEF Init
  <2> QED BY <2>1, <2>2, <2>3 DEF Init, Types
<1>2. pc["app"] = "init" /\ pc["refresh"] = "idle"
  BY DEF Init
<1>3. Peering /\ Looping /\ ZephyrInv
  BY <1>2 DEF Init, Peering, Provisioned, Looping, ZephyrInv, Ending, Unlit
<1>4. TiInv
  BY <1>2 DEF Init, TiInv, Calls
<1>5. SilabsInv
  BY <1>2 DEF Init, SilabsInv, Provisioned, Unlit, Ending
<1> QED BY <1>1, <1>3, <1>4, <1>5 DEF DInv

LEMMA DNext == DInv /\ [Next]_vars => DInv'
<1>1. DInv /\ Next => DInv'
  BY ZephyrKeeps, EspKeeps, TiKeeps, SilabsKeeps, TimersKeep
     DEF Next, App, Refresh, Host, Peers, Restart
<1>2. DInv /\ UNCHANGED vars => DInv'
  BY Unmoved DEF vars, fixed, concerned, DInv, Types
<1> QED BY <1>1, <1>2

(* The beacon is off while hubble_sat_packet_send runs, on Zephyr and on     *)
(* Silicon Labs whatever calls fail, and on TI, while none does, once the    *)
(* stop that was asked for has been made: ble_adv_stop of the samples.       *)
THEOREM QuietOnAir == Spec => []Quiet
<1>1. DInv => Quiet
  <2> SUFFICES ASSUME DInv, pc["app"] = "sending", air = "beacon", platform # "esp"
               PROVE  platform = "ti" /\ (faulty \/ Calls("stop"))
    BY DEF Quiet, Calls
  <2>1. platform \in {"zephyr", "esp", "ti", "silabs"}
    BY DEF DInv, Types
  <2> QED BY <2>1 DEF DInv, ZephyrInv, TiInv, SilabsInv, Unlit
<1> QED
  BY DInit, DNext, <1>1, PTL DEF Spec

(* A main loop (main, main_thread and _app_task of the samples) whose calls  *)
(* succeed and that was given orbits never returns, but on Espressif; and    *)
(* what a connected peer's leaving gives is there, unless the set-up failed. *)
THEOREM LoopGoesOn == Spec => []LoopRepeats
<1>1. DInv => LoopRepeats
  <2> SUFFICES ASSUME DInv PROVE LoopRepeats
    OBVIOUS
  <2>1. pc["app"] \in {"cleaning", "ended"} => faulty \/ prov.count = 0 \/ platform = "esp"
    BY DEF DInv, Looping, Ending
  <2>2. link => sems.alive \/ sems.bt = "none"
    BY DEF DInv, Looping, SilabsInv, Peering, Provisioned
  <2> QED BY <2>1, <2>2 DEF LoopRepeats
<1> QED
  BY DInit, DNext, <1>1, PTL DEF Spec
=============================================================================
