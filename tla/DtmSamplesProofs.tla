-------------------------- MODULE DtmSamplesProofs ---------------------------
(***************************************************************************)
(* The test mode samples, for every set of platforms, every number of      *)
(* channels and whatever is typed: a stop ends the transmission, and what  *)
(* is transmitted is what was asked for.                                   *)
(***************************************************************************)
EXTENDS DtmSamples, TLAPS

(* Where the transmit task is once it has told the shell that it transmits. *)
InTheLoop == {"reset", "check", "sleep", "again", "send"}

Types ==
  /\ platform \in {"zephyr", "esp", "ti"}
  /\ shell \in {"boot", "init", "dead", "ready", "start", "stop", "join"}
  /\ thread \in {"none", "new", "parked", "mark", "notify"} \cup InTheLoop
  /\ flags \in [ transmitting : BOOLEAN, in_progress : BOOLEAN ]
  /\ set \in [ channel : 0 .. NumChannels - 1, len : Int ]
  /\ tx_task_sem \in {0, 1}
  /\ typed \in BOOLEAN /\ sweep \in BOOLEAN /\ local \in BOOLEAN
  /\ wanted \in BOOLEAN /\ doubled \in BOOLEAN
  /\ stop_task \in BOOLEAN /\ notified \in BOOLEAN

(* Zephyr and TI: the flag in_progress is set for as long as the task is     *)
(* there, but for the stop, which clears it and then waits for the task.     *)
Joined ==
  platform # "esp" =>
    /\ tx_task_sem = 0
    /\ flags.transmitting => flags.in_progress /\ thread \in InTheLoop
    /\ ~flags.in_progress => thread = "none" \/ (shell = "join" /\ thread \in InTheLoop)
    /\ shell = "join" => ~flags.in_progress
    /\ stopped = "loop" => thread = "none" /\ ~flags.in_progress

(* Espressif: the stop's handle, the task on its way to the notification,    *)
(* and the notification are one token, which exists only during a stop.      *)
Token ==
  /\ shell # "join" => ~stop_task /\ ~notified /\ thread # "notify"
  /\ stop_task => ~notified /\ thread # "notify"
  /\ thread = "notify" => ~notified

Notified ==
  platform = "esp" =>
    /\ Token
    /\ ~flags.in_progress
    /\ shell = "boot" => thread = "none"
    /\ shell \notin {"boot", "dead"} => thread # "none"
    /\ thread # "new"
    /\ thread \in InTheLoop => flags.transmitting \/ stop_task
    /\ flags.transmitting => thread \in InTheLoop
    /\ ~doubled =>
         /\ tx_task_sem = 1 => thread = "parked" /\ shell # "join"
         /\ shell = "join" => thread \in InTheLoop \cup {"notify", "parked"} /\ ~flags.transmitting
         /\ notified => thread = "parked"
         /\ stopped = "loop" => thread \in AtRest /\ tx_task_sem = 0

(* The task has the kind of transmission that was asked for last. *)
Asked ==
  /\ platform = "zephyr" /\ thread # "none" => local = wanted
  /\ platform = "ti" /\ thread # "none" => sweep = wanted
  /\ platform = "esp" => sweep = wanted
  /\ platform = "esp" /\ thread \in InTheLoop => local = wanted
  /\ AsAsked

Waved == stopped = "wave" => ~carrier \/ platform = "ti"

DInv == Types /\ Joined /\ Notified /\ Asked /\ Waved

-----------------------------------------------------------------------------
(* A step that changes nothing of this keeps the invariant. *)
LEMMA Unmoved ==
  ASSUME DInv, UNCHANGED << platform, shell, thread, flags, set, tx_task_sem, typed, sweep, local,
                            handshake, carrier, history >>
  PROVE  DInv'
BY DEF DInv, Types, Joined, Notified, Token, Asked, AsAsked, Waved, handshake, history

(* The shell's commands. *)
LEMMA UserKeeps ==
  ASSUME DInv, User
  PROVE  DInv'
<1> USE DEF DInv
<1>1. ASSUME NEW c \in {"start", "stop"}, Type(c)
      PROVE  DInv'
  <2>1. /\ shell = "ready" /\ shell' = c /\ typed' \in BOOLEAN
        /\ UNCHANGED << platform, thread, flags, set, tx_task_sem, sweep, local,
                        handshake, carrier, history >>
    BY <1>1 DEF Type, Goto, sems, settings
  <2>2. Types'
    BY <1>1, <2>1 DEF Types, handshake, history
  <2>3. Joined' /\ Notified'
    BY <1>1, <2>1 DEF Joined, Notified, Token, handshake, history
  <2>4. Asked' /\ Waved'
    BY <2>1 DEF Asked, AsAsked, Waved, history
  <2> QED BY <2>2, <2>3, <2>4
<1>2. ASSUME Channel
      PROVE  DInv'
  <2>1. PICK c \in Channels : c \in 0 .. NumChannels - 1 /\ set' = [ set EXCEPT !.channel = c ]
    BY <1>2 DEF Channel
  <2>2. UNCHANGED << platform, shell, typed, thread, tx_task_sem, flags, sweep, local,
                     handshake, carrier, history >>
    BY <1>2 DEF Channel, sems
  <2>3. Types'
    BY <2>1, <2>2 DEF Types, handshake, history
  <2>4. Joined' /\ Notified' /\ Asked' /\ Waved'
    BY <2>2 DEF Joined, Notified, Token, Asked, AsAsked, Waved, handshake, history
  <2> QED BY <2>3, <2>4
<1>3. ASSUME Payload
      PROVE  DInv'
  <2>1. PICK n \in Lengths : set' = [ set EXCEPT !.len = n ]
    BY <1>3 DEF Payload
  <2>2. n \in Int
    BY DtmShellAssumption
  <2>3. UNCHANGED << platform, shell, typed, thread, tx_task_sem, flags, sweep, local,
                     handshake, carrier, history >>
    BY <1>3 DEF Payload, sems
  <2>4. Types'
    BY <2>1, <2>2, <2>3 DEF Types, handshake, history
  <2>5. Joined' /\ Notified' /\ Asked' /\ Waved'
    BY <2>3 DEF Joined, Notified, Token, Asked, AsAsked, Waved, handshake, history
  <2> QED BY <2>4, <2>5
<1>4. ASSUME Wave
      PROVE  DInv'
  <2>1. /\ stopped' = "none"
        /\ UNCHANGED << platform, shell, typed, thread, tx_task_sem, flags, set, sweep, local,
                        handshake, wanted, sent, doubled >>
    BY <1>4 DEF Wave, sems, settings
  <2>2. Types'
    BY <2>1 DEF Types, handshake
  <2>3. Joined' /\ Notified' /\ Asked' /\ Waved'
    BY <2>1 DEF Joined, Notified, Token, Asked, AsAsked, Waved, handshake
  <2> QED BY <2>2, <2>3
<1> QED
  BY <1>1, <1>2, <1>3, <1>4
  DEF User, ZephyrChannel, ZephyrPayload, ZephyrCommand, EspChannel, EspPayload, EspCommand,
      TiChannel, TiPayload, TiCommand

-----------------------------------------------------------------------------
(* A stop that finds nothing transmitted. *)
LEMMA StopIdleKeeps ==
  ASSUME DInv, StopIdle, carrier' = FALSE \/ (platform = "ti" /\ carrier' = carrier)
  PROVE  DInv'
<1> USE DEF DInv
<1>1. /\ shell = "stop" /\ shell' = "ready" /\ stopped' = "wave"
      /\ UNCHANGED << platform, typed, thread, tx_task_sem, flags, set, sweep, local,
                      handshake, wanted, sent, doubled >>
  BY DEF StopIdle, Goto, sems, settings
<1>2. Types'
  BY <1>1 DEF Types, handshake
<1>3. Joined' /\ Notified'
  BY <1>1 DEF Joined, Notified, Token, handshake
<1>4. Asked' /\ Waved'
  BY <1>1 DEF Asked, AsAsked, Waved
<1> QED BY <1>2, <1>3, <1>4


(* A command accepted, or refused. *)
LEMMA ZephyrStartKeeps ==
  ASSUME DInv, ZephyrStart
  PROVE  DInv'
<1> USE DEF DInv
<1>1. /\ platform = "zephyr" /\ shell = "start" /\ shell' = "ready" /\ typed' = FALSE
      /\ UNCHANGED << platform, tx_task_sem, set, sweep, handshake, carrier, doubled >>
  BY DEF ZephyrStart, Goto, sems, settings
<1>2. CASE flags.in_progress
  <2>1. UNCHANGED << thread, flags, local, wanted, sent, stopped >>
    BY <1>2 DEF ZephyrStart
  <2>2. Types'
    BY <1>1, <2>1 DEF Types, handshake
  <2>3. Joined' /\ Notified' /\ Asked' /\ Waved'
    BY <1>1, <2>1 DEF Joined, Notified, Token, Asked, AsAsked, Waved, handshake
  <2> QED BY <2>2, <2>3
<1>3. CASE ~flags.in_progress
  <2>1. /\ thread' = "new" /\ flags' = [ flags EXCEPT !.in_progress = TRUE ]
        /\ local' = typed /\ wanted' = typed /\ sent' = NoPacket /\ stopped' = "none"
    BY <1>3 DEF ZephyrStart, Accept
  <2>2. Types'
    BY <1>1, <2>1 DEF Types, handshake
  <2>3. Joined'
    BY <1>1, <1>3, <2>1 DEF Joined, Types
  <2>4. Notified' /\ Asked' /\ Waved'
    BY <1>1, <2>1 DEF Notified, Asked, AsAsked, Waved
  <2> QED BY <2>2, <2>3, <2>4
<1> QED BY <1>2, <1>3

LEMMA TiStartKeeps ==
  ASSUME DInv, TiStart
  PROVE  DInv'
<1> USE DEF DInv
<1>1. /\ platform = "ti" /\ shell = "start" /\ shell' = "ready" /\ typed' = FALSE
      /\ UNCHANGED << platform, tx_task_sem, set, local, handshake, carrier, doubled >>
      /\ sweep' = IF flags.in_progress THEN sweep ELSE typed
  BY DEF TiStart, Goto, sems
<1>2. CASE UNCHANGED << thread, flags, wanted, sent, stopped >>
  <2>1. Types'
    BY <1>1, <1>2 DEF Types, handshake
  <2>2. Joined' /\ Notified' /\ Waved'
    BY <1>1, <1>2 DEF Joined, Notified, Waved, handshake
  <2>3. ~flags.in_progress => thread = "none"
    BY <1>1 DEF Joined
  <2>4. Asked'
    BY <1>1, <1>2, <2>3 DEF Asked, AsAsked
  <2> QED BY <2>1, <2>2, <2>4
<1>3. CASE ~flags.in_progress /\ thread' = "mark" /\ Accept
           /\ flags' = [ flags EXCEPT !.in_progress = TRUE ]
  <2>1. wanted' = typed /\ sent' = NoPacket /\ stopped' = "none" /\ sweep' = typed
    BY <1>1, <1>3 DEF Accept
  <2>2. Types'
    BY <1>1, <1>3, <2>1 DEF Types, handshake
  <2>3. Joined'
    BY <1>1, <1>3, <2>1 DEF Joined, Types
  <2>4. Notified' /\ Asked' /\ Waved'
    BY <1>1, <2>1 DEF Notified, Asked, AsAsked, Waved
  <2> QED BY <2>2, <2>3, <2>4
<1> QED BY <1>2, <1>3 DEF TiStart

LEMMA EspStartKeeps ==
  ASSUME DInv, EspStart
  PROVE  DInv'
<1> USE DEF DInv
<1>1. /\ platform = "esp" /\ shell = "start" /\ shell' = "ready" /\ typed' = FALSE
      /\ UNCHANGED << platform, thread, flags, set, local, handshake, carrier >>
  BY DEF EspStart, Goto
<1>2. CASE flags.transmitting
  <2>1. UNCHANGED << tx_task_sem, sweep, wanted, sent, stopped, doubled >>
    BY <1>2 DEF EspStart
  <2>2. Types'
    BY <1>1, <2>1 DEF Types, handshake
  <2>3. Joined' /\ Notified' /\ Asked' /\ Waved'
    BY <1>1, <2>1 DEF Joined, Notified, Token, Asked, AsAsked, Waved, handshake
  <2> QED BY <2>2, <2>3
<1>3. CASE ~flags.transmitting
  <2>1. /\ sweep' = typed /\ wanted' = typed /\ tx_task_sem' = 1
        /\ sent' = NoPacket /\ stopped' = "none"
    BY <1>3 DEF EspStart, Accept
  <2>2. doubled' = (doubled \/ tx_task_sem = 1 \/ thread = "mark") /\ doubled' \in BOOLEAN
    BY <1>3 DEF EspStart
  <2>3. Types'
    BY <1>1, <2>1, <2>2 DEF Types, handshake
  <2>4. thread \notin InTheLoop /\ ~notified /\ thread # "notify"
    BY <1>1, <1>3 DEF Notified, Token
  <2>5. ~doubled' => thread = "parked" /\ ~doubled
    BY <1>1, <2>2, <2>4 DEF Notified, Types
  <2>6. Joined' /\ Notified'
    BY <1>1, <1>3, <2>1, <2>4, <2>5 DEF Joined, Notified, Token, handshake
  <2>7. Asked' /\ Waved'
    BY <1>1, <2>1, <2>4 DEF Asked, AsAsked, Waved
  <2> QED BY <2>3, <2>6, <2>7
<1> QED BY <1>2, <1>3

-----------------------------------------------------------------------------
(* A stop that finds the task transmitting, and its end. *)
LEMMA InterruptKeeps ==
  ASSUME DInv, Interrupt,
         IF platform = "esp" THEN stop_task' = TRUE ELSE UNCHANGED stop_task,
         UNCHANGED << platform, typed, thread, tx_task_sem, settings, local, notified, carrier,
                      history >>
  PROVE  DInv'
<1> USE DEF DInv
<1>1. /\ flags.transmitting /\ shell = "stop" /\ shell' = "join"
      /\ flags' = [ transmitting |-> FALSE, in_progress |-> FALSE ]
      /\ UNCHANGED << platform, typed, thread, tx_task_sem, set, sweep, local, notified, carrier,
                      wanted, sent, stopped, doubled >>
  BY DEF Interrupt, Goto, settings, history
<1>2. thread \in InTheLoop /\ thread \notin {"none", "parked", "notify", "new", "mark"}
  BY <1>1 DEF Joined, Notified, InTheLoop
<1>3. platform = "esp" => ~notified
  BY <1>1 DEF Notified, Token
<1>4. Types'
  BY <1>1 DEF Types
<1>5. Joined'
  BY <1>1, <1>2 DEF Joined, Types
<1>6. Notified'
  BY <1>1, <1>2, <1>3 DEF Notified, Token, Types, AtRest
<1>7. Asked' /\ Waved'
  BY <1>1 DEF Asked, AsAsked, Waved
<1> QED BY <1>4, <1>5, <1>6, <1>7

LEMMA JoinKeeps ==
  ASSUME DInv, Join
  PROVE  DInv'
<1> USE DEF DInv
<1>1. /\ platform # "esp" /\ shell = "join" /\ shell' = "ready" /\ thread = "none"
      /\ stopped' = "loop"
      /\ UNCHANGED << platform, typed, thread, tx_task_sem, flags, set, sweep, local,
                      handshake, carrier, wanted, sent, doubled >>
  BY DEF Join, Goto, sems, settings
<1>2. Types'
  BY <1>1 DEF Types, handshake
<1>3. Joined' /\ Notified' /\ Asked' /\ Waved'
  BY <1>1 DEF Joined, Notified, Asked, AsAsked, Waved
<1> QED BY <1>2, <1>3

LEMMA EspStoppedKeeps ==
  ASSUME DInv, EspStopped
  PROVE  DInv'
<1> USE DEF DInv
<1>1. /\ platform = "esp" /\ shell = "join" /\ shell' = "ready" /\ notified /\ notified' = FALSE
      /\ stopped' = "loop"
      /\ UNCHANGED << platform, typed, thread, tx_task_sem, flags, set, sweep, local,
                      stop_task, carrier, wanted, sent, doubled >>
  BY DEF EspStopped, Goto, sems, settings
<1>2. Types'
  BY <1>1 DEF Types
<1>3. Joined' /\ Notified'
  BY <1>1 DEF Joined, Notified, Token, Types, AtRest
<1>4. Asked' /\ Waved'
  BY <1>1 DEF Asked, AsAsked, Waved
<1> QED BY <1>2, <1>3, <1>4

LEMMA ShellKeeps ==
  ASSUME DInv, Shell
  PROVE  DInv'
<1>1. CASE ZephyrStart \/ TiStart \/ EspStart
  BY <1>1, ZephyrStartKeeps, TiStartKeeps, EspStartKeeps
<1>2. CASE ZephyrJoin \/ TiJoin \/ EspStopped
  BY <1>2, JoinKeeps, EspStoppedKeeps DEF ZephyrJoin, TiJoin
<1>3. CASE ZephyrStop \/ EspStop \/ TiStop
  <2>1. CASE StopIdle
    BY <1>3, <2>1, StopIdleKeeps DEF ZephyrStop, EspStop, TiStop, Interrupt, StopIdle
  <2>2. CASE Interrupt
    <3>1. ~StopIdle
      BY <2>2 DEF Interrupt, StopIdle
    <3>2. /\ IF platform = "esp" THEN stop_task' = TRUE ELSE UNCHANGED stop_task
          /\ UNCHANGED << platform, typed, thread, tx_task_sem, settings, local, notified,
                          carrier, history >>
      BY <1>3, <3>1 DEF ZephyrStop, EspStop, TiStop, handshake
    <3> QED BY <2>2, <3>2, InterruptKeeps
  <2> QED BY <1>3, <2>1, <2>2 DEF ZephyrStop, EspStop, TiStop
<1> QED BY <1>1, <1>2, <1>3 DEF Shell, ZephyrShell, EspShell, TiShell

-----------------------------------------------------------------------------
(* The task: it says that it transmits, *)
LEMMA MarkKeeps ==
  ASSUME DInv, Mark, IF platform = "esp" THEN local' = sweep ELSE UNCHANGED local
  PROVE  DInv'
<1> USE DEF DInv
<1>1. /\ thread = "mark" /\ thread' = "reset"
      /\ flags' = [ flags EXCEPT !.transmitting = TRUE ]
      /\ UNCHANGED << platform, shell, typed, tx_task_sem, set, sweep, handshake, carrier,
                      history >>
  BY DEF Mark, Step, sems, settings
<1>2. Types'
  BY <1>1 DEF Types, handshake, history, InTheLoop
<1>3. Joined'
  BY <1>1 DEF Joined, Types, history, InTheLoop
<1>4. Notified'
  <2>1. SUFFICES ASSUME platform = "esp"
                 PROVE  Notified'
    BY <1>1 DEF Notified
  <2>2. ~doubled => shell # "join" /\ ~notified /\ tx_task_sem = 0 /\ stopped # "loop"
    BY <1>1, <2>1 DEF Notified, Token, Types, InTheLoop, AtRest
  <2>3. flags'.transmitting /\ flags'.in_progress = flags.in_progress
    BY <1>1 DEF Types
  <2> QED BY <1>1, <2>1, <2>2, <2>3 DEF Notified, Token, handshake, history, InTheLoop
<1>5. Asked' /\ Waved'
  BY <1>1 DEF Asked, AsAsked, Waved, history
<1> QED BY <1>2, <1>3, <1>4, <1>5

(* goes round its loop, *)
LEMMA RoundKeeps ==
  ASSUME DInv, thread \in InTheLoop, thread' \in InTheLoop,
         UNCHANGED << platform, shell, typed, tx_task_sem, flags, settings, local, handshake,
                      carrier, wanted, stopped, doubled >>,
         sent' = sent \/ AsAsked'
  PROVE  DInv'
<1> USE DEF DInv
<1>1. Types'
  BY DEF Types, settings, handshake
<1>2. Joined'
  BY DEF Joined, InTheLoop
<1>3. Notified'
  BY DEF Notified, Token, handshake, InTheLoop, AtRest
<1>4. AsAsked'
  BY DEF Asked, AsAsked
<1>5. Asked' /\ Waved'
  BY <1>4, thread # "none" DEF Asked, Waved, settings, InTheLoop
<1> QED BY <1>1, <1>2, <1>3, <1>5

(* and leaves it when the flag is cleared.                                   *)
LEMMA LeaveKeeps ==
  ASSUME DInv, thread \in InTheLoop, Leave(thread),
         \/ ~flags.transmitting /\ flags' = flags
         \/ platform = "esp" /\ flags' = [ flags EXCEPT !.transmitting = FALSE ],
         UNCHANGED << platform, shell, typed, tx_task_sem, settings, local, notified, carrier,
                      wanted, stopped, doubled >>,
         sent' = sent \/ AsAsked'
  PROVE  DInv'
<1> USE DEF DInv
<1>1. /\ flags' \in [ transmitting : BOOLEAN, in_progress : BOOLEAN ]
      /\ ~flags'.transmitting /\ flags'.in_progress = flags.in_progress
  BY DEF Types
<1>2. platform = "esp" =>
        thread' = (IF stop_task THEN "notify" ELSE "parked") /\ stop_task' = FALSE
  BY DEF Leave, Step
<1>3. platform # "esp" => thread' = "none" /\ UNCHANGED stop_task
  BY DEF Leave, Step
<1>4. Types'
  <2>1. /\ thread' \in {"none", "parked", "notify"} /\ stop_task' \in BOOLEAN
    BY <1>2, <1>3 DEF Types
  <2> QED BY <1>1, <2>1 DEF Types, settings
<1>5. Joined'
  BY <1>1, <1>3 DEF Joined, Types
<1>6. Notified'
  BY <1>1, <1>2 DEF Notified, Token, Types, InTheLoop, AtRest
<1>7. AsAsked'
  BY DEF Asked, AsAsked
<1>8. Asked' /\ Waved'
  BY <1>2, <1>3, <1>7 DEF Asked, Waved, settings, InTheLoop
<1> QED BY <1>4, <1>5, <1>6, <1>8

(* What is sent is what was asked for. *)
LEMMA PacketAsAsked ==
  ASSUME DInv, thread = "send", sent' = Packet, UNCHANGED wanted
  PROVE  AsAsked'
<1> DEFINE hops == IF platform = "ti" THEN sweep ELSE local
<1>1. hops = wanted
  BY DEF DInv, Types, Asked, InTheLoop
<1>2. set \in [ channel : 0 .. NumChannels - 1, len : Int ]
  BY DEF DInv, Types
<1>3. sent' = [ set EXCEPT !.channel = IF wanted THEN -1 ELSE set.channel ]
  BY <1>1 DEF Packet
<1>4. sent'.channel = IF wanted THEN -1 ELSE set.channel
  BY <1>2, <1>3
<1>5. CASE wanted
  <2>1. sent'.channel = -1 /\ wanted' = TRUE
    BY <1>4, <1>5 DEF DInv, Types
  <2>2. sent'.channel < NumChannels
    BY <2>1, DtmShellAssumption
  <2> QED BY <2>1, <2>2 DEF AsAsked
<1>6. CASE ~wanted
  <2>1. sent'.channel = set.channel /\ ~wanted'
    BY <1>4, <1>6
  <2>2. sent'.channel # -1 /\ sent'.channel < NumChannels
    BY <1>2, <2>1, DtmShellAssumption
  <2>3. (sent'.channel = -1) = wanted'
    BY <2>1, <2>2, Zenon DEF DInv, Types
  <2> QED BY <2>2, <2>3 DEF AsAsked
<1> QED BY <1>5, <1>6

LEMMA LoopKeeps ==
  ASSUME DInv, Loop
  PROVE  DInv'
<1>1. CASE Reset \/ Sleep
  <2>1. /\ thread \in InTheLoop /\ thread' \in InTheLoop
        /\ UNCHANGED << platform, shell, typed, tx_task_sem, flags, settings, local, handshake,
                        carrier, history >>
    BY <1>1 DEF Reset, Sleep, Step, InTheLoop
  <2> QED BY <2>1, RoundKeeps DEF history
<1>2. CASE Check \/ Again
  <2>1. CASE flags.transmitting
    <3>1. /\ thread \in InTheLoop /\ thread' \in InTheLoop
          /\ UNCHANGED << platform, shell, typed, tx_task_sem, flags, settings, local, handshake,
                          carrier, history >>
      BY <1>2, <2>1 DEF Check, Again, Step, InTheLoop, handshake
    <3> QED BY <3>1, RoundKeeps DEF history
  <2>2. CASE ~flags.transmitting
    <3>1. /\ thread \in InTheLoop /\ Leave(thread)
          /\ UNCHANGED << platform, shell, typed, tx_task_sem, flags, settings, local, notified,
                          carrier, history >>
      BY <1>2, <2>2 DEF Check, Again, Leave, Step, InTheLoop
    <3> QED BY <2>2, <3>1, LeaveKeeps DEF history
  <2> QED BY <2>1, <2>2
<1>3. CASE Send
  <2>1. AsAsked'
    BY <1>3, PacketAsAsked DEF Send, Step
  <2> QED BY <1>3, <2>1, RoundKeeps DEF Send, Step, InTheLoop
<1> QED BY <1>1, <1>2, <1>3 DEF Loop

LEMMA ZephyrEnterKeeps ==
  ASSUME DInv, ZephyrEnter
  PROVE  DInv'
<1> USE DEF DInv
<1>1. /\ platform = "zephyr" /\ thread = "new" /\ thread' \in {"mark", "none"}
      /\ UNCHANGED << platform, shell, typed, tx_task_sem, flags, set, sweep, local, handshake,
                      carrier, history >>
  BY DEF ZephyrEnter, Step, sems, settings
<1>2. Types'
  BY <1>1 DEF Types, handshake, history
<1>3. Joined'
  BY <1>1 DEF Joined, history, InTheLoop
<1>4. Notified' /\ Asked' /\ Waved'
  BY <1>1 DEF Notified, Asked, AsAsked, Waved, history
<1> QED BY <1>2, <1>3, <1>4

(* Espressif's task takes a command, whose transmission may fail at once, or *)
(* tells the stop.                                                           *)
LEMMA EspTaskKeeps ==
  ASSUME DInv, EspWake \/ EspTimerFails \/ EspNotify
  PROVE  DInv'
<1> USE DEF DInv
<1>1. CASE EspWake
  <2>1. /\ platform = "esp" /\ tx_task_sem = 1 /\ tx_task_sem' = 0
        /\ thread = "parked" /\ thread' = "mark"
        /\ UNCHANGED << platform, shell, typed, flags, set, sweep, local, handshake, carrier,
                        history >>
    BY <1>1 DEF EspWake, Step, settings
  <2>2. Types'
    BY <2>1 DEF Types, handshake, history
  <2>3. ~doubled => shell # "join" /\ stopped # "loop"
    BY <2>1 DEF Notified
  <2>4. Joined' /\ Notified'
    BY <2>1, <2>3 DEF Joined, Notified, Token, handshake, history, InTheLoop
  <2>5. Asked' /\ Waved'
    BY <2>1 DEF Asked, AsAsked, Waved, history, InTheLoop
  <2> QED BY <2>2, <2>4, <2>5
<1>2. CASE EspTimerFails
  <2>1. AsAsked'
    BY <1>2, PacketAsAsked DEF EspTimerFails
  <2> QED BY <1>2, <2>1, LeaveKeeps DEF EspTimerFails, InTheLoop
<1>3. CASE EspNotify
  <2>1. /\ platform = "esp" /\ thread = "notify" /\ thread' = "parked" /\ notified' = TRUE
        /\ UNCHANGED << platform, shell, typed, tx_task_sem, flags, set, sweep, local, stop_task,
                        carrier, history >>
    BY <1>3 DEF EspNotify, Step, sems, settings
  <2>2. Types'
    BY <2>1 DEF Types, history
  <2>3. shell = "join" /\ ~stop_task /\ ~notified
    BY <2>1 DEF Notified, Token
  <2>4. Joined' /\ Notified'
    BY <2>1, <2>3 DEF Joined, Notified, Token, Types, history, InTheLoop, AtRest
  <2>5. Asked' /\ Waved'
    BY <2>1 DEF Asked, AsAsked, Waved, history, InTheLoop
  <2> QED BY <2>2, <2>4, <2>5
<1> QED BY <1>1, <1>2, <1>3

LEMMA ThreadKeeps ==
  ASSUME DInv, Thread
  PROVE  DInv'
<1>1. CASE Loop
  BY <1>1, LoopKeeps
<1>2. CASE Mark /\ IF platform = "esp" THEN local' = sweep ELSE UNCHANGED local
  BY <1>2, MarkKeeps
<1>3. CASE ZephyrEnter \/ EspWake \/ EspTimerFails \/ EspNotify
  BY <1>3, ZephyrEnterKeeps, EspTaskKeeps
<1> QED BY <1>1, <1>2, <1>3 DEF Thread, ZephyrThread, EspThread, TiThread

-----------------------------------------------------------------------------
(* The start of the sample. *)
LEMMA BootKeeps ==
  ASSUME DInv, EspBoot \/ EspShellInit \/ TiMain \/ TiBoot
  PROVE  DInv'
<1> USE DEF DInv
<1>1. /\ shell \in {"boot", "init"} /\ shell' \in {"init", "ready", "dead"}
      /\ thread' = thread \/ (platform = "esp" /\ shell = "boot" /\ thread' = "parked")
      /\ platform = "esp" /\ shell = "boot" /\ shell' # "dead" => thread' = "parked"
      /\ UNCHANGED << platform, typed, tx_task_sem, flags, set, sweep, local, handshake, carrier,
                      history >>
  BY DEF EspBoot, EspShellInit, TiMain, TiBoot, Goto, sems, settings
<1>2. Types'
  BY <1>1 DEF Types, handshake, history
<1>3. Joined'
  BY <1>1 DEF Joined, history
<1>4. Notified'
  BY <1>1 DEF Notified, Token, handshake, history, InTheLoop, AtRest
<1>5. Asked' /\ Waved'
  BY <1>1 DEF Asked, AsAsked, Waved, history, InTheLoop
<1> QED BY <1>2, <1>3, <1>4, <1>5

LEMMA DInit ==
  ASSUME Init
  PROVE  DInv
<1>1. Types
  <2>1. platform \in {"zephyr", "esp", "ti"}
    BY DtmShellAssumption DEF Init
  <2>2. set \in [ channel : 0 .. NumChannels - 1, len : Int ]
    BY DtmShellAssumption DEF Init
  <2> QED BY <2>1, <2>2 DEF Init, Types
<1>2. Joined /\ Notified
  BY DEF Init, Joined, Notified, Token, InTheLoop
<1>3. Asked /\ Waved
  BY DEF Init, Asked, AsAsked, Waved, InTheLoop
<1> QED BY <1>1, <1>2, <1>3 DEF DInv

LEMMA DNext ==
  ASSUME DInv, [Next]_vars
  PROVE  DInv'
<1>1. CASE UNCHANGED vars
  BY <1>1, Unmoved DEF vars, sems, settings
<1>2. CASE Timer
  BY <1>2, Unmoved DEF Timer, settings
<1> QED BY <1>1, <1>2, UserKeeps, ShellKeeps, ThreadKeeps, BootKeeps DEF Next

LEMMA DtmInvariant == Spec => []DInv
<1>1. Init => DInv
  BY DInit
<1>2. DInv /\ [Next]_vars => DInv'
  BY DNext
<1> QED BY <1>1, <1>2, PTL DEF Spec

-----------------------------------------------------------------------------
(* On every platform a stop ends what it found: when cmd_stop (_cmd_stop)     *)
(* has returned from a transmission, the task of hubble_sat_dtm_packet_send   *)
(* is at its end and nothing makes it send again, unless a command on         *)
(* Espressif was accepted over another; when it has returned without one, no  *)
(* carrier wave is left, but on TI.                                           *)
THEOREM StopsForGood == Spec => []StopEnds
<1>1. ASSUME DInv
      PROVE  StopEnds
  <2>1. ASSUME stopped = "loop", ~doubled
        PROVE  thread \in AtRest /\ tx_task_sem = 0 /\ ~flags.in_progress
    BY <1>1, <2>1 DEF DInv, Joined, Notified, AtRest
  <2>2. stopped = "wave" => ~carrier \/ platform = "ti"
    BY <1>1 DEF DInv, Waved
  <2> QED BY <2>1, <2>2 DEF StopEnds
<1> QED BY <1>1, DtmInvariant, PTL

(* Whatever is typed while it transmits, the task sends what the last         *)
(* accepted command of the shell asked for, one channel or a sweep, and only  *)
(* channels below HUBBLE_NUM_CHANNELS.                                        *)
THEOREM SentAsAsked == Spec => []AsAsked
<1>1. DInv => AsAsked
  BY DEF DInv, Asked
<1> QED BY <1>1, DtmInvariant, PTL
=============================================================================
