----------------------------- MODULE DtmSamples -----------------------------
(***************************************************************************)
(* The three samples. Zephyr and TI create the transmit task for each      *)
(* command and join it in the stop; Espressif has one task that waits for  *)
(* commands on a semaphore and notifies the task that executes the stop.   *)
(***************************************************************************)
EXTENDS DtmShell, Sequences, SequencesExt

CONSTANT MaxCommands \* of TI's table of commands

(* Zephyr: samples/zephyr/sat-dtm. _spawn_thread: the flag is set before the *)
(* task runs, so that a second command does not create it again.             *)
ZephyrStart ==
  /\ platform = "zephyr" /\ shell_sem = "free"
  /\ Goto("start", "ready")
  /\ IF flags.in_progress
     THEN UNCHANGED << thread, flags, local, wanted, sent, stopped >>
     ELSE /\ thread' = "new"
          /\ flags' = [ flags EXCEPT !.in_progress = TRUE ]
          /\ local' = typed
          /\ Accept
  /\ typed' = FALSE
  /\ UNCHANGED << platform, sems, timer, settings, handshake, carrier, doubled >>

(* Nothing is sent, and the flag stays set, if the packet cannot be had. *)
ZephyrEnter ==
  /\ platform = "zephyr"
  /\ Step("new", "mark") \/ Step("new", "none")
  /\ UNCHANGED << platform, shell, typed, sems, timer, flags, settings, local, handshake,
                  carrier, history >>

ZephyrThread ==
  \/ ZephyrEnter
  \/ platform = "zephyr" /\ Mark /\ UNCHANGED local
  \/ platform = "zephyr" /\ Loop

(* Nothing transmits: on Zephyr and Espressif the stop ends a carrier wave,  *)
(* or a transmission of another kind, none of which is waited for.           *)
StopIdle ==
  /\ Goto("stop", "ready")
  /\ ~flags.transmitting
  /\ stopped' = "wave"
  /\ UNCHANGED << platform, typed, thread, sems, timer, flags, settings, local, handshake,
                  wanted, sent, doubled >>

(* Mutant of ZephyrStop: the task's end is not waited for.                   *)
ZephyrStopNoJoin ==
  /\ platform = "zephyr" /\ shell_sem = "free"
  /\ \/ /\ Goto("stop", "ready")
        /\ flags.transmitting
        /\ flags' = [ transmitting |-> FALSE, in_progress |-> FALSE ]
        /\ timer' = FALSE /\ interval_sem' = 1 /\ stopped' = "loop"
        /\ UNCHANGED << platform, typed, thread, shell_sem, tx_task_sem, settings, local,
                        handshake, carrier, wanted, sent, doubled >>
     \/ StopIdle /\ carrier' = FALSE

ZephyrStop ==
  /\ platform = "zephyr" /\ shell_sem = "free"
  /\ \/ /\ Interrupt
        /\ UNCHANGED << platform, typed, thread, shell_sem, tx_task_sem, settings, local,
                        handshake, carrier, history >>
     \/ StopIdle /\ carrier' = FALSE

(* k_thread_join, pthread_join *)
Join ==
  /\ platform # "esp"
  /\ Goto("join", "ready")
  /\ thread = "none"
  /\ stopped' = "loop"
  /\ UNCHANGED << platform, typed, thread, sems, timer, flags, settings, local, handshake,
                  carrier, wanted, sent, doubled >>

ZephyrJoin == platform = "zephyr" /\ Join

(* cmd_channel, cmd_payload, cmd_carrier_wave and the two transmit commands. *)
ZephyrChannel == platform = "zephyr" /\ Channel
ZephyrPayload == platform = "zephyr" /\ Payload
ZephyrCommand == platform = "zephyr" /\ (Wave \/ Type("start") \/ Type("stop"))

-----------------------------------------------------------------------------
(* Espressif: samples/esp-idf/sat-dtm. app_main: an error ends it; the task  *)
(* is created last, before the shell,                                        *)
EspBoot ==
  /\ platform = "esp"
  /\ \/ Goto("boot", "init") /\ thread' = "parked"
     \/ Goto("boot", "dead") /\ UNCHANGED thread
  /\ UNCHANGED << platform, typed, sems, timer, flags, settings, local, handshake, carrier,
                  history >>

(* whose commands are registered one by one: an error resets the device.     *)
EspShellInit ==
  /\ platform = "esp"
  /\ Goto("init", "ready") \/ Goto("init", "dead")
  /\ UNCHANGED << platform, typed, thread, sems, timer, flags, settings, local, handshake,
                  carrier, history >>

(* _transmit_repeating: refused while the task transmits; one that follows   *)
(* another before the task has taken it over replaces it.                    *)
EspStart ==
  /\ platform = "esp" /\ shell_sem = "free"
  /\ Goto("start", "ready")
  /\ IF flags.transmitting
     THEN UNCHANGED << tx_task_sem, sweep, wanted, sent, stopped, doubled >>
     ELSE /\ sweep' = typed
          /\ tx_task_sem' = 1
          /\ Accept
          /\ doubled' = (doubled \/ tx_task_sem = 1 \/ thread = "mark")
  /\ typed' = FALSE
  /\ UNCHANGED << platform, thread, shell_sem, interval_sem, timer, flags, set, local,
                  handshake, carrier >>

EspWake ==
  /\ platform = "esp"
  /\ tx_task_sem = 1
  /\ Step("parked", "mark")
  /\ tx_task_sem' = 0
  /\ UNCHANGED << platform, shell, typed, shell_sem, interval_sem, timer, flags, settings,
                  local, handshake, carrier, history >>

(* "Failed to start timer": the loop ends by itself. *)
EspTimerFails ==
  /\ platform = "esp" /\ thread = "send"
  /\ sent' = Packet
  /\ flags' = [ flags EXCEPT !.transmitting = FALSE ]
  /\ Leave("send")
  /\ UNCHANGED << platform, shell, typed, interval_sem, tx_task_sem, timer, settings, local,
                  notified, carrier, wanted, stopped, doubled >>

EspNotify ==
  /\ platform = "esp"
  /\ Step("notify", "parked")
  /\ notified' = TRUE
  /\ UNCHANGED << platform, shell, typed, sems, timer, flags, settings, local, stop_task,
                  carrier, history >>

EspThread ==
  \/ EspWake \/ EspTimerFails \/ EspNotify
  \/ platform = "esp" /\ Mark /\ local' = sweep
  \/ platform = "esp" /\ Loop

(* Mutant of EspStop: the task is not woken from its interval.               *)
EspStopAsleep ==
  /\ platform = "esp" /\ shell_sem = "free"
  /\ \/ /\ Goto("stop", "join") /\ flags.transmitting
        /\ flags' = [ transmitting |-> FALSE, in_progress |-> FALSE ]
        /\ timer' = FALSE /\ stop_task' = TRUE
        /\ UNCHANGED << platform, typed, thread, sems, settings, local, notified, carrier,
                        history >>
     \/ StopIdle /\ carrier' = FALSE

EspStop ==
  /\ platform = "esp" /\ shell_sem = "free"
  /\ \/ /\ Interrupt
        /\ stop_task' = TRUE
        /\ UNCHANGED << platform, typed, thread, shell_sem, tx_task_sem, settings, local,
                        notified, carrier, history >>
     \/ StopIdle /\ carrier' = FALSE

(* ulTaskNotifyTake *)
EspStopped ==
  /\ platform = "esp" /\ notified
  /\ Goto("join", "ready")
  /\ notified' = FALSE
  /\ stopped' = "loop"
  /\ UNCHANGED << platform, typed, thread, sems, timer, flags, settings, local, stop_task,
                  carrier, wanted, sent, doubled >>

EspChannel == platform = "esp" /\ Channel
EspPayload == platform = "esp" /\ Payload
EspCommand == platform = "esp" /\ (Wave \/ Type("start") \/ Type("stop"))

-----------------------------------------------------------------------------
(* TI: samples/freertos/ti/sat-dtm, whose shell has a table of commands.     *)
BuiltIn == << "help", "clear" >>
TiCommands == << "wave", "power", "channel", "stop", "payload", "transmit",
                 "transmit_continuously", "transmit_sweep" >>

(* CLI_addCommand: one that has no place is not there, and only a message    *)
(* says so.                                                                  *)
AddCommand(list, keyword) ==
  IF Len(list) >= MaxCommands THEN list ELSE Append(list, keyword)

CommandList == FoldLeft(AddCommand, << >>, BuiltIn \o TiCommands)

(* CLI_processInput: the command is looked for in the table.                 *)
Listed(keyword) == \E k \in 1 .. Len(CommandList) : CommandList[k] = keyword

(* main starts the shell's task, main_thread sets it up: an error of either  *)
(* stops the sample for good.                                                *)
TiMain ==
  /\ platform = "ti"
  /\ Goto("boot", "init") \/ Goto("boot", "dead")
  /\ UNCHANGED << platform, typed, thread, sems, timer, flags, settings, local, handshake,
                  carrier, history >>

TiBoot ==
  /\ platform = "ti"
  /\ Goto("init", "ready") \/ Goto("init", "dead")
  /\ UNCHANGED << platform, typed, thread, sems, timer, flags, settings, local, handshake,
                  carrier, history >>

(* Mutant of TiStart: the settings are written before the check.             *)
TiStartSetsFirst ==
  /\ platform = "ti" /\ shell_sem = "free"
  /\ Goto("start", "ready")
  /\ sweep' = typed
  /\ \/ /\ ~flags.in_progress
        /\ thread' = "mark"
        /\ flags' = [ flags EXCEPT !.in_progress = TRUE ]
        /\ Accept
     \/ UNCHANGED << thread, flags, wanted, sent, stopped >>
  /\ typed' = FALSE
  /\ UNCHANGED << platform, sems, timer, set, local, handshake, carrier, doubled >>

(* _cmd_transmit_repeating: "Check first before set the shared variables".   *)
TiStart ==
  /\ platform = "ti" /\ shell_sem = "free"
  /\ Goto("start", "ready")
  /\ sweep' = IF flags.in_progress THEN sweep ELSE typed
  /\ \/ /\ ~flags.in_progress
        /\ thread' = "mark"
        /\ flags' = [ flags EXCEPT !.in_progress = TRUE ]
        /\ Accept
     \/ UNCHANGED << thread, flags, wanted, sent, stopped >>
  /\ typed' = FALSE
  /\ UNCHANGED << platform, sems, timer, set, local, handshake, carrier, doubled >>

TiThread ==
  \/ platform = "ti" /\ Mark /\ UNCHANGED local
  \/ platform = "ti" /\ Loop

(* _cmd_stop: a carrier wave is left on. *)
TiStop ==
  /\ platform = "ti" /\ shell_sem = "free"
  /\ \/ /\ Interrupt
        /\ UNCHANGED << platform, typed, thread, shell_sem, tx_task_sem, settings, local,
                        handshake, carrier, history >>
     \/ StopIdle /\ UNCHANGED carrier

TiJoin == platform = "ti" /\ Join

TiChannel == platform = "ti" /\ Listed("channel") /\ Channel
TiPayload == platform = "ti" /\ Listed("payload") /\ Payload
TiCommand ==
  /\ platform = "ti"
  /\ \/ Listed("wave") /\ Wave
     \/ Listed("transmit_continuously") /\ Listed("transmit_sweep") /\ Type("start")
     \/ Listed("stop") /\ Type("stop")

-----------------------------------------------------------------------------
ZephyrShell == ZephyrStart \/ ZephyrStop \/ ZephyrJoin
EspShell == EspStart \/ EspStop \/ EspStopped
TiShell == TiStart \/ TiStop \/ TiJoin

User ==
  \/ ZephyrChannel \/ ZephyrPayload \/ ZephyrCommand
  \/ EspChannel \/ EspPayload \/ EspCommand
  \/ TiChannel \/ TiPayload \/ TiCommand

Shell == ZephyrShell \/ EspShell \/ TiShell
Thread == ZephyrThread \/ EspThread \/ TiThread

Next == User \/ Shell \/ Thread \/ Timer \/ EspBoot \/ EspShellInit \/ TiMain \/ TiBoot

(* The semaphore passes to its waiters in turn, and the timer expires. The   *)
(* user need not type anything.                                              *)
Fairness == SF_vars(Shell) /\ SF_vars(Thread) /\ WF_vars(Timer)

Spec == Init /\ [][Next]_vars /\ Fairness

-----------------------------------------------------------------------------
(* "Stop ongoing operation", the help of stop: once a stop that found a      *)
(* transmission has returned, its task sends nothing more and a new one can  *)
(* be started; a stop that found none has ended the carrier wave, except on  *)
(* TI. On Espressif a command accepted over another leaves one to come.      *)
StopEnds ==
  /\ stopped = "loop" /\ ~doubled =>
       thread \in AtRest /\ tx_task_sem = 0 /\ ~flags.in_progress
  /\ stopped = "wave" => ~carrier \/ platform = "ti"

(* A packet of the task is the one the last accepted command asked for, on   *)
(* the channel or hopping: a command that was refused because "Transmission  *)
(* already in progress" has not changed the one in progress.                 *)
AsAsked ==
  sent # NoPacket =>
    /\ (sent.channel = -1) = wanted
    /\ sent.channel < NumChannels

(* A stop returns: the task is woken however long its interval, leaves the   *)
(* loop, and tells the shell.                                                *)
StopReturns == shell \in {"stop", "join"} ~> shell = "ready"

(* "Transmit hubble packets continuously": the task never sleeps for good,   *)
(* although its timer is a one-shot that a stop may have cancelled.          *)
Repeats == thread = "sleep" ~> thread = "again"
=============================================================================
