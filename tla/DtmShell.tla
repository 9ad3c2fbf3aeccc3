------------------------------ MODULE DtmShell ------------------------------
(***************************************************************************)
(* The direct test mode samples: a shell whose commands start a transmit   *)
(* task that sends test packets at an interval, and stop it. They share    *)
(* flags and settings under _shell_sem; the interval's semaphore is given  *)
(* by a one-shot timer, and by the stop to wake the task. This module has  *)
(* what the three platforms share, and the task's loop; each platform's    *)
(* way to start the task, and to wait for its end, is in DtmSamples.       *)
(*                                                                         *)
(* What _shell_sem protects is only used under it: a critical section is   *)
(* one step, except the one that holds it while a packet is on the air.    *)
(***************************************************************************)
EXTENDS Integers

CONSTANTS
  Platforms,   \* the platforms whose sample is modelled
  NumChannels, \* HUBBLE_NUM_CHANNELS
  Channels,    \* numbers given to the channel command, valid or not
  Lengths,     \* numbers given to the payload command, valid or not
  NoPacket

ASSUME DtmShellAssumption ==
  /\ Platforms \subseteq {"zephyr", "esp", "ti"}
  /\ NumChannels \in Nat \ {0}
  /\ Channels \subseteq Int /\ Lengths \subseteq Int
  /\ NoPacket \notin [ channel : Int, len : Int ]

VARIABLES
  platform,    \* the sample
  shell,       \* what the shell does: "boot", "init", "dead"; "ready" for a
               \* command; "start", "stop"; "join": waits for the task's end
  typed,       \* the command it executes is the sweep one
  thread,      \* where the transmit task is: "none", "new"; "parked" until a
               \* command; then in its loop; "notify": tells the stop
  shell_sem,   \* "free", or "taken" by the task that sends
  interval_sem,
  tx_task_sem, \* Espressif: what the task waits for a command on
  timer,       \* the interval's timer runs
  flags,       \* _is_transmitting, _transmission_in_progress
  set,         \* _channel, _packet_type
  sweep,       \* _sweep; Zephyr hands it to the task
  local,       \* the task's copy of it
  stop_task,   \* Espressif: _stop_task_handle is set
  notified,    \* Espressif: the notification of the shell's task
  carrier,     \* a carrier wave was started
  wanted,      \* history: the last accepted command was the sweep one
  sent,        \* history: the last packet of the task since that command
  stopped,     \* history: what the last stop has ended, since that command
  doubled      \* history: Espressif: a command was accepted over another

sems == << shell_sem, interval_sem, tx_task_sem >>
settings == << set, sweep >>
handshake == << stop_task, notified >>
history == << wanted, sent, stopped, doubled >>
vars == << platform, shell, typed, thread, sems, timer, flags, settings, local,
           handshake, carrier, history >>

AtRest == {"none", "parked"}

ValidLengths == {-1, 0, 4, 9, 13}

Init ==
  /\ platform \in Platforms
  /\ shell = IF platform = "zephyr" THEN "ready" ELSE "boot"
  /\ typed = FALSE
  /\ thread = "none"
  /\ shell_sem = "free" /\ interval_sem = 0 /\ tx_task_sem = 0
  /\ timer = FALSE
  /\ flags = [ transmitting |-> FALSE, in_progress |-> FALSE ]
  /\ set = [ channel |-> 0, len |-> 0 ]
  /\ sweep = FALSE /\ local = FALSE
  /\ stop_task = FALSE /\ notified = FALSE
  /\ carrier = FALSE
  /\ wanted = FALSE /\ sent = NoPacket /\ stopped = "none" /\ doubled = FALSE

-----------------------------------------------------------------------------
(* The shell: one command at a time. *)
Goto(from, to) == shell = from /\ shell' = to

Type(command) ==
  /\ Goto("ready", command)
  /\ typed' \in (IF command = "start" THEN BOOLEAN ELSE {FALSE})
  /\ UNCHANGED << platform, thread, sems, timer, flags, settings, local, handshake,
                  carrier, history >>

(* A channel that does not exist is refused; the next packet uses the new one. *)
Channel ==
  /\ shell = "ready"
  /\ \E c \in Channels : c \in 0 .. NumChannels - 1 /\ set' = [ set EXCEPT !.channel = c ]
  /\ UNCHANGED << platform, shell, typed, thread, sems, timer, flags, sweep, local,
                  handshake, carrier, history >>

Payload ==
  /\ shell = "ready"
  /\ \E n \in Lengths : n \in ValidLengths /\ set' = [ set EXCEPT !.len = n ]
  /\ UNCHANGED << platform, shell, typed, thread, sems, timer, flags, sweep, local,
                  handshake, carrier, history >>

(* A carrier wave does not look at what is transmitted.                      *)
Wave ==
  /\ shell = "ready"
  /\ carrier' = TRUE
  /\ stopped' = "none"
  /\ UNCHANGED << platform, shell, typed, thread, sems, timer, flags, settings, local,
                  handshake, wanted, sent, doubled >>

Commands == Type("start") \/ Type("stop") \/ Channel \/ Payload \/ Wave

(* A command that starts a transmission is accepted. *)
Accept ==
  /\ wanted' = typed
  /\ sent' = NoPacket /\ stopped' = "none"

-----------------------------------------------------------------------------
(* The transmit task. *)
Step(from, to) == thread = from /\ thread' = to

(* It tells the shell that it transmits, *)
Mark ==
  /\ shell_sem = "free"
  /\ Step("mark", "reset")
  /\ flags' = [ flags EXCEPT !.transmitting = TRUE ]
  /\ UNCHANGED << platform, shell, typed, sems, timer, settings, handshake, carrier, history >>

(* makes the interval's semaphore 1 whatever an earlier timer has left,      *)
Reset ==
  /\ Step("reset", "check")
  /\ interval_sem' = 1
  /\ UNCHANGED << platform, shell, typed, shell_sem, tx_task_sem, timer, flags, settings,
                  local, handshake, carrier, history >>

(* and ends when the flag has been cleared: Espressif's task waits for the   *)
(* next command after it has told the task that waits for the stop.          *)
Leave(from) ==
  /\ IF platform = "esp"
     THEN Step(from, IF stop_task THEN "notify" ELSE "parked") /\ stop_task' = FALSE
     ELSE Step(from, "none") /\ UNCHANGED stop_task
  /\ shell_sem' = "free"

Check ==
  /\ shell_sem = "free"
  /\ IF flags.transmitting
     THEN Step("check", "sleep") /\ UNCHANGED << shell_sem, stop_task >>
     ELSE Leave("check")
  /\ UNCHANGED << platform, shell, typed, interval_sem, tx_task_sem, timer, flags, settings,
                  local, notified, carrier, history >>

(* "Don't keep both the shell sem and the transmit sem" *)
Sleep ==
  /\ interval_sem = 1
  /\ Step("sleep", "again")
  /\ interval_sem' = 0
  /\ UNCHANGED << platform, shell, typed, shell_sem, tx_task_sem, timer, flags, settings,
                  local, handshake, carrier, history >>

(* "Just double check once again" *)
Again ==
  /\ shell_sem = "free"
  /\ IF flags.transmitting
     THEN Step("again", "send") /\ shell_sem' = "taken" /\ UNCHANGED stop_task
     ELSE Leave("again")
  /\ UNCHANGED << platform, shell, typed, interval_sem, tx_task_sem, timer, flags, settings,
                  local, notified, carrier, history >>

(* A packet with the settings of the moment; TI reads _sweep itself. *)
Packet ==
  LET hops == IF platform = "ti" THEN sweep ELSE local
  IN  [ set EXCEPT !.channel = IF hops THEN -1 ELSE @ ]

(* Mutant of Send: the one-shot timer is started for the first packet only.  *)
SendNoTimer ==
  /\ Step("send", "check")
  /\ shell_sem' = "free"
  /\ sent' = Packet
  /\ timer' = (sent = NoPacket)
  /\ UNCHANGED << platform, shell, typed, interval_sem, tx_task_sem, flags, settings, local,
                  handshake, carrier, wanted, stopped, doubled >>

(* hubble_sat_dtm_packet_send, whose error is not one of the loop, and the   *)
(* one-shot timer.                                                           *)
Send ==
  /\ Step("send", "check")
  /\ shell_sem' = "free"
  /\ sent' = Packet
  /\ timer' = TRUE
  /\ UNCHANGED << platform, shell, typed, interval_sem, tx_task_sem, flags, settings, local,
                  handshake, carrier, wanted, stopped, doubled >>

Loop == Reset \/ Check \/ Sleep \/ Again \/ Send

(* _timer_cb *)
Timer ==
  /\ timer
  /\ timer' = FALSE /\ interval_sem' = 1
  /\ UNCHANGED << platform, shell, typed, thread, shell_sem, tx_task_sem, flags, settings,
                  local, handshake, carrier, history >>

(* What a stop that finds the task transmitting does first. *)
Interrupt ==
  /\ flags.transmitting
  /\ flags' = [ transmitting |-> FALSE, in_progress |-> FALSE ]
  /\ timer' = FALSE /\ interval_sem' = 1
  /\ Goto("stop", "join")
=============================================================================
