------------------------------ MODULE SatPort ------------------------------
(***************************************************************************)
(* The satellite radio ports: port/zephyr/hubble_sat_zephyr.c and          *)
(* port/freertos/hubble_sat_freertos.c. Both serialise transmissions with  *)
(* a binary semaphore that is held from before the radio is enabled until  *)
(* after it is disabled, retransmission pauses included. Zephyr's is a     *)
(* static object; FreeRTOS creates one in hubble_sat_port_init, keeps its  *)
(* handle in a static, and deletes it in hubble_sat_port_deinit. The test  *)
(* mode (DTM) drives the radio without the semaphore.                      *)
(***************************************************************************)
EXTENDS Naturals

CONSTANTS
  Threads,      \* tasks that call the SDK
  Sems,         \* the semaphores the heap has room for
  Port,         \* "zephyr" or "freertos"
  MaxTx,        \* bound of the transmissions of one call (UINT8_MAX)
  Serialized,   \* init and deinit are kept apart from other calls (hubble.h)
  Dtm,          \* CONFIG_HUBBLE_SAT_NETWORK_DTM_MODE, and its calls are made
  NoThread, NoSem

ASSUME SatPortAssumption ==
  /\ Port \in {"zephyr", "freertos"}
  /\ MaxTx \in Nat \ {0}
  /\ {Serialized, Dtm} \subseteq BOOLEAN
  /\ NoThread \notin Threads
  /\ NoSem \notin Sems
  /\ Sems # {}

VARIABLES
  sem,       \* &_trans_sem, or the handle _sat_freertos_sem
  live,      \* semaphores that exist
  again,     \* history: an init replaced the handle of a semaphore
  given,     \* semaphores whose count is 1
  power,     \* the radio: "off", "on", or "stuck" after a failed disable
  state,     \* what the last init or deinit returned: "down", "up", "failed"
  pc,        \* where each task is
  held,      \* the handle each call in progress loaded
  left,      \* retries, local to each call
  failed     \* ret # 0, local to each call

locals == << pc, held, left, failed >>
vars == << sem, live, again, given, power, state, locals >>

(* The stages of a call: waiting for the semaphore, using the radio, holding. *)
Waiting == {"waiting"}
Transmitting == {"sending", "callback", "sleeping", "disabling"}
Holding == {"enabling", "giving", "deleting"} \cup Transmitting
Lifecycle == {"creating", "giving_first", "board_init", "deinit", "deleting"}
DtmPCs == {"dtm_enable", "dtm_send", "dtm_disable"}
PCs == {"idle"} \cup Waiting \cup Holding \cup Lifecycle \cup DtmPCs

Init ==
  /\ IF Port = "zephyr"
     THEN sem \in Sems /\ live = {sem} /\ given = {sem}
     ELSE sem = NoSem /\ live = {} /\ given = {}
  /\ again = FALSE
  /\ power = "off"
  /\ state = "down"
  /\ pc = [ t \in Threads |-> "idle" ]
  /\ held = [ t \in Threads |-> NoSem ]
  /\ left = [ t \in Threads |-> 0 ]
  /\ failed = [ t \in Threads |-> FALSE ]

Goto(t, from, to) == pc[t] = from /\ pc' = [ pc EXCEPT ![t] = to ]

Alone(t) == \A u \in Threads \ {t} : pc[u] = "idle"

InLifecycle == \E t \in Threads : pc[t] \in Lifecycle

(* An application that follows hubble.h starts nothing while another task is *)
(* inside hubble_init or hubble_deinit.                                      *)
MayCall == ~Serialized \/ ~InLifecycle

-----------------------------------------------------------------------------
(* hubble_sat_port_packet_send, called once the port was initialised, with   *)
(* at least one transmission to make. It loads the handle and waits.         *)
SendCall(t) ==
  /\ state = "up" /\ MayCall
  /\ Goto(t, "idle", "waiting")
  /\ held' = [ held EXCEPT ![t] = sem ]
  /\ \E n \in 1 .. MaxTx : left' = [ left EXCEPT ![t] = n ]
  /\ failed' = [ failed EXCEPT ![t] = FALSE ]
  /\ UNCHANGED << sem, live, again, given, power, state >>

(* Mutant of Take: the call times out on the semaphore and goes on.          *)
TakeTimesOut(t) ==
  /\ Goto(t, "waiting", "enabling")
  /\ given' = given \ {held[t]}
  /\ UNCHANGED << sem, live, again, power, state, held, left, failed >>

Take(t) ==
  /\ Goto(t, "waiting", "enabling")
  /\ held[t] \in given
  /\ given' = given \ {held[t]}
  /\ UNCHANGED << sem, live, again, power, state, held, left, failed >>

Enable(t) ==
  /\ \/ Goto(t, "enabling", "sending") /\ power' = "on" /\ UNCHANGED failed
     \/ /\ Goto(t, "enabling", "giving")
        /\ failed' = [ failed EXCEPT ![t] = TRUE ]
        /\ UNCHANGED power
  /\ UNCHANGED << sem, live, again, given, state, held, left >>

(* Mutant of Transmit: a failed transmission skips the disable.              *)
TransmitNoCleanup(t) ==
  /\ \/ Goto(t, "sending", "callback") /\ UNCHANGED failed
     \/ /\ Goto(t, "sending", "giving")
        /\ failed' = [ failed EXCEPT ![t] = TRUE ]
  /\ left' = [ left EXCEPT ![t] = @ - 1 ]
  /\ UNCHANGED << sem, live, again, given, power, state, held >>

(* Mutant of Transmit: the error is lost (ret is not kept).                  *)
TransmitLosesError(t) ==
  /\ Goto(t, "sending", "callback") \/ Goto(t, "sending", "disabling")
  /\ left' = [ left EXCEPT ![t] = @ - 1 ]
  /\ UNCHANGED << sem, live, again, given, power, state, held, failed >>

(* Frames are computed and sent; either may fail and ends the loop. *)
Transmit(t) ==
  /\ \/ /\ Goto(t, "sending", "callback")
        /\ UNCHANGED failed
     \/ /\ Goto(t, "sending", "disabling")
        /\ failed' = [ failed EXCEPT ![t] = TRUE ]
  /\ left' = [ left EXCEPT ![t] = @ - 1 ]
  /\ UNCHANGED << sem, live, again, given, power, state, held >>

(* hubble_sat_packet_sent_cb returns. *)
CallbackReturn(t) ==
  /\ \/ left[t] > 0 /\ Goto(t, "callback", "sleeping")
     \/ left[t] = 0 /\ Goto(t, "callback", "disabling")
  /\ UNCHANGED << sem, live, again, given, power, state, held, left, failed >>

Sleep(t) ==
  /\ Goto(t, "sleeping", "sending")
  /\ UNCHANGED << sem, live, again, given, power, state, held, left, failed >>

Disable(t) ==
  /\ Goto(t, "disabling", "giving")
  /\ \/ power' = "off" /\ UNCHANGED failed
     \/ power' = "stuck" /\ failed' = [ failed EXCEPT ![t] = TRUE ]
  /\ UNCHANGED << sem, live, again, given, state, held, left >>

(* Mutant of Give: a failed call returns with the semaphore.                 *)
GiveUnlessFailed(t) ==
  /\ sem # NoSem
  /\ Goto(t, "giving", "idle")
  /\ given' = IF failed[t] THEN given ELSE given \cup {sem}
  /\ held' = [ held EXCEPT ![t] = NoSem ]
  /\ left' = [ left EXCEPT ![t] = 0 ]
  /\ failed' = [ failed EXCEPT ![t] = FALSE ]
  /\ UNCHANGED << sem, live, again, power, state >>

(* What is given is the semaphore the static designates now. *)
Give(t) ==
  /\ sem # NoSem
  /\ Goto(t, "giving", "idle")
  /\ given' = given \cup {sem}
  /\ held' = [ held EXCEPT ![t] = NoSem ]
  /\ left' = [ left EXCEPT ![t] = 0 ]
  /\ failed' = [ failed EXCEPT ![t] = FALSE ]
  /\ UNCHANGED << sem, live, again, power, state >>

-----------------------------------------------------------------------------
(* hubble_init may be called again on a port already initialised. *)
MayInit(t) == Serialized => Alone(t)

(* hubble_sat_port_init. FreeRTOS always creates a semaphore, publishes its  *)
(* handle, and then gives it; NULL is published when the heap, which the     *)
(* application shares, is full.                                              *)
InitCall(t) ==
  /\ MayInit(t)
  /\ Goto(t, "idle", IF Port = "zephyr" THEN "board_init" ELSE "creating")
  /\ UNCHANGED << sem, live, again, given, power, state, held, left, failed >>

Create(t) ==
  /\ \/ \E s \in Sems \ live :
          /\ Goto(t, "creating", "giving_first")
          /\ sem' = s
          /\ live' = live \cup {s}
          /\ UNCHANGED state
     \/ /\ Goto(t, "creating", "idle")
        /\ sem' = NoSem
        /\ state' = "failed"
        /\ UNCHANGED live
  /\ given' = given \ {sem'}
  /\ again' = (again \/ sem # NoSem)
  /\ UNCHANGED << power, held, left, failed >>

(* A give that fails, as it does when the count is already 1, deletes the    *)
(* semaphore. The static may have become NULL meanwhile, which the kernel    *)
(* asserts against.                                                          *)
GiveFirst(t) ==
  /\ sem # NoSem
  /\ \/ /\ sem \notin given
        /\ Goto(t, "giving_first", "board_init")
        /\ given' = given \cup {sem}
        /\ UNCHANGED << sem, live, state >>
     \/ /\ Goto(t, "giving_first", "idle")
        /\ live' = live \ {sem}
        /\ given' = given \ {sem}
        /\ sem' = NoSem
        /\ state' = "failed"
  /\ UNCHANGED << again, power, held, left, failed >>

(* hubble_sat_board_init: its result is the result of the whole call, and    *)
(* the semaphore stays whatever it is.                                       *)
BoardInit(t) ==
  /\ Goto(t, "board_init", "idle")
  /\ state' \in {"up", "failed"}
  /\ UNCHANGED << sem, live, again, given, power, held, left, failed >>

-----------------------------------------------------------------------------
(* hubble_sat_port_deinit: without a semaphore there is nothing to do;       *)
(* otherwise it takes it without waiting, or answers -EBUSY and changes      *)
(* nothing, which is all that happens to a call from within a transmission.  *)
Deinit(t) ==
  /\ Serialized => Alone(t)
  /\ Goto(t, "idle", "deinit")
  /\ held' = [ held EXCEPT ![t] = sem ]
  /\ UNCHANGED << sem, live, again, given, power, state, left, failed >>

(* Mutant of DeinitTake: it does not ask whether the semaphore is free.      *)
DeinitTakeAlways(t) ==
  /\ Goto(t, "deinit", "deleting")
  /\ given' = given \ {held[t]}
  /\ UNCHANGED << sem, live, again, power, state, held, left, failed >>

DeinitTake(t) ==
  /\ \/ /\ held[t] \in given
        /\ Goto(t, "deinit", "deleting")
        /\ given' = given \ {held[t]}
        /\ UNCHANGED << state, held >>
     \/ /\ held[t] \notin given
        /\ Goto(t, "deinit", "idle")
        /\ state' = IF held[t] = NoSem THEN "down" ELSE state
        /\ held' = [ held EXCEPT ![t] = NoSem ]
        /\ UNCHANGED given
  /\ UNCHANGED << sem, live, again, power, left, failed >>

(* Mutant of DeinitRelease: the static keeps the deleted handle.             *)
DeinitReleaseDangling(t) ==
  /\ sem # NoSem
  /\ Goto(t, "deleting", "idle")
  /\ held' = [ held EXCEPT ![t] = NoSem ]
  /\ state' = "up"
  /\ given' = given \ {sem}
  /\ live' = live \ {sem}
  /\ UNCHANGED << sem, again, power, left, failed >>

(* Zephyr gives its static semaphore back, FreeRTOS deletes the one the      *)
(* static designates now (the kernel asserts that it is not NULL).           *)
DeinitRelease(t) ==
  /\ sem # NoSem
  /\ Goto(t, "deleting", "idle")
  /\ held' = [ held EXCEPT ![t] = NoSem ]
  /\ state' = "down"
  /\ IF Port = "zephyr"
     THEN given' = given \cup {held[t]} /\ UNCHANGED << sem, live >>
     ELSE /\ live' = live \ {sem}
          /\ given' = given \ {sem}
          /\ sem' = NoSem
  /\ UNCHANGED << again, power, left, failed >>

-----------------------------------------------------------------------------
(* The DTM calls enable the radio with no regard for the semaphore.          *)
DtmCall(t) ==
  /\ Dtm /\ state = "up" /\ MayCall
  /\ Goto(t, "idle", "dtm_enable")
  /\ UNCHANGED << sem, live, again, given, power, state, held, left, failed >>

(* hubble_sat_dtm_port_cw_start returns with the radio on; packet_send goes  *)
(* on to transmit.                                                           *)
DtmEnable(t) ==
  /\ \/ Goto(t, "dtm_enable", "dtm_send") /\ power' = "on"
     \/ Goto(t, "dtm_enable", "idle") /\ UNCHANGED power
     \/ Goto(t, "dtm_enable", "idle") /\ power' = "on"
  /\ UNCHANGED << sem, live, again, given, state, held, left, failed >>

DtmSend(t) ==
  /\ Goto(t, "dtm_send", "dtm_disable")
  /\ UNCHANGED << sem, live, again, given, power, state, held, left, failed >>

DtmDisable(t) ==
  /\ Goto(t, "dtm_disable", "idle")
  /\ power' \in {"off", "stuck"}
  /\ UNCHANGED << sem, live, again, given, state, held, left, failed >>

(* hubble_sat_dtm_port_cw_stop, whether or not a carrier was started.        *)
CwStop(t) ==
  /\ Dtm /\ state = "up" /\ MayCall
  /\ Goto(t, "idle", "dtm_disable")
  /\ UNCHANGED << sem, live, again, given, power, state, held, left, failed >>

-----------------------------------------------------------------------------
Send(t) ==
  \/ Take(t)
  \/ Enable(t)
  \/ Transmit(t)
  \/ CallbackReturn(t)
  \/ Sleep(t)
  \/ Disable(t)
  \/ Give(t)

InitDeinit(t) ==
  \/ Create(t)
  \/ GiveFirst(t)
  \/ BoardInit(t)
  \/ DeinitTake(t)
  \/ DeinitRelease(t)

Call(t) ==
  \/ SendCall(t)
  \/ InitCall(t)
  \/ Deinit(t)

DtmStep(t) == DtmCall(t) \/ DtmEnable(t) \/ DtmSend(t) \/ DtmDisable(t) \/ CwStop(t)

Next == \E t \in Threads : Send(t) \/ InitDeinit(t) \/ Call(t) \/ DtmStep(t)

Spec == Init /\ [][Next]_vars

(* A call in progress keeps running: the board calls and the application's   *)
(* callback return, a pause ends, and the semaphore goes to its waiters in   *)
(* turn.                                                                     *)
Fairness ==
  \A t \in Threads :
    /\ WF_vars(Send(t) /\ pc[t] # "waiting")
    /\ WF_vars(InitDeinit(t))
    /\ SF_vars(Take(t))

FairSpec == Spec /\ Fairness

-----------------------------------------------------------------------------
(* The ranges of the variables: the handle designates a semaphore or NULL,   *)
(* and no call makes more transmissions than it was asked for.               *)
TypeOK ==
  /\ sem \in Sems \cup {NoSem}
  /\ live \subseteq Sems /\ again \in BOOLEAN
  /\ given \subseteq Sems
  /\ power \in {"off", "on", "stuck"}
  /\ state \in {"down", "up", "failed"}
  /\ pc \in [ Threads -> PCs ]
  /\ held \in [ Threads -> Sems \cup {NoSem} ]
  /\ left \in [ Threads -> 0 .. MaxTx ]
  /\ failed \in [ Threads -> BOOLEAN ]

(* sat_radio.h "This API is thread safe": one call at a time drives the      *)
(* radio from the enable to the disable, its pauses included.                *)
RadioExclusive ==
  \A t, u \in Threads :
    pc[t] \in Transmitting /\ pc[u] \in Transmitting => t = u

(* hubble_sat_packet_sent_cb, sat.h: for the whole of a call's transmissions *)
(* and callbacks the radio is enabled.                                       *)
RadioOnWhileTransmitting ==
  \A t \in Threads : pc[t] \in Transmitting => power = "on"

(* hubble_sat_board_disable is reached on every path: while the semaphore is *)
(* free the radio is not left on, unless turning it off has failed.          *)
RadioOffAtRest == sem \in given => power # "on"

(* Both: the radio follows the calls.                                        *)
RadioFollows == RadioOnWhileTransmitting /\ RadioOffAtRest

(* hubble_sat_port_packet_send returns 0 only when every transmission was    *)
(* made and the radio was turned off; an early error is not lost.            *)
SuccessIsComplete ==
  \A t \in Threads :
    pc[t] = "giving" /\ ~failed[t] => left[t] = 0 /\ power = "off"

(* hubble_sat_port_deinit: nobody waits on, or holds, a deleted semaphore.   *)
HandleLive ==
  \A t \in Threads : pc[t] \in Waiting \cup Holding => held[t] \in live

(* hubble_sat_port_init, _deinit: every semaphore that exists is the one the *)
(* static designates, so that none is ever lost, but for the one whose       *)
(* handle a second init without a deinit replaces.                           *)
NoLeak == again \/ live \subseteq {sem}

(* Both: init and deinit keep the one semaphore the calls use.               *)
SemaphoreKept == HandleLive /\ NoLeak

(* hubble_deinit, -EBUSY "Resources are in use": a deinit succeeds only when *)
(* no call is using the radio.                                               *)
DeinitOnlyAtRest ==
  [][ state' = "down" /\ state = "up" =>
        \A t \in Threads : pc[t] \notin Transmitting ]_vars

(* The transmissions of the tasks implement a sequence of exclusive sessions *)
(* of the radio: a call's retransmissions are never mixed with another's.    *)
Transmitter ==
  IF \E t \in Threads : pc[t] \in Transmitting
  THEN CHOOSE t \in Threads : pc[t] \in Transmitting
  ELSE NoThread

Session == INSTANCE RadioSession WITH
             owner <- Transmitter,
             planned <- IF Transmitter = NoThread THEN 0 ELSE left[Transmitter]

SessionSpec == Session!Spec

(* hubble_sat_port_packet_send returns: the transmissions of one call end    *)
(* and its semaphore is granted to every waiter.                             *)
SendReturns == \A t \in Threads : pc[t] = "waiting" ~> pc[t] = "idle"
=============================================================================
