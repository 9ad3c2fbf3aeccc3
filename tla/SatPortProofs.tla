--------------------------- MODULE SatPortProofs ---------------------------
(***************************************************************************)
(* Theorems about SatPort, for every set of tasks and semaphores. The      *)
(* semaphore excludes as long as every call in progress holds or waits on  *)
(* the semaphore the static designates. Zephyr guarantees that by itself,  *)
(* its semaphore being a static object; FreeRTOS needs the application to  *)
(* keep init and deinit apart from the other calls.                        *)
(***************************************************************************)
EXTENDS SatPort, TLAPS

-----------------------------------------------------------------------------
(* Types. A call about to transmit has a transmission to make, which is why  *)
(* retries never underflows.                                                 *)

Counted ==
  \A t \in Threads :
    pc[t] \in {"waiting", "enabling", "sending", "sleeping"} => left[t] > 0

(* What a call holds is a semaphore, not NULL.                               *)
Held == \A t \in Threads : pc[t] \in Holding => held[t] \in Sems

TypeInv == TypeOK /\ Counted /\ Held

LEMMA TypeInit == Init => TypeInv
<1> SUFFICES ASSUME Init PROVE TypeInv
  OBVIOUS
<1>1. TypeOK
  <2>1. again \in BOOLEAN
    BY DEF Init
  <2>2. /\ sem \in Sems \cup {NoSem} /\ live \subseteq Sems /\ given \subseteq Sems
        /\ power = "off" /\ state = "down"
    BY SatPortAssumption DEF Init
  <2>3. /\ pc \in [ Threads -> PCs ] /\ held \in [ Threads -> Sems \cup {NoSem} ]
        /\ left \in [ Threads -> 0 .. MaxTx ] /\ failed \in [ Threads -> BOOLEAN ]
    BY SatPortAssumption DEF Init, PCs
  <2> QED
    BY <2>1, <2>2, <2>3 DEF TypeOK
<1>2. Counted /\ Held
  BY DEF Init, Counted, Held, Holding, Transmitting
<1> QED
  BY <1>1, <1>2 DEF TypeInv

LEMMA TypeSend ==
  ASSUME TypeInv, NEW t \in Threads, Send(t) PROVE TypeInv'
<1> USE SatPortAssumption
    DEF TypeInv, TypeOK, Counted, Held, Goto, PCs, Waiting, Transmitting,
        Holding, Lifecycle, DtmPCs
<1>1. CASE Take(t)
  BY <1>1 DEF Take
<1>2. CASE Enable(t)
  BY <1>2 DEF Enable
<1>3. CASE Transmit(t)
  <2>1. left[t] - 1 \in 0 .. MaxTx
    BY <1>3 DEF Transmit
  <2> QED
    BY <1>3, <2>1 DEF Transmit
<1>4. CASE CallbackReturn(t)
  BY <1>4 DEF CallbackReturn
<1>5. CASE Sleep(t)
  BY <1>5 DEF Sleep
<1>6. CASE Disable(t)
  BY <1>6 DEF Disable
<1>7. CASE Give(t)
  BY <1>7 DEF Give
<1> QED
  BY <1>1, <1>2, <1>3, <1>4, <1>5, <1>6, <1>7 DEF Send

LEMMA TypeInitDeinit ==
  ASSUME TypeInv, NEW t \in Threads, InitDeinit(t) PROVE TypeInv'
<1> USE SatPortAssumption
    DEF TypeInv, TypeOK, Counted, Held, Goto, PCs, Waiting, Transmitting,
        Holding, Lifecycle, DtmPCs
<1>1. CASE Create(t)
  BY <1>1 DEF Create
<1>2. CASE GiveFirst(t)
  BY <1>2 DEF GiveFirst
<1>3. CASE BoardInit(t)
  BY <1>3 DEF BoardInit
<1>4. CASE DeinitTake(t)
  BY <1>4 DEF DeinitTake
<1>5. CASE DeinitRelease(t)
  BY <1>5 DEF DeinitRelease
<1> QED
  BY <1>1, <1>2, <1>3, <1>4, <1>5 DEF InitDeinit

LEMMA TypeCall ==
  ASSUME TypeInv, NEW t \in Threads, Call(t) \/ DtmStep(t) PROVE TypeInv'
<1> USE SatPortAssumption
    DEF TypeInv, TypeOK, Counted, Held, Goto, PCs, Waiting, Transmitting,
        Holding, Lifecycle, DtmPCs
<1>1. CASE SendCall(t)
  BY <1>1 DEF SendCall
<1>2. CASE InitCall(t)
  BY <1>2 DEF InitCall
<1>3. CASE Deinit(t)
  BY <1>3 DEF Deinit
<1>4. CASE DtmStep(t)
  BY <1>4 DEF DtmStep, DtmCall, DtmEnable, DtmSend, DtmDisable, CwStop
<1> QED
  BY <1>1, <1>2, <1>3, <1>4 DEF Call

LEMMA TypeNext == TypeInv /\ [Next]_vars => TypeInv'
<1> SUFFICES ASSUME TypeInv, [Next]_vars PROVE TypeInv'
  OBVIOUS
<1>1. CASE UNCHANGED vars
  BY <1>1 DEF vars, locals, TypeInv, TypeOK, Counted, Held
<1> QED
  BY <1>1, TypeSend, TypeInitDeinit, TypeCall DEF Next

(* The variables of both ports keep their types whatever is called when.     *)
THEOREM TypeCorrect == Spec => []TypeOK
<1>1. TypeInv => TypeOK
  BY DEF TypeInv
<1> QED
  BY TypeInit, TypeNext, <1>1, PTL DEF Spec

-----------------------------------------------------------------------------
(* Exclusion. The setting: Zephyr, or an application that keeps init and     *)
(* deinit apart from the other calls.                                        *)

Orderly == Port = "zephyr" \/ Serialized

(* Every call in progress works on the semaphore the static designates.      *)
SameHandle ==
  \A t \in Threads :
    pc[t] \in Holding \cup {"waiting", "deinit"} => held[t] = sem

(* Nobody else is in the SDK while the handle changes.                       *)
LifecycleAlone ==
  IF Port = "zephyr"
  THEN \A t \in Threads : pc[t] \notin {"creating", "giving_first"}
  ELSE \A t, u \in Threads : pc[t] \in Lifecycle /\ t # u => pc[u] = "idle"

(* The semaphore is taken while a call holds it, and by one call only.       *)
Exclusion ==
  /\ \A t \in Threads : pc[t] \in Holding => sem \notin given
  /\ \A t, u \in Threads : pc[t] \in Holding /\ pc[u] \in Holding => t = u

LockInv == TypeInv /\ SameHandle /\ LifecycleAlone /\ Exclusion

LEMMA LockInit == Init => LockInv
<1> SUFFICES ASSUME Init PROVE LockInv
  OBVIOUS
<1>1. \A t \in Threads : pc[t] = "idle"
  BY DEF Init
<1> QED
  BY <1>1, TypeInit DEF LockInv, SameHandle, LifecycleAlone, Exclusion,
                        Holding, Transmitting, Lifecycle

LEMMA LockSend ==
  ASSUME LockInv, NEW t \in Threads, Send(t)
  PROVE  SameHandle' /\ LifecycleAlone' /\ Exclusion'
<1> USE DEF LockInv, TypeInv, TypeOK, SameHandle, LifecycleAlone, Exclusion,
            Goto, Transmitting, Holding, Lifecycle
<1>1. CASE Take(t)
  BY <1>1 DEF Take
<1>2. CASE Enable(t)
  BY <1>2 DEF Enable
<1>3. CASE Transmit(t)
  BY <1>3 DEF Transmit
<1>4. CASE CallbackReturn(t)
  BY <1>4 DEF CallbackReturn
<1>5. CASE Sleep(t)
  BY <1>5 DEF Sleep
<1>6. CASE Disable(t)
  BY <1>6 DEF Disable
<1>7. CASE Give(t)
  BY <1>7 DEF Give
<1> QED
  BY <1>1, <1>2, <1>3, <1>4, <1>5, <1>6, <1>7 DEF Send

LEMMA LockInitDeinit ==
  ASSUME LockInv, Orderly, NEW t \in Threads, InitDeinit(t)
  PROVE  SameHandle' /\ LifecycleAlone' /\ Exclusion'
<1> USE SatPortAssumption
    DEF LockInv, TypeInv, TypeOK, SameHandle, LifecycleAlone, Exclusion,
        Goto, Transmitting, Holding, Lifecycle
<1>1. CASE Create(t)
  BY <1>1 DEF Create
<1>2. CASE GiveFirst(t)
  BY <1>2 DEF GiveFirst
<1>3. CASE BoardInit(t)
  BY <1>3 DEF BoardInit
<1>4. CASE DeinitTake(t)
  BY <1>4 DEF DeinitTake
<1>5. CASE DeinitRelease(t)
  BY <1>5 DEF DeinitRelease
<1> QED
  BY <1>1, <1>2, <1>3, <1>4, <1>5 DEF InitDeinit

LEMMA LockCall ==
  ASSUME LockInv, Orderly, NEW t \in Threads, Call(t) \/ DtmStep(t)
  PROVE  SameHandle' /\ LifecycleAlone' /\ Exclusion'
<1> USE SatPortAssumption
    DEF LockInv, TypeInv, TypeOK, SameHandle, LifecycleAlone, Exclusion,
        Goto, Transmitting, Holding, Lifecycle, Orderly
<1>1. CASE SendCall(t)
  BY <1>1 DEF SendCall, MayCall, InLifecycle
<1>2. CASE InitCall(t)
  BY <1>2 DEF InitCall, MayInit, Alone
<1>3. CASE Deinit(t)
  BY <1>3 DEF Deinit, Alone
<1>4. CASE DtmStep(t)
  BY <1>4 DEF DtmStep, DtmCall, DtmEnable, DtmSend, DtmDisable, CwStop,
              MayCall, InLifecycle
<1> QED
  BY <1>1, <1>2, <1>3, <1>4 DEF Call

LEMMA LockNext == Orderly /\ LockInv /\ [Next]_vars => LockInv'
<1> SUFFICES ASSUME Orderly, LockInv, [Next]_vars PROVE LockInv'
  OBVIOUS
<1>1. TypeInv'
  BY TypeNext DEF LockInv
<1>2. SameHandle' /\ LifecycleAlone' /\ Exclusion'
  <2>1. CASE UNCHANGED vars
    BY <2>1 DEF vars, locals, LockInv, SameHandle, LifecycleAlone, Exclusion
  <2> QED
    BY <2>1, LockSend, LockInitDeinit, LockCall DEF Next
<1> QED
  BY <1>1, <1>2 DEF LockInv

(* One call at a time drives the radio, for any number of tasks.             *)
THEOREM Exclusive == ASSUME Orderly PROVE Spec => []RadioExclusive
<1>1. LockInv => RadioExclusive
  BY DEF LockInv, Exclusion, RadioExclusive, Holding
<1> QED
  BY LockInit, LockNext, <1>1, PTL DEF Spec

-----------------------------------------------------------------------------
(* The state of the radio, where the test mode leaves it alone.              *)

(* A call that lost an error would return 0: it has none before "disabling". *)
PowerInv ==
  /\ \A t \in Threads : pc[t] \notin DtmPCs
  /\ RadioOnWhileTransmitting
  /\ RadioOffAtRest
  /\ \A t \in Threads :
       /\ pc[t] \in {"enabling", "giving", "deleting"} => power # "on"
       /\ pc[t] \in {"waiting", "enabling", "sending", "callback", "sleeping"}
            => ~failed[t]
       /\ pc[t] = "disabling" /\ ~failed[t] => left[t] = 0
       /\ pc[t] = "giving" /\ ~failed[t] => left[t] = 0 /\ power = "off"
  /\ \/ power # "on"
     \/ \E t \in Threads : pc[t] \in Transmitting

LEMMA PowerInit == Init => PowerInv
<1> SUFFICES ASSUME Init PROVE PowerInv
  OBVIOUS
<1>1. power = "off" /\ \A t \in Threads : pc[t] = "idle"
  BY DEF Init
<1> QED
  BY <1>1 DEF PowerInv, RadioOnWhileTransmitting, RadioOffAtRest,
              DtmPCs, Transmitting

LEMMA PowerSend ==
  ASSUME LockInv, PowerInv, NEW t \in Threads, Send(t) PROVE PowerInv'
<1> USE DEF PowerInv, RadioOnWhileTransmitting, RadioOffAtRest, LockInv, TypeInv,
            TypeOK, Exclusion, SameHandle, Goto, Transmitting, Holding, DtmPCs
<1>1. CASE Take(t)
  BY <1>1 DEF Take
<1>2. CASE Enable(t)
  BY <1>2 DEF Enable
<1>3. CASE Transmit(t)
  BY <1>3 DEF Transmit
<1>4. CASE CallbackReturn(t)
  BY <1>4 DEF CallbackReturn
<1>5. CASE Sleep(t)
  BY <1>5 DEF Sleep
<1>6. CASE Disable(t)
  BY <1>6 DEF Disable
<1>7. CASE Give(t)
  BY <1>7 DEF Give
<1> QED
  BY <1>1, <1>2, <1>3, <1>4, <1>5, <1>6, <1>7 DEF Send

LEMMA PowerInitDeinit ==
  ASSUME LockInv, PowerInv, Orderly, NEW t \in Threads, InitDeinit(t)
  PROVE  PowerInv'
<1> USE SatPortAssumption
    DEF PowerInv, RadioOnWhileTransmitting, RadioOffAtRest, LockInv, TypeInv,
        TypeOK, Exclusion, SameHandle, LifecycleAlone, Goto, Transmitting,
        Holding, Lifecycle, DtmPCs
<1>1. CASE Create(t)
  BY <1>1 DEF Create
<1>2. CASE GiveFirst(t)
  BY <1>2 DEF GiveFirst
<1>3. CASE BoardInit(t)
  BY <1>3 DEF BoardInit
<1>4. CASE DeinitTake(t)
  BY <1>4 DEF DeinitTake
<1>5. CASE DeinitRelease(t)
  BY <1>5 DEF DeinitRelease
<1> QED
  BY <1>1, <1>2, <1>3, <1>4, <1>5 DEF InitDeinit

LEMMA PowerCall ==
  ASSUME LockInv, PowerInv, ~Dtm, NEW t \in Threads, Call(t) \/ DtmStep(t)
  PROVE  PowerInv'
<1> USE SatPortAssumption
    DEF PowerInv, RadioOnWhileTransmitting, RadioOffAtRest, LockInv, TypeInv,
        TypeOK, Exclusion, Goto, Transmitting, DtmPCs
<1>1. CASE SendCall(t)
  BY <1>1 DEF SendCall
<1>2. CASE InitCall(t)
  BY <1>2 DEF InitCall
<1>3. CASE Deinit(t)
  BY <1>3 DEF Deinit
<1>4. ~DtmStep(t)
  BY DEF DtmStep, DtmCall, DtmEnable, DtmSend, DtmDisable, CwStop
<1> QED
  BY <1>1, <1>2, <1>3, <1>4 DEF Call

LEMMA PowerNext ==
  Orderly /\ ~Dtm /\ LockInv /\ PowerInv /\ [Next]_vars => PowerInv'
<1> SUFFICES ASSUME Orderly, ~Dtm, LockInv, PowerInv, [Next]_vars PROVE PowerInv'
  OBVIOUS
<1>1. CASE UNCHANGED vars
  BY <1>1 DEF vars, locals, PowerInv, RadioOnWhileTransmitting, RadioOffAtRest
<1> QED
  BY <1>1, PowerSend, PowerInitDeinit, PowerCall DEF Next

LEMMA PowerAlways == ASSUME Orderly, ~Dtm PROVE Spec => []PowerInv
BY LockInit, LockNext, PowerInit, PowerNext, PTL DEF Spec

(* The radio is on for the whole of a call's transmissions and off while the *)
(* semaphore is free, whichever of a call's steps failed.                    *)
THEOREM RadioState == ASSUME Orderly, ~Dtm PROVE Spec => []RadioFollows
<1>1. PowerInv => RadioFollows
  BY DEF PowerInv, RadioFollows
<1> QED
  BY PowerAlways, <1>1, PTL

(* hubble_sat_port_packet_send never answers 0 for a call that lost a        *)
(* transmission or left the radio on.                                        *)
THEOREM SuccessComplete == ASSUME Orderly, ~Dtm PROVE Spec => []SuccessIsComplete
<1>1. PowerInv => SuccessIsComplete
  BY DEF PowerInv, SuccessIsComplete
<1> QED
  BY PowerAlways, <1>1, PTL

-----------------------------------------------------------------------------
(* The life of the semaphore. On FreeRTOS the handle is that of a semaphore, *)
(* or NULL, which nobody uses.                                               *)

Created == \A t \in Threads : pc[t] \in {"giving_first", "board_init"} => sem \in live

KeepInv ==
  /\ NoLeak /\ HandleLive
  /\ given \subseteq live
  /\ IF Port = "zephyr" THEN live = {sem}
     ELSE /\ sem # NoSem => sem \in live
          /\ state = "up" => sem \in live
          /\ Created

LEMMA KeepInit == Init => KeepInv
<1> SUFFICES ASSUME Init PROVE KeepInv
  OBVIOUS
<1>1. \A t \in Threads : pc[t] = "idle"
  BY DEF Init
<1> QED
  BY <1>1, SatPortAssumption DEF Init, KeepInv, NoLeak, HandleLive, Created,
                                 Waiting, Holding, Transmitting

LEMMA KeepSend ==
  ASSUME LockInv, KeepInv, NEW t \in Threads, Send(t) PROVE KeepInv'
<1> USE SatPortAssumption
    DEF KeepInv, NoLeak, HandleLive, Created, LockInv, TypeInv, TypeOK,
        SameHandle, Goto, Waiting, Holding, Transmitting
<1>1. CASE Take(t)
  BY <1>1 DEF Take
<1>2. CASE Enable(t)
  BY <1>2 DEF Enable
<1>3. CASE Transmit(t)
  BY <1>3 DEF Transmit
<1>4. CASE CallbackReturn(t)
  BY <1>4 DEF CallbackReturn
<1>5. CASE Sleep(t)
  BY <1>5 DEF Sleep
<1>6. CASE Disable(t)
  BY <1>6 DEF Disable
<1>7. CASE Give(t)
  BY <1>7 DEF Give
<1> QED
  BY <1>1, <1>2, <1>3, <1>4, <1>5, <1>6, <1>7 DEF Send

LEMMA KeepInitDeinit ==
  ASSUME LockInv, KeepInv, Orderly, NEW t \in Threads, InitDeinit(t)
  PROVE  KeepInv'
<1> USE SatPortAssumption
    DEF KeepInv, NoLeak, HandleLive, Created, LockInv, TypeInv, TypeOK,
        SameHandle, LifecycleAlone, Goto, Waiting, Holding, Transmitting, Lifecycle
<1>1. CASE Create(t)
  BY <1>1 DEF Create
<1>2. CASE GiveFirst(t)
  BY <1>2 DEF GiveFirst
<1>3. CASE BoardInit(t)
  BY <1>3 DEF BoardInit
<1>4. CASE DeinitTake(t)
  BY <1>4 DEF DeinitTake
<1>5. CASE DeinitRelease(t)
  BY <1>5 DEF DeinitRelease
<1> QED
  BY <1>1, <1>2, <1>3, <1>4, <1>5 DEF InitDeinit

LEMMA KeepCall ==
  ASSUME LockInv, KeepInv, Orderly, NEW t \in Threads, Call(t) \/ DtmStep(t)
  PROVE  KeepInv'
<1> USE SatPortAssumption
    DEF KeepInv, NoLeak, HandleLive, Created, LockInv, TypeInv, TypeOK,
        SameHandle, Goto, Waiting, Holding, Transmitting, Lifecycle, Orderly
<1>1. CASE SendCall(t)
  BY <1>1 DEF SendCall
<1>2. CASE InitCall(t)
  BY <1>2 DEF InitCall, MayInit, Alone
<1>3. CASE Deinit(t)
  BY <1>3 DEF Deinit
<1>4. CASE DtmStep(t)
  BY <1>4 DEF DtmStep, DtmCall, DtmEnable, DtmSend, DtmDisable, CwStop
<1> QED
  BY <1>1, <1>2, <1>3, <1>4 DEF Call

LEMMA KeepNext ==
  Orderly /\ LockInv /\ KeepInv /\ [Next]_vars => KeepInv'
<1> SUFFICES ASSUME Orderly, LockInv, KeepInv, [Next]_vars PROVE KeepInv'
  OBVIOUS
<1>1. CASE UNCHANGED vars
  BY <1>1 DEF vars, locals, KeepInv, NoLeak, HandleLive, Created
<1> QED
  BY <1>1, KeepSend, KeepInitDeinit, KeepCall DEF Next

(* Nobody waits on, or holds, a deleted semaphore, and none is lost: for any *)
(* number of tasks and semaphores, and a heap that may be full at any time.  *)
THEOREM SemaphoreLife ==
  ASSUME Orderly PROVE Spec => []SemaphoreKept
<1>1. KeepInv => SemaphoreKept
  BY DEF KeepInv, SemaphoreKept
<1> QED
  BY LockInit, LockNext, KeepInit, KeepNext, <1>1, PTL DEF Spec

LEMMA DownAtRest ==
  ASSUME LockInv, KeepInv, Orderly, [Next]_vars, state = "up", state' = "down",
         NEW u \in Threads
  PROVE  pc[u] \notin Transmitting
<1> USE SatPortAssumption
    DEF LockInv, TypeInv, TypeOK, Goto, Transmitting, Holding, Lifecycle
<1>1. PICK t \in Threads : DeinitTake(t) \/ DeinitRelease(t)
  BY DEF Next, vars, locals, Send, Take, Enable, Transmit, CallbackReturn, Sleep, Disable,
         Give, InitDeinit, Create, GiveFirst, BoardInit, Call, SendCall, InitCall, Deinit,
         DtmStep, DtmCall, DtmEnable, DtmSend, DtmDisable, CwStop
<1>2. CASE DeinitRelease(t)
  BY <1>2 DEF DeinitRelease, Exclusion
<1>3. CASE DeinitTake(t)
  <2>1. pc[t] = "deinit" /\ held[t] = NoSem /\ sem = NoSem
    BY <1>3 DEF DeinitTake, SameHandle
  <2>2. Port # "zephyr"
    BY <2>1 DEF KeepInv
  <2> QED
    BY <2>1, <2>2 DEF LifecycleAlone
<1> QED
  BY <1>1, <1>2, <1>3

(* hubble_deinit succeeds only when no call is using the radio.              *)
THEOREM DeinitAtRest ==
  ASSUME Orderly PROVE Spec => DeinitOnlyAtRest
<1>1. LockInv /\ KeepInv /\ [Next]_vars
      => [ state' = "down" /\ state = "up" =>
             \A t \in Threads : pc[t] \notin Transmitting ]_vars
  BY DownAtRest
<1> QED
  BY LockInit, LockNext, KeepInit, KeepNext, <1>1, PTL DEF Spec, DeinitOnlyAtRest

-----------------------------------------------------------------------------
(* The refinement: the transmitting call is the owner of the session.        *)

(* With one transmitting call, the mapping designates it.                    *)
LEMMA OwnerIs ==
  ASSUME Exclusion, NEW t \in Threads, pc[t] \in Transmitting
  PROVE  Transmitter = t
BY DEF Exclusion, Holding, Transmitter

LEMMA OwnerIsNext ==
  ASSUME Exclusion', NEW t \in Threads, pc'[t] \in Transmitting
  PROVE  Transmitter' = t
BY DEF Exclusion, Holding, Transmitter

(* A step that starts, ends and counts no transmission does not show.        *)
LEMMA SessionStutter ==
  ASSUME Exclusion, Exclusion',
         \A t \in Threads : /\ pc'[t] \in Transmitting <=> pc[t] \in Transmitting
                            /\ pc[t] \in Transmitting => left'[t] = left[t]
  PROVE  UNCHANGED Session!vars
<1>1. CASE \E t \in Threads : pc[t] \in Transmitting
  <2> PICK t \in Threads : pc[t] \in Transmitting
    BY <1>1
  <2>1. Transmitter = t /\ Transmitter' = t
    BY OwnerIs, OwnerIsNext
  <2> QED
    BY <2>1 DEF Session!vars
<1>2. CASE \A t \in Threads : pc[t] \notin Transmitting
  <2>1. Transmitter = NoThread /\ Transmitter' = NoThread
    BY <1>2 DEF Transmitter
  <2> QED
    BY <2>1 DEF Session!vars
<1> QED
  BY <1>1, <1>2

LEMMA SessionSend ==
  ASSUME LockInv, LockInv', NEW t \in Threads, Send(t)
  PROVE  [Session!Next]_(Session!vars)
<1> USE SatPortAssumption
<1>0. Exclusion /\ Exclusion' /\ t # NoThread
  BY DEF LockInv
<1>1. CASE Enable(t) /\ pc'[t] = "sending"
  <2>1. \A u \in Threads : pc[u] \notin Transmitting
    BY <1>0, <1>1 DEF Enable, Goto, Exclusion, Holding, Transmitting
  <2>2. Transmitter = NoThread
    BY <2>1 DEF Transmitter
  <2>3. Transmitter' = t
    BY <1>0, <1>1, OwnerIsNext DEF Transmitting
  <2>4. left'[t] \in 1 .. MaxTx
    BY <1>1 DEF LockInv, TypeInv, TypeOK, Counted, Enable, Goto
  <2>5. Session!Open(t)
    BY <1>0, <2>2, <2>3, <2>4 DEF Session!Open
  <2> QED
    BY <2>5 DEF Session!Next
<1>2. CASE Transmit(t)
  <2>1. Transmitter = t /\ Transmitter' = t
    <3>1. pc[t] \in Transmitting /\ pc'[t] \in Transmitting
      BY <1>2 DEF Transmit, Goto, Transmitting, LockInv, TypeInv, TypeOK
    <3> QED
      BY <1>0, <3>1, OwnerIs, OwnerIsNext
  <2>2. left[t] > 0 /\ left'[t] = left[t] - 1
    BY <1>2 DEF Transmit, Goto, LockInv, TypeInv, TypeOK, Counted
  <2>3. Session!Transmit(t)
    BY <1>0, <2>1, <2>2 DEF Session!Transmit
  <2> QED
    BY <2>3 DEF Session!Next
<1>3. CASE Disable(t)
  <2>1. Transmitter = t
    BY <1>0, <1>3, OwnerIs DEF Disable, Goto, Transmitting
  <2>2. \A u \in Threads : pc'[u] \notin Transmitting
    BY <1>0, <1>3 DEF Disable, Goto, Exclusion, Holding, Transmitting,
                      LockInv, TypeInv, TypeOK
  <2>3. Transmitter' = NoThread
    BY <2>2 DEF Transmitter
  <2>4. Session!Close(t)
    BY <2>1, <2>3 DEF Session!Close
  <2> QED
    BY <2>4 DEF Session!Next
<1>4. CASE \/ Take(t) \/ CallbackReturn(t) \/ Sleep(t) \/ Give(t)
           \/ Enable(t) /\ pc'[t] # "sending"
  <2>1. \A u \in Threads :
          /\ pc'[u] \in Transmitting <=> pc[u] \in Transmitting
          /\ pc[u] \in Transmitting => left'[u] = left[u]
    BY <1>4 DEF Take, CallbackReturn, Sleep, Give, Enable, Goto, Transmitting,
                LockInv, TypeInv, TypeOK
  <2> QED
    BY <1>0, <2>1, SessionStutter
<1> QED
  BY <1>1, <1>2, <1>3, <1>4 DEF Send

LEMMA SessionOther ==
  ASSUME LockInv, LockInv', NEW t \in Threads,
         InitDeinit(t) \/ Call(t) \/ DtmStep(t)
  PROVE  [Session!Next]_(Session!vars)
<1>0. Exclusion /\ Exclusion'
  BY DEF LockInv
<1> USE DEF Goto, Transmitting, LockInv, TypeInv, TypeOK
<1>1. \A u \in Threads :
        /\ pc'[u] \in Transmitting <=> pc[u] \in Transmitting
        /\ pc[u] \in Transmitting => left'[u] = left[u]
  <2>1. CASE InitDeinit(t)
    BY <2>1 DEF InitDeinit, Create, GiveFirst, BoardInit, DeinitTake, DeinitRelease
  <2>2. CASE Call(t)
    BY <2>2 DEF Call, SendCall, InitCall, Deinit
  <2>3. CASE DtmStep(t)
    BY <2>3 DEF DtmStep, DtmCall, DtmEnable, DtmSend, DtmDisable, CwStop
  <2> QED
    BY <2>1, <2>2, <2>3
<1> QED
  BY <1>0, <1>1, SessionStutter

(* The calls of all tasks implement exclusive sessions of the radio.         *)
THEOREM SessionRefinement == ASSUME Orderly PROVE Spec => SessionSpec
<1>1. Init => Session!Init
  <2> SUFFICES ASSUME Init PROVE Session!Init
    OBVIOUS
  <2>1. \A t \in Threads : pc[t] \notin Transmitting
    BY DEF Init, Transmitting
  <2> QED
    BY <2>1 DEF Transmitter, Session!Init
<1>2. LockInv /\ LockInv' /\ [Next]_vars => [Session!Next]_(Session!vars)
  <2> SUFFICES ASSUME LockInv, LockInv', [Next]_vars
               PROVE  [Session!Next]_(Session!vars)
    OBVIOUS
  <2>1. CASE UNCHANGED vars
    <3>1. UNCHANGED Session!vars
      BY <2>1, SessionStutter DEF vars, locals, LockInv
    <3> QED
      BY <3>1
  <2> QED
    BY <2>1, SessionSend, SessionOther DEF Next
<1> QED
  BY LockInit, LockNext, <1>1, <1>2, PTL DEF Spec, SessionSpec, Session!Spec
=============================================================================
