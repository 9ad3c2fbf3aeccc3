-------------------------- MODULE BoardRadioProofs --------------------------
(***************************************************************************)
(* The radio drivers, for every set of boards and every packet length. In  *)
(* the first part, mutual exclusion: its invariant needs only where the    *)
(* tasks are. In the second, what holds as long as the test mode leaves    *)
(* the port alone: then one task at a time is inside the driver, and the   *)
(* invariant says, for each family of drivers, what its radio, its timer   *)
(* and the air are like at each place where that task can be.              *)
(***************************************************************************)
EXTENDS BoardRadio, TLAPS, SequenceTheorems

(* Every task is somewhere, and a task in the symbol loop holds the lock. *)
LInv ==
  /\ pc \in [ Users -> PCs ]
  /\ OneSender

LEMMA NobodyIsNoUser == Nobody \notin Users
BY DEF Nobody, Users

-----------------------------------------------------------------------------
(* What a step can do to the tasks' places and to the lock: move without     *)
(* entering the loop, enter it with a free lock, or leave it giving the lock.*)
Move(u) ==
  /\ lock' = lock
  /\ \E p \in PCs :
       /\ pc' = [ pc EXCEPT ![u] = p ]
       /\ p \in InLoop => pc[u] \in InLoop

Enter(u) ==
  /\ lock = Nobody /\ lock' = u
  /\ \E p \in PCs : pc' = [ pc EXCEPT ![u] = p ]

Exit(u) ==
  /\ pc[u] \in InLoop /\ lock' = Nobody
  /\ \E p \in PCs \ InLoop : pc' = [ pc EXCEPT ![u] = p ]

LEMMA MoveKeeps ==
  ASSUME LInv, NEW u \in Users, Move(u)
  PROVE  LInv'
<1>1. PICK p \in PCs : /\ pc' = [ pc EXCEPT ![u] = p ]
                       /\ p \in InLoop => pc[u] \in InLoop
  BY DEF Move
<1>2. pc' \in [ Users -> PCs ]
  BY <1>1 DEF LInv
<1>3. ASSUME NEW v \in Users, pc'[v] \in InLoop
      PROVE  lock' = v
  <2>1. pc[v] \in InLoop
    BY <1>1, <1>3 DEF LInv
  <2> QED BY <2>1 DEF LInv, OneSender, Move
<1> QED BY <1>2, <1>3 DEF LInv, OneSender

LEMMA EnterKeeps ==
  ASSUME LInv, NEW u \in Users, Enter(u)
  PROVE  LInv'
<1>1. PICK p \in PCs : pc' = [ pc EXCEPT ![u] = p ]
  BY DEF Enter
<1>2. pc' \in [ Users -> PCs ]
  BY <1>1 DEF LInv
<1>3. \A v \in Users : pc[v] \notin InLoop
  BY NobodyIsNoUser DEF LInv, OneSender, Enter
<1>4. ASSUME NEW v \in Users, pc'[v] \in InLoop
      PROVE  lock' = v
  <2>1. v = u
    BY <1>1, <1>3, <1>4 DEF LInv
  <2> QED BY <2>1 DEF Enter
<1> QED BY <1>2, <1>4 DEF LInv, OneSender

LEMMA ExitKeeps ==
  ASSUME LInv, NEW u \in Users, Exit(u)
  PROVE  LInv'
<1>1. PICK p \in PCs \ InLoop : pc' = [ pc EXCEPT ![u] = p ]
  BY DEF Exit
<1>2. pc' \in [ Users -> PCs ]
  BY <1>1 DEF LInv
<1>3. \A v \in Users \ {u} : pc[v] \notin InLoop
  BY DEF LInv, OneSender, Exit
<1>4. \A v \in Users : pc'[v] \notin InLoop
  BY <1>1, <1>3 DEF LInv
<1> QED BY <1>2, <1>4 DEF LInv, OneSender

LEMMA StutterKeeps ==
  ASSUME LInv, UNCHANGED << lock, pc >>
  PROVE  LInv'
BY DEF LInv, OneSender

-----------------------------------------------------------------------------
LEMMA CallerStep ==
  ASSUME LInv, NEW u \in Users, Caller(u)
  PROVE  Move(u)
BY DEF Caller, Call, SendCall, Leave, Goto, Move, PCs, InLoop, LInv

LEMMA TakeEnters ==
  ASSUME NEW u \in Users, Take(u)
  PROVE  Enter(u)
BY DEF Take, Goto, Enter, PCs

LEMMA GiveExits ==
  ASSUME NEW u \in Users, Give(u)
  PROVE  Exit(u)
<1>1. PICK p \in {"sleeping", "sent"} : Goto(u, "ending", p)
  BY DEF Give
<1>2. p \in PCs \ InLoop /\ "ending" \in InLoop
  BY <1>1 DEF PCs, InLoop
<1> QED BY <1>1, <1>2 DEF Give, Goto, Exit

LEMMA LoopMoves ==
  ASSUME LInv, NEW u \in Users, NEW p \in InLoop, lock' = lock,
         Break(u, p) \/ NextSymbol(u, p) \/ \E q \in PCs : Goto(u, p, q)
  PROVE  Move(u)
BY DEF Break, NextSymbol, Goto, Move, PCs, InLoop, LInv

LEMMA BackMoves ==
  ASSUME NEW u \in Users, NEW p, lock' = lock, Back(u, p)
  PROVE  Move(u)
BY DEF Back, Goto, Move, PCs, InLoop

LEMMA NordicStepKeeps ==
  ASSUME LInv, NEW u \in Users, NordicStep(u)
  PROVE  LInv'
<1>1. ASSUME RequestClock52(u) \/ Enable52(u) \/ Enable53(u) \/ Enable54(u)
      PROVE  Move(u)
  BY <1>1 DEF RequestClock52, Enable52, Enable53, Enable54, Back, Goto, Move, PCs, InLoop
<1>2. ASSUME Disable52(u) \/ Disable53(u) \/ Disable54(u)
      PROVE  Move(u)
  BY <1>2 DEF Disable52, Disable53, Disable54, Back, Goto, Move, PCs, InLoop
<1>3. ASSUME Start(u)
      PROVE  Enter(u)
  BY <1>3, TakeEnters DEF Start
<1>4. ASSUME Tune(u) \/ Woken(u)
      PROVE  Move(u)
  <2>1. lock' = lock
    BY <1>4 DEF Tune, Woken
  <2>2. \E p \in InLoop :
          Break(u, p) \/ NextSymbol(u, p) \/ \E q \in PCs : Goto(u, p, q)
    BY <1>4 DEF Tune, Woken, InLoop, PCs
  <2> QED BY <2>1, <2>2, LoopMoves
<1>5. ASSUME End(u)
      PROVE  Exit(u)
  BY <1>5, GiveExits DEF End
<1>6. ASSUME FemSleep(u)
      PROVE  Move(u)
  BY <1>6 DEF FemSleep, Goto, Move, PCs, InLoop
<1> QED
  BY <1>1, <1>2, <1>3, <1>4, <1>5, <1>6, MoveKeeps, EnterKeeps, ExitKeeps
  DEF NordicStep, Send52, Send53, Send54, SymbolLoop

LEMMA MpslCallerKeeps ==
  ASSUME LInv, NEW u \in Users, MpslCaller(u)
  PROVE  LInv'
<1>1. ASSUME OpenCall(u) \/ CloseCall(u) \/ CallReturn(u) \/ Queue(u) \/ Done(u)
      PROVE  Move(u)
  BY <1>1 DEF OpenCall, CloseCall, CallReturn, Queue, Done, Back, Goto, Move, PCs, InLoop
<1>2. ASSUME MpslTake(u)
      PROVE  Enter(u)
  BY <1>2 DEF MpslTake, Goto, Enter, PCs
<1>3. ASSUME MpslGive(u)
      PROVE  Exit(u)
  BY <1>3, GiveExits DEF MpslGive
<1> QED
  BY <1>1, <1>2, <1>3, MoveKeeps, EnterKeeps, ExitKeeps DEF MpslCaller

LEMMA EspStepKeeps ==
  ASSUME LInv, NEW u \in Users, EspStep(u)
  PROVE  LInv'
<1>1. ASSUME EspEnable(u) \/ EspDisable(u)
      PROVE  Move(u)
  BY <1>1 DEF EspEnable, EspDisable, Back, Goto, Move, PCs, InLoop
<1>2. ASSUME EspTake(u)
      PROVE  Enter(u)
  BY <1>2, TakeEnters DEF EspTake
<1>3. ASSUME EspOn(u) \/ EspOff(u) \/ EspGap(u)
      PROVE  Move(u)
  <2>1. lock' = lock
    BY <1>3 DEF EspOn, EspOff, EspGap
  <2>2. \E p \in InLoop :
          Break(u, p) \/ NextSymbol(u, p) \/ \E q \in PCs : Goto(u, p, q)
    BY <1>3 DEF EspOn, EspOff, EspGap, InLoop, PCs
  <2> QED BY <2>1, <2>2, LoopMoves
<1>4. ASSUME EspGive(u)
      PROVE  Exit(u)
  BY <1>4, GiveExits DEF EspGive
<1> QED
  BY <1>1, <1>2, <1>3, <1>4, MoveKeeps, EnterKeeps, ExitKeeps DEF EspStep, EspSend

LEMMA RailStepKeeps ==
  ASSUME LInv, NEW u \in Users, RailStep(u)
  PROVE  LInv'
<1>1. ASSUME RailEnable(u) \/ RailDisable(u)
      PROVE  Move(u)
  BY <1>1 DEF RailEnable, RailDisable, Back, Goto, Move, PCs, InLoop
<1>2. ASSUME RailTake(u)
      PROVE  Enter(u)
  BY <1>2, TakeEnters DEF RailTake
<1>3. ASSUME RailArm(u) \/ RailOn(u) \/ RailOff(u) \/ RailGap(u)
      PROVE  Move(u)
  <2>1. lock' = lock
    BY <1>3 DEF RailArm, RailOn, RailOff, RailGap
  <2>2. \E p \in InLoop :
          Break(u, p) \/ NextSymbol(u, p) \/ \E q \in PCs : Goto(u, p, q)
    BY <1>3 DEF RailArm, RailOn, RailOff, RailGap, InLoop, PCs
  <2> QED BY <2>1, <2>2, LoopMoves
<1>4. ASSUME RailGive(u)
      PROVE  Exit(u)
  BY <1>4, GiveExits DEF RailGive
<1> QED
  BY <1>1, <1>2, <1>3, <1>4, MoveKeeps, EnterKeeps, ExitKeeps DEF RailStep, RailSend

LEMMA TiStepKeeps ==
  ASSUME LInv, NEW u \in Users, TiStep(u)
  PROVE  LInv'
<1>1. ASSUME TiEnable(u) \/ TiDisable(u)
      PROVE  Move(u)
  BY <1>1 DEF TiEnable, TiDisable, Back, Goto, Move, PCs, InLoop
<1>2. ASSUME TiTake(u)
      PROVE  Enter(u)
  BY <1>2, TakeEnters DEF TiTake
<1>3. ASSUME TiSubmit(u) \/ TiDone(u)
      PROVE  Move(u)
  <2>1. lock' = lock
    BY <1>3 DEF TiSubmit, TiDone
  <2>2. \E p \in InLoop :
          Break(u, p) \/ NextSymbol(u, p) \/ \E q \in PCs : Goto(u, p, q)
    BY <1>3 DEF TiSubmit, TiDone, InLoop, PCs
  <2> QED BY <2>1, <2>2, LoopMoves
<1>4. ASSUME TiGive(u)
      PROVE  Exit(u)
  BY <1>4, GiveExits DEF TiGive
<1> QED
  BY <1>1, <1>2, <1>3, <1>4, MoveKeeps, EnterKeeps, ExitKeeps DEF TiStep, TiSend

LEMMA TestModeKeeps ==
  ASSUME LInv, TestMode
  PROVE  LInv'
<1> DEFINE t == "test"
<1>1. t \in Users
  BY DEF Users
<1>2. ASSUME CwStart(t) \/ CwStop(t)
      PROVE  Move(t)
  BY <1>2 DEF CwStart, CwStop, Goto, Move, PCs, InLoop
<1>3. ASSUME EspCwStart(t) \/ EspCwStop(t)
      PROVE  Move(t)
  BY <1>3 DEF EspCwStart, EspCwStop, Goto, Move, PCs, InLoop
<1>4. ASSUME RailCwStart(t) \/ RailCwStop(t)
      PROVE  Move(t)
  BY <1>4 DEF RailCwStart, RailCwStop, Goto, Move, PCs, InLoop
<1>5. ASSUME TiCwStart(t) \/ TiCwDone(t) \/ TiCwStop(t)
      PROVE  Move(t)
  BY <1>5 DEF TiCwStart, TiCwDone, TiCwStop, Goto, Move, PCs, InLoop
<1>6. ASSUME PowerSet \/ RailPowerSet
      PROVE  UNCHANGED << lock, pc >>
  BY <1>6 DEF PowerSet, RailPowerSet, task
<1> QED
  BY <1>1, <1>2, <1>3, <1>4, <1>5, <1>6, MoveKeeps, StutterKeeps
  DEF TestMode, NordicTest, EspTest, RailTest, TiTest

(* The thread, the timers, the interrupts and MPSL move no task. *)
LEMMA MachineKeeps ==
  ASSUME LInv, MpslThread \/ Machine
  PROVE  LInv'
<1>1. UNCHANGED << lock, task >>
  BY DEF MpslThread, ThreadOpen, ThreadClose, ThreadRequest, Machine, TimerOn, TimerOff,
         RadioIsr, MpslSignal, SlotStart, RadioSignal, ExtendSignal, BlockedSignal,
         IdleSignal, EspTimer, RailTimer
<1> QED BY <1>1, StutterKeeps DEF task

LEMMA InitLInv == Init => LInv
BY DEF Init, LInv, OneSender, PCs, InLoop

LEMMA NextLInv == LInv /\ [Next]_vars => LInv'
<1> SUFFICES ASSUME LInv, [Next]_vars
             PROVE  LInv'
  OBVIOUS
<1>1. ASSUME NEW u \in Users, Caller(u)
      PROVE  LInv'
  BY <1>1, CallerStep, MoveKeeps
<1>2. ASSUME NEW u \in Users, Driver(u)
      PROVE  LInv'
  BY <1>2, NordicStepKeeps, MpslCallerKeeps, EspStepKeeps, RailStepKeeps, TiStepKeeps
  DEF Driver
<1>3. CASE UNCHANGED vars
  BY <1>3, StutterKeeps DEF vars, task
<1> QED
  BY <1>1, <1>2, <1>3, TestModeKeeps, MachineKeeps DEF Next

(* Two packets never share the symbol loop: whoever is between the take and  *)
(* the give of hubble_sat_board_packet_send holds _transmit_sem, whatever    *)
(* the board, the length of the packet and what the test mode does.          *)
THEOREM Exclusion == Spec => []OneSender
<1>1. LInv => OneSender
  BY DEF LInv
<1> QED BY <1>1, InitLInv, NextLInv, PTL DEF Spec

-----------------------------------------------------------------------------
(* What a packet puts on the air: its first k symbols, in order. With RAIL  *)
(* the first one may be cut by the expiry that a failed packet left set.    *)
Row(k) == [ s \in 1 .. k |-> s ]
Cut(k) == [ s \in 1 .. k |-> IF s = 1 THEN 0 ELSE s ]
Played(a, b, k) == a = Row(k) \/ (b \in Rail /\ a = Cut(k))

LEMMA NothingPlayed ==
  ASSUME NEW b
  PROVE  Played(<< >>, b, 0)
BY DEF Played, Row

LEMMA RowGrows ==
  ASSUME NEW k \in Nat
  PROVE  /\ Len(Row(k)) = k
         /\ Append(Row(k), k + 1) = Row(k + 1)
<1>1. Row(k) \in Seq(Nat) /\ Len(Row(k)) = k
  BY DEF Row
<1>2. Row(k + 1) \in Seq(Nat) /\ Len(Row(k + 1)) = k + 1
  BY DEF Row
<1>3. Append(Row(k), k + 1) \in Seq(Nat) /\ Len(Append(Row(k), k + 1)) = k + 1
  BY <1>1
<1>4. \A s \in 1 .. k + 1 : Append(Row(k), k + 1)[s] = Row(k + 1)[s]
  BY <1>1 DEF Row
<1> QED BY <1>1, <1>2, <1>3, <1>4, SeqEqual

LEMMA CutGrows ==
  ASSUME NEW k \in Nat
  PROVE  /\ Len(Cut(k)) = k
         /\ k > 0 => Append(Cut(k), k + 1) = Cut(k + 1)
         /\ Append(Cut(0), 0) = Cut(1)
<1>1. Cut(k) \in Seq(Nat) /\ Len(Cut(k)) = k
  BY DEF Cut
<1>2. Cut(k + 1) \in Seq(Nat) /\ Len(Cut(k + 1)) = k + 1
  BY DEF Cut
<1>3. Append(Cut(k), k + 1) \in Seq(Nat) /\ Len(Append(Cut(k), k + 1)) = k + 1
  BY <1>1
<1>4. ASSUME k > 0, NEW s \in 1 .. k + 1
      PROVE  Append(Cut(k), k + 1)[s] = Cut(k + 1)[s]
  BY <1>1, <1>4 DEF Cut
<1>5. Append(Cut(0), 0) = Cut(1)
  BY DEF Cut
<1> QED BY <1>1, <1>2, <1>3, <1>4, <1>5, SeqEqual

(* The next symbol in order, and RAIL's first symbol cut. *)
LEMMA OneMore ==
  ASSUME Watched, NEW k \in 0 .. Symbols - 1, Played(air, board, k), Emit(k + 1)
  PROVE  Played(air', board, k + 1)
<1>1. Symbols \in Nat /\ k \in Nat /\ k <= Symbols
  BY SymbolRadioAssumption
<1>2. Len(air) = k
  BY <1>1, RowGrows, CutGrows DEF Played
<1>3. air' = Append(air, k + 1)
  BY <1>1, <1>2 DEF Emit
<1>4. CASE air = Row(k)
  <2>1. air' = Row(k + 1)
    BY <1>1, <1>3, <1>4, RowGrows
  <2> QED BY <2>1 DEF Played
<1>5. CASE board \in Rail /\ air = Cut(k)
  <2>1. CASE k = 0
    <3>1. air = Row(k)
      BY <1>5, <2>1 DEF Row, Cut
    <3> QED BY <1>4, <3>1
  <2>2. CASE k > 0
    <3>1. air' = Cut(k + 1)
      BY <1>1, <1>3, <1>5, <2>2, CutGrows
    <3> QED BY <1>5, <3>1 DEF Played
  <2> QED BY <1>1, <2>1, <2>2
<1> QED BY <1>4, <1>5 DEF Played

LEMMA FirstCut ==
  ASSUME Watched, board \in Rail, Played(air, board, 0), Emit(0)
  PROVE  Played(air', board, 1)
<1>1. Symbols \in Nat
  BY SymbolRadioAssumption
<1>2. Len(air) = 0 /\ air = Cut(0)
  BY RowGrows, CutGrows DEF Played, Row, Cut
<1>3. air' = Append(air, 0)
  BY <1>1, <1>2 DEF Emit
<1> QED BY <1>2, <1>3, CutGrows DEF Played

-----------------------------------------------------------------------------
(* The radio while one task at a time uses it, for every driver: u is the    *)
(* task that may be inside.                                                  *)
Radio ==
  [ carrier : BOOLEAN, tone : Nat, wire : BOOLEAN, chan : BOOLEAN, irq : BOOLEAN,
    tim : {"disabled", "off", "gap", "on", "armed"}, ev : BOOLEAN, mode : {"ble", "sat"},
    pa : {"setup", "on", "sleep"}, clock : SUBSET (Users \cup {"kept"}) ]

Types ==
  /\ hw \in Radio
  /\ pc \in [ Users -> PCs ]
  /\ i \in [ Users -> 0 .. Symbols ]
  /\ ret \in [ Users -> {"ok", "error"} ]
  /\ sym \in {0, 1}
  /\ saved \in {"ble", "sat"}
  /\ board \in Boards

Only(u) == \A v \in Users \ {u} : pc[v] = "idle"

(* Before the radio is set up for satellites. *)
Fresh == {"idle", "enabling", "configuring", "calling"}

Amplified == {"waiting", "tuning", "symbol", "ending", "sleeping", "tone"}

(* What Bluetooth gets back: the settings, the amplifier, the clock. *)
Settings(u) ==
  /\ cond.tidy =>
       /\ saved = "ble"
       /\ board # "mpsl" /\ pc[u] \in Fresh => hw.mode = "ble"
       /\ hw.pa = "on" => pc[u] \in Amplified
  /\ board = "nrf52" =>
       /\ hw.clock \subseteq {u, "kept"}
       /\ pc[u] \in {"idle", "enabling"} => u \notin hw.clock
       /\ pc[u] \in {"waiting", "tuning", "symbol"} => hw.pa = "on"
  /\ board # "nrf52" => hw.clock \subseteq {"kept"} /\ hw.pa = "setup"

(* A packet that is reported as sent was heard. *)
Heard(u) ==
  /\ board # "mpsl" /\ pc[u] \in {"tuning", "streaming", "symbol", "gap"} => i[u] \in 1 .. Symbols
  /\ pc[u] \in {"ending", "sleeping", "sent"} /\ ret[u] = "ok" => Played(air, board, Symbols)

(* The timer turns the radio on and off, its event becomes the semaphore's   *)
(* count, and only then the task tunes to the next symbol.                   *)
NordicState(u) == board \in Nordic =>
  /\ hw.ev => pc[u] = "symbol" /\ sym = 0
  /\ hw.tim = "on" => pc[u] = "symbol" /\ sym = 0 /\ ~hw.ev
  /\ hw.carrier => pc[u] = "tone" \/ (hw.tim = "on" /\ Routed)
  /\ board = "nrf52" \/ pc[u] \notin Fresh => hw.wire
  /\ pc[u] = "tuning" => hw.chan /\ sym = 0 /\ Played(air, board, i[u] - 1)
  /\ pc[u] = "symbol" => hw.chan
  /\ pc[u] = "symbol" /\ sym = 0 /\ ~hw.ev =>
       /\ Played(air, board, i[u] - 1)
       /\ hw.tone = i[u]
       /\ hw.tim = "on" => hw.carrier
  /\ pc[u] = "symbol" /\ (sym = 1 \/ hw.ev) => Played(air, board, i[u])

(* The timer that wakes the task runs only while the task waits for it. *)
EspState(u) == board = "esp" =>
  /\ hw.tim \notin {"gap", "on"}
  /\ hw.carrier => pc[u] \in {"symbol", "tone"}
  /\ hw.tim = "armed" => pc[u] \in {"symbol", "gap"} /\ sym = 0
  /\ pc[u] = "tuning" => sym = 0 /\ Played(air, board, i[u] - 1)
  /\ pc[u] = "symbol" => hw.tone = i[u] /\ Played(air, board, i[u] - 1)
  /\ pc[u] = "gap" => Played(air, board, i[u])

(* An expiry of an earlier packet is over with the first symbol; a stream is *)
(* left on only by a packet that failed.                                     *)
RailState(u) == board \in Rail =>
  /\ hw.tim \in {"off", "armed"}
  /\ hw.carrier =>
       \/ pc[u] \in {"symbol", "tone", "disabling"}
       \/ pc[u] \in {"ending", "sent"} /\ ret[u] = "error"
  /\ pc[u] \in {"tuning", "streaming", "symbol"} => Played(air, board, i[u] - 1)
  /\ pc[u] = "tuning" /\ i[u] # 1 => sym = 0 /\ hw.tim = "off"
  /\ pc[u] \in {"streaming", "symbol"} /\ i[u] # 1 /\ sym = 1 => hw.tim = "off"
  /\ pc[u] = "symbol" => hw.tone = i[u]
  /\ pc[u] = "gap" => Played(air, board, i[u]) /\ (sym = 1 => hw.tim = "off")

(* The command that is submitted is the one that is waited for. *)
TiState(u) == board = "ti" =>
  /\ hw.tim \in {"off", "armed"}
  /\ hw.carrier \/ hw.tim = "armed" => pc[u] \in {"symbol", "toning"}
  /\ pc[u] \in {"tuning", "symbol"} => Played(air, board, i[u] - 1)
  /\ pc[u] = "symbol" => hw.tone = i[u]

(* The queued call, MPSL's request and the answer follow each other, and a   *)
(* signal that is still to come is of this packet or of one that failed.     *)
Slots ==
  [ queue : { << >>, << "open" >>, << "close" >>, << "request" >> },
    result : {"ok", "error"}, called : BOOLEAN, open : BOOLEAN,
    request : {"none", "pending", "running", "extending"},
    index : 0 .. Symbols - 1, out : {"ok", "error"}, signals : { << >>, << "idle" >> } ]

MpslState(u) == board = "mpsl" =>
  /\ ts \in Slots
  /\ hw.mode = "sat" => ts.request \in {"running", "extending"}
  /\ hw.carrier => ts.request = "running" /\ ~hw.ev /\ hw.tim = "on" /\ Routed
  /\ ts.queue = << "open" >> => pc[u] = "calling" /\ ~ts.called
  /\ ts.queue = << "close" >> => pc[u] = "closing" /\ ~ts.called
  /\ ts.queue = << "request" >> \/ ts.request # "none" =>
       /\ pc[u] = "symbol" /\ sym = 0 /\ ts.signals = << >> /\ ts.out = "error"
       /\ ts.queue = << >> \/ ts.request = "none"
  /\ ts.queue = << "request" >> \/ ts.request = "pending" => Played(air, board, 0)
  /\ ts.request \in {"running", "extending"} =>
       Routed /\ (hw.tim = "on" => hw.carrier)
  /\ ts.request \in {"running", "extending"} /\ ~hw.ev =>
       Played(air, board, ts.index) /\ hw.tone = ts.index + 1
  /\ ts.request = "running" /\ hw.ev => Played(air, board, ts.index + 1)
  /\ ts.request = "extending" => ~hw.ev
  /\ pc[u] = "symbol" /\ ts.out = "ok" => Played(air, board, Symbols)
  /\ ts.called => pc[u] \in {"calling", "closing"}
  /\ pc[u] = "closing" /\ ts.called => ts.signals = << >>
  /\ pc[u] = "queueing" => sym = 0 /\ Played(air, board, 0) /\ ts.out = "error"
  /\ ts.signals # << >> =>
       \/ pc[u] = "symbol" /\ (sym = 1 => ts.out = "error")
       \/ pc[u] \in {"ending", "sent", "disabling", "closing"} /\ ret[u] = "error"

DriverState(u) ==
  NordicState(u) /\ EspState(u) /\ RailState(u) /\ TiState(u) /\ MpslState(u)

Good(u) == Types /\ Only(u) /\ Settings(u) /\ Heard(u) /\ DriverState(u)

HInv == Watched => \E u \in Users : Good(u)

-----------------------------------------------------------------------------
(* Where a step takes the task, and that no other task is disturbed. *)
Moves(u, a, b) ==
  /\ pc[u] = a /\ pc'[u] = b
  /\ pc' \in [ Users -> PCs ]
  /\ Only(u)'

LEMMA Gone ==
  ASSUME Types, NEW u \in Users, Only(u), NEW a, NEW b \in PCs, Goto(u, a, b)
  PROVE  Moves(u, a, b)
BY DEF Goto, Moves, Only, Types

LEMMA Home ==
  ASSUME Types, NEW u \in Users, Only(u), NEW a, Back(u, a)
  PROVE  /\ Moves(u, a, "idle")
         /\ ret' \in [ Users -> {"ok", "error"} ]
<1>1. "idle" \in PCs
  BY DEF PCs
<1> QED BY <1>1, Gone DEF Back, Types

LEMMA Failed ==
  ASSUME Types, NEW u \in Users, Return(u, "error")
  PROVE  ret' \in [ Users -> {"ok", "error"} ] /\ ret'[u] = "error"
BY DEF Return, Types

LEMMA Broken ==
  ASSUME Types, NEW u \in Users, Only(u), NEW a, Break(u, a)
  PROVE  /\ Moves(u, a, "ending")
         /\ i' \in [ Users -> 0 .. Symbols ]
         /\ ret' \in [ Users -> {"ok", "error"} ] /\ ret'[u] = "error"
<1>1. "ending" \in PCs
  BY DEF PCs
<1>2. i' \in [ Users -> 0 .. Symbols ]
  BY SymbolRadioAssumption DEF Break, Types
<1> QED BY <1>1, <1>2, Gone, Failed DEF Break

LEMMA Advanced ==
  ASSUME Types, NEW u \in Users, Only(u), NEW a, NextSymbol(u, a), i[u] \in 1 .. Symbols
  PROVE  /\ i' \in [ Users -> 0 .. Symbols ]
         /\ \/ i[u] = Symbols /\ Moves(u, a, "ending")
            \/ i[u] # Symbols /\ Moves(u, a, "tuning") /\ i'[u] = i[u] + 1 /\ i'[u] \in 1 .. Symbols
<1>1. "ending" \in PCs /\ "tuning" \in PCs
  BY DEF PCs
<1>2. i' \in [ Users -> 0 .. Symbols ]
  BY SymbolRadioAssumption DEF NextSymbol, Types
<1>3. i[u] # Symbols => i'[u] = i[u] + 1 /\ i'[u] \in 1 .. Symbols
  BY SymbolRadioAssumption DEF NextSymbol, Types
<1> QED BY <1>1, <1>2, <1>3, Gone DEF NextSymbol

LEMMA Taken ==
  ASSUME Types, NEW u \in Users, Only(u), Take(u)
  PROVE  /\ Moves(u, "waiting", "tuning")
         /\ i' \in [ Users -> 0 .. Symbols ] /\ i'[u] = 1 /\ 1 \in 1 .. Symbols
         /\ Played(air', board, i'[u] - 1)
<1>1. "tuning" \in PCs
  BY DEF PCs
<1>2. i' \in [ Users -> 0 .. Symbols ] /\ i'[u] = 1 /\ 1 \in 1 .. Symbols
  BY SymbolRadioAssumption DEF Take, Types
<1>3. i'[u] - 1 = 0
  BY <1>2
<1>4. Played(air', board, i'[u] - 1)
  BY <1>3, NothingPlayed DEF Take
<1> QED BY <1>1, <1>2, <1>4, Gone DEF Take

LEMMA Given ==
  ASSUME Types, NEW u \in Users, Only(u), Give(u)
  PROVE  Moves(u, "ending", IF board = "nrf52" THEN "sleeping" ELSE "sent")
<1>1. (IF board = "nrf52" THEN "sleeping" ELSE "sent") \in PCs
  BY DEF PCs
<1> QED BY <1>1, Gone DEF Give

(* A board is one of the eight, and its family has only its own state. *)
LEMMA Families ==
  ASSUME Types, board' = board
  PROVE  /\ board \in Nordic \/ board = "mpsl" \/ board = "esp" \/ board \in Rail \/ board = "ti"
         /\ board' \in Boards
BY SymbolRadioAssumption DEF Types, Nordic, Rail

LEMMA Toned ==
  ASSUME Types, NEW c \in BOOLEAN
  PROVE  [ hw EXCEPT !.carrier = c, !.tone = 0 ] \in Radio
BY DEF Types, Radio

-----------------------------------------------------------------------------
LEMMA EspFamily ==
  ASSUME board = "esp", board' = board, NEW u \in Users, EspState(u)'
  PROVE  DriverState(u)'
BY DEF DriverState, NordicState, RailState, TiState, MpslState, Nordic, Rail

LEMMA EspGood ==
  ASSUME Watched, NEW u \in Users, Good(u), EspStep(u)
  PROVE  Good(u)'
<1> USE DEF Good, Moves
<1>0. /\ board = "esp" /\ UNCHANGED << board, cond, saved >> /\ Watched'
      /\ EspState(u) /\ board' \in Boards /\ Symbols \in Nat
  BY SymbolRadioAssumption
  DEF EspStep, EspEnable, EspSend, EspTake, EspOn, EspOff, EspGap, EspGive, EspDisable, Watched,
      DriverState, Types
<1>1. CASE EspEnable(u)
  <2>1. \/ Moves(u, "enabling", "enabled") /\ UNCHANGED ret
           /\ hw' = [ hw EXCEPT !.tim = "off", !.mode = "sat" ]
        \/ Moves(u, "enabling", "idle") /\ ret' \in [ Users -> {"ok", "error"} ] /\ UNCHANGED hw
    BY <1>1, Gone, Home DEF EspEnable, PCs
  <2>2. Types'
    BY <1>0, <1>1, <2>1 DEF EspEnable, Types, Radio
  <2>3. Settings(u)' /\ Heard(u)'
    BY <1>0, <1>1, <2>1 DEF EspEnable, Types, Radio, Settings, Heard, Fresh, Amplified
  <2>4. EspState(u)'
    BY <1>0, <1>1, <2>1 DEF EspEnable, Types, Radio, EspState
  <2> QED BY <1>0, <2>1, <2>2, <2>3, <2>4, EspFamily
<1>2. CASE EspTake(u)
  <2>1. /\ Moves(u, "waiting", "tuning") /\ sym' = 0
        /\ i' \in [ Users -> 0 .. Symbols ] /\ i'[u] \in 1 .. Symbols
        /\ Played(air', board, i'[u] - 1)
    BY <1>2, Taken DEF EspTake, Take
  <2>2. Types' /\ Settings(u)' /\ Heard(u)'
    BY <1>0, <1>2, <2>1 DEF EspTake, Types, Radio, Settings, Heard, Fresh, Amplified
  <2>3. EspState(u)'
    BY <1>0, <1>2, <2>1 DEF EspTake, Types, Radio, EspState
  <2> QED BY <1>0, <2>1, <2>2, <2>3, EspFamily
<1>3. CASE EspOn(u)
  <2>1. \/ Moves(u, "tuning", "symbol") /\ UNCHANGED << i, ret >>
           /\ hw' = [ hw EXCEPT !.carrier = TRUE, !.tone = Tuned(i[u]), !.tim = "armed" ]
        \/ Moves(u, "tuning", "ending") /\ ret' \in [ Users -> {"ok", "error"} ]
           /\ ret'[u] = "error" /\ i' \in [ Users -> 0 .. Symbols ]
           /\ hw' = [ hw EXCEPT !.carrier = FALSE, !.tone = 0 ]
    BY <1>3, Gone, Broken DEF EspOn, PCs
  <2>2. Tuned(i[u]) = i[u] /\ i[u] \in 1 .. Symbols /\ i[u] \in Nat
    BY <1>0, <2>1 DEF Tuned, EspState, Heard
  <2>3. Types'
    <3>1. CASE hw' = [ hw EXCEPT !.carrier = TRUE, !.tone = Tuned(i[u]), !.tim = "armed" ]
      <4>1. hw' \in Radio
        BY <2>2, <3>1 DEF Types, Radio
      <4> QED BY <1>0, <1>3, <2>1, <4>1 DEF EspOn, Types
    <3>2. CASE hw' = [ hw EXCEPT !.carrier = FALSE, !.tone = 0 ]
      <4>1. hw' \in Radio
        BY <3>2 DEF Types, Radio
      <4> QED BY <1>0, <1>3, <2>1, <4>1 DEF EspOn, Types
    <3> QED BY <2>1, <3>1, <3>2
  <2>4. Settings(u)' /\ Heard(u)'
    BY <1>0, <1>3, <2>1, <2>2 DEF EspOn, Types, Radio, Settings, Heard, Fresh, Amplified
  <2>5. EspState(u)'
    BY <1>0, <1>3, <2>1, <2>2 DEF EspOn, Types, Radio, EspState
  <2> QED BY <1>0, <2>1, <2>3, <2>4, <2>5, EspFamily
<1>4. CASE EspOff(u)
  <2>1. \/ Moves(u, "symbol", "gap") /\ UNCHANGED << i, ret >>
           /\ hw' = [ hw EXCEPT !.carrier = FALSE, !.tone = 0, !.tim = "armed" ]
        \/ Moves(u, "symbol", "ending") /\ ret' \in [ Users -> {"ok", "error"} ]
           /\ ret'[u] = "error" /\ i' \in [ Users -> 0 .. Symbols ]
           /\ hw' = [ hw EXCEPT !.carrier = FALSE, !.tone = 0 ]
    BY <1>4, Gone, Broken DEF EspOff, PCs
  <2>2. i[u] \in 1 .. Symbols /\ i[u] - 1 \in 0 .. Symbols - 1 /\ i[u] = (i[u] - 1) + 1
    BY <1>0, <2>1 DEF Heard
  <2>3. Emit((i[u] - 1) + 1) /\ Played(air, board, i[u] - 1)
    BY <1>0, <1>4, <2>1, <2>2 DEF EspOff, EspState
  <2>4. Played(air', board, i[u])
    BY <2>2, <2>3, OneMore
  <2>5. Types'
    <3>1. CASE hw' = [ hw EXCEPT !.carrier = FALSE, !.tone = 0, !.tim = "armed" ]
      <4>1. hw' \in Radio
        BY <3>1 DEF Types, Radio
      <4> QED BY <1>0, <1>4, <2>1, <4>1 DEF EspOff, Types
    <3>2. CASE hw' = [ hw EXCEPT !.carrier = FALSE, !.tone = 0 ]
      <4>1. hw' \in Radio
        BY <3>2 DEF Types, Radio
      <4> QED BY <1>0, <1>4, <2>1, <4>1 DEF EspOff, Types
    <3> QED BY <2>1, <3>1, <3>2
  <2>6. Settings(u)' /\ Heard(u)'
    BY <1>0, <1>4, <2>1, <2>2 DEF EspOff, Types, Radio, Settings, Heard, Fresh, Amplified
  <2>7. EspState(u)'
    <3>1. sym' = 0 /\ (pc'[u] = "gap" => i'[u] = i[u])
      BY <1>4, <2>1 DEF EspOff
    <3>2. CASE pc'[u] = "gap"
      BY <1>0, <2>1, <2>4, <3>1, <3>2 DEF Types, Radio, EspState
    <3>3. CASE pc'[u] = "ending"
      <4>1. hw' = [ hw EXCEPT !.carrier = FALSE, !.tone = 0 ] /\ hw.tim # "armed"
        BY <1>0, <1>4, <2>1, <3>3 DEF EspOff, EspState
      <4> QED BY <1>0, <3>1, <3>3, <4>1 DEF Types, Radio, EspState
    <3> QED BY <2>1, <3>2, <3>3
  <2> QED BY <1>0, <2>1, <2>5, <2>6, <2>7, EspFamily
<1>5. CASE EspGap(u)
  <2>1. NextSymbol(u, "gap") /\ pc[u] = "gap" /\ i[u] \in 1 .. Symbols
    BY <1>0, <1>5 DEF EspGap, NextSymbol, Goto, Heard
  <2>2. /\ i' \in [ Users -> 0 .. Symbols ]
        /\ \/ i[u] = Symbols /\ Moves(u, "gap", "ending")
           \/ Moves(u, "gap", "tuning") /\ i'[u] = i[u] + 1 /\ i'[u] \in 1 .. Symbols
    BY <2>1, Advanced
  <2>3. i'[u] = i[u] + 1 => i'[u] - 1 = i[u]
    BY <2>1
  <2>4. Types' /\ Settings(u)' /\ Heard(u)'
    BY <1>0, <1>5, <2>1, <2>2
    DEF EspGap, Types, Radio, Settings, Heard, Fresh, Amplified, EspState
  <2>5. EspState(u)'
    BY <1>0, <1>5, <2>1, <2>2, <2>3 DEF EspGap, Types, Radio, EspState
  <2> QED BY <1>0, <2>2, <2>4, <2>5, EspFamily
<1>6. CASE EspGive(u)
  <2>1. Moves(u, "ending", "sent")
    BY <1>0, <1>6, Given DEF EspGive
  <2>2. Types' /\ Settings(u)' /\ Heard(u)'
    BY <1>0, <1>6, <2>1 DEF EspGive, Types, Radio, Settings, Heard, Fresh, Amplified
  <2>3. EspState(u)'
    BY <1>0, <1>6, <2>1 DEF EspGive, Types, Radio, EspState
  <2> QED BY <1>0, <2>1, <2>2, <2>3, EspFamily
<1>7. CASE EspDisable(u)
  <2>1. Moves(u, "disabling", "idle") /\ ret' \in [ Users -> {"ok", "error"} ]
    BY <1>7, Home DEF EspDisable
  <2>2. Types' /\ Settings(u)' /\ Heard(u)'
    BY <1>0, <1>7, <2>1 DEF EspDisable, Types, Radio, Settings, Heard, Fresh, Amplified
  <2>3. EspState(u)'
    BY <1>0, <1>7, <2>1 DEF EspDisable, Types, Radio, EspState
  <2> QED BY <1>0, <2>1, <2>2, <2>3, EspFamily
<1> QED BY <1>1, <1>2, <1>3, <1>4, <1>5, <1>6, <1>7 DEF EspStep, EspSend

(* The timer, and the tone of the test mode. *)
LEMMA EspOther ==
  ASSUME Watched, NEW u \in Users, Good(u),
         EspTimer \/ EspCwStart(u) \/ EspCwStop(u)
  PROVE  Good(u)'
<1> USE DEF Good, Moves
<1>0. /\ board = "esp" /\ UNCHANGED << board, cond, saved >> /\ Watched'
      /\ EspState(u) /\ board' \in Boards /\ Symbols \in Nat
  BY SymbolRadioAssumption DEF EspTimer, EspCwStart, EspCwStop, Watched, DriverState, Types
<1>1. CASE EspTimer
  <2>1. Types' /\ Only(u)' /\ Settings(u)' /\ Heard(u)'
    BY <1>0, <1>1 DEF EspTimer, task, Types, Radio, Only, Settings, Heard, Fresh, Amplified
  <2>2. EspState(u)'
    BY <1>0, <1>1 DEF EspTimer, task, Types, Radio, EspState
  <2> QED BY <1>0, <2>1, <2>2, EspFamily
<1>2. CASE EspCwStart(u)
  <2>1. Moves(u, "enabled", "tone")
    BY <1>2, Gone DEF EspCwStart, PCs
  <2>2. Types' /\ Settings(u)' /\ Heard(u)'
    BY <1>0, <1>2, <2>1 DEF EspCwStart, Types, Radio, Settings, Heard, Fresh, Amplified
  <2>3. EspState(u)'
    BY <1>0, <1>2, <2>1 DEF EspCwStart, Types, Radio, EspState
  <2> QED BY <1>0, <2>1, <2>2, <2>3, EspFamily
<1>3. CASE EspCwStop(u)
  <2>1. Moves(u, "tone", "disabling")
    BY <1>3, Gone DEF EspCwStop, PCs
  <2>2. Types' /\ Settings(u)' /\ Heard(u)'
    BY <1>0, <1>3, <2>1 DEF EspCwStop, Types, Radio, Settings, Heard, Fresh, Amplified
  <2>3. EspState(u)'
    BY <1>0, <1>3, <2>1 DEF EspCwStop, Types, Radio, EspState
  <2> QED BY <1>0, <2>1, <2>2, <2>3, EspFamily
<1> QED BY <1>1, <1>2, <1>3

-----------------------------------------------------------------------------
LEMMA RailFamily ==
  ASSUME board \in Rail, board' = board, NEW u \in Users, RailState(u)'
  PROVE  DriverState(u)'
BY DEF DriverState, NordicState, EspState, TiState, MpslState, Nordic, Rail

LEMMA RailGood ==
  ASSUME Watched, NEW u \in Users, Good(u), RailStep(u)
  PROVE  Good(u)'
<1> USE DEF Good, Moves
<1>0. /\ board \in Rail /\ UNCHANGED << board, cond >> /\ Watched'
      /\ RailState(u) /\ board' \in Boards /\ Symbols \in Nat /\ board \notin {"mpsl", "nrf52"}
  BY SymbolRadioAssumption
  DEF RailStep, RailEnable, RailSend, RailTake, RailArm, RailOn, RailOff, RailGap, RailGive,
      RailDisable, Watched, DriverState, Types, Rail
<1>1. CASE RailEnable(u)
  <2>1. \/ Moves(u, "enabling", "enabled") /\ UNCHANGED ret
           /\ hw' = [ hw EXCEPT !.mode = "sat" ]
        \/ Moves(u, "enabling", "idle") /\ ret' \in [ Users -> {"ok", "error"} ] /\ UNCHANGED hw
    BY <1>1, Gone, Home DEF RailEnable, PCs
  <2>2. Types'
    BY <1>0, <1>1, <2>1 DEF RailEnable, Types, Radio
  <2>3. Settings(u)' /\ Heard(u)'
    BY <1>0, <1>1, <2>1 DEF RailEnable, Types, Radio, Settings, Heard, Fresh, Amplified
  <2>4. RailState(u)'
    BY <1>0, <1>1, <2>1 DEF RailEnable, Types, Radio, RailState
  <2> QED BY <1>0, <2>1, <2>2, <2>3, <2>4, RailFamily
<1>2. CASE RailTake(u)
  <2>1. /\ Moves(u, "waiting", "tuning") /\ sym' = 0
        /\ i' \in [ Users -> 0 .. Symbols ] /\ i'[u] \in 1 .. Symbols /\ i'[u] = 1
        /\ Played(air', board, i'[u] - 1)
    BY <1>2, Taken DEF RailTake, Take
  <2>2. Types' /\ Settings(u)' /\ Heard(u)'
    BY <1>0, <1>2, <2>1 DEF RailTake, Types, Radio, Settings, Heard, Fresh, Amplified
  <2>3. RailState(u)'
    BY <1>0, <1>2, <2>1 DEF RailTake, Types, Radio, RailState
  <2> QED BY <1>0, <2>1, <2>2, <2>3, RailFamily
<1>3. CASE RailArm(u)
  <2>1. CASE /\ Goto(u, "tuning", "streaming") /\ UNCHANGED << i, ret >>
             /\ hw' = [ hw EXCEPT !.tim = "armed" ]
    <3>1. Moves(u, "tuning", "streaming")
      BY <2>1, Gone DEF PCs
    <3>2. Types'
      BY <1>0, <1>3, <2>1, <3>1 DEF RailArm, Types, Radio
    <3>3. Settings(u)' /\ Heard(u)'
      BY <1>0, <1>3, <2>1, <3>1 DEF RailArm, Types, Radio, Settings, Heard, Fresh, Amplified
    <3>4. RailState(u)'
      BY <1>0, <1>3, <2>1, <3>1 DEF RailArm, Types, Radio, RailState
    <3> QED BY <1>0, <3>1, <3>2, <3>3, <3>4, RailFamily
  <2>2. CASE Break(u, "tuning") /\ UNCHANGED hw
    <3>1. /\ Moves(u, "tuning", "ending") /\ ret' \in [ Users -> {"ok", "error"} ]
          /\ ret'[u] = "error" /\ i' \in [ Users -> 0 .. Symbols ]
      BY <2>2, Broken
    <3>2. Types' /\ Settings(u)' /\ Heard(u)'
      BY <1>0, <1>3, <2>2, <3>1 DEF RailArm, Types, Settings, Heard, Fresh, Amplified
    <3>3. RailState(u)'
      BY <1>0, <1>3, <2>2, <3>1 DEF RailArm, Types, RailState
    <3> QED BY <1>0, <3>1, <3>2, <3>3, RailFamily
  <2> QED BY <1>3, <2>1, <2>2 DEF RailArm
<1>4. CASE RailOn(u)
  <2>1. CASE /\ Goto(u, "streaming", "symbol") /\ UNCHANGED << i, ret >>
             /\ hw' = [ hw EXCEPT !.carrier = TRUE, !.tone = Tuned(i[u]) ]
    <3>1. Moves(u, "streaming", "symbol")
      BY <2>1, Gone DEF PCs
    <3>2. Tuned(i[u]) = i[u] /\ i[u] \in 1 .. Symbols /\ i[u] \in Nat
      BY <1>0, <3>1 DEF Tuned, RailState, Heard
    <3>3. Types'
      BY <1>0, <1>4, <2>1, <3>1, <3>2 DEF RailOn, Types, Radio
    <3>4. Settings(u)' /\ Heard(u)'
      BY <1>0, <1>4, <2>1, <3>1, <3>2 DEF RailOn, Types, Radio, Settings, Heard, Fresh, Amplified
    <3>5. RailState(u)'
      BY <1>0, <1>4, <2>1, <3>1, <3>2 DEF RailOn, Types, Radio, RailState
    <3> QED BY <1>0, <3>1, <3>3, <3>4, <3>5, RailFamily
  <2>2. CASE Break(u, "streaming") /\ UNCHANGED hw
    <3>1. /\ Moves(u, "streaming", "ending") /\ ret' \in [ Users -> {"ok", "error"} ]
          /\ ret'[u] = "error" /\ i' \in [ Users -> 0 .. Symbols ]
      BY <2>2, Broken
    <3>2. Types' /\ Settings(u)' /\ Heard(u)'
      BY <1>0, <1>4, <2>2, <3>1 DEF RailOn, Types, Settings, Heard, Fresh, Amplified
    <3>3. RailState(u)'
      BY <1>0, <1>4, <2>2, <3>1 DEF RailOn, Types, RailState
    <3> QED BY <1>0, <3>1, <3>2, <3>3, RailFamily
  <2> QED BY <1>4, <2>1, <2>2 DEF RailOn
<1>5. CASE RailOff(u)
  <2>1. CASE /\ Goto(u, "symbol", "gap") /\ UNCHANGED << i, ret >>
             /\ hw' = [ hw EXCEPT !.carrier = FALSE, !.tone = 0, !.tim = "armed" ]
    <3>1. Moves(u, "symbol", "gap")
      BY <2>1, Gone DEF PCs
    <3>2. /\ i[u] \in 1 .. Symbols /\ i[u] - 1 \in 0 .. Symbols - 1 /\ i[u] = (i[u] - 1) + 1
          /\ Played(air, board, i[u] - 1) /\ hw.tone = i[u]
      BY <1>0, <3>1 DEF Heard, RailState
    <3>3. Played(air', board, i[u])
      <4>1. CASE hw.tim = "armed"
        <5>1. i[u] = 1 /\ i[u] - 1 = 0 /\ Emit(0)
          BY <1>0, <1>5, <3>1, <3>2, <4>1 DEF RailOff, RailState
        <5> QED BY <1>0, <3>2, <5>1, FirstCut
      <4>2. CASE hw.tim # "armed"
        <5>1. Emit((i[u] - 1) + 1)
          BY <1>5, <3>2, <4>2 DEF RailOff
        <5> QED BY <3>2, <5>1, OneMore
      <4> QED BY <4>1, <4>2
    <3>4. Types'
      BY <1>0, <1>5, <2>1, <3>1 DEF RailOff, Types, Radio
    <3>5. Settings(u)' /\ Heard(u)'
      BY <1>0, <1>5, <2>1, <3>1, <3>2 DEF RailOff, Types, Radio, Settings, Heard, Fresh, Amplified
    <3>6. RailState(u)'
      BY <1>0, <1>5, <2>1, <3>1, <3>3 DEF RailOff, Types, Radio, RailState
    <3> QED BY <1>0, <3>1, <3>4, <3>5, <3>6, RailFamily
  <2>2. CASE Break(u, "symbol") /\ hw' \in { hw, [ hw EXCEPT !.carrier = FALSE, !.tone = 0 ] }
    <3>1. /\ Moves(u, "symbol", "ending") /\ ret' \in [ Users -> {"ok", "error"} ]
          /\ ret'[u] = "error" /\ i' \in [ Users -> 0 .. Symbols ]
      BY <2>2, Broken
    <3>2. /\ hw' \in Radio /\ hw'.mode = hw.mode /\ hw'.pa = hw.pa /\ hw'.clock = hw.clock
          /\ hw'.tim = hw.tim
      <4>1. hw' \in Radio
        BY <2>2, Toned DEF Types
      <4>2. CASE hw' = [ hw EXCEPT !.carrier = FALSE, !.tone = 0 ]
        BY <4>1, <4>2 DEF Types, Radio
      <4> QED BY <2>2, <4>1, <4>2
    <3>3. Types' /\ Settings(u)' /\ Heard(u)'
      BY <1>0, <1>5, <3>1, <3>2 DEF RailOff, Types, Settings, Heard, Fresh, Amplified
    <3>4. RailState(u)'
      BY <1>0, <1>5, <3>1, <3>2 DEF RailOff, Types, RailState
    <3> QED BY <1>0, <3>1, <3>3, <3>4, RailFamily
  <2> QED BY <1>5, <2>1, <2>2 DEF RailOff
<1>6. CASE RailGap(u)
  <2>1. NextSymbol(u, "gap") /\ pc[u] = "gap" /\ i[u] \in 1 .. Symbols
    BY <1>0, <1>6 DEF RailGap, NextSymbol, Goto, Heard
  <2>2. /\ i' \in [ Users -> 0 .. Symbols ]
        /\ \/ i[u] = Symbols /\ Moves(u, "gap", "ending")
           \/ Moves(u, "gap", "tuning") /\ i'[u] = i[u] + 1 /\ i'[u] \in 1 .. Symbols
    BY <2>1, Advanced
  <2>3. i'[u] = i[u] + 1 => i'[u] - 1 = i[u]
    BY <2>1
  <2>4. Types' /\ Settings(u)' /\ Heard(u)'
    BY <1>0, <1>6, <2>1, <2>2
    DEF RailGap, Types, Radio, Settings, Heard, Fresh, Amplified, RailState
  <2>5. RailState(u)'
    BY <1>0, <1>6, <2>1, <2>2, <2>3 DEF RailGap, Types, Radio, RailState
  <2> QED BY <1>0, <2>2, <2>4, <2>5, RailFamily
<1>7. CASE RailGive(u)
  <2>1. Moves(u, "ending", "sent")
    BY <1>0, <1>7, Given DEF RailGive
  <2>2. Types' /\ Settings(u)' /\ Heard(u)'
    BY <1>0, <1>7, <2>1 DEF RailGive, Types, Radio, Settings, Heard, Fresh, Amplified
  <2>3. RailState(u)'
    BY <1>0, <1>7, <2>1 DEF RailGive, Types, Radio, RailState
  <2> QED BY <1>0, <2>1, <2>2, <2>3, RailFamily
<1>8. CASE RailDisable(u)
  <2>1. Moves(u, "disabling", "idle") /\ ret' \in [ Users -> {"ok", "error"} ]
    BY <1>8, Home DEF RailDisable
  <2>2. Types'
    BY <1>0, <1>8, <2>1 DEF RailDisable, Types, Radio
  <2>3. Settings(u)' /\ Heard(u)'
    BY <1>0, <1>8, <2>1 DEF RailDisable, Types, Radio, Settings, Heard, Fresh, Amplified
  <2>4. RailState(u)'
    BY <1>0, <1>8, <2>1 DEF RailDisable, Types, Radio, RailState
  <2> QED BY <1>0, <2>1, <2>2, <2>3, <2>4, RailFamily
<1> QED
  BY <1>1, <1>2, <1>3, <1>4, <1>5, <1>6, <1>7, <1>8 DEF RailStep, RailSend

(* The timer, the test mode's tone, and its power, which a tidy one does not *)
(* set.                                                                      *)
LEMMA RailOther ==
  ASSUME Watched, NEW u \in Users, Good(u),
         RailTimer \/ RailCwStart(u) \/ RailCwStop(u) \/ RailPowerSet
  PROVE  Good(u)'
<1> USE DEF Good, Moves
<1>0. /\ board \in Rail /\ UNCHANGED << board, cond, saved >> /\ Watched'
      /\ RailState(u) /\ board' \in Boards /\ Symbols \in Nat /\ board \notin {"mpsl", "nrf52"}
  BY SymbolRadioAssumption
  DEF RailTimer, RailCwStart, RailCwStop, RailPowerSet, Watched, DriverState, Types, Rail
<1>1. CASE RailTimer
  <2>1. Types' /\ Only(u)' /\ Settings(u)' /\ Heard(u)'
    BY <1>0, <1>1 DEF RailTimer, task, Types, Radio, Only, Settings, Heard, Fresh, Amplified
  <2>2. RailState(u)'
    BY <1>0, <1>1 DEF RailTimer, task, Types, Radio, RailState
  <2> QED BY <1>0, <2>1, <2>2, RailFamily
<1>2. CASE RailCwStart(u)
  <2>1. \/ Moves(u, "enabled", "tone") /\ hw' = [ hw EXCEPT !.carrier = TRUE, !.tone = 0 ]
           /\ UNCHANGED ret
        \/ Moves(u, "enabled", "disabling") /\ UNCHANGED hw
           /\ ret' \in [ Users -> {"ok", "error"} ]
    BY <1>2, Gone, Failed DEF RailCwStart, PCs
  <2>2. Types'
    BY <1>0, <1>2, <2>1, Toned DEF RailCwStart, Types
  <2>3. Settings(u)' /\ Heard(u)'
    BY <1>0, <1>2, <2>1 DEF RailCwStart, Types, Radio, Settings, Heard, Fresh, Amplified
  <2>4. RailState(u)'
    BY <1>0, <1>2, <2>1 DEF RailCwStart, Types, Radio, RailState
  <2> QED BY <1>0, <2>1, <2>2, <2>3, <2>4, RailFamily
<1>3. CASE RailCwStop(u)
  <2>1. /\ Moves(u, "tone", "disabling") /\ ret' \in [ Users -> {"ok", "error"} ]
        /\ hw' = [ hw EXCEPT !.carrier = FALSE, !.tone = 0 ] \/ UNCHANGED hw
    BY <1>3, Gone, Failed DEF RailCwStop, PCs, Types
  <2>2. Types'
    BY <1>0, <1>3, <2>1, Toned DEF RailCwStop, Types
  <2>3. Settings(u)' /\ Heard(u)'
    BY <1>0, <1>3, <2>1 DEF RailCwStop, Types, Radio, Settings, Heard, Fresh, Amplified
  <2>4. RailState(u)'
    BY <1>0, <1>3, <2>1 DEF RailCwStop, Types, Radio, RailState
  <2> QED BY <1>0, <2>1, <2>2, <2>3, <2>4, RailFamily
<1>4. CASE RailPowerSet
  <2>1. Types' /\ Only(u)' /\ Settings(u)' /\ Heard(u)'
    BY <1>0, <1>4 DEF RailPowerSet, task, Types, Radio, Only, Settings, Heard
  <2>2. RailState(u)'
    BY <1>0, <1>4 DEF RailPowerSet, task, Types, Radio, RailState
  <2> QED BY <1>0, <2>1, <2>2, RailFamily
<1> QED BY <1>1, <1>2, <1>3, <1>4

-----------------------------------------------------------------------------
LEMMA TiFamily ==
  ASSUME board = "ti", board' = board, NEW u \in Users, TiState(u)'
  PROVE  DriverState(u)'
BY DEF DriverState, NordicState, EspState, RailState, MpslState, Nordic, Rail

LEMMA TiGood ==
  ASSUME Watched, NEW u \in Users, Good(u), TiStep(u)
  PROVE  Good(u)'
<1> USE DEF Good, Moves
<1>0. /\ board = "ti" /\ UNCHANGED << board, cond, saved >> /\ Watched'
      /\ TiState(u) /\ board' \in Boards /\ Symbols \in Nat
  BY SymbolRadioAssumption
  DEF TiStep, TiEnable, TiSend, TiTake, TiSubmit, TiDone, TiGive, TiDisable, Watched,
      DriverState, Types
<1>1. CASE TiEnable(u)
  <2>1. Moves(u, "enabling", "enabled")
    BY <1>1, Gone DEF TiEnable, PCs
  <2>2. Types' /\ Settings(u)' /\ Heard(u)'
    BY <1>0, <1>1, <2>1 DEF TiEnable, Types, Radio, Settings, Heard, Fresh, Amplified
  <2>3. TiState(u)'
    BY <1>0, <1>1, <2>1 DEF TiEnable, Types, Radio, TiState
  <2> QED BY <1>0, <2>1, <2>2, <2>3, TiFamily
<1>2. CASE TiTake(u)
  <2>1. /\ Moves(u, "waiting", "tuning")
        /\ i' \in [ Users -> 0 .. Symbols ] /\ i'[u] \in 1 .. Symbols
        /\ Played(air', board, i'[u] - 1)
    BY <1>2, Taken DEF TiTake, Take
  <2>2. Types' /\ Settings(u)' /\ Heard(u)'
    BY <1>0, <1>2, <2>1 DEF TiTake, Take, Types, Radio, Settings, Heard, Fresh, Amplified
  <2>3. TiState(u)'
    BY <1>0, <1>2, <2>1 DEF TiTake, Types, Radio, TiState
  <2> QED BY <1>0, <2>1, <2>2, <2>3, TiFamily
<1>3. CASE TiSubmit(u)
  <2>1. CASE /\ Goto(u, "tuning", "symbol") /\ UNCHANGED << i, ret >>
             /\ hw' = [ hw EXCEPT !.carrier = TRUE, !.tim = "armed",
                                  !.tone = IF hw.tim = "armed" THEN 0 ELSE Tuned(i[u]) ]
    <3>1. Moves(u, "tuning", "symbol")
      BY <2>1, Gone DEF PCs
    <3>2. /\ hw' = [ hw EXCEPT !.carrier = TRUE, !.tim = "armed", !.tone = i[u] ]
          /\ i[u] \in 1 .. Symbols /\ i[u] \in Nat
      <4>1. hw.tim # "armed" /\ ~hw.carrier /\ i[u] \in 1 .. Symbols
        BY <1>0, <3>1 DEF TiState, Heard
      <4>2. Tuned(i[u]) = i[u]
        BY <4>1 DEF Tuned
      <4> QED BY <2>1, <4>1, <4>2
    <3>3. Types'
      BY <1>0, <1>3, <2>1, <3>1, <3>2 DEF TiSubmit, Types, Radio
    <3>4. Settings(u)' /\ Heard(u)'
      BY <1>0, <1>3, <2>1, <3>1, <3>2 DEF TiSubmit, Types, Radio, Settings, Heard, Fresh, Amplified
    <3>5. TiState(u)'
      BY <1>0, <1>3, <2>1, <3>1, <3>2 DEF TiSubmit, Types, Radio, TiState
    <3> QED BY <1>0, <3>1, <3>3, <3>4, <3>5, TiFamily
  <2>2. CASE Break(u, "tuning") /\ UNCHANGED hw
    <3>1. /\ Moves(u, "tuning", "ending") /\ ret' \in [ Users -> {"ok", "error"} ]
          /\ ret'[u] = "error" /\ i' \in [ Users -> 0 .. Symbols ]
      BY <2>2, Broken
    <3>2. Types' /\ Settings(u)' /\ Heard(u)'
      BY <1>0, <1>3, <2>2, <3>1 DEF TiSubmit, Types, Settings, Heard, Fresh, Amplified
    <3>3. TiState(u)'
      BY <1>0, <1>3, <2>2, <3>1 DEF TiSubmit, Types, TiState
    <3> QED BY <1>0, <3>1, <3>2, <3>3, TiFamily
  <2> QED BY <1>3, <2>1, <2>2 DEF TiSubmit
<1>4. CASE TiDone(u)
  <2>1. hw' = [ hw EXCEPT !.carrier = FALSE, !.tone = 0, !.tim = "off" ]
    BY <1>4 DEF TiDone
  <2>2. /\ hw' \in Radio /\ hw'.mode = hw.mode /\ hw'.pa = hw.pa /\ hw'.clock = hw.clock
        /\ ~hw'.carrier /\ hw'.tim = "off"
    BY <2>1 DEF Types, Radio
  <2>3. CASE NextSymbol(u, "symbol") /\ Emit(hw.tone) /\ UNCHANGED ret
    <3>1. /\ i[u] \in 1 .. Symbols /\ i[u] - 1 \in 0 .. Symbols - 1 /\ i[u] = (i[u] - 1) + 1
          /\ Played(air, board, i[u] - 1) /\ hw.tone = i[u]
      BY <1>0, <2>3 DEF NextSymbol, Goto, Heard, TiState
    <3>2. Played(air', board, i[u])
      BY <2>3, <3>1, OneMore
    <3>3. /\ i' \in [ Users -> 0 .. Symbols ]
          /\ \/ i[u] = Symbols /\ Moves(u, "symbol", "ending")
             \/ Moves(u, "symbol", "tuning") /\ i'[u] = i[u] + 1 /\ i'[u] \in 1 .. Symbols
      BY <2>3, <3>1, Advanced
    <3>4. i'[u] = i[u] + 1 => i'[u] - 1 = i[u]
      BY <3>1
    <3>5. Types' /\ Settings(u)' /\ Heard(u)'
      BY <1>0, <1>4, <2>2, <2>3, <3>2, <3>3 DEF TiDone, Types, Settings, Heard, Fresh, Amplified
    <3>6. TiState(u)'
      BY <1>0, <2>2, <3>2, <3>3, <3>4 DEF TiState
    <3> QED BY <1>0, <3>3, <3>5, <3>6, TiFamily
  <2>4. CASE Break(u, "symbol")
    <3>1. /\ Moves(u, "symbol", "ending") /\ ret' \in [ Users -> {"ok", "error"} ]
          /\ ret'[u] = "error" /\ i' \in [ Users -> 0 .. Symbols ]
      BY <2>4, Broken
    <3>2. Types' /\ Settings(u)' /\ Heard(u)'
      BY <1>0, <1>4, <2>2, <3>1 DEF TiDone, Types, Settings, Heard, Fresh, Amplified
    <3>3. TiState(u)'
      BY <1>0, <2>2, <3>1 DEF TiState
    <3> QED BY <1>0, <3>1, <3>2, <3>3, TiFamily
  <2> QED BY <1>4, <2>3, <2>4 DEF TiDone
<1>5. CASE TiGive(u)
  <2>1. Moves(u, "ending", "sent")
    BY <1>0, <1>5, Given DEF TiGive
  <2>2. Types' /\ Settings(u)' /\ Heard(u)'
    BY <1>0, <1>5, <2>1 DEF TiGive, Types, Radio, Settings, Heard, Fresh, Amplified
  <2>3. TiState(u)'
    BY <1>0, <1>5, <2>1 DEF TiGive, Types, Radio, TiState
  <2> QED BY <1>0, <2>1, <2>2, <2>3, TiFamily
<1>6. CASE TiDisable(u)
  <2>1. Moves(u, "disabling", "idle") /\ ret' \in [ Users -> {"ok", "error"} ]
    BY <1>6, Home DEF TiDisable
  <2>2. Types' /\ Settings(u)' /\ Heard(u)'
    BY <1>0, <1>6, <2>1 DEF TiDisable, Types, Radio, Settings, Heard, Fresh, Amplified
  <2>3. TiState(u)'
    BY <1>0, <1>6, <2>1 DEF TiDisable, Types, Radio, TiState
  <2> QED BY <1>0, <2>1, <2>2, <2>3, TiFamily
<1> QED BY <1>1, <1>2, <1>3, <1>4, <1>5, <1>6 DEF TiStep, TiSend

(* The tone of the test mode, which blocks its caller. *)
LEMMA TiOther ==
  ASSUME Watched, NEW u \in Users, Good(u),
         TiCwStart(u) \/ TiCwDone(u) \/ TiCwStop(u)
  PROVE  Good(u)'
<1> USE DEF Good, Moves
<1>0. /\ board = "ti" /\ UNCHANGED << board, cond, saved >> /\ Watched'
      /\ TiState(u) /\ board' \in Boards /\ Symbols \in Nat
  BY SymbolRadioAssumption DEF TiCwStart, TiCwDone, TiCwStop, Watched, DriverState, Types
<1>1. CASE TiCwStart(u)
  <2>1. Moves(u, "enabled", "toning")
    BY <1>1, Gone DEF TiCwStart, PCs
  <2>2. Types' /\ Settings(u)' /\ Heard(u)'
    BY <1>0, <1>1, <2>1 DEF TiCwStart, Types, Radio, Settings, Heard, Fresh, Amplified
  <2>3. TiState(u)'
    BY <1>0, <1>1, <2>1 DEF TiCwStart, Types, Radio, TiState
  <2> QED BY <1>0, <2>1, <2>2, <2>3, TiFamily
<1>2. CASE TiCwDone(u)
  <2>1. /\ Moves(u, "toning", "tone") \/ Moves(u, "toning", "disabling")
        /\ ret' \in [ Users -> {"ok", "error"} ]
    BY <1>2, Gone, Failed DEF TiCwDone, PCs, Types
  <2>2. hw' = [ hw EXCEPT !.carrier = FALSE, !.tone = 0, !.tim = "off" ]
    BY <1>2 DEF TiCwDone
  <2>3. /\ hw' \in Radio /\ hw'.mode = hw.mode /\ hw'.pa = hw.pa /\ hw'.clock = hw.clock
        /\ ~hw'.carrier /\ hw'.tim = "off"
    BY <2>2 DEF Types, Radio
  <2>4. Types' /\ Settings(u)' /\ Heard(u)'
    BY <1>0, <1>2, <2>1, <2>3 DEF TiCwDone, Types, Settings, Heard, Fresh, Amplified
  <2>5. TiState(u)'
    BY <1>0, <2>1, <2>3 DEF TiState
  <2> QED BY <1>0, <2>1, <2>4, <2>5, TiFamily
<1>3. CASE TiCwStop(u)
  <2>1. Moves(u, "tone", "disabling") /\ ret' \in [ Users -> {"ok", "error"} ]
    BY <1>3, Gone, Failed DEF TiCwStop, PCs
  <2>2. Types' /\ Settings(u)' /\ Heard(u)'
    BY <1>0, <1>3, <2>1 DEF TiCwStop, Types, Settings, Heard, Fresh, Amplified
  <2>3. TiState(u)'
    BY <1>0, <1>3, <2>1 DEF TiCwStop, Types, TiState
  <2> QED BY <1>0, <2>1, <2>2, <2>3, TiFamily
<1> QED BY <1>1, <1>2, <1>3

-----------------------------------------------------------------------------
LEMMA NordicFamily ==
  ASSUME board \in Nordic, board' = board, NEW u \in Users, NordicState(u)'
  PROVE  DriverState(u)'
BY DEF DriverState, EspState, RailState, TiState, MpslState, Nordic, Rail

(* Enable and disable: the clock, the settings and the routes. *)
LEMMA NordicEnableGood ==
  ASSUME Watched, NEW u \in Users, Good(u),
         RequestClock52(u) \/ Enable52(u) \/ Enable53(u) \/ Enable54(u)
  PROVE  Good(u)'
<1> USE DEF Good, Moves
<1>0. /\ board \in Nordic /\ UNCHANGED << board, cond >> /\ Watched'
      /\ NordicState(u) /\ board' \in Boards /\ Symbols \in Nat /\ u # "kept"
  BY SymbolRadioAssumption
  DEF RequestClock52, Enable52, Enable53, Enable54, Watched, DriverState, Types, Nordic, Users
<1>1. CASE RequestClock52(u)
  <2>1. CASE Goto(u, "enabling", "configuring") /\ UNCHANGED ret
             /\ hw' = [ hw EXCEPT !.clock = @ \cup {u} ]
    <3>1. Moves(u, "enabling", "configuring")
      BY <2>1, Gone DEF PCs
    <3>2. Types'
      BY <1>0, <1>1, <2>1, <3>1 DEF RequestClock52, Types, Radio
    <3>3. Settings(u)' /\ Heard(u)'
      BY <1>0, <1>1, <2>1, <3>1
      DEF RequestClock52, Types, Radio, Settings, Heard, Fresh, Amplified
    <3>4. NordicState(u)'
      BY <1>0, <1>1, <2>1, <3>1 DEF RequestClock52, Types, Radio, NordicState, Routed, Fresh
    <3> QED BY <1>0, <3>1, <3>2, <3>3, <3>4, NordicFamily
  <2>2. CASE Back(u, "enabling") /\ UNCHANGED hw
    <3>1. Moves(u, "enabling", "idle") /\ ret' \in [ Users -> {"ok", "error"} ]
      BY <2>2, Home
    <3>2. Types' /\ Settings(u)' /\ Heard(u)'
      BY <1>0, <1>1, <2>2, <3>1 DEF RequestClock52, Types, Settings, Heard, Fresh, Amplified
    <3>3. NordicState(u)'
      BY <1>0, <1>1, <2>2, <3>1 DEF RequestClock52, NordicState, Routed, Fresh
    <3> QED BY <1>0, <3>1, <3>2, <3>3, NordicFamily
  <2> QED BY <1>1, <2>1, <2>2 DEF RequestClock52
<1>2. CASE Enable52(u)
  <2>1. Moves(u, "configuring", "enabled")
    BY <1>2, Gone DEF Enable52, PCs
  <2>2. Types'
    BY <1>0, <1>2, <2>1 DEF Enable52, Types, Radio
  <2>3. Settings(u)' /\ Heard(u)'
    BY <1>0, <1>2, <2>1 DEF Enable52, Types, Radio, Settings, Heard, Fresh, Amplified
  <2>4. NordicState(u)'
    BY <1>0, <1>2, <2>1 DEF Enable52, Types, Radio, NordicState, Routed, Fresh
  <2> QED BY <1>0, <2>1, <2>2, <2>3, <2>4, NordicFamily
<1>3. CASE Enable53(u) \/ Enable54(u)
  <2>1. CASE Back(u, "enabling") /\ UNCHANGED << hw, saved >>
    <3>1. Moves(u, "enabling", "idle") /\ ret' \in [ Users -> {"ok", "error"} ]
      BY <2>1, Home
    <3>2. Types' /\ Settings(u)' /\ Heard(u)'
      BY <1>0, <1>3, <2>1, <3>1
      DEF Enable53, Enable54, Types, Settings, Heard, Fresh, Amplified
    <3>3. NordicState(u)'
      BY <1>0, <1>3, <2>1, <3>1 DEF Enable53, Enable54, NordicState, Routed, Fresh
    <3> QED BY <1>0, <3>1, <3>2, <3>3, NordicFamily
  <2>2. CASE /\ Goto(u, "enabling", "enabled") /\ saved' = hw.mode /\ UNCHANGED ret
             /\ hw' = [ DppiSetup(hw) EXCEPT !.irq = TRUE, !.mode = "sat",
                                             !.clock = @ \cup {"kept"} ]
    <3>1. Moves(u, "enabling", "enabled")
      BY <2>2, Gone DEF PCs
    <3>2. /\ hw' \in Radio /\ hw'.wire /\ hw'.pa = hw.pa /\ hw'.clock = hw.clock \cup {"kept"}
          /\ hw'.carrier = hw.carrier /\ hw'.ev = hw.ev /\ hw'.tim = hw.tim
      BY <2>2 DEF Types, Radio, DppiSetup
    <3>3. Types'
      BY <1>0, <1>3, <2>2, <3>1, <3>2 DEF Enable53, Enable54, Types, Radio
    <3>4. Settings(u)' /\ Heard(u)'
      BY <1>0, <1>3, <2>2, <3>1, <3>2
      DEF Enable53, Enable54, Types, Settings, Heard, Fresh, Amplified
    <3>5. NordicState(u)'
      BY <1>0, <3>1, <3>2 DEF NordicState, Routed, Fresh
    <3> QED BY <1>0, <3>1, <3>3, <3>4, <3>5, NordicFamily
  <2>3. CASE /\ Goto(u, "enabling", "enabled") /\ saved' = hw.mode /\ UNCHANGED ret
             /\ hw' = [ DppiSetup(RadioReset(hw)) EXCEPT !.irq = TRUE, !.mode = "sat",
                                                         !.clock = @ \cup {"kept"} ]
    <3>1. Moves(u, "enabling", "enabled")
      BY <2>3, Gone DEF PCs
    <3>2. /\ hw' \in Radio /\ hw'.wire /\ hw'.pa = hw.pa /\ hw'.clock = hw.clock \cup {"kept"}
          /\ ~hw'.carrier /\ (hw'.ev => hw.ev) /\ hw'.tim = "off"
      BY <2>3 DEF Types, Radio, DppiSetup, RadioReset
    <3>3. Types'
      BY <1>0, <1>3, <2>3, <3>1, <3>2 DEF Enable53, Enable54, Types, Radio
    <3>4. Settings(u)' /\ Heard(u)'
      BY <1>0, <1>3, <2>3, <3>1, <3>2
      DEF Enable53, Enable54, Types, Settings, Heard, Fresh, Amplified
    <3>5. NordicState(u)'
      BY <1>0, <3>1, <3>2 DEF NordicState, Routed, Fresh
    <3> QED BY <1>0, <3>1, <3>3, <3>4, <3>5, NordicFamily
  <2> QED BY <1>3, <2>1, <2>2, <2>3 DEF Enable53, Enable54
<1> QED BY <1>1, <1>2, <1>3

LEMMA NordicDisableGood ==
  ASSUME Watched, NEW u \in Users, Good(u),
         Disable52(u) \/ Disable53(u) \/ Disable54(u)
  PROVE  Good(u)'
<1> USE DEF Good, Moves
<1>0. /\ board \in Nordic /\ UNCHANGED << board, cond, saved >> /\ Watched'
      /\ NordicState(u) /\ board' \in Boards /\ Symbols \in Nat /\ u # "kept"
  BY SymbolRadioAssumption
  DEF Disable52, Disable53, Disable54, Watched, DriverState, Types, Nordic, Users
<1>1. Moves(u, "disabling", "idle") /\ ret' \in [ Users -> {"ok", "error"} ]
  BY Home DEF Disable52, Disable53, Disable54
<1>2. CASE Disable52(u)
  <2>1. PICK clock \in { hw.clock \ {u}, (hw.clock \ {u}) \cup {"kept"} } :
          hw' = [ hw EXCEPT !.irq = FALSE, !.mode = saved, !.clock = clock ]
    BY <1>2 DEF Disable52
  <2>2. /\ clock \in SUBSET (Users \cup {"kept"}) /\ u \notin clock
        /\ clock \subseteq hw.clock \cup {"kept"}
    BY <1>0 DEF Types, Radio
  <2>3. /\ hw' \in Radio /\ hw'.mode = saved /\ hw'.clock = clock /\ hw'.pa = hw.pa
        /\ hw'.carrier = hw.carrier /\ hw'.ev = hw.ev /\ hw'.tim = hw.tim /\ hw'.wire = hw.wire
    BY <2>1, <2>2 DEF Types, Radio
  <2>4. Types' /\ Settings(u)' /\ Heard(u)'
    BY <1>0, <1>1, <1>2, <2>2, <2>3 DEF Disable52, Types, Settings, Heard, Fresh, Amplified
  <2>5. NordicState(u)'
    BY <1>0, <1>1, <1>2, <2>3 DEF Disable52, NordicState, Routed, Fresh
  <2> QED BY <1>0, <1>1, <2>4, <2>5, NordicFamily
<1>3. CASE Disable53(u) \/ Disable54(u)
  <2>1. hw' = [ DppiClear(hw) EXCEPT !.irq = FALSE, !.mode = saved ]
    BY <1>3 DEF Disable53, Disable54
  <2>2. /\ hw' \in Radio /\ hw'.mode = saved /\ hw'.clock = hw.clock /\ hw'.pa = hw.pa
        /\ hw'.carrier = hw.carrier /\ hw'.ev = hw.ev /\ hw'.tim = hw.tim
    BY <2>1 DEF Types, Radio, DppiClear
  <2>3. Types' /\ Settings(u)' /\ Heard(u)'
    BY <1>0, <1>1, <1>3, <2>2
    DEF Disable53, Disable54, Types, Settings, Heard, Fresh, Amplified
  <2>4. NordicState(u)'
    BY <1>0, <1>1, <1>3, <2>2 DEF Disable53, Disable54, NordicState, Routed, Fresh
  <2> QED BY <1>0, <1>1, <2>3, <2>4, NordicFamily
<1> QED BY <1>2, <1>3

(* A packet: the loop of the task. *)
LEMMA NordicSendGood ==
  ASSUME Watched, NEW u \in Users, Good(u), board \in Nordic,
         SymbolLoop(u) \/ (board = "nrf52" /\ FemSleep(u))
  PROVE  Good(u)'
<1> USE DEF Good, Moves
<1>0. /\ UNCHANGED << board, cond, saved >> /\ Watched'
      /\ NordicState(u) /\ board' \in Boards /\ Symbols \in Nat /\ board # "mpsl"
  BY SymbolRadioAssumption
  DEF SymbolLoop, Start, Tune, Woken, End, FemSleep, Watched, DriverState, Types, Nordic
<1>1. CASE Start(u)
  <2>1. /\ Moves(u, "waiting", "tuning") /\ sym' = 0
        /\ i' \in [ Users -> 0 .. Symbols ] /\ i'[u] \in 1 .. Symbols
        /\ Played(air', board, i'[u] - 1)
    BY <1>1, Taken DEF Start, Take
  <2>2. hw' = [ hw EXCEPT !.chan = TRUE, !.tim = "gap" ]
    BY <1>1 DEF Start
  <2>3. /\ hw' \in Radio /\ hw'.mode = hw.mode /\ hw'.clock = hw.clock /\ hw'.pa = hw.pa
        /\ hw'.carrier = hw.carrier /\ hw'.ev = hw.ev /\ hw'.tim = "gap"
        /\ hw'.wire = hw.wire /\ hw'.chan
    BY <2>2 DEF Types, Radio
  <2>4. Types' /\ Settings(u)' /\ Heard(u)'
    BY <1>0, <1>1, <2>1, <2>3 DEF Start, Take, Types, Settings, Heard, Fresh, Amplified
  <2>5. NordicState(u)'
    BY <1>0, <2>1, <2>3 DEF NordicState, Routed, Fresh
  <2> QED BY <1>0, <2>1, <2>4, <2>5, NordicFamily
<1>2. CASE Tune(u)
  <2>1. CASE /\ Goto(u, "tuning", "symbol") /\ UNCHANGED << i, ret >>
             /\ hw' = [ hw EXCEPT !.tone = Tuned(i[u]) ]
    <3>1. Moves(u, "tuning", "symbol")
      BY <2>1, Gone DEF PCs
    <3>2. Tuned(i[u]) = i[u] /\ i[u] \in 1 .. Symbols /\ i[u] \in Nat
      BY <1>0, <3>1 DEF Tuned, NordicState, Heard
    <3>3. /\ hw' \in Radio /\ hw'.mode = hw.mode /\ hw'.clock = hw.clock /\ hw'.pa = hw.pa
          /\ hw'.carrier = hw.carrier /\ hw'.ev = hw.ev /\ hw'.tim = hw.tim
          /\ hw'.wire = hw.wire /\ hw'.chan = hw.chan /\ hw'.tone = i[u]
      BY <2>1, <3>2 DEF Types, Radio
    <3>4. Types' /\ Settings(u)' /\ Heard(u)'
      BY <1>0, <1>2, <2>1, <3>1, <3>2, <3>3 DEF Tune, Types, Settings, Heard, Fresh, Amplified
    <3>5. NordicState(u)'
      BY <1>0, <1>2, <2>1, <3>1, <3>3 DEF Tune, NordicState, Routed, Fresh
    <3> QED BY <1>0, <3>1, <3>4, <3>5, NordicFamily
  <2>2. CASE Break(u, "tuning") /\ UNCHANGED hw
    <3>1. /\ Moves(u, "tuning", "ending") /\ ret' \in [ Users -> {"ok", "error"} ]
          /\ ret'[u] = "error" /\ i' \in [ Users -> 0 .. Symbols ]
      BY <2>2, Broken
    <3>2. Types' /\ Settings(u)' /\ Heard(u)'
      BY <1>0, <1>2, <2>2, <3>1 DEF Tune, Types, Settings, Heard, Fresh, Amplified
    <3>3. NordicState(u)'
      BY <1>0, <1>2, <2>2, <3>1 DEF Tune, NordicState, Routed, Fresh
    <3> QED BY <1>0, <3>1, <3>2, <3>3, NordicFamily
  <2> QED BY <1>2, <2>1, <2>2 DEF Tune
<1>3. CASE Woken(u)
  <2>1. /\ NextSymbol(u, "symbol") /\ pc[u] = "symbol" /\ i[u] \in 1 .. Symbols
        /\ sym = 1 /\ sym' = 0 /\ UNCHANGED << hw, air, ret >>
    BY <1>0, <1>3 DEF Woken, NextSymbol, Goto, Heard
  <2>2. /\ i' \in [ Users -> 0 .. Symbols ]
        /\ \/ i[u] = Symbols /\ Moves(u, "symbol", "ending")
           \/ Moves(u, "symbol", "tuning") /\ i'[u] = i[u] + 1 /\ i'[u] \in 1 .. Symbols
    BY <2>1, Advanced
  <2>3. i'[u] = i[u] + 1 => i'[u] - 1 = i[u]
    BY <2>1
  <2>4. Played(air', board', i[u])
    BY <1>0, <2>1 DEF NordicState
  <2>5. Types' /\ Settings(u)' /\ Heard(u)'
    BY <1>0, <2>1, <2>2, <2>4 DEF Types, Settings, Heard, Fresh, Amplified
  <2>6. NordicState(u)'
    BY <1>0, <2>1, <2>2, <2>3, <2>4 DEF NordicState, Routed, Fresh
  <2> QED BY <1>0, <2>2, <2>5, <2>6, NordicFamily
<1>4. CASE End(u)
  <2>1. Moves(u, "ending", IF board = "nrf52" THEN "sleeping" ELSE "sent")
    BY <1>4, Given DEF End
  <2>2. hw' = [ hw EXCEPT !.chan = FALSE, !.tim = "off" ]
    BY <1>4 DEF End
  <2>3. /\ hw' \in Radio /\ hw'.mode = hw.mode /\ hw'.clock = hw.clock /\ hw'.pa = hw.pa
        /\ hw'.carrier = hw.carrier /\ hw'.ev = hw.ev /\ hw'.tim = "off"
        /\ hw'.wire = hw.wire
    BY <2>2 DEF Types, Radio
  <2>4. Types' /\ Settings(u)' /\ Heard(u)'
    BY <1>0, <1>4, <2>1, <2>3 DEF End, Types, Settings, Heard, Fresh, Amplified
  <2>5. NordicState(u)'
    BY <1>0, <2>1, <2>3 DEF NordicState, Routed, Fresh
  <2> QED BY <1>0, <2>1, <2>4, <2>5, NordicFamily
<1>5. CASE board = "nrf52" /\ FemSleep(u)
  <2>1. Moves(u, "sleeping", "sent")
    BY <1>5, Gone DEF FemSleep, PCs
  <2>2. hw' = [ hw EXCEPT !.pa = "sleep" ]
    BY <1>5 DEF FemSleep
  <2>3. /\ hw' \in Radio /\ hw'.mode = hw.mode /\ hw'.clock = hw.clock /\ hw'.pa = "sleep"
        /\ hw'.carrier = hw.carrier /\ hw'.ev = hw.ev /\ hw'.tim = hw.tim
        /\ hw'.wire = hw.wire
    BY <2>2 DEF Types, Radio
  <2>4. Types' /\ Settings(u)' /\ Heard(u)'
    BY <1>0, <1>5, <2>1, <2>3 DEF FemSleep, Types, Settings, Heard, Fresh, Amplified
  <2>5. NordicState(u)'
    BY <1>0, <2>1, <2>3 DEF NordicState, Routed, Fresh
  <2> QED BY <1>0, <2>1, <2>4, <2>5, NordicFamily
<1> QED BY <1>1, <1>2, <1>3, <1>4, <1>5 DEF SymbolLoop

LEMMA NordicGood ==
  ASSUME Watched, NEW u \in Users, Good(u), NordicStep(u)
  PROVE  Good(u)'
BY NordicEnableGood, NordicSendGood, NordicDisableGood
DEF NordicStep, Send52, Send53, Send54, Nordic

(* The timer and the interrupt: the symbol goes out while the task waits. *)
LEMMA NordicTimerGood ==
  ASSUME Watched, NEW u \in Users, Good(u), board \in Nordic, TimerOn \/ TimerOff \/ RadioIsr
  PROVE  Good(u)'
<1> USE DEF Good
<1>0. /\ UNCHANGED << board, cond, saved, lock, task >> /\ Watched' /\ cond.prompt
      /\ NordicState(u) /\ board' \in Boards /\ Symbols \in Nat /\ board # "mpsl"
  BY SymbolRadioAssumption
  DEF TimerOn, TimerOff, RadioIsr, Watched, DriverState, Types, Nordic
<1>1. Only(u)' /\ pc' = pc /\ i' = i /\ ret' = ret
  BY <1>0 DEF Only, task
<1>2. CASE TimerOn
  <2>1. pc[u] = "symbol" /\ sym = 0 /\ ~hw.ev
    BY <1>0, <1>2 DEF TimerOn, OnTime, Only
  <2>2. (Routed /\ ~hw.carrier) \/ hw.tim = "on"
    BY <1>0, <2>1 DEF NordicState, Routed, Fresh
  <2>3. hw.tim = "gap" /\ hw' = [ hw EXCEPT !.tim = "on", !.carrier = @ \/ Routed ]
    BY <1>2 DEF TimerOn
  <2>4. hw' = [ hw EXCEPT !.tim = "on", !.carrier = TRUE ]
    BY <2>2, <2>3
  <2>5. /\ hw' \in Radio /\ hw'.mode = hw.mode /\ hw'.clock = hw.clock /\ hw'.pa = hw.pa
        /\ hw'.carrier /\ hw'.ev = hw.ev /\ hw'.tim = "on"
        /\ hw'.wire = hw.wire /\ hw'.chan = hw.chan /\ hw'.tone = hw.tone
    BY <2>4 DEF Types, Radio
  <2>6. Types' /\ Settings(u)' /\ Heard(u)'
    BY <1>0, <1>1, <1>2, <2>5 DEF TimerOn, Types, Settings, Heard, Fresh, Amplified
  <2>7. NordicState(u)'
    BY <1>0, <1>1, <1>2, <2>1, <2>2, <2>3, <2>5 DEF TimerOn, NordicState, Routed, Fresh
  <2> QED BY <1>0, <1>1, <2>6, <2>7, NordicFamily
<1>3. CASE TimerOff
  <2>1. pc[u] = "symbol" /\ sym = 0 /\ ~hw.ev /\ hw.carrier /\ Routed /\ hw.tone = i[u]
    BY <1>0, <1>3 DEF TimerOff, NordicState, Routed, Fresh
  <2>2. /\ hw' = [ hw EXCEPT !.tim = "gap", !.carrier = FALSE, !.ev = TRUE ]
        /\ Emit(IF board = "nrf52" /\ hw.pa # "on" THEN 0 ELSE hw.tone)
    BY <1>3, <2>1 DEF TimerOff
  <2>3. /\ i[u] \in 1 .. Symbols /\ i[u] - 1 \in 0 .. Symbols - 1 /\ i[u] = (i[u] - 1) + 1
        /\ Played(air, board, i[u] - 1)
    BY <1>0, <2>1 DEF Heard, NordicState
  <2>4. Emit((i[u] - 1) + 1)
    BY <2>1, <2>2, <2>3 DEF Settings
  <2>5. Played(air', board', i'[u])
    BY <1>0, <1>1, <2>3, <2>4, OneMore
  <2>6. /\ hw' \in Radio /\ hw'.mode = hw.mode /\ hw'.clock = hw.clock /\ hw'.pa = hw.pa
        /\ ~hw'.carrier /\ hw'.ev /\ hw'.tim = "gap" /\ hw'.wire = hw.wire /\ hw'.chan = hw.chan
    BY <2>2 DEF Types, Radio
  <2>7. Types' /\ Settings(u)' /\ Heard(u)'
    BY <1>0, <1>1, <1>3, <2>1, <2>6 DEF TimerOff, Types, Settings, Heard, Fresh, Amplified
  <2>8. NordicState(u)'
    BY <1>0, <1>1, <1>3, <2>1, <2>5, <2>6 DEF TimerOff, NordicState, Routed, Fresh
  <2> QED BY <1>0, <1>1, <2>7, <2>8, NordicFamily
<1>4. CASE RadioIsr
  <2>1. hw' = [ hw EXCEPT !.ev = FALSE ] /\ sym' = 1 /\ air' = air /\ hw.ev
    BY <1>4 DEF RadioIsr
  <2>2. /\ hw' \in Radio /\ hw'.mode = hw.mode /\ hw'.clock = hw.clock /\ hw'.pa = hw.pa
        /\ hw'.carrier = hw.carrier /\ ~hw'.ev /\ hw'.tim = hw.tim
        /\ hw'.wire = hw.wire /\ hw'.chan = hw.chan
    BY <2>1 DEF Types, Radio
  <2>3. Types' /\ Settings(u)' /\ Heard(u)'
    BY <1>0, <1>1, <2>1, <2>2 DEF Types, Settings, Heard, Fresh, Amplified
  <2>4. NordicState(u)'
    BY <1>0, <1>1, <2>1, <2>2 DEF NordicState, Routed, Fresh
  <2> QED BY <1>0, <1>1, <2>3, <2>4, NordicFamily
<1> QED BY <1>2, <1>3, <1>4

(* The test mode's tone, and its power, which a tidy one does not set. *)
LEMMA NordicTestGood ==
  ASSUME Watched, NEW u \in Users, Good(u), CwStart(u) \/ CwStop(u) \/ PowerSet
  PROVE  Good(u)'
<1> USE DEF Good, Moves
<1>0. /\ board \in Nordic /\ UNCHANGED << board, cond, saved, lock, air, i >> /\ Watched'
      /\ NordicState(u) /\ board' \in Boards /\ Symbols \in Nat /\ board # "mpsl"
  BY SymbolRadioAssumption
  DEF CwStart, CwStop, PowerSet, Watched, DriverState, Types, Nordic, task
<1>1. CASE CwStart(u)
  <2>1. CASE /\ Goto(u, "enabled", "tone") /\ UNCHANGED ret
             /\ hw' = [ hw EXCEPT !.carrier = TRUE, !.tone = 0,
                                  !.pa = IF board = "nrf52" THEN "on" ELSE @ ]
    <3>1. Moves(u, "enabled", "tone")
      BY <2>1, Gone DEF PCs
    <3>2. /\ hw' \in Radio /\ hw'.mode = hw.mode /\ hw'.clock = hw.clock
          /\ hw'.ev = hw.ev /\ hw'.tim = hw.tim /\ hw'.wire = hw.wire
          /\ board # "nrf52" => hw'.pa = hw.pa
      BY <2>1 DEF Types, Radio
    <3>3. Types' /\ Settings(u)' /\ Heard(u)'
      BY <1>0, <1>1, <2>1, <3>1, <3>2 DEF CwStart, Types, Settings, Heard, Fresh, Amplified
    <3>4. NordicState(u)'
      BY <1>0, <1>1, <3>1, <3>2 DEF CwStart, NordicState, Routed, Fresh
    <3> QED BY <1>0, <3>1, <3>3, <3>4, NordicFamily
  <2>2. CASE /\ ~cond.tidy /\ Goto(u, "enabled", "disabling") /\ Return(u, "error")
             /\ hw' = [ hw EXCEPT !.pa = IF board = "nrf52" THEN "on" ELSE @ ]
    <3>1. Moves(u, "enabled", "disabling") /\ ret' \in [ Users -> {"ok", "error"} ]
      BY <2>2, Gone, Failed DEF PCs
    <3>2. /\ hw' \in Radio /\ hw'.mode = hw.mode /\ hw'.clock = hw.clock
          /\ hw'.ev = hw.ev /\ hw'.tim = hw.tim /\ hw'.wire = hw.wire
          /\ hw'.carrier = hw.carrier
          /\ board # "nrf52" => hw'.pa = hw.pa
      BY <2>2 DEF Types, Radio
    <3>3. Types' /\ Settings(u)' /\ Heard(u)'
      BY <1>0, <1>1, <2>2, <3>1, <3>2 DEF CwStart, Types, Settings, Heard, Fresh, Amplified
    <3>4. NordicState(u)'
      BY <1>0, <1>1, <3>1, <3>2 DEF CwStart, NordicState, Routed, Fresh
    <3> QED BY <1>0, <3>1, <3>3, <3>4, NordicFamily
  <2> QED BY <1>1, <2>1, <2>2 DEF CwStart
<1>2. CASE CwStop(u)
  <2>1. Moves(u, "tone", "disabling")
    BY <1>2, Gone DEF CwStop, PCs
  <2>2. hw' = [ hw EXCEPT !.carrier = FALSE, !.ev = FALSE,
                          !.pa = IF board = "nrf52" THEN "sleep" ELSE @ ]
    BY <1>2 DEF CwStop
  <2>3. /\ hw' \in Radio /\ hw'.mode = hw.mode /\ hw'.clock = hw.clock
        /\ ~hw'.ev /\ hw'.tim = hw.tim /\ hw'.wire = hw.wire /\ ~hw'.carrier
        /\ hw'.pa = IF board = "nrf52" THEN "sleep" ELSE hw.pa
    BY <2>2 DEF Types, Radio
  <2>4. sym' \in {0, 1}
    BY <1>2 DEF CwStop, Types
  <2>5. Types' /\ Settings(u)' /\ Heard(u)'
    BY <1>0, <1>2, <2>1, <2>3, <2>4 DEF CwStop, Types, Settings, Heard, Fresh, Amplified
  <2>6. NordicState(u)'
    BY <1>0, <2>1, <2>3 DEF NordicState, Routed, Fresh
  <2> QED BY <1>0, <2>1, <2>5, <2>6, NordicFamily
<1>3. CASE PowerSet
  <2>1. hw' = [ hw EXCEPT !.mode = "sat" ] /\ ~cond.tidy /\ UNCHANGED << sym, task >>
    BY <1>3 DEF PowerSet
  <2>2. /\ hw' \in Radio /\ hw'.clock = hw.clock /\ hw'.pa = hw.pa
        /\ hw'.carrier = hw.carrier /\ hw'.ev = hw.ev /\ hw'.tim = hw.tim
        /\ hw'.wire = hw.wire /\ hw'.chan = hw.chan /\ hw'.tone = hw.tone
    BY <2>1 DEF Types, Radio
  <2>3. Types' /\ Only(u)' /\ Settings(u)' /\ Heard(u)'
    BY <1>0, <2>1, <2>2 DEF task, Types, Only, Settings, Heard
  <2>4. NordicState(u)'
    BY <1>0, <2>1, <2>2 DEF task, NordicState, Routed, Fresh
  <2> QED BY <1>0, <2>3, <2>4, NordicFamily
<1> QED BY <1>1, <1>2, <1>3

-----------------------------------------------------------------------------
LEMMA MpslFamily ==
  ASSUME board = "mpsl", board' = board, NEW u \in Users, MpslState(u)'
  PROVE  DriverState(u)'
BY DEF DriverState, NordicState, EspState, RailState, TiState, Nordic, Rail

LEMMA Queues ==
  /\ \A c : Head(<< c >>) = c /\ Tail(<< c >>) = << >> /\ << c >> # << >>
  /\ \A c : Append(<< >>, c) = << c >>
  /\ \A c, d : << c >> = << d >> => c = d
OBVIOUS

LEMMA OneCall ==
  ASSUME ts \in Slots, NEW c, ts.queue # << >>, Head(ts.queue) = c
  PROVE  ts.queue = << c >> /\ Tail(ts.queue) = << >>
<1>1. ts.queue \in { << >>, << "open" >>, << "close" >>, << "request" >> }
  BY DEF Slots
<1>2. /\ Head(<< "open" >>) = "open" /\ Head(<< "close" >>) = "close"
      /\ Head(<< "request" >>) = "request"
  BY Queues
<1>3. Tail(<< "open" >>) = << >> /\ Tail(<< "close" >>) = << >> /\ Tail(<< "request" >>) = << >>
  BY Queues
<1> QED BY <1>1, <1>2, <1>3

(* The callers. *)
LEMMA MpslCallerGood ==
  ASSUME Watched, NEW u \in Users, Good(u), MpslCaller(u)
  PROVE  Good(u)'
<1> USE DEF Good, Moves
<1>0. /\ board = "mpsl" /\ UNCHANGED << board, cond, hw, saved, i >> /\ Watched'
      /\ MpslState(u) /\ board' \in Boards /\ Symbols \in Nat
  BY SymbolRadioAssumption
  DEF MpslCaller, OpenCall, CloseCall, CallReturn, MpslTake, Queue, Done, MpslGive, Watched,
      DriverState, Types
<1>1. CASE OpenCall(u)
  <2>1. Moves(u, "enabling", "calling")
    BY <1>1, Gone DEF OpenCall, PCs
  <2>2. ts.queue = << >> /\ ts.request = "none" /\ ~ts.called /\ ts.signals = << >>
    BY <1>0, <2>1 DEF MpslState, Slots
  <2>3. ts' = [ ts EXCEPT !.queue = << "open" >> ]
    BY <1>1, <2>2, Queues DEF OpenCall, Put
  <2>4. Types' /\ Settings(u)' /\ Heard(u)'
    BY <1>0, <1>1, <2>1 DEF OpenCall, Types, Settings, Heard, Fresh, Amplified
  <2>5. MpslState(u)'
    BY <1>0, <1>1, <2>1, <2>2, <2>3, Queues DEF OpenCall, MpslState, Slots, Routed
  <2> QED BY <1>0, <2>1, <2>4, <2>5, MpslFamily
<1>2. CASE CloseCall(u)
  <2>1. Moves(u, "disabling", "closing")
    BY <1>2, Gone DEF CloseCall, PCs
  <2>2. ts.queue = << >> /\ ts.request = "none" /\ ~ts.called
    BY <1>0, <2>1 DEF MpslState, Slots
  <2>3. ts' = [ ts EXCEPT !.queue = << "close" >> ]
    BY <1>2, <2>2, Queues DEF CloseCall, Put
  <2>4. Types' /\ Settings(u)' /\ Heard(u)'
    BY <1>0, <1>2, <2>1 DEF CloseCall, Types, Settings, Heard, Fresh, Amplified
  <2>5. MpslState(u)'
    BY <1>0, <1>2, <2>1, <2>2, <2>3, Queues DEF CloseCall, MpslState, Slots, Routed
  <2> QED BY <1>0, <2>1, <2>4, <2>5, MpslFamily
<1>3. CASE CallReturn(u)
  <2>1. /\ ret' \in [ Users -> {"ok", "error"} ]
        /\ Moves(u, "calling", "enabled") \/ Moves(u, "calling", "idle")
             \/ Moves(u, "closing", "idle")
    BY <1>3, Gone, Home DEF CallReturn, PCs, Types
  <2>2. ts.called /\ ts' = [ ts EXCEPT !.called = FALSE ]
    BY <1>3 DEF CallReturn
  <2>3. ts.queue = << >> /\ ts.request = "none" /\ ts.signals = << >>
    BY <1>0, <2>1, <2>2 DEF MpslState, Slots
  <2>4. Types' /\ Settings(u)' /\ Heard(u)'
    BY <1>0, <1>3, <2>1 DEF CallReturn, Types, Settings, Heard, Fresh, Amplified
  <2>5. MpslState(u)'
    BY <1>0, <1>3, <2>1, <2>2, <2>3, Queues DEF CallReturn, MpslState, Slots, Routed
  <2> QED BY <1>0, <2>1, <2>4, <2>5, MpslFamily
<1>4. CASE MpslTake(u)
  <2>1. Moves(u, "waiting", "queueing")
    BY <1>4, Gone DEF MpslTake, PCs
  <2>2. ts.request = "none" /\ ts.signals = << >> /\ ~ts.called
    BY <1>0, <2>1 DEF MpslState, Slots
  <2>3. /\ ts' = [ ts EXCEPT !.queue = << >>, !.index = 0, !.out = "error" ]
        /\ sym' = 0 /\ ret' = ret /\ Played(air', board, 0)
    BY <1>4, NothingPlayed DEF MpslTake
  <2>4. 0 \in 0 .. Symbols - 1
    BY SymbolRadioAssumption
  <2>5. Types' /\ Settings(u)' /\ Heard(u)'
    BY <1>0, <2>1, <2>3 DEF Types, Settings, Heard, Fresh, Amplified
  <2>6. MpslState(u)'
    BY <1>0, <2>1, <2>2, <2>3, <2>4, Queues DEF MpslState, Slots, Routed
  <2> QED BY <1>0, <2>1, <2>5, <2>6, MpslFamily
<1>5. CASE Queue(u)
  <2>1. Moves(u, "queueing", "symbol")
    BY <1>5, Gone DEF Queue, PCs
  <2>2. /\ ts.queue = << >> /\ ts.request = "none" /\ ts.signals = << >> /\ ~ts.called
        /\ sym = 0 /\ Played(air, board, 0) /\ ts.out = "error"
    BY <1>0, <2>1 DEF MpslState, Slots
  <2>3. ts' = [ ts EXCEPT !.queue = << "request" >> ]
    BY <1>5, <2>2, Queues DEF Queue, Put
  <2>4. Types' /\ Settings(u)' /\ Heard(u)'
    BY <1>0, <1>5, <2>1 DEF Queue, Types, Settings, Heard, Fresh, Amplified
  <2>5. MpslState(u)'
    BY <1>0, <1>5, <2>1, <2>2, <2>3, Queues DEF Queue, MpslState, Slots, Routed
  <2> QED BY <1>0, <2>1, <2>4, <2>5, MpslFamily
<1>6. CASE Done(u)
  <2>1. Moves(u, "symbol", "ending") /\ sym = 1 /\ sym' = 0 /\ UNCHANGED << air, ts >>
    BY <1>6, Gone DEF Done, PCs
  <2>2. ts.queue = << >> /\ ts.request = "none" /\ ~ts.called
        /\ (ts.signals # << >> => ts.out = "error") /\ ts.out \in {"ok", "error"}
        /\ (ts.out = "ok" => Played(air, board, Symbols))
    BY <1>0, <2>1 DEF MpslState, Slots
  <2>3. ret' \in [ Users -> {"ok", "error"} ] /\ ret'[u] = ts.out
    BY <1>6, <2>2 DEF Done, Return, Types
  <2>4. Types' /\ Settings(u)' /\ Heard(u)'
    BY <1>0, <2>1, <2>2, <2>3 DEF Types, Settings, Heard, Fresh, Amplified
  <2>5. MpslState(u)'
    BY <1>0, <2>1, <2>2, <2>3, Queues DEF MpslState, Slots, Routed
  <2> QED BY <1>0, <2>1, <2>4, <2>5, MpslFamily
<1>7. CASE MpslGive(u)
  <2>1. Moves(u, "ending", "sent")
    BY <1>0, <1>7, Given DEF MpslGive
  <2>2. Types' /\ Settings(u)' /\ Heard(u)'
    BY <1>0, <1>7, <2>1 DEF MpslGive, Types, Settings, Heard, Fresh, Amplified
  <2>3. MpslState(u)'
    BY <1>0, <1>7, <2>1 DEF MpslGive, MpslState, Routed
  <2> QED BY <1>0, <2>1, <2>2, <2>3, MpslFamily
<1> QED BY <1>1, <1>2, <1>3, <1>4, <1>5, <1>6, <1>7 DEF MpslCaller

(* The cooperative thread that makes MPSL's calls. *)
LEMMA MpslThreadGood ==
  ASSUME Watched, NEW u \in Users, Good(u), board = "mpsl", MpslThread
  PROVE  Good(u)'
<1> USE DEF Good
<1>0. /\ UNCHANGED << board, cond, hw, saved, air, pc, i, ret >> /\ Watched'
      /\ MpslState(u) /\ board' \in Boards /\ Only(u)' /\ ts \in Slots
  BY DEF MpslThread, ThreadOpen, ThreadClose, ThreadRequest, Watched, DriverState, Types,
         task, Only, MpslState
<1>1. CASE ThreadOpen
  <2>1. ts.queue = << "open" >> /\ Tail(ts.queue) = << >>
    BY <1>0, <1>1, OneCall DEF ThreadOpen
  <2>2. /\ ts' \in Slots /\ ts'.queue = << >> /\ ts'.request = ts.request /\ ts'.called
        /\ ts'.index = ts.index /\ ts'.out = ts.out /\ ts'.signals = ts.signals
    BY <1>0, <1>1, <2>1 DEF ThreadOpen, Slots
  <2>3. Types' /\ Settings(u)' /\ Heard(u)'
    BY <1>0, <1>1 DEF ThreadOpen, Types, Settings, Heard
  <2>4. MpslState(u)'
    BY <1>0, <1>1, <2>1, <2>2, Queues DEF ThreadOpen, MpslState, Routed
  <2> QED BY <1>0, <2>3, <2>4, MpslFamily
<1>2. CASE ThreadClose
  <2>1. ts.queue = << "close" >> /\ Tail(ts.queue) = << >>
    BY <1>0, <1>2, OneCall DEF ThreadClose
  <2>2. ts.request = "none" /\ pc[u] = "closing"
    BY <1>0, <2>1, Queues DEF MpslState
  <2>3. PICK r \in {"ok", "error"} :
          ts' = [ ts EXCEPT !.queue = Tail(@), !.called = TRUE, !.result = r, !.open = FALSE,
                            !.signals = << >>,
                            !.request = IF @ = "pending" THEN "none" ELSE @ ]
    BY <1>2 DEF ThreadClose
  <2>4. /\ ts' \in Slots /\ ts'.queue = << >> /\ ts'.request = ts.request /\ ts'.called
        /\ ts'.index = ts.index /\ ts'.out = ts.out /\ ts'.signals = << >>
    BY <1>0, <2>1, <2>2, <2>3 DEF Slots
  <2>5. Types' /\ Settings(u)' /\ Heard(u)'
    BY <1>0, <1>2 DEF ThreadClose, Types, Settings, Heard
  <2>6. MpslState(u)'
    BY <1>0, <1>2, <2>1, <2>2, <2>4, Queues DEF ThreadClose, MpslState, Routed
  <2> QED BY <1>0, <2>5, <2>6, MpslFamily
<1>3. CASE ThreadRequest
  <2>1. ts.queue = << "request" >> /\ Tail(ts.queue) = << >>
    BY <1>0, <1>3, OneCall DEF ThreadRequest
  <2>2. /\ ts.request = "none" /\ pc[u] = "symbol" /\ sym = 0 /\ ts.signals = << >>
        /\ ts.out = "error" /\ Played(air, board, 0) /\ ~ts.called
    BY <1>0, <2>1, Queues DEF MpslState
  <2>3. /\ ts' \in Slots /\ ts'.queue = << >> /\ ts'.called = ts.called
        /\ ts'.index = ts.index /\ ts'.out = "error" /\ ts'.signals = ts.signals
        /\ \/ ts'.request = "pending" /\ sym' = sym
           \/ ts'.request = "none" /\ sym' = 1
    <3>1. CASE /\ ts' = [ ts EXCEPT !.queue = Tail(@), !.result = "ok", !.request = "pending" ]
               /\ UNCHANGED sym
      BY <1>0, <2>1, <2>2, <3>1 DEF Slots
    <3>2. CASE /\ ts' = [ ts EXCEPT !.queue = Tail(@), !.result = "error", !.out = "error" ]
               /\ sym' = 1
      BY <1>0, <2>1, <2>2, <3>2 DEF Slots
    <3> QED BY <1>3, <3>1, <3>2 DEF ThreadRequest
  <2>4. Types' /\ Settings(u)' /\ Heard(u)'
    BY <1>0, <2>3 DEF Types, Settings, Heard
  <2>5. MpslState(u)'
    BY <1>0, <2>1, <2>2, <2>3, Queues DEF MpslState, Routed
  <2> QED BY <1>0, <2>4, <2>5, MpslFamily
<1> QED BY <1>1, <1>2, <1>3 DEF MpslThread

(* MPSL's callback: the slot, the radio's interrupt, the end. *)
LEMMA MpslSignalGood ==
  ASSUME Watched, NEW u \in Users, Good(u), board = "mpsl", MpslSignal
  PROVE  Good(u)'
<1> USE DEF Good
<1>0. /\ UNCHANGED << board, cond, saved, air, pc, i, ret >> /\ Watched'
      /\ MpslState(u) /\ board' \in Boards /\ Only(u)' /\ ts \in Slots
      /\ Symbols \in Nat /\ Symbols > 0
  BY SymbolRadioAssumption
  DEF MpslSignal, SlotStart, RadioSignal, ExtendSignal, BlockedSignal, IdleSignal,
      Watched, DriverState, Types, task, Only, MpslState
<1>1. ASSUME ts.request \in {"pending", "running", "extending"}
      PROVE  /\ pc[u] = "symbol" /\ sym = 0 /\ ts.signals = << >> /\ ts.out = "error"
             /\ ts.queue = << >> /\ ~ts.called
  BY <1>0, <1>1, Queues DEF MpslState
<1>2. ASSUME hw' = TxStop(hw)
      PROVE  /\ hw' \in Radio /\ hw'.mode = "ble" /\ hw'.pa = hw.pa /\ hw'.clock = hw.clock
             /\ hw'.carrier = hw.carrier
  BY <1>2 DEF TxStop, DppiClear, Types, Radio
<1>3. ASSUME NEW out \in {"ok", "error"}, ts' = SlotOver(ts, out)
      PROVE  /\ ts' \in Slots /\ ts'.request = "none" /\ ts'.out = out
             /\ ts'.signals = << "idle" >> /\ ts'.queue = ts.queue /\ ts'.called = ts.called
  BY <1>0, <1>3 DEF SlotOver, Slots
<1>4. CASE SlotStart
  <2>1. ts.request = "pending" /\ ~hw.carrier /\ Played(air, board, 0)
    BY <1>0, <1>4 DEF SlotStart, MpslState
  <2>2. Tuned(1) = 1
    BY <2>1 DEF Tuned
  <2>3. hw' = [ DppiSetup(hw) EXCEPT !.mode = "sat", !.ev = FALSE, !.irq = TRUE,
                                     !.chan = TRUE, !.tone = 1, !.tim = "gap" ]
    BY <1>4, <2>2 DEF SlotStart
  <2>4. /\ hw' \in Radio /\ hw'.pa = hw.pa /\ hw'.clock = hw.clock /\ ~hw'.ev
        /\ hw'.wire /\ hw'.chan /\ hw'.tone = 1 /\ hw'.tim = "gap" /\ hw'.carrier = hw.carrier
    BY <2>3 DEF DppiSetup, Types, Radio
  <2>5. 0 \in 0 .. Symbols - 1 /\ ts' = [ ts EXCEPT !.request = "running", !.index = 0 ]
        /\ sym' = sym
    BY <1>0, <1>4 DEF SlotStart
  <2>6. /\ ts' \in Slots /\ ts'.request = "running" /\ ts'.index = 0 /\ ts'.out = ts.out
        /\ ts'.signals = ts.signals /\ ts'.queue = ts.queue /\ ts'.called = ts.called
    BY <1>0, <2>5 DEF Slots
  <2>7. Types' /\ Settings(u)' /\ Heard(u)'
    BY <1>0, <2>4, <2>5 DEF Types, Settings, Heard
  <2>8. MpslState(u)'
    BY <1>0, <1>1, <2>1, <2>4, <2>5, <2>6, Queues DEF MpslState, Routed
  <2> QED BY <1>0, <2>7, <2>8, MpslFamily
<1>5. CASE RadioSignal
  <2>1. /\ ts.request = "running" /\ hw.ev /\ ~hw.carrier /\ hw.tim # "on" /\ sym' = sym
        /\ Routed /\ Played(air, board, ts.index + 1) /\ ts.index \in 0 .. Symbols - 1
    BY <1>0, <1>5 DEF RadioSignal, MpslState, Slots
  <2>2. CASE /\ ts.index + 1 < Symbols
             /\ ts' = [ ts EXCEPT !.index = @ + 1, !.request = "extending" ]
             /\ hw' = [ hw EXCEPT !.ev = FALSE, !.tone = Tuned(ts.index + 2) ]
    <3>1. Tuned(ts.index + 2) = ts.index + 2 /\ ts.index + 2 \in Nat
          /\ ts.index + 1 \in 0 .. Symbols - 1 /\ ts.index + 2 = (ts.index + 1) + 1
      BY <1>0, <2>1, <2>2 DEF Tuned
    <3>2. /\ hw' \in Radio /\ hw'.pa = hw.pa /\ hw'.clock = hw.clock /\ ~hw'.ev
          /\ hw'.wire = hw.wire /\ hw'.chan = hw.chan /\ hw'.tone = ts.index + 2
          /\ hw'.tim = hw.tim /\ hw'.carrier = hw.carrier
      BY <2>2, <3>1 DEF Types, Radio
    <3>3. /\ ts' \in Slots /\ ts'.request = "extending" /\ ts'.index = ts.index + 1
          /\ ts'.out = ts.out /\ ts'.signals = ts.signals /\ ts'.queue = ts.queue
          /\ ts'.called = ts.called
      BY <1>0, <2>2, <3>1 DEF Slots
    <3>4. Types' /\ Settings(u)' /\ Heard(u)'
      BY <1>0, <2>1, <3>2 DEF Types, Settings, Heard
    <3>5. MpslState(u)'
      BY <1>0, <1>1, <2>1, <3>1, <3>2, <3>3, Queues DEF MpslState, Routed
    <3> QED BY <1>0, <3>4, <3>5, MpslFamily
  <2>3. CASE ~(ts.index + 1 < Symbols) /\ ts' = SlotOver(ts, "ok") /\ hw' = TxStop(hw)
    <3>1. ts.index + 1 = Symbols
      BY <1>0, <2>1, <2>3
    <3>2. Types' /\ Settings(u)' /\ Heard(u)'
      BY <1>0, <1>2, <2>1, <2>3 DEF Types, Settings, Heard
    <3>3. MpslState(u)'
      BY <1>0, <1>1, <1>2, <1>3, <2>1, <2>3, <3>1, Queues DEF MpslState, Routed
    <3> QED BY <1>0, <3>2, <3>3, MpslFamily
  <2> QED BY <1>5, <2>2, <2>3 DEF RadioSignal
<1>6. CASE ExtendSignal
  <2>1. ts.request = "extending" /\ ~hw.carrier /\ sym' = sym
    BY <1>0, <1>6 DEF ExtendSignal, MpslState
  <2>2. CASE ts' = [ ts EXCEPT !.request = "running" ] /\ UNCHANGED hw
    <3>1. /\ ts' \in Slots /\ ts'.request = "running" /\ ts'.index = ts.index
          /\ ts'.out = ts.out /\ ts'.signals = ts.signals /\ ts'.queue = ts.queue
          /\ ts'.called = ts.called
      BY <1>0, <2>2 DEF Slots
    <3>2. Types' /\ Settings(u)' /\ Heard(u)'
      BY <1>0, <2>1, <2>2 DEF Types, Settings, Heard
    <3>3. MpslState(u)'
      BY <1>0, <1>1, <2>1, <2>2, <3>1, Queues DEF MpslState, Routed
    <3> QED BY <1>0, <3>2, <3>3, MpslFamily
  <2>3. CASE ts' = SlotOver(ts, "error") /\ hw' = TxStop(hw)
    <3>1. Types' /\ Settings(u)' /\ Heard(u)'
      BY <1>0, <1>2, <2>1, <2>3 DEF Types, Settings, Heard
    <3>2. MpslState(u)'
      BY <1>0, <1>1, <1>2, <1>3, <2>1, <2>3, Queues DEF MpslState, Routed
    <3> QED BY <1>0, <3>1, <3>2, MpslFamily
  <2> QED BY <1>6, <2>2, <2>3 DEF ExtendSignal
<1>7. CASE BlockedSignal
  <2>1. ts.request = "pending" /\ hw' = hw /\ sym' = 1
    BY <1>7 DEF BlockedSignal
  <2>2. PICK next \in { << >>, << "idle" >> } :
          ts' = [ ts EXCEPT !.request = "none", !.out = "error", !.signals = next ]
    BY <1>7 DEF BlockedSignal
  <2>3. /\ ts' \in Slots /\ ts'.request = "none" /\ ts'.out = "error"
        /\ ts'.queue = ts.queue /\ ts'.called = ts.called
    BY <1>0, <2>2 DEF Slots
  <2>4. Types' /\ Settings(u)' /\ Heard(u)'
    BY <1>0, <2>1 DEF Types, Settings, Heard
  <2>5. MpslState(u)'
    BY <1>0, <1>1, <2>1, <2>3, Queues DEF MpslState, Routed
  <2> QED BY <1>0, <2>4, <2>5, MpslFamily
<1>8. CASE IdleSignal
  <2>1. /\ ts.signals = << "idle" >> /\ ts' = [ ts EXCEPT !.signals = << >> ]
        /\ hw' = hw /\ sym' = 1
    BY <1>8 DEF IdleSignal
  <2>2. /\ ts.queue # << "request" >> /\ ts.request = "none" /\ pc[u] # "queueing"
    BY <1>0, <2>1, Queues DEF MpslState
  <2>3. /\ ts' \in Slots /\ ts'.request = "none" /\ ts'.out = ts.out /\ ts'.signals = << >>
        /\ ts'.queue = ts.queue /\ ts'.called = ts.called
    BY <1>0, <2>1, <2>2 DEF Slots
  <2>4. Types' /\ Settings(u)' /\ Heard(u)'
    BY <1>0, <2>1 DEF Types, Settings, Heard
  <2>5. MpslState(u)'
    BY <1>0, <2>1, <2>2, <2>3, Queues DEF MpslState, Routed
  <2> QED BY <1>0, <2>4, <2>5, MpslFamily
<1> QED BY <1>4, <1>5, <1>6, <1>7, <1>8 DEF MpslSignal

(* The timer inside a slot. *)
LEMMA MpslTimerGood ==
  ASSUME Watched, NEW u \in Users, Good(u), board = "mpsl", TimerOn \/ TimerOff
  PROVE  Good(u)'
<1> USE DEF Good
<1>0. /\ UNCHANGED << board, cond, saved, sym, pc, i, ret, ts >> /\ Watched'
      /\ MpslState(u) /\ board' \in Boards /\ Only(u)' /\ ts \in Slots
      /\ Symbols \in Nat /\ Symbols > 0
  BY SymbolRadioAssumption
  DEF TimerOn, TimerOff, Watched, DriverState, Types, task, Only, MpslState
<1>1. CASE TimerOn
  <2>1. /\ hw.tim = "gap" /\ ts.request = "running" /\ ~hw.ev /\ air' = air /\ ~hw.carrier
        /\ Routed
    BY <1>0, <1>1 DEF TimerOn, MpslState
  <2>2. hw' = [ hw EXCEPT !.tim = "on", !.carrier = @ \/ Routed ]
    BY <1>1 DEF TimerOn
  <2>3. hw' = [ hw EXCEPT !.tim = "on", !.carrier = TRUE ]
    BY <2>1, <2>2
  <2>4. /\ hw' \in Radio /\ hw'.mode = hw.mode /\ hw'.clock = hw.clock /\ hw'.pa = hw.pa
        /\ hw'.carrier /\ hw'.ev = hw.ev /\ hw'.tim = "on"
        /\ hw'.wire = hw.wire /\ hw'.chan = hw.chan /\ hw'.tone = hw.tone
    BY <2>3 DEF Types, Radio
  <2>5. Types' /\ Settings(u)' /\ Heard(u)'
    BY <1>0, <2>1, <2>4 DEF Types, Settings, Heard
  <2>6. MpslState(u)'
    BY <1>0, <2>1, <2>4 DEF MpslState, Routed
  <2> QED BY <1>0, <2>5, <2>6, MpslFamily
<1>2. CASE TimerOff /\ Routed /\ hw.carrier
  <2>1. /\ ts.request = "running" /\ ~hw.ev /\ pc[u] = "symbol" /\ ts.out = "error"
        /\ Played(air, board, ts.index) /\ hw.tone = ts.index + 1 /\ ts.index \in 0 .. Symbols - 1
    BY <1>0, <1>2 DEF MpslState, Slots
  <2>2. /\ hw' = [ hw EXCEPT !.tim = "gap", !.carrier = FALSE, !.ev = TRUE ]
        /\ Emit(ts.index + 1)
    BY <1>2, <2>1 DEF TimerOff
  <2>3. Played(air', board', ts.index + 1)
    BY <1>0, <2>1, <2>2, OneMore
  <2>4. /\ hw' \in Radio /\ hw'.mode = hw.mode /\ hw'.clock = hw.clock /\ hw'.pa = hw.pa
        /\ ~hw'.carrier /\ hw'.ev /\ hw'.tim = "gap"
        /\ hw'.wire = hw.wire /\ hw'.chan = hw.chan
    BY <2>2 DEF Types, Radio
  <2>5. Types' /\ Settings(u)' /\ Heard(u)'
    BY <1>0, <2>1, <2>4 DEF Types, Settings, Heard
  <2>6. MpslState(u)'
    BY <1>0, <2>1, <2>3, <2>4, Queues DEF MpslState, Routed
  <2> QED BY <1>0, <2>5, <2>6, MpslFamily
<1>3. CASE TimerOff /\ ~(Routed /\ hw.carrier)
  <2>1. hw.tim = "on" /\ hw' = [ hw EXCEPT !.tim = "gap" ] /\ air' = air
    BY <1>3 DEF TimerOff
  <2>2. ~hw.carrier /\ ts.request \notin {"running", "extending"}
    BY <1>0, <1>3, <2>1 DEF MpslState, Routed
  <2>3. /\ hw' \in Radio /\ hw'.mode = hw.mode /\ hw'.clock = hw.clock /\ hw'.pa = hw.pa
        /\ ~hw'.carrier /\ hw'.ev = hw.ev /\ hw'.tim = "gap"
    BY <2>1, <2>2 DEF Types, Radio
  <2>4. Types' /\ Settings(u)' /\ Heard(u)'
    BY <1>0, <2>1, <2>3 DEF Types, Settings, Heard
  <2>5. MpslState(u)'
    BY <1>0, <2>1, <2>2, <2>3, Queues DEF MpslState, Routed
  <2> QED BY <1>0, <2>4, <2>5, MpslFamily
<1> QED BY <1>1, <1>2, <1>3

-----------------------------------------------------------------------------
(* The callers, which every driver serves. *)
LEMMA CallerGood ==
  ASSUME Watched, NEW u \in Users, Good(u), Caller(u)
  PROVE  Good(u)'
<1> USE DEF Good, Moves
<1>0. /\ UNCHANGED << board, cond, saved, lock, sym, i, ret, ts >> /\ Watched'
      /\ board' \in Boards /\ Symbols \in Nat
  BY SymbolRadioAssumption DEF Caller, Call, SendCall, Leave, Watched, Types
<1>1. NordicState(u) /\ EspState(u) /\ RailState(u) /\ TiState(u) /\ MpslState(u)
  BY DEF DriverState
<1>2. CASE Call(u)
  <2>1. Moves(u, "idle", "enabling") /\ UNCHANGED << hw, air >>
    BY <1>2, Gone DEF Call, PCs
  <2>2. Types' /\ Settings(u)' /\ Heard(u)'
    BY <1>0, <2>1 DEF Types, Settings, Heard, Fresh, Amplified
  <2>3. NordicState(u)' /\ EspState(u)' /\ RailState(u)' /\ TiState(u)'
    BY <1>0, <1>1, <2>1
    DEF NordicState, EspState, RailState, TiState, Routed, Fresh
  <2>4. MpslState(u)'
    BY <1>0, <1>1, <2>1 DEF MpslState, Routed
  <2> QED BY <2>1, <2>2, <2>3, <2>4 DEF DriverState
<1>3. CASE SendCall(u)
  <2>1. \/ Moves(u, "enabled", "waiting")
        \/ Moves(u, "sent", "waiting") /\ ret[u] = "ok"
    BY <1>3, Gone DEF SendCall, PCs
  <2>2. hw' = [ hw EXCEPT !.pa = IF board = "nrf52" THEN "on" ELSE @ ]
    BY <1>3 DEF SendCall
  <2>3. /\ hw' \in Radio /\ hw'.mode = hw.mode /\ hw'.clock = hw.clock
        /\ hw'.carrier = hw.carrier /\ hw'.ev = hw.ev /\ hw'.tim = hw.tim
        /\ hw'.wire = hw.wire /\ hw'.chan = hw.chan /\ hw'.tone = hw.tone
        /\ hw'.pa = IF board = "nrf52" THEN "on" ELSE hw.pa
    BY <2>2 DEF Types, Radio
  <2>4. Types' /\ Settings(u)' /\ Heard(u)'
    BY <1>0, <2>1, <2>3 DEF Types, Settings, Heard, Fresh, Amplified
  <2>5. NordicState(u)' /\ EspState(u)' /\ RailState(u)' /\ TiState(u)'
    BY <1>0, <1>1, <2>1, <2>3
    DEF NordicState, EspState, RailState, TiState, Routed, Fresh
  <2>6. MpslState(u)'
    BY <1>0, <1>1, <2>1, <2>3 DEF MpslState, Slots, Routed
  <2> QED BY <2>1, <2>4, <2>5, <2>6 DEF DriverState
<1>4. CASE Leave(u)
  <2>1. Moves(u, "sent", "disabling") \/ Moves(u, "enabled", "disabling")
    BY <1>4, Gone DEF Leave, PCs
  <2>2. UNCHANGED hw
    BY <1>4 DEF Leave
  <2>3. Types' /\ Settings(u)' /\ Heard(u)'
    BY <1>0, <2>1, <2>2 DEF Types, Settings, Heard, Fresh, Amplified
  <2>4. NordicState(u)' /\ EspState(u)' /\ RailState(u)' /\ TiState(u)'
    BY <1>0, <1>1, <2>1, <2>2
    DEF NordicState, EspState, RailState, TiState, Routed, Fresh
  <2>5. MpslState(u)'
    BY <1>0, <1>1, <2>1, <2>2 DEF MpslState, Slots, Routed
  <2> QED BY <2>1, <2>3, <2>4, <2>5 DEF DriverState
<1> QED BY <1>2, <1>3, <1>4 DEF Caller

(* A radio that nobody uses is as good for one task as for another. *)
LEMMA Anybody ==
  ASSUME NEW u \in Users, NEW v \in Users, Good(u), pc[u] = "idle"
  PROVE  Good(v)
<1>1. Only(v) /\ pc[v] = "idle"
  BY DEF Good, Only
<1>2. Settings(v) /\ Heard(v)
  <2>1. v # "kept" /\ pc[u] \in Fresh /\ pc[v] \in Fresh
    BY <1>1 DEF Users, Fresh
  <2>2. board = "nrf52" => hw.clock \subseteq {v, "kept"} /\ v \notin hw.clock
    BY <2>1 DEF Good, Settings
  <2>3. hw.pa # "on" \/ ~cond.tidy
    BY DEF Good, Settings, Amplified
  <2> QED BY <1>1, <2>1, <2>2, <2>3 DEF Good, Settings, Heard
<1>3. NordicState(v) /\ EspState(v) /\ RailState(v) /\ TiState(v)
  BY <1>1 DEF Good, DriverState, NordicState, EspState, RailState, TiState, Fresh
<1>4. MpslState(v)
  BY <1>1 DEF Good, DriverState, MpslState
<1> QED BY <1>1, <1>2, <1>3, <1>4 DEF Good, DriverState

(* Only a task that is inside, or one that finds nobody inside, takes a step. *)
LEMMA Inside ==
  ASSUME Watched, NEW u \in Users,
         \/ Caller(u) \/ Driver(u)
         \/ CwStart(u) \/ CwStop(u) \/ EspCwStart(u) \/ EspCwStop(u)
         \/ RailCwStart(u) \/ RailCwStop(u) \/ TiCwStart(u) \/ TiCwDone(u) \/ TiCwStop(u)
  PROVE  pc[u] # "idle" \/ \A v \in Users : pc[v] = "idle"
<1>1. CASE Caller(u)
  BY <1>1 DEF Caller, Call, SendCall, Leave, Goto, Watched
<1>2. CASE NordicStep(u)
  BY <1>2
  DEF NordicStep, RequestClock52, Enable52, Enable53, Enable54, Disable52, Disable53, Disable54,
      Send52, Send53, Send54, SymbolLoop, Start, Tune, Woken, End, FemSleep,
      Take, Give, Break, NextSymbol, Back, Goto
<1>3. CASE MpslCaller(u)
  BY <1>3
  DEF MpslCaller, OpenCall, CloseCall, CallReturn, MpslTake, Queue, Done, MpslGive, Give, Back, Goto
<1>4. CASE EspStep(u)
  BY <1>4
  DEF EspStep, EspEnable, EspSend, EspTake, EspOn, EspOff, EspGap, EspGive, EspDisable,
      Take, Give, Break, NextSymbol, Back, Goto
<1>5. CASE RailStep(u)
  BY <1>5
  DEF RailStep, RailEnable, RailSend, RailTake, RailArm, RailOn, RailOff, RailGap, RailGive,
      RailDisable, Take, Give, Break, NextSymbol, Back, Goto
<1>6. CASE TiStep(u)
  BY <1>6
  DEF TiStep, TiEnable, TiSend, TiTake, TiSubmit, TiDone, TiGive, TiDisable,
      Take, Give, Break, NextSymbol, Back, Goto
<1>7. CASE \/ CwStart(u) \/ CwStop(u) \/ EspCwStart(u) \/ EspCwStop(u)
           \/ RailCwStart(u) \/ RailCwStop(u) \/ TiCwStart(u) \/ TiCwDone(u) \/ TiCwStop(u)
  BY <1>7
  DEF CwStart, CwStop, EspCwStart, EspCwStop, RailCwStart, RailCwStop, TiCwStart, TiCwDone,
      TiCwStop, Goto
<1> QED BY <1>1, <1>2, <1>3, <1>4, <1>5, <1>6, <1>7 DEF Driver

LEMMA Insider ==
  ASSUME NEW u \in Users, Good(u), NEW v \in Users,
         pc[v] # "idle" \/ \A w \in Users : pc[w] = "idle"
  PROVE  Good(v)
<1>1. CASE v = u
  BY <1>1
<1>2. CASE v # u
  <2>1. pc[u] = "idle"
    BY <1>2 DEF Good, Only
  <2> QED BY <2>1, Anybody
<1> QED BY <1>1, <1>2

(* Only MPSL's driver uses the slots. *)
NoSlots ==
  board # "mpsl" => ts.queue = << >> /\ ts.request = "none" /\ ts.signals = << >>

LEMMA NextNoSlots == NoSlots /\ [Next]_vars => NoSlots' /\ UNCHANGED << board, cond >>
<1> SUFFICES ASSUME NoSlots, [Next]_vars
             PROVE  NoSlots' /\ UNCHANGED << board, cond >>
  OBVIOUS
<1> DEFINE Kept == UNCHANGED << board, cond, ts >>
<1>1. CASE UNCHANGED vars
  BY <1>1 DEF vars, NoSlots
<1>2. ASSUME NEW u \in Users, Caller(u)
      PROVE  Kept
  BY <1>2 DEF Caller, Call, SendCall, Leave
<1>3. ASSUME NEW u \in Users, NordicStep(u)
      PROVE  Kept
  BY <1>3
  DEF NordicStep, RequestClock52, Enable52, Enable53, Enable54, Disable52, Disable53,
      Disable54, Send52, Send53, Send54, SymbolLoop, Start, Tune, Woken, End, FemSleep
<1>4. ASSUME NEW u \in Users, MpslCaller(u)
      PROVE  board = "mpsl" /\ UNCHANGED << board, cond >>
  BY <1>4 DEF MpslCaller, OpenCall, CloseCall, CallReturn, MpslTake, Queue, Done, MpslGive
<1>5. ASSUME NEW u \in Users, EspStep(u) \/ RailStep(u) \/ TiStep(u)
      PROVE  Kept
  BY <1>5
  DEF EspStep, EspEnable, EspSend, EspTake, EspOn, EspOff, EspGap, EspGive, EspDisable,
      RailStep, RailEnable, RailSend, RailTake, RailArm, RailOn, RailOff, RailGap, RailGive,
      RailDisable, TiStep, TiEnable, TiSend, TiTake, TiSubmit, TiDone, TiGive, TiDisable
<1>6. ASSUME TestMode
      PROVE  Kept
  BY <1>6
  DEF TestMode, NordicTest, EspTest, RailTest, TiTest, CwStart, CwStop, PowerSet,
      EspCwStart, EspCwStop, RailCwStart, RailCwStop, RailPowerSet, TiCwStart, TiCwDone,
      TiCwStop
<1>7. ASSUME TimerOn \/ TimerOff \/ RadioIsr \/ EspTimer \/ RailTimer
      PROVE  Kept
  BY <1>7 DEF TimerOn, TimerOff, RadioIsr, EspTimer, RailTimer
<1>8. ASSUME MpslThread \/ MpslSignal
      PROVE  board = "mpsl" /\ UNCHANGED << board, cond >>
  <2>1. ts.queue # << >> \/ ts.request # "none" \/ ts.signals = << "idle" >>
    BY <1>8
    DEF MpslThread, ThreadOpen, ThreadClose, ThreadRequest, MpslSignal, SlotStart, RadioSignal,
        ExtendSignal, BlockedSignal, IdleSignal
  <2>2. UNCHANGED << board, cond >>
    BY <1>8
    DEF MpslThread, ThreadOpen, ThreadClose, ThreadRequest, MpslSignal, SlotStart, RadioSignal,
        ExtendSignal, BlockedSignal, IdleSignal
  <2> QED BY <2>1, <2>2, Queues DEF NoSlots
<1>9. ASSUME Kept
      PROVE  NoSlots' /\ UNCHANGED << board, cond >>
  BY <1>9 DEF NoSlots
<1> HIDE DEF Kept
<1> QED
  BY <1>1, <1>2, <1>3, <1>4, <1>5, <1>6, <1>7, <1>8, <1>9 DEF Next, Driver, Machine, NoSlots

LEMMA InitHInv == Init => HInv
<1> SUFFICES ASSUME Init
             PROVE  Good("port")
  BY DEF HInv, Users
<1>1. Types /\ Only("port") /\ Settings("port") /\ Heard("port")
  <2>1. hw \in Radio /\ hw.clock = {} /\ hw.pa = "setup" /\ hw.mode = "ble"
    BY DEF Init, Radio
  <2>2. "port" \in Users /\ \A u \in Users : pc[u] = "idle"
    BY DEF Init, Users
  <2>3. Types
    BY <2>1, SymbolRadioAssumption DEF Init, Types, PCs
  <2> QED BY <2>1, <2>2, <2>3 DEF Init, Only, Settings, Heard, Fresh
<1>2. /\ ~hw.carrier /\ ~hw.ev /\ hw.tim \in {"disabled", "off"} /\ hw.mode = "ble"
      /\ (board # "esp" => hw.tim = "off") /\ (board = "nrf52" => hw.wire)
      /\ pc["port"] = "idle"
  BY DEF Init, Users
<1>3. NordicState("port") /\ EspState("port") /\ RailState("port") /\ TiState("port")
  BY <1>2 DEF NordicState, EspState, RailState, TiState, Fresh, Rail
<1>4. MpslState("port")
  <2>1. 0 \in 0 .. Symbols - 1
    BY SymbolRadioAssumption
  <2>2. /\ ts \in Slots /\ ts.request = "none" /\ ts.queue = << >> /\ ~ts.called
        /\ ts.signals = << >>
    BY <2>1 DEF Init, Slots
  <2> QED BY <1>2, <2>2, Queues DEF MpslState
<1> QED BY <1>1, <1>3, <1>4 DEF Good, DriverState

LEMMA NextHInv == HInv /\ NoSlots /\ [Next]_vars => HInv'
<1> SUFFICES ASSUME HInv, NoSlots, [Next]_vars, Watched'
             PROVE  \E u \in Users : Good(u)'
  BY DEF HInv
<1>1. Watched
  BY NextNoSlots DEF Watched
<1>2. PICK u \in Users : Good(u)
  BY <1>1 DEF HInv
<1>3. ASSUME NEW v \in Users, Caller(v) \/ Driver(v)
      PROVE  Good(v)'
  <2>1. Good(v)
    BY <1>1, <1>2, <1>3, Inside, Insider
  <2> QED
    BY <1>1, <1>3, <2>1, CallerGood, NordicGood, MpslCallerGood, EspGood, RailGood, TiGood
    DEF Driver
<1>4. CASE TestMode
  <2>1. CASE PowerSet \/ RailPowerSet
    BY <1>1, <1>2, <2>1, NordicTestGood, RailOther
  <2> DEFINE t == "test"
  <2>2. t \in Users
    BY DEF Users
  <2>3. CASE \/ CwStart(t) \/ CwStop(t) \/ EspCwStart(t) \/ EspCwStop(t)
             \/ RailCwStart(t) \/ RailCwStop(t) \/ TiCwStart(t) \/ TiCwDone(t) \/ TiCwStop(t)
    <3>1. Good(t)
      BY <1>1, <1>2, <2>2, <2>3, Inside, Insider
    <3> QED BY <1>1, <2>2, <2>3, <3>1, NordicTestGood, EspOther, RailOther, TiOther
  <2> QED BY <1>4, <2>1, <2>3 DEF TestMode, NordicTest, EspTest, RailTest, TiTest
<1>5. CASE MpslThread \/ MpslSignal
  <2>1. board = "mpsl"
    BY <1>5, Queues
    DEF NoSlots, MpslThread, ThreadOpen, ThreadClose, ThreadRequest, MpslSignal, SlotStart,
        RadioSignal, ExtendSignal, BlockedSignal, IdleSignal
  <2> QED BY <1>1, <1>2, <1>5, <2>1, MpslThreadGood, MpslSignalGood
<1>6. CASE TimerOn \/ TimerOff \/ RadioIsr \/ EspTimer \/ RailTimer
  <2>1. CASE EspTimer \/ RailTimer
    BY <1>1, <1>2, <2>1, EspOther, RailOther
  <2>2. CASE RadioIsr
    BY <1>1, <1>2, <2>2, NordicTimerGood DEF RadioIsr
  <2>3. CASE TimerOn \/ TimerOff
    <3>1. hw.tim \in {"gap", "on"}
      BY <2>3 DEF TimerOn, TimerOff
    <3>2. board \in Nordic \/ board = "mpsl"
      BY <1>2, <3>1, SymbolRadioAssumption
      DEF Good, Types, DriverState, EspState, RailState, TiState, Nordic, Rail
    <3> QED BY <1>1, <1>2, <2>3, <3>2, NordicTimerGood, MpslTimerGood
  <2> QED BY <1>6, <2>1, <2>2, <2>3
<1>7. CASE UNCHANGED vars
  <2>1. Good(u)'
    BY <1>2, <1>7
    DEF vars, task, Good, Types, Only, Settings, Heard, DriverState, NordicState, EspState,
        RailState, TiState, MpslState, Routed
  <2> QED BY <2>1
<1> QED BY <1>3, <1>4, <1>5, <1>6, <1>7 DEF Next, Machine

-----------------------------------------------------------------------------
LEMMA RadioInv == Spec => [](HInv /\ NoSlots)
<1>1. Init => NoSlots
  BY DEF Init, NoSlots
<1> QED BY <1>1, InitHInv, NextHInv, NextNoSlots, PTL DEF Spec

(* A packet that hubble_sat_board_packet_send reports as sent was on the air *)
(* symbol by symbol, in order, whole: on every board, for packets of every   *)
(* length.                                                                   *)
THEOREM WholePackets == Spec => []WholePacket
<1>1. HInv => WholePacket
  <2> SUFFICES ASSUME HInv, NEW v \in Users, pc[v] = "sent", ret[v] = "ok", cond.alone,
                      board \in Nordic => cond.prompt
               PROVE  Played(air, board, Symbols)
    BY DEF WholePacket, Played, Row, Cut
  <2>1. PICK u \in Users : Good(u)
    BY DEF HInv, Watched, Nordic
  <2>2. v = u
    BY <2>1 DEF Good, Only
  <2> QED BY <2>1, <2>2 DEF Good, Heard
<1> QED BY <1>1, RadioInv, PTL

(* What hubble_sat_board_enable takes from Bluetooth, disable gives back: at *)
(* rest the radio is silent, has Bluetooth's settings, its amplifier sleeps  *)
(* and no task keeps the clock.                                              *)
THEOREM RadioHandedBack == Spec => []HandedBack
<1>1. HInv /\ NoSlots => HandedBack
  <2> SUFFICES ASSUME HInv, NoSlots, cond.alone, cond.tidy, board \in Nordic => cond.prompt,
                      \A u \in Users : pc[u] = "idle"
               PROVE  /\ ~hw.carrier /\ hw.mode = "ble" /\ hw.pa # "on"
                      /\ hw.clock \subseteq {"kept"}
    BY DEF HandedBack
  <2>1. PICK u \in Users : Good(u)
    BY DEF HInv, Watched, Nordic
  <2>2. pc[u] = "idle" /\ pc[u] \in Fresh
    BY DEF Fresh
  <2>3. Types /\ NordicState(u) /\ EspState(u) /\ RailState(u) /\ TiState(u) /\ MpslState(u)
    BY <2>1 DEF Good, DriverState
  <2>4. board \in Nordic \/ board = "mpsl" \/ board = "esp" \/ board \in Rail \/ board = "ti"
    BY <2>3, SymbolRadioAssumption DEF Types, Nordic, Rail
  <2>5. ~hw.carrier
    BY <2>2, <2>3, <2>4 DEF NordicState, EspState, RailState, TiState, MpslState
  <2>6. hw.mode = "ble"
    <3>1. CASE board = "mpsl"
      BY <2>2, <2>3, <3>1 DEF MpslState, Types, Radio
    <3>2. CASE board # "mpsl"
      BY <2>1, <2>2, <3>2 DEF Good, Settings
    <3> QED BY <3>1, <3>2
  <2>7. hw.pa # "on" /\ hw.clock \subseteq {"kept"}
    BY <2>1, <2>2 DEF Good, Settings, Amplified
  <2> QED BY <2>5, <2>6, <2>7
<1> QED BY <1>1, RadioInv, PTL
=============================================================================
