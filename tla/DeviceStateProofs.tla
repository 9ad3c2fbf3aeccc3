------------------------- MODULE DeviceStateProofs -------------------------
(***************************************************************************)
(* Theorems about DeviceState, for any number of tasks, keys and times: no *)
(* variable of the state is under a lock, and yet a time that is read is   *)
(* never a mixture, and the elapsed time does not wrap, under the          *)
(* conditions that each property names. The last section is about the      *)
(* uptime that it reads, as FreeRTOS keeps it.                             *)
(***************************************************************************)
EXTENDS DeviceState, TickUptime, Integers, TLAPS

-----------------------------------------------------------------------------
(* Types and places. *)

Getting == Deriving \cup {"drift", "expire"}

Pointers == Keys \cup {NoKey}
Args == [ time : Nat, base : Nat, key : Pointers ]
Reads == [ base : Nat, time : Nat, last : Nat, result : Nat ]

Places ==
  { "idle", "init_time", "store_synced", "store_base", "store_key", "clear_key",
    "clear_synced", "clear_base", "read_last", "read_synced", "read_base", "read_uptime",
    "compute", "derive", "check_response", "done" }

SharedOK ==
  /\ source \in {"unix", "uptime"}
  /\ uptime \in 0 .. MaxUptime
  /\ synced \in Nat /\ base \in Nat /\ eid \in Nat
  /\ key \in Pointers
  /\ bases \subseteq Nat

PlaceOK ==
  /\ doing \in [ Threads -> {"none"} \cup Changing \cup Getting ]
  /\ pc \in [ Threads -> Places ]
  /\ raced \in [ Threads -> BOOLEAN ] /\ early \in [ Threads -> BOOLEAN ]
  /\ torn \in BOOLEAN

LocalsOK ==
  /\ arg \in [ Threads -> Args ]
  /\ read \in [ Threads -> Reads ]
  /\ used \in [ Threads -> SUBSET Pointers ]

(* Which call is where; a task outside the SDK has no locals. *)
Placed ==
  \A t \in Threads :
    /\ pc[t] = "idle" <=> doing[t] = "none"
    /\ pc[t] = "init_time" => doing[t] = "init"
    /\ pc[t] \in {"store_synced", "store_base"} => doing[t] \in {"init", "time_set"}
    /\ pc[t] = "store_key" => doing[t] \in {"init", "key_set"}
    /\ pc[t] \in {"clear_key", "clear_synced", "clear_base"} <=> doing[t] = "deinit"
    /\ pc[t] = "read_last" => doing[t] = "drift"
    /\ pc[t] \in {"read_synced", "read_base", "read_uptime", "compute", "done"}
         => doing[t] \in Getting
    /\ pc[t] \in {"derive", "check_response"} => doing[t] \in Deriving
    /\ pc[t] = "idle" => read[t] = Nothing /\ used[t] = {}

TypeInv == SharedOK /\ PlaceOK /\ LocalsOK /\ Placed

LEMMA Numbers ==
  /\ MaxUptime \in Nat /\ Word \in Nat \ {0} /\ MaxUptime < Word
  /\ Period \in Nat \ {0} /\ Pool \in Nat \ {0}
BY DeviceStateAssumption

LEMMA TimesSmall == \A time \in Times : time \in Nat /\ time + MaxUptime < Word
BY DeviceStateAssumption

LEMMA SourceType == Sources \subseteq {"unix", "uptime"}
BY DeviceStateAssumption

LEMMA CallNames == "none" \notin Calls
BY DeviceStateAssumption

LEMMA Remainder ==
  ASSUME NEW a \in Int, NEW b \in Nat \ {0} PROVE a % b \in Nat
OBVIOUS

LEMMA SmallRemainder ==
  ASSUME NEW a \in Nat, NEW b \in Nat, a < b PROVE a % b = a
OBVIOUS

LEMMA Quotient ==
  ASSUME NEW a \in Nat, NEW b \in Nat \ {0} PROVE a \div b \in Nat
OBVIOUS

LEMMA Noting ==
  /\ Unset \in Args /\ Unset = [ time |-> 0, base |-> 0, key |-> NoKey ]
  /\ Nothing \in Reads
BY Numbers DEF Args, Reads, Unset, Nothing, NotRead, Pointers

LEMMA TypeInit == Init => TypeInv
<1> SUFFICES ASSUME Init PROVE TypeInv
  OBVIOUS
<1>1. SharedOK
  BY Numbers, SourceType DEF Init, SharedOK, Pointers
<1>2. PlaceOK
  BY DEF Init, PlaceOK, Places
<1>3. LocalsOK
  BY Numbers DEF Init, LocalsOK, Pointers, Args, Reads, Unset, Nothing, NotRead
<1>4. Placed
  BY DEF Init, Placed, Deriving, Getting
<1> QED
  BY <1>1, <1>2, <1>3, <1>4 DEF TypeInv

LEMMA TypeArg ==
  ASSUME TypeInv, NEW t \in Threads, Change(t) \/ Get(t)
  PROVE  arg' \in [ Threads -> Args ]
<1> USE DEF TypeInv, LocalsOK
<1>1. CASE TimeSetCall(t)
  <2>1. PICK time \in Times :
          /\ time >= uptime
          /\ arg' = [ arg EXCEPT ![t] = [ Unset EXCEPT !.time = time, !.base = time - uptime ] ]
    BY <1>1 DEF TimeSetCall
  <2>2. time \in Nat /\ time - uptime \in Nat
    BY <2>1, TimesSmall, Numbers DEF SharedOK
  <2>3. [ Unset EXCEPT !.time = time, !.base = time - uptime ] \in Args
    BY <2>2, Noting DEF Args
  <2> QED
    BY <2>1, <2>3
<1>2. CASE InitCall(t)
  <2>1. PICK time \in Times, k \in Pointers :
          arg' = [ arg EXCEPT ![t] = [ Unset EXCEPT !.time = time, !.key = k ] ]
    BY <1>2 DEF InitCall, Pointers
  <2>2. [ Unset EXCEPT !.time = time, !.key = k ] \in Args
    BY Noting, TimesSmall DEF Args
  <2> QED
    BY <2>1, <2>2
<1>3. CASE KeySetCall(t)
  <2>1. PICK k \in Pointers : arg' = [ arg EXCEPT ![t] = [ Unset EXCEPT !.key = k ] ]
    BY <1>3 DEF KeySetCall, Pointers
  <2>2. [ Unset EXCEPT !.key = k ] \in Args
    BY Noting DEF Args
  <2> QED
    BY <2>1, <2>2
<1>4. CASE InitTime(t)
  <2>1. \/ arg' = arg
        \/ arg' = [ arg EXCEPT ![t] = Unset ]
        \/ /\ arg[t].time >= uptime
           /\ arg' = [ arg EXCEPT ![t].base = arg[t].time - uptime ]
    BY <1>4 DEF InitTime, Return
  <2>2. ASSUME arg[t].time >= uptime
        PROVE  [ arg[t] EXCEPT !.base = arg[t].time - uptime ] \in Args
    BY <2>2, Numbers DEF Args, SharedOK
  <2> QED
    BY <2>1, <2>2, Noting
<1>5. ASSUME arg' = arg \/ arg' = [ arg EXCEPT ![t] = Unset ]
      PROVE  arg' \in [ Threads -> Args ]
  BY <1>5, Noting
<1> QED
  BY <1>1, <1>2, <1>3, <1>4, <1>5
     DEF Change, Get, Return, StoreSynced, StoreBase, StoreKey, ClearKey, ClearSynced,
         ClearBase, DeinitCall, MessageCall, ChallengeCall, CheckCall,
       DriftCall, ExpireCall, ReadLast, ReadSynced, ReadBase, ReadUptime, Derive,
       CheckDevice, CheckResponse, Done, Compute

LEMMA TypeRead ==
  ASSUME TypeInv, NEW t \in Threads, Change(t) \/ Get(t)
  PROVE  read' \in [ Threads -> Reads ]
<1> USE DEF TypeInv, LocalsOK
<1>1. CASE ReadLast(t)
  BY <1>1 DEF ReadLast, Reads, SharedOK
<1>2. CASE ReadBase(t)
  BY <1>2 DEF ReadBase, Reads, SharedOK
<1>3. CASE ReadUptime(t)
  <2>1. (read[t].base + uptime) % Word \in Nat
    BY Remainder, Numbers DEF Reads, SharedOK
  <2> QED
    BY <1>3, <2>1 DEF ReadUptime, Reads
<1>4. CASE Compute(t)
  <2> DEFINE time == read[t].time
             last == IF read[t].last = NotRead THEN synced ELSE read[t].last
  <2>1. PICK value : read' =
          [ read EXCEPT ![t].last = NotRead,
                        ![t].time = IF doing[t] = "expire" THEN @ ELSE 0,
                        ![t].result = value ]
           /\ value = CASE doing[t] \in Deriving -> Counter(time)
                        [] doing[t] = "drift"    -> Elapsed(time, last)
                        [] OTHER                 -> Expiration(time)
    BY <1>4 DEF Compute
  <2>2. time \in Nat /\ last \in Nat
    BY DEF Reads, SharedOK
  <2>3. Counter(time) \in Nat
    <3>1. time \div Period \in Nat
      BY <2>2, Quotient, Numbers
    <3>2. (eid + time \div Period) % Word \in Nat
      BY <3>1, Remainder, Numbers DEF SharedOK
    <3>3. ((eid + time \div Period) % Word) % Pool \in Nat
      BY <3>2, Remainder, Numbers
    <3> QED
      BY <3>1, <3>3 DEF Counter
  <2>4. Elapsed(time, last) \in Nat
    BY <2>2, Remainder, Numbers DEF Elapsed
  <2>5. Expiration(time) \in Nat
    <3>1. time % Period \in 0 .. Period - 1
      BY <2>2, Numbers
    <3> QED
      BY <3>1, Numbers DEF Expiration
  <2>6. value \in Nat
    BY <2>1, <2>3, <2>4, <2>5
  <2> HIDE DEF time, last
  <2>7. NotRead \in Nat
    BY Numbers DEF NotRead
  <2>8. DEFINE new == [ read[t] EXCEPT !.last = NotRead,
                                       !.time = IF doing[t] = "expire" THEN @ ELSE 0,
                                       !.result = value ]
  <2>9. new \in Reads
    BY <2>6, <2>7 DEF Reads
  <2>10. read' = [ read EXCEPT ![t] = new ]
    <3>1. read' = [ read EXCEPT ![t].last = NotRead,
                                ![t].time = IF doing[t] = "expire" THEN @ ELSE 0,
                                ![t].result = value ]
      BY <2>1
    <3>2. read \in [ Threads -> Reads ]
      OBVIOUS
    <3> QED
      BY <3>1, <3>2 DEF Reads
  <2> HIDE DEF new
  <2> QED
    BY <2>9, <2>10
<1>5. ASSUME read' = read \/ read' = [ read EXCEPT ![t] = Nothing ]
      PROVE  read' \in [ Threads -> Reads ]
  BY <1>5, Noting
<1> QED
  BY <1>1, <1>2, <1>3, <1>4, <1>5
     DEF Change, Get, Return, TimeSetCall, InitCall, KeySetCall, InitTime, StoreSynced,
         StoreBase, StoreKey, ClearKey, ClearSynced, ClearBase, DeinitCall, MessageCall,
         ChallengeCall, CheckCall,
       DriftCall, ExpireCall, ReadSynced, Derive,
         CheckDevice, CheckResponse, Done

LEMMA TypeUsed ==
  ASSUME TypeInv, NEW t \in Threads, Change(t) \/ Get(t)
  PROVE  used' \in [ Threads -> SUBSET Pointers ]
<1>1. used \in [ Threads -> SUBSET Pointers ] /\ key \in Pointers
  BY DEF TypeInv, LocalsOK, SharedOK
<1>2. \/ used' = used
      \/ used' = [ used EXCEPT ![t] = {} ]
      \/ used' = [ used EXCEPT ![t] = @ \cup {key} ]
  BY DEF Change, Get, Return, TimeSetCall, InitCall, KeySetCall, InitTime, StoreSynced,
         StoreBase, StoreKey, ClearKey, ClearSynced, ClearBase, DeinitCall, MessageCall,
         ChallengeCall, CheckCall,
       DriftCall, ExpireCall, ReadLast, ReadSynced, ReadBase, ReadUptime, Derive,
       CheckDevice, CheckResponse, Done, Compute
<1> QED
  BY <1>1, <1>2

LEMMA TypeShared ==
  ASSUME TypeInv, NEW t \in Threads, Change(t) \/ Get(t) PROVE SharedOK'
<1>1. arg[t] \in Args
  BY DEF TypeInv, LocalsOK
<1>2. source' = source /\ uptime' = uptime
  BY DEF Change, Get, TimeSetCall, InitCall, KeySetCall, InitTime, StoreSynced,
         StoreBase, StoreKey, ClearKey, ClearSynced, ClearBase, DeinitCall, MessageCall,
         ChallengeCall, CheckCall,
       DriftCall, ExpireCall, ReadLast, ReadSynced, ReadBase, ReadUptime, Derive,
       CheckDevice, CheckResponse, Done, Compute
<1>3. synced' \in {synced, 0, arg[t].time} /\ base' \in {base, 0, arg[t].base}
  BY DEF Change, Get, shared, TimeSetCall, InitCall, KeySetCall, InitTime, StoreSynced,
         StoreBase, StoreKey, ClearKey, ClearSynced, ClearBase, DeinitCall, MessageCall,
         ChallengeCall, CheckCall,
       DriftCall, ExpireCall, ReadLast, ReadSynced, ReadBase, ReadUptime, Derive,
       CheckDevice, CheckResponse, Done, Compute
<1>4. eid' \in {eid, 0, arg[t].time} /\ key' \in {key, NoKey, arg[t].key}
  BY DEF Change, Get, shared, TimeSetCall, InitCall, KeySetCall, InitTime, StoreSynced,
         StoreBase, StoreKey, ClearKey, ClearSynced, ClearBase, DeinitCall, MessageCall,
         ChallengeCall, CheckCall,
       DriftCall, ExpireCall, ReadLast, ReadSynced, ReadBase, ReadUptime, Derive,
       CheckDevice, CheckResponse, Done, Compute
<1>5. bases' \in {bases, {}, bases \cup {arg[t].base}}
  BY DEF Change, Get, shared, history, TimeSetCall, InitCall, KeySetCall, InitTime,
         StoreSynced, StoreBase, StoreKey, ClearKey, ClearSynced, ClearBase, DeinitCall,
         MessageCall, ChallengeCall, CheckCall,
       DriftCall, ExpireCall, ReadLast, ReadSynced, ReadBase, ReadUptime, Derive,
       CheckDevice, CheckResponse, Done, Compute
<1> QED
  BY <1>1, <1>2, <1>3, <1>4, <1>5 DEF TypeInv, SharedOK, Args, Pointers

(* Where the calls are, without the flag of the last change. *)
PlacesOK ==
  /\ doing \in [ Threads -> {"none"} \cup Changing \cup Getting ]
  /\ pc \in [ Threads -> Places ]
  /\ raced \in [ Threads -> BOOLEAN ] /\ early \in [ Threads -> BOOLEAN ]

(* Every step of a call begins it, moves it on to another place or returns. *)
LEMMA TypePlace ==
  ASSUME TypeInv, NEW t \in Threads, Change(t) \/ Get(t) PROVE PlaceOK'
<1> DEFINE
  Begins == \E call \in Changing \cup Getting, at \in Places : Begin(t, call, at)
  Goes == \E from \in Places, to \in Places : Goto(t, from, to)
<1>1. PlacesOK /\ torn \in BOOLEAN
  BY DEF TypeInv, PlaceOK, PlacesOK
<1>2. ASSUME NEW call \in Changing \cup Getting, NEW at \in Places, Begin(t, call, at)
      PROVE  PlacesOK'
  BY <1>1, <1>2 DEF PlacesOK, Begin
<1>3. ASSUME NEW from \in Places, NEW to \in Places, Goto(t, from, to) PROVE PlacesOK'
  BY <1>1, <1>3 DEF PlacesOK, Goto
<1>4. ASSUME Return(t) PROVE PlacesOK'
  <2>1. "idle" \in Places
    BY DEF Places
  <2> QED
    BY <1>1, <1>4, <2>1 DEF PlacesOK, Return
<1>5. ASSUME TimeSetCall(t) \/ InitCall(t) \/ KeySetCall(t) \/ DeinitCall(t)
             \/ MessageCall(t) \/ ChallengeCall(t) \/ CheckCall(t)
             \/ DriftCall(t) \/ ExpireCall(t)
      PROVE  Begins
  BY <1>5 DEF TimeSetCall, InitCall, KeySetCall, DeinitCall, MessageCall, ChallengeCall,
     CheckCall, DriftCall, ExpireCall, FirstRead, Changing, Getting, Deriving, Places
<1>6. ASSUME InitTime(t) \/ StoreSynced(t) \/ StoreBase(t) \/ StoreKey(t)
             \/ ClearKey(t) \/ ClearSynced(t) \/ ClearBase(t)
      PROVE  Goes \/ Return(t)
  BY <1>6 DEF InitTime, StoreSynced, StoreBase, StoreKey, ClearKey, ClearSynced, ClearBase,
     Places
<1>7. ASSUME ReadLast(t) \/ ReadSynced(t) \/ ReadBase(t) \/ ReadUptime(t)
             \/ Compute(t) \/ Derive(t) \/ CheckDevice(t) \/ CheckResponse(t)
             \/ Done(t)
      PROVE  Goes \/ Return(t)
  BY <1>7 DEF ReadLast, ReadSynced, ReadBase, ReadUptime, Compute, Derive, CheckDevice,
     CheckResponse, Done, Places
<1>8. PlacesOK'
  <2>1. Begins \/ Goes \/ Return(t)
    BY <1>5, <1>6, <1>7 DEF Change, Get
  <2> QED
    BY <1>2, <1>3, <1>4, <2>1
<1>9. torn' \in {torn, FALSE, raced[t]}
  BY DEF Change, Get, shared, history, TimeSetCall, InitCall, KeySetCall, DeinitCall,
     MessageCall, ChallengeCall, CheckCall, DriftCall, ExpireCall, InitTime, StoreSynced,
     StoreBase, StoreKey, ClearKey, ClearSynced, ClearBase, ReadLast, ReadSynced,
     ReadBase, ReadUptime, Derive, CheckDevice, CheckResponse, Done, Compute
<1> QED
  BY <1>1, <1>8, <1>9 DEF PlacesOK, PlaceOK

LEMMA PlacedBegin ==
  ASSUME TypeInv, NEW t \in Threads,
         \/ TimeSetCall(t) \/ InitCall(t) \/ KeySetCall(t) \/ DeinitCall(t)
         \/ MessageCall(t) \/ ChallengeCall(t) \/ CheckCall(t)
         \/ DriftCall(t) \/ ExpireCall(t)
  PROVE  Placed'
<1>1. PICK call, at :
        /\ pc[t] = "idle"
        /\ doing' = [ doing EXCEPT ![t] = call ]
        /\ pc' = [ pc EXCEPT ![t] = at ]
        /\ \/ call = "time_set" /\ at = "store_synced"
           \/ call = "init" /\ at = "init_time"
           \/ call = "key_set" /\ at = "store_key"
           \/ call = "deinit" /\ at = "clear_key"
           \/ call \in Deriving \cup {"expire"} /\ at \in {"read_uptime", "read_synced"}
           \/ call = "drift" /\ at \in {"read_synced", "read_last"}
  BY DEF Begin, Deriving, FirstRead, TimeSetCall, InitCall, KeySetCall, DeinitCall,
         MessageCall, ChallengeCall, CheckCall, DriftCall, ExpireCall
<1>2. read' = read /\ used' = used
  BY DEF TimeSetCall, InitCall, KeySetCall, DeinitCall, MessageCall, ChallengeCall,
       CheckCall,
         DriftCall, ExpireCall
<1> QED
  BY <1>1, <1>2 DEF TypeInv, PlaceOK, Placed, Getting, Deriving

LEMMA PlacedChange ==
  ASSUME TypeInv, NEW t \in Threads,
         \/ InitTime(t) \/ StoreSynced(t) \/ StoreBase(t) \/ StoreKey(t)
         \/ ClearKey(t) \/ ClearSynced(t) \/ ClearBase(t)
  PROVE  Placed'
BY DEF TypeInv, PlaceOK, LocalsOK, Placed, Begin, Goto, Return, Changing, Getting, Deriving,
       FirstRead, InitTime, StoreSynced, StoreBase, StoreKey, ClearKey, ClearSynced,
       ClearBase

LEMMA PlacedGet ==
  ASSUME TypeInv, NEW t \in Threads,
         \/ ReadLast(t) \/ ReadSynced(t) \/ ReadBase(t) \/ ReadUptime(t)
         \/ Derive(t) \/ CheckDevice(t) \/ CheckResponse(t) \/ Done(t)
         \/ Compute(t)
  PROVE  Placed'
BY DEF TypeInv, PlaceOK, LocalsOK, Placed, Begin, Goto, Return, Changing, Getting, Deriving,
       FirstRead, ReadLast, ReadSynced, ReadBase, ReadUptime, Derive, CheckDevice,
       CheckResponse, Done, Compute

LEMMA TypeNext == TypeInv /\ [Next]_vars => TypeInv'
<1> SUFFICES ASSUME TypeInv, [Next]_vars PROVE TypeInv'
  OBVIOUS
<1>1. CASE Tick
  <2>1. uptime' \in 0 .. MaxUptime
    BY <1>1, Numbers DEF Tick, TypeInv, SharedOK
  <2> QED
    BY <1>1, <2>1 DEF Tick, TypeInv, SharedOK, PlaceOK, LocalsOK, Placed, shared,
       history, locals
<1>2. ASSUME NEW t \in Threads, Change(t) \/ Get(t) PROVE TypeInv'
  <2>1. Placed'
    BY <1>2, PlacedBegin, PlacedChange, PlacedGet DEF Change, Get
  <2>2. LocalsOK'
    BY <1>2, TypeArg, TypeRead, TypeUsed DEF LocalsOK
  <2> QED
    BY <1>2, <2>1, <2>2, TypeShared, TypePlace DEF TypeInv
<1>3. CASE UNCHANGED vars
  BY <1>3 DEF vars, TypeInv, SharedOK, PlaceOK, LocalsOK, Placed, shared, history, locals
<1> QED
  BY <1>1, <1>2, <1>3 DEF Next

-----------------------------------------------------------------------------
(* A step of one task, seen by the others. *)

LEMMA Others ==
  ASSUME TypeInv, NEW t \in Threads, Change(t) \/ Get(t), NEW s \in Threads \ {t}
  PROVE  doing'[s] = doing[s] /\ pc'[s] = pc[s]
BY DEF TypeInv, PlaceOK, Change, Get, Begin, Goto, Return,
         TimeSetCall, InitCall, KeySetCall, InitTime, StoreSynced, StoreBase, StoreKey,
         ClearKey, ClearSynced, ClearBase, DeinitCall, MessageCall, ChallengeCall,
         CheckCall,
         DriftCall, ExpireCall, ReadLast, ReadSynced, ReadBase, ReadUptime, Derive,
         CheckDevice, CheckResponse, Done, Compute

LEMMA OtherLocals ==
  ASSUME TypeInv, NEW t \in Threads, Change(t) \/ Get(t), NEW s \in Threads \ {t}
  PROVE  arg'[s] = arg[s] /\ read'[s] = read[s] /\ used'[s] = used[s]
BY DEF TypeInv, LocalsOK, Change, Get, Begin, Goto, Return,
         TimeSetCall, InitCall, KeySetCall, InitTime, StoreSynced, StoreBase, StoreKey,
         ClearKey, ClearSynced, ClearBase, DeinitCall, MessageCall, ChallengeCall,
         CheckCall,
         DriftCall, ExpireCall, ReadLast, ReadSynced, ReadBase, ReadUptime, Derive,
         CheckDevice, CheckResponse, Done, Compute

(* A step begins a call, goes on with it or ends it. *)
Starts(t) == \E call, at : Begin(t, call, at)
GoesOn(t) == doing' = doing /\ raced' = raced /\ early' = early

LEMMA Kinds ==
  ASSUME NEW t \in Threads, Change(t) \/ Get(t) PROVE Starts(t) \/ GoesOn(t) \/ Return(t)
<1>1. ASSUME NEW from, NEW to, Goto(t, from, to) PROVE GoesOn(t)
  BY <1>1 DEF Goto, GoesOn
<1>2. ASSUME NEW call, NEW at, Begin(t, call, at) PROVE Starts(t)
  BY <1>2 DEF Starts
<1> QED
  BY <1>1, <1>2
     DEF Change, Get, TimeSetCall, InitCall, KeySetCall, InitTime, StoreSynced, StoreBase,
       StoreKey, ClearKey, ClearSynced, ClearBase, DeinitCall, MessageCall, ChallengeCall,
       CheckCall, DriftCall, ExpireCall, ReadLast, ReadSynced, ReadBase, ReadUptime, Derive,
       CheckDevice, CheckResponse, Done, Compute

(* Who begins a call is alone, if it is one that must be, and marks the calls *)
(* it overlaps.                                                              *)
LEMMA Beginning ==
  ASSUME TypeInv, NEW t \in Threads, Change(t) \/ Get(t), doing'[t] # doing[t],
         doing'[t] # "none"
  PROVE  /\ pc[t] = "idle" /\ MayCall(t, doing'[t])
         /\ raced' = [ u \in Threads |->
                IF u = t THEN \E v \in Threads \ {t} : doing[v] \in Changing
                ELSE raced[u] \/ (pc[u] # "idle" /\ doing'[t] \in Changing) ]
         /\ early' = [ early EXCEPT ![t] = bases = {} ]
<1>1. Starts(t)
  BY Kinds DEF GoesOn, Return, TypeInv, PlaceOK
<1>2. PICK call, at : Begin(t, call, at)
  BY <1>1 DEF Starts
<1>3. doing'[t] = call
  BY <1>2 DEF Begin, TypeInv, PlaceOK
<1> QED
  BY <1>2, <1>3 DEF Begin

LEMMA Continuing ==
  ASSUME TypeInv, NEW t \in Threads, Change(t) \/ Get(t),
         doing'[t] = doing[t] \/ doing'[t] = "none"
  PROVE  \/ raced' = raced /\ early' = early
         \/ /\ raced' = [ raced EXCEPT ![t] = FALSE ]
            /\ early' = [ early EXCEPT ![t] = FALSE ]
            /\ doing'[t] = "none"
<1>1. ~Starts(t)
  <2> SUFFICES ASSUME NEW call, NEW at, Begin(t, call, at), Change(t) \/ Get(t) PROVE FALSE
    BY DEF Starts
  <2>1. doing'[t] = call /\ call # "none" /\ doing[t] = "none"
    BY CallNames DEF Begin, TypeInv, PlaceOK, Placed
  <2> QED
    BY <2>1
<1>2. ASSUME Return(t)
      PROVE  /\ doing'[t] = "none" /\ raced' = [ raced EXCEPT ![t] = FALSE ]
             /\ early' = [ early EXCEPT ![t] = FALSE ]
  BY <1>2 DEF Return, TypeInv, PlaceOK
<1> QED
  BY <1>1, <1>2, Kinds DEF GoesOn

(* No change is in progress beside a call that was not raced. *)
Unraced ==
  \A t \in Threads :
    doing[t] # "none" /\ ~raced[t] => \A u \in Threads \ {t} : doing[u] \notin Changing

LEMMA UnracedStep == TypeInv /\ Unraced /\ [Next]_vars => Unraced'
<1> SUFFICES ASSUME TypeInv, Unraced, [Next]_vars PROVE Unraced'
  OBVIOUS
<1>1. CASE Tick \/ UNCHANGED vars
  BY <1>1 DEF Tick, vars, locals, Unraced
<1>2. ASSUME NEW t \in Threads, Change(t) \/ Get(t) PROVE Unraced'
  <2>1. CASE doing'[t] # doing[t] /\ doing'[t] # "none"
    <3>1. raced' = [ u \in Threads |->
                IF u = t THEN \E v \in Threads \ {t} : doing[v] \in Changing
                ELSE raced[u] \/ (pc[u] # "idle" /\ doing'[t] \in Changing) ]
      BY <1>2, <2>1, Beginning
    <3>2. \A s \in Threads \ {t} : doing'[s] = doing[s]
      BY <1>2, Others
    <3>3. \A s \in Threads \ {t} : doing[s] # "none" => pc[s] # "idle"
      BY DEF TypeInv, Placed
    <3>4. ASSUME ~raced'[t] PROVE \A u \in Threads \ {t} : doing'[u] \notin Changing
      BY <3>1, <3>2, <3>4
    <3>5. ASSUME NEW s \in Threads \ {t}, doing'[s] # "none", ~raced'[s]
          PROVE  \A u \in Threads \ {s} : doing'[u] \notin Changing
      BY <3>1, <3>2, <3>3, <3>5 DEF Unraced
    <3> QED
      BY <3>4, <3>5 DEF Unraced
  <2>2. CASE doing'[t] = doing[t] \/ doing'[t] = "none"
    BY <1>2, <2>2, Others, Continuing DEF Unraced, TypeInv, PlaceOK, Changing
  <2> QED
    BY <2>1, <2>2
<1> QED
  BY <1>1, <1>2 DEF Next

-----------------------------------------------------------------------------
(* A time that is read is one that was set, or the uptime. *)

(* A call that must be alone is. *)
Alone ==
  \A t \in Threads :
    doing[t] \in AloneCalls => \A u \in Threads \ {t} : doing[u] = "none"

(* What changes the time: the two stores, the clearing of each. *)
LEMMA TimeChange ==
  ASSUME TypeInv, NEW t \in Threads, Change(t) \/ Get(t)
  PROVE  \/ UNCHANGED << synced, base, bases, torn >>
         \/ /\ pc[t] = "store_synced" /\ pc'[t] = "store_base" /\ doing' = doing
            /\ synced' = arg[t].time /\ UNCHANGED << base, bases, torn, arg >>
         \/ /\ pc[t] = "store_base" /\ pc'[t] # "store_base"
            /\ base' = arg[t].base /\ bases' = bases \cup {arg[t].base} /\ torn' = raced[t]
            /\ UNCHANGED synced
         \/ /\ pc[t] = "clear_synced" /\ pc'[t] = "clear_base" /\ synced' = 0
            /\ UNCHANGED << base, bases, torn >>
         \/ /\ pc[t] = "clear_base" /\ pc'[t] = "idle"
            /\ base' = 0 /\ bases' = {} /\ torn' = FALSE /\ UNCHANGED synced
<1>1. CASE StoreSynced(t)
  BY <1>1 DEF StoreSynced, Goto, history, TypeInv, PlaceOK
<1>2. CASE StoreBase(t)
  BY <1>2 DEF StoreBase, Goto, Return, TypeInv, PlaceOK
<1>3. CASE ClearSynced(t)
  BY <1>3 DEF ClearSynced, Goto, history, TypeInv, PlaceOK
<1>4. CASE ClearBase(t)
  BY <1>4 DEF ClearBase, Return, TypeInv, PlaceOK
<1> QED
  BY <1>1, <1>2, <1>3, <1>4
     DEF shared, history, Change, Get, TimeSetCall, InitCall, KeySetCall, InitTime,
       StoreSynced, StoreBase,
       StoreKey, ClearKey, ClearSynced, ClearBase, DeinitCall, MessageCall, ChallengeCall,
       CheckCall, DriftCall, ExpireCall, ReadLast, ReadSynced, ReadBase, ReadUptime, Derive,
       CheckDevice, CheckResponse, Done, Compute

LEMMA AloneStep == TypeInv /\ Alone /\ [Next]_vars => Alone'
<1> SUFFICES ASSUME TypeInv, Alone, [Next]_vars PROVE Alone'
  OBVIOUS
<1>1. CASE Tick \/ UNCHANGED vars
  BY <1>1 DEF Tick, vars, locals, Alone, AloneCalls
<1>2. ASSUME NEW t \in Threads, Change(t) \/ Get(t) PROVE Alone'
  <2>1. \A s \in Threads \ {t} : doing'[s] = doing[s]
    BY <1>2, Others
  <2>2. CASE doing'[t] # doing[t] /\ doing'[t] # "none"
    <3>1. \A u \in Threads \ {t} :
            /\ doing'[t] \in AloneCalls => doing[u] = "none"
            /\ doing[u] \notin AloneCalls
      BY <1>2, <2>2, Beginning DEF MayCall, TypeInv, Placed
    <3> QED
      BY <2>1, <3>1 DEF Alone, AloneCalls
  <2>3. CASE doing'[t] = doing[t] \/ doing'[t] = "none"
    BY <2>1, <2>3 DEF Alone, AloneCalls
  <2> QED
    BY <2>2, <2>3
<1> QED
  BY <1>1, <1>2 DEF Next

(* A call that began with a time stored still finds one; deinit may remove it.*)
EarlyOK ==
  \A t \in Threads : doing[t] \notin {"none", "deinit"} /\ ~early[t] => bases # {}

(* The bases are forgotten when nobody else is in a call. *)
LEMMA BasesStay ==
  ASSUME TypeInv, Alone, NEW t \in Threads, Change(t) \/ Get(t), ~(bases \subseteq bases')
  PROVE  doing[t] = "deinit" /\ \A s \in Threads \ {t} : doing[s] = "none"
<1>1. pc[t] = "clear_base"
  BY TimeChange
<1> QED
  BY <1>1 DEF Alone, AloneCalls, TypeInv, Placed

LEMMA EarlyStep == TypeInv /\ Alone /\ EarlyOK /\ [Next]_vars => EarlyOK'
<1> SUFFICES ASSUME TypeInv, Alone, EarlyOK, [Next]_vars,
                    NEW s \in Threads, doing'[s] \notin {"none", "deinit"}, ~early'[s]
             PROVE  bases' # {}
  BY DEF EarlyOK
<1>1. CASE Tick \/ UNCHANGED vars
  BY <1>1 DEF Tick, vars, shared, history, locals, EarlyOK
<1>2. ASSUME NEW t \in Threads, Change(t) \/ Get(t) PROVE bases' # {}
  <2>1. CASE t # s
    <3>1. doing'[s] = doing[s] /\ ~early[s]
      BY <1>2, <2>1, Others, Beginning, Continuing DEF TypeInv, PlaceOK
    <3> QED
      BY <1>2, <2>1, <3>1, BasesStay DEF EarlyOK
  <2>2. CASE t = s /\ doing'[t] = doing[t]
    <3>1. ~early[s]
      BY <1>2, <2>2, Continuing DEF TypeInv, PlaceOK
    <3> QED
      BY <1>2, <2>2, <3>1, BasesStay DEF EarlyOK
  <2>3. CASE t = s /\ doing'[t] # doing[t]
    <3>1. pc[t] = "idle" /\ bases # {}
      BY <1>2, <2>3, Beginning DEF TypeInv, PlaceOK
    <3> QED
      BY <1>2, <3>1, BasesStay DEF TypeInv, Placed
  <2> QED
    BY <2>1, <2>2, <2>3
<1> QED
  BY <1>1, <1>2 DEF Next

(* The times of the calls do not wrap when the uptime is added. *)
Small ==
  /\ \A t \in Threads : arg[t].base + MaxUptime < Word /\ arg[t].time + MaxUptime < Word
  /\ \A b \in bases : b + MaxUptime < Word
  /\ base + MaxUptime < Word

LEMMA SmallArg ==
  ASSUME TypeInv, Small, NEW t \in Threads, Change(t) \/ Get(t)
  PROVE  arg'[t].base + MaxUptime < Word /\ arg'[t].time + MaxUptime < Word
<1> USE Numbers DEF TypeInv, LocalsOK
<1>1. CASE TimeSetCall(t)
  <2>1. PICK time \in Times :
          /\ time >= uptime
          /\ arg' = [ arg EXCEPT ![t] = [ Unset EXCEPT !.time = time, !.base = time - uptime ] ]
    BY <1>1 DEF TimeSetCall
  <2>2. arg'[t].time = time /\ arg'[t].base = time - uptime
    BY <2>1, Noting
  <2> QED
    BY <2>1, <2>2, TimesSmall DEF SharedOK
<1>2. CASE InitCall(t)
  <2>1. PICK time \in Times, k \in Pointers :
          arg' = [ arg EXCEPT ![t] = [ Unset EXCEPT !.time = time, !.key = k ] ]
    BY <1>2 DEF InitCall, Pointers
  <2>2. arg'[t].time = time /\ arg'[t].base = 0
    BY <2>1, Noting
  <2> QED
    BY <2>2, TimesSmall
<1>3. CASE KeySetCall(t)
  <2>1. PICK k \in Pointers : arg' = [ arg EXCEPT ![t] = [ Unset EXCEPT !.key = k ] ]
    BY <1>3 DEF KeySetCall, Pointers
  <2>2. arg'[t].time = 0 /\ arg'[t].base = 0
    BY <2>1, Noting
  <2> QED
    BY <2>2
<1>4. CASE InitTime(t)
  <2>1. \/ arg' = arg
        \/ arg' = [ arg EXCEPT ![t] = Unset ]
        \/ /\ arg[t].time >= uptime
           /\ arg' = [ arg EXCEPT ![t].base = arg[t].time - uptime ]
    BY <1>4 DEF InitTime, Return
  <2>2. CASE arg' = arg
    BY <2>2 DEF Small
  <2>3. CASE arg' = [ arg EXCEPT ![t] = Unset ]
    BY <2>3, Noting
  <2>4. CASE /\ arg[t].time >= uptime
             /\ arg' = [ arg EXCEPT ![t].base = arg[t].time - uptime ]
    <3>1. arg'[t].time = arg[t].time /\ arg'[t].base = arg[t].time - uptime
      BY <2>4 DEF Args
    <3>2. arg[t].time \in Nat
      BY DEF Args
    <3> QED
      BY <3>1, <3>2 DEF Small, SharedOK
  <2> QED
    BY <2>1, <2>2, <2>3, <2>4
<1>5. CASE arg' = arg
  BY <1>5 DEF Small
<1>6. CASE arg' = [ arg EXCEPT ![t] = Unset ]
  BY <1>6, Noting
<1> QED
  BY <1>1, <1>2, <1>3, <1>4, <1>5, <1>6
     DEF Return, Change, Get, TimeSetCall, InitCall, KeySetCall, InitTime, StoreSynced,
       StoreBase,
       StoreKey, ClearKey, ClearSynced, ClearBase, DeinitCall, MessageCall, ChallengeCall,
       CheckCall, DriftCall, ExpireCall, ReadLast, ReadSynced, ReadBase, ReadUptime, Derive,
       CheckDevice, CheckResponse, Done, Compute

LEMMA SmallStep == TypeInv /\ Small /\ [Next]_vars => Small'
<1> SUFFICES ASSUME TypeInv, Small, [Next]_vars PROVE Small'
  OBVIOUS
<1>1. CASE Tick \/ UNCHANGED vars
  BY <1>1 DEF Tick, vars, shared, history, locals, Small
<1>2. ASSUME NEW t \in Threads, Change(t) \/ Get(t) PROVE Small'
  <2>1. \A s \in Threads : arg'[s].base + MaxUptime < Word /\ arg'[s].time + MaxUptime < Word
    BY <1>2, SmallArg, OtherLocals DEF Small
  <2>2. base' \in {base, 0, arg[t].base} /\ bases' \subseteq bases \cup {arg[t].base}
    BY <1>2, TimeChange
  <2>3. 0 + MaxUptime < Word
    BY Numbers
  <2> QED
    BY <2>1, <2>2, <2>3 DEF Small
<1> QED
  BY <1>1, <1>2 DEF Next

(* How a task comes to each place of hubble_time_get. *)
LEMMA Reaching ==
  ASSUME TypeInv, NEW t \in Threads, Change(t) \/ Get(t)
  PROVE  /\ pc'[t] = "read_last" => pc[t] = "idle" /\ read' = read
         /\ pc'[t] = "read_synced" =>
              \/ pc[t] = "idle" /\ read' = read
              \/ ReadLast(t)
         /\ pc'[t] = "read_base" =>
              /\ pc[t] = "read_synced" /\ synced # 0
              /\ UNCHANGED << source, doing, shared, read >>
         /\ pc'[t] = "read_uptime" =>
              \/ ReadBase(t)
              \/ /\ pc[t] = "idle" /\ read' = read
                 /\ source = "uptime" /\ source' = source /\ doing'[t] # "drift"
         /\ pc'[t] = "compute" =>
              \/ ReadUptime(t)
              \/ /\ pc[t] = "read_synced" /\ synced = 0
                 /\ UNCHANGED << source, doing, shared, read >>
<1> USE DEF TypeInv, PlaceOK, Begin, Goto, Return, FirstRead
<1>1. CASE ReadLast(t) \/ ReadSynced(t)
  BY <1>1 DEF ReadLast, ReadSynced
<1>2. CASE ReadBase(t) \/ ReadUptime(t) \/ Compute(t)
  BY <1>2 DEF ReadBase, ReadUptime, Compute
<1>3. CASE \/ Derive(t) \/ CheckDevice(t) \/ CheckResponse(t) \/ Done(t) \/ DriftCall(t)
           \/ ExpireCall(t) \/ MessageCall(t) \/ ChallengeCall(t) \/ CheckCall(t)
  BY <1>3 DEF Derive, CheckDevice, CheckResponse, Done, DriftCall, ExpireCall, MessageCall,
              ChallengeCall, CheckCall
<1>4. CASE Change(t)
  BY <1>4 DEF Change, TimeSetCall, InitCall, KeySetCall, InitTime, StoreSynced, StoreBase,
              StoreKey, ClearKey, ClearSynced, ClearBase, DeinitCall
<1> QED
  BY <1>1, <1>2, <1>3, <1>4 DEF Get

(* The time is set as its two stores and what is read of them allow. *)
Stored ==
  /\ IF bases = {} THEN base = 0 ELSE base \in bases
  /\ synced # 0 /\ bases = {} => \E t \in Threads : pc[t] = "store_base"
  /\ \A t \in Threads : pc[t] = "clear_base" => synced = 0

(* The call of this task may have met the first store of the first time. *)
Bare(t) == early[t] /\ raced[t]

ReadOK ==
  \A t \in Threads :
    /\ pc[t] = "read_base" => bases # {} \/ Bare(t)
    /\ pc[t] = "read_uptime" /\ AskedTime(t) =>
         read[t].base \in bases \/ (Bare(t) /\ read[t].base = 0)
    /\ pc[t] \in {"read_last", "read_synced", "read_base", "read_uptime"} => read[t].time = 0

(* What a call has met it does not forget before it returns. *)
LEMMA BareStays ==
  ASSUME TypeInv, NEW t \in Threads, Change(t) \/ Get(t), NEW s \in Threads,
         Bare(s), pc[s] # "idle", doing'[s] = doing[s]
  PROVE  Bare(s)'
<1>1. doing[s] # "none"
  BY DEF TypeInv, Placed
<1> QED
  BY <1>1, Beginning, Continuing DEF Bare, TypeInv, PlaceOK

LEMMA StoredStep == TypeInv /\ Alone /\ Stored /\ [Next]_vars => Stored'
<1> SUFFICES ASSUME TypeInv, Alone, Stored, [Next]_vars PROVE Stored'
  OBVIOUS
<1>1. CASE Tick \/ UNCHANGED vars
  BY <1>1 DEF Tick, vars, shared, history, locals, Stored
<1>2. ASSUME NEW t \in Threads, Change(t) \/ Get(t) PROVE Stored'
  <2>1. \A s \in Threads \ {t} : doing'[s] = doing[s] /\ pc'[s] = pc[s]
    BY <1>2, Others
  <2>2. \A s \in Threads : pc[s] = "clear_base" => \A u \in Threads \ {s} : pc[u] = "idle"
    BY DEF Alone, AloneCalls, TypeInv, Placed
  <2>3. pc'[t] = "clear_base" => synced' = 0
    <3>1. pc'[t] = "clear_base" => ClearSynced(t)
      BY <1>2 DEF Begin, Goto, Return, FirstRead, TypeInv, PlaceOK, Change, Get,
       TimeSetCall, InitCall, KeySetCall, InitTime, StoreSynced, StoreBase,
       StoreKey, ClearKey, ClearSynced, ClearBase, DeinitCall, MessageCall, ChallengeCall,
       CheckCall, DriftCall, ExpireCall, ReadLast, ReadSynced, ReadBase, ReadUptime, Derive,
       CheckDevice, CheckResponse, Done, Compute
    <3> QED
      BY <3>1 DEF ClearSynced
  <2>4. pc[t] = "store_base" => bases' # {}
    <3>1. pc[t] = "store_base" => StoreBase(t)
      BY <1>2 DEF Begin, Goto, Change, Get, TimeSetCall, InitCall, KeySetCall, InitTime,
       StoreSynced, StoreBase,
       StoreKey, ClearKey, ClearSynced, ClearBase, DeinitCall, MessageCall, ChallengeCall,
       CheckCall, DriftCall, ExpireCall, ReadLast, ReadSynced, ReadBase, ReadUptime, Derive,
       CheckDevice, CheckResponse, Done, Compute
    <3> QED
      BY <3>1 DEF StoreBase
  <2>5. IF bases' = {} THEN base' = 0 ELSE base' \in bases'
    <3>1. \/ UNCHANGED << base, bases >>
          \/ base' = arg[t].base /\ bases' = bases \cup {arg[t].base}
          \/ base' = 0 /\ bases' = {}
      BY <1>2, TimeChange
    <3> QED
      BY <3>1 DEF Stored
  <2>6. ASSUME synced' # 0, bases' = {} PROVE \E s \in Threads : pc'[s] = "store_base"
    <3>1. CASE pc[t] = "store_synced" /\ pc'[t] = "store_base"
      BY <3>1
    <3>2. CASE UNCHANGED << synced, bases >>
      <4>1. PICK s \in Threads : pc[s] = "store_base"
        BY <2>6, <3>2 DEF Stored
      <4>2. s # t
        BY <2>4, <2>6, <4>1
      <4> QED
        BY <2>1, <4>1, <4>2
    <3>3. CASE pc[t] = "clear_base" /\ UNCHANGED synced
      BY <2>6, <3>3 DEF Stored
    <3> QED
      BY <1>2, <2>6, <3>1, <3>2, <3>3, TimeChange
  <2>7. ASSUME NEW s \in Threads \ {t}, pc'[s] = "clear_base" PROVE synced' = 0
    <3>1. pc[t] = "idle" /\ synced = 0
      BY <2>1, <2>2, <2>7 DEF Stored
    <3> QED
      BY <1>2, <3>1, TimeChange
  <2> QED
    BY <2>3, <2>5, <2>6, <2>7 DEF Stored
<1> QED
  BY <1>1, <1>2 DEF Next

LEMMA ReadStep ==
  TypeInv /\ Unraced /\ Alone /\ EarlyOK /\ Stored /\ ReadOK /\ [Next]_vars => ReadOK'
<1> SUFFICES ASSUME TypeInv, Unraced, Alone, EarlyOK, Stored, ReadOK, [Next]_vars
             PROVE  ReadOK'
  OBVIOUS
<1>1. CASE Tick \/ UNCHANGED vars
  BY <1>1 DEF Tick, vars, shared, history, locals, ReadOK, AskedTime, Bare
<1>2. ASSUME NEW t \in Threads, Change(t) \/ Get(t) PROVE ReadOK'
  <2>1. source' = source
    BY <1>2 DEF Change, Get, TimeSetCall, InitCall, KeySetCall, InitTime, StoreSynced,
       StoreBase,
       StoreKey, ClearKey, ClearSynced, ClearBase, DeinitCall, MessageCall, ChallengeCall,
       CheckCall, DriftCall, ExpireCall, ReadLast, ReadSynced, ReadBase, ReadUptime, Derive,
       CheckDevice, CheckResponse, Done, Compute
  <2>2. ASSUME NEW s \in Threads \ {t}
        PROVE  /\ pc'[s] = "read_base" => bases' # {} \/ Bare(s)'
               /\ pc'[s] = "read_uptime" /\ AskedTime(s)' =>
                    read'[s].base \in bases' \/ (Bare(s)' /\ read'[s].base = 0)
               /\ pc'[s] \in {"read_last", "read_synced", "read_base", "read_uptime"}
                    => read'[s].time = 0
    <3>1. doing'[s] = doing[s] /\ pc'[s] = pc[s] /\ read'[s] = read[s]
      BY <1>2, Others, OtherLocals
    <3>2. pc[s] # "idle" => bases \subseteq bases'
      BY <1>2, BasesStay DEF TypeInv, Placed
    <3>3. pc[s] # "idle" /\ Bare(s) => Bare(s)'
      BY <1>2, <3>1, BareStays
    <3> QED
      BY <2>1, <3>1, <3>2, <3>3 DEF ReadOK, AskedTime
  <2>3. pc'[t] = "read_base" => bases' # {} \/ Bare(t)'
    <3> SUFFICES ASSUME pc'[t] = "read_base", bases = {} PROVE Bare(t)'
      BY <1>2, Reaching DEF shared, history
    <3>1. pc[t] = "read_synced" /\ synced # 0 /\ doing' = doing
      BY <1>2, Reaching
    <3>2. doing[t] \notin {"none", "deinit"}
      BY <3>1 DEF TypeInv, Placed, Getting, Deriving
    <3>3. PICK u \in Threads : pc[u] = "store_base"
      BY <3>1 DEF Stored
    <3>4. u # t /\ doing[u] \in Changing
      BY <3>1, <3>3 DEF TypeInv, Placed, Changing
    <3>5. raced[t] /\ early[t]
      BY <3>2, <3>4 DEF Unraced, EarlyOK
    <3> QED
      BY <1>2, <3>1, <3>5, BareStays DEF Bare
  <2>4. pc'[t] = "read_uptime" /\ AskedTime(t)' =>
          read'[t].base \in bases' \/ (Bare(t)' /\ read'[t].base = 0)
    <3>1. CASE ReadBase(t)
      <4>1. read'[t].base = base /\ bases' = bases
        BY <3>1 DEF ReadBase, Goto, TypeInv, LocalsOK, Reads, shared, history
      <4>2. pc[t] = "read_base" /\ doing' = doing
        BY <3>1 DEF ReadBase, Goto
      <4>3. bases # {} \/ Bare(t)'
        BY <1>2, <4>2, BareStays DEF ReadOK
      <4> QED
        BY <4>1, <4>3 DEF Stored
    <3>2. CASE source = "uptime" /\ doing'[t] # "drift"
      BY <2>1, <3>2 DEF AskedTime
    <3> QED
      BY <1>2, <3>1, <3>2, Reaching
  <2>5. pc'[t] \in {"read_last", "read_synced", "read_base", "read_uptime"} => read'[t].time = 0
    <3>1. CASE ReadLast(t)
      BY <3>1 DEF ReadLast, Goto, ReadOK, TypeInv, LocalsOK, Reads
    <3>2. CASE ReadBase(t)
      BY <3>2 DEF ReadBase, Goto, ReadOK, TypeInv, LocalsOK, Reads
    <3>3. pc[t] = "idle" => read[t].time = 0
      BY DEF TypeInv, Placed, Nothing
    <3> QED
      BY <1>2, <3>1, <3>2, <3>3, Reaching DEF ReadOK
  <2> QED
    BY <2>2, <2>3, <2>4, <2>5 DEF ReadOK
<1> QED
  BY <1>1, <1>2 DEF Next

(* A time as TimeWhole allows it: of one base, or the bare uptime. *)
Whole(t) ==
  \/ \E b \in bases : read[t].time \in b .. b + uptime
  \/ Bare(t) /\ read[t].time <= uptime

LEMMA WholeStep ==
  TypeInv /\ Alone /\ Small /\ ReadOK /\ TimeWhole /\ [Next]_vars => TimeWhole'
<1> SUFFICES ASSUME TypeInv, Alone, Small, ReadOK, TimeWhole, [Next]_vars,
                    NEW s \in Threads, pc'[s] = "compute", AskedTime(s)', read'[s].time # 0
             PROVE  Whole(s)'
  BY DEF TimeWhole, Whole, Bare
<1>0. pc[s] = "compute" /\ AskedTime(s) /\ read[s].time # 0 => Whole(s)
  BY DEF TimeWhole, Whole, Bare
<1> USE Numbers DEF TypeInv, SharedOK
<1>1. CASE Tick
  <2>1. Whole(s)
    BY <1>0, <1>1 DEF Tick, shared, history, locals, AskedTime
  <2>2. UNCHANGED << bases, read, early, raced >> /\ uptime' = uptime + 1
    BY <1>1 DEF Tick, shared, history, locals
  <2>3. \A b \in bases : b \in Nat
    OBVIOUS
  <2>4. read[s].time \in Nat
    BY DEF LocalsOK, Reads
  <2> QED
    BY <2>1, <2>2, <2>3, <2>4 DEF Whole, Bare
<1>2. CASE UNCHANGED vars
  BY <1>0, <1>2 DEF vars, shared, history, locals, AskedTime, Whole, Bare
<1>3. ASSUME NEW t \in Threads, Change(t) \/ Get(t) PROVE Whole(s)'
  <2>1. source' = source /\ uptime' = uptime
    BY <1>3 DEF Change, Get, TimeSetCall, InitCall, KeySetCall, InitTime, StoreSynced,
       StoreBase,
       StoreKey, ClearKey, ClearSynced, ClearBase, DeinitCall, MessageCall, ChallengeCall,
       CheckCall, DriftCall, ExpireCall, ReadLast, ReadSynced, ReadBase, ReadUptime, Derive,
       CheckDevice, CheckResponse, Done, Compute
  <2>2. CASE t # s
    <3>1. doing'[s] = doing[s] /\ pc'[s] = pc[s] /\ read'[s] = read[s]
      BY <1>3, <2>2, Others, OtherLocals
    <3>2. bases \subseteq bases'
      BY <1>3, <2>2, <3>1, BasesStay DEF Placed
    <3>3. Bare(s) => Bare(s)'
      BY <1>3, <3>1, BareStays
    <3>4. Whole(s)
      BY <1>0, <2>1, <3>1 DEF AskedTime
    <3> QED
      BY <2>1, <3>1, <3>2, <3>3, <3>4 DEF Whole
  <2>3. CASE t = s /\ ReadUptime(t)
    <3>1. pc[s] = "read_uptime" /\ doing' = doing /\ bases' = bases
      BY <2>3 DEF ReadUptime, Goto, shared, history
    <3>2. read'[s].time = (read[s].base + uptime) % Word
      BY <2>3 DEF ReadUptime, LocalsOK, Reads
    <3>3. read[s].base \in bases \/ (Bare(s) /\ read[s].base = 0)
      BY <2>1, <3>1 DEF ReadOK, AskedTime
    <3>4. read[s].base \in Nat /\ read[s].base + MaxUptime < Word
      <4>1. CASE read[s].base \in bases
        BY <4>1 DEF Small
      <4>2. CASE read[s].base = 0
        BY <4>2
      <4> QED
        BY <3>3, <4>1, <4>2
    <3>5. (read[s].base + uptime) % Word = read[s].base + uptime
      <4>1. read[s].base + uptime \in Nat /\ read[s].base + uptime < Word
        BY <3>4
      <4> QED
        BY <4>1, SmallRemainder
    <3>6. Bare(s) => Bare(s)'
      BY <1>3, <3>1, BareStays
    <3> QED
      BY <2>1, <3>1, <3>2, <3>3, <3>4, <3>5, <3>6 DEF Whole
  <2>4. CASE t = s /\ pc[t] = "read_synced" /\ read' = read
    BY <2>4 DEF ReadOK
  <2> QED
    BY <1>3, <2>2, <2>3, <2>4, Reaching
<1> QED
  BY <1>1, <1>2, <1>3 DEF Next

(* TimeWhole of DeviceState: a time hubble_time_get returns is one that      *)
(* hubble_time_set was given and accepted since the last hubble_deinit,      *)
(* advanced by the uptime; or, for a call overtaken by the first of them,    *)
(* the bare uptime.                                                          *)
THEOREM TimeIsWhole == Spec => []TimeWhole
<1> DEFINE Inv == /\ TypeInv /\ Unraced /\ Alone /\ Small /\ EarlyOK /\ Stored /\ ReadOK
                  /\ TimeWhole
<1>1. Init => Inv
  <2> SUFFICES ASSUME Init PROVE Inv
    OBVIOUS
  <2>1. Small
    BY Numbers DEF Init, Small, Unset
  <2>2. Unraced /\ Alone /\ EarlyOK /\ Stored /\ ReadOK /\ TimeWhole
    BY DEF Init, Unraced, Alone, AloneCalls, EarlyOK, Stored, ReadOK, TimeWhole
  <2> QED
    BY <2>1, <2>2, TypeInit
<1>2. Inv /\ [Next]_vars => Inv'
  BY TypeNext, UnracedStep, AloneStep, SmallStep, EarlyStep, StoredStep, ReadStep, WholeStep
<1> QED
  BY <1>1, <1>2, PTL DEF Spec

-----------------------------------------------------------------------------
(* The time elapsed since the last sync. *)

(* A base is its time less the uptime of when it was accepted. *)
Based ==
  \A t \in Threads :
    pc[t] \in {"store_synced", "store_base"} =>
      arg[t].base <= arg[t].time /\ arg[t].time <= arg[t].base + uptime

(* The two variables agree unless a store was raced or is between the two. *)
Agree == synced = 0 \/ (base <= synced /\ synced <= base + uptime)

Synced ==
  /\ ~torn /\ (\A t \in Threads : pc[t] # "store_base") => Agree
  /\ \A t \in Threads : pc[t] = "store_base" /\ ~raced[t] => synced = arg[t].time

(* What an estimate of the drift that nothing overlapped has read. *)
Drifting(t) ==
  /\ pc[t] \in {"read_last", "read_synced", "read_base", "read_uptime"} => read[t].time = 0
  /\ pc[t] \in {"read_synced", "read_base", "read_uptime", "compute"} =>
       read[t].last \in {NotRead, synced}
  /\ pc[t] \in {"read_base", "read_uptime"} => synced # 0
  /\ pc[t] = "read_uptime" => read[t].base = base
  /\ pc[t] = "compute" => synced <= read[t].time /\ read[t].time <= synced + uptime
  /\ pc[t] = "done" => read[t].result <= uptime

DriftInv ==
  \A t \in Threads : doing[t] = "drift" /\ ~raced[t] /\ ~torn => Drifting(t)

LEMMA BasedStep == TypeInv /\ Based /\ [Next]_vars => Based'
<1> SUFFICES ASSUME TypeInv, Based, [Next]_vars PROVE Based'
  OBVIOUS
<1> USE Numbers DEF TypeInv, SharedOK, LocalsOK
<1>1. CASE Tick
  <2>1. ASSUME NEW s \in Threads, pc'[s] \in {"store_synced", "store_base"}
        PROVE  arg'[s].base <= arg'[s].time /\ arg'[s].time <= arg'[s].base + uptime'
    <3>1. arg' = arg /\ pc' = pc /\ uptime' = uptime + 1
      BY <1>1 DEF Tick, locals
    <3>2. arg[s].base \in Nat /\ arg[s].time \in Nat
      BY DEF Args
    <3> QED
      BY <2>1, <3>1, <3>2 DEF Based
  <2> QED
    BY <2>1 DEF Based
<1>2. CASE UNCHANGED vars
  BY <1>2 DEF vars, locals, Based
<1>3. ASSUME NEW t \in Threads, Change(t) \/ Get(t) PROVE Based'
  <2>1. uptime' = uptime
    BY <1>3 DEF Change, Get, TimeSetCall, InitCall, KeySetCall, InitTime, StoreSynced,
       StoreBase,
       StoreKey, ClearKey, ClearSynced, ClearBase, DeinitCall, MessageCall, ChallengeCall,
       CheckCall, DriftCall, ExpireCall, ReadLast, ReadSynced, ReadBase, ReadUptime, Derive,
       CheckDevice, CheckResponse, Done, Compute
  <2>2. \A s \in Threads \ {t} : pc'[s] = pc[s] /\ arg'[s] = arg[s]
    BY <1>3, Others, OtherLocals
  <2>3. ASSUME pc'[t] \in {"store_synced", "store_base"}
        PROVE  arg'[t].base <= arg'[t].time /\ arg'[t].time <= arg'[t].base + uptime
    <3>1. TimeSetCall(t) \/ InitTime(t) \/ StoreSynced(t)
      BY <1>3, <2>3 DEF Begin, Goto, Return, FirstRead, PlaceOK, Change, Get,
       TimeSetCall, InitCall, KeySetCall, InitTime, StoreSynced, StoreBase,
       StoreKey, ClearKey, ClearSynced, ClearBase, DeinitCall, MessageCall, ChallengeCall,
       CheckCall, DriftCall, ExpireCall, ReadLast, ReadSynced, ReadBase, ReadUptime, Derive,
       CheckDevice, CheckResponse, Done, Compute
    <3>2. CASE TimeSetCall(t)
      <4>1. PICK time \in Times :
              /\ time >= uptime
              /\ arg' = [ arg EXCEPT ![t] =
                             [ Unset EXCEPT !.time = time, !.base = time - uptime ] ]
        BY <3>2 DEF TimeSetCall
      <4>2. arg'[t].time = time /\ arg'[t].base = time - uptime
        BY <4>1, Noting
      <4> QED
        BY <4>1, <4>2, TimesSmall
    <3>3. CASE InitTime(t)
      <4>1. arg' = [ arg EXCEPT ![t].base = arg[t].time - uptime ]
        BY <2>3, <3>3 DEF InitTime, Goto, Return, PlaceOK
      <4>2. arg'[t].time = arg[t].time /\ arg'[t].base = arg[t].time - uptime
        BY <4>1 DEF Args
      <4>3. arg[t].time \in Nat
        BY DEF Args
      <4> QED
        BY <4>2, <4>3
    <3>4. CASE StoreSynced(t)
      BY <3>4 DEF StoreSynced, Goto, Based
    <3> QED
      BY <3>1, <3>2, <3>3, <3>4
  <2> QED
    BY <2>1, <2>2, <2>3 DEF Based
<1> QED
  BY <1>1, <1>2, <1>3 DEF Next

LEMMA SyncedStep ==
  TypeInv /\ Unraced /\ Stored /\ Based /\ Synced /\ [Next]_vars => Synced'
<1> SUFFICES ASSUME TypeInv, Unraced, Stored, Based, Synced, [Next]_vars PROVE Synced'
  OBVIOUS
<1> USE Numbers DEF TypeInv, SharedOK
<1>1. CASE Tick
  <2>1. UNCHANGED << synced, base, torn, pc, raced, arg >> /\ uptime' = uptime + 1
    BY <1>1 DEF Tick, shared, history, locals
  <2>2. Agree => Agree'
    BY <2>1 DEF Agree
  <2> QED
    BY <2>1, <2>2 DEF Synced
<1>2. CASE UNCHANGED vars
  BY <1>2 DEF vars, shared, history, locals, Synced, Agree
<1>3. ASSUME NEW t \in Threads, Change(t) \/ Get(t) PROVE Synced'
  <2>1. uptime' = uptime
    BY <1>3 DEF Change, Get, TimeSetCall, InitCall, KeySetCall, InitTime, StoreSynced,
       StoreBase,
       StoreKey, ClearKey, ClearSynced, ClearBase, DeinitCall, MessageCall, ChallengeCall,
       CheckCall, DriftCall, ExpireCall, ReadLast, ReadSynced, ReadBase, ReadUptime, Derive,
       CheckDevice, CheckResponse, Done, Compute
  <2>2. \A s \in Threads \ {t} : pc'[s] = pc[s] /\ arg'[s] = arg[s]
    BY <1>3, Others, OtherLocals
  <2>3. \A s \in Threads \ {t} : doing[s] # "none" /\ ~raced'[s] => ~raced[s]
    <3>1. CASE doing'[t] # doing[t] /\ doing'[t] # "none"
      BY <1>3, <3>1, Beginning DEF PlaceOK
    <3>2. CASE doing'[t] = doing[t] \/ doing'[t] = "none"
      BY <1>3, <3>2, Continuing DEF PlaceOK
    <3> QED
      BY <3>1, <3>2
  <2>4. pc[t] = "store_base" => pc'[t] # "store_base"
    <3>1. pc[t] = "store_base" => StoreBase(t)
      BY <1>3 DEF Begin, Goto, Change, Get, TimeSetCall, InitCall, KeySetCall, InitTime,
       StoreSynced, StoreBase,
       StoreKey, ClearKey, ClearSynced, ClearBase, DeinitCall, MessageCall, ChallengeCall,
       CheckCall, DriftCall, ExpireCall, ReadLast, ReadSynced, ReadBase, ReadUptime, Derive,
       CheckDevice, CheckResponse, Done, Compute
    <3> QED
      BY <3>1 DEF StoreBase, Goto, Return, PlaceOK
  <2>5. ASSUME ~torn', \A s \in Threads : pc'[s] # "store_base" PROVE Agree'
    <3>1. CASE UNCHANGED << synced, base, torn >> /\ pc[t] # "store_base"
      <4>1. Agree
        BY <2>2, <2>5, <3>1 DEF Synced
      <4> QED
        BY <2>1, <3>1, <4>1 DEF Agree
    <3>2. CASE /\ pc[t] = "store_base" /\ base' = arg[t].base /\ torn' = raced[t]
               /\ UNCHANGED synced
      <4>1. synced = arg[t].time
        BY <2>5, <3>2 DEF Synced
      <4> QED
        BY <2>1, <3>2, <4>1 DEF Agree, Based
    <3>3. CASE synced' = 0
      BY <3>3 DEF Agree
    <3>4. CASE pc[t] = "clear_base" /\ UNCHANGED synced
      BY <3>4 DEF Agree, Stored
    <3>5. pc[t] = "store_base" => StoreBase(t)
      BY <1>3 DEF Begin, Goto, Change, Get, TimeSetCall, InitCall, KeySetCall, InitTime,
       StoreSynced, StoreBase,
       StoreKey, ClearKey, ClearSynced, ClearBase, DeinitCall, MessageCall, ChallengeCall,
       CheckCall, DriftCall, ExpireCall, ReadLast, ReadSynced, ReadBase, ReadUptime, Derive,
       CheckDevice, CheckResponse, Done, Compute
    <3>6. StoreBase(t) => base' = arg[t].base /\ torn' = raced[t] /\ UNCHANGED synced
      BY DEF StoreBase
    <3> QED
      BY <1>3, <2>5, <3>1, <3>2, <3>3, <3>4, <3>5, <3>6, TimeChange
  <2>6. ASSUME NEW s \in Threads \ {t}, pc'[s] = "store_base", ~raced'[s]
        PROVE  synced' = arg'[s].time
    <3>1. pc[s] = "store_base" /\ doing[s] # "none" /\ arg'[s] = arg[s]
      BY <2>2, <2>6 DEF Placed
    <3>2. ~raced[s]
      BY <2>3, <2>6, <3>1
    <3>3. doing[t] \notin Changing
      BY <3>1, <3>2 DEF Unraced
    <3>4. synced' = synced
      BY <1>3, <3>3, TimeChange DEF Placed, Changing
    <3> QED
      BY <3>1, <3>2, <3>4 DEF Synced
  <2>7. ASSUME pc'[t] = "store_base" PROVE synced' = arg'[t].time
    <3>1. StoreSynced(t)
      BY <1>3, <2>7 DEF Begin, Goto, Return, FirstRead, PlaceOK, Change, Get,
       TimeSetCall, InitCall, KeySetCall, InitTime, StoreSynced, StoreBase,
       StoreKey, ClearKey, ClearSynced, ClearBase, DeinitCall, MessageCall, ChallengeCall,
       CheckCall, DriftCall, ExpireCall, ReadLast, ReadSynced, ReadBase, ReadUptime, Derive,
       CheckDevice, CheckResponse, Done, Compute
    <3> QED
      BY <3>1 DEF StoreSynced
  <2> QED
    BY <2>5, <2>6, <2>7 DEF Synced
<1> QED
  BY <1>1, <1>2, <1>3 DEF Next

LEMMA WrapOnce ==
  ASSUME NEW w \in Nat, NEW d \in Nat, d < w PROVE (w + d) % w = d
OBVIOUS

(* The subtraction does not wrap when the two times are in order. *)
LEMMA ElapsedIs ==
  ASSUME NEW last \in Nat, NEW time \in Nat, last <= time, time - last < Word
  PROVE  Elapsed(time, last) = time - last
<1>1. Word + time - last = Word + (time - last)
  BY Numbers
<1>2. time - last \in Nat
  OBVIOUS
<1> QED
  BY <1>1, <1>2, WrapOnce, Numbers DEF Elapsed

(* The step of the task that estimates the drift. *)
LEMMA DriftOwn ==
  ASSUME TypeInv, Small, Agree, UNCHANGED << synced, base >>,
         NEW t \in Threads, Change(t) \/ Get(t), doing'[t] = "drift",
         pc[t] # "idle" => Drifting(t)
  PROVE  Drifting(t)'
<1> USE Numbers DEF TypeInv, SharedOK, LocalsOK
<1>1. uptime' = uptime /\ NotRead' = NotRead
  BY DEF NotRead, Change, Get, TimeSetCall, InitCall, KeySetCall, InitTime, StoreSynced,
       StoreBase,
       StoreKey, ClearKey, ClearSynced, ClearBase, DeinitCall, MessageCall, ChallengeCall,
       CheckCall, DriftCall, ExpireCall, ReadLast, ReadSynced, ReadBase, ReadUptime, Derive,
       CheckDevice, CheckResponse, Done, Compute
<1>2. pc[t] = "idle" => read[t].time = 0 /\ read[t].last = NotRead
  BY DEF Placed, Nothing
<1>3. CASE ReadLast(t)
  <2>1. pc[t] = "read_last" /\ pc'[t] = "read_synced"
    BY <1>3 DEF ReadLast, Goto, PlaceOK
  <2>2. read'[t].last = synced /\ read'[t].time = read[t].time
    BY <1>3 DEF ReadLast, Reads
  <2> QED
    BY <2>1, <2>2 DEF Drifting
<1>4. CASE ReadBase(t)
  <2>1. pc[t] = "read_base" /\ pc'[t] = "read_uptime"
    BY <1>4 DEF ReadBase, Goto, PlaceOK
  <2>2. /\ read'[t].base = base /\ read'[t].time = read[t].time
        /\ read'[t].last = read[t].last
    BY <1>4 DEF ReadBase, Reads
  <2> QED
    BY <1>1, <2>1, <2>2 DEF Drifting
<1>5. CASE ReadUptime(t)
  <2>1. pc[t] = "read_uptime" /\ pc'[t] = "compute"
    BY <1>5 DEF ReadUptime, Goto, PlaceOK
  <2>2. read'[t].time = (read[t].base + uptime) % Word /\ read'[t].last = read[t].last
    BY <1>5 DEF ReadUptime, Reads
  <2>3. read[t].base = base /\ synced # 0 /\ read[t].last \in {NotRead, synced}
    BY <2>1 DEF Drifting
  <2>4. base + uptime \in Nat /\ base + uptime < Word
    BY DEF Small
  <2>5. read'[t].time = base + uptime
    BY <2>2, <2>3, <2>4, SmallRemainder
  <2>6. synced <= base + uptime /\ base + uptime <= synced + uptime
    BY <2>3 DEF Agree
  <2> QED
    BY <1>1, <2>1, <2>2, <2>3, <2>5, <2>6 DEF Drifting
<1>6. CASE Compute(t)
  <2>1. pc[t] = "compute" /\ pc'[t] = "done" /\ doing[t] = "drift"
    BY <1>6 DEF Compute, Goto, PlaceOK, Deriving
  <2>2. read[t].last \in {NotRead, synced} /\ read[t].time \in Nat
        /\ synced <= read[t].time /\ read[t].time <= synced + uptime
    BY <2>1 DEF Drifting, Reads
  <2>3. read'[t].result = Elapsed(read[t].time, synced)
    <3>1. (IF read[t].last = NotRead THEN synced ELSE read[t].last) = synced
      BY <2>2
    <3> QED
      BY <1>6, <2>1, <3>1 DEF Compute, Reads, Deriving
  <2>4. read[t].time - synced < Word /\ read[t].time - synced <= uptime
    BY <2>2
  <2>5. read'[t].result <= uptime
    BY <2>2, <2>3, <2>4, ElapsedIs
  <2> QED
    BY <1>1, <2>1, <2>5 DEF Drifting
<1>7. CASE pc[t] = "idle" /\ read' = read /\ pc'[t] \in {"read_last", "read_synced"}
  BY <1>2, <1>7 DEF Drifting, NotRead
<1>8. CASE /\ pc[t] = "read_synced" /\ read' = read
           /\ \/ pc'[t] = "read_base" /\ synced # 0
              \/ pc'[t] = "compute" /\ synced = 0
  BY <1>1, <1>8 DEF Drifting
<1>9. \/ ReadLast(t) \/ (ReadSynced(t) /\ doing' = doing)
      \/ ReadBase(t) \/ ReadUptime(t) \/ Compute(t) \/ DriftCall(t)
  <2>1. Deriving' = Deriving /\ "drift" \notin Deriving /\ "drift" \notin Changing
    BY DEF Deriving, Changing
  <2> QED
    BY <2>1 DEF Begin, Goto, Return, PlaceOK, Placed, Deriving, Change, Get, TimeSetCall,
       InitCall, KeySetCall, InitTime, StoreSynced, StoreBase,
       StoreKey, ClearKey, ClearSynced, ClearBase, DeinitCall, MessageCall, ChallengeCall,
       CheckCall, DriftCall, ExpireCall, ReadLast, ReadSynced, ReadBase, ReadUptime, Derive,
       CheckDevice, CheckResponse, Done, Compute
<1>10. ReadSynced(t) /\ doing' = doing =>
         /\ pc[t] = "read_synced" /\ read' = read
         /\ \/ pc'[t] = "read_base" /\ synced # 0
            \/ pc'[t] = "compute" /\ synced = 0
  BY DEF ReadSynced, Goto, Return, PlaceOK, Placed, Deriving
<1>11. DriftCall(t) => pc[t] = "idle" /\ read' = read /\ pc'[t] \in {"read_last", "read_synced"}
  BY DEF DriftCall, Begin, PlaceOK
<1> QED
  BY <1>3, <1>4, <1>5, <1>6, <1>7, <1>8, <1>9, <1>10, <1>11

LEMMA DriftStep ==
  TypeInv /\ Unraced /\ Small /\ Synced /\ DriftInv /\ [Next]_vars => DriftInv'
<1> SUFFICES ASSUME TypeInv, Unraced, Small, Synced, DriftInv, [Next]_vars,
                    NEW s \in Threads, doing'[s] = "drift", ~raced'[s], ~torn'
             PROVE  Drifting(s)'
  BY DEF DriftInv
<1>1. CASE Tick
  <2>1. UNCHANGED << synced, base, torn, doing, pc, raced, read >> /\ uptime' = uptime + 1
    BY <1>1 DEF Tick, shared, history, locals
  <2>2. Drifting(s)
    BY <2>1 DEF DriftInv
  <2>3. read[s].time \in Nat /\ read[s].result \in Nat /\ uptime \in Nat /\ synced \in Nat
    BY Numbers DEF TypeInv, SharedOK, LocalsOK, Reads
  <2> QED
    BY <2>1, <2>2, <2>3 DEF Drifting, NotRead
<1>2. CASE UNCHANGED vars
  BY <1>2 DEF vars, shared, history, locals, DriftInv, Drifting, NotRead
<1>3. ASSUME NEW t \in Threads, Change(t) \/ Get(t) PROVE Drifting(s)'
  <2>1. uptime' = uptime
    BY <1>3 DEF Change, Get, TimeSetCall, InitCall, KeySetCall, InitTime, StoreSynced,
       StoreBase,
       StoreKey, ClearKey, ClearSynced, ClearBase, DeinitCall, MessageCall, ChallengeCall,
       CheckCall, DriftCall, ExpireCall, ReadLast, ReadSynced, ReadBase, ReadUptime, Derive,
       CheckDevice, CheckResponse, Done, Compute
  <2>2. CASE t # s
    <3>1. doing[s] = "drift" /\ pc'[s] = pc[s] /\ read'[s] = read[s]
      BY <1>3, <2>2, Others, OtherLocals
    <3>2. ~raced[s]
      BY <1>3, <2>2, <3>1, Beginning, Continuing DEF TypeInv, PlaceOK
    <3>3. doing[t] \notin Changing
      BY <2>2, <3>1, <3>2 DEF Unraced
    <3>4. UNCHANGED << synced, base, torn >>
      BY <1>3, <3>3, TimeChange DEF TypeInv, Placed, Changing
    <3>5. Drifting(s)
      BY <3>1, <3>2, <3>4 DEF DriftInv
    <3> QED
      BY <2>1, <3>1, <3>4, <3>5 DEF Drifting, NotRead
  <2>3. CASE t = s
    <3>1. doing[s] \in {"none", "drift"} /\ (pc[s] = "idle" <=> doing[s] = "none")
      BY <1>3, <2>3, Beginning DEF TypeInv, Placed
    <3>2. UNCHANGED << synced, base, torn >>
      BY <1>3, <2>3, <3>1, TimeChange DEF TypeInv, Placed
    <3>3. \A u \in Threads \ {s} : doing[u] \notin Changing
      <4>1. CASE doing[s] = "drift"
        BY <1>3, <2>3, <4>1, Continuing DEF Unraced
      <4>2. CASE doing[s] = "none"
        BY <1>3, <2>3, <4>2, Beginning
      <4> QED
        BY <3>1, <4>1, <4>2
    <3>4. Agree
      <4>1. \A u \in Threads : pc[u] # "store_base"
        BY <3>1, <3>3 DEF TypeInv, Placed, Changing
      <4> QED
        BY <3>2, <4>1 DEF Synced
    <3>5. pc[s] # "idle" => Drifting(s)
      BY <1>3, <2>3, <3>1, <3>2, Continuing DEF DriftInv
    <3> QED
      BY <1>3, <2>3, <3>2, <3>4, <3>5, DriftOwn
  <2> QED
    BY <2>2, <2>3
<1> QED
  BY <1>1, <1>2, <1>3 DEF Next

(* ElapsedBounded of DeviceState: the time elapsed since the last sync, as an *)
(* estimate of the drift that nothing overlapped computes it, does not wrap.  *)
THEOREM ElapsedIsBounded == Spec => []ElapsedBounded
<1> DEFINE Inv == /\ TypeInv /\ Unraced /\ Alone /\ Small /\ Stored /\ Based /\ Synced
                  /\ DriftInv
<1>1. Init => Inv
  <2> SUFFICES ASSUME Init PROVE Inv
    OBVIOUS
  <2>1. Small
    BY Numbers DEF Init, Small, Unset
  <2>2. Unraced /\ Alone /\ Stored /\ Based /\ Synced /\ DriftInv
    BY DEF Init, Unraced, Alone, AloneCalls, Stored, Based, Synced, Agree, DriftInv
  <2> QED
    BY <2>1, <2>2, TypeInit
<1>2. Inv /\ [Next]_vars => Inv'
  BY TypeNext, UnracedStep, AloneStep, SmallStep, StoredStep, BasedStep, SyncedStep,
       DriftStep
<1>3. Inv => ElapsedBounded
  BY DEF DriftInv, Drifting, ElapsedBounded
<1> QED
  BY <1>1, <1>2, <1>3, PTL DEF Spec


-----------------------------------------------------------------------------
(* Division, for the rotation period and the pool of counters.               *)

LEMMA DivMod ==
  ASSUME NEW a \in Nat, NEW b \in Nat \ {0}
  PROVE  /\ a \div b \in Nat /\ a % b \in Nat /\ a % b < b
         /\ a = b * (a \div b) + (a % b)
OBVIOUS

(* A multiple that exceeds another one exceeds it by a whole divisor.        *)
LEMMA Multiples ==
  ASSUME NEW b \in Nat \ {0}, NEW q \in Nat, NEW k \in Nat, q < k
  PROVE  b * q + b <= b * k
<1>1. PICK d \in Nat : k = q + 1 + d
  <2>1. k - q - 1 \in Nat /\ k = q + 1 + (k - q - 1)
    OBVIOUS
  <2> QED
    BY <2>1
<1>2. b * k = b * q + b + b * d
  BY <1>1
<1>3. b * d \in Nat /\ b * q \in Nat
  OBVIOUS
<1> QED
  BY <1>2, <1>3

(* The quotient and the remainder are the only ones.                         *)
LEMMA OneQuotient ==
  ASSUME NEW b \in Nat \ {0}, NEW q \in Nat, NEW r \in Nat, r < b
  PROVE  (b * q + r) \div b = q /\ (b * q + r) % b = r
<1>1. PICK x \in Nat : x = b * q
  OBVIOUS
<1>2. PICK a \in Nat : a = x + r
  OBVIOUS
<1>3. PICK k \in Nat : k = a \div b
  BY DivMod
<1>4. PICK s \in Nat : s = a % b /\ s < b
  BY DivMod
<1>5. PICK y \in Nat : y = b * k
  OBVIOUS
<1>6. x + r = y + s
  BY <1>2, <1>3, <1>4, <1>5, DivMod
<1>7. ~(k < q)
  <2> SUFFICES ASSUME k < q PROVE FALSE
    OBVIOUS
  <2>1. y + b <= x
    BY <1>1, <1>5, Multiples
  <2> QED
    BY <1>4, <1>6, <2>1
<1>8. ~(q < k)
  <2> SUFFICES ASSUME q < k PROVE FALSE
    OBVIOUS
  <2>1. x + b <= y
    BY <1>1, <1>5, Multiples
  <2> QED
    BY <1>6, <2>1
<1>9. k = q
  BY <1>7, <1>8
<1> QED
  BY <1>1, <1>2, <1>3, <1>4, <1>5, <1>6, <1>9

(* Wrapping at a multiple of the pool does not show in the pool.             *)
LEMMA PoolOfWord ==
  ASSUME NEW n \in Nat
  PROVE  (n % Word) % Pool = n % Pool
<1>0. Pool \in Nat \ {0} /\ Word \in Nat \ {0} /\ Word % Pool = 0
  BY Numbers, DeviceStateAssumption
<1>1. PICK m \in Nat : Word = Pool * m
  <2>1. Word = Pool * (Word \div Pool) + 0 /\ Word \div Pool \in Nat
    BY <1>0, DivMod
  <2> QED
    BY <1>0, <2>1
<1>2. PICK k \in Nat, s \in Nat : n = Word * k + s /\ s = n % Word
  BY <1>0, DivMod
<1>3. PICK j \in Nat, u \in Nat : s = Pool * j + u /\ u = s % Pool /\ u < Pool
  BY <1>0, DivMod
<1>4. PICK z \in Nat : z = m * k
  OBVIOUS
<1>5. Word * k = Pool * z
  BY <1>0, <1>1, <1>4
<1>6. PICK y \in Nat : y = z + j
  OBVIOUS
<1>7. Pool * y = Pool * z + Pool * j
  BY <1>0, <1>6
<1>8. n = Pool * y + u
  <2>1. PICK a \in Nat : a = Pool * z
    BY <1>0
  <2>2. PICK b \in Nat : b = Pool * j
    BY <1>0
  <2>3. n = a + s /\ s = b + u
    BY <1>2, <1>3, <1>5, <2>1, <2>2
  <2>4. Pool * y = a + b
    BY <1>7, <2>1, <2>2
  <2> QED
    BY <2>3, <2>4
<1>9. (Pool * y + u) % Pool = u
  BY <1>0, <1>3, OneQuotient
<1> QED
  BY <1>2, <1>3, <1>8, <1>9

(* Successive counters differ in a pool of two or more.                      *)
LEMMA PoolNext ==
  ASSUME NEW n \in Nat
  PROVE  n % Pool # (n + 1) % Pool
<1>0. Pool \in Nat \ {0} /\ Pool >= 2
  BY DeviceStateAssumption
<1> SUFFICES ASSUME n % Pool = (n + 1) % Pool PROVE FALSE
  OBVIOUS
<1>1. PICK k \in Nat, u \in Nat : n = Pool * k + u /\ u = n % Pool
  BY <1>0, DivMod
<1>2. PICK j \in Nat : n + 1 = Pool * j + u
  <2>1. n + 1 \in Nat /\ (n + 1) % Pool = u
    BY <1>1
  <2> QED
    BY <1>0, <2>1, DivMod
<1>3. PICK x \in Nat, y \in Nat : x = Pool * k /\ y = Pool * j
  BY <1>0
<1>4. y = x + 1
  BY <1>1, <1>2, <1>3
<1>5. CASE j = k
  BY <1>3, <1>4, <1>5
<1>6. CASE k < j
  BY <1>0, <1>3, <1>4, <1>6, Multiples
<1>7. CASE j < k
  BY <1>0, <1>3, <1>4, <1>7, Multiples
<1> QED
  BY <1>5, <1>6, <1>7

-----------------------------------------------------------------------------
(* The expiration of an advertisement.                                       *)

(* The time to the end of the period: until then the number of the period    *)
(* stays, and then it is the next one.                                       *)
LEMMA PeriodEnds ==
  ASSUME NEW now \in Nat
  PROVE  /\ Expiration(now) \in 1 .. Period
         /\ \A later \in now .. now + Expiration(now) - 1 :
              later \in Nat /\ later \div Period = now \div Period
         /\ now + Expiration(now) \in Nat
         /\ (now + Expiration(now)) \div Period = now \div Period + 1
<1>0. Period \in Nat \ {0}
  BY Numbers
<1>1. PICK q \in Nat, r \in Nat :
        now = Period * q + r /\ q = now \div Period /\ r = now % Period /\ r < Period
  BY <1>0, DivMod
<1>2. Expiration(now) = Period - r
  BY <1>1 DEF Expiration
<1>3. PICK x \in Nat : x = Period * q
  BY <1>0
<1>4. ASSUME NEW later \in now .. now + Expiration(now) - 1
      PROVE  later \in Nat /\ later \div Period = now \div Period
  <2>1. later \in Nat /\ x + r <= later /\ later < x + Period
    <3>1. PICK e \in Nat : e = Expiration(now) /\ e = Period - r
      BY <1>0, <1>1, <1>2
    <3>2. later \in now .. now + e - 1 /\ now = x + r
      BY <1>1, <1>3, <3>1
    <3> QED
      BY <1>0, <3>1, <3>2
  <2>2. PICK s \in Nat : later = x + s /\ s < Period
    <3>1. later - x \in Nat /\ later = x + (later - x) /\ later - x < Period
      BY <1>0, <1>1, <1>3, <2>1
    <3> QED
      BY <3>1
  <2>3. (x + s) \div Period = q
    BY <1>0, <1>3, <2>2, OneQuotient
  <2> QED
    BY <1>1, <2>1, <2>2, <2>3
<1>5. now + Expiration(now) = Period * (q + 1) + 0
  <2>1. Period * (q + 1) = x + Period
    BY <1>0, <1>3
  <2> QED
    BY <1>0, <1>1, <1>2, <1>3, <2>1
<1>6. (Period * (q + 1) + 0) \div Period = q + 1
  BY <1>0, OneQuotient
<1>7. now + Expiration(now) \in Nat /\ Expiration(now) \in 1 .. Period
  BY <1>0, <1>1, <1>2
<1> QED
  BY <1>1, <1>4, <1>5, <1>6, <1>7

(* The counter follows the number of the period, for either source.          *)
LEMMA CounterFollows ==
  ASSUME eid \in Nat, NEW time \in Nat, NEW later \in Nat
  PROVE  /\ later \div Period = time \div Period => Counter(later) = Counter(time)
         /\ later \div Period = time \div Period + 1 => Counter(later) # Counter(time)
<1>1. PICK q \in Nat : q = time \div Period
  BY Numbers, DivMod
<1>2. CASE source = "uptime"
  <2>1. Counter(time) = (eid + q) % Pool
    BY <1>1, <1>2, PoolOfWord DEF Counter
  <2>2. ASSUME later \div Period = q + 1 PROVE Counter(later) = ((eid + q) + 1) % Pool
    <3>1. Counter(later) = ((eid + (q + 1)) % Word) % Pool
      BY <1>2, <2>2 DEF Counter
    <3>2. eid + (q + 1) = (eid + q) + 1 /\ eid + (q + 1) \in Nat
      BY <1>1
    <3> QED
      BY <3>1, <3>2, PoolOfWord
  <2>3. (eid + q) % Pool # ((eid + q) + 1) % Pool
    BY <1>1, PoolNext
  <2> QED
    BY <1>1, <1>2, <2>1, <2>2, <2>3 DEF Counter
<1>3. CASE source # "uptime"
  BY <1>1, <1>3 DEF Counter
<1> QED
  BY <1>2, <1>3

(* What a call of hubble_ble_advertise_expiration_get returns.               *)
ExpireInv ==
  \A t \in Threads :
    pc[t] = "done" /\ doing[t] = "expire" => read[t].result = Expiration(read[t].time)

LEMMA ExpireCompute ==
  ASSUME TypeInv, NEW t \in Threads, Compute(t), doing[t] = "expire"
  PROVE  read'[t].result = Expiration(read'[t].time)
<1>1. PICK value : read' =
        [ read EXCEPT ![t].last = NotRead,
                      ![t].time = IF doing[t] = "expire" THEN @ ELSE 0,
                      ![t].result = value ]
         /\ value = Expiration(read[t].time)
  BY DEF Compute, Deriving
<1>2. read'[t].result = value /\ read'[t].time = read[t].time
  BY <1>1 DEF TypeInv, LocalsOK, Reads
<1> QED
  BY <1>1, <1>2

LEMMA ExpireStep == TypeInv /\ ExpireInv /\ [Next]_vars => ExpireInv'
<1> SUFFICES ASSUME TypeInv, ExpireInv, [Next]_vars,
                    NEW s \in Threads, pc'[s] = "done", doing'[s] = "expire"
             PROVE  read'[s].result = Expiration(read'[s].time)
  BY DEF ExpireInv, Expiration
<1>1. CASE UNCHANGED << doing, pc, read >>
  BY <1>1 DEF ExpireInv
<1>2. ASSUME NEW t \in Threads, Change(t) \/ Get(t)
      PROVE  read'[s].result = Expiration(read'[s].time)
  <2>1. CASE t # s
    <3>1. doing[s] = "expire" /\ pc[s] = "done" /\ read'[s] = read[s]
      BY <1>2, <2>1, Others, OtherLocals
    <3> QED
      BY <3>1 DEF ExpireInv
  <2>2. CASE t = s
    <3>1. Compute(t) /\ doing[t] = "expire"
      <4>1. Compute(t)
        BY <1>2, <2>2
           DEF TypeInv, PlaceOK, Placed, Change, Get, Begin, Goto, Return, FirstRead,
               Deriving, Changing, TimeSetCall,
               InitCall, KeySetCall, InitTime, StoreSynced, StoreBase,
               StoreKey, ClearKey, ClearSynced, ClearBase, DeinitCall, MessageCall,
               ChallengeCall, CheckCall, DriftCall, ExpireCall, ReadLast, ReadSynced,
               ReadBase, ReadUptime, Derive, CheckDevice, CheckResponse, Done
      <4> QED
        BY <2>2, <4>1 DEF Compute, Goto
    <3> QED
      BY <2>2, <3>1, ExpireCompute
  <2> QED
    BY <2>1, <2>2
<1> QED
  BY <1>1, <1>2 DEF Next, Tick, vars, locals

(* For any period, pool and source, any number of tasks and any change of    *)
(* the state meanwhile: the counter an advertisement is derived from stays   *)
(* for exactly the time that hubble_ble_advertise_expiration_get returns.    *)
THEOREM ExpiresExactly == Spec => []ExpiresWithPeriod
<1>1. Init => ExpireInv
  BY DEF Init, ExpireInv
<1>2. TypeInv /\ ExpireInv => ExpiresWithPeriod
  <2> SUFFICES ASSUME TypeInv, ExpireInv, NEW t \in Threads,
                      pc[t] = "done", doing[t] = "expire"
               PROVE  LET now == read[t].time
                          rest == read[t].result
                      IN  /\ \A later \in now .. now + rest - 1 : Counter(later) = Counter(now)
                          /\ Counter(now + rest) # Counter(now)
    BY DEF ExpiresWithPeriod
  <2>1. PICK now \in Nat : now = read[t].time /\ read[t].result = Expiration(now)
    BY DEF TypeInv, LocalsOK, Reads, ExpireInv
  <2>2. eid \in Nat
    BY DEF TypeInv, SharedOK
  <2>3. \A later \in now .. now + Expiration(now) - 1 : Counter(later) = Counter(now)
    BY <2>2, PeriodEnds, CounterFollows
  <2>4. Counter(now + Expiration(now)) # Counter(now)
    BY <2>2, PeriodEnds, CounterFollows
  <2> QED
    BY <2>1, <2>3, <2>4
<1> QED
  BY TypeInit, TypeNext, ExpireStep, <1>1, <1>2, PTL DEF Spec

-----------------------------------------------------------------------------
(* The uptime that all of the above reads, as FreeRTOS keeps it: TickUptime. *)

(* Reading x with carry b is followed by reading y with carry c, less than a *)
(* turn of the tick counter later.                                           *)
Follows(b, x, c, y) ==
  \/ c = b /\ x <= y
  \/ c = b + Wrap /\ y < x

(* Where the call of t stands: how its reading relates to the statics.       *)
Progress(t) ==
  /\ this_ticks[t] <= asked[t]
  /\ asked[t] = polled
  /\ place[t] = "compare" =>
       Follows(overflow_ticks, last_ticks, asked[t] - this_ticks[t], this_ticks[t])
  /\ place[t] \in {"carry_load", "carry_store"} =>
       asked[t] = overflow_ticks + Wrap + this_ticks[t]
  /\ place[t] = "carry_store" => seen[t] = overflow_ticks
  /\ place[t] \in {"store_last", "sum", "done"} =>
       asked[t] = overflow_ticks + this_ticks[t]
  /\ place[t] \in {"sum", "done"} => last_ticks = this_ticks[t]
  /\ place[t] = "done" => result[t] = asked[t]

(* The part of polled that the tick counter showed when it was read.         *)
PolledTicks(t) == IF place[t] = "idle" THEN last_ticks ELSE this_ticks[t]

TicksInv ==
  /\ TypeOK
  /\ ticks <= total
  /\ \A t \in Callers :
       /\ PolledTicks(t) <= polled
       /\ Follows(polled - PolledTicks(t), PolledTicks(t), total - ticks, ticks)
       /\ place[t] = "idle" => polled = overflow_ticks + last_ticks
       /\ place[t] # "idle" => Progress(t)

(* The application the check is exact for.                                   *)
SingleCaller ==
  /\ Polled
  /\ \A t, u \in Callers : t = u

-----------------------------------------------------------------------------
LEMMA FirstTicks == TicksInit => TicksInv
  BY TickUptimeAssumption
     DEF TicksInit, TicksInv, TypeOK, CallPlaces, Follows, PolledTicks, Progress

(* A tick keeps the last reading less than a turn behind.                    *)
LEMMA NextTick == SingleCaller /\ TicksInv /\ SysTick => TicksInv'
<1> SUFFICES ASSUME SingleCaller, TicksInv, SysTick PROVE TicksInv'
  OBVIOUS
<1>1. TypeOK' /\ (ticks <= total)'
  BY TickUptimeAssumption DEF TicksInv, TypeOK, SysTick, statics, calls
<1>2. ASSUME NEW t \in Callers
      PROVE  (/\ PolledTicks(t) <= polled
              /\ Follows(polled - PolledTicks(t), PolledTicks(t), total - ticks, ticks)
              /\ place[t] = "idle" => polled = overflow_ticks + last_ticks
              /\ place[t] # "idle" => Progress(t))'
  <2>1. PolledTicks(t)' = PolledTicks(t) /\ Progress(t)' = Progress(t)
    BY <1>2 DEF SysTick, PolledTicks, Progress, statics, calls, Follows
  <2>2. PolledTicks(t) \in 0 .. Wrap - 1
    BY <1>2 DEF TicksInv, TypeOK, PolledTicks
  <2>3. total + 1 < polled + Wrap
    BY DEF SingleCaller, SysTick
  <2>4. Follows(polled - PolledTicks(t), PolledTicks(t), total' - ticks', ticks')
    BY <1>2, <2>2, <2>3, TickUptimeAssumption DEF TicksInv, TypeOK, SysTick, Follows
  <2> QED
    BY <1>2, <2>1, <2>4 DEF TicksInv, SysTick, statics, calls
<1> QED
  BY <1>1, <1>2 DEF TicksInv

LEMMA NextCall ==
  ASSUME SingleCaller, TicksInv, \E t \in Callers : UptimeGet(t)
  PROVE  TicksInv'
<1> SUFFICES ASSUME TicksInv, NEW t \in Callers, UptimeGet(t)
             PROVE  TicksInv'
  OBVIOUS
<1>1. \A u \in Callers : u = t
  BY DEF SingleCaller
<1>w. Wrap \in Nat \ {0}
  BY TickUptimeAssumption
<1> USE <1>w DEF TicksInv, TypeOK, CallPlaces, Move, statics
<1> DEFINE Here == /\ PolledTicks(t) <= polled
                   /\ Follows(polled - PolledTicks(t), PolledTicks(t), total - ticks, ticks)
                   /\ place[t] = "idle" => polled = overflow_ticks + last_ticks
                   /\ place[t] # "idle" => Progress(t)
<1>2. SUFFICES TypeOK' /\ Here' /\ (ticks <= total)'
  BY <1>1
<1> USE DEF PolledTicks, Follows, Progress
<1>3. CASE ReadTicks(t)
  BY <1>3 DEF ReadTicks
<1>4. CASE Compare(t)
  <2>1. CASE this_ticks[t] < last_ticks
    BY <1>4, <2>1 DEF Compare
  <2>2. CASE ~(this_ticks[t] < last_ticks)
    BY <1>4, <2>2 DEF Compare
  <2> QED
    BY <2>1, <2>2
<1>5. CASE CarryLoad(t)
  BY <1>5 DEF CarryLoad
<1>6. CASE CarryStore(t)
  BY <1>6 DEF CarryStore
<1>7. CASE StoreLast(t)
  BY <1>7 DEF StoreLast
<1>8. CASE Sum(t)
  BY <1>8 DEF Sum
<1>9. CASE ReturnUptime(t)
  BY <1>9 DEF ReturnUptime
<1> QED
  BY <1>3, <1>4, <1>5, <1>6, <1>7, <1>8, <1>9 DEF UptimeGet

(* The uptime of a single caller that asks at least once in every turn of    *)
(* the tick counter is exact.                                                *)
THEOREM ExactForOneCaller ==
  ASSUME SingleCaller
  PROVE  TicksSpec => []UptimeExact
<1>1. TicksInv /\ UNCHANGED ticks_vars => TicksInv'
  BY DEF TicksInv, TypeOK, ticks_vars, statics, calls, Progress,
         PolledTicks, Follows
<1>2. TicksInv /\ [TicksNext]_ticks_vars => TicksInv'
  BY <1>1, NextTick, NextCall DEF TicksNext
<1>3. TicksInv => UptimeExact
  BY DEF TicksInv, Progress, UptimeExact
<1> QED
  BY FirstTicks, <1>2, <1>3, PTL DEF TicksSpec
=============================================================================
