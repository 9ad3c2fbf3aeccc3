-------------------------- MODULE SatPacketProofs ---------------------------
(***************************************************************************)
(* For any number of transmitting tasks and any messages: the header of a  *)
(* packet predicts the channels of its frames, the frames of all packets   *)
(* go round the channels in turn, a packet is a codeword from which its    *)
(* message is read back, and the frames give back their packet.            *)
(*                                                                         *)
(* The walk through the channels comes first; then the code and the bits   *)
(* of a packet, which need no state; then the tasks that make packets and  *)
(* frames at the same time. What recursion computes is proved by induction *)
(* over sets of naturals (Induction), which rests on the pigeonhole        *)
(* principle.                                                              *)
(***************************************************************************)
EXTENDS SatPacket, FiniteSetTheorems, TLAPS

-----------------------------------------------------------------------------
(* The walk of the frames through the channels.                              *)

(* Where a task holds the SDK lock: hubble_sat_packet_frames_get, and the    *)
(* encoding in hubble_sat_packet_get.                                        *)
Critical == {"locked", "find", "take", "done", "holding", "filled"}
Outside == {"idle", "waiting", "assembled"}

TypeInv ==
  /\ hopping_sequence \in Rows
  /\ last_used_channel \in Channels
  /\ pc \in [ Threads -> Outside \cup Critical ]
  /\ idx \in [ Threads -> Channels ]
  /\ hop \in [ Threads -> Rows ]
  /\ channels \in [ Threads -> Seq(Channels) ]

(* The channels of a sequence follow each other in a row.                    *)
Consecutive(row, list) ==
  \A i \in 1 .. Len(list) - 1 : list[i + 1] = After(row, list[i])

LockInv(t) ==
  /\ pc[t] \in Critical => lock = t
  /\ pc[t] \notin {"find", "take", "done"} => channels[t] = << >>

(* What the task in the critical section knows of the shared walk.           *)
WalkInv(t) ==
  /\ pc[t] \in {"find", "take", "done"} => hop[t] = hopping_sequence
  /\ pc[t] = "take" =>
       idx[t] = (ChannelIdx(hopping_sequence, last_used_channel) + 1) % NumChannels
  /\ channels[t] # << >> /\ pc[t] # "idle" =>
       channels[t][Len(channels[t])] = last_used_channel
  /\ Consecutive(hop[t], channels[t])

Inv ==
  /\ TypeInv
  /\ \A t \in Threads : LockInv(t) /\ WalkInv(t)

-----------------------------------------------------------------------------
LEMMA Constants ==
  /\ NumChannels \in Nat /\ NumChannels > 1
  /\ Hops \in [ Rows -> [ Channels -> Channels ] ]
  /\ \A r \in Rows, c \in Channels : \E i \in Channels : Hops[r][i] = c
  /\ NoThread \notin Threads
<1>1. NumChannels \in Nat /\ NumChannels > 1 /\ NoThread \notin Threads
  BY ChannelHoppingAssumption DEF ChannelHoppingAssumption
<1>2. Hops \in [ Rows -> [ Channels -> Channels ] ]
  BY ChannelHoppingAssumption, Zenon DEF ChannelHoppingAssumption, Channels
<1>3. \A r \in Rows, c \in Channels : \E i \in Channels : Hops[r][i] = c
  BY ChannelHoppingAssumption, Zenon DEF ChannelHoppingAssumption, Channels
<1> QED
  BY <1>1, <1>2, <1>3

LEMMA IdxInRange ==
  ASSUME NEW row \in Rows, NEW channel \in Channels
  PROVE  (ChannelIdx(row, channel) + 1) % NumChannels \in Channels
<1>1. ChannelIdx(row, channel) \in Channels
  BY Constants DEF ChannelIdx
<1>2. \A i \in Channels : i + 1 \in Nat
  BY DEF Channels
<1>3. \A n \in Nat : n % NumChannels \in 0 .. NumChannels - 1
  BY Constants
<1> QED
  BY <1>1, <1>2, <1>3 DEF Channels

LEMMA HopInRange ==
  ASSUME NEW row \in Rows, NEW i \in Channels
  PROVE  Hops[row][i] \in Channels
<1>1. Hops \in [ Rows -> [ Channels -> Channels ] ]
  BY Constants
<1>2. Hops[row] \in [ Channels -> Channels ]
  BY <1>1
<1> QED
  BY <1>2

LEMMA Empty == \A row : Consecutive(row, << >>)
  BY DEF Consecutive

(* A walk stays a walk when the channel after its last one is appended.      *)
LEMMA AppendConsecutive ==
  ASSUME NEW row, NEW list \in Seq(Channels), NEW channel \in Channels,
         Consecutive(row, list),
         list # << >> => channel = After(row, list[Len(list)])
  PROVE  Consecutive(row, Append(list, channel))
<1> SUFFICES ASSUME NEW i \in 1 .. Len(list)
             PROVE  Append(list, channel)[i + 1] = After(row, Append(list, channel)[i])
  BY DEF Consecutive
<1>1. Append(list, channel)[i] = list[i]
  OBVIOUS
<1>2. CASE i = Len(list)
  BY <1>1, <1>2
<1>3. CASE i < Len(list)
  <2>1. Append(list, channel)[i + 1] = list[i + 1]
    BY <1>3
  <2>2. i \in 1 .. Len(list) - 1
    BY <1>3
  <2> QED
    BY <1>1, <2>1, <2>2 DEF Consecutive
<1> QED
  BY <1>2, <1>3

LEMMA InvInit == Init => Inv
<1> SUFFICES ASSUME Init PROVE Inv
  OBVIOUS
<1>1. NumChannels - 1 \in Channels /\ 0 \in Channels
  BY Constants DEF Channels
<1>2. TypeInv
  BY <1>1, HopInRange DEF Init, TypeInv, Outside
<1> QED
  BY <1>2 DEF Init, Inv, LockInv, WalkInv, Consecutive, Critical

LEMMA InvSequenceSet ==
  ASSUME Inv, NEW t \in Threads, SequenceSet(t)
  PROVE  Inv'
<1>1. \A u \in Threads : pc[u] = "idle"
  BY DEF SequenceSet, Alone
<1>2. NumChannels - 1 \in Channels
  BY Constants DEF Channels
<1>3. TypeInv'
  BY <1>2, HopInRange DEF SequenceSet, Inv, TypeInv
<1>4. \A u \in Threads : channels'[u] = << >> /\ pc'[u] = "idle"
  BY <1>1 DEF Inv, LockInv, SequenceSet
<1> QED
  BY <1>3, <1>4 DEF Inv, LockInv, WalkInv, Consecutive, Critical

(* One frame: the channel taken is the one after the last one used, and no   *)
(* other task is in the middle of a packet.                                  *)
LEMMA InvChannelTake ==
  ASSUME Inv, NEW t \in Threads, ChannelTake(t)
  PROVE  Inv'
<1> DEFINE channel == Hops[hopping_sequence][idx[t]]
<1>1. channel \in Channels
  BY HopInRange DEF Inv, TypeInv
<1>2. /\ pc[t] = "take" /\ lock = t
      /\ channels' = [ channels EXCEPT ![t] = Append(channels[t], channel) ]
      /\ last_used_channel' = channel
      /\ UNCHANGED << hopping_sequence, lock, idx, hop >>
  <2>1. pc[t] = "take" /\ lock = t
    BY DEF Inv, LockInv, Critical, ChannelTake, Goto
  <2>2. last_used_channel' = channel
    BY DEF ChannelTake
  <2>3. channels' = [ channels EXCEPT ![t] = Append(channels[t], channel) ]
    BY <2>2 DEF ChannelTake
  <2> QED
    BY <2>1, <2>2, <2>3 DEF ChannelTake
<1>3. /\ pc' \in [ Threads -> Outside \cup Critical ]
      /\ pc'[t] \in {"find", "done"}
      /\ \A u \in Threads \ {t} : pc'[u] = pc[u]
  <2>1. \E to \in {"find", "done"} : pc' = [ pc EXCEPT ![t] = to ]
    BY DEF ChannelTake, Goto
  <2> QED
    BY <2>1 DEF Inv, TypeInv, Critical
<1>4. TypeInv'
  <2>1. \A list \in Seq(Channels) : Append(list, channel) \in Seq(Channels)
    BY <1>1
  <2>2. channels' \in [ Threads -> Seq(Channels) ]
    BY <1>2, <2>1 DEF Inv, TypeInv
  <2> HIDE DEF channel
  <2> QED
    BY <1>1, <1>2, <1>3, <2>2 DEF Inv, TypeInv
<1>5. channels[t] \in Seq(Channels)
  BY DEF Inv, TypeInv
<1>6. channels'[t] = Append(channels[t], channel)
  BY <1>2 DEF Inv, TypeInv
<1>7. hop[t] = hopping_sequence /\ Consecutive(hop[t], channels[t])
  BY <1>2 DEF Inv, WalkInv
<1>8. channels[t] # << >> => channel = After(hop[t], channels[t][Len(channels[t])])
  BY <1>2, <1>7 DEF Inv, WalkInv, After
<1>9. Consecutive(hop[t], Append(channels[t], channel))
  BY <1>1, <1>5, <1>7, <1>8, AppendConsecutive
<1>10. LockInv(t)' /\ WalkInv(t)'
  <2>1. channels'[t][Len(channels'[t])] = channel
    BY <1>1, <1>5, <1>6
  <2>2. Consecutive(hop[t], channels[t])'
    <3>1. Consecutive(hop'[t], channels'[t])
      BY <1>2, <1>6, <1>9
    <3> QED
      BY <3>1
  <2> QED
    BY <1>2, <1>3, <1>7, <2>1, <2>2 DEF LockInv, WalkInv, Critical
<1>11. ASSUME NEW u \in Threads, u # t
       PROVE  LockInv(u)' /\ WalkInv(u)'
  <2>1. pc[u] \notin Critical
    BY <1>2, <1>11 DEF Inv, LockInv
  <2>2. channels[u] = << >> /\ channels'[u] = << >>
    BY <1>2, <1>11, <2>1 DEF Inv, LockInv, TypeInv, Critical
  <2> QED
    BY <1>2, <1>3, <1>11, <2>1, <2>2 DEF LockInv, WalkInv, Consecutive, Critical
<1> QED
  BY <1>4, <1>10, <1>11 DEF Inv

(* The steps that leave the walk where it is.                                *)
LEMMA InvOther ==
  ASSUME Inv, NEW t \in Threads,
         FramesCall(t) \/ Lock(t) \/ ReadHop(t) \/ ChannelFind(t) \/ Unlock(t)
  PROVE  Inv'
<1>1. /\ UNCHANGED hopping
      /\ \A u \in Threads \ {t} :
           /\ pc'[u] = pc[u] /\ idx'[u] = idx[u] /\ hop'[u] = hop[u]
           /\ channels'[u] = channels[u]
  BY DEF FramesCall, Lock, ReadHop, ChannelFind, Unlock, Goto, locals, Inv, TypeInv
<1>2. TypeInv'
  <2>1. (ChannelIdx(hopping_sequence, last_used_channel) + 1) % NumChannels \in Channels
    BY IdxInRange DEF Inv, TypeInv
  <2>2. 0 \in Channels
    BY Constants DEF Channels
  <2>3. CASE FramesCall(t) \/ Lock(t) \/ ReadHop(t)
    BY <2>3 DEF FramesCall, Lock, ReadHop, Goto, locals, Inv, TypeInv, Critical, Outside,
                hopping
  <2>4. CASE ChannelFind(t)
    BY <2>1, <2>4 DEF ChannelFind, Goto, Inv, TypeInv, Critical, hopping
  <2>5. CASE Unlock(t)
    BY <2>2, <2>5 DEF Unlock, Goto, Inv, TypeInv, Critical, Outside, hopping
  <2> QED
    BY <2>3, <2>4, <2>5
<1>3. LockInv(t)' /\ \A u \in Threads \ {t} : LockInv(u)'
  <2> USE DEF Inv, TypeInv, LockInv, Critical
  <2>1. CASE FramesCall(t)
    BY <2>1 DEF FramesCall, Goto
  <2>2. CASE Lock(t)
    BY <2>2, Constants DEF Lock, Goto, locals
  <2>3. CASE ReadHop(t) \/ ChannelFind(t)
    BY <2>3 DEF ReadHop, ChannelFind, Goto
  <2>4. CASE Unlock(t)
    BY <2>4 DEF Unlock, Goto
  <2> QED
    BY <2>1, <2>2, <2>3, <2>4
<1>4. WalkInv(t)'
  <2>1. ASSUME Consecutive(hop'[t], channels'[t]) PROVE Consecutive(hop[t], channels[t])'
    BY <2>1
  <2>2. Consecutive(hop'[t], channels'[t])
    BY Empty DEF FramesCall, Lock, ReadHop, ChannelFind, Unlock, Goto, locals, Inv,
         TypeInv, LockInv, WalkInv, Critical
  <2> QED
    BY <2>1, <2>2, <1>1
       DEF FramesCall, Lock, ReadHop, ChannelFind, Unlock, Goto, locals, Inv, TypeInv,
           LockInv, WalkInv, Critical, hopping
<1>5. ASSUME NEW u \in Threads, u # t PROVE WalkInv(u)'
  BY <1>1, <1>5 DEF Inv, WalkInv, hopping
<1> QED
  BY <1>2, <1>3, <1>4, <1>5 DEF Inv

(* The steps of a packet that is made leave the walk alone, too.             *)
MakePacket(t) == PacketCall(t) \/ PacketLock(t) \/ PacketCopy(t) \/ PacketUnlock(t)

LEMMA InvMakePacket ==
  ASSUME Inv, NEW t \in Threads, MakePacket(t)
  PROVE  Inv'
<1>1. /\ UNCHANGED << hopping, locals >>
      /\ \E to \in {"idle", "assembled", "holding", "filled"} : pc' = [ pc EXCEPT ![t] = to ]
      /\ pc[t] \in {"idle", "assembled", "holding", "filled"}
  BY DEF MakePacket, PacketCall, PacketLock, PacketCopy, PacketUnlock, Goto
<1>2. \A u \in Threads \ {t} : pc'[u] = pc[u]
  BY <1>1 DEF Inv, TypeInv
<1>3. pc'[t] \in {"idle", "assembled", "holding", "filled"}
  BY <1>1 DEF Inv, TypeInv
<1>4. TypeInv'
  BY <1>1 DEF Inv, TypeInv, hopping, locals, Critical, Outside
<1>5. \A u \in Threads : pc'[u] \in Critical => lock' = u
  <2> USE DEF Inv, LockInv, TypeInv, Critical, Goto
  <2>1. CASE PacketCall(t)
    BY <1>2, <2>1 DEF PacketCall
  <2>2. CASE PacketLock(t)
    BY <1>2, <2>2, Constants DEF PacketLock
  <2>3. CASE PacketCopy(t)
    BY <1>2, <2>3 DEF PacketCopy
  <2>4. CASE PacketUnlock(t)
    BY <1>2, <2>4 DEF PacketUnlock
  <2> QED
    BY <2>1, <2>2, <2>3, <2>4 DEF MakePacket
<1>6. ASSUME NEW u \in Threads PROVE LockInv(u)' /\ WalkInv(u)'
  <2>1. /\ channels'[u] = channels[u] /\ hop'[u] = hop[u] /\ idx'[u] = idx[u]
        /\ hopping_sequence' = hopping_sequence /\ last_used_channel' = last_used_channel
    BY <1>1 DEF hopping, locals
  <2>2. CASE u = t
    <3>1. channels[t] = << >> /\ channels'[t] = << >>
      BY <1>1, <2>1, <2>2 DEF Inv, LockInv
    <3> QED
      BY <1>3, <1>5, <2>1, <2>2, <3>1, Empty DEF LockInv, WalkInv, Consecutive
  <2>3. CASE u # t
    <3>1. pc'[u] = pc[u]
      BY <1>2, <2>3
    <3> QED
      BY <1>5, <2>1, <3>1 DEF Inv, LockInv, WalkInv
  <2> QED
    BY <2>2, <2>3
<1> QED
  BY <1>4, <1>6 DEF Inv

(* A step of PacketNext is one of Next, or one of a packet that is made.     *)
LEMMA PacketStep ==
  ASSUME [PacketNext]_allVars
  PROVE  [Next]_vars \/ \E t \in Threads : MakePacket(t)
<1>1. CASE UNCHANGED allVars
  BY <1>1 DEF allVars
<1>2. ASSUME NEW t \in Threads,
             SequenceSet(t) \/ FramesOfPacket(t) \/ Lock(t) \/ ReadHop(t) \/ NextChannel(t)
               \/ FillFrame(t) \/ FramesUnlock(t)
      PROVE  Next
  BY <1>2 DEF FramesOfPacket, NextChannel, FillFrame, FramesUnlock, Next
<1>3. ASSUME NEW t \in Threads,
             OneFramePacket(t) \/ Generate(t) \/ EncodeParity(t) \/ HeaderCopy(t)
      PROVE  UNCHANGED vars
  BY <1>3 DEF OneFramePacket, Generate, EncodeParity, HeaderCopy
<1> QED
  BY <1>1, <1>2, <1>3 DEF PacketNext, MakePacket

LEMMA InvNext == Inv /\ [Next]_vars => Inv'
<1>1. Inv /\ UNCHANGED vars => Inv'
  BY DEF Inv, TypeInv, LockInv, WalkInv, vars, hopping, locals
<1> QED
  BY <1>1, InvSequenceSet, InvChannelTake, InvOther DEF Next

LEMMA InvPacketNext == Inv /\ [PacketNext]_allVars => Inv'
BY InvNext, InvMakePacket, PacketStep

LEMMA InvPacketInit == PacketInit => Inv
BY InvInit DEF PacketInit

(* Whatever the tables, the tasks and the re-initialisations, the header of  *)
(* a packet predicts the channels of all its frames.                         *)
THEOREM HeaderPredictsFrames ==
  /\ Spec => []HeaderPredicts
  /\ PacketSpec => []HeaderPredicts
<1>1. Inv => HeaderPredicts
  BY DEF Inv, WalkInv, Consecutive, HeaderPredicts
<1>2. Spec => []HeaderPredicts
  BY InvInit, InvNext, <1>1, PTL DEF Spec
<1>3. PacketSpec => []HeaderPredicts
  BY InvPacketInit, InvPacketNext, <1>1, PTL DEF PacketSpec
<1> QED
  BY <1>2, <1>3

-----------------------------------------------------------------------------
(* The walk over all packets.                                                *)

(* The position k steps before position p, going round.                      *)
Back(p, k) == IF k <= p THEN p - k ELSE p - k + NumChannels

(* Each of the last channels stands where the walk was so many frames ago.   *)
TurnInv ==
  /\ recent \in Seq(Channels)
  /\ Len(recent) < NumChannels
  /\ \A i \in 1 .. Len(recent) :
       ChannelIdx(hopping_sequence, recent[i]) =
         Back(ChannelIdx(hopping_sequence, last_used_channel), Len(recent) - i)

LEMMA StepsBack ==
  ASSUME NEW S, NEW list \in Seq(S), NEW i \in 1 .. Len(list)
  PROVE  Len(list) - i \in Nat
OBVIOUS

LEMMA IdxType ==
  ASSUME NEW row \in Rows, NEW channel \in Channels
  PROVE  ChannelIdx(row, channel) \in Channels
BY Constants DEF ChannelIdx

(* A channel stands at one position of a row.                                *)
LEMMA IdxOfHop ==
  ASSUME NEW row \in Rows, NEW i \in Channels
  PROVE  ChannelIdx(row, Hops[row][i]) = i
<1>1. \A j \in Channels : Hops[row][j] = Hops[row][i] => j = i
  BY ChannelHoppingAssumption, Zenon DEF ChannelHoppingAssumption, Channels
<1>2. PICK j : j = ChannelIdx(row, Hops[row][i])
  OBVIOUS
<1>3. j \in Channels /\ Hops[row][j] = Hops[row][i]
  BY <1>2, Zenon DEF ChannelIdx
<1> QED
  BY <1>1, <1>2, <1>3

LEMMA NextPosition ==
  ASSUME NEW p \in Channels
  PROVE  (p + 1) % NumChannels = IF p = NumChannels - 1 THEN 0 ELSE p + 1
BY Constants DEF Channels

(* One step further, a position is one more step back.                       *)
LEMMA BackOneMore ==
  ASSUME NEW p \in Channels, NEW k \in Nat, k < NumChannels - 1
  PROVE  Back((p + 1) % NumChannels, k + 1) = Back(p, k)
BY Constants, NextPosition DEF Back, Channels

(* Fewer than NumChannels positions in a row are different ones.             *)
LEMMA BackApart ==
  ASSUME NEW p \in Channels, NEW k \in Nat, NEW l \in Nat,
         k < NumChannels, l < NumChannels, Back(p, k) = Back(p, l)
  PROVE  k = l
BY Constants DEF Back, Channels

LEMMA TurnChannelTake ==
  ASSUME Inv, TurnInv, NEW t \in Threads, ChannelTake(t)
  PROVE  TurnInv'
<1> DEFINE p == ChannelIdx(hopping_sequence, last_used_channel)
           channel == Hops[hopping_sequence][idx[t]]
           before == IF Len(recent) < NumChannels - 1 THEN recent ELSE Tail(recent)
<1>1. /\ hopping_sequence \in Rows /\ p \in Channels /\ channel \in Channels
      /\ idx[t] = (p + 1) % NumChannels /\ idx[t] \in Channels
  BY IdxType, HopInRange DEF Inv, TypeInv, WalkInv, ChannelTake, Goto
<1>2. /\ last_used_channel' = channel
      /\ recent' = Append(before, channel)
      /\ hopping_sequence' = hopping_sequence
  BY DEF ChannelTake
<1>3. ChannelIdx(hopping_sequence, channel) = (p + 1) % NumChannels
  BY <1>1, IdxOfHop
<1>4. recent \in Seq(Channels) /\ Len(recent) \in Nat /\ Len(recent) < NumChannels
  BY DEF TurnInv
<1>5. \A i \in 1 .. Len(recent) :
        ChannelIdx(hopping_sequence, recent[i]) = Back(p, Len(recent) - i)
  BY DEF TurnInv
<1> HIDE DEF p, channel
<1>6. /\ before \in Seq(Channels) /\ Len(before) < NumChannels - 1
      /\ \A i \in 1 .. Len(before) :
           ChannelIdx(hopping_sequence, before[i]) = Back(p, Len(before) - i)
  <2>1. CASE Len(recent) < NumChannels - 1
    BY <1>4, <1>5, <2>1
  <2>2. CASE ~(Len(recent) < NumChannels - 1)
    <3>1. before = Tail(recent) /\ recent # << >>
      BY <1>4, <2>2, Constants
    <3>2. /\ before \in Seq(Channels) /\ Len(before) = Len(recent) - 1
          /\ \A i \in 1 .. Len(before) : before[i] = recent[i + 1]
      BY <1>4, <3>1
    <3>3. ASSUME NEW i \in 1 .. Len(before)
          PROVE  ChannelIdx(hopping_sequence, before[i]) = Back(p, Len(before) - i)
      <4>1. i + 1 \in 1 .. Len(recent) /\ Len(recent) - (i + 1) = Len(before) - i
        BY <1>4, <3>2
      <4> QED
        BY <1>5, <3>2, <4>1
    <3> QED
      BY <1>4, <3>2, <3>3, Constants
  <2> QED
    BY <2>1, <2>2
<1> HIDE DEF before
<1>7. recent' \in Seq(Channels) /\ Len(recent') = Len(before) + 1
  BY <1>1, <1>2, <1>6
<1>8. ASSUME NEW i \in 1 .. Len(recent')
      PROVE  ChannelIdx(hopping_sequence, recent'[i]) =
               Back((p + 1) % NumChannels, Len(recent') - i)
  <2>1. CASE i = Len(recent')
    <3>1. recent'[i] = channel /\ Len(recent') - i = 0
      BY <1>1, <1>2, <1>6, <1>7, <2>1
    <3>2. Back((p + 1) % NumChannels, 0) = (p + 1) % NumChannels
      BY <1>1 DEF Back, Channels
    <3> QED
      BY <1>3, <3>1, <3>2
  <2>2. CASE i \in 1 .. Len(before)
    <3>1. recent'[i] = before[i]
      BY <1>1, <1>2, <1>6, <2>2
    <3>2. PICK k \in Nat : k = Len(before) - i
      BY <1>6, <2>2, StepsBack
    <3>3. k < NumChannels - 1 /\ Len(recent') - i = k + 1
      BY <1>6, <1>7, <2>2, <3>2, Constants
    <3> QED
      BY <1>1, <1>6, <2>2, <3>1, <3>2, <3>3, BackOneMore
  <2> QED
    BY <1>6, <1>7, <2>1, <2>2
<1>9. Len(recent') < NumChannels
  BY <1>6, <1>7, Constants
<1> QED
  BY <1>2, <1>3, <1>7, <1>8, <1>9 DEF TurnInv

LEMMA TurnNext == Inv /\ TurnInv /\ [Next]_vars => TurnInv'
<1> SUFFICES ASSUME Inv, TurnInv, [Next]_vars PROVE TurnInv'
  OBVIOUS
<1>1. ASSUME NEW t \in Threads, SequenceSet(t) PROVE TurnInv'
  BY <1>1, Constants DEF SequenceSet, TurnInv
<1>2. ASSUME NEW t \in Threads, ChannelTake(t) PROVE TurnInv'
  BY <1>2, TurnChannelTake
<1>3. CASE UNCHANGED << hopping, recent >>
  BY <1>3 DEF TurnInv, hopping
<1> QED
  BY <1>1, <1>2, <1>3 DEF Next, FramesCall, Lock, ReadHop, ChannelFind, Unlock, vars

LEMMA TurnPacketNext == Inv /\ TurnInv /\ [PacketNext]_allVars => TurnInv'
<1>1. ASSUME TurnInv, NEW t \in Threads, MakePacket(t) PROVE TurnInv'
  <2>1. UNCHANGED << hopping, recent >>
    BY <1>1 DEF MakePacket, PacketCall, PacketLock, PacketCopy, PacketUnlock
  <2> QED
    BY <1>1, <2>1 DEF TurnInv, hopping
<1> QED
  BY <1>1, TurnNext, PacketStep

(* Over the packets of all tasks, fewer than NumChannels frames in a row are *)
(* never twice on a channel, wherever the walk started.                      *)
THEOREM ChannelsInTurn ==
  /\ Spec => []EveryChannelInTurn
  /\ PacketSpec => []EveryChannelInTurn
<1>1. Init => TurnInv
  BY Constants DEF Init, TurnInv
<1>2. Inv /\ TurnInv => EveryChannelInTurn
  <2> SUFFICES ASSUME Inv, TurnInv,
                      NEW i \in 1 .. Len(recent), NEW j \in 1 .. Len(recent),
                      recent[i] = recent[j]
               PROVE  i = j
    BY DEF EveryChannelInTurn
  <2>1. PICK p \in Channels : p = ChannelIdx(hopping_sequence, last_used_channel)
    BY IdxType DEF Inv, TypeInv
  <2>0. recent \in Seq(Channels)
    BY DEF TurnInv
  <2>2. PICK k \in Nat : k = Len(recent) - i
    BY <2>0, StepsBack
  <2>3. PICK l \in Nat : l = Len(recent) - j
    BY <2>0, StepsBack
  <2>4. Back(p, k) = Back(p, l)
    BY <2>1, <2>2, <2>3 DEF TurnInv
  <2>5. k < NumChannels /\ l < NumChannels
    BY <2>2, <2>3, Constants DEF TurnInv
  <2>6. k = l
    BY <2>4, <2>5, BackApart
  <2> QED
    BY <2>2, <2>3, <2>6 DEF TurnInv
<1>3. Spec => []EveryChannelInTurn
  BY InvInit, InvNext, TurnNext, <1>1, <1>2, PTL DEF Spec
<1>4. PacketInit => Init
  BY DEF PacketInit
<1>5. PacketSpec => []EveryChannelInTurn
  BY InvPacketInit, InvPacketNext, TurnPacketNext, <1>1, <1>2, <1>4, PTL DEF PacketSpec
<1> QED
  BY <1>3, <1>5

-----------------------------------------------------------------------------
(* Induction over the naturals, for a set of them: otherwise the successor   *)
(* would be an injection of a finite set into a smaller one.                 *)
LEMMA Induction ==
  ASSUME NEW S, 0 \in S, \A n \in Nat : n \in S => n + 1 \in S
  PROVE  \A n \in Nat : n \in S
<1>1. SUFFICES ASSUME NEW n \in Nat, n \notin S PROVE FALSE
  OBVIOUS
<1> DEFINE A == { k \in 0 .. n : k \in S }
           next == [ k \in A |-> k + 1 ]
<1>2. \A k \in A : k \in Int /\ k + 1 \in A /\ k + 1 # 0
  BY <1>1
<1>3. IsFiniteSet(A) /\ 0 \in A
  <2>1. IsFiniteSet(0 .. n)
    BY FS_Interval
  <2> QED
    BY <2>1, FS_Subset
<1>4. /\ IsFiniteSet(A \ {0}) /\ Cardinality(A) \in Nat
      /\ Cardinality(A \ {0}) = Cardinality(A) - 1
  BY <1>3, FS_RemoveElement, FS_CardinalityType
<1>5. next \in [ A -> A \ {0} ]
  BY <1>2
<1>6. Cardinality(A \ {0}) < Cardinality(A)
  BY <1>4
<1>7. \A x \in A : next[x] = x + 1 /\ x \in Int
  BY <1>2
<1> HIDE DEF A, next
<1>8. PICK x \in A, y \in A : x # y /\ next[x] = next[y]
  BY <1>3, <1>4, <1>5, <1>6, FS_PigeonHole
<1>9. PICK k \in Int, l \in Int : k = x /\ l = y
  BY <1>7
<1>10. k + 1 = l + 1
  BY <1>7, <1>8, <1>9
<1> QED
  BY <1>8, <1>9, <1>10

(* Up to a number. *)
LEMMA InductionTo ==
  ASSUME NEW S, NEW m \in Nat, 0 \in S, \A n \in 0 .. m - 1 : n \in S => n + 1 \in S
  PROVE  \A n \in 0 .. m : n \in S
<1> DEFINE T == { n \in Nat : n <= m => n \in S }
<1>1. 0 \in T /\ \A n \in Nat : n \in T => n + 1 \in T
  OBVIOUS
<1> HIDE DEF T
<1>2. \A n \in Nat : n \in T
  BY <1>1, Induction
<1> QED
  BY <1>2 DEF T

(* The functions on 0 .. m with a first value and a step from one value to   *)
(* the next.                                                                 *)
Following(V, first, m, step) ==
  { f \in [ 0 .. m -> V ] : f[0] = first /\ \A i \in 1 .. m : f[i] = step[i][f[i - 1]] }

LEMMA Recursion ==
  ASSUME NEW V, NEW first \in V, NEW m \in Nat, NEW step \in [ 1 .. m -> [ V -> V ] ]
  PROVE  Following(V, first, m, step) # {}
<1> DEFINE Upto(n) == { f \in [ 0 .. n -> V ] :
                          f[0] = first /\ \A i \in 1 .. n : f[i] = step[i][f[i - 1]] }
           S == { n \in 0 .. m : Upto(n) # {} }
<1>1. 0 \in S
  <2>1. [ i \in 0 .. 0 |-> first ] \in Upto(0)
    OBVIOUS
  <2> QED
    BY <2>1
<1>2. ASSUME NEW n \in 0 .. m - 1, n \in S PROVE n + 1 \in S
  <2>1. PICK f \in Upto(n) : TRUE
    BY <1>2
  <2> DEFINE g == [ i \in 0 .. n + 1 |-> IF i = n + 1 THEN step[n + 1][f[n]] ELSE f[i] ]
  <2>2. f[n] \in V /\ step[n + 1] \in [ V -> V ]
    BY <2>1
  <2>3. step[n + 1][f[n]] \in V
    BY <2>2
  <2>4. g \in [ 0 .. n + 1 -> V ] /\ g[0] = first
    BY <2>1, <2>3
  <2>5. ASSUME NEW i \in 1 .. n + 1 PROVE g[i] = step[i][g[i - 1]]
    <3>1. CASE i = n + 1
      BY <3>1
    <3>2. CASE i \in 1 .. n
      <4>1. g[i] = f[i] /\ g[i - 1] = f[i - 1]
        BY <3>2
      <4> QED
        BY <2>1, <3>2, <4>1
    <3> QED
      BY <3>1, <3>2
  <2>6. g \in Upto(n + 1)
    BY <2>4, <2>5
  <2>7. n + 1 \in 0 .. m
    OBVIOUS
  <2> HIDE DEF g, Upto
  <2> QED
    BY <2>6, <2>7
<1>3. \A n \in 0 .. m : n \in S
  <2> HIDE DEF S
  <2> QED
    BY <1>1, <1>2, InductionTo
<1>4. Upto(m) # {}
  BY <1>3
<1> QED
  BY <1>4 DEF Following

-----------------------------------------------------------------------------
(* The field and the shift register. *)

LEMMA Field64 ==
  /\ \A a, b \in Symbol :
       Plus(a, b) \in Symbol /\ Plus(a, b) = Plus(b, a) /\ Times(a, b) \in Symbol
  /\ \A a \in Symbol : /\ Plus(a, 0) = a /\ Plus(a, a) = 0
                       /\ Times(a, 1) = a /\ Times(a, 0) = 0 /\ Times(0, a) = 0
  /\ 0 \in Symbol /\ 1 \in Symbol
<1>1. 0 \in Symbol /\ 1 \in Symbol
  BY DEF Symbol
<1> QED
  BY <1>1, FieldAssumption DEF FieldAssumption

LEMMA SymbolIsNat == \A a \in Symbol : a \in Nat
BY DEF Symbol

LEMMA Associative ==
  ASSUME NEW a \in Symbol, NEW b \in Symbol, NEW c \in Symbol
  PROVE  /\ Plus(Plus(a, b), c) = Plus(a, Plus(b, c))
         /\ Times(Times(a, b), c) = Times(a, Times(b, c))
         /\ Times(Plus(a, b), c) = Plus(Times(a, c), Times(b, c))
         /\ Times(a, Plus(b, c)) = Plus(Times(a, b), Times(a, c))
BY FieldAssumption DEF FieldAssumption

LEMMA ZeroPlus == \A a \in Symbol : Plus(0, a) = a
BY Field64

(* The sum of two sums, in another order. *)
LEMMA PlusPlus ==
  ASSUME NEW a \in Symbol, NEW b \in Symbol, NEW c \in Symbol, NEW d \in Symbol
  PROVE  Plus(Plus(a, b), Plus(c, d)) = Plus(Plus(a, c), Plus(b, d))
<1>1. /\ Plus(a, b) \in Symbol /\ Plus(c, d) \in Symbol /\ Plus(b, d) \in Symbol
      /\ Plus(b, c) \in Symbol /\ Plus(a, c) \in Symbol
  BY Field64
<1>2. Plus(Plus(a, b), Plus(c, d)) = Plus(a, Plus(b, Plus(c, d)))
  BY <1>1, Associative
<1>3. Plus(b, Plus(c, d)) = Plus(Plus(b, c), d)
  BY Associative
<1>4. Plus(Plus(b, c), d) = Plus(Plus(c, b), d)
  BY Field64
<1>5. Plus(Plus(c, b), d) = Plus(c, Plus(b, d))
  BY Associative
<1>6. Plus(a, Plus(c, Plus(b, d))) = Plus(Plus(a, c), Plus(b, d))
  BY <1>1, Associative
<1> QED
  BY <1>2, <1>3, <1>4, <1>5, <1>6

(* What is added twice is gone. *)
LEMMA PlusTwice ==
  ASSUME NEW a \in Symbol, NEW b \in Symbol
  PROVE  Plus(Plus(a, b), b) = a
<1>1. Plus(Plus(a, b), b) = Plus(a, Plus(b, b))
  BY Associative
<1> QED
  BY <1>1, Field64

LEMMA AsSequence ==
  ASSUME NEW S, NEW n \in Nat, NEW s \in [ 1 .. n -> S ]
  PROVE  s \in Seq(S) /\ Len(s) = n /\ DOMAIN s = 1 .. n
OBVIOUS

LEMMA StrictIs ==
  ASSUME NEW S, NEW s \in Seq(S)
  PROVE  Strict(s) = s
BY DEF Strict

(* The words of so many symbols. *)
Word(n) == [ 1 .. n -> Symbol ]

(* One symbol goes into the register. *)
Lower(b, j) == IF j = 1 THEN 0 ELSE b[j - 1]

LEMMA ShiftIs ==
  ASSUME NEW n \in Nat \ {0}, NEW g \in Word(n + 1),
         NEW b \in Word(n), NEW x \in Symbol
  PROVE  /\ Shift(b, x, g) \in Word(n)
         /\ \A f : f = Plus(x, b[n]) =>
              \A j \in 1 .. n : Shift(b, x, g)[j] = Plus(Lower(b, j), Times(f, g[j]))
<1> USE DEF Word
<1>1. Len(g) - 1 = n
  BY AsSequence
<1>2. PICK f \in Symbol : f = Plus(x, b[n])
  BY Field64
<1> DEFINE s == [ j \in 1 .. n |-> Plus(Lower(b, j), Times(f, g[j])) ]
<1>3. ASSUME NEW j \in 1 .. n PROVE Plus(Lower(b, j), Times(f, g[j])) \in Symbol
  <2>1. Lower(b, j) \in Symbol /\ Times(f, g[j]) \in Symbol
    BY Field64 DEF Lower
  <2> QED
    BY <2>1, Field64
<1>4. s \in Word(n)
  BY <1>3
<1>5. Strict(s) = s
  <2> HIDE DEF s
  <2>1. s \in Seq(Symbol)
    BY <1>4, AsSequence
  <2> QED
    BY <2>1, StrictIs
<1>6. Shift(b, x, g) = s
  BY <1>1, <1>2, <1>5 DEF Shift, Lower
<1>7. \A j \in 1 .. n : s[j] = Plus(Lower(b, j), Times(f, g[j]))
  OBVIOUS
<1> HIDE DEF s
<1> QED
  BY <1>2, <1>4, <1>6, <1>7

LEMMA RegisterIs ==
  ASSUME NEW n \in Nat \ {0}, NEW g \in Word(n + 1), NEW data \in Seq(Symbol)
  PROVE  /\ Register(data, g) \in [ 0 .. Len(data) -> Word(n) ]
         /\ Register(data, g)[0] = [ j \in 1 .. n |-> 0 ]
         /\ \A i \in 1 .. Len(data) :
              Register(data, g)[i] = Shift(Register(data, g)[i - 1], data[i], g)
<1> DEFINE V == Word(n)
           zeros == [ j \in 1 .. n |-> 0 ]
           step == [ i \in 1 .. Len(data) |-> [ v \in V |-> Shift(v, data[i], g) ] ]
<1>1. Len(g) - 1 = n /\ zeros \in V /\ Len(data) \in Nat
  BY AsSequence, Field64 DEF Word
<1>2. step \in [ 1 .. Len(data) -> [ V -> V ] ]
  <2> SUFFICES ASSUME NEW i \in 1 .. Len(data), NEW v \in V
               PROVE  Shift(v, data[i], g) \in V
    OBVIOUS
  <2>1. v \in Word(n) /\ data[i] \in Symbol
    OBVIOUS
  <2> QED
    BY <2>1, ShiftIs
<1>0. zeros \in V /\ Len(data) \in Nat
  BY <1>1
<1> HIDE DEF V, zeros
<1>3. PICK f \in [ 0 .. Len(data) -> V ] :
        f[0] = zeros /\ \A i \in 1 .. Len(data) : f[i] = step[i][f[i - 1]]
  <2> HIDE DEF step
  <2>1. Following(V, zeros, Len(data), step) # {}
    BY <1>0, <1>2, Recursion
  <2> QED
    BY <2>1 DEF Following
<1>4. ASSUME NEW i \in 1 .. Len(data) PROVE f[i] = Shift(f[i - 1], data[i], g)
  <2>1. f[i - 1] \in V /\ f[i] = step[i][f[i - 1]]
    BY <1>0, <1>3
  <2> QED
    BY <2>1
<1>5. f = [ i \in 0 .. Len(data) |->
              IF i = 0 THEN zeros ELSE Shift(f[i - 1], data[i], g) ]
  BY <1>3, <1>4
<1>6. Register(data, g) =
        CHOOSE q : q = [ i \in 0 .. Len(data) |->
                             IF i = 0 THEN zeros ELSE Shift(q[i - 1], data[i], g) ]
  BY <1>1 DEF Register, zeros
<1> DEFINE r == Register(data, g)
<1> HIDE DEF r
<1>7. r = [ i \in 0 .. Len(data) |->
              IF i = 0 THEN zeros ELSE Shift(r[i - 1], data[i], g) ]
  BY <1>5, <1>6, Zenon DEF r
<1>8. r[0] = zeros /\ \A i \in 1 .. Len(data) : r[i] = Shift(r[i - 1], data[i], g)
  BY <1>1, <1>7
<1>9. \A i \in 0 .. Len(data) : r[i] \in V
  <2> DEFINE S == { i \in 0 .. Len(data) : r[i] \in V }
  <2>1. 0 \in S
    BY <1>1, <1>8
  <2>2. ASSUME NEW i \in 0 .. Len(data) - 1, i \in S PROVE i + 1 \in S
    <3>1. i + 1 \in 1 .. Len(data) /\ (i + 1) - 1 = i
      BY <1>1
    <3>2. r[i + 1] = Shift(r[i], data[i + 1], g)
      BY <1>8, <3>1
    <3>3. data[i + 1] \in Symbol /\ r[i] \in Word(n)
      BY <2>2, <3>1 DEF V
    <3>4. Shift(r[i], data[i + 1], g) \in Word(n)
      BY <3>3, ShiftIs
    <3> QED
      BY <2>2, <3>1, <3>2, <3>4 DEF V
  <2> HIDE DEF S
  <2>3. \A i \in 0 .. Len(data) : i \in S
    BY <1>1, <2>1, <2>2, InductionTo
  <2> QED
    BY <2>3 DEF S
<1>10. r \in [ 0 .. Len(data) -> V ]
  BY <1>7, <1>9
<1> QED
  BY <1>8, <1>10 DEF V, zeros, r

(* The value of a polynomial, from its highest coefficient down.             *)
LEMMA ValueIs ==
  ASSUME NEW c \in Seq(Symbol), NEW x \in Symbol
  PROVE  /\ Value(c, x) \in [ 0 .. Len(c) -> Symbol ]
         /\ Value(c, x)[0] = 0
         /\ \A i \in 1 .. Len(c) : Value(c, x)[i] = Plus(Times(Value(c, x)[i - 1], x), c[i])
<1> DEFINE step == [ i \in 1 .. Len(c) |-> [ v \in Symbol |-> Plus(Times(v, x), c[i]) ] ]
<1>1. Len(c) \in Nat /\ 0 \in Symbol /\ \A i \in 1 .. Len(c) : c[i] \in Symbol
  BY Field64
<1>2. \A v \in Symbol, i \in 1 .. Len(c) : Plus(Times(v, x), c[i]) \in Symbol
  BY <1>1, Field64
<1>3. step \in [ 1 .. Len(c) -> [ Symbol -> Symbol ] ]
  BY <1>2
<1>0. 0 \in Symbol /\ Len(c) \in Nat
  BY <1>1
<1>4. PICK f \in [ 0 .. Len(c) -> Symbol ] :
        f[0] = 0 /\ \A i \in 1 .. Len(c) : f[i] = step[i][f[i - 1]]
  <2> HIDE DEF step
  <2>1. Following(Symbol, 0, Len(c), step) # {}
    BY <1>0, <1>3, Recursion
  <2> QED
    BY <2>1 DEF Following
<1>5. ASSUME NEW i \in 1 .. Len(c) PROVE f[i] = Plus(Times(f[i - 1], x), c[i])
  <2>1. f[i - 1] \in Symbol /\ f[i] = step[i][f[i - 1]]
    BY <1>1, <1>4
  <2> QED
    BY <2>1
<1>6. f = [ i \in 0 .. Len(c) |-> IF i = 0 THEN 0 ELSE Plus(Times(f[i - 1], x), c[i]) ]
  BY <1>4, <1>5
<1>7. PICK r : r = Value(c, x)
  OBVIOUS
<1>8. r = [ i \in 0 .. Len(c) |-> IF i = 0 THEN 0 ELSE Plus(Times(r[i - 1], x), c[i]) ]
  BY <1>6, <1>7 DEF Value
<1>9. r[0] = 0 /\ \A i \in 1 .. Len(c) : r[i] = Plus(Times(r[i - 1], x), c[i])
  BY <1>1, <1>8
<1>10. \A i \in 0 .. Len(c) : r[i] \in Symbol
  <2> DEFINE S == { i \in 0 .. Len(c) : r[i] \in Symbol }
  <2>1. 0 \in S
    BY <1>1, <1>9
  <2>2. ASSUME NEW i \in 0 .. Len(c) - 1, i \in S PROVE i + 1 \in S
    <3>1. i + 1 \in 1 .. Len(c) /\ (i + 1) - 1 = i /\ i + 1 \in 0 .. Len(c)
      BY <1>1
    <3>2. r[i + 1] = Plus(Times(r[i], x), c[i + 1]) /\ r[i] \in Symbol
      BY <1>9, <2>2, <3>1
    <3> QED
      BY <1>2, <3>1, <3>2
  <2> HIDE DEF S
  <2>3. \A i \in 0 .. Len(c) : i \in S
    BY <1>1, <2>1, <2>2, InductionTo
  <2> QED
    BY <2>3 DEF S
<1>11. r \in [ 0 .. Len(c) -> Symbol ]
  BY <1>8, <1>10
<1> QED
  BY <1>7, <1>9, <1>11

-----------------------------------------------------------------------------
(* Data and parity symbols are a codeword.                                   *)

(* The values of a polynomial whose higher coefficients come to d, as the    *)
(* contents of the register are taken for its lower ones.                    *)
After64(n, d, b, x) ==
  { e \in [ 0 .. n -> Symbol ] :
      e[0] = d /\ \A k \in 1 .. n : e[k] = Plus(Times(e[k - 1], x), b[n + 1 - k]) }

LEMMA SomeAfter ==
  ASSUME NEW n \in Nat \ {0}, NEW d \in Symbol, NEW b \in Word(n), NEW x \in Symbol
  PROVE  After64(n, d, b, x) # {}
<1> DEFINE step == [ k \in 1 .. n |-> [ v \in Symbol |-> Plus(Times(v, x), b[n + 1 - k]) ] ]
<1>1. \A v \in Symbol, k \in 1 .. n : Plus(Times(v, x), b[n + 1 - k]) \in Symbol
  <2> SUFFICES ASSUME NEW v \in Symbol, NEW k \in 1 .. n
               PROVE  Plus(Times(v, x), b[n + 1 - k]) \in Symbol
    OBVIOUS
  <2>1. Times(v, x) \in Symbol /\ b[n + 1 - k] \in Symbol
    BY Field64 DEF Word
  <2> QED
    BY <2>1, Field64
<1>2. step \in [ 1 .. n -> [ Symbol -> Symbol ] ]
  BY <1>1
<1>3. Following(Symbol, d, n, step) # {}
  <2> HIDE DEF step
  <2> QED
    BY <1>2, Recursion
<1>4. PICK f \in [ 0 .. n -> Symbol ] : f[0] = d /\ \A k \in 1 .. n : f[k] = step[k][f[k - 1]]
  BY <1>3 DEF Following
<1>5. ASSUME NEW k \in 1 .. n PROVE f[k] = Plus(Times(f[k - 1], x), b[n + 1 - k])
  <2>1. f[k - 1] \in Symbol /\ f[k] = step[k][f[k - 1]]
    BY <1>4
  <2> QED
    BY <2>1
<1> QED
  BY <1>4, <1>5 DEF After64

(* An empty register adds nothing to nothing.                                *)
LEMMA AfterZeros ==
  ASSUME NEW n \in Nat \ {0}, NEW x \in Symbol,
         NEW e \in After64(n, 0, [ j \in 1 .. n |-> 0 ], x)
  PROVE  e[n] = 0
<1> DEFINE S == { k \in 0 .. n : e[k] = 0 }
<1>1. e \in [ 0 .. n -> Symbol ] /\ 0 \in S
  BY DEF After64
<1>2. ASSUME NEW k \in 0 .. n - 1, k \in S PROVE k + 1 \in S
  <2>1. k + 1 \in 1 .. n /\ (k + 1) - 1 = k /\ n + 1 - (k + 1) \in 1 .. n /\ e[k] = 0
    BY <1>2
  <2>2. e[k + 1] = Plus(Times(e[k], x), 0)
    BY <2>1 DEF After64
  <2>3. e[k + 1] = 0
    BY <2>1, <2>2, Field64
  <2> QED
    BY <2>1, <2>3
<1> HIDE DEF S
<1>3. \A k \in 0 .. n : k \in S
  BY <1>1, <1>2, InductionTo
<1> QED
  BY <1>3 DEF S

(* A symbol moves the register one step: what is added to the values is the  *)
(* feedback times the generator's, which vanishes at its roots.              *)
LEMMA ShiftKeepsRoot ==
  ASSUME NEW n \in Nat \ {0}, NEW g \in Word(n + 1), g[n + 1] = 1,
         NEW b \in Word(n), NEW x \in Symbol, NEW s \in Symbol, NEW d \in Symbol,
         NEW G \in After64(n, 1, g, x), G[n] = 0,
         NEW e \in After64(n, d, b, x), e[n] = 0,
         NEW c \in Word(n), c = Shift(b, s, g),
         NEW o \in Symbol, o = Plus(Times(d, x), s),
         NEW f \in After64(n, o, c, x)
  PROVE  f[n] = 0
<1>1. PICK fb \in Symbol : fb = Plus(s, b[n])
  BY Field64 DEF Word
<1>3. \A j \in 1 .. n : c[j] = Plus(Lower(b, j), Times(fb, g[j]))
  BY <1>1, ShiftIs
<1>4. /\ G \in [ 0 .. n -> Symbol ] /\ e \in [ 0 .. n -> Symbol ] /\ f \in [ 0 .. n -> Symbol ]
      /\ G[0] = 1 /\ e[0] = d /\ f[0] = Plus(Times(d, x), s)
  BY DEF After64
<1>5. ASSUME NEW k \in 1 .. n
      PROVE  /\ G[k] = Plus(Times(G[k - 1], x), g[n + 1 - k])
             /\ e[k] = Plus(Times(e[k - 1], x), b[n + 1 - k])
             /\ f[k] = Plus(Times(f[k - 1], x), c[n + 1 - k])
  BY DEF After64
(* One step of the values: p, q and r are the coefficients.                  *)
<1>6. ASSUME NEW u \in Symbol, NEW v \in Symbol, NEW p \in Symbol, NEW q \in Symbol
      PROVE  Plus(Times(Plus(u, Times(fb, v)), x), Plus(p, Times(fb, q)))
               = Plus(Plus(Times(u, x), p), Times(fb, Plus(Times(v, x), q)))
  <2>1. /\ Times(fb, v) \in Symbol /\ Times(fb, q) \in Symbol /\ Times(u, x) \in Symbol
        /\ Times(v, x) \in Symbol /\ Times(Times(fb, v), x) \in Symbol
    BY Field64
  <2>2. Times(Plus(u, Times(fb, v)), x) = Plus(Times(u, x), Times(Times(fb, v), x))
    BY <2>1, Associative
  <2>3. Plus(Plus(Times(u, x), Times(Times(fb, v), x)), Plus(p, Times(fb, q)))
          = Plus(Plus(Times(u, x), p), Plus(Times(Times(fb, v), x), Times(fb, q)))
    BY <2>1, PlusPlus
  <2>4. Times(Times(fb, v), x) = Times(fb, Times(v, x))
    BY Associative
  <2>5. Times(fb, Plus(Times(v, x), q)) = Plus(Times(fb, Times(v, x)), Times(fb, q))
    BY <2>1, Associative
  <2> QED
    BY <2>2, <2>3, <2>4, <2>5
<1> DEFINE S == { k \in 0 .. n - 1 : f[k] = Plus(e[k + 1], Times(fb, G[k])) }
<1>7. 0 \in S
  <2>1. e[1] = Plus(Times(d, x), b[n])
    <3>1. 1 \in 1 .. n /\ 1 - 1 = 0 /\ n + 1 - 1 = n
      OBVIOUS
    <3> QED
      BY <1>4, <1>5, <3>1
  <2>2. Times(fb, G[0]) = fb
    BY <1>4, Field64
  <2>3. PICK y \in Symbol : y = Times(d, x)
    BY Field64
  <2>4. PICK z \in Symbol : z = b[n]
    BY DEF Word
  <2>5. Plus(Plus(y, z), Plus(s, z)) = Plus(Plus(y, s), Plus(z, z))
    BY PlusPlus
  <2>6. Plus(y, s) \in Symbol
    BY Field64
  <2>7. Plus(Plus(y, s), Plus(z, z)) = Plus(y, s)
    BY <2>6, Field64
  <2>8. f[0] = Plus(e[1], Times(fb, G[0]))
    BY <1>1, <1>4, <2>1, <2>2, <2>3, <2>4, <2>5, <2>7
  <2> QED
    BY <2>8
<1>8. ASSUME NEW k \in 0 .. n - 2, k \in S PROVE k + 1 \in S
  <2>1. /\ k + 1 \in 1 .. n /\ (k + 1) - 1 = k /\ k + 2 \in 1 .. n /\ (k + 2) - 1 = k + 1
        /\ n + 1 - (k + 1) = n - k /\ n - k \in 1 .. n /\ n - k # 1
        /\ n + 1 - (k + 2) = n - k - 1 /\ n - k - 1 \in 1 .. n
        /\ k + 1 \in 0 .. n - 1 /\ (k + 1) + 1 = k + 2 /\ k \in 0 .. n
    OBVIOUS
  <2>2. /\ f[k + 1] = Plus(Times(f[k], x), c[n - k])
        /\ G[k + 1] = Plus(Times(G[k], x), g[n - k])
        /\ e[k + 2] = Plus(Times(e[k + 1], x), b[n - k - 1])
    BY <1>5, <2>1
  <2>3. c[n - k] = Plus(b[n - k - 1], Times(fb, g[n - k]))
    BY <1>3, <2>1 DEF Lower
  <2>4. f[k] = Plus(e[k + 1], Times(fb, G[k]))
    BY <1>8
  <2>5. e[k + 1] \in Symbol /\ G[k] \in Symbol /\ b[n - k - 1] \in Symbol /\ g[n - k] \in Symbol
    BY <1>4, <2>1 DEF Word
  <2>6. Plus(Times(Plus(e[k + 1], Times(fb, G[k])), x), Plus(b[n - k - 1], Times(fb, g[n - k])))
          = Plus(Plus(Times(e[k + 1], x), b[n - k - 1]),
                 Times(fb, Plus(Times(G[k], x), g[n - k])))
    <3>1. PICK u \in Symbol, v \in Symbol, p \in Symbol, q \in Symbol :
            u = e[k + 1] /\ v = G[k] /\ p = b[n - k - 1] /\ q = g[n - k]
      BY <2>5
    <3>2. Plus(Times(Plus(u, Times(fb, v)), x), Plus(p, Times(fb, q)))
            = Plus(Plus(Times(u, x), p), Times(fb, Plus(Times(v, x), q)))
      BY <1>6
    <3> QED
      BY <3>1, <3>2
  <2>7. f[k + 1] = Plus(e[k + 2], Times(fb, G[k + 1]))
    BY <2>2, <2>3, <2>4, <2>6
  <2> QED
    BY <2>1, <2>7
<1>9. n - 1 \in S
  <2>1. n - 1 \in Nat /\ (n - 1) - 1 = n - 2
    OBVIOUS
  <2> HIDE DEF S
  <2>2. \A k \in 0 .. n - 1 : k \in S
    BY <1>7, <1>8, <2>1, InductionTo
  <2> QED
    BY <2>1, <2>2
<1>10. f[n] = Plus(Times(f[n - 1], x), c[1]) /\ G[n] = Plus(Times(G[n - 1], x), g[1])
  <2>1. n \in 1 .. n /\ n + 1 - n = 1
    OBVIOUS
  <2> QED
    BY <1>5, <2>1
<1>11. f[n - 1] = Plus(e[n], Times(fb, G[n - 1]))
  <2>1. (n - 1) + 1 = n
    OBVIOUS
  <2> QED
    BY <1>9, <2>1
<1>12. e[n] = 0 /\ G[n - 1] \in Symbol /\ g[1] \in Symbol /\ c[1] = Plus(0, Times(fb, g[1]))
  BY <1>3, <1>4 DEF Lower, Word
<1>13. Plus(Times(Plus(0, Times(fb, G[n - 1])), x), Plus(0, Times(fb, g[1])))
         = Plus(Plus(Times(0, x), 0), Times(fb, Plus(Times(G[n - 1], x), g[1])))
  <2>1. PICK v \in Symbol, q \in Symbol : v = G[n - 1] /\ q = g[1]
    BY <1>12
  <2>2. 0 \in Symbol
    BY Field64
  <2>3. Plus(Times(Plus(0, Times(fb, v)), x), Plus(0, Times(fb, q)))
          = Plus(Plus(Times(0, x), 0), Times(fb, Plus(Times(v, x), q)))
    BY <1>6, <2>2
  <2> QED
    BY <2>1, <2>3
<1>14. f[n] = Plus(Plus(0, 0), Times(fb, 0))
  BY <1>10, <1>11, <1>12, <1>13, Field64
<1> QED
  BY <1>14, Field64

(* rse_rs_encode, for any data: a codeword of the code.                      *)
LEMMA ParityDivides ==
  ASSUME NEW n \in {4, 10, 12, 14, 16}, NEW data \in Seq(Symbol)
  PROVE  /\ Parity(data, Generator(n)) \in Word(n)
         /\ Divisible(data \o Parity(data, Generator(n)), n)
<1> DEFINE g == Generator(n)
           L == Len(data)
           bits == Register(data, g)
           p == Parity(data, g)
           code == data \o p
<1>1. g \in Word(n + 1) /\ g[n + 1] = 1 /\ n \in Nat \ {0} /\ L \in Nat
  <2>1. Generator(n) \in Word(n + 1) /\ Generator(n)[n + 1] = 1
    BY GeneratorAssumption, Zenon DEF GeneratorAssumption, Word
  <2>2. n \in Nat \ {0} /\ L \in Nat
    OBVIOUS
  <2> QED
    BY <2>1, <2>2
<1> HIDE DEF g
<1>2. /\ bits \in [ 0 .. L -> Word(n) ]
      /\ bits[0] = [ j \in 1 .. n |-> 0 ]
      /\ \A i \in 1 .. L : bits[i] = Shift(bits[i - 1], data[i], g)
  BY <1>1, RegisterIs
<1> HIDE DEF bits, L
<1>3. bits[L] \in Word(n)
  BY <1>1, <1>2
<1>4. p \in Word(n) /\ \A k \in 1 .. n : p[k] = bits[L][n + 1 - k]
  <2>1. PICK b \in Word(n) : b = bits[L]
    BY <1>3
  <2>2. Len(b) = n
    BY <1>1, AsSequence DEF Word
  <2>3. p = [ i \in 1 .. n |-> b[(n - i) + 1] ]
    BY <2>1, <2>2 DEF Parity, Reverse, bits, L
  <2>4. \A i \in 1 .. n : (n - i) + 1 = n + 1 - i /\ n + 1 - i \in 1 .. n
    BY <1>1
  <2>5. \A i \in 1 .. n : b[n + 1 - i] \in Symbol
    BY <2>4 DEF Word
  <2>6. p = [ i \in 1 .. n |-> b[n + 1 - i] ]
    BY <2>3, <2>4
  <2>7. p \in Word(n)
    BY <2>5, <2>6 DEF Word
  <2> QED
    BY <2>1, <2>6, <2>7
<1> HIDE DEF p
<1>5. p \in Seq(Symbol) /\ Len(p) = n
  BY <1>1, <1>4, AsSequence DEF Word
<1>6. /\ code \in Seq(Symbol) /\ Len(code) = L + n
      /\ \A i \in 1 .. L : code[i] = data[i]
      /\ \A k \in 1 .. n : code[L + k] = p[k]
  BY <1>1, <1>5 DEF L
<1> HIDE DEF code
<1>7. SUFFICES ASSUME NEW k \in 1 .. n PROVE Value(code, Alpha(k))[L + n] = 0
  BY <1>4, <1>6 DEF Divisible, g, p, code
<1>8. PICK x \in Symbol : x = Alpha(k)
  BY GeneratorAssumption DEF GeneratorAssumption
<1>9. PICK G \in After64(n, 1, g, x) : G[n] = 0
  <2>1. PICK h \in Word(n + 1) : h = [ i \in 1 .. n + 1 |-> g[n + 2 - i] ]
    <3>1. \A i \in 1 .. n + 1 : n + 2 - i \in 1 .. n + 1
      BY <1>1
    <3> QED
      BY <1>1, <3>1 DEF Word
  <2>2. h = Reverse(g)
    <3>1. Len(g) = n + 1
      BY <1>1, AsSequence DEF Word
    <3>2. \A i \in 1 .. n + 1 : (n + 1 - i) + 1 = n + 2 - i
      BY <1>1
    <3> QED
      BY <2>1, <3>1, <3>2 DEF Reverse
  <2>3. h \in Seq(Symbol) /\ Len(h) = n + 1
    BY <1>1, AsSequence DEF Word
  <2> DEFINE v == Value(h, x)
  <2>4. /\ v \in [ 0 .. n + 1 -> Symbol ] /\ v[0] = 0
        /\ \A i \in 1 .. n + 1 : v[i] = Plus(Times(v[i - 1], x), h[i])
    BY <2>3, ValueIs
  <2>5. v[n + 1] = 0
    BY <1>8, <2>2, GeneratorAssumption DEF GeneratorAssumption, g
  <2> HIDE DEF v
  <2> DEFINE G == [ i \in 0 .. n |-> v[i + 1] ]
  <2>6. G \in [ 0 .. n -> Symbol ] /\ G[n] = 0
    BY <1>1, <2>4, <2>5
  <2>7. G[0] = 1
    <3>1. v[1] = Plus(Times(0, x), h[1]) /\ h[1] = g[n + 1]
      BY <1>1, <2>1, <2>4 DEF Word
    <3>2. v[1] = 1
      BY <1>1, <3>1, Field64, ZeroPlus
    <3> QED
      BY <1>1, <3>2
  <2>8. ASSUME NEW i \in 1 .. n PROVE G[i] = Plus(Times(G[i - 1], x), g[n + 1 - i])
    <3>1. i + 1 \in 1 .. n + 1 /\ (i + 1) - 1 = i /\ i - 1 \in 0 .. n /\ (i - 1) + 1 = i
          /\ n + 2 - (i + 1) = n + 1 - i /\ i \in 0 .. n
      BY <1>1
    <3>2. v[i + 1] = Plus(Times(v[i], x), h[i + 1]) /\ h[i + 1] = g[n + 1 - i]
      BY <2>1, <2>4, <3>1
    <3> QED
      BY <3>1, <3>2
  <2> HIDE DEF G
  <2>9. G \in After64(n, 1, g, x)
    BY <2>6, <2>7, <2>8 DEF After64
  <2> QED
    BY <2>6, <2>9
<1> DEFINE d == Value(code, x)
<1>10. /\ d \in [ 0 .. L + n -> Symbol ] /\ d[0] = 0
       /\ \A i \in 1 .. L + n : d[i] = Plus(Times(d[i - 1], x), code[i])
  <2>1. PICK w \in Seq(Symbol) : w = code
    BY <1>6
  <2>2. /\ Value(w, x) \in [ 0 .. Len(w) -> Symbol ]
        /\ Value(w, x)[0] = 0
        /\ \A i \in 1 .. Len(w) : Value(w, x)[i] = Plus(Times(Value(w, x)[i - 1], x), w[i])
    BY ValueIs
  <2> QED
    BY <1>6, <2>1, <2>2
<1> HIDE DEF d
<1> DEFINE S == { i \in 0 .. L : \A e \in After64(n, d[i], bits[i], x) : e[n] = 0 }
<1>11. 0 \in S
  <2>1. \A e \in After64(n, d[0], bits[0], x) : e[n] = 0
    BY <1>1, <1>2, <1>10, AfterZeros
  <2> QED
    BY <1>1, <2>1
<1>12. ASSUME NEW i \in 0 .. L - 1, i \in S PROVE i + 1 \in S
  <2>1. /\ i + 1 \in 1 .. L /\ (i + 1) - 1 = i /\ i \in 0 .. L /\ i + 1 \in 1 .. L + n
        /\ i \in 0 .. L + n /\ i + 1 \in 0 .. L
    BY <1>1
  <2>2. PICK b \in Word(n) : b = bits[i]
    BY <1>2, <2>1
  <2>3. PICK s \in Symbol : s = data[i + 1]
    BY <2>1 DEF L
  <2>4. bits[i + 1] = Shift(b, s, g)
    BY <1>2, <2>1, <2>2, <2>3
  <2>5. PICK y \in Symbol : y = d[i]
    BY <1>10, <2>1
  <2>6. d[i + 1] = Plus(Times(y, x), s)
    BY <1>6, <1>10, <2>1, <2>3, <2>5
  <2>7. PICK e \in After64(n, y, b, x) : TRUE
    BY <1>1, SomeAfter
  <2>8. e[n] = 0
    BY <1>12, <2>2, <2>5
  <2>9. ASSUME NEW f \in After64(n, d[i + 1], bits[i + 1], x) PROVE f[n] = 0
    <3>1. PICK c \in Word(n) : c = Shift(b, s, g) /\ c = bits[i + 1]
      BY <1>2, <2>1, <2>4
    <3>2. PICK o \in Symbol : o = d[i + 1] /\ o = Plus(Times(y, x), s)
      BY <1>10, <2>1, <2>6
    <3> QED
      <4>1. PICK h \in Word(n + 1) : h = g /\ h[n + 1] = 1
        BY <1>1
      <4>2. G \in After64(n, 1, h, x) /\ f \in After64(n, o, c, x) /\ c = Shift(b, s, h)
        BY <1>9, <3>1, <3>2, <4>1
      <4>3. n \in Nat \ {0} /\ G[n] = 0 /\ e \in After64(n, y, b, x)
        BY <1>1, <1>9, <2>7
      <4> QED
        BY <2>8, <3>2, <4>1, <4>2, <4>3, ShiftKeepsRoot
  <2> QED
    BY <2>1, <2>9
<1>13. L \in S
  <2> HIDE DEF S
  <2>1. \A i \in 0 .. L : i \in S
    BY <1>1, <1>11, <1>12, InductionTo
  <2> QED
    BY <1>1, <2>1
<1> DEFINE f == [ i \in 0 .. n |-> d[L + i] ]
<1>14. f \in After64(n, d[L], bits[L], x)
  <2>1. f \in [ 0 .. n -> Symbol ] /\ f[0] = d[L]
    BY <1>1, <1>10
  <2>2. ASSUME NEW i \in 1 .. n PROVE f[i] = Plus(Times(f[i - 1], x), bits[L][n + 1 - i])
    <3>1. L + i \in 1 .. L + n /\ (L + i) - 1 = L + (i - 1) /\ i \in 0 .. n /\ i - 1 \in 0 .. n
      BY <1>1
    <3>2. d[L + i] = Plus(Times(d[L + (i - 1)], x), code[L + i])
      BY <1>10, <3>1
    <3>3. code[L + i] = bits[L][n + 1 - i]
      BY <1>4, <1>6
    <3> QED
      BY <3>1, <3>2, <3>3
  <2> HIDE DEF f
  <2> QED
    BY <2>1, <2>2 DEF After64
<1>15. f[n] = 0
  <2> HIDE DEF f
  <2> QED
    BY <1>13, <1>14
<1>16. f[n] = d[L + n]
  BY <1>1
<1> QED
  BY <1>8, <1>15, <1>16 DEF d

-----------------------------------------------------------------------------
(* Numbers and their bits.                                                   *)

Bit == {0, 1}

BitWord(n) == [ 1 .. n -> Bit ]
ByteWord(n) == [ 1 .. n -> Byte ]

(* So many elements of a word, from a place on, are those of a part.         *)
At(word, start, part, n) == \A i \in 1 .. n : word[start + i - 1] = part[i]

LEMMA TwoIs ==
  /\ Two(0) = 1 /\ Two(1) = 2 /\ Two(2) = 4 /\ Two(3) = 8 /\ Two(4) = 16 /\ Two(5) = 32
  /\ Two(6) = 64 /\ Two(7) = 128 /\ Two(8) = 256 /\ Two(9) = 512 /\ Two(10) = 1024
BY DEF Two

LEMMA DigitIs ==
  ASSUME NEW v \in Nat, NEW k \in 0 .. 10
  PROVE  Digit(v, k) \in Bit /\ v \div Two(k) \in Nat
<1>1. k \in {0, 1, 2, 3, 4, 5, 6, 7, 8, 9, 10}
  OBVIOUS
<1>2. PICK d \in Nat \ {0} : d = Two(k)
  BY <1>1, TwoIs
<1>3. v \div d \in Nat
  OBVIOUS
<1>4. (v \div d) % 2 \in {0, 1}
  BY <1>3
<1> QED
  BY <1>2, <1>3, <1>4 DEF Digit, Bit

LEMMA Halve ==
  ASSUME NEW v \in Nat, NEW k \in 0 .. 9
  PROVE  v \div Two(k) = 2 * (v \div Two(k + 1)) + Digit(v, k)
<1>1. k \in {0, 1, 2, 3, 4, 5, 6, 7, 8, 9}
  OBVIOUS
<1>2. CASE k = 0
  BY <1>2, TwoIs DEF Digit
<1>3. CASE k = 1
  BY <1>3, TwoIs DEF Digit
<1>4. CASE k = 2
  BY <1>4, TwoIs DEF Digit
<1>5. CASE k = 3
  BY <1>5, TwoIs DEF Digit
<1>6. CASE k = 4
  BY <1>6, TwoIs DEF Digit
<1>7. CASE k = 5
  BY <1>7, TwoIs DEF Digit
<1>8. CASE k = 6
  BY <1>8, TwoIs DEF Digit
<1>9. CASE k = 7
  BY <1>9, TwoIs DEF Digit
<1>10. CASE k = 8
  BY <1>10, TwoIs DEF Digit
<1>11. CASE k = 9
  BY <1>11, TwoIs DEF Digit
<1> QED
  BY <1>1, <1>2, <1>3, <1>4, <1>5, <1>6, <1>7, <1>8, <1>9, <1>10, <1>11

LEMMA NoQuotient ==
  ASSUME NEW n \in 0 .. 10, NEW v \in Nat, v < Two(n)
  PROVE  v \div Two(n) = 0
<1>1. n \in {0, 1, 2, 3, 4, 5, 6, 7, 8, 9, 10}
  OBVIOUS
<1>2. CASE n = 0
  BY <1>2, TwoIs
<1>3. CASE n = 1
  BY <1>3, TwoIs
<1>4. CASE n = 2
  BY <1>4, TwoIs
<1>5. CASE n = 3
  BY <1>5, TwoIs
<1>6. CASE n = 4
  BY <1>6, TwoIs
<1>7. CASE n = 5
  BY <1>7, TwoIs
<1>8. CASE n = 6
  BY <1>8, TwoIs
<1>9. CASE n = 7
  BY <1>9, TwoIs
<1>10. CASE n = 8
  BY <1>10, TwoIs
<1>11. CASE n = 9
  BY <1>11, TwoIs
<1>12. CASE n = 10
  BY <1>12, TwoIs
<1> QED
  BY <1>1, <1>2, <1>3, <1>4, <1>5, <1>6, <1>7, <1>8, <1>9, <1>10, <1>11, <1>12

LEMMA FieldIs ==
  ASSUME NEW v \in Nat, NEW n \in 0 .. 10
  PROVE  /\ Field(v, n) \in BitWord(n)
         /\ \A i \in 1 .. n : Field(v, n)[i] = Digit(v, n - i)
<1>1. \A i \in 1 .. n : n - i \in 0 .. 10
  OBVIOUS
<1>2. \A i \in 1 .. n : Digit(v, n - i) \in Bit
  BY <1>1, DigitIs
<1> QED
  BY <1>2 DEF Field, BitWord

(* The bits of a number that has at most n of them, read back.               *)
LEMMA NumberIs ==
  ASSUME NEW bits, NEW start \in Nat, NEW n \in 0 .. 10, NEW v \in Nat, v < Two(n),
         At(bits, start, Field(v, n), n)
  PROVE  Number(bits, start, n) = v
<1> DEFINE step == [ i \in 1 .. n |-> [ u \in Int |-> 2 * u + bits[start + i - 1] ] ]
<1>1. \A i \in 1 .. n : /\ bits[start + i - 1] = Digit(v, n - i)
                        /\ bits[start + i - 1] \in {0, 1}
  <2>1. \A i \in 1 .. n : n - i \in 0 .. 10
    OBVIOUS
  <2>2. \A i \in 1 .. n : bits[start + i - 1] = Digit(v, n - i)
    BY FieldIs DEF At
  <2> QED
    BY <2>1, <2>2, DigitIs DEF Bit
<1>2. step \in [ 1 .. n -> [ Int -> Int ] ]
  <2> SUFFICES ASSUME NEW i \in 1 .. n, NEW u \in Int
               PROVE  2 * u + bits[start + i - 1] \in Int
    OBVIOUS
  <2>1. PICK b \in Int : b = bits[start + i - 1]
    BY <1>1
  <2> QED
    BY <2>1
<1>3. Following(Int, 0, n, step) # {}
  <2>1. n \in Nat /\ 0 \in Int
    OBVIOUS
  <2> HIDE DEF step
  <2> QED
    BY <1>2, <2>1, Recursion
<1>4. PICK f \in [ 0 .. n -> Int ] : f[0] = 0 /\ \A i \in 1 .. n : f[i] = step[i][f[i - 1]]
  BY <1>3 DEF Following
<1>5. ASSUME NEW i \in 1 .. n PROVE f[i] = 2 * f[i - 1] + bits[start + i - 1]
  <2>1. f[i - 1] \in Int /\ f[i] = step[i][f[i - 1]]
    <3> HIDE DEF step
    <3>1. i - 1 \in 0 .. n
      OBVIOUS
    <3> QED
      BY <1>4, <3>1
  <2>2. step[i] = [ u \in Int |-> 2 * u + bits[start + i - 1] ]
    OBVIOUS
  <2> HIDE DEF step
  <2> QED
    BY <2>1, <2>2
<1>6. f = [ i \in 0 .. n |-> IF i = 0 THEN 0 ELSE 2 * f[i - 1] + bits[start + i - 1] ]
  BY <1>4, <1>5
<1> HIDE DEF step
<1> DEFINE sum == CHOOSE q : q = [ i \in 0 .. n |->
                    IF i = 0 THEN 0 ELSE 2 * q[i - 1] + bits[start + i - 1] ]
<1>7. Number(bits, start, n) = sum[n]
  BY DEF Number
<1>8. sum = [ i \in 0 .. n |-> IF i = 0 THEN 0 ELSE 2 * sum[i - 1] + bits[start + i - 1] ]
  BY <1>6, Zenon
<1> HIDE DEF sum
<1>9. sum[0] = 0 /\ \A i \in 1 .. n : sum[i] = 2 * sum[i - 1] + bits[start + i - 1]
  BY <1>8
<1> DEFINE S == { i \in 0 .. n : sum[i] = v \div Two(n - i) }
<1>0. n \in Nat
  OBVIOUS
<1>10. 0 \in S
  <2>1. n - 0 = n
    OBVIOUS
  <2> QED
    <3>1. v \div Two(n) = 0
      BY NoQuotient
    <3>2. 0 \in 0 .. n
      OBVIOUS
    <3> HIDE DEF sum
    <3> QED
      BY <1>9, <2>1, <3>1, <3>2
<1>11. ASSUME NEW i \in 0 .. n - 1, i \in S PROVE i + 1 \in S
  <2>1. PICK k \in 0 .. 9 : k = n - (i + 1)
    OBVIOUS
  <2>2. n - i = k + 1 /\ i + 1 \in 1 .. n /\ (i + 1) - 1 = i /\ i + 1 \in 0 .. n
    BY <2>1
  <2>3. sum[i + 1] = 2 * sum[i] + bits[start + (i + 1) - 1]
    BY <1>9, <2>2
  <2>4. bits[start + (i + 1) - 1] = Digit(v, k)
    BY <1>1, <2>1, <2>2
  <2>5. sum[i] = v \div Two(k + 1)
    BY <1>11, <2>2
  <2>6. v \div Two(k) = 2 * (v \div Two(k + 1)) + Digit(v, k)
    BY Halve
  <2>7. sum[i + 1] = v \div Two(n - (i + 1))
    BY <2>1, <2>3, <2>4, <2>5, <2>6
  <2> QED
    BY <2>2, <2>7
<1>12. \A i \in 0 .. n : i \in S
  <2> HIDE DEF S
  <2> QED
    BY <1>0, <1>10, <1>11, InductionTo
<1>13. sum[n] = v \div Two(0)
  <2>1. n \in 0 .. n /\ n - n = 0
    OBVIOUS
  <2> QED
    BY <1>12, <2>1
<1>14. v \div 1 = v
  OBVIOUS
<1> QED
  BY <1>7, <1>13, <1>14, TwoIs

(* Six bits and the symbol they make.                                        *)
Padded(bits, i) == IF i \in DOMAIN bits THEN bits[i] ELSE 0
Packed6(bits, i) ==
  32 * Padded(bits, i + 1) + 16 * Padded(bits, i + 2) + 8 * Padded(bits, i + 3)
    + 4 * Padded(bits, i + 4) + 2 * Padded(bits, i + 5) + Padded(bits, i + 6)

LEMMA PackedIs ==
  ASSUME NEW n \in Nat, NEW bits \in BitWord(n), NEW i \in Int
  PROVE  /\ Packed6(bits, i) \in Symbol
         /\ \A r \in 0 .. 5 : Digit(Packed6(bits, i), 5 - r) = Padded(bits, i + r + 1)
<1>1. \A j : Padded(bits, j) \in {0, 1}
  BY DEF Padded, Bit, BitWord
<1>2. PICK a \in {0, 1}, b \in {0, 1}, c \in {0, 1}, d \in {0, 1}, e \in {0, 1}, f \in {0, 1} :
        /\ a = Padded(bits, i + 1) /\ b = Padded(bits, i + 2) /\ c = Padded(bits, i + 3)
        /\ d = Padded(bits, i + 4) /\ e = Padded(bits, i + 5) /\ f = Padded(bits, i + 6)
  BY <1>1
<1>3. Packed6(bits, i) = 32 * a + 16 * b + 8 * c + 4 * d + 2 * e + f
  BY <1>2 DEF Packed6
<1>4. PICK v \in 0 .. 63 :
        v = Packed6(bits, i) /\ v = 32 * a + 16 * b + 8 * c + 4 * d + 2 * e + f
  BY <1>3
<1>5. /\ v \in Symbol
      /\ Digit(v, 5) = a /\ Digit(v, 4) = b /\ Digit(v, 3) = c
      /\ Digit(v, 2) = d /\ Digit(v, 1) = e /\ Digit(v, 0) = f
  <2>1. (v \div 32) % 2 = a /\ (v \div 16) % 2 = b /\ (v \div 8) % 2 = c
    BY <1>4
  <2>2. (v \div 4) % 2 = d /\ (v \div 2) % 2 = e /\ (v \div 1) % 2 = f
    BY <1>4
  <2> QED
    BY <2>1, <2>2, TwoIs DEF Digit, Symbol
<1>6. ASSUME NEW r \in 0 .. 5 PROVE Digit(v, 5 - r) = Padded(bits, i + r + 1)
  <2>1. r \in {0, 1, 2, 3, 4, 5}
    OBVIOUS
  <2> QED
    BY <1>2, <1>5, <2>1
<1> QED
  BY <1>4, <1>5, <1>6

LEMMA EncodeIs ==
  ASSUME NEW n \in Nat, NEW k \in Nat, n <= 6 * k, 6 * k <= n + 5, NEW bits \in BitWord(n)
  PROVE  /\ Encode(bits) \in Word(k)
         /\ \A i \in 1 .. k : Encode(bits)[i] = Packed6(bits, 6 * (i - 1))
<1> DEFINE e == [ i \in 1 .. k |-> Packed6(bits, 6 * (i - 1)) ]
<1>1. Len(bits) = n
  BY AsSequence DEF BitWord
<1>2. k = (n + 5) \div 6
  OBVIOUS
<1>3. Encode(bits) =
        Strict([ i \in 1 .. (Len(bits) + 5) \div 6 |-> Packed6(bits, 6 * (i - 1)) ])
  BY Zenon DEF Encode, Packed6, Padded
<1>4. Encode(bits) = Strict(e)
  BY <1>1, <1>2, <1>3
<1>5. \A i \in 1 .. k : 6 * (i - 1) \in Int
  OBVIOUS
<1>6. \A i \in 1 .. k : Packed6(bits, 6 * (i - 1)) \in Symbol
  BY <1>5, PackedIs
<1>7. e \in [ 1 .. k -> Symbol ]
  BY <1>6
<1>8. \A i \in 1 .. k : e[i] = Packed6(bits, 6 * (i - 1))
  OBVIOUS
<1> HIDE DEF e
<1>9. Strict(e) = e
  BY <1>7, AsSequence, StrictIs
<1> QED
  BY <1>4, <1>7, <1>8, <1>9 DEF Word

(* Symbols that begin with encoded bits give the bits back.                  *)
LEMMA BitsOfEncoded ==
  ASSUME NEW n \in Nat, NEW k \in Nat, n <= 6 * k, 6 * k <= n + 5, NEW bits \in BitWord(n),
         NEW l \in Nat, k <= l, NEW symbols \in Word(l), At(symbols, 1, Encode(bits), k)
  PROVE  At(Bits(symbols), 1, bits, n)
<1> DEFINE N == 6 * l
           B == [ i \in 1 .. N |-> Digit(symbols[(i - 1) \div 6 + 1], 5 - ((i - 1) % 6)) ]
<1>1. ASSUME NEW i \in 1 .. N
      PROVE  (i - 1) \div 6 + 1 \in 1 .. l /\ (i - 1) % 6 \in 0 .. 5
  OBVIOUS
<1>2. \A i \in 1 .. N : B[i] \in Bit
  <2> SUFFICES ASSUME NEW i \in 1 .. N
               PROVE  Digit(symbols[(i - 1) \div 6 + 1], 5 - ((i - 1) % 6)) \in Bit
    OBVIOUS
  <2>1. PICK r \in 0 .. 5 : r = (i - 1) % 6
    BY <1>1
  <2>2. PICK s \in Nat : s = symbols[(i - 1) \div 6 + 1]
    <3>1. PICK j \in 1 .. l : j = (i - 1) \div 6 + 1
      BY <1>1
    <3>2. symbols[j] \in Symbol
      BY DEF Word
    <3>3. symbols[j] \in Nat
      BY <3>2, SymbolIsNat
    <3> QED
      BY <3>1, <3>3
  <2>3. 5 - r \in 0 .. 10
    OBVIOUS
  <2>4. Digit(s, 5 - r) \in Bit
    BY <2>3, DigitIs
  <2> QED
    BY <2>1, <2>2, <2>4
<1>3. Bits(symbols) = B
  <2>1. B \in [ 1 .. N -> Bit ]
    BY <1>2
  <2>2. Len(symbols) = l
    BY AsSequence DEF Word
  <2>3. N \in Nat /\ Bits(symbols) = Strict(B)
    BY <2>2 DEF Bits
  <2> HIDE DEF B, N
  <2>4. B \in Seq(Bit)
    BY <2>1, <2>3, AsSequence
  <2> QED
    BY <2>3, <2>4, StrictIs
<1>4. ASSUME NEW i \in 1 .. n PROVE B[i] = bits[i]
  <2>1. PICK q \in Nat, r \in 0 .. 5 :
          q = (i - 1) \div 6 /\ r = (i - 1) % 6 /\ i = 6 * q + r + 1
    <3>1. (i - 1) \div 6 \in Nat /\ (i - 1) % 6 \in 0 .. 5
          /\ i = 6 * ((i - 1) \div 6) + ((i - 1) % 6) + 1
      OBVIOUS
    <3> QED
      BY <3>1
  <2>2. q + 1 \in 1 .. k /\ (q + 1) - 1 = q /\ 1 + (q + 1) - 1 = q + 1
    BY <2>1
  <2>3. symbols[q + 1] = Encode(bits)[q + 1]
    BY <2>2 DEF At
  <2>4. Encode(bits)[q + 1] = Packed6(bits, 6 * ((q + 1) - 1))
    BY <2>2, EncodeIs
  <2>5. Digit(Packed6(bits, 6 * q), 5 - r) = Padded(bits, 6 * q + r + 1)
    <3>1. PICK m \in Int : m = 6 * q
      OBVIOUS
    <3>2. Digit(Packed6(bits, m), 5 - r) = Padded(bits, m + r + 1)
      BY PackedIs
    <3> QED
      BY <3>1, <3>2
  <2>6. Padded(bits, i) = bits[i]
    BY DEF Padded, BitWord
  <2>7. i \in 1 .. N
    BY <2>1, <2>2
  <2> QED
    BY <2>1, <2>2, <2>3, <2>4, <2>5, <2>6, <2>7
<1>5. \A i \in 1 .. n : 1 + i - 1 = i
  OBVIOUS
<1> HIDE DEF B
<1> QED
  BY <1>3, <1>4, <1>5 DEF At

-----------------------------------------------------------------------------
(* The message in a packet, and the header of its frames.                    *)

LEMMA ConcatIs ==
  ASSUME NEW S, NEW a \in Seq(S), NEW b \in Seq(S)
  PROVE  /\ a \o b \in [ 1 .. Len(a) + Len(b) -> S ]
         /\ \A i \in 1 .. Len(a) : (a \o b)[i] = a[i]
         /\ \A i \in 1 .. Len(b) : (a \o b)[Len(a) + i] = b[i]
<1>1. a \o b \in Seq(S) /\ Len(a \o b) = Len(a) + Len(b)
  OBVIOUS
<1>2. \A i \in 1 .. Len(a) : (a \o b)[i] = a[i]
  OBVIOUS
<1>3. \A i \in 1 .. Len(b) : (a \o b)[Len(a) + i] = b[i]
  OBVIOUS
<1>4. a \o b \in [ 1 .. Len(a \o b) -> S ]
  <2>1. PICK x \in Seq(S) : x = a \o b
    BY <1>1
  <2>2. x \in [ 1 .. Len(x) -> S ]
    OBVIOUS
  <2> QED
    BY <2>1, <2>2
<1> QED
  BY <1>1, <1>2, <1>3, <1>4, Zenon

LEMMA Joined ==
  ASSUME NEW S, NEW n \in Nat, NEW k \in Nat,
         NEW a \in [ 1 .. n -> S ], NEW b \in [ 1 .. k -> S ],
         NEW m \in Int, m = n + k, NEW start \in Int, start = n + 1
  PROVE  a \o b \in [ 1 .. m -> S ] /\ At(a \o b, 1, a, n) /\ At(a \o b, start, b, k)
<1>1. a \in Seq(S) /\ b \in Seq(S)
  BY AsSequence
<1>2. /\ a \o b \in [ 1 .. Len(a) + Len(b) -> S ]
      /\ \A i \in 1 .. Len(a) : (a \o b)[i] = a[i]
      /\ \A i \in 1 .. Len(b) : (a \o b)[Len(a) + i] = b[i]
  BY <1>1, ConcatIs
<1>3. Len(a) = n /\ Len(b) = k
  BY AsSequence
<1>4. /\ a \o b \in [ 1 .. n + k -> S ]
      /\ \A i \in 1 .. n : (a \o b)[i] = a[i]
      /\ \A i \in 1 .. k : (a \o b)[n + i] = b[i]
  BY <1>2, <1>3, Zenon
<1>5. PICK x : x = a \o b
  OBVIOUS
<1>6. /\ x \in [ 1 .. m -> S ]
      /\ \A i \in 1 .. n : x[1 + i - 1] = a[i]
      /\ \A i \in 1 .. k : x[start + i - 1] = b[i]
  <2>1. x \in [ 1 .. n + k -> S ] /\ m = n + k
    BY <1>4, <1>5
  <2>2. \A i \in 1 .. n : x[i] = a[i] /\ 1 + i - 1 = i
    BY <1>4, <1>5
  <2>3. \A i \in 1 .. k : x[n + i] = b[i]
    BY <1>4, <1>5, Zenon
  <2>4. \A i \in 1 .. k : start + i - 1 = n + i
    OBVIOUS
  <2> QED
    BY <2>1, <2>2, <2>3, <2>4
<1> QED
  BY <1>5, <1>6 DEF At

LEMMA JoinedBits ==
  ASSUME NEW n \in Nat, NEW k \in Nat, NEW a \in BitWord(n), NEW b \in BitWord(k),
         NEW m \in Int, m = n + k, NEW start \in Int, start = n + 1
  PROVE  a \o b \in BitWord(m) /\ At(a \o b, 1, a, n) /\ At(a \o b, start, b, k)
BY Joined DEF BitWord

LEMMA JoinedSymbols ==
  ASSUME NEW n \in Nat, NEW k \in Nat, NEW a \in Word(n), NEW b \in Word(k),
         NEW m \in Int, m = n + k, NEW start \in Int, start = n + 1
  PROVE  a \o b \in Word(m) /\ At(a \o b, 1, a, n) /\ At(a \o b, start, b, k)
BY Joined DEF Word

(* A part of a part.                                                         *)
LEMMA AtPart ==
  ASSUME NEW word, NEW part, NEW piece, NEW n \in Nat, NEW k \in Nat, NEW start \in Nat \ {0},
         At(word, 1, part, n), At(part, start, piece, k), start + k <= n + 1
  PROVE  At(word, start, piece, k)
<1> SUFFICES ASSUME NEW i \in 1 .. k PROVE word[start + i - 1] = piece[i]
  BY DEF At
<1>1. PICK j \in 1 .. n : j = start + i - 1 /\ 1 + j - 1 = j
  OBVIOUS
<1> QED
  BY <1>1 DEF At

LEMMA BytesIs ==
  ASSUME NEW n \in Nat, NEW bytes \in ByteWord(n), NEW N \in Nat, N = 8 * n
  PROVE  /\ Bytes(bytes) \in BitWord(N)
         /\ \A k \in 1 .. n, i \in 1 .. 8 :
              Bytes(bytes)[8 * (k - 1) + i] = Digit(bytes[k], 8 - i)
<1> DEFINE B == [ j \in 1 .. N |-> Field(bytes[(j - 1) \div 8 + 1], 8)[((j - 1) % 8) + 1] ]
<1>1. \A k \in 1 .. n : bytes[k] \in Nat
  <2>1. \A k \in 1 .. n : bytes[k] \in Byte
    BY DEF ByteWord
  <2>2. \A b \in Byte : b \in Nat
    BY DEF Byte
  <2> QED
    BY <2>1, <2>2
<1>2. ASSUME NEW k \in 1 .. n, NEW i \in 1 .. 8
      PROVE  /\ 8 * (k - 1) + i \in 1 .. N
             /\ B[8 * (k - 1) + i] = Digit(bytes[k], 8 - i) /\ Digit(bytes[k], 8 - i) \in Bit
  <2>1. PICK j \in 1 .. N : j = 8 * (k - 1) + i
    OBVIOUS
  <2>2. (j - 1) \div 8 + 1 = k /\ ((j - 1) % 8) + 1 = i
    BY <2>1
  <2>3. B[j] = Field(bytes[k], 8)[i]
    BY <2>2
  <2>4. 8 - i \in 0 .. 10 /\ 8 \in 0 .. 10 /\ bytes[k] \in Nat
    BY <1>1
  <2> QED
    BY <2>1, <2>3, <2>4, FieldIs, DigitIs
<1>3. \A j \in 1 .. N : B[j] \in Bit
  <2> SUFFICES ASSUME NEW j \in 1 .. N PROVE B[j] \in Bit
    OBVIOUS
  <2>1. (j - 1) \div 8 + 1 \in 1 .. n /\ ((j - 1) % 8) + 1 \in 1 .. 8
        /\ j = 8 * (((j - 1) \div 8 + 1) - 1) + ((j - 1) % 8) + 1
    OBVIOUS
  <2>2. PICK k \in 1 .. n, i \in 1 .. 8 : j = 8 * (k - 1) + i
    BY <2>1
  <2> HIDE DEF B
  <2> QED
    BY <1>2, <2>2
<1>4. Len(bytes) = n
  BY AsSequence DEF ByteWord
<1>5. Bytes(bytes) = B
  BY <1>4 DEF Bytes
<1>6. B \in [ 1 .. N -> Bit ]
  BY <1>3
<1> HIDE DEF B
<1> QED
  BY <1>2, <1>5, <1>6 DEF BitWord

LEMMA OctetsIs ==
  ASSUME NEW bits, NEW start \in Nat \ {0}, NEW n \in Nat, NEW bytes \in ByteWord(n),
         NEW N \in Nat, N = 8 * n, At(bits, start, Bytes(bytes), N)
  PROVE  Octets(bits, start, n) = bytes
<1>1. ASSUME NEW i \in 1 .. n
      PROVE  Number(bits, start + 8 * (i - 1), 8) = bytes[i]
  <2>1. PICK a \in Nat : a = start + 8 * (i - 1)
    OBVIOUS
  <2>2. PICK v \in Nat : v = bytes[i] /\ v < 256
    <3>1. bytes[i] \in Byte
      BY DEF ByteWord
    <3>2. \A b \in Byte : b \in Nat /\ b < 256
      BY DEF Byte
    <3> QED
      BY <3>1, <3>2
  <2>3. ASSUME NEW k \in 1 .. 8 PROVE bits[a + k - 1] = Field(v, 8)[k]
    <3>1. PICK j \in 1 .. N : j = 8 * (i - 1) + k
      OBVIOUS
    <3>2. bits[start + j - 1] = Bytes(bytes)[j]
      BY DEF At
    <3>3. Bytes(bytes)[j] = Digit(v, 8 - k)
      <4>1. Bytes(bytes)[8 * (i - 1) + k] = Digit(bytes[i], 8 - k)
        BY BytesIs
      <4> QED
        BY <2>2, <3>1, <4>1
    <3>4. start + j - 1 = a + k - 1
      BY <2>1, <3>1
    <3>5. 8 \in 0 .. 10
      OBVIOUS
    <3>6. Field(v, 8)[k] = Digit(v, 8 - k)
      BY <3>5, FieldIs
    <3> QED
      BY <3>2, <3>3, <3>4, <3>6
  <2>4. 8 \in 0 .. 10 /\ v < Two(8)
    BY <2>2, TwoIs
  <2>5. At(bits, a, Field(v, 8), 8)
    BY <2>3 DEF At
  <2>6. Number(bits, a, 8) = v
    BY <2>4, <2>5, NumberIs
  <2> QED
    BY <2>1, <2>2, <2>6
<1>2. Octets(bits, start, n) = [ i \in 1 .. n |-> bytes[i] ]
  BY <1>1 DEF Octets
<1> QED
  BY <1>2 DEF ByteWord

(* The parts of a message, one after the other.                              *)
LEMMA FiveParts ==
  ASSUME NEW v \in BitWord(2), NEW s \in BitWord(10),
         NEW a \in BitWord(32), NEW b \in BitWord(32),
         NEW n \in Nat, NEW o \in BitWord(n), NEW N \in Nat, N = 76 + n
  PROVE  LET word == v \o s \o a \o b \o o
         IN  /\ word \in BitWord(N)
             /\ At(word, 1, v, 2) /\ At(word, 3, s, 10) /\ At(word, 13, a, 32)
             /\ At(word, 45, b, 32) /\ At(word, 77, o, n)
<1>1. PICK x2 : x2 = v \o s
  OBVIOUS
<1>2. x2 \in BitWord(12) /\ At(x2, 1, v, 2) /\ At(x2, 3, s, 10)
  <2>1. 12 = 2 + 10 /\ 3 = 2 + 1
    OBVIOUS
  <2> QED
    BY <1>1, <2>1, JoinedBits
<1>3. PICK x3 : x3 = x2 \o a
  OBVIOUS
<1>4. x3 \in BitWord(44) /\ At(x3, 1, x2, 12) /\ At(x3, 13, a, 32)
  <2>1. 44 = 12 + 32 /\ 13 = 12 + 1
    OBVIOUS
  <2> QED
    BY <1>2, <1>3, <2>1, JoinedBits
<1>5. PICK x4 : x4 = x3 \o b
  OBVIOUS
<1>6. x4 \in BitWord(76) /\ At(x4, 1, x3, 44) /\ At(x4, 45, b, 32)
  <2>1. 76 = 44 + 32 /\ 45 = 44 + 1
    OBVIOUS
  <2> QED
    BY <1>4, <1>5, <2>1, JoinedBits
<1>7. PICK word : word = x4 \o o
  OBVIOUS
<1>8. word \in BitWord(N) /\ At(word, 1, x4, 76) /\ At(word, 77, o, n)
  <2>1. 77 = 76 + 1
    OBVIOUS
  <2> QED
    BY <1>6, <1>7, <2>1, JoinedBits
<1>9. At(word, 1, x3, 44) /\ At(word, 45, b, 32)
  BY <1>6, <1>8, AtPart
<1>10. At(word, 1, x2, 12) /\ At(word, 13, a, 32)
  BY <1>4, <1>9, AtPart
<1>11. At(word, 1, v, 2) /\ At(word, 3, s, 10)
  BY <1>2, <1>10, AtPart
<1>12. word = v \o s \o a \o b \o o
  BY <1>1, <1>3, <1>5, <1>7
<1> QED
  BY <1>8, <1>9, <1>10, <1>11, <1>12

MessageBits(m) ==
  Field(0, 2) \o Field(m.seq_no, 10) \o Bytes(m.eid) \o Bytes(m.auth_tag) \o Bytes(m.out)

LEMMA MessageIs ==
  ASSUME NEW m \in Messages
  PROVE  /\ m.seq_no \in Nat /\ m.seq_no < 1024
         /\ m.eid \in ByteWord(4) /\ m.auth_tag \in ByteWord(4)
         /\ m.out \in ByteWord(Len(m.out))
         /\ Len(m.out) \in Nat
<1>1. m \in [ seq_no : 0 .. 1023, eid : [ 1 .. 4 -> Byte ], auth_tag : [ 1 .. 4 -> Byte ],
               out : Seq(Byte) ]
  BY SatPacketAssumption, Zenon DEF SatPacketAssumption
<1>2. m.eid \in ByteWord(4) /\ m.auth_tag \in ByteWord(4)
  BY <1>1 DEF ByteWord
<1>3. PICK o \in Seq(Byte) : o = m.out
  BY <1>1
<1>4. o \in [ 1 .. Len(o) -> Byte ] /\ Len(o) \in Nat
  OBVIOUS
<1>5. PICK q \in 0 .. 1023 : q = m.seq_no
  BY <1>1
<1>6. q \in Nat /\ q < 1024
  OBVIOUS
<1> QED
  BY <1>2, <1>3, <1>4, <1>5, <1>6 DEF ByteWord

LEMMA MessageBitsAre ==
  ASSUME NEW m \in Messages, NEW n \in Nat, n = Len(m.out), NEW l \in Nat, l = 8 * n,
         NEW N \in Nat, N = 76 + l
  PROVE  /\ MessageBits(m) \in BitWord(N)
         /\ At(MessageBits(m), 1, Field(0, 2), 2)
         /\ At(MessageBits(m), 3, Field(m.seq_no, 10), 10)
         /\ At(MessageBits(m), 13, Bytes(m.eid), 32)
         /\ At(MessageBits(m), 45, Bytes(m.auth_tag), 32)
         /\ At(MessageBits(m), 77, Bytes(m.out), l)
<1>1. PICK v \in BitWord(2) : v = Field(0, 2)
  <2>1. 0 \in Nat /\ 2 \in 0 .. 10
    OBVIOUS
  <2> QED
    BY <2>1, FieldIs
<1>2. PICK s \in BitWord(10) : s = Field(m.seq_no, 10)
  <2>1. m.seq_no \in Nat
    BY MessageIs
  <2>2. 10 \in 0 .. 10
    OBVIOUS
  <2> QED
    BY <2>1, <2>2, FieldIs
<1>3. PICK a \in BitWord(32) : a = Bytes(m.eid)
  <2>1. m.eid \in ByteWord(4)
    BY MessageIs
  <2>2. 32 = 8 * 4
    OBVIOUS
  <2> QED
    BY <2>1, <2>2, BytesIs
<1>4. PICK b \in BitWord(32) : b = Bytes(m.auth_tag)
  <2>1. m.auth_tag \in ByteWord(4)
    BY MessageIs
  <2>2. 32 = 8 * 4
    OBVIOUS
  <2> QED
    BY <2>1, <2>2, BytesIs
<1>5. PICK o \in BitWord(l) : o = Bytes(m.out)
  <2>1. m.out \in ByteWord(n)
    BY MessageIs
  <2> QED
    BY <2>1, BytesIs
<1>6. PICK word : word = v \o s \o a \o b \o o
  OBVIOUS
<1>7. word = MessageBits(m)
  BY <1>1, <1>2, <1>3, <1>4, <1>5, <1>6 DEF MessageBits
<1>8. /\ word \in BitWord(N)
      /\ At(word, 1, v, 2) /\ At(word, 3, s, 10) /\ At(word, 13, a, 32)
      /\ At(word, 45, b, 32) /\ At(word, 77, o, l)
  BY <1>6, FiveParts
<1> QED
  BY <1>1, <1>2, <1>3, <1>4, <1>5, <1>7, <1>8

(* What a receiver reads in a packet.                                        *)
Reads(data, m) ==
  LET bits == Bits(data)
  IN  /\ Number(bits, 1, 2) = 0
      /\ Number(bits, 3, 10) = m.seq_no
      /\ Octets(bits, 13, 4) = m.eid
      /\ Octets(bits, 45, 4) = m.auth_tag
      /\ Octets(bits, 77, Len(m.out)) = m.out

(* The symbols of a message, by the length of its payload.                   *)
LEMMA MessageRead ==
  ASSUME NEW m \in Messages, NEW n \in Nat, n = Len(m.out),
         NEW k \in Nat, 76 + 8 * n <= 6 * k, 6 * k <= 81 + 8 * n
  PROVE  /\ MessageSymbols(m) \in Word(k)
         /\ \A l \in Nat : \A data \in Word(l) :
              k <= l /\ At(data, 1, MessageSymbols(m), k) => Reads(data, m)
<1>1. PICK l8 \in Nat, N \in Nat : l8 = 8 * n /\ N = 76 + l8
  OBVIOUS
<1>2. PICK w \in BitWord(N) : w = MessageBits(m)
  BY <1>1, MessageBitsAre
<1>3. MessageSymbols(m) = Encode(w)
  BY <1>2 DEF MessageSymbols, MessageBits
<1>4. N <= 6 * k /\ 6 * k <= N + 5
  BY <1>1
<1>5. MessageSymbols(m) \in Word(k)
  BY <1>3, <1>4, EncodeIs
<1> SUFFICES ASSUME NEW l \in Nat, NEW data \in Word(l), k <= l,
                    At(data, 1, MessageSymbols(m), k)
             PROVE  Reads(data, m)
  BY <1>5
<1>6. PICK b : b = Bits(data)
  OBVIOUS
<1>7. At(b, 1, w, N)
  BY <1>3, <1>4, <1>6, BitsOfEncoded
<1>8. PICK v, s, a, d, o :
        /\ v = Field(0, 2) /\ s = Field(m.seq_no, 10) /\ a = Bytes(m.eid)
        /\ d = Bytes(m.auth_tag) /\ o = Bytes(m.out)
  OBVIOUS
<1>9. /\ At(w, 1, v, 2) /\ At(w, 3, s, 10)
      /\ At(w, 13, a, 32) /\ At(w, 45, d, 32) /\ At(w, 77, o, l8)
  BY <1>1, <1>2, <1>8, MessageBitsAre
<1>10. At(b, 1, v, 2) /\ At(b, 3, s, 10) /\ At(b, 13, a, 32) /\ At(b, 45, d, 32)
  BY <1>1, <1>7, <1>9, AtPart
<1>11. At(b, 77, o, l8)
  <2>1. 77 + l8 <= N + 1
    BY <1>1
  <2> QED
    BY <1>7, <1>9, <2>1, AtPart
<1>12. Number(b, 1, 2) = 0
  <2>1. 0 \in Nat /\ 1 \in Nat /\ 2 \in 0 .. 10 /\ 0 < Two(2)
    BY TwoIs
  <2> QED
    BY <1>8, <1>10, <2>1, NumberIs
<1>13. Number(b, 3, 10) = m.seq_no
  <2>1. PICK q \in Nat : q = m.seq_no /\ q < 1024
    BY MessageIs
  <2>2. 3 \in Nat /\ 10 \in 0 .. 10 /\ q < Two(10)
    BY <2>1, TwoIs
  <2>3. At(b, 3, Field(q, 10), 10)
    BY <1>8, <1>10, <2>1
  <2>4. Number(b, 3, 10) = q
    BY <2>2, <2>3, NumberIs
  <2> QED
    BY <2>1, <2>4
<1>14. Octets(b, 13, 4) = m.eid /\ Octets(b, 45, 4) = m.auth_tag
  <2>1. PICK x \in ByteWord(4), y \in ByteWord(4) : x = m.eid /\ y = m.auth_tag
    BY MessageIs
  <2>2. At(b, 13, Bytes(x), 32) /\ At(b, 45, Bytes(y), 32)
    BY <1>8, <1>10, <2>1
  <2>3. 32 = 8 * 4 /\ 4 \in Nat /\ 32 \in Nat /\ 13 \in Nat \ {0} /\ 45 \in Nat \ {0}
    OBVIOUS
  <2>4. Octets(b, 13, 4) = x
    BY <2>2, <2>3, OctetsIs
  <2>5. Octets(b, 45, 4) = y
    BY <2>2, <2>3, OctetsIs
  <2> QED
    BY <2>1, <2>4, <2>5
<1>15. Octets(b, 77, n) = m.out
  <2>1. m.out \in ByteWord(n)
    BY MessageIs
  <2> QED
    BY <1>1, <1>8, <1>11, <2>1, OctetsIs
<1> QED
  BY <1>6, <1>12, <1>13, <1>14, <1>15 DEF Reads

(* hubble_sat_packet_get, of one message: a codeword, and its parts.         *)
PacketOf(m) ==
  MessageSymbols(m) \o Parity(MessageSymbols(m), Generator(PayloadEcc(Len(m.out))))

LEMMA PacketIs ==
  ASSUME NEW m \in Messages, Len(m.out) \in Lengths
  PROVE  /\ PacketOf(m) \in Word(Len(PacketOf(m))) /\ Len(PacketOf(m)) \in {23, 30, 39, 46}
         /\ Divisible(PacketOf(m), PayloadEcc(Len(m.out))) /\ Reads(PacketOf(m), m)
<1>1. PICK n \in Nat : n = Len(m.out)
  BY MessageIs
<1>2. PICK k \in Nat, p \in {10, 12, 14, 16}, N \in Nat :
        /\ 76 + 8 * n <= 6 * k /\ 6 * k <= 81 + 8 * n /\ p = PayloadEcc(n) /\ N = k + p
        /\ N \in {23, 30, 39, 46}
  <2>1. CASE n = 0
    <3>1. /\ 76 + 8 * n <= 6 * 13 /\ 6 * 13 <= 81 + 8 * n /\ PayloadEcc(n) = 10
          /\ 23 = 13 + 10
      BY <2>1 DEF PayloadEcc
    <3> QED
      BY <3>1
  <2>2. CASE n = 4
    <3>1. /\ 76 + 8 * n <= 6 * 18 /\ 6 * 18 <= 81 + 8 * n /\ PayloadEcc(n) = 12
          /\ 30 = 18 + 12
      BY <2>2 DEF PayloadEcc
    <3> QED
      BY <3>1
  <2>3. CASE n = 9
    <3>1. /\ 76 + 8 * n <= 6 * 25 /\ 6 * 25 <= 81 + 8 * n /\ PayloadEcc(n) = 14
          /\ 39 = 25 + 14
      BY <2>3 DEF PayloadEcc
    <3> QED
      BY <3>1
  <2>4. CASE n = 13
    <3>1. /\ 76 + 8 * n <= 6 * 30 /\ 6 * 30 <= 81 + 8 * n /\ PayloadEcc(n) = 16
          /\ 46 = 30 + 16
      BY <2>4 DEF PayloadEcc
    <3> QED
      BY <3>1
  <2> QED
    BY <1>1, <2>1, <2>2, <2>3, <2>4 DEF Lengths
<1>3. PICK s \in Word(k) : s = MessageSymbols(m)
  BY <1>1, <1>2, MessageRead
<1>4. s \in Seq(Symbol)
  BY AsSequence DEF Word
<1>5. Parity(s, Generator(p)) \in Word(p) /\ Divisible(s \o Parity(s, Generator(p)), p)
  <2>1. p \in {4, 10, 12, 14, 16}
    OBVIOUS
  <2> QED
    BY <1>4, <2>1, ParityDivides
<1>6. PICK r \in Word(p) : r = Parity(s, Generator(p))
  BY <1>5
<1>7. PICK d : d = PacketOf(m)
  OBVIOUS
<1>8. d = s \o r
  BY <1>1, <1>2, <1>3, <1>6, <1>7 DEF PacketOf
<1>9. d \in Word(N) /\ At(d, 1, s, k)
  <2>1. p \in Nat
    OBVIOUS
  <2>2. k + 1 \in Int
    OBVIOUS
  <2> QED
    BY <1>2, <1>8, <2>1, <2>2, JoinedSymbols
<1>10. Len(d) = N
  BY <1>9, AsSequence DEF Word
<1>11. Reads(d, m)
  <2>1. k <= N
    BY <1>2
  <2> QED
    BY <1>1, <1>2, <1>3, <1>9, <2>1, MessageRead
<1>12. Divisible(d, p)
  BY <1>5, <1>6, <1>8
<1> QED
  BY <1>1, <1>2, <1>7, <1>9, <1>10, <1>11, <1>12


-----------------------------------------------------------------------------
(* The header of the frames.                                                 *)
PacketLengths == {23, 30, 39, 46, OneFrame}

LEMMA PhySizeIs ==
  ASSUME NEW length \in PacketLengths
  PROVE  PhySize(length) \in Nat /\ PhySize(length) < 4
BY DEF PacketLengths, PhySize, OneFrame

LEMMA LowField ==
  ASSUME NEW c \in Nat
  PROVE  /\ Field(c, 4) = Field(c % 16, 4)
         /\ c % 16 \in Nat /\ c % 16 < 16
<1>1. PICK m \in Nat : m = c % 16 /\ m < 16
  OBVIOUS
<1>2. /\ (c \div 1) % 2 = (m \div 1) % 2 /\ (c \div 2) % 2 = (m \div 2) % 2
      /\ (c \div 4) % 2 = (m \div 4) % 2 /\ (c \div 8) % 2 = (m \div 8) % 2
  BY <1>1
<1>3. \A k \in 0 .. 3 : Digit(c, k) = Digit(m, k)
  <2>1. \A k \in 0 .. 3 : k \in {0, 1, 2, 3}
    OBVIOUS
  <2> QED
    BY <1>2, <2>1, TwoIs DEF Digit
<1>4. \A i \in 1 .. 4 : 4 - i \in 0 .. 3
  OBVIOUS
<1>5. Field(c, 4) = Field(m, 4)
  BY <1>3, <1>4 DEF Field
<1> QED
  BY <1>1, <1>5

LEMMA FourParts ==
  ASSUME NEW v \in BitWord(4), NEW s \in BitWord(2), NEW r \in BitWord(2), NEW c \in BitWord(4)
  PROVE  LET word == v \o s \o r \o c
         IN  /\ word \in BitWord(12)
             /\ At(word, 1, v, 4) /\ At(word, 5, s, 2) /\ At(word, 7, r, 2) /\ At(word, 9, c, 4)
<1>1. PICK x2 : x2 = v \o s
  OBVIOUS
<1>2. x2 \in BitWord(6) /\ At(x2, 1, v, 4) /\ At(x2, 5, s, 2)
  <2>1. 6 = 4 + 2 /\ 5 = 4 + 1
    OBVIOUS
  <2> QED
    BY <1>1, <2>1, JoinedBits
<1>3. PICK x3 : x3 = x2 \o r
  OBVIOUS
<1>4. x3 \in BitWord(8) /\ At(x3, 1, x2, 6) /\ At(x3, 7, r, 2)
  <2>1. 8 = 6 + 2 /\ 7 = 6 + 1
    OBVIOUS
  <2> QED
    BY <1>2, <1>3, <2>1, JoinedBits
<1>5. PICK word : word = x3 \o c
  OBVIOUS
<1>6. word \in BitWord(12) /\ At(word, 1, x3, 8) /\ At(word, 9, c, 4)
  <2>1. 12 = 8 + 4 /\ 9 = 8 + 1
    OBVIOUS
  <2> QED
    BY <1>4, <1>5, <2>1, JoinedBits
<1>7. At(word, 1, x2, 6) /\ At(word, 7, r, 2)
  BY <1>4, <1>6, AtPart
<1>8. At(word, 1, v, 4) /\ At(word, 5, s, 2)
  BY <1>2, <1>7, AtPart
<1>9. word = v \o s \o r \o c
  BY <1>1, <1>3, <1>5
<1> QED
  BY <1>6, <1>7, <1>8, <1>9

(* What a receiver reads in a header: of the channel, four bits.             *)
HeaderReads(header, length, row, channel) ==
  LET bits == Bits(header)
  IN  /\ Number(bits, 1, 4) = 1
      /\ Number(bits, 5, 2) = PhySize(length)
      /\ Number(bits, 7, 2) = row
      /\ Number(bits, 9, 4) = channel % 16

HeaderOf(length, row, channel) ==
  HeaderSymbols(length, row, channel)
    \o Parity(HeaderSymbols(length, row, channel), Generator(PhyEcc))

(* hubble_sat_packet_frames_get: the header is a codeword of its own.        *)
LEMMA HeaderIs ==
  ASSUME NEW length \in PacketLengths, NEW row \in 0 .. 3, NEW channel \in Nat
  PROVE  /\ HeaderSymbols(length, row, channel) \in Word(2)
         /\ Parity(HeaderSymbols(length, row, channel), Generator(PhyEcc)) \in Word(4)
         /\ HeaderOf(length, row, channel) \in Word(6)
         /\ Divisible(HeaderOf(length, row, channel), PhyEcc)
         /\ HeaderReads(HeaderOf(length, row, channel), length, row, channel)
<1>1. PICK z \in Nat, q \in Nat, c \in Nat :
        /\ z = PhySize(length) /\ z < 4 /\ q = row /\ q < 4
        /\ c = channel % 16 /\ c < 16 /\ Field(channel, 4) = Field(c, 4)
  BY PhySizeIs, LowField
<1>2. /\ 2 \in 0 .. 10 /\ 4 \in 0 .. 10 /\ 1 \in Nat /\ 1 < Two(4)
      /\ z < Two(2) /\ q < Two(2) /\ c < Two(4)
  BY <1>1, TwoIs
<1>3. PICK f1 \in BitWord(4), f2 \in BitWord(2), f3 \in BitWord(2), f4 \in BitWord(4) :
        f1 = Field(1, 4) /\ f2 = Field(z, 2) /\ f3 = Field(q, 2) /\ f4 = Field(c, 4)
  BY <1>2, FieldIs
<1>4. PICK w : w = f1 \o f2 \o f3 \o f4
  OBVIOUS
<1>5. /\ w \in BitWord(12)
      /\ At(w, 1, f1, 4) /\ At(w, 5, f2, 2) /\ At(w, 7, f3, 2) /\ At(w, 9, f4, 4)
  BY <1>4, FourParts
<1>6. PICK s : s = HeaderSymbols(length, row, channel)
  OBVIOUS
<1>7. s = Encode(w)
  BY <1>1, <1>3, <1>4, <1>6 DEF HeaderSymbols
<1>8. /\ 12 \in Nat /\ 2 \in Nat /\ 12 <= 6 * 2 /\ 6 * 2 <= 12 + 5
      /\ 4 \in Nat /\ 6 \in Nat /\ 2 <= 6
  OBVIOUS
<1>9. s \in Word(2)
  BY <1>5, <1>7, <1>8, EncodeIs
<1>10. s \in Seq(Symbol)
  BY <1>8, <1>9, AsSequence DEF Word
<1>11. PICK r \in Word(4) : r = Parity(s, Generator(4)) /\ Divisible(s \o r, 4)
  <2>1. 4 \in {4, 10, 12, 14, 16}
    OBVIOUS
  <2> QED
    BY <1>10, <2>1, ParityDivides
<1>12. PICK h : h = HeaderOf(length, row, channel)
  OBVIOUS
<1>13. h = s \o r
  BY <1>6, <1>11, <1>12 DEF HeaderOf, PhyEcc
<1>14. h \in Word(6) /\ At(h, 1, s, 2)
  <2>1. 6 = 2 + 4 /\ 3 = 2 + 1
    OBVIOUS
  <2> QED
    BY <1>8, <1>9, <1>13, <2>1, JoinedSymbols
<1>15. PICK b : b = Bits(h)
  OBVIOUS
<1>16. At(b, 1, w, 12)
  BY <1>5, <1>7, <1>8, <1>14, <1>15, BitsOfEncoded
<1>17. At(b, 1, f1, 4) /\ At(b, 5, f2, 2) /\ At(b, 7, f3, 2) /\ At(b, 9, f4, 4)
  BY <1>5, <1>16, AtPart
<1>18. Number(b, 1, 4) = 1 /\ Number(b, 5, 2) = z /\ Number(b, 7, 2) = q /\ Number(b, 9, 4) = c
  <2>1. /\ At(b, 1, Field(1, 4), 4) /\ At(b, 5, Field(z, 2), 2) /\ At(b, 7, Field(q, 2), 2)
        /\ At(b, 9, Field(c, 4), 4)
    BY <1>3, <1>17
  <2>2. 1 \in Nat /\ 5 \in Nat /\ 7 \in Nat /\ 9 \in Nat
    OBVIOUS
  <2> QED
    BY <1>2, <2>1, <2>2, NumberIs
<1>19. HeaderReads(h, length, row, channel)
  BY <1>1, <1>15, <1>18 DEF HeaderReads
<1> QED
  BY <1>6, <1>9, <1>11, <1>12, <1>13, <1>14, <1>19 DEF PhyEcc

-----------------------------------------------------------------------------
(* The frames of a packet: pieces of what goes on the air.                   *)

LEMMA PieceIs ==
  ASSUME NEW n \in Nat, NEW w \in Word(n), NEW first \in Nat \ {0}, NEW last \in Nat, last <= n,
         NEW size \in Nat, size = last - first + 1
  PROVE  /\ SubSeq(w, first, last) \in Word(size)
         /\ At(w, first, SubSeq(w, first, last), size)
<1>1. w \in Seq(Symbol) /\ Len(w) = n
  BY AsSequence DEF Word
<1>2. SubSeq(w, first, last) = [ i \in 1 .. size |-> w[first + i - 1] ]
  BY <1>1
<1>3. \A i \in 1 .. size : first + i - 1 \in 1 .. n
  OBVIOUS
<1>4. \A i \in 1 .. size : w[first + i - 1] \in Symbol
  BY <1>3 DEF Word
<1> QED
  BY <1>2, <1>4 DEF Word, At

LEMMA SamePiece ==
  ASSUME NEW n \in Nat, NEW a \in Word(n), NEW b \in Word(n), NEW word, NEW start \in Nat,
         At(word, start, a, n), At(word, start, b, n)
  PROVE  a = b
BY DEF At, Word

(* Data of so many symbols, whitened, and the whitening taken off again.     *)
LEMMA WhitenedIs ==
  ASSUME NEW n \in 0 .. 52, NEW data \in Word(n), NEW channel \in 0 .. 18
  PROVE  /\ Whitened(data, channel) \in Word(n)
         /\ Unwhitened(Whitened(data, channel), channel) = data
<1>1. PICK z \in [ 1 .. 52 -> Symbol ] : z = Whitenings[channel + 1]
  <2>1. channel + 1 \in 1 .. 19
    OBVIOUS
  <2> QED
    BY <2>1, WhiteningAssumption DEF WhiteningAssumption
<1>2. \A i \in 1 .. n : i \in 1 .. 52 /\ z[i] \in Symbol
  OBVIOUS
<1> DEFINE add(d) == [ i \in 1 .. n |-> Plus(d[i], z[i]) ]
<1>3. ASSUME NEW d \in Word(n)
      PROVE  add(d) \in Word(n) /\ Strict(add(d)) = add(d) /\ DOMAIN d = 1 .. n
  <2>1. \A i \in 1 .. n : Plus(d[i], z[i]) \in Symbol
    BY <1>2, Field64 DEF Word
  <2>2. PICK e : e = add(d)
    OBVIOUS
  <2>3. e \in [ 1 .. n -> Symbol ]
    BY <2>1, <2>2
  <2>4. n \in Nat
    OBVIOUS
  <2>5. Strict(e) = e
    BY <2>3, <2>4, AsSequence, StrictIs
  <2> QED
    BY <2>2, <2>3, <2>5 DEF Word
<1>4. Whitened(data, channel) = add(data)
  BY <1>1, <1>3 DEF Whitened
<1>5. PICK w \in Word(n) : w = Whitened(data, channel) /\ w = add(data)
  BY <1>3, <1>4
<1>6. Unwhitened(w, channel) = add(w)
  BY <1>1, <1>3 DEF Unwhitened
<1>7. \A i \in 1 .. n : Plus(w[i], z[i]) = data[i]
  BY <1>2, <1>5, PlusTwice DEF Word
<1>8. add(w) = [ i \in 1 .. n |-> data[i] ]
  BY <1>7
<1>9. add(w) = data
  BY <1>8 DEF Word
<1> QED
  BY <1>5, <1>6, <1>9

(* Symbols on the air: preamble, header, whitened packet.                    *)
Air(header, white) == Preamble \o header \o white

LEMMA AirIs ==
  ASSUME NEW n \in Nat, NEW h \in Word(6), NEW w \in Word(n), NEW T \in Nat, T = n + 14
  PROVE  /\ Air(h, w) \in Word(T) /\ Preamble \in Word(8)
         /\ At(Air(h, w), 1, Preamble, 8) /\ At(Air(h, w), 9, h, 6) /\ At(Air(h, w), 15, w, n)
<1>1. PICK p \in Word(8) : p = Preamble
  <2>1. Preamble \in Seq(Symbol) /\ Len(Preamble) = 8
    BY DEF Preamble, Symbol
  <2>2. PICK q \in Seq(Symbol) : q = Preamble /\ Len(q) = 8
    BY <2>1
  <2>3. q \in [ 1 .. Len(q) -> Symbol ]
    <3>1. \A v \in Seq(Symbol) : v \in [ 1 .. Len(v) -> Symbol ]
      OBVIOUS
    <3> QED
      BY <3>1, Zenon
  <2>4. q \in [ 1 .. 8 -> Symbol ]
    BY <2>2, <2>3, Zenon
  <2> QED
    BY <2>2, <2>4 DEF Word
<1>2. PICK x : x = p \o h
  OBVIOUS
<1>3. x \in Word(14) /\ At(x, 1, p, 8) /\ At(x, 9, h, 6)
  <2>1. 14 = 8 + 6 /\ 9 = 8 + 1
    OBVIOUS
  <2> QED
    BY <1>2, <2>1, JoinedSymbols
<1>4. PICK a : a = x \o w
  OBVIOUS
<1>5. a \in Word(T) /\ At(a, 1, x, 14) /\ At(a, 15, w, n)
  <2>1. T = 14 + n /\ 15 = 14 + 1
    OBVIOUS
  <2> QED
    BY <1>3, <1>4, <2>1, JoinedSymbols
<1>6. At(a, 1, p, 8) /\ At(a, 9, h, 6)
  BY <1>3, <1>5, AtPart
<1>7. a = Air(h, w)
  BY <1>1, <1>2, <1>4 DEF Air
<1> QED
  BY <1>1, <1>5, <1>6, <1>7

(* Frame k of T symbols: all but the last one are full.                      *)
Size(T, k) == IF 16 * k <= T THEN 16 ELSE T - 16 * (k - 1)
FrameIs(f, air, T, k) == f \in Word(Size(T, k)) /\ At(air, 16 * (k - 1) + 1, f, Size(T, k))

LEMMA FirstFrame ==
  ASSUME NEW n \in Nat, n = 0 \/ n > 2, NEW w \in Word(n), NEW s \in Word(2), NEW r \in Word(4),
         NEW h \in Word(6), h = s \o r, NEW T \in Nat, T = n + 14
  PROVE  FrameIs(Preamble \o s \o r \o Share(w, 1), Air(h, w), T, 1)
<1>1. PICK c \in Nat : c = IF n = 0 THEN 0 ELSE 2
  OBVIOUS
<1>2. Len(w) = n
  BY AsSequence DEF Word
<1>3. Share(w, 1) = SubSeq(w, 1, c)
  <2>1. Share(w, 1) = SubSeq(w, 1, IF 2 < n THEN 2 ELSE n)
    BY <1>2 DEF Share, FrameSize
  <2> QED
    BY <1>1, <2>1
<1>4. PICK z \in Word(c) : z = Share(w, 1) /\ At(w, 1, z, c)
  <2>1. c <= n /\ c = c - 1 + 1 /\ 1 \in Nat \ {0}
    BY <1>1
  <2> QED
    BY <1>3, <2>1, PieceIs
<1>5. PICK p \in Word(8), air \in Word(T) :
        /\ p = Preamble /\ air = Air(h, w)
        /\ At(air, 1, p, 8) /\ At(air, 9, h, 6) /\ At(air, 15, w, n)
  BY AirIs
<1>6. At(h, 1, s, 2) /\ At(h, 3, r, 4)
  <2>1. 6 = 2 + 4 /\ 3 = 2 + 1
    OBVIOUS
  <2> QED
    BY <2>1, JoinedSymbols
<1>7. PICK x : x = p \o s
  OBVIOUS
<1>8. x \in Word(10) /\ At(x, 1, p, 8) /\ At(x, 9, s, 2)
  <2>1. 10 = 8 + 2 /\ 9 = 8 + 1
    OBVIOUS
  <2> QED
    BY <1>7, <2>1, JoinedSymbols
<1>9. PICK y : y = x \o r
  OBVIOUS
<1>10. y \in Word(14) /\ At(y, 1, x, 10) /\ At(y, 11, r, 4)
  <2>1. 14 = 10 + 4 /\ 11 = 10 + 1
    OBVIOUS
  <2> QED
    BY <1>8, <1>9, <2>1, JoinedSymbols
<1>11. PICK f : f = y \o z
  OBVIOUS
<1>12. PICK m \in Nat : m = 14 + c /\ m = Size(T, 1) /\ m <= T
  BY <1>1 DEF Size
<1>13. f \in Word(m) /\ At(f, 1, y, 14) /\ At(f, 15, z, c)
  <2>1. 15 = 14 + 1
    OBVIOUS
  <2> QED
    BY <1>10, <1>11, <1>12, <2>1, JoinedSymbols
<1>14. At(f, 1, p, 8) /\ At(f, 9, s, 2) /\ At(f, 11, r, 4)
  <2>1. At(f, 1, x, 10) /\ At(f, 11, r, 4)
    BY <1>10, <1>13, AtPart
  <2> QED
    BY <1>8, <2>1, AtPart
<1>15. \A i \in 1 .. m : air[i] = f[i]
  <2> SUFFICES ASSUME NEW i \in 1 .. m PROVE air[i] = f[i]
    OBVIOUS
  <2>1. CASE i \in 1 .. 8
    <3>1. 1 + i - 1 = i
      OBVIOUS
    <3> QED
      BY <1>5, <1>14, <2>1, <3>1 DEF At
  <2>2. CASE i \in 9 .. 10
    <3>1. PICK j \in 1 .. 2 : i = 9 + j - 1 /\ j \in 1 .. 6 /\ 1 + j - 1 = j
      BY <2>2
    <3>2. air[9 + j - 1] = h[j] /\ h[1 + j - 1] = s[j] /\ f[9 + j - 1] = s[j]
      BY <1>5, <1>6, <1>14, <3>1 DEF At
    <3> QED
      BY <3>1, <3>2
  <2>3. CASE i \in 11 .. 14
    <3>1. PICK j \in 1 .. 4 : i = 11 + j - 1
      BY <2>3
    <3>2. PICK l \in 1 .. 6 : l = 3 + j - 1 /\ i = 9 + l - 1
      BY <3>1
    <3>3. air[9 + l - 1] = h[l] /\ h[3 + j - 1] = r[j] /\ f[11 + j - 1] = r[j]
      BY <1>5, <1>6, <1>14, <3>1, <3>2 DEF At
    <3> QED
      BY <3>1, <3>2, <3>3
  <2>4. CASE i \in 15 .. m
    <3>1. PICK j \in 1 .. c : i = 15 + j - 1 /\ j \in 1 .. n /\ 1 + j - 1 = j
      BY <1>1, <1>12, <2>4
    <3>2. air[15 + j - 1] = w[j] /\ w[1 + j - 1] = z[j] /\ f[15 + j - 1] = z[j]
      BY <1>4, <1>5, <1>13, <3>1 DEF At
    <3> QED
      BY <3>1, <3>2
  <2>5. i \in 1 .. 8 \/ i \in 9 .. 10 \/ i \in 11 .. 14 \/ i \in 15 .. m
    OBVIOUS
  <2> QED
    BY <2>1, <2>2, <2>3, <2>4, <2>5
<1>16. f = Preamble \o s \o r \o Share(w, 1)
  BY <1>4, <1>5, <1>7, <1>9, <1>11
<1>17. At(air, 16 * (1 - 1) + 1, f, m)
  <2>1. \A i \in 1 .. m : 16 * (1 - 1) + 1 + i - 1 = i
    OBVIOUS
  <2> QED
    BY <1>15, <2>1 DEF At
<1> QED
  BY <1>5, <1>12, <1>13, <1>16, <1>17 DEF FrameIs

LEMMA LaterFrame ==
  ASSUME NEW n \in Nat, NEW w \in Word(n), NEW h \in Word(6), NEW T \in Nat, T = n + 14,
         NEW k \in Nat, k > 1, 16 * (k - 1) < T
  PROVE  FrameIs(Share(w, k), Air(h, w), T, k)
<1>1. PICK first \in Nat \ {0}, last \in Nat, size \in Nat :
        /\ first = 16 * (k - 1) - 13 /\ last = (IF 16 * k - 14 < n THEN 16 * k - 14 ELSE n)
        /\ last <= n /\ size = last - first + 1 /\ size = Size(T, k)
  <2>1. 16 * (k - 1) - 13 \in Nat \ {0}
    OBVIOUS
  <2>2. CASE 16 * k <= T
    BY <2>1, <2>2 DEF Size
  <2>3. CASE ~(16 * k <= T)
    BY <2>1, <2>3 DEF Size
  <2> QED
    BY <2>2, <2>3
<1>2. Len(w) = n
  BY AsSequence DEF Word
<1>3. Share(w, k) = SubSeq(w, first, last)
  BY <1>1, <1>2 DEF Share, FrameSize
<1>4. PICK z \in Word(size) : z = Share(w, k) /\ At(w, first, z, size)
  BY <1>1, <1>3, PieceIs
<1>5. PICK air : air = Air(h, w) /\ At(air, 15, w, n)
  BY AirIs
<1>6. ASSUME NEW i \in 1 .. size PROVE air[16 * (k - 1) + 1 + i - 1] = z[i]
  <2>1. PICK j \in 1 .. n : j = first + i - 1
    BY <1>1
  <2>2. 15 + j - 1 = 16 * (k - 1) + 1 + i - 1
    BY <1>1, <2>1
  <2>3. air[15 + j - 1] = w[j]
    BY <1>5 DEF At
  <2>4. w[j] = z[i]
    BY <1>4, <2>1 DEF At
  <2> QED
    BY <2>2, <2>3, <2>4
<1> QED
  BY <1>1, <1>4, <1>5, <1>6 DEF FrameIs, At

(* Frames that are the pieces of what goes on the air are heard as that.     *)
LEMMA HeardIs ==
  ASSUME NEW T \in Nat, NEW air \in Word(T), NEW N \in Nat \ {0}, 16 * (N - 1) < T, T <= 16 * N,
         NEW fs, Len(fs) = N, \A k \in 1 .. N : FrameIs(fs[k], air, T, k)
  PROVE  Heard(fs) = air
<1>1. \A k \in 1 .. N - 1 : Size(T, k) = 16
  BY DEF Size
<1>2. Size(T, N) \in Nat /\ 16 * (N - 1) + Size(T, N) = T
  BY DEF Size
<1>3. Len(fs[N]) = Size(T, N)
  <2>1. fs[N] \in Word(Size(T, N))
    BY DEF FrameIs
  <2> QED
    BY <1>2, <2>1, AsSequence DEF Word
<1> DEFINE H == [ j \in 1 .. T |-> fs[(j - 1) \div 16 + 1][((j - 1) % 16) + 1] ]
<1>4. Heard(fs) = Strict(H)
  BY <1>2, <1>3 DEF Heard, FrameSize
<1>5. ASSUME NEW j \in 1 .. T PROVE H[j] = air[j]
  <2>1. /\ (j - 1) \div 16 + 1 \in 1 .. N /\ ((j - 1) % 16) + 1 \in 1 .. 16
        /\ j = 16 * (((j - 1) \div 16 + 1) - 1) + 1 + (((j - 1) % 16) + 1) - 1
    OBVIOUS
  <2>2. PICK k \in 1 .. N, i \in 1 .. 16 :
          /\ k = (j - 1) \div 16 + 1 /\ i = ((j - 1) % 16) + 1
          /\ j = 16 * (k - 1) + 1 + i - 1
    BY <2>1
  <2>3. i \in 1 .. Size(T, k)
    <3>1. CASE k = N
      BY <1>2, <2>2, <3>1
    <3>2. CASE k \in 1 .. N - 1
      BY <1>1, <3>2
    <3> QED
      BY <3>1, <3>2
  <2>4. air[16 * (k - 1) + 1 + i - 1] = fs[k][i]
    BY <2>3 DEF FrameIs, At
  <2> QED
    BY <2>2, <2>4
<1>6. H = [ j \in 1 .. T |-> air[j] ]
  BY <1>5
<1>7. H = air
  BY <1>6 DEF Word
<1>8. Strict(air) = air
  BY AsSequence, StrictIs DEF Word
<1> QED
  BY <1>4, <1>7, <1>8

-----------------------------------------------------------------------------
(* What holds of the packets, the encoder and the frames at every step.      *)

IsPacket(p) ==
  /\ p.length \in PacketLengths
  /\ p.data \in Word(IF p.length = OneFrame THEN 0 ELSE p.length)

PackingType ==
  /\ todo \in [ Threads -> Nat ]
  /\ message \in [ Threads -> Messages \cup {NoMessage} ]
  /\ packet \in [ Threads -> [ length : Nat, data : Seq(Symbol) ] ]
  /\ rs \in [ Threads -> {"idle", "generated", "encoded"} ]
  /\ frames \in [ Threads -> Seq(Seq(Symbol)) ]

(* hubble_sat_packet_get: the message is one it can pack, and before the     *)
(* lock is let go the packet is the one of the message.                      *)
MessageInv(t) ==
  /\ pc[t] \in {"assembled", "holding", "filled"} =>
       message[t] \in Messages /\ Len(message[t].out) \in Lengths
  /\ pc[t] = "filled" =>
       packet[t] = [ length |-> Len(PacketOf(message[t])), data |-> PacketOf(message[t]) ]
  /\ packet[t] = NoPacket \/ IsPacket(packet[t])
  /\ pc[t] \in {"waiting", "locked", "find", "take", "done"} => IsPacket(packet[t])

(* Whoever is between two calls of the encoder holds the lock, so its        *)
(* statics are still what this task made them.                               *)
EncoderInv(t) ==
  /\ rs[t] # "idle" => pc[t] = "holding" \/ InHeader(t)
  /\ rs[t] = "generated" => gg = Generator(Parities(t))
  /\ rs[t] = "encoded" => bb = Parity(SymbolsToProtect(t), Generator(Parities(t)))

(* The frames so far are pieces of what goes on the air.                     *)
Total(p) == Len(p.data) + 14
AirOf(p, row, channel) == Air(HeaderOf(p.length, row, channel), Whitened(p.data, channel))

FramesInv(t) ==
  /\ pc[t] \notin {"find", "take", "done"} => frames[t] = << >>
  /\ \A k \in 1 .. Len(frames[t]) :
       FrameIs(frames[t][k], AirOf(packet[t], hop[t], channels[t][1]), Total(packet[t]), k)
  /\ Len(frames[t]) = Len(channels[t]) \/ InHeader(t)

CountInv(t) ==
  /\ pc[t] \in {"waiting", "locked", "find", "take"} =>
       todo[t] > 0 /\ todo[t] + Len(channels[t]) = FramesOf(packet[t].length)
  /\ pc[t] = "done" => Len(channels[t]) = FramesOf(packet[t].length)

PackOf(t) == MessageInv(t) /\ EncoderInv(t) /\ FramesInv(t) /\ CountInv(t)

PackInv == PackingType /\ \A t \in Threads : PackOf(t)

LEMMA FramesOfIs ==
  ASSUME NEW length \in PacketLengths
  PROVE  /\ FramesOf(length) \in Nat \ {0}
         /\ \A T \in Nat : T = (IF length = OneFrame THEN 0 ELSE length) + 14 =>
              16 * (FramesOf(length) - 1) < T /\ T <= 16 * FramesOf(length)
BY DEF PacketLengths, FramesOf, FrameSize, OneFrame

LEMMA NoPacketIs == NoPacket \in [ length : Nat, data : Seq(Symbol) ]
BY DEF NoPacket

(* A task none of whose own variables change.                                *)
LEMMA Untouched ==
  ASSUME NEW u \in Threads, PackOf(u),
         pc'[u] = pc[u], todo'[u] = todo[u], hop'[u] = hop[u], channels'[u] = channels[u],
         message'[u] = message[u], packet'[u] = packet[u], rs'[u] = rs[u],
         frames'[u] = frames[u],
         rs[u] = "idle" \/ UNCHANGED << gg, bb >>
  PROVE  PackOf(u)'
<1>1. InHeader(u)' <=> InHeader(u)
  BY DEF InHeader
<1>2. MessageInv(u)'
  BY DEF PackOf, MessageInv
<1>3. EncoderInv(u)'
  BY <1>1 DEF PackOf, EncoderInv, Parities, SymbolsToProtect
<1>4. FramesInv(u)'
  BY <1>1 DEF PackOf, FramesInv
<1>5. CountInv(u)'
  BY DEF PackOf, CountInv
<1> QED
  BY <1>2, <1>3, <1>4, <1>5 DEF PackOf

(* While a task is where the lock is held, no other is using the encoder.    *)
LEMMA Busy ==
  ASSUME Inv, PackInv, NEW t \in Threads, NEW u \in Threads, u # t, pc[t] \in Critical
  PROVE  rs[u] = "idle"
<1>1. lock = t
  BY DEF Inv, LockInv
<1>2. pc[u] \notin Critical
  BY <1>1 DEF Inv, LockInv
<1> QED
  BY <1>2 DEF PackInv, PackOf, EncoderInv, InHeader, Critical

LEMMA NoFrames ==
  ASSUME NEW t \in Threads, frames[t] = << >>, channels[t] = << >>
  PROVE  FramesInv(t)
BY DEF FramesInv

(* Nothing is on the way of a task outside.                                  *)
LEMMA NothingYet ==
  ASSUME Inv, PackInv, NEW t \in Threads, pc[t] \notin {"find", "take", "done"}
  PROVE  frames[t] = << >> /\ channels[t] = << >> /\ (pc[t] # "holding" => rs[t] = "idle")
BY DEF Inv, LockInv, PackInv, PackOf, FramesInv, EncoderInv, InHeader

LEMMA PackInit == PacketInit => PackInv
<1> SUFFICES ASSUME PacketInit PROVE PackInv
  OBVIOUS
<1>1. PackingType
  BY NoPacketIs DEF PacketInit, Init, PackingType
<1>2. ASSUME NEW t \in Threads PROVE PackOf(t)
  <2>1. /\ pc[t] = "idle" /\ rs[t] = "idle" /\ frames[t] = << >> /\ channels[t] = << >>
        /\ packet[t] = NoPacket
    BY DEF PacketInit, Init
  <2> QED
    BY <2>1, NoFrames DEF PackOf, MessageInv, EncoderInv, CountInv
<1> QED
  BY <1>1, <1>2 DEF PackInv

LEMMA PackSequenceSet ==
  ASSUME Inv, PackInv, NEW t \in Threads, SequenceSet(t), UNCHANGED packing
  PROVE  PackInv'
<1>1. \A u \in Threads : pc[u] = "idle"
  BY DEF SequenceSet, Alone
<1>2. UNCHANGED << pc, todo, channels, message, packet, rs, frames >>
  BY DEF SequenceSet, packing
<1>3. PackingType'
  BY <1>2 DEF PackInv, PackingType
<1>4. ASSUME NEW u \in Threads PROVE PackOf(u)'
  <2>1. pc[u] = "idle" /\ frames[u] = << >> /\ channels[u] = << >> /\ rs[u] = "idle"
    BY <1>1, NothingYet
  <2>2. MessageInv(u)'
    BY <1>2 DEF PackInv, PackOf, MessageInv
  <2> QED
    BY <1>2, <2>1, <2>2 DEF PackOf, EncoderInv, FramesInv, CountInv
<1> QED
  BY <1>3, <1>4 DEF PackInv

(* The steps around the encoder and the filling of the frames.               *)
Around(t) ==
  \/ PacketCall(t) \/ PacketLock(t) \/ PacketUnlock(t) \/ OneFramePacket(t) \/ FramesOfPacket(t)
  \/ (Lock(t) \/ ReadHop(t)) /\ UNCHANGED packing
  \/ NextChannel(t) \/ FramesUnlock(t)

LEMMA NotInHeader ==
  ASSUME NEW t \in Threads, channels[t] # << >> => frames[t] # << >>
  PROVE  ~InHeader(t)
<1>1. Len(<< >>) = 0
  OBVIOUS
<1> QED
  BY <1>1 DEF InHeader

LEMMA AroundLeaves ==
  ASSUME Inv, PackInv, NEW t \in Threads, Around(t)
  PROVE  /\ UNCHANGED << rs, gg, bb >> /\ rs[t] = "idle"
         /\ \A u \in Threads \ {t} :
              /\ pc'[u] = pc[u] /\ todo'[u] = todo[u] /\ hop'[u] = hop[u]
              /\ channels'[u] = channels[u] /\ message'[u] = message[u]
              /\ packet'[u] = packet[u] /\ frames'[u] = frames[u]
<1> USE DEF Inv, TypeInv, PackInv, PackingType, Goto, packing, locals
<1>1. CASE PacketCall(t)
  BY <1>1, NothingYet DEF PacketCall
<1>2. CASE PacketLock(t)
  BY <1>2, NothingYet DEF PacketLock
<1>3. CASE PacketUnlock(t)
  BY <1>3, NothingYet DEF PacketUnlock
<1>4. CASE OneFramePacket(t)
  BY <1>4, NothingYet DEF OneFramePacket, vars
<1>5. CASE FramesOfPacket(t)
  BY <1>5, NothingYet DEF FramesOfPacket, FramesCall
<1>6. CASE (Lock(t) \/ ReadHop(t)) /\ UNCHANGED packing
  BY <1>6, NothingYet DEF Lock, ReadHop
<1>7. CASE NextChannel(t)
  <2>1. ~InHeader(t) /\ pc[t] = "find"
    BY <1>7, NotInHeader DEF NextChannel, ChannelFind
  <2>2. rs[t] = "idle"
    BY <2>1 DEF PackOf, EncoderInv
  <2> QED
    BY <1>7, <2>2 DEF NextChannel, ChannelFind
<1>8. CASE FramesUnlock(t)
  <2>1. ~InHeader(t) /\ pc[t] = "done"
    BY <1>8 DEF FramesUnlock, Unlock, InHeader
  <2>2. rs[t] = "idle"
    BY <2>1 DEF PackOf, EncoderInv
  <2> QED
    BY <1>8, <2>2 DEF FramesUnlock, Unlock
<1> QED
  BY <1>1, <1>2, <1>3, <1>4, <1>5, <1>6, <1>7, <1>8 DEF Around

LEMMA AroundType ==
  ASSUME Inv, PackInv, NEW t \in Threads, Around(t)
  PROVE  PackingType'
<1> USE DEF PackInv, PackingType, packing, locals
<1>1. CASE PacketCall(t)
  BY <1>1, NoPacketIs DEF PacketCall
<1>2. CASE PacketLock(t)
  BY <1>2 DEF PacketLock
<1>3. CASE PacketUnlock(t)
  BY <1>3 DEF PacketUnlock
<1>4. CASE OneFramePacket(t)
  <2>1. [ length |-> OneFrame, data |-> << >> ] \in [ length : Nat, data : Seq(Symbol) ]
    BY DEF OneFrame
  <2> QED
    BY <1>4, <2>1 DEF OneFramePacket, vars
<1>5. CASE FramesOfPacket(t)
  <2>1. \A n \in FrameCounts : n \in Nat
    BY ChannelHoppingAssumption DEF ChannelHoppingAssumption
  <2> QED
    BY <1>5, <2>1 DEF FramesOfPacket, FramesCall, hopping
<1>6. CASE (Lock(t) \/ ReadHop(t)) /\ UNCHANGED packing
  BY <1>6 DEF Lock, ReadHop
<1>7. CASE NextChannel(t)
  BY <1>7 DEF NextChannel, ChannelFind
<1>8. CASE FramesUnlock(t)
  BY <1>8 DEF FramesUnlock, Unlock, hopping
<1> QED
  BY <1>1, <1>2, <1>3, <1>4, <1>5, <1>6, <1>7, <1>8 DEF Around

LEMMA AroundMessage ==
  ASSUME Inv, PackInv, NEW t \in Threads, Around(t)
  PROVE  MessageInv(t)'
<1> USE DEF Inv, TypeInv, PackInv, PackingType, PackOf, MessageInv, Goto, packing, locals
<1>1. CASE PacketCall(t)
  BY <1>1 DEF PacketCall
<1>2. CASE PacketLock(t)
  BY <1>2 DEF PacketLock
<1>3. CASE PacketUnlock(t)
  BY <1>3 DEF PacketUnlock
<1>4. CASE OneFramePacket(t)
  <2>1. packet'[t] = [ length |-> OneFrame, data |-> << >> ]
    BY <1>4 DEF OneFramePacket
  <2>2. IsPacket([ length |-> OneFrame, data |-> << >> ])
    BY DEF IsPacket, PacketLengths, Word
  <2> QED
    BY <1>4, <2>1, <2>2 DEF OneFramePacket, vars
<1>5. CASE FramesOfPacket(t)
  BY <1>5 DEF FramesOfPacket, FramesCall
<1>6. CASE (Lock(t) \/ ReadHop(t)) /\ UNCHANGED packing
  BY <1>6 DEF Lock, ReadHop
<1>7. CASE NextChannel(t)
  BY <1>7 DEF NextChannel, ChannelFind
<1>8. CASE FramesUnlock(t)
  BY <1>8 DEF FramesUnlock, Unlock
<1> QED
  BY <1>1, <1>2, <1>3, <1>4, <1>5, <1>6, <1>7, <1>8 DEF Around

LEMMA AroundFrames ==
  ASSUME Inv, PackInv, NEW t \in Threads, Around(t)
  PROVE  FramesInv(t)'
<1> USE DEF Inv, TypeInv, PackInv, PackingType, Goto, packing, locals
<1>1. CASE PacketCall(t) \/ PacketLock(t) \/ PacketUnlock(t) \/ OneFramePacket(t)
           \/ FramesOfPacket(t) \/ (Lock(t) /\ UNCHANGED packing)
  <2>1. frames[t] = << >> /\ channels[t] = << >>
    BY <1>1, NothingYet DEF PacketCall, PacketLock, PacketUnlock, OneFramePacket,
         FramesOfPacket, FramesCall, Lock
  <2>2. frames'[t] = << >> /\ channels'[t] = << >>
    BY <1>1, <2>1 DEF PacketCall, PacketLock, PacketUnlock, OneFramePacket, FramesOfPacket,
         FramesCall, Lock, vars
  <2> QED
    BY <2>2 DEF FramesInv
<1>2. CASE ReadHop(t) /\ UNCHANGED packing
  <2>1. frames[t] = << >> /\ channels[t] = << >>
    BY <1>2, NothingYet DEF ReadHop
  <2>2. frames'[t] = << >> /\ channels'[t] = << >>
    BY <1>2, <2>1 DEF ReadHop
  <2> QED
    BY <2>2 DEF FramesInv
<1>3. CASE NextChannel(t)
  <2>1. UNCHANGED << packet, hop, channels, frames >> /\ pc'[t] = "take" /\ pc[t] = "find"
    BY <1>3 DEF NextChannel, ChannelFind
  <2>2. ~InHeader(t)
    BY <1>3, NotInHeader DEF NextChannel
  <2> QED
    BY <2>1, <2>2 DEF PackOf, FramesInv
<1>4. CASE FramesUnlock(t)
  <2>1. frames'[t] = << >> /\ channels'[t] = << >>
    BY <1>4 DEF FramesUnlock, Unlock
  <2> QED
    BY <2>1 DEF FramesInv
<1> QED
  BY <1>1, <1>2, <1>3, <1>4 DEF Around

LEMMA AroundCount ==
  ASSUME Inv, PackInv, NEW t \in Threads, Around(t)
  PROVE  CountInv(t)'
<1> USE DEF Inv, TypeInv, PackInv, PackingType, Goto, packing, locals
<1>1. CASE PacketCall(t) \/ PacketLock(t) \/ PacketUnlock(t) \/ OneFramePacket(t)
           \/ FramesUnlock(t)
  BY <1>1 DEF PacketCall, PacketLock, PacketUnlock, OneFramePacket, FramesUnlock, Unlock,
       CountInv, vars
<1>2. CASE FramesOfPacket(t)
  <2>1. /\ pc'[t] = "waiting" /\ UNCHANGED << packet, channels >>
        /\ todo'[t] = FramesOf(packet[t].length)
    BY <1>2 DEF FramesOfPacket, FramesCall
  <2>2. channels[t] = << >>
    BY <1>2, NothingYet DEF FramesOfPacket, FramesCall
  <2>3. packet[t].length \in PacketLengths
    BY <1>2 DEF FramesOfPacket, PackOf, MessageInv, IsPacket
  <2>4. FramesOf(packet[t].length) \in Nat \ {0}
    BY <2>3, FramesOfIs
  <2> QED
    BY <2>1, <2>2, <2>4 DEF CountInv
<1>3. CASE (Lock(t) \/ ReadHop(t)) /\ UNCHANGED packing
  BY <1>3 DEF Lock, ReadHop, PackOf, CountInv
<1>4. CASE NextChannel(t)
  BY <1>4 DEF NextChannel, ChannelFind, PackOf, CountInv
<1> QED
  BY <1>1, <1>2, <1>3, <1>4 DEF Around

LEMMA PackAround ==
  ASSUME Inv, PackInv, NEW t \in Threads, Around(t)
  PROVE  PackInv'
<1>1. ASSUME NEW u \in Threads, u # t PROVE PackOf(u)'
  <2>1. PackOf(u)
    BY DEF PackInv
  <2> QED
    BY <1>1, <2>1, AroundLeaves, Untouched
<1>2. EncoderInv(t)'
  BY AroundLeaves DEF EncoderInv
<1>3. PackOf(t)'
  BY <1>2, AroundMessage, AroundFrames, AroundCount DEF PackOf
<1> QED
  BY <1>1, <1>3, AroundType DEF PackInv

(* The lengths on the air of a packet.                                       *)
LEMMA AirOfPacket ==
  ASSUME NEW p, IsPacket(p), NEW row \in Rows, NEW channel \in Channels,
         NEW n, n = Len(p.data)
  PROVE  /\ n \in 0 .. 52 /\ (n = 0 \/ n > 2) /\ p.data \in Word(n)
         /\ n = (IF p.length = OneFrame THEN 0 ELSE p.length)
         /\ row \in 0 .. 3 /\ channel \in 0 .. 18 /\ channel \in Nat
         /\ Whitened(p.data, channel) \in Word(n)
<1>1. PICK m \in 0 .. 52 :
        /\ m = (IF p.length = OneFrame THEN 0 ELSE p.length)
        /\ m = 0 \/ m > 2
        /\ p.data \in Word(m)
  <2>1. /\ p.length \in PacketLengths
        /\ p.data \in Word(IF p.length = OneFrame THEN 0 ELSE p.length)
    BY DEF IsPacket
  <2>2. CASE p.length = OneFrame
    BY <2>1, <2>2
  <2>3. CASE p.length # OneFrame
    <3>1. PICK m \in {23, 30, 39, 46} : m = p.length
      BY <2>1, <2>3 DEF PacketLengths
    <3>2. m \in 0 .. 52 /\ m > 2 /\ p.data \in Word(m)
      BY <2>1, <2>3, <3>1
    <3> QED
      BY <2>3, <3>1, <3>2
  <2> QED
    BY <2>2, <2>3
<1>2. m \in Nat
  OBVIOUS
<1>3. n = m
  BY <1>1, <1>2, AsSequence DEF Word
<1>4. NumChannels \in Nat /\ NumChannels <= 19 /\ Rows \subseteq 0 .. 3
  BY Constants, SatPacketAssumption DEF SatPacketAssumption
<1>5. row \in 0 .. 3 /\ channel \in 0 .. 18 /\ channel \in Nat
  BY <1>4 DEF Channels
<1>6. Whitened(p.data, channel) \in Word(m)
  BY <1>1, <1>5, WhitenedIs
<1> QED
  BY <1>1, <1>3, <1>5, <1>6

LEMMA SameButEncoder ==
  ASSUME NEW u \in Threads, PackOf(u),
         UNCHANGED << pc, todo, hop, channels, message, packet, frames >>
  PROVE  /\ MessageInv(u)' /\ FramesInv(u)' /\ CountInv(u)'
         /\ (InHeader(u)' <=> InHeader(u)) /\ Parities(u)' = Parities(u)
         /\ SymbolsToProtect(u)' = SymbolsToProtect(u)
<1>1. InHeader(u)' <=> InHeader(u)
  BY DEF InHeader
<1>2. Parities(u)' = Parities(u) /\ SymbolsToProtect(u)' = SymbolsToProtect(u)
  BY <1>1 DEF Parities, SymbolsToProtect
<1> QED
  BY <1>1, <1>2 DEF PackOf, MessageInv, FramesInv, CountInv

LEMMA PackEncoder ==
  ASSUME Inv, PackInv, NEW t \in Threads, Generate(t) \/ EncodeParity(t)
  PROVE  PackInv'
<1>1. pc[t] = "holding" \/ InHeader(t)
  BY DEF Generate, EncodeParity, PackInv, PackOf, EncoderInv
<1>2. pc[t] \in Critical
  BY <1>1 DEF InHeader, Critical
<1>3. /\ UNCHANGED << pc, todo, hop, channels, message, packet, frames >>
      /\ rs' \in [ Threads -> {"idle", "generated", "encoded"} ]
      /\ \A u \in Threads \ {t} : rs'[u] = rs[u]
  BY DEF Generate, EncodeParity, vars, locals, PackInv, PackingType
<1>4. PackingType'
  BY <1>3 DEF PackInv, PackingType
<1>5. ASSUME NEW u \in Threads, u # t PROVE PackOf(u)'
  <2>1. rs[u] = "idle" /\ PackOf(u)
    BY <1>2, <1>5, Busy DEF PackInv
  <2> QED
    BY <1>3, <1>5, <2>1, Untouched
<1>6. PackOf(t)'
  <2>1. PackOf(t)
    BY DEF PackInv
  <2>2. /\ MessageInv(t)' /\ FramesInv(t)' /\ CountInv(t)'
        /\ (InHeader(t)' <=> InHeader(t)) /\ Parities(t)' = Parities(t)
        /\ SymbolsToProtect(t)' = SymbolsToProtect(t)
    BY <1>3, <2>1, SameButEncoder
  <2>3. CASE Generate(t)
    <3>1. rs'[t] = "generated" /\ gg' = Generator(Parities(t))
      BY <2>3 DEF Generate, PackInv, PackingType
    <3>2. EncoderInv(t)'
      BY <1>1, <1>3, <2>2, <3>1 DEF EncoderInv
    <3> QED
      BY <2>2, <3>2 DEF PackOf
  <2>4. CASE EncodeParity(t)
    <3>1. /\ rs'[t] = "encoded" /\ bb' = Parity(SymbolsToProtect(t), gg)
          /\ gg = Generator(Parities(t))
      BY <2>1, <2>4 DEF EncodeParity, PackInv, PackingType, PackOf, EncoderInv
    <3>2. EncoderInv(t)'
      BY <1>1, <1>3, <2>2, <3>1 DEF EncoderInv
    <3> QED
      BY <2>2, <3>2 DEF PackOf
  <2> QED
    BY <2>3, <2>4
<1> QED
  BY <1>4, <1>5, <1>6 DEF PackInv

LEMMA PackPacketCopy ==
  ASSUME Inv, PackInv, NEW t \in Threads, PacketCopy(t)
  PROVE  PackInv'
<1>1. pc[t] = "holding" /\ rs[t] = "encoded" /\ ~InHeader(t) /\ pc[t] \in Critical
  BY DEF PacketCopy, Goto, InHeader, Critical
<1>2. PICK d : d = PacketOf(message[t])
  OBVIOUS
<1>3. SymbolsToProtect(t) \o bb = d
  BY <1>1, <1>2 DEF PackInv, PackOf, EncoderInv, SymbolsToProtect, Parities, PacketOf
<1>4. d \in Word(Len(d)) /\ Len(d) \in {23, 30, 39, 46}
  <2>1. message[t] \in Messages /\ Len(message[t].out) \in Lengths
    BY <1>1 DEF PackInv, PackOf, MessageInv
  <2> QED
    BY <1>2, <2>1, PacketIs
<1>5. PICK n \in {23, 30, 39, 46} : n = Len(d) /\ d \in Word(n)
  BY <1>4
<1>6. d \in Seq(Symbol)
  BY <1>5, AsSequence DEF Word
<1>7. /\ packet' = [ packet EXCEPT ![t] = [ length |-> n, data |-> d ] ]
      /\ rs' = [ rs EXCEPT ![t] = "idle" ] /\ pc' = [ pc EXCEPT ![t] = "filled" ]
      /\ UNCHANGED << todo, hop, channels, message, frames >>
  BY <1>3, <1>5 DEF PacketCopy, Goto, locals
<1>8. PackingType'
  <2>1. [ length |-> n, data |-> d ] \in [ length : Nat, data : Seq(Symbol) ]
    BY <1>6
  <2> QED
    BY <1>7, <2>1 DEF PackInv, PackingType
<1>9. ASSUME NEW u \in Threads, u # t PROVE PackOf(u)'
  <2>1. rs[u] = "idle" /\ PackOf(u)
    BY <1>1, <1>9, Busy DEF PackInv
  <2>2. pc'[u] = pc[u] /\ packet'[u] = packet[u] /\ rs'[u] = rs[u]
    BY <1>7, <1>9 DEF PackInv, PackingType, Inv, TypeInv
  <2> QED
    BY <1>7, <2>1, <2>2, Untouched
<1>10. /\ pc'[t] = "filled" /\ rs'[t] = "idle" /\ message'[t] = message[t]
       /\ packet'[t] = [ length |-> n, data |-> d ]
  BY <1>7 DEF PackInv, PackingType, Inv, TypeInv
<1>11. MessageInv(t)'
  <2>1. message[t] \in Messages /\ Len(message[t].out) \in Lengths
    BY <1>1 DEF PackInv, PackOf, MessageInv
  <2>2. IsPacket([ length |-> n, data |-> d ])
    <3>1. n \in PacketLengths /\ n # OneFrame
      BY DEF PacketLengths, OneFrame
    <3>2. PICK p : p = [ length |-> n, data |-> d ]
      OBVIOUS
    <3>3. p.length = n /\ p.data = d
      BY <3>2
    <3>4. IsPacket(p)
      BY <1>5, <3>1, <3>3 DEF IsPacket
    <3> QED
      BY <3>2, <3>4
  <2>3. packet'[t] = [ length |-> Len(PacketOf(message'[t])), data |-> PacketOf(message'[t]) ]
    BY <1>2, <1>5, <1>10
  <2> QED
    BY <1>10, <2>1, <2>2, <2>3 DEF MessageInv
<1>12. FramesInv(t)'
  <2>1. frames'[t] = << >> /\ channels'[t] = << >>
    BY <1>1, <1>7, NothingYet
  <2> QED
    BY <2>1 DEF FramesInv
<1>13. PackOf(t)'
  BY <1>10, <1>11, <1>12 DEF PackOf, EncoderInv, CountInv
<1> QED
  BY <1>8, <1>9, <1>13 DEF PackInv

LEMMA FrameType ==
  ASSUME NEW f, NEW air, NEW T \in Nat, NEW k \in Nat, 16 * (k - 1) < T, FrameIs(f, air, T, k)
  PROVE  f \in Seq(Symbol)
<1>1. Size(T, k) \in Nat
  BY DEF Size
<1> QED
  BY <1>1, AsSequence DEF FrameIs, Word

(* The header and two symbols of the packet go into the first frame.         *)
LEMMA PackHeaderCopy ==
  ASSUME Inv, PackInv, NEW t \in Threads, HeaderCopy(t)
  PROVE  PackInv'
<1>1. /\ InHeader(t) /\ rs[t] = "encoded" /\ pc[t] \in {"find", "done"} /\ pc[t] \in Critical
      /\ Len(channels[t]) = 1
  BY DEF HeaderCopy, InHeader, Critical
<1>0. PICK p, T : p = packet[t] /\ T = Total(p)
  OBVIOUS
<1>2. PICK row \in Rows, channel \in Channels :
        p = packet[t] /\ row = hop[t] /\ channel = channels[t][1]
  <2>1. channels[t][1] \in Channels
    <3>1. channels[t] \in Seq(Channels)
      BY DEF Inv, TypeInv
    <3>2. \A list \in Seq(Channels) : Len(list) = 1 => list[1] \in Channels
      OBVIOUS
    <3> QED
      BY <1>1, <3>1, <3>2
  <2> QED
    BY <1>0, <2>1 DEF Inv, TypeInv
<1>3. IsPacket(p)
  BY <1>1, <1>2 DEF PackInv, PackOf, MessageInv
<1>4. PICK n \in 0 .. 52 :
        /\ n = Len(p.data) /\ (n = 0 \/ n > 2) /\ p.data \in Word(n)
        /\ row \in 0 .. 3 /\ channel \in Nat
        /\ Whitened(p.data, channel) \in Word(n)
  BY <1>3, AirOfPacket
<1>5. PICK w \in Word(n) : w = Whitened(p.data, channel)
  BY <1>4
<1>6. PICK s \in Word(2), r \in Word(4), h \in Word(6) :
        /\ s = HeaderSymbols(p.length, row, channel)
        /\ r = Parity(s, Generator(PhyEcc))
        /\ h = HeaderOf(p.length, row, channel)
        /\ h = s \o r
  <2>1. p.length \in PacketLengths /\ row \in 0 .. 3 /\ channel \in Nat
    BY <1>3, <1>4 DEF IsPacket
  <2>2. PICK l \in PacketLengths : l = p.length
    BY <2>1
  <2>3. /\ HeaderSymbols(l, row, channel) \in Word(2)
        /\ Parity(HeaderSymbols(l, row, channel), Generator(PhyEcc)) \in Word(4)
        /\ HeaderOf(l, row, channel) \in Word(6)
    BY <2>1, HeaderIs
  <2> QED
    BY <2>2, <2>3 DEF HeaderOf
<1>7. SymbolsToProtect(t) = s /\ bb = r
  BY <1>1, <1>2, <1>6 DEF PackInv, PackOf, EncoderInv, SymbolsToProtect, Parities
<1>8. PICK f : f = Preamble \o s \o r \o Share(w, 1)
  OBVIOUS
<1>9. T \in Nat /\ T = n + 14 /\ n \in Nat /\ 16 * (1 - 1) < T
  <2>1. T = Len(p.data) + 14
    BY <1>0 DEF Total
  <2>2. n \in Nat /\ n + 14 \in Nat /\ n + 14 > 0
    OBVIOUS
  <2> QED
    BY <1>4, <2>1, <2>2
<1>10. FrameIs(f, Air(h, w), T, 1)
  BY <1>4, <1>6, <1>8, <1>9, FirstFrame
<1>11. f \in Seq(Symbol)
  BY <1>9, <1>10, FrameType
<1>12. /\ frames' = [ frames EXCEPT ![t] = << f >> ] /\ rs' = [ rs EXCEPT ![t] = "idle" ]
       /\ UNCHANGED << pc, todo, hop, channels, message, packet >>
  BY <1>2, <1>5, <1>7, <1>8 DEF HeaderCopy, vars, locals
<1>13. PackingType'
  <2>1. << f >> \in Seq(Seq(Symbol))
    BY <1>11
  <2> QED
    BY <1>12, <2>1 DEF PackInv, PackingType
<1>14. ASSUME NEW u \in Threads, u # t PROVE PackOf(u)'
  <2>1. rs[u] = "idle" /\ PackOf(u)
    BY <1>1, <1>14, Busy DEF PackInv
  <2>2. frames'[u] = frames[u] /\ rs'[u] = rs[u]
    BY <1>12, <1>14 DEF PackInv, PackingType
  <2> QED
    BY <1>12, <2>1, <2>2, Untouched
<1>15. rs'[t] = "idle" /\ frames'[t] = << f >>
  BY <1>12 DEF PackInv, PackingType
<1>16. MessageInv(t)' /\ CountInv(t)'
  BY <1>12 DEF PackInv, PackOf, MessageInv, CountInv
<1>17. FramesInv(t)'
  <2>1. Len(<< f >>) = 1 /\ << f >>[1] = f
    OBVIOUS
  <2>2. AirOf(p, row, channel) = Air(h, w)
    BY <1>5, <1>6 DEF AirOf
  <2>3. \A k \in 1 .. 1 : FrameIs(<< f >>[k], AirOf(p, row, channel), T, k)
    <3>1. \A k \in 1 .. 1 : k = 1
      OBVIOUS
    <3> QED
      BY <1>10, <2>1, <2>2, <3>1
  <2>4. \A k \in 1 .. Len(frames'[t]) :
          FrameIs(frames'[t][k], AirOf(packet'[t], hop'[t], channels'[t][1]),
                  Total(packet'[t]), k)
    BY <1>0, <1>2, <1>12, <1>15, <2>1, <2>3
  <2>5. pc'[t] \in {"find", "done"} /\ Len(frames'[t]) = Len(channels'[t])
    BY <1>1, <1>12, <1>15, <2>1
  <2> QED
    BY <2>4, <2>5 DEF FramesInv
<1>18. PackOf(t)'
  BY <1>15, <1>16, <1>17 DEF PackOf, EncoderInv
<1> QED
  BY <1>13, <1>14, <1>18 DEF PackInv

LEMMA FillCount ==
  ASSUME Inv, PackInv, NEW t \in Threads, FillFrame(t)
  PROVE  /\ pc[t] = "take" /\ pc[t] \in Critical /\ ~InHeader(t) /\ rs[t] = "idle"
         /\ pc'[t] \in {"find", "done"}
         /\ todo[t] \in Nat \ {0} /\ todo[t] + Len(channels[t]) = FramesOf(packet[t].length)
         /\ todo' \in [ Threads -> Nat ]
         /\ Len(channels'[t]) = Len(channels[t]) + 1
         /\ channels[t] # << >> => channels'[t][1] = channels[t][1]
         /\ CountInv(t)'
<1>1. pc[t] = "take" /\ pc[t] \in Critical /\ ~InHeader(t) /\ rs[t] = "idle"
  BY DEF FillFrame, ChannelTake, Goto, Critical, InHeader, PackInv, PackOf, EncoderInv
<1>2. todo[t] \in Nat \ {0} /\ todo[t] + Len(channels[t]) = FramesOf(packet[t].length)
  BY <1>1 DEF PackInv, PackingType, PackOf, CountInv
<1>3. /\ pc'[t] = (IF todo[t] > 1 THEN "find" ELSE "done") /\ todo'[t] = todo[t] - 1
      /\ todo' = [ todo EXCEPT ![t] = todo[t] - 1 ]
      /\ channels'[t] = Append(channels[t], last_used_channel') /\ packet' = packet
  BY DEF FillFrame, ChannelTake, Goto, PackInv, PackingType, Inv, TypeInv
<1>4. PICK list \in Seq(Channels), c \in Channels : list = channels[t] /\ c = last_used_channel'
  <2>1. Inv'
    BY InvChannelTake DEF FillFrame
  <2> QED
    BY <2>1 DEF Inv, TypeInv
<1>5. /\ Len(Append(list, c)) = Len(list) + 1 /\ Len(list) \in Nat
      /\ list # << >> => Append(list, c)[1] = list[1]
  OBVIOUS
<1>6. CountInv(t)'
  <2>1. PICK q \in Nat \ {0} : q = todo[t]
    BY <1>2
  <2>2. PICK k \in Nat : k = Len(list)
    BY <1>5
  <2>3. q + k = FramesOf(packet[t].length) /\ Len(channels'[t]) = k + 1 /\ todo'[t] = q - 1
    BY <1>2, <1>3, <1>4, <1>5, <2>1, <2>2
  <2>4. CASE q > 1
    BY <1>3, <2>1, <2>3, <2>4 DEF CountInv
  <2>5. CASE q = 1
    BY <1>3, <2>1, <2>3, <2>5 DEF CountInv
  <2> QED
    BY <2>4, <2>5
<1>7. todo' \in [ Threads -> Nat ]
  BY <1>2, <1>3 DEF PackInv, PackingType
<1> QED
  BY <1>1, <1>2, <1>3, <1>4, <1>5, <1>6, <1>7

(* A frame is filled with its share, the first one later.                    *)
LEMMA PackFillFrame ==
  ASSUME Inv, PackInv, NEW t \in Threads, FillFrame(t)
  PROVE  PackInv'
<1>1. ASSUME NEW u \in Threads, u # t PROVE PackOf(u)'
  <2>1. rs[u] = "idle" /\ PackOf(u)
    BY <1>1, FillCount, Busy DEF PackInv
  <2>2. /\ pc'[u] = pc[u] /\ todo'[u] = todo[u] /\ hop'[u] = hop[u]
        /\ channels'[u] = channels[u] /\ message'[u] = message[u]
        /\ packet'[u] = packet[u] /\ rs'[u] = rs[u] /\ frames'[u] = frames[u]
    BY <1>1 DEF FillFrame, ChannelTake, Goto, PackInv, PackingType, Inv, TypeInv
  <2> QED
    BY <2>1, <2>2, Untouched
<1>2. UNCHANGED << message, packet, rs, gg, bb, hop >>
  BY DEF FillFrame, ChannelTake
<1>3. MessageInv(t)' /\ EncoderInv(t)' /\ CountInv(t)'
  BY <1>2, FillCount DEF PackInv, PackOf, MessageInv, EncoderInv
<1>4. CASE channels[t] = << >>
  <2>1. frames' = frames /\ frames[t] = << >>
    <3>1. frames' = frames
      BY <1>4 DEF FillFrame
    <3>2. Len(frames[t]) = 0
      BY <1>4, FillCount DEF PackInv, PackOf, FramesInv
    <3>3. \A list \in Seq(Seq(Symbol)) : Len(list) = 0 => list = << >>
      OBVIOUS
    <3>4. frames[t] \in Seq(Seq(Symbol))
      BY DEF PackInv, PackingType
    <3> QED
      BY <3>1, <3>2, <3>3, <3>4
  <2>2. Len(channels'[t]) = 1
    <3>1. Len(<< >>) = 0
      OBVIOUS
    <3>2. Len(channels'[t]) = Len(<< >>) + 1
      BY <1>4, FillCount
    <3> QED
      BY <3>1, <3>2
  <2>3. FramesInv(t)'
    BY <2>1, <2>2, FillCount DEF FramesInv, InHeader
  <2>4. PackingType'
    BY <1>2, <2>1, FillCount DEF PackInv, PackingType
  <2> QED
    BY <1>1, <1>3, <2>3, <2>4 DEF PackInv, PackOf
<1>5. CASE channels[t] # << >>
  <2>0. PICK p, T : p = packet[t] /\ T = Total(p)
    OBVIOUS
  <2>1. PICK row \in Rows, channel \in Channels :
          p = packet[t] /\ row = hop[t] /\ channel = channels[t][1] /\ T = Total(p)
    <3>1. channels[t][1] \in Channels
      <4>1. channels[t] \in Seq(Channels)
        BY DEF Inv, TypeInv
      <4>2. \A list \in Seq(Channels) : list # << >> => list[1] \in Channels
        OBVIOUS
      <4> QED
        BY <1>5, <4>1, <4>2
    <3> QED
      BY <2>0, <3>1 DEF Inv, TypeInv
  <2>2. IsPacket(p)
    BY <2>1, FillCount DEF PackInv, PackOf, MessageInv
  <2>3. PICK n \in 0 .. 52 :
          /\ n = Len(p.data) /\ p.data \in Word(n) /\ row \in 0 .. 3 /\ channel \in Nat
          /\ n = (IF p.length = OneFrame THEN 0 ELSE p.length)
          /\ Whitened(p.data, channel) \in Word(n)
    BY <2>2, AirOfPacket
  <2>4. PICK w \in Word(n) : w = Whitened(p.data, channel)
    BY <2>3
  <2>5. PICK l \in PacketLengths : l = p.length
    BY <2>2 DEF IsPacket
  <2>6. PICK h \in Word(6) : h = HeaderOf(p.length, row, channel)
    BY <2>3, <2>5, HeaderIs
  <2>7. PICK fs \in Seq(Seq(Symbol)) : fs = frames[t]
    BY DEF PackInv, PackingType
  <2>8. PICK k \in Nat : k = Len(fs) /\ k = Len(channels[t]) /\ k > 0
    <3>1. Len(frames[t]) = Len(channels[t])
      BY FillCount DEF PackInv, PackOf, FramesInv
    <3>2. \A list \in Seq(Channels) : list # << >> => Len(list) \in Nat /\ Len(list) > 0
      OBVIOUS
    <3>3. channels[t] \in Seq(Channels)
      BY DEF Inv, TypeInv
    <3> QED
      BY <1>5, <2>7, <3>1, <3>2, <3>3
  <2>9. n \in Nat /\ T \in Nat /\ T = n + 14
    <3>1. T = Len(p.data) + 14
      BY <2>0 DEF Total
    <3>2. n \in Nat /\ n + 14 \in Nat
      OBVIOUS
    <3> QED
      BY <2>3, <3>1, <3>2
  <2>10. 16 * k < T
    <3>1. PICK F \in Nat \ {0} : F = FramesOf(l) /\ 16 * (F - 1) < T
      <4>1. T = (IF l = OneFrame THEN 0 ELSE l) + 14
        BY <2>3, <2>5, <2>9
      <4> QED
        BY <2>9, <4>1, FramesOfIs
    <3>2. PICK q \in Nat \ {0} : q + k = F
      BY <2>1, <2>5, <2>8, <3>1, FillCount
    <3> QED
      BY <2>9, <3>1, <3>2
  <2>11. PICK f : f = Share(w, k + 1)
    OBVIOUS
  <2>12. FrameIs(f, Air(h, w), T, k + 1)
    <3>1. k + 1 \in Nat /\ k + 1 > 1 /\ 16 * ((k + 1) - 1) < T
      BY <2>8, <2>10
    <3> QED
      BY <2>9, <2>11, <3>1, LaterFrame
  <2>13. f \in Seq(Symbol)
    <3>1. k + 1 \in Nat /\ 16 * ((k + 1) - 1) < T
      BY <2>10
    <3> QED
      BY <2>9, <2>12, <3>1, FrameType
  <2>14. frames' = [ frames EXCEPT ![t] = Append(fs, f) ]
    BY <1>5, <2>1, <2>4, <2>7, <2>8, <2>11 DEF FillFrame
  <2>15. frames'[t] = Append(fs, f)
    BY <2>14 DEF PackInv, PackingType
  <2>16. /\ Append(fs, f) \in Seq(Seq(Symbol)) /\ Len(Append(fs, f)) = k + 1
         /\ \A i \in 1 .. k : Append(fs, f)[i] = fs[i]
         /\ Append(fs, f)[k + 1] = f
    <3>1. PICK S : S = Seq(Symbol)
      OBVIOUS
    <3>2. fs \in Seq(S) /\ f \in S
      BY <2>13, <3>1
    <3>3. /\ Append(fs, f) \in Seq(S) /\ Len(Append(fs, f)) = k + 1
          /\ \A i \in 1 .. k : Append(fs, f)[i] = fs[i]
          /\ Append(fs, f)[k + 1] = f
      <4>1. /\ Append(fs, f) \in Seq(S) /\ Len(Append(fs, f)) = Len(fs) + 1
            /\ Append(fs, f)[Len(fs) + 1] = f
        BY <3>2
      <4>2. \A i \in 1 .. Len(fs) : Append(fs, f)[i] = fs[i]
        BY <3>2
      <4> QED
        BY <2>8, <4>1, <4>2, Zenon
    <3> QED
      BY <3>1, <3>3
  <2>17. AirOf(p, row, channel) = Air(h, w)
    BY <2>4, <2>6 DEF AirOf
  <2>18. \A i \in 1 .. k : FrameIs(fs[i], Air(h, w), T, i)
    BY <2>1, <2>7, <2>8, <2>17 DEF PackInv, PackOf, FramesInv
  <2>19. \A i \in 1 .. k + 1 : FrameIs(Append(fs, f)[i], Air(h, w), T, i)
    <3>1. \A i \in 1 .. k + 1 : i \in 1 .. k \/ i = k + 1
      OBVIOUS
    <3> QED
      BY <2>12, <2>16, <2>18, <3>1
  <2>20. packet'[t] = p /\ hop'[t] = row /\ channels'[t][1] = channel
    BY <1>2, <1>5, <2>1, FillCount
  <2>21. \A i \in 1 .. Len(frames'[t]) :
           FrameIs(frames'[t][i], AirOf(packet'[t], hop'[t], channels'[t][1]),
                   Total(packet'[t]), i)
    BY <2>1, <2>15, <2>16, <2>17, <2>19, <2>20
  <2>22. Len(frames'[t]) = Len(channels'[t])
    BY <2>8, <2>15, <2>16, FillCount
  <2>23. FramesInv(t)'
    BY <2>21, <2>22, FillCount DEF FramesInv
  <2>24. PackingType'
    BY <1>2, <2>14, <2>16, FillCount DEF PackInv, PackingType
  <2> QED
    BY <1>1, <1>3, <2>23, <2>24 DEF PackInv, PackOf
<1> QED
  BY <1>4, <1>5

LEMMA PackNext == Inv /\ PackInv /\ [PacketNext]_allVars => PackInv'
<1> SUFFICES ASSUME Inv, PackInv, [PacketNext]_allVars PROVE PackInv'
  OBVIOUS
<1>1. CASE UNCHANGED allVars
  <2>1. UNCHANGED << pc, todo, hop, channels, message, packet, rs, frames, gg, bb >>
    BY <1>1 DEF allVars, vars, packing, locals
  <2>2. PackingType'
    BY <2>1 DEF PackInv, PackingType
  <2>3. ASSUME NEW u \in Threads PROVE PackOf(u)'
    <3>1. PackOf(u)
      BY DEF PackInv
    <3> QED
      BY <2>1, <3>1, Untouched
  <2> QED
    BY <2>2, <2>3 DEF PackInv
<1>2. ASSUME NEW t \in Threads, SequenceSet(t) /\ UNCHANGED packing PROVE PackInv'
  BY <1>2, PackSequenceSet
<1>3. ASSUME NEW t \in Threads, Around(t) PROVE PackInv'
  BY <1>3, PackAround
<1>4. ASSUME NEW t \in Threads, Generate(t) \/ EncodeParity(t) PROVE PackInv'
  BY <1>4, PackEncoder
<1>5. ASSUME NEW t \in Threads, PacketCopy(t) PROVE PackInv'
  BY <1>5, PackPacketCopy
<1>6. ASSUME NEW t \in Threads, HeaderCopy(t) PROVE PackInv'
  BY <1>6, PackHeaderCopy
<1>7. ASSUME NEW t \in Threads, FillFrame(t) PROVE PackInv'
  BY <1>7, PackFillFrame
<1> QED
  BY <1>1, <1>2, <1>3, <1>4, <1>5, <1>6, <1>7 DEF PacketNext, Around

-----------------------------------------------------------------------------
LEMMA ReadablePacket == PackInv => PacketReadable
<1> SUFFICES ASSUME PackInv, NEW t \in Threads, pc[t] = "filled",
                    NEW m, m = message[t], NEW bits, bits = Bits(packet[t].data)
             PROVE  /\ Divisible(packet[t].data, PayloadEcc(Len(m.out)))
                    /\ packet[t].length \in {23, 30, 39, 46}
                    /\ Number(bits, 1, 2) = 0
                    /\ Number(bits, 3, 10) = m.seq_no
                    /\ Octets(bits, 13, 4) = m.eid
                    /\ Octets(bits, 45, 4) = m.auth_tag
                    /\ Octets(bits, 77, Len(m.out)) = m.out
  BY DEF PacketReadable
<1>1. /\ m \in Messages /\ Len(m.out) \in Lengths
      /\ packet[t] = [ length |-> Len(PacketOf(m)), data |-> PacketOf(m) ]
  BY DEF PackInv, PackOf, MessageInv
<1>2. PICK d : d = PacketOf(m)
  OBVIOUS
<1>3. packet[t].length = Len(d) /\ packet[t].data = d
  BY <1>1, <1>2
<1>4. Len(d) \in {23, 30, 39, 46} /\ Divisible(d, PayloadEcc(Len(m.out))) /\ Reads(d, m)
  BY <1>1, <1>2, PacketIs
<1> QED
  BY <1>3, <1>4 DEF Reads

(* hubble_sat_packet_get, for all messages, tasks and interleavings: a       *)
(* packet is a codeword of the code for its length, whatever other tasks     *)
(* encode meanwhile, and a receiver reads the message back from it.          *)
THEOREM PacketsAreReadable == PacketSpec => []PacketReadable
<1>1. PacketInit => Inv /\ PackInv
  BY InvPacketInit, PackInit
<1>2. Inv /\ PackInv /\ [PacketNext]_allVars => Inv' /\ PackInv'
  BY InvPacketNext, PackNext
<1> QED
  BY <1>1, <1>2, ReadablePacket, PTL DEF PacketSpec

(* What is heard of frames that are complete.                                *)
LEMMA FramesRead ==
  ASSUME NEW p, IsPacket(p), NEW row \in Rows, NEW channel \in Channels, NEW fs,
         Len(fs) = FramesOf(p.length),
         \A k \in 1 .. Len(fs) : FrameIs(fs[k], AirOf(p, row, channel), Total(p), k)
  PROVE  /\ SubSeq(Heard(fs), 9, 14) = HeaderOf(p.length, row, channel)
         /\ Unwhitened(SubSeq(Heard(fs), 15, Len(Heard(fs))), channel) = p.data
         /\ \A k \in DOMAIN fs : k \in 1 .. Len(fs) =>
              IF k < Len(fs) THEN Len(fs[k]) = FrameSize ELSE Len(fs[k]) <= FrameSize
<1>1. PICK n \in 0 .. 52 :
        /\ n = Len(p.data) /\ p.data \in Word(n) /\ row \in 0 .. 3 /\ channel \in 0 .. 18
        /\ channel \in Nat /\ n = (IF p.length = OneFrame THEN 0 ELSE p.length)
  BY AirOfPacket
<1>2. PICK w \in Word(n) : w = Whitened(p.data, channel) /\ Unwhitened(w, channel) = p.data
  BY <1>1, WhitenedIs
<1>3. PICK l \in PacketLengths : l = p.length
  BY DEF IsPacket
<1>4. PICK h \in Word(6) : h = HeaderOf(p.length, row, channel)
  BY <1>1, <1>3, HeaderIs
<1>5. PICK T \in Nat : T = Total(p) /\ T = n + 14 /\ n \in Nat
  <2>1. Total(p) = n + 14
    BY <1>1 DEF Total
  <2>2. n \in Nat /\ n + 14 \in Nat
    OBVIOUS
  <2> QED
    BY <2>1, <2>2
<1>6. PICK N \in Nat \ {0} : N = FramesOf(l) /\ 16 * (N - 1) < T /\ T <= 16 * N
  <2>1. T = (IF l = OneFrame THEN 0 ELSE l) + 14
    BY <1>1, <1>3, <1>5
  <2> QED
    BY <1>5, <2>1, FramesOfIs
<1>7. PICK air \in Word(T) :
        air = AirOf(p, row, channel) /\ At(air, 9, h, 6) /\ At(air, 15, w, n)
  BY <1>2, <1>4, <1>5, AirIs DEF AirOf
<1>8. Len(fs) = N /\ \A k \in 1 .. N : FrameIs(fs[k], air, T, k)
  BY <1>3, <1>5, <1>6, <1>7
<1>9. Heard(fs) = air
  BY <1>6, <1>8, HeardIs
<1>10. Len(air) = T
  BY <1>5, AsSequence DEF Word
<1>11. SubSeq(air, 9, 14) = h
  <2>1. /\ 9 \in Nat \ {0} /\ 14 \in Nat /\ 14 <= T /\ 6 \in Nat /\ 6 = 14 - 9 + 1
        /\ 9 \in Nat
    BY <1>5
  <2>2. SubSeq(air, 9, 14) \in Word(6) /\ At(air, 9, SubSeq(air, 9, 14), 6)
    BY <1>5, <1>7, <2>1, PieceIs
  <2> QED
    BY <1>7, <2>1, <2>2, SamePiece
<1>12. SubSeq(air, 15, T) = w
  <2>1. 15 \in Nat \ {0} /\ T <= T /\ n \in Nat /\ n = T - 15 + 1 /\ 15 \in Nat
    BY <1>5
  <2>2. SubSeq(air, 15, T) \in Word(n) /\ At(air, 15, SubSeq(air, 15, T), n)
    BY <1>5, <1>7, <2>1, PieceIs
  <2> QED
    BY <1>7, <2>1, <2>2, SamePiece
<1>13. ASSUME NEW k \in 1 .. N
       PROVE  /\ Size(T, k) \in Nat /\ Size(T, k) <= 16
              /\ k < N => Size(T, k) = 16
              /\ Len(fs[k]) = Size(T, k)
  <2>1. Size(T, k) \in Nat /\ Size(T, k) <= 16 /\ (k < N => Size(T, k) = 16)
    <3>1. CASE k < N
      <4>1. 16 * k <= T
        BY <1>6, <3>1
      <4> QED
        BY <3>1, <4>1 DEF Size
    <3>2. CASE k = N
      BY <1>6, <3>2 DEF Size
    <3> QED
      BY <3>1, <3>2
  <2>2. fs[k] \in Word(Size(T, k))
    BY <1>8 DEF FrameIs
  <2>3. Len(fs[k]) = Size(T, k)
    BY <2>1, <2>2, AsSequence DEF Word
  <2> QED
    BY <2>1, <2>3
<1>14. SubSeq(Heard(fs), 9, 14) = h
  BY <1>9, <1>11
<1>15. SubSeq(Heard(fs), 15, Len(Heard(fs))) = w
  BY <1>9, <1>10, <1>12
<1>16. ASSUME NEW k \in 1 .. N
       PROVE  IF k < N THEN Len(fs[k]) = FrameSize ELSE Len(fs[k]) <= FrameSize
  BY <1>13 DEF FrameSize
<1> QED
  BY <1>2, <1>4, <1>8, <1>14, <1>15, <1>16

LEMMA ReadableFrames == Inv /\ PackInv => FramesReadable
<1> SUFFICES ASSUME Inv, PackInv, NEW t \in Threads, pc[t] = "done", frames[t] # << >>,
                    NEW symbols, symbols = Heard(frames[t]),
                    NEW header, header = SubSeq(symbols, 9, 14),
                    NEW bits, bits = Bits(header)
             PROVE  /\ Divisible(header, PhyEcc)
                    /\ Number(bits, 1, 4) = 1
                    /\ Number(bits, 5, 2) = PhySize(packet[t].length)
                    /\ Number(bits, 7, 2) = hop[t]
                    /\ Number(bits, 9, 4) = channels[t][1] % 16
                    /\ Unwhitened(SubSeq(symbols, 15, Len(symbols)), channels[t][1])
                         = packet[t].data
                    /\ Len(frames[t]) = Len(channels[t])
                    /\ \A k \in DOMAIN frames[t] :
                         IF k < Len(frames[t]) THEN Len(frames[t][k]) = FrameSize
                                               ELSE Len(frames[t][k]) <= FrameSize
  BY DEF FramesReadable
<1>1. ~InHeader(t)
  BY DEF InHeader
<1>2. Len(frames[t]) = Len(channels[t]) /\ Len(channels[t]) = FramesOf(packet[t].length)
  BY <1>1 DEF PackInv, PackOf, FramesInv, CountInv
<1>3. PICK fs \in Seq(Seq(Symbol)) : fs = frames[t] /\ DOMAIN fs = 1 .. Len(fs)
  BY DEF PackInv, PackingType
<1>4. PICK p : p = packet[t] /\ IsPacket(p)
  BY DEF PackInv, PackOf, MessageInv
<1>5. PICK row \in Rows, channel \in Channels : row = hop[t] /\ channel = channels[t][1]
  <2>1. PICK list \in Seq(Channels) : list = channels[t]
    BY DEF Inv, TypeInv
  <2>2. list # << >>
    <3>1. Len(<< >>) = 0 /\ Len(fs) # 0
      BY <1>3
    <3> QED
      BY <1>2, <1>3, <2>1, <3>1
  <2>3. list[1] \in Channels
    BY <2>2
  <2> QED
    BY <2>1, <2>3 DEF Inv, TypeInv
<1>6. /\ Len(fs) = FramesOf(p.length)
      /\ \A k \in 1 .. Len(fs) : FrameIs(fs[k], AirOf(p, row, channel), Total(p), k)
  BY <1>2, <1>3, <1>4, <1>5 DEF PackInv, PackOf, FramesInv
<1>7. /\ SubSeq(Heard(fs), 9, 14) = HeaderOf(p.length, row, channel)
      /\ Unwhitened(SubSeq(Heard(fs), 15, Len(Heard(fs))), channel) = p.data
      /\ \A k \in DOMAIN fs : k \in 1 .. Len(fs) =>
           IF k < Len(fs) THEN Len(fs[k]) = FrameSize ELSE Len(fs[k]) <= FrameSize
  BY <1>4, <1>6, FramesRead
<1>8. header = HeaderOf(p.length, row, channel)
  BY <1>3, <1>7
<1>9. /\ Divisible(header, PhyEcc)
      /\ HeaderReads(header, p.length, row, channel)
  <2>1. PICK l \in PacketLengths : l = p.length
    BY <1>4 DEF IsPacket
  <2>2. row \in 0 .. 3 /\ channel \in Nat
    BY <1>4, AirOfPacket
  <2> QED
    BY <1>8, <2>1, <2>2, HeaderIs
<1>10. /\ Number(bits, 1, 4) = 1 /\ Number(bits, 5, 2) = PhySize(p.length)
       /\ Number(bits, 7, 2) = row /\ Number(bits, 9, 4) = channel % 16
  BY <1>9 DEF HeaderReads
<1>11. Unwhitened(SubSeq(symbols, 15, Len(symbols)), channel) = p.data
  BY <1>3, <1>7
<1> QED
  BY <1>2, <1>3, <1>4, <1>5, <1>7, <1>9, <1>10, <1>11

(* hubble_sat_packet_frames_get: from the frames a receiver hears, with the  *)
(* channel of the first one, it has the header, which is a codeword, and the *)
(* packet without its whitening; for all packets, tasks and interleavings.   *)
THEOREM FramesAreReadable == PacketSpec => []FramesReadable
<1>1. PacketInit => Inv /\ PackInv
  BY InvPacketInit, PackInit
<1>2. Inv /\ PackInv /\ [PacketNext]_allVars => Inv' /\ PackInv'
  BY InvPacketNext, PackNext
<1> QED
  BY <1>1, <1>2, ReadableFrames, PTL DEF PacketSpec
=============================================================================
