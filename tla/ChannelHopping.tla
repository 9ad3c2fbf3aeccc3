--------------------------- MODULE ChannelHopping ---------------------------
(***************************************************************************)
(* The channels of the frames of src/hubble_sat_packet.c. The SDK picks    *)
(* one of a few precomputed hopping sequences when it is initialised and   *)
(* walks through it, frame after frame and packet after packet. A receiver *)
(* learns the sequence from the header in the first frame of a packet and  *)
(* follows the others from the channel it heard it on. Several tasks may   *)
(* transmit, or send test packets, at the same time.                       *)
(***************************************************************************)
EXTENDS Naturals, Sequences

CONSTANTS
  Threads,      \* tasks that call hubble_sat_packet_frames_get
  NumChannels,  \* HUBBLE_SAT_NUM_CHANNELS
  Rows,         \* indices of the hopping sequences
  Hops,         \* _channel_hops
  FrameCounts,  \* frames of a packet, by its length
  NoThread

ASSUME ChannelHoppingAssumption ==
  /\ NumChannels \in Nat \ {0, 1}
  /\ Rows # {}
  /\ Hops \in [ Rows -> [ 0 .. NumChannels - 1 -> 0 .. NumChannels - 1 ] ]
  /\ \A r \in Rows, i, j \in 0 .. NumChannels - 1 : Hops[r][i] = Hops[r][j] => i = j
  /\ \A r \in Rows, c \in 0 .. NumChannels - 1 :
       \E i \in 0 .. NumChannels - 1 : Hops[r][i] = c
  /\ FrameCounts \subseteq 1 .. 4
  /\ NoThread \notin Threads

VARIABLES
  hopping_sequence, last_used_channel,
  lock,     \* owner of the SDK lock
  pc,
  todo,     \* frames a call has yet to fill
  idx,      \* index of the next channel, local to _channel_get
  hop,      \* hop_sequence, in the header of the packet
  channels, \* frames->frame[i].channel
  recent    \* history: the last channels used, fewer than a turn of them

hopping == << hopping_sequence, last_used_channel >>
locals == << todo, idx, hop, channels >>
vars == << hopping, lock, pc, locals, recent >>

Channels == 0 .. NumChannels - 1

(* Position of a channel in a row, and the channel after it. *)
ChannelIdx(row, channel) == CHOOSE i \in Channels : Hops[row][i] = channel
After(row, channel) == Hops[row][(ChannelIdx(row, channel) + 1) % NumChannels]

Alone(t) == \A u \in Threads \ {t} : pc[u] = "idle"

Goto(t, from, to) == pc[t] = from /\ pc' = [ pc EXCEPT ![t] = to ]

Init ==
  /\ hopping_sequence \in Rows
  /\ last_used_channel = Hops[hopping_sequence][NumChannels - 1]
  /\ lock = NoThread
  /\ pc = [ t \in Threads |-> "idle" ]
  /\ todo = [ t \in Threads |-> 0 ]
  /\ idx = [ t \in Threads |-> 0 ]
  /\ hop = [ t \in Threads |-> hopping_sequence ]
  /\ channels = [ t \in Threads |-> << >> ]
  /\ recent = << >>

(* hubble_init again: a random byte picks a sequence, or its failure the     *)
(* first one; it starts over after its last channel.                         *)
SequenceSet(t) ==
  /\ Alone(t) /\ pc[t] = "idle"
  /\ hopping_sequence' \in Rows
  /\ last_used_channel' = Hops[hopping_sequence'][NumChannels - 1]
  /\ hop' = [ u \in Threads |-> hopping_sequence' ]
  /\ recent' = << >>
  /\ UNCHANGED << lock, pc, todo, idx, channels >>

FramesCall(t) ==
  /\ Goto(t, "idle", "waiting")
  /\ \E n \in FrameCounts : todo' = [ todo EXCEPT ![t] = n ]
  /\ UNCHANGED << hopping, lock, idx, hop, channels, recent >>

Lock(t) ==
  /\ Goto(t, "waiting", "locked")
  /\ lock = NoThread
  /\ lock' = t
  /\ UNCHANGED << hopping, locals, recent >>

ReadHop(t) ==
  /\ Goto(t, "locked", "find")
  /\ hop' = [ hop EXCEPT ![t] = hopping_sequence ]
  /\ UNCHANGED << hopping, lock, todo, idx, channels, recent >>

(* Mutant of ChannelFind: every packet starts at the head of the sequence.   *)
ChannelFindFirst(t) ==
  /\ Goto(t, "find", "take")
  /\ idx' = [ idx EXCEPT ![t] = Len(channels[t]) ]
  /\ UNCHANGED << hopping, lock, todo, hop, channels, recent >>

(* _channel_get, in two steps: the channel is found, then it is used.        *)
ChannelFind(t) ==
  /\ Goto(t, "find", "take")
  /\ idx' = [ idx EXCEPT ![t] =
                (ChannelIdx(hopping_sequence, last_used_channel) + 1) % NumChannels ]
  /\ UNCHANGED << hopping, lock, todo, hop, channels, recent >>

(* Mutant of ChannelTake: the channel is remembered once a packet.           *)
ChannelTakeOnce(t) ==
  /\ Goto(t, "take", IF todo[t] > 1 THEN "find" ELSE "done")
  /\ last_used_channel' = IF todo[t] > 1 THEN last_used_channel ELSE Hops[hopping_sequence][idx[t]]
  /\ channels' = [ channels EXCEPT ![t] = Append(@, Hops[hopping_sequence][idx[t]]) ]
  /\ recent' = Append(IF Len(recent) < NumChannels - 1 THEN recent ELSE Tail(recent),
                      last_used_channel')
  /\ todo' = [ todo EXCEPT ![t] = @ - 1 ]
  /\ UNCHANGED << hopping_sequence, lock, idx, hop >>

ChannelTake(t) ==
  /\ Goto(t, "take", IF todo[t] > 1 THEN "find" ELSE "done")
  /\ last_used_channel' = Hops[hopping_sequence][idx[t]]
  /\ channels' = [ channels EXCEPT ![t] = Append(@, last_used_channel') ]
  /\ recent' = Append(IF Len(recent) < NumChannels - 1 THEN recent ELSE Tail(recent),
                      last_used_channel')
  /\ todo' = [ todo EXCEPT ![t] = @ - 1 ]
  /\ UNCHANGED << hopping_sequence, lock, idx, hop >>

(* The frames go to the radio; the call's locals go out of scope. *)
Unlock(t) ==
  /\ Goto(t, "done", "idle")
  /\ lock' = NoThread
  /\ channels' = [ channels EXCEPT ![t] = << >> ]
  /\ idx' = [ idx EXCEPT ![t] = 0 ]
  /\ UNCHANGED << hopping, todo, hop, recent >>

Next ==
  \E t \in Threads :
    \/ SequenceSet(t)
    \/ FramesCall(t)
    \/ Lock(t)
    \/ ReadHop(t)
    \/ ChannelFind(t)
    \/ ChannelTake(t)
    \/ Unlock(t)

Spec == Init /\ [][Next]_vars

-----------------------------------------------------------------------------
(* The header of a packet ("hop info") predicts the channels of its frames:  *)
(* each is the one after the one before it in the announced sequence, with   *)
(* no frame of another packet in between.                                    *)
HeaderPredicts ==
  \A t \in Threads : pc[t] = "done" =>
    \A i \in 1 .. Len(channels[t]) - 1 :
      channels[t][i + 1] = After(hop[t], channels[t][i])

(* _channel_hops: over packets and tasks, fewer than NumChannels frames in a *)
(* row are never twice on the same channel.                                  *)
EveryChannelInTurn ==
  \A i, j \in 1 .. Len(recent) : recent[i] = recent[j] => i = j
=============================================================================
