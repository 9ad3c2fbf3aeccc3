----------------------------- MODULE SatPacket ------------------------------
(***************************************************************************)
(* The packets and frames of src/hubble_sat_packet.c, on top of the walk   *)
(* through the channels of ChannelHopping. A task assembles a packet       *)
(* (hubble_sat_packet_get) and then has it cut into frames, as often as it *)
(* transmits it (hubble_sat_packet_frames_get). Both take the parity       *)
(* symbols from the statics of src/reed_solomon_encoder.c, under the lock. *)
(***************************************************************************)
EXTENDS ChannelHopping, SymbolCode

CONSTANTS
  Messages,  \* records: seq_no, eid, auth_tag, out (the encrypted payload)
  NoMessage

Byte == 0 .. 255

(* The parts of a message are as wide as in a packet; _channel_hops has four *)
(* rows (HUBBLE_HOPPING_SEQUENCE_INFO_NUM) of nineteen channels.             *)
ASSUME SatPacketAssumption ==
  /\ Messages \subseteq
       [ seq_no : 0 .. 1023, eid : [ 1 .. 4 -> Byte ], auth_tag : [ 1 .. 4 -> Byte ],
         out : Seq(Byte) ]
  /\ NumChannels <= 19 /\ Rows \subseteq 0 .. 3

VARIABLES
  message,  \* what hubble_sat_packet_get packs
  packet,   \* the caller's struct hubble_sat_packet
  rs,       \* progress through the three calls of the encoder
  gg, bb,   \* statics of the encoder: generator, parity symbols
  frames    \* frames->frame[i].data

packing == << message, packet, rs, gg, bb, frames >>
allVars == << vars, packing >>

(* _packet_payload_size_get, _packet_payload_ecc_get and                     *)
(* _packet_phy_size_get; OneFrame is HUBBLE_SAT_DTM_PACKET_ONE_FRAME_ONLY_LEN.*)
PayloadEcc(length) ==
  CASE length = 0 -> 10 [] length = 4 -> 12 [] length = 9 -> 14 [] length = 13 -> 16
Lengths == {0, 4, 9, 13}
OneFrame == 255
PhySize(length) ==
  CASE length \in {23, OneFrame} -> 0 [] length = 30 -> 1 [] length = 39 -> 2 [] length = 46 -> 3
PhyEcc == 4

Preamble == << 63, 0, 63, 0, 63, 0, 63, 63 >>
FrameSize == 16

NoPacket == [ length |-> 0, data |-> << >> ]

(* Symbols of a message: version, sequence number, device, tag, payload.     *)
MessageSymbols(m) ==
  Encode(Field(0, 2) \o Field(m.seq_no, 10) \o Bytes(m.eid) \o Bytes(m.auth_tag) \o Bytes(m.out))

(* Symbols of the first frame's header: version, size, sequence, channel.    *)
HeaderSymbols(length, row, channel) ==
  Encode(Field(1, 4) \o Field(PhySize(length), 2) \o Field(row, 2) \o Field(channel, 4))

(* Mutant of Whitened: the register starts from the 4 bits of the header.    *)
WhitenedHeader(data, channel) ==
  Strict([ i \in DOMAIN data |-> Plus(data[i], Whitenings[(channel % 16) + 1][i]) ])

Whitened(data, channel) ==
  Strict([ i \in DOMAIN data |-> Plus(data[i], Whitenings[channel + 1][i]) ])

(* Symbols of the packet that frame k carries: the first has room for two.   *)
Share(data, k) ==
  LET first == IF k = 1 THEN 1 ELSE FrameSize * (k - 1) - 13
      last == FrameSize * k - 14
  IN  SubSeq(data, first, IF last < Len(data) THEN last ELSE Len(data))

FramesOf(length) == IF length = OneFrame THEN 1 ELSE (length + 29) \div FrameSize

PacketInit ==
  /\ Init
  /\ message = [ t \in Threads |-> NoMessage ]
  /\ packet = [ t \in Threads |-> NoPacket ]
  /\ rs = [ t \in Threads |-> "idle" ]
  /\ gg = << >> /\ bb = << >>
  /\ frames = [ t \in Threads |-> << >> ]

-----------------------------------------------------------------------------
(* hubble_sat_packet_get: a payload of any other length is refused. The key  *)
(* is set, and the sequence number, the device and the encrypted payload are *)
(* had before the lock. What the caller's packet held is to be overwritten.  *)
PacketCall(t) ==
  /\ Goto(t, "idle", "assembled")
  /\ \E m \in Messages :
       /\ Len(m.out) \in Lengths
       /\ message' = [ message EXCEPT ![t] = m ]
  /\ packet' = [ packet EXCEPT ![t] = NoPacket ]
  /\ UNCHANGED << hopping, lock, locals, recent, rs, gg, bb, frames >>

(* Mutant of PacketLock: the encoder's statics are used without the lock.    *)
PacketLockNoWait(t) ==
  /\ Goto(t, "assembled", "holding")
  /\ lock' = t
  /\ UNCHANGED << hopping, locals, recent, packing >>

PacketLock(t) ==
  /\ Goto(t, "assembled", "holding")
  /\ lock = NoThread /\ lock' = t
  /\ UNCHANGED << hopping, locals, recent, packing >>

(* hubble_sat_dtm_packet_send with one frame only: a packet with no data.    *)
OneFramePacket(t) ==
  /\ pc[t] = "idle"
  /\ packet' = [ packet EXCEPT ![t] = [ length |-> OneFrame, data |-> << >> ] ]
  /\ UNCHANGED << vars, message, rs, gg, bb, frames >>

(* The encoder's three calls, for a packet or for the header of its frames.  *)
InHeader(t) == pc[t] \in {"find", "done"} /\ Len(channels[t]) = 1 /\ frames[t] = << >>
Parities(t) == IF InHeader(t) THEN PhyEcc ELSE PayloadEcc(Len(message[t].out))
SymbolsToProtect(t) ==
  IF InHeader(t) THEN HeaderSymbols(packet[t].length, hop[t], channels[t][1])
                 ELSE MessageSymbols(message[t])

Generate(t) ==
  /\ pc[t] = "holding" \/ InHeader(t)
  /\ rs[t] = "idle" /\ rs' = [ rs EXCEPT ![t] = "generated" ]
  /\ gg' = Generator(Parities(t))
  /\ UNCHANGED << vars, message, packet, bb, frames >>

EncodeParity(t) ==
  /\ rs[t] = "generated" /\ rs' = [ rs EXCEPT ![t] = "encoded" ]
  /\ bb' = Parity(SymbolsToProtect(t), gg)
  /\ UNCHANGED << vars, message, packet, gg, frames >>

(* The parity symbols are copied from bb to the packet, or to the frame. The *)
(* next call of the encoder starts from nothing, so bb and gg are dead then. *)
PacketCopy(t) ==
  /\ Goto(t, "holding", "filled")
  /\ rs[t] = "encoded" /\ rs' = [ rs EXCEPT ![t] = "idle" ]
  /\ LET data == SymbolsToProtect(t) \o bb
     IN  packet' = [ packet EXCEPT ![t] = [ length |-> Len(data), data |-> data ] ]
  /\ gg' = << >> /\ bb' = << >>
  /\ UNCHANGED << hopping, lock, locals, recent, message, frames >>

PacketUnlock(t) ==
  /\ Goto(t, "filled", "idle")
  /\ lock' = NoThread
  /\ message' = [ message EXCEPT ![t] = NoMessage ]
  /\ UNCHANGED << hopping, locals, recent, packet, rs, gg, bb, frames >>

HeaderCopy(t) ==
  /\ InHeader(t)
  /\ rs[t] = "encoded" /\ rs' = [ rs EXCEPT ![t] = "idle" ]
  /\ frames' = [ frames EXCEPT ![t] =
       << Preamble \o SymbolsToProtect(t) \o bb
                   \o Share(Whitened(packet[t].data, channels[t][1]), 1) >> ]
  /\ gg' = << >> /\ bb' = << >>
  /\ UNCHANGED << vars, message, packet >>

-----------------------------------------------------------------------------
(* hubble_sat_packet_frames_get, around the steps of ChannelHopping.         *)
FramesOfPacket(t) ==
  /\ packet[t] # NoPacket
  /\ FramesCall(t) /\ todo'[t] = FramesOf(packet[t].length)
  /\ UNCHANGED packing

NextChannel(t) ==
  /\ ChannelFind(t)
  /\ channels[t] # << >> => frames[t] # << >>
  /\ UNCHANGED packing

(* The frame whose channel is taken gets its share, but the first one: its   *)
(* header comes first.                                                       *)
FillFrame(t) ==
  /\ ChannelTake(t)
  /\ frames' = IF channels[t] = << >> THEN frames
               ELSE [ frames EXCEPT ![t] =
                        Append(@, Share(Whitened(packet[t].data, channels[t][1]), Len(@) + 1)) ]
  /\ UNCHANGED << message, packet, rs, gg, bb >>

FramesUnlock(t) ==
  /\ frames[t] # << >>
  /\ Unlock(t)
  /\ frames' = [ frames EXCEPT ![t] = << >> ]
  /\ UNCHANGED << message, packet, rs, gg, bb >>

PacketNext ==
  \E t \in Threads :
    \/ SequenceSet(t) /\ UNCHANGED packing
    \/ PacketCall(t) \/ PacketLock(t) \/ OneFramePacket(t)
    \/ Generate(t) \/ EncodeParity(t)
    \/ PacketCopy(t) \/ PacketUnlock(t)
    \/ FramesOfPacket(t)
    \/ (Lock(t) \/ ReadHop(t)) /\ UNCHANGED packing
    \/ NextChannel(t) \/ HeaderCopy(t) \/ FillFrame(t) \/ FramesUnlock(t)

PacketSpec == PacketInit /\ [][PacketNext]_allVars

-----------------------------------------------------------------------------
(* What a receiver makes of symbols: the ones of frames, which are full but  *)
(* for the last, one after the other; and the ones heard on a channel.       *)
Heard(fs) ==
  Strict([ j \in 1 .. FrameSize * (Len(fs) - 1) + Len(fs[Len(fs)]) |->
             fs[(j - 1) \div FrameSize + 1][((j - 1) % FrameSize) + 1] ])
Unwhitened(symbols, channel) ==
  Strict([ i \in DOMAIN symbols |-> Plus(symbols[i], Whitenings[channel + 1][i]) ])
Bits(symbols) ==
  Strict([ i \in 1 .. 6 * Len(symbols) |->
             Digit(symbols[(i - 1) \div 6 + 1], 5 - ((i - 1) % 6)) ])
Number(bits, first, n) ==
  LET sum[i \in 0 .. n] == IF i = 0 THEN 0 ELSE 2 * sum[i - 1] + bits[first + i - 1]
  IN  sum[n]
Octets(bits, first, n) == [ i \in 1 .. n |-> Number(bits, first + 8 * (i - 1), 8) ]

(* hubble_sat_packet_get: whatever other tasks encode meanwhile, a packet is *)
(* a codeword of the code for its length, and a receiver reads the sequence  *)
(* number, the device, the tag and the encrypted payload back from it.       *)
PacketReadable ==
  \A t \in Threads : pc[t] = "filled" =>
    LET m == message[t]
        bits == Bits(packet[t].data)
    IN  /\ Divisible(packet[t].data, PayloadEcc(Len(m.out)))
        /\ packet[t].length \in {23, 30, 39, 46}
        /\ Number(bits, 1, 2) = 0
        /\ Number(bits, 3, 10) = m.seq_no
        /\ Octets(bits, 13, 4) = m.eid
        /\ Octets(bits, 45, 4) = m.auth_tag
        /\ Octets(bits, 77, Len(m.out)) = m.out

(* hubble_sat_packet_frames_get: the header is a codeword of its own and     *)
(* tells the length, the hopping sequence and the channel but for its fifth  *)
(* bit; with the channel the first frame was heard on, the frames give back  *)
(* the packet.                                                               *)
FramesReadable ==
  \A t \in Threads : pc[t] = "done" /\ frames[t] # << >> =>
    LET symbols == Heard(frames[t])
        header == SubSeq(symbols, 9, 14)
        bits == Bits(header)
    IN  /\ Divisible(header, PhyEcc)
        /\ Number(bits, 1, 4) = 1
        /\ Number(bits, 5, 2) = PhySize(packet[t].length)
        /\ Number(bits, 7, 2) = hop[t]
        /\ Number(bits, 9, 4) = channels[t][1] % 16
        /\ Unwhitened(SubSeq(symbols, 15, Len(symbols)), channels[t][1]) = packet[t].data
        /\ Len(frames[t]) = Len(channels[t])
        /\ \A k \in DOMAIN frames[t] :
             IF k < Len(frames[t]) THEN Len(frames[t][k]) = FrameSize
                                   ELSE Len(frames[t][k]) <= FrameSize
=============================================================================
