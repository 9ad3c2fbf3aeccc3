---------------------------- MODULE MCSatPacket -----------------------------
(* Model-checking instance of SatPacket, with the hopping table of           *)
(* src/hubble_sat_packet.c and a message of every length, one not allowed.   *)
EXTENDS SatPacket, TLC

HopTable ==
  LET Row(list) == [ i \in 0 .. 18 |-> list[i + 1] ]
  IN  [ r \in Rows |->
        CASE r = 0 -> Row(<<3, 14, 5, 6, 9, 2, 12, 8, 15, 4, 11, 13, 17, 10, 1, 7, 0, 18, 16>>)
          [] r = 1 -> Row(<<10, 3, 15, 5, 0, 17, 13, 6, 11, 4, 8, 18, 9, 14, 1, 12, 7, 16, 2>>)
          [] r = 2 -> Row(<<14, 5, 11, 3, 8, 2, 18, 4, 10, 13, 9, 1, 16, 17, 0, 6, 15, 12, 7>>)
          [] r = 3 -> Row(<<7, 0, 11, 18, 4, 2, 13, 5, 10, 17, 3, 9, 16, 14, 8, 12, 1, 6, 15>>) ]

Message(seq_no, n) ==
  [ seq_no |-> seq_no,
    eid |-> << 18, 255, 0, 170 >>,
    auth_tag |-> [ i \in 1 .. 4 |-> (seq_no + 73 * i) % 256 ],
    out |-> [ i \in 1 .. n |-> (7 * seq_no + 41 * i * i) % 256 ] ]

SomeMessages == { Message(0, 0), Message(1023, 4), Message(5, 5), Message(682, 9), Message(341, 13) }

(* What the C functions return for one input each.                           *)
ASSUME EncoderVector ==
  Parity(<< 5, 44, 17, 63, 0, 9 >>, Generator(10)) = << 60, 29, 59, 54, 32, 12, 27, 4, 20, 2 >>
ASSUME WhiteningVector ==
  SubSeq(Whitenings[19], 1, 12) = << 57, 25, 8, 4, 19, 5, 53, 44, 6, 26, 39, 15 >>

Symmetry == Permutations(Threads)
=============================================================================
