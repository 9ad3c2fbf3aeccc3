----------------------------- MODULE SymbolCode -----------------------------
(***************************************************************************)
(* The symbols of a satellite packet: numbers of six bits. How bits become *)
(* symbols (src/utils/bitarray.c, _encode), how the parity symbols of a    *)
(* Reed-Solomon code over GF(64) are made (src/reed_solomon_encoder.c) and *)
(* how symbols are whitened (_whitening).                                  *)
(***************************************************************************)
EXTENDS Integers, Sequences, SequencesExt

Symbol == 0 .. 63

(* The sequence itself; TLC then evaluates its elements once, not per use.   *)
Strict(seq) == seq \o << >>

(* Powers of two, for the fields of a packet: they have at most ten bits.    *)
Two(k) == << 1, 2, 4, 8, 16, 32, 64, 128, 256, 512, 1024 >>[k + 1]
Digit(value, k) == (value \div Two(k)) % 2

(* Addition in GF(64) is exclusive or: a table of it.                        *)
Exclusive(a, b) ==
  LET Bit(k) == ((Digit(a, k) + Digit(b, k)) % 2) * Two(k)
  IN  Bit(5) + Bit(4) + Bit(3) + Bit(2) + Bit(1) + Bit(0)
Sums == Strict([ a \in 1 .. 64 |-> Strict([ b \in 1 .. 64 |-> Exclusive(a - 1, b - 1) ]) ])
Plus(a, b) == Sums[a + 1][b + 1]

-----------------------------------------------------------------------------
(* hubble_bitarray_append: the low n bits of a value, the highest first.     *)
Field(value, n) == [ i \in 1 .. n |-> Digit(value, n - i) ]

(* hubble_bitarray_append_big: byte after byte.                              *)
Bytes(bytes) ==
  [ i \in 1 .. 8 * Len(bytes) |-> Field(bytes[(i - 1) \div 8 + 1], 8)[((i - 1) % 8) + 1] ]

(* _encode: six bits to a symbol, the last one padded with zeros.            *)
Encode(bits) ==
  LET Bit(i) == IF i \in DOMAIN bits THEN bits[i] ELSE 0
      Packed(i) == 32 * Bit(i + 1) + 16 * Bit(i + 2) + 8 * Bit(i + 3)
                    + 4 * Bit(i + 4) + 2 * Bit(i + 5) + Bit(i + 6)
  IN  Strict([ k \in 1 .. (Len(bits) + 5) \div 6 |-> Packed(6 * (k - 1)) ])

-----------------------------------------------------------------------------
(* rse_gf_generate: the powers of the primitive element 2, where x^6 = x + 1,*)
(* and the exponents of the elements but 0.                                  *)
alpha_to ==
  LET Double(a) == IF 2 * a < 64 THEN 2 * a ELSE Plus(2 * a - 64, 3)
  IN  FoldLeft(LAMBDA powers, i : Append(powers, Double(Last(powers))),
               << 1 >>, [ i \in 1 .. 62 |-> i ])
index_of ==
  LET powers == alpha_to
  IN  Strict([ a \in 1 .. 63 |-> CHOOSE i \in 0 .. 62 : powers[i + 1] = a ])

Alpha(i) == alpha_to[(i % 63) + 1]
Times(a, b) == IF a = 0 \/ b = 0 THEN 0 ELSE Alpha(index_of[a] + index_of[b])

(* rse_poly_generate: the coefficients, lowest first, of the product of      *)
(* X + alpha^i for i = 1 .. n.                                               *)
Generator(n) ==
  LET Multiply(g, i) ==
        Strict([ j \in 1 .. Len(g) + 1 |->
                   Plus(IF j = 1 THEN 0 ELSE g[j - 1],
                        IF j > Len(g) THEN 0 ELSE Times(g[j], Alpha(i))) ])
  IN  FoldLeft(Multiply, << 2, 1 >>, [ i \in 1 .. n - 1 |-> i + 1 ])

(* rse_rs_encode: a shift register fed back through the generator; its       *)
(* contents follow the data from the highest power down.                     *)
Shift(bb, symbol, g) ==
  LET n == Len(g) - 1
      feedback == Plus(symbol, bb[n])
  IN  Strict([ j \in 1 .. n |-> Plus(IF j = 1 THEN 0 ELSE bb[j - 1], Times(feedback, g[j])) ])
Register(data, g) ==
  LET bb[i \in 0 .. Len(data)] ==
        IF i = 0 THEN [ j \in 1 .. Len(g) - 1 |-> 0 ] ELSE Shift(bb[i - 1], data[i], g)
  IN  bb
Parity(data, g) == Reverse(Register(data, g)[Len(data)])

(* What a receiver checks: the codeword vanishes at alpha^i, i = 1 .. n.     *)
Value(coefficients, x) ==
  LET sum[i \in 0 .. Len(coefficients)] ==
        IF i = 0 THEN 0 ELSE Plus(Times(sum[i - 1], x), coefficients[i])
  IN  sum
Divisible(codeword, n) ==
  \A i \in 1 .. n : Value(codeword, Alpha(i))[Len(codeword)] = 0

-----------------------------------------------------------------------------
(* _whitening: the register's next state, six bits later; its high six bits  *)
(* are what it puts out meanwhile. It starts from 3 << 5 and the channel.    *)
Shift6(state) ==
  FoldLeft(LAMBDA s, i : ((2 * s) % 128) + ((s \div 64 + s \div 8) % 2),
           state, << 1, 2, 3, 4, 5, 6 >>)
WhiteningOf(seed) ==
  FoldLeft(LAMBDA states, i : Append(states, Shift6(Last(states))),
           << 96 + seed >>, [ i \in 1 .. 51 |-> i ])

(* The whitening symbols of the channels 0 .. 18, for the longest packet.    *)
Whitenings ==
  LET Of(c) == LET states == WhiteningOf(c)
               IN  Strict([ i \in 1 .. 52 |-> states[i] \div 2 ])
  IN  Strict([ c \in 1 .. 19 |-> Of(c - 1) ])

-----------------------------------------------------------------------------
(* Facts about the tables, which have no parameters: TLC evaluates them.     *)
(* GF(64) is a field, as far as a code needs it.                             *)
ASSUME FieldAssumption ==
  /\ \A a, b \in Symbol :
       /\ Plus(a, b) \in Symbol /\ Plus(a, b) = Plus(b, a)
       /\ Times(a, b) \in Symbol
  /\ \A a \in Symbol :
       /\ Plus(a, 0) = a /\ Plus(a, a) = 0
       /\ Times(a, 1) = a /\ Times(a, 0) = 0 /\ Times(0, a) = 0
  /\ \A a, b, c \in Symbol :
       /\ Plus(Plus(a, b), c) = Plus(a, Plus(b, c))
       /\ Times(Times(a, b), c) = Times(a, Times(b, c))
       /\ Times(Plus(a, b), c) = Plus(Times(a, c), Times(b, c))
       /\ Times(a, Plus(b, c)) = Plus(Times(a, b), Times(a, c))

(* Each generator that is used has alpha^i for its roots.                    *)
ASSUME GeneratorAssumption ==
  \A n \in {4, 10, 12, 14, 16} :
    /\ Generator(n) \in [ 1 .. n + 1 -> Symbol ]
    /\ Generator(n)[n + 1] = 1
    /\ \A i \in 1 .. n :
         Alpha(i) \in Symbol /\ Value(Reverse(Generator(n)), Alpha(i))[n + 1] = 0

(* What a whitening puts out are symbols.                                    *)
ASSUME WhiteningAssumption ==
  Whitenings \in [ 1 .. 19 -> [ 1 .. 52 -> Symbol ] ]
=============================================================================
