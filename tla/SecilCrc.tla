------------------------------ MODULE SecilCrc ------------------------------
(***************************************************************************)
(* crc16arc_bit (source/secil.c), the CRC that guards a frame, and what it *)
(* is meant to compute: the remainder of the message, as a polynomial over *)
(* GF(2), by x^16 + x^15 + x^2 + 1.                                        *)
(***************************************************************************)
EXTENDS Naturals, Sequences, SequencesExt, Bitwise

Byte == 0..255

\* One turn of the inner loop.
RoundSlip(crc) == IF crc % 2 = 1 THEN (crc \div 2) ^^ 32773 ELSE crc \div 2 \* 0x8005
Round(crc)     == IF crc % 2 = 1 THEN (crc \div 2) ^^ 40961 ELSE crc \div 2 \* 0xa001

\* The inner loop: k turns on a 16-bit value c.
RoundsSlip(crc) == \* one turn short
    LET turns[c \in 0..(2^16 - 1), k \in 0..8] == IF k = 0 THEN c ELSE turns[Round(c), k - 1]
    IN  turns[crc, 7]
Rounds(crc) ==
    LET turns[c \in 0..(2^16 - 1), k \in 0..8] == IF k = 0 THEN c ELSE turns[Round(c), k - 1]
    IN  turns[crc, 8]

\* One turn of the outer loop.
Update(crc, byte) == Rounds(crc ^^ byte)

crc16arc_bit(crc, mem) == FoldLeft(Update, crc, mem)

----------------------------------------------------------------------------
(***************************************************************************)
(* The reference.  Each byte goes over the line low bit first, so a byte   *)
(* sequence is the polynomial whose coefficients, from the highest power,  *)
(* are its bits in that order.                                             *)
(***************************************************************************)
Bits(byte) == [i \in 1..8 |-> (byte \div 2^(i - 1)) % 2]
BitSeq(mem) == FlattenSeq([i \in 1..Len(mem) |-> Bits(mem[i])])

\* The powers of the generator, counted down from its highest.
Taps == {0, 1, 14, 16}

\* Long division of p by the generator: take it away at the first coefficient
\* that is not zero, while there is room.
Divide(p, i) == IF p[i] = 0 THEN p
                ELSE [j \in 1..Len(p) |-> IF j - i \in Taps THEN 1 - p[j] ELSE p[j]]
Remainder(p) ==
    LET steps == [i \in 1..(Len(p) - 16) |-> i]
        rest == FoldLeft(Divide, p, steps)
    IN  SubSeq(rest, Len(p) - 15, Len(p))

\* The remainder of mem times x^16, with the highest power in the lowest bit.
CrcOf(mem) ==
    LET r == Remainder(BitSeq(mem) \o [i \in 1..16 |-> 0])
    IN  FoldLeft(LAMBDA n, i : n + r[i] * 2^(i - 1), 0, [i \in 1..16 |-> i])
=============================================================================
