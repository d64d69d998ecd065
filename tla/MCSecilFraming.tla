--------------------------- MODULE MCSecilFraming ---------------------------
(* Instances of SecilFraming for TLC, with the real CRC.                   *)
EXTENDS SecilFraming

CRC == INSTANCE SecilCrc
Crc16(s) == CRC!crc16arc_bit(0, s)

\* secil_send_currentTemperature(20) as nanopb encodes it: its length, field
\* 2 of length 2, and in it field 1, a varint.
Temperature == <<4, 18, 2, 8, 20>>
\* secil_send_dateTime(98122): the varint of the time starts like a header.
DateTime    == <<6, 122, 4, 8, 202, 254, 5>>

TwoBodies == {Temperature, DateTime}

\* It may end with the first of the two magic bytes.
SomeHiss == {<<0>>, <<202>>, <<0, 202, 202>>, <<250, 222, 0, 0>>}
\* Headers of a body of three bytes and of the longest.
SomeFalseHeaders == {<<202, 254, 3, 0>>, <<202, 254, 8, 0>>}
SomeBytes == {0, 8, 202}

\* What SecilLossProofs assumes of messages and faults is so here: the time
\* 98122 holds 0xCA 0xFE, but behind it stands a length that is refused.
ASSUME QuietAssumption ==
    QuietFrames /\ QuietFaults /\ MessageSize < 202 * 256 /\ Bodies # {}
=============================================================================
