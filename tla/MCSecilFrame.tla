---------------------------- MODULE MCSecilFrame ----------------------------
(* What guards the contents of a frame, for TLC: the codec between peers   *)
(* of different firmware, and crc16arc_bit fed one byte at a time.  The    *)
(* two take turns in no behaviour: the first step chooses.                 *)
EXTENDS SecilCodec, SecilCrc

CONSTANTS
    Bytes,   \* bytes to feed after the first
    Feeds,   \* bound: bytes fed of any kind
    Longest  \* bound: bytes fed in all

VARIABLES mem, crc

Feed(b) ==
    /\ sends = 0
    /\ mem' = Append(mem, b)
    /\ crc' = crc16arc_bit(crc, <<b>>)
    /\ UNCHANGED vars

FeedSample ==
    /\ Len(mem) < Feeds
    /\ \E b \in IF mem = <<>> THEN Byte ELSE Bytes : Feed(b)

\* mem has one bit set, in its first byte.
OneError == mem # <<>> /\ mem[1] \in {2^i : i \in 0..7} /\ \A i \in 2..Len(mem) : mem[i] = 0

FeedZero ==
    /\ OneError
    /\ Len(mem) < Longest
    /\ Feed(0)

FrameInit == Init /\ mem = <<>> /\ crc = 0
FrameNext == FeedSample \/ FeedZero \/ (mem = <<>> /\ Next /\ UNCHANGED <<mem, crc>>)
FrameSpec == FrameInit /\ [][FrameNext]_<<vars, mem, crc>>

\* The bits 0xa001, LSB first, no reflection at the end: the loops of
\* crc16arc_bit compute the remainder of the polynomial division, and going on
\* from a CRC is the same as starting over with more bytes.
IsRemainder == Len(mem) <= Feeds => crc = CrcOf(mem)

\* Taken as an error pattern: no second wrong bit, in the last byte or in the
\* CRC that follows, hides the first one, however far apart they are in a frame.
TwoErrorsDetected ==
    (OneError /\ Len(mem) > 1) =>
        /\ \A i \in 0..7 : crc # crc16arc_bit(0, <<2^i>>)
        /\ \A i \in 0..15 : crc # 2^i
        /\ crc # 0

SampleBytes == {0, 1, 2, 8, 128, 202, 254, 255}

----------------------------------------------------------------------------
(* Peers.  Field 65 agrees in its low six bits with field 1, payload 74    *)
(* with supportPackageData, payload 101 comes after all that we know.      *)

Older  == [t \in DOMAIN Payloads |->
              SubSeq(Payloads[t], 1, Max({1, Len(Payloads[t]) - 1}))]
Wider  == [t \in DOMAIN Payloads |->
              [i \in DOMAIN Payloads[t] |->
                  [Payloads[t][i] EXCEPT !.kind = CASE @ \in {bool, int8} -> int32
                                                    [] @ = uint8 -> uint32
                                                    [] OTHER -> @]]]
Longer == [t \in DOMAIN Payloads |->
              Payloads[t] \o <<F(65, [i \in 0..3 |-> <<int32, fixed32, fixed64, string(8)>>[i + 1]][t % 4])>>]
Fuller == [t \in DOMAIN Payloads \cup {22, 74, 101} |->
              CASE t = 21 -> <<F(1, enum), F(2, uint8), F(3, string(256))>>
                [] t = 74 -> Payloads[10]
                [] t \in {22, 101} -> <<F(1, int32), F(2, fixed64)>>
                [] OTHER  -> Payloads[t]]

Peers == [own |-> Payloads, older |-> Older, wider |-> Wider, longer |-> Longer, fuller |-> Fuller]

\* What SecilSchemaProofs assumes of a field is so of all fields here, and the
\* numbers packed are those of their bits.
ASSUME AssertionsAssumption ==
    \A f \in DOMAIN Peers :
        /\ \A t \in DOMAIN Peers[f] : Asserted(Infos(Peers[f][t]), Peers[f][t])
        /\ LET members == Members(Peers[f]) IN Asserted(MemberInfos(members), members)
ASSUME WordAssumption == \A n \in 0..65535 : Number(Word(n)) = n

Ends(n) == {0, 6, 7, 8, 27, 28, 31, 32, 34, 35, 62, 63} \cap 0..n
Runs(n) == {a..b : a \in Ends(n), b \in Ends(n)} \* of ones; one of them is empty

Text(n) == [i \in 1..n |-> 97]

Values(kind) ==
    CASE kind = bool -> {{}, {0}}
      [] kind = enum -> {{}, {0}, {1}, {0, 1}, {0, 2}}
      [] kind.ltype = PB_LTYPE.STRING ->
             {Text(n) : n \in {m \in {0, 1, 31, 32, 118, 119, 120, 127, 128} \cup 247..257 : m <= kind.size + 1}}
      [] OTHER -> Runs(8 * kind.size - 1)

Typical(kind) ==
    CASE kind = bool -> {0}
      [] kind.ltype = PB_LTYPE.STRING -> Text(2)
      [] OTHER -> {0, 1}

Outlasting == {1, 2, 10, 20, 21}
=============================================================================
