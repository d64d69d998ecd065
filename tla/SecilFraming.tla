---------------------------- MODULE SecilFraming ----------------------------
(***************************************************************************)
(* Frames on the UART, byte by byte: secil_send's header and footer at one *)
(* end, and secil_receive_internal with secil_read_next_header at the      *)
(* other, which has to find the next frame again after whatever the line   *)
(* has done to the last one.                                               *)
(*                                                                         *)
(*    0xCA 0xFE | length (2) | body | CRC (2) | 0xFA 0xDE                  *)
(*                                                                         *)
(* The module Secil sees the same link one frame at a time; the Garbage it *)
(* lets through is what is worked out here.                                *)
(***************************************************************************)
EXTENDS Naturals, Sequences, SequencesExt

CONSTANTS
    MessageSize,  \* secil_message_size: the longest body
    Bodies,       \* encoded messages the far end may send
    Crc(_),       \* crc16arc_bit(0, mem, len)
    Hiss,         \* noise that holds no start of a header
    FalseHeaders, \* noise that does
    Flips,        \* values a byte may be changed into
    Sends,        \* bound: frames sent
    Hisses,       \* bound: times there is hiss
    Faults        \* bound: faults

Byte       == 0..255
UInt16(n)  == n \in Nat /\ n < 65536
HEADER_SIZE == 4
FOOTER_SIZE == 4

ASSUME SizeAssumption   == UInt16(MessageSize)
ASSUME BodiesAssumption == Bodies \subseteq Seq(Byte) /\ \A b \in Bodies : Len(b) <= MessageSize
ASSUME NoiseAssumption  == Hiss \cup FalseHeaders \subseteq Seq(Byte) /\ Flips \subseteq Byte
\* No byte of hiss is the second of a header after the first in hiss, or after
\* whatever the hiss comes after.
ASSUME HissAssumption   == \A z \in Hiss : \A i \in 1..Len(z) :
                              z[i] = 254 => i > 1 /\ z[i - 1] # 202
ASSUME BoundAssumption  == {Sends, Hisses, Faults} \subseteq Nat

VARIABLES
    line,      \* bytes written and not yet read, in flight or in the driver
    pc,        \* the read under way: "header", "scan" (one byte) or "body"
    header,    \* state.incomingMessage[0..3]
    sent,      \* history: the bodies sent
    delivered, \* history: the bodies secil_receive_internal returned
    hisses,    \* times there has been hiss
    faults     \* faults so far

vars == <<line, pc, header, sent, delivered, hisses, faults>>

Init ==
    /\ line      = <<>>
    /\ pc        = "header"
    /\ header    = <<0, 0, 0, 0>>
    /\ sent      = <<>>
    /\ delivered = <<>>
    /\ hisses    = 0
    /\ faults    = 0

----------------------------------------------------------------------------
(***************************************************************************)
(* The sender, and the line.                                               *)
(***************************************************************************)
Word(n)   == <<n % 256, (n \div 256) % 256>>
Header(n) == <<202, 254>> \o Word(n)
Footer(s) == Word(Crc(s)) \o <<250, 222>>

Frame ==
    [b \in Bodies |->
        LET covered == Header(Len(b)) \o b
        IN  covered \o Footer(covered)]

\* The CRC of a frame has 16 bits.
ASSUME CrcAssumption == \A b \in Bodies : UInt16(Crc(Header(Len(b)) \o b))

SendFrame ==
    /\ Len(sent) < Sends
    /\ \E b \in Bodies :
          /\ line' = line \o Frame[b]
          /\ sent' = Append(sent, b)
    /\ UNCHANGED <<pc, header, delivered, hisses, faults>>

\* What may be left of frame s: a part of it, or all but one byte, or all with
\* one byte changed.
Damaged(s) ==
         {SubSeq(s, 1, k) : k \in 0..(Len(s) - 1)}
    \cup {RemoveAt(s, k) : k \in 1..Len(s)}
    \cup {ReplaceAt(s, k, v) : k \in 1..Len(s), v \in Flips}

SendDamaged ==
    /\ Len(sent) < Sends /\ faults < Faults
    /\ \E b \in Bodies : \E s \in Damaged(Frame[b]) :
          /\ line' = line \o s
          /\ sent' = Append(sent, b)
    /\ faults' = faults + 1
    /\ UNCHANGED <<pc, header, delivered, hisses>>

MakeHiss ==
    /\ hisses < Hisses
    /\ \E z \in Hiss : line' = line \o z
    /\ hisses' = hisses + 1
    /\ UNCHANGED <<pc, header, sent, delivered, faults>>

MakeFalseHeader ==
    /\ faults < Faults
    /\ \E z \in FalseHeaders : line' = line \o z
    /\ faults' = faults + 1
    /\ UNCHANGED <<pc, header, sent, delivered, hisses>>

----------------------------------------------------------------------------
(***************************************************************************)
(* The receiver.  The application calls secil_receive again whenever it    *)
(* returns, so a return leads straight to the next read of a header.       *)
(***************************************************************************)
MessageLength(h) == h[3] + 256 * h[4]

\* The bytes the read under way asks for.
Wanted ==
    CASE pc = "header" -> HEADER_SIZE
      [] pc = "scan"   -> 1
      [] pc = "body"   -> MessageLength(header) + FOOTER_SIZE

Starved == Len(line) < Wanted

IsHeader(h) == h[1] = 202 /\ h[2] = 254

\* SECIL_ERROR_MESSAGE_TOO_LARGE
TooLargeSlip(h) == FALSE
TooLarge(h) == MessageLength(h) > MessageSize

\* Four bytes h are in the buffer: a header, one with an impossible length,
\* or no header yet.
Examine(h) ==
    /\ header' = h
    /\ pc' = IF ~IsHeader(h) THEN "scan" ELSE IF TooLarge(h) THEN "header" ELSE "body"

ReadHeader ==
    /\ pc = "header" /\ ~Starved
    /\ Examine(SubSeq(line, 1, 4))
    /\ line' = SubSeq(line, 5, Len(line))
    /\ UNCHANGED <<sent, delivered, hisses, faults>>

\* The buffer is shifted left by one byte and filled up with the next one.
ShiftedSlip(h, b) == <<h[3], h[4], b, b>> \* shifts by two
Shifted(h, b) == <<h[2], h[3], h[4], b>>

Scan ==
    /\ pc = "scan" /\ ~Starved
    /\ Examine(Shifted(header, Head(line)))
    /\ line' = Tail(line)
    /\ UNCHANGED <<sent, delivered, hisses, faults>>

\* The footer's magic bytes, and the CRC over the header and the body.
SoundSlip(h, rest) == SubSeq(rest, Len(rest) - 1, Len(rest)) = <<250, 222>>
Sound(h, rest) ==
    LET n == MessageLength(h)
    IN  SubSeq(rest, n + 1, n + 4) = Footer(h \o SubSeq(rest, 1, n))

\* A body that passes is decoded; what is no encoded message does not decode.
ReadBody ==
    /\ pc = "body" /\ ~Starved
    /\ LET rest == SubSeq(line, 1, Wanted)
           body == SubSeq(rest, 1, MessageLength(header))
       IN  delivered' = IF Sound(header, rest) THEN Append(delivered, body) ELSE delivered
    /\ line' = SubSeq(line, Wanted + 1, Len(line))
    /\ pc' = "header"
    /\ UNCHANGED <<header, sent, hisses, faults>>

\* read_callback gives up, with none or all of the bytes that have arrived:
\* those are lost, and so are the bytes of the header read so far.
GiveUp(arrived) ==
    /\ \E k \in {0, arrived} : line' = SubSeq(line, k + 1, Len(line))
    /\ pc' = "header"
    /\ UNCHANGED <<header, sent, delivered, hisses>>

\* After waiting for bytes nobody has sent.
Timeout ==
    /\ Starved
    /\ GiveUp(Len(line))
    /\ UNCHANGED faults

\* While the bytes it waits for are on their way.
LateTimeout ==
    /\ faults < Faults
    /\ ~Starved
    /\ \E k \in 0..(Wanted - 1) : GiveUp(k)
    /\ faults' = faults + 1

Next ==
    \/ SendFrame \/ SendDamaged \/ MakeHiss \/ MakeFalseHeader
    \/ ReadHeader \/ Scan \/ ReadBody
    \/ Timeout \/ LateTimeout

Spec == Init /\ [][Next]_vars

----------------------------------------------------------------------------
(***************************************************************************)
(* Properties.                                                             *)
(***************************************************************************)

\* s can be had from t by leaving out elements.
Embeds(s, t) ==
    LET Match(k, x) == IF k < Len(s) /\ s[k + 1] = x THEN k + 1 ELSE k
    IN  FoldLeft(Match, 0, t) = Len(s)

\* Whatever is lost, cut, changed or added, the receiver returns messages that
\* were sent, in the order they were sent, none of them twice.
NothingInvented == Embeds(delivered, sent)

\* Hiss between frames costs no frame, even when it ends with the first byte of
\* a header or the receiver is in the middle of it: until there is a fault, the
\* receiver has returned all that was sent whenever it has to wait.
NoiseHarmless == (faults = 0 /\ Starved) => delivered = sent

\* The frames one fault can cost: the one it strikes, and those that the read
\* of one body of the longest length, and the footer, can take with it.
ShortestFrame == CHOOSE n \in {Len(Frame[b]) : b \in Bodies} :
                     \A b \in Bodies : n <= Len(Frame[b])
MaxLoss == 1 + (MessageSize + FOOTER_SIZE + ShortestFrame - 1) \div ShortestFrame

\* A fault costs a bounded number of frames, however the length it leaves in a
\* header and the bytes of the next frames fall: when the receiver is back to
\* looking for a header and has nothing to read, no more than that are missing.
LossBounded ==
    (Starved /\ pc # "body") => Len(sent) - Len(delivered) <= MaxLoss * faults

(***************************************************************************)
(* What that bound asks of the messages, and of the faults.                *)
(***************************************************************************)

\* The magic bytes of a header at p of s, whether the length after them is there
\* too, what it is, and that it is one secil_read_next_header refuses.
Heads(s)       == {p \in 1..(Len(s) - 1) : s[p] = 202 /\ s[p + 1] = 254}
Known(s, p)    == p + 3 <= Len(s)
Long(s, p)     == s[p + 2] + 256 * s[p + 3]
Harmless(s, p) == Known(s, p) /\ Long(s, p) > MessageSize

\* The last byte a receiver that takes p for a header takes for its frame.
Reach(s, p) == IF Known(s, p) /\ Long(s, p) <= MessageSize THEN p + 7 + Long(s, p) ELSE p + 3

\* In a frame only its first bytes are a header; others that look like one have a
\* length that is refused.
QuietFrames == \A b \in Bodies : \A p \in Heads(Frame[b]) \ {1} : Harmless(Frame[b], p)

\* What a fault leaves on the line, even right after the first byte of a header,
\* looks like one header at most: whichever of its headers is read, all of them go.
Tame(s)     == \E h \in 1..Len(s) : \A p \in Heads(s) : Harmless(s, p) \/ (p <= h /\ h <= Reach(s, p))
QuietFaults == \A s \in FalseHeaders \cup UNION {Damaged(Frame[b]) : b \in Bodies} : Tame(<<202>> \o s)
=============================================================================
