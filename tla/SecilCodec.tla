----------------------------- MODULE SecilCodec -----------------------------
(***************************************************************************)
(* What secil_send makes of a message and secil_receive_internal of the    *)
(* body of a frame: nanopb's encoder and decoder (pb_encode.c,             *)
(* pb_decode.c), and the limits secil.c puts around them.  The two ends    *)
(* need not run the same firmware (secil_startup_ignore_mismatch), so the  *)
(* sender may have another secil.proto; the receiver has the one of        *)
(* SecilSchema, and its application passes the same secil_message again    *)
(* and again.                                                              *)
(*                                                                         *)
(* A struct is a function from the offsets of its fields to their values:  *)
(* integers as words, strings as sequences of bytes.                       *)
(***************************************************************************)
EXTENDS SecilSchema

CONSTANTS
    HEADER_SIZE, FOOTER_SIZE, HEADROOM,
    Firmware,    \* Firmware[f]: the payloads that the sender's firmware f knows
    Own,         \* the firmware of the receiver
    Samples(_),  \* values to try for a field of a kind
    Plain(_),    \* one of them
    Lasting      \* bound: payloads that are followed by another message

ASSUME BufferAssumption   == {HEADER_SIZE, FOOTER_SIZE, HEADROOM} \subseteq Nat
ASSUME FirmwareAssumption == Own \in DOMAIN Firmware /\ Firmware[Own] = Payloads

Descriptors == [f \in DOMAIN Firmware |-> MessageDescriptor(Firmware[f])]
secil_message_fields == Descriptors[Own]

SignExtended(w, n) == IF n - 1 \in w THEN Low(w, n) \cup n..63 ELSE Low(w, n)

----------------------------------------------------------------------------
(***************************************************************************)
(* The encoder.                                                            *)
(***************************************************************************)

\* pb_encode_varint_32: the fifth septet has bits of both halves.
Septet(low, high, i) ==
    CASE i < 4 -> Low(From(low, 7 * i), 7)
      [] i = 4 -> From(low, 28) \cup At(Low(high, 3), 4)
      [] i > 4 -> Low(From(high, 7 * i - 32), 7)

pb_encode_varint(w) ==
    LET septet == [i \in 0..9 |-> Septet(Low(w, 32), From(w, 32), i)]
        last   == Max({i \in 0..9 : septet[i] # {}} \cup {0})
    IN  [i \in 1..(last + 1) |-> Number(septet[i - 1]) + IF i <= last THEN 128 ELSE 0]

PB_WT == [VARINT |-> 0, BIT64 |-> 1, STRING |-> 2, BIT32 |-> 5]

WireType(ltype) ==
    CASE ltype \in {PB_LTYPE.BOOL, PB_LTYPE.VARINT, PB_LTYPE.UVARINT} -> PB_WT.VARINT
      [] ltype = PB_LTYPE.FIXED32 -> PB_WT.BIT32
      [] ltype = PB_LTYPE.FIXED64 -> PB_WT.BIT64
      [] ltype \in {PB_LTYPE.STRING, PB_LTYPE.SUBMESSAGE} -> PB_WT.STRING

pb_encode_tag(it) == pb_encode_varint(At(Word(it.tag), 3) \cup Word(WireType(LType(it))))

\* pb_encode_string, with which pb_encode_submessage ends, too.
Prefixed(bytes) == pb_encode_varint(Word(Len(bytes))) \o bytes

pb_enc_bool(v) == pb_encode_varint(IF v = {} THEN {} ELSE {0})

pb_enc_varint(it, v) ==
    LET bits == 8 * it.data_size
    IN  pb_encode_varint(IF LType(it) = PB_LTYPE.UVARINT THEN Low(v, bits) ELSE SignExtended(v, bits))

pb_enc_fixed(it, v) == [i \in 1..it.data_size |-> Slice(v, 8 * (i - 1), 8)]

pb_enc_string(it, v) == Prefixed(SubSeq(v, 1, Min({Len(v), it.data_size - 1})))

RECURSIVE pb_encode(_, _)
pb_encode_submessage(d, struct) == Prefixed(pb_encode(d, struct))

encode_basic_field(it, v) ==
    LET ltype == LType(it) IN
    pb_encode_tag(it) \o
    CASE ltype = PB_LTYPE.BOOL                             -> pb_enc_bool(v)
      [] ltype \in {PB_LTYPE.VARINT, PB_LTYPE.UVARINT}     -> pb_enc_varint(it, v)
      [] ltype \in {PB_LTYPE.FIXED32, PB_LTYPE.FIXED64}    -> pb_enc_fixed(it, v)
      [] ltype = PB_LTYPE.STRING                           -> pb_enc_string(it, v)
      [] ltype = PB_LTYPE.SUBMESSAGE                       -> pb_encode_submessage(it.submsg_desc, v)

\* A member of the oneof that is not the payload is passed over.
encode_field(it, struct) ==
    IF it.type \div 16 # 0 /\ struct[it.pSize] # it.tag
    THEN <<>>
    ELSE encode_basic_field(it, struct[it.pField])

pb_encode(d, struct) ==
    LET at == Positions(d) IN FlattenSeq([i \in DOMAIN at |-> encode_field(at[i], struct)])

\* pb_encode_ex with PB_ENCODE_DELIMITED.
pb_encode_ex(d, struct) == pb_encode_submessage(d, struct)

----------------------------------------------------------------------------
(***************************************************************************)
(* The search for a field, with an iterator of SecilSchema.                *)
(***************************************************************************)

\* The low six bits only pick the candidates.
IsFoundSlip(it, tag) == TRUE \* takes a candidate for the field
IsFound(it, tag)     == it.tag = tag

RECURSIVE Search(_, _, _, _)
Search(d, it, tag, start) ==
    LET next      == advance_iterator(d, it)
        candidate == Slice(d.field_info[next.field_info_index + 1], 2, 6) = tag % 64
        loaded    == load_descriptor_values(d, next)
    IN  CASE candidate /\ IsFound(loaded, tag) -> [found |-> TRUE, iter |-> loaded]
          [] ~(candidate /\ IsFound(loaded, tag)) /\ next.index = start ->
                 [found |-> FALSE, iter |-> loaded]
          [] OTHER -> Search(d, IF candidate THEN loaded ELSE next, tag, start)

pb_field_iter_find(d, it, tag) ==
    CASE it.tag = tag -> [found |-> TRUE, iter |-> it]
      [] it.tag # tag /\ tag > d.largest_tag -> [found |-> FALSE, iter |-> it]
      [] OTHER -> Search(d, IF tag < it.tag THEN [it EXCEPT !.index = d.field_count] ELSE it,
                         tag, it.index)

----------------------------------------------------------------------------
(***************************************************************************)
(* The decoder.  What it reads from is the bytes left in the stream; what  *)
(* an operation returns is ok, the value, and the bytes left.              *)
(***************************************************************************)
Fail == [ok |-> FALSE, value |-> {}, rest |-> <<>>]
Got(v, rest) == [ok |-> TRUE, value |-> v, rest |-> rest]

pb_read(s, n) ==
    IF Len(s) < n THEN Fail ELSE Got(SubSeq(s, 1, n), SubSeq(s, n + 1, Len(s)))

\* Bytes up to the first without the continuation bit; pb_skip_varint.
pb_skip_varint(s) ==
    LET ends == {i \in 1..Len(s) : s[i] < 128}
    IN  IF ends = {} THEN Fail ELSE pb_read(s, Min(ends))

\* Byte i of a varint may be followed by more bits than a uint32_t takes if
\* they are those of a negative number.
ExtendsSlip(bytes, i, result) == i < 6 \/ bytes[i] % 128 = 0 \* takes no negative number
Extends(bytes, i, result) ==
    LET byte == Word(bytes[i]) IN
    CASE i < 5 -> TRUE
      [] i = 5 -> byte \cap 4..6 = {} \/ 3..6 \subseteq byte
      [] i > 5 -> /\ i <= 10
                  /\ \/ Low(byte, 7) = {}
                     \/ 31 \in result /\ byte = IF i < 10 THEN 0..7 ELSE {0}

Septets(bytes) == UNION {At(Low(Word(bytes[i]), 7), 7 * (i - 1)) : i \in DOMAIN bytes}

pb_decode_varint32(s) ==
    LET r == pb_skip_varint(s)
        result == Low(Septets(r.value), 32)
    IN  IF r.ok /\ \A i \in DOMAIN r.value : Extends(r.value, i, result)
        THEN Got(result, r.rest) ELSE Fail

pb_decode_varint(s) ==
    LET r == pb_skip_varint(s)
    IN  IF r.ok /\ Len(r.value) <= 10 /\ (Len(r.value) = 10 => r.value[10] <= 1)
        THEN Got(Septets(r.value), r.rest) ELSE Fail

\* A length as a number; no stream is longer than 2^16.
Length(w) == IF w \subseteq 0..15 THEN Number(w) ELSE 2^16

\* pb_make_string_substream, whose closing leaves what is behind the substring;
\* and pb_skip_string.
Substream(s) ==
    LET r == pb_decode_varint32(s) IN IF r.ok THEN pb_read(r.rest, Length(r.value)) ELSE Fail

\* The tag, and the wire type behind it.
pb_decode_tag(s) ==
    LET r == pb_decode_varint32(s)
    IN  [ok |-> r.ok, tag |-> Number(From(r.value, 3)), wire |-> Slice(r.value, 0, 3), rest |-> r.rest]

pb_skip_field(s, wire) ==
    CASE wire = PB_WT.VARINT -> pb_skip_varint(s)
      [] wire = PB_WT.BIT64  -> pb_read(s, 8)
      [] wire = PB_WT.STRING -> Substream(s)
      [] wire = PB_WT.BIT32  -> pb_read(s, 4)
      [] OTHER               -> Fail

\* A value that does not survive the cast to the field is an error.
Clamped(r, value, clamped, bits) ==
    [ok |-> r.ok /\ clamped = value, value |-> Low(clamped, bits), rest |-> r.rest]

pb_dec_varint(s, it) ==
    LET r == pb_decode_varint(s)
        bits == 8 * it.data_size
        svalue == IF bits = 64 THEN r.value ELSE SignExtended(r.value, 32)
    IN  IF LType(it) = PB_LTYPE.UVARINT
        THEN Clamped(r, r.value, Low(r.value, bits), bits)
        ELSE Clamped(r, svalue, SignExtended(svalue, bits), bits)

pb_dec_bool(s) ==
    LET r == pb_decode_varint32(s) IN [r EXCEPT !.value = IF @ = {} THEN {} ELSE {0}]

\* One byte of the array is for the terminator.
pb_dec_string(s, it) ==
    LET r == Substream(s) IN IF r.ok /\ Len(r.value) + 1 <= it.data_size THEN r ELSE Fail

\* What memset leaves of a payload.
Zeroed(d) ==
    LET fields == ToSet(Positions(d))
    IN  [o \in {it.pField : it \in fields} |->
            IF \E it \in fields : it.pField = o /\ LType(it) = PB_LTYPE.STRING THEN <<>> ELSE {}]

RECURSIVE pb_decode_inner(_, _, _, _, _)
\* What the payload held before stays, where the stream does not say otherwise.
pb_dec_submessage(s, it, old) ==
    LET sub == Substream(s)
        d   == it.submsg_desc
    IN  IF sub.ok
        THEN [pb_decode_inner(sub.value, d, pb_field_iter_begin(d), old, {}) EXCEPT !.rest = sub.rest]
        ELSE Fail

decode_basic_field(s, wire, it, old) ==
    LET ltype == LType(it) IN
    CASE wire # WireType(ltype) -> Fail
      [] wire = PB_WT.VARINT -> IF ltype = PB_LTYPE.BOOL THEN pb_dec_bool(s) ELSE pb_dec_varint(s, it)
      [] ltype = PB_LTYPE.STRING     -> pb_dec_string(s, it)
      [] ltype = PB_LTYPE.SUBMESSAGE -> pb_dec_submessage(s, it, old)

\* A payload other than the last is zeroed first, and named before it is read.
Cleared(it, struct) ==
    IF ~IsRequired(it.type) /\ struct[it.pSize] # it.tag
    THEN [struct EXCEPT ![it.pSize] = it.tag, ![it.pField] = Zeroed(it.submsg_desc)]
    ELSE struct

\* (What a failed decode leaves of the fields of a payload is not tracked.)
Put(r, it, struct) ==
    [r EXCEPT !.value = IF r.ok THEN [struct EXCEPT ![it.pField] = r.value] ELSE struct]

DecodeInto(s, wire, it, struct) ==
    Put(decode_basic_field(s, wire, it, struct[it.pField]), it, struct)

decode_static_field(s, wire, it, struct) == DecodeInto(s, wire, it, Cleared(it, struct))

\* A field is decoded or, if d has none of its tag, skipped; then comes the
\* rest of the stream.
More(r, d, it, seen) == IF r.ok THEN pb_decode_inner(r.rest, d, it, r.value, seen) ELSE r

DecodeField(t, d, it, struct, seen) ==
    More(decode_static_field(t.rest, t.wire, it, struct), d, it,
         IF IsRequired(it.type) THEN seen \cup {it.required_field_index} ELSE seen)

SkipField(t, d, it, struct, seen) ==
    More([pb_skip_field(t.rest, t.wire) EXCEPT !.value = struct], d, it, seen)

OneField(t, d, find, struct, seen) ==
    IF find.found THEN DecodeField(t, d, find.iter, struct, seen)
    ELSE SkipField(t, d, find.iter, struct, seen)

AfterTag(t, d, it, struct, seen) ==
    IF t.ok /\ t.tag # 0 THEN OneField(t, d, pb_field_iter_find(d, it, t.tag), struct, seen)
    ELSE [Fail EXCEPT !.value = struct]

\* The loop over the fields in the stream; then the check of the required ones.
pb_decode_inner(s, d, it, struct, seen) ==
    IF s = <<>> THEN [Fail EXCEPT !.ok = seen = 0..(d.required_field_count - 1), !.value = struct]
    ELSE AfterTag(pb_decode_tag(s), d, it, struct, seen)

\* pb_decode_ex with PB_DECODE_NOINIT and PB_DECODE_DELIMITED.
pb_decode_ex(s, d, struct) ==
    LET sub == Substream(s)
    IN  IF sub.ok THEN pb_decode_inner(sub.value, d, pb_field_iter_begin(d), struct, {})
        ELSE [Fail EXCEPT !.value = struct]

----------------------------------------------------------------------------
(***************************************************************************)
(* Sizes: what the generator reserves, and what secil.c makes of it.       *)
(***************************************************************************)
VarintSize(n) == Len(pb_encode_varint(Word(n)))

ReservedField(f) ==
    VarintSize(8 * f.tag) +
    CASE f.kind.ltype = PB_LTYPE.STRING -> VarintSize(f.kind.size) + f.kind.size - 1
      [] f.kind.ltype \in {PB_LTYPE.FIXED32, PB_LTYPE.FIXED64} -> f.kind.size
      [] f.kind \in {bool, enum} -> 1
      [] f.kind = uint8  -> 2
      [] f.kind = uint32 -> 5
      [] f.kind \in {int8, int32, uint64} -> 10

ReservedPayload(tag, fields) ==
    LET size == MapThenSumSet(LAMBDA i : ReservedField(fields[i]), DOMAIN fields)
    IN  VarintSize(8 * tag) + VarintSize(size) + size

\* The size of the largest member of the oneof; no length prefix is counted.
secil_message_size(f) ==
    Max({ReservedPayload(t, Firmware[f][t]) : t \in DOMAIN Firmware[f]})

MaxSize == [f \in DOMAIN Firmware |-> secil_message_size(f)]

MAX_MESSAGE_SIZE(f) == HEADER_SIZE + MaxSize[f] + FOOTER_SIZE + HEADROOM

\* The room of secil_create_ostream.
Room(f) == MAX_MESSAGE_SIZE(f) - 8

\* pb_write refuses what does not fit into the stream.
Full(n, f) == n > Room(f)

TooLargeSlip(n, f) == n >= MaxSize[f]
TooLongSlip(n, f)  == Full(n, f)  \* relies on the stream being full
TooLarge(n, f)     == n > MaxSize[f]

SendCode(n, f) ==
    CASE Full(n, f) -> "ENCODE_FAILED"
      [] ~Full(n, f) /\ TooLarge(n, f) -> "MESSAGE_TOO_LARGE"
      [] OTHER -> "OK"

----------------------------------------------------------------------------
(***************************************************************************)
(* A sender, and secil_receive_internal.                                   *)
(***************************************************************************)
VARIABLES
    sent,    \* the call: firmware, payload, and its arguments
    code,    \* what it returned, or "none"
    body,    \* the body of the frame on its way, or <<>>
    message, \* the receiver's secil_message
    result,  \* what secil_receive_internal returned, or "none"
    sends    \* messages sent so far

vars == <<sent, code, body, message, result, sends>>

NoPayload == [o \in {0, WhichDelta} |-> IF o = 0 THEN 0 ELSE <<>>]

Init ==
    /\ sent    = [firmware |-> Own, payload |-> 0, args |-> <<>>]
    /\ code    = "none"
    /\ body    = <<>>
    /\ message = NoPayload
    /\ result  = "none"
    /\ sends   = 0

\* secil_loopback_test refuses an empty string and one that it would cut off.
Refused(t, args) == t = 100 /\ Len(args[1]) \notin 1..255

\* The secil_send_* functions: strncpy into a zeroed array, all but its last
\* character, and a percentage of at most 100.
Stored(t, kind, v) ==
    CASE kind.ltype = PB_LTYPE.STRING -> SubSeq(v, 1, Min({Len(v), kind.size - 1}))
      [] t = 20 /\ kind = uint8 /\ Number(v) > 100 -> Word(100)
      [] OTHER -> v

Struct(f, t, args) ==
    LET fields == Firmware[f][t]
        at(o)  == CHOOSE i \in DOMAIN fields : Offset(fields, i) = o
    IN  [o \in {0, WhichDelta} |->
            IF o = 0 THEN t
            ELSE [p \in {Offset(fields, i) : i \in DOMAIN fields} |->
                     Stored(t, fields[at(p)].kind, args[at(p)])]]

PlainArgs(f, t) == [i \in DOMAIN Firmware[f][t] |-> Plain(Firmware[f][t][i].kind)]

\* One argument at a time takes all its values.
Arguments(f, t) ==
    UNION {{[PlainArgs(f, t) EXCEPT ![i] = v] : v \in Samples(Firmware[f][t][i].kind)} :
               i \in DOMAIN Firmware[f][t]}

Send(f, t, args) ==
    /\ body = <<>>
    /\ sends' = sends + 1
    /\ sent' = [firmware |-> f, payload |-> t, args |-> args]
    /\ result' = "none"
    /\ LET s == pb_encode_ex(Descriptors[f], Struct(f, t, args)) IN
       IF Refused(t, args)
       THEN code' = "INVALID_PARAMETER" /\ UNCHANGED body
       ELSE /\ code' = SendCode(Len(s), f)
            /\ body' = IF code' = "OK" THEN s ELSE body
    /\ UNCHANGED message

SendAny ==
    /\ sends = 0
    /\ \E f \in DOMAIN Firmware : \E t \in DOMAIN Firmware[f] : \E args \in Arguments(f, t) :
          Send(f, t, args)

\* To the message the receiver's last call has filled.
SendMore ==
    /\ sends = 1 /\ result # "none"
    /\ sent.payload \in Lasting /\ sent.args = PlainArgs(sent.firmware, sent.payload)
    /\ \E f \in DOMAIN Firmware : \E t \in DOMAIN Firmware[f] : Send(f, t, PlainArgs(f, t))

\* The receiver's own check of the length in the header.
TooLargeForUs(n) == n > MaxSize[Own]

ResetSlip(m) == m \* PB_DECODE_NOINIT leaves the last payload in it
Reset(m)     == [m EXCEPT ![0] = 0]

Receive ==
    /\ body # <<>>
    /\ body' = <<>>
    /\ LET r == pb_decode_ex(body, secil_message_fields, Reset(message)) IN
       IF TooLargeForUs(Len(body))
       THEN result' = "MESSAGE_TOO_LARGE" /\ UNCHANGED message
       ELSE /\ result' = IF r.ok THEN "OK" ELSE "DECODE_FAILED"
            /\ message' = r.value
    /\ UNCHANGED <<sent, code, sends>>

Next == SendAny \/ SendMore \/ Receive
Spec == Init /\ [][Next]_vars

----------------------------------------------------------------------------
(***************************************************************************)
(* Properties.                                                             *)
(***************************************************************************)
Known(t) == t \in DOMAIN Payloads

\* A value as a number of 64 bits.
Extended(kind, v) == IF kind.ltype = PB_LTYPE.VARINT THEN SignExtended(v, 8 * kind.size) ELSE v

\* The integer v of a field of kind sender's is w in a field of kind.
SameNumber(sender, v, kind, w) ==
    IF kind = bool THEN (v = {}) <=> (w = {})
    ELSE Extended(sender, v) = Extended(kind, w)

\* Field f of the receiver's message is field i of what was sent.
Holds(f, at, i) ==
    LET theirs == Firmware[sent.firmware][sent.payload][i]
        v == Stored(sent.payload, theirs.kind, sent.args[i])
        w == message[WhichDelta][at]
    IN  /\ theirs.tag = f.tag
        /\ IF f.kind.ltype = PB_LTYPE.STRING THEN v = w ELSE SameNumber(theirs.kind, v, f.kind, w)

\* What secil_receive_internal returns, whoever sent it and whatever the
\* application's message held before, is what the sender meant: no field of it
\* is missing, cut to fewer bits or left over, and a payload that the receiver
\* does not know is no payload, rather than the last one again or another one.
NothingMadeUp ==
    result = "OK" =>
        /\ message[0] = IF Known(sent.payload) THEN sent.payload ELSE 0
        /\ Known(sent.payload) =>
               LET fields == Payloads[sent.payload] IN
               \A k \in DOMAIN fields : \E i \in DOMAIN sent.args :
                   Holds(fields[k], Offset(fields, k), i)

\* Some number of kind has value v of the sender's kind.
Fits(sender, v, kind) ==
    \/ kind.ltype = PB_LTYPE.STRING \/ kind = bool
    \/ Extended(sender, v) = Extended(kind, Low(v, 8 * kind.size))

\* The sender's message has all our fields, with values that fit in them.
Readable ==
    Known(sent.payload) =>
        \A k \in DOMAIN Payloads[sent.payload] : \E i \in DOMAIN sent.args :
            LET theirs == Firmware[sent.firmware][sent.payload][i] IN
            /\ theirs.tag = Payloads[sent.payload][k].tag
            /\ Fits(theirs.kind, sent.args[i], Payloads[sent.payload][k].kind)

\* A message that secil_send lets out is let in at the far end, by its limits
\* and by its decoder.
SentIsAccepted == (result # "none" /\ sent.firmware = Own) => result = "OK"

\* So is that of a peer with other firmware, unless it is too long for ours:
\* fields and payloads that we do not know are passed over.
Understood == (result \notin {"none", "MESSAGE_TOO_LARGE"} /\ Readable) => result = "OK"

\* "Must be non-empty and less than 256 characters": a probe of any such
\* length goes out, with its two prefixes, up to the last byte there is.
ProbesFit ==
    (code # "none" /\ sent.firmware = Own /\ sent.payload = 100 /\ Len(sent.args[1]) \in 1..255)
        => code = "OK"

\* secil.proto gives each string a max_size, its terminator included: a message
\* whose strings keep to it can be sent.
StringsFit == (code # "none" /\ sent.firmware = Own /\ sent.payload # 100) => code = "OK"
=============================================================================
