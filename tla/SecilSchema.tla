---------------------------- MODULE SecilSchema ----------------------------
(***************************************************************************)
(* The message catalogue (secil.proto) as nanopb sees it at run time:      *)
(* message descriptors packed into 32-bit words (pb.h, and the generator), *)
(* and the iterator that unpacks them again (pb_common.c).                 *)
(*                                                                         *)
(* A word is the set of the positions of its 1 bits.                       *)
(***************************************************************************)
EXTENDS Naturals, Sequences, SequencesExt, FiniteSetsExt

Word(n)    == {i \in 0..30 : (n \div 2^i) % 2 = 1}
Number(w)  == MapThenSumSet(LAMBDA i : 2^i, w)
From(w, k) == {i - k : i \in {j \in w : j >= k}}      \* w >> k
At(w, k)   == {i + k : i \in w}                       \* w << k
Low(w, n)  == w \cap 0..(n - 1)                       \* the low n bits
Slice(w, k, n) == Number(Low(From(w, k), n))

----------------------------------------------------------------------------
(***************************************************************************)
(* secil.proto.  All fields of the payloads are required; the message      *)
(* itself is a oneof of 22 payloads.                                       *)
(***************************************************************************)
PB_LTYPE == [BOOL |-> 0, VARINT |-> 1, UVARINT |-> 2, FIXED32 |-> 4, FIXED64 |-> 5,
             STRING |-> 7, SUBMESSAGE |-> 8]
PB_HTYPE == [REQUIRED |-> 0, ONEOF |-> 48]

Kind(ltype, size, align) == [ltype |-> PB_LTYPE[ltype], size |-> size, align |-> align]

bool      == Kind("BOOL", 1, 1)
int8      == Kind("VARINT", 1, 1)
uint8     == Kind("UVARINT", 1, 1)
enum      == Kind("UVARINT", 4, 4)
uint64    == Kind("UVARINT", 8, 8)
string(n) == Kind("STRING", n, 1)

\* No field of ours, but perhaps of a peer with other firmware.
int32     == Kind("VARINT", 4, 4)
uint32    == Kind("UVARINT", 4, 4)
fixed32   == Kind("FIXED32", 4, 4)
fixed64   == Kind("FIXED64", 8, 8)

F(tag, kind) == [tag |-> tag, kind |-> kind]

Payloads ==
    [t \in 1..21 \cup {100} |->
        CASE t = 1          -> <<F(1, enum), F(2, bool), F(3, string(32))>> \* handshake
          [] t \in 2..7 \cup {14} -> <<F(1, int8)>>                   \* temperatures
          [] t \in {8, 9, 11, 12, 13} -> <<F(1, bool)>>               \* flags
          [] t \in {10, 100} -> <<F(1, string(256))>>  \* supportPackageData, loopbackTest
          [] t = 15         -> <<F(1, uint64)>>                       \* dateAndTime
          [] t \in 16..19   -> <<F(1, enum)>>                         \* states
          [] t = 20         -> <<F(1, enum), F(2, string(32)), F(3, uint8)>> \* otaStatus
          [] t = 21         -> <<F(1, enum), F(3, string(256))>>]     \* warning

----------------------------------------------------------------------------
(***************************************************************************)
(* Descriptors.                                                            *)
(***************************************************************************)
Up(n, align) == ((n + align - 1) \div align) * align

\* Where a C compiler puts the fields of a struct, and how large that makes it.
Offset(fields, i) ==
    LET end[j \in 0..Len(fields)] ==
            IF j = 0 THEN 0 ELSE Up(end[j - 1], fields[j].kind.align) + fields[j].kind.size
    IN  Up(end[i - 1], fields[i].kind.align)

Align(fields)  == Max({fields[i].kind.align : i \in 1..Len(fields)})
SizeOf(fields) ==
    Up(Offset(fields, Len(fields)) + Last(fields).kind.size, Align(fields))

\* The generator's estimate of it.
DataSize(fields) ==
    MapThenSumSet(LAMBDA i : Up(fields[i].kind.size, Max({4, fields[i].kind.align})), DOMAIN fields)

\* PB_FIELDINFO_1 and PB_FIELDINFO_2; no field of the catalogue needs more.
FieldInfo1(x) ==
    << At(Low(Word(x.tag), 6), 2) \cup At(Word(x.type), 8) \cup At(Low(Word(x.data_offset), 8), 16)
         \cup At(Low(Word(x.size_offset), 4), 24) \cup At(Low(Word(x.data_size), 4), 28) >>
FieldInfo2(x) ==
    << {0} \cup At(Low(Word(x.tag), 6), 2) \cup At(Word(x.type), 8)
         \cup At(Low(Word(x.array_size), 12), 16) \cup At(Low(Word(x.size_offset), 4), 28),
       Low(Word(x.data_offset), 16) \cup At(Low(Word(x.data_size), 12), 16)
         \cup At(From(Low(Word(x.tag), 10), 6), 28) >>

\* What the compiler is told to assert of the arguments of either.
PB_FITS(n, bits) == n < 2^bits
PB_FIELDINFO_ASSERT_1(x) ==
    /\ PB_FITS(x.tag, 6) /\ PB_FITS(x.data_offset, 8) /\ PB_FITS(x.size_offset, 4)
    /\ PB_FITS(x.data_size, 4) /\ PB_FITS(x.array_size, 1)
PB_FIELDINFO_ASSERT_2(x) ==
    /\ PB_FITS(x.tag, 10) /\ PB_FITS(x.data_offset, 16) /\ PB_FITS(x.size_offset, 4)
    /\ PB_FITS(x.data_size, 12) /\ PB_FITS(x.array_size, 12)

\* The width the generator asks for, or AUTO; AUTO takes two words for a string
\* or a submessage.
NeedsTwo(fields) == Last(fields).tag > 63 \/ DataSize(fields) > 255
Wide(fields, ltype) == NeedsTwo(fields) \/ ltype \in {PB_LTYPE.STRING, PB_LTYPE.SUBMESSAGE}

\* infos are the arguments of the field list's macros, in the order of the tags.
Asserted(infos, fields) ==
    \A i \in DOMAIN infos :
        IF Wide(fields, fields[i].kind.ltype)
        THEN PB_FIELDINFO_ASSERT_2(infos[i]) ELSE PB_FIELDINFO_ASSERT_1(infos[i])

Bind(infos, fields, submsgs) ==
    [ field_info  |-> FlattenSeq([i \in DOMAIN infos |->
                          IF Wide(fields, fields[i].kind.ltype)
                          THEN FieldInfo2(infos[i]) ELSE FieldInfo1(infos[i])]),
      submsg_info |-> submsgs,
      field_count |-> Len(infos),
      required_field_count |-> Cardinality({i \in DOMAIN infos : infos[i].type < 16}),
      largest_tag |-> Last(fields).tag ]

Infos(fields) ==
    [i \in 1..Len(fields) |->
        [tag |-> fields[i].tag, type |-> PB_HTYPE.REQUIRED + fields[i].kind.ltype,
         data_offset |-> Offset(fields, i), data_size |-> fields[i].kind.size,
         size_offset |-> 0, array_size |-> 1]]

Descriptor(fields) == Bind(Infos(fields), fields, <<>>)

\* struct secil_message is which_payload, and at WhichDelta bytes the union.
WhichDelta == 8

\* A message has a submessage for each tag of payloads.
Members(payloads) ==
    [i \in 1..Cardinality(DOMAIN payloads) |->
        LET tag == CHOOSE t \in DOMAIN payloads :
                       Cardinality({u \in DOMAIN payloads : u < t}) = i - 1
        IN  F(tag, Kind("SUBMESSAGE", SizeOf(payloads[tag]), 8))]

MemberInfos(members) ==
    [i \in DOMAIN members |->
        [tag |-> members[i].tag, type |-> PB_HTYPE.ONEOF + PB_LTYPE.SUBMESSAGE,
         data_offset |-> WhichDelta, data_size |-> members[i].kind.size,
         size_offset |-> WhichDelta, array_size |-> 1]]

MessageDescriptor(payloads) ==
    LET members == Members(payloads)
    IN  Bind(MemberInfos(members), members,
             [i \in DOMAIN members |-> Descriptor(payloads[members[i].tag])])

----------------------------------------------------------------------------
(***************************************************************************)
(* pb_field_iter_t.  Pointers are offsets from the start of the message;   *)
(* index, field_info_index and submessage_index count from 0.              *)
(***************************************************************************)
LType(it) == it.type % 16
IsRequired(type) == type \div 16 = 0
IsSubmessage(type) == type % 16 = PB_LTYPE.SUBMESSAGE

load_descriptor_values(d, it) ==
    LET word0 == d.field_info[it.field_info_index + 1]
        word1 == IF 0 \in word0 THEN d.field_info[it.field_info_index + 2] ELSE {}
        two   == 0 \in word0
        type  == Slice(word0, 8, 8)
        pField == IF two THEN Slice(word1, 0, 16) ELSE Slice(word0, 16, 8)
    IN  [it EXCEPT !.type = type,
                   !.tag = Number(Low(From(word0, 2), 6) \cup At(From(word1, 28), 6)),
                   !.data_size = IF two THEN Slice(word1, 16, 12) ELSE Slice(word0, 28, 4),
                   !.pField = pField,
                   !.pSize = pField - (IF two THEN Slice(word0, 28, 4) ELSE Slice(word0, 24, 4)),
                   !.submsg_desc = IF IsSubmessage(type)
                                   THEN d.submsg_info[it.submessage_index + 1] ELSE <<>>]

Start(it) == [it EXCEPT !.index = 0, !.field_info_index = 0,
                        !.required_field_index = 0, !.submessage_index = 0]

advance_iterator(d, it) ==
    IF it.index + 1 >= d.field_count
    THEN Start(it)
    ELSE LET word0 == d.field_info[it.field_info_index + 1]
             type  == Slice(word0, 8, 8)
         IN  [it EXCEPT !.index = @ + 1,
                        !.field_info_index = @ + 2^Slice(word0, 0, 2),
                        !.required_field_index = @ + IF IsRequired(type) THEN 1 ELSE 0,
                        !.submessage_index = @ + IF IsSubmessage(type) THEN 1 ELSE 0]

pb_field_iter_begin(d) ==
    load_descriptor_values(d,
        [index |-> 0, field_info_index |-> 0, required_field_index |-> 0, submessage_index |-> 0,
         tag |-> 0, type |-> 0, data_size |-> 0, pField |-> 0, pSize |-> 0, submsg_desc |-> <<>>])

pb_field_iter_next(d, it) == load_descriptor_values(d, advance_iterator(d, it))

\* All positions of the iterator, in order.
Positions(d) ==
    LET first[n \in 1..d.field_count] ==
            IF n = 1 THEN <<pb_field_iter_begin(d)>>
            ELSE LET before == first[n - 1] IN Append(before, pb_field_iter_next(d, Last(before)))
    IN  first[d.field_count]
=============================================================================
