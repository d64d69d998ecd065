------------------------- MODULE SecilSchemaProofs -------------------------
(***************************************************************************)
(* Proofs about SecilSchema: the words of a descriptor keep what the       *)
(* macros of pb.h put into them.                                           *)
(***************************************************************************)
EXTENDS SecilSchema, TLAPS

-----------------------------------------------------------------------------
(***************************************************************************)
(* Numbers and their bits.                                                 *)
(***************************************************************************)
Power(i) == 2^i

\* The powers of two that a word needs.
LEMMA Powers ==
    /\ Power(0) = 1 /\ Power(1) = 2 /\ Power(2) = 4 /\ Power(3) = 8
    /\ Power(4) = 16 /\ Power(5) = 32 /\ Power(6) = 64 /\ Power(7) = 128
    /\ Power(8) = 256 /\ Power(9) = 512 /\ Power(10) = 1024 /\ Power(11) = 2048
    /\ Power(12) = 4096 /\ Power(13) = 8192 /\ Power(14) = 16384 /\ Power(15) = 32768
    /\ Power(16) = 65536 /\ Power(17) = 131072 /\ Power(18) = 262144 /\ Power(19) = 524288
    /\ Power(20) = 1048576 /\ Power(21) = 2097152 /\ Power(22) = 4194304 /\ Power(23) = 8388608
    /\ Power(24) = 16777216 /\ Power(25) = 33554432 /\ Power(26) = 67108864 /\ Power(27) = 134217728
    /\ Power(28) = 268435456 /\ Power(29) = 536870912 /\ Power(30) = 1073741824
BY DEF Power

\* They are no smaller than those before them.
LEMMA PowersGrow ==
    \A i \in 0..30 : /\ Power(i) \in Nat
                     /\ i >= 4 => Power(i) >= Power(4)
                     /\ i >= 6 => Power(i) >= Power(6)
                     /\ i >= 8 => Power(i) >= Power(8)
                     /\ i >= 10 => Power(i) >= Power(10)
                     /\ i >= 12 => Power(i) >= Power(12)
                     /\ i >= 16 => Power(i) >= Power(16)
<1>1. ASSUME NEW i \in 0..15
      PROVE  /\ Power(i) \in Nat
             /\ i >= 4 => Power(i) >= 16
             /\ i >= 6 => Power(i) >= 64
             /\ i >= 8 => Power(i) >= 256
             /\ i >= 10 => Power(i) >= 1024
             /\ i >= 12 => Power(i) >= 4096
  <2>1. \/ i = 0 \/ i = 1 \/ i = 2 \/ i = 3 \/ i = 4 \/ i = 5 \/ i = 6 \/ i = 7
        \/ i = 8 \/ i = 9 \/ i = 10 \/ i = 11 \/ i = 12 \/ i = 13 \/ i = 14 \/ i = 15
    OBVIOUS
  <2>2. QED
    BY <2>1, Powers
<1>2. ASSUME NEW i \in 16..30
      PROVE  Power(i) \in Nat /\ Power(i) >= 65536
  <2>1. \/ i = 16 \/ i = 17 \/ i = 18 \/ i = 19 \/ i = 20 \/ i = 21 \/ i = 22 \/ i = 23
        \/ i = 24 \/ i = 25 \/ i = 26 \/ i = 27 \/ i = 28 \/ i = 29 \/ i = 30
    OBVIOUS
  <2>2. QED
    BY <2>1, Powers
<1>3. \A i \in 0..30 : i \in 0..15 \/ i \in 16..30
  OBVIOUS
<1>4. QED
  BY <1>1, <1>2, <1>3, Powers

\* The widths of the fields in a word.
Widths == {4, 6, 8, 10, 12, 16}

\* A bit above a number is 0.
LEMMA NotSet ==
    ASSUME NEW n \in Nat, NEW p \in Nat, n < p
    PROVE  (n \div p) % 2 # 1
<1>1. n \div p = 0
  OBVIOUS
<1>2. QED
  BY <1>1

\* v has n bits.
HasBits(v, n) == v \in SUBSET Nat /\ \A i \in v : i < n

\* A number that fits into b bits has no others.
LEMMA FewBits ==
    ASSUME NEW b \in Widths, NEW n \in Nat, PB_FITS(n, b)
    PROVE  HasBits(Word(n), b)
<1>1. n < Power(b)
  BY Zenon DEF PB_FITS, Power
<1>2. Word(n) = {i \in 0..30 : (n \div Power(i)) % 2 = 1}
  BY Zenon DEF Word, Power
<1>3. ASSUME NEW i \in 0..30, i >= b
      PROVE  (n \div Power(i)) % 2 # 1
  <2>1. Power(i) \in Nat /\ n < Power(i)
    <3>1. Power(i) \in Nat /\ Power(i) >= Power(b)
      BY <1>3, PowersGrow DEF Widths
    <3>2. Power(b) \in Nat
      BY Powers DEF Widths
    <3>3. QED
      BY <1>1, <3>1, <3>2
  <2>2. QED
    BY <2>1, NotSet
<1>4. QED
  BY <1>2, <1>3 DEF Widths, HasBits

-----------------------------------------------------------------------------
(***************************************************************************)
(* Fields of a word.                                                       *)
(***************************************************************************)

\* The bits an iterator takes for a field of n bits that begins at bit k.
Taken(w, k, n) == Low(From(w, k), n)

\* What shifting left does to one bit.
LEMMA BitsAt ==
    ASSUME NEW w \in SUBSET Nat, NEW k \in Nat, NEW i
    PROVE  i \in At(w, k) <=> i \in Nat /\ i >= k /\ i - k \in w
BY DEF At

\* What taking a field from a word does to one bit.
LEMMA BitsTaken ==
    ASSUME NEW w \in SUBSET Nat, NEW k \in Nat, NEW n \in Nat, NEW i
    PROVE  i \in Taken(w, k, n) <=> i \in 0..(n - 1) /\ i + k \in w
<1>1. i \in From(w, k) <=> i \in Nat /\ i + k \in w
  BY DEF From
<1>2. i \in Taken(w, k, n) <=> i \in From(w, k) /\ i \in 0..(n - 1)
  BY DEF Taken, Low
<1>3. QED
  BY <1>1, <1>2

\* A bit of n bits is one of the first n.
LEMMA InRange ==
    ASSUME NEW v, NEW n \in Nat, HasBits(v, n), NEW i \in v
    PROVE  i \in 0..(n - 1)
<1>1. i \in Nat /\ i < n
  BY DEF HasBits
<1>2. QED
  BY <1>1

\* What is written at bit k and has n bits, and shares the word with nothing else in
\* those, is what is taken from there.
LEMMA TakenBack ==
    ASSUME NEW v, NEW w \in SUBSET Nat, NEW k \in Nat, NEW n \in Nat, HasBits(v, n),
           \A i \in Nat : i >= k /\ i < k + n => (i \in w <=> i \in At(v, k))
    PROVE  Taken(w, k, n) = v
<1>1. ASSUME NEW i \in 0..(n - 1)
      PROVE  i + k \in w <=> i \in v
  <2>1. i + k \in Nat /\ i + k >= k /\ i + k < k + n /\ i + k - k = i
    OBVIOUS
  <2>2. i + k \in At(v, k) <=> i \in v
    BY <2>1, BitsAt DEF HasBits
  <2>3. QED
    BY <2>1, <2>2
<1>2. ASSUME NEW i
      PROVE  i \in Taken(w, k, n) <=> i \in v
  <2>1. i \in Taken(w, k, n) <=> i \in 0..(n - 1) /\ i + k \in w
    BY BitsTaken
  <2>2. i \in v => i \in 0..(n - 1)
    BY InRange
  <2>3. QED
    BY <1>1, <2>1, <2>2
<1>3. QED
  BY <1>2

\* Bits beyond those a number has change nothing.
LEMMA LowAll ==
    ASSUME NEW v, NEW n \in Nat, HasBits(v, n)
    PROVE  Low(v, n) = v
<1>1. \A i \in v : i \in 0..(n - 1)
  BY InRange
<1>2. QED
  BY <1>1 DEF Low

\* Where the bits are that are written at bit k.
LEMMA Apart ==
    ASSUME NEW v, NEW k \in Nat, NEW n \in Nat, HasBits(v, n)
    PROVE  At(v, k) \subseteq Nat /\ \A i \in At(v, k) : k <= i /\ i < k + n
<1>1. ASSUME NEW i \in At(v, k)
      PROVE  i \in Nat /\ k <= i /\ i < k + n
  <2>1. i \in Nat /\ i >= k /\ i - k \in v
    BY BitsAt DEF HasBits
  <2>2. QED
    BY <2>1 DEF HasBits
<1>2. QED
  BY <1>1

-----------------------------------------------------------------------------
(***************************************************************************)
(* The two formats.                                                        *)
(***************************************************************************)

\* The arguments of PB_FIELDINFO_1 and PB_FIELDINFO_2; a type is a pb_type_t.
Arguments ==
    [tag : Nat, type : 0..255, data_offset : Nat, data_size : Nat, size_offset : Nat,
     array_size : Nat]

\* A type has eight bits, without an assertion.
LEMMA TypeBits ==
    ASSUME NEW n \in 0..255
    PROVE  HasBits(Word(n), 8)
<1>1. Power(8) = 256
  BY Powers
<1>2. PB_FITS(n, 8)
  <2>1. n < Power(8)
    BY <1>1
  <2>2. QED
    BY <2>1, Zenon DEF PB_FITS, Power
<1>3. QED
  BY <1>2, FewBits DEF Widths

\* PB_FIELDINFO_1, unpacked.
LEMMA OneWord ==
    ASSUME NEW x \in Arguments, PB_FIELDINFO_ASSERT_1(x), NEW w, w = FieldInfo1(x)[1]
    PROVE  /\ w \in SUBSET Nat /\ 0 \notin w
           /\ Taken(w, 2, 6) = Word(x.tag)
           /\ Taken(w, 8, 8) = Word(x.type)
           /\ Taken(w, 16, 8) = Word(x.data_offset)
           /\ Taken(w, 24, 4) = Word(x.size_offset)
           /\ Taken(w, 28, 4) = Word(x.data_size)
<1> DEFINE t == Word(x.tag)
           y == Word(x.type)
           o == Word(x.data_offset)
           z == Word(x.size_offset)
           s == Word(x.data_size)
<1>1. HasBits(t, 6)
  BY FewBits DEF Widths, Arguments, PB_FIELDINFO_ASSERT_1
<1>2. HasBits(y, 8)
  BY TypeBits DEF Arguments
<1>3. HasBits(o, 8)
  BY FewBits DEF Widths, Arguments, PB_FIELDINFO_ASSERT_1
<1>4. HasBits(z, 4)
  BY FewBits DEF Widths, Arguments, PB_FIELDINFO_ASSERT_1
<1>5. HasBits(s, 4)
  BY FewBits DEF Widths, Arguments, PB_FIELDINFO_ASSERT_1
<1>6. w = At(Low(t, 6), 2) \cup At(y, 8) \cup At(Low(o, 8), 16) \cup At(Low(z, 4), 24)
              \cup At(Low(s, 4), 28)
  BY DEF FieldInfo1
<1> HIDE DEF t, y, o, z, s
<1>7. w = At(t, 2) \cup At(y, 8) \cup At(o, 16) \cup At(z, 24) \cup At(s, 28)
  <2>1. Low(t, 6) = t /\ Low(o, 8) = o /\ Low(z, 4) = z /\ Low(s, 4) = s
    BY <1>1, <1>3, <1>4, <1>5, LowAll
  <2>2. QED
    BY <1>6, <2>1
<1>8. /\ At(t, 2) \subseteq Nat /\ \A i \in At(t, 2) : 2 <= i /\ i < 8
      /\ At(y, 8) \subseteq Nat /\ \A i \in At(y, 8) : 8 <= i /\ i < 16
      /\ At(o, 16) \subseteq Nat /\ \A i \in At(o, 16) : 16 <= i /\ i < 24
      /\ At(z, 24) \subseteq Nat /\ \A i \in At(z, 24) : 24 <= i /\ i < 28
      /\ At(s, 28) \subseteq Nat /\ \A i \in At(s, 28) : 28 <= i /\ i < 32
  <2>1. At(t, 2) \subseteq Nat /\ \A i \in At(t, 2) : 2 <= i /\ i < 2 + 6
    BY <1>1, Apart
  <2>2. At(y, 8) \subseteq Nat /\ \A i \in At(y, 8) : 8 <= i /\ i < 8 + 8
    BY <1>2, Apart
  <2>3. At(o, 16) \subseteq Nat /\ \A i \in At(o, 16) : 16 <= i /\ i < 16 + 8
    BY <1>3, Apart
  <2>4. At(z, 24) \subseteq Nat /\ \A i \in At(z, 24) : 24 <= i /\ i < 24 + 4
    BY <1>4, Apart
  <2>5. At(s, 28) \subseteq Nat /\ \A i \in At(s, 28) : 28 <= i /\ i < 28 + 4
    BY <1>5, Apart
  <2>6. QED
    BY <2>1, <2>2, <2>3, <2>4, <2>5
<1>9. w \in SUBSET Nat /\ 0 \notin w
  BY <1>7, <1>8
<1>10. Taken(w, 2, 6) = t
  <2>1. \A i \in Nat : i >= 2 /\ i < 2 + 6 => (i \in w <=> i \in At(t, 2))
    BY <1>7, <1>8
  <2>2. QED
    BY <1>1, <1>9, <2>1, TakenBack
<1>11. Taken(w, 8, 8) = y
  <2>1. \A i \in Nat : i >= 8 /\ i < 8 + 8 => (i \in w <=> i \in At(y, 8))
    BY <1>7, <1>8
  <2>2. QED
    BY <1>2, <1>9, <2>1, TakenBack
<1>12. Taken(w, 16, 8) = o
  <2>1. \A i \in Nat : i >= 16 /\ i < 16 + 8 => (i \in w <=> i \in At(o, 16))
    BY <1>7, <1>8
  <2>2. QED
    BY <1>3, <1>9, <2>1, TakenBack
<1>13. Taken(w, 24, 4) = z
  <2>1. \A i \in Nat : i >= 24 /\ i < 24 + 4 => (i \in w <=> i \in At(z, 24))
    BY <1>7, <1>8
  <2>2. QED
    BY <1>4, <1>9, <2>1, TakenBack
<1>14. Taken(w, 28, 4) = s
  <2>1. \A i \in Nat : i >= 28 /\ i < 28 + 4 => (i \in w <=> i \in At(s, 28))
    BY <1>7, <1>8
  <2>2. QED
    BY <1>5, <1>9, <2>1, TakenBack
<1>15. QED
  BY <1>9, <1>10, <1>11, <1>12, <1>13, <1>14 DEF t, y, o, z, s

\* What is cut off a word and put back.
LEMMA CutAndBack ==
    ASSUME NEW v \in SUBSET Nat, NEW n \in Nat
    PROVE  /\ From(v, n) \in SUBSET Nat
           /\ From(At(v, n), n) = v
           /\ At(v, 0) = v
           /\ Low(v, n) \cup At(From(v, n), n) = v
<1>1. \A i : i \in From(v, n) <=> i \in Nat /\ i + n \in v
  BY DEF From
<1>2. \A i : i \in At(v, n) <=> i \in Nat /\ i >= n /\ i - n \in v
  BY BitsAt
<1>3. From(v, n) \in SUBSET Nat
  BY <1>1
<1>4. From(At(v, n), n) = v
  <2>1. At(v, n) \in SUBSET Nat
    BY <1>2
  <2>2. \A i : i \in From(At(v, n), n) <=> i \in Nat /\ i + n \in At(v, n)
    BY <2>1 DEF From
  <2>3. \A i \in Nat : i + n \in Nat /\ i + n >= n /\ i + n - n = i
    OBVIOUS
  <2>4. \A i \in Nat : i + n \in At(v, n) <=> i \in v
    BY <1>2, <2>3
  <2>5. QED
    BY <2>2, <2>4
<1>5. At(v, 0) = v
  <2>1. \A i : i \in At(v, 0) <=> i \in Nat /\ i >= 0 /\ i - 0 \in v
    BY BitsAt
  <2>2. \A i \in Nat : i >= 0 /\ i - 0 = i
    OBVIOUS
  <2>3. QED
    BY <2>1, <2>2
<1>6. Low(v, n) \cup At(From(v, n), n) = v
  <2>1. \A i : i \in At(From(v, n), n) <=> i \in Nat /\ i >= n /\ i - n \in From(v, n)
    BY <1>3, BitsAt
  <2>2. \A i \in Nat : i >= n => i - n \in Nat /\ i - n + n = i
    OBVIOUS
  <2>3. \A i : i \in At(From(v, n), n) <=> i \in Nat /\ i >= n /\ i \in v
    BY <1>1, <2>1, <2>2
  <2>4. \A i : i \in Low(v, n) <=> i \in v /\ i \in 0..(n - 1)
    BY DEF Low
  <2>5. \A i \in Nat : i \in 0..(n - 1) \/ i >= n
    OBVIOUS
  <2>6. QED
    BY <2>3, <2>4, <2>5
<1>7. QED
  BY <1>3, <1>4, <1>5, <1>6

\* PB_FIELDINFO_2, unpacked: the tag is in both words.
LEMMA TwoWords ==
    ASSUME NEW x \in Arguments, PB_FIELDINFO_ASSERT_2(x),
           NEW w, w = FieldInfo2(x)[1], NEW u, u = FieldInfo2(x)[2]
    PROVE  /\ 0 \in w
           /\ Taken(w, 2, 6) \cup At(From(u, 28), 6) = Word(x.tag)
           /\ Taken(w, 8, 8) = Word(x.type)
           /\ Taken(u, 0, 16) = Word(x.data_offset)
           /\ Taken(w, 28, 4) = Word(x.size_offset)
           /\ Taken(u, 16, 12) = Word(x.data_size)
<1> DEFINE t == Word(x.tag)
           y == Word(x.type)
           o == Word(x.data_offset)
           z == Word(x.size_offset)
           s == Word(x.data_size)
           a == Word(x.array_size)
           l == Low(t, 6)
           h == From(t, 6)
<1>1. HasBits(t, 10)
  BY FewBits DEF Widths, Arguments, PB_FIELDINFO_ASSERT_2
<1>2. HasBits(y, 8)
  BY TypeBits DEF Arguments
<1>3. HasBits(o, 16)
  BY FewBits DEF Widths, Arguments, PB_FIELDINFO_ASSERT_2
<1>4. HasBits(z, 4)
  BY FewBits DEF Widths, Arguments, PB_FIELDINFO_ASSERT_2
<1>5. HasBits(s, 12)
  BY FewBits DEF Widths, Arguments, PB_FIELDINFO_ASSERT_2
<1>6. HasBits(a, 12)
  BY FewBits DEF Widths, Arguments, PB_FIELDINFO_ASSERT_2
<1>7. /\ w = {0} \cup At(l, 2) \cup At(y, 8) \cup At(Low(a, 12), 16) \cup At(Low(z, 4), 28)
      /\ u = Low(o, 16) \cup At(Low(s, 12), 16) \cup At(From(Low(t, 10), 6), 28)
  BY DEF FieldInfo2
<1> HIDE DEF t, y, o, z, s, a
<1>8. HasBits(l, 6)
  <2>1. l \in SUBSET t /\ \A i \in l : i \in 0..5
    BY DEF Low
  <2>2. \A i \in 0..5 : i < 6
    OBVIOUS
  <2>3. QED
    BY <1>1, <2>1, <2>2 DEF HasBits
<1>9. h \in SUBSET Nat /\ l \cup At(h, 6) = t
  BY <1>1, CutAndBack DEF HasBits
<1> HIDE DEF l
<1>10. /\ w = {0} \cup At(l, 2) \cup At(y, 8) \cup At(a, 16) \cup At(z, 28)
       /\ u = o \cup At(s, 16) \cup At(h, 28)
  <2>1. Low(a, 12) = a /\ Low(z, 4) = z /\ Low(o, 16) = o /\ Low(s, 12) = s /\ Low(t, 10) = t
    BY <1>1, <1>3, <1>4, <1>5, <1>6, LowAll
  <2>2. QED
    BY <1>7, <2>1
<1> HIDE DEF h
<1>11. /\ At(l, 2) \subseteq Nat /\ \A i \in At(l, 2) : 2 <= i /\ i < 8
       /\ At(y, 8) \subseteq Nat /\ \A i \in At(y, 8) : 8 <= i /\ i < 16
       /\ At(a, 16) \subseteq Nat /\ \A i \in At(a, 16) : 16 <= i /\ i < 28
       /\ At(z, 28) \subseteq Nat /\ \A i \in At(z, 28) : 28 <= i /\ i < 32
  <2>1. At(l, 2) \subseteq Nat /\ \A i \in At(l, 2) : 2 <= i /\ i < 2 + 6
    BY <1>8, Apart
  <2>2. At(y, 8) \subseteq Nat /\ \A i \in At(y, 8) : 8 <= i /\ i < 8 + 8
    BY <1>2, Apart
  <2>3. At(a, 16) \subseteq Nat /\ \A i \in At(a, 16) : 16 <= i /\ i < 16 + 12
    BY <1>6, Apart
  <2>4. At(z, 28) \subseteq Nat /\ \A i \in At(z, 28) : 28 <= i /\ i < 28 + 4
    BY <1>4, Apart
  <2>5. QED
    BY <2>1, <2>2, <2>3, <2>4
<1>12. /\ o \subseteq Nat /\ \A i \in o : i < 16
       /\ At(s, 16) \subseteq Nat /\ \A i \in At(s, 16) : 16 <= i /\ i < 28
       /\ At(h, 28) \subseteq Nat /\ \A i \in At(h, 28) : 28 <= i
  <2>1. At(s, 16) \subseteq Nat /\ \A i \in At(s, 16) : 16 <= i /\ i < 16 + 12
    BY <1>5, Apart
  <2>2. \A i : i \in At(h, 28) <=> i \in Nat /\ i >= 28 /\ i - 28 \in h
    BY <1>9, BitsAt
  <2>3. o \subseteq Nat /\ \A i \in o : i < 16
    BY <1>3 DEF HasBits
  <2>4. QED
    BY <2>1, <2>2, <2>3
<1>13. w \in SUBSET Nat /\ u \in SUBSET Nat
  <2>1. {0} \subseteq Nat
    OBVIOUS
  <2>2. /\ At(l, 2) \subseteq Nat /\ At(y, 8) \subseteq Nat /\ At(a, 16) \subseteq Nat
        /\ At(z, 28) \subseteq Nat
    BY <1>11
  <2>3. w \subseteq Nat
    BY <1>10, <2>1, <2>2
  <2>4. o \subseteq Nat /\ At(s, 16) \subseteq Nat /\ At(h, 28) \subseteq Nat
    BY <1>12
  <2>5. u \subseteq Nat
    BY <1>10, <2>4
  <2>6. QED
    BY <2>3, <2>5
<1>14. Taken(w, 2, 6) = l
  <2>1. \A i \in Nat : i >= 2 /\ i < 2 + 6 => (i \in w <=> i \in At(l, 2))
    BY <1>10, <1>11
  <2>2. QED
    BY <1>8, <1>13, <2>1, TakenBack
<1>15. Taken(w, 8, 8) = y
  <2>1. \A i \in Nat : i >= 8 /\ i < 8 + 8 => (i \in w <=> i \in At(y, 8))
    BY <1>10, <1>11
  <2>2. QED
    BY <1>2, <1>13, <2>1, TakenBack
<1>16. Taken(w, 28, 4) = z
  <2>1. \A i \in Nat : i >= 28 /\ i < 28 + 4 => (i \in w <=> i \in At(z, 28))
    BY <1>10, <1>11
  <2>2. QED
    BY <1>4, <1>13, <2>1, TakenBack
<1>17. Taken(u, 0, 16) = o
  <2>1. \A i \in Nat : i >= 0 /\ i < 0 + 16 => (i \in u <=> i \in At(o, 0))
    <3>1. At(o, 0) = o
      BY <1>12, CutAndBack
    <3>2. QED
      BY <1>10, <1>12, <3>1
  <2>2. QED
    BY <1>3, <1>13, <2>1, TakenBack
<1>18. Taken(u, 16, 12) = s
  <2>1. \A i \in Nat : i >= 16 /\ i < 16 + 12 => (i \in u <=> i \in At(s, 16))
    BY <1>10, <1>12
  <2>2. QED
    BY <1>5, <1>13, <2>1, TakenBack
<1>19. From(u, 28) = h
  <2>1. \A i \in Nat : i >= 28 => (i \in u <=> i \in At(h, 28))
    BY <1>10, <1>12
  <2>2. \A i : i \in From(u, 28) <=> i \in Nat /\ i + 28 \in u
    BY <1>13 DEF From
  <2>3. \A i : i \in From(At(h, 28), 28) <=> i \in Nat /\ i + 28 \in At(h, 28)
    BY <1>12 DEF From
  <2>4. \A i \in Nat : i + 28 \in Nat /\ i + 28 >= 28
    OBVIOUS
  <2>5. \A i : i \in From(u, 28) <=> i \in From(At(h, 28), 28)
    BY <2>1, <2>2, <2>3, <2>4
  <2>6. From(u, 28) = From(At(h, 28), 28)
    BY <2>2, <2>3, <2>5
  <2>7. QED
    BY <1>9, <2>6, CutAndBack
<1>20. 0 \in w
  BY <1>10
<1>21. QED
  BY <1>9, <1>14, <1>15, <1>16, <1>17, <1>18, <1>19, <1>20 DEF t, y, o, z, s

-----------------------------------------------------------------------------
(***************************************************************************)
(* The iterator.                                                           *)
(***************************************************************************)

\* It has the fields of pb_field_iter_t, whatever they hold.
IsIterator(it) ==
    it = [index |-> it.index, field_info_index |-> it.field_info_index,
          required_field_index |-> it.required_field_index,
          submessage_index |-> it.submessage_index, tag |-> it.tag, type |-> it.type,
          data_size |-> it.data_size, pField |-> it.pField, pSize |-> it.pSize,
          submsg_desc |-> it.submsg_desc]

\* The word or the words at k are those of a field with the arguments x, which
\* pass the assertions for their format.
Stands(x, words, k) ==
    \/ PB_FIELDINFO_ASSERT_1(x) /\ words[k + 1] = FieldInfo1(x)[1]
    \/ /\ PB_FIELDINFO_ASSERT_2(x)
       /\ words[k + 1] = FieldInfo2(x)[1] /\ words[k + 2] = FieldInfo2(x)[2]

\* A field that passes the assertions of pb.h, in whichever of the two formats it is
\* packed, is what load_descriptor_values finds: its tag, type and size, and where it
\* and its size field are. No bits of one are taken for those of another, and none
\* are cut off.
THEOREM FieldsUnpacked ==
    ASSUME NEW x \in Arguments, NEW d, NEW it, IsIterator(it),
           Stands(x, d.field_info, it.field_info_index),
           NEW r, r = load_descriptor_values(d, it)
    PROVE  /\ r.tag = Number(Word(x.tag))
           /\ r.type = Number(Word(x.type))
           /\ r.data_size = Number(Word(x.data_size))
           /\ r.pField = Number(Word(x.data_offset))
           /\ r.pSize = r.pField - Number(Word(x.size_offset))
<1> DEFINE w   == d.field_info[it.field_info_index + 1]
           two == 0 \in w
           u   == IF two THEN d.field_info[it.field_info_index + 2] ELSE {}
           type == Number(Taken(w, 8, 8))
           pField == IF two THEN Number(Taken(u, 0, 16)) ELSE Number(Taken(w, 16, 8))
<1>1. /\ r.tag = Number(Taken(w, 2, 6) \cup At(From(u, 28), 6))
      /\ r.type = type
      /\ r.data_size = (IF two THEN Number(Taken(u, 16, 12)) ELSE Number(Taken(w, 28, 4)))
      /\ r.pField = pField
      /\ r.pSize = pField - (IF two THEN Number(Taken(w, 28, 4)) ELSE Number(Taken(w, 24, 4)))
  BY DEF load_descriptor_values, IsIterator, Slice, Taken
<1>2. CASE PB_FIELDINFO_ASSERT_1(x) /\ w = FieldInfo1(x)[1]
  <2>1. ~two /\ u = {}
    BY <1>2, OneWord
  <2>2. At(From({}, 28), 6) = {}
    BY DEF At, From
  <2>3. /\ Taken(w, 2, 6) = Word(x.tag) /\ Taken(w, 8, 8) = Word(x.type)
        /\ Taken(w, 16, 8) = Word(x.data_offset) /\ Taken(w, 24, 4) = Word(x.size_offset)
        /\ Taken(w, 28, 4) = Word(x.data_size)
    BY <1>2, OneWord
  <2>4. Taken(w, 2, 6) \cup At(From(u, 28), 6) = Word(x.tag)
    BY <2>1, <2>2, <2>3
  <2>5. QED
    BY <1>1, <2>1, <2>3, <2>4
<1>3. CASE /\ PB_FIELDINFO_ASSERT_2(x)
           /\ w = FieldInfo2(x)[1] /\ d.field_info[it.field_info_index + 2] = FieldInfo2(x)[2]
  <2>1. two /\ u = FieldInfo2(x)[2]
    BY <1>3, TwoWords
  <2>2. /\ Taken(w, 2, 6) \cup At(From(u, 28), 6) = Word(x.tag)
        /\ Taken(w, 8, 8) = Word(x.type) /\ Taken(u, 0, 16) = Word(x.data_offset)
        /\ Taken(w, 28, 4) = Word(x.size_offset) /\ Taken(u, 16, 12) = Word(x.data_size)
    BY <1>3, <2>1, TwoWords
  <2>3. QED
    BY <1>1, <2>1, <2>2
<1>4. QED
  BY <1>2, <1>3 DEF Stands
=============================================================================
