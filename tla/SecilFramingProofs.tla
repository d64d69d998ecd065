------------------------- MODULE SecilFramingProofs -------------------------
(***************************************************************************)
(* Proofs about SecilFraming: as long as there is no fault, the receiver   *)
(* returns every message sent, whatever hiss there is between the frames,  *)
(* for every maximal length, every set of messages and every CRC.          *)
(***************************************************************************)
EXTENDS SecilFraming, TLAPS

-----------------------------------------------------------------------------
(***************************************************************************)
(* The invariant.                                                          *)
(***************************************************************************)

\* The bytes f stand in s from p on.
Holds(s, p, f) ==
    /\ p + Len(f) - 1 <= Len(s)
    /\ \A j \in 1..Len(f) : s[p + j - 1] = f[j]

\* Where a frame at p ends.
After(p, b) == p + Len(Frame[b])

\* The frames of the messages bs from the one after the first d on stand in s at
\* the places at, one after the other, and no header starts between them.
InPlace(s, bs, d, at) ==
    /\ at \in [(d + 1)..Len(bs) -> Nat \ {0}]
    /\ \A i \in (d + 1)..Len(bs) : Holds(s, at[i], Frame[bs[i]])
InOrder(bs, d, at) ==
    \A i, j \in (d + 1)..Len(bs) : i < j => After(at[i], bs[i]) <= at[j]
NoneBetween(s, bs, d, at) ==
    \A p \in 1..(Len(s) - 1) :
       s[p] = 202 /\ s[p + 1] = 254 =>
          \E i \in (d + 1)..Len(bs) : at[i] <= p /\ p < After(at[i], bs[i])
Laid(s, bs, d, at) ==
    InPlace(s, bs, d, at) /\ InOrder(bs, d, at) /\ NoneBetween(s, bs, d, at)

\* The bytes the receiver has not done with: those of a header it is looking for,
\* or has found, are still in its buffer.
Unread == IF pc = "header" THEN line ELSE header \o line

\* What has been written, and the first four bytes of the receive buffer.
Buffers == line \in Seq(Byte) /\ header \in Seq(Byte) /\ Len(header) = 4

Whole ==
    /\ Buffers
    /\ sent \in Seq(Bodies) /\ delivered \in Seq(Bodies)
    /\ pc \in {"header", "scan", "body"}
    /\ pc = "scan" => ~IsHeader(header)
    /\ pc = "body" => IsHeader(header)
    /\ Len(delivered) <= Len(sent) /\ \A i \in 1..Len(delivered) : delivered[i] = sent[i]
    /\ \E at : Laid(Unread, sent, Len(delivered), at)

\* The inductive invariant.
FInv == faults \in Nat /\ (faults = 0 => Whole)

-----------------------------------------------------------------------------
(***************************************************************************)
(* Frames.                                                                 *)
(***************************************************************************)

\* One after the other.
LEMMA Joined ==
    ASSUME NEW S, NEW s \in Seq(S), NEW t \in Seq(S), NEW u, u = s \o t
    PROVE  /\ u \in Seq(S) /\ Len(u) = Len(s) + Len(t)
           /\ \A i \in 1..Len(s) : u[i] = s[i]
           /\ \A i \in 1..Len(t) : u[Len(s) + i] = t[i]
OBVIOUS

\* One more.
LEMMA Appended ==
    ASSUME NEW S, NEW s \in Seq(S), NEW x \in S, NEW u, u = Append(s, x)
    PROVE  /\ u \in Seq(S) /\ Len(u) = Len(s) + 1 /\ Len(s) \in Nat
           /\ \A i \in 1..Len(s) : u[i] = s[i]
           /\ u[Len(s) + 1] = x
OBVIOUS

\* Two bytes for a number of 16 bits, which MessageLength puts together again.
LEMMA WordBytes ==
    ASSUME NEW n, UInt16(n)
    PROVE  /\ Word(n) \in Seq(Byte) /\ Len(Word(n)) = 2
           /\ Word(n)[1] + 256 * Word(n)[2] = n
<1> DEFINE q == n \div 256
           r == n % 256
<1>1. n = r + 256 * q /\ r \in 0..255 /\ q \in 0..255
  BY DEF UInt16
<1>2. q % 256 = q
  BY <1>1
<1>3. Word(n) = <<r, q>>
  BY <1>2 DEF Word
<1>4. r \in Byte /\ q \in Byte
  BY <1>1 DEF Byte
<1> HIDE DEF q, r
<1>5. Word(n) \in Seq(Byte) /\ Len(Word(n)) = 2
  BY <1>3, <1>4
<1>6. Word(n)[1] = r /\ Word(n)[2] = q
  BY <1>3
<1>7. QED
  BY <1>1, <1>5, <1>6

\* A header: the magic bytes and the length.
LEMMA HeaderBytes ==
    ASSUME NEW n, UInt16(n)
    PROVE  /\ Header(n) \in Seq(Byte) /\ Len(Header(n)) = 4
           /\ Header(n)[1] = 202 /\ Header(n)[2] = 254 /\ MessageLength(Header(n)) = n
<1> DEFINE m == <<202, 254>>
           w == Word(n)
           h == Header(n)
<1>1. m \in Seq(Byte) /\ Len(m) = 2 /\ m[1] = 202 /\ m[2] = 254
  BY DEF Byte
<1>2. w \in Seq(Byte) /\ Len(w) = 2 /\ w[1] + 256 * w[2] = n
  BY WordBytes
<1>3. h = m \o w
  BY DEF Header
<1> HIDE DEF m, w, h
<1>4. /\ h \in Seq(Byte) /\ Len(h) = Len(m) + Len(w)
      /\ \A i \in 1..Len(m) : h[i] = m[i]
      /\ \A i \in 1..Len(w) : h[Len(m) + i] = w[i]
  <2>1. m \in Seq(Byte) /\ w \in Seq(Byte)
    BY <1>1, <1>2
  <2>2. QED
    BY <1>3, <2>1, Joined
<1>5. /\ Len(h) = 4
      /\ h[1] = 202 /\ h[2] = 254 /\ h[2 + 1] = w[1] /\ h[2 + 2] = w[2]
  BY <1>1, <1>2, <1>4
<1>6. MessageLength(h) = n
  BY <1>2, <1>5 DEF MessageLength
<1>7. h \in Seq(Byte) /\ Len(h) = 4 /\ h[1] = 202 /\ h[2] = 254 /\ MessageLength(h) = n
  BY <1>4, <1>5, <1>6
<1>8. QED
  BY <1>7 DEF h

\* A footer: the CRC and its own magic bytes.
LEMMA FooterBytes ==
    ASSUME NEW s \in Seq(Byte), UInt16(Crc(s))
    PROVE  Footer(s) \in Seq(Byte) /\ Len(Footer(s)) = 4 /\ Footer(s)[4] = 222
<1> DEFINE v == Word(Crc(s))
           m == <<250, 222>>
           f == Footer(s)
<1>1. m \in Seq(Byte) /\ Len(m) = 2 /\ m[2] = 222
  BY DEF Byte
<1>2. v \in Seq(Byte) /\ Len(v) = 2
  BY WordBytes
<1>3. f = v \o m
  BY DEF Footer
<1> HIDE DEF v, m, f
<1>4. /\ f \in Seq(Byte) /\ Len(f) = Len(v) + Len(m)
      /\ \A i \in 1..Len(m) : f[Len(v) + i] = m[i]
  <2>1. v \in Seq(Byte) /\ m \in Seq(Byte)
    BY <1>1, <1>2
  <2>2. QED
    BY <1>3, <2>1, Joined
<1>5. Len(f) = 4 /\ f[2 + 2] = m[2]
  BY <1>1, <1>2, <1>4
<1>6. f \in Seq(Byte)
  BY <1>4
<1>7. f[4] = 222
  BY <1>1, <1>5
<1>8. QED
  BY <1>5, <1>6, <1>7 DEF f

\* A frame: a header, its body, and a footer over both.
LEMMA FrameBytes ==
    ASSUME NEW b \in Bodies
    PROVE  LET h == Header(Len(b))
               f == Footer(h \o b)
           IN  /\ Frame[b] \in Seq(Byte) /\ Len(Frame[b]) = Len(b) + 8
               /\ b \in Seq(Byte) /\ Len(b) \in Nat /\ Len(b) <= MessageSize
               /\ h \in Seq(Byte) /\ Len(h) = 4 /\ MessageLength(h) = Len(b)
               /\ Frame[b][1] = 202 /\ Frame[b][2] = 254 /\ Frame[b][Len(b) + 8] = 222
               /\ \A j \in 1..4 : Frame[b][j] = h[j]
               /\ \A j \in 1..Len(b) : Frame[b][4 + j] = b[j]
               /\ f \in Seq(Byte) /\ Len(f) = 4
               /\ \A j \in 1..4 : Frame[b][4 + Len(b) + j] = f[j]
<1> DEFINE n == Len(b)
           h == Header(n)
           c == h \o b
           f == Footer(c)
           s == Frame[b]
<1>1. b \in Seq(Byte) /\ n \in Nat /\ n <= MessageSize /\ UInt16(n)
  BY BodiesAssumption, SizeAssumption DEF UInt16
<1>2. h \in Seq(Byte) /\ Len(h) = 4 /\ h[1] = 202 /\ h[2] = 254 /\ MessageLength(h) = n
  BY <1>1, HeaderBytes
<1>3. s = c \o f
  BY DEF Frame
<1> HIDE DEF s, f, h, n
<1>4. /\ c \in Seq(Byte) /\ Len(c) = 4 + n
      /\ \A j \in 1..4 : c[j] = h[j]
      /\ \A j \in 1..n : c[4 + j] = b[j]
  <2>1. /\ c \in Seq(Byte) /\ Len(c) = Len(h) + Len(b)
        /\ \A j \in 1..Len(h) : c[j] = h[j]
        /\ \A j \in 1..Len(b) : c[Len(h) + j] = b[j]
    <3>1. h \in Seq(Byte) /\ b \in Seq(Byte)
      BY <1>1, <1>2
    <3> HIDE DEF h
    <3>2. QED
      BY <3>1, Joined
  <2>2. QED
    BY <1>2, <2>1 DEF n
<1> HIDE DEF c
<1>5. f \in Seq(Byte) /\ Len(f) = 4 /\ f[4] = 222
  <2>1. UInt16(Crc(c))
    BY CrcAssumption DEF c, h, n
  <2>2. QED
    BY <1>4, <2>1, FooterBytes DEF f
<1>6. /\ s \in Seq(Byte) /\ Len(s) = (4 + n) + 4
      /\ \A j \in 1..(4 + n) : s[j] = c[j]
      /\ \A j \in 1..4 : s[(4 + n) + j] = f[j]
  <2>1. /\ s \in Seq(Byte) /\ Len(s) = Len(c) + Len(f)
        /\ \A j \in 1..Len(c) : s[j] = c[j]
        /\ \A j \in 1..Len(f) : s[Len(c) + j] = f[j]
    <3>1. c \in Seq(Byte) /\ f \in Seq(Byte)
      BY <1>4, <1>5
    <3>2. QED
      BY <1>3, <3>1, Joined
  <2>2. QED
    BY <1>4, <1>5, <2>1
<1>7. /\ \A j \in 1..4 : s[j] = h[j]
      /\ \A j \in 1..n : s[4 + j] = b[j]
  BY <1>1, <1>4, <1>6
<1>8. s[1] = 202 /\ s[2] = 254 /\ s[n + 8] = 222
  <2>1. s[(4 + n) + 4] = f[4]
    BY <1>6
  <2>2. QED
    BY <1>1, <1>2, <1>5, <1>7, <2>1
<1>9. s \in Seq(Byte) /\ Len(s) = n + 8 /\ \A j \in 1..4 : s[4 + n + j] = f[j]
  BY <1>1, <1>6
<1>10. QED
  BY <1>1, <1>2, <1>5, <1>7, <1>8, <1>9 DEF n, h, f, c, s

\* Its length, and how it begins.
LEMMA FrameSpan ==
    ASSUME NEW b \in Bodies
    PROVE  /\ Frame[b] \in Seq(Byte) /\ Len(Frame[b]) = Len(b) + 8
           /\ Len(b) \in Nat /\ Len(b) <= MessageSize
           /\ Frame[b][1] = 202 /\ Frame[b][2] = 254
BY FrameBytes

-----------------------------------------------------------------------------
(***************************************************************************)
(* Frames on a line.                                                       *)
(***************************************************************************)

\* u is s and then t, and u is what is left of s after the first k.
More(u, s, t) ==
    /\ u \in Seq(Byte) /\ Len(u) = Len(s) + Len(t)
    /\ \A i \in 1..Len(s) : u[i] = s[i]
    /\ \A i \in 1..Len(t) : u[Len(s) + i] = t[i]
Rest(u, s, k) ==
    /\ u \in Seq(Byte) /\ Len(u) = Len(s) - k
    /\ \A i \in 1..Len(u) : u[i] = s[i + k]

\* Taking the first k bytes of a line leaves its rest.
LEMMA RestOf ==
    ASSUME NEW s \in Seq(Byte), NEW k \in 0..Len(s)
    PROVE  Rest(SubSeq(s, k + 1, Len(s)), s, k)
<1> DEFINE u == SubSeq(s, k + 1, Len(s))
<1>1. u \in Seq(Byte) /\ Len(u) = Len(s) - k /\ \A i \in 1..(Len(s) - k) : u[i] = s[i + k]
  OBVIOUS
<1> HIDE DEF u
<1>2. Rest(u, s, k)
  BY <1>1 DEF Rest
<1>3. QED
  BY <1>2 DEF u

\* A frame is not empty, and is as long as its body and eight bytes more.
LEMMA FrameSize ==
    ASSUME NEW bs \in Seq(Bodies), NEW i \in 1..Len(bs)
    PROVE  Len(Frame[bs[i]]) \in Nat /\ Len(Frame[bs[i]]) >= 8
<1>1. bs[i] \in Bodies
  OBVIOUS
<1>2. Len(Frame[bs[i]]) = Len(bs[i]) + 8 /\ Len(bs[i]) \in Nat
  BY <1>1, FrameSpan
<1>3. QED
  BY <1>2

\* The places of frames.
LEMMA Places ==
    ASSUME NEW s, NEW bs \in Seq(Bodies), NEW d \in Nat, NEW at, Laid(s, bs, d, at)
    PROVE  \A i \in (d + 1)..Len(bs) : at[i] \in Nat \ {0} /\ i \in 1..Len(bs)
BY DEF Laid, InPlace

\* What stands on a line stays where it is when something is added.
LEMMA HoldsMore ==
    ASSUME NEW s \in Seq(Byte), NEW t, Len(t) \in Nat, NEW u, More(u, s, t),
           NEW f, Len(f) \in Nat, NEW p \in Nat \ {0}, Holds(s, p, f)
    PROVE  Holds(u, p, f)
<1> DEFINE n == Len(s)
           l == Len(f)
<1>1. n \in Nat /\ l \in Nat /\ Len(u) = n + Len(t)
  BY DEF More
<1>2. p + l - 1 <= n /\ \A j \in 1..l : s[p + j - 1] = f[j]
  BY DEF Holds
<1>3. \A j \in 1..l : p + j - 1 \in 1..n
  BY <1>1, <1>2
<1>4. \A j \in 1..l : u[p + j - 1] = f[j]
  BY <1>2, <1>3 DEF More
<1>5. p + l - 1 <= Len(u)
  BY <1>1, <1>2
<1>6. QED
  BY <1>4, <1>5 DEF Holds

\* Hiss on the line is no start of a frame.
LEMMA LaidHiss ==
    ASSUME NEW z \in Hiss, NEW s \in Seq(Byte), NEW u, More(u, s, z),
           NEW bs \in Seq(Bodies), NEW d \in Nat, NEW at, Laid(s, bs, d, at)
    PROVE  Laid(u, bs, d, at)
<1> DEFINE D == (d + 1)..Len(bs)
           n == Len(s)
<1>1. n \in Nat /\ Len(z) \in Nat /\ Len(u) = n + Len(z)
  BY NoiseAssumption DEF More
<1>2. \A i \in D : at[i] \in Nat \ {0} /\ i \in 1..Len(bs)
  BY Places
<1>3. ASSUME NEW i \in D
      PROVE  Holds(u, at[i], Frame[bs[i]])
  <2>1. at[i] \in Nat \ {0} /\ Len(Frame[bs[i]]) \in Nat /\ Holds(s, at[i], Frame[bs[i]])
    BY <1>2, <1>3, FrameSize DEF Laid, InPlace
  <2>2. QED
    BY <1>1, <2>1, HoldsMore
<1>4. ASSUME NEW p \in 1..(Len(u) - 1), u[p] = 202, u[p + 1] = 254
      PROVE  \E i \in D : at[i] <= p /\ p < After(at[i], bs[i])
  <2>1. CASE p + 1 <= n
    <3>1. p \in 1..n /\ p + 1 \in 1..n /\ p \in 1..(n - 1)
      BY <1>1, <2>1
    <3>2. s[p] = 202 /\ s[p + 1] = 254
      BY <1>4, <3>1 DEF More
    <3>3. QED
      BY <3>1, <3>2 DEF Laid, NoneBetween
  <2>2. CASE p >= n
    <3> DEFINE i == p + 1 - n
    <3>1. i \in 1..Len(z) /\ p + 1 = n + i
      BY <1>1, <2>2
    <3>2. z[i] = 254
      BY <1>4, <3>1 DEF More
    <3>3. i > 1 /\ z[i - 1] # 202
      BY <3>1, <3>2, HissAssumption
    <3>4. i - 1 \in 1..Len(z) /\ p = n + (i - 1)
      BY <1>1, <3>1, <3>3
    <3>5. u[p] = z[i - 1]
      BY <3>4 DEF More
    <3>6. QED
      BY <1>4, <3>3, <3>5
  <2>3. QED
    BY <1>1, <2>1, <2>2
<1>5. QED
  BY <1>3, <1>4 DEF Laid, InPlace, InOrder, NoneBetween

\* A frame sent is one more on the line.
LEMMA LaidFrame ==
    ASSUME NEW b \in Bodies, NEW s \in Seq(Byte), NEW u, More(u, s, Frame[b]),
           NEW bs \in Seq(Bodies), NEW d \in 0..Len(bs), NEW at, Laid(s, bs, d, at)
    PROVE  \E w : Laid(u, Append(bs, b), d, w)
<1> DEFINE m  == Len(bs)
           D  == (d + 1)..m
           n  == Len(s)
           f  == Frame[b]
           l  == Len(f)
           cs == Append(bs, b)
           w  == [i \in (d + 1)..(m + 1) |-> IF i = m + 1 THEN n + 1 ELSE at[i]]
<1>1. /\ n \in Nat /\ l \in Nat /\ l >= 8 /\ m \in Nat /\ d \in Nat
      /\ f[1] = 202 /\ Len(u) = n + l
  <2>1. Len(f) = Len(b) + 8 /\ Len(b) \in Nat /\ f[1] = 202
    BY FrameSpan
  <2> HIDE DEF f
  <2>2. Len(u) = n + l /\ n \in Nat /\ m \in Nat /\ d \in Nat
    BY DEF More, f
  <2>3. QED
    BY <2>1, <2>2
<1>2. /\ cs \in Seq(Bodies) /\ Len(cs) = m + 1 /\ cs[m + 1] = b
      /\ \A i \in 1..m : cs[i] = bs[i]
  OBVIOUS
<1>3. \A i \in D : at[i] \in Nat \ {0} /\ i \in 1..m
  BY <1>1 DEF Laid, InPlace
<1>4. /\ w[m + 1] = n + 1 /\ \A i \in D : w[i] = at[i] /\ cs[i] = bs[i]
      /\ (d + 1)..(m + 1) = D \cup {m + 1} /\ m + 1 \notin D
  BY <1>1, <1>2, <1>3
<1>5. w \in [(d + 1)..(m + 1) -> Nat \ {0}]
  BY <1>1, <1>3, <1>4
<1> HIDE DEF w, cs, f
<1>6. \A i \in D : at[i] + Len(Frame[bs[i]]) - 1 <= n /\ Len(Frame[bs[i]]) \in Nat
  BY <1>3, FrameSize DEF Laid, InPlace, Holds
<1>7. ASSUME NEW i \in (d + 1)..(m + 1)
      PROVE  Holds(u, w[i], Frame[cs[i]])
  <2>1. CASE i \in D
    <3>1. at[i] \in Nat \ {0} /\ Holds(s, at[i], Frame[bs[i]])
      BY <1>3, <2>1 DEF Laid, InPlace
    <3>2. Holds(u, at[i], Frame[bs[i]])
      <4>1. More(u, s, f) /\ Len(f) \in Nat /\ Len(Frame[bs[i]]) \in Nat
        BY <1>1, <1>6, <2>1 DEF f
      <4>2. QED
        BY <3>1, <4>1, HoldsMore
    <3>3. QED
      BY <1>4, <2>1, <3>2
  <2>2. CASE i = m + 1
    <3>1. \A j \in 1..l : u[n + j] = f[j]
      BY DEF More, f
    <3>2. \A j \in 1..l : n + j = (n + 1) + j - 1
      BY <1>1
    <3>3. (n + 1) + l - 1 <= Len(u)
      BY <1>1
    <3>4. Holds(u, n + 1, f)
      BY <3>1, <3>2, <3>3 DEF Holds
    <3>5. QED
      BY <1>2, <1>4, <2>2, <3>4 DEF f
  <2>3. QED
    BY <1>4, <2>1, <2>2
<1>8. ASSUME NEW i \in (d + 1)..(m + 1), NEW j \in (d + 1)..(m + 1), i < j
      PROVE  After(w[i], cs[i]) <= w[j]
  <2>1. i \in D
    BY <1>1, <1>8
  <2>2. CASE j \in D
    BY <1>4, <1>8, <2>1, <2>2 DEF Laid, InOrder
  <2>3. CASE j = m + 1
    <3> DEFINE k == Len(Frame[bs[i]])
               a == at[i]
    <3>1. a \in Nat /\ k \in Nat /\ a + k - 1 <= n
      BY <1>3, <1>6, <2>1
    <3>2. w[j] = n + 1
      <4>1. w[m + 1] = n + 1
        BY <1>4
      <4> HIDE DEF m, n
      <4>2. QED
        BY <2>3, <4>1
    <3>3. w[i] = a /\ cs[i] = bs[i]
      BY <1>4, <2>1
    <3> HIDE DEF a, k, n
    <3>4. a + k <= n + 1
      BY <1>1, <3>1
    <3>5. QED
      BY <3>2, <3>3, <3>4 DEF After, k
  <2>4. QED
    BY <1>4, <2>2, <2>3
<1>9. ASSUME NEW p \in 1..(Len(u) - 1), u[p] = 202, u[p + 1] = 254
      PROVE  \E i \in (d + 1)..(m + 1) : w[i] <= p /\ p < After(w[i], cs[i])
  <2>1. CASE p + 1 <= n
    <3>1. p \in 1..n /\ p + 1 \in 1..n /\ p \in 1..(n - 1)
      BY <1>1, <2>1
    <3>2. u[p] = s[p] /\ u[p + 1] = s[p + 1]
      BY <3>1 DEF More
    <3>3. s[p] = 202 /\ s[p + 1] = 254
      BY <1>9, <3>2
    <3>4. PICK i \in D : at[i] <= p /\ p < After(at[i], bs[i])
      BY <3>1, <3>3 DEF Laid, NoneBetween
    <3>5. QED
      BY <1>4, <3>4
  <2>2. CASE p = n
    <3>1. \A j \in 1..l : u[n + j] = f[j]
      BY DEF More, f
    <3>2. 1 \in 1..l
      BY <1>1
    <3>3. u[n + 1] = f[1]
      BY <3>1, <3>2
    <3>4. QED
      BY <1>1, <1>9, <2>2, <3>3
  <2>3. CASE p > n
    <3>1. n + 1 <= p /\ p < (n + 1) + l
      BY <1>1, <2>3
    <3>2. After(w[m + 1], cs[m + 1]) = (n + 1) + l
      BY <1>2, <1>4 DEF After, f
    <3>3. QED
      BY <1>4, <3>1, <3>2
  <2>4. QED
    BY <1>1, <2>1, <2>2, <2>3
<1>10. Laid(u, cs, d, w)
  BY <1>2, <1>5, <1>7, <1>8, <1>9 DEF Laid, InPlace, InOrder, NoneBetween
<1>11. QED
  BY <1>10 DEF cs

\* The frames up to that of message e are among the first k bytes, and the others
\* behind those.
Parted(bs, d, at, k, e) ==
    /\ \A i \in (e + 1)..Len(bs) : at[i] > k
    /\ \A i \in (d + 1)..Len(bs) : i <= e => After(at[i], bs[i]) <= k + 1

\* What follows the first k bytes stands k places earlier without them.
LEMMA LaidRest ==
    ASSUME NEW s \in Seq(Byte), NEW bs \in Seq(Bodies), NEW d \in Nat, NEW at,
           Laid(s, bs, d, at), NEW k \in Nat, NEW u, Rest(u, s, k), NEW e \in Nat, d <= e,
           Parted(bs, d, at, k, e)
    PROVE  \E w : Laid(u, bs, e, w)
<1> DEFINE m == Len(bs)
           D == (d + 1)..m
           E == (e + 1)..m
           n == Len(s)
           w == [i \in E |-> at[i] - k]
<1>1. n \in Nat /\ m \in Nat /\ Len(u) = n - k /\ Len(u) \in Nat
  BY DEF Rest
<1>2. \A i \in D : at[i] \in Nat \ {0} /\ i \in 1..m
  BY Places
<1>3. \A i \in E : i \in D /\ at[i] > k
  BY <1>1 DEF Parted
<1>4. w \in [E -> Nat \ {0}] /\ \A i \in E : w[i] = at[i] - k
  BY <1>2, <1>3
<1> HIDE DEF w, E
<1>5. ASSUME NEW i \in E
      PROVE  Holds(u, w[i], Frame[bs[i]])
  <2> DEFINE f == Frame[bs[i]]
             l == Len(f)
  <2>1. i \in D /\ i \in 1..m /\ at[i] \in Nat /\ at[i] > k /\ w[i] = at[i] - k
    BY <1>2, <1>3, <1>4, <1>5
  <2>2. at[i] + l - 1 <= n /\ \A j \in 1..l : s[at[i] + j - 1] = f[j]
    BY <1>3, <1>5 DEF Laid, InPlace, Holds
  <2>3. l \in Nat
    BY <2>1, FrameSize
  <2> DEFINE a == at[i]
             q == w[i]
             r == Len(u)
  <2>4. a \in Nat /\ a > k /\ a + l - 1 <= n /\ q = a - k /\ r = n - k
    BY <1>1, <2>1, <2>2
  <2> HIDE DEF a, q, r, l, n
  <2>5. q + l - 1 <= r
    BY <1>1, <2>3, <2>4
  <2>6. ASSUME NEW j \in 1..l
        PROVE  u[q + j - 1] = f[j]
    <3>1. q + j - 1 \in 1..r /\ (q + j - 1) + k = a + j - 1
      BY <1>1, <2>3, <2>4
    <3>2. u[q + j - 1] = s[(q + j - 1) + k]
      BY <3>1 DEF Rest, r
    <3>3. s[a + j - 1] = f[j]
      BY <2>2 DEF a
    <3>4. QED
      BY <3>1, <3>2, <3>3
  <2>7. QED
    BY <2>5, <2>6 DEF Holds, l, q, r
<1>6. ASSUME NEW i \in E, NEW j \in E, i < j
      PROVE  After(w[i], bs[i]) <= w[j]
  <2> DEFINE l == Len(Frame[bs[i]])
  <2>1. /\ l \in Nat /\ at[i] \in Nat /\ at[j] \in Nat
        /\ w[i] = at[i] - k /\ w[j] = at[j] - k
    BY <1>2, <1>3, <1>4, <1>6, FrameSize
  <2>2. at[i] + l <= at[j]
    BY <1>3, <1>6 DEF Laid, InOrder, After
  <2> HIDE DEF l
  <2>3. w[i] + l <= w[j]
    BY <2>1, <2>2
  <2>4. QED
    BY <2>3 DEF After, l
<1>7. ASSUME NEW p \in 1..(Len(u) - 1), u[p] = 202, u[p + 1] = 254
      PROVE  \E i \in E : w[i] <= p /\ p < After(w[i], bs[i])
  <2>1. p \in 1..Len(u) /\ p + 1 \in 1..Len(u) /\ p + k \in 1..(n - 1)
    BY <1>1
  <2>2. u[p] = s[p + k] /\ u[p + 1] = s[(p + 1) + k] /\ (p + 1) + k = (p + k) + 1
    BY <2>1 DEF Rest
  <2>3. PICK i \in D : at[i] <= p + k /\ p + k < After(at[i], bs[i])
    <3>1. s[p + k] = 202 /\ s[(p + k) + 1] = 254
      BY <1>7, <2>2
    <3> DEFINE q == p + k
    <3>2. q \in 1..(n - 1)
      BY <2>1
    <3>3. s[q] = 202 /\ s[q + 1] = 254
      BY <3>1
    <3> HIDE DEF q
    <3>4. \E i \in D : at[i] <= q /\ q < After(at[i], bs[i])
      BY <3>2, <3>3 DEF Laid, NoneBetween
    <3>5. QED
      BY <3>4 DEF q
  <2> DEFINE a == at[i]
             l == Len(Frame[bs[i]])
  <2>4. p \in Nat /\ p >= 1
    OBVIOUS
  <2>5. l \in Nat /\ a \in Nat
    BY <1>2, FrameSize
  <2>6. a <= p + k /\ p + k < a + l
    BY <2>3 DEF After
  <2>7. i <= e => a + l <= k + 1
    BY DEF Parted, After
  <2> HIDE DEF a, l
  <2>8. ~(i <= e)
    BY <2>4, <2>5, <2>6, <2>7
  <2>9. i \in E
    BY <1>1, <2>8 DEF E
  <2>10. w[i] = a - k
    BY <1>4, <2>9 DEF a
  <2>11. a - k <= p /\ p < (a - k) + l
    BY <2>4, <2>5, <2>6
  <2>12. w[i] <= p /\ p < w[i] + l
    BY <2>10, <2>11
  <2>13. QED
    BY <2>9, <2>12 DEF After, l
<1>8. Laid(u, bs, e, w)
  BY <1>4, <1>5, <1>6, <1>7 DEF Laid, InPlace, InOrder, NoneBetween, E
<1>9. QED
  BY <1>8

\* A header at the front of a line is that of the next frame.
LEMMA FirstStarts ==
    ASSUME NEW s \in Seq(Byte), NEW bs \in Seq(Bodies), NEW d \in Nat, NEW at,
           Laid(s, bs, d, at), Len(s) >= 2, s[1] = 202, s[2] = 254
    PROVE  d < Len(bs) /\ at[d + 1] = 1
<1> DEFINE D == (d + 1)..Len(bs)
<1>1. \A i \in D : at[i] \in Nat \ {0} /\ i \in 1..Len(bs)
  BY Places
<1>2. PICK i \in D : at[i] <= 1
  <2>1. 1 \in 1..(Len(s) - 1) /\ s[1 + 1] = 254
    OBVIOUS
  <2>2. QED
    BY <2>1 DEF Laid, NoneBetween
<1>3. at[i] = 1 /\ d < Len(bs) /\ d + 1 \in D
  BY <1>1, <1>2
<1>4. i = d + 1
  <2> SUFFICES ASSUME d + 1 < i
               PROVE  FALSE
    BY <1>1
  <2> DEFINE l == Len(Frame[bs[d + 1]])
  <2>1. at[d + 1] \in Nat /\ l \in Nat /\ l >= 8
    BY <1>1, <1>3, FrameSize
  <2>2. at[d + 1] + l <= at[i]
    BY <1>3 DEF Laid, InOrder, After
  <2> HIDE DEF l
  <2>3. QED
    BY <1>3, <2>1, <2>2
<1>5. QED
  BY <1>3, <1>4

\* There is no frame on a line too short for one.
LEMMA NoneHeld ==
    ASSUME NEW s \in Seq(Byte), NEW bs \in Seq(Bodies), NEW d \in Nat, NEW at,
           Laid(s, bs, d, at), Len(s) < 8
    PROVE  \A i \in (d + 1)..Len(bs) : FALSE
<1> SUFFICES ASSUME NEW i \in (d + 1)..Len(bs)
             PROVE  FALSE
  OBVIOUS
<1> DEFINE l == Len(Frame[bs[i]])
<1>1. at[i] \in Nat \ {0} /\ i \in 1..Len(bs)
  BY DEF Laid, InPlace
<1>2. l \in Nat /\ l >= 8
  BY <1>1, FrameSize
<1>3. at[i] + l - 1 <= Len(s)
  BY DEF Laid, InPlace, Holds
<1> HIDE DEF l
<1>4. QED
  BY <1>1, <1>2, <1>3

-----------------------------------------------------------------------------
(***************************************************************************)
(* The steps.                                                              *)
(***************************************************************************)

\* The bytes of what is unread.
LEMMA UnreadBytes ==
    ASSUME Buffers
    PROVE  /\ pc = "header" => Unread = line
           /\ pc # "header" =>
                 /\ Unread = header \o line /\ Len(Unread) = 4 + Len(line)
                 /\ \A i \in 1..4 : Unread[i] = header[i]
                 /\ \A i \in 1..Len(line) : Unread[4 + i] = line[i]
           /\ Unread \in Seq(Byte) /\ Len(line) \in Nat
<1>1. line \in Seq(Byte) /\ header \in Seq(Byte)
  BY DEF Buffers
<1> DEFINE u == header \o line
<1>2. /\ u \in Seq(Byte) /\ Len(u) = Len(header) + Len(line)
      /\ \A i \in 1..Len(header) : u[i] = header[i]
      /\ \A i \in 1..Len(line) : u[Len(header) + i] = line[i]
  BY <1>1, Joined
<1>3. Len(header) = 4
  BY DEF Buffers
<1> HIDE DEF u
<1>4. /\ Len(u) = 4 + Len(line)
      /\ \A i \in 1..4 : u[i] = header[i]
      /\ \A i \in 1..Len(line) : u[4 + i] = line[i]
  BY <1>2, <1>3
<1>5. Unread = IF pc = "header" THEN line ELSE u
  BY DEF Unread, u
<1>6. Len(line) \in Nat
  BY <1>1
<1>7. QED
  BY <1>1, <1>2, <1>4, <1>5, <1>6 DEF u

\* What is written is unread.
LEMMA UnreadMore ==
    ASSUME Buffers, NEW t \in Seq(Byte), line' = line \o t, header' = header, pc' = pc
    PROVE  More(Unread', Unread, t) /\ line' \in Seq(Byte)
<1> DEFINE l == line \o t
<1>1. /\ l \in Seq(Byte) /\ Len(l) = Len(line) + Len(t)
      /\ \A i \in 1..Len(line) : l[i] = line[i]
      /\ \A i \in 1..Len(t) : l[Len(line) + i] = t[i]
  <2>1. line \in Seq(Byte)
    BY DEF Buffers
  <2>2. QED
    BY <2>1, Joined
<1> HIDE DEF l
<1>2. CASE pc = "header"
  <2>1. Unread' = l /\ Unread = line
    BY <1>2 DEF Unread, l
  <2>2. QED
    BY <1>1, <2>1 DEF More, l
<1>3. CASE pc # "header"
  <2> DEFINE u == header \o l
  <2>1. /\ u \in Seq(Byte) /\ Len(u) = Len(header) + Len(l)
        /\ \A i \in 1..Len(header) : u[i] = header[i]
        /\ \A i \in 1..Len(l) : u[Len(header) + i] = l[i]
    <3>1. header \in Seq(Byte) /\ l \in Seq(Byte)
      BY <1>1 DEF Buffers
    <3>2. QED
      BY <3>1, Joined
  <2>2. Unread' = u
    BY <1>3 DEF Unread, l
  <2> HIDE DEF u
  <2>3. Len(header) = 4
    BY DEF Buffers
  <2>4. /\ Len(u) = 4 + Len(l)
        /\ \A i \in 1..4 : u[i] = header[i]
        /\ \A i \in 1..Len(l) : u[4 + i] = l[i]
    BY <2>1, <2>3
  <2>5. /\ Len(Unread) = 4 + Len(line) /\ Len(line) \in Nat
        /\ \A i \in 1..4 : Unread[i] = header[i]
        /\ \A i \in 1..Len(line) : Unread[4 + i] = line[i]
    BY <1>3, UnreadBytes
  <2>6. Len(t) \in Nat
    OBVIOUS
  <2>7. Len(u) = Len(Unread) + Len(t)
    BY <1>1, <2>4, <2>5, <2>6
  <2>8. ASSUME NEW i \in 1..Len(Unread)
        PROVE  u[i] = Unread[i]
    <3>1. CASE i \in 1..4
      BY <2>4, <2>5, <3>1
    <3>2. CASE i > 4
      <4> DEFINE j == i - 4
      <4>1. j \in 1..Len(line) /\ j \in 1..Len(l) /\ i = 4 + j
        BY <1>1, <2>5, <2>6, <3>2
      <4> HIDE DEF j
      <4>2. QED
        BY <1>1, <2>4, <2>5, <4>1
    <3>3. QED
      BY <2>5, <3>1, <3>2
  <2>9. ASSUME NEW i \in 1..Len(t)
        PROVE  u[Len(Unread) + i] = t[i]
    <3> DEFINE j == Len(line) + i
    <3>1. j \in 1..Len(l) /\ Len(Unread) + i = 4 + j /\ l[j] = t[i]
      BY <1>1, <2>5, <2>6
    <3> HIDE DEF j
    <3>2. QED
      BY <2>4, <3>1
  <2>10. QED
    BY <1>1, <2>1, <2>2, <2>7, <2>8, <2>9 DEF More, l
<1>4. QED
  BY <1>2, <1>3

\* Hiss between the frames.
LEMMA HissKeeps ==
    ASSUME Whole, MakeHiss
    PROVE  Whole'
<1>1. PICK z \in Hiss : line' = line \o z
  BY DEF MakeHiss
<1>2. header' = header /\ pc' = pc /\ sent' = sent /\ delivered' = delivered
  BY DEF MakeHiss
<1>3. z \in Seq(Byte)
  BY NoiseAssumption
<1>4. More(Unread', Unread, z) /\ line' \in Seq(Byte)
  BY <1>1, <1>2, <1>3, UnreadMore DEF Whole
<1>5. PICK at : Laid(Unread, sent, Len(delivered), at)
  BY DEF Whole, Buffers
<1>6. Unread \in Seq(Byte) /\ sent \in Seq(Bodies) /\ Len(delivered) \in Nat
  BY UnreadBytes DEF Whole, Buffers
<1>7. Laid(Unread', sent, Len(delivered), at)
  BY <1>4, <1>5, <1>6, LaidHiss
<1>8. QED
  BY <1>2, <1>4, <1>7 DEF Whole, Buffers

\* A frame.
LEMMA SendKeeps ==
    ASSUME Whole, SendFrame
    PROVE  Whole'
<1>1. PICK b \in Bodies : line' = line \o Frame[b] /\ sent' = Append(sent, b)
  BY DEF SendFrame
<1>2. header' = header /\ pc' = pc /\ delivered' = delivered
  BY DEF SendFrame
<1>3. Frame[b] \in Seq(Byte)
  BY FrameSpan
<1>4. More(Unread', Unread, Frame[b]) /\ line' \in Seq(Byte)
  BY <1>1, <1>2, <1>3, UnreadMore DEF Whole
<1>5. PICK at : Laid(Unread, sent, Len(delivered), at)
  BY DEF Whole, Buffers
<1>6. /\ Unread \in Seq(Byte) /\ sent \in Seq(Bodies)
      /\ Len(delivered) \in 0..Len(sent)
  BY UnreadBytes DEF Whole, Buffers
<1>7. \E w : Laid(Unread', sent', Len(delivered), w)
  BY <1>1, <1>4, <1>5, <1>6, LaidFrame
<1>8. /\ sent' \in Seq(Bodies) /\ Len(delivered) <= Len(sent')
      /\ \A i \in 1..Len(delivered) : sent'[i] = sent[i]
  BY <1>1, <1>6
<1>9. QED
  BY <1>2, <1>4, <1>7, <1>8 DEF Whole, Buffers

\* Four bytes that are a header are one that was sent, and give its length.
LEMMA HeaderTrue ==
    ASSUME NEW s \in Seq(Byte), NEW bs \in Seq(Bodies), NEW d \in Nat, NEW at,
           Laid(s, bs, d, at), Len(s) >= 4, NEW h, \A i \in 1..4 : h[i] = s[i], IsHeader(h)
    PROVE  /\ d + 1 \in 1..Len(bs) /\ bs[d + 1] \in Bodies /\ at[d + 1] = 1
           /\ \A i \in 1..4 : h[i] = Header(Len(bs[d + 1]))[i]
           /\ MessageLength(h) = Len(bs[d + 1]) /\ ~TooLarge(h)
<1>1. s[1] = 202 /\ s[2] = 254
  BY DEF IsHeader
<1>2. d < Len(bs) /\ at[d + 1] = 1
  BY <1>1, FirstStarts
<1>3. d + 1 \in 1..Len(bs) /\ d + 1 \in (d + 1)..Len(bs) /\ bs[d + 1] \in Bodies
  BY <1>2
<1> DEFINE b == bs[d + 1]
           f == Frame[b]
           g == Header(Len(b))
<1>4. Holds(s, 1, f)
  BY <1>2, <1>3 DEF Laid, InPlace
<1>5. /\ Len(f) = Len(b) + 8 /\ Len(b) \in Nat /\ Len(b) <= MessageSize
      /\ MessageLength(g) = Len(b) /\ \A j \in 1..4 : f[j] = g[j]
  <2>1. b \in Bodies
    BY <1>3
  <2> HIDE DEF b
  <2>2. QED
    BY <2>1, FrameBytes
<1> HIDE DEF b, f, g
<1>6. \A j \in 1..4 : s[j] = f[j]
  <2>1. \A j \in 1..Len(f) : s[1 + j - 1] = f[j]
    BY <1>4 DEF Holds
  <2>2. \A j \in 1..4 : j \in 1..Len(f) /\ 1 + j - 1 = j
    BY <1>5
  <2>3. QED
    BY <2>1, <2>2
<1>7. \A j \in 1..4 : h[j] = g[j]
  BY <1>5, <1>6
<1>8. MessageLength(h) = Len(b)
  BY <1>5, <1>7 DEF MessageLength
<1>9. ~TooLarge(h)
  BY <1>5, <1>8, SizeAssumption DEF TooLarge, UInt16
<1>10. QED
  BY <1>2, <1>3, <1>7, <1>8, <1>9 DEF b, g

\* What a read of the header gives Examine.
FourBytes(h) == h \in Seq(Byte) /\ Len(h) = 4

\* The bytes of a header are examined: they and the rest stay unread, for a header
\* on the line is true and so is never too large.
LEMMA ExamineKeeps ==
    ASSUME Whole, NEW h, FourBytes(h), Examine(h), line' \in Seq(Byte),
           sent' = sent, delivered' = delivered,
           NEW s \in Seq(Byte), NEW at, Laid(s, sent, Len(delivered), at), NEW k \in Nat,
           Rest(h \o line', s, k), \A i \in (Len(delivered) + 1)..Len(sent) : at[i] > k
    PROVE  Whole'
<1> DEFINE u == h \o line'
           d == Len(delivered)
<1>1. sent \in Seq(Bodies) /\ d \in Nat /\ d <= Len(sent)
  BY DEF Whole, Buffers
<1>2. PICK w : Laid(u, sent, d, w)
  <2>1. Rest(u, s, k) /\ Laid(s, sent, d, at)
    OBVIOUS
  <2>2. Parted(sent, d, at, k, d)
    BY <1>1 DEF Parted
  <2>3. d <= d
    BY <1>1
  <2> HIDE DEF u, d
  <2>4. QED
    BY <1>1, <2>1, <2>2, <2>3, LaidRest
<1>3. /\ u \in Seq(Byte) /\ Len(u) = Len(h) + Len(line')
      /\ \A i \in 1..Len(h) : u[i] = h[i]
  <2>1. h \in Seq(Byte)
    BY DEF FourBytes
  <2>2. QED
    BY <2>1, Joined
<1> HIDE DEF u
<1>4. Len(u) >= 4 /\ \A i \in 1..4 : h[i] = u[i]
  <2>1. Len(line') \in Nat
    OBVIOUS
  <2>2. QED
    BY <1>3, <2>1 DEF FourBytes
<1>5. IsHeader(h) => ~TooLarge(h)
  BY <1>1, <1>2, <1>3, <1>4, HeaderTrue
<1>6. header' = h /\ pc' = IF ~IsHeader(h) THEN "scan" ELSE "body"
  BY <1>5 DEF Examine
<1>7. Unread' = u
  BY <1>6 DEF Unread, u
<1>8. \E v : Laid(Unread', sent', Len(delivered'), v)
  BY <1>2, <1>7
<1>9. QED
  BY <1>6, <1>8 DEF Whole, Buffers, FourBytes

\* Four bytes and what follows them, behind the first k.
LEMMA FourAndRest ==
    ASSUME NEW s \in Seq(Byte), NEW k \in Nat, NEW h, FourBytes(h), NEW r, Rest(r, s, k + 4),
           k + 4 <= Len(s), \A i \in 1..4 : h[i] = s[i + k]
    PROVE  Rest(h \o r, s, k)
<1> DEFINE n == Len(s)
           u == h \o r
<1>1. n \in Nat
  OBVIOUS
<1>2. r \in Seq(Byte) /\ Len(r) = n - (k + 4) /\ \A i \in 1..Len(r) : r[i] = s[i + (k + 4)]
  BY DEF Rest
<1>3. /\ u \in Seq(Byte) /\ Len(u) = Len(h) + Len(r)
      /\ \A i \in 1..Len(h) : u[i] = h[i]
      /\ \A i \in 1..Len(r) : u[Len(h) + i] = r[i]
  <2>1. h \in Seq(Byte) /\ r \in Seq(Byte)
    BY <1>2 DEF FourBytes
  <2>2. QED
    BY <2>1, Joined
<1> HIDE DEF u
<1>4. /\ Len(u) = n - k
      /\ \A i \in 1..4 : u[i] = h[i]
      /\ \A i \in 1..Len(r) : u[4 + i] = r[i]
  <2>1. Len(h) = 4
    BY DEF FourBytes
  <2>2. QED
    BY <1>1, <1>2, <1>3, <2>1
<1>5. ASSUME NEW i \in 1..Len(u)
      PROVE  u[i] = s[i + k]
  <2>1. CASE i \in 1..4
    BY <1>4, <2>1
  <2>2. CASE i > 4
    <3> DEFINE j == i - 4
    <3>1. j \in 1..Len(r) /\ i = 4 + j /\ j + (k + 4) = i + k
      BY <1>1, <1>2, <1>4, <2>2
    <3> HIDE DEF j
    <3>2. u[4 + j] = r[j]
      BY <1>4, <3>1
    <3>3. r[j] = s[j + (k + 4)]
      BY <1>2, <3>1
    <3>4. QED
      BY <3>1, <3>2, <3>3
  <2>3. QED
    BY <1>1, <1>4, <2>1, <2>2
<1>6. Rest(u, s, k)
  BY <1>1, <1>3, <1>4, <1>5 DEF Rest
<1>7. QED
  BY <1>6 DEF u

\* A read leaves four bytes h to be examined, which stand before the rest of the
\* line where k bytes of what was unread are gone.
Moves(k) ==
    \E h : /\ FourBytes(h) /\ Examine(h)
           /\ line' \in Seq(Byte) /\ Rest(h \o line', Unread, k)

\* A read of four bytes loses none.
LEMMA HeaderMoves ==
    ASSUME Buffers, ReadHeader
    PROVE  Moves(0)
<1> DEFINE n == Len(line)
           h == SubSeq(line, 1, 4)
<1>1. line \in Seq(Byte) /\ n \in Nat
  BY DEF Buffers
<1>2. pc = "header" /\ n >= 4
  BY <1>1 DEF ReadHeader, Starved, Wanted, HEADER_SIZE
<1>3. Examine(h) /\ line' = SubSeq(line, 5, n)
  BY DEF ReadHeader
<1>4. h \in Seq(Byte) /\ Len(h) = 4 /\ \A i \in 1..4 : h[i] = line[i + 0]
  BY <1>1, <1>2
<1>5. Rest(line', line, 0 + 4)
  BY <1>1, <1>2, <1>3, RestOf
<1> HIDE DEF h
<1>6. FourBytes(h)
  BY <1>4 DEF FourBytes
<1>7. Rest(h \o line', line, 0)
  <2>1. 0 + 4 <= Len(line) /\ \A i \in 1..4 : h[i] = line[i + 0]
    BY <1>2, <1>4
  <2>2. QED
    BY <1>1, <1>5, <1>6, <2>1, FourAndRest
<1>8. line' \in Seq(Byte) /\ Unread = line
  BY <1>2, <1>5 DEF Rest, Unread
<1>9. QED
  BY <1>3, <1>6, <1>7, <1>8 DEF Moves

\* A read of one more byte loses the first of the four before.
LEMMA ScanMoves ==
    ASSUME Buffers, Scan
    PROVE  Moves(1)
<1> DEFINE n == Len(line)
           b == Head(line)
           h == Shifted(header, b)
           s == Unread
<1>1. line \in Seq(Byte) /\ n \in Nat
  BY DEF Buffers
<1>2. pc = "scan" /\ n >= 1
  BY <1>1 DEF Scan, Starved, Wanted
<1>3. Examine(h) /\ line' = Tail(line)
  BY DEF Scan
<1>4. /\ s \in Seq(Byte) /\ Len(s) = 4 + n
      /\ \A i \in 1..4 : s[i] = header[i]
      /\ \A i \in 1..n : s[4 + i] = line[i]
  BY <1>2, UnreadBytes
<1> HIDE DEF s
<1>5. b = line[1] /\ line' \in Seq(Byte) /\ Len(line') = n - 1
      /\ \A i \in 1..(n - 1) : line'[i] = line[i + 1]
  BY <1>1, <1>2, <1>3
<1>6. FourBytes(h) /\ \A i \in 1..4 : h[i] = s[i + 1]
  <2>1. \A i \in 1..Len(header) : header[i] \in Byte
    <3>1. header \in Seq(Byte)
      BY DEF Buffers
    <3>2. QED
      BY <3>1
  <2>2. header[2] \in Byte /\ header[3] \in Byte /\ header[4] \in Byte /\ b \in Byte
    <3>1. Len(header) = 4
      BY DEF Buffers
    <3>2. b \in Byte
      BY <1>1, <1>2, <1>5
    <3>3. QED
      BY <2>1, <3>1, <3>2
  <2>3. s[1 + 1] = header[2] /\ s[2 + 1] = header[3] /\ s[3 + 1] = header[4]
    BY <1>4
  <2>4. s[4 + 1] = b
    BY <1>2, <1>4, <1>5
  <2>5. FourBytes(h)
    BY <2>2 DEF FourBytes, Shifted
  <2>6. h[1] = header[2] /\ h[2] = header[3] /\ h[3] = header[4] /\ h[4] = b
    BY DEF Shifted
  <2>7. QED
    BY <2>3, <2>4, <2>5, <2>6
<1> HIDE DEF h, b
<1>7. Rest(line', s, 1 + 4)
  <2>1. Len(line') = Len(s) - 5
    BY <1>1, <1>4, <1>5
  <2>2. ASSUME NEW i \in 1..(n - 1)
        PROVE  line'[i] = s[i + 5]
    <3>1. i + 1 \in 1..n /\ 4 + (i + 1) = i + 5
      BY <1>1
    <3>2. QED
      BY <1>4, <1>5, <3>1
  <2>3. QED
    BY <1>5, <2>1, <2>2 DEF Rest
<1>8. Rest(h \o line', s, 1)
  <2>1. s \in Seq(Byte) /\ 1 + 4 <= Len(s)
    BY <1>1, <1>2, <1>4
  <2>2. QED
    BY <1>6, <1>7, <2>1, FourAndRest
<1>9. QED
  BY <1>3, <1>5, <1>6, <1>8 DEF Moves, s

\* A read of the header: the next frame, if it begins here, is not lost.
LEMMA HeaderKeeps ==
    ASSUME Whole, ReadHeader
    PROVE  Whole'
<1>1. pc = "header" /\ sent' = sent /\ delivered' = delivered
  BY DEF ReadHeader
<1>2. line \in Seq(Byte) /\ Unread = line
  BY <1>1 DEF Whole, Buffers, Unread
<1>3. PICK h : /\ FourBytes(h) /\ Examine(h)
               /\ line' \in Seq(Byte) /\ Rest(h \o line', line, 0)
  BY <1>2, HeaderMoves DEF Moves, Whole
<1>4. PICK at : Laid(line, sent, Len(delivered), at)
  BY <1>2 DEF Whole
<1>5. \A i \in (Len(delivered) + 1)..Len(sent) : at[i] > 0
  BY <1>4 DEF Laid, InPlace
<1>6. QED
  BY <1>1, <1>2, <1>3, <1>4, <1>5, ExamineKeeps

\* A read of one more byte: the four were no header, so the next frame does not
\* begin with the first of them.
LEMMA ScanKeeps ==
    ASSUME Whole, Scan
    PROVE  Whole'
<1> DEFINE s == Unread
           D == (Len(delivered) + 1)..Len(sent)
<1>1. pc = "scan" /\ sent' = sent /\ delivered' = delivered
  BY DEF Scan
<1>2. s \in Seq(Byte) /\ \A i \in 1..4 : s[i] = header[i]
  BY <1>1, UnreadBytes DEF Whole
<1> HIDE DEF s
<1>3. PICK h : /\ FourBytes(h) /\ Examine(h)
               /\ line' \in Seq(Byte) /\ Rest(h \o line', s, 1)
  BY ScanMoves DEF Moves, Whole, s
<1>4. PICK at : Laid(s, sent, Len(delivered), at)
  BY DEF Whole, Buffers, s
<1>5. ASSUME NEW i \in D
       PROVE  at[i] > 1
  <2>1. at[i] \in Nat \ {0} /\ Holds(s, at[i], Frame[sent[i]])
    BY <1>4 DEF Laid, InPlace
  <2>2. sent[i] \in Bodies
    BY DEF Whole, Buffers
  <2>3. /\ Len(Frame[sent[i]]) >= 2 /\ Len(Frame[sent[i]]) \in Nat
        /\ Frame[sent[i]][1] = 202 /\ Frame[sent[i]][2] = 254
    <3>1. /\ Len(Frame[sent[i]]) = Len(sent[i]) + 8 /\ Len(sent[i]) \in Nat
          /\ Frame[sent[i]][1] = 202 /\ Frame[sent[i]][2] = 254
      BY <2>2, FrameSpan
    <3>2. QED
      BY <3>1
  <2>4. at[i] # 1
    <3> SUFFICES ASSUME at[i] = 1
                 PROVE  FALSE
      OBVIOUS
    <3>1. \A j \in 1..Len(Frame[sent[i]]) : s[1 + j - 1] = Frame[sent[i]][j]
      BY <2>1 DEF Holds
    <3>2. s[1] = 202 /\ s[2] = 254
      <4>1. /\ 1 \in 1..Len(Frame[sent[i]]) /\ 1 + 1 - 1 = 1
            /\ 2 \in 1..Len(Frame[sent[i]]) /\ 1 + 2 - 1 = 2
        BY <2>3
      <4>2. QED
        BY <2>3, <3>1, <4>1
    <3>3. IsHeader(header)
      BY <1>2, <3>2 DEF IsHeader
    <3>4. QED
      BY <1>1, <3>3 DEF Whole
  <2>5. QED
    BY <2>1, <2>4
<1>6. QED
  BY <1>1, <1>2, <1>3, <1>4, <1>5, ExamineKeeps

\* While a body is read, a frame that stands first in what is unread: the header
\* in the buffer is its header, and its body and footer stand on the line.
LEMMA FrameThere ==
    ASSUME Buffers, pc = "body", NEW b \in Bodies, Holds(Unread, 1, Frame[b])
    PROVE  LET f == Footer(header \o b)
           IN  /\ b \in Seq(Byte) /\ Len(b) \in Nat /\ MessageLength(header) = Len(b)
               /\ Len(line) \in Nat /\ Len(line) >= Len(b) + 4
               /\ \A j \in 1..Len(b) : line[j] = b[j]
               /\ f \in Seq(Byte) /\ Len(f) = 4
               /\ \A j \in 1..4 : line[Len(b) + j] = f[j]
<1> DEFINE n == Len(b)
           g == Header(n)
           f == Footer(g \o b)
           s == Unread
           r == Frame[b]
<1>1. /\ Len(line) \in Nat /\ Len(s) = 4 + Len(line)
      /\ \A i \in 1..4 : s[i] = header[i]
      /\ \A i \in 1..Len(line) : s[4 + i] = line[i]
  BY UnreadBytes
<1> HIDE DEF s
<1>2. /\ Len(r) = n + 8 /\ b \in Seq(Byte) /\ n \in Nat
      /\ g \in Seq(Byte) /\ Len(g) = 4 /\ MessageLength(g) = n
      /\ \A j \in 1..4 : r[j] = g[j]
      /\ \A j \in 1..n : r[4 + j] = b[j]
      /\ f \in Seq(Byte) /\ Len(f) = 4
      /\ \A j \in 1..4 : r[4 + n + j] = f[j]
  BY FrameBytes
<1> HIDE DEF n, g, f, r
<1>3. Len(r) <= Len(s) /\ \A j \in 1..Len(r) : s[j] = r[j]
  <2>1. 1 + Len(r) - 1 <= Len(s) /\ \A j \in 1..Len(r) : s[1 + j - 1] = r[j]
    BY DEF Holds, s, r
  <2>2. \A j \in 1..Len(r) : 1 + j - 1 = j
    BY <1>2
  <2>3. QED
    BY <1>2, <2>1, <2>2
<1>4. header = g
  <2>1. header \in Seq(Byte) /\ Len(header) = 4
    BY DEF Buffers
  <2>2. \A i \in 1..4 : i \in 1..Len(r)
    BY <1>2
  <2>3. \A i \in 1..4 : header[i] = g[i]
    BY <1>1, <1>2, <1>3, <2>2
  <2>4. Len(header) = Len(g) /\ \A i \in 1..Len(header) : header[i] = g[i]
    BY <1>2, <2>1, <2>3
  <2>5. g \in Seq(Byte)
    BY <1>2
  <2>6. QED
    BY <2>1, <2>4, <2>5
<1>5. Len(line) >= n + 4 /\ Len(line) \in Nat /\ n \in Nat /\ Len(r) = n + 8
  BY <1>1, <1>2, <1>3
<1>6. ASSUME NEW j \in 1..(n + 4)
      PROVE  line[j] = r[4 + j]
  <2>1. j \in 1..Len(line) /\ 4 + j \in 1..Len(r)
    BY <1>5
  <2>2. s[4 + j] = line[j]
    BY <1>1, <2>1
  <2>3. s[4 + j] = r[4 + j]
    BY <1>3, <2>1
  <2>4. QED
    BY <2>2, <2>3
<1>7. \A j \in 1..n : line[j] = b[j]
  BY <1>2, <1>6
<1>8. ASSUME NEW j \in 1..4
      PROVE  line[n + j] = f[j]
  <2>1. n + j \in 1..(n + 4) /\ 4 + (n + j) = 4 + n + j
    BY <1>2
  <2>2. QED
    BY <1>2, <1>6, <2>1
<1>9. f = Footer(header \o b) /\ MessageLength(header) = n
  BY <1>2, <1>4 DEF f
<1>10. QED
  BY <1>2, <1>5, <1>7, <1>8, <1>9 DEF n

\* It is sound, and its body is returned.
LEMMA FrameReturned ==
    ASSUME Buffers, ReadBody, NEW b \in Bodies, Holds(Unread, 1, Frame[b])
    PROVE  delivered' = Append(delivered, b)
<1> DEFINE n == Len(b)
           f == Footer(header \o b)
           w == MessageLength(header) + FOOTER_SIZE
           rest == SubSeq(line, 1, w)
           body == SubSeq(rest, 1, MessageLength(header))
<1>1. pc = "body" /\ Wanted = w
  BY DEF ReadBody, Wanted
<1>2. delivered' = IF Sound(header, rest) THEN Append(delivered, body) ELSE delivered
  BY <1>1 DEF ReadBody
<1>3. /\ b \in Seq(Byte) /\ n \in Nat
      /\ MessageLength(header) = n /\ Len(line) \in Nat /\ Len(line) >= n + 4
      /\ \A j \in 1..n : line[j] = b[j]
      /\ f \in Seq(Byte) /\ Len(f) = 4 /\ \A j \in 1..4 : line[n + j] = f[j]
  BY <1>1, FrameThere
<1>4. line \in Seq(Byte)
  BY DEF Buffers
<1>5. w = n + 4 /\ w \in Nat /\ w <= Len(line)
  BY <1>3 DEF FOOTER_SIZE
<1> HIDE DEF w
<1>6. rest \in Seq(Byte) /\ Len(rest) = w /\ \A j \in 1..w : rest[j] = line[j]
  BY <1>4, <1>5
<1> HIDE DEF f, rest
<1>7. SubSeq(rest, 1, n) = b
  <2> DEFINE c == SubSeq(rest, 1, n)
  <2>1. c \in Seq(Byte) /\ Len(c) = n /\ \A j \in 1..n : c[j] = rest[j]
    BY <1>3, <1>5, <1>6
  <2> HIDE DEF c
  <2>2. \A j \in 1..n : j \in 1..w
    BY <1>3, <1>5
  <2>3. \A j \in 1..n : rest[j] = line[j]
    BY <1>6, <2>2
  <2>4. \A j \in 1..n : line[j] = b[j]
    BY <1>3
  <2>5. \A j \in 1..n : c[j] = b[j]
    BY <2>1, <2>3, <2>4
  <2>6. Len(c) = Len(b) /\ \A j \in 1..Len(c) : c[j] = b[j]
    BY <2>1, <2>5
  <2>7. c \in Seq(Byte) /\ b \in Seq(Byte)
    BY <1>3, <2>1
  <2>8. c = b
    BY <2>6, <2>7
  <2>9. QED
    BY <2>8 DEF c
<1>8. SubSeq(rest, n + 1, n + 4) = f
  <2> DEFINE c == SubSeq(rest, n + 1, w)
  <2>1. c \in Seq(Byte) /\ Len(c) = w - n /\ \A j \in 1..(w - n) : c[j] = rest[n + j]
    BY <1>3, <1>5, <1>6
  <2> HIDE DEF c
  <2>2. w - n = 4
    BY <1>3, <1>5
  <2>3. \A j \in 1..4 : n + j \in 1..w
    BY <1>3, <1>5
  <2>4. ASSUME NEW j \in 1..4
        PROVE  c[j] = f[j]
    <3>1. c[j] = rest[n + j]
      BY <2>1, <2>2
    <3>2. rest[n + j] = line[n + j]
      BY <1>6, <2>3
    <3>3. line[n + j] = f[j]
      BY <1>3
    <3>4. QED
      BY <3>1, <3>2, <3>3
  <2>5. Len(c) = Len(f) /\ \A j \in 1..Len(c) : c[j] = f[j]
    BY <1>3, <2>1, <2>2, <2>4
  <2>6. c \in Seq(Byte) /\ f \in Seq(Byte)
    BY <1>3, <2>1
  <2>7. c = f
    BY <2>5, <2>6
  <2>8. QED
    BY <1>5, <2>7 DEF c
<1>9. Sound(header, rest) /\ body = b
  BY <1>3, <1>7, <1>8 DEF Sound, f
<1>10. QED
  BY <1>2, <1>9

\* When a body is to be read, the one sent is there.
LEMMA BodyThere ==
    ASSUME Whole, pc = "body"
    PROVE  LET b == sent[Len(delivered) + 1]
           IN  /\ Len(delivered) + 1 \in 1..Len(sent) /\ b \in Bodies
               /\ Len(b) \in Nat /\ MessageLength(header) = Len(b)
               /\ Len(line) >= Len(b) + 4 /\ Holds(Unread, 1, Frame[b])
               /\ \A at : Laid(Unread, sent, Len(delivered), at) => at[Len(delivered) + 1] = 1
<1> DEFINE d == Len(delivered)
           b == sent[d + 1]
           s == Unread
<1>1. sent \in Seq(Bodies) /\ d \in Nat /\ IsHeader(header)
  BY DEF Whole
<1>2. /\ s \in Seq(Byte) /\ Len(line) \in Nat /\ Len(s) = 4 + Len(line)
      /\ \A i \in 1..4 : s[i] = header[i]
  BY UnreadBytes DEF Whole
<1> HIDE DEF s
<1>3. Len(s) >= 4 /\ \A i \in 1..4 : header[i] = s[i]
  BY <1>2
<1>4. PICK at : Laid(s, sent, d, at)
  BY DEF Whole, s
<1>5. /\ d + 1 \in 1..Len(sent) /\ b \in Bodies
      /\ \A a : Laid(s, sent, d, a) => a[d + 1] = 1
  <2>1. s \in Seq(Byte) /\ sent \in Seq(Bodies) /\ d \in Nat
    BY <1>1, <1>2
  <2> HIDE DEF d
  <2>2. QED
    BY <1>1, <1>3, <1>4, <2>1, HeaderTrue
<1>6. at[d + 1] = 1
  BY <1>4, <1>5
<1>7. Holds(s, 1, Frame[b])
  <2>1. d + 1 \in (d + 1)..Len(sent)
    BY <1>1, <1>5
  <2>2. QED
    BY <1>4, <1>6, <2>1 DEF Laid, InPlace
<1>8. Len(b) \in Nat /\ MessageLength(header) = Len(b) /\ Len(line) >= Len(b) + 4
  <2>1. b \in Bodies /\ Holds(Unread, 1, Frame[b]) /\ Buffers
    BY <1>5, <1>7 DEF Whole, s
  <2> HIDE DEF b
  <2>2. QED
    BY <2>1, FrameThere
<1>9. QED
  BY <1>5, <1>7, <1>8 DEF s

\* What follows k bytes of the line follows four more of what is unread, if the
\* four are in the buffer.
LEMMA RestUnread ==
    ASSUME Buffers, NEW k \in Nat, NEW u, Rest(u, line, k)
    PROVE  Rest(u, Unread, IF pc = "header" THEN k ELSE k + 4)
<1>1. CASE pc = "header"
  BY <1>1, UnreadBytes
<1>2. CASE pc # "header"
  <2>1. /\ Len(Unread) = 4 + Len(line) /\ Len(line) \in Nat
        /\ \A i \in 1..Len(line) : Unread[4 + i] = line[i]
    BY <1>2, UnreadBytes
  <2>2. /\ u \in Seq(Byte) /\ Len(u) = Len(line) - k /\ Len(u) \in Nat
        /\ \A i \in 1..Len(u) : u[i] = line[i + k]
    BY DEF Rest
  <2>3. Len(u) = Len(Unread) - (k + 4)
    BY <2>1, <2>2
  <2>4. ASSUME NEW i \in 1..Len(u)
        PROVE  u[i] = Unread[i + (k + 4)]
    <3>1. i + k \in 1..Len(line) /\ 4 + (i + k) = i + (k + 4)
      BY <2>1, <2>2
    <3>2. QED
      BY <2>1, <2>2, <3>1
  <2>5. Rest(u, Unread, k + 4)
    BY <2>2, <2>3, <2>4 DEF Rest
  <2>6. QED
    BY <1>2, <2>5
<1>3. QED
  BY <1>1, <1>2

\* A sound body is returned, and it is the one sent.
LEMMA BodyKeeps ==
    ASSUME Whole, ReadBody
    PROVE  Whole'
<1> DEFINE d == Len(delivered)
           b == sent[d + 1]
           n == Len(b)
           w == MessageLength(header) + FOOTER_SIZE
           s == Unread
<1>1. pc = "body" /\ Wanted = w
  BY DEF ReadBody, Wanted
<1>2. /\ line' = SubSeq(line, w + 1, Len(line)) /\ pc' = "header"
      /\ header' = header /\ sent' = sent
  BY <1>1 DEF ReadBody
<1>3. /\ d + 1 \in 1..Len(sent) /\ b \in Bodies /\ n \in Nat
      /\ MessageLength(header) = n /\ Len(line) >= n + 4
      /\ Holds(s, 1, Frame[b])
      /\ \A at : Laid(s, sent, d, at) => at[d + 1] = 1
  BY <1>1, BodyThere
<1>4. line \in Seq(Byte) /\ sent \in Seq(Bodies) /\ delivered \in Seq(Bodies)
  BY DEF Whole, Buffers
<1>5. w = n + 4 /\ w \in Nat /\ w <= Len(line)
  BY <1>3 DEF FOOTER_SIZE
<1> HIDE DEF w, b
<1>6. delivered' = Append(delivered, b)
  <2>1. Buffers /\ b \in Bodies /\ Holds(Unread, 1, Frame[b])
    BY <1>3 DEF Whole
  <2>2. QED
    BY <2>1, FrameReturned
<1>7. /\ delivered' \in Seq(Bodies) /\ Len(delivered') = d + 1 /\ d \in Nat
      /\ \A i \in 1..d : delivered'[i] = delivered[i]
      /\ delivered'[d + 1] = b
  <2>1. delivered \in Seq(Bodies) /\ b \in Bodies
    BY <1>3, <1>4
  <2> HIDE DEF b
  <2>2. QED
    BY <1>6, <2>1, Appended
<1>8. /\ Len(delivered') <= Len(sent)
      /\ \A i \in 1..Len(delivered') : delivered'[i] = sent[i]
  <2>1. \A i \in 1..d : delivered[i] = sent[i]
    BY DEF Whole, Buffers
  <2>2. delivered'[d + 1] = sent[d + 1]
    BY <1>7 DEF b
  <2>3. d + 1 \in 1..Len(sent)
    BY <1>3
  <2>4. d + 1 <= Len(sent)
    BY <2>3
  <2>5. ASSUME NEW i \in 1..(d + 1)
        PROVE  delivered'[i] = sent[i]
    <3>1. i \in 1..d \/ i = d + 1
      BY <1>7
    <3>2. QED
      BY <1>7, <2>1, <2>2, <3>1
  <2>6. QED
    BY <1>7, <2>4, <2>5
<1>9. Rest(line', line, w)
  BY <1>2, <1>4, <1>5, RestOf
<1>10. Unread' = line' /\ line' \in Seq(Byte)
  BY <1>2, <1>9 DEF Unread, Rest
<1>11. Rest(line', s, w + 4)
  BY <1>1, <1>4, <1>5, <1>9, RestUnread DEF Whole
<1>12. \E v : Laid(line', sent, d + 1, v)
  <2>1. PICK at : Laid(s, sent, d, at)
    BY DEF Whole, Buffers
  <2>2. at[d + 1] = 1 /\ s \in Seq(Byte)
    BY <1>3, <2>1, UnreadBytes DEF Whole
  <2> HIDE DEF s
  <2>3. After(at[d + 1], sent[d + 1]) = (w + 4) + 1
    <3>1. Len(Frame[b]) = n + 8
      BY <1>3, FrameSpan
    <3>2. After(1, b) = 1 + (n + 8)
      BY <3>1 DEF After
    <3>3. QED
      BY <1>3, <1>5, <2>2, <3>2 DEF b
  <2>4. ASSUME NEW i \in ((d + 1) + 1)..Len(sent)
        PROVE  at[i] > w + 4
    <3>1. d + 1 \in (d + 1)..Len(sent) /\ i \in (d + 1)..Len(sent) /\ d + 1 < i
      <4>1. d \in Nat /\ d + 1 \in 1..Len(sent)
        BY <1>3, <1>7
      <4> HIDE DEF d
      <4>2. QED
        BY <4>1
    <3>2. After(at[d + 1], sent[d + 1]) <= at[i] /\ at[i] \in Nat
      BY <2>1, <3>1 DEF Laid, InPlace, InOrder
    <3>3. QED
      BY <1>5, <2>3, <3>2
  <2>5. ASSUME NEW i \in (d + 1)..Len(sent), i <= d + 1
        PROVE  After(at[i], sent[i]) <= (w + 4) + 1
    <3>1. i = d + 1
      BY <1>7, <2>5
    <3>2. QED
      BY <1>5, <2>3, <3>1
  <2>6. d + 1 \in Nat /\ d <= d + 1 /\ w + 4 \in Nat
    BY <1>5, <1>7
  <2>7. sent \in Seq(Bodies) /\ d \in Nat
    BY <1>4, <1>7
  <2>8. Parted(sent, d, at, w + 4, d + 1)
    BY <2>4, <2>5 DEF Parted
  <2> HIDE DEF d
  <2>9. QED
    BY <1>11, <2>1, <2>2, <2>6, <2>7, <2>8, LaidRest
<1>13. \E v : Laid(Unread', sent', Len(delivered'), v)
  BY <1>2, <1>7, <1>10, <1>12
<1>14. header \in Seq(Byte) /\ Len(header) = 4
  BY DEF Whole, Buffers
<1>15. QED
  BY <1>2, <1>4, <1>7, <1>8, <1>10, <1>13, <1>14 DEF Whole, Buffers

\* Who has to wait has nothing more to find.
LEMMA NothingLeft ==
    ASSUME Whole, Starved
    PROVE  pc # "body" /\ Len(delivered) = Len(sent)
<1>1. /\ Len(delivered) \in Nat /\ Len(sent) \in Nat /\ Len(delivered) <= Len(sent)
      /\ sent \in Seq(Bodies) /\ pc \in {"header", "scan", "body"}
  BY DEF Whole, Buffers
<1>2. pc # "body"
  <2> SUFFICES ASSUME pc = "body"
               PROVE  FALSE
    OBVIOUS
  <2> DEFINE n == Len(sent[Len(delivered) + 1])
  <2>1. n \in Nat /\ MessageLength(header) = n /\ Len(line) >= n + 4 /\ Len(line) \in Nat
    BY BodyThere, UnreadBytes DEF Whole
  <2> HIDE DEF n
  <2>2. Len(line) < n + 4
    BY <2>1 DEF Starved, Wanted, FOOTER_SIZE
  <2>3. QED
    BY <2>1, <2>2
<1>3. Unread \in Seq(Byte) /\ Len(Unread) < 8
  <2>1. CASE pc = "header"
    BY <2>1, UnreadBytes DEF Starved, Wanted, HEADER_SIZE, Whole
  <2>2. CASE pc = "scan"
    <3>1. Len(line) \in Nat /\ Len(Unread) = 4 + Len(line) /\ Unread \in Seq(Byte)
      BY <2>2, UnreadBytes DEF Whole
    <3>2. Len(line) < 1
      BY <2>2 DEF Starved, Wanted
    <3>3. QED
      BY <3>1, <3>2
  <2>3. QED
    BY <1>1, <1>2, <2>1, <2>2
<1>4. \A i \in (Len(delivered) + 1)..Len(sent) : FALSE
  BY <1>1, <1>3, NoneHeld DEF Whole, Buffers
<1>5. QED
  BY <1>1, <1>2, <1>4

\* A timeout finds nothing to lose but noise.
LEMMA TimeoutKeepsWhole ==
    ASSUME Whole, Timeout
    PROVE  Whole'
<1> DEFINE n == Len(line)
           d == Len(delivered)
           s == Unread
<1>1. /\ line \in Seq(Byte) /\ n \in Nat /\ sent \in Seq(Bodies) /\ d \in Nat
      /\ header \in Seq(Byte) /\ Len(header) = 4
  BY DEF Whole, Buffers
<1>2. PICK k \in {0, n} : line' = SubSeq(line, k + 1, n)
  BY DEF Timeout, GiveUp
<1>3. pc' = "header" /\ header' = header /\ sent' = sent /\ delivered' = delivered
  BY DEF Timeout, GiveUp
<1>4. Rest(line', line, k) /\ k \in Nat
  BY <1>1, <1>2, RestOf
<1>5. Unread' = line' /\ line' \in Seq(Byte)
  BY <1>3, <1>4 DEF Unread, Rest
<1>6. PICK m \in Nat : Rest(line', s, m)
  <2>1. Rest(line', s, IF pc = "header" THEN k ELSE k + 4)
    BY <1>4, RestUnread DEF Whole
  <2>2. k + 4 \in Nat
    BY <1>4
  <2>3. QED
    BY <1>4, <2>1, <2>2
<1>7. PICK at : Laid(s, sent, d, at)
  BY DEF Whole, Buffers
<1>8. s \in Seq(Byte)
  BY UnreadBytes DEF Whole
<1> HIDE DEF s
<1>9. d = Len(sent)
  BY NothingLeft DEF Timeout
<1>10. \A i \in (d + 1)..Len(sent) : FALSE
  BY <1>1, <1>9
<1>11. \E v : Laid(line', sent, d, v)
  <2>1. Parted(sent, d, at, m, d)
    BY <1>10 DEF Parted
  <2>2. d <= d
    BY <1>1
  <2> HIDE DEF d
  <2>3. sent \in Seq(Bodies) /\ d \in Nat
    BY <1>1
  <2>4. QED
    BY <1>6, <1>7, <1>8, <2>1, <2>2, <2>3, LaidRest
<1>12. \E v : Laid(Unread', sent', Len(delivered'), v)
  BY <1>3, <1>5, <1>11
<1>13. QED
  BY <1>1, <1>3, <1>5, <1>12 DEF Whole, Buffers

-----------------------------------------------------------------------------
(***************************************************************************)
(* The invariant.                                                          *)
(***************************************************************************)

\* At first nothing is sent and nothing is there.
LEMMA InitWhole == Init => FInv
<1> SUFFICES ASSUME Init
             PROVE  FInv
  OBVIOUS
<1>1. Unread = <<>> /\ <<>> \in Seq(Byte) /\ <<>> \in Seq(Bodies) /\ Len(<<>>) = 0
  BY DEF Init, Unread
<1>2. header \in Seq(Byte) /\ Len(header) = 4
  BY DEF Init, Byte
<1>3. Laid(<<>>, <<>>, 0, [i \in {} |-> 0])
  <2>1. (0 + 1)..0 = {} /\ 1..(0 - 1) = {}
    OBVIOUS
  <2>2. QED
    BY <1>1, <2>1 DEF Laid, InPlace, InOrder, NoneBetween
<1>4. Whole
  BY <1>1, <1>2, <1>3 DEF Init, Whole, Buffers
<1>5. QED
  BY <1>4 DEF FInv, Init

\* Every step keeps it; after a fault it says nothing.
LEMMA StepWhole == FInv /\ [Next]_vars => FInv'
<1> SUFFICES ASSUME FInv, [Next]_vars
             PROVE  FInv'
  OBVIOUS
<1>1. ASSUME faults' = faults, faults = 0 => Whole'
      PROVE  FInv'
  BY <1>1 DEF FInv
<1>2. ASSUME faults' = faults + 1
      PROVE  FInv'
  BY <1>2 DEF FInv
<1>3. CASE SendFrame
  BY <1>1, <1>3, SendKeeps DEF FInv, SendFrame
<1>4. CASE SendDamaged
  BY <1>2, <1>4 DEF SendDamaged
<1>5. CASE MakeHiss
  BY <1>1, <1>5, HissKeeps DEF FInv, MakeHiss
<1>6. CASE MakeFalseHeader
  BY <1>2, <1>6 DEF MakeFalseHeader
<1>7. CASE ReadHeader
  BY <1>1, <1>7, HeaderKeeps DEF FInv, ReadHeader
<1>8. CASE Scan
  BY <1>1, <1>8, ScanKeeps DEF FInv, Scan
<1>9. CASE ReadBody
  BY <1>1, <1>9, BodyKeeps DEF FInv, ReadBody
<1>10. CASE Timeout
  BY <1>1, <1>10, TimeoutKeepsWhole DEF FInv, Timeout
<1>11. CASE LateTimeout
  BY <1>2, <1>11 DEF LateTimeout
<1>12. CASE UNCHANGED vars
  <2>1. faults' = faults /\ (Whole => Whole')
    BY <1>12 DEF vars, Whole, Buffers, Unread
  <2>2. QED
    BY <1>1, <2>1 DEF FInv
<1>13. QED
  BY <1>3, <1>4, <1>5, <1>6, <1>7, <1>8, <1>9, <1>10, <1>11, <1>12 DEF Next

\* As long as there is no fault, the receiver has returned every message sent, and
\* nothing else, whenever it has to wait: hiss costs no frame, even when it ends
\* with the first byte of a header, nor do the timeouts of reads it has begun.
THEOREM HissCostsNothing == Spec => []NoiseHarmless
<1>1. FInv => NoiseHarmless
  <2> SUFFICES ASSUME FInv, faults = 0, Starved
               PROVE  delivered = sent
    BY DEF NoiseHarmless
  <2>1. Len(delivered) = Len(sent)
    BY NothingLeft DEF FInv
  <2>2. QED
    BY <2>1 DEF FInv, Whole, Buffers
<1>2. Init => FInv
  BY InitWhole
<1>3. FInv /\ [Next]_vars => FInv'
  BY StepWhole
<1>4. QED
  BY <1>1, <1>2, <1>3, PTL DEF Spec
=============================================================================
