-------------------------- MODULE SecilLossProofs --------------------------
(***************************************************************************)
(* Proofs about SecilFraming: a fault costs a bounded number of frames.    *)
(***************************************************************************)
EXTENDS SecilFramingProofs, FiniteSetTheorems, WellFoundedInduction

-----------------------------------------------------------------------------
(***************************************************************************)
(* Numbers.                                                                *)
(***************************************************************************)

\* A set of naturals that is not empty has a least element.
LEMMA Least ==
    ASSUME NEW X, X \subseteq Nat, X # {}
    PROVE  \E n \in X : \A m \in X : n <= m
<1>1. \A R : IsWellFoundedOn(R, Nat) => \E n \in X : \A m \in X : <<m, n>> \notin R
  BY WFMin
<1> DEFINE L == OpToRel(<, Nat)
<1>2. PICK n \in X : \A m \in X : <<m, n>> \notin L
  BY <1>1, NatLessThanWellFounded
<1>3. \A m \in X : m < n => <<m, n>> \in L
  BY DEF OpToRel
<1> HIDE DEF L
<1>4. ASSUME NEW m \in X
      PROVE  n <= m
  <2>1. ~(m < n)
    BY <1>2, <1>3
  <2>2. QED
    BY <2>1
<1>5. QED
  BY <1>4

\* What multiplication keeps.
LEMMA Times ==
    /\ \A c, x, y \in Nat : x <= y => c * x <= c * y
    /\ \A c, x \in Nat : c * (x + 1) = c * x + c /\ c * x \in Nat
    /\ \A c, x \in Nat : c * x = x * c
OBVIOUS

\* What division gives.
LEMMA Quotient ==
    ASSUME NEW a \in Nat, NEW s \in Nat \ {0}
    PROVE  a \div s \in Nat /\ s * (a \div s) <= a /\ a < s * (a \div s) + s
OBVIOUS

\* Numbers that are s or more apart have different quotients.
LEMMA QuotientsApart ==
    ASSUME NEW a \in Nat, NEW b \in Nat, NEW s \in Nat \ {0}, a + s <= b
    PROVE  a \div s < b \div s
<1> DEFINE p == a \div s
           q == b \div s
<1>1. p \in Nat /\ s * p <= a
  BY Quotient
<1>2. q \in Nat /\ b < s * q + s
  BY Quotient
<1> HIDE DEF p, q
<1>3. s * (p + 1) < s * (q + 1) /\ s * (p + 1) \in Nat /\ s * (q + 1) \in Nat
  <2>1. s * (p + 1) = s * p + s /\ s * (q + 1) = s * q + s
    BY <1>1, <1>2, Times
  <2>2. s * p \in Nat /\ s * q \in Nat
    BY <1>1, <1>2, Times
  <2>3. QED
    BY <1>1, <1>2, <2>1, <2>2
<1>4. q + 1 <= p + 1 => s * (q + 1) <= s * (p + 1)
  <2>1. q + 1 \in Nat /\ p + 1 \in Nat
    BY <1>1, <1>2
  <2>2. QED
    BY <2>1, Times
<1>5. ~(q + 1 <= p + 1)
  BY <1>3, <1>4
<1>6. QED
  BY <1>1, <1>2, <1>5 DEF p, q

\* The elements of X after o, and those up to q of them.
Ahead(X, o)      == {x \in X : x > o}
Between(X, o, q) == {x \in X : o < x /\ x <= q}

\* How many there are.
LEMMA Counts ==
    ASSUME NEW X, X \subseteq Nat, IsFiniteSet(X), NEW o \in Nat, NEW q \in Nat, o <= q
    PROVE  LET B == Between(X, o, q)
           IN  /\ Cardinality(Ahead(X, o)) \in Nat /\ Cardinality(Ahead(X, q)) \in Nat
               /\ Cardinality(B) \in Nat /\ IsFiniteSet(B)
               /\ Cardinality(Ahead(X, o)) = Cardinality(Ahead(X, q)) + Cardinality(B)
               /\ B = {} => Cardinality(B) = 0
               /\ B # {} => Cardinality(B) >= 1
<1> DEFINE R == Ahead(X, o)
           T == Ahead(X, q)
           B == Between(X, o, q)
<1>1. T \subseteq X /\ R \subseteq X /\ B \subseteq X
  BY DEF Ahead, Between
<1>2. IsFiniteSet(T) /\ IsFiniteSet(R) /\ IsFiniteSet(B)
  BY <1>1, FS_Subset
<1>3. R = T \cup B /\ T \cap B = {}
  <2>1. \A x \in X : /\ x > o <=> (x > q \/ (o < x /\ x <= q))
                    /\ ~(x > q /\ x <= q)
    OBVIOUS
  <2>2. \A x : x \in R <=> x \in T \/ x \in B
    BY <2>1 DEF Ahead, Between
  <2>3. \A x : ~(x \in T /\ x \in B)
    BY <2>1 DEF Ahead, Between
  <2> HIDE DEF R, T, B
  <2>4. QED
    BY <2>2, <2>3
<1> HIDE DEF R, T, B
<1>4. Cardinality(T) \in Nat /\ Cardinality(R) \in Nat /\ Cardinality(B) \in Nat
  BY <1>2, FS_CardinalityType
<1>5. Cardinality(R) = Cardinality(T) + Cardinality(B)
  <2>1. Cardinality(T \cup B) = Cardinality(T) + Cardinality(B) - Cardinality(T \cap B)
    BY <1>2, FS_Union
  <2>2. Cardinality(T \cap B) = 0
    BY <1>3, FS_EmptySet
  <2>3. QED
    BY <1>3, <1>4, <2>1, <2>2
<1>6. Cardinality(B) = 0 <=> B = {}
  BY <1>2, FS_EmptySet
<1>7. QED
  BY <1>2, <1>4, <1>5, <1>6 DEF R, T, B

-----------------------------------------------------------------------------
(***************************************************************************)
(* The frames that stand on the line, and what faults have been charged    *)
(* for.                                                                    *)
(***************************************************************************)

\* All the bytes ever written are g; A is where the intact frames start, and H
\* holds a credit for every fault that left something like a header: a byte that
\* goes when such a header is read.  A header in g is that of an intact frame, or
\* is refused and then takes no other frame with it, or has a credit.
Explained(g, A, H, p) ==
    \/ p \in A
    \/ Harmless(g, p) /\ \A a \in A : ~(p < a /\ a <= p + 3)
    \/ \E h \in H : p <= h /\ h <= Reach(g, p)
Marked(g, A, H) ==
    /\ A \subseteq Nat \ {0} /\ IsFiniteSet(A)
    /\ \A a \in A : \E b \in Bodies : Holds(g, a, Frame[b])
    /\ \A a, c \in A : a < c => a + 8 + Long(g, a) <= c
    /\ H \subseteq Nat /\ IsFiniteSet(H) /\ \A h \in H : h <= Len(g)
    /\ \A p \in Heads(g) : Explained(g, A, H, p)

\* The frames one header that is not of a frame can take with it, with their
\* number in MaxLoss.
Swept == (MessageSize + FOOTER_SIZE + ShortestFrame - 1) \div ShortestFrame

\* Of the s messages sent all are accounted for when o bytes are done with: d are
\* returned, the frames ahead are to come, and the rest are charged to the f
\* faults, except for what the credits ahead may cost yet.
Accounted(A, H, o, s, d, f) ==
    s + Swept * Cardinality(Ahead(H, o)) <= d + Cardinality(Ahead(A, o)) + MaxLoss * f

\* A frame on the line is whole, and its header tells its length.
LEMMA FrameOn ==
    ASSUME NEW g \in Seq(Byte), NEW a \in Nat \ {0}, NEW b \in Bodies, Holds(g, a, Frame[b])
    PROVE  /\ Len(b) \in Nat /\ Len(b) <= MessageSize /\ Len(Frame[b]) = Len(b) + 8
           /\ Long(g, a) = Len(b) /\ a + 7 + Long(g, a) <= Len(g)
           /\ g[a] = 202 /\ g[a + 1] = 254
<1> DEFINE r == Frame[b]
           h == Header(Len(b))
           n == Len(b)
<1>1. /\ Len(r) = n + 8 /\ n \in Nat /\ n <= MessageSize
      /\ h \in Seq(Byte) /\ MessageLength(h) = n
      /\ r[1] = 202 /\ r[2] = 254 /\ \A j \in 1..4 : r[j] = h[j]
  BY FrameBytes
<1> HIDE DEF r, h, n
<1>2. a + Len(r) - 1 <= Len(g) /\ \A j \in 1..Len(r) : g[a + j - 1] = r[j]
  BY DEF Holds, r
<1>3. /\ 1 \in 1..Len(r) /\ a + 1 - 1 = a /\ 2 \in 1..Len(r) /\ a + 2 - 1 = a + 1
      /\ 3 \in 1..Len(r) /\ a + 3 - 1 = a + 2 /\ 4 \in 1..Len(r) /\ a + 4 - 1 = a + 3
  BY <1>1
<1>4. g[a] = r[1] /\ g[a + 1] = r[2] /\ g[a + 2] = h[3] /\ g[a + 3] = h[4]
  <2>1. /\ g[a + 1 - 1] = r[1] /\ g[a + 2 - 1] = r[2]
        /\ g[a + 3 - 1] = r[3] /\ g[a + 4 - 1] = r[4]
    BY <1>2, <1>3
  <2>2. g[a] = r[1] /\ g[a + 1] = r[2] /\ g[a + 2] = r[3] /\ g[a + 3] = r[4]
    BY <1>3, <2>1
  <2>3. r[3] = h[3] /\ r[4] = h[4]
    BY <1>1
  <2>4. QED
    BY <2>2, <2>3
<1>5. Long(g, a) = n
  BY <1>1, <1>4 DEF Long, MessageLength
<1>6. Len(g) \in Nat
  OBVIOUS
<1>7. a + 7 + n <= Len(g)
  BY <1>1, <1>2, <1>6
<1>8. QED
  BY <1>1, <1>4, <1>5, <1>7 DEF n, r

\* A frame that is marked.
LEMMA FrameMarked ==
    ASSUME NEW g \in Seq(Byte), NEW A, NEW H, Marked(g, A, H), NEW a \in A
    PROVE  /\ a \in Nat \ {0} /\ a \in 1..Len(g)
           /\ Long(g, a) \in Nat /\ Long(g, a) <= MessageSize
           /\ a + 7 + Long(g, a) <= Len(g)
           /\ g[a] = 202 /\ g[a + 1] = 254
<1>1. a \in Nat \ {0} /\ \E b \in Bodies : Holds(g, a, Frame[b])
  BY DEF Marked
<1>2. PICK b \in Bodies : Holds(g, a, Frame[b])
  BY <1>1
<1>3. /\ Len(b) \in Nat /\ Len(b) <= MessageSize
      /\ Long(g, a) = Len(b) /\ a + 7 + Long(g, a) <= Len(g)
      /\ g[a] = 202 /\ g[a + 1] = 254
  BY <1>1, <1>2, FrameOn
<1>4. a \in 1..Len(g)
  <2>1. Len(g) \in Nat
    OBVIOUS
  <2>2. QED
    BY <1>1, <1>3, <2>1
<1>5. QED
  BY <1>1, <1>3, <1>4

\* There is a shortest frame, if there are messages at all.
LEMMA Shortest ==
    ASSUME Bodies # {}
    PROVE  /\ ShortestFrame \in Nat /\ ShortestFrame >= 8
           /\ \A b \in Bodies : ShortestFrame <= Len(Frame[b])
<1> DEFINE X == {Len(Frame[b]) : b \in Bodies}
<1>1. \A b \in Bodies : Len(Frame[b]) \in Nat /\ Len(Frame[b]) >= 8
  <2>1. ASSUME NEW b \in Bodies
        PROVE  Len(Frame[b]) \in Nat /\ Len(Frame[b]) >= 8
    <3>1. Len(Frame[b]) = Len(b) + 8 /\ Len(b) \in Nat
      BY FrameSpan
    <3>2. QED
      BY <3>1
  <2>2. QED
    BY <2>1
<1>2. X \subseteq Nat /\ X # {}
  BY <1>1
<1>3. PICK n \in X : \A m \in X : n <= m
  BY <1>2, Least
<1>4. \A b \in Bodies : n <= Len(Frame[b])
  BY <1>3
<1>5. ShortestFrame \in X /\ \A b \in Bodies : ShortestFrame <= Len(Frame[b])
  BY <1>3, <1>4 DEF ShortestFrame
<1>6. QED
  BY <1>1, <1>5

\* What may be swept away covers the longest body and the footer.
LEMMA Covered ==
    ASSUME Bodies # {}
    PROVE  /\ Swept \in Nat /\ MaxLoss = 1 + Swept /\ MessageSize \in Nat
           /\ MessageSize + 4 <= Swept * ShortestFrame
           /\ MessageSize + 7 <= MaxLoss * ShortestFrame
           /\ MaxLoss * ShortestFrame \in Nat /\ Swept * ShortestFrame \in Nat
<1> DEFINE c == ShortestFrame
           n == MessageSize + FOOTER_SIZE + ShortestFrame - 1
<1>1. c \in Nat \ {0} /\ c >= 8 /\ MessageSize \in Nat
  BY Shortest, SizeAssumption DEF UInt16
<1>2. n = MessageSize + 4 + c - 1 /\ n \in Nat
  BY <1>1 DEF FOOTER_SIZE
<1>3. Swept = n \div c /\ MaxLoss = 1 + Swept
  BY DEF Swept, MaxLoss
<1> HIDE DEF c, n
<1>4. Swept \in Nat /\ n < c * Swept + c
  BY <1>1, <1>2, <1>3, Quotient
<1>5. c * Swept \in Nat /\ c * Swept = Swept * c /\ c * (Swept + 1) = c * Swept + c
      /\ c * (Swept + 1) = (Swept + 1) * c
  <2>1. Swept + 1 \in Nat
    BY <1>4
  <2>2. QED
    BY <1>1, <1>4, <2>1, Times
<1>6. MaxLoss = Swept + 1
  BY <1>3, <1>4
<1>7. MessageSize + 4 <= Swept * c
  BY <1>1, <1>2, <1>4, <1>5
<1>8. MaxLoss * c = Swept * c + c
  BY <1>5, <1>6
<1>9. MessageSize + 7 <= MaxLoss * c
  BY <1>1, <1>5, <1>7, <1>8
<1>10. QED
  BY <1>1, <1>3, <1>4, <1>5, <1>7, <1>8, <1>9 DEF c

\* Where frames start, they are at least as far apart as the shortest is long.
LEMMA Apart ==
    ASSUME NEW g \in Seq(Byte), NEW A, NEW H, Marked(g, A, H),
           NEW a \in A, NEW c \in A, a < c
    PROVE  a + ShortestFrame <= c /\ a + 8 + Long(g, a) <= c
<1>1. a \in Nat \ {0} /\ c \in Nat \ {0} /\ a + 8 + Long(g, a) <= c
  BY DEF Marked
<1>2. PICK b \in Bodies : Holds(g, a, Frame[b])
  BY DEF Marked
<1>3. Len(Frame[b]) = Long(g, a) + 8 /\ Long(g, a) \in Nat
  BY <1>1, <1>2, FrameOn
<1>4. ShortestFrame <= Len(Frame[b]) /\ ShortestFrame \in Nat
  BY Shortest
<1>5. QED
  BY <1>1, <1>3, <1>4

\* So no more than n of them start in a stretch no longer than n such frames.
LEMMA Crowd ==
    ASSUME NEW g \in Seq(Byte), NEW A, NEW H, Marked(g, A, H), Bodies # {},
           NEW o \in Nat, NEW q \in Nat, NEW n \in Nat, q <= o + n * ShortestFrame
    PROVE  Cardinality(Between(A, o, q)) <= n
<1> DEFINE s == ShortestFrame
           B == Between(A, o, q)
           T == 0..(n - 1)
           Place(x) == (x - o - 1) \div s
           f == [x \in B |-> Place(x)]
<1>1. s \in Nat \ {0}
  BY Shortest
<1>2. \A x \in B : x \in A /\ x \in Nat /\ x - o - 1 \in Nat /\ x <= q
  BY DEF Between, Marked
<1>3. ASSUME NEW x \in B
      PROVE  Place(x) \in T
  <2> DEFINE y == x - o - 1
             p == Place(x)
  <2>1. y \in Nat /\ y < n * s
    <3>1. n * s \in Nat
      BY <1>1, Times
    <3>2. QED
      BY <1>2, <3>1
  <2> HIDE DEF y, s
  <2>2. p \in Nat /\ s * p <= y
    BY <1>1, <2>1, Quotient DEF y
  <2> HIDE DEF Place, p
  <2>3. n <= p => s * n <= s * p
    BY <1>1, <2>2, Times
  <2>4. s * n = n * s /\ s * p \in Nat /\ n * s \in Nat
    BY <1>1, <2>2, Times
  <2>5. ~(n <= p)
    BY <2>1, <2>2, <2>3, <2>4
  <2>6. p \in T
    BY <2>2, <2>5
  <2>7. QED
    BY <2>6 DEF p
<1>4. ASSUME NEW x \in B, NEW y \in B, x < y
      PROVE  Place(x) < Place(y)
  <2>1. x + s <= y
    BY <1>2, <1>4, Apart
  <2>2. x - o - 1 \in Nat /\ y - o - 1 \in Nat /\ (x - o - 1) + s <= y - o - 1
    BY <1>1, <1>2, <2>1
  <2> HIDE DEF s
  <2>3. QED
    BY <1>1, <2>2, QuotientsApart
<1> HIDE DEF Place, B, T
<1>5. f \in [B -> T] /\ \A x \in B : f[x] = Place(x)
  BY <1>3
<1>6. ASSUME NEW x \in B, NEW y \in B, f[x] = f[y]
      PROVE  x = y
  <2>1. ~(x < y) /\ ~(y < x)
    <3>1. Place(x) = Place(y) /\ Place(x) \in T /\ Place(y) \in T
      BY <1>3, <1>5, <1>6
    <3>2. Place(x) \in Nat
      BY <3>1 DEF T
    <3>3. QED
      BY <1>4, <3>1, <3>2
  <2>2. QED
    BY <1>2, <2>1
<1> HIDE DEF f
<1>7. f \in Injection(B, T)
  BY <1>5, <1>6 DEF Injection, IsInjective
<1>8. IsFiniteSet(T) /\ Cardinality(T) = n
  <2>1. 0 \in Int /\ n - 1 \in Int
    OBVIOUS
  <2>2. Cardinality(0..(n - 1)) = IF 0 > n - 1 THEN 0 ELSE (n - 1) - 0 + 1
    BY <2>1, FS_Interval
  <2>3. IsFiniteSet(0..(n - 1))
    BY <2>1, FS_Interval
  <2>4. QED
    BY <2>2, <2>3 DEF T
<1>9. Cardinality(B) <= n
  BY <1>7, <1>8, FS_Injection
<1>10. QED
  BY <1>9 DEF B

\* The account when more bytes are done with: what no frame starts in or a frame
\* that is returned; what a credit pays for; what a fault does.
LEMMA Advance ==
    ASSUME NEW g \in Seq(Byte), NEW A, NEW H, Marked(g, A, H), Bodies # {},
           NEW o \in Nat, NEW q \in Nat, o <= q,
           NEW s \in Nat, NEW d \in Nat, NEW e \in Nat, d <= e, NEW f \in Nat,
           Accounted(A, H, o, s, d, f)
    PROVE  LET n == Cardinality(Between(A, o, q))
           IN  /\ d + n <= e => Accounted(A, H, q, s, e, f)
               /\ n <= Swept /\ Between(H, o, q) # {} => Accounted(A, H, q, s, e, f)
               /\ n <= MaxLoss => Accounted(A, H, q, s, d, f + 1)
<1> DEFINE n  == Cardinality(Between(A, o, q))
           m  == Cardinality(Between(H, o, q))
           ao == Cardinality(Ahead(A, o))
           aq == Cardinality(Ahead(A, q))
           ho == Cardinality(Ahead(H, o))
           hq == Cardinality(Ahead(H, q))
           k  == Swept
           t  == MaxLoss
<1>1. A \subseteq Nat /\ IsFiniteSet(A) /\ H \subseteq Nat /\ IsFiniteSet(H)
  BY DEF Marked
<1>2. ao \in Nat /\ aq \in Nat /\ n \in Nat /\ ao = aq + n
  BY <1>1, Counts
<1>3. /\ ho \in Nat /\ hq \in Nat /\ m \in Nat /\ ho = hq + m
      /\ Between(H, o, q) # {} => m >= 1
  BY <1>1, Counts
<1>4. k \in Nat /\ t = 1 + k /\ t \in Nat
  BY Covered
<1>5. s + k * ho <= d + ao + t * f
  BY DEF Accounted
<1> HIDE DEF n, m, ao, aq, ho, hq, k, t
<1>6. k * hq <= k * ho /\ k * hq \in Nat /\ k * ho \in Nat
  <2>1. hq <= ho
    BY <1>3
  <2>2. QED
    BY <1>3, <1>4, <2>1, Times
<1>7. m >= 1 => k * hq + k <= k * ho
  <2>1. m >= 1 => hq + 1 <= ho
    BY <1>3
  <2>2. k * (hq + 1) = k * hq + k /\ hq + 1 \in Nat
    BY <1>3, <1>4, Times
  <2>3. hq + 1 <= ho => k * (hq + 1) <= k * ho
    BY <1>3, <1>4, <2>2, Times
  <2>4. QED
    BY <2>1, <2>2, <2>3
<1>8. t * f \in Nat /\ t * (f + 1) = t * f + t
  BY <1>4, Times
<1>9. d + n <= e => s + k * hq <= e + aq + t * f
  BY <1>2, <1>5, <1>6, <1>8
<1>10. n <= k /\ m >= 1 => s + k * hq <= e + aq + t * f
  BY <1>2, <1>4, <1>5, <1>6, <1>7, <1>8
<1>11. n <= t => s + k * hq <= d + aq + t * (f + 1)
  BY <1>2, <1>4, <1>5, <1>6, <1>8
<1>12. QED
  BY <1>3, <1>9, <1>10, <1>11 DEF Accounted, n, m, aq, hq, k, t

-----------------------------------------------------------------------------
(***************************************************************************)
(* What is written.                                                        *)
(***************************************************************************)

\* A length is a number.
LEMMA LongNat ==
    ASSUME NEW s \in Seq(Byte), NEW p \in Nat, Known(s, p)
    PROVE  Long(s, p) \in Nat
<1>1. p + 2 \in 1..Len(s) /\ p + 3 \in 1..Len(s)
  BY DEF Known
<1>2. s[p + 2] \in Byte /\ s[p + 3] \in Byte
  BY <1>1
<1>3. Byte \subseteq Nat
  BY DEF Byte
<1>4. s[p + 2] \in Nat /\ s[p + 3] \in Nat
  BY <1>2, <1>3
<1>5. QED
  BY <1>4 DEF Long

\* What looks like a header still does when something is written after it.
LEMMA HeadMore ==
    ASSUME NEW g \in Seq(Byte), NEW t \in Seq(Byte), NEW u, More(u, g, t),
           NEW p \in Nat \ {0}
    PROVE  /\ p < Len(g) /\ p \in Heads(u) => p \in Heads(g)
           /\ Known(g, p) => Known(u, p) /\ Long(u, p) = Long(g, p)
           /\ Harmless(g, p) => Harmless(u, p)
           /\ Reach(g, p) \in Nat /\ Reach(u, p) \in Nat /\ Reach(g, p) <= Reach(u, p)
<1> DEFINE n == Len(g)
<1>1. /\ u \in Seq(Byte) /\ Len(u) = n + Len(t) /\ n \in Nat /\ Len(t) \in Nat
      /\ \A i \in 1..n : u[i] = g[i]
  BY DEF More
<1>2. ASSUME p < n, p \in Heads(u)
      PROVE  p \in Heads(g)
  <2>1. p \in 1..n /\ p + 1 \in 1..n /\ p \in 1..(n - 1)
    BY <1>1, <1>2
  <2>2. u[p] = 202 /\ u[p + 1] = 254
    BY <1>2 DEF Heads
  <2>3. QED
    BY <1>1, <2>1, <2>2 DEF Heads
<1>3. ASSUME Known(g, p)
      PROVE  Known(u, p) /\ Long(u, p) = Long(g, p)
  <2>1. p + 2 \in 1..n /\ p + 3 \in 1..n
    BY <1>1, <1>3 DEF Known
  <2>2. p + 3 <= Len(u)
    BY <1>1, <2>1
  <2>3. QED
    BY <1>1, <2>1, <2>2 DEF Known, Long
<1>4. Harmless(g, p) => Harmless(u, p)
  BY <1>3 DEF Harmless
<1>5. /\ Known(g, p) => Long(g, p) \in Nat
      /\ Known(u, p) => Long(u, p) \in Nat
  BY <1>1, LongNat
<1>6. Reach(g, p) \in Nat /\ Reach(u, p) \in Nat /\ Reach(g, p) <= Reach(u, p)
  <2>1. MessageSize \in Nat
    BY SizeAssumption DEF UInt16
  <2>2. CASE Known(g, p) /\ Long(g, p) <= MessageSize
    BY <1>3, <1>5, <2>2 DEF Reach
  <2>3. CASE ~(Known(g, p) /\ Long(g, p) <= MessageSize)
    BY <1>5, <2>3 DEF Reach
  <2>4. QED
    BY <2>2, <2>3
<1>7. QED
  BY <1>2, <1>3, <1>4, <1>6

\* The marks stand when more is written, with one for a frame and one for a fault,
\* if what is new and looks like a header is explained.
LEMMA MarkedMore ==
    ASSUME NEW g \in Seq(Byte), NEW t \in Seq(Byte), NEW u, More(u, g, t),
           NEW A, NEW H, Marked(g, A, H), NEW C, NEW K,
           A \subseteq C, C \subseteq A \cup {Len(g) + 1},
           Len(g) + 1 \in C => \E b \in Bodies : Holds(u, Len(g) + 1, Frame[b]),
           H \subseteq K, K \subseteq Nat, IsFiniteSet(K), \A h \in K : h <= Len(u),
           \A p \in Heads(u) : p >= Len(g) => Explained(u, C, K, p)
    PROVE  Marked(u, C, K)
<1> DEFINE n == Len(g)
<1>1. u \in Seq(Byte) /\ n \in Nat /\ Len(t) \in Nat /\ Len(u) = n + Len(t)
  BY DEF More
<1>2. A \subseteq Nat \ {0} /\ IsFiniteSet(A)
  BY DEF Marked
<1>3. C \subseteq Nat \ {0}
  BY <1>1, <1>2
<1>4. IsFiniteSet(C)
  <2>1. IsFiniteSet(A \cup {n + 1})
    BY <1>2, FS_AddElement
  <2> HIDE DEF n
  <2>2. C \in SUBSET (A \cup {n + 1})
    BY DEF n
  <2>3. QED
    BY <2>1, <2>2, FS_Subset
<1>5. ASSUME NEW a \in A
      PROVE  /\ a \in Nat \ {0} /\ a + 8 + Long(g, a) <= n + 1 /\ a + 7 <= n
             /\ Long(u, a) = Long(g, a)
             /\ \E b \in Bodies : Holds(u, a, Frame[b])
  <2>1. a \in Nat \ {0} /\ Long(g, a) \in Nat /\ a + 7 + Long(g, a) <= n
    BY FrameMarked
  <2>2. a + 8 + Long(g, a) <= n + 1 /\ a + 7 <= n
    BY <1>1, <2>1
  <2>3. Known(g, a)
    BY <1>1, <2>1, <2>2 DEF Known
  <2>4. Long(u, a) = Long(g, a)
    BY <2>1, <2>3, HeadMore
  <2>5. PICK b \in Bodies : Holds(g, a, Frame[b])
    BY DEF Marked
  <2>6. Frame[b] \in Seq(Byte)
    BY FrameSpan
  <2>7. Len(Frame[b]) \in Nat
    BY <2>6
  <2>8. Holds(u, a, Frame[b])
    BY <1>1, <2>1, <2>5, <2>7, HoldsMore
  <2>9. QED
    BY <2>1, <2>2, <2>4, <2>8
<1>6. \A a \in C : \E b \in Bodies : Holds(u, a, Frame[b])
  BY <1>5
<1>7. ASSUME NEW a \in C, NEW c \in C, a < c
      PROVE  a + 8 + Long(u, a) <= c
  <2>1. a \in A
    <3>1. CASE c \in A
      BY <1>1, <1>5, <1>7, <3>1
    <3>2. CASE c = n + 1
      BY <1>1, <1>7, <3>2
    <3>3. QED
      BY <3>1, <3>2
  <2>2. CASE c \in A
    BY <1>5, <1>7, <2>1, <2>2 DEF Marked
  <2>3. CASE c = n + 1
    BY <1>5, <2>1, <2>3
  <2>4. QED
    BY <2>2, <2>3
<1>8. ASSUME NEW p \in Heads(u), ~(p >= n)
      PROVE  Explained(u, C, K, p)
  <2>1. p \in Nat \ {0} /\ p < n
    BY <1>1, <1>8 DEF Heads
  <2>2. p \in Heads(g)
    BY <2>1, HeadMore
  <2>3. CASE p \in A
    BY <2>3 DEF Explained
  <2>4. CASE Harmless(g, p) /\ \A a \in A : ~(p < a /\ a <= p + 3)
    <3>1. Harmless(u, p)
      BY <2>1, <2>4, HeadMore
    <3>2. p + 3 <= n
      BY <2>4 DEF Harmless, Known
    <3>3. ~(p < n + 1 /\ n + 1 <= p + 3)
      BY <1>1, <2>1, <3>2
    <3>4. \A a \in C : ~(p < a /\ a <= p + 3)
      BY <2>4, <3>3
    <3>5. QED
      BY <3>1, <3>4 DEF Explained
  <2>5. CASE \E h \in H : p <= h /\ h <= Reach(g, p)
    <3>1. PICK h \in H : p <= h /\ h <= Reach(g, p)
      BY <2>5
    <3>2. h \in Nat /\ h \in K
      BY DEF Marked
    <3>3. Reach(g, p) \in Nat /\ Reach(u, p) \in Nat /\ Reach(g, p) <= Reach(u, p)
      BY <2>1, HeadMore
    <3>4. h <= Reach(u, p)
      BY <3>1, <3>2, <3>3
    <3>5. QED
      BY <3>1, <3>2, <3>4 DEF Explained
  <2>6. Explained(g, A, H, p)
    BY <2>2 DEF Marked
  <2>7. QED
    BY <2>3, <2>4, <2>5, <2>6 DEF Explained
<1>9. \A p \in Heads(u) : Explained(u, C, K, p)
  BY <1>8
<1>10. QED
  BY <1>3, <1>4, <1>6, <1>7, <1>9 DEF Marked

\* Hiss changes no mark.
LEMMA MarkedHiss ==
    ASSUME NEW g \in Seq(Byte), NEW z \in Hiss, NEW u, More(u, g, z),
           NEW A, NEW H, Marked(g, A, H)
    PROVE  Marked(u, A, H)
<1> DEFINE n == Len(g)
<1>1. z \in Seq(Byte)
  BY NoiseAssumption
<1>2. /\ u \in Seq(Byte) /\ n \in Nat /\ Len(z) \in Nat /\ Len(u) = n + Len(z)
      /\ \A i \in 1..n : u[i] = g[i]
      /\ \A i \in 1..Len(z) : u[n + i] = z[i]
  BY <1>1 DEF More
<1>3. n + 1 \notin A
  <2>1. n + 1 \in A => n + 1 \in 1..n
    BY FrameMarked
  <2>2. QED
    BY <1>2, <2>1
<1>4. ASSUME NEW p \in Heads(u), p >= n
      PROVE  FALSE
  <2> DEFINE i == p + 1 - n
  <2>1. p \in 1..(Len(u) - 1) /\ u[p] = 202 /\ u[p + 1] = 254
    BY <1>4 DEF Heads
  <2>2. i \in 1..Len(z) /\ p + 1 = n + i
    BY <1>2, <1>4, <2>1
  <2> HIDE DEF i
  <2>3. z[i] = 254
    BY <1>2, <2>1, <2>2
  <2>4. i > 1 /\ z[i - 1] # 202
    BY <2>2, <2>3, HissAssumption
  <2>5. i - 1 \in 1..Len(z) /\ p = n + (i - 1)
    BY <1>2, <2>1, <2>2, <2>4
  <2>6. u[p] = z[i - 1]
    BY <1>2, <2>5
  <2>7. QED
    BY <2>1, <2>4, <2>6
<1>5. H \subseteq Nat /\ IsFiniteSet(H) /\ \A h \in H : h <= Len(u)
  <2>1. \A h \in H : h \in Nat /\ h <= n
    BY DEF Marked
  <2>2. \A h \in H : h <= Len(u)
    BY <1>2, <2>1
  <2>3. QED
    BY <2>2 DEF Marked
<1>6. A \subseteq A \cup {n + 1} /\ A \subseteq A /\ H \subseteq H
  OBVIOUS
<1>7. \A p \in Heads(u) : p >= n => Explained(u, A, H, p)
  BY <1>4
<1> HIDE DEF n
<1>8. QED
  BY <1>1, <1>3, <1>5, <1>6, <1>7, MarkedMore DEF n

\* A frame sent is marked.
LEMMA MarkedFrame ==
    ASSUME QuietFrames, NEW g \in Seq(Byte), NEW b \in Bodies, NEW u, More(u, g, Frame[b]),
           NEW A, NEW H, Marked(g, A, H)
    PROVE  Marked(u, A \cup {Len(g) + 1}, H) /\ Len(g) + 1 \notin A
<1> DEFINE n == Len(g)
           r == Frame[b]
           C == A \cup {n + 1}
<1>1. r \in Seq(Byte) /\ Len(r) = Len(b) + 8 /\ Len(b) \in Nat /\ r[1] = 202
  BY FrameSpan
<1> HIDE DEF r
<1>2. /\ u \in Seq(Byte) /\ n \in Nat /\ Len(r) \in Nat /\ Len(u) = n + Len(r)
      /\ \A i \in 1..n : u[i] = g[i]
      /\ \A i \in 1..Len(r) : u[n + i] = r[i]
  BY <1>1 DEF More, r
<1>3. \A a \in A : a \in Nat /\ a <= n
  <2>1. \A a \in A : a \in 1..n
    BY FrameMarked
  <2>2. QED
    BY <1>2, <2>1
<1>4. n + 1 \notin A
  BY <1>2, <1>3
<1>5. Holds(u, n + 1, r)
  <2>1. \A j \in 1..Len(r) : n + j = (n + 1) + j - 1
    BY <1>2
  <2>2. (n + 1) + Len(r) - 1 <= Len(u)
    BY <1>2
  <2>3. \A j \in 1..Len(r) : u[(n + 1) + j - 1] = r[j]
    BY <1>2, <2>1
  <2>4. QED
    BY <2>2, <2>3 DEF Holds
<1>6. ASSUME NEW p \in Heads(u), p >= n
      PROVE  Explained(u, C, H, p)
  <2> DEFINE i == p - n
  <2>1. p \in 1..(Len(u) - 1) /\ u[p] = 202 /\ u[p + 1] = 254
    BY <1>6 DEF Heads
  <2>2. p # n
    <3> SUFFICES ASSUME p = n
                 PROVE  FALSE
      OBVIOUS
    <3>1. 1 \in 1..Len(r)
      BY <1>1
    <3>2. u[n + 1] = r[1]
      BY <1>2, <3>1
    <3>3. QED
      BY <1>1, <2>1, <3>2
  <2>3. /\ i \in 1..(Len(r) - 1) /\ i + 1 \in 1..Len(r) /\ i \in 1..Len(r)
        /\ p = n + i /\ p + 1 = n + (i + 1)
    BY <1>2, <1>6, <2>1, <2>2
  <2> HIDE DEF i
  <2>4. i \in Heads(r)
    BY <1>2, <2>1, <2>3 DEF Heads
  <2>5. CASE i = 1
    <3>1. p \in C
      BY <2>3, <2>5
    <3>2. QED
      BY <3>1 DEF Explained
  <2>6. CASE i # 1
    <3>1. Harmless(r, i)
      BY <2>4, <2>6 DEF QuietFrames, r
    <3>2. i + 3 <= Len(r) /\ Long(r, i) > MessageSize
      BY <3>1 DEF Harmless, Known
    <3>3. /\ i + 2 \in 1..Len(r) /\ p + 2 = n + (i + 2)
          /\ i + 3 \in 1..Len(r) /\ p + 3 = n + (i + 3)
      BY <1>2, <2>3, <3>2
    <3>4. Long(u, p) = Long(r, i)
      <4>1. u[n + (i + 2)] = r[i + 2] /\ u[n + (i + 3)] = r[i + 3]
        BY <1>2, <3>3
      <4>2. u[p + 2] = r[i + 2] /\ u[p + 3] = r[i + 3]
        BY <3>3, <4>1
      <4>3. QED
        BY <4>2 DEF Long
    <3>5. p + 3 <= Len(u)
      BY <1>2, <3>3
    <3>6. Harmless(u, p)
      BY <3>2, <3>4, <3>5 DEF Harmless, Known
    <3>7. \A a \in C : a \in Nat /\ a <= n + 1
      BY <1>2, <1>3
    <3>8. p \in Nat /\ n + 1 <= p
      BY <1>2, <2>3
    <3>9. \A a \in C : ~(p < a /\ a <= p + 3)
      BY <1>2, <3>7, <3>8
    <3>10. QED
      BY <3>6, <3>9 DEF Explained
  <2>7. QED
    BY <2>5, <2>6
<1>7. H \subseteq Nat /\ IsFiniteSet(H) /\ \A h \in H : h <= Len(u)
  <2>1. \A h \in H : h \in Nat /\ h <= n
    BY DEF Marked
  <2>2. \A h \in H : h <= Len(u)
    BY <1>2, <2>1
  <2>3. QED
    BY <2>2 DEF Marked
<1>8. A \subseteq C /\ C \subseteq A \cup {n + 1} /\ H \subseteq H
  OBVIOUS
<1>9. n + 1 \in C => \E c \in Bodies : Holds(u, n + 1, Frame[c])
  BY <1>5 DEF r
<1>10. \A p \in Heads(u) : p >= n => Explained(u, C, H, p)
  BY <1>6
<1>11. r \in Seq(Byte) /\ More(u, g, r)
  BY <1>1 DEF r
<1> HIDE DEF C
<1>12. Marked(u, C, H)
  <2>1. /\ A \subseteq C /\ C \subseteq A \cup {Len(g) + 1}
        /\ Len(g) + 1 \in C => \E c \in Bodies : Holds(u, Len(g) + 1, Frame[c])
        /\ \A p \in Heads(u) : p >= Len(g) => Explained(u, C, H, p)
    BY <1>8, <1>9, <1>10
  <2>2. H \subseteq H
    OBVIOUS
  <2> HIDE DEF n
  <2>3. QED
    BY <1>7, <1>11, <2>1, <2>2, MarkedMore
<1>13. QED
  BY <1>4, <1>12 DEF n, C

\* For what a fault leaves a credit is given.
LEMMA MarkedFault ==
    ASSUME NEW g \in Seq(Byte), NEW s \in Seq(Byte), Tame(<< 202 >> \o s),
           NEW u, More(u, g, s), NEW A, NEW H, Marked(g, A, H)
    PROVE  \E h \in Nat : Marked(u, A, H \cup {h})
<1> DEFINE n == Len(g)
           t == <<202>> \o s
<1>1. /\ u \in Seq(Byte) /\ n \in Nat /\ Len(s) \in Nat /\ Len(u) = n + Len(s)
      /\ \A i \in 1..n : u[i] = g[i]
      /\ \A i \in 1..Len(s) : u[n + i] = s[i]
  BY DEF More
<1>2. /\ t \in Seq(Byte) /\ Len(t) = 1 + Len(s) /\ t[1] = 202
      /\ \A i \in 1..Len(s) : t[1 + i] = s[i]
  <2> DEFINE m == <<202>>
  <2>1. m \in Seq(Byte) /\ Len(m) = 1 /\ m[1] = 202
    BY DEF Byte
  <2>2. t = m \o s
    OBVIOUS
  <2> HIDE DEF m, t
  <2>3. /\ t \in Seq(Byte) /\ Len(t) = Len(m) + Len(s)
        /\ \A i \in 1..Len(m) : t[i] = m[i]
        /\ \A i \in 1..Len(s) : t[Len(m) + i] = s[i]
    <3>1. m \in Seq(Byte) /\ s \in Seq(Byte)
      BY <2>1
    <3>2. QED
      BY <2>2, <3>1, Joined
  <2>4. QED
    BY <2>1, <2>3
<1>3. PICK c \in 1..Len(t) : \A i \in Heads(t) : Harmless(t, i) \/ (c >= i /\ c <= Reach(t, i))
  BY DEF Tame
<1> HIDE DEF t
<1> DEFINE h == n + c - 1
           K == H \cup {h}
<1>4. h \in Nat /\ h <= Len(u)
  BY <1>1, <1>2
<1>5. \A a \in A : a \in Nat /\ a + 7 <= n
  <2>1. ASSUME NEW a \in A
        PROVE  a \in Nat /\ a + 7 <= n
    <3>1. a \in Nat \ {0} /\ Long(g, a) \in Nat /\ a + 7 + Long(g, a) <= n
      BY FrameMarked
    <3>2. QED
      BY <1>1, <3>1
  <2>2. QED
    BY <2>1
<1>6. \A i \in 2..Len(t) : u[n + i - 1] = t[i]
  <2>1. ASSUME NEW i \in 2..Len(t)
        PROVE  u[n + i - 1] = t[i]
    <3>1. i - 1 \in 1..Len(s) /\ n + i - 1 = n + (i - 1) /\ i = 1 + (i - 1)
      BY <1>1, <1>2
    <3>2. u[n + (i - 1)] = s[i - 1] /\ t[1 + (i - 1)] = s[i - 1]
      BY <1>1, <1>2, <3>1
    <3>3. QED
      BY <3>1, <3>2
  <2>2. QED
    BY <2>1
<1>7. ASSUME NEW p \in Heads(u), p >= n
      PROVE  Explained(u, A, K, p)
  <2> DEFINE i == p - n + 1
  <2>1. p \in 1..(Len(u) - 1) /\ u[p] = 202 /\ u[p + 1] = 254
    BY <1>7 DEF Heads
  <2>2. /\ i \in 1..(Len(t) - 1) /\ i + 1 \in 2..Len(t)
        /\ p = n + i - 1 /\ p + 1 = n + (i + 1) - 1
        /\ i = 1 \/ i \in 2..Len(t)
    BY <1>1, <1>2, <1>7, <2>1
  <2> HIDE DEF i
  <2>3. t[i] = 202 /\ t[i + 1] = 254
    <3>1. t[i + 1] = 254
      BY <1>6, <2>1, <2>2
    <3>2. CASE i \in 2..Len(t)
      BY <1>6, <2>1, <2>2, <3>1, <3>2
    <3>3. CASE i = 1
      <4>1. t[1] = 202
        BY <1>2
      <4>2. QED
        BY <3>1, <3>3, <4>1
    <3>4. QED
      BY <2>2, <3>2, <3>3
  <2>4. i \in Heads(t)
    BY <2>2, <2>3 DEF Heads
  <2>5. Known(u, p) <=> Known(t, i)
    <3>1. p = n + i - 1 /\ Len(u) = n + Len(t) - 1 /\ n \in Nat /\ i \in Nat /\ Len(t) \in Nat
      BY <1>1, <1>2, <2>2
    <3>2. p + 3 <= Len(u) <=> i + 3 <= Len(t)
      BY <3>1
    <3>3. QED
      BY <3>2 DEF Known
  <2>6. Known(t, i) => Long(u, p) = Long(t, i)
    <3> SUFFICES ASSUME Known(t, i)
                 PROVE  Long(u, p) = Long(t, i)
      OBVIOUS
    <3>1. /\ i + 2 \in 2..Len(t) /\ p + 2 = n + (i + 2) - 1
          /\ i + 3 \in 2..Len(t) /\ p + 3 = n + (i + 3) - 1
      <4>1. p = n + i - 1 /\ n \in Nat /\ i \in Nat /\ i >= 1 /\ Len(t) \in Nat
        BY <1>1, <1>2, <2>2
      <4>2. i + 3 <= Len(t)
        BY DEF Known
      <4>3. QED
        BY <4>1, <4>2
    <3>2. u[n + (i + 2) - 1] = t[i + 2] /\ u[n + (i + 3) - 1] = t[i + 3]
      BY <1>6, <3>1
    <3>3. u[p + 2] = t[i + 2] /\ u[p + 3] = t[i + 3]
      BY <3>1, <3>2
    <3>4. QED
      BY <3>3 DEF Long
  <2>7. CASE Harmless(t, i)
    <3>1. Harmless(u, p)
      BY <2>5, <2>6, <2>7 DEF Harmless
    <3>2. \A a \in A : ~(p < a /\ a <= p + 3)
      BY <1>1, <1>5, <1>7, <2>1
    <3>3. QED
      BY <3>1, <3>2 DEF Explained
  <2>8. CASE c >= i /\ c <= Reach(t, i)
    <3>1. p <= h
      BY <1>1, <2>2, <2>8
    <3>2. h <= Reach(u, p)
      <4>1. Reach(t, i) \in Nat /\ (Reach(u, p) = Reach(t, i) + n - 1)
        <5>1. MessageSize \in Nat
          BY SizeAssumption DEF UInt16
        <5>2. Reach(t, i) \in Nat
          <6>1. More(t, t, <<>>) /\ <<>> \in Seq(Byte) /\ i \in Nat \ {0}
            BY <1>2, <2>2 DEF More
          <6>2. QED
            BY <1>2, <6>1, HeadMore
        <5>3. CASE Known(t, i) /\ Long(t, i) <= MessageSize
          <6>1. Reach(t, i) = i + 7 + Long(t, i) /\ Reach(u, p) = p + 7 + Long(t, i)
            BY <2>5, <2>6, <5>3 DEF Reach
          <6>2. i \in Nat /\ Known(t, i) /\ t \in Seq(Byte)
            BY <1>2, <2>2, <5>3
          <6>3. Long(t, i) \in Nat
            BY <6>2, LongNat
          <6>4. i \in Nat /\ n \in Nat /\ p = n + i - 1
            BY <1>1, <2>2
          <6> DEFINE l == Long(t, i)
                     x == Reach(t, i)
                     y == Reach(u, p)
          <6>5. x = i + 7 + l /\ y = p + 7 + l /\ l \in Nat
            BY <6>1, <6>3
          <6> HIDE DEF l, x, y
          <6>6. y = x + n - 1
            BY <6>4, <6>5
          <6>7. QED
            BY <5>2, <6>6 DEF x, y
        <5>4. CASE ~(Known(t, i) /\ Long(t, i) <= MessageSize)
          <6>1. Reach(t, i) = i + 3 /\ Reach(u, p) = p + 3
            BY <2>5, <2>6, <5>4 DEF Reach
          <6>2. QED
            BY <1>1, <2>2, <5>2, <6>1
        <5>5. QED
          BY <5>3, <5>4
      <4>2. QED
        BY <1>1, <2>8, <4>1
    <3>3. h \in K
      OBVIOUS
    <3>4. QED
      BY <3>1, <3>2, <3>3 DEF Explained
  <2>9. QED
    BY <1>3, <2>4, <2>7, <2>8
<1>8. K \subseteq Nat /\ IsFiniteSet(K) /\ \A x \in K : x <= Len(u)
  <2>1. H \subseteq Nat /\ IsFiniteSet(H) /\ \A x \in H : x <= n
    BY DEF Marked
  <2>2. IsFiniteSet(K)
    BY <2>1, FS_AddElement
  <2>3. \A x \in H : x <= Len(u)
    BY <1>1, <2>1
  <2> HIDE DEF h
  <2>4. QED
    BY <1>4, <2>1, <2>2, <2>3
<1>9. n + 1 \notin A
  BY <1>1, <1>5
<1>10. A \subseteq A \cup {n + 1} /\ A \subseteq A /\ H \subseteq K
  OBVIOUS
<1>11. \A p \in Heads(u) : p >= n => Explained(u, A, K, p)
  BY <1>7
<1> HIDE DEF n, K, h
<1>12. Marked(u, A, K)
  BY <1>8, <1>9, <1>10, <1>11, MarkedMore DEF n
<1>13. QED
  BY <1>4, <1>12 DEF K

\* What is damaged is still bytes.
LEMMA DamagedBytes ==
    ASSUME NEW s \in Seq(Byte), NEW t \in Damaged(s)
    PROVE  t \in Seq(Byte)
<1>1. CASE t \in {SubSeq(s, 1, k) : k \in 0..(Len(s) - 1)}
  BY <1>1
<1>2. CASE t \in {RemoveAt(s, k) : k \in 1..Len(s)}
  <2>1. PICK k \in 1..Len(s) : t = RemoveAt(s, k)
    BY <1>2
  <2>2. t = SubSeq(s, 1, k - 1) \o SubSeq(s, k + 1, Len(s))
    BY <2>1 DEF RemoveAt
  <2>3. SubSeq(s, 1, k - 1) \in Seq(Byte) /\ SubSeq(s, k + 1, Len(s)) \in Seq(Byte)
    OBVIOUS
  <2>4. QED
    BY <2>2, <2>3
<1>3. CASE t \in {ReplaceAt(s, k, v) : k \in 1..Len(s), v \in Flips}
  <2>1. PICK k \in 1..Len(s), v \in Flips : t = ReplaceAt(s, k, v)
    BY <1>3
  <2>2. v \in Byte
    BY NoiseAssumption
  <2>3. t = [s EXCEPT ![k] = v]
    BY <2>1 DEF ReplaceAt
  <2>4. QED
    BY <2>2, <2>3
<1>4. QED
  BY <1>1, <1>2, <1>3 DEF Damaged

-----------------------------------------------------------------------------
(***************************************************************************)
(* What is read.                                                           *)
(***************************************************************************)

\* What is left, and more of it.
LEMMA RestMore ==
    ASSUME NEW g \in Seq(Byte), NEW t \in Seq(Byte), NEW u, NEW v, NEW w, NEW o \in Nat,
           Rest(u, g, o), More(v, u, t), More(w, g, t)
    PROVE  Rest(v, w, o)
<1> DEFINE n == Len(g)
           l == Len(t)
<1>1. n \in Nat /\ l \in Nat
  OBVIOUS
<1>2. u \in Seq(Byte) /\ Len(u) = n - o /\ \A i \in 1..Len(u) : u[i] = g[i + o]
  BY DEF Rest
<1>3. /\ v \in Seq(Byte) /\ Len(v) = Len(u) + l
      /\ \A i \in 1..Len(u) : v[i] = u[i]
      /\ \A i \in 1..l : v[Len(u) + i] = t[i]
  BY DEF More
<1>4. /\ w \in Seq(Byte) /\ Len(w) = n + l
      /\ \A i \in 1..n : w[i] = g[i]
      /\ \A i \in 1..l : w[n + i] = t[i]
  BY DEF More
<1>5. Len(u) \in Nat /\ Len(v) = Len(w) - o
  BY <1>1, <1>2, <1>3, <1>4
<1> HIDE DEF n, l
<1>6. ASSUME NEW i \in 1..Len(v)
      PROVE  v[i] = w[i + o]
  <2>1. CASE i \in 1..Len(u)
    <3>1. i + o \in 1..n
      BY <1>1, <1>2, <1>5, <2>1
    <3>2. QED
      BY <1>2, <1>3, <1>4, <2>1, <3>1
  <2>2. CASE i > Len(u)
    <3> DEFINE j == i - Len(u)
    <3>1. j \in 1..l /\ i = Len(u) + j /\ i + o = n + j
      BY <1>1, <1>2, <1>3, <1>5, <2>2
    <3> HIDE DEF j
    <3>2. v[Len(u) + j] = t[j] /\ w[n + j] = t[j]
      BY <1>3, <1>4, <3>1
    <3>3. QED
      BY <3>1, <3>2
  <2>3. QED
    BY <1>5, <2>1, <2>2
<1>7. QED
  BY <1>3, <1>5, <1>6 DEF Rest

\* What is left of what is left.
LEMMA RestRest ==
    ASSUME NEW g \in Seq(Byte), NEW u, NEW v, NEW o \in Nat, NEW k \in Nat,
           Rest(u, g, o), Rest(v, u, k)
    PROVE  Rest(v, g, o + k)
<1>1. u \in Seq(Byte) /\ Len(u) = Len(g) - o /\ \A i \in 1..Len(u) : u[i] = g[i + o]
  BY DEF Rest
<1>2. v \in Seq(Byte) /\ Len(v) = Len(u) - k /\ \A i \in 1..Len(v) : v[i] = u[i + k]
  BY DEF Rest
<1>3. Len(g) \in Nat /\ Len(u) \in Nat /\ Len(v) \in Nat
  BY <1>1, <1>2
<1>4. Len(v) = Len(g) - (o + k)
  BY <1>1, <1>2, <1>3
<1>5. ASSUME NEW i \in 1..Len(v)
      PROVE  v[i] = g[i + (o + k)]
  <2>1. i + k \in 1..Len(u) /\ (i + k) + o = i + (o + k)
    BY <1>2, <1>3
  <2>2. QED
    BY <1>1, <1>2, <2>1
<1>6. QED
  BY <1>2, <1>4, <1>5 DEF Rest

\* Four bytes that are a header stand in g as one.
LEMMA HeadRead ==
    ASSUME NEW g \in Seq(Byte), NEW o \in Nat, NEW u, Rest(u, g, o), Len(u) >= 4,
           NEW h, \A i \in 1..4 : h[i] = u[i], IsHeader(h)
    PROVE  /\ o + 1 \in Heads(g) /\ Known(g, o + 1)
           /\ Long(g, o + 1) = MessageLength(h) /\ MessageLength(h) \in Nat
<1>1. /\ u \in Seq(Byte) /\ Len(u) = Len(g) - o /\ \A i \in 1..Len(u) : u[i] = g[i + o]
      /\ Len(g) \in Nat
  BY DEF Rest
<1>2. /\ o + 1 \in 1..(Len(g) - 1) /\ (o + 1) + 3 <= Len(g)
      /\ 1 + o = o + 1 /\ 2 + o = (o + 1) + 1 /\ 3 + o = (o + 1) + 2 /\ 4 + o = (o + 1) + 3
      /\ \A i \in 1..4 : i \in 1..Len(u)
  BY <1>1
<1>3. \A i \in 1..4 : h[i] = g[i + o]
  BY <1>1, <1>2
<1>4. h[1] = g[o + 1] /\ h[2] = g[(o + 1) + 1] /\ h[3] = g[(o + 1) + 2] /\ h[4] = g[(o + 1) + 3]
  <2>1. h[1] = g[1 + o] /\ h[2] = g[2 + o] /\ h[3] = g[3 + o] /\ h[4] = g[4 + o]
    BY <1>3
  <2>2. QED
    BY <1>2, <2>1
<1>5. o + 1 \in Heads(g)
  BY <1>2, <1>4 DEF Heads, IsHeader
<1>6. Known(g, o + 1) /\ Long(g, o + 1) = MessageLength(h)
  BY <1>2, <1>4 DEF Known, Long, MessageLength
<1>7. Long(g, o + 1) \in Nat
  BY <1>6, LongNat
<1>8. QED
  BY <1>5, <1>6, <1>7

\* No frame starts in a header of a length that is not refused: the length would
\* hold the first magic byte.
LEMMA NoneNear ==
    ASSUME MessageSize < 202 * 256,
           NEW g \in Seq(Byte), NEW A, NEW H, Marked(g, A, H), NEW p \in Heads(g),
           Known(g, p), Long(g, p) <= MessageSize, NEW a \in A
    PROVE  ~(p < a /\ a <= p + 3)
<1>1. p \in Nat \ {0} /\ p + 3 <= Len(g) /\ g[p + 1] = 254
  BY DEF Heads, Known
<1>2. a \in Nat \ {0} /\ g[a] = 202 /\ g[a + 1] = 254
  BY FrameMarked
<1>3. MessageSize \in Nat
  BY SizeAssumption DEF UInt16
<1>4. g[p + 2] \in Nat /\ g[p + 3] \in Nat
  <2>1. p + 2 \in 1..Len(g) /\ p + 3 \in 1..Len(g)
    BY <1>1
  <2>2. g[p + 2] \in Byte /\ g[p + 3] \in Byte
    BY <2>1
  <2>3. Byte \subseteq Nat
    BY DEF Byte
  <2>4. QED
    BY <2>2, <2>3
<1>5. g[p + 2] + 256 * g[p + 3] < 202 * 256
  BY <1>3, <1>4 DEF Long
<1>6. g[p + 3] < 202
  BY <1>4, <1>5
<1>7. a # p + 1
  BY <1>1, <1>2
<1>8. a # p + 3
  BY <1>2, <1>4, <1>6
<1>9. a # p + 2
  <2> SUFFICES ASSUME a = p + 2
               PROVE  FALSE
    OBVIOUS
  <2>1. a + 1 = p + 3
    BY <1>1
  <2>2. QED
    BY <1>2, <1>4, <1>6, <2>1
<1>10. QED
  BY <1>1, <1>2, <1>7, <1>8, <1>9

-----------------------------------------------------------------------------
(***************************************************************************)
(* The invariant, step by step.                                            *)
(***************************************************************************)

\* What the receiver knows of the header it reads.
Ready ==
    /\ Buffers /\ pc \in {"header", "scan", "body"}
    /\ pc = "scan" => ~IsHeader(header)
    /\ pc = "body" => IsHeader(header) /\ ~TooLarge(header)

\* With u unread, and s messages sent, d returned and f faults, there are marks and
\* an account of them.
Balanced(u, s, d, f) ==
    \E g \in Seq(Byte), o \in Nat : \E A, H :
        Marked(g, A, H) /\ Rest(u, g, o) /\ Accounted(A, H, o, s, d, f)

LossInv ==
    /\ Ready
    /\ sent \in Seq(Bodies) /\ delivered \in Seq(Seq(Byte)) /\ faults \in Nat
    /\ Balanced(Unread, Len(sent), Len(delivered), faults)

\* The header of a body that is read stands in what is unread.
LEMMA UnreadHeader ==
    ASSUME Ready, pc # "header"
    PROVE  /\ Unread \in Seq(Byte) /\ Len(line) \in Nat /\ Len(Unread) = 4 + Len(line)
           /\ \A i \in 1..4 : Unread[i] = header[i]
BY UnreadBytes DEF Ready

\* Who waits for a header has less than eight bytes.
LEMMA WaitingFew ==
    ASSUME Ready, Starved, pc # "body"
    PROVE  Len(Unread) < 8
<1>1. Len(line) \in Nat
  BY DEF Ready, Buffers
<1>2. CASE pc = "header"
  <2>1. Len(line) < 4 /\ Unread = line
    BY <1>2 DEF Starved, Wanted, HEADER_SIZE, Unread
  <2>2. QED
    BY <1>1, <2>1
<1>3. CASE pc = "scan"
  <2>1. Len(line) < 1
    BY <1>3 DEF Starved, Wanted
  <2>2. Len(Unread) = 4 + Len(line)
    BY <1>3, UnreadHeader
  <2>3. QED
    BY <1>1, <2>1, <2>2
<1>4. QED
  BY <1>2, <1>3 DEF Ready

\* No frame is ahead when less than eight bytes are unread.
LEMMA NoneAhead ==
    ASSUME NEW g \in Seq(Byte), NEW A, NEW H, Marked(g, A, H), NEW o \in Nat,
           NEW u, Rest(u, g, o), Len(u) < 8
    PROVE  Ahead(A, o) = {} /\ \A q : Between(A, o, q) = {}
<1>1. Len(g) \in Nat /\ u \in Seq(Byte) /\ Len(u) = Len(g) - o
  BY DEF Rest
<1>2. ASSUME NEW a \in A
      PROVE  ~(a > o)
  <2>1. a \in Nat \ {0} /\ Long(g, a) \in Nat /\ a + 7 + Long(g, a) <= Len(g)
    BY FrameMarked
  <2>2. QED
    BY <1>1, <2>1
<1>3. Ahead(A, o) = {}
  BY <1>2 DEF Ahead
<1>4. ASSUME NEW q
      PROVE  Between(A, o, q) = {}
  <2>1. \A a \in A : a \in Nat /\ ~(o < a)
    <3>1. A \subseteq Nat
      BY DEF Marked
    <3>2. QED
      BY <1>2, <3>1
  <2>2. QED
    BY <2>1 DEF Between
<1>5. QED
  BY <1>3, <1>4

\* Nothing changes in the account where no frame starts.
LEMMA AdvanceFree ==
    ASSUME NEW g \in Seq(Byte), NEW A, NEW H, Marked(g, A, H), Bodies # {},
           NEW o \in Nat, NEW q \in Nat, o <= q, Between(A, o, q) = {},
           NEW s \in Nat, NEW d \in Nat, NEW f \in Nat, Accounted(A, H, o, s, d, f)
    PROVE  Accounted(A, H, q, s, d, f)
<1>1. A \subseteq Nat /\ IsFiniteSet(A)
  BY DEF Marked
<1>2. Cardinality(Between(A, o, q)) = 0
  BY <1>1, Counts
<1>3. d <= d /\ d + 0 <= d
  OBVIOUS
<1>4. QED
  BY <1>2, <1>3, Advance

\* Four bytes that are examined: none is lost, or a header that is refused and takes
\* no frame with it, or has a credit for those it does.
LEMMA ExamineLoses ==
    ASSUME Bodies # {}, NEW h, FourBytes(h), Examine(h), line' \in Seq(Byte),
           NEW g \in Seq(Byte), NEW A, NEW H, Marked(g, A, H), NEW o \in Nat,
           Rest(h \o line', g, o),
           NEW s \in Nat, NEW d \in Nat, NEW f \in Nat, Accounted(A, H, o, s, d, f)
    PROVE  Ready' /\ Balanced(Unread', s, d, f)
<1> DEFINE u == h \o line'
           q == o + 4
           p == o + 1
<1>1. /\ header' = h
      /\ pc' = IF ~IsHeader(h) THEN "scan" ELSE IF TooLarge(h) THEN "header" ELSE "body"
  BY DEF Examine
<1>2. Buffers'
  BY <1>1 DEF Buffers, FourBytes
<1>3. Ready'
  <2>1. pc' \in {"header", "scan", "body"}
    BY <1>1
  <2>2. pc' = "scan" => ~IsHeader(h)
    BY <1>1
  <2>3. pc' = "body" => IsHeader(h) /\ ~TooLarge(h)
    BY <1>1
  <2>4. /\ pc' = "scan" => ~IsHeader(header)'
        /\ pc' = "body" => IsHeader(header)' /\ ~TooLarge(header)'
    BY <1>1, <2>2, <2>3 DEF IsHeader, TooLarge, MessageLength
  <2>5. QED
    BY <1>2, <2>1, <2>4 DEF Ready
<1>4. CASE pc' # "header"
  <2>1. Unread' = u
    BY <1>1, <1>4 DEF Unread
  <2>2. QED
    BY <1>3, <2>1 DEF Balanced
<1>5. CASE pc' = "header"
  <2>1. IsHeader(h) /\ TooLarge(h) /\ Unread' = line'
    BY <1>1, <1>5 DEF Unread
  <2>2. /\ u \in Seq(Byte) /\ Len(u) = 4 + Len(line') /\ Len(line') \in Nat
        /\ \A i \in 1..4 : u[i] = h[i]
        /\ \A i \in 1..Len(line') : u[4 + i] = line'[i]
    <3>1. h \in Seq(Byte) /\ Len(h) = 4
      BY DEF FourBytes
    <3>2. /\ u \in Seq(Byte) /\ Len(u) = Len(h) + Len(line')
          /\ \A i \in 1..Len(h) : u[i] = h[i]
          /\ \A i \in 1..Len(line') : u[Len(h) + i] = line'[i]
      <4> DEFINE t == line'
      <4>1. h \in Seq(Byte) /\ t \in Seq(Byte) /\ u = h \o t
        BY <3>1
      <4> HIDE DEF t, u
      <4>2. /\ u \in Seq(Byte) /\ Len(u) = Len(h) + Len(t)
            /\ \A i \in 1..Len(h) : u[i] = h[i]
            /\ \A i \in 1..Len(t) : u[Len(h) + i] = t[i]
        BY <4>1, Joined
      <4>3. QED
        BY <4>2 DEF t
    <3> HIDE DEF u
    <3>3. QED
      BY <3>1, <3>2
  <2>3. Rest(u, g, o)
    OBVIOUS
  <2> HIDE DEF u
  <2>4. Rest(line', u, 4)
    <3>1. Len(line') = Len(u) - 4 /\ \A i \in 1..Len(line') : 4 + i = i + 4
      BY <2>2
    <3>2. \A i \in 1..Len(line') : line'[i] = u[i + 4]
      BY <2>2, <3>1
    <3>3. QED
      BY <3>1, <3>2 DEF Rest
  <2>5. Rest(line', g, q)
    BY <2>3, <2>4, RestRest
  <2>6. /\ p \in Heads(g) /\ Known(g, p) /\ Long(g, p) = MessageLength(h)
        /\ MessageLength(h) \in Nat
    <3>1. Len(u) >= 4 /\ \A i \in 1..4 : h[i] = u[i]
      BY <2>2
    <3>2. IsHeader(h)
      BY <2>1
    <3> HIDE DEF p
    <3>3. QED
      BY <2>3, <3>1, <3>2, HeadRead DEF p
  <2>7. MessageSize \in Nat /\ Long(g, p) > MessageSize
    BY <2>1, <2>6, SizeAssumption DEF TooLarge, UInt16
  <2>8. p \notin A
    <3>1. p \in A => Long(g, p) <= MessageSize
      BY FrameMarked
    <3>2. QED
      BY <2>6, <2>7, <3>1
  <2>9. o <= q /\ q \in Nat
    OBVIOUS
  <2>10. CASE \A a \in A : ~(p < a /\ a <= p + 3)
    <3>1. Between(A, o, q) = {}
      <4>1. \A a \in A : a \in Nat /\ a # p
        BY <2>8 DEF Marked
      <4>2. \A a \in A : ~(o < a /\ a <= q)
        BY <2>10, <4>1
      <4>3. QED
        BY <4>2 DEF Between
    <3> HIDE DEF q
    <3>2. Accounted(A, H, q, s, d, f)
      BY <2>9, <3>1, AdvanceFree
    <3>3. QED
      BY <1>3, <2>1, <2>5, <2>9, <3>2 DEF Balanced
  <2>11. CASE \E x \in H : p <= x /\ x <= Reach(g, p)
    <3>1. Between(H, o, q) # {}
      <4>1. PICK x \in H : p <= x /\ x <= Reach(g, p)
        BY <2>11
      <4>2. Reach(g, p) = p + 3 /\ x \in Nat
        BY <2>6, <2>7 DEF Reach, Marked
      <4>3. o < x /\ x <= q
        BY <4>1, <4>2
      <4>4. x \in Between(H, o, q)
        BY <4>1, <4>3 DEF Between
      <4>5. QED
        BY <4>4
    <3>2. Cardinality(Between(A, o, q)) <= Swept
      <4>1. Swept \in Nat /\ 4 <= Swept * ShortestFrame /\ Swept * ShortestFrame \in Nat
        <5>1. /\ Swept \in Nat /\ MessageSize + 4 <= Swept * ShortestFrame
              /\ Swept * ShortestFrame \in Nat
          BY Covered
        <5> DEFINE z == Swept * ShortestFrame
        <5> HIDE DEF z
        <5>2. MessageSize + 4 <= z /\ z \in Nat
          BY <5>1 DEF z
        <5>3. 4 <= z
          BY <2>7, <5>2
        <5>4. QED
          BY <5>1, <5>3 DEF z
      <4>2. q <= o + Swept * ShortestFrame
        BY <4>1
      <4> HIDE DEF q
      <4>3. QED
        BY <2>9, <4>1, <4>2, Crowd
    <3> HIDE DEF q
    <3>3. d <= d
      OBVIOUS
    <3>4. Accounted(A, H, q, s, d, f)
      BY <2>9, <3>1, <3>2, <3>3, Advance
    <3>5. QED
      BY <1>3, <2>1, <2>5, <2>9, <3>4 DEF Balanced
  <2>12. Explained(g, A, H, p)
    BY <2>6 DEF Marked
  <2>13. QED
    BY <2>8, <2>10, <2>11, <2>12 DEF Explained
<1>6. QED
  BY <1>4, <1>5

\* The header of the body that is read stands in g.
LEMMA HeaderStands ==
    ASSUME Ready, pc = "body", NEW g \in Seq(Byte), NEW o \in Nat, Rest(Unread, g, o)
    PROVE  LET m == MessageLength(header)
           IN  /\ m \in Nat /\ m <= MessageSize /\ MessageSize \in Nat
               /\ o + 1 \in Heads(g) /\ Known(g, o + 1) /\ Long(g, o + 1) = m
               /\ Len(line) \in Nat /\ Len(g) = o + 4 + Len(line)
<1> DEFINE m == MessageLength(header)
           u == Unread
<1>1. /\ u \in Seq(Byte) /\ Len(line) \in Nat /\ Len(u) = 4 + Len(line)
      /\ \A i \in 1..4 : u[i] = header[i]
  BY UnreadHeader
<1>2. IsHeader(header) /\ ~TooLarge(header)
  BY DEF Ready
<1>3. Rest(u, g, o)
  OBVIOUS
<1> HIDE DEF u
<1>4. Len(u) >= 4 /\ \A i \in 1..4 : header[i] = u[i]
  BY <1>1
<1>5. o + 1 \in Heads(g) /\ Known(g, o + 1) /\ Long(g, o + 1) = m /\ m \in Nat
  BY <1>2, <1>3, <1>4, HeadRead
<1>6. MessageSize \in Nat /\ m <= MessageSize
  <2>1. MessageSize \in Nat /\ ~(m > MessageSize)
    BY <1>2, SizeAssumption DEF TooLarge, UInt16
  <2> HIDE DEF m
  <2>2. QED
    BY <1>5, <2>1
<1>7. Len(g) = o + 4 + Len(line)
  <2>1. Len(u) = Len(g) - o /\ Len(g) \in Nat
    BY <1>3 DEF Rest
  <2>2. QED
    BY <1>1, <2>1
<1>8. QED
  BY <1>1, <1>5, <1>6, <1>7

\* A frame that starts where what is unread does.
LEMMA StartHolds ==
    ASSUME NEW g \in Seq(Byte), NEW o \in Nat, NEW u, Rest(u, g, o),
           NEW f, Len(f) \in Nat, Holds(g, o + 1, f)
    PROVE  Holds(u, 1, f)
<1>1. /\ u \in Seq(Byte) /\ Len(u) = Len(g) - o /\ Len(g) \in Nat
      /\ \A i \in 1..Len(u) : u[i] = g[i + o]
  BY DEF Rest
<1>2. (o + 1) + Len(f) - 1 <= Len(g) /\ \A j \in 1..Len(f) : g[(o + 1) + j - 1] = f[j]
  BY DEF Holds
<1>3. \A j \in 1..Len(f) : /\ 1 + j - 1 \in 1..Len(u) /\ 1 + j - 1 = j
                           /\ j + o = (o + 1) + j - 1
  BY <1>1, <1>2
<1>4. \A j \in 1..Len(f) : u[1 + j - 1] = f[j]
  BY <1>1, <1>2, <1>3
<1>5. 1 + Len(f) - 1 <= Len(u)
  BY <1>1, <1>2
<1>6. QED
  BY <1>4, <1>5 DEF Holds

\* What a header that is not of a frame takes with it.
LEMMA SweptAway ==
    ASSUME MessageSize < 202 * 256, Bodies # {},
           NEW g \in Seq(Byte), NEW A, NEW H, Marked(g, A, H), NEW o \in Nat,
           o + 1 \in Heads(g), Known(g, o + 1), Long(g, o + 1) <= MessageSize,
           o + 1 \notin A, NEW q \in Nat
    PROVE  /\ q <= o + 4 => Between(A, o, q) = {}
           /\ q <= o + 8 + MessageSize => Cardinality(Between(A, o, q)) <= Swept
<1> DEFINE p == o + 1
           w == o + 4
<1>1. \A a \in A : a \in Nat /\ a # p /\ ~(p < a /\ a <= p + 3)
  <2>1. A \subseteq Nat
    BY DEF Marked
  <2>2. \A a \in A : ~(p < a /\ a <= p + 3)
    BY NoneNear
  <2>3. QED
    BY <2>1, <2>2
<1>2. \A a \in A : a > o => a > w
  BY <1>1
<1>3. ASSUME q <= w
      PROVE  Between(A, o, q) = {}
  <2>1. \A a \in A : ~(o < a /\ a <= q)
    BY <1>1, <1>2, <1>3
  <2>2. QED
    BY <2>1 DEF Between
<1>4. ASSUME q <= o + 8 + MessageSize
      PROVE  Cardinality(Between(A, o, q)) <= Swept
  <2>1. Between(A, o, q) = Between(A, w, q)
    <3>1. \A a \in A : (o < a /\ a <= q) <=> (w < a /\ a <= q)
      BY <1>1, <1>2
    <3> HIDE DEF w
    <3>2. QED
      BY <3>1 DEF Between
  <2> DEFINE z == Swept * ShortestFrame
  <2>2. Swept \in Nat /\ MessageSize + 4 <= z /\ z \in Nat /\ MessageSize \in Nat
    BY Covered
  <2> HIDE DEF z
  <2>3. w \in Nat /\ q <= w + z
    BY <1>4, <2>2
  <2> HIDE DEF w
  <2>4. Cardinality(Between(A, w, q)) <= Swept
    BY <2>2, <2>3, Crowd DEF z
  <2>5. QED
    BY <2>1, <2>4
<1>5. QED
  BY <1>3, <1>4

\* A body is read: that of a frame is returned, and only that; what is taken for one
\* otherwise has a credit.
LEMMA BodyLoses ==
    ASSUME MessageSize < 202 * 256, Bodies # {}, LossInv, ReadBody
    PROVE  /\ Ready' /\ delivered' \in Seq(Seq(Byte))
           /\ Balanced(Unread', Len(sent), Len(delivered'), faults)
<1> DEFINE m == MessageLength(header)
           w == m + FOOTER_SIZE
           rest == SubSeq(line, 1, w)
           body == SubSeq(rest, 1, m)
           s == Len(sent)
           d == Len(delivered)
           e == Len(delivered')
           f == faults
<1>1. pc = "body" /\ Wanted = w /\ Ready
  BY DEF ReadBody, Wanted, LossInv
<1>2. /\ delivered' = IF Sound(header, rest) THEN Append(delivered, body) ELSE delivered
      /\ line' = SubSeq(line, w + 1, Len(line)) /\ pc' = "header" /\ header' = header
      /\ ~(Len(line) < w)
  BY <1>1 DEF ReadBody, Starved
<1>3. PICK g \in Seq(Byte), o \in Nat : \E A, H :
          Marked(g, A, H) /\ Rest(Unread, g, o) /\ Accounted(A, H, o, s, d, f)
  BY DEF LossInv, Balanced
<1>4. PICK A, H : Marked(g, A, H) /\ Rest(Unread, g, o) /\ Accounted(A, H, o, s, d, f)
  BY <1>3
<1>5. /\ m \in Nat /\ m <= MessageSize /\ MessageSize \in Nat
      /\ o + 1 \in Heads(g) /\ Known(g, o + 1) /\ Long(g, o + 1) = m
      /\ Len(line) \in Nat /\ Len(g) = o + 4 + Len(line)
  BY <1>1, <1>4, HeaderStands
<1>6. line \in Seq(Byte) /\ header \in Seq(Byte) /\ Len(header) = 4 /\ Buffers
  BY <1>1 DEF Ready, Buffers
<1>7. s \in Nat /\ d \in Nat /\ f \in Nat /\ delivered \in Seq(Seq(Byte))
  BY DEF LossInv
<1>8. w = m + 4 /\ w \in 0..Len(line)
  BY <1>2, <1>5 DEF FOOTER_SIZE
<1> HIDE DEF m, w
<1>9. delivered' \in Seq(Seq(Byte)) /\ e \in Nat /\ d <= e
  <2>1. rest \in Seq(Byte) /\ Len(rest) = w
    BY <1>6, <1>8
  <2> HIDE DEF rest
  <2>2. body \in Seq(Byte)
    BY <1>5, <1>8, <2>1
  <2> HIDE DEF body
  <2>3. Append(delivered, body) \in Seq(Seq(Byte)) /\ Len(Append(delivered, body)) = d + 1
    BY <1>7, <2>2
  <2>4. CASE delivered' = Append(delivered, body)
    BY <1>7, <2>3, <2>4
  <2>5. CASE delivered' = delivered
    BY <1>7, <2>5
  <2>6. QED
    BY <1>2, <2>4, <2>5
<1>10. Rest(line', line, w) /\ line' \in Seq(Byte)
  <2>1. Rest(line', line, w)
    BY <1>2, <1>6, <1>8, RestOf
  <2>2. QED
    BY <2>1 DEF Rest
<1>11. Ready' /\ Unread' = line'
  BY <1>2, <1>6, <1>10 DEF Ready, Buffers, Unread
<1> DEFINE q == o + (w + 4)
<1>12. Rest(line', g, q)
  <2>1. Rest(line', Unread, w + 4)
    BY <1>1, <1>6, <1>8, <1>10, RestUnread
  <2>2. w + 4 \in Nat
    BY <1>8
  <2>3. QED
    BY <1>4, <2>1, <2>2, RestRest
<1>13. q \in Nat /\ o <= q /\ q = o + 8 + m
  BY <1>5, <1>8
<1> HIDE DEF q, s, d, e, f, rest, body
<1>14. CASE o + 1 \in A
  <2>1. PICK b \in Bodies : Holds(g, o + 1, Frame[b])
    BY <1>4, <1>14 DEF Marked
  <2>2. Holds(Unread, 1, Frame[b])
    <3>1. Frame[b] \in Seq(Byte)
      BY FrameSpan
    <3>2. Len(Frame[b]) \in Nat
      BY <3>1
    <3>3. QED
      BY <1>4, <2>1, <3>2, StartHolds
  <2>3. delivered' = Append(delivered, b)
    BY <1>6, <2>2, FrameReturned
  <2>4. b \in Seq(Byte)
    BY BodiesAssumption
  <2>5. e = d + 1
    BY <1>7, <2>3, <2>4 DEF d, e
  <2>6. Between(A, o, q) = {o + 1}
    <3>1. ASSUME NEW a \in A, o < a, a <= q
          PROVE  a = o + 1
      <4>1. a \in Nat
        BY <1>4 DEF Marked
      <4>2. ~(o + 1 < a)
        <5> SUFFICES ASSUME o + 1 < a
                     PROVE  FALSE
          OBVIOUS
        <5>1. (o + 1) + 8 + Long(g, o + 1) <= a
          BY <1>4, <1>14, Apart
        <5>2. QED
          BY <1>5, <1>13, <3>1, <4>1, <5>1
      <4>3. QED
        BY <3>1, <4>1, <4>2
    <3>2. o < o + 1 /\ o + 1 <= q
      BY <1>5, <1>13
    <3>3. \A a : a \in Between(A, o, q) <=> a = o + 1
      BY <1>14, <3>1, <3>2 DEF Between
    <3>4. QED
      BY <3>3
  <2>7. Cardinality(Between(A, o, q)) = 1
    BY <2>6, FS_Singleton
  <2>8. Accounted(A, H, q, s, e, f)
    <3>1. d + 1 <= e
      BY <1>7, <2>5
    <3>2. QED
      BY <1>4, <1>7, <1>9, <1>13, <2>7, <3>1, Advance
  <2>9. QED
    BY <1>4, <1>9, <1>11, <1>12, <1>13, <2>8 DEF Balanced, s, e, f
<1>15. CASE o + 1 \notin A
  <2>1. Between(H, o, q) # {}
    <3>1. ~Harmless(g, o + 1)
      BY <1>5 DEF Harmless
    <3>2. Explained(g, A, H, o + 1)
      BY <1>4, <1>5 DEF Marked
    <3>3. PICK h \in H : o + 1 <= h /\ h <= Reach(g, o + 1)
      BY <1>15, <3>1, <3>2 DEF Explained
    <3>4. Reach(g, o + 1) = (o + 1) + 7 + m
      BY <1>5 DEF Reach
    <3>5. h \in Nat
      BY <1>4 DEF Marked
    <3>6. o < h /\ h <= q
      BY <1>5, <1>13, <3>3, <3>4, <3>5
    <3>7. h \in Between(H, o, q)
      BY <3>6 DEF Between
    <3>8. QED
      BY <3>7
  <2>2. Cardinality(Between(A, o, q)) <= Swept
    <3>1. q <= o + 8 + MessageSize
      BY <1>5, <1>13
    <3>2. Long(g, o + 1) <= MessageSize
      BY <1>5
    <3>3. QED
      BY <1>4, <1>5, <1>13, <1>15, <3>1, <3>2, SweptAway
  <2>3. Accounted(A, H, q, s, e, f)
    BY <1>4, <1>7, <1>9, <1>13, <2>1, <2>2, Advance
  <2>4. QED
    BY <1>4, <1>9, <1>11, <1>12, <1>13, <2>3 DEF Balanced, s, e, f
<1>16. QED
  BY <1>14, <1>15

\* A read that is given up leaves the line after j bytes, and nothing in the buffer.
LEMMA GivenUp ==
    ASSUME Ready, NEW k \in 0..Len(line), GiveUp(k)
    PROVE  /\ Ready' /\ sent' = sent /\ delivered' = delivered
           /\ \E j \in {0, k} : Rest(Unread', Unread, IF pc = "header" THEN j ELSE j + 4)
<1>1. PICK j \in {0, k} : line' = SubSeq(line, j + 1, Len(line))
  BY DEF GiveUp
<1>2. pc' = "header" /\ header' = header /\ sent' = sent /\ delivered' = delivered
  BY DEF GiveUp
<1>3. line \in Seq(Byte) /\ header \in Seq(Byte) /\ Len(header) = 4 /\ Buffers
  BY DEF Ready, Buffers
<1>4. j \in 0..Len(line) /\ j \in Nat
  BY <1>3
<1>5. Rest(line', line, j) /\ line' \in Seq(Byte)
  <2>1. Rest(line', line, j)
    BY <1>1, <1>3, <1>4, RestOf
  <2>2. QED
    BY <2>1 DEF Rest
<1>6. Unread' = line' /\ Ready'
  BY <1>2, <1>3, <1>5 DEF Ready, Buffers, Unread
<1>7. Rest(Unread', Unread, IF pc = "header" THEN j ELSE j + 4)
  BY <1>3, <1>4, <1>5, <1>6, RestUnread
<1>8. QED
  BY <1>2, <1>6, <1>7

\* A read that waits for bytes nobody has sent is of a header, and then there is no
\* frame to lose, or of a body nobody has sent, and then there is a credit.
LEMMA TimeoutLoses ==
    ASSUME MessageSize < 202 * 256, Bodies # {}, LossInv, Timeout
    PROVE  LossInv'
<1> DEFINE s == Len(sent)
           d == Len(delivered)
           f == faults
<1>1. Ready /\ Starved /\ GiveUp(Len(line)) /\ faults' = faults
  BY DEF Timeout, LossInv
<1>2. Len(line) \in Nat
  BY <1>1 DEF Ready, Buffers
<1>3. Len(line) \in 0..Len(line)
  BY <1>2
<1>4. /\ Ready' /\ sent' = sent /\ delivered' = delivered
      /\ \E j \in {0, Len(line)} : Rest(Unread', Unread, IF pc = "header" THEN j ELSE j + 4)
  BY <1>1, <1>3, GivenUp
<1>5. PICK j \in {0, Len(line)} : Rest(Unread', Unread, IF pc = "header" THEN j ELSE j + 4)
  BY <1>4
<1>6. PICK g \in Seq(Byte), o \in Nat : \E A, H :
          Marked(g, A, H) /\ Rest(Unread, g, o) /\ Accounted(A, H, o, s, d, f)
  BY DEF LossInv, Balanced
<1>7. PICK A, H : Marked(g, A, H) /\ Rest(Unread, g, o) /\ Accounted(A, H, o, s, d, f)
  BY <1>6
<1>8. /\ sent \in Seq(Bodies) /\ delivered \in Seq(Seq(Byte)) /\ f \in Nat
      /\ s \in Nat /\ d \in Nat
  BY DEF LossInv
<1> DEFINE k == IF pc = "header" THEN j ELSE j + 4
           q == o + k
<1>9. k \in Nat /\ q \in Nat /\ o <= q
  BY <1>2, <1>5
<1>10. Rest(Unread', g, q)
  BY <1>5, <1>7, <1>9, RestRest
<1>11. Accounted(A, H, q, s, d, f)
  <2>1. CASE pc # "body"
    <3>1. Len(Unread) < 8
      BY <1>1, <2>1, WaitingFew
    <3> HIDE DEF k, q, s, d, f
    <3>2. Between(A, o, q) = {}
      BY <1>7, <3>1, NoneAhead
    <3>3. QED
      BY <1>7, <1>8, <1>9, <3>2, AdvanceFree
  <2>2. CASE pc = "body"
    <3> DEFINE m == MessageLength(header)
               p == o + 1
    <3>1. /\ m \in Nat /\ m <= MessageSize /\ MessageSize \in Nat
          /\ p \in Heads(g) /\ Known(g, p) /\ Long(g, p) = m
          /\ Len(g) = o + 4 + Len(line)
      BY <1>1, <1>7, <2>2, HeaderStands
    <3>2. Len(line) < m + 4
      BY <1>1, <2>2 DEF Starved, Wanted, FOOTER_SIZE
    <3>3. q = o + (j + 4)
      BY <2>2
    <3> HIDE DEF k, q, s, d, f, m
    <3>4. p \notin A
      <4> SUFFICES ASSUME p \in A
                   PROVE  FALSE
        OBVIOUS
      <4>1. p + 7 + Long(g, p) <= Len(g)
        BY <1>7, FrameMarked
      <4>2. QED
        BY <1>2, <3>1, <3>2, <4>1
    <3>5. CASE j = 0
      <4>1. q <= o + 4 /\ Long(g, p) <= MessageSize
        BY <3>1, <3>3, <3>5
      <4>2. Between(A, o, q) = {}
        BY <1>7, <1>9, <3>1, <3>4, <4>1, SweptAway
      <4>3. QED
        BY <1>7, <1>8, <1>9, <4>2, AdvanceFree
    <3>6. CASE j = Len(line)
      <4>1. q = Len(g)
        BY <1>2, <3>1, <3>3, <3>6
      <4>2. q <= o + 8 + MessageSize /\ Long(g, p) <= MessageSize
        BY <1>2, <3>1, <3>2, <3>3, <3>6
      <4>3. Cardinality(Between(A, o, q)) <= Swept
        BY <1>7, <1>9, <3>1, <3>4, <4>2, SweptAway
      <4>4. Between(H, o, q) # {}
        <5>1. ~Harmless(g, p)
          BY <3>1 DEF Harmless
        <5>2. Explained(g, A, H, p)
          BY <1>7, <3>1 DEF Marked
        <5>3. PICK h \in H : p <= h
          BY <3>4, <5>1, <5>2 DEF Explained
        <5>4. h \in Nat /\ h <= Len(g)
          BY <1>7 DEF Marked
        <5>5. o < h /\ h <= q
          BY <4>1, <5>3, <5>4
        <5>6. h \in Between(H, o, q)
          BY <5>5 DEF Between
        <5>7. QED
          BY <5>6
      <4>5. d <= d
        BY <1>8
      <4>6. QED
        BY <1>7, <1>8, <1>9, <4>3, <4>4, <4>5, Advance
    <3>7. QED
      BY <1>5, <3>5, <3>6
  <2>3. QED
    BY <2>1, <2>2
<1>12. Balanced(Unread', s, d, f)
  BY <1>7, <1>9, <1>10, <1>11 DEF Balanced
<1>13. QED
  BY <1>1, <1>4, <1>8, <1>12 DEF LossInv

\* A read that is given up too soon is a fault, which pays for what is lost.
LEMMA LateTimeoutLoses ==
    ASSUME Bodies # {}, LossInv, LateTimeout
    PROVE  LossInv'
<1> DEFINE s == Len(sent)
           d == Len(delivered)
           f == faults
<1>1. Ready /\ ~(Len(line) < Wanted) /\ faults' = faults + 1
  BY DEF LateTimeout, LossInv, Starved
<1>2. PICK i \in 0..(Wanted - 1) : GiveUp(i)
  BY DEF LateTimeout
<1>3. Len(line) \in Nat
  BY <1>1 DEF Ready, Buffers
<1>4. PICK g \in Seq(Byte), o \in Nat : \E A, H :
          Marked(g, A, H) /\ Rest(Unread, g, o) /\ Accounted(A, H, o, s, d, f)
  BY DEF LossInv, Balanced
<1>5. PICK A, H : Marked(g, A, H) /\ Rest(Unread, g, o) /\ Accounted(A, H, o, s, d, f)
  BY <1>4
<1>6. /\ sent \in Seq(Bodies) /\ delivered \in Seq(Seq(Byte)) /\ f \in Nat
      /\ s \in Nat /\ d \in Nat
  BY DEF LossInv
<1>7. MessageSize \in Nat
  BY SizeAssumption DEF UInt16
<1>8. /\ i \in Nat /\ Wanted \in Nat /\ i < Wanted
      /\ pc = "header" => Wanted = 4
      /\ pc # "header" => Wanted <= MessageSize + 4
  <2>1. CASE pc = "header"
    <3>1. Wanted = 4
      BY <2>1 DEF Wanted, HEADER_SIZE
    <3>2. QED
      BY <1>2, <2>1, <3>1
  <2>2. CASE pc = "scan"
    <3>1. Wanted = 1
      BY <2>2 DEF Wanted
    <3>2. QED
      BY <1>2, <1>7, <2>2, <3>1
  <2>3. CASE pc = "body"
    <3> DEFINE m == MessageLength(header)
    <3>1. m \in Nat /\ m <= MessageSize
      BY <1>1, <1>5, <2>3, HeaderStands
    <3>2. Wanted = m + 4
      BY <2>3 DEF Wanted, FOOTER_SIZE
    <3> HIDE DEF m
    <3>3. QED
      BY <1>2, <1>7, <2>3, <3>1, <3>2
  <2>4. QED
    BY <1>1, <2>1, <2>2, <2>3 DEF Ready
<1>9. i \in 0..Len(line)
  BY <1>1, <1>3, <1>8
<1>10. /\ Ready' /\ sent' = sent /\ delivered' = delivered
       /\ \E j \in {0, i} : Rest(Unread', Unread, IF pc = "header" THEN j ELSE j + 4)
  BY <1>1, <1>2, <1>9, GivenUp
<1>11. PICK j \in {0, i} : Rest(Unread', Unread, IF pc = "header" THEN j ELSE j + 4)
  BY <1>10
<1> DEFINE k == IF pc = "header" THEN j ELSE j + 4
           q == o + k
<1>12. k \in Nat /\ k <= MessageSize + 7
  BY <1>7, <1>8, <1>11
<1>13. q \in Nat /\ o <= q /\ q <= o + (MessageSize + 7)
  BY <1>7, <1>12
<1>14. Rest(Unread', g, q)
  BY <1>5, <1>11, <1>12, RestRest
<1> HIDE DEF k, q, s, d, f
<1>15. MaxLoss \in Nat /\ q <= o + MaxLoss * ShortestFrame
  <2> DEFINE z == MaxLoss * ShortestFrame
  <2>1. MaxLoss \in Nat /\ MessageSize + 7 <= z /\ z \in Nat
    BY Covered
  <2> HIDE DEF z
  <2>2. q <= o + z
    BY <1>7, <1>13, <2>1
  <2>3. QED
    BY <2>1, <2>2 DEF z
<1>16. Cardinality(Between(A, o, q)) <= MaxLoss
  BY <1>5, <1>13, <1>15, Crowd
<1>17. Accounted(A, H, q, s, d, f + 1)
  <2>1. d <= d
    BY <1>6
  <2>2. QED
    BY <1>5, <1>6, <1>13, <1>16, <2>1, Advance
<1>18. Balanced(Unread', s, d, f + 1)
  BY <1>5, <1>13, <1>14, <1>17 DEF Balanced
<1>19. faults' \in Nat /\ faults' = f + 1
  BY <1>1, <1>6 DEF f
<1>20. QED
  BY <1>6, <1>10, <1>18, <1>19 DEF LossInv, s, d

\* Reads of a header.
LEMMA MoveLoses ==
    ASSUME Bodies # {}, LossInv, ReadHeader \/ Scan
    PROVE  LossInv'
<1> DEFINE s == Len(sent)
           d == Len(delivered)
           f == faults
<1>1. Ready /\ Buffers /\ sent' = sent /\ delivered' = delivered /\ faults' = faults
  BY DEF LossInv, Ready, ReadHeader, Scan
<1>2. PICK g \in Seq(Byte), o \in Nat : \E A, H :
          Marked(g, A, H) /\ Rest(Unread, g, o) /\ Accounted(A, H, o, s, d, f)
  BY DEF LossInv, Balanced
<1>3. PICK A, H : Marked(g, A, H) /\ Rest(Unread, g, o) /\ Accounted(A, H, o, s, d, f)
  BY <1>2
<1>4. /\ sent \in Seq(Bodies) /\ delivered \in Seq(Seq(Byte)) /\ f \in Nat
      /\ s \in Nat /\ d \in Nat
  BY DEF LossInv
<1> HIDE DEF s, d, f
<1>5. \E q \in Nat : Moves(q - o) /\ o <= q /\ Accounted(A, H, q, s, d, f)
  <2>1. CASE ReadHeader
    <3>1. Moves(0) /\ o - o = 0 /\ o <= o
      BY <1>1, <2>1, HeaderMoves
    <3>2. QED
      BY <1>3, <3>1
  <2>2. CASE Scan
    <3> DEFINE q == o + 1
    <3>1. Moves(1) /\ q - o = 1 /\ o <= q /\ q \in Nat
      BY <1>1, <2>2, ScanMoves
    <3>2. q \notin A
      <4> SUFFICES ASSUME q \in A
                   PROVE  FALSE
        OBVIOUS
      <4>1. /\ q + 7 + Long(g, q) <= Len(g) /\ Long(g, q) \in Nat
            /\ g[q] = 202 /\ g[q + 1] = 254
        BY <1>3, FrameMarked
      <4>2. pc = "scan"
        BY <2>2 DEF Scan
      <4>3. \A i \in 1..4 : Unread[i] = header[i]
        BY <1>1, <4>2, UnreadHeader
      <4>4. Len(Unread) = Len(g) - o /\ \A i \in 1..Len(Unread) : Unread[i] = g[i + o]
        BY <1>3 DEF Rest
      <4>5. /\ 1 \in 1..Len(Unread) /\ 1 + o = q
            /\ 2 \in 1..Len(Unread) /\ 2 + o = q + 1
        BY <4>1, <4>4
      <4>6. header[1] = 202 /\ header[2] = 254
        <5>1. Unread[1] = g[1 + o] /\ Unread[2] = g[2 + o]
          BY <4>4, <4>5
        <5>2. Unread[1] = header[1] /\ Unread[2] = header[2]
          BY <4>3
        <5>3. header[1] = g[1 + o] /\ header[2] = g[2 + o]
          BY <5>1, <5>2
        <5>4. 1 + o = q /\ 2 + o = q + 1
          BY <4>5
        <5> HIDE DEF q
        <5>5. QED
          BY <4>1, <5>3, <5>4
      <4>7. QED
        BY <1>1, <4>2, <4>6 DEF Ready, IsHeader
    <3>3. Between(A, o, q) = {}
      <4>1. \A a \in A : a \in Nat /\ a # q
        BY <1>3, <3>2 DEF Marked
      <4>2. \A a \in A : ~(o < a /\ a <= q)
        BY <4>1
      <4>3. QED
        BY <4>2 DEF Between
    <3> HIDE DEF q
    <3>4. Accounted(A, H, q, s, d, f)
      BY <1>3, <1>4, <3>1, <3>3, AdvanceFree
    <3>5. QED
      BY <3>1, <3>4
  <2>3. QED
    BY <2>1, <2>2
<1>6. PICK q \in Nat : Moves(q - o) /\ o <= q /\ Accounted(A, H, q, s, d, f)
  BY <1>5
<1> DEFINE k == q - o
<1>7. k \in Nat /\ o + k = q /\ Moves(k)
  BY <1>6
<1> HIDE DEF k
<1>8. PICK h : /\ FourBytes(h) /\ Examine(h)
               /\ line' \in Seq(Byte) /\ Rest(h \o line', Unread, k)
  BY <1>7 DEF Moves
<1>9. Rest(h \o line', g, q)
  BY <1>3, <1>7, <1>8, RestRest
<1>10. Ready' /\ Balanced(Unread', s, d, f)
  BY <1>3, <1>4, <1>6, <1>8, <1>9, ExamineLoses
<1>11. QED
  BY <1>1, <1>4, <1>10 DEF LossInv, s, d, f

\* What the faults have cost and what the credits may cost are numbers.
LEMMA Charges ==
    ASSUME Bodies # {}, NEW H, H \subseteq Nat, IsFiniteSet(H), NEW o \in Nat, NEW f \in Nat
    PROVE  /\ Swept * Cardinality(Ahead(H, o)) \in Nat /\ MaxLoss * f \in Nat
           /\ Cardinality(Ahead(H, o)) \in Nat
<1>1. o <= o
  OBVIOUS
<1>2. Cardinality(Ahead(H, o)) \in Nat
  BY <1>1, Counts
<1>3. Swept \in Nat /\ MaxLoss \in Nat
  BY Covered
<1>4. QED
  BY <1>2, <1>3, Times

\* One more frame, or credit.
LEMMA OneMore ==
    ASSUME NEW X, X \subseteq Nat, IsFiniteSet(X), NEW x \in Nat, NEW o \in Nat
    PROVE  LET n == Cardinality(Ahead(X, o))
               m == Cardinality(Ahead(X \cup {x}, o))
           IN  n \in Nat /\ m \in Nat /\ m <= n + 1 /\ (x \notin X /\ x > o => m = n + 1)
<1> DEFINE R == Ahead(X, o)
           T == Ahead(X \cup {x}, o)
<1>1. R \subseteq X /\ IsFiniteSet(R)
  <2>1. R \subseteq X
    BY DEF Ahead
  <2> HIDE DEF R
  <2>2. QED
    BY <2>1, FS_Subset
<1>2. CASE x > o
  <2>1. T = R \cup {x}
    BY <1>2 DEF Ahead
  <2>2. x \in R => x \in X
    BY <1>1
  <2> HIDE DEF R, T
  <2>3. Cardinality(R \cup {x}) = IF x \in R THEN Cardinality(R) ELSE Cardinality(R) + 1
    BY <1>1, FS_AddElement
  <2>4. Cardinality(R) \in Nat
    BY <1>1, FS_CardinalityType
  <2>5. QED
    BY <2>1, <2>2, <2>3, <2>4 DEF R, T
<1>3. CASE ~(x > o)
  <2>1. T = R
    BY <1>3 DEF Ahead
  <2> HIDE DEF R, T
  <2>2. Cardinality(R) \in Nat
    BY <1>1, FS_CardinalityType
  <2>3. QED
    BY <1>3, <2>1, <2>2 DEF R, T
<1>4. QED
  BY <1>2, <1>3

\* What is written, and the receiver has not read, comes after what it has to read.
LEMMA Written ==
    ASSUME LossInv, NEW t \in Seq(Byte), line' = line \o t, header' = header, pc' = pc,
           NEW g \in Seq(Byte), NEW o \in Nat, Rest(Unread, g, o)
    PROVE  /\ Ready' /\ o <= Len(g)
           /\ g \o t \in Seq(Byte) /\ More(g \o t, g, t) /\ Rest(Unread', g \o t, o)
<1> DEFINE w == g \o t
<1>1. Ready /\ Buffers
  BY DEF LossInv, Ready
<1>2. More(Unread', Unread, t) /\ line' \in Seq(Byte)
  BY <1>1, UnreadMore
<1>3. Ready'
  BY <1>1, <1>2 DEF Ready, Buffers, IsHeader, TooLarge, MessageLength
<1>4. w \in Seq(Byte) /\ More(w, g, t)
  <2>1. /\ w \in Seq(Byte) /\ Len(w) = Len(g) + Len(t)
        /\ \A i \in 1..Len(g) : w[i] = g[i]
        /\ \A i \in 1..Len(t) : w[Len(g) + i] = t[i]
    BY Joined
  <2> HIDE DEF w
  <2>2. QED
    BY <2>1 DEF More
<1> HIDE DEF w
<1>5. Rest(Unread', w, o)
  BY <1>2, <1>4, RestMore
<1>6. o <= Len(g)
  <2>1. Unread \in Seq(Byte) /\ Len(Unread) = Len(g) - o /\ Len(g) \in Nat
    BY DEF Rest
  <2>2. Len(Unread) \in Nat
    BY <2>1
  <2>3. QED
    BY <2>1, <2>2
<1>7. QED
  BY <1>3, <1>4, <1>5, <1>6 DEF w

\* Hiss costs nothing.
LEMMA HissLoses ==
    ASSUME LossInv, MakeHiss
    PROVE  LossInv'
<1> DEFINE s == Len(sent)
           d == Len(delivered)
           f == faults
<1>1. PICK z \in Hiss : line' = line \o z
  BY DEF MakeHiss
<1>2. /\ header' = header /\ pc' = pc /\ sent' = sent /\ delivered' = delivered
      /\ faults' = faults
  BY DEF MakeHiss
<1>3. z \in Seq(Byte)
  BY NoiseAssumption
<1>4. PICK g \in Seq(Byte), o \in Nat : \E A, H :
          Marked(g, A, H) /\ Rest(Unread, g, o) /\ Accounted(A, H, o, s, d, f)
  BY DEF LossInv, Balanced
<1>5. PICK A, H : Marked(g, A, H) /\ Rest(Unread, g, o) /\ Accounted(A, H, o, s, d, f)
  BY <1>4
<1> DEFINE w == g \o z
<1>6. Ready' /\ w \in Seq(Byte) /\ More(w, g, z) /\ Rest(Unread', w, o)
  BY <1>1, <1>2, <1>3, <1>5, Written
<1> HIDE DEF w, s, d, f
<1>7. Marked(w, A, H)
  BY <1>5, <1>6, MarkedHiss
<1>8. Balanced(Unread', s, d, f)
  BY <1>5, <1>6, <1>7 DEF Balanced
<1>9. QED
  BY <1>2, <1>6, <1>8 DEF LossInv, s, d, f

\* A frame sent is one more to come.
LEMMA SendLoses ==
    ASSUME QuietFrames, LossInv, SendFrame
    PROVE  LossInv'
<1> DEFINE s == Len(sent)
           d == Len(delivered)
           f == faults
<1>1. PICK b \in Bodies : line' = line \o Frame[b] /\ sent' = Append(sent, b)
  BY DEF SendFrame
<1>2. /\ header' = header /\ pc' = pc /\ delivered' = delivered /\ faults' = faults
  BY DEF SendFrame
<1>3. Frame[b] \in Seq(Byte)
  BY FrameSpan
<1>4. PICK g \in Seq(Byte), o \in Nat : \E A, H :
          Marked(g, A, H) /\ Rest(Unread, g, o) /\ Accounted(A, H, o, s, d, f)
  BY DEF LossInv, Balanced
<1>5. PICK A, H : Marked(g, A, H) /\ Rest(Unread, g, o) /\ Accounted(A, H, o, s, d, f)
  BY <1>4
<1> DEFINE w == g \o Frame[b]
           x == Len(g) + 1
           C == A \cup {x}
<1>6. /\ Ready' /\ w \in Seq(Byte) /\ More(w, g, Frame[b]) /\ Rest(Unread', w, o)
      /\ o <= Len(g)
  BY <1>1, <1>2, <1>3, <1>5, Written
<1>7. sent' \in Seq(Bodies) /\ Len(sent') = s + 1 /\ s \in Nat
  BY <1>1 DEF LossInv
<1> HIDE DEF w, s, d, f
<1>8. Marked(w, C, H) /\ x \notin A
  BY <1>5, <1>6, MarkedFrame
<1>9. Accounted(C, H, o, s + 1, d, f)
  <2> DEFINE n == Cardinality(Ahead(A, o))
             m == Cardinality(Ahead(C, o))
             y == Swept * Cardinality(Ahead(H, o))
             z == MaxLoss * f
  <2>1. n \in Nat /\ m = n + 1
    <3>1. A \subseteq Nat /\ IsFiniteSet(A)
      BY <1>5 DEF Marked
    <3>2. x \in Nat /\ x > o
      BY <1>6
    <3>3. QED
      BY <1>8, <3>1, <3>2, OneMore
  <2>2. s + y <= d + n + z
    BY <1>5 DEF Accounted
  <2>3. y \in Nat /\ z \in Nat /\ d \in Nat
    <3>1. H \subseteq Nat /\ IsFiniteSet(H) /\ f \in Nat /\ d \in Nat
      BY <1>5 DEF Marked, LossInv, f, d
    <3>2. QED
      BY <3>1, Charges
  <2> HIDE DEF n, m, y, z
  <2>4. (s + 1) + y <= d + m + z
    BY <1>7, <2>1, <2>2, <2>3
  <2>5. QED
    BY <2>4 DEF Accounted, m, y, z
<1>10. Balanced(Unread', s + 1, d, f)
  BY <1>6, <1>8, <1>9 DEF Balanced
<1>11. QED
  BY <1>2, <1>6, <1>7, <1>10 DEF LossInv, s, d, f

\* A fault pays for the frame it strikes, if there is one, and for the credit it is
\* given.
LEMMA FaultLoses ==
    ASSUME Bodies # {}, LossInv, NEW t \in Seq(Byte), Tame(<< 202 >> \o t),
           line' = line \o t, header' = header, pc' = pc,
           NEW r \in Nat, r <= Len(sent) + 1
    PROVE  Ready' /\ Balanced(Unread', r, Len(delivered), faults + 1)
<1> DEFINE s == Len(sent)
           d == Len(delivered)
           f == faults
<1>1. PICK g \in Seq(Byte), o \in Nat : \E A, H :
          Marked(g, A, H) /\ Rest(Unread, g, o) /\ Accounted(A, H, o, s, d, f)
  BY DEF LossInv, Balanced
<1>2. PICK A, H : Marked(g, A, H) /\ Rest(Unread, g, o) /\ Accounted(A, H, o, s, d, f)
  BY <1>1
<1> DEFINE w == g \o t
<1>3. Ready' /\ w \in Seq(Byte) /\ More(w, g, t) /\ Rest(Unread', w, o)
  BY <1>2, Written
<1>4. s \in Nat /\ d \in Nat /\ f \in Nat /\ r <= s + 1
  BY DEF LossInv
<1> HIDE DEF w, s, d, f
<1>5. PICK x \in Nat : Marked(w, A, H \cup {x})
  BY <1>2, <1>3, MarkedFault
<1> DEFINE K == H \cup {x}
<1>6. Accounted(A, K, o, r, d, f + 1)
  <2> DEFINE n == Cardinality(Ahead(H, o))
             m == Cardinality(Ahead(K, o))
             a == Cardinality(Ahead(A, o))
             k == Swept
             z == MaxLoss
  <2>1. n \in Nat /\ m \in Nat /\ m <= n + 1
    <3>1. H \subseteq Nat /\ IsFiniteSet(H)
      BY <1>2 DEF Marked
    <3>2. QED
      BY <3>1, OneMore
  <2>2. a \in Nat
    <3>1. A \subseteq Nat /\ IsFiniteSet(A) /\ o <= o
      BY <1>2 DEF Marked
    <3>2. QED
      BY <3>1, Counts
  <2>3. k \in Nat /\ z \in Nat /\ z = 1 + k
    BY Covered
  <2>4. s + k * n <= d + a + z * f
    BY <1>2 DEF Accounted
  <2> HIDE DEF n, m, a, k, z, K
  <2>5. k * m <= k * (n + 1) /\ k * (n + 1) = k * n + k /\ k * n \in Nat /\ k * m \in Nat
    <3>1. n + 1 \in Nat
      BY <2>1
    <3>2. QED
      BY <2>1, <2>3, <3>1, Times
  <2>6. z * (f + 1) = z * f + z /\ z * f \in Nat
    BY <1>4, <2>3, Times
  <2>7. r + k * m <= d + a + z * (f + 1)
    <3> DEFINE km == k * m
               kn == k * n
               zf == z * f
    <3>1. km <= kn + k /\ km \in Nat /\ kn \in Nat /\ zf \in Nat
      BY <2>5, <2>6
    <3>2. s + kn <= d + a + zf /\ z * (f + 1) = zf + z
      BY <2>4, <2>6
    <3> HIDE DEF km, kn, zf
    <3>3. r + km <= d + a + (zf + z)
      BY <1>4, <2>2, <2>3, <3>1, <3>2
    <3>4. QED
      BY <3>2, <3>3 DEF km
  <2>8. QED
    BY <2>7 DEF Accounted, m, a, k, z
<1> HIDE DEF K
<1>7. Balanced(Unread', r, d, f + 1)
  BY <1>3, <1>5, <1>6 DEF Balanced, K
<1>8. QED
  BY <1>3, <1>7 DEF d, f

\* A frame that is damaged.
LEMMA DamageLoses ==
    ASSUME QuietFaults, LossInv, SendDamaged
    PROVE  LossInv'
<1>1. PICK b \in Bodies : \E t \in Damaged(Frame[b]) :
          line' = line \o t /\ sent' = Append(sent, b)
  BY DEF SendDamaged
<1>2. PICK t \in Damaged(Frame[b]) : line' = line \o t /\ sent' = Append(sent, b)
  BY <1>1
<1>3. header' = header /\ pc' = pc /\ delivered' = delivered /\ faults' = faults + 1
  BY DEF SendDamaged
<1>4. t \in Seq(Byte)
  BY FrameSpan, DamagedBytes
<1>5. Tame(<<202>> \o t)
  BY DEF QuietFaults
<1>6. /\ sent' \in Seq(Bodies) /\ Len(sent') = Len(sent) + 1 /\ Len(sent) \in Nat
      /\ delivered \in Seq(Seq(Byte)) /\ faults \in Nat
  BY <1>2 DEF LossInv
<1>7. Len(sent') \in Nat /\ Len(sent') <= Len(sent) + 1 /\ faults + 1 \in Nat
  BY <1>6
<1>8. Ready' /\ Balanced(Unread', Len(sent'), Len(delivered), faults + 1)
  BY <1>2, <1>3, <1>4, <1>5, <1>7, FaultLoses
<1>9. QED
  BY <1>3, <1>6, <1>7, <1>8 DEF LossInv

\* A false header.
LEMMA FalseHeaderLoses ==
    ASSUME QuietFaults, Bodies # {}, LossInv, MakeFalseHeader
    PROVE  LossInv'
<1>1. PICK t \in FalseHeaders : line' = line \o t
  BY DEF MakeFalseHeader
<1>2. /\ header' = header /\ pc' = pc /\ sent' = sent /\ delivered' = delivered
      /\ faults' = faults + 1
  BY DEF MakeFalseHeader
<1>3. t \in Seq(Byte)
  BY NoiseAssumption
<1>4. Tame(<<202>> \o t)
  <2> DEFINE X == UNION {Damaged(Frame[b]) : b \in Bodies}
  <2>1. \A s \in FalseHeaders \cup X : Tame(<<202>> \o s)
    BY DEF QuietFaults
  <2> HIDE DEF X
  <2>2. QED
    BY <2>1
<1>5. sent \in Seq(Bodies) /\ delivered \in Seq(Seq(Byte)) /\ faults \in Nat
  BY DEF LossInv
<1>6. Len(sent) \in Nat /\ Len(sent) <= Len(sent) + 1 /\ faults + 1 \in Nat
  BY <1>5
<1>7. Ready' /\ Balanced(Unread', Len(sent), Len(delivered), faults + 1)
  BY <1>1, <1>2, <1>3, <1>4, <1>6, FaultLoses
<1>8. QED
  BY <1>2, <1>5, <1>6, <1>7 DEF LossInv

-----------------------------------------------------------------------------
(***************************************************************************)
(* The theorem.                                                            *)
(***************************************************************************)

\* At first there is nothing to account for.
LEMMA InitBalanced ==
    ASSUME Bodies # {}, Init
    PROVE  LossInv
<1>1. /\ line = <<>> /\ pc = "header" /\ header = <<0, 0, 0, 0>>
      /\ sent = <<>> /\ delivered = <<>> /\ faults = 0
  BY DEF Init
<1>2. Buffers
  BY <1>1 DEF Buffers, Byte
<1>3. Ready
  BY <1>1, <1>2 DEF Ready
<1>4. <<>> \in Seq(Byte) /\ <<>> \in Seq(Bodies) /\ <<>> \in Seq(Seq(Byte)) /\ Len(<<>>) = 0
  OBVIOUS
<1>5. Marked(<<>>, {}, {})
  <2>1. Heads(<<>>) = {}
    <3>1. 1..(0 - 1) = {}
      OBVIOUS
    <3>2. QED
      BY <1>4, <3>1 DEF Heads
  <2>2. IsFiniteSet({})
    BY FS_EmptySet
  <2>3. QED
    BY <2>1, <2>2 DEF Marked
<1>6. Rest(Unread, <<>>, 0)
  <2>1. Unread = <<>>
    BY <1>1 DEF Unread
  <2>2. QED
    BY <1>4, <2>1 DEF Rest
<1>7. Accounted({}, {}, 0, 0, 0, 0)
  <2>1. Ahead({}, 0) = {}
    BY DEF Ahead
  <2>2. Cardinality({}) = 0
    BY FS_EmptySet
  <2>3. Swept \in Nat /\ MaxLoss \in Nat
    BY Covered
  <2>4. 0 + Swept * 0 <= 0 + 0 + MaxLoss * 0
    BY <2>3
  <2>5. QED
    BY <2>1, <2>2, <2>4 DEF Accounted
<1>8. Balanced(Unread, Len(sent), Len(delivered), faults)
  <2>1. Len(sent) = 0 /\ Len(delivered) = 0 /\ faults = 0
    BY <1>1
  <2>2. QED
    BY <1>4, <1>5, <1>6, <1>7, <2>1 DEF Balanced
<1>9. QED
  BY <1>1, <1>3, <1>4, <1>8 DEF LossInv

\* Every step keeps the account.
LEMMA StepBalanced ==
    ASSUME QuietFrames, QuietFaults, MessageSize < 202 * 256, Bodies # {},
           LossInv, [Next]_vars
    PROVE  LossInv'
<1>1. CASE SendFrame
  BY <1>1, SendLoses
<1>2. CASE SendDamaged
  BY <1>2, DamageLoses
<1>3. CASE MakeHiss
  BY <1>3, HissLoses
<1>4. CASE MakeFalseHeader
  BY <1>4, FalseHeaderLoses
<1>5. CASE ReadHeader \/ Scan
  BY <1>5, MoveLoses
<1>6. CASE ReadBody
  <2>1. /\ Ready' /\ delivered' \in Seq(Seq(Byte))
        /\ Balanced(Unread', Len(sent), Len(delivered'), faults)
    BY <1>6, BodyLoses
  <2>2. sent' = sent /\ faults' = faults
    BY <1>6 DEF ReadBody
  <2>3. QED
    BY <2>1, <2>2 DEF LossInv
<1>7. CASE Timeout
  BY <1>7, TimeoutLoses
<1>8. CASE LateTimeout
  BY <1>8, LateTimeoutLoses
<1>9. CASE UNCHANGED vars
  BY <1>9 DEF vars, LossInv, Ready, Buffers, Unread, IsHeader, TooLarge, MessageLength
<1>10. QED
  BY <1>1, <1>2, <1>3, <1>4, <1>5, <1>6, <1>7, <1>8, <1>9 DEF Next

\* When the receiver waits for a header no frame is ahead, so that all that is
\* missing is charged to the faults.
LEMMA BalancedBounds ==
    ASSUME Bodies # {}, LossInv
    PROVE  LossBounded
<1> SUFFICES ASSUME Starved, pc # "body"
             PROVE  Len(sent) - Len(delivered) <= MaxLoss * faults
  BY DEF LossBounded
<1> DEFINE s == Len(sent)
           d == Len(delivered)
           f == faults
<1>1. s \in Nat /\ d \in Nat /\ f \in Nat /\ Ready
  BY DEF LossInv
<1>2. PICK g \in Seq(Byte), o \in Nat : \E A, H :
          Marked(g, A, H) /\ Rest(Unread, g, o) /\ Accounted(A, H, o, s, d, f)
  BY DEF LossInv, Balanced
<1>3. PICK A, H : Marked(g, A, H) /\ Rest(Unread, g, o) /\ Accounted(A, H, o, s, d, f)
  BY <1>2
<1>4. Len(Unread) < 8
  BY <1>1, WaitingFew
<1>5. Cardinality(Ahead(A, o)) = 0
  <2>1. Ahead(A, o) = {}
    BY <1>3, <1>4, NoneAhead
  <2>2. QED
    BY <2>1, FS_EmptySet
<1> DEFINE y == Swept * Cardinality(Ahead(H, o))
           z == MaxLoss * f
<1>6. y \in Nat /\ z \in Nat
  <2>1. H \subseteq Nat /\ IsFiniteSet(H)
    BY <1>3 DEF Marked
  <2> HIDE DEF f
  <2>2. QED
    BY <1>1, <2>1, Charges
<1>7. s + y <= d + 0 + z
  BY <1>3, <1>5 DEF Accounted
<1> HIDE DEF s, d, y, z
<1>8. s - d <= z
  BY <1>1, <1>6, <1>7
<1>9. QED
  BY <1>8 DEF s, d, z

\* Whatever is lost, cut, changed or added, and however the length a fault leaves in
\* a header and the bytes of the next frames fall, it costs MaxLoss frames at most:
\* for all messages and faults that imitate no header the receiver would follow, for
\* every CRC, and for every maximal length below 202 * 256 (it is 264 in the code).
THEOREM DamageBounded ==
    ASSUME QuietFrames, QuietFaults, MessageSize < 202 * 256, Bodies # {}
    PROVE  Spec => []LossBounded
<1>1. Init => LossInv
  BY InitBalanced
<1>2. LossInv /\ [Next]_vars => LossInv'
  BY StepBalanced
<1>3. LossInv => LossBounded
  BY BalancedBounds
<1>4. QED
  BY <1>1, <1>2, <1>3, PTL DEF Spec
=============================================================================
