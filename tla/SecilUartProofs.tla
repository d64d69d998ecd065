-------------------------- MODULE SecilUartProofs --------------------------
(***************************************************************************)
(* Proofs about SecilUart: a call of read_uart keeps its timeout, and no   *)
(* byte is lost or read twice, for any number of threads and whatever they *)
(* ask for, any timeout and any sizes of the writes.                       *)
(***************************************************************************)
EXTENDS SecilUart, FiniteSetTheorems, TLAPS

\* What the code keeps its locals in.
UartType ==
    /\ hung \in BOOLEAN
    /\ pc      \in [Readers -> {"idle", "select", "read", "asleep"}]
    /\ want    \in [Readers -> Nat]
    /\ left    \in [Readers -> Nat]
    /\ elapsed \in [Readers -> Nat]
    /\ robbed  \in [Readers -> BOOLEAN]

-----------------------------------------------------------------------------
(***************************************************************************)
(* The timeout.                                                            *)
(***************************************************************************)

\* What has gone by and what is left of a call make up its timeout: a second
\* that passes is one that select takes off.  Whoever sleeps, or waits in read,
\* has found nothing where select reported something.
TimedCall(r) ==
    IF pc[r] = "idle" THEN elapsed[r] = 0
    ELSE hung \/ robbed[r] \/ (pc[r] # "asleep" /\ elapsed[r] + left[r] <= Timeout)
Timed == UartType /\ \A r \in Readers : TimedCall(r)

\* The least of two numbers.
LEMMA LeastOfTwo ==
    ASSUME NEW a \in Nat, NEW b \in Nat
    PROVE  Min({a, b}) \in Nat /\ Min({a, b}) <= a /\ Min({a, b}) <= b
<1>1. \E x \in {a, b} : \A y \in {a, b} : x <= y
  <2>1. CASE a <= b
    BY <2>1
  <2>2. CASE b <= a
    BY <2>2
  <2>3. QED
    BY <2>1, <2>2
<1>2. Min({a, b}) \in {a, b} /\ \A y \in {a, b} : Min({a, b}) <= y
  BY <1>1 DEF Min
<1>3. QED
  BY <1>2

\* At first nobody reads.
LEMMA InitTimed == Init => Timed
<1> SUFFICES ASSUME Init PROVE Timed
  OBVIOUS
<1>1. UartType
  BY DEF Init, UartType
<1>2. \A r \in Readers : TimedCall(r)
  BY DEF Init, TimedCall
<1>3. QED
  BY <1>1, <1>2 DEF Timed

\* A step of the thread r that keeps the types and its time concerns no other.
LEMMA OnlyCall ==
    ASSUME Timed, UartType', NEW r \in Readers, hung' = hung,
           \A s \in Readers \ {r} :
               /\ pc'[s] = pc[s] /\ elapsed'[s] = elapsed[s]
               /\ left'[s] = left[s] /\ robbed'[s] = robbed[s],
           TimedCall(r)'
    PROVE  Timed'
BY DEF Timed, TimedCall

\* A call begins with all of its time left.
LEMMA BeginTimed ==
    ASSUME Timed, NEW r \in Readers, Begin(r)
    PROVE  Timed'
<1>1. PICK n \in Wants : want' = [want EXCEPT ![r] = n]
  BY DEF Begin
<1>2. /\ pc' = [pc EXCEPT ![r] = "select"] /\ left' = [left EXCEPT ![r] = Timeout]
      /\ elapsed' = elapsed /\ robbed' = robbed /\ hung' = hung /\ pc[r] = "idle"
  BY DEF Begin, Goto, uart
<1>3. UartType'
  BY <1>1, <1>2, WantsAssumption, BoundAssumption DEF Timed, UartType
<1>4. elapsed'[r] = 0 /\ left'[r] = Timeout /\ pc'[r] = "select"
  BY <1>2 DEF Timed, TimedCall, UartType
<1>5. TimedCall(r)'
  BY <1>4, BoundAssumption DEF TimedCall
<1>6. QED
  BY <1>2, <1>3, <1>5, OnlyCall DEF Timed, UartType

\* A call that is over has no time.
LEMMA ReturnTimed ==
    ASSUME Timed, NEW r \in Readers, NEW bytes, NEW ok, Return(r, bytes, ok)
    PROVE  Timed'
<1>1. /\ pc' = [pc EXCEPT ![r] = "idle"] /\ left' = [left EXCEPT ![r] = 0]
      /\ want' = [want EXCEPT ![r] = 0]
      /\ elapsed' = [elapsed EXCEPT ![r] = 0] /\ robbed' = [robbed EXCEPT ![r] = FALSE]
      /\ hung' = hung
  BY DEF Return, Goto
<1>2. UartType'
  BY <1>1 DEF Timed, UartType
<1>3. TimedCall(r)'
  BY <1>1 DEF Timed, UartType, TimedCall
<1>4. QED
  BY <1>1, <1>2, <1>3, OnlyCall DEF Timed, UartType

\* Between two seconds a call gains and loses no time; it goes to sleep only if
\* the far end has hung up or another thread has read what there was.
LEMMA GoTimed ==
    ASSUME Timed, NEW r \in Readers, Go(r)
    PROVE  Timed'
<1>1. CASE Ready(r)
  <2>1. pc' = [pc EXCEPT ![r] = "read"] /\ pc[r] = "select" /\ UNCHANGED <<hung, call>>
    BY <1>1 DEF Ready, Goto, uart
  <2>2. UartType'
    BY <2>1 DEF Timed, UartType, call
  <2>3. TimedCall(r)'
    BY <2>1 DEF Timed, UartType, TimedCall, call
  <2>4. QED
    BY <2>1, <2>2, <2>3, OnlyCall DEF Timed, UartType, call
<1>2. CASE TimedOut(r)
  BY <1>2, ReturnTimed DEF TimedOut
<1>3. CASE ReadSome(r)
  <2>1. PICK n : LET all == buf[r] \o SubSeq(line, 1, n) IN
          \/ /\ Goto(r, "select") /\ left' = [left EXCEPT ![r] = Rearmed(r)]
             /\ UNCHANGED <<hung, want, elapsed, robbed>>
          \/ Return(r, all, Len(all) = want[r])
    BY <1>3 DEF ReadSome
  <2>2. CASE /\ Goto(r, "select") /\ left' = [left EXCEPT ![r] = Rearmed(r)]
             /\ UNCHANGED <<hung, want, elapsed, robbed>>
    <3>1. pc' = [pc EXCEPT ![r] = "select"] /\ left' = left /\ pc[r] = "read"
      BY <1>3, <2>2 DEF ReadSome, Goto, Rearmed, Timed, UartType
    <3>2. UartType'
      BY <2>2, <3>1 DEF Timed, UartType
    <3>3. TimedCall(r)'
      BY <2>2, <3>1 DEF Timed, UartType, TimedCall
    <3>4. QED
      BY <2>2, <3>1, <3>2, <3>3, OnlyCall DEF Timed, UartType
  <2>3. QED
    BY <2>1, <2>2, ReturnTimed
<1>4. CASE ReadNothing(r)
  <2>1. /\ pc' = [pc EXCEPT ![r] = "asleep"] /\ robbed' = [robbed EXCEPT ![r] = TRUE]
        /\ UNCHANGED <<hung, want, left, elapsed>>
    BY <1>4 DEF ReadNothing, Goto, uart
  <2>2. UartType'
    BY <2>1 DEF Timed, UartType
  <2>3. TimedCall(r)'
    BY <2>1 DEF Timed, UartType, TimedCall
  <2>4. QED
    BY <2>1, <2>2, <2>3, OnlyCall DEF Timed, UartType
<1>5. CASE ReadHung(r)
  <2>1. PICK label \in {"select", "asleep"} : pc' = [pc EXCEPT ![r] = label]
    BY <1>5 DEF ReadHung, Goto
  <2>2. hung /\ UNCHANGED <<hung, want, left, elapsed, robbed>>
    BY <1>5 DEF ReadHung, uart, call
  <2>3. UartType'
    BY <2>1, <2>2 DEF Timed, UartType
  <2>4. TimedCall(r)'
    BY <2>1, <2>2 DEF Timed, UartType, TimedCall
  <2>5. QED
    BY <2>1, <2>2, <2>3, <2>4, OnlyCall DEF Timed, UartType
<1>6. QED
  BY <1>1, <1>2, <1>3, <1>4, <1>5 DEF Go

\* A second that passes comes off what is left; a call for which it does not is
\* one that sleeps or waits in read.
LEMMA TickTimed ==
    ASSUME Timed, Tick
    PROVE  Timed'
<1>1. \A r \in Readers : Min({elapsed[r] + 1, Timeout + 1}) \in Nat
                         /\ Min({elapsed[r] + 1, Timeout + 1}) <= elapsed[r] + 1
  BY LeastOfTwo, BoundAssumption DEF Timed, UartType
<1>2. hung' = hung /\ want' = want
  BY DEF Tick, uart
<1>3. pc' \in [Readers -> {"idle", "select", "read", "asleep"}]
  BY DEF Tick, Timed, UartType
<1>4. left' \in [Readers -> Nat]
  BY DEF Tick, Waits, Timed, UartType
<1>5. elapsed' \in [Readers -> Nat]
  BY <1>1 DEF Tick
<1>6. robbed' \in [Readers -> BOOLEAN]
  <2>1. \A r \in Readers : robbed[r] \/ Blocked(r) \in BOOLEAN
    BY DEF Blocked
  <2>2. QED
    BY <2>1, Zenon DEF Tick
<1>7. UartType'
  BY <1>2, <1>3, <1>4, <1>5, <1>6 DEF Timed, UartType
<1>8. ASSUME NEW r \in Readers
      PROVE  TimedCall(r)'
  <2>1. /\ pc'[r] = IF pc[r] = "asleep" THEN "select" ELSE pc[r]
        /\ left'[r] = IF Waits(r) THEN left[r] - 1 ELSE left[r]
        /\ elapsed'[r] = IF pc[r] = "idle" THEN 0 ELSE Min({elapsed[r] + 1, Timeout + 1})
        /\ pc[r] \in {"idle", "asleep"} \/ Waits(r) \/ Blocked(r)
    BY DEF Tick
  <2>2. robbed'[r] = (robbed[r] \/ Blocked(r))
    BY Zenon DEF Tick
  <2>3. CASE pc[r] = "idle"
    BY <2>1, <2>3 DEF TimedCall
  <2>4. CASE pc[r] = "asleep"
    BY <1>2, <2>1, <2>2, <2>4 DEF Timed, TimedCall
  <2>5. CASE Waits(r)
    <3>1. pc[r] = "select" /\ left[r] > 0 /\ pc'[r] = "select" /\ left'[r] = left[r] - 1
          /\ elapsed'[r] <= elapsed[r] + 1 /\ elapsed'[r] \in Nat
      BY <1>1, <2>1, <2>5 DEF Waits
    <3>2. robbed[r] => robbed'[r]
      BY <2>2
    <3>3. hung \/ robbed[r] \/ elapsed[r] + left[r] <= Timeout
      BY <3>1 DEF Timed, TimedCall
    <3>4. elapsed[r] + left[r] <= Timeout => elapsed'[r] + left'[r] <= Timeout
      BY <3>1, BoundAssumption DEF Timed, UartType
    <3>5. QED
      BY <1>2, <3>1, <3>2, <3>3, <3>4 DEF TimedCall
  <2>6. CASE Blocked(r)
    <3>1. pc'[r] # "idle" /\ robbed'[r]
      BY <2>1, <2>2, <2>6 DEF Blocked
    <3>2. QED
      BY <3>1 DEF TimedCall
  <2>7. QED
    BY <2>1, <2>3, <2>4, <2>5, <2>6
<1>9. QED
  BY <1>7, <1>8 DEF Timed

\* Every step keeps it.
LEMMA StepTimed == Timed /\ [Next]_vars => Timed'
<1> SUFFICES ASSUME Timed, [Next]_vars PROVE Timed'
  OBVIOUS
<1>1. CASE write_uart
  BY <1>1 DEF write_uart, Timed, TimedCall, UartType, call
<1>2. CASE HangUp
  BY <1>2 DEF HangUp, Timed, TimedCall, UartType, call
<1>3. CASE Tick
  BY <1>3, TickTimed
<1>4. ASSUME NEW r \in Readers, Begin(r) \/ Go(r) \/ Interrupted(r)
      PROVE  Timed'
  BY <1>4, BeginTimed, GoTimed, ReturnTimed DEF Interrupted
<1>5. CASE UNCHANGED vars
  BY <1>5 DEF vars, uart, call, Timed, TimedCall, UartType
<1>6. QED
  BY <1>1, <1>2, <1>3, <1>4, <1>5 DEF Next

\* The invariant behind the timeout.
LEMMA TimedInvariance == Spec => []Timed
BY InitTimed, StepTimed, PTL DEF Spec

\* "5 second timeout": however the bytes trickle in and however many threads
\* read, a call lasts no longer than its timeout, unless the far end has hung up
\* or another thread has read what select told this one of.
THEOREM TimeoutKept == Spec => []Punctual
<1>1. Timed => Punctual
  BY BoundAssumption DEF Timed, TimedCall, UartType, Punctual
<1>2. QED
  BY <1>1, TimedInvariance, PTL
-----------------------------------------------------------------------------
(***************************************************************************)
(* Bytes and where they are.                                               *)
(***************************************************************************)

\* Bytes taken off the line.
Taken == written - Len(line)

\* What the driver has are the bytes after the first k, without a gap.
Consecutive(l, k) == Len(l) \in Nat /\ l = [i \in 1..Len(l) |-> k + i]

\* Some of the first k bytes, in the order they were written.
Piece(b, k) == b \in Seq(1..k) /\ \A i, j \in DOMAIN b : i < j => b[i] < b[j]

\* Each of the first k bytes is in one of the pieces in bf, of calls under way,
\* or of the calls dn, that are over, and in no other.
Placed(dn, bf, k) ==
    /\ \A r, s \in Readers : r # s => Range(bf[r]) \cap Range(bf[s]) = {}
    /\ \A d \in dn : \A r \in Readers : Range(d.bytes) \cap Range(bf[r]) = {}
    /\ \A d, e \in dn : d # e => Range(d.bytes) \cap Range(e.bytes) = {}
    /\ \A n \in 1..k : \/ \E r \in Readers : n \in Range(bf[r])
                       \/ \E d \in dn : n \in Range(d.bytes)

\* A call that succeeded has what it asked for, and no other has as much.
Counted(bytes, asked, ok) == IF ok THEN Len(bytes) = asked ELSE Len(bytes) < asked

Once ==
    /\ written \in Nat /\ Taken \in Nat /\ Consecutive(line, Taken)
    /\ buf = [r \in Readers |-> buf[r]] /\ \A r \in Readers : Piece(buf[r], Taken)
    /\ \A r \in Readers : IF pc[r] = "idle" THEN buf[r] = <<>> ELSE Len(buf[r]) < want[r]
    /\ \A d \in done : Piece(d.bytes, Taken) /\ Counted(d.bytes, d.asked, d.ok)
    /\ Placed(done, buf, Taken)

\* Nothing is read into an empty buffer, and a buffer only grows.
LEMMA PieceGrows ==
    /\ \A k \in Nat : Piece(<<>>, k)
    /\ \A b, k, n : k \in Nat /\ n \in Nat /\ Piece(b, k) => Piece(b, k + n)
<1>1. ASSUME NEW k \in Nat
      PROVE  Piece(<<>>, k)
  BY DEF Piece
<1>2. ASSUME NEW b, NEW k \in Nat, NEW n \in Nat, Piece(b, k)
      PROVE  Piece(b, k + n)
  <2>1. 1..k \subseteq 1..(k + n)
    OBVIOUS
  <2>2. b \in Seq(1..(k + n))
    BY <1>2, <2>1 DEF Piece
  <2>3. QED
    BY <1>2, <2>2 DEF Piece
<1>3. QED
  BY <1>1, <1>2

\* The bytes of a piece.
LEMMA PieceRange ==
    ASSUME NEW k, NEW b, Piece(b, k)
    PROVE  Range(b) \subseteq 1..k /\ Len(b) \in Nat
<1> DEFINE S == 1..k
<1>1. b \in Seq(S)
  BY DEF Piece
<1> HIDE DEF S
<1>2. Len(b) \in Nat /\ DOMAIN b = 1..Len(b) /\ \A i \in 1..Len(b) : b[i] \in S
  BY <1>1
<1>3. Range(b) \subseteq S
  BY <1>2 DEF Range
<1>4. QED
  BY <1>2, <1>3 DEF S

\* What the far end writes follows what the driver has.
LEMMA WriteConsecutive ==
    ASSUME NEW l, NEW k \in Nat, Consecutive(l, k), NEW n \in Nat
    PROVE  LET w == l \o [i \in 1..n |-> k + Len(l) + i]
           IN  Consecutive(w, k) /\ Len(w) = Len(l) + n
<1> DEFINE m == Len(l)
           t == [i \in 1..n |-> k + m + i]
           w == l \o t
<1>1. m \in Nat /\ l \in Seq(Nat) /\ t \in Seq(Nat) /\ Len(t) = n
  BY DEF Consecutive
<1>2. Len(w) = m + n /\ w \in Seq(Nat)
  BY <1>1
<1>3. \A i \in 1..m : w[i] = k + i
  BY <1>1 DEF Consecutive
<1>4. \A i \in (m + 1)..(m + n) : w[i] = k + i
  BY <1>1
<1>5. \A i \in 1..(m + n) : w[i] = k + i
  BY <1>1, <1>3, <1>4
<1>6. QED
  BY <1>1, <1>2, <1>5 DEF Consecutive

\* Taking the first n bytes leaves the rest, and adds those to the piece.
LEMMA TakeConsecutive ==
    ASSUME NEW l, NEW k \in Nat, Consecutive(l, k), NEW n \in 1..Len(l),
           NEW b, Piece(b, k)
    PROVE  LET rest == SubSeq(l, n + 1, Len(l))
               all  == b \o SubSeq(l, 1, n)
           IN  /\ Consecutive(rest, k + n) /\ Len(rest) = Len(l) - n
               /\ Piece(all, k + n) /\ Len(all) = Len(b) + n
               /\ Range(all) = Range(b) \cup (k + 1)..(k + n)
<1> DEFINE m    == Len(l)
           h    == SubSeq(l, 1, n)
           rest == SubSeq(l, n + 1, m)
           all  == b \o h
           c    == Len(b)
<1>1. m \in Nat /\ l \in Seq(Nat) /\ \A i \in 1..m : l[i] = k + i
  BY DEF Consecutive
<1>2. rest \in Seq(Nat) /\ Len(rest) = m - n /\ \A i \in 1..(m - n) : rest[i] = l[n + i]
  BY <1>1
<1>3. Consecutive(rest, k + n)
  <2>1. \A i \in 1..(m - n) : rest[i] = (k + n) + i
    BY <1>1, <1>2
  <2>2. m - n \in Nat
    BY <1>1
  <2>3. rest = [i \in 1..(m - n) |-> (k + n) + i]
    <3> HIDE DEF m, rest
    <3>1. QED
      BY <1>2, <2>1, <2>2
  <2>4. QED
    <3> HIDE DEF m, rest
    <3>1. QED
      BY <1>2, <2>2, <2>3 DEF Consecutive
<1>4. h \in Seq(Nat) /\ Len(h) = n /\ \A i \in 1..n : h[i] = k + i
  BY <1>1
<1>5. c \in Nat /\ b \in Seq(Nat) /\ DOMAIN b = 1..c /\ \A i \in 1..c : b[i] \in 1..k
  BY DEF Piece
<1>6. /\ all \in Seq(Nat) /\ Len(all) = c + n /\ DOMAIN all = 1..(c + n)
      /\ \A i \in 1..c : all[i] = b[i]
      /\ \A i \in (c + 1)..(c + n) : all[i] = k + (i - c)
  BY <1>4, <1>5
<1>7. \A i \in 1..(c + n) : all[i] \in 1..(k + n)
  BY <1>5, <1>6
<1>8. \A i, j \in 1..(c + n) : i < j => all[i] < all[j]
  <2> SUFFICES ASSUME NEW i \in 1..(c + n), NEW j \in 1..(c + n), i < j
               PROVE  all[i] < all[j]
    OBVIOUS
  <2>1. CASE j \in 1..c
    <3>1. i \in 1..c
      BY <1>5, <2>1
    <3>2. b[i] < b[j]
      BY <1>5, <2>1, <3>1, Zenon DEF Piece
    <3>3. QED
      BY <1>6, <2>1, <3>1, <3>2
  <2>2. CASE i \in 1..c /\ j \in (c + 1)..(c + n)
    <3>1. all[i] \in 1..k /\ all[j] = k + (j - c) /\ j - c >= 1
      BY <1>5, <1>6, <2>2
    <3>2. QED
      BY <2>2, <3>1
  <2>3. CASE i \in (c + 1)..(c + n) /\ j \in (c + 1)..(c + n)
    BY <1>5, <1>6, <2>3
  <2>4. QED
    BY <1>5, <2>1, <2>2, <2>3
<1>9. Piece(all, k + n)
  <2> HIDE DEF all, c
  <2>1. all \in Seq(1..(k + n))
    BY <1>5, <1>6, <1>7
  <2>2. QED
    BY <1>6, <1>8, <2>1, Zenon DEF Piece
<1>10. Range(all) = Range(b) \cup (k + 1)..(k + n)
  <2>1. ASSUME NEW x \in Range(all)
        PROVE  x \in Range(b) \cup (k + 1)..(k + n)
    <3>1. PICK i \in 1..(c + n) : x = all[i]
      BY <1>6, <2>1 DEF Range
    <3>2. CASE i \in 1..c
      BY <1>5, <1>6, <3>1, <3>2 DEF Range
    <3>3. CASE i \in (c + 1)..(c + n)
      BY <1>5, <1>6, <3>1, <3>3
    <3>4. QED
      BY <1>5, <3>2, <3>3
  <2>2. ASSUME NEW x \in Range(b)
        PROVE  x \in Range(all)
    BY <1>5, <1>6, <2>2 DEF Range
  <2>3. ASSUME NEW x \in (k + 1)..(k + n)
        PROVE  x \in Range(all)
    <3> DEFINE i == c + (x - k)
    <3>1. i \in 1..(c + n) /\ i \in (c + 1)..(c + n) /\ k + (i - c) = x
      BY <1>5, <2>3
    <3>2. QED
      BY <1>6, <3>1 DEF Range
  <2>4. QED
    BY <2>1, <2>2, <2>3
<1>11. QED
  BY <1>2, <1>3, <1>6, <1>9, <1>10

\* A piece that takes the next bytes is still the only one that has them.
LEMMA PlacedRead ==
    ASSUME NEW dn, NEW bf, NEW k \in Nat, Placed(dn, bf, k), NEW r \in Readers,
           DOMAIN bf = Readers,
           \A s \in Readers : Range(bf[s]) \subseteq 1..k,
           \A d \in dn : Range(d.bytes) \subseteq 1..k,
           NEW n \in Nat, NEW b, Range(b) = Range(bf[r]) \cup (k + 1)..(k + n)
    PROVE  Placed(dn, [bf EXCEPT ![r] = b], k + n)
<1> DEFINE bfn == [bf EXCEPT ![r] = b]
           new == (k + 1)..(k + n)
<1>1. bfn[r] = b /\ \A s \in Readers \ {r} : bfn[s] = bf[s]
  OBVIOUS
<1>2. new \cap 1..k = {} /\ 1..(k + n) \subseteq 1..k \cup new
  OBVIOUS
<1> HIDE DEF bfn, new
<1>3. ASSUME NEW s \in Readers, NEW q \in Readers, s # q
      PROVE  Range(bfn[s]) \cap Range(bfn[q]) = {}
  <2>1. Range(bf[s]) \cap Range(bf[q]) = {}
    BY <1>3 DEF Placed
  <2>2. CASE s = r
    BY <1>1, <1>2, <1>3, <2>1, <2>2 DEF new
  <2>3. CASE q = r
    BY <1>1, <1>2, <1>3, <2>1, <2>3 DEF new
  <2>4. CASE s # r /\ q # r
    BY <1>1, <2>1, <2>4
  <2>5. QED
    BY <2>2, <2>3, <2>4
<1>4. ASSUME NEW d \in dn, NEW s \in Readers
      PROVE  Range(d.bytes) \cap Range(bfn[s]) = {}
  <2>1. Range(d.bytes) \cap Range(bf[s]) = {} /\ Range(d.bytes) \subseteq 1..k
    BY DEF Placed
  <2>2. CASE s = r
    BY <1>1, <1>2, <2>1, <2>2 DEF new
  <2>3. CASE s # r
    BY <1>1, <2>1, <2>3
  <2>4. QED
    BY <2>2, <2>3
<1>5. ASSUME NEW i \in 1..(k + n)
      PROVE  (\E s \in Readers : i \in Range(bfn[s])) \/ (\E d \in dn : i \in Range(d.bytes))
  <2>1. CASE i \in new
    BY <1>1, <2>1 DEF new
  <2>2. CASE i \in 1..k
    <3>1. CASE \E d \in dn : i \in Range(d.bytes)
      BY <3>1
    <3>2. ASSUME NEW s \in Readers, i \in Range(bf[s])
          PROVE  i \in Range(bfn[s])
      BY <1>1, <3>2
    <3>3. QED
      BY <2>2, <3>1, <3>2 DEF Placed
  <2>3. QED
    BY <1>2, <2>1, <2>2
<1>6. QED
  BY <1>3, <1>4, <1>5 DEF Placed, bfn

\* A call that is over keeps its bytes: what was in its buffer is in its record.
LEMMA PlacedReturned ==
    ASSUME NEW dn, NEW bf, NEW k \in Nat, Placed(dn, bf, k), NEW r \in Readers,
           DOMAIN bf = Readers, NEW rec, rec.bytes = bf[r]
    PROVE  Placed(dn \cup {rec}, [bf EXCEPT ![r] = <<>>], k)
<1> DEFINE bfn == [bf EXCEPT ![r] = <<>>]
           dnn == dn \cup {rec}
<1>1. bfn[r] = <<>> /\ \A s \in Readers \ {r} : bfn[s] = bf[s]
  OBVIOUS
<1>2. Range(<<>>) = {}
  BY DEF Range
<1> HIDE DEF bfn
<1>3. ASSUME NEW s \in Readers, NEW q \in Readers, s # q
      PROVE  Range(bfn[s]) \cap Range(bfn[q]) = {}
  BY <1>1, <1>2, <1>3 DEF Placed
<1>4. ASSUME NEW d \in dnn, NEW s \in Readers
      PROVE  Range(d.bytes) \cap Range(bfn[s]) = {}
  <2>1. CASE s = r
    BY <1>1, <1>2, <2>1
  <2>2. CASE s # r /\ d \in dn
    BY <1>1, <2>2 DEF Placed
  <2>3. CASE s # r /\ d = rec
    BY <1>1, <2>3 DEF Placed
  <2>4. QED
    BY <2>1, <2>2, <2>3
<1>5. ASSUME NEW d \in dnn, NEW e \in dnn, d # e
      PROVE  Range(d.bytes) \cap Range(e.bytes) = {}
  <2>1. CASE d \in dn /\ e \in dn
    BY <1>5, <2>1 DEF Placed
  <2>2. CASE d = rec /\ e \in dn
    BY <2>2 DEF Placed
  <2>3. CASE d \in dn /\ e = rec
    BY <2>3 DEF Placed
  <2>4. QED
    BY <1>5, <2>1, <2>2, <2>3
<1>6. ASSUME NEW i \in 1..k
      PROVE  (\E s \in Readers : i \in Range(bfn[s])) \/ (\E d \in dnn : i \in Range(d.bytes))
  <2>1. CASE \E d \in dn : i \in Range(d.bytes)
    BY <2>1
  <2>2. ASSUME NEW s \in Readers, i \in Range(bf[s])
        PROVE  (\E q \in Readers : i \in Range(bfn[q])) \/ (\E d \in dnn : i \in Range(d.bytes))
    BY <1>1, <2>2
  <2>3. QED
    BY <2>1, <2>2 DEF Placed
<1>7. QED
  BY <1>3, <1>4, <1>5, <1>6 DEF Placed, bfn

-----------------------------------------------------------------------------
(***************************************************************************)
(* Every byte once.                                                        *)
(***************************************************************************)

\* At first there are none.
LEMMA InitOnce == Init => Once
<1> SUFFICES ASSUME Init PROVE Once
  OBVIOUS
<1>1. Taken = 0 /\ Consecutive(line, 0)
  <2>1. line = <<>> /\ Len(<<>>) = 0 /\ <<>> = [i \in 1..0 |-> 0 + i]
    BY DEF Init
  <2>2. Consecutive(line, 0)
    BY <2>1 DEF Consecutive
  <2>3. written = 0 /\ Len(line) = 0
    BY <2>1 DEF Init
  <2>4. QED
    BY <2>2, <2>3 DEF Taken
<1>2. Range(<<>>) = {}
  BY DEF Range
<1>3. Placed({}, buf, 0)
  BY <1>2 DEF Init, Placed
<1>4. QED
  BY <1>1, <1>3, PieceGrows DEF Init, Once

\* A step that moves no byte, and begins and ends no call.
LEMMA NothingMoved ==
    ASSUME Once, UNCHANGED <<line, written, buf, done, want>>,
           \A r \in Readers : pc'[r] = "idle" <=> pc[r] = "idle"
    PROVE  Once'
<1>1. Taken' = Taken
  BY DEF Taken
<1>2. QED
  BY <1>1 DEF Once

\* A call that begins has nothing, and wants something.
LEMMA BeginOnce ==
    ASSUME UartType, Once, NEW r \in Readers, Begin(r)
    PROVE  Once'
<1>1. PICK n \in Wants : want' = [want EXCEPT ![r] = n]
  BY DEF Begin
<1>2. /\ pc[r] = "idle" /\ pc' = [pc EXCEPT ![r] = "select"]
      /\ UNCHANGED <<line, written, buf, done>>
  BY DEF Begin, Goto, uart
<1>3. Taken' = Taken
  BY <1>2 DEF Taken
<1>4. n > 0 /\ n \in Nat
  BY WantsAssumption
<1>5. ASSUME NEW s \in Readers
      PROVE  IF pc'[s] = "idle" THEN buf[s] = <<>> ELSE Len(buf[s]) < want'[s]
  <2>1. CASE s = r
    <3>1. pc'[s] = "select" /\ want'[s] = n /\ buf[s] = <<>>
      BY <1>1, <1>2, <2>1 DEF UartType, Once
    <3>2. QED
      BY <1>4, <3>1
  <2>2. CASE s # r
    <3>1. pc'[s] = pc[s] /\ want'[s] = want[s]
      BY <1>1, <1>2, <2>2 DEF UartType
    <3>2. QED
      BY <3>1 DEF Once
  <2>3. QED
    BY <2>1, <2>2
<1>6. QED
  BY <1>2, <1>3, <1>5 DEF Once

\* A call that is over leaves its bytes, the piece b, in its record; k is what has
\* been taken off the line when it ends.
LEMMA ReturnOnce ==
    ASSUME UartType, Once, NEW r \in Readers, NEW b, NEW ok, Return(r, b, ok),
           NEW k \in Nat, k = Taken', Taken <= k, Consecutive(line', k),
           Piece(b, k), Counted(b, want[r], ok),
           Placed(done, [buf EXCEPT ![r] = b], k)
    PROVE  Once'
<1> DEFINE rec == [asked |-> want[r], bytes |-> b, ok |-> ok]
<1>1. /\ pc' = [pc EXCEPT ![r] = "idle"] /\ done' = done \cup {rec}
      /\ want' = [want EXCEPT ![r] = 0] /\ buf' = [buf EXCEPT ![r] = <<>>]
      /\ written' = written
  BY DEF Return, Goto
<1>2. \A c, n : n \in Nat /\ Piece(c, Taken) /\ Taken + n = k => Piece(c, k)
  BY PieceGrows DEF Once
<1>3. \A c : Piece(c, Taken) => Piece(c, k)
  <2>1. k - Taken \in Nat /\ Taken + (k - Taken) = k
    BY DEF Once
  <2>2. QED
    BY <1>2, <2>1
<1>4. \A s \in Readers : Piece(buf'[s], k)
  BY <1>1, <1>3, PieceGrows DEF Once
<1>5. \A d \in done' : Piece(d.bytes, k) /\ Counted(d.bytes, d.asked, d.ok)
  <2>1. rec.bytes = b /\ rec.asked = want[r] /\ rec.ok = ok
    OBVIOUS
  <2>2. QED
    BY <1>1, <1>3, <2>1 DEF Once
<1>6. Placed(done', buf', k)
  <2> DEFINE bf == [buf EXCEPT ![r] = b]
  <2>1. bf[r] = b /\ DOMAIN bf = Readers /\ [bf EXCEPT ![r] = <<>>] = buf'
    BY <1>1 DEF Once
  <2>2. rec.bytes = bf[r]
    BY <2>1
  <2> HIDE DEF bf, rec
  <2>3. Placed(done \cup {rec}, [bf EXCEPT ![r] = <<>>], k)
    BY <2>1, <2>2, PlacedReturned DEF bf
  <2>4. QED
    BY <1>1, <2>1, <2>3 DEF rec
<1>7. \A s \in Readers : IF pc'[s] = "idle" THEN buf'[s] = <<>> ELSE Len(buf'[s]) < want'[s]
  BY <1>1 DEF UartType, Once
<1>8. QED
  BY <1>1, <1>4, <1>5, <1>6, <1>7 DEF Once
\* A read that succeeds, or ends a call with all it asked for, moves the bytes it
\* takes from the line into one place.
LEMMA ReadOnce ==
    ASSUME UartType, Once, NEW r \in Readers, ReadSome(r)
    PROVE  Once'
<1> DEFINE k == Taken
<1>1. PICK n \in 1..Min({Room(r), Len(line)}) :
          /\ line' = SubSeq(line, n + 1, Len(line))
          /\ LET all == buf[r] \o SubSeq(line, 1, n) IN
             \/ /\ Len(all) < want[r]
                /\ Goto(r, "select")
                /\ buf' = [buf EXCEPT ![r] = all]
                /\ UNCHANGED <<written, want, done>>
             \/ Len(all) >= want[r] /\ Return(r, all, Len(all) = want[r])
  BY DEF ReadSome
<1> DEFINE all == buf[r] \o SubSeq(line, 1, n)
           bf  == [buf EXCEPT ![r] = all]
<1>2. /\ k \in Nat /\ Consecutive(line, k) /\ Piece(buf[r], k) /\ Len(line) \in Nat
      /\ Len(buf[r]) < want[r] /\ want[r] \in Nat /\ Len(buf[r]) \in Nat
  <2>1. pc[r] # "idle"
    BY DEF ReadSome
  <2>2. k \in Nat /\ Consecutive(line, k) /\ Piece(buf[r], k) /\ Len(buf[r]) < want[r]
    BY <2>1 DEF Once
  <2>3. QED
    BY <2>2, PieceRange DEF UartType, Consecutive
<1>3. n \in 1..Len(line) /\ Len(buf[r]) + n <= want[r]
  <2>1. Room(r) \in Nat /\ Room(r) = want[r] - Len(buf[r])
    BY <1>2 DEF Room
  <2>2. n <= Room(r) /\ n <= Len(line) /\ n \in Nat /\ n >= 1
    BY <1>2, <2>1, LeastOfTwo
  <2>3. QED
    BY <1>2, <2>1, <2>2
<1>4. /\ Consecutive(line', k + n) /\ Len(line') = Len(line) - n
      /\ Piece(all, k + n) /\ Len(all) = Len(buf[r]) + n
      /\ Range(all) = Range(buf[r]) \cup (k + 1)..(k + n)
  BY <1>1, <1>2, <1>3, TakeConsecutive
<1>5. written' = written
  BY <1>1 DEF Return
<1>6. Taken' = k + n /\ n \in Nat /\ k + n \in Nat /\ k <= k + n
  BY <1>2, <1>3, <1>4, <1>5 DEF Taken, Once
<1>7. buf = [s \in Readers |-> buf[s]] /\ Placed(done, buf, k)
  BY DEF Once
<1>8. \A c : Piece(c, k) => Range(c) \subseteq 1..k
  BY PieceRange
<1>9. Placed(done, bf, k + n)
  <2>1. /\ \A s \in Readers : Range(buf[s]) \subseteq 1..k
        /\ \A d \in done : Range(d.bytes) \subseteq 1..k
    BY <1>8 DEF Once
  <2> HIDE DEF all, k
  <2>2. QED
    BY <1>2, <1>4, <1>6, <1>7, <2>1, PlacedRead
<1> HIDE DEF all, k
<1>10. CASE /\ Len(all) < want[r] /\ Goto(r, "select") /\ buf' = bf
            /\ UNCHANGED <<written, want, done>>
  <2>1. pc' = [pc EXCEPT ![r] = "select"] /\ pc[r] = "read"
    BY <1>10 DEF Goto, ReadSome
  <2>2. buf'[r] = all /\ \A s \in Readers \ {r} : buf'[s] = buf[s]
    BY <1>7, <1>10
  <2>3. \A c : Piece(c, k) => Piece(c, k + n)
    BY <1>2, <1>6, PieceGrows
  <2>4. \A s \in Readers : Piece(buf'[s], k + n)
    BY <1>4, <2>2, <2>3 DEF Once, k
  <2>5. \A s \in Readers : IF pc'[s] = "idle" THEN buf'[s] = <<>> ELSE Len(buf'[s]) < want'[s]
    BY <1>10, <2>1, <2>2 DEF UartType, Once
  <2>6. \A d \in done' : Piece(d.bytes, k + n) /\ Counted(d.bytes, d.asked, d.ok)
    BY <1>10, <2>3 DEF Once, k
  <2>7. Placed(done', buf', k + n)
    BY <1>9, <1>10
  <2>8. buf' = [s \in Readers |-> buf'[s]]
    BY <1>7, <1>10
  <2>9. written' \in Nat
    BY <1>5 DEF Once
  <2>10. QED
    BY <1>4, <1>6, <2>4, <2>5, <2>6, <2>7, <2>8, <2>9 DEF Once
<1>11. CASE Len(all) >= want[r] /\ Return(r, all, Len(all) = want[r])
  <2>1. Len(all) >= want[r]
    BY <1>11
  <2>2. Len(all) = want[r]
    BY <1>2, <1>3, <1>4, <2>1
  <2>3. Counted(all, want[r], Len(all) = want[r])
    BY <2>2 DEF Counted
  <2>4. Taken <= k + n
    BY <1>6 DEF k
  <2>5. QED
    BY <1>4, <1>6, <1>9, <1>11, <2>3, <2>4, ReturnOnce
<1>12. QED
  BY <1>1, <1>10, <1>11 DEF all

\* A call that gives up keeps what it has, short of what it asked for.
LEMMA GiveUpOnce ==
    ASSUME UartType, Once, NEW r \in Readers, pc[r] # "idle",
           Return(r, buf[r], FALSE), line' = line
    PROVE  Once'
<1>1. Taken' = Taken /\ Taken \in Nat /\ Taken <= Taken
  BY DEF Return, Taken, Once
<1>2. [buf EXCEPT ![r] = buf[r]] = buf
  BY DEF Once
<1>3. /\ Consecutive(line', Taken) /\ Piece(buf[r], Taken) /\ Counted(buf[r], want[r], FALSE)
      /\ Placed(done, [buf EXCEPT ![r] = buf[r]], Taken)
  BY <1>2 DEF Once, Counted
<1>4. QED
  BY <1>1, <1>3, ReturnOnce

\* What the far end writes has not been taken yet.
LEMMA WriteOnce ==
    ASSUME Once, write_uart
    PROVE  Once'
<1>1. PICK n \in Nat : /\ line' = line \o [i \in 1..n |-> written + i]
                       /\ written' = written + n
  BY WantsAssumption DEF write_uart
<1>2. /\ written \in Nat /\ Taken \in Nat /\ Consecutive(line, Taken) /\ Len(line) \in Nat
      /\ written = Taken + Len(line)
  BY DEF Once, Consecutive, Taken
<1>3. [i \in 1..n |-> written + i] = [i \in 1..n |-> Taken + Len(line) + i]
  BY <1>2
<1>4. Consecutive(line', Taken) /\ Len(line') = Len(line) + n
  BY <1>1, <1>2, <1>3, WriteConsecutive
<1>5. Taken' = Taken /\ written' \in Nat
  BY <1>1, <1>2, <1>4 DEF Taken
<1>6. UNCHANGED <<pc, want, buf, done>>
  BY DEF write_uart, call
<1>7. QED
  BY <1>4, <1>5, <1>6 DEF Once

\* Every step keeps it.
LEMMA StepOnce == Timed /\ Once /\ [Next]_vars => Once'
<1> SUFFICES ASSUME Timed, Once, [Next]_vars PROVE Once'
  OBVIOUS
<1>1. UartType
  BY DEF Timed
<1>2. CASE write_uart
  BY <1>2, WriteOnce
<1>3. CASE HangUp
  BY <1>3, NothingMoved DEF HangUp, call
<1>4. CASE Tick
  <2>1. \A r \in Readers : pc'[r] = "idle" <=> pc[r] = "idle"
    BY <1>4 DEF Tick
  <2>2. QED
    BY <1>4, <2>1, NothingMoved DEF Tick, uart
<1>5. ASSUME NEW r \in Readers, Begin(r) \/ Go(r) \/ Interrupted(r)
      PROVE  Once'
  <2>1. CASE Begin(r)
    BY <1>1, <2>1, BeginOnce
  <2>2. CASE Interrupted(r)
    BY <1>1, <2>2, GiveUpOnce DEF Interrupted
  <2>3. CASE TimedOut(r)
    BY <1>1, <2>3, GiveUpOnce DEF TimedOut
  <2>4. CASE ReadSome(r)
    BY <1>1, <2>4, ReadOnce
  <2>5. CASE Ready(r) \/ ReadNothing(r) \/ ReadHung(r)
    <3>1. PICK label \in {"select", "read", "asleep"} : pc' = [pc EXCEPT ![r] = label]
      BY <2>5 DEF Ready, ReadNothing, ReadHung, Goto
    <3>2. pc[r] # "idle" /\ UNCHANGED <<line, written, buf, done, want>>
      BY <2>5 DEF Ready, ReadNothing, ReadHung, uart, call
    <3>3. \A s \in Readers : pc'[s] = "idle" <=> pc[s] = "idle"
      BY <1>1, <3>1, <3>2 DEF UartType
    <3>4. QED
      BY <3>2, <3>3, NothingMoved
  <2>6. QED
    BY <1>5, <2>1, <2>2, <2>3, <2>4, <2>5 DEF Go
<1>6. CASE UNCHANGED vars
  BY <1>6, NothingMoved DEF vars, uart, call
<1>7. QED
  BY <1>2, <1>3, <1>4, <1>5, <1>6 DEF Next

\* The invariant behind what becomes of the bytes.
LEMMA OnceInvariance == Spec => []Once
<1>1. Init => Timed /\ Once
  BY InitTimed, InitOnce
<1>2. Timed /\ Once /\ [Next]_vars => (Timed /\ Once)'
  BY StepTimed, StepOnce
<1>3. QED
  BY <1>1, <1>2, PTL DEF Spec

\* The records of which a byte is one are none, or the one of the place it is in.
LEMMA OnceCounted ==
    ASSUME Once
    PROVE  EachByteOnce
<1> DEFINE rec(r) == [asked |-> want[r], bytes |-> buf[r], ok |-> FALSE]
           all    == done \cup {c \in {rec(r) : r \in Readers} : c.bytes # <<>>}
           at(n)  == {c \in all : n \in Range(c.bytes)}
<1>1. \A r \in Readers : rec(r).asked = want[r] /\ rec(r).bytes = buf[r] /\ rec(r).ok = FALSE
  OBVIOUS
<1>2. \A c \in all : \/ c \in done
                     \/ \E r \in Readers : c = rec(r) /\ buf[r] # <<>>
  BY <1>1
<1>3. ASSUME NEW c \in all
      PROVE  Piece(c.bytes, Taken) /\ Counted(c.bytes, c.asked, c.ok)
  <2>1. CASE c \in done
    BY <2>1 DEF Once
  <2>2. ASSUME NEW r \in Readers, c = rec(r), buf[r] # <<>>
        PROVE  Piece(c.bytes, Taken) /\ Counted(c.bytes, c.asked, c.ok)
    <3>1. Piece(buf[r], Taken) /\ Len(buf[r]) < want[r]
      BY <2>2 DEF Once
    <3>2. c.asked = want[r] /\ c.bytes = buf[r] /\ c.ok = FALSE
      BY <1>1, <2>2
    <3>3. QED
      BY <3>1, <3>2 DEF Counted
  <2>3. QED
    BY <1>2, <2>1, <2>2
<1>4. ASSUME NEW c \in all, NEW d \in all, NEW n \in Range(c.bytes), n \in Range(d.bytes)
      PROVE  c = d
  <2>1. CASE c \in done /\ d \in done
    BY <1>4, <2>1 DEF Once, Placed
  <2>2. ASSUME NEW r \in Readers, c = rec(r), d \in done
        PROVE  c = d
    BY <1>1, <1>4, <2>2 DEF Once, Placed
  <2>3. ASSUME NEW r \in Readers, d = rec(r), c \in done
        PROVE  c = d
    BY <1>1, <1>4, <2>3 DEF Once, Placed
  <2>4. ASSUME NEW r \in Readers, c = rec(r), NEW s \in Readers, d = rec(s)
        PROVE  c = d
    <3>1. r = s
      BY <1>1, <1>4, <2>4 DEF Once, Placed
    <3>2. QED
      BY <2>4, <3>1
  <2>5. QED
    BY <1>2, <2>1, <2>2, <2>3, <2>4
<1>5. ASSUME NEW n \in 1..written, n <= Taken
      PROVE  Cardinality(at(n)) = 1
  <2>1. \E c \in all : n \in Range(c.bytes)
    <3>1. n \in 1..Taken
      BY <1>5 DEF Once
    <3>2. CASE \E d \in done : n \in Range(d.bytes)
      BY <3>2
    <3>3. ASSUME NEW r \in Readers, n \in Range(buf[r])
          PROVE  \E c \in all : n \in Range(c.bytes)
      <4>1. buf[r] # <<>>
        BY <3>3 DEF Range
      <4>2. rec(r) \in all
        BY <1>1, <4>1
      <4>3. QED
        BY <1>1, <3>3, <4>2
    <3>4. QED
      BY <3>1, <3>2, <3>3 DEF Once, Placed
  <2>2. PICK c \in all : n \in Range(c.bytes)
    BY <2>1
  <2>3. at(n) = {c}
    BY <1>4, <2>2
  <2>4. QED
    BY <2>3, FS_Singleton
<1>6. ASSUME NEW n \in 1..written, ~(n <= Taken)
      PROVE  Cardinality(at(n)) = 0
  <2>1. \A c \in all : Range(c.bytes) \subseteq 1..Taken
    BY <1>3, PieceRange
  <2>2. n \notin 1..Taken
    BY <1>6 DEF Once
  <2>3. at(n) = {}
    BY <2>1, <2>2
  <2>4. QED
    BY <2>3, FS_EmptySet
<1>7. \A c \in all : IF c.ok THEN Len(c.bytes) = c.asked ELSE Len(c.bytes) < c.asked
  BY <1>3 DEF Counted
<1>8. \A c \in all : \A i, j \in DOMAIN c.bytes : i < j => c.bytes[i] < c.bytes[j]
  BY <1>3 DEF Piece
<1>9. \A n \in 1..written : Cardinality(at(n)) = IF n <= Taken THEN 1 ELSE 0
  BY <1>5, <1>6
<1>10. QED
  BY <1>7, <1>8, <1>9, Zenon DEF EachByteOnce, Taken

\* Whichever threads read and however their calls end, every byte taken off the
\* line is in the bytes of one call and of no other, in the order it was written,
\* and only a call that has all it asked for succeeds.
THEOREM NoByteTwice == Spec => []EachByteOnce
BY OnceInvariance, OnceCounted, PTL
=============================================================================
