------------------------- MODULE SecilThreadsProofs -------------------------
(***************************************************************************)
(* Proofs about SecilThreads: if no send of the processor overlaps another *)
(* or a secil_init, the answers of secil_receive included, sending         *)
(* implements SecilOutbox, for all messages, sizes, limits and buffers,    *)
(* and whenever the library is ended.                                      *)
(***************************************************************************)
EXTENDS SecilThreads, TLAPS

\* Of the buffer, of sums and of frames only this is used: that they are
\* sequences.
IsSequence(s) == Len(s) \in Nat /\ s = [i \in 1..Len(s) |-> s[i]]

ThreadsOK ==
    /\ pc      \in [Thread -> {"idle", "encode", "sum", "footer", "write"}]
    /\ message \in [Thread -> Message \cup {NoMessage}]
    /\ pos     \in [Thread -> Nat]
    /\ DOMAIN sum = Thread
    /\ buffer = [i \in 1..(Room + 2) |-> buffer[i]]
    /\ IsSequence(wire)
    /\ \A t \in Thread : pc[t] = "idle" <=> message[t] = NoMessage

\* One thread at most is in secil_send.
Alone == \A t, u \in Thread : pc[t] # "idle" /\ pc[u] # "idle" => t = u

\* What the call of t has stored is in the buffer, and nothing has changed it.
StoredBody(t) == \A i \in 1..pos[t] : buffer[i + 1] = Body(message[t], i)
Stored(t) ==
    /\ pos[t] <= Size[message[t]] /\ StoredBody(t)
    /\ pc[t] \in {"sum", "footer", "write"} =>
           /\ pos[t] = Size[message[t]] /\ pos[t] <= Limit
           /\ buffer[1] = Header(pos[t])
    /\ pc[t] \in {"footer", "write"} => sum[t] = [i \in 1..(pos[t] + 1) |-> buffer[i]]
    /\ pc[t] = "write" => buffer[pos[t] + 2] = Footer(sum[t])

\* What has been handed over is understood.
Meant == \A i \in 1..Len(wire) : Meaning(wire[i]) \in Message

\* The inductive invariant, beside ThreadsOK, when calls do not overlap.
SInv == Alone /\ Meant /\ \A t \in Thread : pc[t] # "idle" => Stored(t)

-----------------------------------------------------------------------------
(***************************************************************************)
(* Sequences and frames.                                                   *)
(***************************************************************************)

\* The first k elements of a function on 1..n.
LEMMA Prefix ==
    ASSUME NEW n \in Nat, NEW f, f = [i \in 1..n |-> f[i]], NEW k \in 0..n
    PROVE  SubSeq(f, 1, k) = [i \in 1..k |-> f[i]]
<1> DEFINE S == {f[i] : i \in 1..n}
<1>1. f \in Seq(S)
  OBVIOUS
<1>2. Len(f) = n
  BY <1>1
<1>3. QED
  BY <1>1, <1>2

\* It has the type of a sequence, and appending nothing does not change it.
LEMMA SequenceTyped ==
    ASSUME NEW s, IsSequence(s)
    PROVE  s \in Seq({s[i] : i \in 1..Len(s)}) /\ s \o <<>> = s
<1> DEFINE n == Len(s)
           S == {s[i] : i \in 1..n}
<1>1. n \in Nat /\ s \in [1..n -> S]
  BY DEF IsSequence
<1>2. s \in Seq(S)
  BY <1>1
<1>3. QED
  BY <1>2

\* Appending keeps a sequence one, and its elements where they were.
LEMMA Appended ==
    ASSUME NEW s, IsSequence(s), NEW x
    PROVE  /\ IsSequence(s \o <<x>>) /\ Len(s \o <<x>>) = Len(s) + 1
           /\ \A i \in 1..Len(s) : (s \o <<x>>)[i] = s[i]
           /\ (s \o <<x>>)[Len(s) + 1] = x
<1> DEFINE S == {s[i] : i \in 1..Len(s)} \cup {x}
<1>1. s \in Seq(S) /\ <<x>> \in Seq(S)
  BY DEF IsSequence
<1>2. s \o <<x>> \in Seq(S) /\ Len(<<x>>) = 1 /\ <<x>>[1] = x
  BY <1>1
<1>3. /\ Len(s \o <<x>>) = Len(s) + 1
      /\ \A i \in 1..Len(s) : (s \o <<x>>)[i] = s[i]
      /\ (s \o <<x>>)[Len(s) + 1] = x
  BY <1>1, <1>2
<1>4. QED
  BY <1>2, <1>3 DEF IsSequence

\* A call that has stored everything hands over a frame that means its message.
LEMMA HandedMeans ==
    ASSUME ThreadsOK, NEW t \in Thread, pc[t] = "write", Stored(t)
    PROVE  Meaning(Handed(pos[t])) = message[t] /\ message[t] \in Message
<1> DEFINE m == message[t]
           n == pos[t]
           s == Handed(n)
<1>1. m \in Message /\ n = Size[m] /\ n \in 1..Room /\ n \in 1..Limit /\ Room \in Nat
  BY SizeAssumption DEF ThreadsOK, Stored
<1>2. s = [i \in 1..(n + 2) |-> buffer[i]]
  BY <1>1, Prefix DEF Handed, ThreadsOK
<1>3. s \in Seq({buffer[i] : i \in 1..(n + 2)}) /\ Len(s) = n + 2
  BY <1>1, <1>2
<1>4. SubSeq(s, 1, n + 1) = [i \in 1..(n + 1) |-> buffer[i]]
  BY <1>1, <1>2, <1>3
<1>5. Accepted(s)
  <2>1. s[1] = buffer[1] /\ s[n + 2] = buffer[n + 2]
    <3>1. 1 \in 1..(n + 2) /\ n + 2 \in 1..(n + 2)
      BY <1>1
    <3>2. QED
      BY <1>2, <3>1, Zenon
  <2>2. /\ buffer[1] = Header(n)
        /\ sum[t] = [i \in 1..(n + 1) |-> buffer[i]] /\ buffer[n + 2] = Footer(sum[t])
    BY DEF Stored
  <2>3. Len(s) = n + 2 /\ s[1] = Header(n) /\ s[n + 2] = Footer(SubSeq(s, 1, n + 1))
    BY <1>3, <1>4, <2>1, <2>2
  <2>4. QED
    BY <1>1, <2>3, Zenon DEF Accepted
<1>6. SubSeq(s, 2, Len(s) - 1) = [i \in 1..n |-> buffer[i + 1]]
  <2>1. SubSeq(s, 2, n + 1) = [i \in 1..n |-> s[i + 1]]
    <3> HIDE DEF n, s
    <3>1. n \in Nat /\ n + 1 <= Len(s)
      BY <1>1, <1>3
    <3>2. QED
      BY <1>3, <3>1
  <2>2. \A i \in 1..n : i + 1 \in 1..(n + 2)
    BY <1>1
  <2>3. \A i \in 1..n : s[i + 1] = buffer[i + 1]
    BY <1>2, <2>2, Zenon
  <2>4. Len(s) - 1 = n + 1
    BY <1>1, <1>3
  <2>5. QED
    BY <2>1, <2>3, <2>4
<1>7. Holds(s, m)
  BY <1>1, <1>6 DEF Holds, Stored, StoredBody
<1>8. ASSUME NEW k \in Message, Holds(s, k)
      PROVE  k = m
  <2>1. Size[k] \in Nat /\ Size[k] >= 1
    BY SizeAssumption
  <2>2. [i \in 1..Size[k] |-> Body(k, i)] = [i \in 1..n |-> Body(m, i)]
    BY <1>1, <1>7, <1>8 DEF Holds
  <2>3. 1 \in 1..Size[k] /\ 1 \in 1..n
    BY <1>1, <2>1
  <2>4. Body(k, 1) = Body(m, 1)
    <3>1. [i \in 1..Size[k] |-> Body(k, i)][1] = Body(k, 1)
      BY <2>3
    <3>2. [i \in 1..n |-> Body(m, i)][1] = Body(m, 1)
      BY <2>3
    <3>3. QED
      BY <2>2, <3>1, <3>2
  <2>5. QED
    BY <2>4 DEF Body
<1>9. QED
  BY <1>1, <1>5, <1>7, <1>8 DEF Meaning

-----------------------------------------------------------------------------
(***************************************************************************)
(* The types, and that a thread in secil_send has a message.               *)
(***************************************************************************)

\* At first nobody sends.
LEMMA InitThreads == Init => ThreadsOK
<1> SUFFICES ASSUME Init PROVE ThreadsOK
  OBVIOUS
<1>1. IsSequence(wire) /\ buffer = [i \in 1..(Room + 2) |-> buffer[i]]
  BY DEF Init, IsSequence
<1>2. QED
  BY <1>1, MessageAssumption DEF Init, ThreadsOK

\* A call that begins has a message to send.
LEMMA BeginThreads ==
    ASSUME ThreadsOK, NEW t \in Thread, NEW m \in Message, Begin(t, m)
    PROVE  ThreadsOK'
BY MessageAssumption DEF ThreadsOK, IsSequence, Begin, Goto, In

\* A call that ends leaves the others as they are.
LEMMA ReturnThreads ==
    ASSUME ThreadsOK, NEW t \in Thread, NEW ws, Return(t, ws), IsSequence(wire \o ws)
    PROVE  ThreadsOK'
<1>1. IsSequence(wire')
  BY DEF Return
<1>2. pc' = [pc EXCEPT ![t] = "idle"] /\ message' = [message EXCEPT ![t] = NoMessage]
  BY DEF Return, Goto
<1>3. \A u \in Thread : pc'[u] = "idle" <=> message'[u] = NoMessage
  BY <1>2 DEF ThreadsOK
<1>4. QED
  BY <1>1, <1>2, <1>3 DEF ThreadsOK, Return

\* The frame handed over is one more on the line, or none.
LEMMA HandOverWire ==
    ASSUME ThreadsOK, NEW x, NEW ws \in {<<>>, <<x>>}
    PROVE  IsSequence(wire \o ws)
<1>1. IsSequence(wire)
  BY DEF ThreadsOK
<1>2. CASE ws = <<>>
  BY <1>1, <1>2, SequenceTyped
<1>3. CASE ws = <<x>>
  BY <1>1, <1>3, Appended
<1>4. QED
  BY <1>2, <1>3

\* What concerns only the receiver and the callbacks.
Aside == secil_deinit \/ Receive \/ CheckCallbacks \/ secil_read \/ ReadReturns \/ NullCall

\* It leaves alone what sending is about.
LEMMA AsideKeeps == Aside => UNCHANGED <<pc, message, pos, sum, wire, calls, buffer>>
BY DEF Aside, secil_deinit, Receive, CheckCallbacks, secil_read, ReadReturns, NullCall,
       ReceiverGoto, sending

\* Every step of every thread preserves the types, whether calls overlap or not.
LEMMA StepThreads == ThreadsOK /\ [Next]_vars => ThreadsOK'
<1> SUFFICES ASSUME ThreadsOK, [Next]_vars PROVE ThreadsOK'
  OBVIOUS
<1>1. CASE secil_init
  BY <1>1 DEF ThreadsOK, IsSequence, secil_init, sending
<1>2. CASE Aside
  BY <1>2, AsideKeeps DEF ThreadsOK, IsSequence
<1>3. CASE AnswerFrame
  <2>1. PICK f \in Inbound : Answer[f] # NoMessage /\ Begin(Receiver, Answer[f])
    BY <1>3 DEF AnswerFrame
  <2>2. Answer[f] \in Message /\ Receiver \in Thread
    BY <2>1, AnswerAssumption DEF Thread
  <2>3. QED
    BY <2>1, <2>2, BeginThreads
<1>4. ASSUME NEW t \in Thread, Step(t)
      PROVE  ThreadsOK'
  <2>1. CASE SendCall(t)
    BY <2>1, BeginThreads DEF SendCall
  <2>2. CASE Encode(t)
    <3>1. pos' \in [Thread -> Nat]
      BY <2>2 DEF ThreadsOK, Encode
    <3>2. buffer' = [i \in 1..(Room + 2) |-> buffer'[i]]
      BY <2>2 DEF ThreadsOK, Encode
    <3>3. QED
      BY <2>2, <3>1, <3>2 DEF ThreadsOK, Encode
  <2>3. CASE TooLarge(t)
    BY <2>3, HandOverWire, ReturnThreads DEF ThreadsOK, TooLarge
  <2>4. CASE WriteHeader(t)
    BY <2>4 DEF In, ThreadsOK, WriteHeader, Goto
  <2>5. CASE ComputeSum(t)
    BY <2>5 DEF In, ThreadsOK, ComputeSum, Goto
  <2>6. CASE WriteFooter(t)
    BY <2>6 DEF In, ThreadsOK, WriteFooter, Goto
  <2>7. CASE HandOver(t)
    <3>1. PICK ws \in {<<>>, <<Handed(pos[t])>>} : Return(t, ws)
      BY <2>7 DEF HandOver
    <3>2. IsSequence(wire \o ws)
      BY HandOverWire DEF ThreadsOK
    <3>3. QED
      BY <3>1, <3>2, ReturnThreads
  <2>8. QED
    BY <1>4, <2>1, <2>2, <2>3, <2>4, <2>5, <2>6, <2>7 DEF Step
<1>5. CASE UNCHANGED vars
  BY <1>5 DEF ThreadsOK, IsSequence, vars, sending
<1>6. QED
  BY <1>1, <1>2, <1>3, <1>4, <1>5 DEF Next, Aside

-----------------------------------------------------------------------------
(***************************************************************************)
(* What is stored, when the application keeps its sends from overlapping.  *)
(***************************************************************************)

\* A step of the one thread that is in secil_send concerns nobody else.
LEMMA OnlyOne ==
    ASSUME Alone, Meant', NEW t \in Thread, pc[t] # "idle",
           \A u \in Thread \ {t} : pc'[u] = pc[u],
           pc'[t] # "idle" => Stored(t)'
    PROVE  SInv'
<1>1. \A u \in Thread : pc'[u] # "idle" => u = t
  BY DEF Alone
<1>2. Alone'
  BY <1>1 DEF Alone
<1>3. QED
  BY <1>1, <1>2 DEF SInv

\* At first nobody sends.
LEMMA InitStored == Init => SInv
BY DEF Init, SInv, Alone, Meant

\* A call begins when there is no other, with nothing stored.
LEMMA BeginStored ==
    ASSUME ThreadsOK, SInv, Serial, NEW t \in Thread, NEW m \in Message, Begin(t, m)
    PROVE  SInv'
<1>1. /\ \A u \in Thread : pc[u] = "idle"
      /\ pc' = [pc EXCEPT ![t] = "encode"] /\ message' = [message EXCEPT ![t] = m]
      /\ pos' = [pos EXCEPT ![t] = 0] /\ wire' = wire /\ buffer' = buffer
  BY DEF Begin, Goto
<1>2. pc'[t] = "encode" /\ message'[t] = m /\ pos'[t] = 0
  BY <1>1 DEF ThreadsOK
<1>3. \A u \in Thread : pc'[u] # "idle" => u = t
  BY <1>1 DEF ThreadsOK
<1>4. Stored(t)'
  BY <1>2, SizeAssumption DEF Stored, StoredBody
<1>5. Alone' /\ Meant'
  BY <1>1, <1>3 DEF Alone, SInv, Meant
<1>6. QED
  BY <1>3, <1>4, <1>5 DEF SInv

\* Each store of a call goes where none of its earlier ones did.
LEMMA EncodeStored ==
    ASSUME ThreadsOK, SInv, NEW t \in Thread, Encode(t)
    PROVE  SInv'
<1> DEFINE n == pos[t]
           m == message[t]
<1>1. /\ pc[t] = "encode" /\ n \in Nat /\ n < Size[m] /\ m \in Message
      /\ Stored(t) /\ Alone /\ Meant
  BY DEF In, Encode, ThreadsOK, SInv
<1>2. /\ pc' = pc /\ message' = message /\ sum' = sum /\ wire' = wire
      /\ pos' = [pos EXCEPT ![t] = n + 1]
      /\ buffer' = [buffer EXCEPT ![n + 2] = Body(m, n + 1)]
  BY DEF Encode
<1>3. pos'[t] = n + 1 /\ message'[t] = m /\ pc'[t] = "encode" /\ Size[m] \in 1..Room
  BY <1>1, <1>2, SizeAssumption DEF ThreadsOK
<1>4. DOMAIN buffer = 1..(Room + 2) /\ n + 2 \in DOMAIN buffer
  BY <1>1, <1>3, SizeAssumption DEF ThreadsOK
<1>5. ASSUME NEW i \in 1..(n + 1)
      PROVE  buffer'[i + 1] = Body(m, i)
  <2>1. CASE i = n + 1
    <3>1. buffer'[n + 2] = Body(m, n + 1)
      BY <1>2, <1>4
    <3>2. i + 1 = n + 2
      BY <1>1, <2>1
    <3>3. QED
      BY <2>1, <3>1, <3>2
  <2>2. CASE i \in 1..n
    <3>1. buffer[i + 1] = Body(m, i)
      BY <1>1, <2>2 DEF Stored, StoredBody
    <3>2. i + 1 # n + 2 /\ i + 1 \in 1..(Room + 2)
      BY <1>1, <1>3, <2>2, SizeAssumption
    <3>3. QED
      BY <1>2, <1>4, <3>1, <3>2
  <2>3. QED
    BY <1>1, <2>1, <2>2
<1>6. Stored(t)'
  BY <1>1, <1>3, <1>5 DEF Stored, StoredBody
<1>7. Meant'
  BY <1>1, <1>2 DEF Meant
<1>8. QED
  BY <1>1, <1>2, <1>6, <1>7, OnlyOne

\* The header goes in front of the body.
LEMMA WriteHeaderStored ==
    ASSUME ThreadsOK, SInv, NEW t \in Thread, WriteHeader(t)
    PROVE  SInv'
<1> DEFINE n == pos[t]
           m == message[t]
<1>1. /\ pc[t] = "encode" /\ n \in Nat /\ n = Size[m] /\ n <= Limit
      /\ Stored(t) /\ Alone /\ Meant
  BY DEF In, WriteHeader, ThreadsOK, SInv
<1>2. /\ pc' = [pc EXCEPT ![t] = "sum"] /\ message' = message /\ sum' = sum
      /\ wire' = wire /\ pos' = pos /\ buffer' = [buffer EXCEPT ![1] = Header(n)]
  BY DEF WriteHeader, Goto
<1>3. pc'[t] = "sum" /\ \A u \in Thread \ {t} : pc'[u] = pc[u]
  BY <1>2 DEF ThreadsOK
<1>4. DOMAIN buffer = 1..(Room + 2) /\ 1 \in DOMAIN buffer
  BY SizeAssumption DEF ThreadsOK
<1>5. buffer'[1] = Header(n) /\ \A i \in 1..n : buffer'[i + 1] = buffer[i + 1]
  BY <1>1, <1>2, <1>4
<1>6. Stored(t)'
  BY <1>1, <1>2, <1>3, <1>5 DEF Stored, StoredBody
<1>7. Meant'
  BY <1>1, <1>2 DEF Meant
<1>8. QED
  BY <1>1, <1>3, <1>6, <1>7, OnlyOne

\* The sum is that of the header and the body.
LEMMA ComputeSumStored ==
    ASSUME ThreadsOK, SInv, NEW t \in Thread, ComputeSum(t)
    PROVE  SInv'
<1> DEFINE n == pos[t]
<1>1. /\ pc[t] = "sum" /\ n \in Nat /\ n = Size[message[t]] /\ n <= Limit
      /\ Stored(t) /\ Alone /\ Meant
  BY DEF In, ComputeSum, ThreadsOK, SInv, Stored
<1>2. /\ pc' = [pc EXCEPT ![t] = "footer"] /\ message' = message
      /\ sum' = [sum EXCEPT ![t] = Covered(n)]
      /\ wire' = wire /\ pos' = pos /\ buffer' = buffer
  BY DEF ComputeSum, Goto
<1>3. pc'[t] = "footer" /\ \A u \in Thread \ {t} : pc'[u] = pc[u]
  BY <1>2 DEF ThreadsOK
<1>4. n + 1 \in 0..(Room + 2) /\ Room + 2 \in Nat
  BY <1>1, SizeAssumption
<1>5. sum'[t] = [i \in 1..(n + 1) |-> buffer[i]]
  <2>1. sum'[t] = Covered(n)
    BY <1>2 DEF ThreadsOK
  <2>2. buffer = [i \in 1..(Room + 2) |-> buffer[i]]
    BY DEF ThreadsOK
  <2>3. QED
    BY <1>4, <2>1, <2>2, Prefix DEF Covered
<1>6. Stored(t)'
  BY <1>1, <1>2, <1>3, <1>5 DEF Stored, StoredBody
<1>7. Meant'
  BY <1>1, <1>2 DEF Meant
<1>8. QED
  BY <1>1, <1>3, <1>6, <1>7, OnlyOne

\* The footer goes behind the body, and the sum is still that of what is before it.
LEMMA WriteFooterStored ==
    ASSUME ThreadsOK, SInv, NEW t \in Thread, WriteFooter(t)
    PROVE  SInv'
<1> DEFINE n == pos[t]
<1>1. /\ pc[t] = "footer" /\ n \in Nat /\ n = Size[message[t]] /\ n <= Limit
      /\ Stored(t) /\ Alone /\ Meant
  BY DEF In, WriteFooter, ThreadsOK, SInv, Stored
<1>2. /\ pc' = [pc EXCEPT ![t] = "write"] /\ message' = message /\ sum' = sum
      /\ wire' = wire /\ pos' = pos
      /\ buffer' = [buffer EXCEPT ![n + 2] = Footer(sum[t])]
  BY DEF WriteFooter, Goto
<1>3. pc'[t] = "write" /\ \A u \in Thread \ {t} : pc'[u] = pc[u]
  BY <1>2 DEF ThreadsOK
<1>4. DOMAIN buffer = 1..(Room + 2) /\ n + 2 \in DOMAIN buffer
  BY <1>1, SizeAssumption DEF ThreadsOK
<1>5. /\ buffer'[n + 2] = Footer(sum[t])
      /\ \A i \in 1..(n + 1) : buffer'[i] = buffer[i]
  BY <1>1, <1>2, <1>4
<1>6. buffer[1] = Header(n) /\ StoredBody(t)
      /\ sum[t] = [i \in 1..(n + 1) |-> buffer[i]]
  BY <1>1 DEF Stored
<1>7. buffer'[1] = Header(n) /\ StoredBody(t)'
  <2>1. 1 \in 1..(n + 1) /\ \A i \in 1..n : i + 1 \in 1..(n + 1)
    BY <1>1
  <2>2. QED
    BY <1>2, <1>5, <1>6, <2>1 DEF StoredBody
<1>8. sum'[t] = [i \in 1..(n + 1) |-> buffer'[i]]
  BY <1>2, <1>5, <1>6
<1>9. Stored(t)'
  BY <1>1, <1>2, <1>3, <1>5, <1>7, <1>8 DEF Stored
<1>10. Meant'
  BY <1>1, <1>2 DEF Meant
<1>11. QED
  BY <1>1, <1>3, <1>9, <1>10, OnlyOne

\* A call that ends leaves what is on the line understood.
LEMMA ReturnStored ==
    ASSUME ThreadsOK, SInv, NEW t \in Thread, pc[t] # "idle", NEW ws, Return(t, ws), Meant'
    PROVE  SInv'
<1>1. pc'[t] = "idle" /\ \A u \in Thread \ {t} : pc'[u] = pc[u]
  BY DEF Return, Goto, ThreadsOK
<1>2. QED
  BY <1>1, OnlyOne DEF SInv

\* What HandOver puts on the line is understood: it is the message of the call.
LEMMA HandOverMeant ==
    ASSUME ThreadsOK, SInv, NEW t \in Thread, HandOver(t)
    PROVE  Meant'
<1>1. /\ Stored(t) /\ Meant /\ IsSequence(wire) /\ ThreadsOK /\ pc[t] = "write"
  BY DEF In, HandOver, SInv, ThreadsOK
<1>2. PICK ws \in {<<>>, <<Handed(pos[t])>>} : wire' = wire \o ws
  BY DEF HandOver, Return
<1>3. CASE ws = <<>>
  <2>1. wire' = wire
    BY <1>1, <1>2, <1>3, SequenceTyped
  <2>2. QED
    BY <1>1, <2>1 DEF Meant
<1>4. CASE ws = <<Handed(pos[t])>>
  <2> DEFINE x == Handed(pos[t])
  <2>1. Meaning(x) \in Message
    BY <1>1, HandedMeans
  <2>2. /\ Len(wire') = Len(wire) + 1 /\ wire'[Len(wire) + 1] = x
        /\ \A i \in 1..Len(wire) : wire'[i] = wire[i]
    BY <1>1, <1>2, <1>4, Appended
  <2>3. ASSUME NEW i \in 1..Len(wire')
        PROVE  Meaning(wire'[i]) \in Message
    <3>1. CASE i \in 1..Len(wire)
      BY <1>1, <2>2, <3>1 DEF Meant
    <3>2. CASE i = Len(wire) + 1
      BY <2>1, <2>2, <3>2
    <3>3. QED
      BY <1>1, <2>2, <3>1, <3>2 DEF IsSequence
  <2>4. QED
    BY <2>3 DEF Meant
<1>5. QED
  BY <1>2, <1>3, <1>4

\* Every step preserves it.
LEMMA StepStored ==
    ASSUME Serial
    PROVE  ThreadsOK /\ SInv /\ [Next]_vars => SInv'
<1> SUFFICES ASSUME ThreadsOK, SInv, [Next]_vars PROVE SInv'
  OBVIOUS
<1>1. CASE secil_init
  BY <1>1 DEF secil_init, sending, SInv, Alone, Meant
<1>2. CASE Aside
  BY <1>2, AsideKeeps DEF SInv, Alone, Meant, Stored, StoredBody
<1>3. CASE AnswerFrame
  <2>1. PICK f \in Inbound : Answer[f] # NoMessage /\ Begin(Receiver, Answer[f])
    BY <1>3 DEF AnswerFrame
  <2>2. Answer[f] \in Message /\ Receiver \in Thread
    BY <2>1, AnswerAssumption DEF Thread
  <2>3. QED
    BY <2>1, <2>2, BeginStored
<1>4. ASSUME NEW t \in Thread, Step(t)
      PROVE  SInv'
  <2>1. CASE SendCall(t)
    BY <2>1, BeginStored DEF SendCall
  <2>2. CASE Encode(t)
    BY <2>2, EncodeStored
  <2>3. CASE TooLarge(t)
    <3>1. wire \o <<>> = wire
      BY SequenceTyped DEF ThreadsOK
    <3>2. Meant'
      BY <2>3, <3>1 DEF TooLarge, Return, SInv, Meant
    <3>3. QED
      BY <2>3, <3>2, ReturnStored DEF In, TooLarge
  <2>4. CASE WriteHeader(t)
    BY <2>4, WriteHeaderStored
  <2>5. CASE ComputeSum(t)
    BY <2>5, ComputeSumStored
  <2>6. CASE WriteFooter(t)
    BY <2>6, WriteFooterStored
  <2>7. CASE HandOver(t)
    BY <2>7, HandOverMeant, ReturnStored DEF In, HandOver
  <2>8. QED
    BY <1>4, <2>1, <2>2, <2>3, <2>4, <2>5, <2>6, <2>7 DEF Step
<1>5. CASE UNCHANGED vars
  BY <1>5 DEF vars, sending, SInv, Alone, Meant, Stored, StoredBody
<1>6. QED
  BY <1>1, <1>2, <1>3, <1>4, <1>5 DEF Next, Aside

\* The invariant of an application whose calls do not overlap.
LEMMA StoredInvariance ==
    ASSUME Serial
    PROVE  Spec => [](ThreadsOK /\ SInv)
<1>1. Init => ThreadsOK /\ SInv
  BY InitThreads, InitStored
<1>2. ThreadsOK /\ SInv /\ [Next]_vars => (ThreadsOK /\ SInv)'
  BY StepThreads, StepStored
<1>3. QED
  BY <1>1, <1>2, PTL DEF Spec

\* Of "it is safe to send from a different thread", what is true: if no two
\* calls overlap, whichever threads they are in, no frame the far end accepts
\* mixes two messages, although the buffer is never cleared between them.
THEOREM SerialNotMixed ==
    ASSUME Serial
    PROVE  Spec => []NoMixture
<1>1. SInv => NoMixture
  BY MessageAssumption DEF SInv, Meant, NoMixture
<1>2. QED
  BY <1>1, StoredInvariance, PTL

-----------------------------------------------------------------------------
(***************************************************************************)
(* Sending implements the outbox.                                          *)
(***************************************************************************)
Line(s) == [i \in 1..Len(s) |-> Meaning(s[i])]

\* A frame more on the line is a message more.
LEMMA LineAppended ==
    ASSUME NEW s, IsSequence(s), NEW x
    PROVE  Line(s \o <<x>>) = Append(Line(s), Meaning(x))
<1> DEFINE a == s \o <<x>>
           n == Len(s)
<1>1. n \in Nat /\ Len(a) = n + 1 /\ a[n + 1] = x /\ \A i \in 1..n : a[i] = s[i]
  BY Appended DEF IsSequence
<1>2. Line(s) \in Seq({Meaning(s[i]) : i \in 1..n}) /\ Len(Line(s)) = n
  BY <1>1 DEF Line
<1>3. Line(a) = [i \in 1..(n + 1) |-> IF i = n + 1 THEN Meaning(x) ELSE Meaning(s[i])]
  BY <1>1 DEF Line
<1>4. Append(Line(s), Meaning(x))
        = [i \in 1..(n + 1) |-> IF i = n + 1 THEN Meaning(x) ELSE Meaning(s[i])]
  BY <1>1, <1>2 DEF Line
<1>5. QED
  BY <1>3, <1>4

\* A call that begins is one of the outbox.
LEMMA BeginOutbox ==
    ASSUME ThreadsOK, NEW t \in Thread, NEW m \in Message, Begin(t, m)
    PROVE  Outbox!Begin(t)
BY DEF In, ThreadsOK, Begin, Outbox!Begin

\* A call that ends without handing anything over has failed.
LEMMA FailOutbox ==
    ASSUME ThreadsOK, NEW t \in Thread, pc[t] # "idle", Return(t, <<>>)
    PROVE  Outbox!Fail(t)
<1>1. wire' = wire
  BY SequenceTyped DEF Return, ThreadsOK
<1>2. QED
  BY <1>1 DEF ThreadsOK, Return, Outbox!Fail

\* A call that hands its frame over puts its message on the line.
LEMMA PutOutbox ==
    ASSUME ThreadsOK, SInv, NEW t \in Thread, pc[t] = "write", Return(t, <<Handed(pos[t])>>)
    PROVE  Outbox!Put(t)
<1>1. Meaning(Handed(pos[t])) = message[t] /\ IsSequence(wire) /\ message[t] # NoMessage
  BY HandedMeans DEF SInv, ThreadsOK
<1>2. wire' = wire \o <<Handed(pos[t])>> /\ message' = [message EXCEPT ![t] = NoMessage]
  BY DEF Return
<1>3. Line(wire') = Append(Line(wire), message[t])
  BY <1>1, <1>2, LineAppended
<1>4. QED
  BY <1>1, <1>2, <1>3 DEF Line, Outbox!Put

\* A step implements one of the outbox, or concerns only the buffer.
LEMMA StepOutbox ==
    ASSUME Serial
    PROVE  ThreadsOK /\ SInv /\ [Next]_vars => [Outbox!Next]_(Outbox!vars)
<1> SUFFICES ASSUME ThreadsOK, SInv, [Next]_vars PROVE [Outbox!Next]_(Outbox!vars)
  OBVIOUS
<1>1. CASE message' = message /\ wire' = wire
  BY <1>1 DEF Outbox!vars
<1>2. CASE AnswerFrame
  <2>1. PICK f \in Inbound : Answer[f] # NoMessage /\ Begin(Receiver, Answer[f])
    BY <1>2 DEF AnswerFrame
  <2>2. Answer[f] \in Message /\ Receiver \in Thread
    BY <2>1, AnswerAssumption DEF Thread
  <2>3. QED
    BY <2>1, <2>2, BeginOutbox DEF Outbox!Next
<1>3. ASSUME NEW t \in Thread, SendCall(t)
      PROVE  Outbox!Next
  BY <1>3, BeginOutbox DEF SendCall, Outbox!Next
<1>4. ASSUME NEW t \in Thread, TooLarge(t)
      PROVE  Outbox!Next
  BY <1>4, FailOutbox DEF In, TooLarge, Outbox!Next
<1>5. ASSUME NEW t \in Thread, HandOver(t)
      PROVE  Outbox!Next
  <2>1. PICK ws \in {<<>>, <<Handed(pos[t])>>} : Return(t, ws)
    BY <1>5 DEF HandOver
  <2>2. CASE ws = <<>>
    BY <1>5, <2>1, <2>2, FailOutbox DEF In, HandOver, Outbox!Next
  <2>3. CASE ws = <<Handed(pos[t])>>
    BY <1>5, <2>1, <2>3, PutOutbox DEF In, HandOver, Outbox!Next
  <2>4. QED
    BY <2>1, <2>2, <2>3
<1>6. CASE \/ secil_init \/ Aside \/ UNCHANGED vars
           \/ \E t \in Thread : Encode(t) \/ WriteHeader(t) \/ ComputeSum(t) \/ WriteFooter(t)
  <2>1. message' = message /\ wire' = wire
    BY <1>6, AsideKeeps DEF secil_init, vars, sending,
                            Encode, WriteHeader, ComputeSum, WriteFooter
  <2>2. QED
    BY <1>1, <2>1
<1>7. QED
  BY <1>2, <1>3, <1>4, <1>5, <1>6 DEF Next, Step, Aside

\* When calls do not overlap, each puts its message on the line once, whole and
\* in the order of the calls, or fails and puts nothing there.
THEOREM SerialImplementsOutbox ==
    ASSUME Serial
    PROVE  Spec => OutboxSpec
<1>1. Init => Outbox!Init
  BY DEF Init, Outbox!Init
<1>2. QED
  BY <1>1, StepOutbox, StoredInvariance, PTL DEF Spec, OutboxSpec, Outbox!Spec
=============================================================================
