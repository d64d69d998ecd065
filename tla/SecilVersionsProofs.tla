------------------------ MODULE SecilVersionsProofs ------------------------
(***************************************************************************)
(* Proofs about Secil, of what holds on a line that has lost nothing: each *)
(* end knows, and has been told, the version the other runs now, and no    *)
(* request for a handshake goes unanswered; for every set of versions and  *)
(* every buffer size, when the roles of the two ends are fixed and nobody  *)
(* probes the link.                                                        *)
(***************************************************************************)
EXTENDS SecilProofs

\* The applications ask for opposite roles, own[n] at end n, as the examples do.
FixedRoles(own) ==
    /\ own \in [Node -> Role]
    /\ \A n \in Node : own[Peer(n)] = Opposite(own[n])
    /\ \A n \in Node : Roles[n] \subseteq {own[n], "UNINITIALIZED"}
Unprobed == \A n \in Node : Probes[n] = {}

Up(m)      == m # "UNINITIALIZED"
Request(f) == f.kind = "handshake" /\ f.needs_ack
Says(f, v) == f.kind = "handshake" => f.version = v

\* What a line from an end with version v leads the other end to know: there is a
\* request on it since which nothing else was said, or what is on it and what has
\* been taken off agree.
CurrentLine(line, v, m, remote, told) ==
    \/ \E i \in 1..Len(line) :
          /\ Request(line[i]) /\ line[i].version = v
          /\ \A j \in (i + 1)..Len(line) : Says(line[j], v)
    \/ /\ \A i \in 1..Len(line) : Says(line[i], v)
       /\ Up(m) => remote = v /\ (~Restartup => told = v)

\* The last handshake on the line out is a request, or it has been taken off, and
\* answered on the line in if the end that took it is connected.
AnsweredLine(out, m, in) ==
    \/ \E i \in 1..Len(out) :
          /\ Request(out[i])
          /\ \A j \in (i + 1)..Len(out) : out[j].kind # "handshake"
    \/ ~HasHandshake(out) /\ (Up(m) => HasHandshake(in))

\* An end from which a handshake of its boot has gone out.
Announced(n) == Connected(n) \/ pc[n] = "startup"

\* End n is in its role, and says so on a line without garbage.
InRole(own, n) ==
    /\ mode[n] \in {"UNINITIALIZED", own[n]}
    /\ pc[n] = "startup" => asked[n].mode = own[n] /\ (Connected(n) => Restartup)
    /\ pc[n] # "loopback"
    /\ \A i \in 1..Len(wire[n]) :
          /\ wire[n][i].kind # "garbage"
          /\ wire[n][i].kind = "handshake" => wire[n][i].mode = own[n]
Current(n) ==
    Announced(n) =>
        CurrentLine(wire[n], version[n], mode[Peer(n)],
                    remote_version[Peer(n)], informed[Peer(n)])
Answered(n) == pc[n] = "startup" => AnsweredLine(wire[n], mode[Peer(n)], wire[Peer(n)])

\* The inductive invariant.
VInv(own) == intact => \A n \in Node : InRole(own, n) /\ Current(n) /\ Answered(n)

-----------------------------------------------------------------------------
(***************************************************************************)
(* Lines.                                                                  *)
(***************************************************************************)

\* The elements of a line with a frame more.
LEMMA AppendedFrame ==
    ASSUME NEW line \in Seq(Frame), NEW f \in Frame
    PROVE  /\ Append(line, f) \in Seq(Frame) /\ Len(Append(line, f)) = Len(line) + 1
           /\ \A i \in 1..Len(line) : Append(line, f)[i] = line[i]
           /\ Append(line, f)[Len(line) + 1] = f
           /\ Len(line) \in Nat
OBVIOUS

\* The elements of a line with a frame less.
LEMMA TailFrame ==
    ASSUME NEW line \in Seq(Frame), line # <<>>
    PROVE  /\ Tail(line) \in Seq(Frame) /\ Len(Tail(line)) = Len(line) - 1
           /\ \A i \in 1..Len(Tail(line)) : Tail(line)[i] = line[i + 1]
           /\ Head(line) = line[1] /\ Len(line) \in Nat /\ Len(line) >= 1
OBVIOUS

\* A line has a handshake iff one of its places does.
LEMMA HandshakeAt ==
    ASSUME NEW line \in Seq(Frame)
    PROVE  HasHandshake(line) <=> \E i \in 1..Len(line) : line[i].kind = "handshake"
<1>1. DOMAIN line = 1..Len(line)
  OBVIOUS
<1>2. QED
  BY <1>1 DEF HasHandshake, Range

\* A frame more is a handshake more, if it is one.
LEMMA HandshakeAppended ==
    ASSUME NEW line \in Seq(Frame), NEW f \in Frame
    PROVE  HasHandshake(Append(line, f)) <=> HasHandshake(line) \/ f.kind = "handshake"
<1> DEFINE more == Append(line, f)
           n    == Len(line)
<1>1. /\ more \in Seq(Frame) /\ n \in Nat /\ Len(more) = n + 1 /\ more[n + 1] = f
      /\ \A i \in 1..n : more[i] = line[i]
  BY AppendedFrame
<1>2. /\ HasHandshake(line) <=> \E i \in 1..n : line[i].kind = "handshake"
      /\ HasHandshake(more) <=> \E i \in 1..(n + 1) : more[i].kind = "handshake"
  BY <1>1, HandshakeAt
<1> HIDE DEF more, n
<1>3. \A i \in 1..(n + 1) : i \in 1..n \/ i = n + 1
  BY <1>1
<1>4. n + 1 \in 1..(n + 1) /\ \A i \in 1..n : i \in 1..(n + 1)
  BY <1>1
<1>5. (\E i \in 1..(n + 1) : more[i].kind = "handshake")
         <=> (\E i \in 1..n : line[i].kind = "handshake") \/ f.kind = "handshake"
  BY <1>1, <1>3, <1>4, Zenon
<1>6. QED
  BY <1>2, <1>5 DEF more

\* What the sender says next is true of it.
LEMMA CurrentAppend ==
    ASSUME NEW line \in Seq(Frame), NEW f \in Frame, NEW v, NEW m, NEW rem, NEW told,
           CurrentLine(line, v, m, rem, told), Says(f, v)
    PROVE  CurrentLine(Append(line, f), v, m, rem, told)
<1> DEFINE more == Append(line, f)
           n    == Len(line)
<1>1. /\ n \in Nat /\ Len(more) = n + 1 /\ more[n + 1] = f
      /\ \A i \in 1..n : more[i] = line[i]
  BY AppendedFrame
<1> HIDE DEF more
<1>2. ASSUME NEW i \in 1..n, Request(line[i]), line[i].version = v,
             \A j \in (i + 1)..n : Says(line[j], v)
      PROVE  CurrentLine(more, v, m, rem, told)
  <2>1. i \in 1..(n + 1) /\ Request(more[i]) /\ more[i].version = v
    BY <1>1, <1>2
  <2>2. ASSUME NEW j \in (i + 1)..(n + 1)
        PROVE  Says(more[j], v)
    <3>1. CASE j = n + 1
      BY <1>1, <3>1
    <3>2. CASE j \in (i + 1)..n
      <4>1. j \in 1..n /\ Says(line[j], v)
        BY <1>2, <3>2
      <4>2. QED
        BY <1>1, <4>1
    <3>3. QED
      BY <1>1, <3>1, <3>2
  <2>3. QED
    BY <1>1, <2>1, <2>2 DEF CurrentLine
<1>3. CASE /\ \A i \in 1..n : Says(line[i], v)
           /\ Up(m) => rem = v /\ (~Restartup => told = v)
  <2>1. \A i \in 1..(n + 1) : Says(more[i], v)
    BY <1>1, <1>3
  <2>2. QED
    BY <1>1, <1>3, <2>1 DEF CurrentLine
<1>4. QED
  BY <1>2, <1>3 DEF CurrentLine, more

\* A request that says what is true sets a line right, whatever is on it.
LEMMA CurrentRequest ==
    ASSUME NEW line \in Seq(Frame), NEW f \in Frame, NEW v, NEW m, NEW rem, NEW told,
           Request(f), f.version = v
    PROVE  CurrentLine(Append(line, f), v, m, rem, told)
<1> DEFINE more == Append(line, f)
           n    == Len(line)
<1>1. n \in Nat /\ Len(more) = n + 1 /\ more[n + 1] = f
  BY AppendedFrame
<1> HIDE DEF more, n
<1>2. n + 1 \in 1..Len(more) /\ \A j \in ((n + 1) + 1)..Len(more) : Says(more[j], v)
  BY <1>1
<1>3. QED
  BY <1>1, <1>2 DEF CurrentLine, more

\* Nor does it matter to a line that its reader is no longer connected, and has
\* perhaps lost what was on it.
LEMMA CurrentReset ==
    ASSUME NEW line, NEW v, NEW m, NEW rem, NEW told, CurrentLine(line, v, m, rem, told),
           NEW left \in {line, <<>>}, NEW m2, ~Up(m2), NEW rem2, NEW told2
    PROVE  CurrentLine(left, v, m2, rem2, told2)
BY DEF CurrentLine

\* What is not a handshake can be read without harm.
LEMMA CurrentSkip ==
    ASSUME NEW line \in Seq(Frame), line # <<>>, Head(line).kind # "handshake",
           NEW v, NEW m, NEW rem, NEW told, CurrentLine(line, v, m, rem, told)
    PROVE  CurrentLine(Tail(line), v, m, rem, told)
<1> DEFINE rest == Tail(line)
           n    == Len(line)
<1>1. /\ n \in Nat /\ n >= 1 /\ Len(rest) = n - 1 /\ line[1].kind # "handshake"
      /\ \A i \in 1..(n - 1) : rest[i] = line[i + 1]
  BY TailFrame
<1> HIDE DEF rest, n
<1>2. ASSUME NEW i \in 1..n, Request(line[i]), line[i].version = v,
             \A j \in (i + 1)..n : Says(line[j], v)
      PROVE  CurrentLine(rest, v, m, rem, told)
  <2>1. i # 1
    BY <1>1, <1>2 DEF Request
  <2>2. i - 1 \in 1..(n - 1) /\ (i - 1) + 1 = i
    BY <1>1, <2>1
  <2>3. rest[i - 1] = line[i]
    BY <1>1, <2>2
  <2>4. ASSUME NEW j \in ((i - 1) + 1)..(n - 1)
        PROVE  Says(rest[j], v)
    <3>1. j \in 1..(n - 1) /\ j + 1 \in (i + 1)..n
      BY <1>1
    <3>2. QED
      BY <1>1, <1>2, <3>1
  <2>5. QED
    BY <1>1, <1>2, <2>2, <2>3, <2>4 DEF CurrentLine
<1>3. CASE /\ \A i \in 1..n : Says(line[i], v)
           /\ Up(m) => rem = v /\ (~Restartup => told = v)
  <2>1. ASSUME NEW i \in 1..(n - 1)
        PROVE  Says(rest[i], v)
    <3>1. i + 1 \in 1..n
      BY <1>1
    <3>2. QED
      BY <1>1, <1>3, <3>1
  <2>2. QED
    BY <1>1, <1>3, <2>1 DEF CurrentLine, rest
<1>4. QED
  BY <1>2, <1>3 DEF CurrentLine, rest, n

\* The reader of handshake f, if it is connected then, knows what f says, and has
\* been told, unless f is an answer and it was connected before.
Learnt(f, m, told, m2, rem2, told2) ==
    Up(m2) => /\ rem2 = f.version
          /\ \/ Restartup
             \/ told2 = f.version
             \/ ~f.needs_ack /\ Up(m) /\ told2 = told

\* Reading a handshake keeps a line current, if its reader learns from it.
LEMMA CurrentHeard ==
    ASSUME NEW line \in Seq(Frame), line # <<>>,
           NEW v, NEW m, NEW rem, NEW told, CurrentLine(line, v, m, rem, told),
           NEW m2, NEW rem2, NEW told2,
           Head(line).kind = "handshake", Learnt(Head(line), m, told, m2, rem2, told2)
    PROVE  CurrentLine(Tail(line), v, m2, rem2, told2)
<1> DEFINE rest == Tail(line)
           n    == Len(line)
           f    == Head(line)
<1>1. /\ n \in Nat /\ n >= 1 /\ Len(rest) = n - 1 /\ line[1] = f
      /\ \A i \in 1..(n - 1) : rest[i] = line[i + 1]
  BY TailFrame
<1> HIDE DEF rest, n, f
<1>2. ASSUME NEW i \in 1..n, i # 1, Request(line[i]), line[i].version = v,
             \A j \in (i + 1)..n : Says(line[j], v)
      PROVE  CurrentLine(rest, v, m2, rem2, told2)
  <2>2. i - 1 \in 1..(n - 1) /\ (i - 1) + 1 = i
    BY <1>1, <1>2
  <2>3. rest[i - 1] = line[i]
    BY <1>1, <2>2
  <2>4. ASSUME NEW j \in ((i - 1) + 1)..(n - 1)
        PROVE  Says(rest[j], v)
    <3>1. j \in 1..(n - 1) /\ j + 1 \in (i + 1)..n
      BY <1>1
    <3>2. QED
      BY <1>1, <1>2, <3>1
  <2>5. QED
    BY <1>1, <1>2, <2>2, <2>3, <2>4 DEF CurrentLine
<1>3. ASSUME \A j \in 2..n : Says(line[j], v),
             Up(m2) => rem2 = v /\ (~Restartup => told2 = v)
      PROVE  CurrentLine(rest, v, m2, rem2, told2)
  <2>1. ASSUME NEW i \in 1..(n - 1)
        PROVE  Says(rest[i], v)
    <3>1. i + 1 \in 2..n
      BY <1>1
    <3>2. QED
      BY <1>1, <1>3, <3>1
  <2>2. QED
    BY <1>1, <1>3, <2>1 DEF CurrentLine
<1>4. ASSUME Request(line[1]), line[1].version = v, \A j \in (1 + 1)..n : Says(line[j], v)
      PROVE  CurrentLine(rest, v, m2, rem2, told2)
  <2>1. Up(m2) => rem2 = v /\ (~Restartup => told2 = v)
    BY <1>1, <1>4 DEF Learnt, Request, f
  <2>2. QED
    BY <1>3, <1>4, <2>1
<1>5. ASSUME \A i \in 1..n : Says(line[i], v),
             Up(m) => rem = v /\ (~Restartup => told = v)
      PROVE  CurrentLine(rest, v, m2, rem2, told2)
  <2>1. 1 \in 1..n /\ \A j \in 2..n : j \in 1..n
    BY <1>1
  <2>2. f.version = v
    BY <1>1, <1>5, <2>1 DEF Says, f
  <2>3. Up(m2) => rem2 = v /\ (~Restartup => told2 = v)
    BY <1>5, <2>2 DEF Learnt, f
  <2>4. QED
    BY <1>3, <1>5, <2>1, <2>3
<1>6. QED
  BY <1>2, <1>4, <1>5 DEF CurrentLine, rest, n

\* A request is answered as long as its sender says nothing new of itself.
LEMMA AnsweredAppend ==
    ASSUME NEW out \in Seq(Frame), NEW f \in Frame, f.kind # "handshake", NEW m, NEW in,
           AnsweredLine(out, m, in)
    PROVE  AnsweredLine(Append(out, f), m, in)
<1> DEFINE more == Append(out, f)
           n    == Len(out)
<1>1. /\ more \in Seq(Frame) /\ n \in Nat /\ Len(more) = n + 1 /\ more[n + 1] = f
      /\ \A i \in 1..n : more[i] = out[i]
  BY AppendedFrame
<1>2. HasHandshake(more) => HasHandshake(out)
  BY HandshakeAppended
<1> HIDE DEF more, n
<1>3. ASSUME NEW i \in 1..n, Request(out[i]), \A j \in (i + 1)..n : out[j].kind # "handshake"
      PROVE  AnsweredLine(more, m, in)
  <2>1. i \in 1..(n + 1) /\ Request(more[i])
    BY <1>1, <1>3
  <2>2. ASSUME NEW j \in (i + 1)..(n + 1)
        PROVE  more[j].kind # "handshake"
    <3>1. CASE j = n + 1
      BY <1>1, <3>1
    <3>2. CASE j \in (i + 1)..n
      <4>1. j \in 1..n /\ out[j].kind # "handshake"
        BY <1>3, <3>2
      <4>2. QED
        BY <1>1, <4>1
    <3>3. QED
      BY <1>1, <3>1, <3>2
  <2>3. QED
    BY <1>1, <2>1, <2>2 DEF AnsweredLine
<1>4. CASE ~HasHandshake(out) /\ (Up(m) => HasHandshake(in))
  BY <1>2, <1>4 DEF AnsweredLine, more
<1>5. QED
  BY <1>3, <1>4 DEF AnsweredLine, more, n

\* A request just made is on its line.
LEMMA AnsweredRequest ==
    ASSUME NEW out \in Seq(Frame), NEW f \in Frame, Request(f), NEW m, NEW in
    PROVE  AnsweredLine(Append(out, f), m, in)
<1> DEFINE more == Append(out, f)
           n    == Len(out)
<1>1. n \in Nat /\ Len(more) = n + 1 /\ more[n + 1] = f
  BY AppendedFrame
<1> HIDE DEF more, n
<1>2. n + 1 \in 1..Len(more) /\ \A j \in ((n + 1) + 1)..Len(more) : more[j].kind # "handshake"
  BY <1>1
<1>3. QED
  BY <1>1, <1>2 DEF AnsweredLine, more

\* What the other end writes does no harm.
LEMMA AnsweredMore ==
    ASSUME NEW out, NEW m, NEW in \in Seq(Frame), NEW f \in Frame, AnsweredLine(out, m, in)
    PROVE  /\ AnsweredLine(out, m, Append(in, f))
           /\ f.kind = "handshake" => HasHandshake(Append(in, f))
BY HandshakeAppended DEF AnsweredLine

\* An end that is not connected owes no answer, whatever it has lost.
LEMMA AnsweredReset ==
    ASSUME NEW out, NEW m, NEW in, AnsweredLine(out, m, in), NEW left \in {out, <<>>},
           NEW m2, ~Up(m2), NEW in2
    PROVE  AnsweredLine(left, m2, in2)
<1>1. ~HasHandshake(<<>>)
  BY DEF HasHandshake, Range
<1>2. QED
  BY <1>1 DEF AnsweredLine

\* What is not a handshake can be read without harm.
LEMMA AnsweredSkip ==
    ASSUME NEW out \in Seq(Frame), out # <<>>, Head(out).kind # "handshake",
           NEW m, NEW in, AnsweredLine(out, m, in)
    PROVE  AnsweredLine(Tail(out), m, in)
<1> DEFINE rest == Tail(out)
           n    == Len(out)
<1>1. /\ n \in Nat /\ n >= 1 /\ Len(rest) = n - 1 /\ out[1].kind # "handshake"
      /\ \A i \in 1..(n - 1) : rest[i] = out[i + 1]
      /\ rest \in Seq(Frame)
  BY TailFrame
<1>2. HasHandshake(rest) => HasHandshake(out)
  <2>1. \A i \in 1..(n - 1) : i + 1 \in 1..n
    BY <1>1
  <2>2. QED
    BY <1>1, <2>1, HandshakeAt
<1> HIDE DEF rest, n
<1>3. ASSUME NEW i \in 1..n, Request(out[i]), \A j \in (i + 1)..n : out[j].kind # "handshake"
      PROVE  AnsweredLine(rest, m, in)
  <2>1. i # 1
    BY <1>1, <1>3 DEF Request
  <2>2. i - 1 \in 1..(n - 1) /\ (i - 1) + 1 = i
    BY <1>1, <2>1
  <2>3. rest[i - 1] = out[i]
    BY <1>1, <2>2
  <2>4. ASSUME NEW j \in ((i - 1) + 1)..(n - 1)
        PROVE  rest[j].kind # "handshake"
    <3>1. j \in 1..(n - 1) /\ j + 1 \in (i + 1)..n
      BY <1>1
    <3>2. QED
      BY <1>1, <1>3, <3>1
  <2>5. QED
    BY <1>1, <1>3, <2>2, <2>3, <2>4 DEF AnsweredLine
<1>4. CASE ~HasHandshake(out) /\ (Up(m) => HasHandshake(in))
  BY <1>2, <1>4 DEF AnsweredLine, rest
<1>5. QED
  BY <1>3, <1>4 DEF AnsweredLine, rest, n

\* Nor can a handshake, if it is answered when it is a request and its reader is
\* connected then.
LEMMA AnsweredHeard ==
    ASSUME NEW out \in Seq(Frame), out # <<>>, Head(out).kind = "handshake",
           NEW m, NEW in, AnsweredLine(out, m, in), NEW m2, NEW in2,
           Up(m2) /\ Request(Head(out)) => HasHandshake(in2)
    PROVE  AnsweredLine(Tail(out), m2, in2)
<1> DEFINE rest == Tail(out)
           n    == Len(out)
<1>1. /\ n \in Nat /\ n >= 1 /\ Len(rest) = n - 1 /\ out[1] = Head(out)
      /\ \A i \in 1..(n - 1) : rest[i] = out[i + 1]
      /\ rest \in Seq(Frame) /\ 1 \in 1..n
  BY TailFrame
<1>2. HasHandshake(out)
  BY <1>1, HandshakeAt
<1>3. HasHandshake(rest) => \E i \in 1..(n - 1) : rest[i].kind = "handshake"
  BY <1>1, HandshakeAt
<1> HIDE DEF rest, n
<1>4. ASSUME NEW i \in 1..n, i # 1, Request(out[i]),
             \A j \in (i + 1)..n : out[j].kind # "handshake"
      PROVE  AnsweredLine(rest, m2, in2)
  <2>1. i - 1 \in 1..(n - 1) /\ (i - 1) + 1 = i
    BY <1>1, <1>4
  <2>2. rest[i - 1] = out[i]
    BY <1>1, <2>1
  <2>3. ASSUME NEW j \in ((i - 1) + 1)..(n - 1)
        PROVE  rest[j].kind # "handshake"
    <3>1. j \in 1..(n - 1) /\ j + 1 \in (i + 1)..n
      BY <1>1
    <3>2. QED
      BY <1>1, <1>4, <3>1
  <2>4. QED
    BY <1>1, <1>4, <2>1, <2>2, <2>3 DEF AnsweredLine
<1>5. ASSUME Request(out[1]), \A j \in (1 + 1)..n : out[j].kind # "handshake"
      PROVE  AnsweredLine(rest, m2, in2)
  <2>1. ASSUME NEW i \in 1..(n - 1)
        PROVE  rest[i].kind # "handshake"
    <3>1. i + 1 \in (1 + 1)..n
      BY <1>1
    <3>2. QED
      BY <1>1, <1>5, <3>1
  <2>2. ~HasHandshake(rest)
    BY <1>3, <2>1
  <2>3. QED
    BY <1>1, <1>5, <2>2 DEF AnsweredLine
<1>6. QED
  BY <1>2, <1>4, <1>5 DEF AnsweredLine, rest, n
-----------------------------------------------------------------------------
(***************************************************************************)
(* The four ways in which a step of end n can matter to the two lines,     *)
(* while they lose nothing, and that each of them keeps the invariant.     *)
(***************************************************************************)
Parts(own) == \A n \in Node : InRole(own, n) /\ Current(n) /\ Answered(n)

\* The other end takes no part in the step.
Apart(n) ==
    LET p == Peer(n) IN
    /\ pc'[p] = pc[p] /\ asked'[p] = asked[p] /\ version'[p] = version[p]
    /\ mode'[p] = mode[p] /\ remote_version'[p] = remote_version[p]
    /\ informed'[p] = informed[p]

\* n ends its session, and may lose what has come in.
Resets(n) ==
    /\ pc'[n] \in {"off", "idle"} /\ mode'[n] = "UNINITIALIZED"
    /\ wire'[n] = wire[n]
    /\ wire'[Peer(n)] \in {wire[Peer(n)], <<>>}

\* n reads and writes no handshake, and its session stays as it is.
Plain(f) == f \in Frame /\ f.kind \notin {"handshake", "garbage"}
Longer(line, long) == long = line \/ \E f \in Frame : Plain(f) /\ long = Append(line, f)
Shorter(line, rest) ==
    \/ rest = line
    \/ line # <<>> /\ Head(line).kind # "handshake" /\ rest = Tail(line)
Stays(n) ==
    /\ mode'[n] = mode[n] /\ remote_version'[n] = remote_version[n]
    /\ informed'[n] = informed[n] /\ version'[n] = version[n]
    /\ pc'[n] # "loopback"
    /\ pc'[n] = "startup" => pc[n] = "startup" /\ asked'[n] = asked[n] /\ wire'[Peer(n)] = wire[Peer(n)]
    /\ Longer(wire[n], wire'[n]) /\ Shorter(wire[Peer(n)], wire'[Peer(n)])

\* n asks for a handshake.
Requests(own, n) ==
    /\ mode'[n] = mode[n] /\ remote_version'[n] = remote_version[n]
    /\ informed'[n] = informed[n] /\ version'[n] = version[n]
    /\ pc'[n] = "startup" /\ asked'[n].mode = own[n] /\ (Connected(n) => Restartup)
    /\ wire'[n] = Append(wire[n], Handshake(own[n], TRUE, version[n]))
    /\ wire'[Peer(n)] = wire[Peer(n)]

\* n reads a handshake; if it is connected then, it has learnt from it, and has
\* answered it if it was a request.
Hears(own, n) ==
    LET f == Head(wire[Peer(n)]) IN
    /\ wire[Peer(n)] # <<>> /\ f.kind = "handshake" /\ wire'[Peer(n)] = Tail(wire[Peer(n)])
    /\ version'[n] = version[n] /\ pc'[n] \notin {"startup", "loopback"}
    /\ mode'[n] \in {mode[n], own[n]}
    /\ Connected(n)' => Announced(n)
    /\ Learnt(f, mode[n], informed[n], mode'[n], remote_version'[n], informed'[n])
    /\ \/ wire'[n] = wire[n] /\ (Connected(n)' => ~f.needs_ack)
       \/ wire'[n] = Append(wire[n], Handshake(own[n], FALSE, version[n]))

\* There are the two ends.
LEMMA TwoEnds ==
    ASSUME NEW n \in Node
    PROVE  /\ Peer(n) \in Node /\ Peer(Peer(n)) = n
           /\ \A p \in Node : p = n \/ p = Peer(n)
BY DEF Peer, Node

\* A line in the role of its end, with a frame more or less, still is.
LEMMA RoleAppended ==
    ASSUME NEW r, NEW line \in Seq(Frame), NEW f \in Frame,
           f.kind # "garbage", f.kind = "handshake" => f.mode = r,
           \A i \in 1..Len(line) : /\ line[i].kind # "garbage"
                                   /\ line[i].kind = "handshake" => line[i].mode = r
    PROVE  \A i \in 1..Len(Append(line, f)) :
              /\ Append(line, f)[i].kind # "garbage"
              /\ Append(line, f)[i].kind = "handshake" => Append(line, f)[i].mode = r
<1> DEFINE more == Append(line, f)
           n    == Len(line)
<1>1. /\ n \in Nat /\ Len(more) = n + 1 /\ more[n + 1] = f
      /\ \A i \in 1..n : more[i] = line[i]
  BY AppendedFrame
<1> HIDE DEF more, n
<1>2. \A i \in 1..(n + 1) : i \in 1..n \/ i = n + 1
  BY <1>1
<1>3. QED
  BY <1>1, <1>2 DEF more, n

\* So is one of which the first frame has been read.
LEMMA RoleTail ==
    ASSUME NEW r, NEW line \in Seq(Frame), line # <<>>,
           \A i \in 1..Len(line) : /\ line[i].kind # "garbage"
                                   /\ line[i].kind = "handshake" => line[i].mode = r
    PROVE  \A i \in 1..Len(Tail(line)) :
              /\ Tail(line)[i].kind # "garbage"
              /\ Tail(line)[i].kind = "handshake" => Tail(line)[i].mode = r
<1> DEFINE rest == Tail(line)
           n    == Len(line)
<1>1. /\ n \in Nat /\ n >= 1 /\ Len(rest) = n - 1
      /\ \A i \in 1..(n - 1) : rest[i] = line[i + 1]
  BY TailFrame
<1> HIDE DEF rest, n
<1>2. \A i \in 1..(n - 1) : i + 1 \in 1..n
  BY <1>1
<1>3. QED
  BY <1>1, <1>2 DEF rest, n

\* Ending a session.
LEMMA ResetsKeeps ==
    ASSUME NEW own, Parts(own), NEW n \in Node, Apart(n), Resets(n)
    PROVE  Parts(own)'
<1> DEFINE p == Peer(n)
<1>1. p \in Node /\ Peer(p) = n
  BY TwoEnds
<1>2. /\ InRole(own, n) /\ Current(n) /\ Answered(n)
      /\ InRole(own, p) /\ Current(p) /\ Answered(p)
  BY <1>1 DEF Parts
<1>3. InRole(own, n)' /\ Current(n)' /\ Answered(n)'
  BY <1>2 DEF Resets, InRole, Current, Answered, Announced, Connected
<1>4. InRole(own, p)'
  BY <1>2 DEF Resets, Apart, InRole, Connected
<1>5. Current(p)'
  <2>1. ASSUME Announced(p)'
        PROVE  CurrentLine(wire'[p], version'[p], mode'[n], remote_version'[n], informed'[n])
    <3>1. CurrentLine(wire[p], version[p], mode[n], remote_version[n], informed[n])
      BY <1>1, <1>2, <2>1 DEF Current, Announced, Connected, Apart
    <3>2. wire'[p] \in {wire[p], <<>>} /\ ~Up(mode'[n]) /\ version'[p] = version[p]
      BY DEF Resets, Apart, Up
    <3>3. QED
      BY <3>1, <3>2, CurrentReset
  <2>2. QED
    BY <1>1, <2>1 DEF Current
<1>6. Answered(p)'
  <2>1. ASSUME pc'[p] = "startup"
        PROVE  AnsweredLine(wire'[p], mode'[n], wire'[n])
    <3>1. AnsweredLine(wire[p], mode[n], wire[n])
      BY <1>1, <1>2, <2>1 DEF Answered, Apart
    <3>2. wire'[p] \in {wire[p], <<>>} /\ ~Up(mode'[n])
      BY DEF Resets, Up
    <3>3. QED
      BY <3>1, <3>2, AnsweredReset
  <2>2. QED
    BY <1>1, <2>1 DEF Answered
<1>7. QED
  BY <1>3, <1>4, <1>5, <1>6, TwoEnds DEF Parts

\* A line with more on it, but no new handshake, stays current.
LEMMA LongerCurrent ==
    ASSUME NEW line \in Seq(Frame), NEW long, Longer(line, long),
           NEW v, NEW m, NEW rem, NEW told, CurrentLine(line, v, m, rem, told)
    PROVE  CurrentLine(long, v, m, rem, told)
<1>1. ASSUME NEW f \in Frame, Plain(f), long = Append(line, f)
      PROVE  CurrentLine(long, v, m, rem, told)
  <2>1. Says(f, v)
    BY <1>1 DEF Plain, Says
  <2>2. QED
    BY <1>1, <2>1, CurrentAppend
<1>2. QED
  BY <1>1 DEF Longer

\* And what it answers, it still does.
LEMMA LongerAnswered ==
    ASSUME NEW line \in Seq(Frame), NEW long, Longer(line, long), NEW m
    PROVE  /\ \A in  : AnsweredLine(line, m, in) => AnsweredLine(long, m, in)
           /\ \A out : AnsweredLine(out, m, line) => AnsweredLine(out, m, long)
<1>1. ASSUME NEW f \in Frame, Plain(f), long = Append(line, f)
      PROVE  /\ \A in  : AnsweredLine(line, m, in) => AnsweredLine(long, m, in)
             /\ \A out : AnsweredLine(out, m, line) => AnsweredLine(out, m, long)
  <2>1. ASSUME NEW in, AnsweredLine(line, m, in)
        PROVE  AnsweredLine(long, m, in)
    BY <1>1, <2>1, AnsweredAppend DEF Plain
  <2>2. ASSUME NEW out, AnsweredLine(out, m, line)
        PROVE  AnsweredLine(out, m, long)
    BY <1>1, <2>2, AnsweredMore
  <2>3. QED
    BY <2>1, <2>2
<1>2. QED
  BY <1>1 DEF Longer

\* A line of which no handshake has been read stays current.
LEMMA ShorterCurrent ==
    ASSUME NEW line \in Seq(Frame), NEW rest, Shorter(line, rest),
           NEW v, NEW m, NEW rem, NEW told, CurrentLine(line, v, m, rem, told)
    PROVE  CurrentLine(rest, v, m, rem, told)
BY CurrentSkip DEF Shorter

\* And what it answers, it still does.
LEMMA ShorterAnswered ==
    ASSUME NEW line \in Seq(Frame), NEW rest, Shorter(line, rest),
           NEW m, NEW in, AnsweredLine(line, m, in)
    PROVE  AnsweredLine(rest, m, in)
BY AnsweredSkip DEF Shorter

\* A step without handshakes.
LEMMA StaysKeeps ==
    ASSUME NEW own, LineOK, Parts(own), NEW n \in Node, Apart(n), Stays(n)
    PROVE  Parts(own)'
<1> DEFINE p == Peer(n)
<1>1. p \in Node /\ Peer(p) = n /\ wire[n] \in Seq(Frame) /\ wire[p] \in Seq(Frame)
  BY TwoEnds DEF LineOK
<1>2. /\ InRole(own, n) /\ Current(n) /\ Answered(n)
      /\ InRole(own, p) /\ Current(p) /\ Answered(p)
  BY <1>1 DEF Parts
<1>3. /\ Longer(wire[n], wire'[n]) /\ Shorter(wire[p], wire'[p])
      /\ pc'[n] = "startup" => pc[n] = "startup" /\ asked'[n] = asked[n] /\ wire'[p] = wire[p]
      /\ pc'[n] # "loopback" /\ pc'[p] = pc[p] /\ asked'[p] = asked[p]
      /\ mode'[n] = mode[n] /\ remote_version'[n] = remote_version[n]
      /\ informed'[n] = informed[n] /\ version'[n] = version[n]
      /\ mode'[p] = mode[p] /\ remote_version'[p] = remote_version[p]
      /\ informed'[p] = informed[p] /\ version'[p] = version[p]
  BY DEF Stays, Apart
<1> HIDE DEF p
<1>4. InRole(own, n)'
  <2>1. CASE wire'[n] = wire[n]
    BY <1>2, <1>3, <2>1 DEF InRole, Connected
  <2>2. ASSUME NEW f \in Frame, Plain(f), wire'[n] = Append(wire[n], f)
        PROVE  InRole(own, n)'
    <3>1. \A i \in 1..Len(wire'[n]) : /\ wire'[n][i].kind # "garbage"
                                      /\ wire'[n][i].kind = "handshake" => wire'[n][i].mode = own[n]
      BY <1>1, <1>2, <2>2, RoleAppended DEF InRole, Plain
    <3>2. QED
      BY <1>2, <1>3, <3>1 DEF InRole, Connected
  <2>3. QED
    BY <1>3, <2>1, <2>2 DEF Longer
<1>5. InRole(own, p)'
  <2>1. CASE wire'[p] = wire[p]
    BY <1>2, <1>3, <2>1 DEF InRole, Connected
  <2>2. CASE wire[p] # <<>> /\ wire'[p] = Tail(wire[p])
    <3>1. \A i \in 1..Len(wire'[p]) : /\ wire'[p][i].kind # "garbage"
                                      /\ wire'[p][i].kind = "handshake" => wire'[p][i].mode = own[p]
      BY <1>1, <1>2, <2>2, RoleTail DEF InRole
    <3>2. QED
      BY <1>2, <1>3, <3>1 DEF InRole, Connected
  <2>3. QED
    BY <1>3, <2>1, <2>2 DEF Shorter
<1>6. Current(n)'
  <2>1. CurrentLine(wire[n], version[n], mode[p], remote_version[p], informed[p])
           => CurrentLine(wire'[n], version[n], mode[p], remote_version[p], informed[p])
    BY <1>1, <1>3, LongerCurrent
  <2>2. QED
    BY <1>2, <1>3, <2>1 DEF Current, Announced, Connected, p
<1>7. Current(p)'
  <2>1. CurrentLine(wire[p], version[p], mode[n], remote_version[n], informed[n])
           => CurrentLine(wire'[p], version[p], mode[n], remote_version[n], informed[n])
    BY <1>1, <1>3, ShorterCurrent
  <2>2. QED
    BY <1>1, <1>2, <1>3, <2>1 DEF Current, Announced, Connected
<1>8. Answered(n)'
  <2>1. AnsweredLine(wire[n], mode[p], wire[p]) => AnsweredLine(wire'[n], mode[p], wire[p])
    BY <1>1, <1>3, LongerAnswered
  <2>2. QED
    BY <1>2, <1>3, <2>1 DEF Answered, p
<1>9. Answered(p)'
  <2>1. AnsweredLine(wire[p], mode[n], wire[n]) => AnsweredLine(wire'[p], mode[n], wire[n])
    BY <1>1, <1>3, ShorterAnswered
  <2>2. AnsweredLine(wire'[p], mode[n], wire[n]) => AnsweredLine(wire'[p], mode[n], wire'[n])
    BY <1>1, <1>3, LongerAnswered
  <2>3. QED
    BY <1>1, <1>2, <1>3, <2>1, <2>2 DEF Answered
<1>10. QED
  BY <1>4, <1>5, <1>6, <1>7, <1>8, <1>9, TwoEnds DEF Parts, p

\* A request.
LEMMA RequestsKeeps ==
    ASSUME NEW own, FixedRoles(own), LineOK, WorldOK, Parts(own),
           NEW n \in Node, Apart(n), Requests(own, n)
    PROVE  Parts(own)'
<1> DEFINE p == Peer(n)
           f == Handshake(own[n], TRUE, version[n])
<1>1. p \in Node /\ Peer(p) = n /\ wire[n] \in Seq(Frame) /\ wire[p] \in Seq(Frame)
  BY TwoEnds DEF LineOK
<1>2. /\ InRole(own, n) /\ Current(n) /\ Answered(n)
      /\ InRole(own, p) /\ Current(p) /\ Answered(p)
  BY <1>1 DEF Parts
<1>3. f \in Frame /\ f.kind = "handshake" /\ f.mode = own[n] /\ f.version = version[n] /\ Request(f)
  BY DEF Request, FixedRoles, WorldOK, Frame, HandshakeFrame, Handshake
<1>4. /\ wire'[n] = Append(wire[n], f) /\ wire'[p] = wire[p]
      /\ pc'[n] = "startup" /\ asked'[n].mode = own[n] /\ (Connected(n) => Restartup)
      /\ pc'[p] = pc[p] /\ asked'[p] = asked[p]
      /\ mode'[n] = mode[n] /\ remote_version'[n] = remote_version[n]
      /\ informed'[n] = informed[n] /\ version'[n] = version[n]
      /\ mode'[p] = mode[p] /\ remote_version'[p] = remote_version[p]
      /\ informed'[p] = informed[p] /\ version'[p] = version[p]
  BY DEF Requests, Apart
<1> HIDE DEF p, f
<1>5. InRole(own, n)'
  <2>1. \A i \in 1..Len(wire'[n]) : /\ wire'[n][i].kind # "garbage"
                                    /\ wire'[n][i].kind = "handshake" => wire'[n][i].mode = own[n]
    BY <1>1, <1>2, <1>3, <1>4, RoleAppended DEF InRole
  <2>2. QED
    BY <1>2, <1>4, <2>1 DEF InRole, Connected
<1>6. InRole(own, p)'
  BY <1>2, <1>4 DEF InRole, Connected
<1>7. Current(n)'
  <2>1. CurrentLine(wire'[n], version[n], mode[p], remote_version[p], informed[p])
    BY <1>1, <1>3, <1>4, CurrentRequest
  <2>2. QED
    BY <1>4, <2>1 DEF Current, p
<1>8. Current(p)'
  BY <1>1, <1>2, <1>4 DEF Current, Announced, Connected
<1>9. Answered(n)'
  <2>1. AnsweredLine(wire'[n], mode[p], wire[p])
    BY <1>1, <1>3, <1>4, AnsweredRequest
  <2>2. QED
    BY <1>4, <2>1 DEF Answered, p
<1>10. Answered(p)'
  <2>1. AnsweredLine(wire[p], mode[n], wire[n]) => AnsweredLine(wire[p], mode[n], wire'[n])
    BY <1>1, <1>3, <1>4, AnsweredMore
  <2>2. QED
    BY <1>1, <1>2, <1>4, <2>1 DEF Answered
<1>11. QED
  BY <1>5, <1>6, <1>7, <1>8, <1>9, <1>10, TwoEnds DEF Parts, p

\* A handshake read, and perhaps answered.
LEMMA HearsKeeps ==
    ASSUME NEW own, FixedRoles(own), LineOK, WorldOK, Parts(own),
           NEW n \in Node, Apart(n), Hears(own, n)
    PROVE  Parts(own)'
<1> DEFINE p == Peer(n)
           f == Head(wire[p])
           a == Handshake(own[n], FALSE, version[n])
<1>1. p \in Node /\ Peer(p) = n /\ wire[n] \in Seq(Frame) /\ wire[p] \in Seq(Frame)
  BY TwoEnds DEF LineOK
<1>2. /\ InRole(own, n) /\ Current(n) /\ Answered(n)
      /\ InRole(own, p) /\ Current(p) /\ Answered(p)
  BY <1>1 DEF Parts
<1>3. a \in Frame /\ a.kind = "handshake" /\ a.mode = own[n] /\ a.version = version[n]
  BY DEF FixedRoles, WorldOK, Frame, HandshakeFrame, Handshake
<1>4. /\ wire[p] # <<>> /\ f.kind = "handshake" /\ wire'[p] = Tail(wire[p])
      /\ pc'[n] \notin {"startup", "loopback"} /\ mode'[n] \in {mode[n], own[n]}
      /\ Connected(n)' => Announced(n)
      /\ Learnt(f, mode[n], informed[n], mode'[n], remote_version'[n], informed'[n])
      /\ (wire'[n] = wire[n] /\ (Connected(n)' => ~f.needs_ack)) \/ wire'[n] = Append(wire[n], a)
      /\ pc'[p] = pc[p] /\ asked'[p] = asked[p] /\ version'[n] = version[n]
      /\ mode'[p] = mode[p] /\ remote_version'[p] = remote_version[p]
      /\ informed'[p] = informed[p] /\ version'[p] = version[p]
  BY DEF Hears, Apart
<1> HIDE DEF p, f, a
<1>5. InRole(own, n)'
  <2>1. \A i \in 1..Len(wire'[n]) : /\ wire'[n][i].kind # "garbage"
                                    /\ wire'[n][i].kind = "handshake" => wire'[n][i].mode = own[n]
    <3>1. CASE wire'[n] = wire[n]
      BY <1>2, <3>1 DEF InRole
    <3>2. CASE wire'[n] = Append(wire[n], a)
      BY <1>1, <1>2, <1>3, <3>2, RoleAppended DEF InRole
    <3>3. QED
      BY <1>4, <3>1, <3>2
  <2>2. QED
    BY <1>2, <1>4, <2>1 DEF InRole
<1>6. InRole(own, p)'
  <2>1. \A i \in 1..Len(wire'[p]) : /\ wire'[p][i].kind # "garbage"
                                    /\ wire'[p][i].kind = "handshake" => wire'[p][i].mode = own[p]
    BY <1>1, <1>2, <1>4, RoleTail DEF InRole
  <2>2. QED
    BY <1>2, <1>4, <2>1 DEF InRole, Connected
<1>7. Current(n)'
  <2>1. ASSUME Announced(n)'
        PROVE  CurrentLine(wire'[n], version'[n], mode'[p], remote_version'[p], informed'[p])
    <3>1. Announced(n)
      BY <1>4, <2>1 DEF Announced
    <3>2. CurrentLine(wire[n], version[n], mode[p], remote_version[p], informed[p])
      BY <1>2, <3>1 DEF Current, p
    <3>3. CASE wire'[n] = wire[n]
      BY <1>4, <3>2, <3>3
    <3>4. CASE wire'[n] = Append(wire[n], a)
      <4>1. Says(a, version[n])
        BY <1>3 DEF Says
      <4>2. CurrentLine(wire'[n], version[n], mode[p], remote_version[p], informed[p])
        BY <1>1, <1>3, <3>2, <3>4, <4>1, CurrentAppend
      <4>3. QED
        BY <1>4, <4>2
    <3>5. QED
      BY <1>4, <3>3, <3>4
  <2>2. QED
    BY <2>1 DEF Current, p
<1>8. Current(p)'
  <2>1. ASSUME Announced(p)'
        PROVE  CurrentLine(wire'[p], version'[p], mode'[n], remote_version'[n], informed'[n])
    <3>1. CurrentLine(wire[p], version[p], mode[n], remote_version[n], informed[n])
      BY <1>1, <1>2, <1>4, <2>1 DEF Current, Announced, Connected
    <3>2. QED
      BY <1>1, <1>4, <3>1, CurrentHeard DEF f
  <2>2. QED
    BY <1>1, <2>1 DEF Current
<1>9. Answered(n)'
  BY <1>4 DEF Answered
<1>10. Answered(p)'
  <2>1. ASSUME pc'[p] = "startup"
        PROVE  AnsweredLine(wire'[p], mode'[n], wire'[n])
    <3>1. AnsweredLine(wire[p], mode[n], wire[n])
      BY <1>1, <1>2, <1>4, <2>1 DEF Answered
    <3>2. Up(mode'[n]) /\ Request(f) => HasHandshake(wire'[n])
      <4>1. wire'[n] = Append(wire[n], a) => HasHandshake(wire'[n])
        BY <1>1, <1>3, HandshakeAppended
      <4>2. QED
        BY <1>4, <4>1 DEF Connected, Up, Request
    <3>3. QED
      BY <1>1, <1>4, <3>1, <3>2, AnsweredHeard DEF f
  <2>2. QED
    BY <1>1, <2>1 DEF Answered
<1>11. QED
  BY <1>5, <1>6, <1>7, <1>8, <1>9, <1>10, TwoEnds DEF Parts, p
-----------------------------------------------------------------------------
(***************************************************************************)
(* One lemma per operation: which of the four it is.                       *)
(***************************************************************************)

\* On a line that is sound before and after it, a write succeeds and arrives.
LEMMA SoundWrite ==
    ASSUME LineOK, NEW n \in Node, NEW f \in Frame, NEW w \in WriteOutcomes(wire[n], f),
           NEW got \in BOOLEAN, Write(n, w, got), intact'
    PROVE  /\ intact /\ w.ok /\ wire'[n] = Append(wire[n], f)
           /\ wire'[Peer(n)] = IF got THEN Tail(wire[Peer(n)]) ELSE wire[Peer(n)]
<1> DEFINE line == wire[n]
           room == Len(line) < Cap
           Carried == [ok |-> TRUE, line |-> IF room THEN Append(line, f) ELSE line, clean |-> room]
           Left == {line} \cup IF room THEN {Append(line, Garbage)} ELSE {}
<1>1. w = Carried \/ w \in [ok : BOOLEAN, line : Left, clean : {FALSE}]
  BY Zenon DEF WriteOutcomes
<1>2. intact /\ w.clean
  BY DEF Write
<1>3. CASE w = Carried
  <2>1. Carried.clean = room /\ Carried.ok = TRUE
        /\ Carried.line = IF room THEN Append(line, f) ELSE line
    OBVIOUS
  <2>2. w.ok /\ w.line = Append(line, f)
    BY <1>2, <1>3, <2>1
  <2>3. QED
    BY <1>2, <2>2, PeerNode DEF Write, LineOK
<1>4. CASE w \in [ok : BOOLEAN, line : Left, clean : {FALSE}]
  BY <1>2, <1>4
<1>5. QED
  BY <1>1, <1>3, <1>4

\* A step that only moves the call of n on, and not into a wait for a handshake.
LEMMA MovesOn ==
    ASSUME IInv, NEW own, Parts(own), NEW n \in Node, SameSession, SameLine, SameWorld,
           pc' = [pc EXCEPT ![n] = pc'[n]], asked' = [asked EXCEPT ![n] = asked'[n]],
           pc'[n] # "loopback", pc'[n] = "startup" => pc[n] = "startup" /\ asked'[n] = asked[n]
    PROVE  Parts(own)'
<1>1. Apart(n)
  BY PeerNode DEF IInv, CallOK, Apart, SameSession, SameWorld
<1>2. Stays(n)
  BY DEF Stays, Longer, Shorter, SameSession, SameLine, SameWorld
<1>3. QED
  BY <1>1, <1>2, StaysKeeps DEF IInv

\* A call that is refused.
LEMMA RefuseKeeps ==
    ASSUME IInv, NEW own, Parts(own), NEW n \in Node, NEW code, Refuse(n, code)
    PROVE  Parts(own)'
<1>1. pc' = pc /\ asked' = asked /\ pc[n] # "loopback"
  BY DEF Refuse, Parts, InRole
<1>2. pc' = [pc EXCEPT ![n] = pc'[n]] /\ asked' = [asked EXCEPT ![n] = asked'[n]]
  BY <1>1 DEF IInv, CallOK
<1>3. QED
  BY <1>1, <1>2, MovesOn DEF Refuse

\* secil_init puts its end back to the start.
LEMMA InitCallKeeps ==
    ASSUME IInv, NEW own, Parts(own), NEW n \in Node, InitCall(n)
    PROVE  Parts(own)'
<1>1. CASE pc[n] = "off"
  <2>1. /\ pc' = [pc EXCEPT ![n] = "idle"] /\ asked' = [asked EXCEPT ![n] = NotAsked]
        /\ mode' = [mode EXCEPT ![n] = "UNINITIALIZED"]
        /\ remote_version' = [remote_version EXCEPT ![n] = NoVersion]
        /\ informed' = [informed EXCEPT ![n] = NoVersion]
        /\ wire' = wire /\ version' = version
    BY <1>1 DEF InitCall, Return, SameLine, SameWorld
  <2>2. Apart(n)
    BY <2>1, PeerNode DEF IInv, CallOK, SessionOK, Apart
  <2>3. Resets(n)
    BY <2>1 DEF IInv, CallOK, SessionOK, Resets
  <2>4. QED
    BY <2>2, <2>3, ResetsKeeps
<1>2. CASE Refuse(n, "ALREADY_INITIALIZED")
  BY <1>2, RefuseKeeps
<1>3. QED
  BY <1>1, <1>2 DEF InitCall

\* So does secil_deinit.
LEMMA DeinitCallKeeps ==
    ASSUME IInv, NEW own, Parts(own), NEW n \in Node, DeinitCall(n)
    PROVE  Parts(own)'
<1>1. Apart(n)
  BY PeerNode DEF IInv, CallOK, SessionOK, Apart, DeinitCall, SameWorld
<1>2. Resets(n)
  BY DEF IInv, CallOK, SessionOK, Resets, DeinitCall, SameLine
<1>3. QED
  BY <1>1, <1>2, ResetsKeeps

\* So does a restart, whatever firmware runs after it.
LEMMA RebootKeeps ==
    ASSUME IInv, NEW own, Parts(own), NEW n \in Node, Reboot(n)
    PROVE  Parts(own)'
<1>1. PICK v \in Version : version' = [version EXCEPT ![n] = v]
  BY DEF Reboot
<1>2. PICK line \in {<<>>, Incoming(n)} : wire' = [wire EXCEPT ![Peer(n)] = line]
  BY DEF Reboot
<1>3. Apart(n)
  BY <1>1, PeerNode DEF IInv, CallOK, SessionOK, WorldOK, Apart, Reboot
<1>4. Resets(n)
  BY <1>2, PeerNode DEF IInv, CallOK, SessionOK, LineOK, Resets, Reboot, Incoming
<1>5. QED
  BY <1>3, <1>4, ResetsKeeps

\* The request of secil_startup.
LEMMA StartupCallKeeps ==
    ASSUME IInv, NEW own, FixedRoles(own), Parts(own), NEW n \in Node,
           NEW m \in Roles[n], NEW strict \in BOOLEAN, StartupCall(n, m, strict), intact'
    PROVE  Parts(own)'
<1>1. CASE m = "UNINITIALIZED"
  BY <1>1, RefuseKeeps DEF StartupCall
<1>2. CASE m # "UNINITIALIZED"
  <2> DEFINE f == Handshake(m, TRUE, version[n])
  <2>1. m = own[n] /\ m \in Role
    BY <1>2 DEF FixedRoles
  <2>2. f \in Frame
    BY <2>1 DEF IInv, WorldOK, Frame, HandshakeFrame, Handshake
  <2>3. PICK w \in WriteOutcomes(wire[n], f) :
          /\ Write(n, w, FALSE)
          /\ IF w.ok
             THEN /\ Await(n, "startup")
                  /\ asked' = [asked EXCEPT ![n] = [mode |-> m, strict |-> strict]]
             ELSE Return(n, "WRITE_FAILED")
    BY <1>2 DEF StartupCall
  <2> HIDE DEF f
  <2>4. w.ok /\ wire'[n] = Append(wire[n], f) /\ wire'[Peer(n)] = wire[Peer(n)]
    BY <2>2, <2>3, SoundWrite DEF IInv
  <2>5. /\ pc' = [pc EXCEPT ![n] = "startup"]
        /\ asked' = [asked EXCEPT ![n] = [mode |-> m, strict |-> strict]]
    BY <2>3, <2>4 DEF Await
  <2>6. UNCHANGED <<mode, remote_version, informed, version>> /\ (Connected(n) => Restartup)
    BY <1>2 DEF StartupCall, SameSession, SameWorld
  <2>7. Apart(n)
    BY <2>5, <2>6, PeerNode DEF IInv, CallOK, Apart
  <2>8. pc'[n] = "startup" /\ asked'[n].mode = own[n]
    BY <2>1, <2>5 DEF IInv, CallOK
  <2>9. Requests(own, n)
    BY <2>1, <2>4, <2>6, <2>8 DEF Requests, f
  <2>10. QED
    BY <2>7, <2>9, RequestsKeeps DEF IInv
<1>3. QED
  BY <1>1, <1>2

\* Calls that begin to wait in secil_receive.
LEMMA ReceiveCallKeeps ==
    ASSUME IInv, NEW own, Parts(own), NEW n \in Node, ReceiveCall(n)
    PROVE  Parts(own)'
<1>1. /\ pc' = [pc EXCEPT ![n] = "receive"] /\ asked' = asked
      /\ SameSession /\ SameLine /\ SameWorld
  BY DEF ReceiveCall, Await
<1>2. /\ pc' = [pc EXCEPT ![n] = pc'[n]] /\ asked' = [asked EXCEPT ![n] = asked'[n]]
      /\ pc'[n] = "receive"
  BY <1>1 DEF IInv, CallOK
<1>3. QED
  BY <1>1, <1>2, MovesOn

\* A read that gives up.
LEMMA TimeoutKeeps ==
    ASSUME IInv, NEW own, Parts(own), NEW n \in Node, Timeout(n), intact'
    PROVE  Parts(own)'
<1>1. /\ pc' = [pc EXCEPT ![n] = "idle"] /\ asked' = [asked EXCEPT ![n] = NotAsked]
      /\ SameSession /\ SameLine /\ SameWorld
  BY DEF Timeout, Return
<1>2. /\ pc' = [pc EXCEPT ![n] = pc'[n]] /\ asked' = [asked EXCEPT ![n] = asked'[n]]
      /\ pc'[n] = "idle"
  BY <1>1 DEF IInv, CallOK
<1>3. QED
  BY <1>1, <1>2, MovesOn

\* A message of an application.
LEMMA AppSendKeeps ==
    ASSUME IInv, NEW own, Parts(own), NEW n \in Node, AppSend(n), intact'
    PROVE  Parts(own)'
<1>1. PICK w \in WriteOutcomes(wire[n], App) : Write(n, w, FALSE)
  BY DEF AppSend
<1>2. App \in Frame /\ Plain(App)
  BY FrameKinds DEF Plain
<1>3. wire'[n] = Append(wire[n], App) /\ wire'[Peer(n)] = wire[Peer(n)]
  BY <1>1, <1>2, SoundWrite DEF IInv
<1>4. UNCHANGED local /\ UNCHANGED version /\ pc[n] # "loopback"
  BY DEF AppSend, SameWorld, Parts, InRole
<1>5. Apart(n)
  BY <1>4 DEF Apart, local
<1>6. Stays(n)
  BY <1>2, <1>3, <1>4 DEF Stays, Longer, Shorter, local
<1>7. QED
  BY <1>5, <1>6, StaysKeeps DEF IInv

\* The head of a line that is sound: no garbage, and in the role of its end.
LEMMA SoundHead ==
    ASSUME LineOK, NEW own, FixedRoles(own), Parts(own), NEW n \in Node, Incoming(n) # <<>>
    PROVE  LET f == Head(Incoming(n)) IN
           /\ wire[Peer(n)] # <<>> /\ f = Head(wire[Peer(n)]) /\ f \in Frame
           /\ f.kind \in {"handshake", "loopbackTest", "app"}
           /\ f.kind = "handshake" => f.mode = Opposite(own[n])
<1> DEFINE p == Peer(n)
           f == Head(wire[p])
<1>1. p \in Node /\ wire[p] \in Seq(Frame) /\ wire[p] # <<>>
  BY TwoEnds DEF LineOK, Incoming
<1>2. f = wire[p][1] /\ 1 \in 1..Len(wire[p]) /\ f \in Frame
  BY <1>1
<1>3. InRole(own, p)
  BY <1>1 DEF Parts
<1>4. f.kind # "garbage" /\ (f.kind = "handshake" => f.mode = own[p])
  BY <1>2, <1>3 DEF InRole
<1>5. f.kind \in {"handshake", "loopbackTest", "app", "garbage"}
  BY <1>2, FrameKinds
<1>6. own[p] = Opposite(own[n])
  BY DEF FixedRoles
<1>7. QED
  BY <1>1, <1>2, <1>4, <1>5, <1>6 DEF Incoming

\* Reading what is no handshake and returning.
LEMMA SkipKeeps ==
    ASSUME IInv, NEW own, Parts(own), NEW n \in Node, NEW code, Incoming(n) # <<>>,
           Head(Incoming(n)).kind # "handshake",
           Consume(n), Return(n, code), SameSession, SameWorld
    PROVE  Parts(own)'
<1>1. /\ pc' = [pc EXCEPT ![n] = "idle"] /\ asked' = [asked EXCEPT ![n] = NotAsked]
      /\ wire' = [wire EXCEPT ![Peer(n)] = Tail(wire[Peer(n)])]
      /\ UNCHANGED <<mode, remote_version, informed, version>>
  BY DEF Consume, Return, SameSession, SameWorld
<1>2. Apart(n)
  BY <1>1, PeerNode DEF IInv, CallOK, Apart
<1>3. /\ pc'[n] = "idle" /\ wire'[n] = wire[n] /\ wire'[Peer(n)] = Tail(wire[Peer(n)])
      /\ wire[Peer(n)] # <<>> /\ Head(wire[Peer(n)]).kind # "handshake"
  BY <1>1, PeerNode DEF IInv, CallOK, LineOK, Incoming
<1>4. Stays(n)
  BY <1>1, <1>3 DEF Stays, Longer, Shorter
<1>5. QED
  BY <1>2, <1>4, StaysKeeps DEF IInv

\* A startup that completes, or ends on a mismatch, has learnt from its handshake.
LEMMA CompleteLearns ==
    ASSUME IInv, NEW own, NEW n \in Node, InRole(own, n), pc[n] = "startup",
           NEW f, Record(n, f.version), CompleteStartup(n, f.version)
    PROVE  /\ pc' = [pc EXCEPT ![n] = "idle"] /\ asked' = [asked EXCEPT ![n] = NotAsked]
           /\ mode' = [mode EXCEPT ![n] = mode'[n]] /\ mode'[n] \in {mode[n], own[n]}
           /\ remote_version' = [remote_version EXCEPT ![n] = f.version]
           /\ informed' = [informed EXCEPT ![n] = informed'[n]]
           /\ Learnt(f, mode[n], informed[n], mode'[n], remote_version'[n], informed'[n])
<1>1. /\ pc' = [pc EXCEPT ![n] = "idle"] /\ asked' = [asked EXCEPT ![n] = NotAsked]
      /\ remote_version' = [remote_version EXCEPT ![n] = f.version]
      /\ asked[n].mode = own[n] /\ (Connected(n) => Restartup)
  BY DEF CompleteStartup, Return, Record, InRole
<1>2. remote_version'[n] = f.version
  BY <1>1 DEF IInv, SessionOK
<1>3. CASE UNCHANGED <<mode, informed>>
  BY <1>1, <1>2, <1>3 DEF IInv, SessionOK, Learnt, Up, Connected
<1>4. CASE mode' = [mode EXCEPT ![n] = asked[n].mode] /\ informed' = [informed EXCEPT ![n] = f.version]
  BY <1>1, <1>2, <1>4 DEF IInv, SessionOK, Learnt
<1>5. QED
  BY <1>1, <1>3, <1>4 DEF CompleteStartup, NotifyOnConnect

\* A frame that secil_startup reads: the handshake it waits for, or another.
LEMMA StartupFrameKeeps ==
    ASSUME IInv, NEW own, FixedRoles(own), Parts(own), NEW n \in Node, StartupFrame(n), intact'
    PROVE  Parts(own)'
<1> DEFINE p == Peer(n)
           f == Head(Incoming(n))
           a == Handshake(own[n], FALSE, version[n])
<1>1. /\ pc[n] = "startup" /\ Incoming(n) # <<>> /\ SameWorld
      /\ InRole(own, n) /\ asked[n].mode = own[n] /\ own[n] \in Role /\ LineOK
      /\ version[n] \in Version
  BY DEF StartupFrame, Parts, InRole, FixedRoles, IInv, WorldOK
<1>2. /\ wire[p] # <<>> /\ f = Head(wire[p]) /\ f \in Frame
      /\ f.kind \in {"handshake", "loopbackTest", "app"}
      /\ f.kind = "handshake" => f.mode = Opposite(own[n])
  BY <1>1, SoundHead
<1>3. CASE f.kind \in {"app", "loopbackTest"} /\ Consume(n) /\ Return(n, "UNKNOWN_MESSAGE_TYPE")
           /\ SameSession
  BY <1>1, <1>3, SkipKeeps
<1>4. CASE f.kind = "handshake" /\ ~Expected(f, asked[n].mode)
  BY <1>1, <1>2, <1>4 DEF Expected
<1>5. CASE StartupHandshake(n, f)
  <2>1. f.kind = "handshake" /\ Record(n, f.version)
    BY <1>5 DEF StartupHandshake
  <2>2. a \in Frame
    BY <1>1 DEF Frame, HandshakeFrame, Handshake
  <2>3. /\ CompleteStartup(n, f.version) /\ wire'[p] = Tail(wire[p])
        /\ (wire'[n] = wire[n] /\ ~f.needs_ack) \/ wire'[n] = Append(wire[n], a)
    <3>1. CASE ~WantsAck(f) /\ Consume(n) /\ CompleteStartup(n, f.version)
      BY <1>1, <3>1, PeerNode DEF WantsAck, Consume, LineOK
    <3>2. CASE \E w \in WriteOutcomes(wire[n], Ack(asked[n].mode, version[n])) :
                  /\ Write(n, w, TRUE)
                  /\ IF w.ok
                     THEN CompleteStartup(n, f.version)
                     ELSE /\ Return(n, "WRITE_FAILED")
                          /\ UNCHANGED <<mode, informed>>
      <4>1. Ack(asked[n].mode, version[n]) = a
        BY <1>1 DEF Ack
      <4>2. PICK w \in WriteOutcomes(wire[n], a) :
                  /\ Write(n, w, TRUE)
                  /\ IF w.ok
                     THEN CompleteStartup(n, f.version)
                     ELSE /\ Return(n, "WRITE_FAILED")
                          /\ UNCHANGED <<mode, informed>>
        BY <3>2, <4>1
      <4>3. w.ok /\ wire'[n] = Append(wire[n], a) /\ wire'[p] = Tail(wire[p])
        BY <1>1, <2>2, <4>2, SoundWrite
      <4>4. QED
        BY <4>2, <4>3
    <3>3. QED
      BY <1>5, <3>1, <3>2 DEF StartupHandshake
  <2>4. /\ pc' = [pc EXCEPT ![n] = "idle"] /\ asked' = [asked EXCEPT ![n] = NotAsked]
        /\ mode' = [mode EXCEPT ![n] = mode'[n]] /\ mode'[n] \in {mode[n], own[n]}
        /\ remote_version' = [remote_version EXCEPT ![n] = f.version]
        /\ informed' = [informed EXCEPT ![n] = informed'[n]]
        /\ Learnt(f, mode[n], informed[n], mode'[n], remote_version'[n], informed'[n])
    BY <1>1, <2>1, <2>3, CompleteLearns
  <2>5. version' = version /\ pc'[n] = "idle" /\ Announced(n)
    BY <1>1, <2>4 DEF SameWorld, IInv, CallOK, Announced
  <2>6. Apart(n)
    BY <2>4, <2>5, PeerNode DEF IInv, CallOK, SessionOK, Apart
  <2>7. Hears(own, n)
    <3> HIDE DEF f, a
    <3>1. /\ wire[p] # <<>> /\ f.kind = "handshake" /\ wire'[p] = Tail(wire[p])
          /\ version'[n] = version[n] /\ pc'[n] \notin {"startup", "loopback"}
      BY <1>2, <2>1, <2>3, <2>5
    <3>2. f = Head(wire[Peer(n)])
      BY <1>2
    <3>3. QED
      BY <2>3, <2>4, <2>5, <3>1, <3>2 DEF Hears, a
  <2>8. QED
    BY <1>1, <2>6, <2>7, HearsKeeps DEF IInv
<1>6. QED
  BY <1>3, <1>4, <1>5 DEF StartupFrame

\* secil_handle_remote_restarted refuses only an end that is not connected: no
\* handshake comes in of an end's own role.
LEMMA RestartedKeeps ==
    ASSUME IInv, NEW own, FixedRoles(own), Parts(own), NEW n \in Node, pc[n] = "receive",
           Incoming(n) # <<>>, HandleRemoteRestarted(n, Head(Incoming(n))), SameWorld, intact'
    PROVE  Parts(own)'
<1> DEFINE p == Peer(n)
           f == Head(Incoming(n))
           a == Handshake(own[n], FALSE, version[n])
<1>1. /\ InRole(own, n) /\ own[n] \in Role /\ LineOK /\ version[n] \in Version /\ p \in Node
      /\ version' = version
  BY PeerNode DEF Parts, FixedRoles, IInv, WorldOK, SameWorld
<1>2. /\ wire[p] # <<>> /\ f = Head(wire[p]) /\ f \in Frame /\ f.kind = "handshake"
      /\ f.mode = Opposite(own[n])
  BY <1>1, SoundHead DEF HandleRemoteRestarted
<1>3. f.mode # own[n] /\ own[n] # "UNINITIALIZED"
  BY <1>1, <1>2, OppositeRole DEF Role
<1> HIDE DEF f, a
<1>4. CASE Refused(n, f)
  <2>1. ~Connected(n)
    BY <1>1, <1>3, <1>4 DEF Refused, InRole, Connected
  <2>2. /\ pc' = [pc EXCEPT ![n] = "idle"] /\ asked' = [asked EXCEPT ![n] = NotAsked]
        /\ wire' = [wire EXCEPT ![p] = Tail(wire[p])]
        /\ UNCHANGED <<mode, remote_version, informed>>
    BY <1>4 DEF HandleRemoteRestarted, Consume, Return, SameSession, f
  <2>3. /\ pc'[n] = "idle" /\ wire'[n] = wire[n] /\ wire'[p] = Tail(wire[p])
        /\ ~Connected(n)' /\ mode'[n] = mode[n] /\ version'[n] = version[n]
    BY <1>1, <2>1, <2>2, PeerNode DEF IInv, CallOK, LineOK, Connected
  <2>4. Learnt(f, mode[n], informed[n], mode'[n], remote_version'[n], informed'[n])
    BY <2>3 DEF Learnt, Up, Connected
  <2>5. Apart(n)
    BY <1>1, <2>2, PeerNode DEF IInv, CallOK, Apart
  <2>6. Hears(own, n)
    BY <1>2, <2>3, <2>4 DEF Hears
  <2>7. QED
    BY <1>1, <2>5, <2>6, HearsKeeps DEF IInv
<1>5. CASE ~Refused(n, f)
  <2>1. Connected(n) /\ mode[n] = own[n]
    BY <1>1, <1>5 DEF Refused, InRole, Connected
  <2>2. Record(n, f.version) /\ mode' = mode
    BY <1>5 DEF HandleRemoteRestarted, f
  <2>3. a \in Frame
    BY <1>1 DEF Frame, HandshakeFrame, Handshake, a
  <2>4. /\ wire'[p] = Tail(wire[p]) /\ pc' = pc /\ asked' = asked
        /\ \/ wire'[n] = wire[n] /\ ~f.needs_ack /\ informed' = informed
           \/ wire'[n] = Append(wire[n], a) /\ informed' = [informed EXCEPT ![n] = f.version]
    <3>1. CASE ~WantsAck(f) /\ Consume(n) /\ KeepWaiting /\ UNCHANGED informed
      BY <1>1, <3>1, PeerNode DEF WantsAck, Consume, KeepWaiting, LineOK
    <3>2. CASE \E w \in WriteOutcomes(wire[n], Ack(mode[n], version[n])) :
                  /\ Write(n, w, TRUE)
                  /\ IF w.ok
                     THEN /\ KeepWaiting
                          /\ NotifyOnConnect(n, f.version)
                     ELSE Return(n, "WRITE_FAILED") /\ UNCHANGED informed
      <4>1. Ack(mode[n], version[n]) = a
        BY <2>1 DEF Ack, a
      <4>2. PICK w \in WriteOutcomes(wire[n], a) :
                  /\ Write(n, w, TRUE)
                  /\ IF w.ok
                     THEN /\ KeepWaiting
                          /\ NotifyOnConnect(n, f.version)
                     ELSE Return(n, "WRITE_FAILED") /\ UNCHANGED informed
        BY <3>2, <4>1
      <4>3. w.ok /\ wire'[n] = Append(wire[n], a) /\ wire'[p] = Tail(wire[p])
        BY <1>1, <2>3, <4>2, SoundWrite
      <4>4. QED
        BY <4>2, <4>3 DEF KeepWaiting, NotifyOnConnect
    <3>3. QED
      BY <1>5, <3>1, <3>2 DEF HandleRemoteRestarted, f
  <2>5. remote_version' = [remote_version EXCEPT ![n] = f.version] /\ remote_version'[n] = f.version
    BY <2>2 DEF Record, IInv, SessionOK
  <2>6. Learnt(f, mode[n], informed[n], mode'[n], remote_version'[n], informed'[n])
    <3>1. CASE ~f.needs_ack /\ informed' = informed
      BY <2>1, <2>5, <3>1 DEF Learnt, Up, Connected
    <3>2. CASE informed' = [informed EXCEPT ![n] = f.version]
      BY <2>5, <3>2 DEF Learnt, IInv, SessionOK
    <3>3. QED
      BY <2>4, <3>1, <3>2
  <2>7. Apart(n)
    BY <1>1, <2>2, <2>4, <2>5, PeerNode DEF IInv, SessionOK, Apart
  <2>8. Hears(own, n)
    <3>1. f = Head(wire[Peer(n)]) /\ pc'[n] = "receive" /\ mode'[n] = mode[n] /\ Announced(n)
      BY <1>2, <2>1, <2>2, <2>4 DEF Announced
    <3>2. (wire'[n] = wire[n] /\ ~f.needs_ack) \/ wire'[n] = Append(wire[n], a)
      BY <2>4
    <3>3. QED
      BY <1>1, <1>2, <2>4, <2>6, <3>1, <3>2 DEF Hears, a
  <2>9. QED
    BY <1>1, <2>7, <2>8, HearsKeeps DEF IInv
<1>6. QED
  BY <1>4, <1>5
\* A frame that secil_receive reads: a message for its caller, a probe, or a
\* handshake.
LEMMA ReceiveFrameKeeps ==
    ASSUME IInv, NEW own, FixedRoles(own), Parts(own), NEW n \in Node, ReceiveFrame(n), intact'
    PROVE  Parts(own)'
<1> DEFINE p == Peer(n)
           f == Head(Incoming(n))
<1>1. /\ pc[n] = "receive" /\ Incoming(n) # <<>> /\ SameWorld /\ LineOK
      /\ ReceiveApp(n, f) \/ ReceiveProbe(n, f) \/ HandleRemoteRestarted(n, f)
  BY DEF ReceiveFrame, IInv
<1>2. wire[p] # <<>> /\ f = Head(wire[p]) /\ f \in Frame
  BY <1>1, SoundHead
<1>3. CASE ReceiveApp(n, f)
  BY <1>1, <1>3, SkipKeeps DEF ReceiveApp
<1>4. CASE ReceiveProbe(n, f)
  <2>1. PICK w \in WriteOutcomes(wire[n], f) :
            Write(n, w, TRUE) /\ (IF w.ok THEN KeepWaiting ELSE Return(n, "WRITE_FAILED"))
    BY <1>4 DEF ReceiveProbe
  <2>2. w.ok /\ wire'[n] = Append(wire[n], f) /\ wire'[p] = Tail(wire[p])
    BY <1>1, <1>2, <2>1, SoundWrite
  <2>3. UNCHANGED <<pc, asked, mode, remote_version, informed, version>> /\ f.kind = "loopbackTest"
    BY <1>1, <1>4, <2>1, <2>2 DEF KeepWaiting, ReceiveProbe, SameSession, SameWorld
  <2> HIDE DEF f
  <2>4. Apart(n)
    BY <2>3 DEF Apart
  <2>5. Plain(f) /\ pc'[n] = "receive"
    BY <1>1, <1>2, <2>3 DEF Plain
  <2>6. Longer(wire[n], wire'[n]) /\ Shorter(wire[p], wire'[p])
    BY <1>2, <2>2, <2>3, <2>5 DEF Longer, Shorter
  <2>7. Stays(n)
    BY <2>3, <2>5, <2>6 DEF Stays
  <2>8. QED
    BY <1>1, <2>4, <2>7, StaysKeeps
<1>5. CASE HandleRemoteRestarted(n, f)
  BY <1>1, <1>5, RestartedKeeps
<1>6. QED
  BY <1>1, <1>3, <1>4, <1>5

\* Nobody probes the link, and there is no garbage on it.
LEMMA NeverHappens ==
    ASSUME IInv, NEW own, FixedRoles(own), Parts(own), NEW n \in Node
    PROVE  ~LoopbackFrameRead(n) /\ ~ReadGarbage(n)
<1>1. ~LoopbackFrameRead(n)
  BY DEF LoopbackFrameRead, Parts, InRole
<1>2. ~ReadGarbage(n)
  <2> SUFFICES ASSUME ReadGarbage(n) PROVE FALSE
    OBVIOUS
  <2>1. Incoming(n) # <<>> /\ Head(Incoming(n)) = Garbage
    BY DEF ReadGarbage
  <2>2. Head(Incoming(n)).kind \in {"handshake", "loopbackTest", "app"}
    BY <2>1, SoundHead DEF IInv
  <2>3. QED
    BY <2>1, <2>2, FrameKinds
<1>3. QED
  BY <1>1, <1>2

\* A line that has lost something stays one that has.
LEMMA StillIntact ==
    ASSUME LineOK, NEW n \in Node, Step(n), intact'
    PROVE  intact
<1>1. CASE InitCall(n) \/ DeinitCall(n) \/ UninitialisedCall(n) \/ ReceiveCall(n) \/ Reboot(n)
  BY <1>1 DEF InitCall, DeinitCall, UninitialisedCall, ReceiveCall, Reboot, Refuse, SameLine
<1>2. CASE \E m \in Roles[n], strict \in BOOLEAN : StartupCall(n, m, strict)
  BY <1>2 DEF StartupCall, Refuse, SameLine, Write
<1>3. CASE StartupFrame(n)
  BY <1>3 DEF StartupFrame, StartupHandshake, Consume, Write
<1>4. CASE ReceiveFrame(n)
  BY <1>4 DEF ReceiveFrame, ReceiveApp, ReceiveProbe, HandleRemoteRestarted, Consume, Write
<1>5. CASE \E d \in Probes[n] : LoopbackCall(n, d)
  BY <1>5 DEF LoopbackCall, Write
<1>6. CASE LoopbackFrameRead(n) \/ AppSend(n) \/ ReadGarbage(n) \/ Timeout(n)
  BY <1>6 DEF LoopbackFrameRead, AppSend, ReadGarbage, Timeout, Consume, Write, SameLine
<1>7. QED
  BY <1>1, <1>2, <1>3, <1>4, <1>5, <1>6 DEF Step

-----------------------------------------------------------------------------
(***************************************************************************)
(* The theorems.                                                           *)
(***************************************************************************)

\* At first nothing is said and nobody is connected.
LEMMA InitVersions ==
    ASSUME NEW own
    PROVE  Init => VInv(own)
<1> SUFFICES ASSUME Init PROVE Parts(own)
  BY DEF VInv, Parts
<1>1. \A n \in Node : /\ pc[n] = "off" /\ mode[n] = "UNINITIALIZED" /\ wire[n] = <<>>
  BY DEF Init
<1>2. \A n \in Node : InRole(own, n)
  BY <1>1 DEF InRole
<1>3. \A n \in Node : Current(n) /\ Answered(n)
  BY <1>1 DEF Current, Answered, Announced, Connected
<1>4. QED
  BY <1>2, <1>3 DEF Parts

\* Every step keeps it.
LEMMA StepVersions ==
    ASSUME NEW own, FixedRoles(own), Unprobed
    PROVE  IInv /\ VInv(own) /\ [Next]_vars => VInv(own)'
<1> SUFFICES ASSUME IInv, VInv(own), [Next]_vars, intact' PROVE Parts(own)'
  BY DEF VInv, Parts
<1>1. CASE Settle \/ UNCHANGED vars
  <2>1. UNCHANGED local /\ SameLine /\ version' = version
    BY <1>1 DEF Settle, SameLine, vars
  <2>2. Parts(own)
    BY <2>1 DEF VInv, Parts, SameLine
  <2>3. QED
    BY <2>1, <2>2 DEF Parts, InRole, Current, Answered, Announced, Connected, SameLine, local
<1>2. ASSUME NEW n \in Node, Step(n)
      PROVE  Parts(own)'
  <2>1. Parts(own)
    BY <1>2, StillIntact DEF IInv, VInv, Parts
  <2>2. CASE InitCall(n) \/ DeinitCall(n) \/ Reboot(n)
    BY <2>1, <2>2, InitCallKeeps, DeinitCallKeeps, RebootKeeps
  <2>3. CASE UninitialisedCall(n)
    BY <2>1, <2>3, RefuseKeeps DEF UninitialisedCall
  <2>4. ASSUME NEW m \in Roles[n], NEW strict \in BOOLEAN, StartupCall(n, m, strict)
        PROVE  Parts(own)'
    BY <2>1, <2>4, StartupCallKeeps
  <2>5. CASE StartupFrame(n)
    BY <2>1, <2>5, StartupFrameKeeps
  <2>6. CASE ReceiveCall(n)
    BY <2>1, <2>6, ReceiveCallKeeps
  <2>7. CASE ReceiveFrame(n)
    BY <2>1, <2>7, ReceiveFrameKeeps
  <2>8. CASE \E d \in Probes[n] : LoopbackCall(n, d)
    BY <2>8 DEF Unprobed
  <2>9. CASE LoopbackFrameRead(n) \/ ReadGarbage(n)
    BY <2>1, <2>9, NeverHappens
  <2>10. CASE AppSend(n)
    BY <2>1, <2>10, AppSendKeeps
  <2>11. CASE Timeout(n)
    BY <2>1, <2>11, TimeoutKeeps
  <2>12. QED
    BY <1>2, <2>2, <2>3, <2>4, <2>5, <2>6, <2>7, <2>8, <2>9, <2>10, <2>11 DEF Step
<1>3. QED
  BY <1>1, <1>2 DEF Next

\* The invariant behind the three theorems.
LEMMA VersionsInvariance ==
    ASSUME NEW own, FixedRoles(own), Unprobed
    PROVE  Spec => [](IInv /\ VInv(own))
<1>1. Init => IInv /\ VInv(own)
  BY InitOK, InitVersions
<1>2. IInv /\ VInv(own) /\ [Next]_vars => (IInv /\ VInv(own))'
  BY StepOK, StepVersions
<1>3. QED
  BY <1>1, <1>2, PTL DEF Spec

\* Nothing pending, what is on a line agrees with what was taken off it.
LEMMA NothingPending ==
    ASSUME IInv, NEW own, VInv(own), intact, NoHandshakePending, BothConnected, NEW n \in Node
    PROVE  remote_version[n] = version[Peer(n)] /\ (~Restartup => informed[n] = version[Peer(n)])
<1> DEFINE p == Peer(n)
<1>1. p \in Node /\ Peer(p) = n /\ wire[p] \in Seq(Frame)
  BY TwoEnds DEF IInv, LineOK
<1>2. \A i \in 1..Len(wire[p]) : wire[p][i].kind # "handshake"
  BY <1>1, HandshakeAt DEF NoHandshakePending
<1>3. Current(p) /\ Announced(p) /\ Up(mode[n])
  BY <1>1 DEF VInv, BothConnected, Announced, Connected, Up
<1>4. CurrentLine(wire[p], version[p], mode[n], remote_version[n], informed[n])
  BY <1>1, <1>3 DEF Current
<1>5. QED
  BY <1>2, <1>3, <1>4 DEF CurrentLine, Request

\* Once every handshake has been read from a line that has lost nothing, either
\* end that is connected knows the version the other runs now, however often
\* either has restarted, timed out or started up again.
THEOREM VersionsRight ==
    ASSUME NEW own, FixedRoles(own), Unprobed
    PROVE  Spec => []VersionsKnown
<1>1. IInv /\ VInv(own) => VersionsKnown
  BY NothingPending DEF VersionsKnown
<1>2. QED
  BY <1>1, VersionsInvariance, PTL

\* The application has been told it, too, if no connected end starts up again: a
\* strict startup that finds another version leaves what was said before.
THEOREM VersionsTold ==
    ASSUME NEW own, FixedRoles(own), Unprobed, ~Restartup
    PROVE  Spec => []RestartsAnnounced
<1>1. IInv /\ VInv(own) => RestartsAnnounced
  BY NothingPending DEF RestartsAnnounced
<1>2. QED
  BY <1>1, VersionsInvariance, PTL

\* A call of secil_startup whose request a connected end has read from such a line
\* has its answer on the other: it does not wait in vain.
THEOREM RequestsHeard ==
    ASSUME NEW own, FixedRoles(own), Unprobed
    PROVE  Spec => []RequestsAnswered
<1>1. IInv /\ VInv(own) => RequestsAnswered
  <2> SUFFICES ASSUME IInv, VInv(own), NEW n \in Node, intact, pc[n] = "startup",
                      Connected(Peer(n)), ~HasHandshake(wire[n])
               PROVE  HasHandshake(wire[Peer(n)])
    BY DEF RequestsAnswered, Incoming
  <2>1. wire[n] \in Seq(Frame) /\ AnsweredLine(wire[n], mode[Peer(n)], wire[Peer(n)])
    BY DEF IInv, LineOK, VInv, Answered
  <2>2. \A i \in 1..Len(wire[n]) : wire[n][i].kind # "handshake"
    BY <2>1, HandshakeAt
  <2>3. QED
    BY <2>1, <2>2 DEF AnsweredLine, Request, Up, Connected
<1>2. QED
  BY <1>1, VersionsInvariance, PTL
=============================================================================
