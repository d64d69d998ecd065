---------------------------- MODULE SecilProofs ----------------------------
(***************************************************************************)
(* Proofs about Secil: type correctness, that on_connect tells the truth,  *)
(* and that the link layer implements SecilSession, for every set of       *)
(* versions, probes and roles and every buffer size.                       *)
(***************************************************************************)
EXTENDS Secil, TLAPS

\* A secil_startup call under way was asked for a role, not for UNINITIALIZED.
AskedRole == \A n \in Node : pc[n] = "startup" => asked[n].mode \in Role

\* A handshake on the line is one its sender did offer.
Offered(o, f) == f.kind = "handshake" => [mode |-> f.mode, version |-> f.version] \in o
WireOffered   == \A n \in Node : \A i \in 1..Len(wire[n]) : Offered(offers[n], wire[n][i])

\* The inductive invariant, in the parts its proof goes by: the call under way,
\* the session, the line and the world outside.
CallOK ==
    /\ pc    \in [Node -> {"off", "idle"} \cup Waiting]
    /\ asked \in [Node -> [mode : Mode, strict : BOOLEAN]]
    /\ probe \in [Node -> Data \cup {NoProbe}]
    /\ ret   \in [Node -> Error \cup {"NONE", "OK", "FAILED"}]
    /\ AskedRole
SessionOK ==
    /\ mode           \in [Node -> Mode]
    /\ remote_version \in [Node -> Version \cup {NoVersion}]
    /\ informed       \in [Node -> Version \cup {NoVersion}]
LineOK ==
    /\ wire   \in [Node -> Seq(Frame)]
    /\ intact \in BOOLEAN
    /\ offers \in [Node -> SUBSET [mode : Role, version : Version]]
    /\ WireOffered
WorldOK == version \in [Node -> Version] /\ unsettled \in BOOLEAN

IInv == CallOK /\ SessionOK /\ LineOK /\ WorldOK /\ OnConnectTruthful

-----------------------------------------------------------------------------

\* The frames are of pairwise different kinds.
LEMMA FrameKinds ==
    /\ \A f \in Frame : f.kind \in {"handshake", "loopbackTest", "app", "garbage"}
    /\ \A f \in Frame : f.kind = "handshake"    => f \in HandshakeFrame
    /\ \A f \in Frame : f.kind = "loopbackTest" => f \in LoopbackFrame
    /\ App \in Frame /\ Garbage \in Frame
    /\ App.kind = "app" /\ Garbage.kind = "garbage"
BY DEF Frame, HandshakeFrame, LoopbackFrame, App, Garbage

\* Each processor has one peer, which is the other one.
LEMMA PeerNode == \A n \in Node : Peer(n) \in Node /\ Peer(n) # n /\ Peer(Peer(n)) = n
BY DEF Peer, Node

\* The role secil_receive_handshake expects is opposite to the caller's, and
\* with two roles, what is not one's own role is the opposite one.
LEMMA OppositeRole ==
    /\ \A m \in Mode : Opposite(m) \in Role
    /\ \A m \in Role : Opposite(m) # m /\ Opposite(Opposite(m)) = m
    /\ \A m, k \in Role : m # k => m = Opposite(k)
BY DEF Opposite, Role, Mode

\* What a write leaves on the line is the old line, perhaps with the frame
\* written or a piece of garbage behind it.
LEMMA WriteLine ==
    ASSUME NEW line \in Seq(Frame), NEW f \in Frame, NEW w \in WriteOutcomes(line, f)
    PROVE  w.line \in {line, Append(line, f), Append(line, Garbage)}
<1> DEFINE room == Len(line) < Cap
           Carried == [ok |-> TRUE, line |-> IF room THEN Append(line, f) ELSE line, clean |-> room]
           Left == {line} \cup IF room THEN {Append(line, Garbage)} ELSE {}
<1>1. w = Carried \/ w \in [ok : BOOLEAN, line : Left, clean : {FALSE}]
  BY Zenon DEF WriteOutcomes
<1>2. CASE w = Carried
  BY <1>2
<1>3. CASE w \in [ok : BOOLEAN, line : Left, clean : {FALSE}]
  BY <1>3
<1>4. QED
  BY <1>1, <1>2, <1>3

\* What a caller sees of a return code is one of the outcomes ret may hold.
LEMMA OutcomeType == \A code \in Error \cup {"OK"} : Outcome(code) \in Error \cup {"NONE", "OK", "FAILED"}
BY ObservedAssumption DEF Outcome

-----------------------------------------------------------------------------
(***************************************************************************)
(* The parts of a step.                                                    *)
(***************************************************************************)

\* A call that returns leaves the call state of its processor in order.
LEMMA ReturnOK ==
    ASSUME CallOK, NEW n \in Node, NEW code \in Error \cup {"OK"}, Return(n, code)
    PROVE  CallOK'
<1>1. Outcome(code) \in Error \cup {"NONE", "OK", "FAILED"}
  BY OutcomeType
<1>2. QED
  BY <1>1 DEF CallOK, Return, AskedRole, NotAsked, Mode, Role

\* So does one that is refused before it has changed anything.
LEMMA RefuseOK ==
    ASSUME CallOK, NEW n \in Node, NEW code \in Error, Refuse(n, code)
    PROVE  CallOK'
<1>1. Outcome(code) \in Error \cup {"NONE", "OK", "FAILED"}
  BY OutcomeType
<1>2. QED
  BY <1>1 DEF CallOK, Refuse, AskedRole

\* Every step but those that end or replace a session keeps what it rests on.
LEMMA SessionKept ==
    ASSUME OnConnectTruthful, UNCHANGED <<mode, informed>>,
           \A p \in Node : offers[p] \subseteq offers'[p]
    PROVE  OnConnectTruthful'
BY PeerNode DEF OnConnectTruthful, Connected

\* Writing a handshake adds its mode and version to what was offered.
LEMMA OfferOK ==
    ASSUME LineOK, WorldOK, NEW n \in Node, NEW m \in Role, Offer(n, m)
    PROVE  /\ offers' \in [Node -> SUBSET [mode : Role, version : Version]]
           /\ \A p \in Node : offers[p] \subseteq offers'[p]
           /\ [mode |-> m, version |-> version[n]] \in offers'[n]
BY DEF LineOK, WorldOK, Offer

\* What is left of a line after frames have been read is a line of frames that
\* were on it.
LEMMA TailFrames ==
    ASSUME NEW line \in Seq(Frame), line # <<>>
    PROVE  /\ Tail(line) \in Seq(Frame)
           /\ \A i \in 1..Len(Tail(line)) : i + 1 \in 1..Len(line) /\ Tail(line)[i] = line[i + 1]
OBVIOUS

\* What n writes, with or without reading first, leaves the line in order.
LEMMA WriteOK ==
    ASSUME LineOK, NEW n \in Node, NEW got \in BOOLEAN, NEW f \in Frame,
           NEW w \in WriteOutcomes(wire[n], f), Write(n, w, got),
           got => Incoming(n) # <<>>,
           offers' \in [Node -> SUBSET [mode : Role, version : Version]],
           \A p \in Node : offers[p] \subseteq offers'[p],
           Offered(offers'[n], f)
    PROVE  LineOK'
<1> USE PeerNode
<1>1. /\ wire'[n] = w.line
      /\ wire'[Peer(n)] = IF got THEN Tail(wire[Peer(n)]) ELSE wire[Peer(n)]
      /\ DOMAIN wire' = Node
      /\ wire' = [p \in Node |-> wire'[p]]
  BY DEF Write, LineOK
<1>2. \A p \in Node : p = n \/ p = Peer(n)
  BY DEF Node, Peer
<1>3. w.line \in Seq(Frame) /\ \A i \in 1..Len(w.line) : Offered(offers'[n], w.line[i])
  <2>1. w.line \in {wire[n], Append(wire[n], f), Append(wire[n], Garbage)}
    BY WriteLine DEF LineOK
  <2>2. wire[n] \in Seq(Frame) /\ Garbage \in Frame
    BY FrameKinds DEF LineOK
  <2>3. ASSUME NEW i \in 1..Len(wire[n])
        PROVE  Offered(offers'[n], wire[n][i])
    <3>1. Offered(offers[n], wire[n][i])
      BY <2>3 DEF LineOK, WireOffered
    <3>2. QED
      BY <3>1 DEF Offered
  <2>4. Offered(offers'[n], Garbage) /\ Offered(offers'[n], f)
    BY FrameKinds DEF Offered
  <2>5. ASSUME NEW g \in {f, Garbage}, w.line = Append(wire[n], g)
        PROVE  w.line \in Seq(Frame) /\ \A i \in 1..Len(w.line) : Offered(offers'[n], w.line[i])
    <3>1. Offered(offers'[n], g) /\ g \in Frame
      BY <2>2, <2>4, <2>5
    <3>2. /\ w.line \in Seq(Frame)
          /\ Len(w.line) = Len(wire[n]) + 1
          /\ \A i \in 1..Len(wire[n]) : w.line[i] = wire[n][i]
          /\ w.line[Len(wire[n]) + 1] = g
      BY <2>2, <2>5, <3>1
    <3>3. ASSUME NEW i \in 1..Len(w.line)
          PROVE  Offered(offers'[n], w.line[i])
      <4>1. CASE i \in 1..Len(wire[n])
        BY <4>1, <3>2, <2>3
      <4>2. CASE i = Len(wire[n]) + 1
        BY <4>2, <3>1, <3>2
      <4>3. QED
        BY <4>1, <4>2, <3>2, <2>2
    <3>4. QED
      BY <3>2, <3>3
  <2>6. QED
    BY <2>1, <2>2, <2>3, <2>5
<1>4. /\ wire'[Peer(n)] \in Seq(Frame)
      /\ \A i \in 1..Len(wire'[Peer(n)]) : Offered(offers'[Peer(n)], wire'[Peer(n)][i])
  <2> DEFINE old == wire[Peer(n)]
  <2>1. old \in Seq(Frame)
    BY DEF LineOK
  <2>2. ASSUME NEW i \in 1..Len(old)
        PROVE  Offered(offers'[Peer(n)], old[i])
    <3>1. Offered(offers[Peer(n)], old[i])
      BY <2>2 DEF LineOK, WireOffered
    <3>2. QED
      BY <3>1 DEF Offered
  <2>3. CASE got
    BY <2>1, <2>2, <2>3, <1>1, TailFrames DEF Incoming
  <2>4. CASE ~got
    BY <2>1, <2>2, <2>4, <1>1
  <2>5. QED
    BY <2>3, <2>4
<1>5. intact' \in BOOLEAN
  BY DEF Write
<1>6. QED
  <2>1. \A p \in Node : \A i \in 1..Len(wire'[p]) : Offered(offers'[p], wire'[p][i])
    BY <1>1, <1>2, <1>3, <1>4
  <2>2. WireOffered'
    BY <2>1 DEF WireOffered, Offered
  <2>3. wire' \in [Node -> Seq(Frame)]
    BY <1>1, <1>2, <1>3, <1>4
  <2>4. QED
    BY <2>2, <2>3, <1>5 DEF LineOK

\* Reading without writing does so too.
LEMMA ConsumeOK ==
    ASSUME LineOK, NEW n \in Node, Consume(n), Incoming(n) # <<>>
    PROVE  LineOK'
<1>1. /\ wire[Peer(n)] \in Seq(Frame) /\ wire[Peer(n)] # <<>>
      /\ wire' = [wire EXCEPT ![Peer(n)] = Tail(wire[Peer(n)])]
  BY PeerNode DEF LineOK, Consume, Incoming
<1>2. wire' \in [Node -> Seq(Frame)]
  BY <1>1, TailFrames DEF LineOK
<1>3. ASSUME NEW p \in Node, NEW i \in 1..Len(wire'[p])
      PROVE  \E k \in 1..Len(wire[p]) : wire'[p][i] = wire[p][k]
  <2>1. CASE p = Peer(n)
    BY <1>1, <1>3, <2>1, TailFrames DEF LineOK
  <2>2. CASE p # Peer(n)
    BY <1>1, <1>3, <2>2 DEF LineOK
  <2>3. QED
    BY <2>1, <2>2
<1>4. WireOffered'
  BY <1>3 DEF LineOK, WireOffered, Offered, Consume
<1>5. QED
  BY <1>2, <1>4 DEF LineOK, Consume

\* So does a step that only drops frames or puts garbage in their place.
LEMMA DropOK ==
    ASSUME LineOK, UNCHANGED offers, intact' \in BOOLEAN,
           NEW n \in Node, NEW line \in Seq(Frame),
           wire' = [wire EXCEPT ![n] = line],
           \A i \in 1..Len(line) :
               line[i] = Garbage \/ \E k \in 1..Len(wire[n]) : line[i] = wire[n][k]
    PROVE  LineOK'
<1>1. wire' \in [Node -> Seq(Frame)]
  BY DEF LineOK
<1>2. ASSUME NEW p \in Node, NEW i \in 1..Len(wire'[p])
      PROVE  Offered(offers'[p], wire'[p][i])
  <2>1. CASE p # n
    BY <1>2, <2>1 DEF LineOK, WireOffered, Offered
  <2>2. CASE p = n
    <3>1. wire'[p] = line
      BY <2>2 DEF LineOK
    <3>2. CASE line[i] = Garbage
      BY <3>1, <3>2, FrameKinds DEF Offered
    <3>3. CASE \E k \in 1..Len(wire[n]) : line[i] = wire[n][k]
      BY <1>2, <2>2, <3>1, <3>3 DEF LineOK, WireOffered, Offered
    <3>4. QED
      BY <1>2, <3>1, <3>2, <3>3
  <2>3. QED
    BY <2>1, <2>2
<1>3. WireOffered'
  BY <1>2 DEF WireOffered
<1>4. QED
  BY <1>1, <1>3 DEF LineOK

-----------------------------------------------------------------------------
(***************************************************************************)
(* One lemma per operation.                                                *)
(***************************************************************************)

\* secil_init preserves the invariant.
LEMMA InitCallOK ==
    ASSUME IInv, NEW n \in Node, InitCall(n)
    PROVE  IInv'
<1>1. CallOK'
  <2>1. CASE pc[n] = "off" /\ Return(n, "OK")
    BY <2>1, ReturnOK DEF IInv
  <2>2. CASE Refuse(n, "ALREADY_INITIALIZED")
    BY <2>2, RefuseOK DEF IInv, Error
  <2>3. QED
    BY <2>1, <2>2 DEF InitCall
<1>2. SessionOK'
  BY DEF IInv, SessionOK, InitCall, Refuse, SameSession, Mode
<1>3. LineOK' /\ WorldOK' /\ UNCHANGED offers
  BY DEF IInv, LineOK, WorldOK, WireOffered, Offered, InitCall, Refuse, SameSession,
         SameLine, SameWorld
<1>4. OnConnectTruthful'
  BY <1>3, PeerNode DEF IInv, SessionOK, OnConnectTruthful, Connected, InitCall, Refuse,
                        SameSession
<1>5. QED
  BY <1>1, <1>2, <1>3, <1>4 DEF IInv

\* secil_deinit preserves it.
LEMMA DeinitCallOK ==
    ASSUME IInv, NEW n \in Node, DeinitCall(n)
    PROVE  IInv'
<1>1. CallOK'
  BY DEF IInv, CallOK, AskedRole, DeinitCall
<1>2. SessionOK'
  BY DEF IInv, SessionOK, DeinitCall, Mode
<1>3. LineOK' /\ WorldOK'
  BY DEF IInv, LineOK, WorldOK, WireOffered, Offered, DeinitCall, SameLine, SameWorld
<1>4. OnConnectTruthful'
  BY PeerNode DEF IInv, SessionOK, OnConnectTruthful, Connected, DeinitCall, SameLine
<1>5. QED
  BY <1>1, <1>2, <1>3, <1>4 DEF IInv

\* A refused call changes nothing but its return code.
LEMMA RefuseStep ==
    ASSUME IInv, NEW n \in Node, NEW code \in Error, Refuse(n, code)
    PROVE  IInv'
<1>1. CallOK'
  BY RefuseOK DEF IInv
<1>2. SessionOK' /\ LineOK' /\ WorldOK'
  BY DEF IInv, SessionOK, LineOK, WorldOK, WireOffered, Offered, Refuse, SameSession,
         SameLine, SameWorld
<1>3. OnConnectTruthful'
  BY SessionKept DEF IInv, Refuse, SameSession, SameLine
<1>4. QED
  BY <1>1, <1>2, <1>3 DEF IInv

\* The request secil_startup writes carries an offer, so it preserves it.
LEMMA StartupCallOK ==
    ASSUME IInv, NEW n \in Node, NEW m \in Mode, NEW strict \in BOOLEAN,
           StartupCall(n, m, strict)
    PROVE  IInv'
<1>1. CASE m = "UNINITIALIZED"
  BY <1>1, RefuseStep DEF StartupCall, Error
<1>2. CASE m # "UNINITIALIZED"
  <2> DEFINE f == Handshake(m, TRUE, version[n])
  <2>1. m \in Role /\ version[n] \in Version
    BY <1>2 DEF Mode, Role, IInv, WorldOK
  <2>2. f \in Frame /\ f.kind = "handshake" /\ f.mode = m /\ f.version = version[n]
    BY <2>1 DEF Frame, HandshakeFrame, Handshake
  <2>3. PICK w \in WriteOutcomes(wire[n], f) :
          /\ Write(n, w, FALSE)
          /\ IF w.ok
             THEN /\ Await(n, "startup")
                  /\ asked' = [asked EXCEPT ![n] = [mode |-> m, strict |-> strict]]
                  /\ UNCHANGED probe
             ELSE Return(n, "WRITE_FAILED")
    BY <1>2 DEF StartupCall
  <2>4. Offer(n, m) /\ SameSession /\ SameWorld
    BY <1>2 DEF StartupCall
  <2>5. CallOK'
    <3>1. CASE w.ok
      <4>1. Await(n, "startup") /\ UNCHANGED probe
        BY <2>3, <3>1
      <4>2. asked' = [asked EXCEPT ![n] = [mode |-> m, strict |-> strict]]
        BY <2>3, <3>1
      <4>3. asked' \in [Node -> [mode : Mode, strict : BOOLEAN]]
        BY <4>2 DEF IInv, CallOK
      <4>4. AskedRole'
        BY <2>1, <4>1, <4>2 DEF IInv, CallOK, AskedRole, Await
      <4>5. QED
        BY <4>1, <4>3, <4>4 DEF IInv, CallOK, Await, Waiting
    <3>2. CASE ~w.ok
      BY <2>3, <3>2, ReturnOK DEF IInv, Error
    <3>3. QED
      BY <3>1, <3>2
  <2>6. SessionOK' /\ WorldOK'
    BY <2>4 DEF IInv, SessionOK, WorldOK, SameSession, SameWorld
  <2>7. /\ offers' \in [Node -> SUBSET [mode : Role, version : Version]]
        /\ \A p \in Node : offers[p] \subseteq offers'[p]
        /\ Offered(offers'[n], f)
    BY <2>1, <2>2, <2>4, OfferOK DEF IInv, Offered, SameWorld
  <2>8. LineOK'
    BY <2>2, <2>3, <2>7, WriteOK DEF IInv
  <2>9. OnConnectTruthful'
    BY <2>4, <2>7, SessionKept DEF IInv, SameSession
  <2>10. QED
    BY <2>5, <2>6, <2>8, <2>9 DEF IInv
<1>3. QED
  BY <1>1, <1>2

\* A step that leaves the sessions alone has only the call and the line to keep.
LEMMA QuietStep ==
    ASSUME IInv, CallOK', LineOK', SameSession, SameWorld,
           \A p \in Node : offers[p] \subseteq offers'[p]
    PROVE  IInv'
<1>1. SessionOK' /\ WorldOK'
  BY DEF IInv, SessionOK, WorldOK, SameSession, SameWorld
<1>2. OnConnectTruthful'
  BY SessionKept DEF IInv, SameSession
<1>3. QED
  BY <1>1, <1>2 DEF IInv

\* The outcome of a startup that has read a handshake of the expected mode.
LEMMA CompleteStartupOK ==
    ASSUME IInv, NEW n \in Node, NEW f \in HandshakeFrame,
           pc[n] = "startup", f.mode = Opposite(asked[n].mode),
           Offered(offers[Peer(n)], f),
           \A p \in Node : offers[p] \subseteq offers'[p],
           CompleteStartup(n, f.version)
    PROVE  /\ CallOK'
           /\ mode' \in [Node -> Mode]
           /\ informed' \in [Node -> Version \cup {NoVersion}]
           /\ OnConnectTruthful'
<1>1. asked[n].mode \in Role /\ f.version \in Version /\ f.kind = "handshake"
  BY DEF IInv, CallOK, AskedRole, HandshakeFrame
<1>2. CASE Return(n, "VERSION_MISMATCH") /\ UNCHANGED <<mode, informed>>
  <2>1. CallOK'
    BY <1>2, ReturnOK DEF IInv, Error
  <2>2. OnConnectTruthful'
    BY <1>2, SessionKept DEF IInv
  <2>3. QED
    BY <1>2, <2>1, <2>2 DEF IInv, SessionOK
<1>3. CASE /\ Return(n, "OK")
           /\ mode' = [mode EXCEPT ![n] = asked[n].mode]
           /\ informed' = [informed EXCEPT ![n] = f.version]
  <2>1. CallOK'
    BY <1>3, ReturnOK DEF IInv
  <2>2. /\ mode' \in [Node -> Mode] /\ mode'[n] = asked[n].mode
        /\ informed' \in [Node -> Version \cup {NoVersion}] /\ informed'[n] = f.version
        /\ \A p \in Node \ {n} : mode'[p] = mode[p] /\ informed'[p] = informed[p]
    BY <1>1, <1>3 DEF IInv, SessionOK, Mode
  <2>3. [mode |-> Opposite(mode'[n]), version |-> informed'[n]] \in offers'[Peer(n)]
    BY <1>1, <2>2, PeerNode DEF Offered
  <2>4. OnConnectTruthful'
    BY <2>2, <2>3, PeerNode DEF IInv, OnConnectTruthful, Connected
  <2>5. QED
    BY <2>1, <2>2, <2>4
<1>4. QED
  BY <1>2, <1>3 DEF CompleteStartup, NotifyOnConnect

\* The frame at the head of the line is one, and its sender offered it.
LEMMA HeadOK ==
    ASSUME IInv, NEW n \in Node, Incoming(n) # <<>>
    PROVE  Head(Incoming(n)) \in Frame /\ Offered(offers[Peer(n)], Head(Incoming(n)))
<1>1. wire[Peer(n)] \in Seq(Frame) /\ wire[Peer(n)] # <<>>
  BY PeerNode DEF IInv, LineOK, Incoming
<1>2. Head(wire[Peer(n)]) = wire[Peer(n)][1] /\ 1 \in 1..Len(wire[Peer(n)])
  BY <1>1
<1>3. QED
  BY <1>1, <1>2, PeerNode DEF IInv, LineOK, WireOffered, Incoming

\* An acknowledgement is an offer that goes on the line.
LEMMA AckOK ==
    ASSUME IInv, NEW n \in Node, NEW m \in Role, Incoming(n) # <<>>, Offer(n, m),
           NEW w \in WriteOutcomes(wire[n], Ack(m, version[n])),
           Write(n, w, TRUE)
    PROVE  LineOK' /\ \A p \in Node : offers[p] \subseteq offers'[p]
<1> DEFINE f == Ack(m, version[n])
<1>1. version[n] \in Version
  BY DEF IInv, WorldOK
<1>2. f \in Frame /\ f.kind = "handshake" /\ f.mode = m /\ f.version = version[n]
  BY <1>1 DEF Frame, HandshakeFrame, Handshake, Ack
<1>3. /\ offers' \in [Node -> SUBSET [mode : Role, version : Version]]
      /\ \A p \in Node : offers[p] \subseteq offers'[p]
      /\ Offered(offers'[n], f)
  BY <1>2, OfferOK DEF IInv, Offered
<1>4. LineOK'
  BY <1>2, <1>3, WriteOK DEF IInv
<1>5. QED
  BY <1>3, <1>4

\* The frame secil_startup reads: the mode it enters is opposite to the one the
\* handshake offers, and the version it reports is the one offered with it.
LEMMA StartupFrameOK ==
    ASSUME IInv, NEW n \in Node, StartupFrame(n)
    PROVE  IInv'
<1> DEFINE f == Head(Incoming(n))
<1>1. Incoming(n) # <<>> /\ pc[n] = "startup" /\ SameWorld
  BY DEF StartupFrame
<1>2. f \in Frame /\ Offered(offers[Peer(n)], f)
  BY <1>1, HeadOK
<1>3. WorldOK'
  BY <1>1 DEF IInv, WorldOK, SameWorld
<1>4. CASE StartupHandshake(n, f)
  <2>1. f \in HandshakeFrame /\ f.mode = Opposite(asked[n].mode) /\ f.version \in Version
    BY <1>2, <1>4, FrameKinds DEF StartupHandshake, HandshakeFrame, Expected, Record
  <2>2. remote_version' \in [Node -> Version \cup {NoVersion}]
    BY <1>4, <2>1 DEF StartupHandshake, IInv, SessionOK, Expected, Record
  <2>3. CASE Consume(n) /\ CompleteStartup(n, f.version)
    <3>1. LineOK' /\ \A p \in Node : offers[p] \subseteq offers'[p]
      BY <1>1, <2>3, ConsumeOK DEF IInv, Consume
    <3>2. QED
      BY <1>1, <1>2, <1>3, <2>1, <2>2, <2>3, <3>1, CompleteStartupOK DEF IInv, SessionOK
  <2>4. CASE /\ \E w \in WriteOutcomes(wire[n], Ack(asked[n].mode, version[n])) :
                   /\ Write(n, w, TRUE)
                   /\ IF w.ok
                      THEN CompleteStartup(n, f.version)
                      ELSE /\ Return(n, "WRITE_FAILED")
                           /\ UNCHANGED <<mode, informed>>
             /\ Offer(n, asked[n].mode)
    <3>1. PICK w \in WriteOutcomes(wire[n], Ack(asked[n].mode, version[n])) :
             /\ Write(n, w, TRUE)
             /\ IF w.ok
                THEN CompleteStartup(n, f.version)
                ELSE /\ Return(n, "WRITE_FAILED")
                     /\ UNCHANGED <<mode, informed>>
      BY <2>4
    <3>2. asked[n].mode \in Role
      BY <1>1 DEF IInv, CallOK, AskedRole
    <3>3. LineOK' /\ \A p \in Node : offers[p] \subseteq offers'[p]
      BY <1>1, <2>4, <3>1, <3>2, AckOK
    <3>4. CASE w.ok
      BY <1>1, <1>2, <1>3, <2>1, <2>2, <3>1, <3>3, <3>4, CompleteStartupOK DEF IInv, SessionOK
    <3>5. CASE ~w.ok
      <4>1. CallOK'
        BY <3>1, <3>5, ReturnOK DEF IInv, Error
      <4>2. OnConnectTruthful'
        BY <3>1, <3>3, <3>5, SessionKept DEF IInv
      <4>3. QED
        BY <1>3, <2>2, <3>1, <3>3, <3>5, <4>1, <4>2 DEF IInv, SessionOK
    <3>6. QED
      BY <3>4, <3>5
  <2>5. QED
    BY <1>4, <2>3, <2>4 DEF StartupHandshake, Expected, Record
<1>5. ASSUME NEW code \in Error, Consume(n), Return(n, code), SameSession
      PROVE  IInv'
  <2>1. CallOK'
    BY <1>5, ReturnOK DEF IInv
  <2>2. LineOK' /\ \A p \in Node : offers[p] \subseteq offers'[p]
    BY <1>1, <1>5, ConsumeOK DEF IInv, Consume
  <2>3. QED
    BY <1>1, <1>5, <2>1, <2>2, QuietStep
<1>6. QED
  BY <1>4, <1>5 DEF StartupFrame, Error, Expected

\* Entering secil_receive preserves the invariant.
LEMMA ReceiveCallOK ==
    ASSUME IInv, NEW n \in Node, ReceiveCall(n)
    PROVE  IInv'
<1>1. CallOK'
  BY DEF IInv, CallOK, AskedRole, ReceiveCall, Await, Waiting
<1>2. LineOK'
  BY DEF IInv, LineOK, WireOffered, ReceiveCall, SameLine
<1>3. QED
  BY <1>1, <1>2, QuietStep DEF ReceiveCall, SameLine

\* The restart of the peer, as a call of secil_receive sees it.
LEMMA HandleRemoteRestartedOK ==
    ASSUME IInv, NEW n \in Node, Incoming(n) # <<>>, SameWorld,
           HandleRemoteRestarted(n, Head(Incoming(n)))
    PROVE  IInv'
<1> DEFINE f == Head(Incoming(n))
<1>1. f \in HandshakeFrame /\ f.mode \in Role /\ f.version \in Version
      /\ Offered(offers[Peer(n)], f) /\ f.kind = "handshake"
  BY HeadOK, FrameKinds DEF HandleRemoteRestarted, HandshakeFrame, Refused, Record, NotifyOnConnect
<1>2. CASE Consume(n) /\ Return(n, "INVALID_STATE") /\ SameSession
  <2>1. CallOK' /\ LineOK'
    BY <1>2, ReturnOK, ConsumeOK DEF IInv, Error
  <2>2. QED
    BY <1>2, <2>1, QuietStep DEF Consume
<1>3. CASE /\ Connected(n) /\ mode[n] # f.mode
           /\ remote_version' = [remote_version EXCEPT ![n] = f.version]
           /\ UNCHANGED mode
  <2>1. mode[n] \in Role /\ mode[n] = Opposite(f.mode) /\ f.mode = Opposite(mode[n])
    BY <1>1, <1>3, OppositeRole DEF IInv, SessionOK, Connected, Mode
  <2>2. remote_version' \in [Node -> Version \cup {NoVersion}] /\ mode' \in [Node -> Mode]
    BY <1>1, <1>3 DEF IInv, SessionOK
  <2>3. WorldOK'
    BY DEF IInv, WorldOK, SameWorld
  <2>4. CASE Consume(n) /\ KeepWaiting /\ UNCHANGED informed
    <3>1. CallOK' /\ LineOK'
      BY <2>4, ConsumeOK DEF IInv, CallOK, AskedRole, KeepWaiting
    <3>2. OnConnectTruthful'
      BY <1>3, <2>4, SessionKept DEF IInv, Consume
    <3>3. QED
      BY <2>2, <2>3, <2>4, <3>1, <3>2 DEF IInv, SessionOK
  <2>5. CASE /\ \E w \in WriteOutcomes(wire[n], Ack(mode[n], version[n])) :
                   /\ Write(n, w, TRUE)
                   /\ IF w.ok
                      THEN KeepWaiting /\ NotifyOnConnect(n, f.version)
                      ELSE Return(n, "WRITE_FAILED") /\ UNCHANGED informed
             /\ Offer(n, mode[n])
    <3>1. PICK w \in WriteOutcomes(wire[n], Ack(mode[n], version[n])) :
             /\ Write(n, w, TRUE)
             /\ IF w.ok
                THEN KeepWaiting /\ NotifyOnConnect(n, f.version)
                ELSE Return(n, "WRITE_FAILED") /\ UNCHANGED informed
      BY <2>5
    <3>2. LineOK' /\ \A p \in Node : offers[p] \subseteq offers'[p]
      BY <2>1, <2>5, <3>1, AckOK
    <3>3. CASE w.ok
      <4>1. CallOK'
        BY <3>1, <3>3 DEF IInv, CallOK, AskedRole, KeepWaiting
      <4>2. /\ informed' \in [Node -> Version \cup {NoVersion}] /\ informed'[n] = f.version
            /\ \A p \in Node \ {n} : informed'[p] = informed[p]
        BY <1>1, <3>1, <3>3 DEF IInv, SessionOK, NotifyOnConnect
      <4>3. [mode |-> Opposite(mode'[n]), version |-> informed'[n]] \in offers'[Peer(n)]
        BY <1>1, <1>3, <2>1, <3>2, <4>2, PeerNode DEF Offered
      <4>4. OnConnectTruthful'
        BY <1>3, <3>2, <4>2, <4>3, PeerNode DEF IInv, OnConnectTruthful, Connected
      <4>5. QED
        BY <2>2, <2>3, <3>2, <4>1, <4>2, <4>4 DEF IInv, SessionOK
    <3>4. CASE ~w.ok
      <4>1. CallOK'
        BY <3>1, <3>4, ReturnOK DEF IInv, Error
      <4>2. OnConnectTruthful'
        BY <1>3, <3>1, <3>2, <3>4, SessionKept DEF IInv
      <4>3. QED
        BY <2>2, <2>3, <3>1, <3>2, <3>4, <4>1, <4>2 DEF IInv, SessionOK
    <3>5. QED
      BY <3>3, <3>4
  <2>6. QED
    BY <1>3, <2>4, <2>5 DEF HandleRemoteRestarted, Consume, SameSession, Refused, Record, NotifyOnConnect
<1>4. QED
  BY <1>2, <1>3 DEF HandleRemoteRestarted, Refused, Record, NotifyOnConnect

\* The frame secil_receive reads: a handshake it answers is of the other mode,
\* hence an offer for the session as it stands.
LEMMA ReceiveFrameOK ==
    ASSUME IInv, NEW n \in Node, ReceiveFrame(n)
    PROVE  IInv'
<1> DEFINE f == Head(Incoming(n))
<1>1. Incoming(n) # <<>> /\ SameWorld
  BY DEF ReceiveFrame
<1>2. CASE ReceiveApp(n, f)
  <2>1. CallOK' /\ LineOK'
    BY <1>1, <1>2, ReturnOK, ConsumeOK DEF IInv, ReceiveApp
  <2>2. QED
    BY <1>1, <1>2, <2>1, QuietStep DEF ReceiveApp, Consume
<1>3. CASE ReceiveProbe(n, f)
  <2>1. PICK w \in WriteOutcomes(wire[n], f) :
           /\ Write(n, w, TRUE)
           /\ IF w.ok THEN KeepWaiting ELSE Return(n, "WRITE_FAILED")
    BY <1>3 DEF ReceiveProbe
  <2>2. /\ offers' \in [Node -> SUBSET [mode : Role, version : Version]]
        /\ \A p \in Node : offers[p] \subseteq offers'[p]
        /\ Offered(offers'[n], f) /\ f \in Frame
    BY <1>1, <1>3, HeadOK DEF ReceiveProbe, IInv, LineOK, Offered
  <2>3. LineOK'
    BY <1>1, <2>1, <2>2, WriteOK DEF IInv
  <2>4. CallOK'
    <3>1. CASE w.ok
      BY <2>1, <3>1 DEF IInv, CallOK, AskedRole, KeepWaiting
    <3>2. CASE ~w.ok
      BY <2>1, <3>2, ReturnOK DEF IInv, Error
    <3>3. QED
      BY <3>1, <3>2
  <2>5. QED
    BY <1>1, <1>3, <2>2, <2>3, <2>4, QuietStep DEF ReceiveProbe
<1>4. CASE HandleRemoteRestarted(n, f)
  BY <1>1, <1>4, HandleRemoteRestartedOK
<1>5. QED
  BY <1>2, <1>3, <1>4 DEF ReceiveFrame

\* Frames that are no handshakes are no offers.
LEMMA PlainFrames ==
    /\ App \in Frame /\ \A o : Offered(o, App)
    /\ \A d \in Data : LoopbackTest(d) \in Frame /\ \A o : Offered(o, LoopbackTest(d))
BY FrameKinds DEF LoopbackTest, Frame, LoopbackFrame, Offered

\* The probe secil_loopback_test writes preserves the invariant.
LEMMA LoopbackCallOK ==
    ASSUME IInv, NEW n \in Node, NEW d \in Data, LoopbackCall(n, d)
    PROVE  IInv'
<1>1. PICK w \in WriteOutcomes(wire[n], LoopbackTest(d)) :
         /\ Write(n, w, FALSE)
         /\ IF w.ok
            THEN /\ Await(n, "loopback")
                 /\ probe' = [probe EXCEPT ![n] = d]
                 /\ UNCHANGED asked
            ELSE Return(n, "WRITE_FAILED")
  BY DEF LoopbackCall
<1>2. LineOK'
  BY <1>1, PlainFrames, WriteOK DEF LoopbackCall, IInv, LineOK
<1>3. CallOK'
  <2>1. CASE w.ok
    <3>1. Await(n, "loopback") /\ probe' = [probe EXCEPT ![n] = d] /\ UNCHANGED asked
      BY <1>1, <2>1
    <3>2. AskedRole'
      BY <3>1 DEF IInv, CallOK, AskedRole, Await
    <3>3. QED
      BY <3>1, <3>2 DEF IInv, CallOK, Await, Waiting
  <2>2. CASE ~w.ok
    BY <1>1, <2>2, ReturnOK DEF IInv, Error
  <2>3. QED
    BY <2>1, <2>2
<1>4. QED
  BY <1>2, <1>3, QuietStep DEF LoopbackCall

\* The frame secil_loopback_test reads does not touch the session.
LEMMA LoopbackFrameReadOK ==
    ASSUME IInv, NEW n \in Node, LoopbackFrameRead(n)
    PROVE  IInv'
<1>1. CallOK'
  BY ReturnOK DEF LoopbackFrameRead, IInv, Error
<1>2. LineOK'
  BY ConsumeOK DEF LoopbackFrameRead, IInv
<1>3. QED
  BY <1>1, <1>2, QuietStep DEF LoopbackFrameRead, Consume

\* A send from another thread touches nothing but the line.
LEMMA AppSendOK ==
    ASSUME IInv, NEW n \in Node, AppSend(n)
    PROVE  IInv'
<1>1. CallOK' /\ SameSession /\ UNCHANGED offers
  BY DEF AppSend, IInv, CallOK, AskedRole, local, SameSession
<1>2. LineOK'
  BY <1>1, PlainFrames, WriteOK DEF AppSend, IInv, LineOK
<1>3. QED
  BY <1>1, <1>2, QuietStep DEF AppSend

\* A damaged frame takes frames from the line and adds none.
LEMMA ReadGarbageOK ==
    ASSUME IInv, NEW n \in Node, ReadGarbage(n)
    PROVE  IInv'
<1>1. Incoming(n) # <<>> /\ SameSession /\ SameWorld
  BY DEF ReadGarbage
<1>2. CASE Consume(n) /\ KeepWaiting
  <2>1. CallOK' /\ LineOK'
    BY <1>1, <1>2, ConsumeOK DEF IInv, CallOK, AskedRole, KeepWaiting
  <2>2. QED
    BY <1>1, <1>2, <2>1, QuietStep DEF Consume
<1>3. ASSUME NEW k \in 1..Len(Incoming(n)), NEW code \in Error,
             wire' = [wire EXCEPT ![Peer(n)] = SubSeq(@, k + 1, Len(@))],
             Return(n, code), UNCHANGED <<offers, intact>>
      PROVE  IInv'
  <2> DEFINE old  == wire[Peer(n)]
             line == SubSeq(old, k + 1, Len(old))
  <2>1. old \in Seq(Frame) /\ Peer(n) \in Node /\ k \in 1..Len(old)
    BY PeerNode DEF IInv, LineOK, Incoming
  <2>2. line \in Seq(Frame) /\ \A i \in 1..Len(line) : i + k \in 1..Len(old) /\ line[i] = old[i + k]
    BY <2>1
  <2>3. wire' = [wire EXCEPT ![Peer(n)] = line] /\ intact' \in BOOLEAN
    BY <1>3 DEF IInv, LineOK
  <2>4. LineOK'
    BY <1>3, <2>1, <2>2, <2>3, DropOK DEF IInv
  <2>5. CallOK'
    BY <1>3, ReturnOK DEF IInv
  <2>6. QED
    BY <1>1, <1>3, <2>4, <2>5, QuietStep
<1>4. QED
  BY <1>2, <1>3 DEF ReadGarbage, Error

\* A timeout leaves at most garbage behind.
LEMMA TimeoutOK ==
    ASSUME IInv, NEW n \in Node, Timeout(n)
    PROVE  IInv'
<1>1. CallOK' /\ SameSession /\ SameWorld /\ UNCHANGED offers
  BY ReturnOK DEF Timeout, IInv, Error, SameLine
<1>2. CASE SameLine
  <2>1. LineOK'
    BY <1>2 DEF IInv, LineOK, WireOffered, SameLine
  <2>2. QED
    BY <1>1, <2>1, QuietStep
<1>3. CASE /\ Incoming(n) # <<>>
           /\ wire' = [wire EXCEPT ![Peer(n)] = <<Garbage>> \o Tail(@)]
           /\ intact' = FALSE
  <2> DEFINE old  == wire[Peer(n)]
             line == <<Garbage>> \o Tail(old)
  <2>1. old \in Seq(Frame) /\ old # <<>> /\ Peer(n) \in Node /\ Garbage \in Frame
    BY <1>3, PeerNode, FrameKinds DEF IInv, LineOK, Incoming
  <2>2. /\ line \in Seq(Frame)
        /\ \A i \in 1..Len(line) :
              line[i] = Garbage \/ \E k \in 1..Len(old) : line[i] = old[k]
    <3>1. line \in Seq(Frame) /\ line[1] = Garbage /\ Len(line) = Len(old)
      BY <2>1
    <3>2. \A i \in 2..Len(line) : line[i] = old[i]
      BY <2>1
    <3>3. QED
      BY <2>1, <3>1, <3>2
  <2>3. LineOK'
    BY <1>1, <1>3, <2>1, <2>2, DropOK DEF IInv
  <2>4. QED
    BY <1>1, <2>3, QuietStep
<1>4. QED
  BY <1>2, <1>3 DEF Timeout

\* A restart forgets the session, and what was offered stays offered.
LEMMA RebootOK ==
    ASSUME IInv, NEW n \in Node, Reboot(n)
    PROVE  IInv'
<1>1. CallOK'
  BY DEF Reboot, IInv, CallOK, AskedRole, NotAsked, Mode
<1>2. SessionOK' /\ WorldOK'
  BY DEF Reboot, IInv, SessionOK, WorldOK, Mode
<1>3. LineOK'
  <2>1. PICK line \in {<<>>, wire[Peer(n)]} : wire' = [wire EXCEPT ![Peer(n)] = line]
    BY DEF Reboot, Incoming
  <2>2. wire[Peer(n)] \in Seq(Frame)
    BY PeerNode DEF IInv, LineOK
  <2>3. UNCHANGED offers /\ intact' \in BOOLEAN
    BY DEF Reboot, IInv, LineOK
  <2>4. CASE line = wire[Peer(n)]
    BY <2>1, <2>2, <2>3, <2>4, PeerNode, DropOK DEF IInv
  <2>5. CASE line = <<>>
    <3>1. line \in Seq(Frame) /\ Len(line) = 0
      BY <2>5
    <3>2. \A i \in 1..Len(line) :
            line[i] = Garbage \/ \E k \in 1..Len(wire[Peer(n)]) : line[i] = wire[Peer(n)][k]
      BY <3>1
    <3>3. QED
      BY <2>1, <2>3, <3>1, <3>2, PeerNode, DropOK DEF IInv
  <2>6. QED
    BY <2>1, <2>4, <2>5
<1>4. OnConnectTruthful'
  BY PeerNode DEF Reboot, IInv, SessionOK, OnConnectTruthful, Connected
<1>5. QED
  BY <1>1, <1>2, <1>3, <1>4 DEF IInv

-----------------------------------------------------------------------------
(***************************************************************************)
(* The theorems.                                                           *)
(***************************************************************************)

\* The invariant holds at first.
LEMMA InitOK == Init => IInv
<1> SUFFICES ASSUME Init PROVE IInv
  OBVIOUS
<1>1. CallOK
  BY DEF Init, CallOK, AskedRole, NotAsked, Mode
<1>2. SessionOK
  BY DEF Init, SessionOK, Mode
<1>3. LineOK
  BY DEF Init, LineOK, WireOffered
<1>4. WorldOK
  BY SwitchAssumption DEF Init, WorldOK
<1>5. OnConnectTruthful
  BY DEF Init, OnConnectTruthful, Connected
<1>6. QED
  BY <1>1, <1>2, <1>3, <1>4, <1>5 DEF IInv

\* Every step preserves the invariant.
LEMMA StepOK == IInv /\ [Next]_vars => IInv'
<1> SUFFICES ASSUME IInv, [Next]_vars PROVE IInv'
  OBVIOUS
<1>1. CASE Settle
  BY <1>1 DEF Settle, local, IInv, CallOK, AskedRole, SessionOK, LineOK, WireOffered,
              WorldOK, OnConnectTruthful, Connected
<1>2. CASE UNCHANGED vars
  BY <1>2 DEF vars, local, IInv, CallOK, AskedRole, SessionOK, LineOK, WireOffered,
              WorldOK, OnConnectTruthful, Connected
<1>3. ASSUME NEW n \in Node, Step(n)
      PROVE  IInv'
  <2>1. CASE InitCall(n)
    BY <2>1, InitCallOK
  <2>2. CASE DeinitCall(n)
    BY <2>2, DeinitCallOK
  <2>3. CASE UninitialisedCall(n)
    BY <2>3, RefuseStep DEF UninitialisedCall, Error
  <2>4. ASSUME NEW m \in Roles[n], NEW strict \in BOOLEAN, StartupCall(n, m, strict)
        PROVE  IInv'
    <3>1. m \in Mode
      BY RolesAssumption
    <3>2. QED
      BY <2>4, <3>1, StartupCallOK
  <2>5. CASE StartupFrame(n)
    BY <2>5, StartupFrameOK
  <2>6. CASE ReceiveCall(n)
    BY <2>6, ReceiveCallOK
  <2>7. CASE ReceiveFrame(n)
    BY <2>7, ReceiveFrameOK
  <2>8. ASSUME NEW d \in Probes[n], LoopbackCall(n, d)
        PROVE  IInv'
    <3>1. d \in Data
      BY ProbesAssumption
    <3>2. QED
      BY <2>8, <3>1, LoopbackCallOK
  <2>9. CASE LoopbackFrameRead(n)
    BY <2>9, LoopbackFrameReadOK
  <2>10. CASE AppSend(n)
    BY <2>10, AppSendOK
  <2>11. CASE ReadGarbage(n)
    BY <2>11, ReadGarbageOK
  <2>12. CASE Timeout(n)
    BY <2>12, TimeoutOK
  <2>13. CASE Reboot(n)
    BY <2>13, RebootOK
  <2>14. QED
    BY <1>3, <2>1, <2>2, <2>3, <2>4, <2>5, <2>6, <2>7, <2>8, <2>9, <2>10, <2>11,
       <2>12, <2>13 DEF Step
<1>4. QED
  BY <1>1, <1>2, <1>3 DEF Next

\* The invariant holds in every reachable state.
LEMMA Invariance == Spec => []IInv
BY InitOK, StepOK, PTL DEF Spec

\* The variables of the library and of the line keep their types, for every set
\* of versions, probes and roles and every buffer size.
THEOREM TypeCorrect == Spec => []TypeOK
<1>1. IInv => TypeOK
  BY DEF IInv, CallOK, SessionOK, LineOK, WorldOK, TypeOK
<1>2. QED
  BY <1>1, Invariance, PTL

\* Whatever is lost, damaged, delayed or restarted, the role and the version
\* that on_connect reports were offered by the peer in one handshake.
THEOREM Truthful == Spec => []OnConnectTruthful
<1>1. IInv => OnConnectTruthful
  BY DEF IInv
<1>2. QED
  BY <1>1, Invariance, PTL

-----------------------------------------------------------------------------
(***************************************************************************)
(* The link layer implements SecilSession.                                 *)
(***************************************************************************)

\* Recording an offer is what the abstract specification calls offering.
LEMMA OfferIsOffer ==
    ASSUME NEW n \in Node, NEW m \in Role, Offer(n, m), UNCHANGED <<mode, informed, version>>
    PROVE  Session!Next
<1>1. Session!Offer(n, m)
  BY DEF Offer, Session!Offer, Session!Offering
<1>2. QED
  BY <1>1 DEF Session!Next

\* Telling the application of a handshake read from the line is connecting on
\* an offer of the peer, whether it is acknowledged on the way or not.
LEMMA NotifyIsConnect ==
    ASSUME IInv, NEW n \in Node, NEW f \in HandshakeFrame, Offered(offers[Peer(n)], f),
           NEW m, m = Opposite(f.mode),
           UNCHANGED offers \/ Offer(n, m),
           UNCHANGED version,
           mode' = [mode EXCEPT ![n] = m],
           informed' = [informed EXCEPT ![n] = f.version]
    PROVE  Session!Next
<1> DEFINE o == [mode |-> f.mode, version |-> f.version]
<1>1. o \in offers[Peer(n)]
  BY DEF Offered, HandshakeFrame
<1>2. Session!Connect(n, o)
  BY DEF Session!Connect, Session!Offering, Offer
<1>3. QED
  BY <1>1, <1>2 DEF Session!Next

\* What secil_startup does with a frame is an Offer or a Connect of the abstract
\* session, or nothing.
LEMMA StartupFrameImplements ==
    ASSUME IInv, NEW n \in Node, StartupFrame(n)
    PROVE  Session!Next \/ UNCHANGED Session!vars
<1> DEFINE f == Head(Incoming(n))
           m == asked[n].mode
<1>1. /\ Incoming(n) # <<>> /\ UNCHANGED version
      /\ f \in Frame /\ Offered(offers[Peer(n)], f) /\ m \in Role
  BY HeadOK DEF StartupFrame, SameWorld, IInv, CallOK, AskedRole
<1>2. CASE SameSession /\ Consume(n)
  BY <1>1, <1>2 DEF SameSession, Consume, Session!vars
<1>3. CASE StartupHandshake(n, f)
  <2>1. f \in HandshakeFrame /\ f.mode = Opposite(m)
    BY <1>1, <1>3, FrameKinds DEF StartupHandshake, Expected, Record
  <2>2. f.mode \in Role /\ m = Opposite(f.mode)
    BY <1>1, <2>1, OppositeRole DEF HandshakeFrame
  <2>3. UNCHANGED offers \/ Offer(n, m)
    BY <1>3 DEF StartupHandshake, Consume, Expected, Record
  <2>4. \/ UNCHANGED <<mode, informed>>
        \/ /\ mode' = [mode EXCEPT ![n] = m]
           /\ informed' = [informed EXCEPT ![n] = f.version]
    BY <1>3 DEF StartupHandshake, CompleteStartup, NotifyOnConnect, Expected, Record
  <2>5. CASE UNCHANGED <<mode, informed>>
    BY <1>1, <2>3, <2>5, OfferIsOffer DEF Session!vars
  <2>6. CASE /\ mode' = [mode EXCEPT ![n] = m]
             /\ informed' = [informed EXCEPT ![n] = f.version]
    BY <1>1, <2>1, <2>2, <2>3, <2>6, NotifyIsConnect
  <2>7. QED
    BY <2>4, <2>5, <2>6
<1>4. QED
  BY <1>2, <1>3 DEF StartupFrame

\* So is what secil_receive does with a frame.
LEMMA ReceiveFrameImplements ==
    ASSUME IInv, NEW n \in Node, ReceiveFrame(n)
    PROVE  Session!Next \/ UNCHANGED Session!vars
<1> DEFINE f == Head(Incoming(n))
<1>1. /\ Incoming(n) # <<>> /\ UNCHANGED version
      /\ f \in Frame /\ Offered(offers[Peer(n)], f)
  BY HeadOK DEF ReceiveFrame, SameWorld
<1>2. CASE SameSession /\ UNCHANGED offers
  BY <1>1, <1>2 DEF SameSession, Session!vars
<1>3. CASE HandleRemoteRestarted(n, f) /\ Connected(n) /\ mode[n] # f.mode
  <2>1. f \in HandshakeFrame /\ f.mode \in Role
    BY <1>1, <1>3, FrameKinds DEF HandleRemoteRestarted, HandshakeFrame, Refused, Record, NotifyOnConnect
  <2>2. mode[n] \in Role /\ mode[n] = Opposite(f.mode)
    BY <1>3, <2>1, OppositeRole DEF IInv, SessionOK, Connected, Mode
  <2>3. mode' = mode /\ mode = [mode EXCEPT ![n] = mode[n]]
    BY <1>3 DEF HandleRemoteRestarted, IInv, SessionOK, SameSession, Refused, Record, NotifyOnConnect
  <2>4. UNCHANGED offers \/ Offer(n, mode[n])
    BY <1>3 DEF HandleRemoteRestarted, Consume, Refused, Record, NotifyOnConnect
  <2>5. UNCHANGED informed \/ informed' = [informed EXCEPT ![n] = f.version]
    BY <1>3 DEF HandleRemoteRestarted, SameSession, Refused, Record, NotifyOnConnect
  <2>6. CASE UNCHANGED informed
    BY <1>1, <2>2, <2>3, <2>4, <2>6, OfferIsOffer DEF Session!vars
  <2>7. CASE informed' = [informed EXCEPT ![n] = f.version]
    BY <1>1, <2>1, <2>2, <2>3, <2>4, <2>7, NotifyIsConnect
  <2>8. QED
    BY <2>5, <2>6, <2>7
<1>4. QED
  BY <1>2, <1>3 DEF ReceiveFrame, ReceiveApp, ReceiveProbe, HandleRemoteRestarted, Consume, Refused, Record, NotifyOnConnect

\* A restart forgets the session, and so do secil_deinit and the secil_init
\* that follows it.
LEMMA RebootImplements ==
    ASSUME NEW n \in Node, Reboot(n)
    PROVE  Session!Next
<1>1. PICK v \in Version : version' = [version EXCEPT ![n] = v]
  BY DEF Reboot
<1>2. Session!Forget(n, v)
  BY <1>1 DEF Reboot, Session!Forget
<1>3. QED
  BY <1>1, <1>2 DEF Session!Next

\* secil_init, secil_deinit and a restart are a Forget, or nothing.
LEMMA ResetImplements ==
    ASSUME IInv, NEW n \in Node, SameLine, SameWorld,
           mode' = [mode EXCEPT ![n] = "UNINITIALIZED"],
           informed' = [informed EXCEPT ![n] = NoVersion]
    PROVE  Session!Next
<1>1. version[n] \in Version /\ version = [version EXCEPT ![n] = version[n]]
  BY DEF IInv, WorldOK
<1>2. Session!Forget(n, version[n])
  BY <1>1 DEF SameLine, SameWorld, Session!Forget
<1>3. QED
  BY <1>1, <1>2 DEF Session!Next

\* Every step of the link layer is one of the abstract session, or a stutter.
LEMMA StepImplements == IInv /\ [Next]_vars => [Session!Next]_(Session!vars)
<1> SUFFICES ASSUME IInv, [Next]_vars PROVE Session!Next \/ UNCHANGED Session!vars
  OBVIOUS
<1>1. CASE Settle \/ UNCHANGED vars
  BY <1>1 DEF Settle, vars, local, Session!vars
<1>2. ASSUME NEW n \in Node, Step(n)
      PROVE  Session!Next \/ UNCHANGED Session!vars
  <2>1. CASE InitCall(n) /\ pc[n] = "off"
    BY <2>1, ResetImplements DEF InitCall, Refuse
  <2>2. CASE DeinitCall(n)
    BY <2>2, ResetImplements DEF DeinitCall
  <2>3. ASSUME NEW code, Refuse(n, code)
        PROVE  UNCHANGED Session!vars
    BY <2>3 DEF Refuse, SameSession, SameLine, SameWorld, Session!vars
  <2>4. ASSUME NEW m \in Roles[n], NEW strict \in BOOLEAN, StartupCall(n, m, strict)
        PROVE  Session!Next \/ UNCHANGED Session!vars
    <3>1. m \in Mode
      BY RolesAssumption
    <3>2. CASE m = "UNINITIALIZED"
      BY <2>3, <2>4, <3>2 DEF StartupCall
    <3>3. CASE m # "UNINITIALIZED"
      BY <2>4, <3>1, <3>3, OfferIsOffer DEF StartupCall, SameSession, SameWorld, Mode
    <3>4. QED
      BY <3>2, <3>3
  <2>5. CASE StartupFrame(n) \/ ReceiveFrame(n)
    BY <2>5, StartupFrameImplements, ReceiveFrameImplements
  <2>6. CASE \/ ReceiveCall(n) \/ \E d \in Probes[n] : LoopbackCall(n, d)
             \/ LoopbackFrameRead(n) \/ AppSend(n) \/ ReadGarbage(n) \/ Timeout(n)
    BY <2>6 DEF ReceiveCall, LoopbackCall, LoopbackFrameRead, AppSend, ReadGarbage, Timeout,
                Consume, SameSession, SameLine, SameWorld, local, Session!vars
  <2>7. CASE Reboot(n)
    BY <2>7, RebootImplements
  <2>8. QED
    BY <1>2, <2>1, <2>2, <2>3, <2>4, <2>5, <2>6, <2>7 DEF Step, UninitialisedCall, InitCall
<1>3. QED
  BY <1>1, <1>2 DEF Next

\* The link layer implements the abstract session.
THEOREM Implements == Spec => SessionSpec
<1>1. Init => Session!Init
  BY DEF Init, Session!Init
<1>2. QED
  BY <1>1, StepImplements, Invariance, PTL DEF Spec, SessionSpec, Session!Spec
=============================================================================
