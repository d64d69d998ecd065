------------------------------- MODULE Secil -------------------------------
(***************************************************************************)
(* The SECIL link layer (source/secil.c), one frame at a time.             *)
(*                                                                         *)
(* Two processors, the thermostat (SE) and the cloud module (EME), each    *)
(* run one copy of the library over a UART.  A copy keeps a static struct  *)
(* `state`; what its callers can tell apart of that struct is whether the  *)
(* I/O callbacks are set, `mode` and `remote_version`.  A call that waits  *)
(* for the remote end (secil_startup, secil_receive, secil_loopback_test)  *)
(* is split at the read: everything the code does from one read of a frame *)
(* to the next wait or return is one action.                               *)
(*                                                                         *)
(* The UART between the two is external.  It may lose, damage or cut short *)
(* what is written, overrun a full receive buffer, and time out on a read; *)
(* either processor may restart at any instruction, with a new firmware.   *)
(***************************************************************************)
EXTENDS Naturals, Sequences, Functions

CONSTANTS
    Version,     \* SECIL_VERSION strings of the firmwares in circulation
    NoVersion,   \* the empty remote_version
    Data,        \* strings the applications may probe the link with
    Roles,       \* Roles[n]: modes the application of n may ask for
    Probes,      \* Probes[n]: strings the application of n may probe with
    Cap,         \* frames the receive buffer at either end can hold
    Observed,    \* error codes the applications tell apart (the examples: none)
    AppTraffic,  \* TRUE iff the applications send messages of their own
    Eager,       \* TRUE iff other calls may precede secil_startup
    Restartup,   \* TRUE iff a connected application may start up again
    Storm        \* TRUE iff faults and restarts may occur

Node == {"SE", "EME"}
Peer(n) == IF n = "SE" THEN "EME" ELSE "SE"

Role == {"CLIENT", "SERVER"}
Mode == Role \cup {"UNINITIALIZED"}
Opposite(m) == IF m = "CLIENT" THEN "SERVER" ELSE "CLIENT"

Error == { "INVALID_STATE", "ALREADY_INITIALIZED", "NOT_INITIALIZED",
           "INVALID_PARAMETER", "READ_TIMEOUT", "WRITE_FAILED", "DECODE_FAILED",
           "MESSAGE_TOO_LARGE", "UNKNOWN_MESSAGE_TYPE", "RECEIVE_FAILED",
           "STARTUP_FAILED", "VERSION_MISMATCH" }

ASSUME RolesAssumption   == Roles \in [Node -> SUBSET Mode]
ASSUME ProbesAssumption  == Probes \in [Node -> SUBSET Data]
ASSUME CapAssumption     == Cap \in Nat
ASSUME VersionAssumption == Version # {} /\ NoVersion \notin Version
ASSUME ObservedAssumption == Observed \subseteq Error
ASSUME SwitchAssumption  == {AppTraffic, Eager, Restartup, Storm} \subseteq BOOLEAN

(***************************************************************************)
(* Frames.  All 22 application messages are one, since the library treats  *)
(* them alike.  Garbage is what a damaged or truncated frame leaves on the *)
(* line; its header, length, CRC and footer are the subject of the framing *)
(* module.                                                                 *)
(***************************************************************************)
Handshake(m, a, v) == [kind |-> "handshake", mode |-> m, needs_ack |-> a, version |-> v]
LoopbackTest(d)    == [kind |-> "loopbackTest", data |-> d]
App                == [kind |-> "app"]
Garbage            == [kind |-> "garbage"]

HandshakeFrame == [kind : {"handshake"}, mode : Role, needs_ack : BOOLEAN, version : Version]
LoopbackFrame  == [kind : {"loopbackTest"}, data : Data]
Frame == HandshakeFrame \cup LoopbackFrame \cup {App, Garbage}

Waiting == {"startup", "receive", "loopback"}
VARIABLES
    pc,             \* "off" (callbacks not set), "idle", or the call under way
    asked,          \* arguments of the secil_startup call under way
    probe,          \* argument of the secil_loopback_test call under way
    mode,           \* state.mode
    remote_version, \* state.remote_version
    ret,            \* what the last call of the protocol thread returned
    version,        \* the SECIL_VERSION each processor was flashed with
    wire,           \* wire[n]: frames n has written and Peer(n) has not read
    informed,       \* history: last version on_connect passed on since the boot
    offers,         \* history: [mode, version] of every handshake n has written
    intact,         \* history: TRUE until the line first fails to carry a frame
    unsettled       \* TRUE while faults and restarts may still occur

local == <<pc, asked, probe, mode, remote_version, ret, informed>>
vars  == <<local, version, wire, offers, intact, unsettled>>

NotAsked == [mode |-> "UNINITIALIZED", strict |-> FALSE]
NoProbe  == [none |-> TRUE]

TypeOK ==
    /\ pc             \in [Node -> {"off", "idle"} \cup Waiting]
    /\ asked          \in [Node -> [mode : Mode, strict : BOOLEAN]]
    /\ probe          \in [Node -> Data \cup {NoProbe}]
    /\ mode           \in [Node -> Mode]
    /\ remote_version \in [Node -> Version \cup {NoVersion}]
    /\ ret            \in [Node -> Error \cup {"NONE", "OK", "FAILED"}]
    /\ version        \in [Node -> Version]
    /\ wire           \in [Node -> Seq(Frame)]
    /\ informed       \in [Node -> Version \cup {NoVersion}]
    /\ offers         \in [Node -> SUBSET [mode : Role, version : Version]]
    /\ intact         \in BOOLEAN
    /\ unsettled      \in BOOLEAN

Init ==
    /\ pc             = [n \in Node |-> "off"]
    /\ asked          = [n \in Node |-> NotAsked]
    /\ probe          = [n \in Node |-> NoProbe]
    /\ mode           = [n \in Node |-> "UNINITIALIZED"]
    /\ remote_version = [n \in Node |-> NoVersion]
    /\ ret            = [n \in Node |-> "NONE"]
    /\ version        \in [Node -> Version]
    /\ wire           = [n \in Node |-> <<>>]
    /\ informed       = [n \in Node |-> NoVersion]
    /\ offers         = [n \in Node |-> {}]
    /\ intact         = TRUE
    /\ unsettled      = Storm

Connected(n) == mode[n] # "UNINITIALIZED"

----------------------------------------------------------------------------
(***************************************************************************)
(* The line.                                                               *)
(***************************************************************************)
Incoming(n) == wire[Peer(n)]

\* What one call of write_callback with frame f can do to the line: the frame
\* arrives if the receive buffer has room; a fault loses it, damages it, or
\* makes the callback return false with none or a part of it written.
WriteOutcomes(line, f) ==
    LET room == Len(line) < Cap
        Carried == [ok |-> TRUE, line |-> IF room THEN Append(line, f) ELSE line, clean |-> room]
        Left == {line} \cup IF room THEN {Append(line, Garbage)} ELSE {}
    IN  {Carried} \cup IF unsettled THEN [ok : BOOLEAN, line : Left, clean : {FALSE}] ELSE {}

\* n writes with outcome w; got is TRUE iff n consumes the head of its input first.
Write(n, w, got) ==
    /\ wire' = [wire EXCEPT ![n] = w.line,
                            ![Peer(n)] = IF got THEN Tail(@) ELSE @]
    /\ intact' = (intact /\ w.clean)

\* n consumes the head of its input and writes nothing.
Consume(n) ==
    /\ wire' = [wire EXCEPT ![Peer(n)] = Tail(@)]
    /\ UNCHANGED <<offers, intact>>

Offer(n, m) == offers' = [offers EXCEPT ![n] = @ \cup {[mode |-> m, version |-> version[n]]}]

\* What an application sees of a return code.
Outcome(code) == IF code \in Observed \cup {"OK"} THEN code ELSE "FAILED"

\* The call of the protocol thread of n returns code.
Return(n, code) ==
    /\ pc'    = [pc EXCEPT ![n] = "idle"]
    /\ ret'   = [ret EXCEPT ![n] = Outcome(code)]
    /\ asked' = [asked EXCEPT ![n] = NotAsked]
    /\ probe' = [probe EXCEPT ![n] = NoProbe]

\* The call of the protocol thread of n goes on to wait for a frame.
Await(n, call) ==
    /\ pc'  = [pc EXCEPT ![n] = call]
    /\ ret' = [ret EXCEPT ![n] = "NONE"]

SameSession == UNCHANGED <<mode, remote_version, informed>>
SameWorld   == UNCHANGED <<version, unsettled>>
SameLine    == UNCHANGED <<wire, offers, intact>>

\* A call that fails before it has changed anything.
Refuse(n, code) ==
    /\ ret' = [ret EXCEPT ![n] = Outcome(code)]
    /\ UNCHANGED <<pc, asked, probe>>
    /\ SameSession /\ SameLine /\ SameWorld

----------------------------------------------------------------------------
(***************************************************************************)
(* Steps the handlers share, each with the slip a change of the code could *)
(* make in it (the definitions named ...Slip, which nothing uses).         *)
(***************************************************************************)

\* state.remote_version := the version in a handshake.
RecordSlip(n, v) == \* keeps the first version it was given
    remote_version' = [remote_version EXCEPT ![n] = IF @ = NoVersion THEN v ELSE @]
Record(n, v) == remote_version' = [remote_version EXCEPT ![n] = v]

\* secil_notify_on_connect: state.mode and state.remote_version are current.
NotifyOnConnectSlip(n, v) == \* reports the first connection only
    informed' = [informed EXCEPT ![n] = IF @ = NoVersion THEN v ELSE @]
NotifyOnConnect(n, v) == informed' = [informed EXCEPT ![n] = v]

\* The handshake that answers a handshake does not ask for an answer.
AckSlip(m, v) == Handshake(m, TRUE, v)
Ack(m, v) == Handshake(m, FALSE, v)

\* The handshake f asks for an answer.
WantsAckSlip(f) == FALSE
WantsAck(f) == f.needs_ack

\* secil_startup in mode m takes handshake f for its peer's.
ExpectedSlip(f, m) == TRUE
Expected(f, m) == f.mode = Opposite(m)

\* secil_receive refuses to take handshake f for a restart of its peer.
RefusedSlip(n, f) == mode[n] = f.mode \* forgets that n may not be started up
Refused(n, f)     == ~Connected(n) \/ mode[n] = f.mode

----------------------------------------------------------------------------
(***************************************************************************)
(* secil_init and secil_deinit                                             *)
(***************************************************************************)
InitCall(n) ==
    \/ /\ pc[n] = "off"
       /\ Return(n, "OK")
       /\ mode' = [mode EXCEPT ![n] = "UNINITIALIZED"]
       /\ remote_version' = [remote_version EXCEPT ![n] = NoVersion]
       /\ informed' = [informed EXCEPT ![n] = NoVersion]
       /\ SameLine /\ SameWorld
    \/ /\ pc[n] = "idle"
       /\ Refuse(n, "ALREADY_INITIALIZED")

DeinitCall(n) ==
    /\ unsettled
    /\ pc[n] = "idle"
    /\ pc' = [pc EXCEPT ![n] = "off"]
    /\ ret' = [ret EXCEPT ![n] = "NONE"]
    /\ mode' = [mode EXCEPT ![n] = "UNINITIALIZED"]
    /\ remote_version' = [remote_version EXCEPT ![n] = NoVersion]
    /\ informed' = [informed EXCEPT ![n] = NoVersion]
    /\ UNCHANGED <<asked, probe>>
    /\ SameLine /\ SameWorld

\* Every other call checks the callbacks first.
UninitialisedCall(n) ==
    /\ pc[n] = "off"
    /\ Refuse(n, "NOT_INITIALIZED")

(***************************************************************************)
(* secil_startup(m) and secil_startup_ignore_mismatch(m): send a handshake *)
(* that asks for an ack, then wait for ONE frame, which must be a          *)
(* handshake of the opposite mode.                                         *)
(***************************************************************************)
StartupCall(n, m, strict) ==
    /\ pc[n] = "idle"
    /\ Connected(n) => Restartup
    /\ \/ /\ m = "UNINITIALIZED"
          /\ Refuse(n, "INVALID_PARAMETER")
       \/ /\ m # "UNINITIALIZED"
          /\ \E w \in WriteOutcomes(wire[n], Handshake(m, TRUE, version[n])) :
                /\ Write(n, w, FALSE)
                /\ IF w.ok
                   THEN /\ Await(n, "startup")
                        /\ asked' = [asked EXCEPT ![n] = [mode |-> m, strict |-> strict]]
                        /\ UNCHANGED probe
                   ELSE Return(n, "WRITE_FAILED")
          /\ Offer(n, m)
          /\ SameSession /\ SameWorld

\* The tail of secil_startup_internal: check the version, enter the mode, and
\* call on_connect.
CompleteStartup(n, v) ==
    IF asked[n].strict /\ v # version[n]
    THEN /\ Return(n, "VERSION_MISMATCH")
         /\ UNCHANGED <<mode, informed>>
    ELSE /\ Return(n, "OK")
         /\ mode' = [mode EXCEPT ![n] = asked[n].mode]
         /\ NotifyOnConnect(n, v)

\* A handshake of the expected mode is recorded, acknowledged if it asks for
\* it, and only then examined for its version.
StartupHandshake(n, f) ==
    /\ f.kind = "handshake" /\ Expected(f, asked[n].mode)
    /\ Record(n, f.version)
    /\ \/ /\ ~WantsAck(f)
          /\ Consume(n)
          /\ CompleteStartup(n, f.version)
       \/ /\ WantsAck(f)
          /\ \E w \in WriteOutcomes(wire[n], Ack(asked[n].mode, version[n])) :
                /\ Write(n, w, TRUE)
                /\ IF w.ok
                   THEN CompleteStartup(n, f.version)
                   ELSE /\ Return(n, "WRITE_FAILED")
                        /\ UNCHANGED <<mode, informed>>
          /\ Offer(n, asked[n].mode)

StartupFrame(n) ==
    /\ pc[n] = "startup"
    /\ Incoming(n) # <<>>
    /\ LET f == Head(Incoming(n)) IN
          \/ StartupHandshake(n, f)
          \/ /\ f.kind \in {"app", "loopbackTest"}
             /\ Consume(n) /\ Return(n, "UNKNOWN_MESSAGE_TYPE") /\ SameSession
          \/ /\ f.kind = "handshake" /\ ~Expected(f, asked[n].mode)
             /\ Consume(n) /\ Return(n, "STARTUP_FAILED") /\ SameSession
    /\ SameWorld

(***************************************************************************)
(* secil_receive: wait for a frame; echo probes and answer handshakes      *)
(* without returning; return an application message to the caller.         *)
(***************************************************************************)
ReceiveCall(n) ==
    /\ pc[n] = "idle"
    /\ Eager \/ Connected(n)
    /\ Await(n, "receive")
    /\ UNCHANGED <<asked, probe>>
    /\ SameSession /\ SameLine /\ SameWorld

ReceiveApp(n, f) ==
    /\ f.kind = "app"
    /\ Consume(n) /\ Return(n, "OK") /\ SameSession

\* The call goes on to wait for the next frame.
KeepWaiting == UNCHANGED <<pc, asked, probe, ret>>

ReceiveProbe(n, f) ==
    /\ f.kind = "loopbackTest"
    /\ \E w \in WriteOutcomes(wire[n], f) :
          /\ Write(n, w, TRUE)
          /\ IF w.ok THEN KeepWaiting ELSE Return(n, "WRITE_FAILED")
    /\ UNCHANGED offers
    /\ SameSession

\* secil_handle_remote_restarted
HandleRemoteRestarted(n, f) ==
    /\ f.kind = "handshake"
    /\ \/ /\ Refused(n, f)
          /\ Consume(n) /\ Return(n, "INVALID_STATE") /\ SameSession
       \/ /\ ~Refused(n, f)
          /\ Record(n, f.version)
          /\ UNCHANGED mode
          /\ \/ /\ ~WantsAck(f)
                /\ Consume(n) /\ KeepWaiting /\ UNCHANGED informed
             \/ /\ WantsAck(f)
                /\ \E w \in WriteOutcomes(wire[n], Ack(mode[n], version[n])) :
                      /\ Write(n, w, TRUE)
                      /\ IF w.ok
                         THEN /\ KeepWaiting
                              /\ NotifyOnConnect(n, f.version)
                         ELSE Return(n, "WRITE_FAILED") /\ UNCHANGED informed
                /\ Offer(n, mode[n])

ReceiveFrame(n) ==
    /\ pc[n] = "receive"
    /\ Incoming(n) # <<>>
    /\ LET f == Head(Incoming(n)) IN
          ReceiveApp(n, f) \/ ReceiveProbe(n, f) \/ HandleRemoteRestarted(n, f)
    /\ SameWorld

(***************************************************************************)
(* secil_loopback_test(d): send a probe, then wait for ONE frame, which    *)
(* must be a probe with the same data.                                     *)
(***************************************************************************)
LoopbackCall(n, d) ==
    /\ pc[n] = "idle"
    /\ Eager \/ Connected(n)
    /\ \E w \in WriteOutcomes(wire[n], LoopbackTest(d)) :
          /\ Write(n, w, FALSE)
          /\ IF w.ok
             THEN /\ Await(n, "loopback")
                  /\ probe' = [probe EXCEPT ![n] = d]
                  /\ UNCHANGED asked
             ELSE Return(n, "WRITE_FAILED")
    /\ UNCHANGED offers
    /\ SameSession /\ SameWorld

LoopbackFrameRead(n) ==
    /\ pc[n] = "loopback"
    /\ Incoming(n) # <<>>
    /\ LET f == Head(Incoming(n)) IN
          \/ /\ f.kind \in {"app", "handshake"} /\ Return(n, "UNKNOWN_MESSAGE_TYPE")
          \/ /\ f.kind = "loopbackTest"
             /\ Return(n, IF f.data = probe[n] THEN "OK" ELSE "RECEIVE_FAILED")
    /\ Consume(n)
    /\ SameSession /\ SameWorld

(***************************************************************************)
(* The secil_send_* functions, which the application may call from another *)
(* thread than the one that is in secil_receive.                           *)
(***************************************************************************)
AppSend(n) ==
    /\ AppTraffic
    /\ pc[n] # "off"
    /\ Eager \/ Connected(n)
    /\ \E w \in WriteOutcomes(wire[n], App) : Write(n, w, FALSE)
    /\ UNCHANGED <<local, offers>>
    /\ SameWorld

(***************************************************************************)
(* secil_receive_internal, when what it reads is no frame: the scan for    *)
(* the header passes over the garbage, or a damaged length makes the read  *)
(* of the body take following frames with it before the checks fail.       *)
(***************************************************************************)
ReadGarbage(n) ==
    /\ pc[n] \in Waiting
    /\ Incoming(n) # <<>>
    /\ Head(Incoming(n)) = Garbage
    /\ \/ /\ Consume(n)
          /\ KeepWaiting
       \/ /\ \E k \in 1..Len(Incoming(n)) :
                wire' = [wire EXCEPT ![Peer(n)] = SubSeq(@, k + 1, Len(@))]
          /\ \E code \in {"DECODE_FAILED", "MESSAGE_TOO_LARGE", "READ_TIMEOUT"} : Return(n, code)
          /\ UNCHANGED <<offers, intact>>
    /\ SameSession /\ SameWorld

\* read_callback gives up.  What has been written may still be under way; if
\* a frame has arrived in part, the bytes read are gone and the rest of it is
\* garbage to the next call.
Timeout(n) ==
    /\ pc[n] \in Waiting
    /\ Return(n, "READ_TIMEOUT")
    /\ \/ SameLine
       \/ /\ unsettled /\ Incoming(n) # <<>>
          /\ wire' = [wire EXCEPT ![Peer(n)] = <<Garbage>> \o Tail(@)]
          /\ intact' = FALSE
          /\ UNCHANGED offers
    /\ SameSession /\ SameWorld

(***************************************************************************)
(* The environment.                                                        *)
(***************************************************************************)

\* Processor n restarts, perhaps with a firmware of another version, and
\* perhaps losing what its UART had received.
Reboot(n) ==
    /\ unsettled
    /\ pc' = [pc EXCEPT ![n] = "off"]
    /\ asked' = [asked EXCEPT ![n] = NotAsked]
    /\ probe' = [probe EXCEPT ![n] = NoProbe]
    /\ ret' = [ret EXCEPT ![n] = "NONE"]
    /\ mode' = [mode EXCEPT ![n] = "UNINITIALIZED"]
    /\ remote_version' = [remote_version EXCEPT ![n] = NoVersion]
    /\ informed' = [informed EXCEPT ![n] = NoVersion]
    /\ \E v \in Version : version' = [version EXCEPT ![n] = v]
    /\ \E line \in {<<>>, Incoming(n)} : wire' = [wire EXCEPT ![Peer(n)] = line]
    /\ UNCHANGED <<offers, intact, unsettled>>

\* From here on the line is sound and nobody restarts.
Settle ==
    /\ unsettled
    /\ unsettled' = FALSE
    /\ UNCHANGED <<local, version, wire, offers, intact>>

Step(n) ==
    \/ InitCall(n) \/ DeinitCall(n) \/ UninitialisedCall(n)
    \/ \E m \in Roles[n], strict \in BOOLEAN : StartupCall(n, m, strict)
    \/ StartupFrame(n)
    \/ ReceiveCall(n) \/ ReceiveFrame(n)
    \/ \E d \in Probes[n] : LoopbackCall(n, d)
    \/ LoopbackFrameRead(n)
    \/ AppSend(n)
    \/ ReadGarbage(n) \/ Timeout(n)
    \/ Reboot(n)

Next == Settle \/ \E n \in Node : Step(n)

Spec == Init /\ [][Next]_vars

----------------------------------------------------------------------------
(***************************************************************************)
(* Fairness: that of the applications' loop "start up until it works, then *)
(* receive for ever", of a read callback that gives up after a while, and  *)
(* of a line that is faster than the read timeout: a frame that is there   *)
(* again and again when the library waits is read in the end.              *)
(***************************************************************************)
Call(n) ==
    \/ pc[n] = "off" /\ InitCall(n)
    \/ ~Connected(n) /\ \E m \in Roles[n] \cap Role, strict \in BOOLEAN : StartupCall(n, m, strict)
    \/ ReceiveCall(n)

Read(n) == StartupFrame(n) \/ ReceiveFrame(n) \/ LoopbackFrameRead(n) \/ ReadGarbage(n)

Fairness ==
    \A n \in Node : WF_vars(Call(n)) /\ WF_vars(Timeout(n)) /\ SF_vars(Read(n))

FairSpec == Spec /\ Fairness

----------------------------------------------------------------------------
(***************************************************************************)
(* Properties.                                                             *)
(***************************************************************************)

\* Whatever the line loses, damages or delays and whoever restarts, the role
\* and the version on_connect last reported were offered by the peer together,
\* in one handshake: state.mode and state.remote_version, which are set at
\* different places, never belong to two different handshakes when the
\* application is told, and no end connects to a peer of its own role.
OnConnectTruthful ==
    \A n \in Node :
        Connected(n) =>
            [mode |-> Opposite(mode[n]), version |-> informed[n]] \in offers[Peer(n)]

\* The link layer implements the abstract session: every on_connect is on an
\* offer of the peer, a session starts and changes in no other way, and only a
\* restart or secil_deinit ends it.
Session == INSTANCE SecilSession WITH session <- mode, reported <- informed
SessionSpec == Session!Spec

HasHandshake(line) == \E f \in Range(line) : f.kind = "handshake"
NoHandshakePending == \A n \in Node : ~HasHandshake(wire[n])
BothConnected      == \A n \in Node : Connected(n)

\* On a line that has lost nothing, once every handshake written has been read,
\* secil_get_remote_version at either connected end is the version the other
\* end runs now: no stale handshake of an earlier boot has the last word.
VersionsKnown ==
    (intact /\ NoHandshakePending /\ BothConnected)
        => \A n \in Node : remote_version[n] = version[Peer(n)]

\* Likewise the application at either end has been told, by on_connect, of
\* the version the other end runs now: every restart of the peer with another
\* firmware reaches the application, not just the library.
RestartsAnnounced ==
    (intact /\ NoHandshakePending /\ BothConnected)
        => \A n \in Node : informed[n] = version[Peer(n)]

\* On a line that has lost nothing, a secil_startup call that still waits
\* after a connected peer has read its request has an answer on the line: it
\* never waits in vain.
RequestsAnswered ==
    \A n \in Node :
        (/\ intact /\ pc[n] = "startup"
         /\ Connected(Peer(n)) /\ ~HasHandshake(wire[n]))
            => HasHandshake(Incoming(n))

\* Once faults and restarts are over, both ends are connected in the end and
\* for ever, whatever the line and the buffers still hold: the retry loop
\* around secil_startup needs no other help.
Convergence == <>~unsettled => <>[]BothConnected

\* Once faults and restarts are over and the applications are silent, the line
\* falls silent too: acks are not acknowledged, so no handshake is answered
\* for ever.
Quiescence == <>~unsettled => <>[](\A n \in Node : wire[n] = <<>>)

\* If the applications probe the link finitely often, the probes die out
\* ("Just echo the message back" ends with the sender of the probe).
ProbesDieOut ==
    <>[][\A n \in Node, d \in Data : ~LoopbackCall(n, d)]_vars
        => <>[](\A n \in Node : \A f \in Range(wire[n]) : f.kind # "loopbackTest")
=============================================================================
