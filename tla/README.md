# A formal model of SECIL

SECIL is the link between the two processors of a thermostat: the SE (the
thermostat proper, an STM32) and the EME (the cloud module, an ESP32). Each
runs one copy of `source/secil.c` over a UART. This directory holds TLA+
models of that library, TLC configurations that check them, and proofs that
TLAPS checks. Line numbers below are those of `source/secil.c` unless another
file is named.

## 1. The system

| Component | State it keeps | Operations | Talks to |
|---|---|---|---|
| Session and handshake (134-167, 210-242, 554-658) | `state.mode`, `state.remote_version`, the callbacks | `secil_init`, `secil_deinit`, `secil_startup`, `secil_startup_ignore_mismatch`, `secil_handle_remote_restarted` | the peer by handshakes; the application by `on_connect` |
| Receive loop (333-356) | none of its own | `secil_receive` | framing below; echoes probes, answers handshakes, returns the rest |
| Loopback test (506-548) | none | `secil_loopback_test` | sends a probe, reads one frame |
| Send path (127-132, 359-504) | `state.outgoingMessage` | `secil_send`, 21 `secil_send_*` functions | nanopb's encoder, `write_callback` |
| Framing (244-331) | `state.incomingMessage` | `secil_read_next_header`, `secil_receive_internal` | `read_callback`, nanopb's decoder |
| CRC (102-115) | none | `crc16arc_bit` | |
| Queries (169-208, 660-678) | none | `secil_get_remote_version`, `secil_error_string` | |
| Logging (57-68) | `state.log_buffer` | `secil_log` | the logger callback |
| Message catalogue (`secil.proto`) | | 22 messages in a oneof | nanopb's generator |
| Examples (`example/`) | the UART's descriptor | retry loop around `secil_startup`, a receive thread, a menu that sends from the main thread, `read_uart` with a 5 s timeout | the library |
| Test (`test/test_loopback.c`) | an in-memory line | runs probes over it | the library |
| nanopb (`nanopb/`) | streams, field iterators, message descriptors | `pb_encode_ex`, `pb_decode_ex`; the generator | the library; the application's `secil_message` |

### What is hard about it

* Two processors, each with its own restarts and firmware, and a line without
  acknowledgement, sequence numbers or nonces: frames of an earlier boot can
  still be in a buffer when the next boot looks for its answer.
* A start-up that reads exactly one frame and gives up if it is the wrong one;
  a retry loop around it; a timeout that races a late answer.
* Frames answered inside `secil_receive`, without the caller knowing: echoes
  and acks, on the receiver's thread, through a buffer the sender uses too.
* Callbacks that are checked at the start of a call and used later in it, while
  another thread may end the library.
* `remote_version`, `mode` and the call of `on_connect` are set at different
  places, with a write that may fail between them.
* A byte stream in which a damaged length can take the next frames with it.
* Firmwares that need not agree on `secil.proto`
  (`secil_startup_ignore_mismatch`), decoded into a message that the
  application passes again and again and nobody initialises.
* A deadline kept across several waits, on a UART that two threads read.

What makes each part correct:

* session: an application is only told of a connection the peer offered, with
  the role and version of one offer; after a restart both ends come to know,
  and are told of, the version of the other; retrying is enough to connect;
  the handshake comes to an end;
* send path: a message goes out once and whole, or not at all;
* framing: what comes out was sent, in order; noise and damage cost little;
* CRC: the polynomial division it claims to be, and the errors that detects;
* codec: the receiver has what the sender meant, or an error; whatever
  `secil.proto` allows can be sent, and received;
* `read_uart`: exactly the bytes asked for, in order and once, or a failure
  within its timeout.

## 2. The modules

| Module | What it is | Code |
|---|---|---|
| `Secil` | both processors, one frame at a time: calls, handshakes, probes, restarts, a faulty line | `source/secil.c` without bytes; `example/` for fairness |
| `SecilSession` | abstract: offers, connections, forgetting | what `secil_startup` promises |
| `SecilProofs`, `SecilVersionsProofs` | theorems about `Secil`: the session, and the versions | |
| `SecilThreads` | the threads of one processor in `secil_send`, store by store, and in `secil_receive`, callback by callback, from `secil_init` to `secil_deinit` | 46-85, 134-167, 244-504 |
| `SecilOutbox` | abstract: a message goes out once and whole or not at all | what `secil_send_*` promises |
| `SecilThreadsProofs` | theorems about `SecilThreads`, and that it implements `SecilOutbox` | |
| `SecilFraming` | frames on the UART byte by byte, with resynchronisation | 244-331, 359-426 |
| `SecilFramingProofs`, `SecilLossProofs` | theorems about `SecilFraming`: without faults, and with them | |
| `SecilCrc` | `crc16arc_bit`, and polynomial division as its reference | 102-115 |
| `SecilSchema` | the catalogue as packed descriptors, and the iterator over them | `secil.proto`, `nanopb/pb.h`, `pb_common.c` |
| `SecilSchemaProofs` | a theorem about the packing | |
| `SecilCodec` | encoder, decoder and size limits between peers of different firmware | `nanopb/pb_encode.c`, `pb_decode.c`, the generator; 127-132, 288-331, 387-504 |
| `SecilUart` | `read_uart` with its deadline, and `write_uart` | `example/common.c` 119-197 |
| `SecilUartProofs` | theorems about `SecilUart` | |
| `MCSecil`, `MCSecilThreads`, `MCSecilFraming`, `MCSecilFrame` | instances for TLC (`SecilUart` needs none) | |

The modules see one link at three scales. `SecilFraming` (with `SecilCrc`
inside, in its instance) explains what a damaged frame does to those behind
it; `Secil` takes that as its `Garbage` frames, which a read may pass over or
which may take any number of the frames behind them along. `SecilThreads`
explains when a frame may be taken for one step of `Secil`: when the sends of
one processor do not overlap. `Secil` assumes that they do not. `SecilUart`
explains the reads that `SecilFraming` takes for one step, and why a timeout
drops what had arrived; `SecilCodec` the bodies, which the others take to mean
at the far end what they meant at this one.

Definitions whose name ends in `Slip` are deliberate mistakes, each with the
same parameters as the definition after it. No specification uses them; they
are what a property is tested against: with the slip in the place of the
definition, TLC finds the property violated.

### Secil

State per processor: `pc` (which call is under way), the arguments of that
call, `mode` and `remote_version` of the static struct, `version` (its
`SECIL_VERSION`), and `wire[n]`, the frames written by `n` and not yet read.
A call that waits is split where `read_callback` blocks: `StartupCall` is
`secil_startup_internal` up to the read, `StartupFrame` everything after it.
Everything between two reads is one step, including the write of an ack and
the call of `on_connect`; no other thread of the model touches that state.
`AppSend` stands for the `secil_send_*` functions, from whichever thread.

Histories, which no action reads: `informed` (what `on_connect` last reported
in this boot), `offers` (all handshakes ever written) and `intact` (whether
the line has carried everything so far).

The environment: `WriteOutcomes` is one call of `write_callback`: the frame
arrives if the receive buffer (`Cap` frames) has room; under a fault it is
lost, damaged, or written in part, with either return value. `Timeout` may
strike at any time, and may leave the rest of a frame that had begun to
arrive. `Reboot` may happen at any time, with another firmware, and with or
without the receive buffer. `Settle` ends faults and restarts, once.

`ret` is the last return code; `Observed` says which error codes an
application tells apart. The examples compare with `SECIL_OK` only.

`secil_deinit` is an action only while the protocol thread is idle (see
section 6).

### SecilThreads

A cell of the buffer is what one store covers: header, a piece of body,
footer. Sums are perfect (a footer holds what it was computed over), so an
accepted mixture is not an accident of 16 bits. `write_callback` copies the
buffer in one step, the best case for the code. Message sizes 1, 2 and 3 with
a limit of 2 and room for 3 have the shape of the real ones: the longest
message is encoded whole and then refused.

The library may be ended and started again at any moment by a thread that is
not itself in a call, whatever the other one is doing: `secil_deinit` has no
check, and the examples call it from `main` (`eme_example.c` 161,
`se_example.c` 93) while their detached receive thread (`common.c` 373-387) is
in `secil_receive`. `rpc` says where the receiver is there: before the check of
the callbacks (`CheckCallbacks`), before a call of `read_callback`
(`secil_read`), in it, or sending an answer. `ReadReturns` leaves open what was
read: more of the frame may be wanted, the next frame, or the call may end.
`NullCall` is the use of a callback that is gone, for a read or a write; the
processor stops there (`crashed`), the outcome on the hosts of the examples,
where it is a segmentation fault. `secil_init` clears the buffer, a new start-up
or receive does not. `Serial` says that no send begins, and the buffer is not
cleared, while another send is under way; it says nothing of `secil_deinit`.

### SecilFraming

Real bytes and the real CRC; only `secil_message_size` is scaled, from 264 to
8. The bodies are nanopb's encodings of a temperature and of a time that
holds 0xCA 0xFE. A timeout leaves what had arrived on the line or drops it,
since both are seen: `read_uart` (`example/common.c` 119-171) drops it, the
test's `read_fn` does not. Reading is one action per call of `read_callback`.

### SecilSchema and SecilCodec

An integer is the set of the positions of its 1 bits, so that shifts, masks
and sign extensions are set operations and every width up to 64 is real; a
string is a sequence of bytes; a struct is a function from the offsets of its
fields. `SecilSchema` packs a list of fields into 32-bit words as the macros of
`pb.h` do, in one word or two as the generator decides, and the iterator gets
everything it knows out of these words: a field whose tag, offset or size did
not survive the packing is lost to the codec as well. `SecilCodec` encodes and
decodes whole messages, byte for byte.

The sender of a message may run another firmware (`Firmware`); the receiver
has the catalogue of the repository. The peers in `MCSecilFrame` are: `own`;
`older`, whose payloads lack their last field; `wider`, without the `int_size`
options, so that its values may not fit ours; `longer`, with a field 65 of
each wire type at the end of each payload; and `fuller`, with the payloads 22,
74 and 101 and a field between two of ours. 65 and 74 agree with tags of ours in
their low six bits, which is all that the search compares at first.

`Send` is one call of a `secil_send_*` function, `Receive` one of
`secil_receive_internal` on its frame, into the message the previous call has
filled; `SendMore` sends the second message. What the catalogue uses of nanopb
is modelled: static required fields and the oneof. What is left in the fields
of a payload by a decode that fails is not tracked, and no peer has a 64-bit
value for a signed field of ours: `pb_dec_varint` cuts those to 32 bits on
purpose (`pb_decode.c` 1485).

### SecilCrc

The algorithm. `MCSecilFrame` feeds it one byte at a time and compares it with
polynomial division of all the bytes.

### SecilUart

Bytes are numbered as they are written, so that a byte lost, doubled or out of
order shows. A call is in `select`, about to `read`, or `asleep` after a failed
read. `Tick` is one second, and passes only when nobody can act. `select` is
that of Linux, which counts its timeout down: this is what makes the five
seconds those of the call, though the loop never sets them again. Whether the
UART blocks depends on which initialise function opened it. After a hangup
`select` reports the UART readable and `read` has nothing. `robbed` notes that
another thread took the bytes `select` had announced to this one.

## 3. The runs

| Run | Expect | Checks | Instance |
|---|---|---|---|
| `faults` | pass | `TypeOK`, `OnConnectTruthful`, `SessionSpec` | every fault and call, any role at either end, one version, receive buffers of one frame |
| `restarts` | pass | `VersionsKnown`, `RestartsAnnounced`, `RequestsAnswered` | two versions, fixed roles, buffers of three frames |
| `live` | pass | `Convergence`, `Quiescence` | faults and restarts, then none; fairness |
| `echo` | violation | `ProbesDieOut` | one prober, no faults at all |
| `swallowed` | violation | `RestartsAnnounced` | as `restarts`, with a prober |
| `serial` | pass | `OutboxSpec` | both threads send, in turn, three calls; the library is ended at any moment, and started twice |
| `overlap` | violation | `NoMixture` | one sends, the other answers; two calls, one life of the library |
| `line` | pass | `NoiseHarmless`, `LossBounded`, `NothingInvented` | three frames, one fault, one hiss |
| `frame` | pass | `SentIsAccepted`, `Understood`, `NothingMadeUp`, `ProbesFit`, `IsRemainder`, `TwoErrorsDetected` | five firmwares, all payloads, edge values; the CRC of 18,688 inputs of up to three bytes, error patterns up to 268 bytes |
| `strings` | violation | `StringsFit` | as `frame` |
| `uart` | pass | `EachByteOnce`, `Punctual`, `Returns` | two readers, three calls for one or three bytes, four bytes, timeout 2, a hangup |
| `hangup` | violation | `TimesOut` | one reader |

What the passing runs show:

* `faults`: `OnConnectTruthful` and the refinement `SessionSpec` hold whatever
  the line does. One frame of buffer is enough here because a stale frame in
  it already survives a restart, and the histories remember the rest; the
  theorems of section 5 cover every size. Error codes, which no action reads,
  are left out of the view (`WithoutRet`).
* `restarts`: on a line that delays but does not lose, no stale handshake has
  the last word. Three frames of buffer hold the handshakes of two boots and
  an ack behind them. Without two versions nothing could be stale; with three
  nothing new happens, since the properties compare one version with one.
  The state constraint `StillIntact` drops the states in which a frame was
  lost: `intact` never becomes true again and every property starts from it.
  `offers` is left out of the view; nothing checked there reads it.
* `live`: after the last fault the ends connect and the line falls silent.
* `serial`: a buffer that is never cleared, and that a refused message leaves
  dirty, still yields exactly the messages sent. So it does if the library is
  ended at any step of a send or of `secil_receive`, and started again while
  `secil_receive` waits: that may stop the processor (section 4), but no frame
  goes out that was not sent. Two lives are the fewest in which a call outlives
  one. The run cannot show what overlapping sends do; `overlap` does.
* `line`: the receiver finds the next frame after one byte is lost, changed
  or added, after a cut anywhere, after a false header and after a timeout
  anywhere. `MaxLoss` is what the longest body and a footer can cover, and
  the frame struck itself: two at this scale, and 22 at the real one
  (1 + 268 bytes by frames of 13, rounded up), where a fault must produce 0xCA
  0xFE and a length of no more than 264 to cost more than one. Messages
  that imitate a header with such a length are left out; section 5 says why,
  and which they are. `QuietAssumption` has TLC evaluate, on the messages and
  faults of this run, what the theorem there assumes.
* `frame`: one field at a time takes each value around a change of encoding
  or width (bits 6 to 8, 27 and 28, 31 and 32, 34 and 35, 62 and 63; strings around their
  `max_size`, the 118 to 128 characters at which one length prefix or another
  takes a second byte, and the 247 to 257 at which the limits are), the others a typical one. Two
  messages in a row reach whatever the first leaves behind, since the library
  keeps nothing else of it. Codec and CRC share the run and no behaviour: the
  first step chooses. The longest probe, 255 characters, takes exactly 264
  bytes. `IsRemainder` checks the loops against long division bit by bit; 268
  bytes are a header and the longest body.
* `uart`: a call for three bytes that come one by one, with another thread
  reading between, is the shortest in which a deadline set again or a
  remainder miscounted shows. `Punctual` and `Returns` except a hangup and a
  call that was robbed: the menu runs the loopback test beside the receive
  thread (`common.c` 329), and a read that blocks then waits as long as the
  line is silent.

### Fairness

`FairSpec` is used by `live` and `echo`. Weak fairness of `Call` is the
examples' loop: start up until it works, then receive for ever
(`eme_example.c` 23-36, `common.c` 350-371). Weak fairness of `Timeout` is
`read_uart` giving up after five seconds. Strong fairness of `Read` says that
a frame which is there again and again when the library waits is read in the
end: a frame takes 24 ms at 115200 baud, the timeout is five seconds. Weak
fairness would not do, since a timeout ends each wait. Nothing is assumed of
faults, restarts or the application's other calls. `Convergence` is checked
without application traffic: a peer that never stops sending into a full
buffer can starve the handshake, as the code has no flow control.

`SecilUart` has weak fairness of each thread's next step in `read_uart` and of
`Tick`: threads run and time passes. Nothing is assumed of the far end, of
signals or of new calls.

## 4. Findings

1. A late echo never dies (`echo`): `secil_receive` takes the echo of its own
   end's probe for a probe of the peer (344), and both ends send it back for
   ever. It needs one `secil_loopback_test` that times out just before its
   echo arrives, and no fault of the line.
2. A restart can be swallowed (`swallowed`): `secil_loopback_test` drops a
   handshake it meets (532); contrary to `secil.h:80`, the application may
   never be told of the restart.
3. Sending beside the receive thread is not safe (`overlap`), contrary to
   `README.md:129`: the receive thread sends too (235, 344).
4. A warning of 254 or 255 characters cannot be sent (`strings`), although
   `secil.proto:150` gives it the room: the limit counts no length prefix, the
   encoded size does (406).
5. `read_uart` never returns after a hangup (`hangup`), contrary to its timeout
   (`common.c:127`) and to `secil.h:25`: `select` goes on reporting the UART
   readable, `read` returns 0 or an error, and the loop goes round.

No document speaks of what follows, so no run counts it as a violation;
`serial` reaches it, as `NullCall`. Ending the library beside the receive
thread is not safe: the callbacks are checked once a frame (276) and used later,
several times (247, 266, 297), and `secil_deinit` sets them to NULL in between
(161). Five steps suffice: `secil_init`, `Receive`, `CheckCallbacks`,
`secil_deinit`, `NullCall`. `secil_send` has the same gap, from 389 to 419. The
examples take that risk when they exit.

## 5. Proofs

Seven modules prove theorems, six of them about four of the specifications and
one about operators. Every theorem about a specification is about `Spec`, without
fairness, and holds for all values of the constants that
the named assumptions of its module allow, the bounds among them: any number
of calls, frames, bytes or faults. The runs show the same properties on small
instances; every invariant below was checked there before it was proved.

| Theorem | States | Assumes, beside the module's assumptions |
|---|---|---|
| `SecilProofs!TypeCorrect` | `Spec => []TypeOK` | |
| `SecilProofs!Truthful` | `Spec => []OnConnectTruthful` | |
| `SecilProofs!Implements` | `Spec => SessionSpec` | |
| `SecilVersionsProofs!VersionsRight` | `Spec => []VersionsKnown` | fixed roles, no prober |
| `SecilVersionsProofs!VersionsTold` | `Spec => []RestartsAnnounced` | the same, and no start-up while connected |
| `SecilVersionsProofs!RequestsHeard` | `Spec => []RequestsAnswered` | fixed roles, no prober |
| `SecilThreadsProofs!SerialNotMixed` | `Spec => []NoMixture` | no send overlaps another, or a `secil_init` |
| `SecilThreadsProofs!SerialImplementsOutbox` | `Spec => OutboxSpec` | the same |
| `SecilFramingProofs!HissCostsNothing` | `Spec => []NoiseHarmless` | |
| `SecilLossProofs!DamageBounded` | `Spec => []LossBounded` | `QuietFrames`, `QuietFaults`, a maximal length below 51712, some message |
| `SecilSchemaProofs!FieldsUnpacked` | what is packed is what the iterator finds | the assertions of `pb.h` |
| `SecilUartProofs!TimeoutKept` | `Spec => []Punctual` | |
| `SecilUartProofs!NoByteTwice` | `Spec => []EachByteOnce` | |

In each module a proof has one lemma for each action (or each shape of a
step), and in it only the conjuncts the action can disturb.

### SecilProofs

`OnConnectTruthful` is not inductive: it says nothing of the frames on the
line, from which the next connection will be made. The invariant `IInv` adds
that every handshake on the line has been offered by its writer, with the role
it names (`LineOK`), that a startup under way was asked for one of the two
roles (`CallOK`), and that a node not connected has nothing reported
(`SessionOK`). Offers are only ever added, so what is true of a frame stays
true wherever it is delayed. `Implements` maps the writes of handshakes to
`Offer`, completed startups and acknowledged restarts to `Connect`, `Reboot`
and `secil_deinit` to `Forget`, and everything else to a stutter; it uses
`IInv` to know that the frame read was offered.

### SecilVersionsProofs

The three properties speak of a line from which all handshakes have been read;
the invariant `VInv` says what holds before. As long as the line is intact, of
each node: the frames it has written name the one role it has (`InRole`); if
it has announced its version, then either a request with its current version
is on the line and no handshake behind it says otherwise, or all handshakes on
the line say the current version and a connected peer has it recorded, and has
been told of it (`Current`); and while it waits for an answer to a request,
that request is the last handshake on its line, or has been read by a peer
that, if it is connected, has a handshake on the way back (`Answered`). Stale
frames may thus stand anywhere, but a request with the current version stands
behind them. A read takes the front of a line away, a write adds to its end,
and a restart makes everything before it stale at once; the lemmas on
`CurrentLine` and `AnsweredLine` are about these three, and the actions are
sorted into four shapes (`Resets`, `Stays`, `Requests`, `Hears`).

The assumptions are those of the run `restarts`: each end keeps to one of the
two opposite roles, or to none (`FixedRoles`, as the thermostat and its cloud
module do), and neither runs the loopback test (`Unprobed`). TLC finds each of
the three properties violated without either: a probe that drops a handshake
is finding 2, and an end asked for the role of its peer has its handshake
refused, and the version in it is lost (221). `VersionsTold` needs the third:
a strict startup that meets another version while connected records it (599),
fails (627) and leaves what `on_connect` had said; there TLC finds
`RestartsAnnounced` violated and the other two not.

### SecilThreadsProofs

Both theorems are the converse of finding 3: they assume `Serial`, under which
no call of `secil_send` begins, and no `secil_init` clears the buffer, while
another send is under way. `secil_deinit` they allow anywhere: a call that loses
its callbacks hands nothing over. `SInv` says that one thread at most is
in `secil_send` (`Alone`); that what its call has stored so far is in the
buffer and nothing has changed it, its sum being taken over exactly that
(`Stored`); and that what was handed over has a meaning (`Meant`). `Stored`
does not speak of the rest of the buffer, which holds whatever earlier calls
left: the proof is that nothing of it is written. `SerialImplementsOutbox` maps
the check of the callbacks to `Begin`, the call of `write_callback` to `Put`
or `Fail`, a message too large to `Fail`, and the stores to a stutter.

### SecilFramingProofs

The receiver has no notion of where frames begin; the invariant `FInv` does.
Without faults, the messages delivered are the first of those sent, and the
others stand, in order and whole, in the bytes not done with, at places such
that no 0xCA 0xFE begins outside them (`Laid`; 0xCA 0xFE inside a frame is
allowed, and the time 98122 has one). "Not done with" is the line, preceded by
the four bytes of the header while the receiver scans or reads a body: that
these are part of it is what makes the scan correct, which shifts one byte
out of them at a time. From it follows that a header found is the next
frame's, hence of the right length and never too large, and that a receiver
which waits for bytes has no frame left. Of hiss it is assumed
(`HissAssumption`) that no 0xFE begins it or follows a 0xCA in it; hiss may
end with 0xCA. Hiss of 0xCA and then of 0xFE alone is a false header, and TLC
finds `NoiseHarmless` violated with it. Of the CRC only its 16 bits are used
(`CrcAssumption`): without faults it never has to detect anything.

### SecilLossProofs

`LossBounded` says nothing of a receiver that is out of step, the only one that
loses anything. `LossInv` keeps an account for every moment (`Balanced`). Of
all the bytes ever written, with the number the receiver is done with, it has
two sets of places: `A`, where the frames that arrived whole begin, and `H`,
the credits, one at most for each fault that left something like a header on
the line. `Marked` says that the frames of `A` stand whole and apart, and that
every 0xCA 0xFE is the start of one of them, or has a length that is refused
and stands clear of any header whose reading would drop a frame, or has a
credit between it and the last byte it could make the receiver read. `Accounted`
says that the messages sent, with `Swept` for each credit still ahead, are no
more than those delivered, the frames still ahead, and `MaxLoss` for each fault.

A receiver out of step is followed from one read to the next. What it takes for
a frame and is none has a credit in it, so the read of that body uses the
credit up, and drops no more frames than fit in it: `Crowd` counts the frames
that begin in a stretch of bytes by the length of the shortest. What it drops
with a refused length holds no start of a frame, or else a credit; a header
that is not refused holds none (`NoneNear`). What it reads as a frame and is one,
is delivered. A timeout for want of bytes drops no frame while a header is
looked for, and in a body no more than the read it ends. A fault brings
`MaxLoss` with it, one for the frame it strikes and the rest for its credit;
hiss brings neither credit nor header. The receiver never knows that it is out of
step, and the proof never asks how long it takes to be in step again.

What is assumed, beside the module's assumptions:

* `QuietFrames`: within a frame, 0xCA 0xFE is followed by a length that is
  refused. It cannot be dropped: with a message that holds the bytes of a
  header with a short length, TLC finds `LossBounded` violated after one fault, as
  the receiver, out of step, reads such a header in each frame that
  follows. Text holds no 0xFE. Within a varint the byte after 0xFE or the one
  behind it makes the length too large, as does a tag. What is left is a varint
  that ends one byte after 0xCA 0xFE, at the end of a message, with a CRC whose
  low byte is 0, or is 1 if that last byte is 8 or less. Of the times of
  13 June 2029 from 17:31:44 to 22:04:47 UTC, which all hold 0xCA 0xFE 0x06, 128
  of 16,384 are such messages; there the theorem says nothing.
* `QuietFaults`: what a fault leaves holds one header that is not refused at
  most, counting as one those that stand in what reading one of them takes along. A
  fault that leaves several may cost that many times `Swept`.
* A maximal length (264 in the code) below 202 * 256: then no refused length is
  hidden in a length that is not, and a frame cannot begin within a header
  that is not refused.

Nothing is assumed of the CRC but its 16 bits: a frame invented by a collision
would only add to those delivered. TLC checked the invariant on an
instance of the size of the run, and on one with a maximal length of 30, before
it was proved.

### SecilUartProofs

`Timed` says that of each call what has gone by and what `select` is still
given make up no more than the timeout, and that nobody sleeps or waits in
`read` unless a hangup or another thread has led `select` astray: the deadline
is kept although the loop never computes it. `Once` says that the bytes taken
off the UART are consecutive, and that each is in the piece of one call, at
the place its number of bytes so far gives it; how many bytes a call has and
how many it still wants make up what it asked for.

### SecilSchemaProofs

A theorem about operators, not behaviours: `FieldsUnpacked` says that
`load_descriptor_values` gets out of one or two words what `FieldInfo1` or
`FieldInfo2` put into them, for every tag, type, offset and size that passes the
compile-time assertions `PB_FIELDINFO_ASSERT_1` or `_2`: these suffice for the
layout of the words, in which each field is shifted and masked to a place of
its own (`TakenBack`) and the tag of the wide format is cut in two
(`CutAndBack`). `type` has no assertion, but the eight bits of its C type. That
the assertions hold for every field of the catalogue, and of those of the other
firmwares, TLC evaluates in `frame` (`AssertionsAssumption`). The theorem gives
numbers as those of their bits, `Number(Word(n))`; that this is `n` is a sum
over a set, hence induction, and TLC evaluates it up to 16 bits
(`WordAssumption`). The step from one field to the next, through a descriptor
that is a sequence put together field by field, is induction too.

### Only model-checked

* `Convergence`, `Quiescence`, `ProbesDieOut`, `Returns`, `TimesOut`: liveness,
  under fairness, or its violation, is out of the prover's reach.
* `NothingInvented`: with faults, whether a damaged frame passes for another
  depends on collisions of the CRC, so that it does not hold for every `Crc`;
  and the order of what is delivered is computed along the whole history,
  which is induction over data.
* The properties of the codec and of the CRC (`frame`, `strings`): induction
  over data, in modules that use recursive and bitwise operators, which the
  prover does not take. For the same reason the search of the iterator is in
  `SecilCodec`, and not in `SecilSchema`.

## 6. Not modelled

* In `Secil`, `secil_deinit` while the protocol thread is in a call; in
  `SecilThreads` it comes at any moment (section 4). A null callback is taken
  to stop the processor, and a pointer is never seen half written.
* Two threads in `secil_receive_internal`, beyond their calls of `read_uart`:
  they share `state.incomingMessage`, and the documentation promises nothing
  here either.
* Logging and its buffer, `secil_error_string`, `secil_get_remote_version`: no
  change of any other state.
* What the catalogue does not use of nanopb: optional, repeated, pointer,
  callback and extension fields, bytes, zigzag and floating-point types, UTF-8
  validation, proto3 defaults, streams other than buffers, descriptors of four
  or eight words.
* NULL arguments, and what the applications make of the values.
* The examples' menus, terminal settings and start of `socat`; the test
  program, whose cases are instances of `SecilFraming`; the build files.

## 7. Plan

1. Done: `Secil`, `SecilSession`, their runs, `SecilProofs`.
2. Done: `SecilThreads`, `SecilOutbox`, `SecilFraming`, `SecilCrc`.
3. Done: `SecilSchema`, `SecilCodec`, `SecilUart`, the life of the library in
   `SecilThreads`.
4. Done: the proofs of section 5, of every safety property of `Secil`,
   `SecilThreads` and `SecilUart` that a passing run checks, of both refinements, of
   `NoiseHarmless` and `LossBounded`, and of the packed descriptors.
5. Left: what of `NothingInvented` holds if the CRC tells all frames and what
   faults make of them apart.
