---------------------------- MODULE SecilThreads ----------------------------
(***************************************************************************)
(* The threads of one processor inside secil_send, and the one that is in  *)
(* secil_receive (source/secil.c).                                         *)
(*                                                                         *)
(* state.outgoingMessage is one static buffer.  A thread encodes its       *)
(* message into the middle of it, puts the header in front and the footer  *)
(* behind, and hands it to write_callback; nothing guards the buffer.      *)
(* README.md allows an application to send from a thread of its own while  *)
(* another is in secil_receive; but secil_receive sends too, the echo of a *)
(* probe and the ack of a handshake.  Nothing guards the callbacks either: *)
(* a call checks them when it begins and uses them later, and secil_deinit *)
(* takes them away, whoever is in a call.                                  *)
(*                                                                         *)
(* A cell of the buffer stands for the bytes one store of the code covers: *)
(* the header, a piece of the body, or the footer.  A sum is perfect here: *)
(* it is the cells it was computed over.                                   *)
(***************************************************************************)
EXTENDS Naturals, Sequences

CONSTANTS
    Message,     \* messages that may be sent
    Size,        \* Size[m]: cells of the encoded body of m
    Limit,       \* secil_message_size, in cells
    Room,        \* what the output stream can hold, in cells
    Inbound,     \* frames that may come in
    Answer,      \* Answer[f]: what secil_receive sends on f, or NoMessage
    NoMessage,
    Senders,     \* threads that call secil_send_*
    Serial,      \* TRUE iff no send overlaps another, or a secil_init
    Lives,       \* bound: lives of the library, from secil_init to secil_deinit
    Calls        \* bound: calls of secil_send in a behaviour

Receiver == "receiver"
Thread   == {"main", Receiver}

ASSUME SizeAssumption    == Size \in [Message -> 1..Room] /\ Limit \in 1..Room /\ Room \in Nat
ASSUME AnswerAssumption  == Answer \in [Inbound -> Message \cup {NoMessage}]
ASSUME MessageAssumption == NoMessage \notin Message
ASSUME SendersAssumption == Senders \subseteq Thread
ASSUME SerialAssumption  == Serial \in BOOLEAN
ASSUME CallsAssumption   == Calls \in Nat /\ Lives \in Nat

VARIABLES
    callbacks, \* TRUE iff read_callback and write_callback are set
    lives,     \* lives of the library so far
    rpc,       \* where the receiver is in secil_receive, or "idle"
    crashed,   \* TRUE iff a thread has called a callback that is not set
    pc,       \* where each thread is in secil_send, or "idle"
    message,  \* the message it sends, or NoMessage
    pos,      \* cells it has encoded so far: stream.bytes_written
    sum,      \* crc, once it has computed it
    buffer,   \* state.outgoingMessage: header, body and footer cells
    wire,     \* history: what write_callback was given, call by call
    calls     \* calls of secil_send so far

library == <<callbacks, lives, crashed>>
sending == <<pc, message, pos, sum, wire, calls>>
vars == <<library, rpc, sending, buffer>>

Header(n)  == [part |-> "header", length |-> n]
Body(m, i) == [part |-> "body", of |-> m, at |-> i]
Footer(s)  == [part |-> "footer", covers |-> s]
Blank      == [part |-> "blank"]

Init ==
    /\ callbacks = FALSE
    /\ lives   = 0
    /\ rpc     = "idle"
    /\ crashed = FALSE
    /\ pc      = [t \in Thread |-> "idle"]
    /\ message = [t \in Thread |-> NoMessage]
    /\ pos     = [t \in Thread |-> 0]
    /\ sum     = [t \in Thread |-> <<>>]
    /\ buffer  = [i \in 1..(Room + 2) |-> Blank]
    /\ wire    = <<>>
    /\ calls   = 0

----------------------------------------------------------------------------
\* Thread t is at label, and nothing has stopped the processor.
In(t, label) == ~crashed /\ pc[t] = label

(***************************************************************************)
(* The life of the library.  Any thread that is not in a call may start    *)
(* and end it, whatever the other one is doing: the examples end it from   *)
(* main while their receive thread is in secil_receive.                    *)
(***************************************************************************)
secil_io_callbacks_valid == callbacks

Free(t) == In(t, "idle") /\ (t = Receiver => rpc = "idle")

secil_init ==
    /\ \E t \in Thread : Free(t)
    /\ Serial => \A u \in Thread : pc[u] = "idle"
    /\ ~secil_io_callbacks_valid
    /\ lives < Lives
    /\ lives' = lives + 1
    /\ callbacks' = TRUE
    /\ buffer' = [i \in DOMAIN buffer |-> Blank]
    /\ UNCHANGED <<rpc, crashed, sending>>

secil_deinit ==
    /\ \E t \in Thread : Free(t)
    /\ callbacks' = FALSE
    /\ UNCHANGED <<lives, rpc, crashed, sending, buffer>>

(***************************************************************************)
(* secil_receive.  It checks the callbacks before each frame, and calls    *)
(* read_callback several times for one: the header, the bytes it scans     *)
(* for it, the body.                                                       *)
(***************************************************************************)
At(label) == rpc = label /\ In(Receiver, "idle")

ReceiverGoto(label) ==
    /\ rpc' = label
    /\ UNCHANGED <<library, sending, buffer>>

Receive == At("idle") /\ ReceiverGoto("check")

CheckCallbacks ==
    /\ At("check")
    /\ ReceiverGoto(IF secil_io_callbacks_valid THEN "read" ELSE "idle")

secil_read ==
    /\ At("read")
    /\ callbacks
    /\ ReceiverGoto("wait")

\* read_callback returns, and more of the frame is wanted; or the frame asks
\* for nothing and the next is wanted; or the call returns, with a message for
\* the application or an error.
ReadReturns ==
    /\ At("wait")
    /\ \E next \in {"read", "check", "idle"} : ReceiverGoto(next)

----------------------------------------------------------------------------
(***************************************************************************)
(* One call of secil_send.                                                 *)
(***************************************************************************)
Goto(t, label) == pc' = [pc EXCEPT ![t] = label]

\* The cells the sum covers: the header and the body.
CoveredSlip(n) == SubSeq(buffer, 1, n)   \* forgets HEADER_SIZE
Covered(n)     == SubSeq(buffer, 1, n + 1)

\* The cells handed to write_callback.
Handed(n)     == SubSeq(buffer, 1, n + 2)

Begin(t, m) ==
    /\ In(t, "idle")
    /\ secil_io_callbacks_valid
    /\ Serial => \A u \in Thread : pc[u] = "idle"
    /\ calls < Calls
    /\ calls' = calls + 1
    /\ Goto(t, "encode")
    /\ message' = [message EXCEPT ![t] = m]
    /\ pos' = [pos EXCEPT ![t] = 0]
    /\ UNCHANGED <<library, sum, buffer, wire>>

\* pb_encode_ex, one store into the buffer at a time.
Encode(t) ==
    /\ In(t, "encode")
    /\ pos[t] < Size[message[t]]
    /\ pos' = [pos EXCEPT ![t] = @ + 1]
    /\ buffer' = [buffer EXCEPT ![pos[t] + 2] = Body(message[t], pos[t] + 1)]
    /\ UNCHANGED <<library, rpc, pc, message, sum, wire, calls>>

\* The call returns, having handed over the frames in ws.  An answer that could
\* not be sent ends secil_receive, too.
Return(t, ws) ==
    /\ Goto(t, "idle")
    /\ message' = [message EXCEPT ![t] = NoMessage]
    /\ pos' = [pos EXCEPT ![t] = 0]
    /\ sum' = [sum EXCEPT ![t] = <<>>]
    /\ wire' = wire \o ws
    /\ rpc' = IF t # Receiver \/ rpc # "answer" THEN rpc
              ELSE IF ws = <<>> THEN "idle" ELSE "check"
    /\ UNCHANGED <<library, buffer, calls>>

\* SECIL_ERROR_MESSAGE_TOO_LARGE: noticed only when all of it is encoded.
TooLarge(t) ==
    /\ In(t, "encode")
    /\ pos[t] = Size[message[t]]
    /\ pos[t] > Limit
    /\ Return(t, <<>>)

\* secil_write_header
WriteHeader(t) ==
    /\ In(t, "encode")
    /\ pos[t] = Size[message[t]]
    /\ pos[t] <= Limit
    /\ buffer' = [buffer EXCEPT ![1] = Header(pos[t])]
    /\ Goto(t, "sum")
    /\ UNCHANGED <<library, rpc, message, pos, sum, wire, calls>>

\* secil_write_footer: the sum is computed, and then stored.
ComputeSum(t) ==
    /\ In(t, "sum")
    /\ sum' = [sum EXCEPT ![t] = Covered(pos[t])]
    /\ Goto(t, "footer")
    /\ UNCHANGED <<library, rpc, message, pos, buffer, wire, calls>>

WriteFooter(t) ==
    /\ In(t, "footer")
    /\ buffer' = [buffer EXCEPT ![pos[t] + 2] = Footer(sum[t])]
    /\ Goto(t, "write")
    /\ UNCHANGED <<library, rpc, message, pos, sum, wire, calls>>

\* write_callback succeeds, or fails with SECIL_ERROR_WRITE_FAILED.  A single
\* write of the buffer is taken to be atomic, as it is for a terminal.
HandOver(t) ==
    /\ In(t, "write")
    /\ callbacks
    /\ \E ws \in {<<>>, <<Handed(pos[t])>>} : Return(t, ws)

----------------------------------------------------------------------------
\* The application sends; in the receiver, between two calls of secil_receive or
\* from on_connect, which is called before the next frame is asked for.
SendCall(t) ==
    /\ t \in Senders
    /\ t = Receiver => rpc \in {"idle", "check"}
    /\ \E m \in Message : Begin(t, m)
    /\ UNCHANGED rpc

\* secil_receive has read a frame that it answers without returning; it reads
\* the next when the answer is sent.
AnswerFrame ==
    /\ At("wait")
    /\ \E f \in Inbound :
          /\ Answer[f] # NoMessage
          /\ Begin(Receiver, Answer[f])
    /\ rpc' = "answer"

\* A thread calls a callback that is no longer set; the processor stops there.
NullCall ==
    /\ ~callbacks
    /\ At("read") \/ \E t \in Thread : In(t, "write")
    /\ crashed' = TRUE
    /\ UNCHANGED <<callbacks, lives, rpc, sending, buffer>>

Step(t) ==
    \/ SendCall(t)
    \/ Encode(t) \/ TooLarge(t) \/ WriteHeader(t)
    \/ ComputeSum(t) \/ WriteFooter(t) \/ HandOver(t)

Next ==
    \/ secil_init \/ secil_deinit
    \/ Receive \/ CheckCallbacks \/ secil_read \/ ReadReturns \/ AnswerFrame
    \/ NullCall
    \/ \E t \in Thread : Step(t)

Spec == Init /\ [][Next]_vars

----------------------------------------------------------------------------
(***************************************************************************)
(* What the far end makes of a frame, and the properties.                  *)
(***************************************************************************)

\* secil_receive_internal accepts frame s: its length and its sum agree.
Accepted(s) ==
    \E n \in 1..Limit :
        /\ Len(s) = n + 2
        /\ s[1] = Header(n)
        /\ s[n + 2] = Footer(SubSeq(s, 1, n + 1))

\* The cells of s that hold a body are those of m, and all of them.
Holds(s, m) == SubSeq(s, 2, Len(s) - 1) = [i \in 1..Size[m] |-> Body(m, i)]

\* The message the far end gets out of frame s, or NoMessage.
Meaning(s) ==
    IF Accepted(s) /\ \E m \in Message : Holds(s, m)
    THEN CHOOSE m \in Message : Holds(s, m)
    ELSE NoMessage

\* When calls do not overlap, sending implements the outbox: what the far end
\* gets is, message by message and in order, what the calls that did not fail
\* were given, although the buffer is never cleared and still holds pieces of
\* earlier messages, and whenever the library is ended.
Outbox == INSTANCE SecilOutbox WITH
              call <- message,
              line <- [i \in 1..Len(wire) |-> Meaning(wire[i])]
OutboxSpec == Outbox!Spec

\* "it is safe to send from a different thread to the main processing thread":
\* a frame the far end accepts holds one message, as it was given to a call.
NoMixture == \A i \in 1..Len(wire) : Accepted(wire[i]) => Meaning(wire[i]) # NoMessage
=============================================================================
