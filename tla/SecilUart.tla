----------------------------- MODULE SecilUart -----------------------------
(***************************************************************************)
(* The callbacks of the examples (example/common.c): read_uart, which      *)
(* turns what the driver has, a few bytes at a time, into the exact number *)
(* of bytes the library asks for, within five seconds, and write_uart.     *)
(* The receive thread reads, and so does the menu's loopback test, on the  *)
(* main thread.                                                            *)
(*                                                                         *)
(* Time passes in seconds, and only when nobody has anything to do.        *)
(* select is Linux's, which takes the time it has waited off its timeout.  *)
(***************************************************************************)
EXTENDS Integers, FiniteSets, SequencesExt

CONSTANTS
    Readers,  \* threads that call read_uart
    Wants,    \* what they ask for
    Writes,   \* what the far end writes at a time
    Timeout,  \* 5, in the code
    Hangups,  \* TRUE iff the far end may hang up
    Bytes,    \* bound: bytes written
    Calls     \* bound: calls of read_uart

ASSUME WantsAssumption == Wants \subseteq Nat \ {0} /\ Writes \subseteq Nat \ {0}
ASSUME BoundAssumption == {Timeout, Bytes, Calls} \subseteq Nat /\ Hangups \in BOOLEAN

VARIABLES
    blocking, \* how the UART was opened
    line,     \* bytes in the driver, numbered as they were written
    written,  \* bytes written so far
    hung,     \* TRUE iff the far end has hung up
    pc,       \* "idle", "select", "read" or "asleep"
    want,     \* required_count
    buf,      \* what a call has read so far
    left,     \* its timeout, which select counts down
    elapsed,  \* history: seconds since it began, up to Timeout + 1
    robbed,   \* history: select told it of bytes that another thread took
    done,     \* history: what calls that are over were asked for, got and returned
    calls     \* calls so far

uart == <<blocking, line, written, hung>>
call == <<want, buf, left, elapsed, robbed>>
vars == <<uart, pc, call, done, calls>>

\* initialise_comms_library opens a UART to block,
\* initialise_comms_library_with_psuedo_uarts one that does not.
Init ==
    /\ blocking \in BOOLEAN
    /\ line = <<>> /\ written = 0 /\ hung = FALSE
    /\ pc      = [r \in Readers |-> "idle"]
    /\ want    = [r \in Readers |-> 0]
    /\ buf     = [r \in Readers |-> <<>>]
    /\ left    = [r \in Readers |-> 0]
    /\ elapsed = [r \in Readers |-> 0]
    /\ robbed  = [r \in Readers |-> FALSE]
    /\ done = {} /\ calls = 0

----------------------------------------------------------------------------
(***************************************************************************)
(* The far end.  A write that the driver takes a part of returns false.    *)
(***************************************************************************)
write_uart ==
    /\ ~hung
    /\ \E count \in Writes : \E n \in 1..count :
          /\ written + n <= Bytes
          /\ line' = line \o [i \in 1..n |-> written + i]
          /\ written' = written + n
    /\ UNCHANGED <<blocking, hung, pc, call, done, calls>>

HangUp ==
    /\ Hangups /\ ~hung
    /\ hung' = TRUE
    /\ UNCHANGED <<blocking, line, written, pc, call, done, calls>>

----------------------------------------------------------------------------
(***************************************************************************)
(* read_uart.                                                              *)
(***************************************************************************)
Goto(r, label) == pc' = [pc EXCEPT ![r] = label]

Begin(r) ==
    /\ pc[r] = "idle" /\ calls < Calls
    /\ calls' = calls + 1
    /\ Goto(r, "select")
    /\ \E n \in Wants : want' = [want EXCEPT ![r] = n]
    /\ left' = [left EXCEPT ![r] = Timeout]
    /\ UNCHANGED <<uart, buf, elapsed, robbed, done>>

Readable == line # <<>> \/ hung

Ready(r) ==
    /\ pc[r] = "select" /\ Readable
    /\ Goto(r, "read")
    /\ UNCHANGED <<uart, call, done, calls>>

\* The call is over, with bytes in its buffer.  What a call that fails has
\* read is gone.
Return(r, bytes, ok) ==
    /\ Goto(r, "idle")
    /\ done'    = done \cup {[asked |-> want[r], bytes |-> bytes, ok |-> ok]}
    /\ want'    = [want EXCEPT ![r] = 0]
    /\ buf'     = [buf EXCEPT ![r] = <<>>]
    /\ left'    = [left EXCEPT ![r] = 0]
    /\ elapsed' = [elapsed EXCEPT ![r] = 0]
    /\ robbed'  = [robbed EXCEPT ![r] = FALSE]
    /\ UNCHANGED <<blocking, written, hung, calls>>

\* A select that fails, too, is tried again after a while.
TimedOutSlip(r) ==
    /\ pc[r] = "select" /\ ~Readable /\ left[r] = 0
    /\ Goto(r, "asleep")
    /\ UNCHANGED <<uart, call, done, calls>>

TimedOut(r) ==
    /\ pc[r] = "select" /\ ~Readable /\ left[r] = 0
    /\ Return(r, buf[r], FALSE)
    /\ UNCHANGED line

\* A signal, to select.
Interrupted(r) ==
    /\ pc[r] = "select"
    /\ Return(r, buf[r], FALSE)
    /\ UNCHANGED line

\* The bytes a read may take, and the timeout of the select after it.
RoomSlip(r)    == want[r]             \* asks for as many as at first
Room(r)        == want[r] - Len(buf[r])
RearmedSlip(r) == Timeout             \* sets the timeout inside the loop
Rearmed(r)     == left[r]

\* The driver hands over some of what it has, and the loop goes on or ends.
ReadSome(r) ==
    /\ pc[r] = "read"
    /\ \E n \in 1..Min({Room(r), Len(line)}) :
       LET all == buf[r] \o SubSeq(line, 1, n) IN
       /\ line' = SubSeq(line, n + 1, Len(line))
       /\ \/ /\ Len(all) < want[r]
             /\ Goto(r, "select")
             /\ buf' = [buf EXCEPT ![r] = all]
             /\ left' = [left EXCEPT ![r] = Rearmed(r)]
             /\ UNCHANGED <<blocking, written, hung, want, elapsed, robbed, done, calls>>
          \/ Len(all) >= want[r] /\ Return(r, all, Len(all) = want[r])

\* Another thread has been faster.  A UART that blocks makes this one wait.
ReadNothing(r) ==
    /\ pc[r] = "read" /\ ~Readable /\ ~blocking
    /\ Goto(r, "asleep")
    /\ robbed' = [robbed EXCEPT ![r] = TRUE]
    /\ UNCHANGED <<uart, want, buf, left, elapsed, done, calls>>

\* After a hangup read returns 0, or an error.
ReadHung(r) ==
    /\ pc[r] = "read" /\ line = <<>> /\ hung
    /\ \E label \in {"select", "asleep"} : Goto(r, label)
    /\ UNCHANGED <<uart, call, done, calls>>

Waits(r)   == pc[r] = "select" /\ ~Readable /\ left[r] > 0
Blocked(r) == pc[r] = "read" /\ ~Readable /\ blocking

\* A second passes; a sleep is over.
Tick ==
    /\ \A r \in Readers : pc[r] \in {"idle", "asleep"} \/ Waits(r) \/ Blocked(r)
    /\ \E r \in Readers : pc[r] # "idle"
    /\ pc'   = [r \in Readers |-> IF pc[r] = "asleep" THEN "select" ELSE pc[r]]
    /\ left' = [r \in Readers |-> IF Waits(r) THEN left[r] - 1 ELSE left[r]]
    /\ elapsed' = [r \in Readers |-> IF pc[r] = "idle" THEN 0 ELSE Min({elapsed[r] + 1, Timeout + 1})]
    /\ robbed'  = [r \in Readers |-> robbed[r] \/ Blocked(r)]
    /\ UNCHANGED <<uart, want, buf, done, calls>>

Go(r) == Ready(r) \/ TimedOut(r) \/ ReadSome(r) \/ ReadNothing(r) \/ ReadHung(r)

Next ==
    \/ write_uart \/ HangUp \/ Tick
    \/ \E r \in Readers : Begin(r) \/ Go(r) \/ Interrupted(r)

Spec == Init /\ [][Next]_vars

\* The thread runs, and time passes.
FairSpec == Spec /\ WF_vars(Tick) /\ \A r \in Readers : WF_vars(Go(r))

----------------------------------------------------------------------------
(***************************************************************************)
(* Properties.                                                             *)
(***************************************************************************)
\* Every byte taken off the line is in one place: the buffer of one call, past
\* or under way.  No call is handed more than it asked for, one that succeeds
\* has all of it, and the bytes of each are in the order they were written.
EachByteOnce ==
    LET underway == {[asked |-> want[r], bytes |-> buf[r], ok |-> FALSE] : r \in Readers}
        all      == done \cup {c \in underway : c.bytes # <<>>}
        taken    == written - Len(line)
    IN  /\ \A c \in all : IF c.ok THEN Len(c.bytes) = c.asked ELSE Len(c.bytes) < c.asked
        /\ \A c \in all : \A i, j \in DOMAIN c.bytes : i < j => c.bytes[i] < c.bytes[j]
        /\ \A n \in 1..written :
              Cardinality({c \in all : n \in Range(c.bytes)}) = (IF n <= taken THEN 1 ELSE 0)

\* "5 second timeout": a call lasts no longer, however the bytes trickle in,
\* while the far end is there and no other thread reads what select told this
\* one of.
Punctual == \A r \in Readers : elapsed[r] > Timeout => hung \/ robbed[r]

\* And with the same provisos it comes to an end.
Returns == \A r \in Readers : pc[r] # "idle" ~> pc[r] = "idle" \/ hung \/ robbed[r]

\* "block until the requested number of bytes is available or return false if
\* it cannot read the requested number of bytes": a call of the only reader
\* comes to an end.  It does not when the far end hangs up: select then always
\* reports the UART readable, and read has nothing.
TimesOut == \A r \in Readers : pc[r] # "idle" ~> pc[r] = "idle"
=============================================================================
