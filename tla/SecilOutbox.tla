---------------------------- MODULE SecilOutbox ----------------------------
(***************************************************************************)
(* What sending promises: a call of secil_send_* puts its message on the   *)
(* line once and whole, or fails and puts nothing there.                   *)
(***************************************************************************)
EXTENDS Sequences

CONSTANTS Thread, Message, NoMessage

VARIABLES
    call,  \* the message each thread is sending, or NoMessage
    line   \* the messages put on the line, oldest first

vars == <<call, line>>

Init ==
    /\ call = [t \in Thread |-> NoMessage]
    /\ line = <<>>

Begin(t) ==
    /\ call[t] = NoMessage
    /\ \E m \in Message : call' = [call EXCEPT ![t] = m]
    /\ UNCHANGED line

Put(t) ==
    /\ call[t] # NoMessage
    /\ line' = Append(line, call[t])
    /\ call' = [call EXCEPT ![t] = NoMessage]

Fail(t) ==
    /\ call[t] # NoMessage
    /\ call' = [call EXCEPT ![t] = NoMessage]
    /\ UNCHANGED line

Next == \E t \in Thread : Begin(t) \/ Put(t) \/ Fail(t)

Spec == Init /\ [][Next]_vars
=============================================================================
