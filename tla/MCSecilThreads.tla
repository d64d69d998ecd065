--------------------------- MODULE MCSecilThreads ---------------------------
(* Instances of SecilThreads for TLC.                                      *)
EXTENDS SecilThreads, TLC

CONSTANTS short, long, huge, echo, ack, app, probe, handshake

AllMessages == {short, long, huge, echo, ack}

\* huge is encoded in full before it is found to be over the limit.
AllSizes == short :> 1 @@ long :> 2 @@ huge :> 3 @@ echo :> 2 @@ ack :> 1

AllFrames == {app, probe, handshake}
Answers   == app :> NoMessage @@ probe :> echo @@ handshake :> ack

MainOnly    == {"main"}
BothThreads == Thread
=============================================================================
