---------------------------- MODULE SecilSession ----------------------------
(***************************************************************************)
(* What the startup handshake promises, without a line, a buffer or a      *)
(* call: each end offers to talk in some role at its own version, and its  *)
(* application is only ever told of a connection that the peer did offer.  *)
(* The peer's offer need not be recent: the handshake carries no nonce.    *)
(***************************************************************************)
CONSTANTS Node, Role, Peer(_), Opposite(_), Version, NoVersion

VARIABLES
    session,   \* the role each end is connected in, or "UNINITIALIZED"
    reported,  \* the version of the peer its application was last told of
    version,   \* the version of the firmware it runs
    offers     \* every [mode, version] it has ever offered

vars == <<session, reported, version, offers>>

Init ==
    /\ session  = [n \in Node |-> "UNINITIALIZED"]
    /\ reported = [n \in Node |-> NoVersion]
    /\ version \in [Node -> Version]
    /\ offers   = [n \in Node |-> {}]

Offering(n, m) == [offers EXCEPT ![n] = @ \cup {[mode |-> m, version |-> version[n]]}]

\* n asks for a connection, or acknowledges one it then does not report.
Offer(n, m) ==
    /\ offers' = Offering(n, m)
    /\ UNCHANGED <<session, reported, version>>

\* The application of n is told of a connection, on an offer of the peer that
\* n may have to answer first.
Connect(n, o) ==
    /\ session'  = [session EXCEPT ![n] = Opposite(o.mode)]
    /\ reported' = [reported EXCEPT ![n] = o.version]
    /\ offers' \in {offers, Offering(n, Opposite(o.mode))}
    /\ UNCHANGED version

\* n restarts or shuts down; it may come back with another version.
Forget(n, v) ==
    /\ session'  = [session EXCEPT ![n] = "UNINITIALIZED"]
    /\ reported' = [reported EXCEPT ![n] = NoVersion]
    /\ version'  = [version EXCEPT ![n] = v]
    /\ UNCHANGED offers

Next ==
    \E n \in Node :
        \/ \E m \in Role : Offer(n, m)
        \/ \E o \in offers[Peer(n)] : Connect(n, o)
        \/ \E v \in Version : Forget(n, v)

Spec == Init /\ [][Next]_vars
=============================================================================
