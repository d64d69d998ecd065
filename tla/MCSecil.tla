------------------------------ MODULE MCSecil ------------------------------
(* Instances of Secil for TLC: which roles and probes each end may use.    *)
EXTENDS Secil

CONSTANTS v1, v2, d1, d2

OneVersion  == {v1}
TwoVersions == {v1, v2}
OneString   == {d1}
TwoStrings  == {d1, d2}
NoStrings   == {}

\* The roles of the two examples: the EME is the server, the SE the client.
FixedRoles == [n \in Node |-> IF n = "EME" THEN {"SERVER"} ELSE {"CLIENT"}]
\* Either end may ask for either role, and for none by mistake.
AnyRoles   == [n \in Node |-> Mode]

NoProbes   == [n \in Node |-> {}]
OneProber  == [n \in Node |-> IF n = "EME" THEN Data ELSE {}]
BothProbe  == [n \in Node |-> Data]

NoCodes  == {}
AllCodes == Error

\* Views.  No action reads ret or offers, so a run whose properties do not read
\* them either may identify the states that differ in nothing else.
WithoutRet    == <<pc, asked, probe, mode, remote_version, informed, version,
                   wire, offers, intact, unsettled>>
WithoutOffers == <<pc, asked, probe, mode, remote_version, informed, version,
                   wire, intact, unsettled>>

\* The properties about a line that has lost nothing need no other states.
StillIntact == intact
=============================================================================
