------------------- MODULE MCDelayedNetworkSocketListener -------------------
(* Instances of DelayedNetworkSocketListener for TLC.                       *)
EXTENDS DelayedNetworkSocketListener

CONSTANTS c1, s1, s2

OneCaller == {c1}
OneAndHandler == {c1, Handler}
TwoSlots == {s1, s2}
ZeroOneTwo == {0, 1, 2}
NoSteps == {}
=============================================================================
