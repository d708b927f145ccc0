------------------------ MODULE MCTimeEventListener -------------------------
(* Instances of TimeEventListener for TLC.                                  *)
EXTENDS TimeEventListener

CONSTANTS c1, s1, s2, s3

OneCaller == {c1}
ThreeSlots == {s1, s2, s3}
ShortDelays == {0, 1, 2}
BackAndForth == {-1, 1}
Anyone == {Handler, c1}
=============================================================================
