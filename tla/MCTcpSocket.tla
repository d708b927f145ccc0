---------------------------- MODULE MCTcpSocket -----------------------------
(* An instance of TcpSocket for TLC.                                        *)
EXTENDS TcpSocket

CONSTANTS s1, w1, r1, g1

OneSender == {s1}
OneWorker == {w1}
Reader == {r1}
Gentle == {g1}
ShortMessages == {1, 2}
=============================================================================
