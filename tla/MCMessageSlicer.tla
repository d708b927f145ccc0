--------------------------- MODULE MCMessageSlicer --------------------------
(* Instances of MessageSlicer for TLC.                                      *)
EXTENDS MessageSlicer

BothModes == {"Datagram", "Stream"}
StreamOnly == {"Stream"}
Frames == [m \in BothModes |-> IF m = "Datagram" THEN 3 ELSE 1]
\* No payload, one byte, and more than fits into the buffer with its header.
ShortPayloads == {0, 1, 3}
AnyEnding == {"eof", "reset", "error"}
=============================================================================
