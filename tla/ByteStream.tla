----------------------------- MODULE ByteStream ------------------------------
(***************************************************************************)
(* What the sending half of a TcpSocket promises: the bytes on the wire    *)
(* are the accepted messages, one after the other, each from its first to  *)
(* its last byte, cut off at some point if the connection ends.  A message *)
(* is its length, a byte is the pair <<message number, position>>.         *)
(***************************************************************************)
EXTENDS Naturals, Sequences

CONSTANT Lengths  \* message lengths

VARIABLES
    accepted,  \* lengths of the messages send() took, in order
    wire       \* bytes handed to the kernel

\* The first byte of the stream and the byte that follows u.
FirstByte == << 1, 1 >>
ByteAfter(u) ==
    IF u[2] < accepted[u[1]] THEN << u[1], u[2] + 1 >> ELSE << u[1] + 1, 1 >>

\* w consists of the first bytes of the stream, without gap or repetition.
InOrder(w) ==
    \A i \in 1 .. Len(w) :
        /\ w[i][1] \in 1 .. Len(accepted)
        /\ w[i] = IF i = 1 THEN FirstByte ELSE ByteAfter(w[i - 1])

Init == accepted = << >> /\ wire = << >>

\* send() accepts a message.
Accept ==
    /\ \E length \in Lengths : accepted' = Append(accepted, length)
    /\ UNCHANGED wire

\* Some bytes of the stream are written.
Transfer ==
    /\ Len(wire') > Len(wire)
    /\ SubSeq(wire', 1, Len(wire)) = wire
    /\ InOrder(wire')
    /\ UNCHANGED accepted

Spec == Init /\ [][Accept \/ Transfer]_<< accepted, wire >>
=============================================================================
