--------------------------- MODULE MessageService ----------------------------
(***************************************************************************)
(* What a connection in MessageMode::Datagram promises its user: the       *)
(* messages of the peer arrive as a whole, in the order they were sent and *)
(* without gap; frames without payload are skipped.                        *)
(***************************************************************************)
EXTENDS Naturals, Sequences

CONSTANTS
    HEADER_SIZE,
    Payloads      \* payload lengths

VARIABLES
    sent,         \* lengths of the frames the peer has sent, header included
    received      \* numbers of the frames handed to the user

\* The number of the last frame the user got.
Last == IF received = << >> THEN 0 ELSE received[Len(received)]

Init == sent = << >> /\ received = << >>

Send ==
    /\ \E payload \in Payloads : sent' = Append(sent, HEADER_SIZE + payload)
    /\ UNCHANGED received

\* The next frame that carries a payload is handed over.
Receive ==
    /\ \E f \in Last + 1 .. Len(sent) :
          /\ sent[f] > HEADER_SIZE
          /\ \A g \in Last + 1 .. f - 1 : sent[g] <= HEADER_SIZE
          /\ received' = Append(received, f)
    /\ UNCHANGED sent

Spec == Init /\ [][Send \/ Receive]_<< sent, received >>
=============================================================================
