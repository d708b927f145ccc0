---------------------------- MODULE MessageSlicer ----------------------------
(***************************************************************************)
(* The receiving half of a yael connection: the read handler of            *)
(* NetworkSocketListener calls TcpSocket::receive(), which pulls bytes     *)
(* from the kernel into a fixed buffer and has them cut into messages by a *)
(* DatagramMessageSlicer or a StreamMessageSlicer.                         *)
(*                                                                         *)
(* A byte is the pair <<frame, position>>.  The header of a frame is its   *)
(* first HEADER_SIZE bytes and holds the length of the whole frame, header *)
(* included.  One thread reads; close(true), called by a sender from       *)
(* within do_send(), runs in another one, frees the number of the socket,  *)
(* which another file may take at once, and resets the buffer.             *)
(***************************************************************************)
EXTENDS Integers, SequencesExt

CONSTANTS
    Modes,         \* MessageModes of the socket: "Datagram", "Stream"
    HEADER_SIZE,   \* sizeof(msg_len_t)
    MAX_SIZE,      \* buffer_t::MAX_SIZE
    Payloads,      \* payload lengths the peer uses; 0 is an invalid message
    MaxFrames,     \* bound on the frames the peer sends, per mode
    MaxForeign,    \* bound on the bytes read from another file
    Endings,       \* how the connection may end: "eof", "reset", "error"
    SenderCloses   \* the modes in which a failing do_send() races the reader

ASSUME ModeAssumption ==
    Modes \subseteq {"Datagram", "Stream"} /\ SenderCloses \subseteq Modes
ASSUME SizesAssumption ==
    /\ {HEADER_SIZE, MAX_SIZE} \subseteq Nat \ {0}
    /\ Payloads \subseteq Nat
    /\ MaxFrames \in [Modes -> Nat] /\ MaxForeign \in Nat
ASSUME EndingsAssumption == Endings \subseteq {"eof", "reset", "error"}

VARIABLES
    mode,               \* the slicer the socket was constructed with
    sent,               \* lengths of the frames the peer has sent
    taken,              \* bytes of the peer that were put into the buffer
    peer,               \* "open" or how the connection ended
    m_fd,               \* "valid" or "none"
    m_data,             \* what the last recv() put into the buffer
    m_size, m_position, \* of the buffer
    m_current_message,  \* [length, bytes]: header and payload read so far
    m_messages,         \* complete messages
    delivered,          \* history: messages given to on_network_message()
    foreign,            \* history: bytes recv() has read from another file
    rpc,                \* what the reader does next
    cpc                 \* what the closing sender does next

vars == << mode, sent, taken, peer, m_fd, m_data, m_size, m_position,
           m_current_message, m_messages, delivered, foreign, rpc, cpc >>

peerVars == << mode, sent, taken, peer >>
bufferVars == << m_data, m_size, m_position >>
historyVars == << delivered, foreign >>
sliceVars == << m_current_message, m_messages >>

----------------------------------------------------------------------------

\* prepare_message_raw(): the length in the header counts the header.
FrameLength(payload) == payload + HEADER_SIZE

FrameBytes(f) == [i \in 1 .. sent[f] |-> << f, i >>]

\* The bytes the peer has sent.
ByteSeq == FlattenSeq([f \in 1 .. Len(sent) |-> FrameBytes(f)])

Available == Len(ByteSeq) - taken

\* A byte of another file.  data()[p]: outside of what recv() wrote there is no
\* telling what is there.
Junk == << 0, 0 >>
ByteAt(p) == IF p \in 0 .. Len(m_data) - 1 THEN m_data[p + 1] ELSE Junk
BytesAt(p, n) == [i \in 1 .. n |-> ByteAt(p + i - 1)]

\* What the header says: the length of its frame, or anything.
Decode(h) ==
    LET ours == {f \in 1 .. Len(sent) : h = [i \in 1 .. HEADER_SIZE |-> << f, i >>]}
    IN IF ours = {} THEN {FrameLength(p) : p \in Payloads} ELSE {sent[f] : f \in ours}

Lesser(a, b) == IF a <= b THEN a ELSE b

NoMessage == [length |-> 0, bytes |-> << >>]

\* buffer_t::reset()
ResetBuffer ==
    /\ m_size' = 0
    /\ m_position' = -1
    /\ UNCHANGED m_data

\* close(true): if (m_fd > 0), the descriptor is closed and the buffer emptied.
CloseFast ==
    \/ m_fd = "valid" /\ m_fd' = "none" /\ ResetBuffer
    \/ m_fd = "none" /\ UNCHANGED << m_fd, bufferVars >>

\* ::close() has run in a sender: the number is nobody's or another file's.
NumberFreed == cpc # "none"

Goto(label) == rpc' = label

----------------------------------------------------------------------------
(* The read handler.                                                        *)

\* on_read_ready() is called: there is data, or the connection has ended.
OnReadReady ==
    /\ rpc = "idle"
    /\ m_fd = "valid"
    /\ Available > 0 \/ peer # "open"
    /\ Goto("pull")
    /\ UNCHANGED << peerVars, m_fd, bufferVars, sliceVars, historyVars, cpc >>

\* pull_messages(): unprocessed bytes first; receive_data() returns false
\* when the socket is not valid.
PullMessages ==
    /\ rpc = "pull"
    /\ Goto(IF m_size > 0 THEN "header" ELSE IF m_fd = "valid" THEN "load" ELSE "got")
    /\ UNCHANGED << peerVars, m_fd, bufferVars, sliceVars, historyVars, cpc >>

\* m_fd is read once more, for the call of recv().
LoadFd ==
    /\ rpc = "load"
    /\ m_fd = "valid"
    /\ Goto("recv")
    /\ UNCHANGED << peerVars, m_fd, bufferVars, sliceVars, historyVars, cpc >>

\* recv() returns n bytes of the peer.
RecvData(n) ==
    /\ rpc = "recv"
    /\ ~ NumberFreed
    /\ peer \notin {"reset", "error"}
    /\ n \in 1 .. Lesser(Available, MAX_SIZE)
    /\ m_data' = SubSeq(ByteSeq, taken + 1, taken + n)
    /\ Goto("fill")
    /\ UNCHANGED << peerVars, m_fd, m_size, m_position, sliceVars, historyVars, cpc >>

\* The number names another file by now: recv() returns n bytes of that.
RecvForeign(n) ==
    /\ rpc = "recv"
    /\ NumberFreed
    /\ foreign + n <= MaxForeign
    /\ m_data' = [i \in 1 .. n |-> Junk]
    /\ Goto("fill")
    /\ UNCHANGED << peerVars, m_fd, m_size, m_position, sliceVars, historyVars, cpc >>

\* buffer.set_size(x), buffer.set_position(0)
FillBuffer ==
    /\ rpc = "fill"
    /\ m_size' = Len(m_data)
    /\ m_position' = 0
    /\ \/ Head(m_data) # Junk /\ taken' = taken + Len(m_data) /\ UNCHANGED foreign
       \/ Head(m_data) = Junk /\ foreign' = foreign + Len(m_data) /\ UNCHANGED taken
    /\ Goto("header")
    /\ UNCHANGED << mode, sent, peer, m_fd, m_data, sliceVars, delivered, cpc >>

\* EAGAIN
RecvAgain ==
    /\ rpc = "recv"
    /\ NumberFreed \/ (peer = "open" /\ Available = 0)
    /\ Goto("got")
    /\ UNCHANGED << peerVars, m_fd, bufferVars, sliceVars, historyVars, cpc >>

\* Seeded fault: the end of the connection throws like any other error.
EndThrows == "end"

\* receive_data() returns false: receive() has a look at m_messages.
EndReturns == "got"

\* The other side closed the connection, or ECONNRESET: close(true), return
\* false.
RecvEnds ==
    /\ rpc = "recv"
    /\ \/ NumberFreed
       \/ peer = "eof" /\ Available = 0
       \/ peer = "reset"
    /\ CloseFast
    /\ Goto(EndReturns)
    /\ UNCHANGED << peerVars, sliceVars, historyVars, cpc >>

\* Any other error, EBADF included: close(true) and throw out of receive().
RecvFails ==
    /\ \/ rpc = "load" /\ m_fd = "none"
       \/ rpc = "recv" /\ (NumberFreed \/ peer = "error")
    /\ CloseFast
    /\ Goto("end")
    /\ UNCHANGED << peerVars, sliceVars, historyVars, cpc >>

\* Seeded fault: the position advances by a whole header although only a part
\* of it was in the buffer.
WholeHeader(n) == m_position + HEADER_SIZE

\* buffer.position() after n bytes of the header were read.
HeaderPosition(n) == m_position + n

\* Seeded fault: a length without payload is accepted.
LessThanHeader(length) == length < HEADER_SIZE

\* if (length <= HEADER_SIZE) throw
InvalidLength(length) == length <= HEADER_SIZE

\* DatagramMessageSlicer::process_buffer(), the header of the next message.
\* An invalid length throws: the message read so far is dropped, the buffer
\* keeps its position, and pull_messages() goes on.
ReadHeader ==
    LET msg == m_current_message
        n == Lesser(HEADER_SIZE - Len(msg.bytes), m_size - m_position)
        read == msg.bytes \o BytesAt(m_position, n)
    IN /\ rpc = "header"
       /\ mode = "Datagram"
       /\ \/ /\ Len(msg.bytes) >= HEADER_SIZE
             /\ Goto("body")
             /\ UNCHANGED << m_current_message, m_position >>
          \/ /\ Len(msg.bytes) < HEADER_SIZE
             /\ m_position' = HeaderPosition(n)
             /\ \/ /\ Len(read) < HEADER_SIZE
                   /\ m_current_message' = [msg EXCEPT !.bytes = read]
                   /\ Goto("body")
                \/ /\ Len(read) = HEADER_SIZE
                   /\ \E length \in Decode(read) :
                         IF InvalidLength(length)
                         THEN m_current_message' = NoMessage /\ Goto("pull")
                         ELSE /\ m_current_message' = [length |-> length, bytes |-> read]
                              /\ Goto("body")
       /\ UNCHANGED << peerVars, m_fd, m_data, m_size, m_messages, historyVars, cpc >>

\* The payload, as much of it as the buffer has; a complete message is queued.
\* A buffer that was read to its end is reset.
ReadBody ==
    LET msg == m_current_message
        n == IF Len(msg.bytes) < HEADER_SIZE THEN 0
             ELSE Lesser(msg.length - Len(msg.bytes), m_size - m_position)
        read == msg.bytes \o BytesAt(m_position, n)
        full == Len(read) >= HEADER_SIZE /\ Len(read) = msg.length
    IN /\ rpc = "body"
       /\ m_messages' = IF full THEN Append(m_messages, SubSeq(read, HEADER_SIZE + 1, Len(read)))
                                ELSE m_messages
       /\ m_current_message' = IF full THEN NoMessage ELSE [msg EXCEPT !.bytes = read]
       /\ IF m_position + n >= m_size
          THEN ResetBuffer
          ELSE m_position' = m_position + n /\ UNCHANGED << m_data, m_size >>
       /\ Goto("pull")
       /\ UNCHANGED << peerVars, m_fd, historyVars, cpc >>

\* Seeded fault: the buffer is not reset after it became a message.
BufferKept == UNCHANGED bufferVars

\* buffer.reset()
BufferConsumed == ResetBuffer

\* StreamMessageSlicer::process_buffer(): the buffer becomes a message, an
\* empty one if it is reset between is_empty() and size().
SliceStream ==
    /\ rpc = "header"
    /\ mode = "Stream"
    /\ \/ /\ m_size > 0 \/ cpc = "done"
          /\ m_messages' = Append(m_messages, BytesAt(0, m_size))
          /\ BufferConsumed
       \/ /\ m_size = 0
          /\ UNCHANGED << m_messages, bufferVars >>
    /\ Goto("pull")
    /\ UNCHANGED << peerVars, m_fd, m_current_message, historyVars, cpc >>

\* Seeded fault: the handler returns after one message.
HandlerEnds == "end"

\* on_read_ready() loops until receive() returns nothing.
ReceiveAgain == "pull"

\* receive() returns the first message; the handler passes it on and calls
\* receive() again.
OnNetworkMessage ==
    /\ rpc = "got"
    /\ m_messages # << >>
    /\ delivered' = Append(delivered, Head(m_messages))
    /\ m_messages' = Tail(m_messages)
    /\ Goto(ReceiveAgain)
    /\ UNCHANGED << peerVars, m_fd, bufferVars, m_current_message, foreign, cpc >>

ReceiveNothing ==
    /\ rpc = "got"
    /\ m_messages = << >>
    /\ Goto("end")
    /\ UNCHANGED << peerVars, m_fd, bufferVars, sliceVars, historyVars, cpc >>

\* The handler returns; if the socket is closed the user is told so.
HandlerReturn ==
    /\ rpc = "end"
    /\ Goto(IF m_fd = "valid" THEN "idle" ELSE "disconnected")
    /\ UNCHANGED << peerVars, m_fd, bufferVars, sliceVars, historyVars, cpc >>

----------------------------------------------------------------------------
(* close(true) in a sender: ::close(), m_fd = -1, then buffer().reset().    *)

SenderClosesFd ==
    /\ mode \in SenderCloses
    /\ cpc = "none"
    /\ m_fd = "valid"
    /\ cpc' = "closed"
    /\ UNCHANGED << peerVars, m_fd, bufferVars, sliceVars, historyVars, rpc >>

SenderForgetsFd ==
    /\ cpc = "closed"
    /\ m_fd' = "none"
    /\ cpc' = "reset"
    /\ UNCHANGED << peerVars, bufferVars, sliceVars, historyVars, rpc >>

SenderResetsBuffer ==
    /\ cpc = "reset"
    /\ ResetBuffer
    /\ cpc' = "done"
    /\ UNCHANGED << peerVars, m_fd, sliceVars, historyVars, rpc >>

----------------------------------------------------------------------------
(* The peer.                                                                *)

PeerSends(payload) ==
    /\ peer = "open"
    /\ Len(sent) < MaxFrames[mode]
    /\ sent' = Append(sent, FrameLength(payload))
    /\ UNCHANGED << mode, taken, peer, m_fd, bufferVars, sliceVars, historyVars, rpc, cpc >>

PeerEnds(how) ==
    /\ peer = "open"
    /\ peer' = how
    /\ UNCHANGED << mode, sent, taken, m_fd, bufferVars, sliceVars, historyVars, rpc, cpc >>

----------------------------------------------------------------------------

Init ==
    /\ mode \in Modes
    /\ sent = << >>
    /\ taken = 0
    /\ peer = "open"
    /\ m_fd = "valid"
    /\ m_data = << >>
    /\ m_size = 0
    /\ m_position = -1
    /\ m_current_message = NoMessage
    /\ m_messages = << >>
    /\ delivered = << >>
    /\ foreign = 0
    /\ rpc = "idle"
    /\ cpc = "none"

Reader ==
    \/ OnReadReady
    \/ PullMessages
    \/ LoadFd
    \/ \E n \in 1 .. MAX_SIZE : RecvData(n)
    \/ \E n \in 1 .. MAX_SIZE : RecvForeign(n)
    \/ FillBuffer
    \/ RecvAgain
    \/ RecvEnds
    \/ RecvFails
    \/ ReadHeader
    \/ ReadBody
    \/ SliceStream
    \/ OnNetworkMessage
    \/ ReceiveNothing
    \/ HandlerReturn

Next ==
    \/ Reader
    \/ SenderClosesFd
    \/ SenderForgetsFd
    \/ SenderResetsBuffer
    \/ \E payload \in Payloads : PeerSends(payload)
    \/ \E how \in Endings : PeerEnds(how)

\* The event loop reports a readable socket again and again (it is level
\* triggered and re-armed after the handler), and the handler runs on.
Spec == Init /\ [][Next]_vars /\ WF_vars(Reader)

----------------------------------------------------------------------------

\* The type of every variable.
TypeOK ==
    /\ mode \in Modes
    /\ sent \in Seq({FrameLength(p) : p \in Payloads})
    /\ taken \in 0 .. Len(ByteSeq)
    /\ peer \in {"open"} \cup Endings
    /\ m_fd \in {"valid", "none"}
    /\ m_data \in Seq(Nat \X Nat)
    /\ m_size \in 0 .. MAX_SIZE
    /\ m_position \in -1 .. MAX_SIZE
    /\ m_current_message \in [length : Nat, bytes : Seq(Nat \X Nat)]
    /\ m_messages \in Seq(Seq(Nat \X Nat))
    /\ delivered \in Seq(Seq(Nat \X Nat))
    /\ foreign \in Nat
    /\ rpc \in {"idle", "pull", "load", "recv", "fill", "header", "body", "got", "end",
               "disconnected"}
    /\ cpc \in {"none", "closed", "reset", "done"}

\* The bytes of the buffer that were not processed yet.
Unprocessed == IF m_size = 0 THEN << >> ELSE SubSeq(m_data, m_position + 1, m_size)

\* What recv() has put into the buffer: bytes of the peer and, behind them,
\* bytes of a file that took over the number of the closed socket.
Received == SubSeq(ByteSeq, 1, taken) \o [i \in 1 .. foreign |-> Junk]

\* A slicer in Stream mode passes the bytes on in order and without gap, all
\* that were received until another thread, closing the socket, has emptied the
\* buffer.  They are the peer's up to the point where that thread frees the
\* number, and none of the peer's bytes follows a foreign one.
StreamIntact ==
    LET sliced == FlattenSeq(delivered) \o FlattenSeq(m_messages)
    IN mode = "Stream" =>
          /\ IsPrefix(sliced, Received)
          /\ cpc # "done" => sliced \o Unprocessed = Received
          /\ foreign > 0 => NumberFreed

\* The number of the frame whose payload d is, 0 if there is none.
FrameOf(d) ==
    LET Payload(f) == SubSeq(FrameBytes(f), HEADER_SIZE + 1, sent[f])
    IN IF \E f \in 1 .. Len(sent) : d # << >> /\ d = Payload(f)
       THEN CHOOSE f \in 1 .. Len(sent) : d = Payload(f)
       ELSE 0

\* MessageMode::Datagram: "Will ensure messages arrive as whole".
Service == INSTANCE MessageService
              WITH received <- IF mode = "Datagram"
                               THEN [i \in 1 .. Len(delivered) |-> FrameOf(delivered[i])]
                               ELSE << >>
ServiceSpec == Service!Spec

\* "After processing the last message we will notify the user that the socket
\* is closed": no complete message is left behind at on_disconnect(), however
\* the connection ended, but for a failing recv(), which throws past them.
DisconnectAfterLastMessage ==
    rpc = "disconnected" /\ peer # "error" /\ cpc = "none" => m_messages = << >>

\* A message of a peer that does not break the connection is delivered.
MessagesArrive ==
    \A f \in 1 .. MaxFrames["Datagram"] :
        (mode = "Datagram" /\ f <= Len(sent) /\ sent[f] > HEADER_SIZE)
            ~> \/ peer \in {"reset", "error"}
               \/ \E i \in 1 .. Len(delivered) : FrameOf(delivered[i]) = f
=============================================================================
