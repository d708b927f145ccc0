------------------------------ MODULE TcpSocket ------------------------------
(***************************************************************************)
(* The sending half and the closing of yael's TcpSocket                    *)
(* (src/src/network/TcpSocket.cpp): send() puts messages into a bounded    *)
(* queue, do_send() moves one at a time into m_current_message and writes  *)
(* it to a non-blocking descriptor, wait_send_queue_empty() waits for      *)
(* room, and close() shuts down or closes the descriptor.                  *)
(*                                                                         *)
(* A step is one critical section of m_send_queue_mutex, one system call,  *)
(* or one access to the atomic m_fd.  close() takes no lock, so its steps  *)
(* interleave with everything.  The descriptor number is modelled together *)
(* with what the kernel has under it: the number may be given to another   *)
(* file as soon as it was closed.                                          *)
(***************************************************************************)
EXTENDS Naturals, Sequences

CONSTANTS
    Senders,        \* threads that call send() and wait_send_queue_empty()
    Workers,        \* workers of the event loop: do_send() on EPOLLOUT
    FastClosers,    \* threads that call close(true): the reader on EOF
    GentleClosers,  \* threads that call close(): close_socket()
    Lengths,        \* message lengths, header included
    MaxMessages,    \* bound on the number of accepted messages
    m_max_send_queue_size,
    NoThread, NoMessage

Threads == Senders \cup Workers \cup FastClosers \cup GentleClosers

ASSUME ThreadsAssumption == NoThread \notin Threads
ASSUME LengthsAssumption == Lengths \subseteq Nat \ {0}
ASSUME BoundsAssumption == MaxMessages \in Nat /\ m_max_send_queue_size \in Nat
ASSUME MessageAssumption == NoMessage \notin [id : Nat, length : Lengths, sent_pos : Nat]

VARIABLES
    m_fd,               \* "valid" or "none" (-1)
    number,             \* what the kernel has under the number m_fd had:
                        \* "ours", "free" or "other" (reused)
    conn,               \* the connection: "up", "shut" or "reset"
    m_state,            \* "Connected", "Shutdown" or "Closed"
    m_send_queue,       \* sequence of [id, length]
    m_send_queue_size,
    m_current_message,  \* [id, length, sent_pos] or NoMessage
    m_send_mutex,       \* its owner
    pc,
    accepted,           \* history: lengths of all queued messages
    wire,               \* history: bytes written to our connection
    foreign,            \* a system call hit somebody else's file
    fatal               \* LOG(FATAL)

vars == << m_fd, number, conn, m_state, m_send_queue, m_send_queue_size,
           m_current_message, m_send_mutex, pc, accepted, wire, foreign, fatal >>

fdVars == << m_fd, number, conn, m_state, foreign, fatal >>
queueVars == << m_send_queue, m_send_queue_size, accepted >>
sendVars == << m_current_message, m_send_mutex, wire >>

is_valid == m_fd = "valid"

Goto(t, label) == pc' = [pc EXCEPT ![t] = label]

\* m_send_queue_cond.notify_all(), by a thread that goes on at label.
NotifyAll(t, label) ==
    pc' = [u \in Threads |-> IF u = t THEN label
                             ELSE IF pc[u] = "waiting" THEN "wait" ELSE pc[u]]

----------------------------------------------------------------------------
(* send()                                                                   *)

\* send(): "Socket is closed" is thrown before the queue is locked.
Send(t) ==
    /\ t \in Senders
    /\ pc[t] = "idle"
    /\ is_valid
    /\ Goto(t, "enqueue")
    /\ UNCHANGED << fdVars, queueVars, sendVars >>

\* Under m_send_queue_mutex: throw send_queue_full, or append the message and
\* return (async) or go on to do_send().
Enqueue(t, length, async) ==
    /\ pc[t] = "enqueue"
    /\ m_send_queue_size < m_max_send_queue_size
    /\ Len(accepted) < MaxMessages
    /\ accepted' = Append(accepted, length)
    /\ m_send_queue' =
          Append(m_send_queue, [id |-> Len(accepted) + 1, length |-> length])
    /\ m_send_queue_size' = m_send_queue_size + length
    /\ Goto(t, IF async THEN "idle" ELSE "dosend")
    /\ UNCHANGED << fdVars, sendVars >>

\* send_queue_full: a blocking sender waits for the queue to drain, another
\* one gives up.  Past the bound on messages the sender gives up as well.
EnqueueFull(t, blocking) ==
    /\ pc[t] = "enqueue"
    /\ \/ m_send_queue_size >= m_max_send_queue_size
       \/ Len(accepted) = MaxMessages /\ ~ blocking
    /\ Goto(t, IF blocking THEN "wait" ELSE "idle")
    /\ UNCHANGED << fdVars, queueVars, sendVars >>

\* wait_send_queue_empty(), the test of its loop.
WaitSendQueueEmpty(t) ==
    /\ pc[t] = "wait"
    /\ Goto(t, IF m_send_queue_size > 0 /\ is_valid THEN "waiting" ELSE "idle")
    /\ UNCHANGED << fdVars, queueVars, sendVars >>

----------------------------------------------------------------------------
(* do_send()                                                                *)

\* The event loop reports that the socket is writable.
OnWriteReady(t) ==
    /\ t \in Workers
    /\ pc[t] = "idle"
    /\ is_valid
    /\ Goto(t, "dosend")
    /\ UNCHANGED << fdVars, queueVars, sendVars >>

DoSend(t) ==
    /\ pc[t] = "dosend"
    /\ m_send_mutex = NoThread
    /\ m_send_mutex' = t
    /\ Goto(t, "pick")
    /\ UNCHANGED << fdVars, queueVars, m_current_message, wire >>

\* do_send() returns or throws: the lock is released.
DoSendReturn(t) ==
    /\ m_send_mutex' = NoThread
    /\ Goto(t, "idle")

\* Seeded fault: the size is not reduced when a message leaves the queue.
SizeKept(m) == m_send_queue_size

\* Seeded fault: the header, which is part of the length, is taken off as well.
SizeWithoutHeader(m) == m_send_queue_size - (m.length + 1)

\* m_send_queue_size -= m_current_message->length
SizeWithout(m) == m_send_queue_size - m.length

\* Take the next message unless one was left unfinished.
PickNext(t) ==
    /\ pc[t] = "pick"
    /\ m_current_message = NoMessage
    /\ m_send_queue # << >>
    /\ LET m == Head(m_send_queue)
       IN /\ m_current_message' = [id |-> m.id, length |-> m.length, sent_pos |-> 0]
          /\ m_send_queue_size' = SizeWithout(m)
    /\ m_send_queue' = Tail(m_send_queue)
    /\ NotifyAll(t, "valid")
    /\ UNCHANGED << fdVars, accepted, m_send_mutex, wire >>

PickUnfinished(t) ==
    /\ pc[t] = "pick"
    /\ m_current_message # NoMessage
    /\ Goto(t, "valid")
    /\ UNCHANGED << fdVars, queueVars, sendVars >>

PickNothing(t) ==
    /\ pc[t] = "pick"
    /\ m_current_message = NoMessage
    /\ m_send_queue = << >>
    /\ DoSendReturn(t)
    /\ UNCHANGED << fdVars, queueVars, m_current_message, wire >>

\* "Socket is closed" is thrown with the message still in m_current_message.
CheckValid(t) ==
    /\ pc[t] = "valid"
    /\ \/ is_valid /\ Goto(t, "load") /\ UNCHANGED m_send_mutex
       \/ ~ is_valid /\ DoSendReturn(t)
    /\ UNCHANGED << fdVars, queueVars, m_current_message, wire >>

\* Every write() loads m_fd anew; write(-1) fails with EBADF: close(true).
LoadFd(t) ==
    /\ pc[t] = "load"
    /\ Goto(t, IF is_valid THEN "write" ELSE "c_fd")
    /\ UNCHANGED << fdVars, queueVars, sendVars >>

\* Seeded fault: sent_pos is not kept, an interrupted message starts over.
Restarted(m, n) == m

\* message.sent_pos += s
Advanced(m, n) == [m EXCEPT !.sent_pos = @ + n]

\* write() takes n bytes of a connection that is up.
WriteSome(t, n) ==
    LET m == m_current_message
    IN /\ pc[t] = "write"
       /\ number = "ours"
       /\ conn = "up"
       /\ n \in 1 .. m.length - m.sent_pos
       /\ wire' = wire \o [i \in 1 .. n |-> << m.id, m.sent_pos + i >>]
       /\ m_current_message' = IF m.sent_pos + n = m.length THEN NoMessage ELSE Advanced(m, n)
       /\ Goto(t, IF m.sent_pos + n = m.length THEN "pick" ELSE "load")
       /\ UNCHANGED << fdVars, queueVars, m_send_mutex >>

\* EAGAIN: the kernel's buffer is full; the rest waits in m_current_message.
WriteAgain(t) ==
    /\ pc[t] = "write"
    /\ number = "ours"
    /\ conn = "up"
    /\ DoSendReturn(t)
    /\ UNCHANGED << fdVars, queueVars, m_current_message, wire >>

\* ECONNRESET, EPIPE, or EBADF on a descriptor that is gone: close(true).
WriteFails(t) ==
    /\ pc[t] = "write"
    /\ \/ number = "ours" /\ conn # "up"
       \/ number = "free"
    /\ Goto(t, "c_fd")
    /\ UNCHANGED << fdVars, queueVars, sendVars >>

\* The number was closed and reused between the load of m_fd and the system
\* call: the rest of the message goes into somebody else's file.
WriteForeign(t) ==
    /\ pc[t] = "write"
    /\ number = "other"
    /\ foreign' = TRUE
    /\ m_current_message' = NoMessage
    /\ Goto(t, "pick")
    /\ UNCHANGED << m_fd, number, conn, m_state, fatal, queueVars,
                    m_send_mutex, wire >>

----------------------------------------------------------------------------
(* close()                                                                  *)

\* close(true) by the reader, or close() on a socket that is not connected.
CloseFast(t) ==
    /\ pc[t] = "idle"
    /\ is_valid
    /\ \/ t \in FastClosers
       \/ t \in GentleClosers /\ m_state # "Connected"
    /\ Goto(t, "c_fd")
    /\ UNCHANGED << fdVars, queueVars, sendVars >>

\* close(): if (m_state == Connected && !fast), without a lock ...
CloseGentle(t) ==
    /\ t \in GentleClosers
    /\ pc[t] = "idle"
    /\ is_valid
    /\ m_state = "Connected"
    /\ Goto(t, "c_state")
    /\ UNCHANGED << fdVars, queueVars, sendVars >>

\* ... m_state = Shutdown
SetShutdown(t) ==
    /\ pc[t] = "c_state"
    /\ m_state' = "Shutdown"
    /\ Goto(t, "c_shut")
    /\ UNCHANGED << m_fd, number, conn, foreign, fatal, queueVars, sendVars >>

\* ::shutdown(m_fd, SHUT_RDWR) succeeds and close() returns false.
Shutdown(t) ==
    /\ pc[t] = "c_shut"
    /\ is_valid /\ number = "ours"
    /\ conn # "reset"
    /\ conn' = "shut"
    /\ Goto(t, "idle")
    /\ UNCHANGED << m_fd, number, m_state, foreign, fatal, queueVars, sendVars >>

\* ENOTCONN: "already closed".  m_fd is dropped without ::close(), and nobody
\* is notified.
ShutdownNotConnected(t) ==
    /\ pc[t] = "c_shut"
    /\ is_valid /\ number = "ours"
    /\ conn = "reset"
    /\ m_fd' = "none"
    /\ m_state' = "Closed"
    /\ Goto(t, "idle")
    /\ UNCHANGED << number, conn, foreign, fatal, queueVars, sendVars >>

\* LOG(FATAL) << "Socket shutdown() failed", or a foreign socket is shut down.
ShutdownFails(t) ==
    LET reused == is_valid /\ number = "other"
    IN /\ pc[t] = "c_shut"
       /\ ~ (is_valid /\ number = "ours")
       /\ \/ fatal' = TRUE /\ UNCHANGED << foreign, pc >>
          \/ reused /\ foreign' = TRUE /\ Goto(t, "idle") /\ UNCHANGED fatal
       /\ UNCHANGED << m_fd, number, conn, m_state, queueVars, sendVars >>

\* Seeded fault: the state is not set to Closed.
ClosedStateKept == m_state

\* m_state = State::Closed
ClosedState == "Closed"

\* if (m_fd > 0) m_state = Closed; otherwise the state has to be Closed.
CloseCheck(t) ==
    /\ pc[t] = "c_fd"
    /\ \/ /\ is_valid
          /\ m_state' = ClosedState
          /\ Goto(t, "c_close")
          /\ UNCHANGED fatal
       \/ /\ ~ is_valid
          /\ fatal' = (m_state # "Closed")
          /\ Goto(t, "c_notify")
          /\ UNCHANGED m_state
    /\ UNCHANGED << m_fd, number, conn, foreign, queueVars, sendVars >>

\* ::close(m_fd)
CloseFd(t) ==
    /\ pc[t] = "c_close"
    /\ number' = IF is_valid THEN "free" ELSE number
    /\ foreign' = (foreign \/ (is_valid /\ number = "other"))
    /\ Goto(t, "c_reset")
    /\ UNCHANGED << m_fd, conn, m_state, fatal, queueVars, sendVars >>

\* m_fd = -1
CloseReset(t) ==
    /\ pc[t] = "c_reset"
    /\ m_fd' = "none"
    /\ Goto(t, "c_notify")
    /\ UNCHANGED << number, conn, m_state, foreign, fatal, queueVars, sendVars >>

\* Seeded fault: close() does not wake waiting senders.
ClosedSilent(t) == Goto(t, "idle")

\* m_send_queue_cond.notify_all()
ClosedNotify(t) == NotifyAll(t, "idle")

\* "threads might wait for send queue to be empty"; do_send() then returns.
CloseNotify(t) ==
    /\ pc[t] = "c_notify"
    /\ ClosedNotify(t)
    /\ m_send_mutex' = IF m_send_mutex = t THEN NoThread ELSE m_send_mutex
    /\ UNCHANGED << fdVars, queueVars, m_current_message, wire >>

----------------------------------------------------------------------------
(* The peer and the kernel.                                                 *)

PeerResets ==
    /\ conn = "up"
    /\ number = "ours"
    /\ conn' = "reset"
    /\ UNCHANGED << m_fd, number, m_state, foreign, fatal, pc, queueVars, sendVars >>

\* Another part of the process opens a file and gets our old number.
NumberReused ==
    /\ number = "free"
    /\ number' = "other"
    /\ UNCHANGED << m_fd, conn, m_state, foreign, fatal, pc, queueVars, sendVars >>

----------------------------------------------------------------------------

Init ==
    /\ m_fd = "valid"
    /\ number = "ours"
    /\ conn = "up"
    /\ m_state = "Connected"
    /\ m_send_queue = << >>
    /\ m_send_queue_size = 0
    /\ m_current_message = NoMessage
    /\ m_send_mutex = NoThread
    /\ pc = [t \in Threads |-> "idle"]
    /\ accepted = << >>
    /\ wire = << >>
    /\ foreign = FALSE
    /\ fatal = FALSE

\* Steps a thread takes by itself once it is inside a call.
ThreadStep(t) ==
    \/ \E length \in Lengths, async \in BOOLEAN : Enqueue(t, length, async)
    \/ \E blocking \in BOOLEAN : EnqueueFull(t, blocking)
    \/ WaitSendQueueEmpty(t)
    \/ PickNext(t)
    \/ PickUnfinished(t)
    \/ PickNothing(t)
    \/ CheckValid(t)
    \/ LoadFd(t)
    \/ WriteFails(t)
    \/ WriteForeign(t)
    \/ SetShutdown(t)
    \/ Shutdown(t)
    \/ ShutdownNotConnected(t)
    \/ ShutdownFails(t)
    \/ CloseCheck(t)
    \/ CloseFd(t)
    \/ CloseReset(t)
    \/ CloseNotify(t)

Write(t) ==
    /\ m_current_message # NoMessage
    /\ \E n \in 1 .. m_current_message.length : WriteSome(t, n)

Next ==
    /\ ~ fatal
    /\ \/ \E t \in Threads :
             \/ Send(t) \/ OnWriteReady(t) \/ CloseFast(t) \/ CloseGentle(t)
             \/ ThreadStep(t)
             \/ DoSend(t)
             \/ Write(t)
             \/ WriteAgain(t)
       \/ PeerResets
       \/ NumberReused

\* Threads inside a call make progress and a free send mutex is taken by one
\* that waits for it; the event loop keeps reporting a writable socket, and a
\* connection that is up takes data again and again.
Fairness ==
    /\ \A t \in Threads : WF_vars(~ fatal /\ ThreadStep(t))
    /\ \A t \in Workers : WF_vars(~ fatal /\ OnWriteReady(t))
    /\ WF_vars(~ fatal /\ \E t \in Threads : DoSend(t))
    /\ SF_vars(~ fatal /\ \E t \in Threads : Write(t))

Spec == Init /\ [][Next]_vars /\ Fairness

----------------------------------------------------------------------------

\* The type of every variable.
TypeOK ==
    /\ m_fd \in {"valid", "none"}
    /\ number \in {"ours", "free", "other"}
    /\ conn \in {"up", "shut", "reset"}
    /\ m_state \in {"Connected", "Shutdown", "Closed"}
    /\ m_send_queue \in Seq([id : Nat, length : Lengths])
    /\ m_send_queue_size \in Nat
    /\ m_current_message \in
          [id : Nat, length : Lengths, sent_pos : Nat] \cup {NoMessage}
    /\ m_send_mutex \in Threads \cup {NoThread}
    /\ pc \in [Threads -> {"idle", "enqueue", "wait", "waiting", "dosend", "pick",
                           "valid", "load", "write", "c_state", "c_shut", "c_fd",
                           "c_close", "c_reset", "c_notify"}]
    /\ accepted \in Seq(Lengths)
    /\ wire \in Seq(Nat \X Nat)
    /\ foreign \in BOOLEAN
    /\ fatal \in BOOLEAN

\* size is the sum of the lengths of the messages in q: behind[i] is the sum
\* for the messages behind the i-th one.
IsSizeOf(size, q) ==
    \E behind \in [0 .. Len(q) -> 0 .. size] :
        /\ behind[0] = size
        /\ behind[Len(q)] = 0
        /\ \A i \in 1 .. Len(q) : behind[i - 1] = behind[i] + q[i].length

\* No accepted byte is lost, repeated or overtaken while the connection lives:
\* what was written, the rest of the current message and the queue together
\* are exactly the accepted messages, for any interleaving of senders,
\* partial writes and EAGAIN; and m_send_queue_size, by which send() refuses
\* messages, is the number of bytes that wait.
NothingLost ==
    LET msg == m_current_message
        next == Len(accepted) - Len(m_send_queue) + 1
        last == next - (IF msg = NoMessage THEN 1 ELSE 2)
    IN /\ IsSizeOf(m_send_queue_size, m_send_queue)
       /\ \A i \in 1 .. Len(m_send_queue) :
             m_send_queue[i] = [id |-> next + i - 1, length |-> accepted[next + i - 1]]
       /\ msg # NoMessage => msg.id = next - 1 /\ msg.length = accepted[next - 1]
       /\ wire # << >> /\ ~ foreign =>
             IF msg # NoMessage /\ msg.sent_pos > 0
             THEN wire[Len(wire)] = << msg.id, msg.sent_pos >>
             ELSE last > 0 /\ wire[Len(wire)] = << last, accepted[last] >>

\* The sending half implements the byte stream of module ByteStream.
Stream == INSTANCE ByteStream
StreamSpec == Stream!Spec

\* A LOG(FATAL) of close() needs a shutdown() by the application: readers and
\* writers that find the connection broken and close it fast, any number of
\* them at once, never meet an "Invalid state".
FatalNeedsShutdown ==
    fatal => m_state = "Shutdown" \/ \E t \in GentleClosers : pc[t] = "c_shut"

\* close() on a connection the peer has reset drops m_fd without closing it.
Dropped == m_fd = "none" /\ number = "ours"

\* A sender in wait_send_queue_empty() is woken up: the queue drains or the
\* socket is closed ("threads might wait for send queue to be empty"), unless
\* close() took the path of ENOTCONN, which wakes nobody.
WaitersWake ==
    \A t \in Senders : pc[t] = "waiting" ~> (pc[t] # "waiting" \/ fatal \/ Dropped)
=============================================================================
