------------------------------ MODULE TlsSocket ------------------------------
(***************************************************************************)
(* A TLS connection with yael at both ends (src/src/network/TlsSocket.cpp  *)
(* and TlsContext.cpp): the connection state around Botan's callbacks, the *)
(* locks, the handshake and the two-sided close.  Both ends are in         *)
(* Datagram mode.                                                          *)
(*                                                                         *)
(* Each end has a worker of the event loop that reads, threads that send   *)
(* and wait for the connection, and a thread that closes it.  Records that *)
(* were written and not read yet are in wire; the kernel takes Capacity of *)
(* them.  A step is one record, one critical section or one system call.   *)
(*                                                                         *)
(* Botan is external: four flights of handshake records, the session is    *)
(* established before the channel can send, a channel that was closed      *)
(* refuses to send and still hands on what it is given, and failing to     *)
(* write an alert is not an error.                                         *)
(***************************************************************************)
EXTENDS Naturals, Sequences

CONSTANTS
    Capacity,      \* records the kernel buffers per direction
    HEADER_SIZE,   \* sizeof(uint32_t)
    Payloads,      \* lengths of the messages; 0 is not refused
    Senders,       \* end -> names of its threads that send
    Waiters,       \* ends at which they call wait_connection_established()
    Closers,       \* ends at which close_socket() is called
    MaxMessages,   \* end -> bound on its messages
    NoThread

Ends == {"client", "server"}
Peer(e) == CHOOSE p \in Ends : p # e

Apps == UNION {{<< e, name >> : name \in Senders[e]} : e \in Ends}
Threads == {<< e, name >> : e \in Ends, name \in {"worker", "closer"}} \cup Apps

ASSUME BoundsAssumption ==
    /\ Capacity \in Nat \ {0}
    /\ HEADER_SIZE \in Nat \ {0}
    /\ Payloads \subseteq Nat
    /\ MaxMessages \in [Ends -> Nat]
ASSUME ThreadsAssumption ==
    /\ DOMAIN Senders = Ends
    /\ NoThread \notin Threads
    /\ Waiters \subseteq Ends
    /\ Closers \subseteq Ends

VARIABLES
    m_state,     \* of the TlsSocket
    fd,          \* of the TcpSocket below: "open", "shut" or "closed"
    active,      \* Botan's channel can send
    finished,    \* Botan's channel has sent or received close_notify
    wire,        \* end -> records on their way to it
    m_mutex,     \* of the TlsContext: its owner
    read_mutex,  \* m_mutex of the NetworkSocketListener: its owner
    record,      \* end -> the record its worker is handling
    buffer,      \* end -> the slicer's buffer: "empty" or "filled"
    header,      \* end -> slicer: the message whose header was read, or 0
    delivered,   \* end -> history: messages for its user
    torn,        \* end -> history: its user was given a message of other bytes
    sent,        \* end -> history: lengths its headers announced
    message,     \* thread -> the message it is sending
    alive,       \* end -> no exception has ended the process
    pc

vars == << m_state, fd, active, finished, wire, m_mutex, read_mutex, record,
           buffer, header, delivered, torn, sent, message, alive, pc >>

connVars == << m_state, fd, active, finished >>
slicerVars == << buffer, header, delivered, torn >>
userVars == << sent, message >>

----------------------------------------------------------------------------

Flight(n) == [kind |-> "flight", id |-> n]
Header(id) == [kind |-> "header", id |-> id]
Payload(id) == [kind |-> "payload", id |-> id]
CloseNotify == [kind |-> "close_notify", id |-> 0]

Goto(t, label) == pc' = [pc EXCEPT ![t] = label]

\* A thread that can take a step: its process runs.
At(t, label) == pc[t] = label /\ alive[t[1]]

\* m_cond_var.notify_all(), by a thread that goes on at label.
NotifyAll(t, label) ==
    pc' = [u \in Threads |-> IF u = t THEN label
                             ELSE IF u[1] = t[1] /\ pc[u] = "waiting" THEN "wait"
                             ELSE pc[u]]

\* TcpSocket::close(): a connected socket is shut down, unless shutdown() finds
\* it not connected any more; one that was shut down is closed.
TcpClose(e) ==
    CASE fd[e] = "open" -> {"shut"} \cup (IF fd[Peer(e)] = "open" THEN {} ELSE {"closed"})
      [] OTHER -> {"closed"}

\* close(true), and what else sets the state to Closed.
CloseFast(e) ==
    /\ m_state' = [m_state EXCEPT ![e] = "Closed"]
    /\ fd' = [fd EXCEPT ![e] = "closed"]

\* m_socket.close() after a failed write: in state Connected the close_notify
\* fails like the write did, and close() is called again.
CloseFailed(e) ==
    /\ m_state' = [m_state EXCEPT ![e] = "Closed"]
    /\ \E after \in TcpClose(e) : fd' = [fd EXCEPT ![e] = after]
    /\ finished' = [finished EXCEPT ![e] = @ \/ m_state[e] = "Connected"]

\* TcpSocket::close() resets the slicer's buffer when it has closed the
\* descriptor.  The buffer is empty then, except in a thread that holds neither
\* of the reader's locks: send() after an exception.
AfterClose(t) ==
    IF t \in Apps /\ fd[t[1]] # "closed" /\ fd'[t[1]] = "closed" THEN "reset" ELSE "idle"

\* TlsSocket::close(): a connection is ended by close_notify, anything else at
\* once.
Close(t) ==
    LET e == t[1]
    IN \/ /\ m_state[e] = "Connected"
          /\ m_state' = [m_state EXCEPT ![e] = "Shutdown"]
          /\ Goto(t, "notify")
          /\ UNCHANGED fd
       \/ /\ m_state[e] # "Connected"
          /\ m_state' = [m_state EXCEPT ![e] = "Closed"]
          /\ \E after \in TcpClose(e) : fd' = [fd EXCEPT ![e] = after]
          /\ Goto(t, AfterClose(t))

\* tls_emit_data(): the write() of a record.  EAGAIN tries again at once, with
\* the locks held: the step waits for room.
Emit(e, r) ==
    /\ fd[e] = "open"
    /\ \/ /\ fd[Peer(e)] = "open"
          /\ Len(wire[Peer(e)]) < Capacity
          /\ wire' = [wire EXCEPT ![Peer(e)] = Append(@, r)]
       \/ fd[Peer(e)] # "open" /\ UNCHANGED wire

\* EPIPE: close() and return.
EmitBroken(e) ==
    /\ fd[e] = "shut" \/ (fd[e] = "open" /\ fd[Peer(e)] # "open")
    /\ CloseFailed(e)

\* EBADF: close() and throw.
EmitThrows(e) == fd[e] = "closed" /\ CloseFailed(e)

----------------------------------------------------------------------------
(* wait_connection_established()                                            *)

CallWait(t) ==
    /\ At(t, "idle")
    /\ t[1] \in Waiters
    /\ t \in Apps
    /\ m_state[t[1]] \in {"Unknown", "Setup"}
    /\ Goto(t, "wait")
    /\ UNCHANGED << connVars, wire, m_mutex, read_mutex, record, slicerVars, userVars, alive >>

\* while (!m_socket.is_connected()) m_cond_var.wait(lock)
WaitConnected(t) ==
    /\ At(t, "wait")
    /\ m_mutex[t[1]] = NoThread
    /\ Goto(t, IF m_state[t[1]] = "Connected" THEN "idle" ELSE "waiting")
    /\ UNCHANGED << connVars, wire, m_mutex, read_mutex, record, slicerVars, userVars, alive >>

----------------------------------------------------------------------------
(* send()                                                                   *)

\* if (m_state != State::Connected) return false
CallSend(t) ==
    /\ At(t, "idle")
    /\ t \in Apps
    /\ m_state[t[1]] = "Connected"
    /\ Len(sent[t[1]]) < MaxMessages[t[1]]
    /\ Goto(t, "lock")
    /\ UNCHANGED << connVars, wire, m_mutex, read_mutex, record, slicerVars, userVars, alive >>

\* TlsContext::send() locks m_mutex ...
SendLock(t) ==
    LET e == t[1]
    IN /\ At(t, "lock")
       /\ m_mutex[e] = NoThread
       /\ m_mutex' = [m_mutex EXCEPT ![e] = t]
       /\ Goto(t, "header")
       /\ UNCHANGED << connVars, wire, read_mutex, record, slicerVars, userVars, alive >>

\* m_channel->send(), which writes a record and may find the connection gone.
ChannelSend(t, r) ==
    LET e == t[1]
    IN /\ active[e] /\ ~ finished[e]
       /\ \/ Emit(e, r) /\ UNCHANGED connVars
          \/ EmitBroken(e) /\ UNCHANGED << wire, active >>
       /\ UNCHANGED << read_mutex, record, slicerVars, alive >>

\* Seeded fault: the lock covers one record.
OwnerOfNext(t) == NoThread

\* ... for the header and the data.
OwnerAfterHeader(t) == t

\* The header announces any length.
SendHeader(t, payload) ==
    LET e == t[1]
        id == Len(sent[e]) + 1
    IN /\ At(t, "header")
       /\ ChannelSend(t, Header(id))
       /\ sent' = [sent EXCEPT ![e] = Append(@, HEADER_SIZE + payload)]
       /\ message' = [message EXCEPT ![t] = id]
       /\ m_mutex' = [m_mutex EXCEPT ![e] = OwnerAfterHeader(t)]
       /\ Goto(t, "payload")

\* The channel writes no record for no data.
SendPayload(t) ==
    /\ At(t, "payload")
    /\ IF sent[t[1]][message[t]] > HEADER_SIZE
          THEN ChannelSend(t, Payload(message[t]))
          ELSE UNCHANGED << connVars, wire, read_mutex, record, slicerVars, alive >>
    /\ m_mutex' = [m_mutex EXCEPT ![t[1]] = IF @ = t THEN NoThread ELSE @]
    /\ Goto(t, "idle")
    /\ UNCHANGED userVars

\* The channel refuses, or the write throws: send() catches every exception,
\* without the lock, and closes the socket.
SendThrows(t) ==
    LET e == t[1]
    IN /\ At(t, "header") \/ At(t, "payload")
       /\ \/ ~ (active[e] /\ ~ finished[e]) /\ UNCHANGED << m_state, fd, finished >>
          \/ active[e] /\ ~ finished[e] /\ EmitThrows(e)
       /\ m_mutex' = [m_mutex EXCEPT ![e] = NoThread]
       /\ Goto(t, "catch")
       /\ UNCHANGED << active, wire, read_mutex, record, slicerVars, userVars, alive >>

SendCatch(t) ==
    /\ At(t, "catch")
    /\ Close(t)
    /\ UNCHANGED << active, finished, wire, m_mutex, read_mutex, record, slicerVars,
                    userVars, alive >>

\* m_slicer->buffer().reset(), whatever the reader does.
ResetBuffer(t) ==
    /\ At(t, "reset")
    /\ buffer' = [buffer EXCEPT ![t[1]] = "empty"]
    /\ Goto(t, "idle")
    /\ UNCHANGED << connVars, wire, m_mutex, read_mutex, record, header, delivered, torn,
                    userVars, alive >>

----------------------------------------------------------------------------
(* close_socket()                                                           *)

\* NetworkSocketListener::close_socket(), under its m_mutex.
CloseSocket(t) ==
    LET e == t[1]
    IN /\ At(t, "idle")
       /\ t[2] = "closer"
       /\ e \in Closers
       /\ fd[e] # "closed"
       /\ read_mutex[e] = NoThread
       /\ Close(t)
       /\ read_mutex' = IF m_state[e] = "Connected" THEN [read_mutex EXCEPT ![e] = t]
                                                    ELSE read_mutex
       /\ UNCHANGED << active, finished, wire, m_mutex, record, slicerVars, userVars, alive >>

\* TlsContext::close(): m_channel->close() writes close_notify, without
\* m_mutex and so possibly between the two records of a message.
Notify(t) ==
    LET e == t[1]
    IN /\ At(t, "notify")
       /\ \/ ~ finished[e] /\ Emit(e, CloseNotify) /\ UNCHANGED << m_state, fd >>
             /\ finished' = [finished EXCEPT ![e] = TRUE]
          \/ ~ finished[e] /\ (EmitBroken(e) \/ EmitThrows(e)) /\ UNCHANGED wire
          \/ finished[e] /\ UNCHANGED << m_state, fd, finished, wire >>
       /\ read_mutex' = [read_mutex EXCEPT ![e] = IF @ = t THEN NoThread ELSE @]
       /\ Goto(t, AfterClose(t))
       /\ UNCHANGED << active, m_mutex, record, slicerVars, userVars, alive >>

----------------------------------------------------------------------------
(* The worker: pull_messages() and Botan's callbacks.                       *)

Worker(e) == << e, "worker" >>

\* on_read_ready() locks the listener's m_mutex.
OnReadReady(e) ==
    /\ At(Worker(e), "idle")
    /\ fd[e] # "closed"
    /\ wire[e] # << >> \/ fd[e] = "shut" \/ fd[Peer(e)] # "open"
    /\ read_mutex[e] = NoThread
    /\ read_mutex' = [read_mutex EXCEPT ![e] = Worker(e)]
    /\ Goto(Worker(e), "recv")
    /\ UNCHANGED << connVars, wire, m_mutex, record, slicerVars, userVars, alive >>

\* receive_data() returns a record, which received_data() is given.
ReceiveRecord(e) ==
    /\ At(Worker(e), "recv")
    /\ fd[e] # "closed"
    /\ wire[e] # << >>
    /\ wire' = [wire EXCEPT ![e] = Tail(@)]
    /\ record' = [record EXCEPT ![e] = Head(wire[e])]

Receive(e) ==
    LET r == Head(wire[e])
    IN /\ ReceiveRecord(e)
       /\ r.kind # "close_notify"
       /\ Goto(Worker(e), CASE r.kind = "flight" /\ r.id < 3 -> "flight"
                            [] r.kind = "flight" /\ r.id >= 3 -> "establish"
                            [] OTHER -> "process")
       /\ UNCHANGED << connVars, m_mutex, read_mutex, slicerVars, userVars, alive >>

\* Seeded fault: the state changes and the descriptor stays open.
CloseState(e) == m_state' = [m_state EXCEPT ![e] = "Closed"] /\ UNCHANGED fd

\* m_socket.close(true)
CloseOnAlert(e) == CloseFast(e)

\* tls_alert(): close_notify closes the socket at once.
Alert(e) ==
    /\ ReceiveRecord(e)
    /\ Head(wire[e]).kind = "close_notify"
    /\ CloseOnAlert(e)
    /\ finished' = [finished EXCEPT ![e] = TRUE]
    /\ UNCHANGED << active, m_mutex, read_mutex, slicerVars, userVars, alive, pc >>

\* EAGAIN, or the socket is not valid any more: the handler returns.
ReceiveNothing(e) ==
    /\ At(Worker(e), "recv")
    /\ fd[e] = "closed" \/ (wire[e] = << >> /\ fd[e] = "open" /\ fd[Peer(e)] = "open")
    /\ read_mutex' = [read_mutex EXCEPT ![e] = NoThread]
    /\ Goto(Worker(e), "idle")
    /\ UNCHANGED << connVars, wire, m_mutex, record, slicerVars, userVars, alive >>

\* The end of the stream, or ECONNRESET, which loses what was not read.
ReceiveEnds(e) ==
    /\ At(Worker(e), "recv")
    /\ fd[e] # "closed"
    /\ (wire[e] = << >> /\ fd[e] = "shut") \/ fd[Peer(e)] # "open"
    /\ CloseFast(e)
    /\ wire' = [wire EXCEPT ![e] = << >>]
    /\ UNCHANGED << active, finished, m_mutex, read_mutex, record, slicerVars, userVars,
                    alive, pc >>

\* The next flight of the handshake is written.  The channel of the server can
\* send after its last one.
EmitFlight(e) ==
    /\ At(Worker(e), "flight")
    /\ \/ /\ Emit(e, Flight(record[e].id + 1))
          /\ active' = [active EXCEPT ![e] = record[e].id = 3]
          /\ UNCHANGED << m_state, fd, finished >>
       \/ /\ EmitBroken(e) \/ EmitThrows(e)
          /\ UNCHANGED << active, wire >>
    /\ Goto(Worker(e), "recv")
    /\ UNCHANGED << m_mutex, read_mutex, record, slicerVars, userVars, alive >>

\* Seeded fault: nobody is notified.
EstablishedSilent(w, label) == Goto(w, label)

Established(w, label) == NotifyAll(w, label)

\* tls_session_established(), before the last flight of the server and before
\* the channel is active.
SessionEstablished(e) ==
    /\ At(Worker(e), "establish")
    /\ m_mutex[e] = NoThread
    /\ m_state' = [m_state EXCEPT ![e] = "Connected"]
    /\ Established(Worker(e), IF e = "server" THEN "flight" ELSE "activate")
    /\ UNCHANGED << fd, active, finished, wire, m_mutex, read_mutex, record, slicerVars,
                    userVars, alive >>

Activate(e) ==
    /\ At(Worker(e), "activate")
    /\ active' = [active EXCEPT ![e] = TRUE]
    /\ Goto(Worker(e), "recv")
    /\ UNCHANGED << m_state, fd, finished, wire, m_mutex, read_mutex, record, slicerVars,
                    userVars, alive >>

\* Seeded fault: Botan is called with m_mutex locked, like in send().
ProcessFree(e) == FALSE

\* tls_record_received() locks m_mutex, which tls_process_data() does not hold.
ProcessLocks(e) == m_mutex[e] = NoThread

\* tls_record_received(): the data of one record is put into the buffer ...
RecordReceived(e) ==
    /\ At(Worker(e), "process")
    /\ ProcessLocks(e)
    /\ m_mutex' = [m_mutex EXCEPT ![e] = Worker(e)]
    /\ buffer' = [buffer EXCEPT ![e] = "filled"]
    /\ Goto(Worker(e), "slice")
    /\ UNCHANGED << connVars, wire, read_mutex, record, header, delivered, torn, userVars,
                    alive >>

\* slicer.process_buffer() is done with the record.
ProcessEnds(e) ==
    /\ At(Worker(e), "slice")
    /\ buffer' = [buffer EXCEPT ![e] = "empty"]
    /\ m_mutex' = [m_mutex EXCEPT ![e] = NoThread]
    /\ Goto(Worker(e), "recv")
    /\ UNCHANGED << connVars, wire, read_mutex, record, userVars, alive >>

\* ... and given to the slicer.
ProcessBuffer(e) ==
    LET r == record[e]
        length == sent[Peer(e)][r.id]
    IN /\ ProcessEnds(e)
       /\ \/ /\ header[e] = 0 /\ r.kind = "header" /\ length > HEADER_SIZE
             /\ header' = [header EXCEPT ![e] = r.id]
             /\ UNCHANGED delivered
          \/ /\ header[e] # 0
             /\ delivered' = [delivered EXCEPT ![e] =
                                Append(@, IF r = Payload(header[e]) THEN r.id ELSE 0)]
             /\ header' = [header EXCEPT ![e] = 0]
       /\ UNCHANGED torn

\* The buffer was reset meanwhile, its size to 0 and its position to -1: the
\* record is lost, or the slicer goes on with what is in front of the data.
ProcessReset(e) ==
    /\ ProcessEnds(e)
    /\ buffer[e] = "empty"
    /\ \/ UNCHANGED << header, torn >>
       \/ /\ header[e] # 0
          /\ header' = [header EXCEPT ![e] = 0]
          /\ torn' = [torn EXCEPT ![e] = TRUE]
    /\ UNCHANGED delivered

\* The slicer throws a runtime_error for a length without payload.  Neither
\* Botan nor on_read_ready() keeps it from ending the process.
RecordInvalid(e) ==
    /\ At(Worker(e), "slice")
    /\ header[e] = 0
    /\ \/ buffer[e] = "empty"
       \/ record[e].kind = "header" => sent[Peer(e)][record[e].id] <= HEADER_SIZE
    /\ alive' = [alive EXCEPT ![e] = FALSE]
    /\ fd' = [fd EXCEPT ![e] = "closed"]
    /\ UNCHANGED << m_state, active, finished, wire, m_mutex, read_mutex, record,
                    slicerVars, userVars, pc >>

----------------------------------------------------------------------------

\* The client has connected and its constructor wrote the first flight.
Init ==
    /\ m_state = [e \in Ends |-> IF e = "client" THEN "Unknown" ELSE "Setup"]
    /\ fd = [e \in Ends |-> "open"]
    /\ active = [e \in Ends |-> FALSE]
    /\ finished = [e \in Ends |-> FALSE]
    /\ wire = [e \in Ends |-> IF e = "server" THEN << Flight(1) >> ELSE << >>]
    /\ m_mutex = [e \in Ends |-> NoThread]
    /\ read_mutex = [e \in Ends |-> NoThread]
    /\ record = [e \in Ends |-> Flight(0)]
    /\ buffer = [e \in Ends |-> "empty"]
    /\ header = [e \in Ends |-> 0]
    /\ delivered = [e \in Ends |-> << >>]
    /\ torn = [e \in Ends |-> FALSE]
    /\ sent = [e \in Ends |-> << >>]
    /\ message = [t \in Threads |-> 0]
    /\ alive = [e \in Ends |-> TRUE]
    /\ pc = [t \in Threads |-> "idle"]

ThreadStep(t) ==
    \/ WaitConnected(t)
    \/ SendLock(t)
    \/ \E payload \in Payloads : SendHeader(t, payload)
    \/ SendPayload(t) \/ SendThrows(t) \/ SendCatch(t) \/ Notify(t)
    \/ ResetBuffer(t)

WorkerStep(e) ==
    \/ OnReadReady(e) \/ Receive(e) \/ ReceiveNothing(e) \/ ReceiveEnds(e)
    \/ EmitFlight(e) \/ SessionEstablished(e) \/ Activate(e) \/ Alert(e)
    \/ RecordReceived(e) \/ ProcessBuffer(e) \/ ProcessReset(e) \/ RecordInvalid(e)

Next ==
    \/ \E t \in Threads : CallWait(t) \/ CallSend(t) \/ CloseSocket(t) \/ ThreadStep(t)
    \/ \E e \in Ends : WorkerStep(e)

\* Threads inside a call run on, the workers read what arrives, and the locks
\* are granted in the end.  The bounds leave no cycle of steps, so fairness to
\* all threads together is fairness to each.
Fairness ==
    WF_vars((\E t \in Threads : ThreadStep(t)) \/ (\E e \in Ends : WorkerStep(e)))

Spec == Init /\ [][Next]_vars /\ Fairness

----------------------------------------------------------------------------

\* The type of every variable.
TypeOK ==
    /\ m_state \in [Ends -> {"Unknown", "Setup", "Connected", "Shutdown", "Closed"}]
    /\ fd \in [Ends -> {"open", "shut", "closed"}]
    /\ active \in [Ends -> BOOLEAN]
    /\ finished \in [Ends -> BOOLEAN]
    /\ \A e \in Ends : Len(wire[e]) <= Capacity
    /\ m_mutex \in [Ends -> Threads \cup {NoThread}]
    /\ read_mutex \in [Ends -> Threads \cup {NoThread}]
    /\ buffer \in [Ends -> {"empty", "filled"}]
    /\ header \in [Ends -> Nat]
    /\ delivered \in [Ends -> Seq(Nat)]
    /\ torn \in [Ends -> BOOLEAN]
    /\ sent \in [Ends -> Seq({HEADER_SIZE + p : p \in Payloads})]
    /\ message \in [Threads -> Nat]
    /\ alive \in [Ends -> BOOLEAN]
    /\ pc \in [Threads -> {"idle", "wait", "waiting", "lock", "header", "payload", "catch",
                           "reset", "notify", "recv", "flight", "establish", "activate",
                           "process", "slice"}]

\* In both directions a TLS connection keeps the promise of a connection in
\* Datagram mode: messages arrive whole and in order, although each is two
\* records and threads of one end send and close at the same time.  A send()
\* that fails and closes the socket can tear the message that is read at that
\* moment; nothing is handed over after a torn message.
ToServer == INSTANCE MessageService
               WITH sent <- sent["client"], received <- delivered["server"]
ToClient == INSTANCE MessageService
               WITH sent <- sent["server"], received <- delivered["client"]
TornIsLast == [][\A e \in Ends : torn[e] => UNCHANGED << delivered[e], torn[e] >>]_vars
TlsService == ToServer!Spec /\ ToClient!Spec /\ TornIsLast

\* Both ends wait for room, and neither reads what would make it.
BothFull == \A e \in Ends : Len(wire[e]) = Capacity

\* Steps are bounded, so that what has to happen in the end has happened when
\* no thread takes another step; the next three properties are about that.

\* A thread that waits for the handshake went on when it completed, unless one
\* end was closed before.
WaitsEnd ==
    <>[](\A t \in Apps : pc[t] = "waiting" =>
            \E e \in Ends : m_state[e] \in {"Shutdown", "Closed"} \/ ~ alive[e])

\* close() returns with the connection still up: close_notify has reached the
\* peer, whose worker closed the connection, and our worker has noticed.
CloseEnds ==
    <>[](\A e \in Ends : m_state[e] \in {"Shutdown", "Closed"} =>
            fd[e] = "closed" \/ BothFull)

\* A thread in send() got on, although it waits for room in the kernel with
\* m_mutex locked, which its own end needs to receive data: only when both ends
\* have filled the kernel's buffers, they wait for each other for ever.
SendEnds ==
    <>[](\A t \in Apps : pc[t] \in {"lock", "header", "payload", "catch", "reset"} =>
            ~ alive[t[1]] \/ BothFull)
=============================================================================
