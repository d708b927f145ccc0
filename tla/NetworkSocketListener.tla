------------------------ MODULE NetworkSocketListener ------------------------
(***************************************************************************)
(* A connection as its user sees it (src/src/NetworkSocketListener.cpp):   *)
(* workers of the event loop run on_read_ready() and on_write_ready() for  *)
(* it, callbacks and application threads call send() and close_socket().   *)
(* m_mutex guards the socket, m_send_mutex the order of "send, then choose *)
(* the epoll mode".  Both are plain, non-recursive mutexes.                *)
(*                                                                         *)
(* A step is what a thread does between two lock operations or callbacks.  *)
(* TcpSocket and the slicer are reduced to their results: EventLoop,       *)
(* TcpSocket and MessageSlicer are modules of their own.                   *)
(***************************************************************************)
EXTENDS Naturals, Sequences

CONSTANTS
    Workers,      \* threads of the event loop
    Apps,         \* application threads
    Senders,      \* threads that call send(), a worker from its callback
    Closers,      \* threads that call close_socket(), likewise
    Blocking,     \* the senders that pass blocking = true
    Releasers,    \* threads that call release_socket(), likewise
    DisconnectCalls, \* what on_disconnect() calls on its own listener
    PeerBreaks,   \* may the connection break, so that writes fail?
    MaxQueue,     \* messages at which the send queue is full
    MaxMessages,  \* bound on the messages of the peer
    NoThread

Threads == Workers \cup Apps

ASSUME ThreadsAssumption ==
    /\ Workers \cap Apps = {}
    /\ NoThread \notin Threads
    /\ Senders \subseteq Threads
    /\ Closers \subseteq Threads
    /\ Releasers \subseteq Threads
    /\ Blocking \subseteq Senders
ASSUME CallsAssumption == DisconnectCalls \subseteq {"query", "send"}
ASSUME BoundsAssumption ==
    /\ PeerBreaks \in BOOLEAN
    /\ MaxQueue \in Nat \ {0}
    /\ MaxMessages \in Nat

VARIABLES
    sock,           \* m_socket: "up", "shut" (after shutdown()), "closed" or "null"
    peer,           \* "open", "eof" or "broken"
    arrived,        \* messages the peer has sent ...
    pulled,         \* ... that pull_messages() has sliced ...
    popped,         \* ... and that receive() has returned
    job,            \* worker -> the message it was given
    delivered,      \* history: messages in the order of on_network_message()
    queued,         \* messages in the send queue
    current,        \* 1 if one more is partly written
    more,           \* thread -> has_more
    asleep,         \* threads that wait on m_send_queue_cond
    m_mode,
    entry,          \* epoll: "none", "off" or the mode it is armed with
    in_map,         \* the event loop knows the listener
    m_has_disconnected,
    disconnects,    \* history: calls of on_disconnect()
    m_mutex, m_send_mutex,
    pc,
    cret,           \* thread -> where close_socket() returns to
    event,          \* worker -> the type of the event it handles
    dropped,        \* history: shutdown() failed with ENOTCONN
    crashed         \* a null m_socket was used

vars == << sock, peer, arrived, pulled, popped, job, delivered, queued, current,
           more, asleep, m_mode, entry, in_map, m_has_disconnected,
           disconnects, m_mutex, m_send_mutex, pc, cret, event, dropped,
           crashed >>

inVars == << peer, arrived, pulled, popped, job, delivered >>
outVars == << queued, current, more, asleep, m_mode >>
endVars == << in_map, m_has_disconnected, disconnects, dropped, crashed >>
lockVars == << m_mutex, m_send_mutex >>

----------------------------------------------------------------------------

Goto(t, label) == pc' = [pc EXCEPT ![t] = label]

\* m_socket && m_socket->is_valid()
is_valid == sock \in {"up", "shut"}

\* close_socket() is called and will return to label.
CallClose(t, label) ==
    /\ pc' = [pc EXCEPT ![t] = "c_lock"]
    /\ cret' = [cret EXCEPT ![t] = label]

\* unique_lock goes out of scope or is unlocked.
Release(mutex, t) == IF mutex = t THEN NoThread ELSE mutex

\* set_mode(): nothing to do for the mode that is set already.
SetMode(mode) ==
    /\ m_mode' = mode
    /\ entry' = IF mode = m_mode \/ ~ in_map \/ entry = "none" THEN entry ELSE mode

\* Seeded fault: those who wait for room are not notified.
NotifiesNobody(yes) == UNCHANGED asleep

\* m_send_queue_cond.notify_all(), in do_send() and at the end of close().
Notified(yes) == asleep' = IF yes THEN {} ELSE asleep

\* Seeded fault: the lock is released before the mode is chosen.
DropsLock(t) == NoThread

\* The lock is held until the mode is chosen.
KeepsLock(t) == t

\* TcpSocket::do_send() with total messages to write; it returns to label, or
\* throws: the caller then leaves m_send_mutex to owner and calls
\* close_socket(), which returns to label.  The kernel takes all of it or
\* leaves a rest, the first message of which is then partly written.  Taking a
\* message off the queue wakes those who wait for room, as does close().
DoSend(t, total, label, owner) ==
    \/ /\ total = 0 \/ (sock = "up" /\ peer # "broken")
       /\ \E rest \in 0 .. total :
             /\ queued' = IF rest = 0 THEN 0 ELSE rest - 1
             /\ current' = IF rest = 0 THEN 0 ELSE 1
             /\ more' = [more EXCEPT ![t] = rest > 0]
       /\ Notified(queued' < total - current)
       /\ m_send_mutex' = KeepsLock(t)
       /\ Goto(t, label)
       /\ UNCHANGED << sock, entry, cret >>
    \/ /\ total > 0 /\ ~ (sock = "up" /\ peer # "broken")
       /\ queued' = total - 1
       /\ current' = 1
       /\ more' = [more EXCEPT ![t] = FALSE]
       /\ sock' = "closed"
       /\ entry' = IF is_valid THEN "none" ELSE entry
       /\ Notified(is_valid \/ current = 0)
       /\ \/ is_valid /\ Goto(t, label) /\ UNCHANGED << m_send_mutex, cret >>
          \/ m_send_mutex' = owner /\ CallClose(t, label)

----------------------------------------------------------------------------
(* The worker threads.                                                      *)

\* Seeded fault: the entry is registered without EPOLLONESHOT.
StaysArmed == entry

\* EPOLLONESHOT
DisarmedBy == "off"

\* epoll_wait() reports the socket.  The end of a connection is readable;
\* whether a socket watched for output has room in its buffer is open.
Event(w, type) ==
    LET readable == arrived > pulled \/ peer # "open" \/ sock = "shut"
        writable == entry = "ReadWrite"
    IN /\ pc[w] = "idle"
       /\ w \in Workers
       /\ entry \in {"ReadOnly", "ReadWrite"}
       /\ in_map
       /\ type \in {"Read", "ReadWrite"} => readable
       /\ type = "Write" => ~ readable
       /\ type \in {"Write", "ReadWrite"} => writable
       /\ type = "Error" => peer = "broken"
       /\ entry' = DisarmedBy
       /\ event' = [event EXCEPT ![w] = type]
       /\ IF type = "Error" THEN CallClose(w, "rereg")
          ELSE /\ Goto(w, IF type = "Write" THEN "w_lock" ELSE "r_lock")
               /\ UNCHANGED cret
       /\ UNCHANGED << sock, inVars, outVars, endVars, lockVars >>

\* on_read_ready() locks m_mutex, at first and after every callback.
ReadLock(w) ==
    /\ pc[w] = "r_lock"
    /\ m_mutex = NoThread
    /\ m_mutex' = w
    /\ Goto(w, "r_recv")
    /\ UNCHANGED << sock, inVars, outVars, entry, endVars, m_send_mutex, cret, event >>

\* Seeded fault: nobody is told that the socket was found closed.
ReportsNothing(w) ==
    /\ m_mutex' = NoThread
    /\ Goto(w, "r_end")
    /\ UNCHANGED cret

\* Seeded fault: close_socket() is called with m_mutex held.
ReportsRelocking(w) == CallClose(w, "r_end") /\ UNCHANGED m_mutex

\* close_socket_internal(lock), with the lock held.
ReportsClosed(w) ==
    /\ pc' = [pc EXCEPT ![w] = "ci_test"]
    /\ cret' = [cret EXCEPT ![w] = "r_end"]
    /\ UNCHANGED m_mutex

\* receive(): everything there is to read is sliced, the end of the connection
\* closes the socket, and the first message is returned if there is one.
Receive(w) ==
    LET have == IF is_valid /\ peer # "broken" THEN arrived ELSE pulled
        ends == is_valid /\ (peer # "open" \/ sock = "shut")
    IN /\ pc[w] = "r_recv"
       /\ pulled' = have
       /\ sock' = IF ends THEN "closed" ELSE sock
       /\ entry' = IF ends THEN "none" ELSE entry
       /\ Notified(ends)
       /\ \/ /\ popped < have /\ sock # "null"
             /\ popped' = popped + 1
             /\ job' = [job EXCEPT ![w] = popped + 1]
             /\ m_mutex' = NoThread
             /\ Goto(w, "r_msg")
             /\ UNCHANGED cret
          \/ /\ popped = have \/ sock = "null"
             /\ IF sock' = "closed" THEN ReportsClosed(w)
                ELSE m_mutex' = NoThread /\ Goto(w, "r_end") /\ UNCHANGED cret
             /\ UNCHANGED << popped, job >>
       /\ UNCHANGED << peer, arrived, delivered, queued, current, more, m_mode,
                       endVars, m_send_mutex, event >>

\* on_network_message(), without the lock.
OnNetworkMessage(w) ==
    /\ pc[w] = "r_msg"
    /\ delivered' = Append(delivered, job[w])
    /\ job' = [job EXCEPT ![w] = 0]
    /\ Goto(w, "callback")
    /\ UNCHANGED << sock, peer, arrived, pulled, popped, outVars, entry,
                    endVars, lockVars, cret, event >>

CallbackReturn(w) ==
    /\ pc[w] = "callback"
    /\ Goto(w, "r_lock")
    /\ UNCHANGED << sock, inVars, outVars, entry, endVars, lockVars, cret, event >>

\* thread_loop(): on_write_ready() follows if the event was for both.
ReadEnd(w) ==
    /\ pc[w] = "r_end"
    /\ Goto(w, IF event[w] = "ReadWrite" THEN "w_lock" ELSE "rereg")
    /\ UNCHANGED << sock, inVars, outVars, entry, endVars, lockVars, cret, event >>

WriteLock(w) ==
    /\ pc[w] = "w_lock"
    /\ m_send_mutex = NoThread
    /\ m_send_mutex' = w
    /\ Goto(w, "w_send")
    /\ UNCHANGED << sock, inVars, outVars, entry, endVars, m_mutex, cret, event >>

\* on_write_ready(): a socket_error releases the lock and closes the socket.
OnWriteReady(w) ==
    /\ pc[w] = "w_send" /\ sock # "null"
    /\ DoSend(w, queued + current, "w_valid", NoThread)
    /\ UNCHANGED << inVars, m_mode, endVars, m_mutex, event >>

\* if (!has_more && is_valid()) set_mode(ReadOnly)
WriteDone(w) ==
    /\ pc[w] = "w_valid"
    /\ \/ more[w] /\ UNCHANGED << m_mode, entry >>
       \/ ~ more[w] /\ m_mutex = NoThread
          /\ IF is_valid THEN SetMode("ReadOnly") ELSE UNCHANGED << m_mode, entry >>
    /\ m_send_mutex' = Release(m_send_mutex, w)
    /\ more' = [more EXCEPT ![w] = FALSE]
    /\ Goto(w, "rereg")
    /\ UNCHANGED << sock, inVars, queued, current, asleep, endVars, m_mutex, cret, event >>

\* Seeded fault: the event is handled and the entry stays disabled.
Forgotten == entry

\* notify_listener_mode_change() of a listener that is registered.
Rearmed == IF is_valid /\ in_map /\ entry # "none" THEN m_mode ELSE entry

\* re_register(false), under m_send_mutex.
ReRegister(w) ==
    /\ pc[w] = "rereg" /\ sock # "null"
    /\ m_send_mutex = NoThread
    /\ entry' = Rearmed
    /\ event' = [event EXCEPT ![w] = "none"]
    /\ Goto(w, "idle")
    /\ UNCHANGED << sock, inVars, outVars, endVars, lockVars, cret >>

----------------------------------------------------------------------------
(* send(), called by the application or from a callback.                    *)

\* Threads at a point where the user's code runs.
UserCode(t) == pc[t] = IF t \in Workers THEN "callback" ELSE "idle"

SendReturn(t) ==
    /\ m_send_mutex' = NoThread
    /\ more' = [more EXCEPT ![t] = FALSE]
    /\ Goto(t, IF t \in Workers THEN "callback" ELSE "idle")

CallSend(t) ==
    /\ t \in Senders
    /\ UserCode(t)
    /\ Goto(t, "s_lock")
    /\ UNCHANGED << sock, inVars, outVars, entry, endVars, lockVars, cret, event >>

SendLock(t) ==
    /\ pc[t] = "s_lock"
    /\ m_send_mutex = NoThread
    /\ m_send_mutex' = t
    /\ Goto(t, "s_send")
    /\ UNCHANGED << sock, inVars, outVars, entry, endVars, m_mutex, cret, event >>

\* socket_error, or send_queue_full without blocking: close_socket(), with
\* m_send_mutex held.
SendGivesUp(t) ==
    /\ more' = [more EXCEPT ![t] = FALSE]
    /\ CallClose(t, "s_valid")
    /\ UNCHANGED << sock, entry, queued, current, asleep, m_send_mutex >>

\* send_queue_full
Full == queued = MaxQueue

\* m_socket->send(data, length, async)
Send(t, async) ==
    /\ pc[t] = "s_send" /\ sock # "null"
    /\ \/ sock = "closed" /\ SendGivesUp(t)
       \/ is_valid /\ Full /\ t \notin Blocking /\ SendGivesUp(t)
       \/ /\ is_valid /\ Full /\ t \in Blocking
          /\ m_send_mutex' = NoThread
          /\ Goto(t, "s_wait")
          /\ UNCHANGED << sock, entry, queued, current, more, asleep, cret >>
       \/ /\ is_valid /\ ~ Full /\ async
          /\ queued' = queued + 1
          /\ more' = [more EXCEPT ![t] = TRUE]
          /\ Goto(t, "s_valid")
          /\ UNCHANGED << sock, entry, current, asleep, m_send_mutex, cret >>
       \/ /\ is_valid /\ ~ Full /\ ~ async
          /\ DoSend(t, queued + current + 1, "s_valid", t)
    /\ UNCHANGED << inVars, m_mode, endVars, m_mutex, event >>

\* wait_send_queue_empty(): the condition of its loop is tested at first and
\* whenever the thread was notified, and while it holds the thread sleeps.
SendSleeps(t) ==
    /\ pc[t] = "s_wait" /\ t \notin asleep
    /\ queued > 0 /\ is_valid
    /\ asleep' = asleep \cup {t}
    /\ UNCHANGED << sock, inVars, queued, current, more, m_mode, entry, endVars,
                    lockVars, pc, cret, event >>

\* It does not hold, and send() tries again.
SendWaitEnds(t) ==
    /\ pc[t] = "s_wait" /\ t \notin asleep
    /\ queued = 0 \/ ~ is_valid
    /\ sock # "null"
    /\ Goto(t, "s_lock")
    /\ UNCHANGED << sock, inVars, outVars, entry, endVars, lockVars, cret, event >>

\* After release_socket() the thread still waits on the socket that was moved
\* out, and the new owner's writes and close() decide when that ends.
MovedWaitEnds(t) ==
    /\ pc[t] = "s_wait"
    /\ sock = "null"
    /\ asleep' = asleep \ {t}
    /\ Goto(t, "s_lock")
    /\ UNCHANGED << sock, inVars, queued, current, more, m_mode, entry, endVars,
                    lockVars, cret, event >>

\* if (is_valid()) set_mode(...) else close_socket()
SendDone(t) ==
    /\ pc[t] = "s_valid"
    /\ m_mutex = NoThread
    /\ \/ /\ is_valid
          /\ SetMode(IF more[t] THEN "ReadWrite" ELSE "ReadOnly")
          /\ SendReturn(t)
          /\ UNCHANGED cret
       \/ /\ ~ is_valid
          /\ CallClose(t, "s_end")
          /\ UNCHANGED << m_mode, entry, more, m_send_mutex >>
    /\ UNCHANGED << sock, inVars, queued, current, asleep, endVars, m_mutex, event >>

SendEnd(t) ==
    /\ pc[t] = "s_end"
    /\ SendReturn(t)
    /\ UNCHANGED << sock, inVars, queued, current, asleep, m_mode, entry, endVars,
                    m_mutex, cret, event >>

----------------------------------------------------------------------------
(* close_socket() and close_socket_internal().                              *)

UserCloses(t) ==
    /\ t \in Closers
    /\ UserCode(t)
    /\ CallClose(t, pc[t])
    /\ UNCHANGED << sock, inVars, outVars, entry, endVars, lockVars, event >>

CloseReturn(t) ==
    /\ m_mutex' = Release(m_mutex, t)
    /\ Goto(t, cret[t])
    /\ cret' = [cret EXCEPT ![t] = "idle"]

\* m_socket->close(): a connected socket is shut down and not done yet, unless
\* it is found to be not connected any more; that path leaves the descriptor
\* to nobody and wakes nobody.  The lock is released only if the socket was
\* valid.
CloseSocket(t) ==
    /\ pc[t] = "c_lock"
    /\ m_mutex = NoThread
    /\ \/ /\ ~ is_valid
          /\ m_mutex' = t
          /\ Goto(t, "ci_test")
          /\ UNCHANGED << sock, entry, asleep, dropped, cret >>
       \/ /\ sock = "up" /\ peer # "broken"
          /\ sock' = "shut"
          /\ CloseReturn(t)
          /\ UNCHANGED << entry, asleep, dropped >>
       \/ /\ sock = "up" /\ peer = "broken"
          /\ sock' = "closed"
          /\ dropped' = TRUE
          /\ Goto(t, "ci_test")
          /\ UNCHANGED << entry, asleep, m_mutex, cret >>
       \/ /\ sock = "shut"
          /\ sock' = "closed"
          /\ entry' = "none"
          /\ Notified(TRUE)
          /\ Goto(t, "ci_test")
          /\ UNCHANGED << dropped, m_mutex, cret >>
    /\ UNCHANGED << inVars, queued, current, more, m_mode, in_map, m_has_disconnected,
                    disconnects, crashed, m_send_mutex, event >>

\* if (done && !m_has_disconnected)
DisconnectTest(t) ==
    /\ pc[t] = "ci_test"
    /\ \/ m_has_disconnected /\ CloseReturn(t)
       \/ ~ m_has_disconnected /\ Goto(t, "ci_set") /\ UNCHANGED << m_mutex, cret >>
    /\ UNCHANGED << sock, inVars, outVars, entry, endVars, m_send_mutex, event >>

\* m_has_disconnected = true
DisconnectSet(t) ==
    /\ pc[t] = "ci_set"
    /\ m_has_disconnected' = TRUE
    /\ Goto(t, "ci_call")
    /\ UNCHANGED << sock, inVars, outVars, entry, in_map, disconnects, dropped, crashed,
                    lockVars, cret, event >>

\* on_disconnect() is the user's code.  It runs with the locks that the thread
\* has: m_mutex if the socket was found closed, m_send_mutex inside send().
OnDisconnect(t) ==
    /\ pc[t] = "ci_call"
    /\ disconnects' = disconnects + 1
    /\ \/ Goto(t, "ci_unreg")
       \/ "query" \in DisconnectCalls /\ Goto(t, "d_query")
       \/ "send" \in DisconnectCalls /\ Goto(t, "d_send")
    /\ UNCHANGED << sock, inVars, outVars, entry, in_map, m_has_disconnected, dropped,
                    crashed, lockVars, cret, event >>

\* on_disconnect() calls is_valid(), is_connected() or close_socket(): they lock
\* m_mutex, and have nothing to do for a socket that is closed and reported.
DisconnectQuery(t) ==
    /\ pc[t] = "d_query"
    /\ m_mutex = NoThread
    /\ Goto(t, "ci_unreg")
    /\ UNCHANGED << sock, inVars, outVars, entry, endVars, lockVars, cret, event >>

\* on_disconnect() calls send(), which locks m_send_mutex, ...
DisconnectSend(t) ==
    /\ pc[t] = "d_send"
    /\ m_send_mutex = NoThread
    /\ m_send_mutex' = t
    /\ Goto(t, "d_sent")
    /\ UNCHANGED << sock, inVars, outVars, entry, endVars, m_mutex, cret, event >>

\* ... meets socket_error, and locks m_mutex in close_socket() and is_valid().
DisconnectSent(t) ==
    /\ pc[t] = "d_sent" /\ sock # "null"
    /\ m_mutex = NoThread
    /\ m_send_mutex' = NoThread
    /\ Goto(t, "ci_unreg")
    /\ UNCHANGED << sock, inVars, outVars, entry, endVars, m_mutex, cret, event >>

\* el.unregister_event_listener(shared_from_this())
Unregister(t) ==
    /\ pc[t] = "ci_unreg"
    /\ in_map' = FALSE
    /\ entry' = "none"
    /\ CloseReturn(t)
    /\ UNCHANGED << sock, inVars, outVars, m_has_disconnected, disconnects, dropped,
                    crashed, m_send_mutex, event >>

----------------------------------------------------------------------------
(* release_socket()                                                         *)

\* The socket is moved out and the listener unregistered, under m_mutex.
ReleaseSocket(t) ==
    /\ t \in Releasers
    /\ UserCode(t)
    /\ is_valid
    /\ m_mutex = NoThread
    /\ sock' = "null"
    /\ in_map' = FALSE
    /\ entry' = "none"
    /\ UNCHANGED << inVars, outVars, m_has_disconnected, disconnects, dropped, crashed,
                    lockVars, pc, cret, event >>

\* m_socket->... in send(), on_write_ready() and re_register(), of a listener
\* whose socket was released meanwhile.
NullDereference(t) ==
    /\ sock = "null"
    /\ \/ pc[t] \in {"s_send", "w_send", "d_sent"}
       \/ pc[t] = "s_wait" /\ t \notin asleep
       \/ pc[t] = "rereg" /\ m_send_mutex = NoThread
    /\ crashed' = TRUE
    /\ UNCHANGED << sock, inVars, outVars, entry, in_map, m_has_disconnected, disconnects,
                    dropped, lockVars, pc, cret, event >>

----------------------------------------------------------------------------
(* The peer.                                                                *)

PeerSends ==
    /\ peer = "open"
    /\ arrived < MaxMessages
    /\ arrived' = arrived + 1
    /\ UNCHANGED << sock, peer, pulled, popped, job, delivered, outVars, entry,
                    endVars, lockVars, pc, cret, event >>

PeerEnds(how) ==
    /\ peer \in {"open", "eof"}
    /\ how = "eof" => peer = "open"
    /\ how = "broken" => PeerBreaks
    /\ peer' = how
    /\ UNCHANGED << sock, arrived, pulled, popped, job, delivered, outVars, entry,
                    endVars, lockVars, pc, cret, event >>

----------------------------------------------------------------------------

Init ==
    /\ sock = "up"
    /\ peer = "open"
    /\ arrived = 0 /\ pulled = 0 /\ popped = 0
    /\ job = [w \in Workers |-> 0]
    /\ delivered = << >>
    /\ queued = 0 /\ current = 0
    /\ more = [t \in Threads |-> FALSE]
    /\ m_mode = "ReadOnly"
    /\ entry = "ReadOnly"
    /\ in_map = TRUE
    /\ m_has_disconnected = FALSE
    /\ disconnects = 0
    /\ m_mutex = NoThread
    /\ m_send_mutex = NoThread
    /\ pc = [t \in Threads |-> "idle"]
    /\ cret = [t \in Threads |-> "idle"]
    /\ event = [w \in Workers |-> "none"]
    /\ asleep = {}
    /\ dropped = FALSE
    /\ crashed = FALSE

\* Steps that wait for a lock.
LockStep(t) ==
    \/ ReadLock(t) \/ WriteLock(t) \/ SendLock(t)
    \/ WriteDone(t) \/ ReRegister(t) \/ SendDone(t) \/ CloseSocket(t)
    \/ DisconnectQuery(t) \/ DisconnectSend(t) \/ DisconnectSent(t)

OwnStep(t) ==
    \/ Receive(t) \/ OnNetworkMessage(t) \/ ReadEnd(t) \/ OnWriteReady(t)
    \/ \E async \in BOOLEAN : Send(t, async)
    \/ SendSleeps(t) \/ SendWaitEnds(t) \/ SendEnd(t) \/ NullDereference(t)
    \/ DisconnectTest(t) \/ DisconnectSet(t) \/ OnDisconnect(t) \/ Unregister(t)

EventStep(w) == \E type \in {"Read", "Write", "ReadWrite", "Error"} : Event(w, type)

Next ==
    /\ ~ crashed
    /\ \/ \E t \in Threads : \/ LockStep(t) \/ OwnStep(t)
                             \/ CallSend(t) \/ UserCloses(t) \/ ReleaseSocket(t)
                             \/ MovedWaitEnds(t)
       \/ \E w \in Workers : EventStep(w) \/ CallbackReturn(w)
       \/ PeerSends
       \/ \E how \in {"eof", "broken"} : PeerEnds(how)

\* Threads run and get their locks in the end, callbacks return, epoll reports
\* a socket that stays ready, and a peer that is up goes on reading, so that a
\* do_send() that is called again and again once writes all there is.
Drain(w) == OnWriteReady(w) /\ queued' = 0
Fairness ==
    /\ \A t \in Threads : /\ SF_vars(~ crashed /\ LockStep(t))
                          /\ WF_vars(~ crashed /\ OwnStep(t))
    /\ \A w \in Workers : /\ WF_vars(~ crashed /\ EventStep(w))
                          /\ SF_vars(~ crashed /\ CallbackReturn(w))
                          /\ SF_vars(~ crashed /\ Drain(w))

Spec == Init /\ [][Next]_vars /\ Fairness

----------------------------------------------------------------------------

\* The type of every variable.
TypeOK ==
    /\ sock \in {"up", "shut", "closed", "null"}
    /\ peer \in {"open", "eof", "broken"}
    /\ arrived \in 0 .. MaxMessages
    /\ pulled \in 0 .. arrived
    /\ popped \in 0 .. pulled
    /\ job \in [Workers -> 0 .. MaxMessages]
    /\ delivered \in Seq(1 .. MaxMessages)
    /\ queued \in 0 .. MaxQueue
    /\ current \in {0, 1}
    /\ more \in [Threads -> BOOLEAN]
    /\ m_mode \in {"ReadOnly", "ReadWrite"}
    /\ entry \in {"none", "off", "ReadOnly", "ReadWrite"}
    /\ in_map \in BOOLEAN
    /\ m_has_disconnected \in BOOLEAN
    /\ disconnects \in Nat
    /\ m_mutex \in Threads \cup {NoThread}
    /\ m_send_mutex \in Threads \cup {NoThread}
    /\ pc \in [Threads -> {"idle", "r_lock", "r_recv", "r_msg", "callback", "r_end",
                           "w_lock", "w_send", "w_valid", "rereg", "s_lock", "s_send",
                           "s_wait", "s_valid", "s_end", "c_lock", "ci_test", "ci_set",
                           "ci_call", "d_query", "d_send", "d_sent", "ci_unreg"}]
    /\ cret \in [Threads -> {"idle", "rereg", "callback", "r_end", "w_valid",
                             "s_valid", "s_end"}]
    /\ event \in [Workers -> {"none", "Read", "Write", "ReadWrite", "Error"}]
    /\ asleep \subseteq Threads
    /\ dropped \in BOOLEAN
    /\ crashed \in BOOLEAN

\* "Sends might update the mode (Read or ReadWrite) of the socket. This needs
\* to happen atomically": between two critical sections of m_send_mutex,
\* unsent data of a connection that was not shut down has the listener in mode
\* ReadWrite, and epoll does not wait for input only.
UnsentIsWatched ==
    m_send_mutex = NoThread /\ sock = "up" /\ queued + current > 0
        => m_mode = "ReadWrite" /\ entry # "ReadOnly"

\* ONESHOT: a listener of the event loop that is open and that epoll would not
\* report is in the hands of a worker that will re-register it.
StaysMonitored ==
    in_map /\ is_valid /\ entry \in {"none", "off"}
        => \E w \in Workers : pc[w] # "idle"

\* Messages are passed on in the order of the peer.
InOrder == \A i \in 1 .. Len(delivered) : delivered[i] = i

\* on_disconnect() made a call that takes a lock which its own thread holds:
\* that thread waits forever, and everyone who needs the lock.
SelfWait ==
    \E t \in Threads :
        \/ pc[t] \in {"d_query", "d_send", "d_sent"} /\ m_mutex = t
        \/ pc[t] = "d_send" /\ m_send_mutex = t

\* A thread that holds m_mutex, or that waits for m_mutex with m_send_mutex
\* held, gets on: the two locks are released again, unless an on_disconnect()
\* calls back into its listener with one of them held.
LocksReleased ==
    \A t \in Threads :
        /\ m_mutex = t ~> (m_mutex # t \/ crashed \/ SelfWait)
        /\ m_send_mutex = t ~> (m_send_mutex # t \/ crashed \/ SelfWait)

\* A sender that waits for the queue to drain goes on: Socket.h says that with
\* data left "you need to invoke do_send() when the socket is writable".  Not
\* so after a close() that met ENOTCONN, which notifies nobody, and after
\* release_socket(), when it depends on the socket's new owner.
BlockedSendEnds ==
    \A t \in Threads :
        pc[t] = "s_wait" ~> (pc[t] # "s_wait" \/ crashed \/ dropped \/ sock = "null")

\* A listener whose socket is closed is reported to the user and leaves the
\* event loop before every thread is done with it.
ClosedIsReported ==
    sock = "closed" /\ (\A t \in Threads : pc[t] = "idle")
        => disconnects > 0 /\ ~ in_map

\* "make sure we invoke the callback at most once"
DisconnectAtMostOnce == disconnects <= 1
=============================================================================
