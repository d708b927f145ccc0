------------------------------ MODULE EventLoop ------------------------------
(***************************************************************************)
(* The event loop of yael (src/src/EventLoop.cpp): worker threads that     *)
(* share one epoll set and a map from file descriptors to listeners,       *)
(* application threads that register, close and re-arm listeners, and the  *)
(* shutdown protocol that ends every worker through one eventfd semaphore. *)
(*                                                                         *)
(* A step is one critical section of m_event_listeners_mutex, one system   *)
(* call, or one read of the atomic m_okay.  Of a listener the loop sees    *)
(* is_valid(), get_fileno(), release_socket() and close_socket().  The     *)
(* steps of NetworkSocketListener::close_socket_internal() are modelled    *)
(* one by one: the descriptor is closed (or, on a connected socket, shut   *)
(* down first and closed by the next call), m_has_disconnected is tested   *)
(* and set, on_disconnect() runs, and the entry is erased by number.       *)
(* The listener's own mutexes are left out: without them more steps can    *)
(* interleave here than in the code, and NetworkSocketListener is about    *)
(* the waits for them.                                                     *)
(***************************************************************************)
EXTENDS Naturals, FiniteSets

CONSTANTS
    Workers,        \* the threads started by EventLoop::run()
    Callers,        \* application threads outside the event loop
    Listeners,      \* EventListener objects
    Fds,            \* file descriptors the kernel can hand out
    Graceful,       \* listeners whose first close_socket() only shuts down
    FdReuse,        \* a closed descriptor's number is handed out again
    AppCalls,       \* what the application does besides registering
    NoListener,     \* nullptr
    NoFd            \* no descriptor

ASSUME WorkersAssumption == IsFiniteSet(Workers)
ASSUME ThreadsAssumption == Workers \cap Callers = {}
ASSUME ListenersAssumption ==
    /\ NoListener \notin Listeners
    /\ Graceful \subseteq Listeners
ASSUME FdsAssumption == NoFd \notin Fds
ASSUME FlagsAssumption ==
    /\ FdReuse \in BOOLEAN
    /\ AppCalls \subseteq
           {"close", "mode", "send", "release", "wait", "redestroy"}

VARIABLES
    m_instance,         \* does the singleton exist?
    m_okay,             \* the atomic flag is_okay() reads
    m_event_listeners,  \* fd -> listener
    semaphore,          \* the counter of the eventfd m_event_semaphore
    sem_ready,          \* its edge-triggered entry is in epoll's ready list
    interest,           \* fd -> its ONESHOT entry in the epoll set
    life,               \* listener -> state of its socket
    fileno,             \* listener -> m_fileno
    m_has_disconnected, \* listener -> its flag
    loose,              \* descriptors of sockets that release_socket() gave out
    pc,                 \* thread -> what it does next
    arg,                \* thread -> the listener that operation is about
    op,                 \* thread -> EPOLL_CTL_ADD (first_time) or _MOD
    disp,               \* worker -> the listener it is dispatching to
    ev,                 \* worker -> the fd epoll_wait() returned
    closing,            \* thread -> the listener it is disconnecting
    eof,                \* workers whose receive() closed the socket
    silent,             \* listeners that on_write_ready() closed (history)
    erased,             \* listeners whose entry was erased (history)
    in_stop,            \* callers inside stop()
    stop_done,          \* some stop() of this instance has returned
    joined,             \* wait() has returned
    fatal               \* LOG(FATAL), or std::terminate by ~thread

vars == << m_instance, m_okay, m_event_listeners, semaphore, sem_ready,
           interest, life, fileno, m_has_disconnected, loose, pc, arg, op,
           disp, ev, closing, eof, silent, erased, in_stop, stop_done,
           joined, fatal >>

loopVars == << m_instance, m_okay, semaphore, sem_ready, in_stop, stop_done,
               joined, fatal >>

closeVars == << m_has_disconnected, loose, closing, eof, silent, erased >>

Threads == Workers \cup Callers

WorkerPc == {"loop", "poll", "wait", "sem", "pass", "lookup", "handle", "exit"}
CallerPc == {"idle", "stop", "stopping", "joining"}
CallPc == {"close", "reg", "regwait", "valid", "notify", "ctl"}
ClosePc == {"test", "set", "disc", "unreg"}

----------------------------------------------------------------------------
(* The kernel's view of a descriptor.                                       *)

\* The listener has a socket and m_socket->is_valid().
Valid(l) == life[l] \in {"open", "shutdown"}

\* fd refers to an open file.
FdOpen(fd) == fd \in loose \/ \E l \in Listeners : Valid(l) /\ fileno[l] = fd

\* Seeded fault: a worker returns from a call as an application thread does.
ReturnPcCaller(t) == IF t \in in_stop THEN "stopping" ELSE "idle"

\* Where a thread goes when the call it is in returns: a worker back into the
\* handler that made the call, or round the loop after re_register(false).
ReturnPc(t) ==
    IF t \in Workers
    THEN IF disp[t] = NoListener THEN "loop" ELSE "handle"
    ELSE IF t \in in_stop THEN "stopping" ELSE "idle"

\* The call may have been made by an on_disconnect().
CallReturnPc(t) == IF closing[t] = NoListener THEN ReturnPc(t) ELSE "disc"

Goto(t, label) == pc' = [pc EXCEPT ![t] = label]

\* The call ends; its arguments are gone.
Return(t) ==
    /\ pc' = [pc EXCEPT ![t] = CallReturnPc(t)]
    /\ arg' = [arg EXCEPT ![t] = NoListener]
    /\ op' = [op EXCEPT ![t] = "mod"]

Call(t, label, l) ==
    /\ pc' = [pc EXCEPT ![t] = label]
    /\ arg' = [arg EXCEPT ![t] = l]

\* A write to the eventfd: the counter grows and epoll sees a new edge.
increment_semaphore ==
    /\ semaphore' = semaphore + 1
    /\ sem_ready' = TRUE

\* ::close() of l's descriptor, which takes the file out of the epoll set.
CloseFd(l) ==
    /\ Valid(l)
    /\ life' = [life EXCEPT ![l] = "closed"]
    /\ interest' = [interest EXCEPT ![fileno[l]] = "none"]

----------------------------------------------------------------------------
(* Worker threads: thread_loop() and update().                              *)

\* while (this->is_okay())
ThreadLoop(w) ==
    /\ pc[w] = "loop"
    /\ Goto(w, IF m_okay THEN "poll" ELSE "exit")
    /\ UNCHANGED << loopVars, m_event_listeners, interest, life, fileno, arg,
                    op, disp, ev, closeVars >>

\* while (m_okay && nfds < 0) epoll_wait(...); leaving it without an event
\* means the loop was stopped, and the next thread has to be woken.
UpdatePoll(w) ==
    /\ pc[w] = "poll"
    /\ Goto(w, IF m_okay THEN "wait" ELSE "pass")
    /\ UNCHANGED << loopVars, m_event_listeners, interest, life, fileno, arg,
                    op, disp, ev, closeVars >>

\* epoll_wait() fails with EINTR.
EpollInterrupted(w) ==
    /\ pc[w] = "wait"
    /\ Goto(w, "poll")
    /\ UNCHANGED << loopVars, m_event_listeners, interest, life, fileno, arg,
                    op, disp, ev, closeVars >>

\* Seeded fault: the semaphore registered without EPOLLET.
EpollSemaphoreLevel(w) ==
    /\ pc[w] = "wait"
    /\ semaphore > 0
    /\ Goto(w, "sem")
    /\ UNCHANGED << loopVars, m_event_listeners, interest, life, fileno, arg,
                    op, disp, ev, closeVars >>

\* epoll_wait() reports the semaphore; EPOLLET: once per write.
EpollSemaphore(w) ==
    /\ pc[w] = "wait"
    /\ sem_ready
    /\ semaphore > 0
    /\ sem_ready' = FALSE
    /\ Goto(w, "sem")
    /\ UNCHANGED << m_instance, m_okay, semaphore, in_stop, stop_done,
                    joined, fatal, m_event_listeners, interest, life, fileno,
                    arg, op, disp, ev, closeVars >>

\* epoll_wait() reports a socket; EPOLLONESHOT disables the entry.
EpollEvent(w, fd) ==
    /\ pc[w] = "wait"
    /\ interest[fd] = "armed"
    /\ interest' = [interest EXCEPT ![fd] = "off"]
    /\ ev' = [ev EXCEPT ![w] = fd]
    /\ Goto(w, "lookup")
    /\ UNCHANGED << loopVars, m_event_listeners, life, fileno, arg, op, disp,
                    closeVars >>

\* Seeded fault: the worker that took the token ends without passing it on.
DecrementSemaphoreLeaves(w) ==
    /\ pc[w] = "sem"
    /\ semaphore' = semaphore - 1
    /\ Goto(w, IF m_okay THEN "poll" ELSE "exit")
    /\ UNCHANGED << m_instance, m_okay, sem_ready, in_stop, stop_done,
                    joined, fatal, m_event_listeners, interest, life, fileno,
                    arg, op, disp, ev, closeVars >>

\* decrement_semaphore(), fatal when the non-blocking read finds zero.
DecrementSemaphore(w) ==
    /\ pc[w] = "sem"
    /\ fatal' = (semaphore = 0)
    /\ semaphore' = IF semaphore = 0 THEN 0 ELSE semaphore - 1
    /\ Goto(w, IF m_okay THEN "poll" ELSE "pass")
    /\ UNCHANGED << m_instance, m_okay, sem_ready, in_stop, stop_done,
                    joined, m_event_listeners, interest, life, fileno, arg,
                    op, disp, ev, closeVars >>

\* Seeded fault: a woken worker leaves without waking the next one.
PassOnForgotten(w) ==
    /\ pc[w] = "pass"
    /\ Goto(w, "exit")
    /\ UNCHANGED << loopVars, m_event_listeners, interest, life, fileno, arg,
                    op, disp, ev, closeVars >>

\* Event loop was terminated; wake up the next thread and return nullptr.
PassOn(w) ==
    /\ pc[w] = "pass"
    /\ increment_semaphore
    /\ Goto(w, "exit")
    /\ UNCHANGED << m_instance, m_okay, in_stop, stop_done, joined, fatal,
                    m_event_listeners, interest, life, fileno, arg, op, disp,
                    ev, closeVars >>

\* m_event_listeners.find(fd).  An unknown descriptor makes update() return
\* nullptr, which thread_loop() takes as the signal to terminate.
UpdateLookup(w) ==
    LET l == m_event_listeners[ev[w]]
    IN /\ pc[w] = "lookup"
       /\ ev' = [ev EXCEPT ![w] = NoFd]
       /\ disp' = [disp EXCEPT ![w] = l]
       /\ Goto(w, IF l = NoListener THEN "exit" ELSE "handle")
       /\ UNCHANGED << loopVars, m_event_listeners, interest, life, fileno,
                       arg, op, closeVars >>

\* The handler (on_read_ready, on_write_ready, on_error) calls set_mode() on
\* its own listener.
HandleSetMode(w) ==
    /\ "mode" \in AppCalls
    /\ pc[w] = "handle"
    /\ Call(w, "notify", disp[w])
    /\ op' = [op EXCEPT ![w] = "mod"]
    /\ UNCHANGED << loopVars, m_event_listeners, interest, life, fileno,
                    disp, ev, closeVars >>

\* receive() finds the end of the connection or an error and closes the
\* descriptor.  on_read_ready() goes on handing out the messages it has.
HandleEof(w) ==
    /\ pc[w] = "handle"
    /\ CloseFd(disp[w])
    /\ eof' = eof \cup {w}
    /\ UNCHANGED << loopVars, m_event_listeners, fileno, m_has_disconnected,
                    loose, pc, arg, op, disp, ev, closing, silent, erased >>

\* on_read_ready() ends on a socket that was closed, by receive() or another
\* thread: close_socket_internal().
HandleReport(w) ==
    /\ pc[w] = "handle"
    /\ life[disp[w]] = "closed"
    /\ Goto(w, "test")
    /\ closing' = [closing EXCEPT ![w] = disp[w]]
    /\ eof' = eof \ {w}
    /\ UNCHANGED << loopVars, m_event_listeners, interest, life, fileno,
                    m_has_disconnected, loose, arg, op, disp, ev, silent,
                    erased >>

\* do_send() closes the descriptor on EPIPE and returns false: on_write_ready()
\* finds its socket invalid and does nothing more.
HandleWriteCloses(w) ==
    /\ pc[w] = "handle"
    /\ CloseFd(disp[w])
    /\ silent' = silent \cup {disp[w]}
    /\ UNCHANGED << loopVars, m_event_listeners, fileno, m_has_disconnected,
                    loose, pc, arg, op, disp, ev, closing, eof, erased >>

\* The handler (on_error, or a callback) calls close_socket() on its listener.
HandleClose(w) ==
    /\ pc[w] = "handle"
    /\ Call(w, "close", disp[w])
    /\ UNCHANGED << loopVars, m_event_listeners, interest, life, fileno, op,
                    disp, ev, closeVars >>

\* A new listener gets a descriptor the kernel considers free, or the socket
\* another listener released, and is handed to register_event_listener().
NewListener(t, l) ==
    /\ life[l] = "fresh"
    /\ \E fd \in Fds :
          /\ ~ FdOpen(fd) \/ fd \in loose
          /\ FdReuse \/ \A k \in Listeners : fileno[k] # fd
          /\ fileno' = [fileno EXCEPT ![l] = fd]
          /\ loose' = loose \ {fd}
    /\ life' = [life EXCEPT ![l] = "open"]
    /\ Call(t, "reg", l)
    /\ UNCHANGED << loopVars, m_event_listeners, interest, op, disp, ev,
                    m_has_disconnected, closing, eof, silent, erased >>

\* The handler accepts a connection and registers a listener for it.
HandleAccept(w, l) ==
    /\ pc[w] = "handle"
    /\ NewListener(w, l)

\* Seeded fault: the worker goes round the loop without re_register(false).
HandleDoneNoRearm(w) ==
    /\ pc[w] = "handle"
    /\ Goto(w, "loop")
    /\ disp' = [disp EXCEPT ![w] = NoListener]
    /\ UNCHANGED << loopVars, m_event_listeners, interest, life, fileno, ev,
                    arg, op, closeVars >>

\* The handler returns and the worker calls re_register(false); a read handler
\* that saw the end of the connection has reported it before.
HandleDone(w) ==
    /\ pc[w] = "handle"
    /\ w \notin eof
    /\ Call(w, "valid", disp[w])
    /\ op' = [op EXCEPT ![w] = "mod"]
    /\ disp' = [disp EXCEPT ![w] = NoListener]
    /\ UNCHANGED << loopVars, m_event_listeners, interest, life, fileno, ev,
                    closeVars >>

----------------------------------------------------------------------------
(* Calls made by workers and application threads alike.                     *)

\* Seeded fault: the entry of the earlier listener is overwritten.
RegisterOverwrites(t) ==
    /\ pc[t] = "reg"
    /\ m_event_listeners' = [m_event_listeners EXCEPT ![fileno[arg[t]]] = arg[t]]
    /\ op' = [op EXCEPT ![t] = "add"]
    /\ Goto(t, "valid")
    /\ UNCHANGED << loopVars, interest, life, fileno, arg, disp, ev,
                    closeVars >>

\* register_event_listener(): emplace, or wait for the entry of an earlier
\* listener with this descriptor to go away.
RegisterEventListener(t) ==
    LET fd == fileno[arg[t]]
    IN /\ pc[t] = "reg"
       /\ \/ /\ m_event_listeners[fd] = NoListener
             /\ m_event_listeners' = [m_event_listeners EXCEPT ![fd] = arg[t]]
             /\ op' = [op EXCEPT ![t] = "add"]
             /\ Goto(t, "valid")
          \/ /\ m_event_listeners[fd] # NoListener
             /\ Goto(t, "regwait")
             /\ UNCHANGED << m_event_listeners, op >>
       /\ UNCHANGED << loopVars, interest, life, fileno, arg, disp, ev,
                       closeVars >>

\* re_register(first_time): nothing to do for a listener that was closed.  (For
\* a released one the code dereferences a null pointer, NetworkSocketListener's
\* crashed; here the thread goes on.)
ReRegister(t) ==
    /\ pc[t] = "valid"
    /\ \/ ~ Valid(arg[t]) /\ Return(t)
       \/ Valid(arg[t]) /\ Goto(t, "notify") /\ UNCHANGED << arg, op >>
    /\ UNCHANGED << loopVars, m_event_listeners, interest, life, fileno,
                    disp, ev, closeVars >>

\* notify_listener_mode_change(): the entry is looked up by number only.
NotifyListenerModeChange(t) ==
    LET l == m_event_listeners[fileno[arg[t]]]
    IN /\ pc[t] = "notify"
       /\ \/ l = NoListener /\ Return(t)
          \/ l # NoListener /\ Goto(t, "ctl") /\ UNCHANGED << arg, op >>
       /\ UNCHANGED << loopVars, m_event_listeners, interest, life, fileno,
                       disp, ev, closeVars >>

\* register_socket(): EPOLL_CTL_ADD fails on a closed descriptor and on one
\* that is in the set, EPOLL_CTL_MOD on one that is not in the set.
RegisterSocket(t) ==
    LET fd == fileno[arg[t]]
        ok == IF op[t] = "add" THEN FdOpen(fd) /\ interest[fd] = "none"
                          ELSE interest[fd] # "none"
    IN /\ pc[t] = "ctl"
       /\ interest' = IF ok THEN [interest EXCEPT ![fd] = "armed"] ELSE interest
       /\ Return(t)
       /\ UNCHANGED << loopVars, m_event_listeners, life, fileno, disp, ev,
                       closeVars >>

\* Seeded fault: close_socket() does not reach unregister_event_listener().
CloseSocketOnly(t) ==
    LET l == arg[t]
    IN /\ pc[t] = "close"
       /\ life' = [life EXCEPT ![l] = "closed"]
       /\ interest' = [interest EXCEPT ![fileno[l]] = "none"]
       /\ Return(t)
       /\ UNCHANGED << loopVars, m_event_listeners, fileno, disp, ev,
                       closeVars >>

\* close_socket_internal(), up to where the listener's lock is released: a
\* connected socket is only shut down, which ends the call; a socket that is
\* invalid, or was moved out by release_socket(), is as good as closed.
CloseSocket(t) ==
    LET l == arg[t]
    IN /\ pc[t] = "close"
       /\ \/ /\ life[l] = "open" /\ l \in Graceful
             /\ life' = [life EXCEPT ![l] = "shutdown"]
             /\ Return(t)
             /\ UNCHANGED << interest, closing >>
          \/ /\ \/ (life[l] = "open" => l \notin Graceful) /\ CloseFd(l)
                \/ ~ Valid(l) /\ UNCHANGED << life, interest >>
             /\ Goto(t, "test")
             /\ arg' = [arg EXCEPT ![t] = NoListener]
             /\ closing' = [closing EXCEPT ![t] = l]
             /\ UNCHANGED op
       /\ UNCHANGED << loopVars, m_event_listeners, fileno, disp, ev,
                       m_has_disconnected, loose, eof, silent, erased >>

\* if (done && !m_has_disconnected): no lock makes the test and the assignment
\* that follows one step.
TestDisconnected(t) ==
    /\ pc[t] = "test"
    /\ IF m_has_disconnected[closing[t]]
       THEN /\ Goto(t, ReturnPc(t))
            /\ closing' = [closing EXCEPT ![t] = NoListener]
       ELSE Goto(t, "set") /\ UNCHANGED closing
    /\ UNCHANGED << loopVars, m_event_listeners, interest, life, fileno, arg,
                    op, disp, ev, m_has_disconnected, loose, eof, silent,
                    erased >>

\* m_has_disconnected = true, and on to on_disconnect().
SetDisconnected(t) ==
    /\ pc[t] = "set"
    /\ m_has_disconnected' = [m_has_disconnected EXCEPT ![closing[t]] = TRUE]
    /\ Goto(t, "disc")
    /\ UNCHANGED << loopVars, m_event_listeners, interest, life, fileno, arg,
                    op, disp, ev, loose, closing, eof, silent, erased >>

\* on_disconnect() makes a new listener: it reconnects.
DisconnectRegisters(t, l) ==
    /\ pc[t] = "disc"
    /\ NewListener(t, l)

\* on_disconnect() returns.
DisconnectReturns(t) ==
    /\ pc[t] = "disc"
    /\ Goto(t, "unreg")
    /\ UNCHANGED << loopVars, m_event_listeners, interest, life, fileno, arg,
                    op, disp, ev, closeVars >>

\* What erasing the entry of fd does to the map, the epoll set and histories.
EraseEntry(fd) ==
    LET l == m_event_listeners[fd]
    IN /\ m_event_listeners' = [m_event_listeners EXCEPT ![fd] = NoListener]
       /\ interest' = IF l = NoListener THEN interest
                      ELSE [interest EXCEPT ![fd] = "none"]
       /\ erased' = IF l = NoListener THEN erased ELSE erased \cup {l}


\* unregister_event_listener(): erase whatever entry has the listener's number,
\* with EPOLL_CTL_DEL, and wake the threads waiting to register.
UnregisterEventListener(t) ==
    LET fd == fileno[closing[t]]
        woken == IF m_event_listeners[fd] = NoListener THEN {}
                 ELSE {u \in Threads : pc[u] = "regwait"}
    IN /\ pc[t] = "unreg"
       /\ EraseEntry(fd)
       /\ pc' = [u \in Threads |-> IF u = t THEN ReturnPc(t)
                                   ELSE IF u \in woken THEN "reg"
                                   ELSE pc[u]]
       /\ closing' = [closing EXCEPT ![t] = NoListener]
       /\ UNCHANGED << loopVars, life, fileno, arg, op, disp, ev,
                       m_has_disconnected, loose, eof, silent >>

----------------------------------------------------------------------------
(* Application threads.                                                     *)

\* A thread has not returned from registering l yet.
Registering(l) ==
    \E t \in Threads :
        /\ arg[t] = l
        /\ \/ pc[t] \in {"reg", "regwait"}
           \/ pc[t] \in {"valid", "notify", "ctl"} /\ op[t] = "add"

\* The application may call into l: make_event_listener() has returned it.
\* (Constructors that hand out the object before that are left out.)
Known(l) == life[l] # "fresh" /\ ~ Registering(l)

\* make_event_listener(); the application starts no registration once a
\* stop() has returned.
MakeEventListener(c, l) ==
    /\ pc[c] = "idle"
    /\ m_instance
    /\ ~ stop_done
    /\ NewListener(c, l)

\* The application closes a listener.
CallClose(c, l) ==
    /\ "close" \in AppCalls
    /\ pc[c] = "idle"
    /\ m_instance
    /\ Known(l)
    /\ Call(c, "close", l)
    /\ UNCHANGED << loopVars, m_event_listeners, interest, life, fileno, op,
                    disp, ev, closeVars >>

\* The application sends on a listener and set_mode() changes its mode.
CallSetMode(c, l) ==
    /\ "mode" \in AppCalls
    /\ pc[c] = "idle"
    /\ m_instance
    /\ Known(l)
    /\ Valid(l)
    /\ Call(c, "notify", l)
    /\ op' = [op EXCEPT ![c] = "mod"]
    /\ UNCHANGED << loopVars, m_event_listeners, interest, life, fileno,
                    disp, ev, closeVars >>

\* The application's send() meets EPIPE in do_send(), which closes the
\* descriptor; send() then finds it invalid and calls close_socket().
CallSendCloses(c, l) ==
    /\ "send" \in AppCalls
    /\ pc[c] = "idle"
    /\ m_instance
    /\ Known(l)
    /\ CloseFd(l)
    /\ Call(c, "close", l)
    /\ UNCHANGED << loopVars, m_event_listeners, fileno, op, disp, ev,
                    closeVars >>

\* release_socket() moves an open socket out and erases the entry.
ReleaseSocket(c, l) ==
    /\ "release" \in AppCalls
    /\ pc[c] = "idle"
    /\ m_instance
    /\ Known(l)
    /\ Valid(l)
    /\ life' = [life EXCEPT ![l] = "released"]
    /\ loose' = loose \cup {fileno[l]}
    /\ Goto(c, "unreg")
    /\ closing' = [closing EXCEPT ![c] = l]
    /\ UNCHANGED << loopVars, m_event_listeners, interest, fileno, arg, op,
                    disp, ev, m_has_disconnected, eof, silent, erased >>

\* The new owner of a released socket closes it.
CloseReleased(c, fd) ==
    /\ pc[c] = "idle"
    /\ fd \in loose
    /\ loose' = loose \ {fd}
    /\ interest' = [interest EXCEPT ![fd] = "none"]
    /\ UNCHANGED << loopVars, m_event_listeners, life, fileno, pc, arg, op,
                    disp, ev, m_has_disconnected, closing, eof, silent,
                    erased >>

\* stop(): if (!m_okay) return;
CallStop(c) ==
    /\ pc[c] = "idle"
    /\ m_instance
    /\ m_okay
    /\ Goto(c, "stop")
    /\ in_stop' = in_stop \cup {c}
    /\ UNCHANGED << m_instance, m_okay, semaphore, sem_ready, stop_done,
                    joined, fatal, m_event_listeners, interest, life, fileno,
                    arg, op, disp, ev, closeVars >>

\* m_okay = false under the lock.
StopBegin(c) ==
    /\ pc[c] = "stop"
    /\ m_okay' = FALSE
    /\ Goto(c, "stopping")
    /\ UNCHANGED << m_instance, semaphore, sem_ready, in_stop, stop_done,
                    joined, fatal, m_event_listeners, interest, life, fileno,
                    arg, op, disp, ev, closeVars >>

\* while (!m_event_listeners.empty()): close any one of them.
StopNext(c) ==
    /\ pc[c] = "stopping"
    /\ \E fd \in Fds :
          /\ m_event_listeners[fd] # NoListener
          /\ Call(c, "close", m_event_listeners[fd])
    /\ UNCHANGED << loopVars, m_event_listeners, interest, life, fileno, op,
                    disp, ev, closeVars >>

\* The map is empty: wake the first worker and return.
StopReturn(c) ==
    /\ pc[c] = "stopping"
    /\ \A fd \in Fds : m_event_listeners[fd] = NoListener
    /\ increment_semaphore
    /\ stop_done' = TRUE
    /\ in_stop' = in_stop \ {c}
    /\ Goto(c, "idle")
    /\ UNCHANGED << m_instance, m_okay, joined, fatal, m_event_listeners,
                    interest, life, fileno, arg, op, disp, ev, closeVars >>

\* wait(), called by at most one thread.
CallWait(c) ==
    /\ "wait" \in AppCalls
    /\ pc[c] = "idle"
    /\ m_instance
    /\ ~ joined
    /\ \A d \in Callers : pc[d] # "joining"
    /\ Goto(c, "joining")
    /\ UNCHANGED << loopVars, m_event_listeners, interest, life, fileno, arg,
                    op, disp, ev, closeVars >>

\* Every worker was joined.
WaitReturn(c) ==
    /\ pc[c] = "joining"
    /\ \A w \in Workers : pc[w] = "exit"
    /\ joined' = TRUE
    /\ Goto(c, "idle")
    /\ UNCHANGED << m_instance, m_okay, semaphore, sem_ready, in_stop,
                    stop_done, fatal, m_event_listeners, interest, life,
                    fileno, arg, op, disp, ev, closeVars >>

\* destroy(), called as the tests do: after stop() and wait() returned and no
\* other thread uses the loop.  Deleting the map drops the last pointers to
\* listeners that were still in it.  A second call is up to the application.
Destroy(c) ==
    /\ \A d \in Callers : pc[d] = "idle"
    /\ m_instance => stop_done /\ joined
    /\ m_instance \/ "redestroy" \in AppCalls
    /\ fatal' = (~ m_instance \/ m_okay \/ ~ joined)
    /\ m_instance' = FALSE
    /\ m_event_listeners' = [fd \in Fds |-> NoListener]
    /\ interest' = [fd \in Fds |-> "none"]
    /\ life' = [l \in Listeners |->
                   IF Valid(l) /\ m_event_listeners[fileno[l]] = l THEN "closed"
                   ELSE life[l]]
    /\ erased' = {l \in Listeners : life[l] # "fresh"}
    /\ UNCHANGED << m_okay, semaphore, sem_ready, fileno, pc, arg, op, disp,
                    ev, in_stop, stop_done, joined, m_has_disconnected, loose,
                    closing, eof, silent >>

\* initialize(): a new instance with a new epoll set, and run().
Initialize(c) ==
    /\ pc[c] = "idle"
    /\ ~ m_instance
    /\ m_instance' = TRUE
    /\ m_okay' = TRUE
    /\ semaphore' = 0
    /\ sem_ready' = FALSE
    /\ stop_done' = FALSE
    /\ joined' = FALSE
    /\ pc' = [t \in Threads |-> IF t \in Workers THEN "loop" ELSE pc[t]]
    /\ UNCHANGED << m_event_listeners, interest, life, fileno, arg, op, disp,
                    ev, in_stop, fatal, closeVars >>

----------------------------------------------------------------------------

Init ==
    /\ m_instance = TRUE
    /\ m_okay = TRUE
    /\ m_event_listeners = [fd \in Fds |-> NoListener]
    /\ semaphore = 0
    /\ sem_ready = FALSE
    /\ interest = [fd \in Fds |-> "none"]
    /\ life = [l \in Listeners |-> "fresh"]
    /\ fileno = [l \in Listeners |-> NoFd]
    /\ pc = [t \in Threads |-> IF t \in Workers THEN "loop" ELSE "idle"]
    /\ arg = [t \in Threads |-> NoListener]
    /\ op = [t \in Threads |-> "mod"]
    /\ disp = [w \in Workers |-> NoListener]
    /\ ev = [w \in Workers |-> NoFd]
    /\ m_has_disconnected = [l \in Listeners |-> FALSE]
    /\ loose = {}
    /\ closing = [t \in Threads |-> NoListener]
    /\ eof = {}
    /\ silent = {}
    /\ erased = {}
    /\ in_stop = {}
    /\ stop_done = FALSE
    /\ joined = FALSE
    /\ fatal = FALSE

\* The steps of a call in progress, taken by a worker or a caller.
CallStep(t) ==
    \/ RegisterEventListener(t)
    \/ ReRegister(t)
    \/ NotifyListenerModeChange(t)
    \/ RegisterSocket(t)
    \/ CloseSocket(t)
    \/ TestDisconnected(t)
    \/ SetDisconnected(t)
    \/ DisconnectReturns(t)
    \/ UnregisterEventListener(t)

\* The steps of update() and thread_loop() that the worker takes by itself.
WorkerStep(w) ==
    \/ ThreadLoop(w)
    \/ UpdatePoll(w)
    \/ EpollSemaphore(w)
    \/ DecrementSemaphore(w)
    \/ PassOn(w)
    \/ UpdateLookup(w)

\* What the handler of the dispatched listener may do before it returns.
HandlerStep(w) ==
    \/ HandleSetMode(w)
    \/ HandleEof(w)
    \/ HandleWriteCloses(w)
    \/ HandleClose(w)
    \/ \E l \in Listeners : HandleAccept(w, l)

CallerStep(c) ==
    \/ StopBegin(c)
    \/ StopNext(c)
    \/ StopReturn(c)
    \/ WaitReturn(c)

\* What the application may call next.
AppStep(c) ==
    \/ \E l \in Listeners :
          \/ MakeEventListener(c, l)
          \/ CallClose(c, l)
          \/ CallSetMode(c, l)
          \/ CallSendCloses(c, l)
          \/ ReleaseSocket(c, l)
    \/ \E fd \in Fds : CloseReleased(c, fd)
    \/ CallStop(c)
    \/ CallWait(c)
    \/ Destroy(c)
    \/ Initialize(c)

Next ==
    /\ ~ fatal
    /\ \/ \E t \in Threads :
             \/ CallStep(t)
             \/ \E l \in Listeners : DisconnectRegisters(t, l)
       \/ \E w \in Workers :
             \/ WorkerStep(w)
             \/ HandlerStep(w)
             \/ HandleReport(w)
             \/ HandleDone(w)
             \/ EpollInterrupted(w)
             \/ \E fd \in Fds : EpollEvent(w, fd)
       \/ \E c \in Callers : CallerStep(c) \/ AppStep(c)

\* The scheduler runs every thread that can run, and handlers and callbacks
\* return.  No fairness for what the network or the application decides to do.
Fairness ==
    /\ \A t \in Threads : WF_vars(~ fatal /\ CallStep(t))
    /\ \A w \in Workers : WF_vars(~ fatal /\ WorkerStep(w))
    /\ \A w \in Workers : SF_vars(~ fatal /\ HandleReport(w))
    /\ \A w \in Workers : SF_vars(~ fatal /\ HandleDone(w))
    /\ \A c \in Callers : WF_vars(~ fatal /\ CallerStep(c))

Spec == Init /\ [][Next]_vars /\ Fairness

----------------------------------------------------------------------------
(* Safety.                                                                  *)

\* The type of every variable; callers never run worker code.
TypeOK ==
    /\ m_instance \in BOOLEAN
    /\ m_okay \in BOOLEAN
    /\ m_event_listeners \in [Fds -> Listeners \cup {NoListener}]
    /\ semaphore \in Nat
    /\ sem_ready \in BOOLEAN
    /\ interest \in [Fds -> {"none", "armed", "off"}]
    /\ life \in [Listeners -> {"fresh", "open", "shutdown", "closed", "released"}]
    /\ fileno \in [Listeners -> Fds \cup {NoFd}]
    /\ m_has_disconnected \in [Listeners -> BOOLEAN]
    /\ loose \subseteq Fds
    /\ pc \in [Threads -> WorkerPc \cup CallerPc \cup CallPc \cup ClosePc]
    /\ \A w \in Workers : pc[w] \in WorkerPc \cup CallPc \cup ClosePc
    /\ \A c \in Callers : pc[c] \in CallerPc \cup CallPc \cup ClosePc
    /\ arg \in [Threads -> Listeners \cup {NoListener}]
    /\ op \in [Threads -> {"add", "mod"}]
    /\ disp \in [Workers -> Listeners \cup {NoListener}]
    /\ ev \in [Workers -> Fds \cup {NoFd}]
    /\ closing \in [Threads -> Listeners \cup {NoListener}]
    /\ eof \subseteq Workers
    /\ silent \subseteq Listeners
    /\ erased \subseteq Listeners
    /\ in_stop \subseteq Callers
    /\ stop_done \in BOOLEAN
    /\ joined \in BOOLEAN
    /\ fatal \in BOOLEAN

\* No LOG(FATAL) is reached: the non-blocking read of decrement_semaphore
\* never finds the counter at zero, and destroy() finds a stopped instance.
NoFatal == ~ fatal

\* The eventfd cannot hold a wakeup that nobody will see: while its counter is
\* positive, either the edge is still in the ready list or a worker that took
\* one is about to write again.
WakeupPending ==
    semaphore > 0 => \/ sem_ready
                     \/ \E w \in Workers : pc[w] \in {"sem", "pass"}

\* Thread t is going to erase the entry of l: it is past the assignment of
\* m_has_disconnected or releases the socket, or the flag is still clear and t
\* is on its way to test it.
WillErase(t, l) ==
    \/ closing[t] = l /\ pc[t] # "test"
    \/ /\ ~ m_has_disconnected[l]
       /\ \/ closing[t] = l
          \/ pc[t] = "close" /\ arg[t] = l
          \/ t \in eof /\ disp[t] = l

\* The entry of a listener whose socket is gone has a thread that is going to
\* erase it, although the thread that sets m_has_disconnected makes every other
\* one leave the entry alone.  The exception is a socket that on_write_ready()
\* found dead: its entry stays until the application or stop() closes it.
NoOrphanEntry ==
    \A fd \in Fds : LET l == m_event_listeners[fd] IN
        l # NoListener /\ life[l] \in {"closed", "released"} /\ l \notin silent
            => \E t \in Threads : WillErase(t, l)

\* Thread t holds the duty to re-arm l: it has the event, the handler, or the
\* re_register() call that follows.
WillRearm(t, l) ==
    \/ arg[t] = l /\ pc[t] \in {"valid", "notify", "ctl"}
    \/ t \in Workers /\ disp[t] = l
    \/ t \in Workers /\ pc[t] = "lookup" /\ ev[t] = fileno[l]

\* ONESHOT never loses a listener: an entry whose socket is open and which
\* epoll would not report has a thread that is going to re-arm it.  Not so if
\* the number belonged to another listener before, whose late EPOLL_CTL_MOD
\* and events the kernel then takes for the new one's.
NoUnmonitoredListener ==
    \A fd \in Fds : LET l == m_event_listeners[fd] IN
        /\ l # NoListener
        /\ life[l] \in {"open", "shutdown"}
        /\ interest[fd] # "armed"
        /\ \A k \in Listeners \ {l} : fileno[k] # fd
        => \E t \in Threads : WillRearm(t, l)

\* The map finds listeners by number, and numbers are reused.  An open listener
\* loses its entry only to a thread that unregisters an earlier owner of the
\* number for which that was done already: two threads that both found
\* m_has_disconnected clear, or a close_socket() after release_socket().  The
\* first unregistration of a listener always finds that listener.
OpenLostToRepeatOnly ==
    [][\A fd \in Fds :
          LET l == m_event_listeners[fd]
          IN l # NoListener /\ m_event_listeners'[fd] # l /\ m_instance'
                => \/ life[l] \in {"closed", "released"}
                   \/ \E t \in Threads :
                         /\ pc[t] = "unreg" /\ pc'[t] # "unreg"
                         /\ fileno[closing[t]] = fd
                         /\ closing[t] \in erased]_vars

----------------------------------------------------------------------------
(* The inductive invariant behind the safety properties.                    *)

\* A call in progress is about an existing listener, a thread outside a call
\* is about none, and descriptors are known where they are used.
ArgInv ==
    /\ \A t \in Threads : pc[t] \in CallPc =>
          arg[t] \in Listeners /\ life[arg[t]] # "fresh"
    /\ \A t \in Threads : pc[t] \notin CallPc => arg[t] = NoListener
    /\ \A w \in Workers : pc[w] = "handle" => disp[w] # NoListener
    /\ \A w \in Workers : disp[w] # NoListener => life[disp[w]] # "fresh"
    /\ \A w \in Workers : pc[w] = "lookup" => ev[w] \in Fds
    /\ \A l \in Listeners : life[l] # "fresh" => fileno[l] \in Fds
    /\ \A fd \in Fds : m_event_listeners[fd] # NoListener =>
          /\ life[m_event_listeners[fd]] # "fresh"
          /\ fileno[m_event_listeners[fd]] = fd

\* A listener is disconnected by a thread in close_socket_internal(), or in a
\* call that its on_disconnect() makes, and after its socket is gone; a worker
\* that saw the end of its connection is still in the handler.
CloseInv ==
    /\ \A t \in Threads : pc[t] \in ClosePc => closing[t] # NoListener
    /\ \A t \in Threads : closing[t] # NoListener =>
          /\ pc[t] \in ClosePc \cup (CallPc \ {"close"})
          /\ life[closing[t]] \in {"closed", "released"}
    /\ \A w \in eof :
          /\ pc[w] \in {"handle"} \cup CallPc \cup ClosePc
          /\ disp[w] # NoListener
          /\ life[disp[w]] = "closed"

\* A listener that is still to be put into the map is known to the thread
\* that registers it and to nobody else.
RegInv ==
    \A t \in Threads : pc[t] \in {"reg", "regwait"} =>
        /\ life[arg[t]] = "open"
        /\ arg[t] \notin erased /\ ~ m_has_disconnected[arg[t]]
        /\ \A fd \in Fds : m_event_listeners[fd] # arg[t]
        /\ \A u \in Threads : u # t => arg[u] # arg[t]
        /\ \A w \in Workers : disp[w] # arg[t]

\* A listener is in the map, about to be put there, or was erased.
EntryInv ==
    /\ \A l \in Listeners : life[l] # "fresh" =>
          \/ m_event_listeners[fileno[l]] = l
          \/ l \in erased
          \/ \E t \in Threads : pc[t] \in {"reg", "regwait"} /\ arg[t] = l
    /\ \A l \in Listeners : life[l] = "fresh" =>
          l \notin erased /\ ~ m_has_disconnected[l]

\* m_has_disconnected is set for an entry only while a thread that found it
\* clear is on its way to erase that entry.
DisconnectInv ==
    \A fd \in Fds : LET l == m_event_listeners[fd] IN
        l # NoListener /\ m_has_disconnected[l]
            => \E t \in Threads : closing[t] = l /\ pc[t] \notin {"test", "set"}

\* The flags of the shutdown protocol agree with where the threads are.
StopInv ==
    /\ \A c \in Callers : pc[c] \in {"idle", "joining"} => c \notin in_stop
    /\ \A c \in Callers : pc[c] \in {"stop", "stopping"} => c \in in_stop
    /\ \A c \in in_stop : pc[c] # "stop" => ~ m_okay
    /\ stop_done => ~ m_okay
    /\ joined => \A w \in Workers : pc[w] = "exit"
    /\ ~ m_instance => joined /\ \A c \in Callers : pc[c] = "idle"

\* Tokens exist only once the loop is being stopped.
SemOkay ==
    /\ semaphore > 0 => ~ m_okay
    /\ \A w \in Workers : pc[w] \in {"sem", "pass"} => ~ m_okay

\* Workers that took an edge and have not read the counter yet.
AtSem == {w \in Workers : pc[w] = "sem"}

\* Every such worker finds a token of its own in the counter, and one more is
\* there for an edge nobody has taken.
SemTokens == Cardinality(AtSem) + (IF sem_ready THEN 1 ELSE 0) <= semaphore

SemInv == SemOkay /\ SemTokens /\ WakeupPending

CoreInv == TypeOK /\ ArgInv /\ CloseInv /\ StopInv /\ SemInv

MapInv == RegInv /\ EntryInv /\ DisconnectInv /\ NoOrphanEntry

IInv == CoreInv /\ MapInv

----------------------------------------------------------------------------
(* Liveness.                                                                *)

\* Thread t waits in register_event_listener() for an entry that nobody may
\* ever erase: on_write_ready() closed its socket, or the thread that is to
\* erase it waits for a registration itself, as t does when it registers the
\* number of its own listener from on_disconnect() or a last message.
Blocked(t) ==
    /\ pc[t] \in {"reg", "regwait"}
    /\ LET l == m_event_listeners[fileno[arg[t]]] IN
          \/ l \in silent
          \/ \E u \in Threads :
                /\ pc[u] \in {"reg", "regwait"}
                /\ closing[u] = l \/ (u \in eof /\ disp[u] = l)

\* Once stop() has cleared m_okay, some stop() returns with every listener
\* closed and every worker thread ends, so that wait() can join them all,
\* unless some registration stays blocked forever.
ShutdownCompletes ==
    ~ m_okay ~> \/ stop_done /\ \A w \in Workers : pc[w] = "exit"
                \/ [](\E t \in Threads : Blocked(t))


----------------------------------------------------------------------------
(* What a header promises and the code does not keep.                       *)

\* is_okay(): "Is the event loop running and not about to be shut down?"
OkayMeansRunning == m_okay => \E w \in Workers : pc[w] # "exit"
=============================================================================
