-------------------- MODULE DelayedNetworkSocketListener ---------------------
(***************************************************************************)
(* A connection that sends every message after a delay                     *)
(* (src/src/DelayedNetworkSocketListener.cpp): its DelayedMessageSender is *)
(* a timer of the event loop with a list of pending messages.  send() adds *)
(* a message and schedules an event; each event sends the oldest message.  *)
(*                                                                         *)
(* The timer is module TimeEventListener, composed by instantiation: a     *)
(* step of the timer leaves the sender alone, and the calls the sender     *)
(* makes into its base class are steps of both.  The connection underneath *)
(* (module NetworkSocketListener) is reduced to the outcome of send() and  *)
(* close_socket().  The wall clock is not set.                             *)
(***************************************************************************)
EXTENDS Integers, Sequences, FiniteSets

CONSTANTS
    Callers, Handler, Closers, Slots, Delays, MaxStall, MaxLate,
    ClockSteps, MaxSteps, NoEvent, NoThread,   \* of TimeEventListener
    MaxMessages     \* bound on the delayed messages

VARIABLES
    m_fd, registered, armed, m_queued_events, left, ticks, hpc, count, stale,
    closer, steps, fatal                       \* of TimeEventListener

Timer == INSTANCE TimeEventListener

\* Of the assumptions of TimeEventListener, the ones the list depends on.
ASSUME TimerAssumption ==
    /\ Handler \notin Callers /\ NoThread \notin Callers \cup {Handler}
    /\ IsFiniteSet(Slots)
    /\ Delays \subseteq Nat /\ NoEvent \notin Int
ASSUME MessagesAssumption == MaxMessages \in Nat /\ MaxMessages <= Cardinality(Slots)

VARIABLES
    m_pending_messages,  \* numbers of the messages, oldest first
    m_mutex,             \* of the sender: its owner
    m_socket,            \* the sender's pointer to the listener is not null
    sock,                \* the connection: "none", "up", "shut" or "closed"
    listener,            \* "alive", "unregistered" or "destroyed"
    m_delay,
    delay,               \* argument of the schedule() that is under way
    pc,
    due, gone            \* history, as in DelayLine

\* The timer's variables, but for fatal.
liveVars == << m_fd, registered, armed, m_queued_events, left, ticks, hpc, count,
               stale, closer, steps >>
timerVars == << liveVars, fatal >>

sendVars == << m_pending_messages, m_mutex, delay, due, gone >>
sockVars == << m_socket, sock, listener, m_delay >>
senderVars == << sendVars, sockVars, pc >>
vars == << timerVars, senderVars >>

Threads == Timer!Threads

Goto(t, label) == pc' = [pc EXCEPT ![t] = label]

\* The user's code runs in the callers; it has a listener to call.
UserCode(t) == t \in Callers /\ pc[t] = "idle" /\ m_fd # "fresh" /\ listener # "destroyed"

----------------------------------------------------------------------------
(* send(), set_delay() and set_socket()                                     *)

\* set_socket(): the sender is created and registered, then the base class
\* takes the socket or throws.
SetSocket(t) ==
    /\ t \in Callers
    /\ Timer!Register
    /\ m_socket' = TRUE
    /\ sock' \in {"none", "up"}
    /\ UNCHANGED << sendVars, listener, m_delay, pc >>

SetDelay(t, d) ==
    /\ UserCode(t)
    /\ m_delay # d
    /\ m_delay' = d
    /\ UNCHANGED << timerVars, sendVars, m_socket, sock, listener, pc >>

\* Seeded fault: new messages go to the front of the list.
EnqueueFront(id) == << id >> \o m_pending_messages

\* m_pending_messages.emplace_back(...)
Enqueue(id) == Append(m_pending_messages, id)

\* send() with a delay: DelayedMessageSender::schedule(), up to the call of
\* TimeEventListener::schedule().
Send(t) ==
    /\ UserCode(t)
    /\ m_delay > 0
    /\ Len(due) < MaxMessages
    /\ m_mutex = NoThread
    /\ m_mutex' = t
    /\ m_pending_messages' = Enqueue(Len(due) + 1)
    /\ due' = Append(due, m_delay)
    /\ delay' = m_delay
    /\ Goto(t, "schedule")
    /\ UNCHANGED << timerVars, gone, sockVars >>

\* TimeEventListener::schedule(), with the sender's mutex held.  Its result is
\* ignored: on a closed timer the message stays where it is.
Schedule(t) ==
    /\ pc[t] = "schedule"
    /\ \/ Timer!Schedule(t, delay)
       \/ /\ m_fd = "closed"
          /\ Timer!MutexFree
          /\ UNCHANGED timerVars
    /\ m_mutex' = NoThread
    /\ delay' = NoEvent
    /\ Goto(t, "idle")
    /\ UNCHANGED << m_pending_messages, due, gone, sockVars >>

\* NetworkSocketListener::send() on a connection that cannot send any more: a
\* write fails and the socket is closed, or the queue is full.  The virtual
\* close_socket() of this class is called.
SendFails(t) ==
    /\ \/ sock \in {"up", "shut"} /\ sock' = "closed"
       \/ sock = "up" /\ UNCHANGED sock
       \/ sock = "closed" /\ UNCHANGED sock
    /\ Goto(t, "c_sender")

\* send() without a delay is the base class's send(), which overtakes the
\* pending messages; a success changes nothing here.
SendDirectFails(t) ==
    /\ UserCode(t)
    /\ m_delay = 0
    /\ SendFails(t)
    /\ UNCHANGED << timerVars, sendVars, m_socket, listener, m_delay >>

----------------------------------------------------------------------------
(* on_time_event()                                                          *)

OnTimeEvent ==
    /\ Timer!OnTimeEvent
    /\ Goto(Handler, "lock")
    /\ UNCHANGED << sendVars, sockVars >>

\* m_socket == nullptr || !m_socket->is_valid(): the message is discarded.
\* erase() of begin() is undefined in an empty list.
LockAndCheck ==
    /\ pc[Handler] = "lock"
    /\ m_mutex = NoThread
    /\ m_mutex' = Handler
    /\ \/ /\ m_pending_messages = << >>
          /\ fatal' = "empty"
          /\ UNCHANGED << gone, pc >>
       \/ /\ m_pending_messages # << >>
          /\ m_socket /\ sock \in {"up", "shut"}
          /\ Goto(Handler, "send")
          /\ UNCHANGED << gone, fatal >>
       \/ /\ m_pending_messages # << >>
          /\ ~ m_socket \/ sock \in {"none", "closed"}
          /\ gone' = Append(gone, Head(m_pending_messages))
          /\ Goto(Handler, "erase")
          /\ UNCHANGED fatal
    /\ UNCHANGED << liveVars, m_pending_messages, delay, due, sockVars >>

\* m_socket->send(): the base class's send(), not a delayed one.
SendPending ==
    /\ pc[Handler] = "send"
    /\ m_socket /\ listener # "destroyed"
    /\ gone' = Append(gone, Head(m_pending_messages))
    /\ \/ sock = "up" /\ Goto(Handler, "erase") /\ UNCHANGED sock
       \/ SendFails(Handler)
    /\ UNCHANGED << timerVars, m_pending_messages, m_mutex, delay, due, m_socket,
                    listener, m_delay >>

\* close_socket() cleared the pointer, or the listener was destroyed, after
\* the check: the handler uses a null or a dangling pointer.
PointerGone ==
    /\ \/ pc[Handler] = "send" /\ (~ m_socket \/ listener = "destroyed")
       \/ pc[Handler] \in {"c_sender", "c_base"} /\ listener = "destroyed"
    /\ fatal' = "pointer"
    /\ UNCHANGED << liveVars, senderVars >>

\* Seeded fault: the list is cleared.
ErasedAll == << >>

\* m_pending_messages.erase(it)
Erased == Tail(m_pending_messages)

Erase ==
    /\ pc[Handler] = "erase"
    /\ m_pending_messages' = Erased
    /\ m_mutex' = NoThread
    /\ Goto(Handler, "idle")
    /\ UNCHANGED << timerVars, delay, due, gone, sockVars >>

CallbackReturn ==
    /\ pc[Handler] = "idle"
    /\ Timer!CallbackReturn
    /\ UNCHANGED senderVars

----------------------------------------------------------------------------
(* close_socket()                                                           *)

CloseSocket(t) ==
    /\ UserCode(t)
    /\ Goto(t, "c_sender")
    /\ UNCHANGED << timerVars, sendVars, sockVars >>

\* ~DelayedNetworkSocketListener(): the event loop has dropped the listener
\* and so has the application.
Destroy(t) ==
    /\ UserCode(t)
    /\ listener = "unregistered"
    /\ \A u \in Callers : pc[u] = "idle"
    /\ listener' = "destroyed"
    /\ Goto(t, "c_sender")
    /\ UNCHANGED << timerVars, sendVars, m_socket, sock, m_delay >>

InClose(t) == t = Handler => listener # "destroyed"

\* Seeded fault: the pointer is cleared under the lock.
CloseSenderLocked(t) ==
    /\ pc[t] = "c_sender"
    /\ InClose(t)
    /\ m_mutex = NoThread
    /\ m_socket' = FALSE
    /\ Goto(t, "c_timer")
    /\ UNCHANGED << timerVars, sendVars, sock, listener, m_delay >>

\* m_sender->close_socket(): m_socket = nullptr, without the lock ...
CloseSender(t) ==
    /\ pc[t] = "c_sender"
    /\ InClose(t)
    /\ m_socket' = FALSE
    /\ Goto(t, "c_timer")
    /\ UNCHANGED << timerVars, sendVars, sock, listener, m_delay >>

\* ... and TimeEventListener::close_socket().
CloseTimer(t) ==
    /\ pc[t] = "c_timer"
    /\ \/ Timer!CloseSocket(t) /\ Goto(t, "c_unregister")
       \/ /\ m_fd = "closed"
          /\ Timer!MutexFree
          /\ Goto(t, "c_base")
          /\ UNCHANGED timerVars
    /\ UNCHANGED << sendVars, sockVars >>

UnregisterTimer(t) ==
    /\ pc[t] = "c_unregister"
    /\ Timer!Unregister(t)
    /\ Goto(t, "c_base")
    /\ UNCHANGED << sendVars, sockVars >>

\* NetworkSocketListener::close_socket(): a connected socket is shut down, one
\* that is closed or missing has the listener unregistered.  In on_time_event()
\* the sender's mutex is still held.
CloseBase(t) ==
    /\ pc[t] = "c_base"
    /\ InClose(t)
    /\ sock' = CASE sock = "up" -> "shut" [] sock = "none" -> "none" [] OTHER -> "closed"
    /\ listener' = IF sock = "up" \/ listener = "destroyed" THEN listener
                                                            ELSE "unregistered"
    /\ Goto(t, IF t = Handler THEN "erase" ELSE "idle")
    /\ UNCHANGED << timerVars, sendVars, m_socket, m_delay >>

\* The reader finds the connection ended: close_socket_internal(), which does
\* not close the sender.
OnReadReadyEnds ==
    /\ sock \in {"up", "shut"}
    /\ sock' = "closed"
    /\ listener' = "unregistered"
    /\ UNCHANGED << timerVars, sendVars, m_socket, m_delay, pc >>

----------------------------------------------------------------------------

\* The worker that runs the timer, outside of on_time_event().
TimerStep ==
    /\ \/ Timer!Wake \/ Timer!Lookup
       \/ Timer!OnReadReady \/ Timer!ReadBlocks \/ Timer!ReadResumes \/ Timer!ReadFails
       \/ Timer!Rearm \/ Timer!Valid \/ Timer!Notify
    /\ UNCHANGED senderVars

Expire == Timer!Expire /\ UNCHANGED senderVars

Tick ==
    /\ Timer!Tick
    /\ due' = [i \in DOMAIN due |-> IF due[i] = 0 THEN 0 ELSE due[i] - 1]
    /\ UNCHANGED << m_pending_messages, m_mutex, delay, gone, sockVars, pc >>

Init ==
    /\ Timer!Init
    /\ m_pending_messages = << >>
    /\ m_mutex = NoThread
    /\ m_socket = FALSE
    /\ sock = "none"
    /\ listener = "alive"
    /\ m_delay \in Delays
    /\ delay = NoEvent
    /\ pc = [t \in Threads |-> "idle"]
    /\ due = << >>
    /\ gone = << >>

HandlerStep ==
    \/ TimerStep \/ OnTimeEvent \/ LockAndCheck \/ SendPending \/ PointerGone
    \/ Erase \/ CallbackReturn

CloseStep(t) == CloseSender(t) \/ CloseTimer(t) \/ UnregisterTimer(t) \/ CloseBase(t)

Next ==
    /\ fatal = "none"
    /\ \/ \E t \in Callers :
             \/ SetSocket(t) \/ Send(t) \/ SendDirectFails(t)
             \/ CloseSocket(t) \/ Destroy(t)
             \/ \E d \in Delays : SetDelay(t, d)
       \/ \E t \in Threads : Schedule(t) \/ CloseStep(t)
       \/ HandlerStep
       \/ OnReadReadyEnds
       \/ Expire
       \/ Tick

\* Threads inside a call run on, the worker dispatches the timer, and time
\* passes.  (The number of messages being bounded, the locks are taken finitely
\* often and weak fairness is enough to get one.)
Fairness ==
    /\ WF_vars(fatal = "none" /\ HandlerStep)
    /\ \A t \in Threads : WF_vars(fatal = "none" /\ (Schedule(t) \/ CloseStep(t)))
    /\ WF_vars(fatal = "none" /\ (Expire \/ Tick))

Spec == Init /\ [][Next]_vars /\ Fairness

----------------------------------------------------------------------------

\* The type of the variables the sender adds to the timer's.
TypeOK ==
    /\ Timer!TypeOK \/ fatal \in {"empty", "pointer"}
    /\ m_pending_messages \in Seq(1 .. MaxMessages)
    /\ m_mutex \in Threads \cup {NoThread}
    /\ m_socket \in BOOLEAN
    /\ sock \in {"none", "up", "shut", "closed"}
    /\ listener \in {"alive", "unregistered", "destroyed"}
    /\ m_delay \in Delays
    /\ delay \in Delays \cup {NoEvent}
    /\ pc \in [Threads -> {"idle", "schedule", "lock", "send", "erase", "c_sender",
                           "c_timer", "c_unregister", "c_base"}]
    /\ due \in Seq(Nat)
    /\ gone \in Seq(1 .. MaxMessages)

\* Events that are queued or about to be delivered, the one whose message is
\* being handled included.
Events ==
    Cardinality(Timer!Queued) + count + (IF pc[Handler] = "idle" THEN 0 ELSE 1)

\* Messages whose event was scheduled.
Scheduled == Len(m_pending_messages) - (IF delay = NoEvent THEN 0 ELSE 1)

\* on_time_event() takes the first message without looking whether there is
\* one: every event has a message, and as long as the timer is open every
\* message has an event.  The two lists have a mutex each, and the count of
\* due events is in neither.
EventPerMessage ==
    /\ Events <= Scheduled
    /\ m_fd # "closed" => Events = Scheduled
    /\ fatal # "empty"

\* The messages leave in the order of send(), also when the delay is changed and
\* when the connection is closed in between, and not too early: the n-th one
\* when the delays of n messages are over.  That is its own delay unless the
\* delay was lowered; then only the count is bounded.
Line == INSTANCE DelayLine
DelayLineSpec == Line!Spec

\* A message leaves, sent or discarded, unless the timer is closed before, or
\* the process ends.
MessagesLeave ==
    \A i \in 1 .. MaxMessages :
        i <= Len(due) ~> (i <= Len(gone) \/ m_fd = "closed" \/ fatal # "none")

\* The sender's mutex is released, although its holder takes the timer's mutex
\* (which a blocked read() may hold) and calls close_socket() when the
\* connection fails.
MutexReleased ==
    \A t \in Threads : m_mutex = t ~> (m_mutex # t \/ fatal # "none")
=============================================================================
