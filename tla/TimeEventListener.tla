-------------------------- MODULE TimeEventListener --------------------------
(***************************************************************************)
(* yael's timers (src/src/TimeEventListener.cpp): a multiset of due times  *)
(* guarded by m_mutex, one timerfd armed for the earliest of them, and the *)
(* read handler that a worker of the event loop runs when it expires.      *)
(*                                                                         *)
(* Time is relative: a queued event is stored as the milliseconds between  *)
(* the wall clock and its due time, so that a passing millisecond lowers   *)
(* every entry by one and no horizon is needed.  In the same way stale is  *)
(* the wall clock minus the value `now' that on_read_ready() read before   *)
(* it ran the callbacks.                                                   *)
(***************************************************************************)
EXTENDS Integers, FiniteSets

CONSTANTS
    Callers,      \* application threads
    Handler,      \* the worker of the event loop that dispatches the timer
    Closers,      \* the threads that may call close_socket()
    Slots,        \* places in m_queued_events, the bound on queued events
    Delays,       \* arguments of schedule()
    MaxStall,     \* bound: milliseconds spent in the callbacks of one wakeup
    MaxLate,      \* bound: how far in the past a queued event can be
    ClockSteps,   \* amounts by which the wall clock may be set
    MaxSteps,     \* bound: how often it is set
    NoEvent, NoThread

Threads == Callers \cup {Handler}

ASSUME ThreadsAssumption == Handler \notin Callers /\ NoThread \notin Threads
                              /\ Closers \subseteq Threads
ASSUME SlotsAssumption == IsFiniteSet(Slots)
ASSUME TimesAssumption ==
    /\ Delays \subseteq Nat
    /\ ClockSteps \subseteq Int
    /\ {MaxStall, MaxLate, MaxSteps} \subseteq Nat
    /\ NoEvent \notin Int

VARIABLES
    m_fd,             \* "fresh": timerfd open and not yet in the event loop;
                      \* "open"; "closed": m_fd < 0
    registered,       \* the event loop's map has the listener
    armed,            \* its ONESHOT entry in the epoll set is armed
    m_queued_events,  \* slot -> milliseconds until due
    left,             \* timerfd: milliseconds to expiry, NoEvent: disarmed
    ticks,            \* timerfd: expirations not read yet
    hpc,              \* what the handler does next
    count,            \* callbacks it still has to make
    stale,            \* age of its copy of the clock
    closer,           \* the thread between ::close() and unregister
    steps,            \* clock settings so far
    fatal             \* the LOG(FATAL) that was reached

vars == << m_fd, registered, armed, m_queued_events, left, ticks, hpc, count,
           stale, closer, steps, fatal >>

queueVars == << m_queued_events, left, ticks >>
loopVars == << m_fd, registered, armed, closer >>
handlerVars == << hpc, count, stale >>

----------------------------------------------------------------------------

Queued == {s \in Slots : m_queued_events[s] # NoEvent}

\* *m_queued_events.begin()
Front == CHOOSE x \in {m_queued_events[s] : s \in Queued} :
            \A s \in Queued : x <= m_queued_events[s]

\* The handler holds m_mutex while it is blocked in read().
MutexFree == hpc # "blocked"

\* A thread that can make calls: the application's threads at any time, the
\* worker only from within on_time_event().
CanCall(t) == closer # t /\ (t = Handler => hpc = "callback")

\* internal_schedule(): timerfd_settime() discards an unread expiration.  A
\* delay of zero becomes one nanosecond, since zero would disarm the timer.
internal_schedule(delay) ==
    /\ left' = delay
    /\ ticks' = 0

----------------------------------------------------------------------------
(* The operations of the class.                                             *)

\* Seeded fault: the timer is only set when nothing was queued.
BringsForwardEmpty(delay) == Queued = {}

\* The new event is the first one: it == m_queued_events.begin().
BringsForward(delay) == \A s \in Queued : delay < m_queued_events[s]

\* schedule(delay) on an open timer with room for another event.
Schedule(t, delay) ==
    /\ MutexFree
    /\ CanCall(t)
    /\ m_fd # "closed"
    /\ \E s \in Slots \ Queued :
          m_queued_events' = [m_queued_events EXCEPT ![s] = delay]
    /\ IF BringsForward(delay)
       THEN internal_schedule(delay)
       ELSE UNCHANGED << left, ticks >>
    /\ UNCHANGED << loopVars, handlerVars, steps, fatal >>

\* unschedule(): the queue is cleared, the timerfd keeps running.
Unschedule(t) ==
    /\ MutexFree
    /\ CanCall(t)
    /\ Queued # {}
    /\ m_queued_events' = [s \in Slots |-> NoEvent]
    /\ UNCHANGED << loopVars, handlerVars, left, ticks, steps, fatal >>

\* close_socket(), up to lock.unlock(): the descriptor leaves the epoll set.
\* (EventLoop covers a close before the listener is registered.)
CloseSocket(t) ==
    /\ t \in Closers
    /\ MutexFree
    /\ CanCall(t)
    /\ m_fd = "open"
    /\ m_fd' = "closed"
    /\ armed' = FALSE
    /\ left' = NoEvent
    /\ ticks' = 0
    /\ closer' = t
    /\ UNCHANGED << registered, m_queued_events, handlerVars, steps, fatal >>

\* el.unregister_event_listener(shared_from_this())
Unregister(t) ==
    /\ closer = t
    /\ registered' = FALSE
    /\ closer' = NoThread
    /\ UNCHANGED << m_fd, armed, queueVars, handlerVars, steps, fatal >>

\* register_event_listener() and its re_register(true).
Register ==
    /\ m_fd = "fresh"
    /\ m_fd' = "open"
    /\ registered' = TRUE
    /\ armed' = TRUE
    /\ UNCHANGED << closer, queueVars, handlerVars, steps, fatal >>

----------------------------------------------------------------------------
(* The worker that dispatches the timer.                                    *)

\* epoll_wait() reports the timerfd.
Wake ==
    /\ hpc = "idle"
    /\ armed
    /\ ticks > 0
    /\ armed' = FALSE
    /\ hpc' = "lookup"
    /\ UNCHANGED << m_fd, registered, closer, queueVars, count, stale, steps,
                    fatal >>

\* EventLoop::update() looks the descriptor up.
Lookup ==
    /\ hpc = "lookup"
    /\ hpc' = IF registered THEN "read" ELSE "idle"
    /\ UNCHANGED << loopVars, queueVars, count, stale, steps, fatal >>

\* Seeded fault: one due event leaves the queue per wakeup.
DueFirst ==
    LET due == {s \in Queued : m_queued_events[s] <= 0}
    IN IF due = {} THEN {} ELSE {CHOOSE s \in due : TRUE}

\* The events that are due: *it <= now.
Due == {s \in Queued : m_queued_events[s] <= 0}

\* The events that are due leave the queue, then the lock is released.
Collect ==
    /\ m_queued_events' =
          [s \in Slots |-> IF s \in Due THEN NoEvent ELSE m_queued_events[s]]
    /\ count' = Cardinality(Due)
    /\ stale' = 0
    /\ ticks' = 0
    /\ hpc' = "fire"
    /\ UNCHANGED << loopVars, left, steps, fatal >>

\* on_read_ready(): lock m_mutex and read() the timerfd.  The descriptor is
\* not checked: after close_socket() m_fd is -1 and the read fails.
OnReadReady ==
    /\ hpc = "read"
    /\ m_fd # "closed"
    /\ ticks > 0
    /\ Collect

\* The timerfd is blocking: without an expiration to read, read() waits with
\* m_mutex held.
ReadBlocks ==
    /\ hpc = "read"
    /\ m_fd # "closed"
    /\ ticks = 0
    /\ hpc' = "blocked"
    /\ UNCHANGED << loopVars, queueVars, count, stale, steps, fatal >>

ReadResumes ==
    /\ hpc = "blocked"
    /\ ticks > 0
    /\ Collect

\* LOG(FATAL) << "Failed to read from timefd"
ReadFails ==
    /\ hpc = "read"
    /\ m_fd = "closed"
    /\ fatal' = "read"
    /\ UNCHANGED << loopVars, queueVars, handlerVars, steps >>

\* on_time_event(), which may call back into the listener.
OnTimeEvent ==
    /\ hpc = "fire"
    /\ count > 0
    /\ count' = count - 1
    /\ hpc' = "callback"
    /\ UNCHANGED << loopVars, queueVars, stale, steps, fatal >>

CallbackReturn ==
    /\ hpc = "callback"
    /\ closer # Handler
    /\ hpc' = "fire"
    /\ UNCHANGED << loopVars, queueVars, count, stale, steps, fatal >>

\* Seeded fault: the timer is not set again.
MoreIgnored == FALSE

\* !m_queued_events.empty() && m_fd >= 0
More == Queued # {} /\ m_fd # "closed"

\* next - now, with the clock value read before the callbacks.
NextDelay == Front + stale

\* Seeded fault: a negative delay is not noticed.
PastIgnored == FALSE

\* if (next < now) LOG(FATAL) << "Invalid state"
Past == NextDelay < 0

\* After the callbacks: lock again and set the timer for the next event.
Rearm ==
    /\ hpc = "fire"
    /\ count = 0
    /\ hpc' = "valid"
    /\ stale' = 0
    /\ fatal' = IF More /\ Past THEN "past" ELSE fatal
    /\ IF More /\ ~ Past THEN internal_schedule(NextDelay)
                         ELSE UNCHANGED << left, ticks >>
    /\ UNCHANGED << loopVars, m_queued_events, count, steps >>

\* re_register(false): is_valid() ...
Valid ==
    /\ hpc = "valid"
    /\ hpc' = IF m_fd = "closed" THEN "idle" ELSE "notify"
    /\ UNCHANGED << loopVars, queueVars, count, stale, steps, fatal >>

\* ... and notify_listener_mode_change(), EPOLL_CTL_MOD.
Notify ==
    /\ hpc = "notify"
    /\ hpc' = "idle"
    /\ armed' = (registered /\ m_fd # "closed")
    /\ UNCHANGED << m_fd, registered, closer, queueVars, count, stale, steps,
                    fatal >>

----------------------------------------------------------------------------
(* The kernel.                                                              *)

\* The timer expires.
Expire ==
    /\ left = 0
    /\ left' = NoEvent
    /\ ticks' = 1
    /\ UNCHANGED << loopVars, m_queued_events, handlerVars, steps, fatal >>

InCallbacks == hpc \in {"fire", "callback"}

\* A millisecond passes.
Tick ==
    /\ left # 0
    /\ \A s \in Queued : m_queued_events[s] > -MaxLate
    /\ InCallbacks => stale < MaxStall
    /\ m_queued_events' =
          [s \in Slots |-> IF s \in Queued THEN m_queued_events[s] - 1 ELSE NoEvent]
    /\ left' = IF left = NoEvent THEN NoEvent ELSE left - 1
    /\ stale' = IF InCallbacks THEN stale + 1 ELSE 0
    /\ UNCHANGED << loopVars, ticks, hpc, count, steps, fatal >>

\* The wall clock is set; a relative timer is not affected.
ClockStep(k) ==
    /\ steps < MaxSteps
    /\ steps' = steps + 1
    /\ m_queued_events' =
          [s \in Slots |-> IF s \in Queued THEN m_queued_events[s] - k ELSE NoEvent]
    /\ stale' = IF InCallbacks THEN stale + k ELSE 0
    /\ UNCHANGED << loopVars, left, ticks, hpc, count, fatal >>

----------------------------------------------------------------------------

Init ==
    /\ m_fd = "fresh"
    /\ registered = FALSE
    /\ armed = FALSE
    /\ m_queued_events = [s \in Slots |-> NoEvent]
    /\ left = NoEvent
    /\ ticks = 0
    /\ hpc = "idle"
    /\ count = 0
    /\ stale = 0
    /\ closer = NoThread
    /\ steps = 0
    /\ fatal = "none"

\* What a thread may call.
Operation(t) ==
    \/ \E delay \in Delays : Schedule(t, delay)
    \/ Unschedule(t)
    \/ CloseSocket(t)

HandlerStep ==
    \/ Wake
    \/ Lookup
    \/ OnReadReady
    \/ ReadBlocks
    \/ ReadResumes
    \/ ReadFails
    \/ OnTimeEvent
    \/ Rearm
    \/ Valid
    \/ Notify

Next ==
    /\ fatal = "none"
    /\ \/ \E t \in Threads : Operation(t) \/ Unregister(t)
       \/ Register
       \/ HandlerStep
       \/ CallbackReturn
       \/ Expire
       \/ Tick
       \/ \E k \in ClockSteps : ClockStep(k)

\* Threads run, callbacks return, time passes and timers expire.  Strong
\* fairness where the application can interfere infinitely often: with the
\* clock by scheduling more events, with the return of a callback by calling
\* into the listener.
Fairness ==
    /\ WF_vars(fatal = "none" /\ HandlerStep)
    /\ \A t \in Threads : WF_vars(fatal = "none" /\ Unregister(t))
    /\ SF_vars(fatal = "none" /\ CallbackReturn)
    /\ WF_vars(fatal = "none" /\ Expire)
    /\ SF_vars(fatal = "none" /\ Tick)

Spec == Init /\ [][Next]_vars /\ Fairness

----------------------------------------------------------------------------

\* The type of every variable.
TypeOK ==
    /\ m_fd \in {"fresh", "open", "closed"}
    /\ registered \in BOOLEAN
    /\ armed \in BOOLEAN
    /\ m_queued_events \in [Slots -> Int \cup {NoEvent}]
    /\ left \in Nat \cup {NoEvent}
    /\ ticks \in {0, 1}
    /\ hpc \in {"idle", "lookup", "read", "blocked", "fire", "callback",
                "valid", "notify"}
    /\ count \in Nat
    /\ stale \in Int
    /\ closer \in Threads \cup {NoThread}
    /\ steps \in Nat
    /\ fatal \in {"none", "read", "past"}

\* No timer is lost: while events are queued on an open timer, or a worker is
\* blocked in read() with m_mutex held, so that schedule(), is_valid() and
\* close_socket() wait for it, the timerfd is running or has expired.  Only a
\* handler that is still to set it after its callbacks may find it disarmed.
NoLostTimer ==
    (Queued # {} /\ m_fd # "closed" /\ ~ InCallbacks) \/ hpc = "blocked"
        => left # NoEvent \/ ticks > 0

\* How late the timer may be: it expires no later than the first queued event
\* is due, but for the time one round of callbacks took, since Rearm counts
\* from the clock value read before them.  On a clock that is not set.
TimerCoversFront ==
    steps = 0 /\ Queued # {} /\ m_fd # "closed" /\ ~ InCallbacks /\ ticks = 0
        => left # NoEvent /\ left <= Front + MaxStall

\* LOG(FATAL) << "Invalid state" needs a clock that was set: otherwise the next
\* event is never before the clock value the due events were compared with,
\* whatever was scheduled while the callbacks ran.
NextNotInPast == steps = 0 => fatal # "past"

\* A queued event of a registered timer leaves the queue: its callback is made
\* or it is unscheduled, or the timer is closed, or the process has ended.
EventsFire ==
    \A s \in Slots :
        (m_queued_events[s] # NoEvent /\ m_fd = "open")
            ~> (m_queued_events[s] = NoEvent \/ m_fd = "closed" \/ fatal # "none")
=============================================================================
