----------------- MODULE DelayedNetworkSocketListenerProofs ------------------
(***************************************************************************)
(* Proofs about DelayedNetworkSocketListener, for any number of threads,   *)
(* any delays and any bound on the messages.  Messages and timer events    *)
(* are in two lists with a mutex each, and nothing pairs them.  That every *)
(* event finds a message is a matter of counting (EventPerMessage), and so *)
(* is that none leaves too early: for every k, the messages that have to   *)
(* wait k milliseconds at most are no fewer than the events that fired or  *)
(* are due by then (CountInv).                                             *)
(***************************************************************************)
EXTENDS DelayedNetworkSocketListener, FiniteSetTheorems, TLAPS

----------------------------------------------------------------------------
(* The inductive invariant.                                                 *)

One(b) == IF b THEN 1 ELSE 0

\* on_time_event() runs; it has taken its message and is yet to erase it.
Handling == pc[Handler] # "idle"
Started == pc[Handler] \in {"erase", "c_sender", "c_timer", "c_unregister", "c_base"}

\* The types the arguments below depend on.
ListType ==
    /\ m_queued_events \in [Slots -> Int \cup {NoEvent}]
    /\ count \in Nat
    /\ m_pending_messages \in Seq(Nat)
    /\ m_delay \in Delays
    /\ delay \in Nat \cup {NoEvent}
    /\ DOMAIN pc = Threads
    /\ due \in Seq(Nat)
    /\ gone \in Seq(Nat)

\* The sender's mutex is held by a thread whose message is listed and not yet
\* scheduled, and by on_time_event() once it has looked at the list.  Events
\* are on their way only while the handler calls back.
LockInv ==
    /\ \A t \in Threads :
          pc[t] = "schedule" => t \in Callers /\ m_mutex = t /\ delay # NoEvent
    /\ delay # NoEvent => \E t \in Threads : pc[t] = "schedule"
    /\ Handling /\ pc[Handler] # "lock" => m_mutex = Handler
    /\ Handling => hpc = "callback"
    /\ ~ Timer!InCallbacks => count = 0

\* The list holds the messages that were accepted and have not left, in the
\* order of send(), and the one that has just left until it is erased.
OrderInv ==
    LET erased == Len(gone) - One(Started)
    IN /\ Len(m_pending_messages) = Len(due) - erased
       /\ \A i \in 1 .. Len(m_pending_messages) : m_pending_messages[i] = erased + i

\* Messages with an event whose delay is over in k milliseconds, and events
\* that are due by then.
DueBy(k) == {i \in 1 .. Len(due) - One(delay # NoEvent) : due[i] <= k}
QueuedBy(k) == {s \in Timer!Queued : m_queued_events[s] <= k}

\* The events that have fired, with those the handler has collected.
Fired == Len(gone) + count + One(Handling /\ ~ Started)

CountInv ==
    /\ delay # NoEvent => Len(due) > 0 /\ due[Len(due)] <= delay
    /\ \A k \in Nat : Fired + Cardinality(QueuedBy(k)) <= Cardinality(DueBy(k))

DelayInv == ListType /\ LockInv /\ EventPerMessage /\ OrderInv /\ CountInv

----------------------------------------------------------------------------
(* The steps.                                                               *)

\* A step of the timer, the connection or close_socket() that touches neither
\* list.
Quiet ==
    /\ UNCHANGED << m_queued_events, count, m_pending_messages, delay, due, gone >>
    /\ Handling' = Handling
    /\ Started' = Started
    /\ m_fd' # "closed" => m_fd # "closed"
    /\ fatal' = "empty" => fatal = "empty"

\* on_read_ready() takes the events that are due from the queue.
Collects == hpc \in {"read", "blocked"} /\ Timer!Collect /\ UNCHANGED senderVars

LEMMA QuietClose ==
    ASSUME ListType, NEW t \in Threads, CloseStep(t) PROVE Quiet
<1>1. CASE CloseSender(t)
  BY <1>1 DEF ListType, CloseSender, Goto, Quiet, Handling, Started, timerVars, liveVars, sendVars
<1>2. CASE CloseTimer(t)
  <2>1. /\ UNCHANGED << m_queued_events, count, sendVars, fatal >>
        /\ m_fd' # "closed" => m_fd # "closed"
    BY <1>2 DEF CloseTimer, Timer!CloseSocket, timerVars, liveVars, Timer!handlerVars
  <2>2. pc[t] = "c_timer" /\ \E l \in {"c_unregister", "c_base"} : Goto(t, l)
    BY <1>2 DEF CloseTimer
  <2>3. Handling' = Handling /\ Started' = Started
    BY <2>2 DEF ListType, Goto, Handling, Started
  <2> QED
    BY <2>1, <2>3 DEF Quiet, sendVars
<1>3. CASE UnregisterTimer(t)
  BY <1>3 DEF ListType, UnregisterTimer, Timer!Unregister, Goto, Quiet, Handling, Started,
              sendVars, Timer!handlerVars, Timer!queueVars
<1>4. CASE CloseBase(t)
  BY <1>4 DEF ListType, CloseBase, Goto, Quiet, Handling, Started, timerVars, liveVars, sendVars
<1> QED
  BY <1>1, <1>2, <1>3, <1>4 DEF CloseStep

LEMMA QuietCaller ==
    ASSUME ListType, NEW t \in Callers,
           \/ SetSocket(t) \/ SendDirectFails(t) \/ CloseSocket(t) \/ Destroy(t)
           \/ \E d \in Delays : SetDelay(t, d)
    PROVE  Quiet
<1>0. t # Handler
  BY TimerAssumption
<1>1. CASE SetSocket(t)
  BY <1>1 DEF SetSocket, Timer!Register, Quiet, Handling, Started, sendVars,
              Timer!handlerVars, Timer!queueVars
<1>2. CASE SendDirectFails(t)
  BY <1>0, <1>2 DEF SendDirectFails, SendFails, Goto, Quiet, Handling, Started, timerVars,
                    liveVars, sendVars
<1>3. CASE CloseSocket(t)
  BY <1>0, <1>3 DEF CloseSocket, Goto, Quiet, Handling, Started, timerVars, liveVars, sendVars
<1>4. CASE Destroy(t)
  BY <1>0, <1>4 DEF Destroy, Goto, Quiet, Handling, Started, timerVars, liveVars, sendVars
<1>5. CASE \E d \in Delays : SetDelay(t, d)
  BY <1>5 DEF SetDelay, Quiet, Handling, Started, timerVars, liveVars, sendVars
<1> QED
  BY <1>1, <1>2, <1>3, <1>4, <1>5

LEMMA QuietTimer ==
    ASSUME TimerStep PROVE Quiet \/ Collects
<1>1. CASE Timer!Wake
  BY <1>1 DEF TimerStep, Timer!Wake, Quiet, Handling, Started, senderVars, sendVars, Timer!queueVars
<1>2. CASE Timer!Lookup
  BY <1>2 DEF TimerStep, Timer!Lookup, Quiet, Handling, Started, senderVars, sendVars,
              Timer!queueVars, Timer!loopVars
<1>3. CASE Timer!OnReadReady \/ Timer!ReadResumes
  BY <1>3 DEF TimerStep, Timer!OnReadReady, Timer!ReadResumes, Collects
<1>4. CASE Timer!ReadBlocks
  BY <1>4 DEF TimerStep, Timer!ReadBlocks, Quiet, Handling, Started, senderVars, sendVars,
              Timer!queueVars, Timer!loopVars
<1>5. CASE Timer!ReadFails
  BY <1>5 DEF TimerStep, Timer!ReadFails, Quiet, Handling, Started, senderVars, sendVars,
              Timer!queueVars, Timer!loopVars, Timer!handlerVars
<1>6. CASE Timer!Rearm
  BY <1>6 DEF TimerStep, Timer!Rearm, Quiet, Handling, Started, senderVars, sendVars,
              Timer!loopVars
<1>7. CASE Timer!Valid
  BY <1>7 DEF TimerStep, Timer!Valid, Quiet, Handling, Started, senderVars, sendVars,
              Timer!queueVars, Timer!loopVars
<1>8. CASE Timer!Notify
  BY <1>8 DEF TimerStep, Timer!Notify, Quiet, Handling, Started, senderVars, sendVars,
              Timer!queueVars
<1> QED
  BY <1>1, <1>2, <1>3, <1>4, <1>5, <1>6, <1>7, <1>8 DEF TimerStep

\* Every other step adds to a list or takes from one.
LEMMA StepCases ==
    ASSUME ListType, Next
    PROVE  \/ Quiet
           \/ \E t \in Callers : Send(t)
           \/ \E t \in Threads : Schedule(t)
           \/ Collects \/ OnTimeEvent \/ LockAndCheck \/ SendPending \/ Erase \/ Tick
<1>1. CASE PointerGone
  BY <1>1 DEF PointerGone, Quiet, Handling, Started, liveVars, senderVars, sendVars
<1>2. CASE CallbackReturn
  BY <1>2 DEF CallbackReturn, Timer!CallbackReturn, Quiet, Handling, Started, senderVars, sendVars,
              Timer!queueVars, Timer!loopVars
<1>3. CASE OnReadReadyEnds
  BY <1>3 DEF OnReadReadyEnds, Quiet, Handling, Started, timerVars, liveVars, sendVars
<1>4. CASE Expire
  BY <1>4 DEF Expire, Timer!Expire, Quiet, Handling, Started, senderVars, sendVars,
              Timer!loopVars, Timer!handlerVars
<1> QED
  BY <1>1, <1>2, <1>3, <1>4, QuietClose, QuietCaller, QuietTimer DEF Next, HandlerStep

----------------------------------------------------------------------------
(* Types.                                                                   *)

LEMMA InitList == Init => DelayInv
<1> SUFFICES ASSUME Init PROVE DelayInv
  OBVIOUS
<1> USE TimerAssumption DEF Init, Timer!Init
<1>1. ListType
  BY DEF ListType
<1>2. pc[Handler] = "idle" /\ ~ Handling /\ ~ Started
  BY DEF Threads, Timer!Threads, Handling, Started
<1>3. LockInv
  BY <1>2 DEF LockInv, Threads, Timer!Threads
<1>4. Timer!Queued = {}
  BY DEF Timer!Queued
<1>5. Cardinality({}) = 0
  BY FS_EmptySet
<1>6. EventPerMessage
  BY <1>2, <1>4, <1>5 DEF EventPerMessage, Events, Scheduled
<1>7. OrderInv
  BY <1>2 DEF OrderInv, One
<1>8. CountInv
  <2>1. Fired = 0 /\ Len(due) - One(delay # NoEvent) = 0
    BY <1>2 DEF Fired, One
  <2>2. \A k \in Nat : QueuedBy(k) = {} /\ DueBy(k) = {}
    BY <1>4, <2>1 DEF QueuedBy, DueBy
  <2>3. ASSUME NEW k \in Nat PROVE Fired + Cardinality(QueuedBy(k)) <= Cardinality(DueBy(k))
    <3>1. Cardinality(QueuedBy(k)) = 0 /\ Cardinality(DueBy(k)) = 0
      BY <1>5, <2>2, Zenon
    <3> QED
      BY <2>1, <3>1
  <2> QED
    BY <2>3 DEF CountInv
<1> QED
  BY <1>1, <1>3, <1>6, <1>7, <1>8 DEF DelayInv

\* Cardinalities in the instantiated modules are those of this one.
LEMMA SameCardinality ==
    ASSUME NEW S
    PROVE  Timer!Cardinality(S) = Cardinality(S) /\ Line!Cardinality(S) = Cardinality(S)
  BY DEF Timer!Cardinality, Line!Cardinality, Cardinality

LEMMA QueuedFinite ==
    /\ IsFiniteSet(Timer!Queued) /\ Cardinality(Timer!Queued) \in Nat
    /\ IsFiniteSet(Timer!Due) /\ Cardinality(Timer!Due) \in Nat
<1>1. Timer!Queued \in SUBSET Slots /\ Timer!Due \in SUBSET Slots
  BY DEF Timer!Queued, Timer!Due
<1> QED
  BY <1>1, TimerAssumption, FS_Subset, FS_CardinalityType

\* on_time_event() has a message to take.
LEMMA HandlingHasMessage ==
    ASSUME ListType, EventPerMessage, Handling
    PROVE  m_pending_messages # << >> /\ Len(m_pending_messages) \in Nat \ {0}
<1>1. Events >= 1 /\ Events \in Nat
  BY QueuedFinite DEF ListType, Events, Handling
<1>2. Len(m_pending_messages) \in Nat
  BY DEF ListType
<1>3. Len(m_pending_messages) >= 1
  BY <1>1, <1>2 DEF EventPerMessage, Scheduled
<1> QED
  BY <1>2, <1>3 DEF ListType

LEMMA ListTypeStep == ASSUME ListType, EventPerMessage, Next PROVE ListType'
<1>0. DOMAIN pc' = Threads /\ m_delay' \in Delays
  <2>1. ASSUME NEW t \in Threads, Schedule(t) \/ CloseStep(t)
        PROVE  DOMAIN pc' = Threads /\ m_delay' \in Delays
    BY <2>1 DEF ListType, Schedule, CloseStep, CloseSender, CloseTimer, UnregisterTimer, CloseBase,
                Goto, sockVars
  <2>2. ASSUME NEW t \in Callers,
               \/ SetSocket(t) \/ Send(t) \/ SendDirectFails(t) \/ CloseSocket(t) \/ Destroy(t)
               \/ \E d \in Delays : SetDelay(t, d)
        PROVE  DOMAIN pc' = Threads /\ m_delay' \in Delays
    BY <2>2 DEF ListType, SetSocket, Send, SendDirectFails, SendFails, CloseSocket, Destroy,
                SetDelay, Goto, sockVars
  <2>3. CASE HandlerStep
    BY <2>3 DEF ListType, HandlerStep, TimerStep, OnTimeEvent, LockAndCheck, SendPending, SendFails,
                PointerGone, Erase, CallbackReturn, Goto, sockVars, senderVars
  <2>4. CASE OnReadReadyEnds \/ Expire \/ Tick
    BY <2>4 DEF ListType, OnReadReadyEnds, Expire, Tick, sockVars, senderVars
  <2> QED
    BY <2>1, <2>2, <2>3, <2>4 DEF Next
<1>1. CASE Quiet
  BY <1>0, <1>1 DEF Quiet, ListType
<1>2. ASSUME NEW t \in Callers, Send(t) PROVE ListType'
  <2>1. m_delay \in Nat /\ Len(due) + 1 \in Nat
    BY TimerAssumption DEF ListType
  <2> QED
    BY <1>0, <1>2, <2>1 DEF ListType, Send, Enqueue, timerVars, liveVars
<1>3. ASSUME NEW t \in Threads, Schedule(t) PROVE ListType'
  <2>1. m_queued_events' \in [Slots -> Int \cup {NoEvent}] /\ UNCHANGED count
    <3>1. CASE UNCHANGED timerVars
      BY <3>1 DEF ListType, timerVars, liveVars
    <3>2. CASE Timer!Schedule(t, delay)
      <4>1. PICK s \in Slots : m_queued_events' = [m_queued_events EXCEPT ![s] = delay]
        BY <3>2 DEF Timer!Schedule
      <4>2. delay \in Int \cup {NoEvent}
        BY DEF ListType
      <4>3. UNCHANGED count
        BY <3>2 DEF Timer!Schedule, Timer!handlerVars
      <4> QED
        BY <4>1, <4>2, <4>3 DEF ListType
    <3> QED
      BY <1>3, <3>1, <3>2 DEF Schedule
  <2> QED
    BY <1>0, <1>3, <2>1 DEF ListType, Schedule
<1>4. CASE Collects
  <2>1. m_queued_events' \in [Slots -> Int \cup {NoEvent}] /\ count' \in Nat
    <3>1. count' = Cardinality(Timer!Due)
      BY <1>4, SameCardinality DEF Collects, Timer!Collect
    <3>2. m_queued_events' = [s \in Slots |-> IF s \in Timer!Due THEN NoEvent ELSE m_queued_events[s]]
      BY <1>4 DEF Collects, Timer!Collect
    <3>3. \A s \in Slots : m_queued_events[s] \in Int \cup {NoEvent}
      BY DEF ListType
    <3>4. m_queued_events' \in [Slots -> Int \cup {NoEvent}]
      BY <3>2, <3>3
    <3> QED
      BY <3>1, <3>4, QueuedFinite
  <2> QED
    BY <1>0, <1>4, <2>1 DEF ListType, Collects, senderVars, sendVars
<1>5. CASE OnTimeEvent
  BY <1>0, <1>5 DEF ListType, OnTimeEvent, Timer!OnTimeEvent, Timer!queueVars, sendVars
<1>6. CASE LockAndCheck
  <2>1. m_pending_messages # << >> => Append(gone, Head(m_pending_messages)) \in Seq(Nat)
    BY DEF ListType
  <2> QED
    BY <1>0, <1>6, <2>1 DEF ListType, LockAndCheck, liveVars
<1>7. CASE SendPending
  <2>1. m_pending_messages # << >>
    BY <1>7, HandlingHasMessage DEF SendPending, Handling
  <2>2. gone' \in Seq(Nat)
    BY <1>7, <2>1 DEF ListType, SendPending
  <2> QED
    BY <1>0, <1>7, <2>2 DEF ListType, SendPending, timerVars, liveVars
<1>8. CASE Erase
  <2>1. m_pending_messages # << >>
    BY <1>8, HandlingHasMessage DEF Erase, Handling
  <2> QED
    BY <1>0, <1>8, <2>1 DEF ListType, Erase, Erased, timerVars, liveVars
<1>9. CASE Tick
  <2>1. m_queued_events' \in [Slots -> Int \cup {NoEvent}] /\ UNCHANGED count
    BY <1>9 DEF ListType, Tick, Timer!Tick, Timer!Queued
  <2>2. due' \in Seq(Nat)
    <3>1. due' = [i \in 1 .. Len(due) |-> IF due[i] = 0 THEN 0 ELSE due[i] - 1]
      BY <1>9 DEF ListType, Tick
    <3>2. \A i \in 1 .. Len(due) : (IF due[i] = 0 THEN 0 ELSE due[i] - 1) \in Nat
      BY DEF ListType
    <3> QED
      BY <3>1, <3>2 DEF ListType
  <2> QED
    BY <1>0, <1>9, <2>1, <2>2 DEF ListType, Tick
<1> QED
  BY <1>1, <1>2, <1>3, <1>4, <1>5, <1>6, <1>7, <1>8, <1>9, StepCases

----------------------------------------------------------------------------
(* The mutex.                                                               *)

LEMMA LockStep == ASSUME ListType, LockInv, Next PROVE LockInv'
<1> USE TimerAssumption DEF Threads, Timer!Threads
<1>0. \A t \in Threads : t # NoThread
  OBVIOUS
<1>1. ASSUME NEW t \in Threads, CloseStep(t) PROVE LockInv'
  <2>1. /\ pc[t] \in {"c_sender", "c_timer", "c_unregister", "c_base"}
        /\ \E l \in {"c_timer", "c_unregister", "c_base", "erase", "idle"} :
              Goto(t, l) /\ (t = Handler => l # "idle")
    BY <1>1 DEF CloseStep, CloseSender, CloseTimer, UnregisterTimer, CloseBase
  <2>2. UNCHANGED << m_mutex, delay, hpc, count >>
    BY <1>1 DEF CloseStep, CloseSender, CloseTimer, UnregisterTimer, CloseBase, Timer!CloseSocket,
                Timer!Unregister, Timer!handlerVars, timerVars, liveVars, sendVars
  <2> QED
    BY <2>1, <2>2 DEF ListType, LockInv, Handling, Goto, Timer!InCallbacks
<1>2. ASSUME NEW t \in Callers, SendDirectFails(t) \/ CloseSocket(t) \/ Destroy(t) PROVE LockInv'
  <2>1. pc[t] = "idle" /\ Goto(t, "c_sender")
    BY <1>2 DEF SendDirectFails, SendFails, CloseSocket, Destroy, UserCode
  <2>2. UNCHANGED << m_mutex, delay, hpc, count >>
    BY <1>2 DEF SendDirectFails, CloseSocket, Destroy, timerVars, liveVars, sendVars
  <2> QED
    BY <2>1, <2>2 DEF ListType, LockInv, Handling, Goto, Timer!InCallbacks
<1>3. ASSUME UNCHANGED << pc, m_mutex, delay, hpc, count >> PROVE LockInv'
  BY <1>3 DEF LockInv, Handling, Timer!InCallbacks
<1>4. ASSUME NEW t \in Callers, SetSocket(t) \/ \E d \in Delays : SetDelay(t, d) PROVE LockInv'
  BY <1>3, <1>4 DEF SetSocket, SetDelay, Timer!Register, Timer!handlerVars, timerVars, liveVars,
                    sendVars
<1>5. ASSUME NEW t \in Callers, Send(t) PROVE LockInv'
  <2>1. /\ pc[t] = "idle" /\ Goto(t, "schedule") /\ m_mutex = NoThread /\ m_mutex' = t
        /\ delay' \in Nat /\ UNCHANGED << hpc, count >>
    BY <1>5 DEF ListType, Send, UserCode, timerVars, liveVars
  <2> QED
    BY <1>0, <2>1 DEF ListType, LockInv, Handling, Goto, Timer!InCallbacks
<1>6. ASSUME NEW t \in Threads, Schedule(t) PROVE LockInv'
  <2>1. /\ pc[t] = "schedule" /\ Goto(t, "idle") /\ m_mutex' = NoThread
        /\ delay' = NoEvent /\ UNCHANGED << hpc, count >>
    BY <1>6 DEF Schedule, Timer!Schedule, Timer!handlerVars, timerVars, liveVars
  <2> QED
    BY <1>0, <2>1 DEF ListType, LockInv, Handling, Goto, Timer!InCallbacks
<1>7. CASE TimerStep
  <2>1. UNCHANGED << pc, m_mutex, delay >>
    BY <1>7 DEF TimerStep, senderVars, sendVars
  <2>2. hpc # "callback" /\ (hpc' \notin {"fire", "callback"} => count' = 0)
    BY <1>7 DEF LockInv, TimerStep, Timer!Wake, Timer!Lookup, Timer!OnReadReady, Timer!ReadBlocks,
                Timer!ReadResumes, Timer!Collect, Timer!ReadFails, Timer!Rearm, Timer!Valid,
                Timer!Notify, Timer!InCallbacks, Timer!handlerVars
  <2> QED
    BY <2>1, <2>2 DEF LockInv, Handling, Timer!InCallbacks
<1>8. CASE OnTimeEvent
  <2>1. /\ hpc = "fire" /\ hpc' = "callback" /\ UNCHANGED << m_mutex, delay >>
        /\ Goto(Handler, "lock")
    BY <1>8 DEF OnTimeEvent, Timer!OnTimeEvent, sendVars
  <2> QED
    BY <2>1 DEF ListType, LockInv, Handling, Goto, Timer!InCallbacks
<1>9. CASE LockAndCheck
  <2>1. /\ pc[Handler] = "lock" /\ m_mutex = NoThread /\ m_mutex' = Handler
        /\ pc' = pc \/ Goto(Handler, "send") \/ Goto(Handler, "erase")
        /\ UNCHANGED << delay, hpc, count >>
    BY <1>9 DEF LockAndCheck, liveVars
  <2> QED
    BY <1>0, <2>1 DEF ListType, LockInv, Handling, Goto, Timer!InCallbacks
<1>10. CASE SendPending
  <2>1. /\ pc[Handler] = "send"
        /\ Goto(Handler, "erase") \/ Goto(Handler, "c_sender")
        /\ UNCHANGED << m_mutex, delay, hpc, count >>
    BY <1>10 DEF SendPending, SendFails, timerVars, liveVars
  <2> QED
    BY <2>1 DEF ListType, LockInv, Handling, Goto, Timer!InCallbacks
<1>11. CASE Erase
  <2>1. /\ pc[Handler] = "erase" /\ Goto(Handler, "idle") /\ m_mutex' = NoThread
        /\ UNCHANGED << delay, hpc, count >>
    BY <1>11 DEF Erase, timerVars, liveVars
  <2> QED
    BY <2>1 DEF ListType, LockInv, Handling, Goto, Timer!InCallbacks
<1>12. CASE CallbackReturn
  <2>1. /\ pc[Handler] = "idle" /\ hpc' = "fire" /\ UNCHANGED << pc, m_mutex, delay, count >>
    BY <1>12 DEF CallbackReturn, Timer!CallbackReturn, senderVars, sendVars
  <2> QED
    BY <2>1 DEF LockInv, Handling, Timer!InCallbacks
<1>13. CASE PointerGone \/ OnReadReadyEnds \/ Expire \/ Tick
  BY <1>3, <1>13 DEF PointerGone, OnReadReadyEnds, Expire, Timer!Expire, Tick, Timer!Tick,
                     Timer!handlerVars, timerVars, liveVars, senderVars, sendVars
<1> QED
  BY <1>1, <1>2, <1>4, <1>5, <1>6, <1>7, <1>8, <1>9, <1>10, <1>11, <1>12, <1>13, Zenon
  DEF Next, HandlerStep

----------------------------------------------------------------------------
(* Events and messages.                                                     *)

\* schedule() fills a free slot.
LEMMA ScheduleAdds ==
    ASSUME ListType, LockInv, NEW t \in Threads, Schedule(t), m_fd # "closed"
    PROVE  \E s \in Slots \ Timer!Queued :
              /\ m_queued_events' = [m_queued_events EXCEPT ![s] = delay]
              /\ Timer!Queued' = Timer!Queued \cup {s}
<1>1. delay \in Int /\ delay # NoEvent
  BY TimerAssumption DEF ListType, LockInv, Schedule
<1>2. PICK s \in Slots \ Timer!Queued : m_queued_events' = [m_queued_events EXCEPT ![s] = delay]
  BY DEF Schedule, Timer!Schedule
<1>3. Timer!Queued' = Timer!Queued \cup {s}
  BY <1>1, <1>2 DEF ListType, Timer!Queued
<1> QED
  BY <1>2, <1>3

\* What the other steps do to the timer's queue.
LEMMA QueuedSame ==
    ASSUME UNCHANGED m_queued_events PROVE Timer!Queued' = Timer!Queued
  BY DEF Timer!Queued

LEMMA CollectTakes ==
    ASSUME ListType, Collects
    PROVE  /\ Timer!Queued' = Timer!Queued \ Timer!Due
           /\ \A s \in Timer!Queued' : m_queued_events'[s] = m_queued_events[s]
           /\ count' = Cardinality(Timer!Due)
<1>1. /\ m_queued_events' = [s \in Slots |-> IF s \in Timer!Due THEN NoEvent ELSE m_queued_events[s]]
      /\ count' = Cardinality(Timer!Due)
  BY SameCardinality DEF Collects, Timer!Collect
<1> QED
  BY <1>1 DEF Timer!Queued

LEMMA TickShifts ==
    ASSUME ListType, Tick
    PROVE  /\ Timer!Queued' = Timer!Queued
           /\ \A s \in Timer!Queued : m_queued_events'[s] = m_queued_events[s] - 1
<1>1. m_queued_events' =
          [s \in Slots |-> IF s \in Timer!Queued THEN m_queued_events[s] - 1 ELSE NoEvent]
  BY DEF Tick, Timer!Tick
<1>2. \A s \in Timer!Queued : s \in Slots /\ m_queued_events[s] - 1 \in Int
  BY DEF ListType, Timer!Queued
<1>3. Timer!Queued' = Timer!Queued
  BY <1>1, <1>2, TimerAssumption DEF Timer!Queued
<1> QED
  BY <1>1, <1>2, <1>3

LEMMA EventStep ==
    ASSUME ListType, LockInv, EventPerMessage, Next
    PROVE  EventPerMessage'
<1> DEFINE Q == Cardinality(Timer!Queued)
           L == Len(m_pending_messages)
<1>0. Q \in Nat /\ L \in Nat /\ count \in Nat
  BY QueuedFinite DEF ListType
<1>1. CASE Quiet
  BY <1>1, QueuedSame DEF Quiet, EventPerMessage, Events, Scheduled, Handling
<1>2. ASSUME NEW t \in Callers, Send(t) PROVE EventPerMessage'
  <2>1. delay = NoEvent /\ delay' # NoEvent
    BY <1>2, TimerAssumption DEF LockInv, Send, ListType, Threads, Timer!Threads
  <2>2. Len(m_pending_messages') = L + 1
    BY <1>2 DEF Send, Enqueue, ListType
  <2>3. pc'[Handler] = pc[Handler]
    BY <1>2, TimerAssumption DEF Send, Goto, ListType
  <2>4. Scheduled' = Scheduled
    BY <1>0, <2>1, <2>2 DEF Scheduled
  <2>5. UNCHANGED << m_queued_events, count, m_fd, fatal >>
    BY <1>2 DEF Send, timerVars, liveVars
  <2> QED
    BY <2>3, <2>4, <2>5, QueuedSame DEF EventPerMessage, Events
<1>3. ASSUME NEW t \in Threads, Schedule(t) PROVE EventPerMessage'
  <2>1. Scheduled' = Scheduled + 1 /\ Scheduled \in Int
    BY <1>0, <1>3 DEF LockInv, Schedule, Scheduled
  <2>2. pc[Handler] = pc'[Handler]
    <3>1. t # Handler /\ Goto(t, "idle")
      BY <1>3, TimerAssumption DEF LockInv, Schedule
    <3> QED
      BY <3>1 DEF Goto, ListType, Threads, Timer!Threads
  <2>3. UNCHANGED << count, m_fd, fatal >>
    BY <1>3 DEF Schedule, Timer!Schedule, timerVars, liveVars, Timer!loopVars, Timer!handlerVars
  <2>4. CASE m_fd = "closed"
    <3>1. UNCHANGED m_queued_events
      BY <1>3, <2>4 DEF Schedule, Timer!Schedule, timerVars, liveVars
    <3>2. Events' = Events /\ Events \in Int
      BY <1>0, <2>2, <2>3, <3>1, QueuedSame DEF Events
    <3> QED
      BY <2>1, <2>3, <2>4, <3>2 DEF EventPerMessage
  <2>5. CASE m_fd # "closed"
    <3>1. PICK s \in Slots \ Timer!Queued : Timer!Queued' = Timer!Queued \cup {s}
      BY <1>3, <2>5, ScheduleAdds
    <3>2. Cardinality(Timer!Queued') = Q + 1
      BY <3>1, QueuedFinite, FS_AddElement
    <3>3. Events' = Events + 1 /\ Events \in Int
      BY <1>0, <2>2, <2>3, <3>2 DEF Events
    <3> QED
      BY <2>1, <2>3, <3>3 DEF EventPerMessage
  <2> QED
    BY <2>4, <2>5
<1>4. CASE Collects
  <2>1. count = 0 /\ UNCHANGED << m_pending_messages, delay, pc, m_fd, fatal >>
    BY <1>4 DEF LockInv, Collects, Timer!Collect, Timer!InCallbacks, senderVars, sendVars,
                Timer!loopVars
  <2>2. Cardinality(Timer!Queued') = Q - Cardinality(Timer!Due)
    <3>1. Timer!Queued' = Timer!Queued \ Timer!Due /\ Timer!Due \subseteq Timer!Queued
      BY <1>4, CollectTakes DEF Timer!Due
    <3>2. Timer!Queued \cap Timer!Due = Timer!Due
      BY <3>1
    <3>3. Cardinality(Timer!Queued \ Timer!Due)
              = Cardinality(Timer!Queued) - Cardinality(Timer!Queued \cap Timer!Due)
      BY QueuedFinite, FS_Difference, Zenon
    <3> QED
      BY <3>1, <3>2, <3>3, Zenon
  <2>3. count' = Cardinality(Timer!Due)
    BY <1>4, CollectTakes
  <2>4. Events' = Events
    BY <1>0, <2>1, <2>2, <2>3, QueuedFinite DEF Events
  <2> QED
    BY <2>1, <2>4 DEF EventPerMessage, Scheduled
<1>5. CASE OnTimeEvent
  <2>1. pc[Handler] = "idle" /\ pc'[Handler] = "lock"
    BY <1>5 DEF OnTimeEvent, Timer!OnTimeEvent, Goto, LockInv, Handling, ListType, Threads,
                Timer!Threads
  <2>2. count' = count - 1 /\ UNCHANGED << m_queued_events, m_pending_messages, delay, m_fd, fatal >>
    BY <1>5 DEF OnTimeEvent, Timer!OnTimeEvent, Timer!queueVars, Timer!loopVars, sendVars
  <2>3. Events' = Events
    BY <1>0, <2>1, <2>2, QueuedSame DEF Events
  <2> QED
    BY <2>2, <2>3 DEF EventPerMessage, Scheduled
<1>6. CASE LockAndCheck
  <2>1. pc[Handler] # "idle" /\ m_pending_messages # << >>
    BY <1>6, HandlingHasMessage DEF LockAndCheck, Handling
  <2>2. pc'[Handler] # "idle" /\ UNCHANGED << liveVars, m_pending_messages, delay, fatal >>
    BY <1>6, <2>1 DEF LockAndCheck, Goto, ListType, Threads, Timer!Threads
  <2> QED
    BY <2>1, <2>2, QueuedSame DEF EventPerMessage, Events, Scheduled, liveVars
<1>7. CASE SendPending
  <2>1. /\ pc[Handler] # "idle" /\ pc'[Handler] # "idle"
        /\ UNCHANGED << timerVars, m_pending_messages, delay >>
    BY <1>7 DEF SendPending, SendFails, Goto, ListType, Threads, Timer!Threads
  <2> QED
    BY <2>1, QueuedSame DEF EventPerMessage, Events, Scheduled, timerVars, liveVars
<1>8. CASE Erase
  <2>1. /\ pc[Handler] # "idle" /\ pc'[Handler] = "idle" /\ UNCHANGED << timerVars, delay >>
        /\ m_pending_messages' = Tail(m_pending_messages)
    BY <1>8 DEF Erase, Erased, Goto, ListType, Threads, Timer!Threads
  <2>2. m_pending_messages # << >>
    BY <2>1, HandlingHasMessage DEF Handling
  <2>3. Len(m_pending_messages') = L - 1
    BY <2>1, <2>2 DEF ListType
  <2>4. Scheduled' = Scheduled - 1 /\ Scheduled \in Int
    BY <1>0, <2>1, <2>3 DEF Scheduled
  <2>5. Events' = Events - 1 /\ Events \in Int
    BY <1>0, <2>1, QueuedSame DEF Events, timerVars, liveVars
  <2> QED
    BY <2>1, <2>4, <2>5 DEF EventPerMessage, timerVars, liveVars
<1>9. CASE Tick
  <2>1. UNCHANGED << count, m_pending_messages, delay, pc, m_fd, fatal >>
    BY <1>9 DEF Tick, Timer!Tick, Timer!loopVars
  <2> QED
    BY <1>9, <2>1, TickShifts DEF EventPerMessage, Events, Scheduled
<1> QED
  BY <1>1, <1>2, <1>3, <1>4, <1>5, <1>6, <1>7, <1>8, <1>9, StepCases

----------------------------------------------------------------------------
(* The order of the messages.                                               *)

LEMMA OrderStep ==
    ASSUME ListType, LockInv, EventPerMessage, OrderInv, Next
    PROVE  OrderInv'
<1> DEFINE P == m_pending_messages
           e == Len(gone) - One(Started)
<1>0. /\ Len(gone) \in Nat /\ Len(due) \in Nat /\ Len(P) \in Nat /\ e \in Int
      /\ P \in Seq(Nat) /\ gone \in Seq(Nat) /\ due \in Seq(Nat)
  BY DEF ListType, One
<1>1. ASSUME P' = P, e' = e, Len(due') = Len(due) PROVE OrderInv'
  BY <1>1 DEF OrderInv
<1>2. CASE Quiet
  <2>1. P' = P /\ due' = due /\ e' = e
    BY <1>2 DEF Quiet, One
  <2> QED
    BY <1>1, <2>1
<1>3. ASSUME NEW t \in Callers, Send(t) PROVE OrderInv'
  <2>1. P' = Append(P, Len(due) + 1) /\ Len(due') = Len(due) + 1
    BY <1>0, <1>3 DEF Send, Enqueue
  <2>2. e' = e
    BY <1>3, TimerAssumption DEF Send, Goto, Started, ListType, One
  <2>3. Len(P) = Len(due) - e /\ \A i \in 1 .. Len(P) : P[i] = e + i
    BY DEF OrderInv
  <2>4. Len(P') = Len(P) + 1 /\ P'[Len(P) + 1] = Len(due) + 1
        /\ \A i \in 1 .. Len(P) : P'[i] = P[i]
    BY <1>0, <2>1
  <2>5. \A i \in 1 .. Len(P') : P'[i] = e + i
    <3> SUFFICES ASSUME NEW i \in 1 .. Len(P') PROVE P'[i] = e + i
      OBVIOUS
    <3> HIDE DEF e
    <3>1. i \in 1 .. Len(P) \/ i = Len(P) + 1
      BY <1>0, <2>4
    <3>2. CASE i \in 1 .. Len(P)
      BY <2>3, <2>4, <3>2, Zenon
    <3>3. CASE i = Len(P) + 1
      <4>1. P'[i] = Len(due) + 1
        BY <2>4, <3>3, Zenon
      <4>2. Len(due) + 1 = e + i
        BY <1>0, <2>3, <3>3
      <4> QED
        BY <4>1, <4>2, Zenon
    <3> QED
      BY <3>1, <3>2, <3>3
  <2>6. Len(P') = Len(due') - e
    BY <1>0, <2>1, <2>3, <2>4
  <2> QED
    BY <2>2, <2>5, <2>6 DEF OrderInv
<1>4. ASSUME NEW t \in Threads, Schedule(t) PROVE OrderInv'
  <2>1. t # Handler /\ Goto(t, "idle") /\ UNCHANGED << m_pending_messages, due, gone >>
    BY <1>4, TimerAssumption DEF LockInv, Schedule
  <2>2. e' = e
    BY <2>1 DEF Goto, Started, ListType, One
  <2> QED
    BY <1>1, <2>1, <2>2
<1>5. CASE Collects
  <2>1. UNCHANGED << m_pending_messages, due, gone, pc >>
    BY <1>5 DEF Collects, senderVars, sendVars
  <2> QED
    BY <1>1, <2>1 DEF Started
<1>6. CASE OnTimeEvent
  <2>1. /\ pc[Handler] = "idle" /\ Goto(Handler, "lock")
        /\ UNCHANGED << m_pending_messages, due, gone >>
    BY <1>6 DEF OnTimeEvent, Timer!OnTimeEvent, LockInv, Handling, sendVars
  <2>2. e' = e
    BY <2>1 DEF Goto, Started, ListType, Threads, Timer!Threads
  <2> QED
    BY <1>1, <2>1, <2>2
<1>7. CASE (LockAndCheck /\ gone' # gone) \/ SendPending
  <2>1. /\ ~ Started /\ Started' /\ UNCHANGED << m_pending_messages, due >>
        /\ gone' = Append(gone, Head(m_pending_messages))
    BY <1>7 DEF LockAndCheck, SendPending, SendFails, Goto, Started, ListType, Threads,
                Timer!Threads
  <2>2. P # << >>
    BY <1>7, HandlingHasMessage DEF LockAndCheck, SendPending, Handling
  <2>3. Len(gone') = Len(gone) + 1
    BY <1>0, <2>1, <2>2
  <2>4. e' = e
    BY <1>0, <2>1, <2>3 DEF One
  <2> QED
    BY <1>1, <2>1, <2>4
<1>8. CASE LockAndCheck /\ gone' = gone
  <2>1. /\ ~ Started /\ ~ Started' /\ UNCHANGED << m_pending_messages, due >>
    <3>1. gone # Append(gone, Head(P)) \/ P = << >>
      BY <1>0
    <3> QED
      BY <1>8, <3>1 DEF LockAndCheck, Goto, Started, ListType, Threads, Timer!Threads
  <2> QED
    BY <1>1, <1>8, <2>1 DEF One
<1>9. CASE Erase
  <2>1. /\ Started /\ ~ Started' /\ UNCHANGED << due, gone >> /\ P' = Tail(P)
    BY <1>9 DEF Erase, Erased, Goto, Started, ListType, Threads, Timer!Threads
  <2>2. P # << >>
    BY <1>9, HandlingHasMessage DEF Erase, Handling
  <2>3. e' = e + 1
    BY <1>0, <2>1 DEF One
  <2>4. Len(P') = Len(P) - 1 /\ \A i \in 1 .. Len(P') : P'[i] = P[i + 1]
    BY <1>0, <2>1, <2>2
  <2>5. Len(P) = Len(due) - e /\ \A i \in 1 .. Len(P) : P[i] = e + i
    BY DEF OrderInv
  <2>6. \A i \in 1 .. Len(P') : P'[i] = e + 1 + i
    <3> SUFFICES ASSUME NEW i \in 1 .. Len(P') PROVE P'[i] = e + 1 + i
      OBVIOUS
    <3> HIDE DEF e
    <3>1. i + 1 \in 1 .. Len(P)
      BY <1>0, <2>4
    <3>2. P'[i] = e + (i + 1)
      BY <2>4, <2>5, <3>1, Zenon
    <3> QED
      BY <1>0, <3>2
  <2>7. Len(P') = Len(due) - (e + 1)
    BY <1>0, <2>4, <2>5
  <2> QED
    BY <2>1, <2>3, <2>6, <2>7 DEF OrderInv
<1>10. CASE Tick
  <2>1. /\ UNCHANGED << m_pending_messages, gone, pc >>
        /\ due' = [i \in 1 .. Len(due) |-> IF due[i] = 0 THEN 0 ELSE due[i] - 1]
    BY <1>0, <1>10 DEF Tick
  <2>2. Len(due') = Len(due)
    BY <1>0, <2>1
  <2> QED
    BY <1>1, <2>1, <2>2 DEF Started
<1> QED
  BY <1>2, <1>3, <1>4, <1>5, <1>6, <1>7, <1>8, <1>9, <1>10, StepCases

----------------------------------------------------------------------------
(* Events and the time the messages have waited.                            *)

LEMMA CountsFinite ==
    ASSUME ListType, NEW k \in Nat
    PROVE  /\ IsFiniteSet(DueBy(k)) /\ Cardinality(DueBy(k)) \in Nat
           /\ IsFiniteSet(QueuedBy(k)) /\ Cardinality(QueuedBy(k)) \in Nat
<1> DEFINE n == Len(due) - One(delay # NoEvent)
<1>1. n \in Int
  BY DEF ListType, One
<1>2. IsFiniteSet(1 .. n)
  <2> HIDE DEF n
  <2> QED
    BY <1>1, FS_Interval
<1>3. DueBy(k) \in SUBSET (1 .. n)
  BY DEF DueBy
<1>4. QueuedBy(k) \in SUBSET Timer!Queued
  BY DEF QueuedBy
<1> HIDE DEF n
<1>5. IsFiniteSet(DueBy(k)) /\ IsFiniteSet(QueuedBy(k))
  BY <1>2, <1>3, <1>4, QueuedFinite, FS_Subset
<1> QED
  BY <1>5, FS_CardinalityType

\* A step that leaves messages and events where they are.
LEMMA SameCounts ==
    ASSUME CountInv, UNCHANGED << due, delay, m_queued_events >>, Fired' = Fired
    PROVE  CountInv'
<1>1. ASSUME NEW k \in Nat PROVE DueBy(k)' = DueBy(k) /\ QueuedBy(k)' = QueuedBy(k)
  BY QueuedSame DEF DueBy, QueuedBy
<1> QED
  BY <1>1 DEF CountInv

\* The message that was listed gets its event.
LEMMA CountSchedule ==
    ASSUME ListType, ListType', LockInv, CountInv, NEW t \in Threads, Schedule(t)
    PROVE  CountInv'
<1>1. /\ delay \in Nat /\ delay # NoEvent /\ delay' = NoEvent /\ UNCHANGED << due, gone >>
      /\ t # Handler /\ Goto(t, "idle") /\ Len(due) \in Nat
  BY TimerAssumption DEF ListType, LockInv, Schedule
<1>2. Len(due) > 0 /\ due[Len(due)] <= delay /\ due[Len(due)] \in Nat
  BY <1>1 DEF ListType, CountInv
<1>3. Fired' = Fired /\ Fired \in Nat
  <2>1. UNCHANGED count
    BY DEF Schedule, Timer!Schedule, timerVars, liveVars, Timer!handlerVars
  <2>2. pc'[Handler] = pc[Handler]
    BY <1>1 DEF Goto, ListType, Threads, Timer!Threads
  <2> QED
    BY <1>1, <2>1, <2>2 DEF Fired, Handling, Started, ListType, One
<1>4. ASSUME NEW k \in Nat
      PROVE  Fired' + Cardinality(QueuedBy(k)') <= Cardinality(DueBy(k)')
  <2>1. /\ IsFiniteSet(DueBy(k)) /\ Cardinality(DueBy(k)) \in Nat
        /\ IsFiniteSet(QueuedBy(k)) /\ Cardinality(QueuedBy(k)) \in Nat
    BY CountsFinite
  <2>2. Fired + Cardinality(QueuedBy(k)) <= Cardinality(DueBy(k))
    BY DEF CountInv
  <2>3. Len(due) \notin DueBy(k)
    BY <1>1 DEF DueBy, One
  <2>4. DueBy(k)' = IF due[Len(due)] <= k THEN DueBy(k) \cup {Len(due)} ELSE DueBy(k)
    BY <1>1, <1>2 DEF DueBy, One
  <2>5. Cardinality(DueBy(k)') =
            IF due[Len(due)] <= k THEN Cardinality(DueBy(k)) + 1 ELSE Cardinality(DueBy(k))
    <3>1. Cardinality(DueBy(k) \cup {Len(due)}) = Cardinality(DueBy(k)) + 1
      BY <2>1, <2>3, FS_AddElement
    <3> QED
      BY <2>4, <3>1, Zenon
  <2>6. CASE m_fd = "closed"
    <3>1. UNCHANGED m_queued_events
      BY <2>6 DEF Schedule, Timer!Schedule, timerVars, liveVars
    <3>2. QueuedBy(k)' = QueuedBy(k)
      BY <3>1, QueuedSame DEF QueuedBy
    <3> QED
      BY <1>3, <2>1, <2>2, <2>5, <3>2
  <2>7. CASE m_fd # "closed"
    <3>1. PICK s \in Slots \ Timer!Queued :
              /\ m_queued_events' = [m_queued_events EXCEPT ![s] = delay]
              /\ Timer!Queued' = Timer!Queued \cup {s}
      BY <2>7, ScheduleAdds
    <3>2. s \notin QueuedBy(k)
      BY DEF QueuedBy
    <3>3. /\ m_queued_events'[s] = delay
          /\ \A u \in Timer!Queued : m_queued_events'[u] = m_queued_events[u]
      BY <3>1 DEF ListType, Timer!Queued
    <3>4. QueuedBy(k)' = IF delay <= k THEN QueuedBy(k) \cup {s} ELSE QueuedBy(k)
      BY <3>1, <3>3 DEF QueuedBy
    <3>5. Cardinality(QueuedBy(k)') =
              IF delay <= k THEN Cardinality(QueuedBy(k)) + 1 ELSE Cardinality(QueuedBy(k))
      <4>1. Cardinality(QueuedBy(k) \cup {s}) = Cardinality(QueuedBy(k)) + 1
        BY <2>1, <3>2, FS_AddElement
      <4> QED
        BY <3>4, <4>1, Zenon
    <3> QED
      BY <1>1, <1>2, <1>3, <2>1, <2>2, <2>5, <3>5
  <2> QED
    BY <2>6, <2>7
<1> QED
  BY <1>1, <1>4 DEF CountInv

\* Events that are collected count as fired.
LEMMA CountCollect ==
    ASSUME ListType, LockInv, CountInv, Collects
    PROVE  CountInv'
<1>1. /\ count = 0 /\ UNCHANGED << due, delay, gone, pc >>
  BY DEF LockInv, Collects, Timer!Collect, Timer!InCallbacks, senderVars, sendVars
<1> DEFINE d == Cardinality(Timer!Due)
<1>2. d \in Nat /\ IsFiniteSet(Timer!Due)
  BY QueuedFinite
<1>3. Fired' = Fired + d /\ Fired \in Nat
  <2>1. count' = d
    BY CollectTakes
  <2> QED
    BY <1>1, <1>2, <2>1 DEF Fired, Handling, Started, One, ListType
<1>4. ASSUME NEW k \in Nat
      PROVE  Fired' + Cardinality(QueuedBy(k)') <= Cardinality(DueBy(k)')
  <2>1. IsFiniteSet(QueuedBy(k)) /\ Cardinality(QueuedBy(k)) \in Nat /\ Cardinality(DueBy(k)) \in Nat
    BY CountsFinite
  <2>2. DueBy(k)' = DueBy(k)
    BY <1>1 DEF DueBy
  <2>3. QueuedBy(k)' = QueuedBy(k) \ Timer!Due
    BY CollectTakes DEF QueuedBy
  <2>4. QueuedBy(k) \cap Timer!Due = Timer!Due
    BY DEF QueuedBy, Timer!Due, Timer!Queued, ListType
  <2>5. Cardinality(QueuedBy(k) \ Timer!Due)
            = Cardinality(QueuedBy(k)) - Cardinality(QueuedBy(k) \cap Timer!Due)
    BY <2>1, FS_Difference, Zenon
  <2>6. Cardinality(QueuedBy(k)') = Cardinality(QueuedBy(k)) - d
    BY <2>3, <2>4, <2>5, Zenon
  <2>7. Fired + Cardinality(QueuedBy(k)) <= Cardinality(DueBy(k))
    BY DEF CountInv
  <2> HIDE DEF d
  <2> QED
    BY <1>2, <1>3, <2>1, <2>2, <2>6, <2>7
<1> QED
  BY <1>1, <1>4 DEF CountInv

\* A millisecond passes for both lists alike.
LEMMA CountTick ==
    ASSUME ListType, CountInv, Tick
    PROVE  CountInv'
<1>1. /\ UNCHANGED << count, delay, gone, pc >>
      /\ due' = [i \in 1 .. Len(due) |-> IF due[i] = 0 THEN 0 ELSE due[i] - 1]
  BY DEF ListType, Tick, Timer!Tick
<1>2. /\ Len(due) \in Nat /\ Len(due') = Len(due)
      /\ \A i \in 1 .. Len(due) : due[i] \in Nat /\ due'[i] = IF due[i] = 0 THEN 0 ELSE due[i] - 1
  BY <1>1 DEF ListType
<1>3. Fired' = Fired
  BY <1>1 DEF Fired, Handling, Started
<1>4. ASSUME NEW k \in Nat PROVE DueBy(k)' = DueBy(k + 1) /\ QueuedBy(k)' = QueuedBy(k + 1)
  <2>1. DueBy(k)' = DueBy(k + 1)
    <3> DEFINE n == Len(due) - One(delay # NoEvent)
    <3>1. n \in Int /\ n <= Len(due) /\ (Len(due) - One(delay # NoEvent))' = n
      BY <1>1, <1>2 DEF One
    <3>2. \A i \in 1 .. n : due'[i] <= k <=> due[i] <= k + 1
      <4> HIDE DEF n
      <4> QED
        BY <1>2, <3>1
    <3> HIDE DEF n
    <3>3. DueBy(k)' = {i \in 1 .. n : due'[i] <= k}
      BY <3>1 DEF DueBy
    <3>4. DueBy(k + 1) = {i \in 1 .. n : due[i] <= k + 1}
      BY DEF DueBy, n
    <3> QED
      BY <3>2, <3>3, <3>4
  <2>2. QueuedBy(k)' = QueuedBy(k + 1)
    BY TickShifts DEF QueuedBy, Timer!Queued, ListType
  <2> QED
    BY <2>1, <2>2
<1>5. \A k \in Nat : Fired + Cardinality(QueuedBy(k + 1)) <= Cardinality(DueBy(k + 1))
  BY DEF CountInv
<1>6. delay' # NoEvent => Len(due') > 0 /\ due'[Len(due')] <= delay'
  <2> SUFFICES ASSUME delay # NoEvent PROVE Len(due) > 0 /\ due'[Len(due)] <= delay
    BY <1>1, <1>2
  <2>1. Len(due) > 0 /\ due[Len(due)] <= delay /\ delay \in Nat
    BY DEF CountInv, ListType
  <2> QED
    BY <1>2, <2>1
<1> QED
  BY <1>3, <1>4, <1>5, <1>6 DEF CountInv

LEMMA CountStep ==
    ASSUME ListType, ListType', LockInv, EventPerMessage, CountInv, Next
    PROVE  CountInv'
<1>0. Len(gone) \in Nat /\ count \in Nat /\ Len(due) \in Nat
  BY DEF ListType
<1>1. CASE Quiet
  BY <1>1, SameCounts DEF Quiet, Fired
<1>2. ASSUME NEW t \in Callers, Send(t) PROVE CountInv'
  <2>1. /\ delay = NoEvent /\ delay' # NoEvent /\ delay' = m_delay
        /\ due' = Append(due, m_delay) /\ m_delay \in Nat
        /\ UNCHANGED << m_queued_events, count, gone >>
    BY <1>2, TimerAssumption
    DEF LockInv, Send, ListType, Threads, Timer!Threads, timerVars, liveVars
  <2>2. Fired' = Fired
    BY <1>2, <2>1, TimerAssumption DEF Fired, Handling, Started, Send, Goto, ListType
  <2>3. /\ Len(due') = Len(due) + 1 /\ due'[Len(due) + 1] = m_delay
        /\ \A i \in 1 .. Len(due) : due'[i] = due[i]
    BY <2>1 DEF ListType
  <2>4. ASSUME NEW k \in Nat PROVE DueBy(k)' = DueBy(k) /\ QueuedBy(k)' = QueuedBy(k)
    <3>1. /\ Len(due) - One(delay # NoEvent) = Len(due)
          /\ Len(due') - One(delay' # NoEvent) = Len(due)
      BY <1>0, <2>1, <2>3 DEF One
    <3>2. DueBy(k)' = DueBy(k)
      BY <2>3, <3>1 DEF DueBy
    <3> QED
      BY <2>1, <3>2, QueuedSame DEF QueuedBy
  <2>5. Len(due') > 0 /\ due'[Len(due')] <= delay'
    BY <1>0, <2>1, <2>3
  <2> QED
    BY <2>2, <2>4, <2>5 DEF CountInv
<1>3. ASSUME NEW t \in Threads, Schedule(t) PROVE CountInv'
  BY <1>3, CountSchedule
<1>4. CASE Collects
  BY <1>4, CountCollect
<1>5. CASE OnTimeEvent
  <2>1. /\ pc[Handler] = "idle" /\ pc'[Handler] = "lock" /\ count' = count - 1
        /\ UNCHANGED << m_queued_events, due, delay, gone >>
    BY <1>5 DEF OnTimeEvent, Timer!OnTimeEvent, Goto, LockInv, Handling, ListType, Threads,
                Timer!Threads, Timer!queueVars, sendVars
  <2>2. Fired' = Fired
    BY <1>0, <2>1 DEF Fired, Handling, Started, One
  <2> QED
    BY <2>1, <2>2, SameCounts
<1>6. CASE (LockAndCheck /\ gone' # gone) \/ SendPending
  <2>1. /\ Handling /\ ~ Started /\ Started'
        /\ UNCHANGED << m_queued_events, count, due, delay >>
        /\ gone' = Append(gone, Head(m_pending_messages))
    BY <1>6 DEF LockAndCheck, SendPending, SendFails, Goto, Handling, Started, ListType, Threads,
                Timer!Threads, timerVars, liveVars
  <2>2. Len(gone') = Len(gone) + 1
    BY <2>1, HandlingHasMessage DEF ListType
  <2>3. Fired' = Fired
    BY <1>0, <2>1, <2>2 DEF Fired, One
  <2> QED
    BY <2>1, <2>3, SameCounts
<1>7. CASE LockAndCheck /\ gone' = gone
  <2>1. Handling /\ ~ Started /\ Handling' /\ ~ Started'
    <3>1. gone # Append(gone, Head(m_pending_messages)) \/ m_pending_messages = << >>
      BY DEF ListType
    <3> QED
      BY <1>7, <3>1 DEF LockAndCheck, Goto, Handling, Started, ListType, Threads, Timer!Threads
  <2>2. UNCHANGED << m_queued_events, count, due, delay, gone >>
    BY <1>7 DEF LockAndCheck, liveVars
  <2> QED
    BY <2>1, <2>2, SameCounts DEF Fired
<1>8. CASE Erase
  <2>1. /\ Started /\ ~ Handling'
        /\ UNCHANGED << m_queued_events, count, due, delay, gone >>
    BY <1>8 DEF Erase, Goto, Handling, Started, ListType, Threads, Timer!Threads, timerVars,
                liveVars
  <2> QED
    BY <2>1, SameCounts DEF Fired, One
<1>9. CASE Tick
  BY <1>9, CountTick
<1> QED
  BY <1>1, <1>2, <1>3, <1>4, <1>5, <1>6, <1>7, <1>8, <1>9, StepCases

----------------------------------------------------------------------------
(* The theorems.                                                            *)

LEMMA DelayStep == DelayInv /\ [Next]_vars => DelayInv'
<1> SUFFICES ASSUME DelayInv, [Next]_vars PROVE DelayInv'
  OBVIOUS
<1>1. CASE Next
  BY <1>1, ListTypeStep, LockStep, EventStep, OrderStep, CountStep DEF DelayInv
<1>2. CASE UNCHANGED vars
  <2> USE <1>2 DEF vars, timerVars, liveVars, senderVars, sendVars, sockVars
  <2>1. ListType' /\ LockInv'
    BY DEF DelayInv, ListType, LockInv, Handling, Timer!InCallbacks
  <2>2. EventPerMessage'
    BY QueuedSame DEF DelayInv, EventPerMessage, Events, Scheduled
  <2>3. OrderInv'
    BY DEF DelayInv, OrderInv, Started
  <2>4. CountInv'
    BY SameCounts DEF DelayInv, Fired, Handling, Started
  <2> QED
    BY <2>1, <2>2, <2>3, <2>4 DEF DelayInv
<1> QED
  BY <1>1, <1>2

\* on_time_event() never finds the list empty, and while the timer is open
\* every message that was scheduled has an event of its own, for any number of
\* threads that send, close and change the delay.
THEOREM EveryEventHasMessage == Spec => []EventPerMessage
<1>1. DelayInv => EventPerMessage
  BY DEF DelayInv
<1> QED
  BY <1>1, InitList, DelayStep, PTL DEF Spec

\* Delayed messages leave in the order of send(), the n-th one not before the
\* delays of n messages have passed: Send is Accept, a message that is sent or
\* discarded is Leave, and a millisecond is Pass.
THEOREM ImplementsDelayLine == Spec => DelayLineSpec
<1>1. Init => Line!Init
  BY DEF Init, Line!Init
<1>2. DelayInv /\ [Next]_vars => [Line!Accept \/ Line!Pass \/ Line!Leave]_<< due, gone >>
  <2> SUFFICES ASSUME DelayInv, [Next]_vars, ~ UNCHANGED << due, gone >>
               PROVE  Line!Accept \/ Line!Pass \/ Line!Leave
    OBVIOUS
  <2>0. Next /\ ListType /\ LockInv /\ EventPerMessage /\ OrderInv /\ CountInv
    BY DEF DelayInv, vars, senderVars, sendVars
  <2>1. ASSUME NEW t \in Callers, Send(t) PROVE Line!Accept
    BY <2>0, <2>1 DEF Send, Line!Accept, ListType
  <2>2. CASE Tick
    <3>1. DOMAIN due = 1 .. Len(due)
      BY <2>0 DEF ListType
    <3> QED
      BY <2>2, <3>1 DEF Tick, Line!Pass
  <2>3. CASE LockAndCheck \/ SendPending
    <3>1. /\ Handling /\ ~ Started /\ UNCHANGED due
          /\ gone' = Append(gone, Head(m_pending_messages))
      BY <2>3 DEF LockAndCheck, SendPending, Handling, Started
    <3>2. Head(m_pending_messages) = Len(gone) + 1
      <4>1. /\ m_pending_messages \in Seq(Nat) /\ Len(m_pending_messages) \in Nat \ {0}
            /\ Len(gone) \in Nat /\ m_pending_messages # << >>
        BY <2>0, <3>1, HandlingHasMessage DEF ListType
      <4>2. \A i \in 1 .. Len(m_pending_messages) : m_pending_messages[i] = Len(gone) - 0 + i
        BY <2>0, <3>1 DEF OrderInv, One
      <4>3. Head(m_pending_messages) = m_pending_messages[1]
        BY <4>1
      <4> QED
        BY <4>1, <4>2, <4>3
    <3>3. Len(gone) < Cardinality(Line!Overdue)
      <4>1. DueBy(0) \in SUBSET Line!Overdue
        BY <2>0 DEF DueBy, Line!Overdue, One, ListType
      <4>2. IsFiniteSet(Line!Overdue)
        <5>1. Line!Overdue \in SUBSET (1 .. Len(due)) /\ Len(due) \in Int
          BY <2>0 DEF Line!Overdue, ListType
        <5>2. IsFiniteSet(1 .. Len(due))
          BY <5>1, FS_Interval
        <5> QED
          BY <5>1, <5>2, FS_Subset
      <4>3. Cardinality(DueBy(0)) <= Cardinality(Line!Overdue) /\ Cardinality(Line!Overdue) \in Nat
        BY <4>1, <4>2, FS_Subset, FS_CardinalityType
      <4>4. Fired + Cardinality(QueuedBy(0)) <= Cardinality(DueBy(0))
        BY <2>0 DEF CountInv
      <4>5. Cardinality(QueuedBy(0)) \in Nat /\ Cardinality(DueBy(0)) \in Nat
        BY <2>0, CountsFinite
      <4>6. Len(gone) + 1 <= Fired /\ Fired \in Nat /\ Len(gone) \in Nat
        BY <2>0, <3>1 DEF Fired, One, ListType
      <4> QED
        BY <4>3, <4>4, <4>5, <4>6
    <3>4. Len(gone) < Line!Cardinality(Line!Overdue)
      BY <3>3, SameCardinality, Zenon
    <3> QED
      BY <3>1, <3>2, <3>4 DEF Line!Leave
  <2>4. ASSUME Quiet \/ (\E t \in Threads : Schedule(t)) \/ Collects \/ OnTimeEvent \/ Erase
        PROVE  FALSE
    BY <2>4 DEF Quiet, Schedule, Collects, OnTimeEvent, Erase, senderVars, sendVars
  <2> QED
    BY <2>0, <2>1, <2>2, <2>3, <2>4, StepCases
<1> QED
  BY <1>1, <1>2, InitList, DelayStep, PTL DEF Spec, DelayLineSpec, Line!Spec
=============================================================================
