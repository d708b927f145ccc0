----------------------- MODULE TimeEventListenerProofs -----------------------
(***************************************************************************)
(* Proofs about TimeEventListener, for any number of threads, any bound on *)
(* queued events and any delays.  PastInv says why the handler never finds *)
(* an event in the past with the timer disarmed, whatever happens to the   *)
(* wall clock; ClockInv says what holds while the clock is not set.        *)
(***************************************************************************)
EXTENDS TimeEventListener, TLAPS, FiniteSetTheorems, WellFoundedInduction

----------------------------------------------------------------------------
(* The inductive invariants.                                                *)

\* A worker that was sent to read the timerfd will find it running or expired,
\* and one that waits in read() keeps it open.
ReaderInv ==
    /\ hpc \in {"lookup", "read", "blocked"} /\ m_fd # "closed"
          => left # NoEvent \/ ticks > 0
    /\ hpc = "blocked" => m_fd # "closed"

\* During the callbacks of a wakeup a disarmed timer has only events that are
\* later than the handler's copy of the clock.
PastInv ==
    InCallbacks /\ m_fd # "closed" /\ left = NoEvent /\ ticks = 0
        => \A s \in Queued : m_queued_events[s] + stale > 0

\* NoLostTimer made inductive.
TimerInv == TypeOK /\ NoLostTimer /\ ReaderInv /\ PastInv

\* On a clock that is not set the handler's copy is at most MaxStall old, no
\* event is before it, and the timer covers every queued event.
ClockInv ==
    steps = 0 =>
        /\ stale \in 0 .. MaxStall
        /\ InCallbacks => \A s \in Queued : m_queued_events[s] + stale >= 0
        /\ Queued # {} /\ m_fd # "closed" /\ ~ InCallbacks /\ ticks = 0
              => left # NoEvent /\ \A s \in Queued : left <= m_queued_events[s] + MaxStall
        /\ fatal # "past"

----------------------------------------------------------------------------
(* The first queued event.                                                  *)

\* Among finitely many slots with a time there is one with the earliest time.
\* A smallest set of slots without one would lose a slot and still be without.
LEMMA EarliestSlot ==
    ASSUME NEW S, IsFiniteSet(S), S # {}, NEW f, \A s \in S : f[s] \in Int
    PROVE  \E x \in S : \A y \in S : f[x] <= f[y]
<1> DEFINE HasMin(A) == \E x \in A : \A y \in A : f[x] <= f[y]
           Bad == {A \in SUBSET S : A # {} /\ ~ HasMin(A)}
<1>1. ASSUME Bad # {} PROVE FALSE
  <2>1. IsWellFoundedOn(StrictSubsetOrdering(S), SUBSET S)
    BY FS_StrictSubsetOrderingWellFounded, FS_FiniteSubsetsOfFinite
  <2>2. Bad \subseteq SUBSET S
    OBVIOUS
  <2>3. PICK A \in Bad : \A B \in Bad : ~ (<< B, A >> \in StrictSubsetOrdering(S))
    <3> HIDE DEF Bad
    <3> QED
      BY <1>1, <2>1, <2>2, WFMin
  <2>4. PICK a \in A : TRUE
    BY <2>3
  <2> DEFINE B == A \ {a}
  <2>5. A \in SUBSET S /\ B \in SUBSET S /\ B # A /\ B \subseteq A
    BY <2>3, <2>4
  <2>6. B \notin Bad
    <3> HIDE DEF Bad, B
    <3> QED
      BY <2>3, <2>5 DEF StrictSubsetOrdering
  <2>7. CASE B = {}
    <3>1. A = {a} /\ f[a] \in Int
      BY <2>4, <2>5, <2>7
    <3>2. HasMin(A)
      BY <3>1
    <3> QED
      BY <2>3, <3>2
  <2>8. CASE B # {}
    <3>1. PICK b \in B : \A y \in B : f[b] <= f[y]
      BY <2>5, <2>6, <2>8
    <3>2. f[a] \in Int /\ \A y \in B : f[y] \in Int
      BY <2>3, <2>4, <2>5
    <3>3. CASE f[a] <= f[b]
      <4>1. \A y \in A : f[a] <= f[y]
        BY <3>1, <3>2, <3>3
      <4> QED
        BY <2>3, <2>4, <4>1
    <3>4. CASE f[b] <= f[a]
      <4>1. \A y \in A : f[b] <= f[y]
        BY <3>1, <3>2, <3>4
      <4> QED
        BY <2>3, <3>1, <4>1
    <3> QED
      BY <3>1, <3>2, <3>3, <3>4
  <2> QED
    BY <2>7, <2>8
<1> QED
  BY <1>1

\* *m_queued_events.begin() is a queued time and no later than the others.
LEMMA FrontIsFirst ==
    ASSUME TypeOK, Queued # {}
    PROVE  /\ Front \in Int
           /\ \E s \in Queued : Front = m_queued_events[s]
           /\ \A s \in Queued : Front <= m_queued_events[s]
<1>1. IsFiniteSet(Queued) /\ \A s \in Queued : m_queued_events[s] \in Int
  BY SlotsAssumption, FS_Subset DEF Queued, TypeOK
<1>2. PICK x \in Queued : \A y \in Queued : m_queued_events[x] <= m_queued_events[y]
  BY <1>1, EarliestSlot
<1>3. \E e \in {m_queued_events[s] : s \in Queued} : \A s \in Queued : e <= m_queued_events[s]
  BY <1>2
<1>4. /\ Front \in {m_queued_events[s] : s \in Queued}
      /\ \A s \in Queued : Front <= m_queued_events[s]
  BY <1>3 DEF Front
<1> QED
  BY <1>1, <1>4

----------------------------------------------------------------------------
(* Steps.                                                                   *)

\* Queued events have a time, free slots have none.
LEMMA QueuedTimes ==
    ASSUME TypeOK
    PROVE  /\ Queued \subseteq Slots
           /\ \A s \in Queued : m_queued_events[s] \in Int
           /\ \A s \in Slots : s \notin Queued => m_queued_events[s] = NoEvent
  BY DEF TypeOK, Queued

\* The number of events that are due is a natural number.
LEMMA DueFinite == Cardinality(Due) \in Nat
  BY SlotsAssumption, FS_Subset, FS_CardinalityType DEF Due, Queued

\* Every step keeps every variable in its type.
LEMMA TypeOKStep ==
    ASSUME TypeOK, Next
    PROVE  TypeOK'
<1> USE ThreadsAssumption, TimesAssumption DEF TypeOK, queueVars, loopVars, handlerVars
<1>1. ASSUME NEW t \in Threads, NEW delay \in Delays, Schedule(t, delay) PROVE TypeOK'
  BY <1>1 DEF Schedule, internal_schedule
<1>2. ASSUME NEW t \in Threads, Unschedule(t) PROVE TypeOK'
  BY <1>2 DEF Unschedule
<1>3. ASSUME NEW t \in Threads, CloseSocket(t) PROVE TypeOK'
  BY <1>3 DEF CloseSocket
<1>4. ASSUME NEW t \in Threads, Unregister(t) PROVE TypeOK'
  BY <1>4 DEF Unregister
<1>5. ASSUME Register PROVE TypeOK'
  BY <1>5 DEF Register
<1>6. ASSUME Wake PROVE TypeOK'
  BY <1>6 DEF Wake
<1>7. ASSUME Lookup PROVE TypeOK'
  BY <1>7 DEF Lookup
<1>8. ASSUME OnReadReady PROVE TypeOK'
  <2>1. /\ m_queued_events' \in [Slots -> Int \cup {NoEvent}]
        /\ Cardinality(Due) \in Nat
    BY <1>8, DueFinite DEF OnReadReady, Collect
  <2> QED
    BY <1>8, <2>1 DEF OnReadReady, Collect
<1>9. ASSUME ReadBlocks PROVE TypeOK'
  BY <1>9 DEF ReadBlocks
<1>10. ASSUME ReadResumes PROVE TypeOK'
  <2>1. /\ m_queued_events' \in [Slots -> Int \cup {NoEvent}]
        /\ Cardinality(Due) \in Nat
    BY <1>10, DueFinite DEF ReadResumes, Collect
  <2> QED
    BY <1>10, <2>1 DEF ReadResumes, Collect
<1>11. ASSUME ReadFails PROVE TypeOK'
  BY <1>11 DEF ReadFails
<1>12. ASSUME OnTimeEvent PROVE TypeOK'
  BY <1>12 DEF OnTimeEvent
<1>13. ASSUME CallbackReturn PROVE TypeOK'
  BY <1>13 DEF CallbackReturn
<1>14. ASSUME Rearm PROVE TypeOK'
  <2>1. CASE More /\ ~ Past
    <3>1. NextDelay \in Nat
      BY <2>1, FrontIsFirst DEF More, Past, NextDelay
    <3> QED
      BY <1>14, <2>1, <3>1 DEF Rearm, internal_schedule
  <2>2. CASE ~ (More /\ ~ Past)
    BY <1>14, <2>2 DEF Rearm
  <2> QED
    BY <2>1, <2>2
<1>15. ASSUME Valid PROVE TypeOK'
  BY <1>15 DEF Valid
<1>16. ASSUME Notify PROVE TypeOK'
  BY <1>16 DEF Notify
<1>17. ASSUME Expire PROVE TypeOK'
  BY <1>17 DEF Expire
<1>18. ASSUME Tick PROVE TypeOK'
  <2>1. m_queued_events' \in [Slots -> Int \cup {NoEvent}]
    BY <1>18, QueuedTimes DEF Tick
  <2>2. left' \in Nat \cup {NoEvent} /\ stale' \in Int
    BY <1>18 DEF Tick
  <2> QED
    BY <1>18, <2>1, <2>2 DEF Tick
<1>19. ASSUME NEW k \in ClockSteps, ClockStep(k) PROVE TypeOK'
  <2>1. m_queued_events' \in [Slots -> Int \cup {NoEvent}] /\ stale' \in Int
    BY <1>19, QueuedTimes DEF ClockStep
  <2> QED
    BY <1>19, <2>1 DEF ClockStep
<1> HIDE DEF TypeOK
<1> QED
  BY <1>1, <1>2, <1>3, <1>4, <1>5, <1>6, <1>7, <1>8, <1>9, <1>10, <1>11,
       <1>12, <1>13, <1>14, <1>15, <1>16, <1>17, <1>18, <1>19 DEF Next,
       Operation, HandlerStep

\* schedule() puts one more time into the queue.
LEMMA QueuedSchedule ==
    ASSUME TypeOK, NEW t \in Threads, NEW delay \in Delays, Schedule(t, delay)
    PROVE  \E s \in Slots \ Queued :
              /\ Queued' = Queued \cup {s}
              /\ m_queued_events'[s] = delay
              /\ \A r \in Queued : m_queued_events'[r] = m_queued_events[r]
  BY TimesAssumption DEF Schedule, TypeOK, Queued

\* Setting the clock by k, or letting it run for one millisecond, brings every
\* queued event as much closer and neither adds nor removes one.
LEMMA QueuedShift ==
    ASSUME TypeOK, NEW k \in Int,
           m_queued_events' =
              [s \in Slots |-> IF s \in Queued THEN m_queued_events[s] - k ELSE NoEvent]
    PROVE  Queued' = Queued /\ \A s \in Queued : m_queued_events'[s] = m_queued_events[s] - k
<1>1. \A s \in Queued : m_queued_events[s] - k \in Int
  BY QueuedTimes
<1> QED
  BY <1>1, QueuedTimes, TimesAssumption DEF Queued

\* After the due events left, the others are later than the clock.
LEMMA QueuedCollect ==
    ASSUME TypeOK, Collect
    PROVE  /\ Queued' \subseteq Queued
           /\ \A s \in Queued' : m_queued_events'[s] = m_queued_events[s] /\ m_queued_events[s] > 0
<1>1. \A s \in Slots : m_queued_events'[s] = IF s \in Due THEN NoEvent ELSE m_queued_events[s]
  BY DEF Collect
<1>2. \A s \in Queued' : s \in Slots /\ s \notin Due /\ s \in Queued
  BY <1>1 DEF Queued
<1> QED
  BY <1>1, <1>2, QueuedTimes DEF Due

\* The worker that reads the timerfd finds it running or expired.
LEMMA ReaderStep ==
    ASSUME TypeOK, ReaderInv, Next
    PROVE  ReaderInv'
<1> USE TimesAssumption DEF TypeOK, ReaderInv, queueVars, loopVars, handlerVars, MutexFree
<1>1. ASSUME NEW t \in Threads, NEW delay \in Delays, Schedule(t, delay) PROVE ReaderInv'
  <2>1. delay # NoEvent
    OBVIOUS
  <2> QED
    BY <1>1, <2>1 DEF Schedule, internal_schedule
<1>2. ASSUME NEW t \in Threads, Unschedule(t) PROVE ReaderInv'
  BY <1>2 DEF Unschedule
<1>3. ASSUME NEW t \in Threads, CloseSocket(t) PROVE ReaderInv'
  BY <1>3 DEF CloseSocket
<1>4. ASSUME NEW t \in Threads, Unregister(t) PROVE ReaderInv'
  BY <1>4 DEF Unregister
<1>5. ASSUME Register PROVE ReaderInv'
  BY <1>5 DEF Register
<1>6. ASSUME Wake PROVE ReaderInv'
  BY <1>6 DEF Wake
<1>7. ASSUME Lookup PROVE ReaderInv'
  BY <1>7 DEF Lookup
<1>8. ASSUME OnReadReady PROVE ReaderInv'
  BY <1>8 DEF OnReadReady, Collect
<1>9. ASSUME ReadBlocks PROVE ReaderInv'
  BY <1>9 DEF ReadBlocks
<1>10. ASSUME ReadResumes PROVE ReaderInv'
  BY <1>10 DEF ReadResumes, Collect
<1>11. ASSUME ReadFails PROVE ReaderInv'
  BY <1>11 DEF ReadFails
<1>12. ASSUME OnTimeEvent PROVE ReaderInv'
  BY <1>12 DEF OnTimeEvent
<1>13. ASSUME CallbackReturn PROVE ReaderInv'
  BY <1>13 DEF CallbackReturn
<1>14. ASSUME Rearm PROVE ReaderInv'
  BY <1>14 DEF Rearm
<1>15. ASSUME Valid PROVE ReaderInv'
  BY <1>15 DEF Valid
<1>16. ASSUME Notify PROVE ReaderInv'
  BY <1>16 DEF Notify
<1>17. ASSUME Expire PROVE ReaderInv'
  BY <1>17 DEF Expire
<1>18. ASSUME Tick PROVE ReaderInv'
  <2>1. left # NoEvent => left - 1 # NoEvent
    OBVIOUS
  <2> QED
    BY <1>18, <2>1 DEF Tick
<1>19. ASSUME NEW k \in ClockSteps, ClockStep(k) PROVE ReaderInv'
  BY <1>19 DEF ClockStep
<1> HIDE DEF ReaderInv
<1> QED
  BY <1>1, <1>2, <1>3, <1>4, <1>5, <1>6, <1>7, <1>8, <1>9, <1>10, <1>11,
       <1>12, <1>13, <1>14, <1>15, <1>16, <1>17, <1>18, <1>19 DEF Next,
       Operation, HandlerStep

\* The events behind a disarmed timer stay later than the handler's clock: what
\* a callback schedules sets the timer or is later than one of them.
LEMMA PastStep ==
    ASSUME TypeOK, PastInv, Next
    PROVE  PastInv'
<1> USE DEF PastInv, InCallbacks
<1>1. ASSUME NEW t \in Threads, NEW delay \in Delays, Schedule(t, delay) PROVE PastInv'
  <2>1. PICK s \in Slots \ Queued :
           /\ Queued' = Queued \cup {s}
           /\ m_queued_events'[s] = delay
           /\ \A r \in Queued : m_queued_events'[r] = m_queued_events[r]
    BY <1>1, QueuedSchedule
  <2>2. delay \in Int /\ delay # NoEvent /\ stale \in Int
    BY TimesAssumption DEF TypeOK
  <2>3. UNCHANGED << hpc, m_fd, stale >>
    BY <1>1 DEF Schedule, loopVars, handlerVars
  <2>4. CASE BringsForward(delay)
    BY <1>1, <2>2, <2>4 DEF Schedule, internal_schedule
  <2>5. CASE ~ BringsForward(delay)
    <3>1. PICK r \in Queued : m_queued_events[r] <= delay /\ m_queued_events[r] \in Int
      BY <2>2, <2>5, QueuedTimes DEF BringsForward
    <3>2. UNCHANGED << left, ticks >>
      BY <1>1, <2>5 DEF Schedule
    <3> QED
      BY <2>1, <2>2, <2>3, <3>1, <3>2
  <2> QED
    BY <2>4, <2>5
<1>2. ASSUME NEW t \in Threads, Unschedule(t) PROVE PastInv'
  BY <1>2 DEF Unschedule, Queued
<1>3. ASSUME NEW t \in Threads, CloseSocket(t) PROVE PastInv'
  BY <1>3 DEF CloseSocket
<1>4. ASSUME NEW t \in Threads, Unregister(t) PROVE PastInv'
  BY <1>4 DEF Unregister, Queued, queueVars, loopVars, handlerVars
<1>5. ASSUME Register PROVE PastInv'
  BY <1>5 DEF Register, Queued, queueVars, loopVars, handlerVars
<1>6. ASSUME Wake PROVE PastInv'
  BY <1>6 DEF Wake, Queued, queueVars, loopVars, handlerVars
<1>7. ASSUME Lookup PROVE PastInv'
  BY <1>7 DEF Lookup, Queued, queueVars, loopVars, handlerVars
<1>8. ASSUME OnReadReady PROVE PastInv'
  <2>1. stale' = 0 /\ \A s \in Queued' : m_queued_events'[s] \in Int /\ m_queued_events'[s] > 0
    BY <1>8, QueuedCollect, QueuedTimes DEF OnReadReady, Collect
  <2> QED
    BY <2>1
<1>9. ASSUME ReadBlocks PROVE PastInv'
  BY <1>9 DEF ReadBlocks, Queued, queueVars, loopVars, handlerVars
<1>10. ASSUME ReadResumes PROVE PastInv'
  <2>1. stale' = 0 /\ \A s \in Queued' : m_queued_events'[s] \in Int /\ m_queued_events'[s] > 0
    BY <1>10, QueuedCollect, QueuedTimes DEF ReadResumes, Collect
  <2> QED
    BY <2>1
<1>11. ASSUME ReadFails PROVE PastInv'
  BY <1>11 DEF ReadFails, Queued, queueVars, loopVars, handlerVars
<1>12. ASSUME OnTimeEvent PROVE PastInv'
  BY <1>12 DEF OnTimeEvent, Queued, queueVars, loopVars, handlerVars
<1>13. ASSUME CallbackReturn PROVE PastInv'
  BY <1>13 DEF CallbackReturn, Queued, queueVars, loopVars, handlerVars
<1>14. ASSUME Rearm PROVE PastInv'
  BY <1>14 DEF Rearm
<1>15. ASSUME Valid PROVE PastInv'
  BY <1>15 DEF Valid, Queued, queueVars, loopVars, handlerVars
<1>16. ASSUME Notify PROVE PastInv'
  BY <1>16 DEF Notify, Queued, queueVars, loopVars, handlerVars
<1>17. ASSUME Expire PROVE PastInv'
  BY <1>17 DEF Expire
<1>18. ASSUME Tick PROVE PastInv'
  <2>1. Queued' = Queued /\ \A s \in Queued : m_queued_events'[s] = m_queued_events[s] - 1
    BY <1>18, QueuedShift DEF Tick
  <2>2. UNCHANGED << hpc, m_fd, ticks >> /\ (left' = NoEvent => left = NoEvent)
    BY <1>18, TimesAssumption DEF Tick, loopVars, TypeOK
  <2>3. InCallbacks => stale' = stale + 1
    BY <1>18 DEF Tick
  <2>4. stale \in Int /\ \A s \in Queued : m_queued_events[s] \in Int
    BY QueuedTimes DEF TypeOK
  <2> QED
    BY <2>1, <2>2, <2>3, <2>4
<1>19. ASSUME NEW k \in ClockSteps, ClockStep(k) PROVE PastInv'
  <2>1. k \in Int
    BY TimesAssumption
  <2>2. Queued' = Queued /\ \A s \in Queued : m_queued_events'[s] = m_queued_events[s] - k
    BY <1>19, <2>1, QueuedShift DEF ClockStep
  <2>3. UNCHANGED << hpc, m_fd, left, ticks >> /\ (InCallbacks => stale' = stale + k)
    BY <1>19 DEF ClockStep, loopVars
  <2>4. stale \in Int /\ \A s \in Queued : m_queued_events[s] \in Int
    BY QueuedTimes DEF TypeOK
  <2> QED
    BY <2>1, <2>2, <2>3, <2>4
<1> HIDE DEF PastInv
<1> QED
  BY <1>1, <1>2, <1>3, <1>4, <1>5, <1>6, <1>7, <1>8, <1>9, <1>10, <1>11,
       <1>12, <1>13, <1>14, <1>15, <1>16, <1>17, <1>18, <1>19 DEF Next,
       Operation, HandlerStep

\* No step disarms the timer while it is needed.
LEMMA NoLostTimerStep ==
    ASSUME TypeOK, NoLostTimer, ReaderInv, PastInv, Next
    PROVE  NoLostTimer'
<1> USE DEF NoLostTimer, InCallbacks
<1>1. ASSUME NEW t \in Threads, NEW delay \in Delays, Schedule(t, delay) PROVE NoLostTimer'
  <2>1. delay # NoEvent /\ UNCHANGED << hpc, m_fd >> /\ hpc # "blocked"
    BY <1>1, TimesAssumption DEF Schedule, loopVars, handlerVars, MutexFree
  <2>2. CASE BringsForward(delay)
    BY <1>1, <2>1, <2>2 DEF Schedule, internal_schedule
  <2>3. CASE ~ BringsForward(delay)
    <3>1. Queued # {} /\ m_fd # "closed" /\ UNCHANGED << left, ticks >>
      BY <1>1, <2>3 DEF Schedule, BringsForward
    <3> QED
      BY <2>1, <3>1
  <2> QED
    BY <2>2, <2>3
<1>2. ASSUME NEW t \in Threads, Unschedule(t) PROVE NoLostTimer'
  BY <1>2 DEF Unschedule, Queued, handlerVars, MutexFree
<1>3. ASSUME NEW t \in Threads, CloseSocket(t) PROVE NoLostTimer'
  BY <1>3 DEF CloseSocket, handlerVars, MutexFree
<1>4. ASSUME NEW t \in Threads, Unregister(t) PROVE NoLostTimer'
  BY <1>4 DEF Unregister, Queued, queueVars, loopVars, handlerVars
<1>5. ASSUME Register PROVE NoLostTimer'
  BY <1>5 DEF Register, Queued, queueVars, loopVars, handlerVars
<1>6. ASSUME Wake PROVE NoLostTimer'
  BY <1>6 DEF Wake, Queued, queueVars, loopVars, handlerVars
<1>7. ASSUME Lookup PROVE NoLostTimer'
  BY <1>7 DEF Lookup, Queued, queueVars, loopVars, handlerVars
<1>8. ASSUME OnReadReady PROVE NoLostTimer'
  BY <1>8 DEF OnReadReady, Collect
<1>9. ASSUME ReadBlocks PROVE NoLostTimer'
  BY <1>9 DEF ReadBlocks, ReaderInv, queueVars, TypeOK
<1>10. ASSUME ReadResumes PROVE NoLostTimer'
  BY <1>10 DEF ReadResumes, Collect
<1>11. ASSUME ReadFails PROVE NoLostTimer'
  BY <1>11 DEF ReadFails, Queued, queueVars, loopVars, handlerVars
<1>12. ASSUME OnTimeEvent PROVE NoLostTimer'
  BY <1>12 DEF OnTimeEvent, Queued, queueVars, loopVars, handlerVars
<1>13. ASSUME CallbackReturn PROVE NoLostTimer'
  BY <1>13 DEF CallbackReturn, Queued, queueVars, loopVars, handlerVars
<1>14. ASSUME Rearm PROVE NoLostTimer'
  <2>1. CASE More /\ ~ Past
    <3>1. NextDelay # NoEvent
      BY <2>1, FrontIsFirst, TimesAssumption DEF More, NextDelay, TypeOK
    <3> QED
      BY <1>14, <2>1, <3>1 DEF Rearm, internal_schedule
  <2>2. CASE More /\ Past
    <3>1. PICK s \in Queued : m_queued_events[s] + stale < 0 /\ m_queued_events[s] \in Int
      BY <2>2, FrontIsFirst DEF More, Past, NextDelay
    <3>2. ~ (m_queued_events[s] + stale > 0)
      BY <3>1 DEF TypeOK
    <3>3. left # NoEvent \/ ticks > 0
      BY <1>14, <2>2, <3>1, <3>2 DEF Rearm, PastInv, More, TypeOK
    <3> QED
      BY <1>14, <2>2, <3>3 DEF Rearm
  <2>3. CASE ~ More
    BY <1>14, <2>3 DEF Rearm, More, Queued, loopVars
  <2> QED
    BY <2>1, <2>2, <2>3
<1>15. ASSUME Valid PROVE NoLostTimer'
  BY <1>15 DEF Valid, Queued, queueVars, loopVars, handlerVars
<1>16. ASSUME Notify PROVE NoLostTimer'
  BY <1>16 DEF Notify, Queued, queueVars, loopVars, handlerVars
<1>17. ASSUME Expire PROVE NoLostTimer'
  BY <1>17 DEF Expire
<1>18. ASSUME Tick PROVE NoLostTimer'
  <2>1. Queued' = Queued
    BY <1>18, QueuedShift DEF Tick
  <2>2. UNCHANGED << hpc, m_fd, ticks >> /\ (left' = NoEvent => left = NoEvent)
    BY <1>18, TimesAssumption DEF Tick, loopVars, TypeOK
  <2> QED
    BY <2>1, <2>2
<1>19. ASSUME NEW k \in ClockSteps, ClockStep(k) PROVE NoLostTimer'
  <2>1. Queued' = Queued
    BY <1>19, QueuedShift, TimesAssumption DEF ClockStep
  <2> QED
    BY <1>19, <2>1 DEF ClockStep, loopVars
<1> HIDE DEF NoLostTimer
<1> QED
  BY <1>1, <1>2, <1>3, <1>4, <1>5, <1>6, <1>7, <1>8, <1>9, <1>10, <1>11,
       <1>12, <1>13, <1>14, <1>15, <1>16, <1>17, <1>18, <1>19 DEF Next,
       Operation, HandlerStep

\* While the clock is not set, every step keeps the timer early enough and the
\* queued events after the handler's copy of the clock.
LEMMA ClockStepInv ==
    ASSUME TypeOK, ClockInv, Next
    PROVE  ClockInv'
<1>0. /\ stale \in Int /\ steps \in Nat /\ left \in Nat \cup {NoEvent}
      /\ MaxStall \in Nat /\ NoEvent \notin Int
      /\ \A s \in Queued : m_queued_events[s] \in Int
  BY QueuedTimes, TimesAssumption DEF TypeOK
<1> USE <1>0 DEF ClockInv, InCallbacks
<1>1. ASSUME NEW t \in Threads, NEW delay \in Delays, Schedule(t, delay) PROVE ClockInv'
  <2> SUFFICES ASSUME steps = 0 PROVE ClockInv'
    BY <1>1 DEF Schedule
  <2>1. PICK s \in Slots \ Queued :
           /\ Queued' = Queued \cup {s}
           /\ m_queued_events'[s] = delay
           /\ \A r \in Queued : m_queued_events'[r] = m_queued_events[r]
    BY <1>1, QueuedSchedule
  <2>2. delay \in Nat /\ UNCHANGED << hpc, m_fd, stale, steps, fatal >>
    BY <1>1, TimesAssumption DEF Schedule, loopVars, handlerVars
  <2>3. InCallbacks => \A r \in Queued' : m_queued_events'[r] + stale >= 0
    BY <2>1, <2>2
  <2>4. CASE BringsForward(delay)
    <3>1. left' = delay /\ \A r \in Queued' : delay <= m_queued_events'[r] + MaxStall
      BY <1>1, <2>1, <2>2, <2>4 DEF Schedule, internal_schedule, BringsForward
    <3> QED
      BY <2>2, <2>3, <3>1
  <2>5. CASE ~ BringsForward(delay)
    <3>1. PICK r \in Queued : m_queued_events[r] <= delay
      BY <2>2, <2>5 DEF BringsForward
    <3>2. UNCHANGED << left, ticks >>
      BY <1>1, <2>5 DEF Schedule
    <3>3. left # NoEvent /\ left <= m_queued_events[r] + MaxStall => left <= delay + MaxStall
      BY <2>2, <3>1
    <3> QED
      BY <2>1, <2>2, <2>3, <3>1, <3>2, <3>3
  <2> QED
    BY <2>4, <2>5
<1>2. ASSUME NEW t \in Threads, Unschedule(t) PROVE ClockInv'
  BY <1>2 DEF Unschedule, Queued, handlerVars, loopVars
<1>3. ASSUME NEW t \in Threads, CloseSocket(t) PROVE ClockInv'
  BY <1>3 DEF CloseSocket, handlerVars, Queued
<1>4. ASSUME NEW t \in Threads, Unregister(t) PROVE ClockInv'
  BY <1>4 DEF Unregister, Queued, queueVars, loopVars, handlerVars
<1>5. ASSUME Register PROVE ClockInv'
  BY <1>5 DEF Register, Queued, queueVars, loopVars, handlerVars
<1>6. ASSUME Wake PROVE ClockInv'
  BY <1>6 DEF Wake, Queued, queueVars, loopVars, handlerVars
<1>7. ASSUME Lookup PROVE ClockInv'
  BY <1>7 DEF Lookup, Queued, queueVars, loopVars, handlerVars
<1>8. ASSUME OnReadReady PROVE ClockInv'
  <2>1. stale' = 0 /\ \A s \in Queued' : m_queued_events'[s] \in Int /\ m_queued_events'[s] > 0
    BY <1>8, QueuedCollect, QueuedTimes DEF OnReadReady, Collect
  <2> QED
    BY <1>8, <2>1 DEF OnReadReady, Collect
<1>9. ASSUME ReadBlocks PROVE ClockInv'
  BY <1>9 DEF ReadBlocks, Queued, queueVars, loopVars, handlerVars
<1>10. ASSUME ReadResumes PROVE ClockInv'
  <2>1. stale' = 0 /\ \A s \in Queued' : m_queued_events'[s] \in Int /\ m_queued_events'[s] > 0
    BY <1>10, QueuedCollect, QueuedTimes DEF ReadResumes, Collect
  <2> QED
    BY <1>10, <2>1 DEF ReadResumes, Collect
<1>11. ASSUME ReadFails PROVE ClockInv'
  BY <1>11 DEF ReadFails, Queued, queueVars, loopVars, handlerVars
<1>12. ASSUME OnTimeEvent PROVE ClockInv'
  BY <1>12 DEF OnTimeEvent, Queued, queueVars, loopVars, handlerVars
<1>13. ASSUME CallbackReturn PROVE ClockInv'
  BY <1>13 DEF CallbackReturn, Queued, queueVars, loopVars, handlerVars
<1>14. ASSUME Rearm PROVE ClockInv'
  <2> SUFFICES ASSUME steps = 0 PROVE ClockInv'
    BY <1>14 DEF Rearm
  <2>1. /\ hpc = "fire" /\ hpc' = "valid" /\ stale' = 0
        /\ Queued' = Queued /\ UNCHANGED << m_fd, m_queued_events, steps >>
    BY <1>14 DEF Rearm, loopVars, Queued
  <2>2. CASE More
    <3>1. /\ Front \in Int /\ \A s \in Queued : Front <= m_queued_events[s]
          /\ \E s \in Queued : Front = m_queued_events[s]
      BY <2>2, FrontIsFirst DEF More
    <3>2. Front + stale >= 0
      BY <2>1, <3>1
    <3>3. left' = Front + stale /\ fatal' = fatal
      BY <1>14, <2>2, <3>1, <3>2 DEF Rearm, internal_schedule, Past, NextDelay
    <3>4. left' # NoEvent /\ \A s \in Queued : left' <= m_queued_events[s] + MaxStall
      BY <3>1, <3>3
    <3> QED
      BY <2>1, <3>3, <3>4
  <2>3. CASE ~ More
    BY <1>14, <2>1, <2>3 DEF Rearm, More
  <2> QED
    BY <2>2, <2>3
<1>15. ASSUME Valid PROVE ClockInv'
  BY <1>15 DEF Valid, Queued, queueVars, loopVars, handlerVars
<1>16. ASSUME Notify PROVE ClockInv'
  BY <1>16 DEF Notify, Queued, queueVars, loopVars, handlerVars
<1>17. ASSUME Expire PROVE ClockInv'
  BY <1>17 DEF Expire, Queued, handlerVars, loopVars
<1>18. ASSUME Tick PROVE ClockInv'
  <2> SUFFICES ASSUME steps = 0 PROVE ClockInv'
    BY <1>18 DEF Tick
  <2>1. Queued' = Queued /\ \A s \in Queued : m_queued_events'[s] = m_queued_events[s] - 1
    BY <1>18, QueuedShift DEF Tick
  <2>2. UNCHANGED << hpc, m_fd, ticks, steps, fatal >>
    BY <1>18 DEF Tick, loopVars
  <2>3. stale' = (IF InCallbacks THEN stale + 1 ELSE 0) /\ stale' \in 0 .. MaxStall
    BY <1>18 DEF Tick
  <2>4. left # NoEvent => left' = left - 1 /\ left' # NoEvent
    BY <1>18 DEF Tick
  <2> QED
    BY <2>1, <2>2, <2>3, <2>4
<1>19. ASSUME NEW k \in ClockSteps, ClockStep(k) PROVE ClockInv'
  BY <1>19 DEF ClockStep
<1> HIDE DEF ClockInv
<1> QED
  BY <1>1, <1>2, <1>3, <1>4, <1>5, <1>6, <1>7, <1>8, <1>9, <1>10, <1>11,
       <1>12, <1>13, <1>14, <1>15, <1>16, <1>17, <1>18, <1>19 DEF Next,
       Operation, HandlerStep

----------------------------------------------------------------------------
(* The theorems.                                                            *)

\* The initial state satisfies the invariants.
LEMMA InitTimer == Init => TimerInv /\ ClockInv
<1> SUFFICES ASSUME Init PROVE TimerInv /\ ClockInv
  OBVIOUS
<1>1. TypeOK /\ Queued = {}
  <2>1. \A s \in Slots : m_queued_events[s] = NoEvent
    BY DEF Init
  <2>2. Queued = {}
    BY <2>1 DEF Queued
  <2>3. m_queued_events \in [Slots -> Int \cup {NoEvent}]
    BY DEF Init
  <2>4. left \in Nat \cup {NoEvent} /\ closer \in Threads \cup {NoThread}
    BY DEF Init
  <2>5. registered \in BOOLEAN /\ armed \in BOOLEAN
    BY DEF Init
  <2>6. /\ m_fd \in {"fresh", "open", "closed"} /\ fatal \in {"none", "read", "past"}
        /\ hpc \in {"idle", "lookup", "read", "blocked", "fire", "callback", "valid", "notify"}
    BY DEF Init
  <2>7. ticks \in {0, 1} /\ count \in Nat /\ stale \in Int /\ steps \in Nat
    BY DEF Init
  <2> QED
    BY <2>2, <2>3, <2>4, <2>5, <2>6, <2>7 DEF TypeOK
<1>2. NoLostTimer /\ ReaderInv /\ PastInv
  BY <1>1 DEF Init, NoLostTimer, ReaderInv, PastInv, InCallbacks
<1>3. ClockInv
  BY <1>1, TimesAssumption DEF Init, ClockInv, InCallbacks
<1> QED
  BY <1>1, <1>2, <1>3 DEF TimerInv

\* Every step keeps the timer running while it is needed.
LEMMA TimerStep == TimerInv /\ [Next]_vars => TimerInv'
<1> SUFFICES ASSUME TimerInv, [Next]_vars PROVE TimerInv'
  OBVIOUS
<1>1. CASE Next
  BY <1>1, TypeOKStep, NoLostTimerStep, ReaderStep, PastStep DEF TimerInv
<1>2. CASE UNCHANGED vars
  <2>1. TypeOK' /\ ReaderInv'
    BY <1>2 DEF vars, TimerInv, TypeOK, ReaderInv
  <2>2. NoLostTimer' /\ PastInv'
    BY <1>2 DEF vars, TimerInv, NoLostTimer, PastInv, InCallbacks, Queued
  <2> QED
    BY <2>1, <2>2 DEF TimerInv
<1> QED
  BY <1>1, <1>2

\* Every step keeps what holds on a clock that is not set.
LEMMA ClockStepVars == TimerInv /\ ClockInv /\ [Next]_vars => ClockInv'
<1> SUFFICES ASSUME TimerInv, ClockInv, [Next]_vars PROVE ClockInv'
  OBVIOUS
<1>1. CASE Next
  BY <1>1, ClockStepInv DEF TimerInv
<1>2. CASE UNCHANGED vars
  BY <1>2 DEF vars, ClockInv, InCallbacks, Queued
<1> QED
  BY <1>1, <1>2

\* Every variable keeps its type: the timer is never set to a negative delay,
\* which rests on the test for an event in the past.
THEOREM TypeCorrect == Spec => []TypeOK
<1>1. TimerInv => TypeOK
  BY DEF TimerInv
<1> QED
  BY <1>1, InitTimer, TimerStep, PTL DEF Spec

\* The timer of queued events is never lost, and read() never blocks without a
\* timer that ends it, whatever happens to the clock.
THEOREM TimerNeverLost == Spec => []NoLostTimer
<1>1. TimerInv => NoLostTimer
  BY DEF TimerInv
<1> QED
  BY <1>1, InitTimer, TimerStep, PTL DEF Spec

\* On a clock that is not set the timer expires no later than the first event
\* is due, but for the time one round of callbacks took.
THEOREM TimerEarlyEnough == Spec => []TimerCoversFront
<1>1. TimerInv /\ ClockInv => TimerCoversFront
  <2> SUFFICES ASSUME TimerInv, ClockInv, steps = 0, Queued # {}, m_fd # "closed",
                      ~ InCallbacks, ticks = 0
               PROVE  left # NoEvent /\ left <= Front + MaxStall
    BY DEF TimerCoversFront
  <2>1. \E s \in Queued : Front = m_queued_events[s]
    BY FrontIsFirst DEF TimerInv
  <2> QED
    BY <2>1 DEF ClockInv
<1> QED
  BY <1>1, InitTimer, TimerStep, ClockStepVars, PTL DEF Spec

\* "Invalid state" in on_read_ready() needs a clock that was set.
THEOREM NeverInPast == Spec => []NextNotInPast
<1>1. ClockInv => NextNotInPast
  BY DEF ClockInv, NextNotInPast
<1> QED
  BY <1>1, InitTimer, TimerStep, ClockStepVars, PTL DEF Spec
=============================================================================
