-------------------------- MODULE EventLoopProofs ---------------------------
(***************************************************************************)
(* Proofs about EventLoop, for any number of workers, application threads, *)
(* listeners and descriptors.  The inductive invariant comes in three      *)
(* parts: CoreInv (types, arguments of calls in progress, disconnects in   *)
(* progress, the flags and the semaphore of the shutdown protocol) is      *)
(* inductive by itself; MapInv (who is in the map and who is about to      *)
(* enter or leave it) rests on it, and what epoll watches for (section     *)
(* Monitoring) on both.                                                    *)
(***************************************************************************)
EXTENDS EventLoop, TLAPS, FiniteSetTheorems

----------------------------------------------------------------------------
(* CoreInv.                                                                 *)

\* Only finitely many workers are about to read the semaphore.
LEMMA AtSemFinite == IsFiniteSet(AtSem) /\ Cardinality(AtSem) \in Nat
  BY WorkersAssumption, FS_Subset, FS_CardinalityType DEF AtSem


\* The initial state satisfies the inductive invariant.
LEMMA InitCore == Init => CoreInv
<1> SUFFICES ASSUME Init PROVE CoreInv
  OBVIOUS
<1>1. TypeOK
  <2>1. /\ pc \in [Threads -> WorkerPc \cup CallerPc \cup CallPc \cup ClosePc]
        /\ \A w \in Workers : pc[w] \in WorkerPc \cup CallPc \cup ClosePc
        /\ \A c \in Callers : pc[c] \in CallerPc \cup CallPc \cup ClosePc
    BY ThreadsAssumption DEF Init, Threads, WorkerPc, CallerPc, CallPc, ClosePc
  <2> QED
    BY <2>1 DEF Init, TypeOK
<1>2. ArgInv /\ CloseInv
  BY DEF Init, ArgInv, CloseInv, Threads, CallPc, ClosePc
<1>3. StopInv
  BY ThreadsAssumption DEF Init, StopInv, Threads
<1>4. AtSem = {}
  BY DEF Init, AtSem, Threads
<1>5. SemInv
  BY <1>4, FS_EmptySet DEF Init, SemInv, SemOkay, SemTokens, WakeupPending, Threads
<1> QED
  BY <1>1, <1>2, <1>3, <1>5 DEF CoreInv


\* Every step keeps every variable in its type.
LEMMA TypeOKStep ==
    ASSUME TypeOK, ArgInv, CloseInv, Next
    PROVE  TypeOK'
<1> USE ThreadsAssumption, ListenersAssumption DEF TypeOK, Threads, WorkerPc,
        CallerPc, CallPc, ClosePc, loopVars, closeVars, ArgInv, CloseInv
<1>1. ASSUME NEW t \in Threads, RegisterEventListener(t) PROVE TypeOK'
  BY <1>1 DEF RegisterEventListener, Goto
<1>2. ASSUME NEW t \in Threads, ReRegister(t) PROVE TypeOK'
  BY <1>2 DEF ReRegister, Return, CallReturnPc, ReturnPc, Goto
<1>3. ASSUME NEW t \in Threads, NotifyListenerModeChange(t) PROVE TypeOK'
  BY <1>3 DEF NotifyListenerModeChange, Return, CallReturnPc, ReturnPc, Goto
<1>4. ASSUME NEW t \in Threads, RegisterSocket(t) PROVE TypeOK'
  BY <1>4 DEF RegisterSocket, Return, CallReturnPc, ReturnPc
<1>5. ASSUME NEW t \in Threads, CloseSocket(t) PROVE TypeOK'
  <2>1. CASE Return(t)
    BY <1>5, <2>1 DEF CloseSocket, Return, CallReturnPc, ReturnPc, CloseFd, Valid, Goto
  <2>2. CASE Goto(t, "test")
    BY <1>5, <2>2 DEF CloseSocket, Return, CloseFd, Goto
  <2> QED
    BY <1>5, <2>1, <2>2 DEF CloseSocket
<1>6. ASSUME NEW t \in Threads, TestDisconnected(t) PROVE TypeOK'
  BY <1>6 DEF TestDisconnected, ReturnPc, Goto
<1>7. ASSUME NEW t \in Threads, SetDisconnected(t) PROVE TypeOK'
  BY <1>7 DEF SetDisconnected, Goto
<1>8. ASSUME NEW t \in Threads, DisconnectReturns(t) PROVE TypeOK'
  BY <1>8 DEF DisconnectReturns, Goto
<1>9. ASSUME NEW t \in Threads, UnregisterEventListener(t) PROVE TypeOK'
  BY <1>9 DEF UnregisterEventListener, EraseEntry, ReturnPc
<1>10. ASSUME NEW t \in Threads, NEW l \in Listeners, DisconnectRegisters(t, l)
      PROVE  TypeOK'
  BY <1>10 DEF DisconnectRegisters, NewListener, Call
<1>11. ASSUME NEW w \in Workers, ThreadLoop(w) PROVE TypeOK'
  BY <1>11 DEF ThreadLoop, Goto
<1>12. ASSUME NEW w \in Workers, UpdatePoll(w) PROVE TypeOK'
  BY <1>12 DEF UpdatePoll, Goto
<1>13. ASSUME NEW w \in Workers, EpollSemaphore(w) PROVE TypeOK'
  BY <1>13 DEF EpollSemaphore, Goto
<1>14. ASSUME NEW w \in Workers, DecrementSemaphore(w) PROVE TypeOK'
  BY <1>14 DEF DecrementSemaphore, Goto
<1>15. ASSUME NEW w \in Workers, PassOn(w) PROVE TypeOK'
  BY <1>15 DEF PassOn, increment_semaphore, Goto
<1>16. ASSUME NEW w \in Workers, UpdateLookup(w) PROVE TypeOK'
  BY <1>16 DEF UpdateLookup, Goto
<1>17. ASSUME NEW w \in Workers, HandleSetMode(w) PROVE TypeOK'
  BY <1>17 DEF HandleSetMode, Call
<1>18. ASSUME NEW w \in Workers, HandleEof(w) PROVE TypeOK'
  BY <1>18 DEF HandleEof, CloseFd, Valid
<1>19. ASSUME NEW w \in Workers, HandleReport(w) PROVE TypeOK'
  BY <1>19 DEF HandleReport, Goto
<1>20. ASSUME NEW w \in Workers, HandleWriteCloses(w) PROVE TypeOK'
  BY <1>20 DEF HandleWriteCloses, CloseFd, Valid
<1>21. ASSUME NEW w \in Workers, HandleClose(w) PROVE TypeOK'
  BY <1>21 DEF HandleClose, Call
<1>22. ASSUME NEW w \in Workers, HandleDone(w) PROVE TypeOK'
  BY <1>22 DEF HandleDone, Call
<1>23. ASSUME NEW w \in Workers, EpollInterrupted(w) PROVE TypeOK'
  BY <1>23 DEF EpollInterrupted, Goto
<1>24. ASSUME NEW w \in Workers, NEW fd \in Fds, EpollEvent(w, fd) PROVE TypeOK'
  BY <1>24 DEF EpollEvent, Goto
<1>25. ASSUME NEW w \in Workers, NEW l \in Listeners, HandleAccept(w, l)
      PROVE  TypeOK'
  BY <1>25 DEF HandleAccept, NewListener, Call
<1>26. ASSUME NEW c \in Callers, NEW l \in Listeners, MakeEventListener(c, l)
      PROVE  TypeOK'
  BY <1>26 DEF MakeEventListener, NewListener, Call
<1>27. ASSUME NEW c \in Callers, NEW l \in Listeners, CallClose(c, l) PROVE TypeOK'
  BY <1>27 DEF CallClose, Call, Known
<1>28. ASSUME NEW c \in Callers, NEW l \in Listeners, CallSetMode(c, l)
      PROVE  TypeOK'
  BY <1>28 DEF CallSetMode, Call, Known
<1>29. ASSUME NEW c \in Callers, NEW l \in Listeners, CallSendCloses(c, l)
      PROVE  TypeOK'
  BY <1>29 DEF CallSendCloses, CloseFd, Valid, Call, Known
<1>30. ASSUME NEW c \in Callers, NEW l \in Listeners, ReleaseSocket(c, l)
      PROVE  TypeOK'
  BY <1>30 DEF ReleaseSocket, Valid, Goto, Known
<1>31. ASSUME NEW c \in Callers, NEW fd \in Fds, CloseReleased(c, fd) PROVE TypeOK'
  BY <1>31 DEF CloseReleased
<1>32. ASSUME NEW c \in Callers, StopBegin(c) PROVE TypeOK'
  BY <1>32 DEF StopBegin, Goto
<1>33. ASSUME NEW c \in Callers, StopNext(c) PROVE TypeOK'
  BY <1>33 DEF StopNext, Call
<1>34. ASSUME NEW c \in Callers, StopReturn(c) PROVE TypeOK'
  BY <1>34 DEF StopReturn, increment_semaphore, Goto
<1>35. ASSUME NEW c \in Callers, WaitReturn(c) PROVE TypeOK'
  BY <1>35 DEF WaitReturn, Goto
<1>36. ASSUME NEW c \in Callers, CallStop(c) PROVE TypeOK'
  BY <1>36 DEF CallStop, Goto
<1>37. ASSUME NEW c \in Callers, CallWait(c) PROVE TypeOK'
  BY <1>37 DEF CallWait, Goto
<1>38. ASSUME NEW c \in Callers, Destroy(c) PROVE TypeOK'
  BY <1>38 DEF Destroy, Valid
<1>39. ASSUME NEW c \in Callers, Initialize(c) PROVE TypeOK'
  BY <1>39 DEF Initialize
<1> HIDE DEF TypeOK
<1> QED
  BY <1>1, <1>2, <1>3, <1>4, <1>5, <1>6, <1>7, <1>8, <1>9, <1>10, <1>11, <1>12,
     <1>13, <1>14, <1>15, <1>16, <1>17, <1>18, <1>19, <1>20, <1>21, <1>22,
     <1>23, <1>24, <1>25, <1>26, <1>27, <1>28, <1>29, <1>30, <1>31, <1>32,
     <1>33, <1>34, <1>35, <1>36, <1>37, <1>38, <1>39 DEF Next, CallStep,
     WorkerStep, HandlerStep, CallerStep, AppStep

\* Every step leaves calls in progress with arguments that make sense.
LEMMA ArgInvStep ==
    ASSUME TypeOK, ArgInv, CloseInv, StopInv, Next
    PROVE  ArgInv'
<1> USE ThreadsAssumption, ListenersAssumption DEF TypeOK, Threads, WorkerPc,
        CallerPc, CallPc, ClosePc, loopVars, closeVars, ArgInv, CloseInv
<1>1. ASSUME NEW t \in Threads, RegisterEventListener(t) PROVE ArgInv'
  BY <1>1 DEF RegisterEventListener, Goto
<1>2. ASSUME NEW t \in Threads, ReRegister(t) PROVE ArgInv'
  BY <1>2 DEF ReRegister, Return, CallReturnPc, ReturnPc, Goto
<1>3. ASSUME NEW t \in Threads, NotifyListenerModeChange(t) PROVE ArgInv'
  BY <1>3 DEF NotifyListenerModeChange, Return, CallReturnPc, ReturnPc, Goto
<1>4. ASSUME NEW t \in Threads, RegisterSocket(t) PROVE ArgInv'
  BY <1>4 DEF RegisterSocket, Return, CallReturnPc, ReturnPc
<1>5. ASSUME NEW t \in Threads, CloseSocket(t) PROVE ArgInv'
  BY <1>5 DEF CloseSocket, Return, CallReturnPc, ReturnPc, Goto, CloseFd, Valid
<1>6. ASSUME NEW t \in Threads, TestDisconnected(t) PROVE ArgInv'
  BY <1>6 DEF TestDisconnected, ReturnPc, Goto
<1>7. ASSUME NEW t \in Threads, SetDisconnected(t) PROVE ArgInv'
  BY <1>7 DEF SetDisconnected, Goto
<1>8. ASSUME NEW t \in Threads, DisconnectReturns(t) PROVE ArgInv'
  BY <1>8 DEF DisconnectReturns, Goto
<1>9. ASSUME NEW t \in Threads, UnregisterEventListener(t) PROVE ArgInv'
  BY <1>9 DEF UnregisterEventListener, EraseEntry, ReturnPc
<1>10. ASSUME NEW t \in Threads, NEW l \in Listeners, DisconnectRegisters(t, l)
      PROVE  ArgInv'
  BY <1>10 DEF DisconnectRegisters, NewListener, Call
<1>11. ASSUME NEW w \in Workers, ThreadLoop(w) PROVE ArgInv'
  BY <1>11 DEF ThreadLoop, Goto
<1>12. ASSUME NEW w \in Workers, UpdatePoll(w) PROVE ArgInv'
  BY <1>12 DEF UpdatePoll, Goto
<1>13. ASSUME NEW w \in Workers, EpollSemaphore(w) PROVE ArgInv'
  BY <1>13 DEF EpollSemaphore, Goto
<1>14. ASSUME NEW w \in Workers, DecrementSemaphore(w) PROVE ArgInv'
  BY <1>14 DEF DecrementSemaphore, Goto
<1>15. ASSUME NEW w \in Workers, PassOn(w) PROVE ArgInv'
  BY <1>15 DEF PassOn, increment_semaphore, Goto
<1>16. ASSUME NEW w \in Workers, UpdateLookup(w) PROVE ArgInv'
  BY <1>16 DEF UpdateLookup, Goto
<1>17. ASSUME NEW w \in Workers, HandleSetMode(w) PROVE ArgInv'
  BY <1>17 DEF HandleSetMode, Call
<1>18. ASSUME NEW w \in Workers, HandleEof(w) PROVE ArgInv'
  BY <1>18 DEF HandleEof, CloseFd, Valid
<1>19. ASSUME NEW w \in Workers, HandleReport(w) PROVE ArgInv'
  BY <1>19 DEF HandleReport, Goto
<1>20. ASSUME NEW w \in Workers, HandleWriteCloses(w) PROVE ArgInv'
  BY <1>20 DEF HandleWriteCloses, CloseFd, Valid
<1>21. ASSUME NEW w \in Workers, HandleClose(w) PROVE ArgInv'
  BY <1>21 DEF HandleClose, Call
<1>22. ASSUME NEW w \in Workers, HandleDone(w) PROVE ArgInv'
  BY <1>22 DEF HandleDone, Call
<1>23. ASSUME NEW w \in Workers, EpollInterrupted(w) PROVE ArgInv'
  BY <1>23 DEF EpollInterrupted, Goto
<1>24. ASSUME NEW w \in Workers, NEW fd \in Fds, EpollEvent(w, fd) PROVE ArgInv'
  BY <1>24 DEF EpollEvent, Goto
<1>25. ASSUME NEW w \in Workers, NEW l \in Listeners, HandleAccept(w, l)
      PROVE  ArgInv'
  BY <1>25 DEF HandleAccept, NewListener, Call
<1>26. ASSUME NEW c \in Callers, NEW l \in Listeners, MakeEventListener(c, l)
      PROVE  ArgInv'
  BY <1>26 DEF MakeEventListener, NewListener, Call
<1>27. ASSUME NEW c \in Callers, NEW l \in Listeners, CallClose(c, l) PROVE ArgInv'
  BY <1>27 DEF CallClose, Call, Known
<1>28. ASSUME NEW c \in Callers, NEW l \in Listeners, CallSetMode(c, l)
      PROVE  ArgInv'
  BY <1>28 DEF CallSetMode, Call, Known
<1>29. ASSUME NEW c \in Callers, NEW l \in Listeners, CallSendCloses(c, l)
      PROVE  ArgInv'
  BY <1>29 DEF CallSendCloses, CloseFd, Valid, Call, Known
<1>30. ASSUME NEW c \in Callers, NEW l \in Listeners, ReleaseSocket(c, l)
      PROVE  ArgInv'
  BY <1>30 DEF ReleaseSocket, Valid, Goto, Known
<1>31. ASSUME NEW c \in Callers, NEW fd \in Fds, CloseReleased(c, fd) PROVE ArgInv'
  BY <1>31 DEF CloseReleased
<1>32. ASSUME NEW c \in Callers, StopBegin(c) PROVE ArgInv'
  BY <1>32 DEF StopBegin, Goto
<1>33. ASSUME NEW c \in Callers, StopNext(c) PROVE ArgInv'
  BY <1>33 DEF StopNext, Call
<1>34. ASSUME NEW c \in Callers, StopReturn(c) PROVE ArgInv'
  BY <1>34 DEF StopReturn, increment_semaphore, Goto
<1>35. ASSUME NEW c \in Callers, WaitReturn(c) PROVE ArgInv'
  BY <1>35 DEF WaitReturn, Goto
<1>36. ASSUME NEW c \in Callers, CallStop(c) PROVE ArgInv'
  BY <1>36 DEF CallStop, Goto
<1>37. ASSUME NEW c \in Callers, CallWait(c) PROVE ArgInv'
  BY <1>37 DEF CallWait, Goto
<1>38. ASSUME NEW c \in Callers, Destroy(c) PROVE ArgInv'
  BY <1>38 DEF Destroy, Valid, StopInv
<1>39. ASSUME NEW c \in Callers, Initialize(c) PROVE ArgInv'
  BY <1>39 DEF Initialize, StopInv
<1> HIDE DEF ArgInv
<1> QED
  BY <1>1, <1>2, <1>3, <1>4, <1>5, <1>6, <1>7, <1>8, <1>9, <1>10, <1>11, <1>12,
     <1>13, <1>14, <1>15, <1>16, <1>17, <1>18, <1>19, <1>20, <1>21, <1>22,
     <1>23, <1>24, <1>25, <1>26, <1>27, <1>28, <1>29, <1>30, <1>31, <1>32,
     <1>33, <1>34, <1>35, <1>36, <1>37, <1>38, <1>39 DEF Next, CallStep,
     WorkerStep, HandlerStep, CallerStep, AppStep

\* A listener is disconnected only after its socket is gone.
LEMMA CloseInvStep ==
    ASSUME TypeOK, ArgInv, CloseInv, StopInv, Next
    PROVE  CloseInv'
<1> USE ThreadsAssumption, ListenersAssumption DEF TypeOK, Threads, WorkerPc,
        CallerPc, CallPc, ClosePc, loopVars, closeVars, ArgInv, CloseInv
<1>1. ASSUME NEW t \in Threads, RegisterEventListener(t) PROVE CloseInv'
  BY <1>1 DEF RegisterEventListener, Goto
<1>2. ASSUME NEW t \in Threads, ReRegister(t) PROVE CloseInv'
  BY <1>2 DEF ReRegister, Return, CallReturnPc, ReturnPc, Goto
<1>3. ASSUME NEW t \in Threads, NotifyListenerModeChange(t) PROVE CloseInv'
  BY <1>3 DEF NotifyListenerModeChange, Return, CallReturnPc, ReturnPc, Goto
<1>4. ASSUME NEW t \in Threads, RegisterSocket(t) PROVE CloseInv'
  BY <1>4 DEF RegisterSocket, Return, CallReturnPc, ReturnPc
<1>5. ASSUME NEW t \in Threads, CloseSocket(t) PROVE CloseInv'
  BY <1>5 DEF CloseSocket, Return, CallReturnPc, ReturnPc, Goto, CloseFd, Valid
<1>6. ASSUME NEW t \in Threads, TestDisconnected(t) PROVE CloseInv'
  BY <1>6 DEF TestDisconnected, ReturnPc, Goto
<1>7. ASSUME NEW t \in Threads, SetDisconnected(t) PROVE CloseInv'
  BY <1>7 DEF SetDisconnected, Goto
<1>8. ASSUME NEW t \in Threads, DisconnectReturns(t) PROVE CloseInv'
  BY <1>8 DEF DisconnectReturns, Goto
<1>9. ASSUME NEW t \in Threads, UnregisterEventListener(t) PROVE CloseInv'
  BY <1>9 DEF UnregisterEventListener, EraseEntry, ReturnPc
<1>10. ASSUME NEW t \in Threads, NEW l \in Listeners, DisconnectRegisters(t, l)
      PROVE  CloseInv'
  BY <1>10 DEF DisconnectRegisters, NewListener, Call
<1>11. ASSUME NEW w \in Workers, ThreadLoop(w) PROVE CloseInv'
  BY <1>11 DEF ThreadLoop, Goto
<1>12. ASSUME NEW w \in Workers, UpdatePoll(w) PROVE CloseInv'
  BY <1>12 DEF UpdatePoll, Goto
<1>13. ASSUME NEW w \in Workers, EpollSemaphore(w) PROVE CloseInv'
  BY <1>13 DEF EpollSemaphore, Goto
<1>14. ASSUME NEW w \in Workers, DecrementSemaphore(w) PROVE CloseInv'
  BY <1>14 DEF DecrementSemaphore, Goto
<1>15. ASSUME NEW w \in Workers, PassOn(w) PROVE CloseInv'
  BY <1>15 DEF PassOn, increment_semaphore, Goto
<1>16. ASSUME NEW w \in Workers, UpdateLookup(w) PROVE CloseInv'
  BY <1>16 DEF UpdateLookup, Goto
<1>17. ASSUME NEW w \in Workers, HandleSetMode(w) PROVE CloseInv'
  BY <1>17 DEF HandleSetMode, Call
<1>18. ASSUME NEW w \in Workers, HandleEof(w) PROVE CloseInv'
  BY <1>18 DEF HandleEof, CloseFd, Valid
<1>19. ASSUME NEW w \in Workers, HandleReport(w) PROVE CloseInv'
  BY <1>19 DEF HandleReport, Goto
<1>20. ASSUME NEW w \in Workers, HandleWriteCloses(w) PROVE CloseInv'
  BY <1>20 DEF HandleWriteCloses, CloseFd, Valid
<1>21. ASSUME NEW w \in Workers, HandleClose(w) PROVE CloseInv'
  BY <1>21 DEF HandleClose, Call
<1>22. ASSUME NEW w \in Workers, HandleDone(w) PROVE CloseInv'
  BY <1>22 DEF HandleDone, Call
<1>23. ASSUME NEW w \in Workers, EpollInterrupted(w) PROVE CloseInv'
  BY <1>23 DEF EpollInterrupted, Goto
<1>24. ASSUME NEW w \in Workers, NEW fd \in Fds, EpollEvent(w, fd) PROVE CloseInv'
  BY <1>24 DEF EpollEvent, Goto
<1>25. ASSUME NEW w \in Workers, NEW l \in Listeners, HandleAccept(w, l)
      PROVE  CloseInv'
  BY <1>25 DEF HandleAccept, NewListener, Call
<1>26. ASSUME NEW c \in Callers, NEW l \in Listeners, MakeEventListener(c, l)
      PROVE  CloseInv'
  BY <1>26 DEF MakeEventListener, NewListener, Call
<1>27. ASSUME NEW c \in Callers, NEW l \in Listeners, CallClose(c, l)
      PROVE  CloseInv'
  BY <1>27 DEF CallClose, Call, Known
<1>28. ASSUME NEW c \in Callers, NEW l \in Listeners, CallSetMode(c, l)
      PROVE  CloseInv'
  BY <1>28 DEF CallSetMode, Call, Known
<1>29. ASSUME NEW c \in Callers, NEW l \in Listeners, CallSendCloses(c, l)
      PROVE  CloseInv'
  BY <1>29 DEF CallSendCloses, CloseFd, Valid, Call, Known
<1>30. ASSUME NEW c \in Callers, NEW l \in Listeners, ReleaseSocket(c, l)
      PROVE  CloseInv'
  BY <1>30 DEF ReleaseSocket, Valid, Goto, Known
<1>31. ASSUME NEW c \in Callers, NEW fd \in Fds, CloseReleased(c, fd)
      PROVE  CloseInv'
  BY <1>31 DEF CloseReleased
<1>32. ASSUME NEW c \in Callers, StopBegin(c) PROVE CloseInv'
  BY <1>32 DEF StopBegin, Goto
<1>33. ASSUME NEW c \in Callers, StopNext(c) PROVE CloseInv'
  BY <1>33 DEF StopNext, Call
<1>34. ASSUME NEW c \in Callers, StopReturn(c) PROVE CloseInv'
  BY <1>34 DEF StopReturn, increment_semaphore, Goto
<1>35. ASSUME NEW c \in Callers, WaitReturn(c) PROVE CloseInv'
  BY <1>35 DEF WaitReturn, Goto
<1>36. ASSUME NEW c \in Callers, CallStop(c) PROVE CloseInv'
  BY <1>36 DEF CallStop, Goto
<1>37. ASSUME NEW c \in Callers, CallWait(c) PROVE CloseInv'
  BY <1>37 DEF CallWait, Goto
<1>38. ASSUME NEW c \in Callers, Destroy(c) PROVE CloseInv'
  BY <1>38 DEF Destroy, Valid, StopInv
<1>39. ASSUME NEW c \in Callers, Initialize(c) PROVE CloseInv'
  BY <1>39 DEF Initialize, StopInv
<1> HIDE DEF CloseInv
<1> QED
  BY <1>1, <1>2, <1>3, <1>4, <1>5, <1>6, <1>7, <1>8, <1>9, <1>10, <1>11, <1>12,
     <1>13, <1>14, <1>15, <1>16, <1>17, <1>18, <1>19, <1>20, <1>21, <1>22,
     <1>23, <1>24, <1>25, <1>26, <1>27, <1>28, <1>29, <1>30, <1>31, <1>32,
     <1>33, <1>34, <1>35, <1>36, <1>37, <1>38, <1>39 DEF Next, CallStep,
     WorkerStep, HandlerStep, CallerStep, AppStep

\* Every step keeps the flags of stop(), wait() and destroy() in agreement.
LEMMA StopInvStep ==
    ASSUME TypeOK, StopInv, Next
    PROVE  StopInv'
<1> USE ThreadsAssumption DEF TypeOK, Threads, WorkerPc, CallerPc, CallPc,
        ClosePc, loopVars, closeVars, StopInv
<1>1. ASSUME NEW t \in Threads, RegisterEventListener(t) PROVE StopInv'
  BY <1>1 DEF RegisterEventListener, Goto
<1>2. ASSUME NEW t \in Threads, ReRegister(t) PROVE StopInv'
  BY <1>2 DEF ReRegister, Return, CallReturnPc, ReturnPc, Goto
<1>3. ASSUME NEW t \in Threads, NotifyListenerModeChange(t) PROVE StopInv'
  BY <1>3 DEF NotifyListenerModeChange, Return, CallReturnPc, ReturnPc, Goto
<1>4. ASSUME NEW t \in Threads, RegisterSocket(t) PROVE StopInv'
  BY <1>4 DEF RegisterSocket, Return, CallReturnPc, ReturnPc
<1>5. ASSUME NEW t \in Threads, CloseSocket(t) PROVE StopInv'
  BY <1>5 DEF CloseSocket, Return, CallReturnPc, ReturnPc, Goto, CloseFd, Valid
<1>6. ASSUME NEW t \in Threads, TestDisconnected(t) PROVE StopInv'
  BY <1>6 DEF TestDisconnected, ReturnPc, Goto
<1>7. ASSUME NEW t \in Threads, SetDisconnected(t) PROVE StopInv'
  BY <1>7 DEF SetDisconnected, Goto
<1>8. ASSUME NEW t \in Threads, DisconnectReturns(t) PROVE StopInv'
  BY <1>8 DEF DisconnectReturns, Goto
<1>9. ASSUME NEW t \in Threads, UnregisterEventListener(t) PROVE StopInv'
  BY <1>9 DEF UnregisterEventListener, EraseEntry, ReturnPc
<1>10. ASSUME NEW t \in Threads, NEW l \in Listeners, DisconnectRegisters(t, l)
      PROVE  StopInv'
  BY <1>10 DEF DisconnectRegisters, NewListener, Call
<1>11. ASSUME NEW w \in Workers, ThreadLoop(w) PROVE StopInv'
  BY <1>11 DEF ThreadLoop, Goto
<1>12. ASSUME NEW w \in Workers, UpdatePoll(w) PROVE StopInv'
  BY <1>12 DEF UpdatePoll, Goto
<1>13. ASSUME NEW w \in Workers, EpollSemaphore(w) PROVE StopInv'
  BY <1>13 DEF EpollSemaphore, Goto
<1>14. ASSUME NEW w \in Workers, DecrementSemaphore(w) PROVE StopInv'
  BY <1>14 DEF DecrementSemaphore, Goto
<1>15. ASSUME NEW w \in Workers, PassOn(w) PROVE StopInv'
  BY <1>15 DEF PassOn, increment_semaphore, Goto
<1>16. ASSUME NEW w \in Workers, UpdateLookup(w) PROVE StopInv'
  BY <1>16 DEF UpdateLookup, Goto
<1>17. ASSUME NEW w \in Workers, HandleSetMode(w) PROVE StopInv'
  BY <1>17 DEF HandleSetMode, Call
<1>18. ASSUME NEW w \in Workers, HandleEof(w) PROVE StopInv'
  BY <1>18 DEF HandleEof, CloseFd, Valid
<1>19. ASSUME NEW w \in Workers, HandleReport(w) PROVE StopInv'
  BY <1>19 DEF HandleReport, Goto
<1>20. ASSUME NEW w \in Workers, HandleWriteCloses(w) PROVE StopInv'
  BY <1>20 DEF HandleWriteCloses, CloseFd, Valid
<1>21. ASSUME NEW w \in Workers, HandleClose(w) PROVE StopInv'
  BY <1>21 DEF HandleClose, Call
<1>22. ASSUME NEW w \in Workers, HandleDone(w) PROVE StopInv'
  BY <1>22 DEF HandleDone, Call
<1>23. ASSUME NEW w \in Workers, EpollInterrupted(w) PROVE StopInv'
  BY <1>23 DEF EpollInterrupted, Goto
<1>24. ASSUME NEW w \in Workers, NEW fd \in Fds, EpollEvent(w, fd) PROVE StopInv'
  BY <1>24 DEF EpollEvent, Goto
<1>25. ASSUME NEW w \in Workers, NEW l \in Listeners, HandleAccept(w, l)
      PROVE  StopInv'
  BY <1>25 DEF HandleAccept, NewListener, Call
<1>26. ASSUME NEW c \in Callers, NEW l \in Listeners, MakeEventListener(c, l)
      PROVE  StopInv'
  BY <1>26 DEF MakeEventListener, NewListener, Call
<1>27. ASSUME NEW c \in Callers, NEW l \in Listeners, CallClose(c, l) PROVE StopInv'
  BY <1>27 DEF CallClose, Call, Known
<1>28. ASSUME NEW c \in Callers, NEW l \in Listeners, CallSetMode(c, l)
      PROVE  StopInv'
  BY <1>28 DEF CallSetMode, Call, Known
<1>29. ASSUME NEW c \in Callers, NEW l \in Listeners, CallSendCloses(c, l)
      PROVE  StopInv'
  BY <1>29 DEF CallSendCloses, CloseFd, Valid, Call, Known
<1>30. ASSUME NEW c \in Callers, NEW l \in Listeners, ReleaseSocket(c, l)
      PROVE  StopInv'
  BY <1>30 DEF ReleaseSocket, Valid, Goto, Known
<1>31. ASSUME NEW c \in Callers, NEW fd \in Fds, CloseReleased(c, fd) PROVE StopInv'
  BY <1>31 DEF CloseReleased
<1>32. ASSUME NEW c \in Callers, StopBegin(c) PROVE StopInv'
  BY <1>32 DEF StopBegin, Goto
<1>33. ASSUME NEW c \in Callers, StopNext(c) PROVE StopInv'
  BY <1>33 DEF StopNext, Call
<1>34. ASSUME NEW c \in Callers, StopReturn(c) PROVE StopInv'
  BY <1>34 DEF StopReturn, increment_semaphore, Goto
<1>35. ASSUME NEW c \in Callers, WaitReturn(c) PROVE StopInv'
  BY <1>35 DEF WaitReturn, Goto
<1>36. ASSUME NEW c \in Callers, CallStop(c) PROVE StopInv'
  BY <1>36 DEF CallStop, Goto
<1>37. ASSUME NEW c \in Callers, CallWait(c) PROVE StopInv'
  BY <1>37 DEF CallWait, Goto
<1>38. ASSUME NEW c \in Callers, Destroy(c) PROVE StopInv'
  BY <1>38 DEF Destroy, Valid
<1>39. ASSUME NEW c \in Callers, Initialize(c) PROVE StopInv'
  BY <1>39 DEF Initialize
<1> HIDE DEF StopInv
<1> QED
  BY <1>1, <1>2, <1>3, <1>4, <1>5, <1>6, <1>7, <1>8, <1>9, <1>10, <1>11, <1>12,
     <1>13, <1>14, <1>15, <1>16, <1>17, <1>18, <1>19, <1>20, <1>21, <1>22,
     <1>23, <1>24, <1>25, <1>26, <1>27, <1>28, <1>29, <1>30, <1>31, <1>32,
     <1>33, <1>34, <1>35, <1>36, <1>37, <1>38, <1>39 DEF Next, CallStep,
     WorkerStep, HandlerStep, CallerStep, AppStep

\* Tokens only come into being after m_okay was cleared.
LEMMA SemOkayStep ==
    ASSUME TypeOK, StopInv, SemOkay, Next
    PROVE  SemOkay'
<1> USE ThreadsAssumption DEF TypeOK, Threads, WorkerPc, CallerPc, CallPc,
        ClosePc, loopVars, closeVars, StopInv, SemOkay
<1>1. ASSUME NEW t \in Threads, RegisterEventListener(t) PROVE SemOkay'
  BY <1>1 DEF RegisterEventListener, Goto
<1>2. ASSUME NEW t \in Threads, ReRegister(t) PROVE SemOkay'
  BY <1>2 DEF ReRegister, Return, CallReturnPc, ReturnPc, Goto
<1>3. ASSUME NEW t \in Threads, NotifyListenerModeChange(t) PROVE SemOkay'
  BY <1>3 DEF NotifyListenerModeChange, Return, CallReturnPc, ReturnPc, Goto
<1>4. ASSUME NEW t \in Threads, RegisterSocket(t) PROVE SemOkay'
  BY <1>4 DEF RegisterSocket, Return, CallReturnPc, ReturnPc
<1>5. ASSUME NEW t \in Threads, CloseSocket(t) PROVE SemOkay'
  BY <1>5 DEF CloseSocket, Return, CallReturnPc, ReturnPc, Goto, CloseFd, Valid
<1>6. ASSUME NEW t \in Threads, TestDisconnected(t) PROVE SemOkay'
  BY <1>6 DEF TestDisconnected, ReturnPc, Goto
<1>7. ASSUME NEW t \in Threads, SetDisconnected(t) PROVE SemOkay'
  BY <1>7 DEF SetDisconnected, Goto
<1>8. ASSUME NEW t \in Threads, DisconnectReturns(t) PROVE SemOkay'
  BY <1>8 DEF DisconnectReturns, Goto
<1>9. ASSUME NEW t \in Threads, UnregisterEventListener(t) PROVE SemOkay'
  BY <1>9 DEF UnregisterEventListener, EraseEntry, ReturnPc
<1>10. ASSUME NEW t \in Threads, NEW l \in Listeners, DisconnectRegisters(t, l)
      PROVE  SemOkay'
  BY <1>10 DEF DisconnectRegisters, NewListener, Call
<1>11. ASSUME NEW w \in Workers, ThreadLoop(w) PROVE SemOkay'
  BY <1>11 DEF ThreadLoop, Goto
<1>12. ASSUME NEW w \in Workers, UpdatePoll(w) PROVE SemOkay'
  BY <1>12 DEF UpdatePoll, Goto
<1>13. ASSUME NEW w \in Workers, EpollSemaphore(w) PROVE SemOkay'
  BY <1>13 DEF EpollSemaphore, Goto
<1>14. ASSUME NEW w \in Workers, DecrementSemaphore(w) PROVE SemOkay'
  BY <1>14 DEF DecrementSemaphore, Goto
<1>15. ASSUME NEW w \in Workers, PassOn(w) PROVE SemOkay'
  BY <1>15 DEF PassOn, increment_semaphore, Goto
<1>16. ASSUME NEW w \in Workers, UpdateLookup(w) PROVE SemOkay'
  BY <1>16 DEF UpdateLookup, Goto
<1>17. ASSUME NEW w \in Workers, HandleSetMode(w) PROVE SemOkay'
  BY <1>17 DEF HandleSetMode, Call
<1>18. ASSUME NEW w \in Workers, HandleEof(w) PROVE SemOkay'
  BY <1>18 DEF HandleEof, CloseFd, Valid
<1>19. ASSUME NEW w \in Workers, HandleReport(w) PROVE SemOkay'
  BY <1>19 DEF HandleReport, Goto
<1>20. ASSUME NEW w \in Workers, HandleWriteCloses(w) PROVE SemOkay'
  BY <1>20 DEF HandleWriteCloses, CloseFd, Valid
<1>21. ASSUME NEW w \in Workers, HandleClose(w) PROVE SemOkay'
  BY <1>21 DEF HandleClose, Call
<1>22. ASSUME NEW w \in Workers, HandleDone(w) PROVE SemOkay'
  BY <1>22 DEF HandleDone, Call
<1>23. ASSUME NEW w \in Workers, EpollInterrupted(w) PROVE SemOkay'
  BY <1>23 DEF EpollInterrupted, Goto
<1>24. ASSUME NEW w \in Workers, NEW fd \in Fds, EpollEvent(w, fd) PROVE SemOkay'
  BY <1>24 DEF EpollEvent, Goto
<1>25. ASSUME NEW w \in Workers, NEW l \in Listeners, HandleAccept(w, l)
      PROVE  SemOkay'
  BY <1>25 DEF HandleAccept, NewListener, Call
<1>26. ASSUME NEW c \in Callers, NEW l \in Listeners, MakeEventListener(c, l)
      PROVE  SemOkay'
  BY <1>26 DEF MakeEventListener, NewListener, Call
<1>27. ASSUME NEW c \in Callers, NEW l \in Listeners, CallClose(c, l) PROVE SemOkay'
  BY <1>27 DEF CallClose, Call, Known
<1>28. ASSUME NEW c \in Callers, NEW l \in Listeners, CallSetMode(c, l)
      PROVE  SemOkay'
  BY <1>28 DEF CallSetMode, Call, Known
<1>29. ASSUME NEW c \in Callers, NEW l \in Listeners, CallSendCloses(c, l)
      PROVE  SemOkay'
  BY <1>29 DEF CallSendCloses, CloseFd, Valid, Call, Known
<1>30. ASSUME NEW c \in Callers, NEW l \in Listeners, ReleaseSocket(c, l)
      PROVE  SemOkay'
  BY <1>30 DEF ReleaseSocket, Valid, Goto, Known
<1>31. ASSUME NEW c \in Callers, NEW fd \in Fds, CloseReleased(c, fd) PROVE SemOkay'
  BY <1>31 DEF CloseReleased
<1>32. ASSUME NEW c \in Callers, StopBegin(c) PROVE SemOkay'
  BY <1>32 DEF StopBegin, Goto
<1>33. ASSUME NEW c \in Callers, StopNext(c) PROVE SemOkay'
  BY <1>33 DEF StopNext, Call
<1>34. ASSUME NEW c \in Callers, StopReturn(c) PROVE SemOkay'
  BY <1>34 DEF StopReturn, increment_semaphore, Goto
<1>35. ASSUME NEW c \in Callers, WaitReturn(c) PROVE SemOkay'
  BY <1>35 DEF WaitReturn, Goto
<1>36. ASSUME NEW c \in Callers, CallStop(c) PROVE SemOkay'
  BY <1>36 DEF CallStop, Goto
<1>37. ASSUME NEW c \in Callers, CallWait(c) PROVE SemOkay'
  BY <1>37 DEF CallWait, Goto
<1>38. ASSUME NEW c \in Callers, Destroy(c) PROVE SemOkay'
  BY <1>38 DEF Destroy, Valid
<1>39. ASSUME NEW c \in Callers, Initialize(c) PROVE SemOkay'
  BY <1>39 DEF Initialize
<1> HIDE DEF SemOkay
<1> QED
  BY <1>1, <1>2, <1>3, <1>4, <1>5, <1>6, <1>7, <1>8, <1>9, <1>10, <1>11, <1>12,
     <1>13, <1>14, <1>15, <1>16, <1>17, <1>18, <1>19, <1>20, <1>21, <1>22,
     <1>23, <1>24, <1>25, <1>26, <1>27, <1>28, <1>29, <1>30, <1>31, <1>32,
     <1>33, <1>34, <1>35, <1>36, <1>37, <1>38, <1>39 DEF Next, CallStep,
     WorkerStep, HandlerStep, CallerStep, AppStep

\* No step strands a token in the semaphore.
LEMMA WakeupStep ==
    ASSUME TypeOK, StopInv, SemOkay, WakeupPending, Next
    PROVE  WakeupPending'
<1> USE ThreadsAssumption DEF TypeOK, Threads, WorkerPc, CallerPc, CallPc,
        ClosePc, loopVars, closeVars, StopInv, SemOkay, WakeupPending
<1>1. ASSUME NEW t \in Threads, RegisterEventListener(t) PROVE WakeupPending'
  BY <1>1 DEF RegisterEventListener, Goto
<1>2. ASSUME NEW t \in Threads, ReRegister(t) PROVE WakeupPending'
  BY <1>2 DEF ReRegister, Return, CallReturnPc, ReturnPc, Goto
<1>3. ASSUME NEW t \in Threads, NotifyListenerModeChange(t) PROVE WakeupPending'
  BY <1>3 DEF NotifyListenerModeChange, Return, CallReturnPc, ReturnPc, Goto
<1>4. ASSUME NEW t \in Threads, RegisterSocket(t) PROVE WakeupPending'
  BY <1>4 DEF RegisterSocket, Return, CallReturnPc, ReturnPc
<1>5. ASSUME NEW t \in Threads, CloseSocket(t) PROVE WakeupPending'
  BY <1>5 DEF CloseSocket, Return, CallReturnPc, ReturnPc, Goto, CloseFd, Valid
<1>6. ASSUME NEW t \in Threads, TestDisconnected(t) PROVE WakeupPending'
  BY <1>6 DEF TestDisconnected, ReturnPc, Goto
<1>7. ASSUME NEW t \in Threads, SetDisconnected(t) PROVE WakeupPending'
  BY <1>7 DEF SetDisconnected, Goto
<1>8. ASSUME NEW t \in Threads, DisconnectReturns(t) PROVE WakeupPending'
  BY <1>8 DEF DisconnectReturns, Goto
<1>9. ASSUME NEW t \in Threads, UnregisterEventListener(t) PROVE WakeupPending'
  BY <1>9 DEF UnregisterEventListener, EraseEntry, ReturnPc
<1>10. ASSUME NEW t \in Threads, NEW l \in Listeners, DisconnectRegisters(t, l)
      PROVE  WakeupPending'
  BY <1>10 DEF DisconnectRegisters, NewListener, Call
<1>11. ASSUME NEW w \in Workers, ThreadLoop(w) PROVE WakeupPending'
  BY <1>11 DEF ThreadLoop, Goto
<1>12. ASSUME NEW w \in Workers, UpdatePoll(w) PROVE WakeupPending'
  BY <1>12 DEF UpdatePoll, Goto
<1>13. ASSUME NEW w \in Workers, EpollSemaphore(w) PROVE WakeupPending'
  BY <1>13 DEF EpollSemaphore, Goto
<1>14. ASSUME NEW w \in Workers, DecrementSemaphore(w) PROVE WakeupPending'
  BY <1>14 DEF DecrementSemaphore, Goto
<1>15. ASSUME NEW w \in Workers, PassOn(w) PROVE WakeupPending'
  BY <1>15 DEF PassOn, increment_semaphore, Goto
<1>16. ASSUME NEW w \in Workers, UpdateLookup(w) PROVE WakeupPending'
  BY <1>16 DEF UpdateLookup, Goto
<1>17. ASSUME NEW w \in Workers, HandleSetMode(w) PROVE WakeupPending'
  BY <1>17 DEF HandleSetMode, Call
<1>18. ASSUME NEW w \in Workers, HandleEof(w) PROVE WakeupPending'
  BY <1>18 DEF HandleEof, CloseFd, Valid
<1>19. ASSUME NEW w \in Workers, HandleReport(w) PROVE WakeupPending'
  BY <1>19 DEF HandleReport, Goto
<1>20. ASSUME NEW w \in Workers, HandleWriteCloses(w) PROVE WakeupPending'
  BY <1>20 DEF HandleWriteCloses, CloseFd, Valid
<1>21. ASSUME NEW w \in Workers, HandleClose(w) PROVE WakeupPending'
  BY <1>21 DEF HandleClose, Call
<1>22. ASSUME NEW w \in Workers, HandleDone(w) PROVE WakeupPending'
  BY <1>22 DEF HandleDone, Call
<1>23. ASSUME NEW w \in Workers, EpollInterrupted(w) PROVE WakeupPending'
  BY <1>23 DEF EpollInterrupted, Goto
<1>24. ASSUME NEW w \in Workers, NEW fd \in Fds, EpollEvent(w, fd)
      PROVE  WakeupPending'
  BY <1>24 DEF EpollEvent, Goto
<1>25. ASSUME NEW w \in Workers, NEW l \in Listeners, HandleAccept(w, l)
      PROVE  WakeupPending'
  BY <1>25 DEF HandleAccept, NewListener, Call
<1>26. ASSUME NEW c \in Callers, NEW l \in Listeners, MakeEventListener(c, l)
      PROVE  WakeupPending'
  BY <1>26 DEF MakeEventListener, NewListener, Call
<1>27. ASSUME NEW c \in Callers, NEW l \in Listeners, CallClose(c, l)
      PROVE  WakeupPending'
  BY <1>27 DEF CallClose, Call, Known
<1>28. ASSUME NEW c \in Callers, NEW l \in Listeners, CallSetMode(c, l)
      PROVE  WakeupPending'
  BY <1>28 DEF CallSetMode, Call, Known
<1>29. ASSUME NEW c \in Callers, NEW l \in Listeners, CallSendCloses(c, l)
      PROVE  WakeupPending'
  BY <1>29 DEF CallSendCloses, CloseFd, Valid, Call, Known
<1>30. ASSUME NEW c \in Callers, NEW l \in Listeners, ReleaseSocket(c, l)
      PROVE  WakeupPending'
  BY <1>30 DEF ReleaseSocket, Valid, Goto, Known
<1>31. ASSUME NEW c \in Callers, NEW fd \in Fds, CloseReleased(c, fd)
      PROVE  WakeupPending'
  BY <1>31 DEF CloseReleased
<1>32. ASSUME NEW c \in Callers, StopBegin(c) PROVE WakeupPending'
  BY <1>32 DEF StopBegin, Goto
<1>33. ASSUME NEW c \in Callers, StopNext(c) PROVE WakeupPending'
  BY <1>33 DEF StopNext, Call
<1>34. ASSUME NEW c \in Callers, StopReturn(c) PROVE WakeupPending'
  BY <1>34 DEF StopReturn, increment_semaphore, Goto
<1>35. ASSUME NEW c \in Callers, WaitReturn(c) PROVE WakeupPending'
  BY <1>35 DEF WaitReturn, Goto
<1>36. ASSUME NEW c \in Callers, CallStop(c) PROVE WakeupPending'
  BY <1>36 DEF CallStop, Goto
<1>37. ASSUME NEW c \in Callers, CallWait(c) PROVE WakeupPending'
  BY <1>37 DEF CallWait, Goto
<1>38. ASSUME NEW c \in Callers, Destroy(c) PROVE WakeupPending'
  BY <1>38 DEF Destroy, Valid
<1>39. ASSUME NEW c \in Callers, Initialize(c) PROVE WakeupPending'
  BY <1>39 DEF Initialize
<1> HIDE DEF WakeupPending
<1> QED
  BY <1>1, <1>2, <1>3, <1>4, <1>5, <1>6, <1>7, <1>8, <1>9, <1>10, <1>11, <1>12,
     <1>13, <1>14, <1>15, <1>16, <1>17, <1>18, <1>19, <1>20, <1>21, <1>22,
     <1>23, <1>24, <1>25, <1>26, <1>27, <1>28, <1>29, <1>30, <1>31, <1>32,
     <1>33, <1>34, <1>35, <1>36, <1>37, <1>38, <1>39 DEF Next, CallStep,
     WorkerStep, HandlerStep, CallerStep, AppStep

\* No step takes a token that a worker was promised.
LEMMA SemTokensStep ==
    ASSUME TypeOK, SemTokens, Next
    PROVE  SemTokens'
<1> USE ThreadsAssumption DEF TypeOK, Threads, loopVars
<1>1. ASSUME NEW w \in Workers, EpollSemaphore(w) PROVE SemTokens'
  <2>1. AtSem' = AtSem \cup {w} /\ w \notin AtSem
    BY <1>1 DEF EpollSemaphore, Goto, AtSem
  <2>2. Cardinality(AtSem') = Cardinality(AtSem) + 1
    BY <2>1, AtSemFinite, FS_AddElement
  <2> QED
    BY <1>1, <2>2, AtSemFinite DEF EpollSemaphore, SemTokens
<1>2. ASSUME NEW w \in Workers, DecrementSemaphore(w) PROVE SemTokens'
  <2>1. AtSem' = AtSem \ {w} /\ w \in AtSem
    BY <1>2 DEF DecrementSemaphore, Goto, WorkerPc, AtSem
  <2>2. Cardinality(AtSem') = Cardinality(AtSem) - 1
    BY <2>1, AtSemFinite, FS_RemoveElement
  <2> QED
    BY <1>2, <2>2, AtSemFinite DEF DecrementSemaphore, SemTokens
<1>3. ASSUME NEW c \in Callers, Initialize(c) PROVE SemTokens'
  <2>1. AtSem' = {}
    BY <1>3 DEF Initialize, AtSem
  <2> QED
    BY <1>3, <2>1, FS_EmptySet DEF Initialize, SemTokens
<1>4. ASSUME AtSem' = AtSem,
             \/ UNCHANGED << semaphore, sem_ready >>
             \/ increment_semaphore
      PROVE  SemTokens'
  BY <1>4, AtSemFinite DEF SemTokens, increment_semaphore
<1>5. ASSUME NEW t \in Threads, CallStep(t) PROVE SemTokens'
  <2>1. AtSem' = AtSem
    BY <1>5 DEF CallStep, RegisterEventListener, ReRegister, RegisterSocket,
       NotifyListenerModeChange, CloseSocket, TestDisconnected, SetDisconnected,
       DisconnectReturns, UnregisterEventListener, Return, Goto, CallReturnPc,
       ReturnPc, AtSem
  <2> QED
    BY <1>4, <1>5, <2>1 DEF CallStep, RegisterEventListener, ReRegister,
       RegisterSocket, NotifyListenerModeChange, CloseSocket, TestDisconnected,
       SetDisconnected, DisconnectReturns, UnregisterEventListener
<1>8. ASSUME NEW t \in Threads, NEW l \in Listeners, DisconnectRegisters(t, l)
      PROVE  SemTokens'
  <2>1. AtSem' = AtSem
    BY <1>8 DEF DisconnectRegisters, NewListener, Call, AtSem
  <2> QED
    BY <1>4, <1>8, <2>1 DEF DisconnectRegisters, NewListener
<1>6. ASSUME NEW w \in Workers,
             \/ ThreadLoop(w) \/ UpdatePoll(w) \/ PassOn(w) \/ UpdateLookup(w)
             \/ HandlerStep(w) \/ HandleReport(w) \/ HandleDone(w)
             \/ EpollInterrupted(w)
             \/ \E fd \in Fds : EpollEvent(w, fd)
      PROVE  SemTokens'
  <2> USE DEF ThreadLoop, UpdatePoll, PassOn, UpdateLookup, HandlerStep,
       HandleSetMode, HandleEof, HandleReport, HandleWriteCloses, HandleClose,
       HandleAccept, NewListener, HandleDone, EpollInterrupted, EpollEvent
  <2>1. AtSem' = AtSem
    BY <1>6 DEF Goto, Call, AtSem
  <2> QED
    BY <1>4, <1>6, <2>1
<1>7. ASSUME NEW c \in Callers, CallerStep(c) PROVE SemTokens'
  <2> USE DEF CallerStep, StopBegin, StopNext, StopReturn, WaitReturn
  <2>1. AtSem' = AtSem
    BY <1>7 DEF Goto, Call, AtSem
  <2> QED
    BY <1>4, <1>7, <2>1
<1>9. ASSUME NEW c \in Callers, AppStep(c), ~ Initialize(c) PROVE SemTokens'
  <2> USE DEF AppStep, MakeEventListener, NewListener, CallClose, CallSetMode,
       CallSendCloses, ReleaseSocket, CloseReleased, CallStop, CallWait, Destroy
  <2>1. \A w \in Workers : pc'[w] = pc[w]
    BY <1>9 DEF Goto, Call
  <2>2. AtSem' = AtSem
    BY <2>1 DEF AtSem
  <2> QED
    BY <1>4, <1>9, <2>2
<1> QED
  BY <1>1, <1>2, <1>3, <1>5, <1>6, <1>7, <1>8, <1>9 DEF Next, WorkerStep

\* CoreInv is inductive.
LEMMA CoreStep == CoreInv /\ [Next]_vars => CoreInv'
<1> SUFFICES ASSUME CoreInv, [Next]_vars PROVE CoreInv'
  OBVIOUS
<1>1. CASE Next
  BY <1>1, TypeOKStep, ArgInvStep, CloseInvStep, StopInvStep, SemOkayStep, WakeupStep,
     SemTokensStep DEF CoreInv, SemInv
<1>2. CASE UNCHANGED vars
  BY <1>2 DEF CoreInv, vars, TypeOK, ArgInv, CloseInv, StopInv, SemInv, SemOkay,
     SemTokens, AtSem, WakeupPending
<1> QED
  BY <1>1, <1>2

\* CoreInv is an invariant of the event loop, whatever the application does.
LEMMA CoreInvariant == Spec => []CoreInv
<1> QED
  BY InitCore, CoreStep, PTL DEF Spec

\* Every variable keeps its type, and application threads never run the code
\* of the workers.
THEOREM TypeCorrect == Spec => []TypeOK
<1>1. CoreInv => TypeOK
  BY DEF CoreInv
<1> QED
  BY <1>1, CoreInvariant, PTL

\* The shutdown signal is never lost: while the eventfd counter is positive,
\* epoll still has the edge or a worker is about to write the next one.
THEOREM WakeupNeverLost == Spec => []WakeupPending
<1>1. CoreInv => WakeupPending
  BY DEF CoreInv, SemInv
<1> QED
  BY <1>1, CoreInvariant, PTL

\* No LOG(FATAL) is reached by an application that calls destroy() once per
\* instance, after stop() and wait(): in particular no worker ever reads the
\* semaphore at zero, however many stop() calls and workers race.
THEOREM NeverFatal ==
    ASSUME "redestroy" \notin AppCalls
    PROVE  Spec => []NoFatal
<1>1. Init => NoFatal
  BY DEF Init, NoFatal
<1>2. CoreInv /\ NoFatal /\ [Next]_vars => NoFatal'
  <2> SUFFICES ASSUME CoreInv, NoFatal, Next PROVE NoFatal'
    BY DEF NoFatal, vars
  <2>1. ASSUME NEW w \in Workers, DecrementSemaphore(w) PROVE NoFatal'
    <3>1. w \in AtSem
      BY <2>1 DEF DecrementSemaphore, AtSem
    <3>2. Cardinality(AtSem) # 0
      BY <3>1, AtSemFinite, FS_EmptySet
    <3>3. semaphore # 0
      <4>1. Cardinality(AtSem) <= semaphore /\ semaphore \in Nat
        BY AtSemFinite DEF CoreInv, TypeOK, SemInv, SemTokens
      <4> QED
        BY <3>2, <4>1, AtSemFinite
    <3> QED
      BY <2>1, <3>3 DEF DecrementSemaphore, NoFatal
  <2>2. ASSUME NEW c \in Callers, Destroy(c) PROVE NoFatal'
    BY <2>2, "redestroy" \notin AppCalls DEF Destroy, NoFatal, CoreInv, StopInv
  <2>4. CASE UNCHANGED fatal
    BY <2>4 DEF NoFatal
  <2>3. ASSUME NEW t \in Threads,
               CallStep(t) \/ \E l \in Listeners : DisconnectRegisters(t, l)
        PROVE  NoFatal'
    BY <2>3, <2>4 DEF CallStep, RegisterEventListener, ReRegister,
       RegisterSocket, NotifyListenerModeChange, CloseSocket, TestDisconnected,
       SetDisconnected, DisconnectReturns, UnregisterEventListener,
       DisconnectRegisters, NewListener, loopVars
  <2>5. ASSUME NEW w \in Workers,
               \/ WorkerStep(w) /\ ~ DecrementSemaphore(w)
               \/ HandlerStep(w)
               \/ HandleReport(w)
               \/ HandleDone(w)
               \/ EpollInterrupted(w)
               \/ \E fd \in Fds : EpollEvent(w, fd)
        PROVE  NoFatal'
    BY <2>4, <2>5 DEF WorkerStep, HandlerStep, ThreadLoop, UpdatePoll,
       EpollSemaphore, PassOn, UpdateLookup, HandleSetMode, HandleEof,
       HandleReport, HandleWriteCloses, HandleClose, HandleAccept, NewListener,
       HandleDone, EpollInterrupted, EpollEvent, loopVars
  <2>6. ASSUME NEW c \in Callers, CallerStep(c) PROVE NoFatal'
    BY <2>4, <2>6 DEF CallerStep, StopBegin, StopNext, StopReturn, WaitReturn,
       loopVars
  <2>7. ASSUME NEW c \in Callers, AppStep(c), ~ Destroy(c) PROVE NoFatal'
    BY <2>4, <2>7 DEF AppStep, MakeEventListener, NewListener, CallClose,
       CallSetMode, CallSendCloses, ReleaseSocket, CloseReleased, CallStop,
       CallWait, Initialize, loopVars
  <2> QED
    BY <2>1, <2>2, <2>3, <2>5, <2>6, <2>7 DEF Next
<1> QED
  BY <1>1, <1>2, CoreInvariant, PTL DEF Spec

----------------------------------------------------------------------------
(* MapInv.                                                                  *)

\* What unregister_event_listener() does, entry by entry and thread by thread.
LEMMA UnregisterFacts ==
    ASSUME TypeOK, ArgInv, CloseInv, NEW t \in Threads, UnregisterEventListener(t)
    PROVE  /\ pc[t] = "unreg" /\ closing[t] \in Listeners
           /\ life[closing[t]] \in {"closed", "released"}
           /\ fileno[closing[t]] \in Fds
           /\ \A fd \in Fds : m_event_listeners'[fd] =
                 IF fd = fileno[closing[t]] THEN NoListener ELSE m_event_listeners[fd]
           /\ \A l \in Listeners : l \in erased' <=>
                 l \in erased \/ m_event_listeners[fileno[closing[t]]] = l
           /\ \A u \in Threads : u # t =>
                 /\ closing'[u] = closing[u]
                 /\ pc'[u] = pc[u] \/ (pc[u] = "regwait" /\ pc'[u] = "reg")
           /\ pc'[t] \in {"loop", "handle", "stopping", "idle"}
           /\ closing'[t] = NoListener
           /\ \A fd \in Fds : fd # fileno[closing[t]] => interest'[fd] = interest[fd]
           /\ UNCHANGED << life, fileno, arg, op, disp, ev, eof, silent,
                            m_has_disconnected >>
<1> USE ListenersAssumption DEF TypeOK, ArgInv, CloseInv, ClosePc, loopVars
<1>1. /\ pc[t] = "unreg" /\ closing[t] \in Listeners
      /\ life[closing[t]] \in {"closed", "released"}
      /\ fileno[closing[t]] \in Fds
      /\ UNCHANGED << life, fileno, arg, op, disp, ev, eof, silent,
                       m_has_disconnected >>
  BY DEF UnregisterEventListener
<1>2. /\ \A fd \in Fds : m_event_listeners'[fd] =
            IF fd = fileno[closing[t]] THEN NoListener ELSE m_event_listeners[fd]
      /\ \A fd \in Fds : fd # fileno[closing[t]] => interest'[fd] = interest[fd]
      /\ \A l \in Listeners : l \in erased' <=>
            l \in erased \/ m_event_listeners[fileno[closing[t]]] = l
  BY <1>1 DEF UnregisterEventListener, EraseEntry
<1>3. /\ \A u \in Threads : u # t =>
            /\ closing'[u] = closing[u]
            /\ pc'[u] = pc[u] \/ (pc[u] = "regwait" /\ pc'[u] = "reg")
      /\ pc'[t] \in {"loop", "handle", "stopping", "idle"}
      /\ closing'[t] = NoListener
  BY DEF UnregisterEventListener, ReturnPc
<1> QED
  BY <1>1, <1>2, <1>3

\* A listener being registered stays private to the registering thread.
LEMMA RegInvStep ==
    ASSUME TypeOK, ArgInv, CloseInv, StopInv, RegInv, EntryInv, Next
    PROVE  RegInv'
<1> USE ThreadsAssumption, ListenersAssumption DEF TypeOK, Threads, WorkerPc,
        CallerPc, CallPc, ClosePc, loopVars, closeVars, ArgInv, RegInv
<1>1. ASSUME NEW t \in Threads, RegisterEventListener(t) PROVE RegInv'
  BY <1>1 DEF RegisterEventListener, Goto
<1>2. ASSUME NEW t \in Threads, ReRegister(t) PROVE RegInv'
  BY <1>2 DEF ReRegister, Return, CallReturnPc, ReturnPc, Goto
<1>3. ASSUME NEW t \in Threads, NotifyListenerModeChange(t) PROVE RegInv'
  BY <1>3 DEF NotifyListenerModeChange, Return, CallReturnPc, ReturnPc, Goto
<1>4. ASSUME NEW t \in Threads, RegisterSocket(t) PROVE RegInv'
  BY <1>4 DEF RegisterSocket, Return, CallReturnPc, ReturnPc
<1>5. ASSUME NEW t \in Threads, CloseSocket(t) PROVE RegInv'
  BY <1>5 DEF CloseSocket, Return, CallReturnPc, ReturnPc, Goto, CloseFd, Valid,
     CloseInv
<1>6. ASSUME NEW t \in Threads, TestDisconnected(t) PROVE RegInv'
  BY <1>6 DEF TestDisconnected, ReturnPc, Goto, CloseInv
<1>7. ASSUME NEW t \in Threads, SetDisconnected(t) PROVE RegInv'
  BY <1>7 DEF SetDisconnected, Goto, CloseInv
<1>8. ASSUME NEW t \in Threads, DisconnectReturns(t) PROVE RegInv'
  BY <1>8 DEF DisconnectReturns, Goto
<1>9. ASSUME NEW t \in Threads, UnregisterEventListener(t) PROVE RegInv'
  BY <1>9, UnregisterFacts
<1>10. ASSUME NEW t \in Threads, NEW l \in Listeners, DisconnectRegisters(t, l)
      PROVE  RegInv'
  BY <1>10 DEF DisconnectRegisters, NewListener, Call, EntryInv
<1>11. ASSUME NEW w \in Workers, ThreadLoop(w) PROVE RegInv'
  BY <1>11 DEF ThreadLoop, Goto
<1>12. ASSUME NEW w \in Workers, UpdatePoll(w) PROVE RegInv'
  BY <1>12 DEF UpdatePoll, Goto
<1>13. ASSUME NEW w \in Workers, EpollSemaphore(w) PROVE RegInv'
  BY <1>13 DEF EpollSemaphore, Goto
<1>14. ASSUME NEW w \in Workers, DecrementSemaphore(w) PROVE RegInv'
  BY <1>14 DEF DecrementSemaphore, Goto
<1>15. ASSUME NEW w \in Workers, PassOn(w) PROVE RegInv'
  BY <1>15 DEF PassOn, increment_semaphore, Goto
<1>16. ASSUME NEW w \in Workers, UpdateLookup(w) PROVE RegInv'
  BY <1>16 DEF UpdateLookup, Goto
<1>17. ASSUME NEW w \in Workers, HandleSetMode(w) PROVE RegInv'
  BY <1>17 DEF HandleSetMode, Call
<1>18. ASSUME NEW w \in Workers, HandleEof(w) PROVE RegInv'
  BY <1>18 DEF HandleEof, CloseFd, Valid
<1>19. ASSUME NEW w \in Workers, HandleReport(w) PROVE RegInv'
  BY <1>19 DEF HandleReport, Goto, CloseInv
<1>20. ASSUME NEW w \in Workers, HandleWriteCloses(w) PROVE RegInv'
  BY <1>20 DEF HandleWriteCloses, CloseFd, Valid
<1>21. ASSUME NEW w \in Workers, HandleClose(w) PROVE RegInv'
  BY <1>21 DEF HandleClose, Call, CloseInv
<1>22. ASSUME NEW w \in Workers, HandleDone(w) PROVE RegInv'
  BY <1>22 DEF HandleDone, Call
<1>23. ASSUME NEW w \in Workers, EpollInterrupted(w) PROVE RegInv'
  BY <1>23 DEF EpollInterrupted, Goto
<1>24. ASSUME NEW w \in Workers, NEW fd \in Fds, EpollEvent(w, fd) PROVE RegInv'
  BY <1>24 DEF EpollEvent, Goto
<1>25. ASSUME NEW w \in Workers, NEW l \in Listeners, HandleAccept(w, l)
      PROVE  RegInv'
  BY <1>25 DEF HandleAccept, NewListener, Call, EntryInv
<1>26. ASSUME NEW c \in Callers, NEW l \in Listeners, MakeEventListener(c, l)
      PROVE  RegInv'
  BY <1>26 DEF MakeEventListener, NewListener, Call, EntryInv
<1>27. ASSUME NEW c \in Callers, NEW l \in Listeners, CallClose(c, l) PROVE RegInv'
  BY <1>27 DEF CallClose, Call, Known, Registering
<1>28. ASSUME NEW c \in Callers, NEW l \in Listeners, CallSetMode(c, l)
      PROVE  RegInv'
  BY <1>28 DEF CallSetMode, Call, Known, Registering
<1>29. ASSUME NEW c \in Callers, NEW l \in Listeners, CallSendCloses(c, l)
      PROVE  RegInv'
  BY <1>29 DEF CallSendCloses, CloseFd, Valid, Call, Known, Registering
<1>30. ASSUME NEW c \in Callers, NEW l \in Listeners, ReleaseSocket(c, l)
      PROVE  RegInv'
  BY <1>30 DEF ReleaseSocket, Valid, Goto, Known, Registering
<1>31. ASSUME NEW c \in Callers, NEW fd \in Fds, CloseReleased(c, fd) PROVE RegInv'
  BY <1>31 DEF CloseReleased
<1>32. ASSUME NEW c \in Callers, StopBegin(c) PROVE RegInv'
  BY <1>32 DEF StopBegin, Goto
<1>33. ASSUME NEW c \in Callers, StopNext(c) PROVE RegInv'
  BY <1>33 DEF StopNext, Call
<1>34. ASSUME NEW c \in Callers, StopReturn(c) PROVE RegInv'
  BY <1>34 DEF StopReturn, increment_semaphore, Goto
<1>35. ASSUME NEW c \in Callers, WaitReturn(c) PROVE RegInv'
  BY <1>35 DEF WaitReturn, Goto
<1>36. ASSUME NEW c \in Callers, CallStop(c) PROVE RegInv'
  BY <1>36 DEF CallStop, Goto
<1>37. ASSUME NEW c \in Callers, CallWait(c) PROVE RegInv'
  BY <1>37 DEF CallWait, Goto
<1>38. ASSUME NEW c \in Callers, Destroy(c) PROVE RegInv'
  BY <1>38 DEF Destroy, Valid, StopInv
<1>39. ASSUME NEW c \in Callers, Initialize(c) PROVE RegInv'
  BY <1>39 DEF Initialize, StopInv
<1> HIDE DEF RegInv
<1> QED
  BY <1>1, <1>2, <1>3, <1>4, <1>5, <1>6, <1>7, <1>8, <1>9, <1>10, <1>11, <1>12,
     <1>13, <1>14, <1>15, <1>16, <1>17, <1>18, <1>19, <1>20, <1>21, <1>22,
     <1>23, <1>24, <1>25, <1>26, <1>27, <1>28, <1>29, <1>30, <1>31, <1>32,
     <1>33, <1>34, <1>35, <1>36, <1>37, <1>38, <1>39 DEF Next, CallStep,
     WorkerStep, HandlerStep, CallerStep, AppStep

\* A listener leaves the map only by being erased, and no step forgets that.
LEMMA EntryInvStep ==
    ASSUME TypeOK, ArgInv, CloseInv, StopInv, RegInv, EntryInv, Next
    PROVE  EntryInv'
<1> USE ThreadsAssumption, ListenersAssumption DEF TypeOK, Threads, WorkerPc,
        CallerPc, CallPc, ClosePc, loopVars, closeVars, ArgInv, EntryInv
<1>1. ASSUME NEW t \in Threads, RegisterEventListener(t) PROVE EntryInv'
  BY <1>1 DEF RegisterEventListener, Goto
<1>2. ASSUME NEW t \in Threads, ReRegister(t) PROVE EntryInv'
  BY <1>2 DEF ReRegister, Return, CallReturnPc, ReturnPc, Goto
<1>3. ASSUME NEW t \in Threads, NotifyListenerModeChange(t) PROVE EntryInv'
  BY <1>3 DEF NotifyListenerModeChange, Return, CallReturnPc, ReturnPc, Goto
<1>4. ASSUME NEW t \in Threads, RegisterSocket(t) PROVE EntryInv'
  BY <1>4 DEF RegisterSocket, Return, CallReturnPc, ReturnPc
<1>5. ASSUME NEW t \in Threads, CloseSocket(t) PROVE EntryInv'
  BY <1>5 DEF CloseSocket, Return, CallReturnPc, ReturnPc, Goto, CloseFd, Valid
<1>6. ASSUME NEW t \in Threads, TestDisconnected(t) PROVE EntryInv'
  BY <1>6 DEF TestDisconnected, ReturnPc, Goto
<1>7. ASSUME NEW t \in Threads, SetDisconnected(t) PROVE EntryInv'
  BY <1>7 DEF SetDisconnected, Goto, CloseInv
<1>8. ASSUME NEW t \in Threads, DisconnectReturns(t) PROVE EntryInv'
  BY <1>8 DEF DisconnectReturns, Goto
<1>9. ASSUME NEW t \in Threads, UnregisterEventListener(t) PROVE EntryInv'
  BY <1>9, UnregisterFacts
<1>10. ASSUME NEW t \in Threads, NEW l \in Listeners, DisconnectRegisters(t, l)
      PROVE  EntryInv'
  BY <1>10 DEF DisconnectRegisters, NewListener, Call
<1>11. ASSUME NEW w \in Workers, ThreadLoop(w) PROVE EntryInv'
  BY <1>11 DEF ThreadLoop, Goto
<1>12. ASSUME NEW w \in Workers, UpdatePoll(w) PROVE EntryInv'
  BY <1>12 DEF UpdatePoll, Goto
<1>13. ASSUME NEW w \in Workers, EpollSemaphore(w) PROVE EntryInv'
  BY <1>13 DEF EpollSemaphore, Goto
<1>14. ASSUME NEW w \in Workers, DecrementSemaphore(w) PROVE EntryInv'
  BY <1>14 DEF DecrementSemaphore, Goto
<1>15. ASSUME NEW w \in Workers, PassOn(w) PROVE EntryInv'
  BY <1>15 DEF PassOn, increment_semaphore, Goto
<1>16. ASSUME NEW w \in Workers, UpdateLookup(w) PROVE EntryInv'
  BY <1>16 DEF UpdateLookup, Goto
<1>17. ASSUME NEW w \in Workers, HandleSetMode(w) PROVE EntryInv'
  BY <1>17 DEF HandleSetMode, Call
<1>18. ASSUME NEW w \in Workers, HandleEof(w) PROVE EntryInv'
  BY <1>18 DEF HandleEof, CloseFd, Valid
<1>19. ASSUME NEW w \in Workers, HandleReport(w) PROVE EntryInv'
  BY <1>19 DEF HandleReport, Goto
<1>20. ASSUME NEW w \in Workers, HandleWriteCloses(w) PROVE EntryInv'
  BY <1>20 DEF HandleWriteCloses, CloseFd, Valid
<1>21. ASSUME NEW w \in Workers, HandleClose(w) PROVE EntryInv'
  BY <1>21 DEF HandleClose, Call
<1>22. ASSUME NEW w \in Workers, HandleDone(w) PROVE EntryInv'
  BY <1>22 DEF HandleDone, Call
<1>23. ASSUME NEW w \in Workers, EpollInterrupted(w) PROVE EntryInv'
  BY <1>23 DEF EpollInterrupted, Goto
<1>24. ASSUME NEW w \in Workers, NEW fd \in Fds, EpollEvent(w, fd) PROVE EntryInv'
  BY <1>24 DEF EpollEvent, Goto
<1>25. ASSUME NEW w \in Workers, NEW l \in Listeners, HandleAccept(w, l)
      PROVE  EntryInv'
  BY <1>25 DEF HandleAccept, NewListener, Call
<1>26. ASSUME NEW c \in Callers, NEW l \in Listeners, MakeEventListener(c, l)
      PROVE  EntryInv'
  BY <1>26 DEF MakeEventListener, NewListener, Call
<1>27. ASSUME NEW c \in Callers, NEW l \in Listeners, CallClose(c, l)
      PROVE  EntryInv'
  BY <1>27 DEF CallClose, Call, Known
<1>28. ASSUME NEW c \in Callers, NEW l \in Listeners, CallSetMode(c, l)
      PROVE  EntryInv'
  BY <1>28 DEF CallSetMode, Call, Known
<1>29. ASSUME NEW c \in Callers, NEW l \in Listeners, CallSendCloses(c, l)
      PROVE  EntryInv'
  BY <1>29 DEF CallSendCloses, CloseFd, Valid, Call, Known
<1>30. ASSUME NEW c \in Callers, NEW l \in Listeners, ReleaseSocket(c, l)
      PROVE  EntryInv'
  BY <1>30 DEF ReleaseSocket, Valid, Goto, Known
<1>31. ASSUME NEW c \in Callers, NEW fd \in Fds, CloseReleased(c, fd)
      PROVE  EntryInv'
  BY <1>31 DEF CloseReleased
<1>32. ASSUME NEW c \in Callers, StopBegin(c) PROVE EntryInv'
  BY <1>32 DEF StopBegin, Goto
<1>33. ASSUME NEW c \in Callers, StopNext(c) PROVE EntryInv'
  BY <1>33 DEF StopNext, Call
<1>34. ASSUME NEW c \in Callers, StopReturn(c) PROVE EntryInv'
  BY <1>34 DEF StopReturn, increment_semaphore, Goto
<1>35. ASSUME NEW c \in Callers, WaitReturn(c) PROVE EntryInv'
  BY <1>35 DEF WaitReturn, Goto
<1>36. ASSUME NEW c \in Callers, CallStop(c) PROVE EntryInv'
  BY <1>36 DEF CallStop, Goto
<1>37. ASSUME NEW c \in Callers, CallWait(c) PROVE EntryInv'
  BY <1>37 DEF CallWait, Goto
<1>38. ASSUME NEW c \in Callers, Destroy(c) PROVE EntryInv'
  BY <1>38 DEF Destroy, Valid, StopInv
<1>39. ASSUME NEW c \in Callers, Initialize(c) PROVE EntryInv'
  BY <1>39 DEF Initialize, StopInv
<1> HIDE DEF EntryInv
<1> QED
  BY <1>1, <1>2, <1>3, <1>4, <1>5, <1>6, <1>7, <1>8, <1>9, <1>10, <1>11, <1>12,
     <1>13, <1>14, <1>15, <1>16, <1>17, <1>18, <1>19, <1>20, <1>21, <1>22,
     <1>23, <1>24, <1>25, <1>26, <1>27, <1>28, <1>29, <1>30, <1>31, <1>32,
     <1>33, <1>34, <1>35, <1>36, <1>37, <1>38, <1>39 DEF Next, CallStep,
     WorkerStep, HandlerStep, CallerStep, AppStep

\* Whoever sets m_has_disconnected goes on to erase the entry.
LEMMA DisconnectStep ==
    ASSUME TypeOK, ArgInv, CloseInv, StopInv, RegInv, EntryInv, DisconnectInv,
           Next
    PROVE  DisconnectInv'
<1> USE ThreadsAssumption, ListenersAssumption DEF TypeOK, Threads, WorkerPc,
        CallerPc, CallPc, ClosePc, loopVars, closeVars, ArgInv, CloseInv,
        DisconnectInv
<1>1. ASSUME NEW t \in Threads, RegisterEventListener(t) PROVE DisconnectInv'
  BY <1>1 DEF RegisterEventListener, Goto, RegInv
<1>2. ASSUME NEW t \in Threads, ReRegister(t) PROVE DisconnectInv'
  BY <1>2 DEF ReRegister, Return, CallReturnPc, ReturnPc, Goto
<1>3. ASSUME NEW t \in Threads, NotifyListenerModeChange(t) PROVE DisconnectInv'
  BY <1>3 DEF NotifyListenerModeChange, Return, CallReturnPc, ReturnPc, Goto
<1>4. ASSUME NEW t \in Threads, RegisterSocket(t) PROVE DisconnectInv'
  BY <1>4 DEF RegisterSocket, Return, CallReturnPc, ReturnPc
<1>5. ASSUME NEW t \in Threads, CloseSocket(t) PROVE DisconnectInv'
  BY <1>5 DEF CloseSocket, Return, CallReturnPc, ReturnPc, Goto, CloseFd, Valid
<1>6. ASSUME NEW t \in Threads, TestDisconnected(t) PROVE DisconnectInv'
  BY <1>6 DEF TestDisconnected, ReturnPc, Goto
<1>7. ASSUME NEW t \in Threads, SetDisconnected(t) PROVE DisconnectInv'
  BY <1>7 DEF SetDisconnected, Goto
<1>8. ASSUME NEW t \in Threads, DisconnectReturns(t) PROVE DisconnectInv'
  BY <1>8 DEF DisconnectReturns, Goto
<1>9. ASSUME NEW t \in Threads, UnregisterEventListener(t) PROVE DisconnectInv'
  BY <1>9 DEF UnregisterEventListener, EraseEntry, ReturnPc
<1>10. ASSUME NEW t \in Threads, NEW l \in Listeners, DisconnectRegisters(t, l)
      PROVE  DisconnectInv'
  BY <1>10 DEF DisconnectRegisters, NewListener, Call
<1>11. ASSUME NEW w \in Workers, ThreadLoop(w) PROVE DisconnectInv'
  BY <1>11 DEF ThreadLoop, Goto
<1>12. ASSUME NEW w \in Workers, UpdatePoll(w) PROVE DisconnectInv'
  BY <1>12 DEF UpdatePoll, Goto
<1>13. ASSUME NEW w \in Workers, EpollSemaphore(w) PROVE DisconnectInv'
  BY <1>13 DEF EpollSemaphore, Goto
<1>14. ASSUME NEW w \in Workers, DecrementSemaphore(w) PROVE DisconnectInv'
  BY <1>14 DEF DecrementSemaphore, Goto
<1>15. ASSUME NEW w \in Workers, PassOn(w) PROVE DisconnectInv'
  BY <1>15 DEF PassOn, increment_semaphore, Goto
<1>16. ASSUME NEW w \in Workers, UpdateLookup(w) PROVE DisconnectInv'
  BY <1>16 DEF UpdateLookup, Goto
<1>17. ASSUME NEW w \in Workers, HandleSetMode(w) PROVE DisconnectInv'
  BY <1>17 DEF HandleSetMode, Call
<1>18. ASSUME NEW w \in Workers, HandleEof(w) PROVE DisconnectInv'
  BY <1>18 DEF HandleEof, CloseFd, Valid
<1>19. ASSUME NEW w \in Workers, HandleReport(w) PROVE DisconnectInv'
  BY <1>19 DEF HandleReport, Goto
<1>20. ASSUME NEW w \in Workers, HandleWriteCloses(w) PROVE DisconnectInv'
  BY <1>20 DEF HandleWriteCloses, CloseFd, Valid
<1>21. ASSUME NEW w \in Workers, HandleClose(w) PROVE DisconnectInv'
  BY <1>21 DEF HandleClose, Call
<1>22. ASSUME NEW w \in Workers, HandleDone(w) PROVE DisconnectInv'
  BY <1>22 DEF HandleDone, Call
<1>23. ASSUME NEW w \in Workers, EpollInterrupted(w) PROVE DisconnectInv'
  BY <1>23 DEF EpollInterrupted, Goto
<1>24. ASSUME NEW w \in Workers, NEW fd \in Fds, EpollEvent(w, fd)
      PROVE  DisconnectInv'
  BY <1>24 DEF EpollEvent, Goto
<1>25. ASSUME NEW w \in Workers, NEW l \in Listeners, HandleAccept(w, l)
      PROVE  DisconnectInv'
  BY <1>25 DEF HandleAccept, NewListener, Call
<1>26. ASSUME NEW c \in Callers, NEW l \in Listeners, MakeEventListener(c, l)
      PROVE  DisconnectInv'
  BY <1>26 DEF MakeEventListener, NewListener, Call
<1>27. ASSUME NEW c \in Callers, NEW l \in Listeners, CallClose(c, l)
      PROVE  DisconnectInv'
  BY <1>27 DEF CallClose, Call, Known
<1>28. ASSUME NEW c \in Callers, NEW l \in Listeners, CallSetMode(c, l)
      PROVE  DisconnectInv'
  BY <1>28 DEF CallSetMode, Call, Known
<1>29. ASSUME NEW c \in Callers, NEW l \in Listeners, CallSendCloses(c, l)
      PROVE  DisconnectInv'
  BY <1>29 DEF CallSendCloses, CloseFd, Valid, Call, Known
<1>30. ASSUME NEW c \in Callers, NEW l \in Listeners, ReleaseSocket(c, l)
      PROVE  DisconnectInv'
  BY <1>30 DEF ReleaseSocket, Valid, Goto, Known
<1>31. ASSUME NEW c \in Callers, NEW fd \in Fds, CloseReleased(c, fd)
      PROVE  DisconnectInv'
  BY <1>31 DEF CloseReleased
<1>32. ASSUME NEW c \in Callers, StopBegin(c) PROVE DisconnectInv'
  BY <1>32 DEF StopBegin, Goto
<1>33. ASSUME NEW c \in Callers, StopNext(c) PROVE DisconnectInv'
  BY <1>33 DEF StopNext, Call
<1>34. ASSUME NEW c \in Callers, StopReturn(c) PROVE DisconnectInv'
  BY <1>34 DEF StopReturn, increment_semaphore, Goto
<1>35. ASSUME NEW c \in Callers, WaitReturn(c) PROVE DisconnectInv'
  BY <1>35 DEF WaitReturn, Goto
<1>36. ASSUME NEW c \in Callers, CallStop(c) PROVE DisconnectInv'
  BY <1>36 DEF CallStop, Goto
<1>37. ASSUME NEW c \in Callers, CallWait(c) PROVE DisconnectInv'
  BY <1>37 DEF CallWait, Goto
<1>38. ASSUME NEW c \in Callers, Destroy(c) PROVE DisconnectInv'
  BY <1>38 DEF Destroy, Valid, StopInv
<1>39. ASSUME NEW c \in Callers, Initialize(c) PROVE DisconnectInv'
  BY <1>39 DEF Initialize, StopInv
<1> HIDE DEF DisconnectInv
<1> QED
  BY <1>1, <1>2, <1>3, <1>4, <1>5, <1>6, <1>7, <1>8, <1>9, <1>10, <1>11, <1>12,
     <1>13, <1>14, <1>15, <1>16, <1>17, <1>18, <1>19, <1>20, <1>21, <1>22,
     <1>23, <1>24, <1>25, <1>26, <1>27, <1>28, <1>29, <1>30, <1>31, <1>32,
     <1>33, <1>34, <1>35, <1>36, <1>37, <1>38, <1>39 DEF Next, CallStep,
     WorkerStep, HandlerStep, CallerStep, AppStep

\* A thread that closes a listener goes on to erase its entry, or leaves that to
\* one that is past the test of m_has_disconnected.
LEMMA NoOrphanStep ==
    ASSUME TypeOK, ArgInv, CloseInv, StopInv, RegInv, DisconnectInv,
           NoOrphanEntry, Next
    PROVE  NoOrphanEntry'
<1> USE ThreadsAssumption, ListenersAssumption DEF TypeOK, Threads, WorkerPc,
        CallerPc, CallPc, ClosePc, loopVars, closeVars, ArgInv, CloseInv,
        DisconnectInv, WillErase, NoOrphanEntry
<1>1. ASSUME NEW t \in Threads, RegisterEventListener(t) PROVE NoOrphanEntry'
  BY <1>1 DEF RegisterEventListener, Goto, RegInv
<1>2. ASSUME NEW t \in Threads, ReRegister(t) PROVE NoOrphanEntry'
  BY <1>2 DEF ReRegister, Return, CallReturnPc, ReturnPc, Goto
<1>3. ASSUME NEW t \in Threads, NotifyListenerModeChange(t) PROVE NoOrphanEntry'
  BY <1>3 DEF NotifyListenerModeChange, Return, CallReturnPc, ReturnPc, Goto
<1>4. ASSUME NEW t \in Threads, RegisterSocket(t) PROVE NoOrphanEntry'
  BY <1>4 DEF RegisterSocket, Return, CallReturnPc, ReturnPc
<1>5. ASSUME NEW t \in Threads, CloseSocket(t) PROVE NoOrphanEntry'
  BY <1>5 DEF CloseSocket, Return, CallReturnPc, ReturnPc, Goto, CloseFd, Valid
<1>6. ASSUME NEW t \in Threads, TestDisconnected(t) PROVE NoOrphanEntry'
  BY <1>6 DEF TestDisconnected, ReturnPc, Goto
<1>7. ASSUME NEW t \in Threads, SetDisconnected(t) PROVE NoOrphanEntry'
  BY <1>7 DEF SetDisconnected, Goto
<1>8. ASSUME NEW t \in Threads, DisconnectReturns(t) PROVE NoOrphanEntry'
  BY <1>8 DEF DisconnectReturns, Goto
<1>9. ASSUME NEW t \in Threads, UnregisterEventListener(t) PROVE NoOrphanEntry'
  <2> SUFFICES ASSUME NEW fd \in Fds, m_event_listeners'[fd] # NoListener,
                      life'[m_event_listeners'[fd]] \in {"closed", "released"},
                      m_event_listeners'[fd] \notin silent'
               PROVE  \E u \in Threads : WillErase(u, m_event_listeners[fd])'
    BY <1>9, UnregisterFacts
  <2>1. fd # fileno[closing[t]] /\ m_event_listeners'[fd] = m_event_listeners[fd]
    BY <1>9, UnregisterFacts
  <2>2. PICK u \in Threads : WillErase(u, m_event_listeners[fd])
    BY <1>9, <2>1, UnregisterFacts
  <2>3. closing[t] # m_event_listeners[fd]
    BY <2>1
  <2>4. u # t => WillErase(u, m_event_listeners[fd])'
    BY <1>9, <2>1, <2>2, UnregisterFacts
  <2>5. u = t => WillErase(u, m_event_listeners[fd])'
    BY <1>9, <2>1, <2>2, <2>3, UnregisterFacts
  <2> QED
    BY <2>4, <2>5
<1>10. ASSUME NEW t \in Threads, NEW l \in Listeners, DisconnectRegisters(t, l)
      PROVE  NoOrphanEntry'
  BY <1>10 DEF DisconnectRegisters, NewListener, Call
<1>11. ASSUME NEW w \in Workers, ThreadLoop(w) PROVE NoOrphanEntry'
  BY <1>11 DEF ThreadLoop, Goto
<1>12. ASSUME NEW w \in Workers, UpdatePoll(w) PROVE NoOrphanEntry'
  BY <1>12 DEF UpdatePoll, Goto
<1>13. ASSUME NEW w \in Workers, EpollSemaphore(w) PROVE NoOrphanEntry'
  BY <1>13 DEF EpollSemaphore, Goto
<1>14. ASSUME NEW w \in Workers, DecrementSemaphore(w) PROVE NoOrphanEntry'
  BY <1>14 DEF DecrementSemaphore, Goto
<1>15. ASSUME NEW w \in Workers, PassOn(w) PROVE NoOrphanEntry'
  BY <1>15 DEF PassOn, increment_semaphore, Goto
<1>16. ASSUME NEW w \in Workers, UpdateLookup(w) PROVE NoOrphanEntry'
  BY <1>16 DEF UpdateLookup, Goto
<1>17. ASSUME NEW w \in Workers, HandleSetMode(w) PROVE NoOrphanEntry'
  BY <1>17 DEF HandleSetMode, Call
<1>18. ASSUME NEW w \in Workers, HandleEof(w) PROVE NoOrphanEntry'
  BY <1>18 DEF HandleEof, CloseFd, Valid
<1>19. ASSUME NEW w \in Workers, HandleReport(w) PROVE NoOrphanEntry'
  BY <1>19 DEF HandleReport, Goto
<1>20. ASSUME NEW w \in Workers, HandleWriteCloses(w) PROVE NoOrphanEntry'
  BY <1>20 DEF HandleWriteCloses, CloseFd, Valid
<1>21. ASSUME NEW w \in Workers, HandleClose(w) PROVE NoOrphanEntry'
  BY <1>21 DEF HandleClose, Call
<1>22. ASSUME NEW w \in Workers, HandleDone(w) PROVE NoOrphanEntry'
  BY <1>22 DEF HandleDone, Call
<1>23. ASSUME NEW w \in Workers, EpollInterrupted(w) PROVE NoOrphanEntry'
  BY <1>23 DEF EpollInterrupted, Goto
<1>24. ASSUME NEW w \in Workers, NEW fd \in Fds, EpollEvent(w, fd)
      PROVE  NoOrphanEntry'
  BY <1>24 DEF EpollEvent, Goto
<1>25. ASSUME NEW w \in Workers, NEW l \in Listeners, HandleAccept(w, l)
      PROVE  NoOrphanEntry'
  BY <1>25 DEF HandleAccept, NewListener, Call
<1>26. ASSUME NEW c \in Callers, NEW l \in Listeners, MakeEventListener(c, l)
      PROVE  NoOrphanEntry'
  BY <1>26 DEF MakeEventListener, NewListener, Call
<1>27. ASSUME NEW c \in Callers, NEW l \in Listeners, CallClose(c, l)
      PROVE  NoOrphanEntry'
  BY <1>27 DEF CallClose, Call, Known
<1>28. ASSUME NEW c \in Callers, NEW l \in Listeners, CallSetMode(c, l)
      PROVE  NoOrphanEntry'
  BY <1>28 DEF CallSetMode, Call, Known
<1>29. ASSUME NEW c \in Callers, NEW l \in Listeners, CallSendCloses(c, l)
      PROVE  NoOrphanEntry'
  BY <1>29 DEF CallSendCloses, CloseFd, Valid, Call, Known
<1>30. ASSUME NEW c \in Callers, NEW l \in Listeners, ReleaseSocket(c, l)
      PROVE  NoOrphanEntry'
  BY <1>30 DEF ReleaseSocket, Valid, Goto, Known
<1>31. ASSUME NEW c \in Callers, NEW fd \in Fds, CloseReleased(c, fd)
      PROVE  NoOrphanEntry'
  BY <1>31 DEF CloseReleased
<1>32. ASSUME NEW c \in Callers, StopBegin(c) PROVE NoOrphanEntry'
  BY <1>32 DEF StopBegin, Goto
<1>33. ASSUME NEW c \in Callers, StopNext(c) PROVE NoOrphanEntry'
  BY <1>33 DEF StopNext, Call
<1>34. ASSUME NEW c \in Callers, StopReturn(c) PROVE NoOrphanEntry'
  BY <1>34 DEF StopReturn, increment_semaphore, Goto
<1>35. ASSUME NEW c \in Callers, WaitReturn(c) PROVE NoOrphanEntry'
  BY <1>35 DEF WaitReturn, Goto
<1>36. ASSUME NEW c \in Callers, CallStop(c) PROVE NoOrphanEntry'
  BY <1>36 DEF CallStop, Goto
<1>37. ASSUME NEW c \in Callers, CallWait(c) PROVE NoOrphanEntry'
  BY <1>37 DEF CallWait, Goto
<1>38. ASSUME NEW c \in Callers, Destroy(c) PROVE NoOrphanEntry'
  BY <1>38 DEF Destroy, Valid, StopInv
<1>39. ASSUME NEW c \in Callers, Initialize(c) PROVE NoOrphanEntry'
  BY <1>39 DEF Initialize, StopInv
<1> HIDE DEF NoOrphanEntry
<1> QED
  BY <1>1, <1>2, <1>3, <1>4, <1>5, <1>6, <1>7, <1>8, <1>9, <1>10, <1>11, <1>12,
     <1>13, <1>14, <1>15, <1>16, <1>17, <1>18, <1>19, <1>20, <1>21, <1>22,
     <1>23, <1>24, <1>25, <1>26, <1>27, <1>28, <1>29, <1>30, <1>31, <1>32,
     <1>33, <1>34, <1>35, <1>36, <1>37, <1>38, <1>39 DEF Next, CallStep,
     WorkerStep, HandlerStep, CallerStep, AppStep
\* MapInv holds along with CoreInv.
LEMMA MapInvariant ==
    Spec => []MapInv
<1>1. Init => MapInv
  BY DEF Init, MapInv, RegInv, EntryInv, DisconnectInv, NoOrphanEntry, Threads
<1>2. CoreInv /\ MapInv /\ [Next]_vars => MapInv'
  <2> SUFFICES ASSUME CoreInv, MapInv, [Next]_vars PROVE MapInv'
    OBVIOUS
  <2>1. CASE Next
    BY <2>1, RegInvStep, EntryInvStep, DisconnectStep,
       NoOrphanStep DEF CoreInv, MapInv
  <2>2. CASE UNCHANGED vars
    BY <2>2 DEF MapInv, RegInv, EntryInv, DisconnectInv, NoOrphanEntry,
       WillErase, vars
  <2> QED
    BY <2>1, <2>2
<1> QED
  BY <1>1, <1>2, CoreInvariant, PTL DEF Spec

\* No entry outlives its listener but one that on_write_ready() found dead:
\* whenever the map holds another listener whose socket is gone, a thread is on
\* its way to erase the entry, and no thread that finds m_has_disconnected set
\* leaves it to nobody (close_socket_internal(), release_socket()).
THEOREM NoOrphans ==
    Spec => []NoOrphanEntry
<1>1. MapInv => NoOrphanEntry
  BY DEF MapInv
<1> QED
  BY <1>1, MapInvariant, PTL

\* Entries are erased by number although numbers are reused: of a live instance
\* an open listener loses its entry only to a thread that repeats the
\* unregistration of an earlier owner of the number (unregister_event_listener()
\* after the unlocked test of m_has_disconnected, or after release_socket()).
THEOREM OpenEntriesLostToRepeats ==
    Spec => OpenLostToRepeatOnly
<1> DEFINE Lost ==
      \A fd \in Fds :
          LET l == m_event_listeners[fd]
          IN l # NoListener /\ m_event_listeners'[fd] # l /\ m_instance'
                => \/ life[l] \in {"closed", "released"}
                   \/ \E t \in Threads :
                         /\ pc[t] = "unreg" /\ pc'[t] # "unreg"
                         /\ fileno[closing[t]] = fd
                         /\ closing[t] \in erased
<1>1. CoreInv /\ MapInv /\ [Next]_vars => [Lost]_vars
  <2> SUFFICES ASSUME CoreInv, MapInv, Next PROVE Lost
    OBVIOUS
  <2>1. ASSUME NEW t \in Threads, UnregisterEventListener(t) PROVE Lost
    <3>1. /\ pc[t] = "unreg" /\ pc'[t] # "unreg" /\ closing[t] \in Listeners
          /\ life[closing[t]] \in {"closed", "released"}
          /\ fileno[closing[t]] \in Fds
          /\ \A fd \in Fds : fd # fileno[closing[t]] =>
                m_event_listeners'[fd] = m_event_listeners[fd]
      BY <2>1, UnregisterFacts DEF CoreInv
    <3>2. m_event_listeners[fileno[closing[t]]] = closing[t] \/ closing[t] \in erased
      BY <3>1 DEF MapInv, EntryInv, RegInv
    <3> QED
      BY <3>1, <3>2
  <2>2. ASSUME NEW t \in Threads, RegisterEventListener(t) PROVE Lost
    BY <2>2 DEF RegisterEventListener, CoreInv, TypeOK
  <2>3. ASSUME NEW c \in Callers, Destroy(c) PROVE Lost
    BY <2>3 DEF Destroy
  <2>4. CASE UNCHANGED m_event_listeners
    BY <2>4
  <2>5. ASSUME NEW t \in Threads,
               \/ /\ CallStep(t)
                  /\ ~ UnregisterEventListener(t) /\ ~ RegisterEventListener(t)
               \/ \E l \in Listeners : DisconnectRegisters(t, l)
        PROVE  Lost
    BY <2>4, <2>5 DEF CallStep, ReRegister, RegisterSocket,
       NotifyListenerModeChange, CloseSocket, TestDisconnected, SetDisconnected,
       DisconnectReturns, DisconnectRegisters, NewListener
  <2>6. ASSUME NEW w \in Workers,
               \/ WorkerStep(w)
               \/ HandlerStep(w)
               \/ HandleReport(w)
               \/ HandleDone(w)
               \/ EpollInterrupted(w)
               \/ \E fd \in Fds : EpollEvent(w, fd)
        PROVE  Lost
    BY <2>4, <2>6 DEF WorkerStep, HandlerStep, ThreadLoop, UpdatePoll,
       EpollSemaphore, DecrementSemaphore, PassOn, UpdateLookup,
       HandleSetMode, HandleEof, HandleReport, HandleWriteCloses, HandleClose,
       HandleAccept, NewListener, HandleDone, EpollInterrupted, EpollEvent
  <2>7. ASSUME NEW c \in Callers, CallerStep(c) \/ (AppStep(c) /\ ~ Destroy(c))
        PROVE  Lost
    BY <2>4, <2>7 DEF CallerStep, StopBegin, StopNext, StopReturn, WaitReturn,
       AppStep, MakeEventListener, NewListener, CallClose, CallSetMode,
       CallSendCloses, ReleaseSocket, CloseReleased, CallStop, CallWait,
       Initialize
  <2> HIDE DEF Lost
  <2> QED
    BY <2>1, <2>2, <2>3, <2>5, <2>6, <2>7 DEF Next
<1> QED
  BY <1>1, CoreInvariant, MapInvariant, PTL DEF Spec, OpenLostToRepeatOnly

----------------------------------------------------------------------------

(* Monitoring.                                                              *)

\* l has a descriptor that no other listener ever had.
Sole(l) == fileno[l] \in Fds /\ \A k \in Listeners \ {l} : fileno[k] # fileno[l]

\* t is registering l: the EPOLL_CTL_ADD is still to come.
Adding(t, l) ==
    /\ arg[t] = l
    /\ \/ pc[t] \in {"reg", "regwait"}
       \/ pc[t] \in {"valid", "notify", "ctl"} /\ op[t] = "add"

\* A listener has no descriptor before its life, EPOLL_CTL_ADD is for
\* registrations only, a worker outside the handlers dispatches to none, and
\* the number it looks up, or of a socket that was released, is one that a
\* listener has or had.
LocalInv ==
    /\ \A l \in Listeners : life[l] = "fresh" => fileno[l] = NoFd
    /\ \A t \in Threads : op[t] = "add" => pc[t] \in {"valid", "notify", "ctl"}
    /\ \A w \in Workers : pc[w] \in WorkerPc \ {"handle"} => disp[w] = NoListener
    /\ \A w \in Workers : pc[w] = "lookup" =>
          \E k \in Listeners : fileno[k] = ev[w] /\ life[k] # "fresh"
    /\ \A fd \in loose : \E k \in Listeners : fileno[k] = fd /\ life[k] = "released"

\* What is in the epoll set is open: a closed descriptor has left it.
InterestInv == \A fd \in Fds : interest[fd] # "none" => FdOpen(fd)

\* Until its EPOLL_CTL_ADD, a listener whose descriptor is its own is not in
\* the epoll set, and others can only be closing it.
AddInv ==
    \A t \in Threads, l \in Listeners :
        Adding(t, l) /\ Sole(l) /\ life[l] \in {"open", "shutdown"} =>
            /\ interest[fileno[l]] = "none"
            /\ \A u \in Threads : u # t /\ arg[u] = l => pc[u] = "close"
            /\ \A w \in Workers : disp[w] # l /\ ~ (pc[w] = "lookup" /\ ev[w] = fileno[l])

\* Thereafter it is in the set, and armed unless a thread is to re-arm it.
MonitorInv ==
    \A l \in Listeners :
        /\ Sole(l) /\ life[l] \in {"open", "shutdown"}
        /\ m_event_listeners[fileno[l]] = l
        => /\ interest[fileno[l]] = "none" => \E t \in Threads : Adding(t, l)
           /\ interest[fileno[l]] # "armed" => \E t \in Threads : WillRearm(t, l)


\* Threads and listeners keep to these habits.
LEMMA LocalStep ==
    ASSUME TypeOK, ArgInv, CloseInv, StopInv, InterestInv, LocalInv, Next
    PROVE  LocalInv'
<1> USE ThreadsAssumption, ListenersAssumption, FdsAssumption DEF TypeOK,
        Threads, WorkerPc, CallerPc, CallPc, ClosePc, loopVars, closeVars,
        ArgInv, LocalInv
<1>1. ASSUME NEW t \in Threads, RegisterEventListener(t) PROVE LocalInv'
  BY <1>1 DEF RegisterEventListener, Goto
<1>2. ASSUME NEW t \in Threads, ReRegister(t) PROVE LocalInv'
  BY <1>2 DEF ReRegister, Return, CallReturnPc, ReturnPc, Goto
<1>3. ASSUME NEW t \in Threads, NotifyListenerModeChange(t) PROVE LocalInv'
  BY <1>3 DEF NotifyListenerModeChange, Return, CallReturnPc, ReturnPc, Goto
<1>4. ASSUME NEW t \in Threads, RegisterSocket(t) PROVE LocalInv'
  BY <1>4 DEF RegisterSocket, Return, CallReturnPc, ReturnPc
<1>5. ASSUME NEW t \in Threads, CloseSocket(t) PROVE LocalInv'
  BY <1>5 DEF CloseSocket, Return, CallReturnPc, ReturnPc, Goto, CloseFd, Valid
<1>6. ASSUME NEW t \in Threads, TestDisconnected(t) PROVE LocalInv'
  BY <1>6 DEF TestDisconnected, ReturnPc, Goto
<1>7. ASSUME NEW t \in Threads, SetDisconnected(t) PROVE LocalInv'
  BY <1>7 DEF SetDisconnected, Goto
<1>8. ASSUME NEW t \in Threads, DisconnectReturns(t) PROVE LocalInv'
  BY <1>8 DEF DisconnectReturns, Goto
<1>9. ASSUME NEW t \in Threads, UnregisterEventListener(t) PROVE LocalInv'
  BY <1>9 DEF UnregisterEventListener, EraseEntry, ReturnPc
<1>10. ASSUME NEW t \in Threads, NEW l \in Listeners, DisconnectRegisters(t, l)
      PROVE  LocalInv'
  BY <1>10 DEF DisconnectRegisters, NewListener, Call
<1>11. ASSUME NEW w \in Workers, ThreadLoop(w) PROVE LocalInv'
  BY <1>11 DEF ThreadLoop, Goto
<1>12. ASSUME NEW w \in Workers, UpdatePoll(w) PROVE LocalInv'
  BY <1>12 DEF UpdatePoll, Goto
<1>13. ASSUME NEW w \in Workers, EpollSemaphore(w) PROVE LocalInv'
  BY <1>13 DEF EpollSemaphore, Goto
<1>14. ASSUME NEW w \in Workers, DecrementSemaphore(w) PROVE LocalInv'
  BY <1>14 DEF DecrementSemaphore, Goto
<1>15. ASSUME NEW w \in Workers, PassOn(w) PROVE LocalInv'
  BY <1>15 DEF PassOn, increment_semaphore, Goto
<1>16. ASSUME NEW w \in Workers, UpdateLookup(w) PROVE LocalInv'
  BY <1>16 DEF UpdateLookup, Goto
<1>17. ASSUME NEW w \in Workers, HandleSetMode(w) PROVE LocalInv'
  BY <1>17 DEF HandleSetMode, Call
<1>18. ASSUME NEW w \in Workers, HandleEof(w) PROVE LocalInv'
  BY <1>18 DEF HandleEof, CloseFd, Valid, CloseInv
<1>19. ASSUME NEW w \in Workers, HandleReport(w) PROVE LocalInv'
  BY <1>19 DEF HandleReport, Goto
<1>20. ASSUME NEW w \in Workers, HandleWriteCloses(w) PROVE LocalInv'
  BY <1>20 DEF HandleWriteCloses, CloseFd, Valid
<1>21. ASSUME NEW w \in Workers, HandleClose(w) PROVE LocalInv'
  BY <1>21 DEF HandleClose, Call
<1>22. ASSUME NEW w \in Workers, HandleDone(w) PROVE LocalInv'
  BY <1>22 DEF HandleDone, Call
<1>23. ASSUME NEW w \in Workers, EpollInterrupted(w) PROVE LocalInv'
  BY <1>23 DEF EpollInterrupted, Goto
<1>24. ASSUME NEW w \in Workers, NEW fd \in Fds, EpollEvent(w, fd) PROVE LocalInv'
  BY <1>24 DEF EpollEvent, Goto, InterestInv, FdOpen, Valid
<1>25. ASSUME NEW w \in Workers, NEW l \in Listeners, HandleAccept(w, l)
      PROVE  LocalInv'
  BY <1>25 DEF HandleAccept, NewListener, Call
<1>26. ASSUME NEW c \in Callers, NEW l \in Listeners, MakeEventListener(c, l)
      PROVE  LocalInv'
  BY <1>26 DEF MakeEventListener, NewListener, Call
<1>27. ASSUME NEW c \in Callers, NEW l \in Listeners, CallClose(c, l)
      PROVE  LocalInv'
  BY <1>27 DEF CallClose, Call, Known, Registering
<1>28. ASSUME NEW c \in Callers, NEW l \in Listeners, CallSetMode(c, l)
      PROVE  LocalInv'
  BY <1>28 DEF CallSetMode, Call, Known, Registering
<1>29. ASSUME NEW c \in Callers, NEW l \in Listeners, CallSendCloses(c, l)
      PROVE  LocalInv'
  BY <1>29 DEF CallSendCloses, CloseFd, Valid, Call, Known, Registering
<1>30. ASSUME NEW c \in Callers, NEW l \in Listeners, ReleaseSocket(c, l)
      PROVE  LocalInv'
  BY <1>30 DEF ReleaseSocket, Valid, Goto, Known, Registering
<1>31. ASSUME NEW c \in Callers, NEW fd \in Fds, CloseReleased(c, fd)
      PROVE  LocalInv'
  BY <1>31 DEF CloseReleased
<1>32. ASSUME NEW c \in Callers, StopBegin(c) PROVE LocalInv'
  BY <1>32 DEF StopBegin, Goto
<1>33. ASSUME NEW c \in Callers, StopNext(c) PROVE LocalInv'
  BY <1>33 DEF StopNext, Call
<1>34. ASSUME NEW c \in Callers, StopReturn(c) PROVE LocalInv'
  BY <1>34 DEF StopReturn, increment_semaphore, Goto
<1>35. ASSUME NEW c \in Callers, WaitReturn(c) PROVE LocalInv'
  BY <1>35 DEF WaitReturn, Goto
<1>36. ASSUME NEW c \in Callers, CallStop(c) PROVE LocalInv'
  BY <1>36 DEF CallStop, Goto
<1>37. ASSUME NEW c \in Callers, CallWait(c) PROVE LocalInv'
  BY <1>37 DEF CallWait, Goto
<1>38. ASSUME NEW c \in Callers, Destroy(c) PROVE LocalInv'
  BY <1>38 DEF Destroy, Valid, StopInv
<1>39. ASSUME NEW c \in Callers, Initialize(c) PROVE LocalInv'
  BY <1>39 DEF Initialize, StopInv
<1> HIDE DEF LocalInv
<1> QED
  BY <1>1, <1>2, <1>3, <1>4, <1>5, <1>6, <1>7, <1>8, <1>9, <1>10, <1>11, <1>12,
     <1>13, <1>14, <1>15, <1>16, <1>17, <1>18, <1>19, <1>20, <1>21, <1>22,
     <1>23, <1>24, <1>25, <1>26, <1>27, <1>28, <1>29, <1>30, <1>31, <1>32,
     <1>33, <1>34, <1>35, <1>36, <1>37, <1>38, <1>39 DEF Next, CallStep,
     WorkerStep, HandlerStep, CallerStep, AppStep

\* A descriptor leaves the epoll set when it is closed.
LEMMA InterestStep ==
    ASSUME TypeOK, ArgInv, CloseInv, LocalInv, InterestInv, Next
    PROVE  InterestInv'
<1> USE ListenersAssumption, FdsAssumption DEF TypeOK, Threads, CallPc,
        loopVars, closeVars, ArgInv, InterestInv, FdOpen, Valid
<1>1. ASSUME NEW t \in Threads, RegisterEventListener(t) PROVE InterestInv'
  BY <1>1 DEF RegisterEventListener, Goto
<1>2. ASSUME NEW t \in Threads, ReRegister(t) PROVE InterestInv'
  BY <1>2 DEF ReRegister, Return, CallReturnPc, ReturnPc, Goto
<1>3. ASSUME NEW t \in Threads, NotifyListenerModeChange(t) PROVE InterestInv'
  BY <1>3 DEF NotifyListenerModeChange, Return, CallReturnPc, ReturnPc, Goto
<1>4. ASSUME NEW t \in Threads, RegisterSocket(t) PROVE InterestInv'
  BY <1>4 DEF RegisterSocket, Return, CallReturnPc, ReturnPc
<1>5. ASSUME NEW t \in Threads, CloseSocket(t) PROVE InterestInv'
  BY <1>5 DEF CloseSocket, Return, CallReturnPc, ReturnPc, Goto, CloseFd, Valid
<1>6. ASSUME NEW t \in Threads, TestDisconnected(t) PROVE InterestInv'
  BY <1>6 DEF TestDisconnected, ReturnPc, Goto
<1>7. ASSUME NEW t \in Threads, SetDisconnected(t) PROVE InterestInv'
  BY <1>7 DEF SetDisconnected, Goto
<1>8. ASSUME NEW t \in Threads, DisconnectReturns(t) PROVE InterestInv'
  BY <1>8 DEF DisconnectReturns, Goto
<1>9. ASSUME NEW t \in Threads, UnregisterEventListener(t) PROVE InterestInv'
  BY <1>9 DEF UnregisterEventListener, EraseEntry, ReturnPc, CloseInv, ClosePc
<1>10. ASSUME NEW t \in Threads, NEW l \in Listeners, DisconnectRegisters(t, l)
      PROVE  InterestInv'
  BY <1>10 DEF DisconnectRegisters, NewListener, Call
<1>11. ASSUME NEW w \in Workers, ThreadLoop(w) PROVE InterestInv'
  BY <1>11 DEF ThreadLoop, Goto
<1>12. ASSUME NEW w \in Workers, UpdatePoll(w) PROVE InterestInv'
  BY <1>12 DEF UpdatePoll, Goto
<1>13. ASSUME NEW w \in Workers, EpollSemaphore(w) PROVE InterestInv'
  BY <1>13 DEF EpollSemaphore, Goto
<1>14. ASSUME NEW w \in Workers, DecrementSemaphore(w) PROVE InterestInv'
  BY <1>14 DEF DecrementSemaphore, Goto
<1>15. ASSUME NEW w \in Workers, PassOn(w) PROVE InterestInv'
  BY <1>15 DEF PassOn, increment_semaphore, Goto
<1>16. ASSUME NEW w \in Workers, UpdateLookup(w) PROVE InterestInv'
  BY <1>16 DEF UpdateLookup, Goto
<1>17. ASSUME NEW w \in Workers, HandleSetMode(w) PROVE InterestInv'
  BY <1>17 DEF HandleSetMode, Call
<1>18. ASSUME NEW w \in Workers, HandleEof(w) PROVE InterestInv'
  BY <1>18 DEF HandleEof, CloseFd, Valid
<1>19. ASSUME NEW w \in Workers, HandleReport(w) PROVE InterestInv'
  BY <1>19 DEF HandleReport, Goto
<1>20. ASSUME NEW w \in Workers, HandleWriteCloses(w) PROVE InterestInv'
  BY <1>20 DEF HandleWriteCloses, CloseFd, Valid
<1>21. ASSUME NEW w \in Workers, HandleClose(w) PROVE InterestInv'
  BY <1>21 DEF HandleClose, Call
<1>22. ASSUME NEW w \in Workers, HandleDone(w) PROVE InterestInv'
  BY <1>22 DEF HandleDone, Call
<1>23. ASSUME NEW w \in Workers, EpollInterrupted(w) PROVE InterestInv'
  BY <1>23 DEF EpollInterrupted, Goto
<1>24. ASSUME NEW w \in Workers, NEW fd \in Fds, EpollEvent(w, fd)
      PROVE  InterestInv'
  BY <1>24 DEF EpollEvent, Goto
<1>25. ASSUME NEW w \in Workers, NEW l \in Listeners, HandleAccept(w, l)
      PROVE  InterestInv'
  BY <1>25 DEF HandleAccept, NewListener, Call
<1>26. ASSUME NEW c \in Callers, NEW l \in Listeners, MakeEventListener(c, l)
      PROVE  InterestInv'
  BY <1>26 DEF MakeEventListener, NewListener, Call
<1>27. ASSUME NEW c \in Callers, NEW l \in Listeners, CallClose(c, l)
      PROVE  InterestInv'
  BY <1>27 DEF CallClose, Call, Known
<1>28. ASSUME NEW c \in Callers, NEW l \in Listeners, CallSetMode(c, l)
      PROVE  InterestInv'
  BY <1>28 DEF CallSetMode, Call, Known
<1>29. ASSUME NEW c \in Callers, NEW l \in Listeners, CallSendCloses(c, l)
      PROVE  InterestInv'
  BY <1>29 DEF CallSendCloses, CloseFd, Valid, Call, Known
<1>30. ASSUME NEW c \in Callers, NEW l \in Listeners, ReleaseSocket(c, l)
      PROVE  InterestInv'
  BY <1>30 DEF ReleaseSocket, Valid, Goto, Known
<1>31. ASSUME NEW c \in Callers, NEW fd \in Fds, CloseReleased(c, fd)
      PROVE  InterestInv'
  BY <1>31 DEF CloseReleased
<1>32. ASSUME NEW c \in Callers, StopBegin(c) PROVE InterestInv'
  BY <1>32 DEF StopBegin, Goto
<1>33. ASSUME NEW c \in Callers, StopNext(c) PROVE InterestInv'
  BY <1>33 DEF StopNext, Call
<1>34. ASSUME NEW c \in Callers, StopReturn(c) PROVE InterestInv'
  BY <1>34 DEF StopReturn, increment_semaphore, Goto
<1>35. ASSUME NEW c \in Callers, WaitReturn(c) PROVE InterestInv'
  BY <1>35 DEF WaitReturn, Goto
<1>36. ASSUME NEW c \in Callers, CallStop(c) PROVE InterestInv'
  BY <1>36 DEF CallStop, Goto
<1>37. ASSUME NEW c \in Callers, CallWait(c) PROVE InterestInv'
  BY <1>37 DEF CallWait, Goto
<1>38. ASSUME NEW c \in Callers, Destroy(c) PROVE InterestInv'
  BY <1>38 DEF Destroy, Valid
<1>39. ASSUME NEW c \in Callers, Initialize(c) PROVE InterestInv'
  BY <1>39 DEF Initialize
<1> HIDE DEF InterestInv
<1> QED
  BY <1>1, <1>2, <1>3, <1>4, <1>5, <1>6, <1>7, <1>8, <1>9, <1>10, <1>11, <1>12,
     <1>13, <1>14, <1>15, <1>16, <1>17, <1>18, <1>19, <1>20, <1>21, <1>22,
     <1>23, <1>24, <1>25, <1>26, <1>27, <1>28, <1>29, <1>30, <1>31, <1>32,
     <1>33, <1>34, <1>35, <1>36, <1>37, <1>38, <1>39 DEF Next, CallStep,
     WorkerStep, HandlerStep, CallerStep, AppStep

\* A new listener has a number that is not in the epoll set, and if the number
\* is its own, nobody has business with it.
LEMMA NewListenerAdd ==
    ASSUME TypeOK, ArgInv, InterestInv, LocalInv, AddInv, NEW t \in Threads, NEW l \in Listeners,
           pc[t] \in {"handle", "idle", "disc"}, NewListener(t, l)
    PROVE  AddInv'
<1>1. PICK fd \in Fds : /\ ~ FdOpen(fd) \/ fd \in loose
                       /\ fileno' = [fileno EXCEPT ![l] = fd]
  BY DEF NewListener
<1>2. /\ life[l] = "fresh" /\ fileno[l] = NoFd
      /\ fileno'[l] = fd
      /\ \A k \in Listeners : k # l => fileno'[k] = fileno[k] /\ life'[k] = life[k]
  BY <1>1 DEF NewListener, LocalInv, TypeOK
<1>3. /\ UNCHANGED << interest, op, disp, ev >>
      /\ pc'[t] = "reg" /\ arg'[t] = l
      /\ \A u \in Threads : u # t => pc'[u] = pc[u] /\ arg'[u] = arg[u]
  BY DEF NewListener, Call, TypeOK
<1>4. t \in Workers => pc'[t] # "lookup" /\ pc[t] # "lookup"
  BY <1>3
<1>5. \A u \in Threads : arg[u] # l
  BY <1>2, ListenersAssumption DEF ArgInv
<1>6. \A w \in Workers : disp[w] # l
  BY <1>2, ListenersAssumption DEF ArgInv
<1> SUFFICES ASSUME NEW u \in Threads, NEW k \in Listeners, Adding(u, k)', Sole(k)',
                    life'[k] \in {"open", "shutdown"}
             PROVE  /\ interest[fileno'[k]] = "none"
                    /\ \A v \in Threads : v # u /\ arg'[v] = k => pc'[v] = "close"
                    /\ \A w \in Workers : disp[w] # k /\ ~ (pc'[w] = "lookup" /\ ev[w] = fileno'[k])
  BY <1>3 DEF AddInv
<1>7. CASE k = l
  <2>4. fd \notin loose
    <3>1. ASSUME fd \in loose PROVE FALSE
      <4>1. PICK j \in Listeners : fileno[j] = fd /\ life[j] = "released"
        BY <3>1 DEF LocalInv
      <4> QED
        BY <1>2, <1>7, <4>1 DEF Sole
    <3> QED
      BY <3>1
  <2>1. interest[fd] = "none"
    BY <1>1, <2>4 DEF InterestInv
  <2>2. u = t
    BY <1>3, <1>5, <1>7 DEF Adding
  <2>3. ASSUME NEW w \in Workers, pc'[w] = "lookup", ev[w] = fd PROVE FALSE
    <3>1. pc[w] = "lookup"
      BY <1>3, <1>4, <2>3 DEF Threads
    <3>2. PICK j \in Listeners : fileno[j] = fd /\ life[j] # "fresh"
      BY <2>3, <3>1 DEF LocalInv
    <3>3. j # l /\ fileno'[j] = fd
      BY <1>2, <3>2
    <3> QED
      BY <1>2, <1>7, <3>3 DEF Sole
  <2> QED
    BY <1>2, <1>3, <1>5, <1>6, <1>7, <2>1, <2>2, <2>3
<1>8. CASE k # l
  <2>1. Sole(k) /\ fileno'[k] = fileno[k] /\ life[k] \in {"open", "shutdown"}
    BY <1>2, <1>8, FdsAssumption DEF Sole
  <2>2. u # t
    BY <1>3, <1>8 DEF Adding
  <2>3. Adding(u, k)
    BY <1>3, <2>2 DEF Adding
  <2>4. /\ interest[fileno[k]] = "none"
        /\ \A v \in Threads : v # u /\ arg[v] = k => pc[v] = "close"
        /\ \A w \in Workers : disp[w] # k /\ ~ (pc[w] = "lookup" /\ ev[w] = fileno[k])
    BY <2>1, <2>3 DEF AddInv
  <2>5. \A w \in Workers : pc'[w] = "lookup" => pc[w] = "lookup"
    BY <1>3 DEF Threads
  <2>6. \A v \in Threads : arg'[v] = k => v # t
    BY <1>3, <1>8
  <2> QED
    BY <1>3, <2>1, <2>4, <2>5, <2>6
<1> QED
  BY <1>7, <1>8


\* Nobody else touches the epoll entry of a listener that is registered.
LEMMA AddStep ==
    ASSUME TypeOK, ArgInv, CloseInv, StopInv, RegInv, InterestInv, LocalInv,
           AddInv, Next
    PROVE  AddInv'
<1> USE ThreadsAssumption, ListenersAssumption, FdsAssumption DEF TypeOK,
        Threads, WorkerPc, CallerPc, CallPc, ClosePc, loopVars, closeVars,
        ArgInv, LocalInv, AddInv, Adding, Sole
<1>1. ASSUME NEW t \in Threads, RegisterEventListener(t) PROVE AddInv'
  BY <1>1 DEF RegisterEventListener, Goto
<1>2. ASSUME NEW t \in Threads, ReRegister(t) PROVE AddInv'
  BY <1>2 DEF ReRegister, Return, CallReturnPc, ReturnPc, Goto
<1>3. ASSUME NEW t \in Threads, NotifyListenerModeChange(t) PROVE AddInv'
  BY <1>3 DEF NotifyListenerModeChange, Return, CallReturnPc, ReturnPc, Goto
<1>4. ASSUME NEW t \in Threads, RegisterSocket(t) PROVE AddInv'
  BY <1>4 DEF RegisterSocket, Return, CallReturnPc, ReturnPc
<1>5. ASSUME NEW t \in Threads, CloseSocket(t) PROVE AddInv'
  BY <1>5 DEF CloseSocket, Return, CallReturnPc, ReturnPc, Goto, CloseFd, Valid
<1>6. ASSUME NEW t \in Threads, TestDisconnected(t) PROVE AddInv'
  BY <1>6 DEF TestDisconnected, ReturnPc, Goto
<1>7. ASSUME NEW t \in Threads, SetDisconnected(t) PROVE AddInv'
  BY <1>7 DEF SetDisconnected, Goto
<1>8. ASSUME NEW t \in Threads, DisconnectReturns(t) PROVE AddInv'
  BY <1>8 DEF DisconnectReturns, Goto
<1>9. ASSUME NEW t \in Threads, UnregisterEventListener(t) PROVE AddInv'
  <2> SUFFICES ASSUME NEW u \in Threads, NEW l \in Listeners, Adding(u, l)', Sole(l)',
                      life'[l] \in {"open", "shutdown"}
               PROVE  /\ interest'[fileno'[l]] = "none"
                      /\ \A v \in Threads : v # u /\ arg'[v] = l => pc'[v] = "close"
                      /\ \A w \in Workers : /\ disp'[w] # l
                                              /\ ~ (pc'[w] = "lookup" /\ ev'[w] = fileno'[l])
    OBVIOUS
  <2>1. Sole(l) /\ life[l] \in {"open", "shutdown"} /\ Adding(u, l)
    BY <1>9, UnregisterFacts
  <2>2. /\ interest[fileno[l]] = "none"
        /\ \A v \in Threads : v # u /\ arg[v] = l => pc[v] = "close"
        /\ \A w \in Workers : disp[w] # l /\ ~ (pc[w] = "lookup" /\ ev[w] = fileno[l])
    BY <2>1
  <2>3. interest'[fileno'[l]] = "none"
    BY <1>9, <2>1, <2>2, UnregisterFacts
  <2>4. \A v \in Threads : v # u /\ arg'[v] = l => pc'[v] = "close"
    BY <1>9, <2>2, UnregisterFacts
  <2> QED
    BY <1>9, <2>2, <2>3, <2>4, UnregisterFacts
<1>10. ASSUME NEW t \in Threads, NEW l \in Listeners, DisconnectRegisters(t, l)
      PROVE  AddInv'
  BY <1>10, NewListenerAdd DEF DisconnectRegisters
<1>11. ASSUME NEW w \in Workers, ThreadLoop(w) PROVE AddInv'
  BY <1>11 DEF ThreadLoop, Goto
<1>12. ASSUME NEW w \in Workers, UpdatePoll(w) PROVE AddInv'
  BY <1>12 DEF UpdatePoll, Goto
<1>13. ASSUME NEW w \in Workers, EpollSemaphore(w) PROVE AddInv'
  BY <1>13 DEF EpollSemaphore, Goto
<1>14. ASSUME NEW w \in Workers, DecrementSemaphore(w) PROVE AddInv'
  BY <1>14 DEF DecrementSemaphore, Goto
<1>15. ASSUME NEW w \in Workers, PassOn(w) PROVE AddInv'
  BY <1>15 DEF PassOn, increment_semaphore, Goto
<1>16. ASSUME NEW w \in Workers, UpdateLookup(w) PROVE AddInv'
  BY <1>16 DEF UpdateLookup, Goto
<1>17. ASSUME NEW w \in Workers, HandleSetMode(w) PROVE AddInv'
  BY <1>17 DEF HandleSetMode, Call
<1>18. ASSUME NEW w \in Workers, HandleEof(w) PROVE AddInv'
  BY <1>18 DEF HandleEof, CloseFd, Valid
<1>19. ASSUME NEW w \in Workers, HandleReport(w) PROVE AddInv'
  BY <1>19 DEF HandleReport, Goto
<1>20. ASSUME NEW w \in Workers, HandleWriteCloses(w) PROVE AddInv'
  BY <1>20 DEF HandleWriteCloses, CloseFd, Valid
<1>21. ASSUME NEW w \in Workers, HandleClose(w) PROVE AddInv'
  BY <1>21 DEF HandleClose, Call
<1>22. ASSUME NEW w \in Workers, HandleDone(w) PROVE AddInv'
  BY <1>22 DEF HandleDone, Call
<1>23. ASSUME NEW w \in Workers, EpollInterrupted(w) PROVE AddInv'
  BY <1>23 DEF EpollInterrupted, Goto
<1>24. ASSUME NEW w \in Workers, NEW fd \in Fds, EpollEvent(w, fd) PROVE AddInv'
  BY <1>24 DEF EpollEvent, Goto
<1>25. ASSUME NEW w \in Workers, NEW l \in Listeners, HandleAccept(w, l)
      PROVE  AddInv'
  BY <1>25, NewListenerAdd DEF HandleAccept
<1>26. ASSUME NEW c \in Callers, NEW l \in Listeners, MakeEventListener(c, l)
      PROVE  AddInv'
  BY <1>26, NewListenerAdd DEF MakeEventListener
<1>27. ASSUME NEW c \in Callers, NEW l \in Listeners, CallClose(c, l) PROVE AddInv'
  BY <1>27 DEF CallClose, Call, Known, Registering
<1>28. ASSUME NEW c \in Callers, NEW l \in Listeners, CallSetMode(c, l)
      PROVE  AddInv'
  BY <1>28 DEF CallSetMode, Call, Known, Registering
<1>29. ASSUME NEW c \in Callers, NEW l \in Listeners, CallSendCloses(c, l)
      PROVE  AddInv'
  BY <1>29 DEF CallSendCloses, CloseFd, Valid, Call, Known, Registering
<1>30. ASSUME NEW c \in Callers, NEW l \in Listeners, ReleaseSocket(c, l)
      PROVE  AddInv'
  BY <1>30 DEF ReleaseSocket, Valid, Goto, Known, Registering
<1>31. ASSUME NEW c \in Callers, NEW fd \in Fds, CloseReleased(c, fd) PROVE AddInv'
  BY <1>31 DEF CloseReleased
<1>32. ASSUME NEW c \in Callers, StopBegin(c) PROVE AddInv'
  BY <1>32 DEF StopBegin, Goto
<1>33. ASSUME NEW c \in Callers, StopNext(c) PROVE AddInv'
  BY <1>33 DEF StopNext, Call
<1>34. ASSUME NEW c \in Callers, StopReturn(c) PROVE AddInv'
  BY <1>34 DEF StopReturn, increment_semaphore, Goto
<1>35. ASSUME NEW c \in Callers, WaitReturn(c) PROVE AddInv'
  BY <1>35 DEF WaitReturn, Goto
<1>36. ASSUME NEW c \in Callers, CallStop(c) PROVE AddInv'
  BY <1>36 DEF CallStop, Goto
<1>37. ASSUME NEW c \in Callers, CallWait(c) PROVE AddInv'
  BY <1>37 DEF CallWait, Goto
<1>38. ASSUME NEW c \in Callers, Destroy(c) PROVE AddInv'
  BY <1>38 DEF Destroy, Valid, StopInv
<1>39. ASSUME NEW c \in Callers, Initialize(c) PROVE AddInv'
  BY <1>39 DEF Initialize, StopInv
<1> HIDE DEF AddInv
<1> QED
  BY <1>1, <1>2, <1>3, <1>4, <1>5, <1>6, <1>7, <1>8, <1>9, <1>10, <1>11, <1>12,
     <1>13, <1>14, <1>15, <1>16, <1>17, <1>18, <1>19, <1>20, <1>21, <1>22,
     <1>23, <1>24, <1>25, <1>26, <1>27, <1>28, <1>29, <1>30, <1>31, <1>32,
     <1>33, <1>34, <1>35, <1>36, <1>37, <1>38, <1>39 DEF Next, CallStep,
     WorkerStep, HandlerStep, CallerStep, AppStep

\* An entry is disarmed by an event or a close, and whoever got the event, or
\* registers the listener, arms it again.
LEMMA MonitorStep ==
    ASSUME TypeOK, ArgInv, CloseInv, StopInv, LocalInv, AddInv, MonitorInv, Next
    PROVE  MonitorInv'
<1> USE ThreadsAssumption, ListenersAssumption, FdsAssumption DEF TypeOK,
        Threads, WorkerPc, CallerPc, CallPc, ClosePc, loopVars, closeVars
<1>1. ASSUME NEW t \in Threads, RegisterEventListener(t) PROVE MonitorInv'
  <2> SUFFICES ASSUME NEW l \in Listeners, Sole(l)', life'[l] \in {"open", "shutdown"},
                      m_event_listeners'[fileno'[l]] = l
               PROVE  /\ interest'[fileno'[l]] = "none" => \E u \in Threads : Adding(u, l)'
                      /\ interest'[fileno'[l]] # "armed" => \E u \in Threads : WillRearm(u, l)'
    BY DEF MonitorInv
  <2>1. /\ pc[t] = "reg" /\ UNCHANGED << interest, life, fileno, arg, disp, ev >>
        /\ \A u \in Threads : u # t => pc'[u] = pc[u] /\ op'[u] = op[u]
        /\ pc'[t] \in {"valid", "regwait"}
        /\ arg[t] \in Listeners /\ fileno[arg[t]] \in Fds
    BY <1>1 DEF RegisterEventListener, Goto, TypeOK, ArgInv, CallPc
  <2>2. CASE m_event_listeners[fileno[l]] = l
    <3>1. /\ interest[fileno[l]] = "none" => \E u \in Threads : Adding(u, l)
          /\ interest[fileno[l]] # "armed" => \E u \in Threads : WillRearm(u, l)
      BY <2>1, <2>2 DEF MonitorInv, Sole
    <3>2. \A u \in Threads : Adding(u, l) => Adding(u, l)'
      BY <1>1, <2>1 DEF Adding, RegisterEventListener, Goto, TypeOK
    <3>3. \A u \in Threads : WillRearm(u, l) => WillRearm(u, l)'
      BY <2>1 DEF WillRearm
    <3> QED
      BY <2>1, <3>1, <3>2, <3>3
  <2>3. CASE m_event_listeners[fileno[l]] # l
    <3>1. arg[t] = l /\ op'[t] = "add" /\ pc'[t] = "valid"
      BY <1>1, <2>1, <2>3 DEF RegisterEventListener, Goto, TypeOK, Sole
    <3> QED
      BY <2>1, <3>1 DEF Adding, WillRearm
  <2> QED
    BY <2>2, <2>3
<1>2. ASSUME NEW t \in Threads, RegisterSocket(t) PROVE MonitorInv'
  <2> SUFFICES ASSUME NEW l \in Listeners, Sole(l)', life'[l] \in {"open", "shutdown"},
                      m_event_listeners'[fileno'[l]] = l
               PROVE  /\ interest'[fileno'[l]] = "none" => \E u \in Threads : Adding(u, l)'
                      /\ interest'[fileno'[l]] # "armed" => \E u \in Threads : WillRearm(u, l)'
    BY DEF MonitorInv
  <2>1. pc[t] = "ctl" /\ UNCHANGED << m_event_listeners, life, fileno, disp, ev >>
    BY <1>2 DEF RegisterSocket
  <2>2. arg[t] \in Listeners /\ fileno[arg[t]] \in Fds
    BY <2>1 DEF ArgInv, CallPc
  <2>3. /\ Sole(l) /\ life[l] \in {"open", "shutdown"}
        /\ interest[fileno[l]] = "none" => \E u \in Threads : Adding(u, l)
        /\ interest[fileno[l]] # "armed" => \E u \in Threads : WillRearm(u, l)
    BY <2>1 DEF MonitorInv, Sole
  <2>4. CASE arg[t] = l
    <3>1. IF op[t] = "add" THEN FdOpen(fileno[l]) /\ interest[fileno[l]] = "none"
                           ELSE interest[fileno[l]] # "none"
      <4>1. CASE op[t] = "add"
        BY <2>1, <2>3, <2>4, <4>1 DEF AddInv, Adding, FdOpen, Valid
      <4>2. CASE op[t] # "add"
        BY <2>1, <2>3, <2>4, <4>2 DEF AddInv, Adding
      <4> QED
        BY <4>1, <4>2
    <3>2. interest' = [interest EXCEPT ![fileno[l]] = "armed"]
      BY <1>2, <2>4, <3>1 DEF RegisterSocket
    <3>3. interest'[fileno[l]] = "armed"
      BY <2>3, <3>2 DEF TypeOK, Sole
    <3> QED
      BY <2>1, <3>3
  <2>5. CASE arg[t] # l
    <3>1. fileno[arg[t]] # fileno[l]
      BY <2>2, <2>3, <2>5 DEF Sole
    <3>2. interest'[fileno[l]] = interest[fileno[l]]
      BY <1>2, <2>3, <3>1 DEF RegisterSocket, TypeOK, Sole
    <3>3. \A u \in Threads : u # t => pc'[u] = pc[u] /\ arg'[u] = arg[u] /\ op'[u] = op[u]
      BY <1>2 DEF RegisterSocket, Return, TypeOK
    <3>4. \A u \in Threads : Adding(u, l) => Adding(u, l)'
      BY <2>5, <3>3 DEF Adding
    <3>5. \A u \in Threads : WillRearm(u, l) => WillRearm(u, l)'
      BY <2>1, <2>5, <3>3 DEF WillRearm
    <3> QED
      BY <2>1, <2>3, <3>2, <3>4, <3>5
  <2> QED
    BY <2>4, <2>5
<1>3. ASSUME NEW t \in Threads, CloseSocket(t) PROVE MonitorInv'
  <2> SUFFICES ASSUME NEW l \in Listeners, Sole(l)', life'[l] \in {"open", "shutdown"},
                      m_event_listeners'[fileno'[l]] = l
               PROVE  /\ interest'[fileno'[l]] = "none" => \E u \in Threads : Adding(u, l)'
                      /\ interest'[fileno'[l]] # "armed" => \E u \in Threads : WillRearm(u, l)'
    BY DEF MonitorInv
  <2>1. /\ pc[t] = "close" /\ UNCHANGED << m_event_listeners, fileno, disp, ev >>
        /\ arg[t] \in Listeners /\ fileno[arg[t]] \in Fds
    BY <1>3 DEF CloseSocket, ArgInv, CallPc
  <2>2. \A u \in Threads : u # t => pc'[u] = pc[u] /\ arg'[u] = arg[u] /\ op'[u] = op[u]
    BY <1>3 DEF CloseSocket, Return, Goto, TypeOK
  <2>3. /\ Sole(l) /\ life[l] \in {"open", "shutdown"}
        /\ interest'[fileno[l]] = interest[fileno[l]]
    BY <1>3, <2>1 DEF CloseSocket, CloseFd, Valid, Sole, TypeOK
  <2>4. /\ interest[fileno[l]] = "none" => \E u \in Threads : Adding(u, l)
        /\ interest[fileno[l]] # "armed" => \E u \in Threads : WillRearm(u, l)
    BY <2>1, <2>3 DEF MonitorInv
  <2>5. \A u \in Threads : Adding(u, l) => Adding(u, l)'
    BY <2>1, <2>2 DEF Adding
  <2>6. \A u \in Threads : WillRearm(u, l) => WillRearm(u, l)'
    BY <2>1, <2>2 DEF WillRearm
  <2> QED
    BY <2>1, <2>3, <2>4, <2>5, <2>6
<1>4. ASSUME NEW t \in Threads, UnregisterEventListener(t) PROVE MonitorInv'
  <2> SUFFICES ASSUME NEW l \in Listeners, Sole(l)', life'[l] \in {"open", "shutdown"},
                      m_event_listeners'[fileno'[l]] = l
               PROVE  /\ interest'[fileno'[l]] = "none" => \E u \in Threads : Adding(u, l)'
                      /\ interest'[fileno'[l]] # "armed" => \E u \in Threads : WillRearm(u, l)'
    BY DEF MonitorInv
  <2>1. /\ fileno[l] \in Fds /\ fileno[l] # fileno[closing[t]] /\ closing[t] # l
        /\ m_event_listeners[fileno[l]] = l /\ Sole(l)
        /\ life[l] \in {"open", "shutdown"}
        /\ interest'[fileno'[l]] = interest[fileno[l]]
    BY <1>4, UnregisterFacts DEF Sole
  <2>2. /\ interest[fileno[l]] = "none" => \E u \in Threads : Adding(u, l)
        /\ interest[fileno[l]] # "armed" => \E u \in Threads : WillRearm(u, l)
    BY <2>1 DEF MonitorInv
  <2>3. \A u \in Threads : Adding(u, l) => Adding(u, l)'
    BY <1>4, UnregisterFacts DEF Adding
  <2>4. \A u \in Threads : WillRearm(u, l) => WillRearm(u, l)'
    BY <1>4, UnregisterFacts DEF WillRearm
  <2> QED
    BY <2>1, <2>2, <2>3, <2>4
<1>5. ASSUME NEW c \in Callers, Initialize(c) PROVE MonitorInv'
  <2> SUFFICES ASSUME NEW l \in Listeners, Sole(l)', life'[l] \in {"open", "shutdown"},
                      m_event_listeners'[fileno'[l]] = l
               PROVE  /\ interest'[fileno'[l]] = "none" => \E u \in Threads : Adding(u, l)'
                      /\ interest'[fileno'[l]] # "armed" => \E u \in Threads : WillRearm(u, l)'
    BY DEF MonitorInv
  <2>1. \A w \in Workers : pc[w] = "exit" /\ pc'[w] = "loop"
    BY <1>5 DEF Initialize, StopInv, Threads
  <2>2. \A u \in Threads : u \notin Workers => pc'[u] = pc[u]
    BY <1>5 DEF Initialize
  <2>3. UNCHANGED << m_event_listeners, interest, life, fileno, arg, op, disp, ev >>
    BY <1>5 DEF Initialize
  <2>4. /\ Sole(l)
        /\ interest[fileno[l]] = "none" => \E u \in Threads : Adding(u, l)
        /\ interest[fileno[l]] # "armed" => \E u \in Threads : WillRearm(u, l)
    BY <2>3 DEF MonitorInv, Sole
  <2>5. \A u \in Threads : Adding(u, l) => Adding(u, l)'
    BY <2>1, <2>2, <2>3 DEF Adding
  <2>6. \A u \in Threads : WillRearm(u, l) => WillRearm(u, l)'
    BY <2>1, <2>2, <2>3 DEF WillRearm
  <2> QED
    BY <2>3, <2>4, <2>5, <2>6
<1> USE DEF ArgInv, LocalInv, AddInv, Adding, Sole, MonitorInv, WillRearm
<1>6. ASSUME NEW t \in Threads, ReRegister(t) PROVE MonitorInv'
  BY <1>6, SMTT(30) DEF ReRegister, Return, CallReturnPc, ReturnPc, Goto, Valid
<1>7. ASSUME NEW t \in Threads, NotifyListenerModeChange(t) PROVE MonitorInv'
  <2>1. CASE Return(t)
    BY <1>7, <2>1 DEF NotifyListenerModeChange, Return, CallReturnPc, ReturnPc
  <2>2. CASE Goto(t, "ctl") /\ UNCHANGED << arg, op >>
    BY <1>7, <2>2 DEF NotifyListenerModeChange, Goto
  <2> QED
    BY <1>7, <2>1, <2>2 DEF NotifyListenerModeChange
<1>8. ASSUME NEW t \in Threads, TestDisconnected(t) PROVE MonitorInv'
  BY <1>8 DEF TestDisconnected, ReturnPc, Goto
<1>9. ASSUME NEW t \in Threads, SetDisconnected(t) PROVE MonitorInv'
  BY <1>9 DEF SetDisconnected, Goto
<1>10. ASSUME NEW t \in Threads, DisconnectReturns(t) PROVE MonitorInv'
  BY <1>10 DEF DisconnectReturns, Goto
<1>11. ASSUME NEW t \in Threads, NEW l \in Listeners, DisconnectRegisters(t, l)
      PROVE  MonitorInv'
  BY <1>11 DEF DisconnectRegisters, NewListener, Call
<1>12. ASSUME NEW w \in Workers, ThreadLoop(w) PROVE MonitorInv'
  BY <1>12 DEF ThreadLoop, Goto
<1>13. ASSUME NEW w \in Workers, UpdatePoll(w) PROVE MonitorInv'
  BY <1>13 DEF UpdatePoll, Goto
<1>14. ASSUME NEW w \in Workers, EpollSemaphore(w) PROVE MonitorInv'
  BY <1>14 DEF EpollSemaphore, Goto
<1>15. ASSUME NEW w \in Workers, DecrementSemaphore(w) PROVE MonitorInv'
  BY <1>15 DEF DecrementSemaphore, Goto
<1>16. ASSUME NEW w \in Workers, PassOn(w) PROVE MonitorInv'
  BY <1>16 DEF PassOn, increment_semaphore, Goto
<1>17. ASSUME NEW w \in Workers, UpdateLookup(w) PROVE MonitorInv'
  BY <1>17 DEF UpdateLookup, Goto
<1>18. ASSUME NEW w \in Workers, HandleSetMode(w) PROVE MonitorInv'
  BY <1>18 DEF HandleSetMode, Call
<1>19. ASSUME NEW w \in Workers, HandleEof(w) PROVE MonitorInv'
  BY <1>19 DEF HandleEof, CloseFd, Valid
<1>20. ASSUME NEW w \in Workers, HandleReport(w) PROVE MonitorInv'
  BY <1>20 DEF HandleReport, Goto
<1>21. ASSUME NEW w \in Workers, HandleWriteCloses(w) PROVE MonitorInv'
  BY <1>21 DEF HandleWriteCloses, CloseFd, Valid
<1>22. ASSUME NEW w \in Workers, HandleClose(w) PROVE MonitorInv'
  BY <1>22 DEF HandleClose, Call
<1>23. ASSUME NEW w \in Workers, HandleDone(w) PROVE MonitorInv'
  BY <1>23 DEF HandleDone, Call
<1>24. ASSUME NEW w \in Workers, EpollInterrupted(w) PROVE MonitorInv'
  BY <1>24 DEF EpollInterrupted, Goto
<1>25. ASSUME NEW w \in Workers, NEW fd \in Fds, EpollEvent(w, fd) PROVE MonitorInv'
  BY <1>25 DEF EpollEvent, Goto
<1>26. ASSUME NEW w \in Workers, NEW l \in Listeners, HandleAccept(w, l)
      PROVE  MonitorInv'
  BY <1>26 DEF HandleAccept, NewListener, Call
<1>27. ASSUME NEW c \in Callers, NEW l \in Listeners, MakeEventListener(c, l)
      PROVE  MonitorInv'
  BY <1>27 DEF MakeEventListener, NewListener, Call
<1>28. ASSUME NEW c \in Callers, NEW l \in Listeners, CallClose(c, l)
      PROVE  MonitorInv'
  BY <1>28 DEF CallClose, Call, Known, Registering
<1>29. ASSUME NEW c \in Callers, NEW l \in Listeners, CallSetMode(c, l)
      PROVE  MonitorInv'
  BY <1>29 DEF CallSetMode, Call, Known, Registering
<1>30. ASSUME NEW c \in Callers, NEW l \in Listeners, CallSendCloses(c, l)
      PROVE  MonitorInv'
  BY <1>30 DEF CallSendCloses, CloseFd, Valid, Call, Known, Registering
<1>31. ASSUME NEW c \in Callers, NEW l \in Listeners, ReleaseSocket(c, l)
      PROVE  MonitorInv'
  BY <1>31 DEF ReleaseSocket, Valid, Goto, Known, Registering
<1>32. ASSUME NEW c \in Callers, NEW fd \in Fds, CloseReleased(c, fd)
      PROVE  MonitorInv'
  BY <1>32 DEF CloseReleased
<1>33. ASSUME NEW c \in Callers, StopBegin(c) PROVE MonitorInv'
  BY <1>33 DEF StopBegin, Goto
<1>34. ASSUME NEW c \in Callers, StopNext(c) PROVE MonitorInv'
  BY <1>34 DEF StopNext, Call
<1>35. ASSUME NEW c \in Callers, StopReturn(c) PROVE MonitorInv'
  BY <1>35 DEF StopReturn, increment_semaphore, Goto
<1>36. ASSUME NEW c \in Callers, WaitReturn(c) PROVE MonitorInv'
  BY <1>36 DEF WaitReturn, Goto
<1>37. ASSUME NEW c \in Callers, CallStop(c) PROVE MonitorInv'
  BY <1>37 DEF CallStop, Goto
<1>38. ASSUME NEW c \in Callers, CallWait(c) PROVE MonitorInv'
  BY <1>38 DEF CallWait, Goto
<1>39. ASSUME NEW c \in Callers, Destroy(c) PROVE MonitorInv'
  BY <1>39 DEF Destroy, Valid, StopInv
<1> HIDE DEF MonitorInv
<1> QED
  BY <1>1, <1>2, <1>3, <1>4, <1>5, <1>6, <1>7, <1>8, <1>9, <1>10, <1>11, <1>12,
     <1>13, <1>14, <1>15, <1>16, <1>17, <1>18, <1>19, <1>20, <1>21, <1>22,
     <1>23, <1>24, <1>25, <1>26, <1>27, <1>28, <1>29, <1>30, <1>31, <1>32,
     <1>33, <1>34, <1>35, <1>36, <1>37, <1>38, <1>39 DEF Next, CallStep,
     WorkerStep, HandlerStep, CallerStep, AppStep

\* These hold along with CoreInv and MapInv.
LEMMA MonitorInvariant == Spec => [](LocalInv /\ InterestInv /\ AddInv /\ MonitorInv)
<1> DEFINE Inv == LocalInv /\ InterestInv /\ AddInv /\ MonitorInv
<1>1. Init => Inv
  BY DEF Init, LocalInv, InterestInv, AddInv, Adding, MonitorInv, Threads
<1>2. CoreInv /\ MapInv /\ Inv /\ [Next]_vars => Inv'
  <2> SUFFICES ASSUME CoreInv, MapInv, Inv, [Next]_vars PROVE Inv'
    OBVIOUS
  <2>1. CASE Next
    BY <2>1, LocalStep, InterestStep, AddStep, MonitorStep DEF CoreInv, MapInv
  <2>2. CASE UNCHANGED vars
    BY <2>2 DEF LocalInv, InterestInv, FdOpen, Valid, AddInv, Adding, Sole, MonitorInv, WillRearm, vars
  <2> QED
    BY <2>1, <2>2
<1> QED
  BY <1>1, <1>2, CoreInvariant, MapInvariant, PTL DEF Spec

\* EPOLLONESHOT never loses a listener: an entry of the map whose socket is
\* open and which epoll would not report has a thread that is going to re-arm
\* it (re_register(), set_mode(), update()), unless its number belonged to
\* another listener before.
THEOREM NeverUnmonitored == Spec => []NoUnmonitoredListener
<1>1. CoreInv /\ MonitorInv => NoUnmonitoredListener
  BY ListenersAssumption DEF CoreInv, TypeOK, ArgInv, MonitorInv, Sole, NoUnmonitoredListener
<1> QED
  BY <1>1, CoreInvariant, MonitorInvariant, PTL
=============================================================================
