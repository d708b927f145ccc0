--------------------- MODULE NetworkSocketListenerProofs ---------------------
(***************************************************************************)
(* Proofs about NetworkSocketListener, for any number of workers and       *)
(* application threads and any queue bound.                                *)
(*                                                                         *)
(* ListenerInv is the inductive invariant.  UnsentIsWatched speaks of the  *)
(* moments when m_send_mutex is free; what makes it true is who holds the  *)
(* mutex at which point (SendMutexInv), that has_more is still true when   *)
(* the mode is chosen (WatchInv), and that the entry follows the mode      *)
(* (EntryInv).  Messages stay in order as long as one worker at a time is  *)
(* in the handlers (OneReader): that is so without senders, whose          *)
(* set_mode() would re-arm the entry of a busy worker, and with a single   *)
(* worker.                                                                 *)
(***************************************************************************)
EXTENDS NetworkSocketListener, SequenceTheorems, TLAPS

\* Where only a worker can be: in the handlers of an event.
WorkerLabels == {"r_lock", "r_recv", "r_msg", "callback", "r_end",
                 "w_lock", "w_send", "w_valid", "rereg"}

\* Inside close_socket(), and behind its test of the socket.
InternalLabels == {"ci_test", "ci_set", "ci_call", "d_query", "d_send", "d_sent",
                   "ci_unreg"}
CloseLabels == {"c_lock"} \cup InternalLabels

\* Handlers run in workers, which never become idle but in re_register(), and
\* have a message in hand when they pass one on.
PlaceInv ==
    /\ \A t \in Threads : t \notin Workers =>
          /\ pc[t] \notin WorkerLabels
          /\ cret[t] \notin {"rereg", "callback", "r_end", "w_valid"}
    /\ \A w \in Workers : pc[w] \in CloseLabels => cret[w] # "idle"
    /\ \A w \in Workers : pc[w] = "r_msg" => job[w] > 0

\* What has been closed for good is behind the test of close_socket(), and a
\* close_socket() for a failed write or at the end of send() finds it so.
ClosedInv ==
    \A t \in Threads :
        /\ pc[t] \in InternalLabels => ~ is_valid
        /\ pc[t] = "s_end" => ~ is_valid
        /\ pc[t] \in CloseLabels /\ cret[t] \in {"s_end", "w_valid"} => ~ is_valid

\* m_send_mutex is held from the write to the choice of the mode, by everyone
\* but an on_write_ready() whose write failed, and by an on_disconnect() that
\* sends, which was then not called from send().
SendMutexInv ==
    \A t \in Threads :
        /\ pc[t] \in {"w_send", "s_send", "s_valid", "s_end"} => m_send_mutex = t
        /\ pc[t] \in CloseLabels /\ cret[t] \in {"s_valid", "s_end"} => m_send_mutex = t
        /\ pc[t] = "w_valid" => m_send_mutex = t \/ ~ is_valid
        /\ pc[t] = "d_sent" => m_send_mutex = t /\ cret[t] \notin {"s_valid", "s_end"}

\* An armed entry has the listener's mode, and an entry is deleted only with
\* the socket or with the listener's place in the event loop.
EntryInv ==
    /\ entry \in {"ReadOnly", "ReadWrite"} => entry = m_mode
    /\ ~ in_map => entry = "none"
    /\ entry = "none" => ~ is_valid \/ ~ in_map

\* A send() that has written or queued and not yet chosen the mode, or that
\* gave up and is about to shut the socket down.
Deciding(t) == pc[t] = "s_valid" \/ (pc[t] = "c_lock" /\ cret[t] = "s_valid")

\* Unsent data has the mode ReadWrite unless a send() is about to choose it,
\* and has_more says truly whether there is any.
WatchInv ==
    /\ sock = "up" /\ queued + current > 0
          => m_mode = "ReadWrite" \/ \E t \in Threads : Deciding(t)
    /\ \A t \in Threads :
          sock = "up" /\ pc[t] \in {"s_valid", "w_valid"} => (more[t] <=> queued + current > 0)

\* The inductive invariant.
ListenerInv ==
    TypeOK /\ PlaceInv /\ ClosedInv /\ SendMutexInv /\ EntryInv /\ WatchInv

\* At most one worker handles an event of the listener.
OneReader == \A v, w \in Workers : pc[v] # "idle" /\ pc[w] # "idle" => v = w

\* Without senders there is never anything to write.
ReceiveOnly ==
    /\ queued = 0 /\ current = 0
    /\ m_mode = "ReadOnly"
    /\ \A t \in Threads :
          /\ pc[t] \in CloseLabels \cup {"idle", "r_lock", "r_recv", "r_msg", "callback", "r_end",
                                         "rereg"}
          /\ cret[t] \in {"idle", "rereg", "callback", "r_end"}
    /\ \A w \in Workers : event[w] \notin {"Write", "ReadWrite"}

\* An armed entry: no worker is busy with an event.
ArmedIdle == entry \in {"ReadOnly", "ReadWrite"} => \A w \in Workers : pc[w] = "idle"

\* What was delivered, and what the worker has in hand.
DeliverInv ==
    /\ \A i \in 1 .. Len(delivered) : delivered[i] = i
    /\ \A w \in Workers : pc[w] = "r_msg" => job[w] = popped /\ Len(delivered) = popped - 1
    /\ (\A w \in Workers : pc[w] # "r_msg") => Len(delivered) = popped

\* The user was told, and the listener has left the event loop.
Reported == disconnects > 0 /\ ~ in_map

\* From here a thread finds out that the socket is closed and reports it.
Reporting == {"r_lock", "r_recv", "r_msg", "callback"} \cup CloseLabels

\* A closed socket is reported or about to be.
ReportInv ==
    /\ sock = "closed" => Reported \/ \E t \in Threads : pc[t] \in Reporting
    /\ m_has_disconnected => Reported \/ \E t \in Threads :
             pc[t] \in {"ci_call", "d_query", "d_send", "d_sent", "ci_unreg"}
    /\ \A t \in Threads :
          pc[t] \in {"d_query", "d_send", "d_sent", "ci_unreg"} => disconnects > 0

----------------------------------------------------------------------------
(* The inductive invariant.                                                 *)

\* A function keeps its type when it is changed to a value of its range.
LEMMA ExceptType ==
    ASSUME NEW S, NEW T, NEW f \in [S -> T], NEW x, NEW v \in T
    PROVE  [f EXCEPT ![x] = v] \in [S -> T]
  OBVIOUS

\* The variables that do_send() assigns.
SendType ==
    /\ sock \in {"up", "shut", "closed", "null"}
    /\ queued \in 0 .. MaxQueue
    /\ current \in {0, 1}
    /\ more \in [Threads -> BOOLEAN]
    /\ asleep \subseteq Threads
    /\ entry \in {"none", "off", "ReadOnly", "ReadWrite"}
    /\ m_send_mutex \in Threads \cup {NoThread}
    /\ pc \in [Threads -> {"idle", "r_lock", "r_recv", "r_msg", "callback", "r_end",
                           "w_lock", "w_send", "w_valid", "rereg", "s_lock", "s_send",
                           "s_wait", "s_valid", "s_end", "c_lock", "ci_test", "ci_set",
                           "ci_call", "d_query", "d_send", "d_sent", "ci_unreg"}]
    /\ cret \in [Threads -> {"idle", "rereg", "callback", "r_end", "w_valid",
                             "s_valid", "s_end"}]

\* do_send() leaves at most one message more than the queue has room for, and
\* that one is partly written.
LEMMA DoSendType ==
    ASSUME TypeOK, NEW t \in Threads, NEW total \in 0 .. MaxQueue + 1,
           NEW label \in {"w_valid", "s_valid"}, NEW owner \in Threads \cup {NoThread},
           DoSend(t, total, label, owner)
    PROVE  SendType'
<1>1. queued' \in 0 .. MaxQueue /\ current' \in {0, 1}
  <2>1. MaxQueue \in Nat
    BY BoundsAssumption
  <2> QED
    BY <2>1 DEF DoSend
<1>2. more' \in [Threads -> BOOLEAN]
  <2>1. more \in [Threads -> BOOLEAN]
    BY DEF TypeOK
  <2>2. ASSUME NEW rest \in 0 .. total PROVE (rest > 0) \in BOOLEAN
    OBVIOUS
  <2>3. CASE \E rest \in 0 .. total : more' = [more EXCEPT ![t] = rest > 0]
    BY <2>1, <2>2, <2>3, ExceptType, Zenon
  <2>4. CASE more' = [more EXCEPT ![t] = FALSE]
    BY <2>1, <2>4, ExceptType
  <2> QED
    BY <2>3, <2>4 DEF DoSend
<1>3. sock' \in {"up", "shut", "closed", "null"} /\ asleep' \subseteq Threads
  BY DEF DoSend, Notified, TypeOK
<1>4. entry' \in {"none", "off", "ReadOnly", "ReadWrite"}
  BY DEF DoSend, TypeOK
<1>5. m_send_mutex' \in Threads \cup {NoThread}
  BY DEF DoSend, TypeOK, KeepsLock
<1>6. pc' \in [Threads -> {"idle", "r_lock", "r_recv", "r_msg", "callback", "r_end",
                           "w_lock", "w_send", "w_valid", "rereg", "s_lock", "s_send",
                           "s_wait", "s_valid", "s_end", "c_lock", "ci_test", "ci_set",
                           "ci_call", "d_query", "d_send", "d_sent", "ci_unreg"}]
  BY DEF DoSend, TypeOK, CallClose, Goto
<1>7. cret' \in [Threads -> {"idle", "rereg", "callback", "r_end", "w_valid",
                             "s_valid", "s_end"}]
  BY DEF DoSend, TypeOK, CallClose
<1> QED
  BY <1>1, <1>2, <1>3, <1>4, <1>5, <1>6, <1>7 DEF SendType

\* What close_socket() does up to the test of m_has_disconnected: the socket is
\* closed for good and the call goes on, or it is shut down and the call ends.
LEMMA CloseFacts ==
    ASSUME NEW t \in Threads, CloseSocket(t)
    PROVE  /\ pc[t] = "c_lock" /\ m_mutex = NoThread
           /\ \/ /\ pc' = [pc EXCEPT ![t] = "ci_test"]
                 /\ UNCHANGED cret
                 /\ ~ is_valid'
              \/ /\ pc' = [pc EXCEPT ![t] = cret[t]]
                 /\ cret' = [cret EXCEPT ![t] = "idle"]
                 /\ is_valid /\ is_valid' /\ sock' = "shut"
           /\ is_valid' => is_valid
           /\ sock' = sock \/ sock' \in {"shut", "closed"}
           /\ entry' = entry \/ (entry' = "none" /\ ~ is_valid')
           /\ asleep' \in {asleep, {}} /\ dropped' \in {dropped, TRUE}
           /\ m_mutex' \in {t, NoThread}
           /\ UNCHANGED << inVars, queued, current, more, m_mode, in_map,
                            m_has_disconnected, disconnects, crashed, m_send_mutex,
                            event >>
<1> USE DEF CloseSocket, is_valid
<1>1. /\ pc[t] = "c_lock" /\ m_mutex = NoThread
      /\ \/ /\ pc' = [pc EXCEPT ![t] = "ci_test"]
            /\ UNCHANGED cret
            /\ ~ is_valid'
         \/ /\ pc' = [pc EXCEPT ![t] = cret[t]]
            /\ cret' = [cret EXCEPT ![t] = "idle"]
            /\ is_valid /\ is_valid' /\ sock' = "shut"
  BY DEF CloseReturn, Goto
<1>2. /\ is_valid' => is_valid
      /\ sock' = sock \/ sock' \in {"shut", "closed"}
      /\ entry' = entry \/ (entry' = "none" /\ ~ is_valid')
  OBVIOUS
<1>3. /\ asleep' \in {asleep, {}} /\ dropped' \in {dropped, TRUE}
      /\ m_mutex' \in {t, NoThread}
  BY DEF Notified, CloseReturn, Release
<1>4. UNCHANGED << inVars, queued, current, more, m_mode, in_map, m_has_disconnected,
                   disconnects, crashed, m_send_mutex, event >>
  OBVIOUS
<1> HIDE DEF CloseSocket
<1> QED
  BY <1>1, <1>2, <1>3, <1>4

\* Every step keeps every variable in its type.
LEMMA TypeOKStep ==
    ASSUME TypeOK, PlaceInv, Next
    PROVE  TypeOK'
<1> USE BoundsAssumption, ThreadsAssumption DEF TypeOK, inVars, outVars, endVars, lockVars
<1>1. ASSUME NEW t \in Workers, NEW type \in {"Read", "Write", "ReadWrite", "Error"},
             Event(t, type)
      PROVE  TypeOK'
  <2>1. t \in Threads
    BY DEF Threads
  <2>2. CASE type = "Error"
    BY <1>1, <2>1, <2>2, ZenonT(40) DEF Event, DisarmedBy, CallClose
  <2>3. CASE type # "Error"
    <3>1. PICK label \in {"w_lock", "r_lock"} : pc' = [pc EXCEPT ![t] = label]
      BY <1>1, <2>3 DEF Event, Goto
    <3> QED
      BY <1>1, <2>1, <2>3, <3>1 DEF Event, DisarmedBy
  <2> QED
    BY <2>2, <2>3
<1>2. ASSUME NEW t \in Threads, ReadLock(t) PROVE TypeOK'
  BY <1>2 DEF ReadLock, Goto
<1>3. ASSUME NEW t \in Threads, Receive(t) PROVE TypeOK'
  <2>1. pulled' \in 0 .. arrived' /\ arrived' \in 0 .. MaxMessages
    BY <1>3 DEF Receive
  <2>2. popped' \in 0 .. pulled'
    BY <1>3 DEF Receive
  <2>3. job' \in [Workers -> 0 .. MaxMessages]
    <3>1. popped' = popped + 1 => popped + 1 \in 0 .. MaxMessages
      BY <2>1, <2>2
    <3>2. job \in [Workers -> 0 .. MaxMessages]
      OBVIOUS
    <3> QED
      BY <1>3, <3>1, <3>2, ExceptType DEF Receive
  <2>4. pc' \in [Threads -> {"idle", "r_lock", "r_recv", "r_msg", "callback", "r_end",
                             "w_lock", "w_send", "w_valid", "rereg", "s_lock", "s_send",
                             "s_wait", "s_valid", "s_end", "c_lock", "ci_test", "ci_set",
                             "ci_call", "d_query", "d_send", "d_sent", "ci_unreg"}]
    BY <1>3 DEF Receive, ReportsClosed, Goto
  <2> QED
    <3>1. sock' \in {"up", "shut", "closed", "null"} /\ asleep' \subseteq Threads
          /\ entry' \in {"none", "off", "ReadOnly", "ReadWrite"}
      BY <1>3 DEF Receive, Notified
    <3>2. m_mutex' \in Threads \cup {NoThread}
          /\ cret' \in [Threads -> {"idle", "rereg", "callback", "r_end", "w_valid",
                                    "s_valid", "s_end"}]
      BY <1>3 DEF Receive, ReportsClosed
    <3>3. UNCHANGED << peer, delivered, queued, current, more, m_mode, endVars,
                       m_send_mutex, event >>
      BY <1>3 DEF Receive
    <3> QED
      BY <2>1, <2>2, <2>3, <2>4, <3>1, <3>2, <3>3
<1>4. ASSUME NEW t \in Threads, OnNetworkMessage(t) PROVE TypeOK'
  <2>1. t \in Workers /\ job[t] \in 1 .. MaxMessages
    BY <1>4 DEF OnNetworkMessage, PlaceInv, WorkerLabels
  <2>2. delivered' \in Seq(1 .. MaxMessages)
    BY <1>4, <2>1 DEF OnNetworkMessage
  <2>3. job' \in [Workers -> 0 .. MaxMessages]
    <3>1. 0 \in 0 .. MaxMessages /\ job \in [Workers -> 0 .. MaxMessages]
      OBVIOUS
    <3> QED
      BY <1>4, <3>1, ExceptType DEF OnNetworkMessage
  <2> QED
    BY <1>4, <2>1, <2>2, <2>3 DEF OnNetworkMessage, Goto
<1>5. ASSUME NEW t \in Workers, CallbackReturn(t) PROVE TypeOK'
  <2>1. t \in Threads
    BY DEF Threads
  <2> QED
    BY <1>5, <2>1 DEF CallbackReturn, Goto
<1>6. ASSUME NEW t \in Threads, ReadEnd(t) PROVE TypeOK'
  BY <1>6 DEF ReadEnd, Goto
<1>7. ASSUME NEW t \in Threads, WriteLock(t) PROVE TypeOK'
  BY <1>7 DEF WriteLock, Goto
<1>8. ASSUME NEW t \in Threads, OnWriteReady(t) PROVE TypeOK'
  <2>1. DoSend(t, queued + current, "w_valid", NoThread)
    BY <1>8 DEF OnWriteReady
  <2>2. SendType'
    BY <2>1, DoSendType
  <2> QED
    BY <1>8, <2>2 DEF OnWriteReady, SendType
<1>9. ASSUME NEW t \in Threads, WriteDone(t) PROVE TypeOK'
  BY <1>9 DEF WriteDone, SetMode, Release, Goto
<1>10. ASSUME NEW t \in Threads, ReRegister(t) PROVE TypeOK'
  BY <1>10, ZenonT(40) DEF ReRegister, Rearmed, Goto
<1>11. ASSUME NEW t \in Threads, CallSend(t) PROVE TypeOK'
  BY <1>11 DEF CallSend, UserCode, Goto
<1>12. ASSUME NEW t \in Threads, SendLock(t) PROVE TypeOK'
  BY <1>12 DEF SendLock, Goto
<1>13. ASSUME NEW t \in Threads, NEW async \in BOOLEAN, Send(t, async)
      PROVE  TypeOK'
  <2>1. CASE DoSend(t, queued + current + 1, "s_valid", t) /\ ~ Full
    <3>1. SendType'
      BY <2>1, DoSendType DEF Full
    <3> QED
      BY <1>13, <3>1 DEF Send, SendType
  <2>2. CASE SendGivesUp(t)
    BY <1>13, <2>2 DEF Send, SendGivesUp, CallClose
  <2>3. CASE m_send_mutex' = NoThread /\ Goto(t, "s_wait")
             /\ UNCHANGED << sock, entry, queued, current, more, asleep, cret >>
    BY <1>13, <2>3 DEF Send, Goto
  <2>4. CASE ~ Full /\ queued' = queued + 1 /\ more' = [more EXCEPT ![t] = TRUE]
             /\ Goto(t, "s_valid") /\ UNCHANGED << sock, entry, current, asleep, m_send_mutex, cret >>
    BY <1>13, <2>4 DEF Send, Full, Goto
  <2> QED
    BY <1>13, <2>1, <2>2, <2>3, <2>4 DEF Send
<1>14. ASSUME NEW t \in Threads, SendWaitEnds(t) PROVE TypeOK'
  BY <1>14 DEF SendWaitEnds, Goto
<1>15. ASSUME NEW t \in Threads, SendDone(t) PROVE TypeOK'
  <2>1. m_mutex' \in Threads \cup {NoThread} /\ m_send_mutex' \in Threads \cup {NoThread}
    BY <1>15 DEF SendDone, SetMode, SendReturn, CallClose, Goto
  <2>2. cret' \in [Threads -> {"idle", "rereg", "callback", "r_end", "w_valid",
                               "s_valid", "s_end"}]
    BY <1>15 DEF SendDone, SetMode, SendReturn, CallClose, Goto
  <2>3. pc' \in [Threads -> {"idle", "r_lock", "r_recv", "r_msg", "callback", "r_end",
                             "w_lock", "w_send", "w_valid", "rereg", "s_lock", "s_send",
                             "s_wait", "s_valid", "s_end", "c_lock", "ci_test", "ci_set",
                             "ci_call", "d_query", "d_send", "d_sent", "ci_unreg"}]
    BY <1>15 DEF SendDone, SetMode, SendReturn, CallClose, Goto
  <2>4. more' \in [Threads -> BOOLEAN]
    BY <1>15, ExceptType DEF SendDone, SendReturn
  <2>5. m_mode' \in {"ReadOnly", "ReadWrite"} /\ entry' \in {"none", "off", "ReadOnly", "ReadWrite"}
    BY <1>15 DEF SendDone, SetMode
  <2> QED
    BY <1>15, <2>1, <2>2, <2>3, <2>4, <2>5 DEF SendDone
<1>16. ASSUME NEW t \in Threads, SendEnd(t) PROVE TypeOK'
  BY <1>16 DEF SendEnd, SendReturn, Goto
<1>17. ASSUME NEW t \in Threads, UserCloses(t) PROVE TypeOK'
  BY <1>17 DEF UserCloses, UserCode, CallClose
<1>18. ASSUME NEW t \in Threads, CloseSocket(t) PROVE TypeOK'
  <2>1. /\ sock' \in {"up", "shut", "closed", "null"}
        /\ entry' \in {"none", "off", "ReadOnly", "ReadWrite"}
        /\ asleep' \subseteq Threads /\ dropped' \in BOOLEAN
        /\ m_mutex' \in Threads \cup {NoThread}
    BY <1>18, CloseFacts
  <2>2. cret' \in [Threads -> {"idle", "rereg", "callback", "r_end", "w_valid",
                               "s_valid", "s_end"}]
    BY <1>18, CloseFacts
  <2>3. pc' \in [Threads -> {"idle", "r_lock", "r_recv", "r_msg", "callback", "r_end",
                             "w_lock", "w_send", "w_valid", "rereg", "s_lock", "s_send",
                             "s_wait", "s_valid", "s_end", "c_lock", "ci_test", "ci_set",
                             "ci_call", "d_query", "d_send", "d_sent", "ci_unreg"}]
    <3>1. PICK label \in {"ci_test", cret[t]} : pc' = [pc EXCEPT ![t] = label]
      BY <1>18, CloseFacts
    <3>2. cret[t] \in {"idle", "rereg", "callback", "r_end", "w_valid", "s_valid", "s_end"}
      OBVIOUS
    <3> QED
      BY <3>1, <3>2
  <2> QED
    BY <1>18, <2>1, <2>2, <2>3, CloseFacts, ZenonT(60)
<1>19. ASSUME NEW t \in Threads, DisconnectTest(t) PROVE TypeOK'
  <2>1. m_mutex' \in Threads \cup {NoThread} /\ m_send_mutex' \in Threads \cup {NoThread}
    BY <1>19 DEF DisconnectTest, CloseReturn, Release, Goto
  <2>2. cret' \in [Threads -> {"idle", "rereg", "callback", "r_end", "w_valid",
                               "s_valid", "s_end"}]
    BY <1>19 DEF DisconnectTest, CloseReturn, Release, Goto
  <2>3. pc' \in [Threads -> {"idle", "r_lock", "r_recv", "r_msg", "callback", "r_end",
                             "w_lock", "w_send", "w_valid", "rereg", "s_lock", "s_send",
                             "s_wait", "s_valid", "s_end", "c_lock", "ci_test", "ci_set",
                             "ci_call", "d_query", "d_send", "d_sent", "ci_unreg"}]
    BY <1>19, ZenonT(40) DEF DisconnectTest, CloseReturn, Release, Goto
  <2> QED
    BY <1>19, <2>1, <2>2, <2>3 DEF DisconnectTest, CloseReturn, Release, Goto
<1>20. ASSUME NEW t \in Threads, DisconnectSet(t) PROVE TypeOK'
  BY <1>20 DEF DisconnectSet, Goto
<1>21. ASSUME NEW t \in Threads, OnDisconnect(t) PROVE TypeOK'
  BY <1>21 DEF OnDisconnect, Goto
<1>22. ASSUME NEW t \in Threads, Unregister(t) PROVE TypeOK'
  BY <1>22, ZenonT(40) DEF Unregister, CloseReturn, Release, Goto
<1>23. ASSUME NEW t \in Threads, ReleaseSocket(t) PROVE TypeOK'
  BY <1>23 DEF ReleaseSocket, UserCode
<1>24. ASSUME NEW t \in Threads, NullDereference(t) PROVE TypeOK'
  BY <1>24 DEF NullDereference
<1>25. ASSUME PeerSends PROVE TypeOK'
  BY <1>25 DEF PeerSends
<1>26. ASSUME NEW how \in {"eof", "broken"}, PeerEnds(how) PROVE TypeOK'
  BY <1>26 DEF PeerEnds
<1>27. ASSUME NEW t \in Threads, SendSleeps(t) PROVE TypeOK'
  BY <1>27 DEF SendSleeps
<1>28. ASSUME NEW t \in Threads, MovedWaitEnds(t) PROVE TypeOK'
  BY <1>28 DEF MovedWaitEnds, Goto
<1>29. ASSUME NEW t \in Threads, DisconnectQuery(t) PROVE TypeOK'
  BY <1>29 DEF DisconnectQuery, Goto
<1>30. ASSUME NEW t \in Threads, DisconnectSend(t) PROVE TypeOK'
  BY <1>30 DEF DisconnectSend, Goto
<1>31. ASSUME NEW t \in Threads, DisconnectSent(t) PROVE TypeOK'
  BY <1>31 DEF DisconnectSent, Goto
<1> HIDE DEF TypeOK
<1> QED
  BY <1>1, <1>2, <1>3, <1>4, <1>5, <1>6, <1>7, <1>8, <1>9, <1>10, <1>11,
       <1>12, <1>13, <1>14, <1>15, <1>16, <1>17, <1>18, <1>19, <1>20, <1>21,
       <1>22, <1>23, <1>24, <1>25, <1>26, <1>27, <1>28, <1>29, <1>30, <1>31 DEF Next, LockStep,
       OwnStep, EventStep

\* Handlers stay in workers, and a worker's close_socket() returns to them.
LEMMA PlaceStep ==
    ASSUME TypeOK, PlaceInv, Next
    PROVE  PlaceInv'
<1> USE ThreadsAssumption DEF TypeOK, PlaceInv, WorkerLabels, InternalLabels, CloseLabels,
        inVars, outVars, endVars, lockVars, Threads
<1>1. ASSUME NEW t \in Workers, NEW type \in {"Read", "Write", "ReadWrite", "Error"},
             Event(t, type)
      PROVE  PlaceInv'
  <2>1. t \in Threads
    BY DEF Threads
  <2>2. CASE type = "Error"
    BY <1>1, <2>1, <2>2 DEF Event, DisarmedBy, CallClose
  <2>3. CASE type # "Error"
    <3>1. PICK label \in {"w_lock", "r_lock"} : pc' = [pc EXCEPT ![t] = label]
      BY <1>1, <2>3 DEF Event, Goto
    <3> QED
      BY <1>1, <2>1, <2>3, <3>1 DEF Event, DisarmedBy
  <2> QED
    BY <2>2, <2>3
<1>2. ASSUME NEW t \in Threads, ReadLock(t) PROVE PlaceInv'
  BY <1>2 DEF ReadLock, Goto
<1>3. ASSUME NEW t \in Threads, Receive(t) PROVE PlaceInv'
  <2>1. pc[t] = "r_recv" /\ t \in Workers
    BY <1>3 DEF Receive
  <2>2. CASE /\ pc' = [pc EXCEPT ![t] = "r_msg"] /\ UNCHANGED cret
             /\ job' = [job EXCEPT ![t] = popped + 1]
    BY <2>1, <2>2
  <2>3. CASE /\ pc' = [pc EXCEPT ![t] = "ci_test"] /\ cret' = [cret EXCEPT ![t] = "r_end"]
             /\ UNCHANGED job
    BY <2>1, <2>3
  <2>4. CASE pc' = [pc EXCEPT ![t] = "r_end"] /\ UNCHANGED << cret, job >>
    BY <2>1, <2>4
  <2> QED
    BY <1>3, <2>2, <2>3, <2>4 DEF Receive, ReportsClosed, Goto
<1>4. ASSUME NEW t \in Threads, OnNetworkMessage(t) PROVE PlaceInv'
  BY <1>4 DEF OnNetworkMessage, Goto
<1>5. ASSUME NEW t \in Workers, CallbackReturn(t) PROVE PlaceInv'
  BY <1>5 DEF CallbackReturn, Goto
<1>6. ASSUME NEW t \in Threads, ReadEnd(t) PROVE PlaceInv'
  BY <1>6 DEF ReadEnd, Goto
<1>7. ASSUME NEW t \in Threads, WriteLock(t) PROVE PlaceInv'
  BY <1>7 DEF WriteLock, Goto
<1>8. ASSUME NEW t \in Threads, OnWriteReady(t) PROVE PlaceInv'
  BY <1>8 DEF OnWriteReady, DoSend, KeepsLock, CallClose, Goto
<1>9. ASSUME NEW t \in Threads, WriteDone(t) PROVE PlaceInv'
  BY <1>9 DEF WriteDone, SetMode, Release, Goto
<1>10. ASSUME NEW t \in Threads, ReRegister(t) PROVE PlaceInv'
  BY <1>10 DEF ReRegister, Rearmed, Goto
<1>11. ASSUME NEW t \in Threads, CallSend(t) PROVE PlaceInv'
  BY <1>11 DEF CallSend, UserCode, Goto
<1>12. ASSUME NEW t \in Threads, SendLock(t) PROVE PlaceInv'
  BY <1>12 DEF SendLock, Goto
<1>13. ASSUME NEW t \in Threads, NEW async \in BOOLEAN, Send(t, async)
      PROVE  PlaceInv'
  BY <1>13, SMTT(90) DEF Send, SendGivesUp, Full, DoSend, KeepsLock,
       CallClose, Goto
<1>14. ASSUME NEW t \in Threads, SendWaitEnds(t) PROVE PlaceInv'
  BY <1>14 DEF SendWaitEnds, Goto
<1>15. ASSUME NEW t \in Threads, SendDone(t) PROVE PlaceInv'
  BY <1>15 DEF SendDone, SetMode, SendReturn, CallClose, Goto
<1>16. ASSUME NEW t \in Threads, SendEnd(t) PROVE PlaceInv'
  BY <1>16 DEF SendEnd, SendReturn, Goto
<1>17. ASSUME NEW t \in Threads, UserCloses(t) PROVE PlaceInv'
  BY <1>17 DEF UserCloses, UserCode, CallClose
<1>18. ASSUME NEW t \in Threads, CloseSocket(t) PROVE PlaceInv'
  <2>1. /\ pc[t] = "c_lock" /\ (is_valid' => is_valid)
        /\ UNCHANGED << job, queued, current, m_mode, m_send_mutex, event >>
    BY <1>18, CloseFacts DEF inVars
  <2>2. CASE pc' = [pc EXCEPT ![t] = "ci_test"] /\ UNCHANGED cret /\ ~ is_valid'
    BY <2>1, <2>2
  <2>3. CASE /\ pc' = [pc EXCEPT ![t] = cret[t]]
             /\ cret' = [cret EXCEPT ![t] = "idle"] /\ is_valid
    BY <2>1, <2>3
  <2> QED
    BY <1>18, <2>2, <2>3, CloseFacts
<1>19. ASSUME NEW t \in Threads, DisconnectTest(t) PROVE PlaceInv'
  BY <1>19, SMTT(30) DEF DisconnectTest, CloseReturn, Release, Goto
<1>20. ASSUME NEW t \in Threads, DisconnectSet(t) PROVE PlaceInv'
  BY <1>20 DEF DisconnectSet, Goto
<1>21. ASSUME NEW t \in Threads, OnDisconnect(t) PROVE PlaceInv'
  BY <1>21 DEF OnDisconnect, Goto
<1>22. ASSUME NEW t \in Threads, Unregister(t) PROVE PlaceInv'
  BY <1>22 DEF Unregister, CloseReturn, Release, Goto
<1>23. ASSUME NEW t \in Threads, ReleaseSocket(t) PROVE PlaceInv'
  BY <1>23 DEF ReleaseSocket, UserCode
<1>24. ASSUME NEW t \in Threads, NullDereference(t) PROVE PlaceInv'
  BY <1>24 DEF NullDereference
<1>25. ASSUME PeerSends PROVE PlaceInv'
  BY <1>25 DEF PeerSends
<1>26. ASSUME NEW how \in {"eof", "broken"}, PeerEnds(how) PROVE PlaceInv'
  BY <1>26 DEF PeerEnds
<1>27. ASSUME NEW t \in Threads, SendSleeps(t) PROVE PlaceInv'
  BY <1>27 DEF SendSleeps
<1>28. ASSUME NEW t \in Threads, MovedWaitEnds(t) PROVE PlaceInv'
  BY <1>28 DEF MovedWaitEnds, Goto
<1>29. ASSUME NEW t \in Threads, DisconnectQuery(t) PROVE PlaceInv'
  BY <1>29 DEF DisconnectQuery, Goto
<1>30. ASSUME NEW t \in Threads, DisconnectSend(t) PROVE PlaceInv'
  BY <1>30 DEF DisconnectSend, Goto
<1>31. ASSUME NEW t \in Threads, DisconnectSent(t) PROVE PlaceInv'
  BY <1>31 DEF DisconnectSent, Goto
<1> HIDE DEF PlaceInv
<1> QED
  BY <1>1, <1>2, <1>3, <1>4, <1>5, <1>6, <1>7, <1>8, <1>9, <1>10, <1>11,
       <1>12, <1>13, <1>14, <1>15, <1>16, <1>17, <1>18, <1>19, <1>20, <1>21,
       <1>22, <1>23, <1>24, <1>25, <1>26, <1>27, <1>28, <1>29, <1>30, <1>31 DEF Next, LockStep,
       OwnStep, EventStep

\* A socket that is closed or gone is never valid again.
LEMMA ClosedStep ==
    ASSUME TypeOK, ClosedInv, Next
    PROVE  ClosedInv'
<1> USE DEF TypeOK, ClosedInv, InternalLabels, CloseLabels, inVars, outVars, endVars,
        lockVars, is_valid
<1>1. ASSUME NEW t \in Workers, NEW type \in {"Read", "Write", "ReadWrite", "Error"},
             Event(t, type)
      PROVE  ClosedInv'
  BY <1>1 DEF Event, DisarmedBy, CallClose, Goto
<1>2. ASSUME NEW t \in Threads, ReadLock(t) PROVE ClosedInv'
  BY <1>2 DEF ReadLock, Goto
<1>3. ASSUME NEW t \in Threads, Receive(t) PROVE ClosedInv'
  BY <1>3 DEF Receive, ReportsClosed, Goto
<1>4. ASSUME NEW t \in Threads, OnNetworkMessage(t) PROVE ClosedInv'
  BY <1>4 DEF OnNetworkMessage, Goto
<1>5. ASSUME NEW t \in Workers, CallbackReturn(t) PROVE ClosedInv'
  BY <1>5 DEF CallbackReturn, Goto
<1>6. ASSUME NEW t \in Threads, ReadEnd(t) PROVE ClosedInv'
  BY <1>6 DEF ReadEnd, Goto
<1>7. ASSUME NEW t \in Threads, WriteLock(t) PROVE ClosedInv'
  BY <1>7 DEF WriteLock, Goto
<1>8. ASSUME NEW t \in Threads, OnWriteReady(t) PROVE ClosedInv'
  BY <1>8 DEF OnWriteReady, DoSend, KeepsLock, CallClose, Goto
<1>9. ASSUME NEW t \in Threads, WriteDone(t) PROVE ClosedInv'
  BY <1>9 DEF WriteDone, SetMode, Release, Goto
<1>10. ASSUME NEW t \in Threads, ReRegister(t) PROVE ClosedInv'
  BY <1>10 DEF ReRegister, Rearmed, Goto
<1>11. ASSUME NEW t \in Threads, CallSend(t) PROVE ClosedInv'
  BY <1>11 DEF CallSend, UserCode, Goto
<1>12. ASSUME NEW t \in Threads, SendLock(t) PROVE ClosedInv'
  BY <1>12 DEF SendLock, Goto
<1>13. ASSUME NEW t \in Threads, NEW async \in BOOLEAN, Send(t, async)
      PROVE  ClosedInv'
  BY <1>13 DEF Send, SendGivesUp, Full, DoSend, KeepsLock,
       CallClose, Goto
<1>14. ASSUME NEW t \in Threads, SendWaitEnds(t) PROVE ClosedInv'
  BY <1>14 DEF SendWaitEnds, Goto
<1>15. ASSUME NEW t \in Threads, SendDone(t) PROVE ClosedInv'
  BY <1>15 DEF SendDone, SetMode, SendReturn, CallClose, Goto
<1>16. ASSUME NEW t \in Threads, SendEnd(t) PROVE ClosedInv'
  BY <1>16 DEF SendEnd, SendReturn, Goto
<1>17. ASSUME NEW t \in Threads, UserCloses(t) PROVE ClosedInv'
  BY <1>17 DEF UserCloses, UserCode, CallClose
<1>18. ASSUME NEW t \in Threads, CloseSocket(t) PROVE ClosedInv'
  <2>1. /\ pc[t] = "c_lock" /\ (is_valid' => is_valid)
        /\ UNCHANGED << job, queued, current, m_mode, m_send_mutex, event >>
    BY <1>18, CloseFacts DEF inVars
  <2>2. CASE pc' = [pc EXCEPT ![t] = "ci_test"] /\ UNCHANGED cret /\ ~ is_valid'
    BY <2>1, <2>2
  <2>3. CASE /\ pc' = [pc EXCEPT ![t] = cret[t]]
             /\ cret' = [cret EXCEPT ![t] = "idle"] /\ is_valid
    BY <2>1, <2>3, SMTT(30)
  <2> QED
    BY <1>18, <2>2, <2>3, CloseFacts
<1>19. ASSUME NEW t \in Threads, DisconnectTest(t) PROVE ClosedInv'
  BY <1>19 DEF DisconnectTest, CloseReturn, Release, Goto
<1>20. ASSUME NEW t \in Threads, DisconnectSet(t) PROVE ClosedInv'
  BY <1>20 DEF DisconnectSet, Goto
<1>21. ASSUME NEW t \in Threads, OnDisconnect(t) PROVE ClosedInv'
  BY <1>21 DEF OnDisconnect, Goto
<1>22. ASSUME NEW t \in Threads, Unregister(t) PROVE ClosedInv'
  BY <1>22 DEF Unregister, CloseReturn, Release, Goto
<1>23. ASSUME NEW t \in Threads, ReleaseSocket(t) PROVE ClosedInv'
  BY <1>23 DEF ReleaseSocket, UserCode
<1>24. ASSUME NEW t \in Threads, NullDereference(t) PROVE ClosedInv'
  BY <1>24 DEF NullDereference
<1>25. ASSUME PeerSends PROVE ClosedInv'
  BY <1>25 DEF PeerSends
<1>26. ASSUME NEW how \in {"eof", "broken"}, PeerEnds(how) PROVE ClosedInv'
  BY <1>26 DEF PeerEnds
<1>27. ASSUME NEW t \in Threads, SendSleeps(t) PROVE ClosedInv'
  BY <1>27 DEF SendSleeps
<1>28. ASSUME NEW t \in Threads, MovedWaitEnds(t) PROVE ClosedInv'
  BY <1>28 DEF MovedWaitEnds, Goto
<1>29. ASSUME NEW t \in Threads, DisconnectQuery(t) PROVE ClosedInv'
  BY <1>29 DEF DisconnectQuery, Goto
<1>30. ASSUME NEW t \in Threads, DisconnectSend(t) PROVE ClosedInv'
  BY <1>30 DEF DisconnectSend, Goto
<1>31. ASSUME NEW t \in Threads, DisconnectSent(t) PROVE ClosedInv'
  BY <1>31 DEF DisconnectSent, Goto
<1> HIDE DEF ClosedInv
<1> QED
  BY <1>1, <1>2, <1>3, <1>4, <1>5, <1>6, <1>7, <1>8, <1>9, <1>10, <1>11,
       <1>12, <1>13, <1>14, <1>15, <1>16, <1>17, <1>18, <1>19, <1>20, <1>21,
       <1>22, <1>23, <1>24, <1>25, <1>26, <1>27, <1>28, <1>29, <1>30, <1>31 DEF Next, LockStep,
       OwnStep, EventStep

\* No one takes or drops the m_send_mutex of another thread.
LEMMA SendMutexStep ==
    ASSUME TypeOK, ClosedInv, SendMutexInv, Next
    PROVE  SendMutexInv'
<1> USE ThreadsAssumption DEF TypeOK, ClosedInv, SendMutexInv, InternalLabels,
        CloseLabels, inVars, outVars, endVars, lockVars, is_valid
<1>1. ASSUME NEW t \in Workers, NEW type \in {"Read", "Write", "ReadWrite", "Error"},
             Event(t, type)
      PROVE  SendMutexInv'
  BY <1>1 DEF Event, DisarmedBy, CallClose, Goto
<1>2. ASSUME NEW t \in Threads, ReadLock(t) PROVE SendMutexInv'
  BY <1>2 DEF ReadLock, Goto
<1>3. ASSUME NEW t \in Threads, Receive(t) PROVE SendMutexInv'
  BY <1>3 DEF Receive, ReportsClosed, Goto
<1>4. ASSUME NEW t \in Threads, OnNetworkMessage(t) PROVE SendMutexInv'
  BY <1>4 DEF OnNetworkMessage, Goto
<1>5. ASSUME NEW t \in Workers, CallbackReturn(t) PROVE SendMutexInv'
  BY <1>5 DEF CallbackReturn, Goto
<1>6. ASSUME NEW t \in Threads, ReadEnd(t) PROVE SendMutexInv'
  BY <1>6 DEF ReadEnd, Goto
<1>7. ASSUME NEW t \in Threads, WriteLock(t) PROVE SendMutexInv'
  BY <1>7 DEF WriteLock, Goto
<1>8. ASSUME NEW t \in Threads, OnWriteReady(t) PROVE SendMutexInv'
  BY <1>8 DEF OnWriteReady, DoSend, KeepsLock, CallClose, Goto
<1>9. ASSUME NEW t \in Threads, WriteDone(t) PROVE SendMutexInv'
  BY <1>9 DEF WriteDone, SetMode, Release, Goto
<1>10. ASSUME NEW t \in Threads, ReRegister(t) PROVE SendMutexInv'
  BY <1>10 DEF ReRegister, Rearmed, Goto
<1>11. ASSUME NEW t \in Threads, CallSend(t) PROVE SendMutexInv'
  BY <1>11 DEF CallSend, UserCode, Goto
<1>12. ASSUME NEW t \in Threads, SendLock(t) PROVE SendMutexInv'
  BY <1>12 DEF SendLock, Goto
<1>13. ASSUME NEW t \in Threads, NEW async \in BOOLEAN, Send(t, async)
      PROVE  SendMutexInv'
  BY <1>13 DEF Send, SendGivesUp, Full, DoSend, KeepsLock,
       CallClose, Goto
<1>14. ASSUME NEW t \in Threads, SendWaitEnds(t) PROVE SendMutexInv'
  BY <1>14 DEF SendWaitEnds, Goto
<1>15. ASSUME NEW t \in Threads, SendDone(t) PROVE SendMutexInv'
  BY <1>15 DEF SendDone, SetMode, SendReturn, CallClose, Goto
<1>16. ASSUME NEW t \in Threads, SendEnd(t) PROVE SendMutexInv'
  BY <1>16 DEF SendEnd, SendReturn, Goto
<1>17. ASSUME NEW t \in Threads, UserCloses(t) PROVE SendMutexInv'
  BY <1>17 DEF UserCloses, UserCode, CallClose
<1>18. ASSUME NEW t \in Threads, CloseSocket(t) PROVE SendMutexInv'
  <2>1. /\ pc[t] = "c_lock" /\ (is_valid' => is_valid)
        /\ UNCHANGED << job, queued, current, m_mode, m_send_mutex, event >>
    BY <1>18, CloseFacts DEF inVars
  <2>2. CASE pc' = [pc EXCEPT ![t] = "ci_test"] /\ UNCHANGED cret /\ ~ is_valid'
    BY <2>1, <2>2
  <2>3. CASE /\ pc' = [pc EXCEPT ![t] = cret[t]]
             /\ cret' = [cret EXCEPT ![t] = "idle"] /\ is_valid
    BY <2>1, <2>3, SMTT(30)
  <2> QED
    BY <1>18, <2>2, <2>3, CloseFacts
<1>19. ASSUME NEW t \in Threads, DisconnectTest(t) PROVE SendMutexInv'
  BY <1>19 DEF DisconnectTest, CloseReturn, Release, Goto
<1>20. ASSUME NEW t \in Threads, DisconnectSet(t) PROVE SendMutexInv'
  BY <1>20 DEF DisconnectSet, Goto
<1>21. ASSUME NEW t \in Threads, OnDisconnect(t) PROVE SendMutexInv'
  BY <1>21 DEF OnDisconnect, Goto
<1>22. ASSUME NEW t \in Threads, Unregister(t) PROVE SendMutexInv'
  BY <1>22 DEF Unregister, CloseReturn, Release, Goto
<1>23. ASSUME NEW t \in Threads, ReleaseSocket(t) PROVE SendMutexInv'
  BY <1>23 DEF ReleaseSocket, UserCode
<1>24. ASSUME NEW t \in Threads, NullDereference(t) PROVE SendMutexInv'
  BY <1>24 DEF NullDereference
<1>25. ASSUME PeerSends PROVE SendMutexInv'
  BY <1>25 DEF PeerSends
<1>26. ASSUME NEW how \in {"eof", "broken"}, PeerEnds(how) PROVE SendMutexInv'
  BY <1>26 DEF PeerEnds
<1>27. ASSUME NEW t \in Threads, SendSleeps(t) PROVE SendMutexInv'
  BY <1>27 DEF SendSleeps
<1>28. ASSUME NEW t \in Threads, MovedWaitEnds(t) PROVE SendMutexInv'
  BY <1>28 DEF MovedWaitEnds, Goto
<1>29. ASSUME NEW t \in Threads, DisconnectQuery(t) PROVE SendMutexInv'
  BY <1>29 DEF DisconnectQuery, Goto
<1>30. ASSUME NEW t \in Threads, DisconnectSend(t) PROVE SendMutexInv'
  BY <1>30 DEF DisconnectSend, Goto
<1>31. ASSUME NEW t \in Threads, DisconnectSent(t) PROVE SendMutexInv'
  BY <1>31 DEF DisconnectSent, Goto
<1> HIDE DEF SendMutexInv
<1> QED
  BY <1>1, <1>2, <1>3, <1>4, <1>5, <1>6, <1>7, <1>8, <1>9, <1>10, <1>11,
       <1>12, <1>13, <1>14, <1>15, <1>16, <1>17, <1>18, <1>19, <1>20, <1>21,
       <1>22, <1>23, <1>24, <1>25, <1>26, <1>27, <1>28, <1>29, <1>30, <1>31 DEF Next, LockStep,
       OwnStep, EventStep

\* set_mode() and re_register() keep the entry in line with the mode.
LEMMA EntryStep ==
    ASSUME TypeOK, EntryInv, Next
    PROVE  EntryInv'
<1> USE DEF TypeOK, EntryInv, inVars, outVars, endVars, lockVars, is_valid
<1>1. ASSUME NEW t \in Workers, NEW type \in {"Read", "Write", "ReadWrite", "Error"},
             Event(t, type)
      PROVE  EntryInv'
  BY <1>1 DEF Event, DisarmedBy, CallClose, Goto
<1>2. ASSUME NEW t \in Threads, ReadLock(t) PROVE EntryInv'
  BY <1>2 DEF ReadLock, Goto
<1>3. ASSUME NEW t \in Threads, Receive(t) PROVE EntryInv'
  BY <1>3 DEF Receive, ReportsClosed, Goto
<1>4. ASSUME NEW t \in Threads, OnNetworkMessage(t) PROVE EntryInv'
  BY <1>4 DEF OnNetworkMessage, Goto
<1>5. ASSUME NEW t \in Workers, CallbackReturn(t) PROVE EntryInv'
  BY <1>5 DEF CallbackReturn, Goto
<1>6. ASSUME NEW t \in Threads, ReadEnd(t) PROVE EntryInv'
  BY <1>6 DEF ReadEnd, Goto
<1>7. ASSUME NEW t \in Threads, WriteLock(t) PROVE EntryInv'
  BY <1>7 DEF WriteLock, Goto
<1>8. ASSUME NEW t \in Threads, OnWriteReady(t) PROVE EntryInv'
  BY <1>8 DEF OnWriteReady, DoSend, KeepsLock, CallClose, Goto
<1>9. ASSUME NEW t \in Threads, WriteDone(t) PROVE EntryInv'
  BY <1>9 DEF WriteDone, SetMode, Release, Goto
<1>10. ASSUME NEW t \in Threads, ReRegister(t) PROVE EntryInv'
  BY <1>10 DEF ReRegister, Rearmed, Goto
<1>11. ASSUME NEW t \in Threads, CallSend(t) PROVE EntryInv'
  BY <1>11 DEF CallSend, UserCode, Goto
<1>12. ASSUME NEW t \in Threads, SendLock(t) PROVE EntryInv'
  BY <1>12 DEF SendLock, Goto
<1>13. ASSUME NEW t \in Threads, NEW async \in BOOLEAN, Send(t, async)
      PROVE  EntryInv'
  BY <1>13 DEF Send, SendGivesUp, Full, DoSend, KeepsLock,
       CallClose, Goto
<1>14. ASSUME NEW t \in Threads, SendWaitEnds(t) PROVE EntryInv'
  BY <1>14 DEF SendWaitEnds, Goto
<1>15. ASSUME NEW t \in Threads, SendDone(t) PROVE EntryInv'
  BY <1>15 DEF SendDone, SetMode, SendReturn, CallClose, Goto
<1>16. ASSUME NEW t \in Threads, SendEnd(t) PROVE EntryInv'
  BY <1>16 DEF SendEnd, SendReturn, Goto
<1>17. ASSUME NEW t \in Threads, UserCloses(t) PROVE EntryInv'
  BY <1>17 DEF UserCloses, UserCode, CallClose
<1>18. ASSUME NEW t \in Threads, CloseSocket(t) PROVE EntryInv'
  BY <1>18 DEF CloseSocket, CloseReturn, Release, Goto
<1>19. ASSUME NEW t \in Threads, DisconnectTest(t) PROVE EntryInv'
  BY <1>19 DEF DisconnectTest, CloseReturn, Release, Goto
<1>20. ASSUME NEW t \in Threads, DisconnectSet(t) PROVE EntryInv'
  BY <1>20 DEF DisconnectSet, Goto
<1>21. ASSUME NEW t \in Threads, OnDisconnect(t) PROVE EntryInv'
  BY <1>21 DEF OnDisconnect, Goto
<1>22. ASSUME NEW t \in Threads, Unregister(t) PROVE EntryInv'
  BY <1>22 DEF Unregister, CloseReturn, Release, Goto
<1>23. ASSUME NEW t \in Threads, ReleaseSocket(t) PROVE EntryInv'
  BY <1>23 DEF ReleaseSocket, UserCode
<1>24. ASSUME NEW t \in Threads, NullDereference(t) PROVE EntryInv'
  BY <1>24 DEF NullDereference
<1>25. ASSUME PeerSends PROVE EntryInv'
  BY <1>25 DEF PeerSends
<1>26. ASSUME NEW how \in {"eof", "broken"}, PeerEnds(how) PROVE EntryInv'
  BY <1>26 DEF PeerEnds
<1>27. ASSUME NEW t \in Threads, SendSleeps(t) PROVE EntryInv'
  BY <1>27 DEF SendSleeps
<1>28. ASSUME NEW t \in Threads, MovedWaitEnds(t) PROVE EntryInv'
  BY <1>28 DEF MovedWaitEnds, Goto
<1>29. ASSUME NEW t \in Threads, DisconnectQuery(t) PROVE EntryInv'
  BY <1>29 DEF DisconnectQuery, Goto
<1>30. ASSUME NEW t \in Threads, DisconnectSend(t) PROVE EntryInv'
  BY <1>30 DEF DisconnectSend, Goto
<1>31. ASSUME NEW t \in Threads, DisconnectSent(t) PROVE EntryInv'
  BY <1>31 DEF DisconnectSent, Goto
<1> HIDE DEF EntryInv
<1> QED
  BY <1>1, <1>2, <1>3, <1>4, <1>5, <1>6, <1>7, <1>8, <1>9, <1>10, <1>11,
       <1>12, <1>13, <1>14, <1>15, <1>16, <1>17, <1>18, <1>19, <1>20, <1>21,
       <1>22, <1>23, <1>24, <1>25, <1>26, <1>27, <1>28, <1>29, <1>30, <1>31 DEF Next, LockStep,
       OwnStep, EventStep

\* Unsent data stays watched: writes and choices of the mode take turns.
LEMMA WatchStep ==
    ASSUME TypeOK, PlaceInv, ClosedInv, SendMutexInv, EntryInv, WatchInv, Next
    PROVE  WatchInv'
<1> USE ThreadsAssumption DEF TypeOK, ClosedInv, SendMutexInv, WatchInv, Deciding,
        InternalLabels, CloseLabels, inVars, outVars, endVars, lockVars, is_valid
<1>1. ASSUME NEW t \in Workers, NEW type \in {"Read", "Write", "ReadWrite", "Error"},
             Event(t, type)
      PROVE  WatchInv'
  <2>1. /\ UNCHANGED << sock, outVars >> /\ pc[t] = "idle"
        /\ \/ pc' = [pc EXCEPT ![t] = "c_lock"] /\ cret' = [cret EXCEPT ![t] = "rereg"]
           \/ /\ \E label \in {"w_lock", "r_lock"} : pc' = [pc EXCEPT ![t] = label]
              /\ UNCHANGED cret
    BY <1>1 DEF Event, CallClose, Goto
  <2>2. \A u \in Threads : Deciding(u) => Deciding(u)'
    BY <2>1
  <2>3. \A u \in Threads : pc'[u] \in {"s_valid", "w_valid"} => pc'[u] = pc[u]
    BY <2>1
  <2> QED
    BY <2>1, <2>2, <2>3
<1>2. ASSUME NEW t \in Threads, ReadLock(t) PROVE WatchInv'
  BY <1>2 DEF ReadLock, Goto
<1>3. ASSUME NEW t \in Threads, Receive(t) PROVE WatchInv'
  BY <1>3 DEF Receive, ReportsClosed, Goto
<1>4. ASSUME NEW t \in Threads, OnNetworkMessage(t) PROVE WatchInv'
  BY <1>4 DEF OnNetworkMessage, Goto
<1>5. ASSUME NEW t \in Workers, CallbackReturn(t) PROVE WatchInv'
  BY <1>5 DEF CallbackReturn, Goto
<1>6. ASSUME NEW t \in Threads, ReadEnd(t) PROVE WatchInv'
  BY <1>6 DEF ReadEnd, Goto
<1>7. ASSUME NEW t \in Threads, WriteLock(t) PROVE WatchInv'
  BY <1>7 DEF WriteLock, Goto
<1>8. ASSUME NEW t \in Threads, OnWriteReady(t) PROVE WatchInv'
  <2>1. CASE sock' # "up"
    BY <2>1
  <2>2. CASE sock' = "up"
    <3>1. PICK rest \in 0 .. queued + current :
             /\ queued' = IF rest = 0 THEN 0 ELSE rest - 1
             /\ current' = IF rest = 0 THEN 0 ELSE 1
             /\ more' = [more EXCEPT ![t] = rest > 0]
      BY <1>8, <2>2 DEF OnWriteReady, DoSend
    <3>2. queued' + current' = rest
      BY <3>1
    <3>3. sock = "up" /\ m_mode' = m_mode /\ pc' = [pc EXCEPT ![t] = "w_valid"] /\ pc[t] = "w_send"
      BY <1>8, <2>2 DEF OnWriteReady, DoSend, Goto
    <3>4. m_send_mutex = t
      BY <3>3
    <3>5. \A u \in Threads : u # t => pc[u] \notin {"s_valid", "w_valid"} /\ ~ Deciding(u)
      BY <3>3, <3>4
    <3>6. more'[t] <=> rest > 0
      BY <3>1
    <3>7. rest > 0 => m_mode = "ReadWrite"
      BY <3>3, <3>5
    <3>8. \A u \in Threads : pc'[u] \in {"s_valid", "w_valid"} => u = t
      BY <3>3, <3>5
    <3> QED
      BY <3>2, <3>3, <3>6, <3>7, <3>8
  <2> QED
    BY <2>1, <2>2
<1>9. ASSUME NEW t \in Threads, WriteDone(t) PROVE WatchInv'
  BY <1>9 DEF WriteDone, SetMode, Release, Goto
<1>10. ASSUME NEW t \in Threads, ReRegister(t) PROVE WatchInv'
  BY <1>10 DEF ReRegister, Rearmed, Goto
<1>11. ASSUME NEW t \in Threads, CallSend(t) PROVE WatchInv'
  BY <1>11 DEF CallSend, UserCode, Goto
<1>12. ASSUME NEW t \in Threads, SendLock(t) PROVE WatchInv'
  BY <1>12 DEF SendLock, Goto
<1>13. ASSUME NEW t \in Threads, NEW async \in BOOLEAN, Send(t, async)
      PROVE  WatchInv'
  <2>1. CASE sock' # "up"
    BY <2>1
  <2>2. CASE sock' = "up"
    <3>1. sock = "up" /\ m_mode' = m_mode /\ pc[t] = "s_send"
      BY <1>13, <2>2 DEF Send, SendGivesUp, DoSend
    <3>2. m_send_mutex = t
      BY <3>1
    <3>3. \A u \in Threads : pc[u] \notin {"s_valid", "w_valid"} /\ ~ Deciding(u)
      BY <3>1, <3>2
    <3>4. queued + current > 0 => m_mode = "ReadWrite"
      BY <3>1, <3>3
    <3>5. CASE SendGivesUp(t)
      BY <3>1, <3>3, <3>5 DEF SendGivesUp, CallClose
    <3>6. CASE Goto(t, "s_wait") /\ UNCHANGED << queued, current >>
      BY <3>1, <3>3, <3>4, <3>6 DEF Goto
    <3>7. ASSUME NEW rest \in Nat, queued' + current' = rest, more' = [more EXCEPT ![t] = rest > 0],
                 pc' = [pc EXCEPT ![t] = "s_valid"]
          PROVE  WatchInv'
      <4>1. more'[t] <=> rest > 0
        BY <3>7
      <4>2. Deciding(t)'
        BY <3>7
      <4>3. \A u \in Threads : pc'[u] \in {"s_valid", "w_valid"} => u = t
        BY <3>3, <3>7
      <4> QED
        BY <3>7, <4>1, <4>2, <4>3
    <3>8. CASE queued' = queued + 1 /\ current' = current /\ more' = [more EXCEPT ![t] = TRUE]
               /\ Goto(t, "s_valid")
      <4>1. queued + 1 + current \in Nat /\ (queued + 1 + current > 0) = TRUE
        OBVIOUS
      <4> QED
        BY <3>7, <3>8, <4>1 DEF Goto
    <3>9. CASE DoSend(t, queued + current + 1, "s_valid", t)
      <4>1. PICK rest \in 0 .. queued + current + 1 :
               /\ queued' = IF rest = 0 THEN 0 ELSE rest - 1
               /\ current' = IF rest = 0 THEN 0 ELSE 1
               /\ more' = [more EXCEPT ![t] = rest > 0]
        BY <2>2, <3>9 DEF DoSend
      <4>2. queued' + current' = rest /\ rest \in Nat
        BY <4>1
      <4>3. pc' = [pc EXCEPT ![t] = "s_valid"]
        BY <2>2, <3>9 DEF DoSend, Goto
      <4> QED
        BY <3>7, <4>1, <4>2, <4>3
    <3> QED
      BY <1>13, <3>5, <3>6, <3>8, <3>9 DEF Send
  <2> QED
    BY <2>1, <2>2
<1>14. ASSUME NEW t \in Threads, SendWaitEnds(t) PROVE WatchInv'
  BY <1>14 DEF SendWaitEnds, Goto
<1>15. ASSUME NEW t \in Threads, SendDone(t) PROVE WatchInv'
  BY <1>15, SMTT(30) DEF SendDone, SetMode, SendReturn, CallClose, Goto
<1>16. ASSUME NEW t \in Threads, SendEnd(t) PROVE WatchInv'
  BY <1>16 DEF SendEnd, SendReturn, Goto
<1>17. ASSUME NEW t \in Threads, UserCloses(t) PROVE WatchInv'
  BY <1>17 DEF UserCloses, UserCode, CallClose
<1>18. ASSUME NEW t \in Threads, CloseSocket(t) PROVE WatchInv'
  BY <1>18 DEF CloseSocket, CloseReturn, Release, Goto
<1>19. ASSUME NEW t \in Threads, DisconnectTest(t) PROVE WatchInv'
  BY <1>19 DEF DisconnectTest, CloseReturn, Release, Goto
<1>20. ASSUME NEW t \in Threads, DisconnectSet(t) PROVE WatchInv'
  BY <1>20 DEF DisconnectSet, Goto
<1>21. ASSUME NEW t \in Threads, OnDisconnect(t) PROVE WatchInv'
  BY <1>21 DEF OnDisconnect, Goto
<1>22. ASSUME NEW t \in Threads, Unregister(t) PROVE WatchInv'
  BY <1>22 DEF Unregister, CloseReturn, Release, Goto
<1>23. ASSUME NEW t \in Threads, ReleaseSocket(t) PROVE WatchInv'
  BY <1>23 DEF ReleaseSocket, UserCode
<1>24. ASSUME NEW t \in Threads, NullDereference(t) PROVE WatchInv'
  BY <1>24 DEF NullDereference
<1>25. ASSUME PeerSends PROVE WatchInv'
  BY <1>25 DEF PeerSends
<1>26. ASSUME NEW how \in {"eof", "broken"}, PeerEnds(how) PROVE WatchInv'
  BY <1>26 DEF PeerEnds
<1>27. ASSUME NEW t \in Threads, SendSleeps(t) PROVE WatchInv'
  BY <1>27 DEF SendSleeps
<1>28. ASSUME NEW t \in Threads, MovedWaitEnds(t) PROVE WatchInv'
  BY <1>28 DEF MovedWaitEnds, Goto
<1>29. ASSUME NEW t \in Threads, DisconnectQuery(t) PROVE WatchInv'
  BY <1>29 DEF DisconnectQuery, Goto
<1>30. ASSUME NEW t \in Threads, DisconnectSend(t) PROVE WatchInv'
  BY <1>30 DEF DisconnectSend, Goto
<1>31. ASSUME NEW t \in Threads, DisconnectSent(t) PROVE WatchInv'
  BY <1>31 DEF DisconnectSent, Goto
<1> HIDE DEF WatchInv
<1> QED
  BY <1>1, <1>2, <1>3, <1>4, <1>5, <1>6, <1>7, <1>8, <1>9, <1>10, <1>11,
       <1>12, <1>13, <1>14, <1>15, <1>16, <1>17, <1>18, <1>19, <1>20, <1>21,
       <1>22, <1>23, <1>24, <1>25, <1>26, <1>27, <1>28, <1>29, <1>30, <1>31 DEF Next, LockStep,
       OwnStep, EventStep

\* A worker that handles an event is done with re_register() only.
LEMMA BusyStays ==
    ASSUME TypeOK, PlaceInv, NEW v \in Workers, pc[v] # "idle", Next
    PROVE  pc'[v] # "idle" \/ ReRegister(v)
<1> USE ThreadsAssumption DEF TypeOK, PlaceInv, InternalLabels, CloseLabels, Threads
<1> DEFINE Busy == pc'[v] # "idle" \/ ReRegister(v)
<1>1. ASSUME NEW t \in Workers, NEW type \in {"Read", "Write", "ReadWrite", "Error"},
             Event(t, type)
      PROVE  Busy
  BY <1>1 DEF Event, DisarmedBy, CallClose, Goto
<1>2. ASSUME NEW t \in Threads, ReadLock(t) PROVE Busy
  BY <1>2 DEF ReadLock, Goto
<1>3. ASSUME NEW t \in Threads, Receive(t) PROVE Busy
  BY <1>3 DEF Receive, ReportsClosed, Goto
<1>4. ASSUME NEW t \in Threads, OnNetworkMessage(t) PROVE Busy
  BY <1>4 DEF OnNetworkMessage, Goto
<1>5. ASSUME NEW t \in Workers, CallbackReturn(t) PROVE Busy
  BY <1>5 DEF CallbackReturn, Goto
<1>6. ASSUME NEW t \in Threads, ReadEnd(t) PROVE Busy
  BY <1>6 DEF ReadEnd, Goto
<1>7. ASSUME NEW t \in Threads, WriteLock(t) PROVE Busy
  BY <1>7 DEF WriteLock, Goto
<1>8. ASSUME NEW t \in Threads, OnWriteReady(t) PROVE Busy
  BY <1>8 DEF OnWriteReady, DoSend, KeepsLock, CallClose, Goto
<1>9. ASSUME NEW t \in Threads, WriteDone(t) PROVE Busy
  BY <1>9 DEF WriteDone, SetMode, Release, Goto
<1>10. ASSUME NEW t \in Threads, ReRegister(t) PROVE Busy
  BY <1>10 DEF ReRegister, Rearmed, Goto
<1>11. ASSUME NEW t \in Threads, CallSend(t) PROVE Busy
  BY <1>11 DEF CallSend, UserCode, Goto
<1>12. ASSUME NEW t \in Threads, SendLock(t) PROVE Busy
  BY <1>12 DEF SendLock, Goto
<1>13. ASSUME NEW t \in Threads, NEW async \in BOOLEAN, Send(t, async) PROVE Busy
  BY <1>13 DEF Send, SendGivesUp, Full, DoSend, KeepsLock,
       CallClose, Goto
<1>14. ASSUME NEW t \in Threads, SendWaitEnds(t) PROVE Busy
  BY <1>14 DEF SendWaitEnds, Goto
<1>15. ASSUME NEW t \in Threads, SendDone(t) PROVE Busy
  BY <1>15 DEF SendDone, SetMode, SendReturn, CallClose, Goto
<1>16. ASSUME NEW t \in Threads, SendEnd(t) PROVE Busy
  BY <1>16 DEF SendEnd, SendReturn, Goto
<1>17. ASSUME NEW t \in Threads, UserCloses(t) PROVE Busy
  BY <1>17 DEF UserCloses, UserCode, CallClose
<1>18. ASSUME NEW t \in Threads, CloseSocket(t) PROVE Busy
  BY <1>18 DEF CloseSocket, CloseReturn, Release, Goto
<1>19. ASSUME NEW t \in Threads, DisconnectTest(t) PROVE Busy
  BY <1>19 DEF DisconnectTest, CloseReturn, Release, Goto
<1>20. ASSUME NEW t \in Threads, DisconnectSet(t) PROVE Busy
  BY <1>20 DEF DisconnectSet, Goto
<1>21. ASSUME NEW t \in Threads, OnDisconnect(t) PROVE Busy
  BY <1>21 DEF OnDisconnect, Goto
<1>22. ASSUME NEW t \in Threads, Unregister(t) PROVE Busy
  BY <1>22 DEF Unregister, CloseReturn, Release, Goto
<1>23. ASSUME NEW t \in Threads, ReleaseSocket(t) PROVE Busy
  BY <1>23 DEF ReleaseSocket, UserCode
<1>24. ASSUME NEW t \in Threads, NullDereference(t) PROVE Busy
  BY <1>24 DEF NullDereference
<1>25. ASSUME PeerSends PROVE Busy
  BY <1>25 DEF PeerSends
<1>26. ASSUME NEW how \in {"eof", "broken"}, PeerEnds(how) PROVE Busy
  BY <1>26 DEF PeerEnds
<1>27. ASSUME NEW t \in Threads, SendSleeps(t) PROVE Busy
  BY <1>27 DEF SendSleeps
<1>28. ASSUME NEW t \in Threads, MovedWaitEnds(t) PROVE Busy
  BY <1>28 DEF MovedWaitEnds, Goto
<1>29. ASSUME NEW t \in Threads, DisconnectQuery(t) PROVE Busy
  BY <1>29 DEF DisconnectQuery, Goto
<1>30. ASSUME NEW t \in Threads, DisconnectSend(t) PROVE Busy
  BY <1>30 DEF DisconnectSend, Goto
<1>31. ASSUME NEW t \in Threads, DisconnectSent(t) PROVE Busy
  BY <1>31 DEF DisconnectSent, Goto
<1> QED
  BY <1>1, <1>2, <1>3, <1>4, <1>5, <1>6, <1>7, <1>8, <1>9, <1>10, <1>11,
       <1>12, <1>13, <1>14, <1>15, <1>16, <1>17, <1>18, <1>19, <1>20, <1>21,
       <1>22, <1>23, <1>24, <1>25, <1>26, <1>27, <1>28, <1>29, <1>30, <1>31 DEF Next, LockStep,
       OwnStep, EventStep

\* A listener in the event loop that is open and that epoll would not report
\* was so before the step, or a worker has just got its event.
LEMMA DisarmStep ==
    ASSUME TypeOK, EntryInv, Next, in_map', is_valid', entry' \in {"none", "off"}
    PROVE  \/ in_map /\ is_valid /\ entry \in {"none", "off"}
           \/ \E w \in Workers : pc'[w] # "idle"
<1> USE DEF TypeOK, EntryInv, inVars, outVars, endVars, lockVars, is_valid
<1> DEFINE Unarmed == in_map /\ is_valid /\ entry \in {"none", "off"}
           Busy == \E w \in Workers : pc'[w] # "idle"
<1>1. ASSUME NEW t \in Workers, NEW type \in {"Read", "Write", "ReadWrite", "Error"},
             Event(t, type)
      PROVE  Unarmed \/ Busy
  <2>1. t \in Threads
    BY DEF Threads
  <2>2. pc'[t] # "idle"
    BY <1>1, <2>1 DEF Event, CallClose, Goto
  <2> QED
    BY <2>2
<1>2. ASSUME NEW t \in Threads, ReadLock(t) PROVE Unarmed \/ Busy
  BY <1>2 DEF ReadLock, Goto
<1>3. ASSUME NEW t \in Threads, Receive(t) PROVE Unarmed \/ Busy
  BY <1>3 DEF Receive, ReportsClosed, Goto
<1>4. ASSUME NEW t \in Threads, OnNetworkMessage(t) PROVE Unarmed \/ Busy
  BY <1>4 DEF OnNetworkMessage, Goto
<1>5. ASSUME NEW t \in Workers, CallbackReturn(t) PROVE Unarmed \/ Busy
  BY <1>5 DEF CallbackReturn, Goto
<1>6. ASSUME NEW t \in Threads, ReadEnd(t) PROVE Unarmed \/ Busy
  BY <1>6 DEF ReadEnd, Goto
<1>7. ASSUME NEW t \in Threads, WriteLock(t) PROVE Unarmed \/ Busy
  BY <1>7 DEF WriteLock, Goto
<1>8. ASSUME NEW t \in Threads, OnWriteReady(t) PROVE Unarmed \/ Busy
  BY <1>8 DEF OnWriteReady, DoSend, KeepsLock, CallClose, Goto
<1>9. ASSUME NEW t \in Threads, WriteDone(t) PROVE Unarmed \/ Busy
  BY <1>9 DEF WriteDone, SetMode, Release, Goto
<1>10. ASSUME NEW t \in Threads, ReRegister(t) PROVE Unarmed \/ Busy
  BY <1>10 DEF ReRegister, Rearmed, Goto
<1>11. ASSUME NEW t \in Threads, CallSend(t) PROVE Unarmed \/ Busy
  BY <1>11 DEF CallSend, UserCode, Goto
<1>12. ASSUME NEW t \in Threads, SendLock(t) PROVE Unarmed \/ Busy
  BY <1>12 DEF SendLock, Goto
<1>13. ASSUME NEW t \in Threads, NEW async \in BOOLEAN, Send(t, async)
      PROVE  Unarmed \/ Busy
  BY <1>13 DEF Send, SendGivesUp, Full, DoSend, KeepsLock,
       CallClose, Goto
<1>14. ASSUME NEW t \in Threads, SendWaitEnds(t) PROVE Unarmed \/ Busy
  BY <1>14 DEF SendWaitEnds, Goto
<1>15. ASSUME NEW t \in Threads, SendDone(t) PROVE Unarmed \/ Busy
  BY <1>15 DEF SendDone, SetMode, SendReturn, CallClose, Goto
<1>16. ASSUME NEW t \in Threads, SendEnd(t) PROVE Unarmed \/ Busy
  BY <1>16 DEF SendEnd, SendReturn, Goto
<1>17. ASSUME NEW t \in Threads, UserCloses(t) PROVE Unarmed \/ Busy
  BY <1>17 DEF UserCloses, UserCode, CallClose
<1>18. ASSUME NEW t \in Threads, CloseSocket(t) PROVE Unarmed \/ Busy
  BY <1>18 DEF CloseSocket, CloseReturn, Release, Goto
<1>19. ASSUME NEW t \in Threads, DisconnectTest(t) PROVE Unarmed \/ Busy
  BY <1>19 DEF DisconnectTest, CloseReturn, Release, Goto
<1>20. ASSUME NEW t \in Threads, DisconnectSet(t) PROVE Unarmed \/ Busy
  BY <1>20 DEF DisconnectSet, Goto
<1>21. ASSUME NEW t \in Threads, OnDisconnect(t) PROVE Unarmed \/ Busy
  BY <1>21 DEF OnDisconnect, Goto
<1>22. ASSUME NEW t \in Threads, Unregister(t) PROVE Unarmed \/ Busy
  BY <1>22 DEF Unregister, CloseReturn, Release, Goto
<1>23. ASSUME NEW t \in Threads, ReleaseSocket(t) PROVE Unarmed \/ Busy
  BY <1>23 DEF ReleaseSocket, UserCode
<1>24. ASSUME NEW t \in Threads, NullDereference(t) PROVE Unarmed \/ Busy
  BY <1>24 DEF NullDereference
<1>25. ASSUME PeerSends PROVE Unarmed \/ Busy
  BY <1>25 DEF PeerSends
<1>26. ASSUME NEW how \in {"eof", "broken"}, PeerEnds(how) PROVE Unarmed \/ Busy
  BY <1>26 DEF PeerEnds
<1>27. ASSUME NEW t \in Threads, SendSleeps(t) PROVE Unarmed \/ Busy
  BY <1>27 DEF SendSleeps
<1>28. ASSUME NEW t \in Threads, MovedWaitEnds(t) PROVE Unarmed \/ Busy
  BY <1>28 DEF MovedWaitEnds, Goto
<1>29. ASSUME NEW t \in Threads, DisconnectQuery(t) PROVE Unarmed \/ Busy
  BY <1>29 DEF DisconnectQuery, Goto
<1>30. ASSUME NEW t \in Threads, DisconnectSend(t) PROVE Unarmed \/ Busy
  BY <1>30 DEF DisconnectSend, Goto
<1>31. ASSUME NEW t \in Threads, DisconnectSent(t) PROVE Unarmed \/ Busy
  BY <1>31 DEF DisconnectSent, Goto
<1> QED
  BY <1>1, <1>2, <1>3, <1>4, <1>5, <1>6, <1>7, <1>8, <1>9, <1>10, <1>11,
       <1>12, <1>13, <1>14, <1>15, <1>16, <1>17, <1>18, <1>19, <1>20, <1>21,
       <1>22, <1>23, <1>24, <1>25, <1>26, <1>27, <1>28, <1>29, <1>30, <1>31 DEF Next, LockStep,
       OwnStep, EventStep

\* The entry of an open listener is disarmed only while a worker is busy.
LEMMA MonitoredStep ==
    ASSUME TypeOK, PlaceInv, EntryInv, StaysMonitored, Next
    PROVE  StaysMonitored'
<1> SUFFICES ASSUME in_map', is_valid', entry' \in {"none", "off"}
             PROVE  \E w \in Workers : pc'[w] # "idle"
  BY DEF StaysMonitored
<1>1. ASSUME NEW t \in Threads PROVE ~ ReRegister(t)
  BY DEF ReRegister, Rearmed, EntryInv, TypeOK, is_valid, endVars, outVars
<1>2. CASE in_map /\ is_valid /\ entry \in {"none", "off"}
  <2>1. PICK w \in Workers : pc[w] # "idle"
    BY <1>2 DEF StaysMonitored
  <2> QED
    BY <1>1, <2>1, BusyStays DEF Threads
<1> QED
  BY <1>2, DisarmStep

----------------------------------------------------------------------------
(* Receiving.                                                               *)

\* A thread that is where only workers can be is one.
LEMMA InWorker ==
    ASSUME PlaceInv, NEW t \in Threads, pc[t] \in WorkerLabels
    PROVE  t \in Workers
  BY DEF PlaceInv

\* Without senders nothing is ever written.
LEMMA ReceiveOnlyStep ==
    ASSUME Senders = {}, TypeOK, PlaceInv, EntryInv, ReceiveOnly, Next
    PROVE  ReceiveOnly'
<1> USE DEF TypeOK, PlaceInv, WorkerLabels, EntryInv, ReceiveOnly, InternalLabels,
        CloseLabels, inVars, outVars, endVars, lockVars
<1>1. ASSUME NEW t \in Workers, NEW type \in {"Read", "Write", "ReadWrite", "Error"},
             Event(t, type)
      PROVE  ReceiveOnly'
  BY <1>1 DEF Event, DisarmedBy, CallClose, Goto
<1>2. ASSUME NEW t \in Threads, ReadLock(t) PROVE ReceiveOnly'
  BY <1>2 DEF ReadLock, Goto
<1>3. ASSUME NEW t \in Threads, Receive(t) PROVE ReceiveOnly'
  <2>1. UNCHANGED << queued, current, m_mode, event >>
    BY <1>3 DEF Receive
  <2>2. /\ \E label \in {"r_msg", "r_end", "ci_test"} : pc' = [pc EXCEPT ![t] = label]
        /\ cret' = cret \/ cret' = [cret EXCEPT ![t] = "r_end"]
    BY <1>3 DEF Receive, ReportsClosed, Goto
  <2> QED
    BY <2>1, <2>2
<1>4. ASSUME NEW t \in Threads, OnNetworkMessage(t) PROVE ReceiveOnly'
  BY <1>4 DEF OnNetworkMessage, Goto
<1>5. ASSUME NEW t \in Workers, CallbackReturn(t) PROVE ReceiveOnly'
  BY <1>5 DEF CallbackReturn, Goto
<1>6. ASSUME NEW t \in Threads, ReadEnd(t) PROVE ReceiveOnly'
  BY <1>6 DEF ReadEnd, Goto
<1>7. ASSUME NEW t \in Threads, WriteLock(t) PROVE ReceiveOnly'
  BY <1>7 DEF WriteLock, Goto
<1>8. ASSUME NEW t \in Threads, OnWriteReady(t) PROVE ReceiveOnly'
  BY <1>8 DEF OnWriteReady, DoSend, KeepsLock, CallClose, Goto
<1>9. ASSUME NEW t \in Threads, WriteDone(t) PROVE ReceiveOnly'
  BY <1>9 DEF WriteDone, SetMode, Release, Goto
<1>10. ASSUME NEW t \in Threads, ReRegister(t) PROVE ReceiveOnly'
  BY <1>10 DEF ReRegister, Rearmed, Goto
<1>11. ASSUME NEW t \in Threads, CallSend(t) PROVE ReceiveOnly'
  BY <1>11 DEF CallSend, UserCode, Goto
<1>12. ASSUME NEW t \in Threads, SendLock(t) PROVE ReceiveOnly'
  BY <1>12 DEF SendLock, Goto
<1>13. ASSUME NEW t \in Threads, NEW async \in BOOLEAN, Send(t, async)
      PROVE  ReceiveOnly'
  BY <1>13 DEF Send, SendGivesUp, Full, DoSend, KeepsLock,
       CallClose, Goto
<1>14. ASSUME NEW t \in Threads, SendWaitEnds(t) PROVE ReceiveOnly'
  BY <1>14 DEF SendWaitEnds, Goto
<1>15. ASSUME NEW t \in Threads, SendDone(t) PROVE ReceiveOnly'
  BY <1>15 DEF SendDone, SetMode, SendReturn, CallClose, Goto
<1>16. ASSUME NEW t \in Threads, SendEnd(t) PROVE ReceiveOnly'
  BY <1>16 DEF SendEnd, SendReturn, Goto
<1>17. ASSUME NEW t \in Threads, UserCloses(t) PROVE ReceiveOnly'
  BY <1>17 DEF UserCloses, UserCode, CallClose
<1>18. ASSUME NEW t \in Threads, CloseSocket(t) PROVE ReceiveOnly'
  <2>1. /\ pc[t] = "c_lock" /\ (is_valid' => is_valid)
        /\ UNCHANGED << job, queued, current, m_mode, m_send_mutex, event >>
    BY <1>18, CloseFacts DEF inVars
  <2>2. CASE pc' = [pc EXCEPT ![t] = "ci_test"] /\ UNCHANGED cret /\ ~ is_valid'
    BY <2>1, <2>2
  <2>3. CASE /\ pc' = [pc EXCEPT ![t] = cret[t]]
             /\ cret' = [cret EXCEPT ![t] = "idle"] /\ is_valid
    BY <2>1, <2>3
  <2> QED
    BY <1>18, <2>2, <2>3, CloseFacts
<1>19. ASSUME NEW t \in Threads, DisconnectTest(t) PROVE ReceiveOnly'
  BY <1>19 DEF DisconnectTest, CloseReturn, Release, Goto
<1>20. ASSUME NEW t \in Threads, DisconnectSet(t) PROVE ReceiveOnly'
  BY <1>20 DEF DisconnectSet, Goto
<1>21. ASSUME NEW t \in Threads, OnDisconnect(t) PROVE ReceiveOnly'
  BY <1>21, ZenonT(60) DEF OnDisconnect, Goto
<1>22. ASSUME NEW t \in Threads, Unregister(t) PROVE ReceiveOnly'
  BY <1>22 DEF Unregister, CloseReturn, Release, Goto
<1>23. ASSUME NEW t \in Threads, ReleaseSocket(t) PROVE ReceiveOnly'
  BY <1>23 DEF ReleaseSocket, UserCode
<1>24. ASSUME NEW t \in Threads, NullDereference(t) PROVE ReceiveOnly'
  BY <1>24 DEF NullDereference
<1>25. ASSUME PeerSends PROVE ReceiveOnly'
  BY <1>25 DEF PeerSends
<1>26. ASSUME NEW how \in {"eof", "broken"}, PeerEnds(how) PROVE ReceiveOnly'
  BY <1>26 DEF PeerEnds
<1>27. ASSUME NEW t \in Threads, SendSleeps(t) PROVE ReceiveOnly'
  BY <1>27 DEF SendSleeps
<1>28. ASSUME NEW t \in Threads, MovedWaitEnds(t) PROVE ReceiveOnly'
  BY <1>28 DEF MovedWaitEnds, Goto
<1>29. ASSUME NEW t \in Threads, DisconnectQuery(t) PROVE ReceiveOnly'
  BY <1>29 DEF DisconnectQuery, Goto
<1>30. ASSUME NEW t \in Threads, DisconnectSend(t) PROVE ReceiveOnly'
  BY <1>30 DEF DisconnectSend, Goto
<1>31. ASSUME NEW t \in Threads, DisconnectSent(t) PROVE ReceiveOnly'
  BY <1>31 DEF DisconnectSent, Goto
<1> HIDE DEF ReceiveOnly
<1> QED
  BY <1>1, <1>2, <1>3, <1>4, <1>5, <1>6, <1>7, <1>8, <1>9, <1>10, <1>11,
       <1>12, <1>13, <1>14, <1>15, <1>16, <1>17, <1>18, <1>19, <1>20, <1>21,
       <1>22, <1>23, <1>24, <1>25, <1>26, <1>27, <1>28, <1>29, <1>30, <1>31 DEF Next, LockStep,
       OwnStep, EventStep

\* A worker gets to work with an event only.
LEMMA IdleStays ==
    ASSUME TypeOK, NEW v \in Workers, pc[v] = "idle", Next
    PROVE  \/ pc'[v] = "idle"
           \/ \E type \in {"Read", "Write", "ReadWrite", "Error"} : Event(v, type)
<1> USE ThreadsAssumption DEF TypeOK, Threads
<1> DEFINE Idle == pc'[v] = "idle"
           Woken == \E type \in {"Read", "Write", "ReadWrite", "Error"} : Event(v, type)
<1>1. ASSUME NEW t \in Workers, NEW type \in {"Read", "Write", "ReadWrite", "Error"},
             Event(t, type)
      PROVE  Idle \/ Woken
  BY <1>1, ZenonT(40) DEF Event, DisarmedBy, CallClose, Goto
<1>2. ASSUME NEW t \in Threads, ReadLock(t) PROVE Idle \/ Woken
  BY <1>2 DEF ReadLock, Goto
<1>3. ASSUME NEW t \in Threads, Receive(t) PROVE Idle \/ Woken
  BY <1>3 DEF Receive, ReportsClosed, Goto
<1>4. ASSUME NEW t \in Threads, OnNetworkMessage(t) PROVE Idle \/ Woken
  BY <1>4 DEF OnNetworkMessage, Goto
<1>5. ASSUME NEW t \in Workers, CallbackReturn(t) PROVE Idle \/ Woken
  BY <1>5 DEF CallbackReturn, Goto
<1>6. ASSUME NEW t \in Threads, ReadEnd(t) PROVE Idle \/ Woken
  BY <1>6 DEF ReadEnd, Goto
<1>7. ASSUME NEW t \in Threads, WriteLock(t) PROVE Idle \/ Woken
  BY <1>7 DEF WriteLock, Goto
<1>8. ASSUME NEW t \in Threads, OnWriteReady(t) PROVE Idle \/ Woken
  BY <1>8 DEF OnWriteReady, DoSend, KeepsLock, CallClose, Goto
<1>9. ASSUME NEW t \in Threads, WriteDone(t) PROVE Idle \/ Woken
  BY <1>9 DEF WriteDone, SetMode, Release, Goto
<1>10. ASSUME NEW t \in Threads, ReRegister(t) PROVE Idle \/ Woken
  BY <1>10 DEF ReRegister, Rearmed, Goto
<1>11. ASSUME NEW t \in Threads, CallSend(t) PROVE Idle \/ Woken
  BY <1>11 DEF CallSend, UserCode, Goto
<1>12. ASSUME NEW t \in Threads, SendLock(t) PROVE Idle \/ Woken
  BY <1>12 DEF SendLock, Goto
<1>13. ASSUME NEW t \in Threads, NEW async \in BOOLEAN, Send(t, async)
      PROVE  Idle \/ Woken
  BY <1>13 DEF Send, SendGivesUp, Full, DoSend, KeepsLock,
       CallClose, Goto
<1>14. ASSUME NEW t \in Threads, SendWaitEnds(t) PROVE Idle \/ Woken
  BY <1>14 DEF SendWaitEnds, Goto
<1>15. ASSUME NEW t \in Threads, SendDone(t) PROVE Idle \/ Woken
  BY <1>15 DEF SendDone, SetMode, SendReturn, CallClose, Goto
<1>16. ASSUME NEW t \in Threads, SendEnd(t) PROVE Idle \/ Woken
  BY <1>16 DEF SendEnd, SendReturn, Goto
<1>17. ASSUME NEW t \in Threads, UserCloses(t) PROVE Idle \/ Woken
  BY <1>17 DEF UserCloses, UserCode, CallClose
<1>18. ASSUME NEW t \in Threads, CloseSocket(t) PROVE Idle \/ Woken
  BY <1>18 DEF CloseSocket, CloseReturn, Release, Goto
<1>19. ASSUME NEW t \in Threads, DisconnectTest(t) PROVE Idle \/ Woken
  BY <1>19 DEF DisconnectTest, CloseReturn, Release, Goto
<1>20. ASSUME NEW t \in Threads, DisconnectSet(t) PROVE Idle \/ Woken
  BY <1>20 DEF DisconnectSet, Goto
<1>21. ASSUME NEW t \in Threads, OnDisconnect(t) PROVE Idle \/ Woken
  BY <1>21 DEF OnDisconnect, Goto
<1>22. ASSUME NEW t \in Threads, Unregister(t) PROVE Idle \/ Woken
  BY <1>22 DEF Unregister, CloseReturn, Release, Goto
<1>23. ASSUME NEW t \in Threads, ReleaseSocket(t) PROVE Idle \/ Woken
  BY <1>23 DEF ReleaseSocket, UserCode
<1>24. ASSUME NEW t \in Threads, NullDereference(t) PROVE Idle \/ Woken
  BY <1>24 DEF NullDereference
<1>25. ASSUME PeerSends PROVE Idle \/ Woken
  BY <1>25 DEF PeerSends
<1>26. ASSUME NEW how \in {"eof", "broken"}, PeerEnds(how) PROVE Idle \/ Woken
  BY <1>26 DEF PeerEnds
<1>27. ASSUME NEW t \in Threads, SendSleeps(t) PROVE Idle \/ Woken
  BY <1>27 DEF SendSleeps
<1>28. ASSUME NEW t \in Threads, MovedWaitEnds(t) PROVE Idle \/ Woken
  BY <1>28 DEF MovedWaitEnds, Goto
<1>29. ASSUME NEW t \in Threads, DisconnectQuery(t) PROVE Idle \/ Woken
  BY <1>29 DEF DisconnectQuery, Goto
<1>30. ASSUME NEW t \in Threads, DisconnectSend(t) PROVE Idle \/ Woken
  BY <1>30 DEF DisconnectSend, Goto
<1>31. ASSUME NEW t \in Threads, DisconnectSent(t) PROVE Idle \/ Woken
  BY <1>31 DEF DisconnectSent, Goto
<1> QED
  BY <1>1, <1>2, <1>3, <1>4, <1>5, <1>6, <1>7, <1>8, <1>9, <1>10, <1>11,
       <1>12, <1>13, <1>14, <1>15, <1>16, <1>17, <1>18, <1>19, <1>20, <1>21,
       <1>22, <1>23, <1>24, <1>25, <1>26, <1>27, <1>28, <1>29, <1>30, <1>31 DEF Next, LockStep,
       OwnStep, EventStep

\* Without senders it is re_register() alone that arms the entry.
LEMMA ArmStep ==
    ASSUME TypeOK, ReceiveOnly, Next, entry' \in {"ReadOnly", "ReadWrite"}
    PROVE  entry \in {"ReadOnly", "ReadWrite"} \/ \E w \in Threads : ReRegister(w)
<1> USE DEF TypeOK, ReceiveOnly, InternalLabels, CloseLabels, inVars, outVars, endVars,
        lockVars
<1> DEFINE Armed == entry \in {"ReadOnly", "ReadWrite"} \/ \E w \in Threads : ReRegister(w)
<1>1. ASSUME NEW t \in Workers, NEW type \in {"Read", "Write", "ReadWrite", "Error"},
             Event(t, type)
      PROVE  Armed
  BY <1>1 DEF Event, DisarmedBy, CallClose, Goto
<1>2. ASSUME NEW t \in Threads, ReadLock(t) PROVE Armed
  BY <1>2 DEF ReadLock, Goto
<1>3. ASSUME NEW t \in Threads, Receive(t) PROVE Armed
  BY <1>3 DEF Receive, ReportsClosed, Goto
<1>4. ASSUME NEW t \in Threads, OnNetworkMessage(t) PROVE Armed
  BY <1>4 DEF OnNetworkMessage, Goto
<1>5. ASSUME NEW t \in Workers, CallbackReturn(t) PROVE Armed
  BY <1>5 DEF CallbackReturn, Goto
<1>6. ASSUME NEW t \in Threads, ReadEnd(t) PROVE Armed
  BY <1>6 DEF ReadEnd, Goto
<1>7. ASSUME NEW t \in Threads, WriteLock(t) PROVE Armed
  BY <1>7 DEF WriteLock, Goto
<1>8. ASSUME NEW t \in Threads, OnWriteReady(t) PROVE Armed
  BY <1>8 DEF OnWriteReady, DoSend, KeepsLock, CallClose, Goto
<1>9. ASSUME NEW t \in Threads, WriteDone(t) PROVE Armed
  BY <1>9 DEF WriteDone, SetMode, Release, Goto
<1>10. ASSUME NEW t \in Threads, ReRegister(t) PROVE Armed
  BY <1>10 DEF ReRegister, Rearmed, Goto
<1>11. ASSUME NEW t \in Threads, CallSend(t) PROVE Armed
  BY <1>11 DEF CallSend, UserCode, Goto
<1>12. ASSUME NEW t \in Threads, SendLock(t) PROVE Armed
  BY <1>12 DEF SendLock, Goto
<1>13. ASSUME NEW t \in Threads, NEW async \in BOOLEAN, Send(t, async)
      PROVE  Armed
  BY <1>13 DEF Send, SendGivesUp, Full, DoSend, KeepsLock,
       CallClose, Goto
<1>14. ASSUME NEW t \in Threads, SendWaitEnds(t) PROVE Armed
  BY <1>14 DEF SendWaitEnds, Goto
<1>15. ASSUME NEW t \in Threads, SendDone(t) PROVE Armed
  BY <1>15 DEF SendDone, SetMode, SendReturn, CallClose, Goto
<1>16. ASSUME NEW t \in Threads, SendEnd(t) PROVE Armed
  BY <1>16 DEF SendEnd, SendReturn, Goto
<1>17. ASSUME NEW t \in Threads, UserCloses(t) PROVE Armed
  BY <1>17 DEF UserCloses, UserCode, CallClose
<1>18. ASSUME NEW t \in Threads, CloseSocket(t) PROVE Armed
  BY <1>18 DEF CloseSocket, CloseReturn, Release, Goto
<1>19. ASSUME NEW t \in Threads, DisconnectTest(t) PROVE Armed
  BY <1>19 DEF DisconnectTest, CloseReturn, Release, Goto
<1>20. ASSUME NEW t \in Threads, DisconnectSet(t) PROVE Armed
  BY <1>20 DEF DisconnectSet, Goto
<1>21. ASSUME NEW t \in Threads, OnDisconnect(t) PROVE Armed
  BY <1>21 DEF OnDisconnect, Goto
<1>22. ASSUME NEW t \in Threads, Unregister(t) PROVE Armed
  BY <1>22 DEF Unregister, CloseReturn, Release, Goto
<1>23. ASSUME NEW t \in Threads, ReleaseSocket(t) PROVE Armed
  BY <1>23 DEF ReleaseSocket, UserCode
<1>24. ASSUME NEW t \in Threads, NullDereference(t) PROVE Armed
  BY <1>24 DEF NullDereference
<1>25. ASSUME PeerSends PROVE Armed
  BY <1>25 DEF PeerSends
<1>26. ASSUME NEW how \in {"eof", "broken"}, PeerEnds(how) PROVE Armed
  BY <1>26 DEF PeerEnds
<1>27. ASSUME NEW t \in Threads, SendSleeps(t) PROVE Armed
  BY <1>27 DEF SendSleeps
<1>28. ASSUME NEW t \in Threads, MovedWaitEnds(t) PROVE Armed
  BY <1>28 DEF MovedWaitEnds, Goto
<1>29. ASSUME NEW t \in Threads, DisconnectQuery(t) PROVE Armed
  BY <1>29 DEF DisconnectQuery, Goto
<1>30. ASSUME NEW t \in Threads, DisconnectSend(t) PROVE Armed
  BY <1>30 DEF DisconnectSend, Goto
<1>31. ASSUME NEW t \in Threads, DisconnectSent(t) PROVE Armed
  BY <1>31 DEF DisconnectSent, Goto
<1> QED
  BY <1>1, <1>2, <1>3, <1>4, <1>5, <1>6, <1>7, <1>8, <1>9, <1>10, <1>11,
       <1>12, <1>13, <1>14, <1>15, <1>16, <1>17, <1>18, <1>19, <1>20, <1>21,
       <1>22, <1>23, <1>24, <1>25, <1>26, <1>27, <1>28, <1>29, <1>30, <1>31 DEF Next, LockStep,
       OwnStep, EventStep

\* Without senders, one event at a time is handled: an armed entry finds every
\* worker idle, and the worker that gets the event disarms it.
LEMMA OneReaderStep ==
    ASSUME TypeOK, PlaceInv, ReceiveOnly, OneReader, ArmedIdle, Next
    PROVE  OneReader' /\ ArmedIdle'
<1>1. ASSUME NEW t \in Workers, NEW type \in {"Read", "Write", "ReadWrite", "Error"},
             Event(t, type)
      PROVE  OneReader' /\ ArmedIdle'
  <2>1. \A w \in Workers : pc[w] = "idle"
    BY <1>1 DEF Event, ArmedIdle
  <2>2. \A w \in Threads : w # t => pc'[w] = pc[w]
    BY <1>1 DEF Event, CallClose, Goto, TypeOK
  <2>3. entry' = "off"
    BY <1>1 DEF Event, DisarmedBy
  <2> QED
    BY <2>1, <2>2, <2>3 DEF OneReader, ArmedIdle, Threads
<1>2. ASSUME \A t \in Workers : \A type \in {"Read", "Write", "ReadWrite", "Error"} :
                 ~ Event(t, type)
      PROVE  OneReader' /\ ArmedIdle'
  <2>1. \A w \in Workers : pc[w] = "idle" => pc'[w] = "idle"
    BY <1>2, IdleStays
  <2>2. OneReader'
    BY <2>1 DEF OneReader
  <2>3. ASSUME NEW t \in Threads, ReRegister(t) PROVE \A w \in Workers : pc'[w] = "idle"
    <3>1. t \in Workers /\ pc[t] = "rereg" /\ pc'[t] = "idle"
      BY <2>3, InWorker DEF ReRegister, Goto, WorkerLabels, TypeOK
    <3> QED
      BY <2>1, <3>1 DEF OneReader
  <2> QED
    BY <2>1, <2>2, <2>3, ArmStep DEF ArmedIdle
<1> QED
  BY <1>1, <1>2

\* Every other step leaves what was received alone.
LEMMA OtherSteps ==
    ASSUME TypeOK, Next, \A t \in Threads : ~ Receive(t) /\ ~ OnNetworkMessage(t)
    PROVE  /\ UNCHANGED << delivered, popped, job >>
           /\ \A w \in Workers : pc'[w] = "r_msg" <=> pc[w] = "r_msg"
<1> USE DEF TypeOK, Threads, inVars
<1> DEFINE Alone == /\ UNCHANGED << delivered, popped, job >>
                    /\ \A w \in Workers : pc'[w] = "r_msg" <=> pc[w] = "r_msg"
<1>1. ASSUME NEW t \in Workers, NEW type \in {"Read", "Write", "ReadWrite", "Error"},
             Event(t, type)
      PROVE  Alone
  BY <1>1 DEF Event, DisarmedBy, CallClose, Goto
<1>2. ASSUME NEW t \in Threads, ReadLock(t) PROVE Alone
  BY <1>2 DEF ReadLock, Goto
<1>3. ASSUME NEW t \in Threads, Receive(t) PROVE FALSE
  BY <1>3 DEF Receive, ReportsClosed, Goto
<1>4. ASSUME NEW t \in Threads, OnNetworkMessage(t) PROVE FALSE
  BY <1>4 DEF OnNetworkMessage, Goto
<1>5. ASSUME NEW t \in Workers, CallbackReturn(t) PROVE Alone
  BY <1>5 DEF CallbackReturn, Goto
<1>6. ASSUME NEW t \in Threads, ReadEnd(t) PROVE Alone
  BY <1>6 DEF ReadEnd, Goto
<1>7. ASSUME NEW t \in Threads, WriteLock(t) PROVE Alone
  BY <1>7 DEF WriteLock, Goto
<1>8. ASSUME NEW t \in Threads, OnWriteReady(t) PROVE Alone
  BY <1>8 DEF OnWriteReady, DoSend, KeepsLock, CallClose, Goto
<1>9. ASSUME NEW t \in Threads, WriteDone(t) PROVE Alone
  BY <1>9 DEF WriteDone, SetMode, Release, Goto
<1>10. ASSUME NEW t \in Threads, ReRegister(t) PROVE Alone
  BY <1>10 DEF ReRegister, Rearmed, Goto
<1>11. ASSUME NEW t \in Threads, CallSend(t) PROVE Alone
  BY <1>11 DEF CallSend, UserCode, Goto
<1>12. ASSUME NEW t \in Threads, SendLock(t) PROVE Alone
  BY <1>12 DEF SendLock, Goto
<1>13. ASSUME NEW t \in Threads, NEW async \in BOOLEAN, Send(t, async)
      PROVE  Alone
  BY <1>13 DEF Send, SendGivesUp, Full, DoSend, KeepsLock,
       CallClose, Goto
<1>14. ASSUME NEW t \in Threads, SendWaitEnds(t) PROVE Alone
  BY <1>14 DEF SendWaitEnds, Goto
<1>15. ASSUME NEW t \in Threads, SendDone(t) PROVE Alone
  BY <1>15 DEF SendDone, SetMode, SendReturn, CallClose, Goto
<1>16. ASSUME NEW t \in Threads, SendEnd(t) PROVE Alone
  BY <1>16 DEF SendEnd, SendReturn, Goto
<1>17. ASSUME NEW t \in Threads, UserCloses(t) PROVE Alone
  BY <1>17 DEF UserCloses, UserCode, CallClose
<1>18. ASSUME NEW t \in Threads, CloseSocket(t) PROVE Alone
  BY <1>18 DEF CloseSocket, CloseReturn, Release, Goto
<1>19. ASSUME NEW t \in Threads, DisconnectTest(t) PROVE Alone
  BY <1>19 DEF DisconnectTest, CloseReturn, Release, Goto
<1>20. ASSUME NEW t \in Threads, DisconnectSet(t) PROVE Alone
  BY <1>20 DEF DisconnectSet, Goto
<1>21. ASSUME NEW t \in Threads, OnDisconnect(t) PROVE Alone
  BY <1>21 DEF OnDisconnect, Goto
<1>22. ASSUME NEW t \in Threads, Unregister(t) PROVE Alone
  BY <1>22 DEF Unregister, CloseReturn, Release, Goto
<1>23. ASSUME NEW t \in Threads, ReleaseSocket(t) PROVE Alone
  BY <1>23 DEF ReleaseSocket, UserCode
<1>24. ASSUME NEW t \in Threads, NullDereference(t) PROVE Alone
  BY <1>24 DEF NullDereference
<1>25. ASSUME PeerSends PROVE Alone
  BY <1>25 DEF PeerSends
<1>26. ASSUME NEW how \in {"eof", "broken"}, PeerEnds(how) PROVE Alone
  BY <1>26 DEF PeerEnds
<1>27. ASSUME NEW t \in Threads, SendSleeps(t) PROVE Alone
  BY <1>27 DEF SendSleeps
<1>28. ASSUME NEW t \in Threads, MovedWaitEnds(t) PROVE Alone
  BY <1>28 DEF MovedWaitEnds, Goto
<1>29. ASSUME NEW t \in Threads, DisconnectQuery(t) PROVE Alone
  BY <1>29 DEF DisconnectQuery, Goto
<1>30. ASSUME NEW t \in Threads, DisconnectSend(t) PROVE Alone
  BY <1>30 DEF DisconnectSend, Goto
<1>31. ASSUME NEW t \in Threads, DisconnectSent(t) PROVE Alone
  BY <1>31 DEF DisconnectSent, Goto
<1> HIDE DEF Alone
<1>32. Alone
  BY <1>1, <1>2, <1>3, <1>4, <1>5, <1>6, <1>7, <1>8, <1>9, <1>10, <1>11,
       <1>12, <1>13, <1>14, <1>15, <1>16, <1>17, <1>18, <1>19, <1>20, <1>21,
       <1>22, <1>23, <1>24, <1>25, <1>26, <1>27, <1>28, <1>29, <1>30, <1>31 DEF Next, LockStep,
       OwnStep, EventStep
<1> QED
  BY <1>32 DEF Alone
\* A sole worker passes on one message after the other.
LEMMA DeliverStep ==
    ASSUME TypeOK, PlaceInv, OneReader, DeliverInv, Next
    PROVE  DeliverInv'
<1>1. ASSUME NEW t \in Threads, Receive(t) PROVE DeliverInv'
  <2>1. t \in Workers /\ pc[t] = "r_recv" /\ delivered' = delivered
    BY <1>1, InWorker DEF Receive, WorkerLabels
  <2>2. \A w \in Workers : pc[w] # "r_msg"
    BY <2>1 DEF OneReader
  <2>3. Len(delivered) = popped
    BY <2>2 DEF DeliverInv
  <2>4. CASE popped' = popped + 1 /\ job' = [job EXCEPT ![t] = popped + 1] /\ Goto(t, "r_msg")
    <3>1. job'[t] = popped' /\ pc'[t] = "r_msg" /\ popped \in Nat
      BY <2>1, <2>4 DEF TypeOK, Goto
    <3>2. \A w \in Workers : pc'[w] = "r_msg" => w = t
      BY <2>2, <2>4 DEF TypeOK, Goto
    <3>3. Len(delivered) = popped' - 1
      BY <2>3, <2>4, <3>1
    <3> QED
      BY <2>1, <3>1, <3>2, <3>3 DEF DeliverInv
  <2>5. CASE UNCHANGED << popped, job >> /\ \E label \in {"ci_test", "r_end"} : Goto(t, label)
    <3>1. \A w \in Workers : pc'[w] # "r_msg"
      BY <2>2, <2>5 DEF TypeOK, Goto, Threads
    <3> QED
      BY <2>1, <2>3, <2>5, <3>1 DEF DeliverInv
  <2> QED
    BY <1>1, <2>4, <2>5 DEF Receive, ReportsClosed, Goto
<1>2. ASSUME NEW t \in Threads, OnNetworkMessage(t) PROVE DeliverInv'
  <2>1. t \in Workers /\ pc[t] = "r_msg" /\ popped' = popped /\ pc' = [pc EXCEPT ![t] = "callback"]
    BY <1>2, InWorker DEF OnNetworkMessage, Goto, WorkerLabels
  <2>2. \A w \in Workers : pc'[w] # "r_msg"
    BY <2>1 DEF OneReader, TypeOK, Threads
  <2>3. job[t] = popped /\ Len(delivered) = popped - 1
    BY <2>1 DEF DeliverInv
  <2>4. popped \in 1 .. MaxMessages /\ delivered \in Seq(1 .. MaxMessages) /\ popped \in Nat
    BY <2>1, <2>3 DEF TypeOK, PlaceInv
  <2>5. delivered' = Append(delivered, popped)
    BY <1>2, <2>3 DEF OnNetworkMessage
  <2>6. Len(delivered') = popped /\ delivered'[popped] = popped
        /\ \A i \in 1 .. Len(delivered) : delivered'[i] = delivered[i]
    BY <2>3, <2>4, <2>5, AppendProperties
  <2> QED
    BY <2>1, <2>2, <2>3, <2>4, <2>6 DEF DeliverInv
<1>3. ASSUME \A t \in Threads : ~ Receive(t) /\ ~ OnNetworkMessage(t) PROVE DeliverInv'
  BY <1>3, OtherSteps DEF DeliverInv
<1> QED
  BY <1>1, <1>2, <1>3

\* Whoever finds the socket closed is on the way to report it, or comes behind
\* someone who is.
LEMMA ReportStep ==
    ASSUME Senders = {}, TypeOK, ReceiveOnly, ReportInv, Next
    PROVE  ReportInv'
<1> USE DEF TypeOK, ReceiveOnly, ReportInv, Reported, Reporting, InternalLabels,
        CloseLabels, is_valid, inVars, outVars, endVars, lockVars
<1>1. ASSUME NEW t \in Workers, NEW type \in {"Read", "Write", "ReadWrite", "Error"},
             Event(t, type)
      PROVE  ReportInv'
  BY <1>1 DEF Event, DisarmedBy, CallClose, Goto
<1>2. ASSUME NEW t \in Threads, ReadLock(t) PROVE ReportInv'
  BY <1>2 DEF ReadLock, Goto
<1>3. ASSUME NEW t \in Threads, Receive(t) PROVE ReportInv'
  BY <1>3 DEF Receive, ReportsClosed, Goto
<1>4. ASSUME NEW t \in Threads, OnNetworkMessage(t) PROVE ReportInv'
  BY <1>4 DEF OnNetworkMessage, Goto
<1>5. ASSUME NEW t \in Workers, CallbackReturn(t) PROVE ReportInv'
  BY <1>5 DEF CallbackReturn, Goto
<1>6. ASSUME NEW t \in Threads, ReadEnd(t) PROVE ReportInv'
  BY <1>6 DEF ReadEnd, Goto
<1>7. ASSUME NEW t \in Threads, WriteLock(t) PROVE ReportInv'
  BY <1>7 DEF WriteLock, Goto
<1>8. ASSUME NEW t \in Threads, OnWriteReady(t) PROVE ReportInv'
  BY <1>8 DEF OnWriteReady, DoSend, KeepsLock, CallClose, Goto
<1>9. ASSUME NEW t \in Threads, WriteDone(t) PROVE ReportInv'
  BY <1>9 DEF WriteDone, SetMode, Release, Goto
<1>10. ASSUME NEW t \in Threads, ReRegister(t) PROVE ReportInv'
  BY <1>10 DEF ReRegister, Rearmed, Goto
<1>11. ASSUME NEW t \in Threads, CallSend(t) PROVE ReportInv'
  BY <1>11 DEF CallSend
<1>12. ASSUME NEW t \in Threads, SendLock(t) PROVE ReportInv'
  BY <1>12 DEF SendLock, Goto
<1>13. ASSUME NEW t \in Threads, NEW async \in BOOLEAN, Send(t, async)
      PROVE  ReportInv'
  BY <1>13 DEF Send, SendGivesUp, Full, DoSend, KeepsLock,
       CallClose, Goto
<1>14. ASSUME NEW t \in Threads, SendWaitEnds(t) PROVE ReportInv'
  BY <1>14 DEF SendWaitEnds, Goto
<1>15. ASSUME NEW t \in Threads, SendDone(t) PROVE ReportInv'
  BY <1>15 DEF SendDone, SetMode, SendReturn, CallClose, Goto
<1>16. ASSUME NEW t \in Threads, SendEnd(t) PROVE ReportInv'
  BY <1>16 DEF SendEnd, SendReturn, Goto
<1>17. ASSUME NEW t \in Threads, UserCloses(t) PROVE ReportInv'
  BY <1>17 DEF UserCloses, UserCode, CallClose
<1>18. ASSUME NEW t \in Threads, CloseSocket(t) PROVE ReportInv'
  BY <1>18, ZenonT(40) DEF CloseSocket, CloseReturn, Release, Goto
<1>19. ASSUME NEW t \in Threads, DisconnectTest(t) PROVE ReportInv'
  BY <1>19, ZenonT(60) DEF DisconnectTest, CloseReturn, Release, Goto
<1>20. ASSUME NEW t \in Threads, DisconnectSet(t) PROVE ReportInv'
  BY <1>20 DEF DisconnectSet, Goto
<1>21. ASSUME NEW t \in Threads, OnDisconnect(t) PROVE ReportInv'
  BY <1>21 DEF OnDisconnect, Goto
<1>22. ASSUME NEW t \in Threads, Unregister(t) PROVE ReportInv'
  BY <1>22 DEF Unregister, CloseReturn, Release, Goto
<1>23. ASSUME NEW t \in Threads, ReleaseSocket(t) PROVE ReportInv'
  BY <1>23 DEF ReleaseSocket, UserCode
<1>24. ASSUME NEW t \in Threads, NullDereference(t) PROVE ReportInv'
  BY <1>24 DEF NullDereference
<1>25. ASSUME PeerSends PROVE ReportInv'
  BY <1>25 DEF PeerSends
<1>26. ASSUME NEW how \in {"eof", "broken"}, PeerEnds(how) PROVE ReportInv'
  BY <1>26 DEF PeerEnds
<1>27. ASSUME NEW t \in Threads, SendSleeps(t) PROVE ReportInv'
  BY <1>27 DEF SendSleeps
<1>28. ASSUME NEW t \in Threads, MovedWaitEnds(t) PROVE ReportInv'
  BY <1>28 DEF MovedWaitEnds, Goto
<1>29. ASSUME NEW t \in Threads, DisconnectQuery(t) PROVE ReportInv'
  BY <1>29 DEF DisconnectQuery, Goto
<1>30. ASSUME NEW t \in Threads, DisconnectSend(t) PROVE ReportInv'
  BY <1>30 DEF DisconnectSend, Goto
<1>31. ASSUME NEW t \in Threads, DisconnectSent(t) PROVE ReportInv'
  BY <1>31 DEF DisconnectSent, Goto
<1> HIDE DEF ReportInv
<1> QED
  BY <1>1, <1>2, <1>3, <1>4, <1>5, <1>6, <1>7, <1>8, <1>9, <1>10, <1>11,
       <1>12, <1>13, <1>14, <1>15, <1>16, <1>17, <1>18, <1>19, <1>20, <1>21,
       <1>22, <1>23, <1>24, <1>25, <1>26, <1>27, <1>28, <1>29, <1>30, <1>31 DEF Next, LockStep,
       OwnStep, EventStep

----------------------------------------------------------------------------
(* The theorems.                                                            *)

\* The listener starts registered, armed for input, with nothing in hand.
LEMMA InitInv == ASSUME Init PROVE ListenerInv /\ StaysMonitored
<1> USE ThreadsAssumption, BoundsAssumption DEF Init
<1>1. TypeOK
  <2>1. delivered \in Seq(1 .. MaxMessages) /\ job \in [Workers -> 0 .. MaxMessages]
    OBVIOUS
  <2>2. more \in [Threads -> BOOLEAN]
    OBVIOUS
  <2>3. pc \in [Threads -> {"idle"}] /\ cret \in [Threads -> {"idle"}]
    OBVIOUS
  <2>4. event \in [Workers -> {"none"}]
    OBVIOUS
  <2>5. arrived \in 0 .. MaxMessages /\ pulled \in 0 .. arrived /\ popped \in 0 .. pulled
        /\ queued \in 0 .. MaxQueue
    OBVIOUS
  <2> HIDE DEF Init
  <2>6. /\ sock = "up" /\ peer = "open" /\ current = 0 /\ disconnects = 0
        /\ m_mode = "ReadOnly" /\ entry = "ReadOnly" /\ in_map = TRUE
        /\ m_has_disconnected = FALSE /\ crashed = FALSE
        /\ m_mutex = NoThread /\ m_send_mutex = NoThread
        /\ asleep = {} /\ dropped = FALSE
    BY DEF Init
  <2>7. pc \in [Threads -> {"idle", "r_lock", "r_recv", "r_msg", "callback", "r_end",
                            "w_lock", "w_send", "w_valid", "rereg", "s_lock", "s_send",
                            "s_wait", "s_valid", "s_end", "c_lock", "ci_test", "ci_set",
                            "ci_call", "d_query", "d_send", "d_sent", "ci_unreg"}]
    BY <2>3
  <2>8. cret \in [Threads -> {"idle", "rereg", "callback", "r_end", "w_valid",
                              "s_valid", "s_end"}]
    BY <2>3
  <2>9. event \in [Workers -> {"none", "Read", "Write", "ReadWrite", "Error"}]
    BY <2>4
  <2> QED
    BY <2>1, <2>2, <2>5, <2>6, <2>7, <2>8, <2>9 DEF TypeOK
<1>2. PlaceInv /\ ClosedInv /\ SendMutexInv /\ EntryInv /\ WatchInv /\ StaysMonitored
  BY DEF PlaceInv, WorkerLabels, InternalLabels, CloseLabels, ClosedInv, SendMutexInv, EntryInv,
         WatchInv, StaysMonitored, Threads
<1> QED
  BY <1>1, <1>2 DEF ListenerInv

\* The invariant is inductive.
LEMMA InvStep ==
    ASSUME ListenerInv, [Next]_vars
    PROVE  ListenerInv'
<1>1. CASE Next
  BY <1>1, TypeOKStep, PlaceStep, ClosedStep, SendMutexStep, EntryStep, WatchStep DEF ListenerInv
<1>2. CASE UNCHANGED vars
  <2>1. TypeOK' /\ EntryInv'
    BY <1>2 DEF ListenerInv, TypeOK, EntryInv, is_valid, vars
  <2>2. PlaceInv' /\ ClosedInv' /\ SendMutexInv'
    BY <1>2 DEF ListenerInv, PlaceInv, ClosedInv, SendMutexInv, is_valid, vars
  <2>3. WatchInv'
    BY <1>2 DEF ListenerInv, WatchInv, Deciding, vars
  <2> QED
    BY <2>1, <2>2, <2>3 DEF ListenerInv
<1> QED
  BY <1>1, <1>2

\* The invariant holds in every state.
LEMMA AlwaysInv == Spec => []ListenerInv
  BY InitInv, InvStep, PTL DEF Spec

\* Every variable keeps its type: no more messages wait than the queue has
\* room for, and none is received that was not sent.
THEOREM TypeCorrect == Spec => []TypeOK
<1>1. ListenerInv => TypeOK
  BY DEF ListenerInv
<1> QED
  BY <1>1, AlwaysInv, PTL

\* For every number of workers and senders: whenever m_send_mutex is free,
\* unsent data of a connection that was not shut down has the mode ReadWrite and
\* no entry that waits for input only (send(), on_write_ready()).
THEOREM UnsentDataIsWatched == Spec => []UnsentIsWatched
<1>1. ASSUME ListenerInv PROVE UnsentIsWatched
  <2> SUFFICES ASSUME m_send_mutex = NoThread, sock = "up", queued + current > 0
               PROVE  m_mode = "ReadWrite" /\ entry # "ReadOnly"
    BY DEF UnsentIsWatched
  <2>1. \A t \in Threads : ~ Deciding(t)
    BY <1>1, ThreadsAssumption DEF ListenerInv, SendMutexInv, Deciding, CloseLabels
  <2>2. m_mode = "ReadWrite"
    BY <1>1, <2>1 DEF ListenerInv, WatchInv
  <2> QED
    BY <1>1, <2>2 DEF ListenerInv, EntryInv
<1> QED
  BY <1>1, AlwaysInv, PTL

\* For every number of threads: a registered, open listener that epoll would
\* not report is in the hands of a worker, which re-registers it
\* (EPOLLONESHOT and re_register()).
THEOREM ListenerStaysMonitored == Spec => []StaysMonitored
<1>1. ASSUME ListenerInv, StaysMonitored, [Next]_vars PROVE StaysMonitored'
  <2>1. CASE Next
    BY <1>1, <2>1, MonitoredStep DEF ListenerInv
  <2>2. CASE UNCHANGED vars
    BY <1>1, <2>2 DEF StaysMonitored, is_valid, vars
  <2> QED
    BY <1>1, <2>1, <2>2
<1>2. Init => StaysMonitored
  BY InitInv
<1> QED
  BY <1>1, <1>2, AlwaysInv, PTL DEF Spec

\* What holds where nobody calls send().
ReadInv == ReceiveOnly /\ OneReader /\ ArmedIdle

\* Where nobody calls send(), at most one worker handles events.
LEMMA AlwaysOneReader ==
    ASSUME Senders = {}
    PROVE  Spec => []ReadInv
<1>1. Init => ReadInv
  BY DEF Init, ReadInv, ReceiveOnly, OneReader, ArmedIdle, Threads
<1>2. ASSUME ListenerInv, ReadInv, [Next]_vars PROVE ReadInv'
  <2>1. CASE Next
    BY <1>2, <2>1, ReceiveOnlyStep, OneReaderStep DEF ListenerInv, ReadInv
  <2>2. CASE UNCHANGED vars
    BY <1>2, <2>2 DEF ReadInv, ReceiveOnly, OneReader, ArmedIdle, vars
  <2> QED
    BY <1>2, <2>1, <2>2
<1> QED
  BY <1>1, <1>2, AlwaysInv, PTL DEF Spec

\* As long as one worker at a time handles events, messages are passed on in
\* the order of the peer.
LEMMA OrderFromOneReader ==
    Spec /\ []OneReader => []InOrder
<1>1. Init => DeliverInv
  BY DEF Init, DeliverInv, Threads
<1>2. ASSUME ListenerInv, OneReader, DeliverInv, [Next]_vars PROVE DeliverInv'
  <2>1. CASE Next
    BY <1>2, <2>1, DeliverStep DEF ListenerInv
  <2>2. CASE UNCHANGED vars
    BY <1>2, <2>2 DEF DeliverInv, vars
  <2> QED
    BY <1>2, <2>1, <2>2
<1>3. DeliverInv => InOrder
  BY DEF DeliverInv, InOrder
<1> QED
  BY <1>1, <1>2, <1>3, AlwaysInv, PTL DEF Spec

\* A listener that only receives passes messages on in the order of the peer,
\* with any number of workers, closing and releasing threads
\* (on_read_ready() calls on_network_message() without the lock).
THEOREM OrderWithoutSenders ==
    ASSUME Senders = {}
    PROVE  Spec => []InOrder
<1>1. ReadInv => OneReader
  BY DEF ReadInv
<1> QED
  BY <1>1, AlwaysOneReader, OrderFromOneReader, PTL

\* With one worker messages are passed on in order, whoever sends meanwhile.
THEOREM OrderWithOneWorker ==
    ASSUME \A v, w \in Workers : v = w
    PROVE  Spec => []InOrder
<1>1. OneReader
  BY DEF OneReader
<1> QED
  BY <1>1, OrderFromOneReader, PTL

\* A listener that only receives and whose socket is closed has called
\* on_disconnect() and left the event loop once every thread is done with it,
\* whichever of them closed it (close_socket_internal()).
THEOREM ClosingIsReported ==
    ASSUME Senders = {}
    PROVE  Spec => []ClosedIsReported
<1>1. Init => ReportInv
  BY DEF Init, ReportInv
<1>2. ASSUME ListenerInv, ReadInv, ReportInv, [Next]_vars PROVE ReportInv'
  <2>1. CASE Next
    BY <1>2, <2>1, ReportStep DEF ListenerInv, ReadInv
  <2>2. CASE UNCHANGED vars
    BY <1>2, <2>2 DEF ReportInv, Reported, vars
  <2> QED
    BY <1>2, <2>1, <2>2
<1>3. ReportInv => ClosedIsReported
  BY DEF ReportInv, Reported, Reporting, InternalLabels, CloseLabels, ClosedIsReported
<1> QED
  BY <1>1, <1>2, <1>3, AlwaysInv, AlwaysOneReader, PTL DEF Spec
=============================================================================
