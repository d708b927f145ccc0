--------------------------- MODULE TcpSocketProofs ---------------------------
(***************************************************************************)
(* Proofs about TcpSocket, for any number of threads, message lengths and  *)
(* bounds.  CloseInv is about close(); SendInv is about the queue, the     *)
(* current message and the wire, and is inductive without knowing who      *)
(* holds m_send_mutex.  From SendInv follows that the sending half         *)
(* implements ByteStream.                                                  *)
(***************************************************************************)
EXTENDS TcpSocket, TLAPS, SequenceTheorems

\* Queued messages and messages being written.
Queued == [id : Nat, length : Lengths]
Message == [id : Nat, length : Lengths, sent_pos : Nat]

----------------------------------------------------------------------------
(* The inductive invariant.                                                 *)

\* The current message counts as taken from the queue.
Current == IF m_current_message = NoMessage THEN 0 ELSE 1

\* The number of the last message that was written completely.
Finished == Len(accepted) - Len(m_send_queue) - Current

\* behind[i] is the sum of the lengths behind the i-th message of q, and size
\* the sum of all lengths (see IsSizeOf).  That the sums fall towards the back
\* is what keeps the size natural when the head of the queue is taken.
Sums(behind, q, size) ==
    /\ behind[0] = size
    /\ behind[Len(q)] = 0
    /\ \A i \in 1 .. Len(q) : behind[i - 1] = behind[i] + q[i].length
    /\ \A i, j \in 0 .. Len(q) : i <= j => behind[j] <= behind[i]

\* m_send_queue_size is the sum of the queued lengths.
SizeInv ==
    \E behind \in [0 .. Len(m_send_queue) -> 0 .. m_send_queue_size] :
        Sums(behind, m_send_queue, m_send_queue_size)

\* The queue holds the last accepted messages, the current message is the one
\* before them, and it is not finished.
QueueInv ==
    LET taken == Len(accepted) - Len(m_send_queue)
    IN /\ Finished >= 0
       /\ \A i \in 1 .. Len(m_send_queue) :
             m_send_queue[i] = [id |-> taken + i, length |-> accepted[taken + i]]
       /\ m_current_message # NoMessage =>
             /\ m_current_message.id = taken
             /\ m_current_message.length = accepted[taken]
             /\ m_current_message.sent_pos < m_current_message.length

\* The last byte on the wire is the one before the next to be written, unless
\* bytes went into a foreign file, after which nothing is written any more.
WireInv ==
    LET begun == m_current_message # NoMessage /\ m_current_message.sent_pos > 0
    IN /\ foreign => number # "ours"
       /\ ~ foreign =>
             \/ wire = << >> /\ Finished = 0 /\ ~ begun
             \/ /\ wire # << >>
                /\ IF begun
                   THEN wire[Len(wire)] =
                           << m_current_message.id, m_current_message.sent_pos >>
                   ELSE Finished > 0 /\ wire[Len(wire)] = << Finished, accepted[Finished] >>

\* What the sending half keeps.
SendInv == TypeOK /\ SizeInv /\ QueueInv /\ WireInv /\ Stream!InOrder(wire)

\* Only do_send() holds m_send_mutex, from its first to its last step, and it
\* has a message from the choice of one to the end of the write.
MutexInv ==
    \A t \in Threads :
        /\ pc[t] \in {"pick", "valid", "load", "write"} => m_send_mutex = t
        /\ pc[t] \in {"valid", "load", "write"} => m_current_message # NoMessage
        /\ m_send_mutex = t =>
              pc[t] \in {"pick", "valid", "load", "write",
                         "c_fd", "c_close", "c_reset", "c_notify"}

\* A socket whose descriptor is dropped, or is being closed, is not Connected
\* any more; only close() without "fast" calls shutdown().
CloseInv ==
    /\ m_fd = "none" => m_state # "Connected"
    /\ \A t \in Threads :
          /\ pc[t] \in {"c_close", "c_reset"} => m_state # "Connected"
          /\ pc[t] \in {"c_state", "c_shut"} => t \in GentleClosers

----------------------------------------------------------------------------
(* The steps that matter to the stream.                                     *)

\* A step that leaves the queue, the current message and the wire alone, and
\* after which the descriptor is no more ours than before.
Quiet ==
    /\ UNCHANGED << queueVars, m_current_message, wire >>
    /\ number' = "ours" => number = "ours"
    /\ foreign => foreign'
    /\ foreign' => foreign \/ number' # "ours"

\* Only four operations change the queue, the current message or the wire.
LEMMA StreamSteps ==
    ASSUME Next
    PROVE  \/ \E t \in Threads, length \in Lengths, async \in BOOLEAN :
                 Enqueue(t, length, async)
           \/ \E t \in Threads : PickNext(t)
           \/ \E t \in Threads, n \in Nat : m_current_message # NoMessage /\ WriteSome(t, n)
           \/ \E t \in Threads : WriteForeign(t)
           \/ Quiet
<1> USE DEF Quiet, fdVars, queueVars, sendVars
<1>1. ASSUME NEW t \in Threads, Send(t) PROVE Quiet
  BY <1>1 DEF Send, Goto
<1>2. ASSUME NEW t \in Threads, OnWriteReady(t) PROVE Quiet
  BY <1>2 DEF OnWriteReady, Goto
<1>3. ASSUME NEW t \in Threads, CloseFast(t) PROVE Quiet
  BY <1>3 DEF CloseFast, Goto
<1>4. ASSUME NEW t \in Threads, CloseGentle(t) PROVE Quiet
  BY <1>4 DEF CloseGentle, Goto
<1>5. ASSUME NEW t \in Threads, WaitSendQueueEmpty(t) PROVE Quiet
  BY <1>5 DEF WaitSendQueueEmpty, Goto
<1>6. ASSUME NEW t \in Threads, DoSend(t) PROVE Quiet
  BY <1>6 DEF DoSend, Goto
<1>7. ASSUME NEW t \in Threads, PickUnfinished(t) PROVE Quiet
  BY <1>7 DEF PickUnfinished, Goto
<1>8. ASSUME NEW t \in Threads, PickNothing(t) PROVE Quiet
  BY <1>8 DEF PickNothing, DoSendReturn, Goto
<1>9. ASSUME NEW t \in Threads, CheckValid(t) PROVE Quiet
  BY <1>9 DEF CheckValid, DoSendReturn, Goto
<1>10. ASSUME NEW t \in Threads, LoadFd(t) PROVE Quiet
  BY <1>10 DEF LoadFd, Goto
<1>11. ASSUME NEW t \in Threads, WriteAgain(t) PROVE Quiet
  BY <1>11 DEF WriteAgain, DoSendReturn, Goto
<1>12. ASSUME NEW t \in Threads, WriteFails(t) PROVE Quiet
  BY <1>12 DEF WriteFails, Goto
<1>13. ASSUME NEW t \in Threads, SetShutdown(t) PROVE Quiet
  BY <1>13 DEF SetShutdown, Goto
<1>14. ASSUME NEW t \in Threads, Shutdown(t) PROVE Quiet
  BY <1>14 DEF Shutdown, Goto
<1>15. ASSUME NEW t \in Threads, ShutdownNotConnected(t) PROVE Quiet
  BY <1>15 DEF ShutdownNotConnected, Goto
<1>16. ASSUME NEW t \in Threads, ShutdownFails(t) PROVE Quiet
  BY <1>16 DEF ShutdownFails, Goto
<1>17. ASSUME NEW t \in Threads, CloseCheck(t) PROVE Quiet
  BY <1>17 DEF CloseCheck, ClosedState, Goto
<1>18. ASSUME NEW t \in Threads, CloseFd(t) PROVE Quiet
  BY <1>18 DEF CloseFd, Goto
<1>19. ASSUME NEW t \in Threads, CloseReset(t) PROVE Quiet
  BY <1>19 DEF CloseReset, Goto
<1>20. ASSUME NEW t \in Threads, CloseNotify(t) PROVE Quiet
  BY <1>20 DEF CloseNotify, ClosedNotify, NotifyAll
<1>21. ASSUME NEW t \in Threads, NEW blocking \in BOOLEAN, EnqueueFull(t, blocking) PROVE Quiet
  BY <1>21 DEF EnqueueFull, Goto
<1>22. ASSUME PeerResets PROVE Quiet
  BY <1>22 DEF PeerResets
<1>23. ASSUME NumberReused PROVE Quiet
  BY <1>23 DEF NumberReused
<1>24. ASSUME NEW t \in Threads, Write(t)
      PROVE  \E n \in Nat : m_current_message # NoMessage /\ WriteSome(t, n)
  BY <1>24 DEF Write
<1> QED
  BY <1>1, <1>2, <1>3, <1>4, <1>5, <1>6, <1>7, <1>8, <1>9, <1>10, <1>11,
       <1>12, <1>13, <1>14, <1>15, <1>16, <1>17, <1>18, <1>19, <1>20, <1>21,
       <1>22, <1>23, <1>24 DEF Next, ThreadStep

----------------------------------------------------------------------------
(* Lemmas about sizes and messages.                                         *)

\* A message has at least one byte, its header.
LEMMA PositiveLengths == \A length \in Lengths : length \in Nat /\ length > 0
  BY LengthsAssumption

\* A queue has a natural number of messages, each with a natural length.
LEMMA QueuedLengths ==
    ASSUME NEW q \in Seq(Queued)
    PROVE  Len(q) \in Nat /\ \A i \in 1 .. Len(q) : q[i] \in Queued /\ q[i].length \in Nat
<1>1. Len(q) \in Nat /\ \A i \in 1 .. Len(q) : q[i] \in Queued
  BY LenProperties, ElementOfSeq
<1>2. \A m \in Queued : m.length \in Nat
  BY LengthsAssumption DEF Queued
<1> QED
  BY <1>1, <1>2

\* The empty queue has size 0.
LEMMA SumsEmpty ==
    \E behind \in [0 .. Len(<< >>) -> 0 .. 0] : Sums(behind, << >>, 0)
<1> DEFINE behind == [i \in 0 .. 0 |-> 0]
<1>1. Len(<< >>) = 0
  BY EmptySeq
<1>2. behind \in [0 .. Len(<< >>) -> 0 .. 0] /\ behind[0] = 0
  BY <1>1
<1>3. Sums(behind, << >>, 0)
  BY <1>1, <1>2 DEF Sums
<1> QED
  BY <1>2, <1>3

\* send() adds the length of what it appends.
LEMMA SumsAppend ==
    ASSUME NEW q \in Seq(Queued), NEW m \in Queued, NEW size \in Nat,
           NEW behind \in [0 .. Len(q) -> 0 .. size], Sums(behind, q, size)
    PROVE  \E b \in [0 .. Len(Append(q, m)) -> 0 .. size + m.length] :
              Sums(b, Append(q, m), size + m.length)
<1> DEFINE b == [i \in 0 .. Len(q) + 1 |-> IF i <= Len(q) THEN behind[i] + m.length ELSE 0]
<1>1. m.length \in Nat /\ Len(q) \in Nat
  BY LengthsAssumption, QueuedLengths DEF Queued
<1>2. /\ Len(Append(q, m)) = Len(q) + 1
      /\ \A i \in 1 .. Len(q) : Append(q, m)[i] = q[i]
      /\ Append(q, m)[Len(q) + 1] = m
  BY AppendProperties
<1>3. b \in [0 .. Len(q) + 1 -> 0 .. size + m.length]
  BY <1>1
<1>4. ASSUME NEW i \in 1 .. Len(q) + 1
      PROVE  b[i - 1] = b[i] + Append(q, m)[i].length
  <2>1. CASE i <= Len(q)
    <3>1. i \in 1 .. Len(q) /\ i - 1 \in 0 .. Len(q)
      BY <1>1, <2>1
    <3>2. behind[i - 1] = behind[i] + q[i].length
      BY <3>1 DEF Sums
    <3> QED
      BY <1>1, <1>2, <2>1, <3>1, <3>2, QueuedLengths
  <2>2. CASE i = Len(q) + 1
    BY <1>1, <1>2, <2>2 DEF Sums
  <2> QED
    BY <1>1, <2>1, <2>2
<1>5. ASSUME NEW i \in 0 .. Len(q) + 1, NEW j \in 0 .. Len(q) + 1, i <= j
      PROVE  b[j] <= b[i]
  <2>1. CASE j <= Len(q)
    BY <1>1, <1>5, <2>1 DEF Sums
  <2>2. CASE j = Len(q) + 1
    BY <1>1, <1>3, <2>2
  <2> QED
    BY <1>1, <2>1, <2>2
<1>6. b[0] = size + m.length /\ b[Len(q) + 1] = 0
  BY <1>1 DEF Sums
<1>7. Sums(b, Append(q, m), size + m.length)
  BY <1>2, <1>4, <1>5, <1>6 DEF Sums
<1> QED
  BY <1>2, <1>3, <1>7

\* do_send() takes off the length of the message it takes, and what is left is
\* natural and the size of the rest.
LEMMA SumsTail ==
    ASSUME NEW q \in Seq(Queued), q # << >>, NEW size \in Nat,
           NEW behind \in [0 .. Len(q) -> 0 .. size], Sums(behind, q, size)
    PROVE  /\ size - Head(q).length \in Nat
           /\ \E b \in [0 .. Len(Tail(q)) -> 0 .. size - Head(q).length] :
                 Sums(b, Tail(q), size - Head(q).length)
<1> DEFINE b == [i \in 0 .. Len(q) - 1 |-> behind[i + 1]]
<1>1. Len(q) \in Nat /\ Len(q) >= 1 /\ Head(q) = q[1] /\ q[1].length \in Nat
  BY EmptySeq, QueuedLengths
<1>2. /\ Len(Tail(q)) = Len(q) - 1
      /\ \A i \in 1 .. Len(q) - 1 : Tail(q)[i] = q[i + 1]
  BY HeadTailProperties
<1>3. \A i \in 0 .. Len(q) : behind[i] \in Nat
  OBVIOUS
<1>4. size = behind[1] + q[1].length
  <2>1. behind[1 - 1] = behind[1] + q[1].length
    BY <1>1 DEF Sums
  <2> QED
    BY <2>1 DEF Sums
<1>5. size - Head(q).length = behind[1] /\ behind[1] \in Nat
  BY <1>1, <1>3, <1>4
<1>6. b \in [0 .. Len(q) - 1 -> 0 .. behind[1]]
  <2>1. ASSUME NEW i \in 0 .. Len(q) - 1 PROVE behind[i + 1] \in 0 .. behind[1]
    BY <1>1, <1>3 DEF Sums
  <2> QED
    BY <2>1
<1>7. ASSUME NEW i \in 1 .. Len(q) - 1 PROVE b[i - 1] = b[i] + Tail(q)[i].length
  <2>1. behind[(i + 1) - 1] = behind[i + 1] + q[i + 1].length
    BY <1>1 DEF Sums
  <2> QED
    BY <1>1, <1>2, <2>1
<1>8. ASSUME NEW i \in 0 .. Len(q) - 1, NEW j \in 0 .. Len(q) - 1, i <= j
      PROVE  b[j] <= b[i]
  BY <1>1, <1>8 DEF Sums
<1>9. b[0] = behind[1] /\ b[Len(q) - 1] = 0
  BY <1>1 DEF Sums
<1>10. Sums(b, Tail(q), behind[1])
  BY <1>2, <1>7, <1>8, <1>9 DEF Sums
<1> QED
  BY <1>2, <1>5, <1>6, <1>10

\* A write that does not finish the message leaves a message.
LEMMA AdvancedMessage ==
    ASSUME NEW m \in Message, NEW n \in Nat
    PROVE  /\ Advanced(m, n) \in Message
           /\ Advanced(m, n).id = m.id
           /\ Advanced(m, n).length = m.length
           /\ Advanced(m, n).sent_pos = m.sent_pos + n
  BY DEF Advanced, Message

\* The bytes of one write: n positions of one message, one after the other.
LEMMA WrittenBytes ==
    ASSUME NEW w \in Seq(Nat \X Nat), NEW m \in Message, NEW n \in Nat, n > 0, NEW v,
           v = w \o [i \in 1 .. n |-> << m.id, m.sent_pos + i >>]
    PROVE  /\ v \in Seq(Nat \X Nat)
           /\ Len(v) = Len(w) + n
           /\ \A i \in 1 .. Len(w) : v[i] = w[i]
           /\ \A i \in 1 .. n : v[Len(w) + i] = << m.id, m.sent_pos + i >>
<1> DEFINE new == [i \in 1 .. n |-> << m.id, m.sent_pos + i >>]
<1>1. new \in Seq(Nat \X Nat) /\ Len(new) = n
  BY DEF Message
<1>2. Len(w) \in Nat /\ v = w \o new
  OBVIOUS
<1>3. \A i \in 1 .. n : new[i] = << m.id, m.sent_pos + i >>
  OBVIOUS
<1> HIDE DEF new
<1>4. /\ v \in Seq(Nat \X Nat)
      /\ Len(v) = Len(w) + n
      /\ \A i \in 1 .. Len(w) + n : v[i] = IF i <= Len(w) THEN w[i] ELSE new[i - Len(w)]
  <2>1. /\ w \o new \in Seq(Nat \X Nat)
        /\ Len(w \o new) = Len(w) + Len(new)
        /\ \A i \in 1 .. Len(w) + Len(new) :
              (w \o new)[i] = IF i <= Len(w) THEN w[i] ELSE new[i - Len(w)]
    BY <1>1, ConcatProperties
  <2> QED
    BY <1>1, <1>2, <2>1
<1>5. ASSUME NEW i \in 1 .. n PROVE v[Len(w) + i] = new[i]
  <2>1. /\ Len(w) + i \in 1 .. Len(w) + n /\ ~ (Len(w) + i <= Len(w))
        /\ (Len(w) + i) - Len(w) = i
    BY <1>2
  <2> QED
    BY <1>4, <2>1
<1> QED
  BY <1>2, <1>3, <1>4, <1>5

----------------------------------------------------------------------------
(* The sending half.                                                        *)

\* The initial state satisfies the invariants.
LEMMA InitSend == Init => SendInv /\ MutexInv /\ CloseInv
<1> SUFFICES ASSUME Init PROVE SendInv /\ MutexInv /\ CloseInv
  OBVIOUS
<1>1. TypeOK
  BY EmptySeq DEF Init, TypeOK
<1>2. MutexInv /\ CloseInv
  BY ThreadsAssumption DEF Init, MutexInv, CloseInv
<1>3. SizeInv
  BY SumsEmpty DEF Init, SizeInv
<1>4. QueueInv /\ WireInv
  BY DEF Init, QueueInv, WireInv, Finished, Current
<1>5. Stream!InOrder(wire)
  BY DEF Init, Stream!InOrder
<1> QED
  BY <1>1, <1>2, <1>3, <1>4, <1>5 DEF SendInv

\* write() appends the next n bytes of the current message to the wire.
LEMMA WriteSomeBytes ==
    ASSUME TypeOK, NEW t \in Threads, NEW n \in Nat,
           m_current_message # NoMessage, WriteSome(t, n)
    PROVE  /\ wire' \in Seq(Nat \X Nat)
           /\ Len(wire') = Len(wire) + n
           /\ \A i \in 1 .. Len(wire) : wire'[i] = wire[i]
           /\ \A i \in 1 .. n : wire'[Len(wire) + i] =
                 << m_current_message.id, m_current_message.sent_pos + i >>
<1> DEFINE m == m_current_message
<1>1. m \in Message /\ wire \in Seq(Nat \X Nat)
  BY DEF TypeOK, Message
<1>2. wire' = wire \o [i \in 1 .. n |-> << m.id, m.sent_pos + i >>]
  BY DEF WriteSome
<1>3. n > 0
  BY DEF WriteSome
<1> HIDE DEF m
<1>4. wire' \in Seq(Nat \X Nat)
  BY <1>1, <1>2, <1>3, WrittenBytes
<1>5. Len(wire') = Len(wire) + n /\ \A i \in 1 .. Len(wire) : wire'[i] = wire[i]
  BY <1>1, <1>2, <1>3, WrittenBytes
<1>6. \A i \in 1 .. n : wire'[Len(wire) + i] = << m.id, m.sent_pos + i >>
  BY <1>1, <1>2, <1>3, WrittenBytes
<1> QED
  BY <1>4, <1>5, <1>6 DEF m

\* Every step keeps every variable in its type.
LEMMA TypeOKStep ==
    ASSUME TypeOK, SizeInv, Next
    PROVE  TypeOK'
<1> USE DEF TypeOK, fdVars, queueVars, sendVars
<1>1. ASSUME NEW t \in Threads, Send(t) PROVE TypeOK'
  BY <1>1 DEF Send, Goto
<1>2. ASSUME NEW t \in Threads, OnWriteReady(t) PROVE TypeOK'
  BY <1>2 DEF OnWriteReady, Goto
<1>3. ASSUME NEW t \in Threads, CloseFast(t) PROVE TypeOK'
  BY <1>3 DEF CloseFast, Goto
<1>4. ASSUME NEW t \in Threads, CloseGentle(t) PROVE TypeOK'
  BY <1>4 DEF CloseGentle, Goto
<1>5. ASSUME NEW t \in Threads, WaitSendQueueEmpty(t) PROVE TypeOK'
  BY <1>5 DEF WaitSendQueueEmpty, Goto
<1>6. ASSUME NEW t \in Threads, DoSend(t) PROVE TypeOK'
  BY <1>6 DEF DoSend, Goto
<1>7. ASSUME NEW t \in Threads, PickUnfinished(t) PROVE TypeOK'
  BY <1>7 DEF PickUnfinished, Goto
<1>8. ASSUME NEW t \in Threads, PickNothing(t) PROVE TypeOK'
  BY <1>8 DEF PickNothing, DoSendReturn, Goto
<1>9. ASSUME NEW t \in Threads, CheckValid(t) PROVE TypeOK'
  BY <1>9 DEF CheckValid, DoSendReturn, Goto, is_valid
<1>10. ASSUME NEW t \in Threads, LoadFd(t) PROVE TypeOK'
  BY <1>10 DEF LoadFd, Goto, is_valid
<1>11. ASSUME NEW t \in Threads, WriteAgain(t) PROVE TypeOK'
  BY <1>11 DEF WriteAgain, DoSendReturn, Goto
<1>12. ASSUME NEW t \in Threads, WriteFails(t) PROVE TypeOK'
  BY <1>12 DEF WriteFails, Goto
<1>13. ASSUME NEW t \in Threads, WriteForeign(t) PROVE TypeOK'
  BY <1>13 DEF WriteForeign, Goto
<1>14. ASSUME NEW t \in Threads, SetShutdown(t) PROVE TypeOK'
  BY <1>14 DEF SetShutdown, Goto
<1>15. ASSUME NEW t \in Threads, Shutdown(t) PROVE TypeOK'
  BY <1>15 DEF Shutdown, Goto
<1>16. ASSUME NEW t \in Threads, ShutdownNotConnected(t) PROVE TypeOK'
  BY <1>16 DEF ShutdownNotConnected, Goto
<1>17. ASSUME NEW t \in Threads, ShutdownFails(t) PROVE TypeOK'
  BY <1>17 DEF ShutdownFails, Goto, is_valid
<1>18. ASSUME NEW t \in Threads, CloseCheck(t) PROVE TypeOK'
  BY <1>18 DEF CloseCheck, ClosedState, Goto, is_valid
<1>19. ASSUME NEW t \in Threads, CloseFd(t) PROVE TypeOK'
  BY <1>19 DEF CloseFd, Goto, is_valid
<1>20. ASSUME NEW t \in Threads, CloseReset(t) PROVE TypeOK'
  BY <1>20 DEF CloseReset, Goto
<1>21. ASSUME NEW t \in Threads, CloseNotify(t) PROVE TypeOK'
  BY <1>21 DEF CloseNotify, ClosedNotify, NotifyAll
<1>22. ASSUME NEW t \in Threads, NEW blocking \in BOOLEAN, EnqueueFull(t, blocking)
      PROVE  TypeOK'
  BY <1>22 DEF EnqueueFull, Goto
<1>23. ASSUME NEW t \in Threads, NEW length \in Lengths, NEW async \in BOOLEAN,
             Enqueue(t, length, async)
      PROVE  TypeOK'
  <2>1. [id |-> Len(accepted) + 1, length |-> length] \in [id : Nat, length : Lengths]
    OBVIOUS
  <2>2. /\ accepted' \in Seq(Lengths)
        /\ m_send_queue' \in Seq([id : Nat, length : Lengths])
        /\ m_send_queue_size' \in Nat
    BY <1>23, <2>1, LengthsAssumption DEF Enqueue
  <2> QED
    BY <1>23, <2>2 DEF Enqueue, Goto
<1>24. ASSUME NEW t \in Threads, PickNext(t) PROVE TypeOK'
  <2>1. /\ Head(m_send_queue) \in [id : Nat, length : Lengths]
        /\ m_send_queue' \in Seq([id : Nat, length : Lengths])
    BY <1>24, HeadTailProperties DEF PickNext
  <2>2. m_send_queue_size' \in Nat
    BY <1>24, SumsTail DEF PickNext, SizeInv, SizeWithout, Queued
  <2>3. m_current_message' \in [id : Nat, length : Lengths, sent_pos : Nat]
    BY <1>24, <2>1 DEF PickNext
  <2> QED
    BY <1>24, <2>1, <2>2, <2>3 DEF PickNext, NotifyAll
<1>25. ASSUME NEW t \in Threads, NEW n \in Nat, m_current_message # NoMessage, WriteSome(t, n)
      PROVE  TypeOK'
  <2>1. m_current_message \in Message
    BY <1>25 DEF Message
  <2>2. /\ m_current_message' \in [id : Nat, length : Lengths, sent_pos : Nat] \cup {NoMessage}
        /\ n \in Nat \ {0}
    BY <1>25, <2>1, AdvancedMessage DEF WriteSome, Message
  <2>3. wire' \in Seq(Nat \X Nat)
    BY <1>25, WriteSomeBytes
  <2> QED
    BY <1>25, <2>2, <2>3 DEF WriteSome, Goto
<1>26. ASSUME PeerResets PROVE TypeOK'
  BY <1>26 DEF PeerResets
<1>27. ASSUME NumberReused PROVE TypeOK'
  BY <1>27 DEF NumberReused
<1> HIDE DEF TypeOK
<1>28. ASSUME NEW t \in Threads, Write(t) PROVE TypeOK'
  BY <1>25, <1>28 DEF Write
<1> QED
  BY <1>1, <1>2, <1>3, <1>4, <1>5, <1>6, <1>7, <1>8, <1>9, <1>10, <1>11,
       <1>12, <1>13, <1>14, <1>15, <1>16, <1>17, <1>18, <1>19, <1>20, <1>21,
       <1>22, <1>23, <1>24, <1>25, <1>26, <1>27, <1>28 DEF Next, ThreadStep

\* Every step keeps m_send_queue_size the sum of the queued lengths.
LEMMA SizeStep ==
    ASSUME TypeOK, SizeInv, Next
    PROVE  SizeInv'
<1>1. m_send_queue \in Seq(Queued) /\ m_send_queue_size \in Nat /\ accepted \in Seq(Lengths)
  BY DEF TypeOK, Queued
<1>2. PICK behind \in [0 .. Len(m_send_queue) -> 0 .. m_send_queue_size] :
         Sums(behind, m_send_queue, m_send_queue_size)
  BY DEF SizeInv
<1>3. ASSUME NEW t \in Threads, NEW length \in Lengths, NEW async \in BOOLEAN,
             Enqueue(t, length, async)
      PROVE  SizeInv'
  <2> DEFINE m == [id |-> Len(accepted) + 1, length |-> length]
  <2>1. m \in Queued /\ m.length = length
    BY <1>1 DEF Queued
  <2>2. m_send_queue' = Append(m_send_queue, m) /\ m_send_queue_size' = m_send_queue_size + m.length
    BY <1>3, <2>1 DEF Enqueue
  <2> HIDE DEF m
  <2> QED
    BY <1>1, <1>2, <2>1, <2>2, SumsAppend DEF SizeInv
<1>4. ASSUME NEW t \in Threads, PickNext(t) PROVE SizeInv'
  BY <1>1, <1>2, <1>4, SumsTail DEF PickNext, SizeWithout, SizeInv
<1>5. ASSUME UNCHANGED << m_send_queue, m_send_queue_size >> PROVE SizeInv'
  BY <1>5 DEF SizeInv
<1> QED
  BY <1>3, <1>4, <1>5, StreamSteps DEF Quiet, WriteSome, WriteForeign, queueVars

\* Messages leave the queue from its head, and the current message is kept
\* until its last byte is written.
LEMMA QueueStep ==
    ASSUME TypeOK, QueueInv, Next
    PROVE  QueueInv'
<1> DEFINE taken == Len(accepted) - Len(m_send_queue)
<1>1. /\ m_send_queue \in Seq(Queued) /\ accepted \in Seq(Lengths)
      /\ m_current_message \in Message \cup {NoMessage} /\ NoMessage \notin Message
      /\ Len(m_send_queue) \in Nat /\ Len(accepted) \in Nat
  BY MessageAssumption DEF TypeOK, Queued, Message
<1>2. ASSUME NEW t \in Threads, NEW length \in Lengths, NEW async \in BOOLEAN,
             Enqueue(t, length, async)
      PROVE  QueueInv'
  <2> DEFINE m == [id |-> Len(accepted) + 1, length |-> length]
  <2>1. m \in Queued
    BY <1>1 DEF Queued
  <2>2. /\ Len(m_send_queue') = Len(m_send_queue) + 1
        /\ \A i \in 1 .. Len(m_send_queue) : m_send_queue'[i] = m_send_queue[i]
        /\ m_send_queue'[Len(m_send_queue) + 1] = m
    BY <1>1, <1>2, <2>1, AppendProperties DEF Enqueue
  <2>3. /\ Len(accepted') = Len(accepted) + 1
        /\ \A i \in 1 .. Len(accepted) : accepted'[i] = accepted[i]
        /\ accepted'[Len(accepted) + 1] = length
    BY <1>1, <1>2, AppendProperties DEF Enqueue
  <2>4. m_current_message' = m_current_message
    BY <1>2 DEF Enqueue, sendVars
  <2>5. ASSUME NEW i \in 1 .. Len(m_send_queue) + 1
        PROVE  m_send_queue'[i] = [id |-> taken + i, length |-> accepted'[taken + i]]
    <3>1. CASE i \in 1 .. Len(m_send_queue)
      <4>1. taken + i \in 1 .. Len(accepted)
        BY <1>1, <3>1 DEF QueueInv, Finished, Current
      <4> QED
        BY <1>1, <2>2, <2>3, <3>1, <4>1 DEF QueueInv
    <3>2. CASE i = Len(m_send_queue) + 1
      BY <1>1, <2>2, <2>3, <3>2
    <3> QED
      BY <1>1, <3>1, <3>2
  <2>6. m_current_message # NoMessage => taken \in 1 .. Len(accepted)
    BY <1>1 DEF QueueInv, Finished, Current
  <2>7. Len(accepted') - Len(m_send_queue') = taken
    BY <1>1, <2>2, <2>3
  <2>8. ASSUME m_current_message # NoMessage
        PROVE  /\ m_current_message.id = taken
               /\ m_current_message.length = accepted'[taken]
               /\ m_current_message.sent_pos < m_current_message.length
    BY <1>1, <2>3, <2>6, <2>8 DEF QueueInv
  <2>9. Finished >= 0 /\ Finished' = Finished
    BY <1>1, <2>4, <2>7 DEF QueueInv, Finished, Current
  <2> HIDE DEF taken
  <2> QED
    BY <2>2, <2>4, <2>5, <2>7, <2>8, <2>9 DEF QueueInv
<1>3. ASSUME NEW t \in Threads, PickNext(t) PROVE QueueInv'
  <2>1. /\ m_send_queue # << >> /\ m_current_message = NoMessage
        /\ accepted' = accepted /\ m_send_queue' = Tail(m_send_queue)
    BY <1>3 DEF PickNext
  <2>2. Len(m_send_queue) >= 1 /\ Head(m_send_queue) = m_send_queue[1]
    BY <1>1, <2>1, EmptySeq
  <2>3. /\ Len(m_send_queue') = Len(m_send_queue) - 1
        /\ \A i \in 1 .. Len(m_send_queue) - 1 : m_send_queue'[i] = m_send_queue[i + 1]
    BY <1>1, <2>1, HeadTailProperties
  <2>4. m_send_queue[1] = [id |-> taken + 1, length |-> accepted[taken + 1]]
    BY <1>1, <2>2 DEF QueueInv
  <2>5. m_current_message' = [id |-> taken + 1, length |-> accepted[taken + 1], sent_pos |-> 0]
    BY <1>3, <2>2, <2>4 DEF PickNext
  <2>6. m_current_message' # NoMessage /\ accepted[taken + 1] > 0
    <3>1. taken + 1 \in 1 .. Len(accepted)
      BY <1>1, <2>1, <2>2 DEF QueueInv, Finished, Current
    <3>2. accepted[taken + 1] \in Lengths
      BY <1>1, <3>1
    <3>3. m_current_message' \in Message
      BY <1>1, <2>5, <3>1, <3>2 DEF Message
    <3> QED
      BY <1>1, <3>2, <3>3, PositiveLengths
  <2>7. ASSUME NEW i \in 1 .. Len(m_send_queue) - 1
        PROVE  m_send_queue'[i] =
                  [id |-> (taken + 1) + i, length |-> accepted[(taken + 1) + i]]
    <3>1. i + 1 \in 1 .. Len(m_send_queue) /\ taken + (i + 1) = (taken + 1) + i
      BY <1>1
    <3> QED
      BY <1>1, <2>3, <3>1 DEF QueueInv
  <2> QED
    BY <1>1, <2>1, <2>2, <2>3, <2>5, <2>6, <2>7 DEF QueueInv, Finished, Current
<1>4. ASSUME NEW t \in Threads, NEW n \in Nat, m_current_message # NoMessage, WriteSome(t, n)
      PROVE  QueueInv'
  <2>1. m_current_message \in Message
    BY <1>1, <1>4
  <2>2. /\ m_send_queue' = m_send_queue /\ accepted' = accepted
        /\ n \in 1 .. m_current_message.length - m_current_message.sent_pos
        /\ m_current_message' = IF m_current_message.sent_pos + n = m_current_message.length
                                THEN NoMessage ELSE Advanced(m_current_message, n)
    BY <1>4 DEF WriteSome, queueVars
  <2>3. CASE m_current_message' = NoMessage
    BY <1>1, <1>4, <2>2, <2>3 DEF QueueInv, Finished, Current
  <2>4. CASE m_current_message' # NoMessage
    <3>1. /\ m_current_message'.id = m_current_message.id
          /\ m_current_message'.length = m_current_message.length
          /\ m_current_message'.sent_pos = m_current_message.sent_pos + n
          /\ m_current_message.sent_pos + n # m_current_message.length
      BY <2>1, <2>2, <2>4, AdvancedMessage
    <3>2. m_current_message.sent_pos \in Nat /\ m_current_message.length \in Nat
      BY <2>1, PositiveLengths DEF Message
    <3>3. m_current_message.sent_pos + n < m_current_message.length
      BY <2>2, <3>1, <3>2
    <3> QED
      BY <1>1, <1>4, <2>2, <2>4, <3>1, <3>3 DEF QueueInv, Finished, Current
  <2> QED
    BY <2>3, <2>4
<1>5. ASSUME NEW t \in Threads, WriteForeign(t) PROVE QueueInv'
  BY <1>1, <1>5 DEF WriteForeign, queueVars, QueueInv, Finished, Current
<1>6. ASSUME Quiet PROVE QueueInv'
  BY <1>6 DEF Quiet, queueVars, QueueInv, Finished, Current
<1> QED
  BY <1>2, <1>3, <1>4, <1>5, <1>6, StreamSteps

\* A write goes on where the bytes on the wire end.
LEMMA WireStep ==
    ASSUME TypeOK, QueueInv, WireInv, Next
    PROVE  WireInv'
<1> DEFINE taken == Len(accepted) - Len(m_send_queue)
<1>1. /\ m_send_queue \in Seq(Queued) /\ accepted \in Seq(Lengths) /\ wire \in Seq(Nat \X Nat)
      /\ m_current_message \in Message \cup {NoMessage} /\ NoMessage \notin Message
      /\ Len(m_send_queue) \in Nat /\ Len(accepted) \in Nat /\ Len(wire) \in Nat
  BY MessageAssumption DEF TypeOK, Queued, Message
<1>2. Finished \in 0 .. Len(accepted)
  BY <1>1 DEF QueueInv, Finished, Current
<1>3. ASSUME NEW t \in Threads, NEW length \in Lengths, NEW async \in BOOLEAN,
             Enqueue(t, length, async)
      PROVE  WireInv'
  <2>1. UNCHANGED << m_current_message, wire, foreign, number >>
    BY <1>3 DEF Enqueue, sendVars, fdVars
  <2>2. /\ Len(m_send_queue') = Len(m_send_queue) + 1
        /\ Len(accepted') = Len(accepted) + 1
        /\ \A i \in 1 .. Len(accepted) : accepted'[i] = accepted[i]
    BY <1>1, <1>3, AppendProperties DEF Enqueue
  <2>3. Finished' = Finished
    BY <1>1, <2>1, <2>2 DEF Finished, Current
  <2>4. Finished > 0 => accepted'[Finished] = accepted[Finished]
    BY <1>2, <2>2
  <2> QED
    BY <2>1, <2>3, <2>4 DEF WireInv
<1>4. ASSUME NEW t \in Threads, PickNext(t) PROVE WireInv'
  <2>1. /\ UNCHANGED << accepted, wire, foreign, number >>
        /\ m_current_message = NoMessage
        /\ m_current_message'.sent_pos = 0
        /\ m_current_message' \in Message
    <3>1. Head(m_send_queue) \in Queued
      BY <1>1, <1>4, HeadTailProperties DEF PickNext
    <3> QED
      BY <1>4, <3>1 DEF PickNext, fdVars, Message, Queued
  <2>2. Len(m_send_queue') = Len(m_send_queue) - 1
    BY <1>1, <1>4, HeadTailProperties DEF PickNext
  <2>3. Finished' = Finished
    BY <1>1, <2>1, <2>2 DEF Finished, Current
  <2> QED
    BY <2>1, <2>3 DEF WireInv
<1>5. ASSUME NEW t \in Threads, NEW n \in Nat, m_current_message # NoMessage, WriteSome(t, n)
      PROVE  WireInv'
  <2> DEFINE pos == m_current_message.sent_pos + n
  <2>1. m_current_message \in Message /\ n \in Nat \ {0}
    BY <1>1, <1>5 DEF WriteSome
  <2>2. /\ UNCHANGED << m_send_queue, accepted, foreign, number >>
        /\ number = "ours"
        /\ m_current_message' = IF pos = m_current_message.length
                                THEN NoMessage ELSE Advanced(m_current_message, n)
    BY <1>5 DEF WriteSome, queueVars, fdVars
  <2>3. ~ foreign'
    BY <2>2 DEF WireInv
  <2>4. wire' # << >> /\ wire'[Len(wire')] = << m_current_message.id, pos >>
    <3>1. /\ wire' \in Seq(Nat \X Nat)
          /\ Len(wire') = Len(wire) + n
          /\ wire'[Len(wire) + n] = << m_current_message.id, pos >>
      <4>1. n \in 1 .. n
        BY <2>1
      <4> QED
        BY <1>5, <4>1, WriteSomeBytes
    <3> QED
      BY <1>1, <2>1, <3>1, EmptySeq
  <2>5. CASE pos = m_current_message.length
    <3>1. m_current_message.id = taken /\ pos = accepted[taken] /\ taken > 0
      BY <1>1, <1>5, <2>5 DEF QueueInv, Finished, Current
    <3>2. m_current_message' = NoMessage /\ Finished' = taken
      BY <1>1, <2>2, <2>5 DEF Finished, Current
    <3> QED
      BY <2>2, <2>3, <2>4, <3>1, <3>2 DEF WireInv
  <2>6. CASE pos # m_current_message.length
    <3>1. /\ m_current_message' \in Message
          /\ m_current_message'.id = m_current_message.id
          /\ m_current_message'.sent_pos = pos
      BY <2>1, <2>2, <2>6, AdvancedMessage
    <3>2. pos > 0
      BY <2>1 DEF Message
    <3> QED
      BY <1>1, <2>2, <2>3, <2>4, <3>1, <3>2 DEF WireInv
  <2> QED
    BY <2>5, <2>6
<1>6. ASSUME NEW t \in Threads, WriteForeign(t) PROVE WireInv'
  BY <1>6 DEF WriteForeign, WireInv
<1>7. ASSUME Quiet PROVE WireInv'
  BY <1>7 DEF Quiet, queueVars, WireInv, Finished, Current
<1> QED
  BY <1>3, <1>4, <1>5, <1>6, <1>7, StreamSteps

\* The byte that a write begins with is the first one or follows the last byte
\* on the wire, so that the bytes remain in order.
LEMMA InOrderWrite ==
    ASSUME TypeOK, QueueInv, WireInv, Stream!InOrder(wire), NEW t \in Threads, NEW n \in Nat,
           m_current_message # NoMessage, WriteSome(t, n)
    PROVE  Stream!InOrder(wire') /\ Stream!Transfer
<1> DEFINE m == m_current_message
<1>1. m \in Message /\ wire \in Seq(Nat \X Nat) /\ accepted \in Seq(Lengths)
  BY DEF TypeOK, Message
<1>2. n > 0 /\ m.id \in Nat /\ m.length \in Nat /\ m.sent_pos \in Nat /\ m.sent_pos + n <= m.length
  BY <1>1, PositiveLengths DEF WriteSome, Message
<1>3. Len(wire) \in Nat /\ Len(accepted) \in Nat /\ Len(m_send_queue) \in Nat
  BY DEF TypeOK
<1>4. wire' \in Seq(Nat \X Nat)
  BY WriteSomeBytes
<1>5. /\ Len(wire') = Len(wire) + n
      /\ \A i \in 1 .. Len(wire) : wire'[i] = wire[i]
  BY WriteSomeBytes
<1>6. \A i \in 1 .. n : wire'[Len(wire) + i] = << m.id, m.sent_pos + i >>
  BY WriteSomeBytes
<1>7. number = "ours" /\ accepted' = accepted
  BY DEF WriteSome, queueVars
<1>8. m.id \in 1 .. Len(accepted) /\ m.length = accepted[m.id] /\ Finished = m.id - 1
  BY <1>3 DEF QueueInv, Finished, Current
<1>9. wire = << >> => m.id = 1 /\ m.sent_pos = 0
  BY <1>2, <1>7, <1>8 DEF WireInv
<1>10. ASSUME wire # << >>
       PROVE  Stream!ByteAfter(wire[Len(wire)]) = << m.id, m.sent_pos + 1 >>
  <2>1. CASE m.sent_pos > 0
    <3>1. wire[Len(wire)] = << m.id, m.sent_pos >>
      BY <1>7, <1>10, <2>1 DEF WireInv
    <3>2. m.sent_pos < accepted[m.id]
      BY <1>2, <1>8
    <3> QED
      BY <3>1, <3>2 DEF Stream!ByteAfter
  <2>2. CASE m.sent_pos = 0
    <3>1. wire[Len(wire)] = << m.id - 1, accepted[m.id - 1] >> /\ m.id - 1 > 0
      BY <1>7, <1>8, <1>10, <2>2 DEF WireInv
    <3>2. accepted[m.id - 1] \in Nat
      BY <1>1, <1>3, <1>8, <3>1, PositiveLengths
    <3>3. Stream!ByteAfter(<< m.id - 1, accepted[m.id - 1] >>) = << (m.id - 1) + 1, 1 >>
      BY <3>2 DEF Stream!ByteAfter
    <3> QED
      BY <1>2, <2>2, <3>1, <3>3
  <2> QED
    BY <1>2, <2>1, <2>2
<1> HIDE DEF m
<1>11. ASSUME NEW i \in 1 .. Len(wire')
       PROVE  /\ wire'[i][1] \in 1 .. Len(accepted)
              /\ wire'[i] = IF i = 1 THEN Stream!FirstByte ELSE Stream!ByteAfter(wire'[i - 1])
  <2>1. CASE i \in 1 .. Len(wire)
    <3>1. i # 1 => i - 1 \in 1 .. Len(wire)
      BY <1>3, <2>1
    <3>2. wire'[i] = wire[i] /\ (i # 1 => wire'[i - 1] = wire[i - 1])
      BY <1>5, <2>1, <3>1
    <3> QED
      BY <2>1, <3>2 DEF Stream!InOrder
  <2>2. CASE i = Len(wire) + 1
    <3>1. wire'[i] = << m.id, m.sent_pos + 1 >>
      BY <1>2, <1>6, <2>2
    <3>2. CASE wire = << >>
      <4>1. i = 1
        BY <2>2, <3>2, EmptySeq
      <4> QED
        BY <1>8, <1>9, <3>1, <3>2, <4>1 DEF Stream!FirstByte
    <3>3. CASE wire # << >>
      <4>1. i # 1 /\ Len(wire) \in 1 .. Len(wire) /\ i - 1 = Len(wire)
        BY <1>1, <1>3, <2>2, <3>3, EmptySeq
      <4>2. wire'[i - 1] = wire[Len(wire)]
        BY <1>5, <4>1
      <4>3. wire'[i][1] = m.id
        BY <3>1
      <4> QED
        BY <1>8, <1>10, <3>1, <3>3, <4>1, <4>2, <4>3
    <3> QED
      BY <3>2, <3>3
  <2>3. CASE i > Len(wire) + 1
    <3> DEFINE k == i - Len(wire)
    <3>1. /\ k \in 1 .. n /\ k - 1 \in 1 .. n
          /\ Len(wire) + k = i /\ Len(wire) + (k - 1) = i - 1 /\ i # 1
      BY <1>3, <1>5, <2>3
    <3>2. wire'[i] = << m.id, m.sent_pos + k >> /\ wire'[i - 1] = << m.id, m.sent_pos + (k - 1) >>
      BY <1>6, <3>1
    <3> HIDE DEF k
    <3>3. m.sent_pos + (k - 1) < m.length /\ (m.sent_pos + (k - 1)) + 1 = m.sent_pos + k
      BY <1>2, <3>1
    <3> QED
      BY <1>8, <3>1, <3>2, <3>3 DEF Stream!ByteAfter
  <2> QED
    BY <1>3, <1>5, <2>1, <2>2, <2>3
<1>12. Stream!InOrder(wire')
  BY <1>11 DEF Stream!InOrder
<1>13. SubSeq(wire', 1, Len(wire)) = wire
  <2>1. \A i \in 1 .. Len(wire) : wire'[i] \in Nat \X Nat
    BY <1>1, <1>5, ElementOfSeq
  <2>2. /\ SubSeq(wire', 1, Len(wire)) \in Seq(Nat \X Nat)
        /\ Len(SubSeq(wire', 1, Len(wire))) = Len(wire)
        /\ \A i \in 1 .. Len(wire) : SubSeq(wire', 1, Len(wire))[i] = wire'[i]
    <3>1. /\ SubSeq(wire', 1, Len(wire)) \in Seq(Nat \X Nat)
          /\ Len(SubSeq(wire', 1, Len(wire))) = IF 1 <= Len(wire) THEN Len(wire) - 1 + 1 ELSE 0
          /\ \A i \in 1 .. Len(wire) - 1 + 1 : SubSeq(wire', 1, Len(wire))[i] = wire'[1 + i - 1]
      BY <1>3, <2>1, SubSeqProperties
    <3> QED
      BY <1>3, <3>1
  <2> QED
    BY <1>1, <1>5, <2>2, SeqEqual
<1> QED
  BY <1>2, <1>3, <1>5, <1>7, <1>12, <1>13 DEF Stream!Transfer

\* Every step keeps what the sending half keeps.
LEMMA SendStep == SendInv /\ [Next]_vars => SendInv'
<1> SUFFICES ASSUME SendInv, [Next]_vars PROVE SendInv'
  OBVIOUS
<1> USE DEF SendInv
<1>1. CASE UNCHANGED vars
  <2>1. TypeOK' /\ SizeInv'
    BY <1>1 DEF vars, TypeOK, SizeInv
  <2>2. QueueInv' /\ WireInv'
    BY <1>1 DEF vars, QueueInv, WireInv, Finished, Current
  <2>3. Stream!InOrder(wire)'
    BY <1>1 DEF vars, Stream!InOrder, Stream!ByteAfter, Stream!FirstByte
  <2> QED
    BY <2>1, <2>2, <2>3
<1>2. CASE Next
  <2>1. TypeOK' /\ SizeInv' /\ QueueInv' /\ WireInv'
    BY <1>2, TypeOKStep, SizeStep, QueueStep, WireStep
  <2>2. ASSUME NEW t \in Threads, NEW length \in Lengths, NEW async \in BOOLEAN,
               Enqueue(t, length, async)
        PROVE  Stream!InOrder(wire)'
    <3>1. wire' = wire /\ accepted \in Seq(Lengths) /\ wire \in Seq(Nat \X Nat)
      BY <2>2 DEF Enqueue, sendVars, TypeOK
    <3>2. /\ Len(accepted) \in Nat /\ Len(accepted') = Len(accepted) + 1
          /\ \A i \in 1 .. Len(accepted) : accepted'[i] = accepted[i]
      BY <2>2, <3>1, AppendProperties DEF Enqueue
    <3>3. ASSUME NEW i \in 1 .. Len(wire)
          PROVE  /\ wire[i][1] \in 1 .. Len(accepted')
                 /\ wire[i] = IF i = 1 THEN Stream!FirstByte ELSE Stream!ByteAfter(wire[i - 1])'
      <4>1. wire[i][1] \in 1 .. Len(accepted)
        BY DEF Stream!InOrder
      <4>2. CASE i = 1
        BY <3>2, <4>1, <4>2 DEF Stream!InOrder
      <4>3. CASE i # 1
        <5>1. i - 1 \in 1 .. Len(wire)
          BY <3>1, <4>3
        <5>2. accepted'[wire[i - 1][1]] = accepted[wire[i - 1][1]]
          BY <3>2, <5>1 DEF Stream!InOrder
        <5>3. wire[i] = Stream!ByteAfter(wire[i - 1])
          BY <4>3 DEF Stream!InOrder
        <5>4. Stream!ByteAfter(wire[i - 1])' = Stream!ByteAfter(wire[i - 1])
          BY <3>1, <5>2 DEF Stream!ByteAfter
        <5>5. wire[i][1] \in 1 .. Len(accepted')
          BY <3>2, <4>1
        <5> QED
          BY <4>3, <5>3, <5>4, <5>5
      <4> QED
        BY <4>2, <4>3
    <3> QED
      BY <3>1, <3>3 DEF Stream!InOrder, Stream!FirstByte
  <2>3. ASSUME NEW t \in Threads, NEW n \in Nat, m_current_message # NoMessage, WriteSome(t, n)
        PROVE  Stream!InOrder(wire)'
    <3>1. accepted' = accepted /\ Stream!InOrder(wire')
      BY <2>3, InOrderWrite DEF WriteSome, queueVars
    <3> QED
      BY <3>1 DEF Stream!InOrder, Stream!ByteAfter, Stream!FirstByte
  <2>4. ASSUME UNCHANGED << accepted, wire >> PROVE Stream!InOrder(wire)'
    BY <2>4 DEF Stream!InOrder, Stream!ByteAfter, Stream!FirstByte
  <2>5. Stream!InOrder(wire)'
    BY <1>2, <2>2, <2>3, <2>4, StreamSteps DEF PickNext, WriteForeign, Quiet, queueVars
  <2> QED
    BY <2>1, <2>5
<1> QED
  BY <1>1, <1>2

\* m_send_queue_size, the queue, the current message and the wire agree.
LEMMA SendInvNothingLost == SendInv => NothingLost
<1> SUFFICES ASSUME SendInv PROVE NothingLost
  OBVIOUS
<1>1. /\ Len(m_send_queue) \in Nat /\ Len(accepted) \in Nat
      /\ SizeInv /\ QueueInv /\ WireInv
  BY DEF SendInv, TypeOK
<1>2. IsSizeOf(m_send_queue_size, m_send_queue)
  BY <1>1 DEF SizeInv, Sums, IsSizeOf
<1> DEFINE next == Len(accepted) - Len(m_send_queue) + 1
           last == next - (IF m_current_message = NoMessage THEN 1 ELSE 2)
<1>3. last = Finished
  BY <1>1 DEF Finished, Current
<1>4. \A i \in 1 .. Len(m_send_queue) :
         m_send_queue[i] = [id |-> next + i - 1, length |-> accepted[next + i - 1]]
  <2>1. \A i \in 1 .. Len(m_send_queue) :
           next + i - 1 = (Len(accepted) - Len(m_send_queue)) + i
    BY <1>1
  <2> QED
    BY <1>1, <2>1 DEF QueueInv
<1>5. m_current_message # NoMessage =>
         m_current_message.id = next - 1 /\ m_current_message.length = accepted[next - 1]
  <2>1. next - 1 = Len(accepted) - Len(m_send_queue)
    BY <1>1
  <2> QED
    BY <1>1, <2>1 DEF QueueInv
<1>6. wire # << >> /\ ~ foreign =>
         IF m_current_message # NoMessage /\ m_current_message.sent_pos > 0
         THEN wire[Len(wire)] = << m_current_message.id, m_current_message.sent_pos >>
         ELSE last > 0 /\ wire[Len(wire)] = << last, accepted[last] >>
  BY <1>1, <1>3 DEF WireInv
<1> HIDE DEF next, last
<1> QED
  BY <1>2, <1>4, <1>5, <1>6 DEF NothingLost, next, last

----------------------------------------------------------------------------
(* m_send_mutex and close().                                                *)

\* Each thread has a place in the code.
LEMMA PcType ==
    ASSUME TypeOK
    PROVE  /\ DOMAIN pc = Threads
           /\ pc = [t \in Threads |-> pc[t]]
           /\ m_send_mutex \in Threads \cup {NoThread}
  BY DEF TypeOK

\* Every step leaves m_send_mutex with the thread that is inside do_send().
LEMMA MutexStep ==
    ASSUME TypeOK, MutexInv, Next
    PROVE  MutexInv'
<1> USE ThreadsAssumption DEF MutexInv, fdVars, queueVars, sendVars
<1>1. ASSUME NEW t \in Threads, Send(t) PROVE MutexInv'
  BY <1>1, PcType DEF Send, Goto
<1>2. ASSUME NEW t \in Threads, OnWriteReady(t) PROVE MutexInv'
  BY <1>2, PcType DEF OnWriteReady, Goto
<1>3. ASSUME NEW t \in Threads, CloseFast(t) PROVE MutexInv'
  BY <1>3, PcType DEF CloseFast, Goto
<1>4. ASSUME NEW t \in Threads, CloseGentle(t) PROVE MutexInv'
  BY <1>4, PcType DEF CloseGentle, Goto
<1>5. ASSUME NEW t \in Threads, WaitSendQueueEmpty(t) PROVE MutexInv'
  BY <1>5, PcType DEF WaitSendQueueEmpty, Goto
<1>6. ASSUME NEW t \in Threads, DoSend(t) PROVE MutexInv'
  BY <1>6, PcType DEF DoSend, Goto
<1>7. ASSUME NEW t \in Threads, PickUnfinished(t) PROVE MutexInv'
  BY <1>7, PcType DEF PickUnfinished, Goto
<1>8. ASSUME NEW t \in Threads, PickNothing(t) PROVE MutexInv'
  BY <1>8, PcType DEF PickNothing, DoSendReturn, Goto
<1>9. ASSUME NEW t \in Threads, CheckValid(t) PROVE MutexInv'
  BY <1>9, PcType DEF CheckValid, DoSendReturn, Goto, is_valid
<1>10. ASSUME NEW t \in Threads, LoadFd(t) PROVE MutexInv'
  BY <1>10, PcType DEF LoadFd, Goto, is_valid
<1>11. ASSUME NEW t \in Threads, WriteAgain(t) PROVE MutexInv'
  BY <1>11, PcType DEF WriteAgain, DoSendReturn, Goto
<1>12. ASSUME NEW t \in Threads, WriteFails(t) PROVE MutexInv'
  BY <1>12, PcType DEF WriteFails, Goto
<1>13. ASSUME NEW t \in Threads, WriteForeign(t) PROVE MutexInv'
  BY <1>13, PcType DEF WriteForeign, Goto
<1>14. ASSUME NEW t \in Threads, SetShutdown(t) PROVE MutexInv'
  BY <1>14, PcType DEF SetShutdown, Goto
<1>15. ASSUME NEW t \in Threads, Shutdown(t) PROVE MutexInv'
  BY <1>15, PcType DEF Shutdown, Goto
<1>16. ASSUME NEW t \in Threads, ShutdownNotConnected(t) PROVE MutexInv'
  BY <1>16, PcType DEF ShutdownNotConnected, Goto
<1>17. ASSUME NEW t \in Threads, ShutdownFails(t) PROVE MutexInv'
  BY <1>17, PcType DEF ShutdownFails, Goto, is_valid
<1>18. ASSUME NEW t \in Threads, CloseCheck(t) PROVE MutexInv'
  BY <1>18, PcType DEF CloseCheck, ClosedState, Goto, is_valid
<1>19. ASSUME NEW t \in Threads, CloseFd(t) PROVE MutexInv'
  BY <1>19, PcType DEF CloseFd, Goto, is_valid
<1>20. ASSUME NEW t \in Threads, CloseReset(t) PROVE MutexInv'
  BY <1>20, PcType DEF CloseReset, Goto
<1>21. ASSUME NEW t \in Threads, CloseNotify(t) PROVE MutexInv'
  BY <1>21, PcType DEF CloseNotify, ClosedNotify, NotifyAll
<1>22. ASSUME NEW t \in Threads, NEW blocking \in BOOLEAN, EnqueueFull(t, blocking)
      PROVE  MutexInv'
  BY <1>22, PcType DEF EnqueueFull, Goto
<1>23. ASSUME NEW t \in Threads, NEW length \in Lengths, NEW async \in BOOLEAN,
             Enqueue(t, length, async)
      PROVE  MutexInv'
  BY <1>23, PcType DEF Enqueue, Goto
<1>24. ASSUME NEW t \in Threads, PickNext(t) PROVE MutexInv'
  <2>1. m_current_message' # NoMessage
    <3>1. Head(m_send_queue) \in Queued
      BY <1>24, HeadTailProperties, PcType DEF PickNext, TypeOK, Queued
    <3>2. m_current_message' \in Message
      BY <1>24, <3>1, PcType DEF PickNext, Queued, Message
    <3> QED
      BY <3>2, MessageAssumption, PcType DEF Message
  <2> QED
    BY <1>24, <2>1, PcType DEF PickNext, NotifyAll
<1>25. ASSUME NEW t \in Threads, NEW n \in Nat, m_current_message # NoMessage, WriteSome(t, n)
      PROVE  MutexInv'
  <2>1. /\ m_current_message \in Message
        /\ Advanced(m_current_message, n) # NoMessage
    BY <1>25, AdvancedMessage, MessageAssumption, PcType DEF TypeOK, Message
  <2>2. m_send_mutex = t
    BY <1>25, PcType DEF WriteSome
  <2>3. CASE m_current_message' = NoMessage
    <3>1. pc' = [pc EXCEPT ![t] = "pick"] /\ m_send_mutex' = m_send_mutex
      BY <1>25, <2>1, <2>3, PcType DEF WriteSome, Goto
    <3> QED
      BY <2>2, <2>3, <3>1, PcType
  <2>4. CASE m_current_message' # NoMessage
    <3>1. pc' = [pc EXCEPT ![t] = "load"] /\ m_send_mutex' = m_send_mutex
      BY <1>25, <2>1, <2>4, PcType DEF WriteSome, Goto
    <3> QED
      BY <2>2, <2>4, <3>1, PcType
  <2> QED
    BY <2>3, <2>4
<1>26. ASSUME PeerResets PROVE MutexInv'
  BY <1>26, PcType DEF PeerResets
<1>27. ASSUME NumberReused PROVE MutexInv'
  BY <1>27, PcType DEF NumberReused
<1> HIDE DEF MutexInv
<1>28. ASSUME NEW t \in Threads, Write(t) PROVE MutexInv'
  BY <1>25, <1>28, PcType DEF Write
<1> QED
  BY <1>1, <1>2, <1>3, <1>4, <1>5, <1>6, <1>7, <1>8, <1>9, <1>10, <1>11,
       <1>12, <1>13, <1>14, <1>15, <1>16, <1>17, <1>18, <1>19, <1>20, <1>21,
       <1>22, <1>23, <1>24, <1>25, <1>26, <1>27, <1>28, PcType DEF Next, ThreadStep

\* Every step of close() leaves the state set before the descriptor is gone.
LEMMA CloseStep ==
    ASSUME TypeOK, CloseInv, Next
    PROVE  CloseInv'
<1> USE DEF CloseInv, fdVars, queueVars, sendVars
<1>1. ASSUME NEW t \in Threads, Send(t) PROVE CloseInv'
  BY <1>1, PcType DEF Send, Goto
<1>2. ASSUME NEW t \in Threads, OnWriteReady(t) PROVE CloseInv'
  BY <1>2, PcType DEF OnWriteReady, Goto
<1>3. ASSUME NEW t \in Threads, CloseFast(t) PROVE CloseInv'
  BY <1>3, PcType DEF CloseFast, Goto
<1>4. ASSUME NEW t \in Threads, CloseGentle(t) PROVE CloseInv'
  BY <1>4, PcType DEF CloseGentle, Goto
<1>5. ASSUME NEW t \in Threads, WaitSendQueueEmpty(t) PROVE CloseInv'
  BY <1>5, PcType DEF WaitSendQueueEmpty, Goto
<1>6. ASSUME NEW t \in Threads, DoSend(t) PROVE CloseInv'
  BY <1>6, PcType DEF DoSend, Goto
<1>7. ASSUME NEW t \in Threads, PickUnfinished(t) PROVE CloseInv'
  BY <1>7, PcType DEF PickUnfinished, Goto
<1>8. ASSUME NEW t \in Threads, PickNothing(t) PROVE CloseInv'
  BY <1>8, PcType DEF PickNothing, DoSendReturn, Goto
<1>9. ASSUME NEW t \in Threads, CheckValid(t) PROVE CloseInv'
  BY <1>9, PcType DEF CheckValid, DoSendReturn, Goto, is_valid
<1>10. ASSUME NEW t \in Threads, LoadFd(t) PROVE CloseInv'
  BY <1>10, PcType DEF LoadFd, Goto, is_valid
<1>11. ASSUME NEW t \in Threads, WriteAgain(t) PROVE CloseInv'
  BY <1>11, PcType DEF WriteAgain, DoSendReturn, Goto
<1>12. ASSUME NEW t \in Threads, WriteFails(t) PROVE CloseInv'
  BY <1>12, PcType DEF WriteFails, Goto
<1>13. ASSUME NEW t \in Threads, WriteForeign(t) PROVE CloseInv'
  BY <1>13, PcType DEF WriteForeign, Goto
<1>14. ASSUME NEW t \in Threads, SetShutdown(t) PROVE CloseInv'
  BY <1>14, PcType DEF SetShutdown, Goto
<1>15. ASSUME NEW t \in Threads, Shutdown(t) PROVE CloseInv'
  BY <1>15, PcType DEF Shutdown, Goto
<1>16. ASSUME NEW t \in Threads, ShutdownNotConnected(t) PROVE CloseInv'
  BY <1>16, PcType DEF ShutdownNotConnected, Goto
<1>17. ASSUME NEW t \in Threads, ShutdownFails(t) PROVE CloseInv'
  BY <1>17, PcType DEF ShutdownFails, Goto, is_valid
<1>18. ASSUME NEW t \in Threads, CloseCheck(t) PROVE CloseInv'
  BY <1>18, PcType DEF CloseCheck, ClosedState, Goto, is_valid
<1>19. ASSUME NEW t \in Threads, CloseFd(t) PROVE CloseInv'
  BY <1>19, PcType DEF CloseFd, Goto, is_valid
<1>20. ASSUME NEW t \in Threads, CloseReset(t) PROVE CloseInv'
  BY <1>20, PcType DEF CloseReset, Goto
<1>21. ASSUME NEW t \in Threads, CloseNotify(t) PROVE CloseInv'
  BY <1>21, PcType DEF CloseNotify, ClosedNotify, NotifyAll
<1>22. ASSUME NEW t \in Threads, NEW blocking \in BOOLEAN, EnqueueFull(t, blocking)
      PROVE  CloseInv'
  BY <1>22, PcType DEF EnqueueFull, Goto
<1>23. ASSUME NEW t \in Threads, NEW length \in Lengths, NEW async \in BOOLEAN,
             Enqueue(t, length, async)
      PROVE  CloseInv'
  BY <1>23, PcType DEF Enqueue, Goto
<1>24. ASSUME NEW t \in Threads, PickNext(t) PROVE CloseInv'
  BY <1>24, PcType DEF PickNext, NotifyAll
<1>25. ASSUME NEW t \in Threads, NEW n \in Nat, m_current_message # NoMessage, WriteSome(t, n)
      PROVE  CloseInv'
  BY <1>25, PcType DEF WriteSome, Advanced, Goto
<1>26. ASSUME PeerResets PROVE CloseInv'
  BY <1>26, PcType DEF PeerResets
<1>27. ASSUME NumberReused PROVE CloseInv'
  BY <1>27, PcType DEF NumberReused
<1> HIDE DEF CloseInv
<1>28. ASSUME NEW t \in Threads, Write(t) PROVE CloseInv'
  BY <1>25, <1>28 DEF Write
<1> QED
  BY <1>1, <1>2, <1>3, <1>4, <1>5, <1>6, <1>7, <1>8, <1>9, <1>10, <1>11,
       <1>12, <1>13, <1>14, <1>15, <1>16, <1>17, <1>18, <1>19, <1>20, <1>21,
       <1>22, <1>23, <1>24, <1>25, <1>26, <1>27, <1>28 DEF Next, ThreadStep

\* Only two steps of close() log a fatal error.
LEMMA FatalSteps ==
    ASSUME Next
    PROVE  \/ \E t \in Threads : ShutdownFails(t) \/ CloseCheck(t)
           \/ UNCHANGED fatal
<1> USE DEF fdVars
<1>1. ASSUME NEW t \in Threads, Send(t) PROVE UNCHANGED fatal
  BY <1>1 DEF Send, Goto
<1>2. ASSUME NEW t \in Threads, OnWriteReady(t) PROVE UNCHANGED fatal
  BY <1>2 DEF OnWriteReady, Goto
<1>3. ASSUME NEW t \in Threads, CloseFast(t) PROVE UNCHANGED fatal
  BY <1>3 DEF CloseFast, Goto
<1>4. ASSUME NEW t \in Threads, CloseGentle(t) PROVE UNCHANGED fatal
  BY <1>4 DEF CloseGentle, Goto
<1>5. ASSUME NEW t \in Threads, WaitSendQueueEmpty(t) PROVE UNCHANGED fatal
  BY <1>5 DEF WaitSendQueueEmpty, Goto
<1>6. ASSUME NEW t \in Threads, DoSend(t) PROVE UNCHANGED fatal
  BY <1>6 DEF DoSend, Goto
<1>7. ASSUME NEW t \in Threads, PickUnfinished(t) PROVE UNCHANGED fatal
  BY <1>7 DEF PickUnfinished, Goto
<1>8. ASSUME NEW t \in Threads, PickNothing(t) PROVE UNCHANGED fatal
  BY <1>8 DEF PickNothing, DoSendReturn, Goto
<1>9. ASSUME NEW t \in Threads, CheckValid(t) PROVE UNCHANGED fatal
  BY <1>9 DEF CheckValid, DoSendReturn, Goto, is_valid
<1>10. ASSUME NEW t \in Threads, LoadFd(t) PROVE UNCHANGED fatal
  BY <1>10 DEF LoadFd, Goto, is_valid
<1>11. ASSUME NEW t \in Threads, WriteAgain(t) PROVE UNCHANGED fatal
  BY <1>11 DEF WriteAgain, DoSendReturn, Goto
<1>12. ASSUME NEW t \in Threads, WriteFails(t) PROVE UNCHANGED fatal
  BY <1>12 DEF WriteFails, Goto
<1>13. ASSUME NEW t \in Threads, WriteForeign(t) PROVE UNCHANGED fatal
  BY <1>13 DEF WriteForeign, Goto
<1>14. ASSUME NEW t \in Threads, SetShutdown(t) PROVE UNCHANGED fatal
  BY <1>14 DEF SetShutdown, Goto
<1>15. ASSUME NEW t \in Threads, Shutdown(t) PROVE UNCHANGED fatal
  BY <1>15 DEF Shutdown, Goto
<1>16. ASSUME NEW t \in Threads, ShutdownNotConnected(t) PROVE UNCHANGED fatal
  BY <1>16 DEF ShutdownNotConnected, Goto
<1>17. ASSUME NEW t \in Threads, CloseFd(t) PROVE UNCHANGED fatal
  BY <1>17 DEF CloseFd, Goto, is_valid
<1>18. ASSUME NEW t \in Threads, CloseReset(t) PROVE UNCHANGED fatal
  BY <1>18 DEF CloseReset, Goto
<1>19. ASSUME NEW t \in Threads, CloseNotify(t) PROVE UNCHANGED fatal
  BY <1>19 DEF CloseNotify, ClosedNotify, NotifyAll
<1>20. ASSUME NEW t \in Threads, NEW blocking \in BOOLEAN, EnqueueFull(t, blocking)
      PROVE  UNCHANGED fatal
  BY <1>20 DEF EnqueueFull, Goto
<1>21. ASSUME NEW t \in Threads, NEW length \in Lengths, NEW async \in BOOLEAN,
             Enqueue(t, length, async)
      PROVE  UNCHANGED fatal
  BY <1>21 DEF Enqueue, Goto
<1>22. ASSUME NEW t \in Threads, PickNext(t) PROVE UNCHANGED fatal
  BY <1>22 DEF PickNext, NotifyAll
<1>23. ASSUME NEW t \in Threads, NEW n \in Nat, m_current_message # NoMessage, WriteSome(t, n)
      PROVE  UNCHANGED fatal
  BY <1>23 DEF WriteSome, Advanced, Goto
<1>24. ASSUME PeerResets PROVE UNCHANGED fatal
  BY <1>24 DEF PeerResets
<1>25. ASSUME NumberReused PROVE UNCHANGED fatal
  BY <1>25 DEF NumberReused
<1>26. ASSUME NEW t \in Threads, Write(t) PROVE UNCHANGED fatal
  BY <1>23, <1>26 DEF Write
<1> QED
  BY <1>1, <1>2, <1>3, <1>4, <1>5, <1>6, <1>7, <1>8, <1>9, <1>10, <1>11,
       <1>12, <1>13, <1>14, <1>15, <1>16, <1>17, <1>18, <1>19, <1>20, <1>21,
       <1>22, <1>23, <1>24, <1>25, <1>26 DEF Next, ThreadStep

\* Every step of close() that finds an invalid state met a shutdown().
LEMMA FatalStep ==
    ASSUME TypeOK, CloseInv, FatalNeedsShutdown, Next
    PROVE  FatalNeedsShutdown'
<1>1. ~ fatal
  BY DEF Next
<1>2. ASSUME NEW t \in Threads, ShutdownFails(t) PROVE FatalNeedsShutdown'
  BY <1>1, <1>2, PcType DEF ShutdownFails, Goto, FatalNeedsShutdown, CloseInv
<1>3. ASSUME NEW t \in Threads, CloseCheck(t) PROVE FatalNeedsShutdown'
  <2>1. CASE is_valid
    BY <1>1, <1>3, <2>1 DEF CloseCheck, FatalNeedsShutdown
  <2>2. CASE ~ is_valid
    BY <1>3, <2>2 DEF CloseCheck, FatalNeedsShutdown, CloseInv, TypeOK, is_valid
  <2> QED
    BY <2>1, <2>2
<1>4. ASSUME UNCHANGED fatal PROVE FatalNeedsShutdown'
  BY <1>1, <1>4 DEF FatalNeedsShutdown
<1> QED
  BY <1>2, <1>3, <1>4, FatalSteps

----------------------------------------------------------------------------
(* The theorems.                                                            *)

\* Every variable keeps its type in every behaviour; that the size of the
\* queue never gets below zero rests on its being the sum of the lengths.
THEOREM TypeCorrect == Spec => []TypeOK
<1>1. SendInv => TypeOK
  BY DEF SendInv
<1> QED
  BY <1>1, InitSend, SendStep, PTL DEF Spec

\* send() and do_send() lose, repeat and reorder nothing, for any number of
\* senders and workers, any partial writes and any close().
THEOREM NoByteLost == Spec => []NothingLost
  BY InitSend, SendStep, SendInvNothingLost, PTL DEF Spec

\* The sending half implements the byte stream: Enqueue is Accept, WriteSome is
\* Transfer, and every other step changes neither history.
THEOREM ImplementsStream == Spec => StreamSpec
<1>1. Init => Stream!Init
  BY DEF Init, Stream!Init
<1>2. SendInv /\ [Next]_vars =>
         [Stream!Accept \/ Stream!Transfer]_<< accepted, wire >>
  <2> SUFFICES ASSUME SendInv, [Next]_vars
               PROVE  [Stream!Accept \/ Stream!Transfer]_<< accepted, wire >>
    OBVIOUS
  <2>1. ASSUME NEW t \in Threads, NEW length \in Lengths, NEW async \in BOOLEAN,
               Enqueue(t, length, async)
        PROVE  Stream!Accept
    BY <2>1 DEF Enqueue, sendVars, Stream!Accept
  <2>2. ASSUME NEW t \in Threads, NEW n \in Nat, m_current_message # NoMessage, WriteSome(t, n)
        PROVE  Stream!Transfer
    BY <2>2, InOrderWrite DEF SendInv
  <2>3. CASE Next
    BY <2>1, <2>2, <2>3, StreamSteps DEF PickNext, WriteForeign, Quiet, queueVars
  <2>4. CASE UNCHANGED vars
    BY <2>4 DEF vars
  <2> QED
    BY <2>3, <2>4
<1> QED
  BY <1>1, <1>2, InitSend, SendStep, PTL DEF Spec, StreamSpec, Stream!Spec

\* At most one thread writes at a time, and it has a message to write: the
\* guard of Write never holds it up.
THEOREM WriterHoldsMutex == Spec => []MutexInv
<1>1. SendInv /\ MutexInv /\ [Next]_vars => MutexInv'
  <2> SUFFICES ASSUME SendInv, MutexInv, [Next]_vars PROVE MutexInv'
    OBVIOUS
  <2>1. CASE Next
    BY <2>1, MutexStep DEF SendInv
  <2>2. CASE UNCHANGED vars
    BY <2>2 DEF vars, MutexInv
  <2> QED
    BY <2>1, <2>2
<1> QED
  BY <1>1, InitSend, SendStep, PTL DEF Spec

\* Without a shutdown() no LOG(FATAL) of close() is reached, however many
\* threads close the socket at once.
THEOREM ShutdownOnly == Spec => []FatalNeedsShutdown
<1>1. Init => FatalNeedsShutdown
  BY DEF Init, FatalNeedsShutdown
<1>2. SendInv /\ CloseInv /\ FatalNeedsShutdown /\ [Next]_vars
         => CloseInv' /\ FatalNeedsShutdown'
  <2> SUFFICES ASSUME SendInv, CloseInv, FatalNeedsShutdown, [Next]_vars
               PROVE  CloseInv' /\ FatalNeedsShutdown'
    OBVIOUS
  <2>1. CASE Next
    BY <2>1, CloseStep, FatalStep DEF SendInv
  <2>2. CASE UNCHANGED vars
    BY <2>2 DEF vars, CloseInv, FatalNeedsShutdown
  <2> QED
    BY <2>1, <2>2
<1> QED
  BY <1>1, <1>2, InitSend, SendStep, PTL DEF Spec
=============================================================================
