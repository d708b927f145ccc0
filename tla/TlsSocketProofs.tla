--------------------------- MODULE TlsSocketProofs ---------------------------
(***************************************************************************)
(* Proofs about TlsSocket, for every capacity of the kernel, every set of  *)
(* payloads, any number of threads and any number of messages.             *)
(*                                                                         *)
(* The two directions of a connection are alike.  The records on the way   *)
(* to an end are a chain: each data record is the one its predecessor      *)
(* calls for, the first is the one the end expects, and behind the last    *)
(* comes the record that the peer writes next, until one of the two closes *)
(* (ChainInv).  This rests on the lock, which keeps the two records of a   *)
(* message together (SendMutexInv), and on the handshake, which is a       *)
(* single flight under way (HandshakeInv): a channel that can send once    *)
(* can send until it is closed.  All this is about an end that still reads *)
(* (Reading): the thread that resets the slicer's buffer has closed the    *)
(* descriptor before, so that the record in the buffer is the last one     *)
(* (ResetInv).                                                             *)
(***************************************************************************)
EXTENDS TlsSocket, SequenceTheorems, TLAPS

----------------------------------------------------------------------------
(* The inductive invariants.                                                *)

\* Everything that can be on a wire.
Record == [kind : {"flight", "header", "payload", "close_notify"}, id : Nat]

TypeInv ==
    /\ TypeOK
    /\ wire \in [Ends -> Seq(Record)]
    /\ record \in [Ends -> Record]

\* A thread between the records of a message holds m_mutex of its end, and so
\* does a worker with a record in the buffer; the message is the last one that
\* was announced.
SendMutexInv ==
    \A t \in Threads :
        /\ pc[t] \in {"header", "payload", "slice"} => m_mutex[t[1]] = t
        /\ pc[t] = "payload" => message[t] = Len(sent[t[1]]) /\ message[t] > 0

\* Flights on a wire: none, or flight k alone.
NoFlight(w) == \A i \in 1 .. Len(w) : w[i].kind # "flight"
OneFlight(w, k) ==
    \E i \in 1 .. Len(w) :
        /\ w[i] = Flight(k)
        /\ \A j \in 1 .. Len(w) : w[j].kind = "flight" => j = i

\* The end that flight k is for.
To(k) == IF k \in {1, 3} THEN "server" ELSE "client"

\* What the worker of an end does with flight k.
Handling(e) == pc[Worker(e)] \in {"flight", "establish", "activate"}
HandlingOf(k) ==
    CASE k = 4 -> {"establish", "activate"}
      [] k = 3 -> {"establish", "flight"}
      [] OTHER -> {"flight"}

\* Neither channel can send before flight 4, and the one of the client not
\* before that has been handled.
NotActive(k) == ~ active["client"] /\ (k # 4 => ~ active["server"])

OnWire(k) ==
    /\ OneFlight(wire[To(k)], k) /\ NoFlight(wire[Peer(To(k))])
    /\ \A e \in Ends : ~ Handling(e)
    /\ NotActive(k)

Handled(k) ==
    /\ \A e \in Ends : NoFlight(wire[e])
    /\ pc[Worker(To(k))] \in HandlingOf(k) /\ record[To(k)] = Flight(k)
    /\ ~ Handling(Peer(To(k)))
    /\ NotActive(k)

HandshakeOver == \A e \in Ends : NoFlight(wire[e]) /\ ~ Handling(e)

HandshakeInv == HandshakeOver \/ \E k \in 1 .. 4 : OnWire(k) \/ Handled(k)

\* A thread that sent the header could send.
ActiveInv == \A t \in Threads : pc[t] = "payload" => active[t[1]]

\* The data record that follows r, if the messages have the lengths s.
IsData(r) == r.kind \in {"header", "payload"}
Following(s, r) ==
    IF r.kind = "header" /\ s[r.id] > HEADER_SIZE THEN Payload(r.id) ELSE Header(r.id + 1)

\* The records w are a chain from a, the first data record in it, to b, the
\* one to follow the last.
Links(r, a, b, s) ==
    IF IsData(r) THEN r = a /\ r.id \in 1 .. Len(s) /\ b = Following(s, r) ELSE b = a
Reaches(w, s, a, b) ==
    \E q \in [1 .. Len(w) + 1 -> Record] :
        /\ q[1] = a /\ q[Len(w) + 1] = b
        /\ \A i \in 1 .. Len(w) : Links(w[i], q[i], q[i + 1], s)

\* What end x sends is on its way no longer.
Stopped(x) == finished[x] \/ fd[x] # "open" \/ fd[Peer(x)] # "open"

\* The data record that end x writes next.
InMessage(x) == \E t \in Threads : t[1] = x /\ pc[t] = "payload"
Produced(x) ==
    LET n == Len(sent[x])
    IN IF InMessage(x) /\ sent[x][n] > HEADER_SIZE THEN Payload(n) ELSE Header(n + 1)

\* The worker has a record for the slicer, and the end can still get one.
Processing(e) == pc[Worker(e)] \in {"process", "slice"}
Reading(e) == fd[e] # "closed" \/ Processing(e)

\* The data record that the slicer of end e needs next, and the one its worker
\* has to read next.
Expected(e) == IF header[e] # 0 THEN Payload(header[e]) ELSE Header(Len(delivered[e]) + 1)
Coming(e) ==
    IF Processing(e) THEN Following(sent[Peer(e)], record[e]) ELSE Expected(e)

\* A header that was read announces the message after the last one that was
\* handed over; the record that is processed is the one that is needed.
ReceiveInv(e) ==
    /\ header[e] # 0 =>
          /\ header[e] = Len(delivered[e]) + 1
          /\ header[e] <= Len(sent[Peer(e)])
          /\ sent[Peer(e)][header[e]] > HEADER_SIZE
    /\ Processing(e) =>
          record[e] = Expected(e) /\ record[e].id \in 1 .. Len(sent[Peer(e)])

ChainInv(e) ==
    \E b \in Record :
        /\ Reaches(wire[e], sent[Peer(e)], Coming(e), b)
        /\ Stopped(Peer(e)) \/ b = Produced(Peer(e))

StreamInv == \A e \in Ends : Reading(e) => ReceiveInv(e) /\ ChainInv(e)

\* All messages so far were handed over.
OrderInv == \A e \in Ends : \A i \in 1 .. Len(delivered[e]) : delivered[e][i] = i

\* The buffer is reset, and a message torn, after the descriptor was closed.
ResetInv ==
    /\ \A t \in Threads : pc[t] = "reset" => fd[t[1]] = "closed"
    /\ \A e \in Ends : pc[Worker(e)] = "slice" /\ buffer[e] = "empty" => fd[e] = "closed"
    /\ \A e \in Ends : torn[e] => ~ Reading(e)

----------------------------------------------------------------------------
(* Ends, threads, flights and chains.                                       *)

\* The other end of a connection.
LEMMA PeerIs ==
    /\ Peer("client") = "server" /\ Peer("server") = "client"
    /\ \A e \in Ends : Peer(e) \in Ends /\ Peer(e) # e /\ Peer(Peer(e)) = e
<1>1. Peer("client") = "server"
  BY DEF Peer, Ends
<1>2. Peer("server") = "client"
  BY DEF Peer, Ends
<1> QED
  BY <1>1, <1>2 DEF Ends

\* A thread belongs to an end; workers are threads, each of its own end.
LEMMA ThreadFacts ==
    /\ \A t \in Threads : t[1] \in Ends
    /\ \A e \in Ends : Worker(e) \in Threads /\ Worker(e)[1] = e
<1>1. \A t \in Threads : t[1] \in Ends
  BY DEF Threads, Apps
<1>2. \A e \in Ends : Worker(e) \in Threads /\ Worker(e)[1] = e
  BY DEF Threads, Worker
<1> QED
  BY <1>1, <1>2

\* What a handshake record does to a wire without flight.
LEMMA FlightAppend ==
    ASSUME NEW w \in Seq(Record), NEW r \in Record
    PROVE  /\ r.kind # "flight" =>
                 /\ NoFlight(w) => NoFlight(Append(w, r))
                 /\ \A k \in Nat : OneFlight(w, k) => OneFlight(Append(w, r), k)
           /\ \A k \in Nat : NoFlight(w) /\ r = Flight(k) => OneFlight(Append(w, r), k)
<1>1. /\ Len(Append(w, r)) = Len(w) + 1 /\ Append(w, r)[Len(w) + 1] = r
      /\ \A i \in 1 .. Len(w) : Append(w, r)[i] = w[i]
      /\ Len(w) \in Nat
  OBVIOUS
<1>2. ASSUME r.kind # "flight", NoFlight(w) PROVE NoFlight(Append(w, r))
  BY <1>1, <1>2 DEF NoFlight
<1>3. ASSUME r.kind # "flight", NEW k \in Nat, OneFlight(w, k)
      PROVE  OneFlight(Append(w, r), k)
  <2>1. PICK i \in 1 .. Len(w) :
           /\ w[i] = Flight(k)
           /\ \A j \in 1 .. Len(w) : w[j].kind = "flight" => j = i
    BY <1>3 DEF OneFlight
  <2>2. Append(w, r)[i] = Flight(k) /\ i \in 1 .. Len(Append(w, r))
    BY <1>1, <2>1
  <2>3. \A j \in 1 .. Len(Append(w, r)) : Append(w, r)[j].kind = "flight" => j = i
    BY <1>1, <1>3, <2>1
  <2> QED
    BY <2>2, <2>3 DEF OneFlight
<1>4. ASSUME NEW k \in Nat, NoFlight(w), r = Flight(k) PROVE OneFlight(Append(w, r), k)
  <2>1. \A j \in 1 .. Len(Append(w, r)) : Append(w, r)[j].kind = "flight" => j = Len(w) + 1
    BY <1>1, <1>4 DEF NoFlight
  <2> QED
    BY <1>1, <1>4, <2>1 DEF OneFlight
<1> QED
  BY <1>2, <1>3, <1>4

\* What reading a record does to the flights on a wire.
LEMMA FlightTail ==
    ASSUME NEW w \in Seq(Record), w # << >>
    PROVE  /\ NoFlight(w) => NoFlight(Tail(w)) /\ Head(w).kind # "flight"
           /\ \A k \in Nat : OneFlight(w, k) =>
                 IF Head(w).kind = "flight" THEN Head(w) = Flight(k) /\ NoFlight(Tail(w))
                                            ELSE OneFlight(Tail(w), k)
<1>1. /\ Len(w) \in Nat /\ Len(w) >= 1 /\ Len(Tail(w)) = Len(w) - 1
      /\ Head(w) = w[1]
      /\ \A i \in 1 .. Len(Tail(w)) : Tail(w)[i] = w[i + 1]
  OBVIOUS
<1>2. ASSUME NoFlight(w) PROVE NoFlight(Tail(w)) /\ Head(w).kind # "flight"
  BY <1>1, <1>2 DEF NoFlight
<1>3. ASSUME NEW k \in Nat, OneFlight(w, k)
      PROVE  IF Head(w).kind = "flight" THEN Head(w) = Flight(k) /\ NoFlight(Tail(w))
                                        ELSE OneFlight(Tail(w), k)
  <2>1. PICK i \in 1 .. Len(w) :
           /\ w[i] = Flight(k)
           /\ \A j \in 1 .. Len(w) : w[j].kind = "flight" => j = i
    BY <1>3 DEF OneFlight
  <2>2. CASE Head(w).kind = "flight"
    <3>1. i = 1
      BY <1>1, <2>1, <2>2
    <3>2. NoFlight(Tail(w))
      BY <1>1, <2>1, <3>1 DEF NoFlight
    <3> QED
      BY <1>1, <2>1, <2>2, <3>1, <3>2
  <2>3. CASE Head(w).kind # "flight"
    <3>1. i # 1
      BY <1>1, <2>1, <2>3 DEF Flight
    <3>2. i - 1 \in 1 .. Len(Tail(w)) /\ Tail(w)[i - 1] = Flight(k)
      BY <1>1, <2>1, <3>1
    <3>3. \A j \in 1 .. Len(Tail(w)) : Tail(w)[j].kind = "flight" => j = i - 1
      BY <1>1, <2>1, <3>1
    <3> QED
      BY <2>3, <3>2, <3>3 DEF OneFlight
  <2> QED
    BY <2>2, <2>3
<1> QED
  BY <1>2, <1>3

\* An empty wire is a chain.
LEMMA ReachEmpty ==
    ASSUME NEW s, NEW a \in Record
    PROVE  Reaches(<< >>, s, a, a)
<1> DEFINE q == [i \in 1 .. 1 |-> a]
<1>1. Len(<< >>) = 0 /\ q \in [1 .. 0 + 1 -> Record] /\ q[1] = a /\ q[0 + 1] = a
  OBVIOUS
<1> HIDE DEF q
<1> QED
  BY <1>1 DEF Reaches

\* A record that is written is linked to the end of the chain.
LEMMA ReachAppend ==
    ASSUME NEW w \in Seq(Record), NEW r \in Record, NEW s,
           NEW a \in Record, NEW b \in Record, NEW c \in Record,
           Reaches(w, s, a, b), Links(r, b, c, s)
    PROVE  Reaches(Append(w, r), s, a, c)
<1>1. /\ Len(Append(w, r)) = Len(w) + 1 /\ Append(w, r)[Len(w) + 1] = r
      /\ \A i \in 1 .. Len(w) : Append(w, r)[i] = w[i]
      /\ Len(w) \in Nat
  OBVIOUS
<1>2. PICK q \in [1 .. Len(w) + 1 -> Record] :
         /\ q[1] = a /\ q[Len(w) + 1] = b
         /\ \A i \in 1 .. Len(w) : Links(w[i], q[i], q[i + 1], s)
  BY DEF Reaches
<1> DEFINE p == [i \in 1 .. Len(w) + 2 |-> IF i = Len(w) + 2 THEN c ELSE q[i]]
<1>3. /\ p \in [1 .. Len(w) + 2 -> Record]
      /\ p[1] = a /\ p[Len(w) + 2] = c /\ p[Len(w) + 1] = b
      /\ \A i \in 1 .. Len(w) : p[i] = q[i] /\ p[i + 1] = q[i + 1]
  BY <1>1, <1>2
<1> HIDE DEF p
<1>4. ASSUME NEW i \in 1 .. Len(w) + 1 PROVE Links(Append(w, r)[i], p[i], p[i + 1], s)
  <2>1. CASE i = Len(w) + 1
    BY <1>1, <1>3, <2>1
  <2>2. CASE i \in 1 .. Len(w)
    BY <1>1, <1>2, <1>3, <2>2
  <2> QED
    BY <1>1, <2>1, <2>2
<1>5. Len(Append(w, r)) + 1 = Len(w) + 2
  BY <1>1
<1> QED
  BY <1>1, <1>3, <1>4, <1>5 DEF Reaches

\* The first record is read: the chain goes on behind it.
LEMMA ReachTail ==
    ASSUME NEW w \in Seq(Record), w # << >>, NEW s, NEW a, NEW b, Reaches(w, s, a, b)
    PROVE  \E c \in Record : Links(Head(w), a, c, s) /\ Reaches(Tail(w), s, c, b)
<1>1. /\ Len(w) \in Nat /\ Len(w) >= 1 /\ Len(Tail(w)) = Len(w) - 1
      /\ Head(w) = w[1]
      /\ \A i \in 1 .. Len(Tail(w)) : Tail(w)[i] = w[i + 1]
  OBVIOUS
<1>2. PICK q \in [1 .. Len(w) + 1 -> Record] :
         /\ q[1] = a /\ q[Len(w) + 1] = b
         /\ \A i \in 1 .. Len(w) : Links(w[i], q[i], q[i + 1], s)
  BY DEF Reaches
<1> DEFINE p == [i \in 1 .. Len(w) |-> q[i + 1]]
<1>3. /\ p \in [1 .. Len(w) -> Record] /\ p[1] = q[2] /\ p[Len(w)] = b
      /\ \A i \in 1 .. Len(w) - 1 : p[i] = q[i + 1] /\ p[i + 1] = q[i + 2]
  BY <1>1, <1>2
<1>4. q[2] \in Record /\ Links(Head(w), a, q[2], s)
  <2>1. q[2] \in Record
    BY <1>1, <1>2
  <2>2. Links(w[1], q[1], q[1 + 1], s)
    BY <1>1, <1>2
  <2> QED
    BY <1>1, <1>2, <2>1, <2>2
<1> HIDE DEF p
<1>5. ASSUME NEW i \in 1 .. Len(w) - 1 PROVE Links(Tail(w)[i], p[i], p[i + 1], s)
  <2>1. Links(w[i + 1], q[i + 1], q[(i + 1) + 1], s) /\ (i + 1) + 1 = i + 2
    BY <1>1, <1>2
  <2> QED
    BY <1>1, <1>3, <2>1
<1>6. Len(Tail(w)) + 1 = Len(w)
  BY <1>1
<1>7. Reaches(Tail(w), s, q[2], b)
  BY <1>1, <1>3, <1>5, <1>6 DEF Reaches
<1> QED
  BY <1>4, <1>7

\* A chain stays one when more messages are announced.
LEMMA ReachGrow ==
    ASSUME NEW w \in Seq(Record), NEW s \in Seq(Nat), NEW n \in Nat, NEW a, NEW b,
           Reaches(w, s, a, b)
    PROVE  Reaches(w, Append(s, n), a, b)
<1>1. /\ Len(Append(s, n)) = Len(s) + 1 /\ Len(s) \in Nat
      /\ \A i \in 1 .. Len(s) : Append(s, n)[i] = s[i]
  OBVIOUS
<1>2. ASSUME NEW r, NEW c, NEW d, Links(r, c, d, s) PROVE Links(r, c, d, Append(s, n))
  BY <1>1, <1>2 DEF Links, Following
<1> QED
  BY <1>2 DEF Reaches

----------------------------------------------------------------------------
(* Types.                                                                   *)

\* TcpSocket::close() leaves no open descriptor.
LEMMA TcpCloseEnds ==
    ASSUME NEW e \in Ends, NEW after \in TcpClose(e)
    PROVE  after \in {"shut", "closed"}
BY DEF TcpClose

\* Records have the type of records.
LEMMA RecordTypes ==
    /\ CloseNotify \in Record /\ ~ IsData(CloseNotify) /\ CloseNotify.kind # "flight"
    /\ \A n \in Nat :
          /\ Flight(n) \in Record /\ ~ IsData(Flight(n))
          /\ Flight(n).kind = "flight" /\ Flight(n).id = n
          /\ Header(n) \in Record /\ IsData(Header(n)) /\ Header(n).kind # "flight"
          /\ Payload(n) \in Record /\ IsData(Payload(n)) /\ Payload(n).kind # "flight"
BY DEF Record, CloseNotify, Flight, Header, Payload, IsData

\* Lengths of messages are numbers.
LEMMA SentType ==
    ASSUME TypeInv, NEW x \in Ends
    PROVE  sent[x] \in Seq(Nat) /\ \A payload \in Payloads : HEADER_SIZE + payload \in Nat
<1>1. \A payload \in Payloads : HEADER_SIZE + payload \in Nat
  BY BoundsAssumption
<1>2. sent[x] \in Seq({HEADER_SIZE + p : p \in Payloads})
  BY DEF TypeInv, TypeOK
<1>3. \A i \in 1 .. Len(sent[x]) : sent[x][i] \in Nat
  BY <1>1, <1>2
<1>4. sent[x] \in Seq(Nat)
  BY <1>2, <1>3
<1> QED
  BY <1>1, <1>4

\* Writing a record keeps the type of the wires.
LEMMA EmitType ==
    ASSUME TypeInv, NEW e \in Ends, NEW r \in Record, Emit(e, r)
    PROVE  wire' \in [Ends -> Seq(Record)] /\ \A d \in Ends : Len(wire'[d]) <= Capacity
<1>1. Peer(e) \in Ends
  BY PeerIs
<1>2. CASE UNCHANGED wire
  BY <1>2 DEF TypeInv, TypeOK
<1>3. CASE /\ Len(wire[Peer(e)]) < Capacity
           /\ wire' = [wire EXCEPT ![Peer(e)] = Append(@, r)]
  <2>1. Append(wire[Peer(e)], r) \in Seq(Record)
    BY <1>1 DEF TypeInv
  <2>2. Len(Append(wire[Peer(e)], r)) <= Capacity
    BY <1>1, <1>3, BoundsAssumption DEF TypeInv
  <2> QED
    BY <1>1, <1>3, <2>1, <2>2 DEF TypeInv, TypeOK
<1> QED
  BY <1>2, <1>3 DEF Emit

\* So does a write that fails, for the state of the connection.
LEMMA CloseFailedType ==
    ASSUME TypeInv, NEW e \in Ends, CloseFailed(e)
    PROVE  /\ m_state' \in [Ends -> {"Unknown", "Setup", "Connected", "Shutdown", "Closed"}]
           /\ fd' \in [Ends -> {"open", "shut", "closed"}]
           /\ finished' \in [Ends -> BOOLEAN]
<1>1. PICK after \in TcpClose(e) : fd' = [fd EXCEPT ![e] = after]
  BY DEF CloseFailed
<1>2. after \in {"shut", "closed"}
  BY TcpCloseEnds
<1>3. fd' \in [Ends -> {"open", "shut", "closed"}]
  BY <1>1, <1>2 DEF TypeInv, TypeOK
<1>4. m_state' \in [Ends -> {"Unknown", "Setup", "Connected", "Shutdown", "Closed"}]
  BY DEF CloseFailed, TypeInv, TypeOK
<1>5. finished' \in [Ends -> BOOLEAN]
  BY Zenon DEF CloseFailed, TypeInv, TypeOK
<1> QED
  BY <1>3, <1>4, <1>5

\* close(), for the state of the connection and the thread.
LEMMA CloseType ==
    ASSUME TypeInv, NEW t \in Threads, Close(t)
    PROVE  /\ m_state' \in [Ends -> {"Unknown", "Setup", "Connected", "Shutdown", "Closed"}]
           /\ fd' \in [Ends -> {"open", "shut", "closed"}]
           /\ \E label \in {"idle", "reset", "notify"} : pc' = [pc EXCEPT ![t] = label]
<1>1. t[1] \in Ends
  BY ThreadFacts
<1>2. \A after \in TcpClose(t[1]) : after \in {"shut", "closed"}
  BY <1>1, TcpCloseEnds
<1>3. m_state' \in [Ends -> {"Unknown", "Setup", "Connected", "Shutdown", "Closed"}]
  <2>1. \E state \in {"Shutdown", "Closed"} : m_state' = [m_state EXCEPT ![t[1]] = state]
    BY DEF Close
  <2> QED
    BY <1>1, <2>1 DEF TypeInv, TypeOK
<1>4. fd' \in [Ends -> {"open", "shut", "closed"}]
  <2>1. UNCHANGED fd \/ \E after \in {"shut", "closed"} : fd' = [fd EXCEPT ![t[1]] = after]
    BY <1>2 DEF Close
  <2> QED
    BY <1>1, <2>1 DEF TypeInv, TypeOK
<1>5. \E label \in {"idle", "reset", "notify"} : pc' = [pc EXCEPT ![t] = label]
  BY DEF Close, Goto, AfterClose
<1> QED
  BY <1>3, <1>4, <1>5

\* Every step keeps the types.
LEMMA TypeStep ==
    ASSUME TypeInv, [Next]_vars
    PROVE  TypeInv'
<1> USE DEF TypeInv, TypeOK
<1>1. ASSUME NEW t \in Threads, CallWait(t) \/ CallSend(t) \/ WaitConnected(t)
      PROVE  TypeInv'
  BY <1>1, ZenonT(60) DEF CallWait, CallSend, WaitConnected, Goto, connVars, slicerVars, userVars
<1>2. ASSUME NEW t \in Threads, CloseSocket(t) PROVE TypeInv'
  <2>1. t[1] \in Ends
    BY ThreadFacts
  <2>2. /\ m_state' \in [Ends -> {"Unknown", "Setup", "Connected", "Shutdown", "Closed"}]
        /\ fd' \in [Ends -> {"open", "shut", "closed"}]
        /\ \E label \in {"idle", "reset", "notify"} : pc' = [pc EXCEPT ![t] = label]
    BY <1>2, CloseType DEF CloseSocket
  <2>3. pc' \in [Threads -> {"idle", "wait", "waiting", "lock", "header", "payload", "catch",
                            "reset", "notify", "recv", "flight", "establish", "activate",
                            "process", "slice"}]
    BY <2>2
  <2> QED
    BY <1>2, <2>1, <2>2, <2>3 DEF CloseSocket, slicerVars, userVars
<1>3. ASSUME NEW t \in Threads, SendLock(t) PROVE TypeInv'
  BY <1>3, ThreadFacts DEF SendLock, Goto, connVars, slicerVars, userVars
<1>4. ASSUME NEW t \in Threads, NEW r \in Record, ChannelSend(t, r)
      PROVE  /\ m_state' \in [Ends -> {"Unknown", "Setup", "Connected", "Shutdown", "Closed"}]
             /\ fd' \in [Ends -> {"open", "shut", "closed"}]
             /\ finished' \in [Ends -> BOOLEAN]
             /\ active' = active /\ read_mutex' = read_mutex /\ record' = record
             /\ UNCHANGED << buffer, header, delivered, torn >> /\ alive' = alive
             /\ wire' \in [Ends -> Seq(Record)] /\ \A d \in Ends : Len(wire'[d]) <= Capacity
  <2>1. t[1] \in Ends
    BY ThreadFacts
  <2>2. CASE Emit(t[1], r) /\ UNCHANGED connVars
    <3>1. wire' \in [Ends -> Seq(Record)] /\ \A d \in Ends : Len(wire'[d]) <= Capacity
      BY <2>1, <2>2, EmitType
    <3> QED
      BY <1>4, <2>2, <3>1 DEF ChannelSend, connVars, slicerVars
  <2>3. CASE EmitBroken(t[1]) /\ UNCHANGED << wire, active >>
    BY <1>4, <2>1, <2>3, CloseFailedType DEF EmitBroken, ChannelSend, slicerVars
  <2> QED
    BY <1>4, <2>2, <2>3 DEF ChannelSend
<1>5. ASSUME NEW t \in Threads, NEW payload \in Payloads, SendHeader(t, payload) PROVE TypeInv'
  <2>1. t[1] \in Ends
    BY ThreadFacts
  <2>2. Len(sent[t[1]]) + 1 \in Nat
    BY <2>1
  <2>3. ChannelSend(t, Header(Len(sent[t[1]]) + 1)) /\ Header(Len(sent[t[1]]) + 1) \in Record
    BY <1>5, <2>2, RecordTypes DEF SendHeader
  <2>4. Append(sent[t[1]], HEADER_SIZE + payload) \in Seq({HEADER_SIZE + p : p \in Payloads})
    <3> DEFINE S == {HEADER_SIZE + p : p \in Payloads}
    <3>1. HEADER_SIZE + payload \in S /\ sent[t[1]] \in Seq(S)
      BY <2>1
    <3> HIDE DEF S
    <3>2. Append(sent[t[1]], HEADER_SIZE + payload) \in Seq(S)
      BY <3>1
    <3> QED
      BY <3>2 DEF S
  <2>5. sent' \in [Ends -> Seq({HEADER_SIZE + p : p \in Payloads})]
    BY <1>5, <2>1, <2>4 DEF SendHeader
  <2>6. message' \in [Threads -> Nat] /\ m_mutex' \in [Ends -> Threads \cup {NoThread}]
    BY <1>5, <2>1, <2>2 DEF SendHeader, OwnerAfterHeader
  <2>7. pc' = [pc EXCEPT ![t] = "payload"]
    BY <1>5 DEF SendHeader, Goto
  <2> QED
    BY <1>4, <2>3, <2>5, <2>6, <2>7
<1>6. ASSUME NEW t \in Threads, SendPayload(t) PROVE TypeInv'
  <2>1. t[1] \in Ends
    BY ThreadFacts
  <2>2. pc' = [pc EXCEPT ![t] = "idle"] /\ UNCHANGED << sent, message >>
    BY <1>6 DEF SendPayload, Goto, userVars
  <2>3. m_mutex' \in [Ends -> Threads \cup {NoThread}]
    BY <1>6, <2>1 DEF SendPayload
  <2>4. CASE ChannelSend(t, Payload(message[t]))
    <3>1. Payload(message[t]) \in Record
      BY RecordTypes
    <3> QED
      BY <1>4, <2>2, <2>3, <2>4, <3>1
  <2>5. CASE UNCHANGED << connVars, wire, read_mutex, record, slicerVars, alive >>
    BY <2>2, <2>3, <2>5 DEF connVars, slicerVars
  <2> QED
    BY <1>6, <2>4, <2>5 DEF SendPayload
<1>7. ASSUME NEW t \in Threads, SendThrows(t) PROVE TypeInv'
  <2>1. t[1] \in Ends
    BY ThreadFacts
  <2>2. /\ m_state' \in [Ends -> {"Unknown", "Setup", "Connected", "Shutdown", "Closed"}]
        /\ fd' \in [Ends -> {"open", "shut", "closed"}]
        /\ finished' \in [Ends -> BOOLEAN]
    BY <1>7, <2>1, CloseFailedType DEF SendThrows, EmitThrows
  <2> QED
    BY <1>7, <2>1, <2>2 DEF SendThrows, Goto, slicerVars, userVars
<1>8. ASSUME NEW t \in Threads, SendCatch(t) PROVE TypeInv'
  <2>1. t[1] \in Ends
    BY ThreadFacts
  <2>2. /\ m_state' \in [Ends -> {"Unknown", "Setup", "Connected", "Shutdown", "Closed"}]
        /\ fd' \in [Ends -> {"open", "shut", "closed"}]
        /\ \E label \in {"idle", "reset", "notify"} : pc' = [pc EXCEPT ![t] = label]
    BY <1>8, CloseType DEF SendCatch
  <2>3. pc' \in [Threads -> {"idle", "wait", "waiting", "lock", "header", "payload", "catch",
                            "reset", "notify", "recv", "flight", "establish", "activate",
                            "process", "slice"}]
    BY <2>2
  <2> QED
    BY <1>8, <2>1, <2>2, <2>3 DEF SendCatch, slicerVars, userVars
<1>9. ASSUME NEW t \in Threads, Notify(t) PROVE TypeInv'
  <2>1. t[1] \in Ends
    BY ThreadFacts
  <2>2. /\ UNCHANGED << active, m_mutex, record, buffer, header, delivered, torn >>
        /\ UNCHANGED << sent, message, alive >>
        /\ read_mutex' \in [Ends -> Threads \cup {NoThread}]
        /\ pc' \in [Threads -> {"idle", "wait", "waiting", "lock", "header", "payload", "catch",
                               "reset", "notify", "recv", "flight", "establish", "activate",
                               "process", "slice"}]
    BY <1>9, <2>1 DEF Notify, Goto, AfterClose, slicerVars, userVars
  <2>3. CASE /\ Emit(t[1], CloseNotify) /\ UNCHANGED << m_state, fd >>
             /\ finished' = [finished EXCEPT ![t[1]] = TRUE]
    <3>1. wire' \in [Ends -> Seq(Record)] /\ \A d \in Ends : Len(wire'[d]) <= Capacity
      BY <2>1, <2>3, EmitType, RecordTypes
    <3> QED
      BY <2>1, <2>2, <2>3, <3>1
  <2>4. CASE (EmitBroken(t[1]) \/ EmitThrows(t[1])) /\ UNCHANGED wire
    BY <2>1, <2>2, <2>4, CloseFailedType DEF EmitBroken, EmitThrows
  <2>5. CASE UNCHANGED << m_state, fd, finished, wire >>
    BY <2>2, <2>5
  <2> QED
    BY <1>9, <2>3, <2>4, <2>5 DEF Notify
<1>10. ASSUME NEW e \in Ends, OnReadReady(e) \/ ReceiveNothing(e) PROVE TypeInv'
  <2>1. Worker(e) \in Threads
    BY ThreadFacts
  <2>2. CASE OnReadReady(e)
    BY <2>1, <2>2 DEF OnReadReady, Goto, connVars, slicerVars, userVars
  <2>3. CASE ReceiveNothing(e)
    BY <2>1, <2>3 DEF ReceiveNothing, Goto, connVars, slicerVars, userVars
  <2> QED
    BY <1>10, <2>2, <2>3
<1>11. ASSUME NEW e \in Ends, ReceiveRecord(e)
       PROVE  /\ wire' \in [Ends -> Seq(Record)] /\ record' \in [Ends -> Record]
              /\ \A d \in Ends : Len(wire'[d]) <= Capacity
  <2>1. wire[e] \in Seq(Record) /\ wire[e] # << >> /\ Len(wire[e]) <= Capacity
    BY <1>11 DEF ReceiveRecord
  <2>2. Tail(wire[e]) \in Seq(Record) /\ Head(wire[e]) \in Record
    BY <2>1
  <2>3. Len(Tail(wire[e])) <= Capacity
    BY <2>1, BoundsAssumption
  <2> QED
    BY <1>11, <2>2, <2>3 DEF ReceiveRecord
<1>12. ASSUME NEW e \in Ends, Receive(e) PROVE TypeInv'
  <2>1. \E label \in {"flight", "establish", "process"} :
           pc' = [pc EXCEPT ![Worker(e)] = label]
    <3>1. \/ Goto(Worker(e), "flight")
          \/ Goto(Worker(e), "establish")
          \/ Goto(Worker(e), "process")
      BY <1>12 DEF Receive
    <3> QED
      BY <3>1 DEF Goto
  <2>2. pc' \in [Threads -> {"idle", "wait", "waiting", "lock", "header", "payload", "catch",
                            "reset", "notify", "recv", "flight", "establish", "activate",
                            "process", "slice"}]
    BY <2>1
  <2>3. /\ ReceiveRecord(e)
        /\ UNCHANGED << connVars, m_mutex, read_mutex, slicerVars, userVars, alive >>
    BY <1>12 DEF Receive
  <2> QED
    BY <1>11, <2>2, <2>3 DEF connVars, slicerVars, userVars
<1>13. ASSUME NEW e \in Ends, Alert(e) PROVE TypeInv'
  BY <1>11, <1>13 DEF Alert, CloseOnAlert, CloseFast, slicerVars, userVars
<1>14. ASSUME NEW e \in Ends, ReceiveEnds(e) PROVE TypeInv'
  <2>1. << >> \in Seq(Record) /\ Len(<< >>) <= Capacity
    BY BoundsAssumption
  <2> QED
    BY <1>14, <2>1 DEF ReceiveEnds, CloseFast, slicerVars, userVars
<1>15. ASSUME NEW e \in Ends, EmitFlight(e) PROVE TypeInv'
  <2>1. record[e].id + 1 \in Nat
    BY DEF Record
  <2>2. /\ UNCHANGED << m_mutex, read_mutex, record, buffer, header, delivered, torn >>
        /\ UNCHANGED << sent, message, alive >>
        /\ pc' = [pc EXCEPT ![Worker(e)] = "recv"]
    BY <1>15 DEF EmitFlight, Goto, slicerVars, userVars
  <2>3. CASE /\ Emit(e, Flight(record[e].id + 1))
             /\ active' = [active EXCEPT ![e] = record[e].id = 3]
             /\ UNCHANGED << m_state, fd, finished >>
    <3>1. wire' \in [Ends -> Seq(Record)] /\ \A d \in Ends : Len(wire'[d]) <= Capacity
      BY <2>1, <2>3, EmitType, RecordTypes
    <3>2. active' \in [Ends -> BOOLEAN]
      BY <2>3, Zenon
    <3> QED
      BY <2>2, <2>3, <3>1, <3>2, ThreadFacts
  <2>4. CASE (EmitBroken(e) \/ EmitThrows(e)) /\ UNCHANGED << active, wire >>
    BY <2>2, <2>4, CloseFailedType, ThreadFacts DEF EmitBroken, EmitThrows
  <2> QED
    BY <1>15, <2>3, <2>4 DEF EmitFlight
<1>16. ASSUME NEW e \in Ends, SessionEstablished(e) PROVE TypeInv'
  BY <1>16 DEF SessionEstablished, Established, NotifyAll, slicerVars, userVars
<1>17. ASSUME NEW e \in Ends, Activate(e) \/ RecordInvalid(e) PROVE TypeInv'
  <2>1. CASE Activate(e)
    BY <2>1, ThreadFacts DEF Activate, Goto, slicerVars, userVars
  <2>2. CASE RecordInvalid(e)
    BY <2>2 DEF RecordInvalid, slicerVars, userVars
  <2> QED
    BY <1>17, <2>1, <2>2
<1>18. ASSUME NEW e \in Ends, RecordReceived(e) PROVE TypeInv'
  BY <1>18, ThreadFacts DEF RecordReceived, Goto, connVars, userVars
<1>19. ASSUME NEW t \in Threads, ResetBuffer(t) PROVE TypeInv'
  BY <1>19, ThreadFacts DEF ResetBuffer, Goto, connVars, userVars
<1>20. ASSUME NEW e \in Ends, ProcessEnds(e), header' \in [Ends -> Nat],
              delivered' \in [Ends -> Seq(Nat)], torn' \in [Ends -> BOOLEAN]
       PROVE  TypeInv'
  BY <1>20, ThreadFacts DEF ProcessEnds, Goto, connVars, userVars
<1>21. ASSUME NEW e \in Ends, ProcessBuffer(e) PROVE TypeInv'
  <2>1. record[e].id \in Nat
    BY DEF Record
  <2>2. \A n \in Nat : Append(delivered[e], n) \in Seq(Nat)
    OBVIOUS
  <2>3. header' \in [Ends -> Nat]
    <3>1. \E n \in {record[e].id, 0} : header' = [header EXCEPT ![e] = n]
      BY <1>21, Zenon DEF ProcessBuffer
    <3> QED
      BY <2>1, <3>1
  <2>4. delivered' \in [Ends -> Seq(Nat)]
    <3>1. \/ UNCHANGED delivered
          \/ \E n \in {record[e].id, 0} : delivered' = [delivered EXCEPT ![e] = Append(@, n)]
      BY <1>21, Zenon DEF ProcessBuffer
    <3>2. ASSUME NEW n \in Nat, delivered' = [delivered EXCEPT ![e] = Append(@, n)]
          PROVE  delivered' \in [Ends -> Seq(Nat)]
      BY <2>2, <3>2
    <3> QED
      BY <2>1, <3>1, <3>2
  <2>5. ProcessEnds(e) /\ UNCHANGED torn
    BY <1>21 DEF ProcessBuffer
  <2> QED
    BY <1>20, <2>3, <2>4, <2>5
<1>22. ASSUME NEW e \in Ends, ProcessReset(e) PROVE TypeInv'
  <2>1. ProcessEnds(e) /\ UNCHANGED delivered
    BY <1>22 DEF ProcessReset
  <2>2. /\ header' = header \/ header' = [header EXCEPT ![e] = 0]
        /\ torn' = torn \/ torn' = [torn EXCEPT ![e] = TRUE]
    BY <1>22 DEF ProcessReset
  <2>3. header' \in [Ends -> Nat]
    <3>1. CASE header' = [header EXCEPT ![e] = 0]
      BY <3>1
    <3> QED
      BY <2>2, <3>1
  <2>4. torn' \in [Ends -> BOOLEAN]
    BY <2>2
  <2> QED
    BY <1>20, <2>1, <2>3, <2>4
<1>23. CASE UNCHANGED vars
  BY <1>23 DEF vars
<1> HIDE DEF TypeInv, TypeOK
<1> QED
  BY <1>1, <1>2, <1>3, <1>5, <1>6, <1>7, <1>8, <1>9, <1>10, <1>12, <1>13, <1>14, <1>15, <1>16,
     <1>17, <1>18, <1>19, <1>21, <1>22, <1>23 DEF Next, ThreadStep, WorkerStep

----------------------------------------------------------------------------
(* What the steps leave alone.                                              *)

\* No thread begins, continues or ends a message.
NoSending ==
    /\ UNCHANGED << sent, message >>
    /\ \A u \in Threads : \A l \in {"header", "payload"} : pc'[u] = l <=> pc[u] = l

\* No thread locks or unlocks m_mutex.
NoLocking ==
    /\ UNCHANGED m_mutex
    /\ \A u \in Threads : \A l \in {"slice"} : pc'[u] = l <=> pc[u] = l

\* No worker begins or ends to handle a record.
NoHandling ==
    /\ UNCHANGED << record, header, delivered, torn >>
    /\ \A e \in Ends : \A l \in {"flight", "establish", "activate", "process", "slice"} :
          pc'[Worker(e)] = l <=> pc[Worker(e)] = l

\* What is closed stays closed.
NoReopening ==
    \A e \in Ends :
        /\ fd[e] # "open" => fd'[e] # "open"
        /\ fd[e] = "closed" => fd'[e] = "closed"
        /\ finished[e] => finished'[e]

\* An end that has read all it can does not read again.
NoRereading == \A e \in Ends : Reading(e)' => Reading(e)

\* One thread goes on, between labels that do not matter.
LEMMA GotoFrame ==
    ASSUME TypeInv, NEW t \in Threads, NEW label, pc' = [pc EXCEPT ![t] = label],
           NEW Labels, pc[t] \notin Labels, label \notin Labels
    PROVE  \A u \in Threads : \A l \in Labels : pc'[u] = l <=> pc[u] = l
BY DEF TypeInv, TypeOK

\* Only the steps inside TlsContext::send() begin or end a message, and only
\* they and tls_record_received() lock the mutex.
LEMMA SendingSteps ==
    ASSUME TypeInv
    PROVE  /\ \A t \in Threads :
                 (\/ CallWait(t) \/ CallSend(t) \/ WaitConnected(t) \/ ResetBuffer(t)
                  \/ SendCatch(t) \/ CloseSocket(t) \/ Notify(t)) => NoSending /\ NoLocking
           /\ \A e \in Ends : WorkerStep(e) =>
                 NoSending /\ (NoLocking \/ RecordReceived(e) \/ ProcessEnds(e))
<1>1. ASSUME NEW t \in Threads,
             CallWait(t) \/ CallSend(t) \/ WaitConnected(t) \/ ResetBuffer(t) \/ Notify(t)
      PROVE  NoSending /\ NoLocking
  <2>1. /\ pc[t] \in {"idle", "wait", "notify", "reset"}
        /\ \E label \in {"idle", "wait", "waiting", "lock", "reset"} :
              pc' = [pc EXCEPT ![t] = label]
    BY <1>1 DEF CallWait, CallSend, WaitConnected, ResetBuffer, Notify, AfterClose, At, Goto
  <2>2. UNCHANGED << m_mutex, sent, message >>
    BY <1>1 DEF CallWait, CallSend, WaitConnected, ResetBuffer, Notify, userVars
  <2>3. \A u \in Threads : \A l \in {"header", "payload"} : pc'[u] = l <=> pc[u] = l
    BY <2>1, GotoFrame
  <2>4. \A u \in Threads : \A l \in {"slice"} : pc'[u] = l <=> pc[u] = l
    BY <2>1, GotoFrame
  <2> QED
    BY <2>2, <2>3, <2>4 DEF NoSending, NoLocking
<1>2. ASSUME NEW t \in Threads, SendCatch(t) \/ CloseSocket(t) PROVE NoSending /\ NoLocking
  <2>1. pc[t] \in {"idle", "catch"} /\ Close(t)
    BY <1>2 DEF SendCatch, CloseSocket, At
  <2>2. \E label \in {"idle", "reset", "notify"} : pc' = [pc EXCEPT ![t] = label]
    BY <2>1, CloseType
  <2>3. UNCHANGED << m_mutex, sent, message >>
    BY <1>2 DEF SendCatch, CloseSocket, userVars
  <2>4. \A u \in Threads : \A l \in {"header", "payload"} : pc'[u] = l <=> pc[u] = l
    BY <2>1, <2>2, GotoFrame
  <2>5. \A u \in Threads : \A l \in {"slice"} : pc'[u] = l <=> pc[u] = l
    BY <2>1, <2>2, GotoFrame
  <2> QED
    BY <2>3, <2>4, <2>5 DEF NoSending, NoLocking
<1>3. ASSUME NEW e \in Ends, WorkerStep(e)
      PROVE  NoSending /\ (NoLocking \/ RecordReceived(e) \/ ProcessEnds(e))
  <2>1. Worker(e) \in Threads
    BY ThreadFacts
  <2>2. UNCHANGED << sent, message >>
    BY <1>3, Zenon DEF WorkerStep, OnReadReady, Receive, ReceiveNothing, ReceiveEnds, EmitFlight,
       SessionEstablished, Activate, Alert, RecordReceived, ProcessBuffer, ProcessReset,
       ProcessEnds, RecordInvalid, userVars
  <2>3. CASE ReceiveEnds(e) \/ Alert(e) \/ RecordInvalid(e)
    <3>1. pc' = pc /\ m_mutex' = m_mutex
      BY <2>3 DEF ReceiveEnds, Alert, RecordInvalid
    <3> QED
      BY <2>2, <3>1 DEF NoSending, NoLocking
  <2>4. CASE SessionEstablished(e)
    <3>1. pc[Worker(e)] = "establish" /\ m_mutex' = m_mutex
      BY <2>4 DEF SessionEstablished, At
    <3>2. \E label \in {"flight", "activate"} : NotifyAll(Worker(e), label)
      BY <2>4 DEF SessionEstablished, Established
    <3> QED
      BY <2>1, <2>2, <3>1, <3>2 DEF NoSending, NoLocking, NotifyAll
  <2>5. CASE OnReadReady(e) \/ Receive(e) \/ ReceiveNothing(e) \/ EmitFlight(e) \/ Activate(e)
    <3>1. pc[Worker(e)] \in {"idle", "recv", "flight", "activate"} /\ m_mutex' = m_mutex
      BY <2>5 DEF OnReadReady, Receive, ReceiveRecord, ReceiveNothing, EmitFlight, Activate, At
    <3>2. \E label \in {"idle", "recv", "flight", "establish", "process"} :
             pc' = [pc EXCEPT ![Worker(e)] = label]
      BY <2>5 DEF OnReadReady, Receive, ReceiveNothing, EmitFlight, Activate, Goto
    <3>3. \A u \in Threads : \A l \in {"header", "payload"} : pc'[u] = l <=> pc[u] = l
      BY <2>1, <3>1, <3>2, GotoFrame
    <3>4. \A u \in Threads : \A l \in {"slice"} : pc'[u] = l <=> pc[u] = l
      BY <2>1, <3>1, <3>2, GotoFrame
    <3> QED
      BY <2>2, <3>1, <3>3, <3>4 DEF NoSending, NoLocking
  <2>6. CASE RecordReceived(e) \/ ProcessBuffer(e) \/ ProcessReset(e)
    <3>1. /\ RecordReceived(e) \/ ProcessEnds(e)
          /\ pc[Worker(e)] \in {"process", "slice"}
          /\ \E label \in {"slice", "recv"} : pc' = [pc EXCEPT ![Worker(e)] = label]
      BY <2>6 DEF RecordReceived, ProcessBuffer, ProcessReset, ProcessEnds, At, Goto
    <3>2. \A u \in Threads : \A l \in {"header", "payload"} : pc'[u] = l <=> pc[u] = l
      BY <2>1, <3>1, GotoFrame
    <3> QED
      BY <2>2, <3>1, <3>2 DEF NoSending
  <2> QED
    BY <1>3, <2>3, <2>4, <2>5, <2>6 DEF WorkerStep
<1> QED
  BY <1>1, <1>2, <1>3

\* Only workers handle records.
LEMMA HandlingSteps ==
    ASSUME TypeInv, NEW t \in Threads,
           CallWait(t) \/ CallSend(t) \/ CloseSocket(t) \/ ThreadStep(t)
    PROVE  NoHandling
<1> DEFINE Labels == {"flight", "establish", "activate", "process", "slice"}
<1>1. UNCHANGED << record, header, delivered, torn >>
  BY Zenon DEF CallWait, CallSend, CloseSocket, ThreadStep, WaitConnected, SendLock, SendHeader,
     SendPayload, ChannelSend, SendThrows, SendCatch, ResetBuffer, Notify, slicerVars
<1>2. pc[t] \in {"idle", "wait", "lock", "header", "payload", "catch", "reset", "notify"}
  BY DEF CallWait, CallSend, CloseSocket, ThreadStep, WaitConnected, SendLock, SendHeader,
     SendPayload, SendThrows, SendCatch, ResetBuffer, Notify, At
<1>3. \E label \in {"idle", "wait", "waiting", "lock", "header", "payload", "catch", "reset",
                    "notify"} : pc' = [pc EXCEPT ![t] = label]
  <2>1. CASE SendCatch(t) \/ CloseSocket(t)
    <3>1. Close(t)
      BY <2>1 DEF SendCatch, CloseSocket
    <3> QED
      BY <3>1, CloseType
  <2>2. CASE ~ (SendCatch(t) \/ CloseSocket(t))
    BY <2>2 DEF CallWait, CallSend, ThreadStep, WaitConnected, SendLock, SendHeader,
       SendPayload, SendThrows, ResetBuffer, Notify, AfterClose, Goto
  <2> QED
    BY <2>1, <2>2
<1>4. \A u \in Threads : \A l \in Labels : pc'[u] = l <=> pc[u] = l
  BY <1>2, <1>3, GotoFrame
<1> QED
  BY <1>1, <1>4, ThreadFacts DEF NoHandling

\* No descriptor is opened and no channel begins anew.
LEMMA ReopeningSteps ==
    ASSUME TypeInv, Next
    PROVE  NoReopening
<1> USE DEF NoReopening
<1>1. CASE UNCHANGED << fd, finished >>
  BY <1>1
<1>2. ASSUME NEW e \in Ends, CloseFailed(e) PROVE NoReopening
  <2>1. PICK after \in TcpClose(e) : fd' = [fd EXCEPT ![e] = after]
    BY <1>2 DEF CloseFailed
  <2>2. after # "open" /\ (fd[e] = "closed" => after = "closed")
    BY TcpCloseEnds DEF TcpClose
  <2>3. finished' = [finished EXCEPT ![e] = finished[e] \/ m_state[e] = "Connected"]
    BY <1>2 DEF CloseFailed
  <2>4. \A d \in Ends : finished[d] => finished'[d]
    BY <2>3, Zenon DEF TypeInv, TypeOK
  <2> QED
    BY <2>1, <2>2, <2>4 DEF TypeInv, TypeOK
<1>3. ASSUME NEW t \in Threads, Close(t), UNCHANGED finished PROVE NoReopening
  <2>1. t[1] \in Ends
    BY ThreadFacts
  <2>2. \/ UNCHANGED fd
        \/ \E after \in TcpClose(t[1]) : fd' = [fd EXCEPT ![t[1]] = after]
    BY <1>3 DEF Close
  <2>3. \A after \in TcpClose(t[1]) :
           after # "open" /\ (fd[t[1]] = "closed" => after = "closed")
    BY <2>1, TcpCloseEnds DEF TcpClose
  <2> QED
    BY <1>3, <2>1, <2>2, <2>3 DEF TypeInv, TypeOK
<1>4. ASSUME NEW e \in Ends, fd' = [fd EXCEPT ![e] = "closed"],
             UNCHANGED finished \/ finished' = [finished EXCEPT ![e] = TRUE]
      PROVE  NoReopening
  BY <1>4 DEF TypeInv, TypeOK
<1>5. ASSUME NEW e \in Ends, UNCHANGED fd, finished' = [finished EXCEPT ![e] = TRUE]
      PROVE  NoReopening
  BY <1>5 DEF TypeInv, TypeOK
<1> HIDE DEF NoReopening
<1>6. ASSUME NEW t \in Threads, CallWait(t) \/ CallSend(t) \/ CloseSocket(t) \/ ThreadStep(t)
      PROVE  NoReopening
  <2>1. t[1] \in Ends
    BY ThreadFacts
  <2>2. \/ UNCHANGED << fd, finished >>
        \/ CloseFailed(t[1])
        \/ Close(t) /\ UNCHANGED finished
        \/ UNCHANGED fd /\ finished' = [finished EXCEPT ![t[1]] = TRUE]
    BY <1>6, Zenon DEF CallWait, CallSend, CloseSocket, ThreadStep, WaitConnected, SendLock,
       SendHeader, SendPayload, ChannelSend, EmitBroken, EmitThrows, SendThrows, SendCatch,
       ResetBuffer, Notify, connVars
  <2> QED
    BY <1>1, <1>2, <1>3, <1>5, <2>1, <2>2
<1>7. ASSUME NEW e \in Ends, WorkerStep(e) PROVE NoReopening
  <2>1. \/ UNCHANGED << fd, finished >>
        \/ CloseFailed(e)
        \/ /\ fd' = [fd EXCEPT ![e] = "closed"]
           /\ UNCHANGED finished \/ finished' = [finished EXCEPT ![e] = TRUE]
    BY <1>7, Zenon DEF WorkerStep, OnReadReady, Receive, ReceiveNothing, ReceiveEnds, EmitFlight,
       EmitBroken, EmitThrows, SessionEstablished, Activate, Alert, CloseOnAlert, CloseFast,
       RecordReceived, ProcessBuffer, ProcessReset, ProcessEnds, RecordInvalid, connVars
  <2> QED
    BY <1>1, <1>2, <1>4, <2>1
<1> QED
  BY <1>6, <1>7 DEF Next

\* A worker begins with a record only when it has read it.
LEMMA RereadingSteps ==
    ASSUME TypeInv, Next, NoReopening
    PROVE  NoRereading
<1>1. ASSUME NEW t \in Threads, CallWait(t) \/ CallSend(t) \/ CloseSocket(t) \/ ThreadStep(t)
      PROVE  NoRereading
  BY <1>1, HandlingSteps DEF NoHandling, NoReopening, NoRereading, Reading, Processing
<1>2. ASSUME NEW w \in Ends, WorkerStep(w) PROVE NoRereading
  <2>1. /\ Worker(w) \in Threads
        /\ \A e \in Ends : Worker(e) \in Threads /\ (Worker(e) = Worker(w) => e = w)
    BY ThreadFacts DEF Worker
  <2>2. CASE Receive(w)
    <3>1. fd[w] # "closed" /\ \E label : pc' = [pc EXCEPT ![Worker(w)] = label]
      BY <2>2, Zenon DEF Receive, ReceiveRecord, Goto
    <3>2. \A e \in Ends : e # w => pc'[Worker(e)] = pc[Worker(e)]
      BY <2>1, <3>1 DEF TypeInv, TypeOK
    <3> QED
      BY <3>1, <3>2 DEF NoReopening, NoRereading, Reading, Processing
  <2>3. CASE ~ Receive(w)
    <3>1. \/ UNCHANGED pc
          \/ \E label \in {"idle", "recv", "flight", "activate"} :
                NotifyAll(Worker(w), label) \/ pc' = [pc EXCEPT ![Worker(w)] = label]
          \/ pc[Worker(w)] = "process" /\ pc' = [pc EXCEPT ![Worker(w)] = "slice"]
      BY <1>2, <2>3, Zenon DEF WorkerStep, OnReadReady, ReceiveNothing, ReceiveEnds, EmitFlight,
         SessionEstablished, Established, Activate, Alert, RecordReceived, ProcessBuffer,
         ProcessReset, ProcessEnds, RecordInvalid, Goto, At
    <3>2. \A e \in Ends : Processing(e)' => Processing(e)
      BY <2>1, <3>1 DEF Processing, NotifyAll, TypeInv, TypeOK
    <3> QED
      BY <3>2 DEF NoReopening, NoRereading, Reading
  <2> QED
    BY <2>2, <2>3
<1> QED
  BY <1>1, <1>2, Zenon DEF Next

----------------------------------------------------------------------------
(* The lock and the handshake.                                              *)

\* One thread of an end at a time is inside TlsContext::send() or slices.
LEMMA OneSender ==
    ASSUME SendMutexInv, NEW t \in Threads, NEW u \in Threads, t[1] = u[1],
           pc[t] \in {"header", "payload", "slice"}, pc[u] \in {"header", "payload", "slice"}
    PROVE  t = u
BY DEF SendMutexInv

\* Every step keeps the lock on the message.
LEMMA SendMutexStep ==
    ASSUME TypeInv, SendMutexInv, Next
    PROVE  SendMutexInv'
<1>1. CASE NoSending /\ NoLocking
  BY <1>1, ThreadFacts DEF NoSending, NoLocking, SendMutexInv
<1>2. ASSUME NEW t \in Threads, NEW label \in {"header", "slice"}, m_mutex[t[1]] = NoThread,
             pc' = [pc EXCEPT ![t] = label],
             m_mutex' = [m_mutex EXCEPT ![t[1]] = t], UNCHANGED << sent, message >>
      PROVE  SendMutexInv'
  <2>1. t[1] \in Ends /\ NoThread \notin Threads
    BY ThreadFacts, ThreadsAssumption
  <2>2. ASSUME NEW u \in Threads, u # t, pc'[u] \in {"header", "payload", "slice"}
        PROVE  m_mutex'[u[1]] = u
    <3>1. pc'[u] = pc[u] /\ u[1] \in Ends
      BY <1>2, <2>2, ThreadFacts DEF TypeInv, TypeOK
    <3>2. m_mutex[u[1]] = u
      BY <2>2, <3>1 DEF SendMutexInv
    <3>3. u[1] # t[1]
      BY <1>2, <2>1, <3>2
    <3> QED
      BY <1>2, <2>1, <3>1, <3>2, <3>3 DEF TypeInv, TypeOK
  <2>3. pc'[t] = label /\ m_mutex'[t[1]] = t
    BY <1>2, <2>1 DEF TypeInv, TypeOK
  <2>4. \A u \in Threads : u # t => pc'[u] = pc[u]
    BY <1>2 DEF TypeInv, TypeOK
  <2> QED
    BY <1>2, <2>2, <2>3, <2>4 DEF SendMutexInv
<1>3. ASSUME NEW t \in Threads, pc[t] \in {"header", "payload", "slice"},
             NEW label \in {"idle", "catch", "recv"}, pc' = [pc EXCEPT ![t] = label],
             m_mutex' = [m_mutex EXCEPT ![t[1]] = NoThread], UNCHANGED << sent, message >>
      PROVE  SendMutexInv'
  <2>1. t[1] \in Ends
    BY ThreadFacts
  <2>2. ASSUME NEW u \in Threads, pc'[u] \in {"header", "payload", "slice"}
        PROVE  pc'[u] = pc[u] /\ m_mutex'[u[1]] = m_mutex[u[1]]
    <3>1. u # t /\ pc'[u] = pc[u] /\ u[1] \in Ends
      BY <1>3, <2>2, ThreadFacts DEF TypeInv, TypeOK
    <3>2. u[1] # t[1]
      BY <1>3, <2>2, <3>1, OneSender
    <3> QED
      BY <1>3, <2>1, <3>1, <3>2 DEF TypeInv, TypeOK
  <2> QED
    BY <1>3, <2>2 DEF SendMutexInv
<1>4. ASSUME NEW t \in Threads, SendPayload(t) PROVE SendMutexInv'
  <2>1. pc[t] = "payload" /\ t[1] \in Ends
    BY <1>4, ThreadFacts DEF SendPayload, At
  <2>2. m_mutex[t[1]] = t
    BY <2>1 DEF SendMutexInv
  <2>3. m_mutex' = [m_mutex EXCEPT ![t[1]] = NoThread]
    BY <1>4, <2>2 DEF SendPayload
  <2>4. pc' = [pc EXCEPT ![t] = "idle"] /\ UNCHANGED << sent, message >>
    BY <1>4 DEF SendPayload, Goto, userVars
  <2> QED
    BY <1>3, <2>1, <2>3, <2>4
<1>5. ASSUME NEW t \in Threads, SendThrows(t) PROVE SendMutexInv'
  <2>1. pc[t] \in {"header", "payload"}
    BY <1>5 DEF SendThrows, At
  <2>2. /\ pc' = [pc EXCEPT ![t] = "catch"] /\ UNCHANGED << sent, message >>
        /\ m_mutex' = [m_mutex EXCEPT ![t[1]] = NoThread]
    BY <1>5 DEF SendThrows, Goto, userVars
  <2> QED
    BY <1>3, <2>1, <2>2
<1>6. ASSUME NEW t \in Threads, NEW payload \in Payloads, SendHeader(t, payload)
      PROVE  SendMutexInv'
  <2>1. t[1] \in Ends /\ pc[t] = "header"
    BY <1>6, ThreadFacts DEF SendHeader, At
  <2>2. /\ sent' = [sent EXCEPT ![t[1]] = Append(@, HEADER_SIZE + payload)]
        /\ message' = [message EXCEPT ![t] = Len(sent[t[1]]) + 1]
        /\ m_mutex' = [m_mutex EXCEPT ![t[1]] = t]
        /\ pc' = [pc EXCEPT ![t] = "payload"]
    BY <1>6 DEF SendHeader, OwnerAfterHeader, Goto
  <2>3. m_mutex[t[1]] = t
    BY <2>1 DEF SendMutexInv
  <2>4. m_mutex' = m_mutex
    BY <2>1, <2>2, <2>3 DEF TypeInv, TypeOK
  <2>5. ASSUME NEW u \in Threads, u # t, pc'[u] \in {"header", "payload", "slice"}
        PROVE  pc'[u] = pc[u] /\ message'[u] = message[u] /\ sent'[u[1]] = sent[u[1]]
    <3>1. pc'[u] = pc[u] /\ message'[u] = message[u] /\ u[1] \in Ends
      BY <2>2, <2>5, ThreadFacts DEF TypeInv, TypeOK
    <3>2. u[1] # t[1]
      BY <2>1, <2>5, <3>1, OneSender
    <3> QED
      BY <2>1, <2>2, <3>1, <3>2 DEF TypeInv, TypeOK
  <2>6. /\ pc'[t] = "payload" /\ message'[t] = Len(sent[t[1]]) + 1
        /\ sent'[t[1]] = Append(sent[t[1]], HEADER_SIZE + payload)
    BY <2>1, <2>2 DEF TypeInv, TypeOK
  <2>7. sent[t[1]] \in Seq(Nat) /\ HEADER_SIZE + payload \in Nat
    BY <2>1, SentType
  <2>8. message'[t] = Len(sent'[t[1]]) /\ message'[t] > 0
    BY <2>6, <2>7
  <2> QED
    BY <2>3, <2>4, <2>5, <2>6, <2>8 DEF SendMutexInv
<1>7. ASSUME NEW t \in Threads, CallWait(t) \/ CallSend(t) \/ CloseSocket(t) \/ ThreadStep(t)
      PROVE  SendMutexInv'
  <2>1. CASE \/ CallWait(t) \/ CallSend(t) \/ WaitConnected(t) \/ ResetBuffer(t)
             \/ SendCatch(t) \/ CloseSocket(t) \/ Notify(t)
    BY <1>1, <2>1, SendingSteps
  <2>2. CASE \/ SendPayload(t) \/ SendThrows(t)
             \/ \E payload \in Payloads : SendHeader(t, payload)
    BY <1>4, <1>5, <1>6, <2>2
  <2>3. CASE SendLock(t)
    <3>1. /\ m_mutex[t[1]] = NoThread /\ m_mutex' = [m_mutex EXCEPT ![t[1]] = t]
          /\ pc' = [pc EXCEPT ![t] = "header"] /\ UNCHANGED << sent, message >>
      BY <2>3 DEF SendLock, Goto, userVars
    <3> QED
      BY <1>2, <3>1
  <2> QED
    BY <1>7, <2>1, <2>2, <2>3, Zenon DEF ThreadStep
<1>8. ASSUME NEW e \in Ends, WorkerStep(e) PROVE SendMutexInv'
  <2>1. NoSending /\ Worker(e) \in Threads /\ Worker(e)[1] = e
    BY <1>8, SendingSteps, ThreadFacts
  <2>2. CASE NoLocking
    BY <1>1, <2>1, <2>2
  <2>3. CASE RecordReceived(e)
    <3>1. /\ m_mutex[e] = NoThread /\ m_mutex' = [m_mutex EXCEPT ![e] = Worker(e)]
          /\ pc' = [pc EXCEPT ![Worker(e)] = "slice"] /\ UNCHANGED << sent, message >>
      BY <2>3 DEF RecordReceived, ProcessLocks, Goto, userVars
    <3> QED
      BY <1>2, <2>1, <3>1
  <2>4. CASE ProcessEnds(e)
    <3>1. /\ pc[Worker(e)] = "slice" /\ m_mutex' = [m_mutex EXCEPT ![e] = NoThread]
          /\ pc' = [pc EXCEPT ![Worker(e)] = "recv"] /\ UNCHANGED << sent, message >>
      BY <2>4 DEF ProcessEnds, At, Goto, userVars
    <3> QED
      BY <1>3, <2>1, <3>1
  <2> QED
    BY <1>8, <2>2, <2>3, <2>4, SendingSteps
<1> QED
  BY <1>7, <1>8, Zenon DEF Next

\* A step that no flight is part of.
LEMMA HandshakeFrame ==
    ASSUME HandshakeInv, UNCHANGED active,
           \A e \in Ends :
              /\ \A l \in {"flight", "establish", "activate"} :
                    pc'[Worker(e)] = l <=> pc[Worker(e)] = l
              /\ Handling(e) => record'[e] = record[e]
              /\ NoFlight(wire[e]) => NoFlight(wire'[e])
              /\ \A k \in 1 .. 4 : OneFlight(wire[e], k) =>
                    OneFlight(wire'[e], k) \/ NoFlight(wire'[e])
    PROVE  HandshakeInv'
<1>1. \A k \in 1 .. 4 : To(k) \in Ends /\ Peer(To(k)) \in Ends
  BY PeerIs DEF To, Ends
<1>2. \A e \in Ends : Handling(e)' <=> Handling(e)
  BY DEF Handling
<1>3. CASE HandshakeOver
  BY <1>2, <1>3 DEF HandshakeOver, HandshakeInv
<1>4. ASSUME NEW k \in 1 .. 4, OnWire(k) PROVE HandshakeInv'
  <2>1. NotActive(k)'
    BY <1>4 DEF OnWire, NotActive
  <2>2. NoFlight(wire'[Peer(To(k))]) /\ \A e \in Ends : ~ Handling(e)'
    BY <1>1, <1>2, <1>4 DEF OnWire
  <2>3. CASE OneFlight(wire'[To(k)], k)
    BY <2>1, <2>2, <2>3, Zenon DEF OnWire, HandshakeInv
  <2>4. CASE NoFlight(wire'[To(k)])
    <3>1. \A e \in Ends : e = To(k) \/ e = Peer(To(k))
      BY PeerIs DEF Ends, To
    <3> QED
      BY <2>2, <2>4, <3>1 DEF HandshakeOver, HandshakeInv
  <2> QED
    BY <1>1, <1>4, <2>3, <2>4 DEF OnWire
<1>5. ASSUME NEW k \in 1 .. 4, Handled(k) PROVE HandshakeInv'
  <2>1. pc[Worker(To(k))] \in {"flight", "establish", "activate"}
    BY <1>5 DEF Handled, HandlingOf
  <2>2. pc'[Worker(To(k))] = pc[Worker(To(k))] /\ record'[To(k)] = record[To(k)]
    BY <1>1, <2>1 DEF Handling
  <2>3. NotActive(k)'
    BY <1>5 DEF Handled, NotActive
  <2>4. ~ Handling(Peer(To(k)))' /\ \A e \in Ends : NoFlight(wire'[e])
    BY <1>1, <1>2, <1>5 DEF Handled
  <2>5. Handled(k)'
    BY <1>5, <2>2, <2>3, <2>4 DEF Handled, HandlingOf
  <2> QED
    BY <2>5 DEF HandshakeInv
<1> QED
  BY <1>3, <1>4, <1>5 DEF HandshakeInv

\* The end that handles a flight, and the flight.
LEMMA HandledBy ==
    ASSUME HandshakeInv, NEW e \in Ends, Handling(e)
    PROVE  \E k \in 1 .. 4 : e = To(k) /\ Handled(k)
<1>1. PICK k \in 1 .. 4 : Handled(k)
  BY DEF HandshakeInv, HandshakeOver, OnWire
<1>2. e = To(k)
  <2>1. e = To(k) \/ e = Peer(To(k))
    BY PeerIs DEF Ends, To
  <2> QED
    BY <1>1, <2>1 DEF Handled
<1> QED
  BY <1>1, <1>2

\* A write of something else than a flight is no part of the handshake.
LEMMA EmitNoFlight ==
    ASSUME TypeInv, NEW e \in Ends, NEW r \in Record, r.kind # "flight", Emit(e, r)
    PROVE  \A d \in Ends :
              /\ NoFlight(wire[d]) => NoFlight(wire'[d])
              /\ \A k \in 1 .. 4 : OneFlight(wire[d], k) => OneFlight(wire'[d], k)
<1>1. CASE UNCHANGED wire
  BY <1>1
<1>2. CASE wire' = [wire EXCEPT ![Peer(e)] = Append(@, r)]
  <2> TAKE d \in Ends
  <2>1. CASE d = Peer(e)
    <3>1. wire'[d] = Append(wire[d], r) /\ wire[d] \in Seq(Record)
      BY <1>2, <2>1 DEF TypeInv
    <3>2. /\ NoFlight(wire[d]) => NoFlight(Append(wire[d], r))
          /\ \A k \in Nat : OneFlight(wire[d], k) => OneFlight(Append(wire[d], r), k)
      BY <3>1, FlightAppend
    <3> QED
      BY <3>1, <3>2
  <2>2. CASE d # Peer(e)
    <3>1. wire'[d] = wire[d]
      BY <1>2, <2>2 DEF TypeInv
    <3> QED
      BY <3>1
  <2> QED
    BY <2>1, <2>2
<1> QED
  BY <1>1, <1>2 DEF Emit

\* Every step keeps the handshake a single flight under way.
LEMMA HandshakeStep ==
    ASSUME TypeInv, HandshakeInv, Next
    PROVE  HandshakeInv'
<1>1. ASSUME UNCHANGED << active, wire, record >>,
             \A e \in Ends : \A l \in {"flight", "establish", "activate"} :
                pc'[Worker(e)] = l <=> pc[Worker(e)] = l
      PROVE  HandshakeInv'
  BY <1>1, HandshakeFrame
<1>2. ASSUME NEW t \in Threads, CallWait(t) \/ CallSend(t) \/ CloseSocket(t) \/ ThreadStep(t)
      PROVE  HandshakeInv'
  <2>1. /\ UNCHANGED record
        /\ \A e \in Ends : \A l \in {"flight", "establish", "activate"} :
              pc'[Worker(e)] = l <=> pc[Worker(e)] = l
    BY <1>2, HandlingSteps DEF NoHandling
  <2>2. t[1] \in Ends /\ Len(sent[t[1]]) + 1 \in Nat /\ message[t] \in Nat
    BY ThreadFacts DEF TypeInv, TypeOK
  <2>3. UNCHANGED active
    BY <1>2, Zenon DEF CallWait, CallSend, CloseSocket, ThreadStep, WaitConnected, SendLock,
       SendHeader, SendPayload, ChannelSend, SendThrows, SendCatch, ResetBuffer, Notify,
       connVars
  <2>4. \/ UNCHANGED wire
        \/ Emit(t[1], CloseNotify)
        \/ Emit(t[1], Header(Len(sent[t[1]]) + 1))
        \/ Emit(t[1], Payload(message[t]))
    BY <1>2, Zenon DEF CallWait, CallSend, CloseSocket, ThreadStep, WaitConnected, SendLock,
       SendHeader, SendPayload, ChannelSend, SendThrows, SendCatch, ResetBuffer, Notify
  <2>5. CASE UNCHANGED wire
    BY <1>1, <2>1, <2>3, <2>5
  <2>6. ASSUME NEW r \in Record, r.kind # "flight", Emit(t[1], r) PROVE HandshakeInv'
    <3>1. \A d \in Ends :
              /\ NoFlight(wire[d]) => NoFlight(wire'[d])
              /\ \A k \in 1 .. 4 : OneFlight(wire[d], k) => OneFlight(wire'[d], k)
      BY <2>2, <2>6, EmitNoFlight
    <3> QED
      BY <2>1, <2>3, <3>1, HandshakeFrame
  <2> QED
    BY <2>2, <2>4, <2>5, <2>6, RecordTypes
<1>3. ASSUME NEW e \in Ends,
             \/ OnReadReady(e) \/ ReceiveNothing(e) \/ RecordReceived(e) \/ ProcessBuffer(e)
             \/ ProcessReset(e) \/ RecordInvalid(e)
      PROVE  HandshakeInv'
  <2>1. UNCHANGED << active, wire, record >>
    BY <1>3, Zenon DEF OnReadReady, ReceiveNothing, RecordReceived, ProcessBuffer, ProcessReset,
       ProcessEnds, RecordInvalid, connVars
  <2>2. /\ pc[Worker(e)] \in {"idle", "recv", "process", "slice"}
        /\ \/ pc' = pc
           \/ \E label \in {"idle", "recv", "slice"} : pc' = [pc EXCEPT ![Worker(e)] = label]
    BY <1>3 DEF OnReadReady, ReceiveNothing, RecordReceived, ProcessBuffer, ProcessReset,
       ProcessEnds, RecordInvalid, At, Goto
  <2>3. \A d \in Ends : \A l \in {"flight", "establish", "activate"} :
           pc'[Worker(d)] = l <=> pc[Worker(d)] = l
    BY <2>2, ThreadFacts DEF TypeInv, TypeOK
  <2> QED
    BY <1>1, <2>1, <2>3
<1>4. ASSUME NEW e \in Ends, pc[Worker(e)] = "recv", UNCHANGED active,
             \A d \in Ends : \A l \in {"flight", "establish", "activate"} :
                pc'[Worker(d)] = l <=> pc[Worker(d)] = l,
             NEW w \in Seq(Record), wire' = [wire EXCEPT ![e] = w],
             NoFlight(wire[e]) => NoFlight(w),
             \A k \in 1 .. 4 : OneFlight(wire[e], k) => OneFlight(w, k) \/ NoFlight(w),
             \A d \in Ends \ {e} : record'[d] = record[d]
      PROVE  HandshakeInv'
  <2>1. ~ Handling(e)
    BY <1>4 DEF Handling
  <2>2. wire'[e] = w /\ \A d \in Ends \ {e} : wire'[d] = wire[d]
    BY <1>4 DEF TypeInv
  <2> QED
    BY <1>4, <2>1, <2>2, HandshakeFrame
<1>5. ASSUME NEW e \in Ends, ReceiveEnds(e) PROVE HandshakeInv'
  <2>1. << >> \in Seq(Record) /\ NoFlight(<< >>)
    BY DEF NoFlight
  <2> QED
    BY <1>4, <1>5, <2>1 DEF ReceiveEnds, At
<1>6. ASSUME NEW e \in Ends, ReceiveRecord(e), Head(wire[e]).kind # "flight", UNCHANGED active,
             \A d \in Ends : \A l \in {"flight", "establish", "activate"} :
                pc'[Worker(d)] = l <=> pc[Worker(d)] = l
      PROVE  HandshakeInv'
  <2>1. /\ pc[Worker(e)] = "recv" /\ wire[e] \in Seq(Record) /\ wire[e] # << >>
        /\ wire' = [wire EXCEPT ![e] = Tail(wire[e])]
        /\ record' = [record EXCEPT ![e] = Head(wire[e])]
    BY <1>6 DEF ReceiveRecord, At, TypeInv
  <2>2. Tail(wire[e]) \in Seq(Record)
    BY <2>1
  <2>3. /\ NoFlight(wire[e]) => NoFlight(Tail(wire[e]))
        /\ \A k \in 1 .. 4 : OneFlight(wire[e], k) => OneFlight(Tail(wire[e]), k)
    BY <1>6, <2>1, FlightTail
  <2>4. \A d \in Ends \ {e} : record'[d] = record[d]
    BY <2>1 DEF TypeInv
  <2> HIDE DEF NoFlight, OneFlight
  <2> QED
    BY <1>4, <1>6, <2>1, <2>2, <2>3, <2>4
<1>7. ASSUME NEW e \in Ends, Alert(e) PROVE HandshakeInv'
  BY <1>6, <1>7 DEF Alert
<1>8. ASSUME NEW e \in Ends, Receive(e), Head(wire[e]).kind # "flight" PROVE HandshakeInv'
  <2>1. ReceiveRecord(e) /\ pc[Worker(e)] = "recv" /\ UNCHANGED active
    BY <1>8 DEF Receive, ReceiveRecord, At, connVars
  <2>2. pc' = [pc EXCEPT ![Worker(e)] = "process"]
    BY <1>8 DEF Receive, Goto
  <2>3. \A d \in Ends : \A l \in {"flight", "establish", "activate"} :
           pc'[Worker(d)] = l <=> pc[Worker(d)] = l
    BY <2>1, <2>2, ThreadFacts DEF TypeInv, TypeOK
  <2> QED
    BY <1>6, <1>8, <2>1, <2>3
<1>9. ASSUME NEW e \in Ends, NEW label, \/ pc' = [pc EXCEPT ![Worker(e)] = label]
                                        \/ NotifyAll(Worker(e), label)
      PROVE  /\ pc'[Worker(e)] = label
             /\ Handling(Peer(e)) <=> Handling(Peer(e))'
  <2>1. /\ Worker(e) \in Threads /\ Worker(Peer(e)) \in Threads
        /\ Worker(e)[1] = e /\ Worker(Peer(e))[1] = Peer(e) /\ Peer(e) # e
    BY PeerIs, ThreadFacts
  <2>2. pc'[Worker(e)] = label /\ pc'[Worker(Peer(e))] = pc[Worker(Peer(e))]
    BY <1>9, <2>1 DEF NotifyAll, TypeInv, TypeOK
  <2> QED
    BY <2>2 DEF Handling
<1>10. ASSUME NEW e \in Ends, Receive(e), Head(wire[e]).kind = "flight" PROVE HandshakeInv'
  <2>1. /\ wire[e] \in Seq(Record) /\ wire[e] # << >>
        /\ wire' = [wire EXCEPT ![e] = Tail(wire[e])]
        /\ record' = [record EXCEPT ![e] = Head(wire[e])]
        /\ UNCHANGED active
    BY <1>10 DEF Receive, ReceiveRecord, connVars, TypeInv
  <2>2. PICK k \in 1 .. 4 : OnWire(k)
    <3>1. ~ NoFlight(wire[e])
      BY <1>10, <2>1, FlightTail
    <3> QED
      BY <3>1 DEF HandshakeInv, HandshakeOver, Handled
  <2>3. e = To(k) /\ Peer(e) # e /\ Peer(e) \in Ends
    <3>1. e = To(k) \/ e = Peer(To(k))
      BY PeerIs DEF Ends, To
    <3>2. ~ NoFlight(wire[e])
      BY <1>10, <2>1, FlightTail
    <3> QED
      BY <2>2, <3>1, <3>2, PeerIs DEF OnWire
  <2>4. Head(wire[e]) = Flight(k) /\ NoFlight(Tail(wire[e]))
    BY <1>10, <2>1, <2>2, <2>3, FlightTail DEF OnWire
  <2>5. record'[e] = Flight(k) /\ \A d \in Ends : NoFlight(wire'[d])
    <3>1. \A d \in Ends : d = e \/ d = Peer(e)
      BY PeerIs DEF Ends
    <3>2. wire'[e] = Tail(wire[e]) /\ wire'[Peer(e)] = wire[Peer(e)] /\ record'[e] = Head(wire[e])
      BY <2>1, <2>3 DEF TypeInv
    <3>3. NoFlight(wire'[e]) /\ NoFlight(wire'[Peer(e)])
      BY <2>2, <2>3, <2>4, <3>2 DEF OnWire
    <3> QED
      BY <2>4, <3>1, <3>2, <3>3
  <2>6. Goto(Worker(e), IF k < 3 THEN "flight" ELSE "establish")
    <3>1. Head(wire[e]).kind = "flight" /\ Head(wire[e]).id = k
      BY <2>4 DEF Flight
    <3>2. CASE k < 3
      <4>1. Goto(Worker(e), "flight")
        BY <1>10, <3>1, <3>2 DEF Receive
      <4> QED
        BY <3>2, <4>1
    <3>3. CASE ~ k < 3
      <4>1. Goto(Worker(e), "establish")
        BY <1>10, <3>1, <3>3 DEF Receive
      <4> QED
        BY <3>3, <4>1
    <3> QED
      BY <3>2, <3>3
  <2>7. pc'[Worker(e)] \in HandlingOf(k) /\ ~ Handling(Peer(e))'
    <3>1. ~ Handling(Peer(e))
      BY <2>2, <2>3 DEF OnWire
    <3>2. (IF k < 3 THEN "flight" ELSE "establish") \in HandlingOf(k)
      <4>1. k \in {1, 2} \/ k = 3 \/ k = 4
        OBVIOUS
      <4> QED
        BY <4>1 DEF HandlingOf
    <3> QED
      BY <1>9, <2>6, <3>1, <3>2 DEF Goto
  <2>8. NotActive(k)'
    BY <2>1, <2>2 DEF OnWire, NotActive
  <2>9. Handled(k)'
    BY <2>3, <2>5, <2>7, <2>8 DEF Handled
  <2> QED
    BY <2>9 DEF HandshakeInv
<1>11. ASSUME NEW e \in Ends, EmitFlight(e) PROVE HandshakeInv'
  <2>1. pc[Worker(e)] = "flight" /\ pc' = [pc EXCEPT ![Worker(e)] = "recv"]
    BY <1>11 DEF EmitFlight, At, Goto
  <2>2. PICK k \in 1 .. 4 : e = To(k) /\ Handled(k)
    BY <2>1, HandledBy DEF Handling
  <2>3. k \in 1 .. 3 /\ record[e] = Flight(k) /\ record[e].id = k
    BY <2>1, <2>2 DEF Handled, HandlingOf, Flight
  <2>4. \A d \in Ends : ~ Handling(d)'
    <3>1. \A d \in Ends : d = e \/ d = Peer(e)
      BY PeerIs DEF Ends
    <3>2. pc'[Worker(e)] = "recv" /\ ~ Handling(Peer(e))'
      BY <1>9, <2>1, <2>2 DEF Handled
    <3> QED
      BY <3>1, <3>2 DEF Handling
  <2>5. CASE UNCHANGED wire
    BY <2>2, <2>4, <2>5 DEF Handled, HandshakeInv, HandshakeOver
  <2>6. CASE /\ wire' = [wire EXCEPT ![Peer(e)] = Append(@, Flight(k + 1))]
             /\ active' = [active EXCEPT ![e] = k = 3]
    <3>1. To(k + 1) = Peer(e) /\ Peer(e) \in Ends /\ Peer(Peer(e)) = e /\ Peer(e) # e
      BY <2>2, <2>3, PeerIs DEF To
    <3>2. wire[Peer(e)] \in Seq(Record) /\ NoFlight(wire[e]) /\ NoFlight(wire[Peer(e)])
      BY <2>2, <3>1 DEF Handled, TypeInv
    <3>3. OneFlight(Append(wire[Peer(e)], Flight(k + 1)), k + 1)
      BY <2>3, <3>2, FlightAppend, RecordTypes
    <3>4. OneFlight(wire'[Peer(e)], k + 1) /\ NoFlight(wire'[e])
      BY <2>6, <3>1, <3>2, <3>3 DEF TypeInv
    <3>5. NotActive(k + 1)'
      <4>1. active'["client"] = FALSE
        BY <2>2, <2>3, <2>6 DEF Handled, NotActive, To, Ends, TypeInv, TypeOK
      <4>2. k # 3 => active'["server"] = FALSE
        BY <2>2, <2>3, <2>6 DEF Handled, NotActive, To, Ends, TypeInv, TypeOK
      <4> QED
        BY <2>3, <4>1, <4>2 DEF NotActive
    <3>6. OnWire(k + 1)'
      BY <2>4, <3>1, <3>4, <3>5 DEF OnWire
    <3> QED
      BY <2>3, <3>6 DEF HandshakeInv
  <2> QED
    BY <1>11, <2>3, <2>5, <2>6 DEF EmitFlight, Emit
<1>12. ASSUME NEW e \in Ends, SessionEstablished(e) PROVE HandshakeInv'
  <2>1. /\ pc[Worker(e)] = "establish" /\ UNCHANGED << active, wire, record >>
        /\ NotifyAll(Worker(e), IF e = "server" THEN "flight" ELSE "activate")
    BY <1>12 DEF SessionEstablished, Established, At
  <2>2. PICK k \in 1 .. 4 : e = To(k) /\ Handled(k)
    BY <2>1, HandledBy DEF Handling
  <2>3. (IF e = "server" THEN "flight" ELSE "activate") \in HandlingOf(k)
    BY <2>1, <2>2 DEF Handled, HandlingOf, To
  <2>4. pc'[Worker(e)] \in HandlingOf(k) /\ ~ Handling(Peer(e))'
    BY <1>9, <2>1, <2>2, <2>3 DEF Handled
  <2>5. Handled(k)'
    BY <2>1, <2>2, <2>4 DEF Handled, NotActive
  <2> QED
    BY <2>5 DEF HandshakeInv
<1>13. ASSUME NEW e \in Ends, Activate(e) PROVE HandshakeInv'
  <2>1. /\ pc[Worker(e)] = "activate" /\ UNCHANGED wire
        /\ pc' = [pc EXCEPT ![Worker(e)] = "recv"]
    BY <1>13 DEF Activate, At, Goto
  <2>2. PICK k \in 1 .. 4 : e = To(k) /\ Handled(k)
    BY <2>1, HandledBy DEF Handling
  <2>3. \A d \in Ends : d = e \/ d = Peer(e)
    BY PeerIs DEF Ends
  <2>4. pc'[Worker(e)] = "recv" /\ ~ Handling(Peer(e))'
    BY <1>9, <2>1, <2>2 DEF Handled
  <2> QED
    BY <2>1, <2>2, <2>3, <2>4 DEF Handling, Handled, HandshakeOver, HandshakeInv
<1> QED
  BY <1>2, <1>3, <1>5, <1>7, <1>8, <1>10, <1>11, <1>12, <1>13, Zenon DEF Next, WorkerStep

\* A channel that can send stays one, and a message is begun by such a one.
LEMMA ActiveStep ==
    ASSUME TypeInv, HandshakeInv, ActiveInv, Next
    PROVE  ActiveInv'
<1>1. \A e \in Ends : active[e] => active'[e]
  <2>1. CASE UNCHANGED active
    BY <2>1
  <2>2. ASSUME NEW e \in Ends, EmitFlight(e) PROVE \A d \in Ends : ~ active[d]
    <3>1. pc[Worker(e)] = "flight"
      BY <2>2 DEF EmitFlight, At
    <3>2. PICK k \in 1 .. 4 : e = To(k) /\ Handled(k)
      BY <3>1, HandledBy DEF Handling
    <3> QED
      BY <3>1, <3>2 DEF Handled, HandlingOf, NotActive, Ends
  <2>3. ASSUME NEW e \in Ends, Activate(e) PROVE \A d \in Ends : active[d] => active'[d]
    BY <2>3 DEF Activate, TypeInv, TypeOK
  <2>4. \/ UNCHANGED active
        \/ \E e \in Ends : EmitFlight(e) \/ Activate(e)
    BY Zenon DEF Next, CallWait, CallSend, CloseSocket, ThreadStep, WaitConnected, SendLock,
       SendHeader, SendPayload, ChannelSend, SendThrows, SendCatch, ResetBuffer, Notify, connVars,
       WorkerStep, OnReadReady, Receive, ReceiveNothing, ReceiveEnds, SessionEstablished, Alert,
       RecordReceived, ProcessBuffer, ProcessReset, ProcessEnds, RecordInvalid
  <2> QED
    BY <2>1, <2>2, <2>3, <2>4
<1>2. ASSUME NEW u \in Threads, pc'[u] = "payload" PROVE pc[u] = "payload" \/ active[u[1]]
  <2>1. ASSUME NEW t \in Threads,
               CallWait(t) \/ CallSend(t) \/ CloseSocket(t) \/ ThreadStep(t)
        PROVE  pc[u] = "payload" \/ active[u[1]]
    <3>1. CASE NoSending
      BY <1>2, <3>1 DEF NoSending
    <3>2. CASE \/ SendLock(t) \/ SendPayload(t) \/ SendThrows(t)
      <4>1. \E label \in {"header", "idle", "catch"} : pc' = [pc EXCEPT ![t] = label]
        BY <3>2 DEF SendLock, SendPayload, SendThrows, Goto
      <4> QED
        BY <1>2, <4>1 DEF TypeInv, TypeOK
    <3>3. ASSUME NEW payload \in Payloads, SendHeader(t, payload)
          PROVE  pc[u] = "payload" \/ active[u[1]]
      <4>1. active[t[1]] /\ pc' = [pc EXCEPT ![t] = "payload"]
        BY <3>3 DEF SendHeader, ChannelSend, Goto
      <4> QED
        BY <1>2, <4>1 DEF TypeInv, TypeOK
    <3> QED
      BY <2>1, <3>1, <3>2, <3>3, SendingSteps, Zenon DEF ThreadStep
  <2>2. ASSUME NEW e \in Ends, WorkerStep(e) PROVE pc[u] = "payload"
    BY <1>2, <2>2, SendingSteps DEF NoSending
  <2> QED
    BY <2>1, <2>2, Zenon DEF Next
<1> QED
  BY <1>1, <1>2, ThreadFacts DEF ActiveInv

----------------------------------------------------------------------------
(* The two directions.                                                      *)

\* The records that are due are records.
LEMMA ChainTypes ==
    ASSUME TypeInv, NEW e \in Ends
    PROVE  /\ \A s : \A r \in Record : Following(s, r) \in Record
           /\ Expected(e) \in Record /\ Coming(e) \in Record /\ Produced(e) \in Record
<1>1. \A s : \A r \in Record : Following(s, r) \in Record
  BY DEF Following, Record, Payload, Header
<1>2. Expected(e) \in Record
  BY RecordTypes DEF Expected, TypeInv, TypeOK
<1>3. Coming(e) \in Record
  BY <1>1, <1>2 DEF Coming, TypeInv
<1>4. Produced(e) \in Record
  BY RecordTypes DEF Produced, TypeInv, TypeOK
<1> QED
  BY <1>1, <1>2, <1>3, <1>4

\* A step in which the receiver has no part; the peer may announce a message.
LEMMA ReceiveFrame ==
    ASSUME TypeInv, NEW e \in Ends, ReceiveInv(e),
           header'[e] = header[e], delivered'[e] = delivered[e], record'[e] = record[e],
           Processing(e)' <=> Processing(e),
           \/ sent'[Peer(e)] = sent[Peer(e)]
           \/ \E n \in Nat : sent'[Peer(e)] = Append(sent[Peer(e)], n)
    PROVE  ReceiveInv(e)' /\ Coming(e)' = Coming(e)
<1>1. Expected(e)' = Expected(e)
  BY DEF Expected
<1>2. CASE sent'[Peer(e)] = sent[Peer(e)]
  BY <1>1, <1>2 DEF ReceiveInv, Coming
<1>3. CASE \E n \in Nat : sent'[Peer(e)] = Append(sent[Peer(e)], n)
  <2>1. PICK n \in Nat : sent'[Peer(e)] = Append(sent[Peer(e)], n)
    BY <1>3
  <2>2. sent[Peer(e)] \in Seq(Nat)
    BY PeerIs, SentType
  <2>3. /\ Len(sent'[Peer(e)]) = Len(sent[Peer(e)]) + 1 /\ Len(sent[Peer(e)]) \in Nat
        /\ \A i \in 1 .. Len(sent[Peer(e)]) : sent'[Peer(e)][i] = sent[Peer(e)][i]
    BY <2>1, <2>2
  <2>4. header[e] \in Nat
    BY DEF TypeInv, TypeOK
  <2>5. header[e] # 0 => header[e] \in 1 .. Len(sent[Peer(e)])
    BY <2>3, <2>4 DEF ReceiveInv
  <2>6. ReceiveInv(e)'
    BY <1>1, <2>3, <2>5 DEF ReceiveInv
  <2>7. Coming(e)' = Coming(e)
    BY <1>1, <2>3 DEF ReceiveInv, Coming, Following
  <2> QED
    BY <2>6, <2>7
<1> QED
  BY <1>2, <1>3

\* A step in which the peer writes no data.
LEMMA ChainFrame ==
    ASSUME TypeInv, TypeInv', NEW e \in Ends, ChainInv(e), NoReopening, Coming(e)' = Coming(e),
           \/ wire'[e] = wire[e]
           \/ \E r \in Record : ~ IsData(r) /\ wire'[e] = Append(wire[e], r),
           \/ sent'[Peer(e)] = sent[Peer(e)]
           \/ \E n \in Nat : sent'[Peer(e)] = Append(sent[Peer(e)], n),
           Stopped(Peer(e))' \/ Produced(Peer(e))' = Produced(Peer(e))
    PROVE  ChainInv(e)'
<1>1. PICK b \in Record :
         /\ Reaches(wire[e], sent[Peer(e)], Coming(e), b)
         /\ Stopped(Peer(e)) \/ b = Produced(Peer(e))
  BY DEF ChainInv
<1>2. Peer(e) \in Ends /\ Peer(Peer(e)) = e
  BY PeerIs
<1>3. Stopped(Peer(e)) => Stopped(Peer(e))'
  BY <1>2 DEF Stopped, NoReopening
<1>4. wire[e] \in Seq(Record) /\ Coming(e) \in Record /\ sent[Peer(e)] \in Seq(Nat)
  BY <1>2, ChainTypes, SentType DEF TypeInv
<1>5. Reaches(wire'[e], sent[Peer(e)], Coming(e), b)
  <2>1. ASSUME NEW r \in Record, ~ IsData(r), wire'[e] = Append(wire[e], r)
        PROVE  Reaches(wire'[e], sent[Peer(e)], Coming(e), b)
    <3>1. Links(r, b, b, sent[Peer(e)])
      BY <2>1 DEF Links
    <3> QED
      BY <1>1, <1>4, <2>1, <3>1, ReachAppend
  <2> QED
    BY <1>1, <2>1
<1>6. wire'[e] \in Seq(Record)
  BY DEF TypeInv
<1>7. Reaches(wire'[e], sent'[Peer(e)], Coming(e), b)
  BY <1>4, <1>5, <1>6, ReachGrow
<1> QED
  BY <1>1, <1>3, <1>7 DEF ChainInv

\* What an end writes next depends on its own threads only.
LEMMA ProducedFrame ==
    ASSUME NEW x \in Ends, sent'[x] = sent[x],
           \A u \in Threads : u[1] = x => (pc'[u] = "payload" <=> pc[u] = "payload")
    PROVE  Produced(x)' = Produced(x)
<1>1. InMessage(x)' <=> InMessage(x)
  BY DEF InMessage
<1> QED
  BY <1>1 DEF Produced

\* The wire of one direction after a write.
LEMMA EmitWires ==
    ASSUME TypeInv, NEW x \in Ends, NEW r \in Record, Emit(x, r)
    PROVE  /\ wire'[x] = wire[x]
           /\ \/ wire'[Peer(x)] = wire[Peer(x)] /\ Stopped(x)
              \/ wire'[Peer(x)] = Append(wire[Peer(x)], r)
<1>1. Peer(x) \in Ends /\ Peer(x) # x
  BY PeerIs
<1>2. CASE fd[Peer(x)] # "open" /\ UNCHANGED wire
  BY <1>2 DEF Stopped
<1>3. CASE wire' = [wire EXCEPT ![Peer(x)] = Append(@, r)]
  BY <1>1, <1>3 DEF TypeInv
<1> QED
  BY <1>2, <1>3 DEF Emit

\* Steps of threads that are not inside TlsContext::send().
LEMMA OtherThreadStream ==
    ASSUME TypeInv, TypeInv', StreamInv, NoReopening, NoRereading, NEW t \in Threads,
           \/ CallWait(t) \/ CallSend(t) \/ WaitConnected(t) \/ ResetBuffer(t)
           \/ SendLock(t) \/ SendCatch(t) \/ CloseSocket(t) \/ Notify(t)
    PROVE  StreamInv'
<1> SUFFICES ASSUME NEW e \in Ends, Reading(e)' PROVE ReceiveInv(e)' /\ ChainInv(e)'
  BY DEF StreamInv
<1>1. NoHandling /\ Peer(e) \in Ends /\ t[1] \in Ends
  BY HandlingSteps, PeerIs, ThreadFacts DEF ThreadStep
<1>2. /\ UNCHANGED sent
      /\ \A u \in Threads : pc'[u] = "payload" <=> pc[u] = "payload"
  <2>1. CASE SendLock(t)
    <3>1. pc[t] = "lock" /\ pc' = [pc EXCEPT ![t] = "header"] /\ UNCHANGED sent
      BY <2>1 DEF SendLock, At, Goto, userVars
    <3> QED
      BY <3>1 DEF TypeInv, TypeOK
  <2>2. CASE NoSending
    BY <2>2 DEF NoSending
  <2> QED
    BY <2>1, <2>2, SendingSteps
<1>3. wire'[e] = wire[e] \/ \E r \in Record : ~ IsData(r) /\ wire'[e] = Append(wire[e], r)
  <2>1. UNCHANGED wire \/ Emit(t[1], CloseNotify)
    BY Zenon DEF CallWait, CallSend, WaitConnected, SendLock, SendCatch, CloseSocket,
       ResetBuffer, Notify
  <2>2. e = t[1] \/ e = Peer(t[1])
    BY <1>1, PeerIs DEF Ends
  <2> QED
    BY <1>1, <2>1, <2>2, EmitWires, RecordTypes
<1>4. ReceiveInv(e) /\ ChainInv(e)
  BY DEF StreamInv, NoRereading
<1>5. ReceiveInv(e)' /\ Coming(e)' = Coming(e)
  BY <1>1, <1>2, <1>4, ReceiveFrame DEF NoHandling, Processing
<1>6. Produced(Peer(e))' = Produced(Peer(e))
  BY <1>1, <1>2, ProducedFrame
<1> QED
  BY <1>1, <1>2, <1>3, <1>4, <1>5, <1>6, ChainFrame

\* Sending a message does not touch the other direction.
LEMMA OtherDirection ==
    ASSUME TypeInv, TypeInv', StreamInv, NoReopening, NoRereading, NoHandling,
           NEW t \in Threads, NEW label, Reading(t[1])', pc' = [pc EXCEPT ![t] = label],
           sent'[Peer(t[1])] = sent[Peer(t[1])], wire'[t[1]] = wire[t[1]]
    PROVE  ReceiveInv(t[1])' /\ ChainInv(t[1])'
<1> DEFINE e == t[1]
<1>1. e \in Ends /\ Peer(e) \in Ends /\ Peer(e) # e
  BY PeerIs, ThreadFacts
<1>2. ReceiveInv(e) /\ ChainInv(e)
  BY <1>1 DEF StreamInv, NoRereading
<1>3. ReceiveInv(e)' /\ Coming(e)' = Coming(e)
  BY <1>1, <1>2, ReceiveFrame DEF NoHandling, Processing
<1>4. \A u \in Threads : u[1] = Peer(e) => (pc'[u] = "payload" <=> pc[u] = "payload")
  BY <1>1 DEF TypeInv, TypeOK
<1>5. Produced(Peer(e))' = Produced(Peer(e))
  BY <1>1, <1>4, ProducedFrame
<1> QED
  BY <1>1, <1>2, <1>3, <1>5, ChainFrame

\* Writing a data record: the one that is due, on a connection that is up.
LEMMA DataWritten ==
    ASSUME TypeInv, NEW x \in Ends, NEW r \in Record, NEW s \in Seq(Nat), NEW c \in Record,
           ChainInv(Peer(x)), ~ Stopped(x), Coming(Peer(x))' = Coming(Peer(x)),
           wire'[Peer(x)] = Append(wire[Peer(x)], r), sent'[x] = s,
           s = sent[x] \/ \E n \in Nat : s = Append(sent[x], n),
           IsData(r), r = Produced(x), r.id \in 1 .. Len(s), c = Following(s, r),
           c = Produced(x)'
    PROVE  ChainInv(Peer(x))'
<1> DEFINE e == Peer(x)
<1>1. e \in Ends /\ Peer(e) = x
  BY PeerIs
<1>2. Reaches(wire[e], sent[x], Coming(e), r)
  BY <1>1 DEF ChainInv
<1>3. wire[e] \in Seq(Record) /\ Coming(e) \in Record /\ sent[x] \in Seq(Nat)
  BY <1>1, ChainTypes, SentType DEF TypeInv
<1>4. Reaches(wire[e], s, Coming(e), r)
  BY <1>2, <1>3, ReachGrow
<1>5. Links(r, r, c, s)
  BY DEF Links
<1>6. Reaches(Append(wire[e], r), s, Coming(e), c)
  BY <1>3, <1>4, <1>5, ReachAppend
<1> QED
  BY <1>1, <1>6 DEF ChainInv

\* A write that fails finds the connection closed.
LEMMA WriteStops ==
    ASSUME TypeInv, NoReopening, NEW t \in Threads, NEW r \in Record, ChannelSend(t, r)
    PROVE  /\ active[t[1]] /\ ~ finished[t[1]] /\ wire'[t[1]] = wire[t[1]]
           /\ \/ wire'[Peer(t[1])] = wire[Peer(t[1])] /\ Stopped(t[1])'
              \/ wire'[Peer(t[1])] = Append(wire[Peer(t[1])], r) /\ ~ Stopped(t[1])
<1>1. t[1] \in Ends /\ Peer(t[1]) \in Ends
  BY PeerIs, ThreadFacts
<1>2. Stopped(t[1]) => Stopped(t[1])'
  BY <1>1 DEF Stopped, NoReopening
<1>3. CASE Emit(t[1], r)
  <2>1. CASE fd[Peer(t[1])] # "open" /\ UNCHANGED wire
    <3>1. Stopped(t[1])
      BY <2>1 DEF Stopped
    <3> QED
      BY <1>2, <2>1, <3>1 DEF ChannelSend
  <2>2. CASE fd[Peer(t[1])] = "open" /\ wire' = [wire EXCEPT ![Peer(t[1])] = Append(@, r)]
    <3>1. ~ Stopped(t[1])
      BY <1>3, <2>2 DEF Stopped, ChannelSend, Emit
    <3> QED
      BY <1>1, <2>2, <3>1, PeerIs DEF TypeInv, ChannelSend
  <2> QED
    BY <1>3, <2>1, <2>2 DEF Emit
<1>4. CASE EmitBroken(t[1]) /\ UNCHANGED wire
  <2>1. Stopped(t[1])
    BY <1>4 DEF EmitBroken, Stopped
  <2> QED
    BY <1>2, <1>4, <2>1 DEF ChannelSend
<1> QED
  BY <1>3, <1>4 DEF ChannelSend

\* The header of a message is written, or the connection is gone.
LEMMA HeaderStream ==
    ASSUME TypeInv, TypeInv', SendMutexInv, StreamInv, NoReopening, NoRereading,
           NEW t \in Threads, NEW payload \in Payloads, SendHeader(t, payload)
    PROVE  StreamInv'
<1> DEFINE x == t[1]
           e == Peer(x)
           n == Len(sent[x]) + 1
           s == Append(sent[x], HEADER_SIZE + payload)
<1>1. x \in Ends /\ e \in Ends /\ Peer(e) = x /\ e # x /\ Ends = {x, e}
  BY PeerIs, ThreadFacts DEF Ends
<1>2. sent[x] \in Seq(Nat) /\ HEADER_SIZE + payload \in Nat /\ n \in Nat
  BY <1>1, SentType
<1>3. s \in Seq(Nat) /\ Len(s) = n /\ s[n] = HEADER_SIZE + payload
  BY <1>2
<1>4. /\ pc[t] = "header" /\ pc' = [pc EXCEPT ![t] = "payload"]
      /\ ChannelSend(t, Header(n)) /\ sent' = [sent EXCEPT ![x] = s]
  BY DEF SendHeader, At, Goto
<1>5. sent'[x] = s /\ sent'[e] = sent[e]
  BY <1>1, <1>4 DEF TypeInv, TypeOK
<1>6. NoHandling
  BY HandlingSteps DEF ThreadStep
<1>7. Header(n) \in Record /\ IsData(Header(n)) /\ Header(n).id = n
  BY <1>2, RecordTypes DEF Header
<1>8. /\ wire'[x] = wire[x]
      /\ \/ wire'[e] = wire[e] /\ Stopped(x)'
         \/ wire'[e] = Append(wire[e], Header(n)) /\ ~ Stopped(x)
  BY <1>4, <1>7, WriteStops
<1>9. Reading(x)' => ReceiveInv(x)' /\ ChainInv(x)'
  BY <1>4, <1>5, <1>6, <1>8, OtherDirection
<1> SUFFICES ASSUME Reading(e)' PROVE ReceiveInv(e)' /\ ChainInv(e)'
  BY <1>1, <1>9 DEF StreamInv
<1>10. ReceiveInv(e)' /\ Coming(e)' = Coming(e)
  <2>1. ReceiveInv(e)
    BY <1>1 DEF StreamInv, NoRereading
  <2> QED
    BY <1>1, <1>2, <1>5, <1>6, <2>1, ReceiveFrame DEF NoHandling, Processing
<1>11. Produced(x) = Header(n)
  <2>1. ~ InMessage(x)
    BY <1>4, OneSender DEF InMessage
  <2> QED
    BY <2>1 DEF Produced
<1>12. Produced(x)' = Following(s, Header(n))
  <2>1. InMessage(x)'
    <3>1. pc'[t] = "payload"
      BY <1>4 DEF TypeInv, TypeOK
    <3> QED
      BY <3>1 DEF InMessage
  <2>2. Produced(x)' = IF s[n] > HEADER_SIZE THEN Payload(n) ELSE Header(n + 1)
    BY <1>3, <1>5, <2>1 DEF Produced
  <2> QED
    BY <2>2 DEF Following, Header
<1>13. n \in 1 .. Len(s)
  BY <1>2, <1>3
<1> HIDE DEF n, s
<1>14. ChainInv(e)'
  <2>1. ChainInv(e)
    BY <1>1 DEF StreamInv, NoRereading
  <2>2. s = sent[x] \/ \E m \in Nat : s = Append(sent[x], m)
    BY <1>2 DEF s
  <2>3. CASE wire'[e] = wire[e] /\ Stopped(x)'
    BY <1>1, <1>5, <1>10, <2>1, <2>2, <2>3, ChainFrame
  <2>4. CASE wire'[e] = Append(wire[e], Header(n)) /\ ~ Stopped(x)
    <3>1. Following(s, Header(n)) \in Record
      BY <1>1, <1>7, ChainTypes
    <3> QED
      BY <1>1, <1>3, <1>5, <1>7, <1>10, <1>11, <1>12, <1>13, <2>1, <2>2, <2>4, <3>1, DataWritten
  <2> QED
    BY <1>8, <2>3, <2>4
<1> QED
  BY <1>10, <1>14

\* So is its payload, and the lock is released.
LEMMA PayloadStream ==
    ASSUME TypeInv, TypeInv', SendMutexInv, StreamInv, NoReopening, NoRereading,
           NEW t \in Threads, SendPayload(t)
    PROVE  StreamInv'
<1> DEFINE x == t[1]
           e == Peer(x)
           n == Len(sent[x])
<1>1. x \in Ends /\ e \in Ends /\ Peer(e) = x /\ e # x /\ Ends = {x, e}
  BY PeerIs, ThreadFacts DEF Ends
<1>2. sent[x] \in Seq(Nat) /\ n \in Nat
  BY <1>1, SentType
<1>3. /\ pc[t] = "payload" /\ pc' = [pc EXCEPT ![t] = "idle"] /\ UNCHANGED sent
      /\ message[t] = n /\ n > 0
  BY DEF SendPayload, At, Goto, userVars, SendMutexInv
<1>4. NoHandling
  BY HandlingSteps DEF ThreadStep
<1>5. Payload(n) \in Record /\ IsData(Payload(n)) /\ Payload(n).id = n
  BY <1>2, RecordTypes DEF Payload
<1>6. InMessage(x) /\ ~ InMessage(x)'
  <2>1. ASSUME NEW u \in Threads, u[1] = x, pc'[u] = "payload" PROVE FALSE
    <3>1. u # t /\ pc[u] = "payload"
      BY <1>3, <2>1 DEF TypeInv, TypeOK
    <3> QED
      BY <1>3, <2>1, <3>1, OneSender
  <2> QED
    BY <1>3, <2>1 DEF InMessage
<1>7. Produced(x)' = Header(n + 1)
  BY <1>3, <1>6 DEF Produced
<1>8. ASSUME wire'[x] = wire[x], Reading(e)' => ReceiveInv(e)' /\ ChainInv(e)'
      PROVE  StreamInv'
  BY <1>1, <1>3, <1>4, <1>8, OtherDirection DEF StreamInv
<1>9. CASE sent[x][n] > HEADER_SIZE
  <2>1. ChannelSend(t, Payload(n))
    BY <1>3, <1>9 DEF SendPayload
  <2>2. /\ wire'[x] = wire[x]
        /\ \/ wire'[e] = wire[e] /\ Stopped(x)'
           \/ wire'[e] = Append(wire[e], Payload(n)) /\ ~ Stopped(x)
    BY <1>5, <2>1, WriteStops
  <2>3. Produced(x) = Payload(n) /\ Following(sent[x], Payload(n)) = Header(n + 1)
    BY <1>6, <1>9 DEF Produced, Following, Payload
  <2>4. SUFFICES ASSUME Reading(e)' PROVE ReceiveInv(e)' /\ ChainInv(e)'
    BY <1>8, <2>2
  <2>5. ReceiveInv(e) /\ ChainInv(e)
    BY <1>1, <2>4 DEF StreamInv, NoRereading
  <2>6. ReceiveInv(e)' /\ Coming(e)' = Coming(e)
    BY <1>1, <1>3, <1>4, <2>5, ReceiveFrame DEF NoHandling, Processing
  <2>7. Header(n + 1) \in Record /\ n \in 1 .. Len(sent[x]) /\ sent'[x] = sent[x]
    BY <1>2, <1>3, RecordTypes
  <2> HIDE DEF n
  <2>8. ASSUME wire'[e] = wire[e] /\ Stopped(x)' PROVE ChainInv(e)'
    BY <1>1, <2>5, <2>6, <2>7, <2>8, ChainFrame
  <2>9. ASSUME wire'[e] = Append(wire[e], Payload(n)) /\ ~ Stopped(x) PROVE ChainInv(e)'
    BY <1>1, <1>2, <1>5, <1>7, <2>3, <2>5, <2>6, <2>7, <2>9, DataWritten
  <2> QED
    BY <2>2, <2>6, <2>8, <2>9
<1>10. CASE ~ sent[x][n] > HEADER_SIZE
  <2>1. UNCHANGED wire
    BY <1>3, <1>10 DEF SendPayload
  <2>2. Produced(x) = Header(n + 1)
    BY <1>10 DEF Produced
  <2>3. SUFFICES ASSUME Reading(e)' PROVE ReceiveInv(e)' /\ ChainInv(e)'
    BY <1>8, <2>1
  <2>4. ReceiveInv(e) /\ ChainInv(e)
    BY <1>1, <2>3 DEF StreamInv, NoRereading
  <2>5. ReceiveInv(e)' /\ Coming(e)' = Coming(e)
    BY <1>1, <1>3, <1>4, <2>4, ReceiveFrame DEF NoHandling, Processing
  <2>6. Produced(x)' = Produced(x)
    BY <1>7, <2>2
  <2>7. ChainInv(e)'
    BY <1>1, <1>3, <2>1, <2>4, <2>5, <2>6, ChainFrame
  <2> QED
    BY <2>5, <2>7
<1> QED
  BY <1>9, <1>10

\* send() gives up between the records of a message only when the connection
\* is closed.
LEMMA ThrowStream ==
    ASSUME TypeInv, TypeInv', ActiveInv, StreamInv, NoReopening, NoRereading,
           NEW t \in Threads, SendThrows(t)
    PROVE  StreamInv'
<1> DEFINE x == t[1]
           e == Peer(x)
<1>1. x \in Ends /\ e \in Ends /\ Peer(e) = x /\ e # x /\ Ends = {x, e}
  BY PeerIs, ThreadFacts DEF Ends
<1>2. /\ pc[t] \in {"header", "payload"} /\ pc' = [pc EXCEPT ![t] = "catch"]
      /\ UNCHANGED << sent, wire >>
  BY DEF SendThrows, At, Goto, userVars
<1>3. NoHandling
  BY HandlingSteps DEF ThreadStep
<1>4. SUFFICES ASSUME Reading(e)' PROVE ReceiveInv(e)' /\ ChainInv(e)'
  BY <1>1, <1>2, <1>3, OtherDirection DEF StreamInv
<1>5. ReceiveInv(e) /\ ChainInv(e)
  BY <1>1, <1>4 DEF StreamInv, NoRereading
<1>6. ReceiveInv(e)' /\ Coming(e)' = Coming(e)
  BY <1>1, <1>2, <1>3, <1>5, ReceiveFrame DEF NoHandling, Processing
<1>7. Stopped(x)' \/ Produced(x)' = Produced(x)
  <2>1. CASE pc[t] = "header"
    <3>1. \A u \in Threads : pc'[u] = "payload" <=> pc[u] = "payload"
      BY <1>2, <2>1 DEF TypeInv, TypeOK
    <3> QED
      BY <1>1, <1>2, <3>1, ProducedFrame
  <2>2. CASE pc[t] = "payload"
    <3>1. active[x]
      BY <2>2 DEF ActiveInv
    <3>2. finished[x] \/ fd[x] = "closed"
      BY <3>1 DEF SendThrows, EmitThrows
    <3> QED
      BY <1>1, <3>2 DEF Stopped, NoReopening
  <2> QED
    BY <1>2, <2>1, <2>2
<1>8. ChainInv(e)'
  BY <1>1, <1>2, <1>5, <1>6, <1>7, ChainFrame
<1> QED
  BY <1>6, <1>8

\* The worker reads a record or processes it.
LEMMA WorkerStream ==
    ASSUME TypeInv, TypeInv', StreamInv, ResetInv, NoReopening, NoRereading,
           NEW w \in Ends, WorkerStep(w)
    PROVE  StreamInv'
<1> DEFINE x == Peer(w)
<1>1. /\ x \in Ends /\ Peer(x) = w /\ x # w /\ Ends = {x, w}
      /\ Worker(w) \in Threads /\ Worker(x) \in Threads
      /\ Worker(w)[1] = w /\ Worker(x)[1] = x
  BY PeerIs, ThreadFacts DEF Ends
<1>2. UNCHANGED sent /\ \A u \in Threads : pc'[u] = "payload" <=> pc[u] = "payload"
  BY SendingSteps DEF NoSending
<1>3. \A e \in Ends : Produced(e)' = Produced(e)
  BY <1>2, ProducedFrame
<1>4. /\ header'[x] = header[x] /\ delivered'[x] = delivered[x] /\ record'[x] = record[x]
      /\ Processing(x)' <=> Processing(x)
  <2>1. /\ UNCHANGED record \/ record' = [record EXCEPT ![w] = Head(wire[w])]
        /\ UNCHANGED header \/ \E h : header' = [header EXCEPT ![w] = h]
        /\ UNCHANGED delivered \/ \E d : delivered' = [delivered EXCEPT ![w] = d]
    BY Zenon DEF WorkerStep, OnReadReady, Receive, ReceiveRecord, ReceiveNothing, ReceiveEnds,
       EmitFlight, SessionEstablished, Activate, Alert, RecordReceived, ProcessBuffer,
       ProcessReset, ProcessEnds, RecordInvalid, slicerVars
  <2>2. \/ UNCHANGED pc
        \/ \E label : pc' = [pc EXCEPT ![Worker(w)] = label]
        \/ \E label : NotifyAll(Worker(w), label)
    BY Zenon DEF WorkerStep, OnReadReady, Receive, ReceiveNothing, ReceiveEnds,
       EmitFlight, SessionEstablished, Established, Activate, Alert, RecordReceived,
       ProcessBuffer, ProcessReset, ProcessEnds, RecordInvalid, Goto
  <2>3. Processing(x)' <=> Processing(x)
    <3>1. Worker(x) # Worker(w)
      BY <1>1
    <3>2. ASSUME NEW label, pc' = [pc EXCEPT ![Worker(w)] = label]
          PROVE  pc'[Worker(x)] = pc[Worker(x)]
      BY <1>1, <3>1, <3>2 DEF TypeInv, TypeOK
    <3>3. ASSUME NEW label, NotifyAll(Worker(w), label)
          PROVE  pc'[Worker(x)] = pc[Worker(x)]
      BY <1>1, <3>1, <3>3 DEF NotifyAll
    <3> QED
      BY <2>2, <3>2, <3>3 DEF Processing
  <2>4. header'[x] = header[x] /\ delivered'[x] = delivered[x] /\ record'[x] = record[x]
    <3>1. record'[x] = record[x]
      BY <1>1, <2>1 DEF TypeInv
    <3>2. header'[x] = header[x]
      BY <1>1, <2>1, SMTT(30) DEF TypeInv, TypeOK
    <3>3. delivered'[x] = delivered[x]
      BY <1>1, <2>1, SMTT(30) DEF TypeInv, TypeOK
    <3> QED
      BY <3>1, <3>2, <3>3
  <2> QED
    BY <2>3, <2>4
\* What the worker writes is a flight.
<1>5. ASSUME Reading(x)' PROVE ReceiveInv(x)' /\ ChainInv(x)'
  <2>1. ReceiveInv(x) /\ ChainInv(x)
    BY <1>1, <1>5 DEF StreamInv, NoRereading
  <2>2. ReceiveInv(x)' /\ Coming(x)' = Coming(x)
    BY <1>1, <1>2, <1>4, <2>1, ReceiveFrame
  <2>3. \/ wire'[x] = wire[x]
        \/ \E r \in Record : ~ IsData(r) /\ wire'[x] = Append(wire[x], r)
    <3>1. record[w].id + 1 \in Nat
      BY DEF TypeInv, Record
    <3>2. \/ UNCHANGED wire
          \/ \E v : wire' = [wire EXCEPT ![w] = v]
          \/ Emit(w, Flight(record[w].id + 1))
      BY Zenon DEF WorkerStep, OnReadReady, Receive, ReceiveRecord, ReceiveNothing, ReceiveEnds,
         EmitFlight, SessionEstablished, Activate, Alert, RecordReceived, ProcessBuffer,
         ProcessReset, ProcessEnds, RecordInvalid
    <3>3. CASE \E v : wire' = [wire EXCEPT ![w] = v]
      BY <1>1, <3>3 DEF TypeInv
    <3>4. CASE Emit(w, Flight(record[w].id + 1))
      BY <3>1, <3>4, EmitWires, RecordTypes
    <3> QED
      BY <3>2, <3>3, <3>4
  <2> QED
    BY <1>1, <1>2, <1>3, <2>1, <2>2, <2>3, ChainFrame
<1>6. SUFFICES ASSUME Reading(w)' PROVE ReceiveInv(w)' /\ ChainInv(w)'
  BY <1>1, <1>5 DEF StreamInv
<1>7. ReceiveInv(w) /\ ChainInv(w)
  BY <1>6 DEF StreamInv, NoRereading
\* The worker handles no data.
<1>8. ASSUME wire'[w] = wire[w], header'[w] = header[w], delivered'[w] = delivered[w],
             record'[w] = record[w], Processing(w)' <=> Processing(w)
      PROVE  ReceiveInv(w)' /\ ChainInv(w)'
  <2>1. ReceiveInv(w)' /\ Coming(w)' = Coming(w)
    BY <1>1, <1>2, <1>7, <1>8, ReceiveFrame
  <2> QED
    BY <1>1, <1>2, <1>3, <1>7, <1>8, <2>1, ChainFrame
<1>9. CASE \/ OnReadReady(w) \/ ReceiveNothing(w) \/ Activate(w) \/ RecordReceived(w)
           \/ RecordInvalid(w)
  <2>1. UNCHANGED << wire, header, delivered, record >>
    BY <1>9 DEF OnReadReady, ReceiveNothing, Activate, RecordReceived, RecordInvalid, slicerVars
  <2>2. Processing(w)' <=> Processing(w)
    <3>1. \/ UNCHANGED pc
          \/ /\ pc[Worker(w)] \in {"idle", "recv", "activate"}
             /\ \E label \in {"idle", "recv"} : pc' = [pc EXCEPT ![Worker(w)] = label]
          \/ pc[Worker(w)] = "process" /\ pc' = [pc EXCEPT ![Worker(w)] = "slice"]
      BY <1>9 DEF OnReadReady, ReceiveNothing, Activate, RecordReceived, RecordInvalid, At, Goto
    <3>2. CASE UNCHANGED pc
      BY <3>2 DEF Processing
    <3>3. CASE /\ pc[Worker(w)] \in {"idle", "recv", "activate"}
               /\ \E label \in {"idle", "recv"} : pc' = [pc EXCEPT ![Worker(w)] = label]
      <4>1. pc'[Worker(w)] \in {"idle", "recv"}
        BY <1>1, <3>3 DEF TypeInv, TypeOK
      <4> QED
        BY <3>3, <4>1 DEF Processing
    <3>4. CASE pc[Worker(w)] = "process" /\ pc' = [pc EXCEPT ![Worker(w)] = "slice"]
      <4>1. pc'[Worker(w)] = "slice"
        BY <1>1, <3>4 DEF TypeInv, TypeOK
      <4> QED
        BY <3>4, <4>1 DEF Processing
    <3> QED
      BY <3>1, <3>2, <3>3, <3>4
  <2> QED
    BY <1>8, <2>1, <2>2
<1>10. CASE EmitFlight(w)
  <2>1. UNCHANGED << header, delivered, record >>
    BY <1>10 DEF EmitFlight, slicerVars
  <2>2. Processing(w)' <=> Processing(w)
    BY <1>1, <1>10 DEF Processing, EmitFlight, At, Goto, TypeInv, TypeOK
  <2>3. wire'[w] = wire[w]
    <3>1. record[w].id + 1 \in Nat
      BY DEF TypeInv, Record
    <3>2. UNCHANGED wire \/ Emit(w, Flight(record[w].id + 1))
      BY <1>10 DEF EmitFlight
    <3> QED
      BY <3>1, <3>2, EmitWires, RecordTypes
  <2> QED
    BY <1>8, <2>1, <2>2, <2>3
<1>11. CASE SessionEstablished(w)
  <2>1. UNCHANGED << wire, header, delivered, record >>
    BY <1>11 DEF SessionEstablished, slicerVars
  <2>2. pc[Worker(w)] = "establish" /\ pc'[Worker(w)] \in {"flight", "activate"}
    BY <1>1, <1>11 DEF SessionEstablished, Established, NotifyAll, At
  <2> QED
    BY <1>8, <2>1, <2>2 DEF Processing
\* The descriptor is closed: nothing more is read.
<1>12. CASE ReceiveEnds(w) \/ Alert(w) \/ ProcessReset(w)
  <2>1. pc'[Worker(w)] = "recv"
    <3>1. CASE ReceiveEnds(w) \/ Alert(w)
      BY <3>1 DEF ReceiveEnds, Alert, ReceiveRecord, At
    <3>2. CASE ProcessReset(w)
      BY <1>1, <3>2 DEF ProcessReset, ProcessEnds, Goto, TypeInv, TypeOK
    <3> QED
      BY <1>12, <3>1, <3>2
  <2>2. fd'[w] = "closed"
    <3>1. CASE ReceiveEnds(w) \/ Alert(w)
      BY <3>1 DEF ReceiveEnds, Alert, CloseOnAlert, CloseFast, TypeInv, TypeOK
    <3>2. CASE ProcessReset(w)
      <4>1. fd[w] = "closed"
        BY <3>2 DEF ProcessReset, ProcessEnds, At, ResetInv
      <4> QED
        BY <4>1 DEF NoReopening
    <3> QED
      BY <1>12, <3>1, <3>2
  <2> QED
    BY <1>6, <2>1, <2>2 DEF Reading, Processing
\* A record is read.
<1>13. ASSUME ReceiveRecord(w)
       PROVE  /\ wire'[w] = Tail(wire[w]) /\ record'[w] = Head(wire[w])
              /\ pc[Worker(w)] = "recv" /\ Head(wire[w]) \in Record
              /\ \E c, b \in Record :
                    /\ Links(Head(wire[w]), Expected(w), c, sent[x])
                    /\ Reaches(Tail(wire[w]), sent[x], c, b)
                    /\ Stopped(x) \/ b = Produced(x)
  <2>1. /\ wire[w] \in Seq(Record) /\ wire[w] # << >> /\ pc[Worker(w)] = "recv"
        /\ wire'[w] = Tail(wire[w]) /\ record'[w] = Head(wire[w])
    BY <1>13 DEF ReceiveRecord, At, TypeInv
  <2>2. Coming(w) = Expected(w)
    BY <2>1 DEF Coming, Processing
  <2>3. PICK b \in Record :
           /\ Reaches(wire[w], sent[x], Expected(w), b)
           /\ Stopped(x) \/ b = Produced(x)
    BY <1>7, <2>2 DEF ChainInv
  <2>4. PICK c \in Record :
           Links(Head(wire[w]), Expected(w), c, sent[x]) /\ Reaches(Tail(wire[w]), sent[x], c, b)
    BY <2>1, <2>3, ReachTail
  <2> QED
    BY <2>1, <2>3, <2>4
<1>14. Stopped(x) => Stopped(x)'
  BY <1>1 DEF Stopped, NoReopening
<1>15. CASE Receive(w)
  <2> DEFINE r == Head(wire[w])
  <2>1. /\ ReceiveRecord(w) /\ r.kind # "close_notify"
        /\ UNCHANGED << header, delivered >>
    BY <1>15 DEF Receive, slicerVars
  <2>2. PICK c, b \in Record :
           /\ Links(r, Expected(w), c, sent[x])
           /\ Reaches(Tail(wire[w]), sent[x], c, b)
           /\ Stopped(x) \/ b = Produced(x)
    BY <1>13, <2>1
  <2>3. Expected(w)' = Expected(w) /\ record'[w] = r /\ r \in Record
    BY <1>13, <2>1 DEF Expected
  <2>4. CASE r.kind = "flight"
    <3>1. \E label \in {"flight", "establish"} : Goto(Worker(w), label)
      <4>1. r.id \in Nat
        BY <2>3 DEF Record
      <4>2. r.id < 3 \/ r.id >= 3
        BY <4>1
      <4>3. CASE r.id < 3
        BY <1>15, <2>4, <4>1, <4>3 DEF Receive
      <4>4. CASE r.id >= 3
        BY <1>15, <2>4, <4>1, <4>4 DEF Receive
      <4> QED
        BY <4>2, <4>3, <4>4
    <3>2. ~ Processing(w)'
      BY <1>1, <3>1, SMTT(30) DEF Processing, Goto, TypeInv, TypeOK
    <3>3. c = Expected(w) /\ Coming(w)' = Expected(w)
      BY <2>2, <2>3, <2>4, <3>2 DEF Links, IsData, Coming
    <3>4. ReceiveInv(w)'
      BY <1>2, <1>7, <2>1, <3>2 DEF ReceiveInv
    <3>5. ChainInv(w)'
      BY <1>1, <1>2, <1>3, <1>13, <1>14, <2>1, <2>2, <3>3 DEF ChainInv
    <3> QED
      BY <3>4, <3>5
  <2>5. CASE r.kind # "flight"
    <3>1. IsData(r)
      BY <2>1, <2>3, <2>5 DEF IsData, Record
    <3>2. r = Expected(w) /\ r.id \in 1 .. Len(sent[x]) /\ c = Following(sent[x], r)
      BY <2>2, <3>1 DEF Links
    <3>3. Goto(Worker(w), "process")
      BY <1>15, <2>5 DEF Receive
    <3>4. Processing(w)'
      BY <1>1, <3>3 DEF Processing, Goto, TypeInv, TypeOK
    <3>5. Coming(w)' = c
      BY <1>2, <2>3, <3>2, <3>4 DEF Coming
    <3>6. ReceiveInv(w)'
      BY <1>2, <1>7, <2>1, <2>3, <3>2 DEF ReceiveInv
    <3>7. ChainInv(w)'
      BY <1>1, <1>2, <1>3, <1>13, <1>14, <2>1, <2>2, <3>5 DEF ChainInv
    <3> QED
      BY <3>6, <3>7
  <2> QED
    BY <2>4, <2>5
\* A record is given to the slicer: what it needs then is what follows.
<1>16. CASE ProcessBuffer(w)
  <2> DEFINE d == Len(delivered[w])
  <2>1. /\ pc[Worker(w)] = "slice" /\ UNCHANGED << wire, record >>
        /\ pc' = [pc EXCEPT ![Worker(w)] = "recv"]
    BY <1>16 DEF ProcessBuffer, ProcessEnds, At, Goto
  <2>2. record[w] = Expected(w) /\ record[w].id \in 1 .. Len(sent[x])
    BY <1>7, <2>1 DEF ReceiveInv, Processing
  <2>3. Processing(w) /\ ~ Processing(w)'
    BY <1>1, <2>1 DEF Processing, TypeInv, TypeOK
  <2>4. delivered[w] \in Seq(Nat) /\ d \in Nat /\ header[w] \in Nat
    BY DEF TypeInv, TypeOK
  <2>5. sent[x] \in Seq(Nat) /\ Len(sent[x]) \in Nat
    BY <1>1, SentType
  <2>6. CASE header[w] = 0
    <3>1. record[w] = Header(d + 1) /\ record[w].id = d + 1 /\ record[w].kind = "header"
      BY <2>2, <2>6 DEF Expected, Header
    <3>2. /\ header' = [header EXCEPT ![w] = d + 1] /\ UNCHANGED delivered
          /\ sent[x][d + 1] > HEADER_SIZE
      BY <1>16, <2>6, <3>1 DEF ProcessBuffer
    <3>3. header'[w] = d + 1 /\ d + 1 # 0
      BY <2>4, <3>2 DEF TypeInv, TypeOK
    <3>4. ReceiveInv(w)'
      BY <1>2, <2>2, <2>3, <2>4, <2>5, <3>1, <3>2, <3>3 DEF ReceiveInv
    <3>5. Coming(w)' = Payload(d + 1) /\ Coming(w) = Payload(d + 1)
      BY <2>1, <2>3, <3>1, <3>2, <3>3 DEF Coming, Expected, Following
    <3>6. ChainInv(w)'
      BY <1>1, <1>2, <1>3, <1>7, <2>1, <3>5, ChainFrame
    <3> QED
      BY <3>4, <3>6
  <2>7. CASE header[w] # 0
    <3>1. header[w] = d + 1
      BY <1>7, <2>7 DEF ReceiveInv
    <3>2. record[w] = Payload(d + 1) /\ record[w].id = d + 1 /\ record[w].kind = "payload"
      BY <2>2, <2>7, <3>1 DEF Expected, Payload
    <3>3. /\ delivered' = [delivered EXCEPT ![w] = Append(@, d + 1)]
          /\ header' = [header EXCEPT ![w] = 0]
      BY <1>16, <2>7, <3>1, <3>2 DEF ProcessBuffer
    <3>4. delivered'[w] = Append(delivered[w], d + 1) /\ header'[w] = 0
      BY <3>3 DEF TypeInv, TypeOK
    <3>5. Len(delivered'[w]) = d + 1
      BY <2>4, <3>4
    <3>6. ReceiveInv(w)'
      BY <2>3, <3>4 DEF ReceiveInv
    <3>7. Coming(w)' = Header((d + 1) + 1) /\ Coming(w) = Header((d + 1) + 1)
      BY <2>1, <2>3, <3>2, <3>4, <3>5 DEF Coming, Expected, Following
    <3>8. ChainInv(w)'
      BY <1>1, <1>2, <1>3, <1>7, <2>1, <3>7, ChainFrame
    <3> QED
      BY <3>6, <3>8
  <2> QED
    BY <2>6, <2>7
<1> QED
  BY <1>9, <1>10, <1>11, <1>12, <1>15, <1>16 DEF WorkerStep

----------------------------------------------------------------------------
(* The buffer that is reset, and the messages that were handed over.        *)

\* The buffer is reset by a thread that has closed the descriptor.
LEMMA ResetStep ==
    ASSUME TypeInv, ResetInv, NoReopening, NoRereading, Next
    PROVE  ResetInv'
<1>1. ASSUME NEW u \in Threads, pc'[u] = "reset" PROVE fd'[u[1]] = "closed"
  <2>1. u[1] \in Ends
    BY ThreadFacts
  <2>2. CASE pc[u] = "reset"
    BY <2>1, <2>2 DEF ResetInv, NoReopening
  <2>3. ASSUME NEW t \in Threads, CallWait(t) \/ CallSend(t) \/ CloseSocket(t) \/ ThreadStep(t)
        PROVE  pc[u] = "reset" \/ fd'[u[1]] = "closed"
    <3>1. \/ \E label \in {"idle", "wait", "waiting", "lock", "header", "payload", "catch",
                          "notify"} : pc' = [pc EXCEPT ![t] = label]
          \/ pc' = [pc EXCEPT ![t] = AfterClose(t)]
      BY <2>3, Zenon DEF CallWait, CallSend, CloseSocket, ThreadStep, WaitConnected, SendLock,
         SendHeader, SendPayload, SendThrows, SendCatch, ResetBuffer, Notify, Close, Goto
    <3>2. AfterClose(t) = "reset" => fd'[t[1]] = "closed"
      BY DEF AfterClose
    <3>3. CASE u # t
      BY <1>1, <3>1, <3>3 DEF TypeInv, TypeOK
    <3>4. CASE u = t
      BY <1>1, <3>1, <3>2, <3>4 DEF TypeInv, TypeOK
    <3> QED
      BY <3>3, <3>4
  <2>4. ASSUME NEW w \in Ends, WorkerStep(w) PROVE pc[u] = "reset"
    <3>1. \/ UNCHANGED pc
          \/ \E label \in {"idle", "recv", "flight", "activate", "establish", "process",
                           "slice"} :
                NotifyAll(Worker(w), label) \/ pc' = [pc EXCEPT ![Worker(w)] = label]
      BY <2>4 DEF WorkerStep, OnReadReady, Receive, ReceiveNothing, ReceiveEnds, EmitFlight,
         SessionEstablished, Established, Activate, Alert, RecordReceived, ProcessBuffer,
         ProcessReset, ProcessEnds, RecordInvalid, Goto
    <3> QED
      BY <1>1, <3>1, ThreadFacts DEF NotifyAll, TypeInv, TypeOK
  <2> QED
    BY <2>2, <2>3, <2>4, Zenon DEF Next
<1>2. ASSUME NEW e \in Ends, pc'[Worker(e)] = "slice", buffer'[e] = "empty"
      PROVE  fd'[e] = "closed"
  <2>1. Worker(e) \in Threads /\ Worker(e)[1] = e
    BY ThreadFacts
  <2>2. CASE fd[e] = "closed"
    BY <2>2 DEF NoReopening
  <2>3. CASE pc[Worker(e)] = "slice" /\ buffer[e] = "empty"
    BY <2>2, <2>3 DEF ResetInv
  <2>4. ASSUME NEW t \in Threads, CallWait(t) \/ CallSend(t) \/ CloseSocket(t) \/ ThreadStep(t)
        PROVE  fd'[e] = "closed"
    <3>1. pc[Worker(e)] = "slice"
      BY <1>2, <2>4, HandlingSteps DEF NoHandling
    <3>2. CASE UNCHANGED buffer
      BY <1>2, <2>3, <3>1, <3>2
    <3>3. CASE ResetBuffer(t)
      <4>1. /\ pc[t] = "reset" /\ buffer' = [buffer EXCEPT ![t[1]] = "empty"]
            /\ t[1] \in Ends
        BY <3>3, ThreadFacts DEF ResetBuffer, At
      <4>2. CASE t[1] = e
        BY <2>2, <4>1, <4>2 DEF ResetInv
      <4>3. CASE t[1] # e
        <5>1. buffer'[e] = buffer[e]
          BY <4>1, <4>3 DEF TypeInv, TypeOK
        <5> QED
          BY <1>2, <2>3, <3>1, <5>1
      <4> QED
        BY <4>2, <4>3
    <3> QED
      BY <2>4, <3>2, <3>3, Zenon DEF CallWait, CallSend, CloseSocket, ThreadStep, WaitConnected,
         SendLock, SendHeader, SendPayload, ChannelSend, SendThrows, SendCatch, Notify, slicerVars
  <2>5. ASSUME NEW w \in Ends, WorkerStep(w) PROVE fd'[e] = "closed"
    <3>1. Worker(w) \in Threads /\ Worker(w)[1] = w
      BY ThreadFacts
    <3>2. CASE w # e
      <4>1. /\ UNCHANGED buffer \/ \E b : buffer' = [buffer EXCEPT ![w] = b]
            /\ \/ UNCHANGED pc
               \/ \E label : NotifyAll(Worker(w), label) \/ pc' = [pc EXCEPT ![Worker(w)] = label]
        BY <2>5, Zenon DEF WorkerStep, OnReadReady, Receive, ReceiveNothing, ReceiveEnds,
           EmitFlight, SessionEstablished, Established, Activate, Alert, RecordReceived,
           ProcessBuffer, ProcessReset, ProcessEnds, RecordInvalid, Goto, slicerVars
      <4>2. buffer'[e] = buffer[e]
        BY <3>2, <4>1 DEF TypeInv, TypeOK
      <4>3. pc'[Worker(e)] = pc[Worker(e)]
        BY <2>1, <3>1, <3>2, <4>1 DEF NotifyAll, TypeInv, TypeOK
      <4> QED
        BY <1>2, <2>3, <4>2, <4>3
    <3>3. CASE w = e
      <4>1. \/ UNCHANGED << pc, buffer >>
            \/ \E label \in {"idle", "recv", "flight", "activate", "establish", "process"} :
                  NotifyAll(Worker(w), label) \/ pc' = [pc EXCEPT ![Worker(w)] = label]
            \/ buffer' = [buffer EXCEPT ![w] = "filled"]
        BY <2>5 DEF WorkerStep, OnReadReady, Receive, ReceiveNothing, ReceiveEnds,
           EmitFlight, SessionEstablished, Established, Activate, Alert, RecordReceived,
           ProcessBuffer, ProcessReset, ProcessEnds, RecordInvalid, Goto, slicerVars
      <4>2. CASE UNCHANGED << pc, buffer >>
        BY <1>2, <2>3, <4>2
      <4>3. CASE \E label \in {"idle", "recv", "flight", "activate", "establish", "process"} :
                   NotifyAll(Worker(w), label) \/ pc' = [pc EXCEPT ![Worker(w)] = label]
        BY <1>2, <3>1, <3>3, <4>3 DEF NotifyAll, TypeInv, TypeOK
      <4>4. CASE buffer' = [buffer EXCEPT ![w] = "filled"]
        BY <1>2, <3>3, <4>4 DEF TypeInv, TypeOK
      <4> QED
        BY <4>1, <4>2, <4>3, <4>4
    <3> QED
      BY <3>2, <3>3
  <2> QED
    BY <2>4, <2>5, Zenon DEF Next
<1>3. ASSUME NEW e \in Ends, torn'[e] PROVE ~ Reading(e)'
  <2>1. CASE torn[e]
    BY <2>1 DEF ResetInv, NoRereading
  <2>2. CASE UNCHANGED torn
    BY <1>3, <2>1, <2>2
  <2>3. ASSUME NEW w \in Ends, ProcessReset(w) PROVE ~ Reading(e)'
    <3>1. /\ pc[Worker(w)] = "slice" /\ buffer[w] = "empty"
          /\ pc' = [pc EXCEPT ![Worker(w)] = "recv"] /\ Worker(w) \in Threads
          /\ UNCHANGED torn \/ torn' = [torn EXCEPT ![w] = TRUE]
      BY <2>3, ThreadFacts DEF ProcessReset, ProcessEnds, At, Goto
    <3>2. CASE w = e
      <4>1. fd'[e] = "closed"
        BY <3>1, <3>2 DEF ResetInv, NoReopening
      <4>2. pc'[Worker(e)] = "recv"
        BY <3>1, <3>2 DEF TypeInv, TypeOK
      <4> QED
        BY <4>1, <4>2 DEF Reading, Processing
    <3>3. CASE w # e
      <4>1. torn'[e] = torn[e]
        BY <3>1, <3>3 DEF TypeInv, TypeOK
      <4> QED
        BY <1>3, <2>1, <4>1
    <3> QED
      BY <3>2, <3>3
  <2>4. UNCHANGED torn \/ \E w \in Ends : ProcessReset(w)
    <3>1. ASSUME NEW t \in Threads,
                 CallWait(t) \/ CallSend(t) \/ CloseSocket(t) \/ ThreadStep(t)
          PROVE  UNCHANGED torn
      BY <3>1, HandlingSteps DEF NoHandling
    <3>2. ASSUME NEW w \in Ends, WorkerStep(w) PROVE UNCHANGED torn \/ ProcessReset(w)
      BY <3>2, Zenon DEF WorkerStep, OnReadReady, Receive, ReceiveNothing, ReceiveEnds,
         EmitFlight, SessionEstablished, Activate, Alert, RecordReceived, ProcessBuffer,
         RecordInvalid, slicerVars
    <3> QED
      BY <3>1, <3>2, Zenon DEF Next
  <2> QED
    BY <2>2, <2>3, <2>4
<1> QED
  BY <1>1, <1>2, <1>3 DEF ResetInv

\* What a step does to one direction: nothing, a message is announced, or the
\* next message is handed over.
LEMMA DirectionStep ==
    ASSUME TypeInv, StreamInv, [Next]_vars, NEW w \in Ends
    PROVE  \/ sent'[Peer(w)] = sent[Peer(w)] /\ delivered'[w] = delivered[w]
           \/ /\ \E payload \in Payloads :
                    sent'[Peer(w)] = Append(sent[Peer(w)], HEADER_SIZE + payload)
              /\ delivered'[w] = delivered[w]
           \/ /\ Len(delivered[w]) + 1 \in 1 .. Len(sent[Peer(w)])
              /\ sent[Peer(w)][Len(delivered[w]) + 1] > HEADER_SIZE
              /\ delivered'[w] = Append(delivered[w], Len(delivered[w]) + 1)
              /\ sent'[Peer(w)] = sent[Peer(w)]
<1>1. TypeInv /\ StreamInv /\ Peer(w) \in Ends
  BY PeerIs
<1>2. ASSUME NEW t \in Threads, NEW payload \in Payloads, SendHeader(t, payload)
      PROVE  \/ sent'[Peer(w)] = sent[Peer(w)]
             \/ sent'[Peer(w)] = Append(sent[Peer(w)], HEADER_SIZE + payload)
  <2>1. sent' = [sent EXCEPT ![t[1]] = Append(@, HEADER_SIZE + payload)] /\ t[1] \in Ends
    BY <1>2, ThreadFacts DEF SendHeader
  <2> QED
    BY <1>1, <2>1 DEF TypeInv, TypeOK
<1>3. ASSUME NEW e \in Ends, ProcessBuffer(e)
      PROVE  \/ delivered'[w] = delivered[w]
             \/ /\ Len(delivered[w]) + 1 \in 1 .. Len(sent[Peer(w)])
                /\ sent[Peer(w)][Len(delivered[w]) + 1] > HEADER_SIZE
                /\ delivered'[w] = Append(delivered[w], Len(delivered[w]) + 1)
  <2>1. CASE e # w \/ UNCHANGED delivered
    <3>1. UNCHANGED delivered \/ \E d : delivered' = [delivered EXCEPT ![e] = d]
      BY <1>3, Zenon DEF ProcessBuffer
    <3> QED
      BY <1>1, <2>1, <3>1 DEF TypeInv, TypeOK
  <2>2. CASE e = w /\ header[w] # 0
    <3>1. /\ header[w] = Len(delivered[w]) + 1 /\ header[w] <= Len(sent[Peer(w)])
          /\ sent[Peer(w)][header[w]] > HEADER_SIZE
          /\ record[w] = Expected(w)
      <4>1. Processing(w)
        BY <1>3, <2>2 DEF ProcessBuffer, ProcessEnds, At, Processing
      <4> QED
        BY <1>1, <2>2, <4>1 DEF StreamInv, ReceiveInv, Reading
    <3>2. record[w] = Payload(header[w]) /\ record[w].id = header[w]
      BY <2>2, <3>1 DEF Expected, Payload
    <3>3. delivered' = [delivered EXCEPT ![w] = Append(@, header[w])]
      BY <1>3, <2>2, <3>2 DEF ProcessBuffer
    <3>4. delivered'[w] = Append(delivered[w], header[w])
      BY <1>1, <3>3 DEF TypeInv, TypeOK
    <3>5. header[w] \in 1 .. Len(sent[Peer(w)])
      BY <1>1, <2>2, <3>1, SentType DEF TypeInv, TypeOK
    <3> QED
      BY <3>1, <3>4, <3>5
  <2> QED
    BY <1>3, <2>1, <2>2 DEF ProcessBuffer
<1>4. \/ UNCHANGED << sent, delivered >>
      \/ /\ UNCHANGED delivered
         /\ \E t \in Threads : \E payload \in Payloads : SendHeader(t, payload)
      \/ UNCHANGED sent /\ \E e \in Ends : ProcessBuffer(e)
  <2>1. ASSUME NEW t \in Threads, CallWait(t) \/ CallSend(t) \/ CloseSocket(t) \/ ThreadStep(t)
        PROVE  /\ UNCHANGED delivered
               /\ UNCHANGED sent \/ \E payload \in Payloads : SendHeader(t, payload)
    <3>1. UNCHANGED delivered
      BY <1>1, <2>1, HandlingSteps DEF NoHandling
    <3>2. UNCHANGED sent \/ \E payload \in Payloads : SendHeader(t, payload)
      BY <2>1, Zenon DEF CallWait, CallSend, CloseSocket, ThreadStep, WaitConnected, SendLock,
         SendPayload, SendThrows, SendCatch, ResetBuffer, Notify, userVars
    <3> QED
      BY <3>1, <3>2
  <2>2. ASSUME NEW e \in Ends, WorkerStep(e)
        PROVE  UNCHANGED sent /\ (UNCHANGED delivered \/ ProcessBuffer(e))
    <3>1. UNCHANGED sent
      BY <1>1, <2>2, SendingSteps DEF NoSending
    <3>2. UNCHANGED delivered \/ ProcessBuffer(e)
      BY <2>2, Zenon DEF WorkerStep, OnReadReady, Receive, ReceiveNothing, ReceiveEnds,
         EmitFlight, SessionEstablished, Activate, Alert, RecordReceived, ProcessReset,
         RecordInvalid, slicerVars
    <3> QED
      BY <3>1, <3>2
  <2>3. UNCHANGED vars => UNCHANGED << sent, delivered >>
    BY DEF vars
  <2> QED
    BY <2>1, <2>2, <2>3, Zenon DEF Next
<1> QED
  BY <1>2, <1>3, <1>4

\* Every step keeps the order of the messages.
LEMMA OrderStep ==
    ASSUME TypeInv, StreamInv, OrderInv, [Next]_vars
    PROVE  OrderInv'
<1> SUFFICES ASSUME NEW w \in Ends
             PROVE  \A i \in 1 .. Len(delivered'[w]) : delivered'[w][i] = i
  BY DEF OrderInv
<1> DEFINE d == Len(delivered[w])
<1>1. delivered[w] \in Seq(Nat) /\ d \in Nat /\ \A i \in 1 .. d : delivered[w][i] = i
  BY DEF TypeInv, TypeOK, OrderInv
<1>2. CASE delivered'[w] = delivered[w]
  BY <1>1, <1>2
<1>3. CASE delivered'[w] = Append(delivered[w], d + 1)
  <2>1. /\ Len(delivered'[w]) = d + 1 /\ delivered'[w][d + 1] = d + 1
        /\ \A i \in 1 .. d : delivered'[w][i] = delivered[w][i]
    BY <1>1, <1>3
  <2> HIDE DEF d
  <2>2. \A i \in 1 .. d + 1 : i \in 1 .. d \/ i = d + 1
    BY <1>1
  <2> QED
    BY <1>1, <2>1, <2>2
<1> QED
  BY <1>2, <1>3, DirectionStep

----------------------------------------------------------------------------
(* The theorems.                                                            *)

\* The inductive invariant.
TlsInv ==
    /\ TypeInv /\ SendMutexInv /\ HandshakeInv /\ ActiveInv
    /\ StreamInv /\ OrderInv /\ ResetInv

\* The handshake starts with flight 1 on its way and no data.
LEMMA InitInv == Init => TlsInv
<1> SUFFICES ASSUME Init PROVE TlsInv
  OBVIOUS
<1>1. /\ << >> \in Seq(Record) /\ << Flight(1) >> \in Seq(Record)
      /\ Len(<< >>) = 0 /\ Len(<< Flight(1) >>) = 1 /\ << Flight(1) >>[1] = Flight(1)
  <2>1. Flight(1) \in Record
    BY RecordTypes
  <2> QED
    BY <2>1
<1>2. wire["server"] = << Flight(1) >> /\ wire["client"] = << >>
  BY DEF Init, Ends
<1>3. TypeInv
  <2>1. wire \in [Ends -> Seq(Record)] /\ \A e \in Ends : Len(wire[e]) <= Capacity
    <3>1. \A e \in Ends : wire[e] \in Seq(Record) /\ Len(wire[e]) <= Capacity
      <4>1. 0 <= Capacity /\ 1 <= Capacity
        BY BoundsAssumption
      <4>2. /\ wire["client"] \in Seq(Record) /\ Len(wire["client"]) <= Capacity
            /\ wire["server"] \in Seq(Record) /\ Len(wire["server"]) <= Capacity
        BY <1>1, <1>2, <4>1, Zenon
      <4> QED
        BY <4>2, Zenon DEF Ends
    <3>2. wire = [e \in Ends |-> wire[e]]
      BY DEF Init
    <3> HIDE DEF Ends
    <3> QED
      BY <3>1, <3>2
  <2>2. record \in [Ends -> Record]
    BY RecordTypes DEF Init
  <2>3. m_state \in [Ends -> {"Unknown", "Setup", "Connected", "Shutdown", "Closed"}]
    BY DEF Init
  <2>4. << >> \in Seq(Nat) /\ << >> \in Seq({HEADER_SIZE + p : p \in Payloads})
    OBVIOUS
  <2> QED
    BY <2>1, <2>2, <2>3, <2>4 DEF Init, TypeInv, TypeOK
<1>4. \A t \in Threads : pc[t] = "idle"
  BY DEF Init
<1>5. SendMutexInv /\ ActiveInv /\ ResetInv /\ OrderInv
  <2>1. SendMutexInv /\ ActiveInv
    BY <1>4 DEF SendMutexInv, ActiveInv
  <2>2. ResetInv
    BY <1>4, ThreadFacts DEF ResetInv, Init
  <2>3. OrderInv
    BY DEF OrderInv, Init
  <2> QED
    BY <2>1, <2>2, <2>3
<1>6. HandshakeInv
  <2>1. OneFlight(wire["server"], 1) /\ NoFlight(wire["client"])
    BY <1>1, <1>2 DEF OneFlight, NoFlight
  <2>2. To(1) = "server" /\ Peer("server") = "client"
    BY PeerIs DEF To
  <2>3. \A e \in Ends : ~ Handling(e) /\ ~ active[e]
    BY <1>4, ThreadFacts DEF Init, Handling
  <2>4. OnWire(1)
    BY <2>1, <2>2, <2>3 DEF OnWire, NotActive, Ends
  <2> QED
    BY <2>4 DEF HandshakeInv
<1>7. StreamInv
  <2> SUFFICES ASSUME NEW e \in Ends PROVE ReceiveInv(e) /\ ChainInv(e)
    BY DEF StreamInv
  <2>1. /\ pc[Worker(e)] = "idle" /\ header[e] = 0 /\ delivered[e] = << >>
        /\ sent[Peer(e)] = << >> /\ Peer(e) \in Ends
    BY <1>4, ThreadFacts, PeerIs DEF Init
  <2>2. ReceiveInv(e)
    BY <2>1 DEF ReceiveInv, Processing
  <2>3. Coming(e) = Header(1) /\ Produced(Peer(e)) = Header(1) /\ Header(1) \in Record
    <3>1. ~ InMessage(Peer(e))
      BY <1>4 DEF InMessage
    <3> QED
      BY <2>1, <3>1, RecordTypes DEF Coming, Processing, Expected, Produced
  <2>4. Reaches(<< >>, sent[Peer(e)], Header(1), Header(1))
    BY <2>3, ReachEmpty
  <2>5. Reaches(wire[e], sent[Peer(e)], Header(1), Header(1))
    <3>1. CASE e = "client"
      BY <1>2, <2>4, <3>1
    <3>2. CASE e = "server"
      <4>1. Links(Flight(1), Header(1), Header(1), sent[Peer(e)])
        BY RecordTypes DEF Links
      <4>2. Flight(1) \in Record /\ Append(<< >>, Flight(1)) = << Flight(1) >>
        BY RecordTypes
      <4> QED
        BY <1>1, <1>2, <2>3, <2>4, <3>2, <4>1, <4>2, ReachAppend
    <3> QED
      BY <3>1, <3>2 DEF Ends
  <2> QED
    BY <2>2, <2>3, <2>5 DEF ChainInv
<1> QED
  BY <1>3, <1>5, <1>6, <1>7 DEF TlsInv

\* Every step keeps the inductive invariant.
LEMMA StepInv == TlsInv /\ [Next]_vars => TlsInv'
<1> SUFFICES ASSUME TlsInv, [Next]_vars PROVE TlsInv'
  OBVIOUS
<1>1. /\ TypeInv /\ SendMutexInv /\ HandshakeInv /\ ActiveInv
      /\ StreamInv /\ OrderInv /\ ResetInv
  BY DEF TlsInv
<1>2. TypeInv' /\ OrderInv'
  BY <1>1, TypeStep, OrderStep
<1>3. CASE Next
  <2>1. /\ SendMutexInv' /\ HandshakeInv' /\ ActiveInv' /\ ResetInv'
        /\ NoReopening /\ NoRereading
    <3>1. SendMutexInv' /\ HandshakeInv' /\ ActiveInv'
      BY <1>1, <1>3, SendMutexStep, HandshakeStep, ActiveStep
    <3>2. NoReopening /\ NoRereading
      BY <1>1, <1>3, ReopeningSteps, RereadingSteps
    <3> QED
      BY <1>1, <1>3, <3>1, <3>2, ResetStep
  <2>2. ASSUME NEW t \in Threads, CallWait(t) \/ CallSend(t) \/ CloseSocket(t) \/ ThreadStep(t)
        PROVE  StreamInv'
    <3>1. CASE \/ CallWait(t) \/ CallSend(t) \/ WaitConnected(t) \/ ResetBuffer(t)
               \/ SendLock(t) \/ SendCatch(t) \/ CloseSocket(t) \/ Notify(t)
      BY <1>1, <1>2, <2>1, <3>1, OtherThreadStream
    <3>2. CASE \E payload \in Payloads : SendHeader(t, payload)
      BY <1>1, <1>2, <2>1, <3>2, HeaderStream
    <3>3. CASE SendPayload(t)
      BY <1>1, <1>2, <2>1, <3>3, PayloadStream
    <3>4. CASE SendThrows(t)
      BY <1>1, <1>2, <2>1, <3>4, ThrowStream
    <3> QED
      BY <2>2, <3>1, <3>2, <3>3, <3>4, Zenon DEF ThreadStep
  <2>3. ASSUME NEW w \in Ends, WorkerStep(w) PROVE StreamInv'
    BY <1>1, <1>2, <2>1, <2>3, WorkerStream
  <2>4. StreamInv'
    BY <1>3, <2>2, <2>3, Zenon DEF Next
  <2> QED
    BY <1>2, <2>1, <2>4 DEF TlsInv
<1>4. CASE UNCHANGED vars
  <2>1. SendMutexInv' /\ ActiveInv' /\ ResetInv'
    BY <1>1, <1>4 DEF vars, SendMutexInv, ActiveInv, ResetInv, Reading, Processing
  <2>2. HandshakeInv'
    BY <1>1, <1>4, HandshakeFrame DEF vars
  <2>3. StreamInv'
    <3> SUFFICES ASSUME NEW e \in Ends, Reading(e)' PROVE ReceiveInv(e)' /\ ChainInv(e)'
      BY DEF StreamInv
    <3>1. ReceiveInv(e) /\ ChainInv(e) /\ Peer(e) \in Ends
      BY <1>1, <1>4, PeerIs DEF vars, StreamInv, Reading, Processing
    <3>2. ReceiveInv(e)' /\ Coming(e)' = Coming(e)
      BY <1>1, <1>4, <3>1, ReceiveFrame DEF vars, Processing
    <3>3. Produced(Peer(e))' = Produced(Peer(e))
      BY <1>4, <3>1, ProducedFrame DEF vars
    <3>4. NoReopening
      BY <1>4 DEF vars, NoReopening
    <3>5. wire'[e] = wire[e] /\ sent'[Peer(e)] = sent[Peer(e)]
      BY <1>4 DEF vars
    <3> QED
      BY <1>1, <1>2, <3>1, <3>2, <3>3, <3>4, <3>5, ChainFrame
  <2> QED
    BY <1>2, <2>1, <2>2, <2>3 DEF TlsInv
<1> QED
  BY <1>3, <1>4

\* The type of every variable is kept by every step of the two ends.
THEOREM TypeCorrect == Spec => []TypeOK
<1>1. TlsInv => TypeOK
  BY DEF TlsInv, TypeInv
<1> QED
  BY <1>1, InitInv, StepInv, PTL DEF Spec

\* The number of the last message that was handed over.
LEMMA LastDelivered ==
    ASSUME TlsInv, NEW w \in Ends
    PROVE  /\ Len(delivered[w]) \in Nat
           /\ delivered[w] = << >> => Len(delivered[w]) = 0
           /\ delivered[w] # << >> => delivered[w][Len(delivered[w])] = Len(delivered[w])
<1>1. delivered[w] \in Seq(Nat) /\ \A i \in 1 .. Len(delivered[w]) : delivered[w][i] = i
  BY DEF TlsInv, TypeInv, TypeOK, OrderInv
<1>2. delivered[w] # << >> => Len(delivered[w]) \in 1 .. Len(delivered[w])
  BY <1>1
<1> QED
  BY <1>1, <1>2

\* In both directions a TLS connection implements the message service: however
\* threads of an end send and close at the same time, messages arrive in order,
\* without gap and whole, except that the one the worker reads while a failed
\* send() closes the descriptor may be torn: it is the last one.
THEOREM ImplementsService == Spec => TlsService
<1>1. Init => ToServer!Init /\ ToClient!Init
  BY DEF Init, ToServer!Init, ToClient!Init, Ends
<1>2. TlsInv /\ [Next]_vars
         => [ToServer!Send \/ ToServer!Receive]_<< sent["client"], delivered["server"] >>
  <2> SUFFICES ASSUME TlsInv, [Next]_vars
               PROVE  [ToServer!Send \/ ToServer!Receive]_<< sent["client"], delivered["server"] >>
    OBVIOUS
  <2>1. "server" \in Ends /\ Peer("server") = "client"
    BY PeerIs DEF Ends
  <2>2. ToServer!Last = Len(delivered["server"]) /\ Len(delivered["server"]) \in Nat
    BY <2>1, LastDelivered DEF ToServer!Last
  <2> DEFINE f == Len(delivered["server"]) + 1
  <2>3. CASE /\ f \in 1 .. Len(sent["client"]) /\ sent["client"][f] > HEADER_SIZE
             /\ delivered'["server"] = Append(delivered["server"], f)
             /\ sent'["client"] = sent["client"]
    <3>1. f \in ToServer!Last + 1 .. Len(sent["client"])
      BY <2>2, <2>3
    <3>2. \A g \in ToServer!Last + 1 .. f - 1 : sent["client"][g] <= HEADER_SIZE
      BY <2>2
    <3> HIDE DEF f
    <3> QED
      BY <2>3, <3>1, <3>2 DEF ToServer!Receive
  <2>4. CASE /\ \E payload \in Payloads :
                   sent'["client"] = Append(sent["client"], HEADER_SIZE + payload)
             /\ delivered'["server"] = delivered["server"]
    BY <2>4 DEF ToServer!Send
  <2> QED
    BY <2>1, <2>3, <2>4, DirectionStep DEF TlsInv
<1>3. TlsInv /\ [Next]_vars
         => [ToClient!Send \/ ToClient!Receive]_<< sent["server"], delivered["client"] >>
  <2> SUFFICES ASSUME TlsInv, [Next]_vars
               PROVE  [ToClient!Send \/ ToClient!Receive]_<< sent["server"], delivered["client"] >>
    OBVIOUS
  <2>1. "client" \in Ends /\ Peer("client") = "server"
    BY PeerIs DEF Ends
  <2>2. ToClient!Last = Len(delivered["client"]) /\ Len(delivered["client"]) \in Nat
    BY <2>1, LastDelivered DEF ToClient!Last
  <2> DEFINE f == Len(delivered["client"]) + 1
  <2>3. CASE /\ f \in 1 .. Len(sent["server"]) /\ sent["server"][f] > HEADER_SIZE
             /\ delivered'["client"] = Append(delivered["client"], f)
             /\ sent'["server"] = sent["server"]
    <3>1. f \in ToClient!Last + 1 .. Len(sent["server"])
      BY <2>2, <2>3
    <3>2. \A g \in ToClient!Last + 1 .. f - 1 : sent["server"][g] <= HEADER_SIZE
      BY <2>2
    <3> HIDE DEF f
    <3> QED
      BY <2>3, <3>1, <3>2 DEF ToClient!Receive
  <2>4. CASE /\ \E payload \in Payloads :
                   sent'["server"] = Append(sent["server"], HEADER_SIZE + payload)
             /\ delivered'["client"] = delivered["client"]
    BY <2>4 DEF ToClient!Send
  <2> QED
    BY <2>1, <2>3, <2>4, DirectionStep DEF TlsInv
<1>4. TlsInv /\ [Next]_vars
         => [\A e \in Ends : torn[e] => UNCHANGED << delivered[e], torn[e] >>]_vars
  <2> SUFFICES ASSUME TlsInv, Next, NEW e \in Ends, torn[e]
               PROVE  UNCHANGED << delivered[e], torn[e] >>
    OBVIOUS
  <2>1. TypeInv /\ pc[Worker(e)] # "slice"
    BY DEF TlsInv, ResetInv, Reading, Processing
  <2>2. ASSUME NEW t \in Threads, CallWait(t) \/ CallSend(t) \/ CloseSocket(t) \/ ThreadStep(t)
        PROVE  UNCHANGED << delivered, torn >>
    BY <2>1, <2>2, HandlingSteps DEF NoHandling
  <2>3. ASSUME NEW w \in Ends, WorkerStep(w) PROVE UNCHANGED << delivered[e], torn[e] >>
    <3>1. CASE UNCHANGED << delivered, torn >>
      BY <3>1
    <3>2. CASE ProcessBuffer(w) \/ ProcessReset(w)
      <4>1. w # e
        BY <2>1, <3>2 DEF ProcessBuffer, ProcessReset, ProcessEnds, At
      <4>2. /\ UNCHANGED delivered \/ \E d : delivered' = [delivered EXCEPT ![w] = d]
            /\ UNCHANGED torn \/ torn' = [torn EXCEPT ![w] = TRUE]
        BY <3>2, Zenon DEF ProcessBuffer, ProcessReset
      <4> QED
        BY <2>1, <4>1, <4>2 DEF TypeInv, TypeOK
    <3> QED
      BY <2>3, <3>1, <3>2, Zenon DEF WorkerStep, OnReadReady, Receive, ReceiveNothing,
         ReceiveEnds, EmitFlight, SessionEstablished, Activate, Alert, RecordReceived,
         RecordInvalid, slicerVars
  <2> QED
    BY <2>2, <2>3, Zenon DEF Next
<1> QED
  BY <1>1, <1>2, <1>3, <1>4, InitInv, StepInv, PTL
     DEF Spec, TlsService, ToServer!Spec, ToClient!Spec, TornIsLast
=============================================================================
