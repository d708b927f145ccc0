-------------------------- MODULE SocketSetupProofs --------------------------
(***************************************************************************)
(* Proofs about SocketSetup, for any table of descriptors and any number   *)
(* of clients and connections, in a process that has descriptor 0 open.    *)
(*                                                                         *)
(* DescriptorsOwned counts the holders of a number.  Its inductive form    *)
(* says that holders exist, are unique and hold what is open (OwnedInv);   *)
(* close() needs the state to tell whether there is a descriptor           *)
(* (StateInv), and the sockets between accept() and on_new_connection()    *)
(* belong to the worker alone (ChildInv).                                  *)
(***************************************************************************)
EXTENDS SocketSetup, FiniteSetTheorems, TLAPS

\* A number is held by at most one socket, which is alive, and what is open is
\* held, taken by others or was dropped.  0 is never held.
OwnedInv ==
    /\ \A n \in Taken : file[n] = "taken"
    /\ \A s \in Sockets : m_fd[s] # -1 =>
          m_fd[s] > 0 /\ m_state[s] # "none" /\ file[m_fd[s]] \notin {"free", "taken"}
    /\ \A r, s \in Sockets : m_fd[r] = m_fd[s] /\ m_fd[s] # -1 => r = s
    /\ \A n \in Numbers \ (Taken \cup dropped) :
          file[n] # "free" => \E s \in Sockets : m_fd[s] = n

\* A socket in use has a descriptor, and a connected one that of a connection.
StateInv ==
    \A s \in Sockets :
        /\ m_state[s] \in {"Listening", "Connected", "Shutdown"} => m_fd[s] # -1
        /\ m_state[s] = "Connected" => file[m_fd[s]] \in {"connected", "reset"}

\* Connections that were not accepted have no socket, and the ones that were
\* accepted and not handed over are as accept() made them.
ChildInv ==
    /\ registered \subseteq 1 .. handed
    /\ pc["worker"] = "register" => handed > 0
    /\ \A k \in Children :
          /\ k > accepted => m_fd[k] = -1
          /\ k > handed /\ k <= accepted => m_state[k] = "Connected"

\* The acceptor outlives its listener and the threads that use it, and is
\* closed by none of them while the worker accepts.
AcceptorInv ==
    /\ listener = "in" => m_state[Acceptor] # "none"
    /\ \A t \in Threads : pc[t] # "idle" => m_state[Acceptor] # "none" /\ listener # "none"
    /\ pc["worker"] = "accept" /\ alive = "yes"
          => m_state[Acceptor] = "Listening" /\ m_mutex = "worker"

\* The inductive invariant.
SetupInv == TypeOK /\ OwnedInv /\ StateInv /\ ChildInv /\ AcceptorInv /\ NoFatal

----------------------------------------------------------------------------
(* The lowest free number.                                                  *)

\* A finite set of numbers has a least one: a smallest set without one would
\* lose a number and still be without.
LEMMA LeastNumber ==
    ASSUME NEW S \in SUBSET Nat, IsFiniteSet(S), S # {}
    PROVE  \E x \in S : \A y \in S : x <= y
<1> DEFINE HasMin(A) == \E x \in A : \A y \in A : x <= y
           Bad == {A \in SUBSET S : A # {} /\ ~ HasMin(A)}
<1>1. ASSUME Bad # {} PROVE FALSE
  <2>1. IsWellFoundedOn(StrictSubsetOrdering(S), SUBSET S)
    BY FS_StrictSubsetOrderingWellFounded, FS_FiniteSubsetsOfFinite
  <2>2. PICK A \in Bad : \A B \in Bad : ~ (<< B, A >> \in StrictSubsetOrdering(S))
    <3>1. Bad \subseteq SUBSET S
      OBVIOUS
    <3> HIDE DEF Bad
    <3> QED
      BY <1>1, <2>1, <3>1, WFMin
  <2>3. PICK a \in A : TRUE
    BY <2>2
  <2> DEFINE B == A \ {a}
  <2>4. A \in SUBSET S /\ B \in SUBSET S /\ B # A /\ B \subseteq A
    BY <2>2, <2>3
  <2>5. B \notin Bad
    <3> HIDE DEF Bad, B
    <3> QED
      BY <2>2, <2>4 DEF StrictSubsetOrdering
  <2>6. CASE B = {}
    <3>1. A = {a} /\ a \in Nat
      BY <2>3, <2>4, <2>6
    <3>2. HasMin(A)
      BY <3>1
    <3> QED
      BY <2>2, <3>2
  <2>7. CASE B # {}
    <3>1. PICK b \in B : \A y \in B : b <= y
      BY <2>4, <2>5, <2>7
    <3>2. a \in Nat /\ \A y \in B : y \in Nat
      BY <2>3, <2>4
    <3>3. CASE a <= b
      <4>1. \A y \in A : a <= y
        BY <3>1, <3>2, <3>3
      <4> QED
        BY <2>2, <2>3, <4>1
    <3>4. CASE b <= a
      <4>1. \A y \in A : b <= y
        BY <3>1, <3>2, <3>4
      <4> QED
        BY <2>2, <3>1, <4>1
    <3> QED
      BY <3>1, <3>2, <3>3, <3>4
  <2> QED
    BY <2>6, <2>7
<1> QED
  BY <1>1

\* What the kernel gives out is free.
LEMMA LowestFree ==
    ASSUME Free # {}
    PROVE  Min(Free) \in Numbers /\ file[Min(Free)] = "free"
<1>1. Free \in SUBSET Nat /\ IsFiniteSet(Free)
  BY NumbersAssumption, FS_Subset DEF Free
<1>2. \E x \in Free : \A y \in Free : x <= y
  BY <1>1, LeastNumber
<1>3. Min(Free) \in Free
  BY <1>2 DEF Min
<1> QED
  BY <1>3 DEF Free

----------------------------------------------------------------------------
(* Opening and closing a descriptor.                                        *)

\* A socket without descriptor gets the lowest free number.
LEMMA OpenStep ==
    ASSUME 0 \in Taken, TypeOK, OwnedInv, StateInv, Free # {},
           NEW s \in Sockets, m_fd[s] = -1,
           NEW kind \in {"socket", "listening", "connected"}, Holds(s, Min(Free), kind),
           NEW state \in {"Unknown", "Closed", "Listening", "Connected"},
           state = "Connected" => kind = "connected",
           m_state' = [m_state EXCEPT ![s] = state],
           dropped' = dropped
    PROVE  OwnedInv' /\ StateInv'
<1> DEFINE n == Min(Free)
<1>1. n \in Numbers /\ file[n] = "free" /\ n \notin Taken /\ n # 0 /\ n > 0 /\ n # -1
  <2>1. n \in Numbers /\ file[n] = "free"
    BY LowestFree
  <2>2. n \notin Taken /\ n # 0
    BY <2>1 DEF OwnedInv
  <2> HIDE DEF n
  <2> QED
    BY <2>1, <2>2, NumbersAssumption
<1> HIDE DEF n
<1>2. file' = [file EXCEPT ![n] = kind] /\ m_fd' = [m_fd EXCEPT ![s] = n]
  BY DEF Holds, n
<1>3. /\ \A m \in Numbers : m # n => file'[m] = file[m]
      /\ file'[n] = kind
  BY <1>1, <1>2 DEF TypeOK
<1>4. /\ \A r \in Sockets : r # s => m_fd'[r] = m_fd[r] /\ m_state'[r] = m_state[r]
      /\ m_fd'[s] = n /\ m_state'[s] = state
  BY <1>2 DEF TypeOK
<1>5. \A r \in Sockets : m_fd[r] # n /\ m_fd[r] \in Numbers \cup {-1}
  BY <1>1 DEF OwnedInv, TypeOK
<1>6. \A r \in Sockets : m_fd[r] \in Numbers => file'[m_fd[r]] = file[m_fd[r]]
  BY <1>3, <1>5
<1>7. OwnedInv'
  <2>1. \A m \in Taken : file'[m] = "taken"
    BY <1>1, <1>3, NumbersAssumption DEF OwnedInv
  <2>2. ASSUME NEW r \in Sockets, m_fd'[r] # -1
        PROVE  m_fd'[r] > 0 /\ m_state'[r] # "none" /\ file'[m_fd'[r]] \notin {"free", "taken"}
    <3>1. CASE r = s
      BY <1>1, <1>3, <1>4, <3>1
    <3>2. CASE r # s
      <4>1. m_fd[r] # -1 /\ m_fd[r] \in Numbers
        BY <1>4, <1>5, <2>2, <3>2
      <4> QED
        BY <1>4, <1>6, <3>2, <4>1 DEF OwnedInv
    <3> QED
      BY <3>1, <3>2
  <2>3. \A q, r \in Sockets : m_fd'[q] = m_fd'[r] /\ m_fd'[r] # -1 => q = r
    BY <1>4, <1>5 DEF OwnedInv
  <2>4. ASSUME NEW m \in Numbers \ (Taken \cup dropped), file'[m] # "free"
        PROVE  \E r \in Sockets : m_fd'[r] = m
    <3>1. CASE m = n
      BY <1>4, <3>1
    <3>2. CASE m # n
      <4>1. PICK r \in Sockets : m_fd[r] = m
        BY <1>3, <2>4, <3>2 DEF OwnedInv
      <4>2. r # s
        BY <4>1, NumbersAssumption
      <4> QED
        BY <1>4, <4>1, <4>2
    <3> QED
      BY <3>1, <3>2
  <2> QED
    BY <2>1, <2>2, <2>3, <2>4 DEF OwnedInv
<1>8. ASSUME NEW r \in Sockets
      PROVE  /\ m_state'[r] \in {"Listening", "Connected", "Shutdown"} => m_fd'[r] # -1
             /\ m_state'[r] = "Connected" => file'[m_fd'[r]] \in {"connected", "reset"}
  <2>1. CASE r = s
    BY <1>1, <1>3, <1>4, <2>1
  <2>2. CASE r # s
    <3>1. m_state[r] \in {"Listening", "Connected", "Shutdown"} => m_fd[r] \in Numbers
      BY <1>5 DEF StateInv
    <3> QED
      BY <1>4, <1>6, <2>2, <3>1 DEF StateInv
  <2> QED
    BY <2>1, <2>2
<1> QED
  BY <1>7, <1>8 DEF StateInv

\* close() frees the number of its own socket alone.
LEMMA CloseStep ==
    ASSUME 0 \in Taken, TypeOK, OwnedInv, StateInv, NEW s \in Sockets,
           NEW state \in {"none", ClosedState(s)}, CloseNow(s, state)
    PROVE  OwnedInv' /\ StateInv'
<1> USE DEF is_valid
<1>1. \A r \in Sockets : m_fd[r] \in Numbers \cup {-1}
  BY DEF TypeOK
<1>2. CASE is_valid(s)
  <2> DEFINE n == m_fd[s]
  <2>1. n \in Numbers /\ n # -1 /\ file[n] # "taken" /\ n \notin Taken
    <3>1. n # -1
      BY <1>2
    <3> QED
      BY <1>1, <3>1 DEF OwnedInv
  <2>2. file' = [file EXCEPT ![n] = "free"] /\ m_fd' = [m_fd EXCEPT ![s] = -1]
        /\ m_state' = [m_state EXCEPT ![s] = state] /\ dropped' = dropped
    BY <1>2 DEF CloseNow, ForgetFd
  <2>3. \A r \in Sockets : r # s => m_fd[r] # n
    BY <2>1 DEF OwnedInv
  <2> HIDE DEF n
  <2>4. /\ \A m \in Numbers : m # n => file'[m] = file[m]
        /\ file'[n] = "free"
    BY <2>1, <2>2 DEF TypeOK
  <2>5. /\ \A r \in Sockets : r # s => m_fd'[r] = m_fd[r] /\ m_state'[r] = m_state[r]
        /\ m_fd'[s] = -1 /\ m_state'[s] = state
    BY <2>2 DEF TypeOK
  <2>6. state \in {"none", "Closed"}
    BY <1>2 DEF ClosedState
  <2>7. \A r \in Sockets : r # s /\ m_fd[r] \in Numbers => file'[m_fd[r]] = file[m_fd[r]]
    BY <2>3, <2>4
  <2>8. OwnedInv'
    <3>1. \A m \in Taken : file'[m] = "taken"
      BY <2>1, <2>4, NumbersAssumption DEF OwnedInv
    <3>2. ASSUME NEW r \in Sockets, m_fd'[r] # -1
          PROVE  m_fd'[r] > 0 /\ m_state'[r] # "none" /\ file'[m_fd'[r]] \notin {"free", "taken"}
      <4>1. r # s
        BY <2>5, <3>2
      <4>2. m_fd[r] # -1 /\ m_fd[r] \in Numbers
        BY <1>1, <2>5, <3>2, <4>1
      <4> QED
        BY <2>5, <2>7, <4>1, <4>2 DEF OwnedInv
    <3>3. \A q, r \in Sockets : m_fd'[q] = m_fd'[r] /\ m_fd'[r] # -1 => q = r
      BY <2>5 DEF OwnedInv
    <3>4. ASSUME NEW m \in Numbers \ (Taken \cup dropped), file'[m] # "free"
          PROVE  \E r \in Sockets : m_fd'[r] = m
      <4>1. m # n
        BY <2>4, <3>4
      <4>2. PICK r \in Sockets : m_fd[r] = m
        BY <2>4, <3>4, <4>1 DEF OwnedInv
      <4>3. r # s
        BY <4>1, <4>2 DEF n
      <4> QED
        BY <2>5, <4>2, <4>3
    <3> QED
      BY <2>2, <3>1, <3>2, <3>3, <3>4 DEF OwnedInv
  <2>9. ASSUME NEW r \in Sockets
        PROVE  /\ m_state'[r] \in {"Listening", "Connected", "Shutdown"} => m_fd'[r] # -1
               /\ m_state'[r] = "Connected" => file'[m_fd'[r]] \in {"connected", "reset"}
    <3>1. CASE r = s
      BY <2>5, <2>6, <3>1
    <3>2. CASE r # s
      <4>1. m_state[r] \in {"Listening", "Connected", "Shutdown"} => m_fd[r] \in Numbers
        BY <1>1 DEF StateInv
      <4> QED
        BY <2>5, <2>7, <3>2, <4>1 DEF StateInv
    <3> QED
      BY <3>1, <3>2
  <2> QED
    BY <2>8, <2>9 DEF StateInv
<1>3. CASE ~ is_valid(s)
  <2>1. m_fd[s] = -1
    BY <1>3 DEF OwnedInv
  <2>2. UNCHANGED << file, m_fd, dropped >> /\ m_state' = [m_state EXCEPT ![s] = state]
    BY <1>3 DEF CloseNow
  <2>3. \A r \in Sockets : r # s => m_state'[r] = m_state[r]
    BY <2>2 DEF TypeOK
  <2>4. m_state'[s] \notin {"Listening", "Connected", "Shutdown"}
    BY <1>3, <2>1, <2>2 DEF ClosedState, StateInv, TypeOK
  <2>5. OwnedInv'
    BY <2>1, <2>2, <2>3 DEF OwnedInv
  <2>6. StateInv'
    BY <2>2, <2>3, <2>4 DEF StateInv
  <2> QED
    BY <2>5, <2>6
<1> QED
  BY <1>2, <1>3

----------------------------------------------------------------------------
(* The inductive invariant.                                                 *)

\* A descriptor is a number, and so is its absence.
LEMMA FdType ==
    ASSUME TypeOK, NEW s \in Sockets
    PROVE  m_fd[s] \in Int
<1>1. m_fd[s] \in Numbers \cup {-1}
  BY DEF TypeOK
<1>2. ASSUME NEW n \in Numbers PROVE n \in Int
  BY NumbersAssumption
<1> QED
  BY <1>1, <1>2

\* Every step keeps every variable in its type.
LEMMA TypeOKStep ==
    ASSUME TypeOK, ChildInv, Next
    PROVE  TypeOK'
<1> USE NumbersAssumption, SocketsAssumption, ThreadsAssumption DEF TypeOK, socketVars,
        childVars, loopVars
<1>1. ASSUME NEW s \in Sockets, Connect(s) PROVE TypeOK'
  <2>1. Free # {} => Min(Free) \in Numbers
    BY LowestFree
  <2>2. file' \in [Numbers -> {"free", "taken", "socket", "listening", "connected", "reset"}]
    BY <1>1 DEF Connect, ConnectFails, CreateFails, BindFails, Holds, Succeeds
  <2>3. m_fd' \in [Sockets -> Numbers \cup {-1}]
    BY <1>1, <2>1 DEF Connect, ConnectFails, CreateFails, BindFails, Holds, Succeeds
  <2>4. m_state' \in [Sockets -> {"none", "Unknown", "Listening", "Connected", "Shutdown",
                                  "Closed"}]
    BY <1>1 DEF Connect, ConnectFails, CreateFails, BindFails, Holds, Succeeds
  <2> QED
    BY <1>1, <2>2, <2>3, <2>4 DEF Connect
<1>2. ASSUME NEW s \in Sockets, Listen(s) PROVE TypeOK'
  <2>1. Free # {} => Min(Free) \in Numbers
    BY LowestFree
  <2>2. file' \in [Numbers -> {"free", "taken", "socket", "listening", "connected", "reset"}]
    BY <1>2 DEF Listen, CreateFails, BindFails, Holds, Succeeds
  <2>3. m_fd' \in [Sockets -> Numbers \cup {-1}]
    BY <1>2, <2>1 DEF Listen, CreateFails, BindFails, Holds, Succeeds
  <2>4. m_state' \in [Sockets -> {"none", "Unknown", "Listening", "Connected", "Shutdown",
                                  "Closed"}]
    BY <1>2 DEF Listen, CreateFails, BindFails, Holds, Succeeds
  <2> QED
    BY <1>2, <2>2, <2>3, <2>4 DEF Listen, Succeeds
<1>3. ASSUME NEW s \in Sockets, CloseGentle(s) PROVE TypeOK'
  BY <1>3 DEF CloseGentle, File, Users
<1>4. ASSUME NEW s \in Sockets, CloseFast(s) PROVE TypeOK'
  BY <1>4 DEF CloseFast, CloseNow, ClosedState, ForgetFd, Users
<1>5. ASSUME NEW s \in Sockets, Destroy(s) PROVE TypeOK'
  BY <1>5 DEF Destroy, CloseNow, ForgetFd, Users
<1>6. ASSUME Event PROVE TypeOK'
  BY <1>6 DEF Event, is_listening, Goto
<1>7. ASSUME OnReadReady PROVE TypeOK'
  BY <1>7 DEF OnReadReady, Goto, Threads
<1>8. ASSUME Accept PROVE TypeOK'
  <2>1. Free # {} => Min(Free) \in Numbers
    BY LowestFree
  <2>2. file' \in [Numbers -> {"free", "taken", "socket", "listening", "connected", "reset"}]
    BY <1>8 DEF Accept, Holds
  <2>3. m_fd' \in [Sockets -> Numbers \cup {-1}]
    BY <1>8, <2>1 DEF Accept, Holds
  <2>4. m_state' \in [Sockets -> {"none", "Unknown", "Listening", "Connected", "Shutdown",
                                  "Closed"}]
    BY <1>8 DEF Accept, Holds
  <2> QED
    BY <1>8, <2>2, <2>3, <2>4 DEF Accept
<1>9. ASSUME AcceptFails PROVE TypeOK'
  BY <1>9 DEF AcceptFails, ForgetFd
<1>10. ASSUME AcceptEnds PROVE TypeOK'
  BY <1>10 DEF AcceptEnds, OwnerAfterAccept, Goto
<1>11. ASSUME HandOver PROVE TypeOK'
  <2>1. handed' \in 0 .. accepted' /\ alive' \in {"yes", "exception", "fatal"}
    BY <1>11 DEF HandOver
  <2> QED
    BY <1>11, <2>1 DEF HandOver, Goto
<1>12. ASSUME Drop PROVE TypeOK'
  <2>1. handed' \in 0 .. accepted'
    BY <1>12 DEF Drop
  <2> QED
    BY <1>12, <2>1 DEF Drop, CloseNow, ForgetFd
<1>13. ASSUME Register PROVE TypeOK'
  <2>1. handed \in Children
    BY <1>13 DEF Register, ChildInv, Children
  <2> QED
    BY <1>13, <2>1 DEF Register, Goto
<1>14. ASSUME HandlerReturn PROVE TypeOK'
  <2>1. armed' \in BOOLEAN
    <3>1. ASSUME NEW n \in Int PROVE (n > 0) \in BOOLEAN
      OBVIOUS
    <3>2. m_fd[Acceptor] \in Int
      BY FdType DEF Sockets
    <3>3. armed' = (m_fd[Acceptor] > 0)
      BY <1>14, Zenon DEF HandlerReturn, is_valid
    <3> QED
      BY <3>1, <3>2, <3>3, Zenon
  <2> QED
    BY <1>14, <2>1 DEF HandlerReturn, Goto
<1>15. ASSUME NEW t \in Threads, CloseSocket(t) PROVE TypeOK'
  BY <1>15 DEF CloseSocket, Goto
<1>16. ASSUME NEW t \in Threads, CloseAcceptor(t) PROVE TypeOK'
  BY <1>16 DEF CloseAcceptor, CloseNow, ClosedState, ForgetFd, Goto
<1>17. ASSUME NEW t \in Threads, Unregister(t) PROVE TypeOK'
  BY <1>17 DEF Unregister, Goto
<1>18. ASSUME PeerConnects PROVE TypeOK'
  BY <1>18 DEF PeerConnects, is_listening
<1>19. ASSUME NEW n \in Numbers, PeerResets(n) PROVE TypeOK'
  BY <1>19 DEF PeerResets
<1> HIDE DEF TypeOK
<1> QED
  BY <1>1, <1>2, <1>3, <1>4, <1>5, <1>6, <1>7, <1>8, <1>9, <1>10, <1>11,
       <1>12, <1>13, <1>14, <1>15, <1>16, <1>17, <1>18, <1>19 DEF Next,
       Running

\* Every system call leaves each number with one holder or none.
LEMMA OwnedStep ==
    ASSUME 0 \in Taken, TypeOK, OwnedInv, StateInv, ChildInv, Next
    PROVE  OwnedInv' /\ StateInv'
<1> USE NumbersAssumption, SocketsAssumption DEF TypeOK, socketVars, childVars, loopVars
<1> DEFINE Inv == OwnedInv /\ StateInv
<1>1. ASSUME NEW s \in Sockets, Connect(s) PROVE Inv'
  <2>1. m_fd[s] = -1 /\ m_state[s] \in {"Unknown", "Closed"} /\ dropped' = dropped
    BY <1>1 DEF Connect, is_valid, OwnedInv
  <2>2. CASE CreateFails(s)
    <3>1. m_fd' = m_fd
      BY <2>1, <2>2 DEF CreateFails
    <3> QED
      BY <2>1, <2>2, <3>1 DEF CreateFails, OwnedInv, StateInv
  <2>3. CASE BindFails(s)
    <3>1. m_state' = [m_state EXCEPT ![s] = m_state[s]]
      BY <2>3 DEF BindFails
    <3> QED
      BY <2>1, <2>3, <3>1, OpenStep DEF BindFails
  <2>4. CASE Succeeds(s, "connected", "Connected")
    BY <2>1, <2>4, OpenStep DEF Succeeds
  <2>5. CASE ConnectFails(s)
    <3>1. m_fd' = m_fd
      BY <2>1, <2>5 DEF ConnectFails
    <3> QED
      BY <2>1, <2>5, <3>1 DEF ConnectFails, OwnedInv, StateInv
  <2> QED
    BY <1>1, <2>2, <2>3, <2>4, <2>5 DEF Connect
<1>2. ASSUME NEW s \in Sockets, Listen(s) PROVE Inv'
  <2>1. m_fd[s] = -1 /\ m_state[s] \in {"Unknown", "Closed"} /\ dropped' = dropped
    BY <1>2 DEF Listen, is_valid, OwnedInv
  <2>2. CASE CreateFails(s)
    <3>1. m_fd' = m_fd
      BY <2>1, <2>2 DEF CreateFails
    <3> QED
      BY <2>1, <2>2, <3>1 DEF CreateFails, OwnedInv, StateInv
  <2>3. CASE BindFails(s)
    <3>1. m_state' = [m_state EXCEPT ![s] = m_state[s]]
      BY <2>3 DEF BindFails
    <3> QED
      BY <2>1, <2>3, <3>1, OpenStep DEF BindFails
  <2>4. CASE Succeeds(s, "listening", "Listening")
    BY <2>1, <2>4, OpenStep DEF Succeeds
  <2> QED
    BY <1>2, <2>2, <2>3, <2>4 DEF Listen
<1>3. ASSUME NEW s \in Sockets, CloseGentle(s) PROVE Inv'
  BY <1>3 DEF CloseGentle, File, Users, OwnedInv, StateInv
<1>4. ASSUME NEW s \in Sockets, CloseFast(s) PROVE Inv'
  <2>1. CloseNow(s, ClosedState(s))
    BY <1>4 DEF CloseFast
  <2> QED
    BY <2>1, CloseStep
<1>5. ASSUME NEW s \in Sockets, Destroy(s) PROVE Inv'
  <2>1. CloseNow(s, "none")
    BY <1>5 DEF Destroy
  <2> QED
    BY <2>1, CloseStep
<1>6. ASSUME Event PROVE Inv'
  BY <1>6 DEF Event, is_listening, Goto, OwnedInv, StateInv
<1>7. ASSUME OnReadReady PROVE Inv'
  BY <1>7 DEF OnReadReady, is_listening, Goto, OwnedInv, StateInv
<1>8. ASSUME Accept PROVE Inv'
  <2>1. accepted + 1 \in Children /\ accepted + 1 \in Sockets
    BY <1>8 DEF Accept, Sockets, Children
  <2>2. m_fd[accepted + 1] = -1
    BY <2>1 DEF ChildInv
  <2> QED
    BY <1>8, <2>1, <2>2, OpenStep DEF Accept
<1>9. ASSUME AcceptFails PROVE Inv'
  <2>1. Acceptor \in Sockets
    BY DEF Sockets
  <2> QED
    BY <1>9, <2>1 DEF AcceptFails, ForgetFd, OwnedInv, StateInv
<1>10. ASSUME AcceptEnds PROVE Inv'
  BY <1>10 DEF AcceptEnds, OwnerAfterAccept, Goto, OwnedInv, StateInv
<1>11. ASSUME HandOver PROVE Inv'
  BY <1>11 DEF HandOver, Goto, OwnedInv, StateInv
<1>12. ASSUME Drop PROVE Inv'
  <2>1. handed + 1 \in Sockets
    BY <1>12 DEF Drop, Sockets, Children
  <2>2. CloseNow(handed + 1, "none")
    BY <1>12 DEF Drop
  <2> QED
    BY <2>1, <2>2, CloseStep
<1>13. ASSUME Register PROVE Inv'
  BY <1>13 DEF Register, Goto, OwnedInv, StateInv
<1>14. ASSUME HandlerReturn PROVE Inv'
  BY <1>14 DEF HandlerReturn, Goto, OwnedInv, StateInv
<1>15. ASSUME NEW t \in Threads, CloseSocket(t) PROVE Inv'
  BY <1>15 DEF CloseSocket, Goto, OwnedInv, StateInv
<1>16. ASSUME NEW t \in Threads, CloseAcceptor(t) PROVE Inv'
  <2>1. Acceptor \in Sockets
    BY DEF Sockets
  <2>2. CloseNow(Acceptor, ClosedState(Acceptor))
    BY <1>16 DEF CloseAcceptor
  <2> QED
    BY <2>1, <2>2, CloseStep
<1>17. ASSUME NEW t \in Threads, Unregister(t) PROVE Inv'
  BY <1>17 DEF Unregister, Goto, OwnedInv, StateInv
<1>18. ASSUME PeerConnects PROVE Inv'
  BY <1>18 DEF PeerConnects, is_listening, OwnedInv, StateInv
<1>19. ASSUME NEW n \in Numbers, PeerResets(n) PROVE Inv'
  BY <1>19 DEF PeerResets, OwnedInv, StateInv
<1> QED
  BY <1>1, <1>2, <1>3, <1>4, <1>5, <1>6, <1>7, <1>8, <1>9, <1>10, <1>11,
       <1>12, <1>13, <1>14, <1>15, <1>16, <1>17, <1>18, <1>19 DEF Next,
       Running

\* The sockets between accept() and on_new_connection() are touched by nobody.
LEMMA ChildStep ==
    ASSUME TypeOK, OwnedInv, StateInv, ChildInv, AcceptorInv, Next
    PROVE  ChildInv'
<1> USE NumbersAssumption, SocketsAssumption DEF TypeOK, OwnedInv, StateInv, ChildInv,
        is_valid, Children, Sockets, Threads, socketVars, childVars, loopVars
<1>1. ASSUME NEW s \in Sockets, Connect(s) PROVE ChildInv'
  BY <1>1 DEF Connect, ConnectFails, CreateFails, BindFails, Holds, Succeeds
<1>2. ASSUME NEW s \in Sockets, Listen(s) PROVE ChildInv'
  BY <1>2 DEF Listen, CreateFails, BindFails, Holds, Succeeds
<1>3. ASSUME NEW s \in Sockets, CloseGentle(s) PROVE ChildInv'
  BY <1>3 DEF CloseGentle, File, Users
<1>4. ASSUME NEW s \in Sockets, CloseFast(s) PROVE ChildInv'
  BY <1>4 DEF CloseFast, CloseNow, ClosedState, ForgetFd, Users
<1>5. ASSUME NEW s \in Sockets, Destroy(s) PROVE ChildInv'
  BY <1>5 DEF Destroy, CloseNow, ForgetFd, Users
<1>6. ASSUME Event PROVE ChildInv'
  BY <1>6 DEF Event, is_listening, Goto
<1>7. ASSUME OnReadReady PROVE ChildInv'
  BY <1>7 DEF OnReadReady, is_listening, Goto
<1>8. ASSUME Accept PROVE ChildInv'
  BY <1>8 DEF Accept, Holds
<1>9. ASSUME AcceptFails PROVE ChildInv'
  BY <1>9 DEF AcceptFails, ForgetFd
<1>10. ASSUME AcceptEnds PROVE ChildInv'
  BY <1>10 DEF AcceptEnds, OwnerAfterAccept, Goto
<1>11. ASSUME HandOver PROVE ChildInv'
  BY <1>11 DEF HandOver, Goto
<1>12. ASSUME Drop PROVE ChildInv'
  BY <1>12 DEF Drop, CloseNow, ForgetFd
<1>13. ASSUME Register PROVE ChildInv'
  BY <1>13 DEF Register, Goto
<1>14. ASSUME HandlerReturn PROVE ChildInv'
  BY <1>14 DEF HandlerReturn, Goto
<1>15. ASSUME NEW t \in Threads, CloseSocket(t) PROVE ChildInv'
  BY <1>15 DEF CloseSocket, Goto
<1>16. ASSUME NEW t \in Threads, CloseAcceptor(t) PROVE ChildInv'
  BY <1>16 DEF CloseAcceptor, CloseNow, ClosedState, ForgetFd, Goto
<1>17. ASSUME NEW t \in Threads, Unregister(t) PROVE ChildInv'
  BY <1>17 DEF Unregister, Goto
<1>18. ASSUME PeerConnects PROVE ChildInv'
  BY <1>18 DEF PeerConnects, is_listening
<1>19. ASSUME NEW n \in Numbers, PeerResets(n) PROVE ChildInv'
  BY <1>19 DEF PeerResets
<1> HIDE DEF ChildInv
<1> QED
  BY <1>1, <1>2, <1>3, <1>4, <1>5, <1>6, <1>7, <1>8, <1>9, <1>10, <1>11,
       <1>12, <1>13, <1>14, <1>15, <1>16, <1>17, <1>18, <1>19 DEF Next,
       Running

\* The acceptor is not destroyed under its users, nor closed while accepting.
LEMMA AcceptorStep ==
    ASSUME TypeOK, ChildInv, AcceptorInv, Next
    PROVE  AcceptorInv'
<1> USE SocketsAssumption, ThreadsAssumption DEF TypeOK, ChildInv, AcceptorInv, is_valid,
        Children, Sockets, Threads, socketVars, childVars, loopVars
<1>1. ASSUME NEW s \in Sockets, Connect(s) PROVE AcceptorInv'
  BY <1>1 DEF Connect, ConnectFails, CreateFails, BindFails, Holds, Succeeds
<1>2. ASSUME NEW s \in Sockets, Listen(s) PROVE AcceptorInv'
  BY <1>2 DEF Listen, CreateFails, BindFails, Holds, Succeeds
<1>3. ASSUME NEW s \in Sockets, CloseGentle(s) PROVE AcceptorInv'
  BY <1>3 DEF CloseGentle, File, Users
<1>4. ASSUME NEW s \in Sockets, CloseFast(s) PROVE AcceptorInv'
  BY <1>4 DEF CloseFast, CloseNow, ClosedState, ForgetFd, Users
<1>5. ASSUME NEW s \in Sockets, Destroy(s) PROVE AcceptorInv'
  BY <1>5 DEF Destroy, CloseNow, ForgetFd, Users
<1>6. ASSUME Event PROVE AcceptorInv'
  BY <1>6 DEF Event, is_listening, Goto
<1>7. ASSUME OnReadReady PROVE AcceptorInv'
  BY <1>7 DEF OnReadReady, is_listening, Goto
<1>8. ASSUME Accept PROVE AcceptorInv'
  BY <1>8 DEF Accept, Holds
<1>9. ASSUME AcceptFails PROVE AcceptorInv'
  BY <1>9 DEF AcceptFails, ForgetFd
<1>10. ASSUME AcceptEnds PROVE AcceptorInv'
  BY <1>10 DEF AcceptEnds, OwnerAfterAccept, Goto
<1>11. ASSUME HandOver PROVE AcceptorInv'
  BY <1>11 DEF HandOver, Goto
<1>12. ASSUME Drop PROVE AcceptorInv'
  BY <1>12 DEF Drop, CloseNow, ForgetFd
<1>13. ASSUME Register PROVE AcceptorInv'
  BY <1>13 DEF Register, Goto
<1>14. ASSUME HandlerReturn PROVE AcceptorInv'
  BY <1>14 DEF HandlerReturn, Goto
<1>15. ASSUME NEW t \in Threads, CloseSocket(t) PROVE AcceptorInv'
  BY <1>15 DEF CloseSocket, Goto
<1>16. ASSUME NEW t \in Threads, CloseAcceptor(t) PROVE AcceptorInv'
  BY <1>16 DEF CloseAcceptor, CloseNow, ClosedState, ForgetFd, Goto
<1>17. ASSUME NEW t \in Threads, Unregister(t) PROVE AcceptorInv'
  BY <1>17 DEF Unregister, Goto
<1>18. ASSUME PeerConnects PROVE AcceptorInv'
  BY <1>18 DEF PeerConnects, is_listening
<1>19. ASSUME NEW n \in Numbers, PeerResets(n) PROVE AcceptorInv'
  BY <1>19 DEF PeerResets
<1> HIDE DEF AcceptorInv
<1> QED
  BY <1>1, <1>2, <1>3, <1>4, <1>5, <1>6, <1>7, <1>8, <1>9, <1>10, <1>11,
       <1>12, <1>13, <1>14, <1>15, <1>16, <1>17, <1>18, <1>19 DEF Next,
       Running

\* No close() finds a descriptor missing that the state speaks of.
LEMMA NoFatalStep ==
    ASSUME TypeOK, OwnedInv, StateInv, ChildInv, AcceptorInv, NoFatal, Next
    PROVE  NoFatal'
<1> USE NumbersAssumption, SocketsAssumption DEF TypeOK, OwnedInv, StateInv, ChildInv,
        AcceptorInv, NoFatal, is_valid, Children, Sockets, Threads, socketVars, childVars,
        loopVars
<1>1. ASSUME NEW s \in Sockets, Connect(s) PROVE NoFatal'
  BY <1>1 DEF Connect, ConnectFails, CreateFails, BindFails, Holds, Succeeds
<1>2. ASSUME NEW s \in Sockets, Listen(s) PROVE NoFatal'
  BY <1>2 DEF Listen, CreateFails, BindFails, Holds, Succeeds
<1>3. ASSUME NEW s \in Sockets, CloseGentle(s) PROVE NoFatal'
  BY <1>3 DEF CloseGentle, File, Users
<1>4. ASSUME NEW s \in Sockets, CloseFast(s) PROVE NoFatal'
  BY <1>4 DEF CloseFast, CloseNow, ClosedState, ForgetFd, Users
<1>5. ASSUME NEW s \in Sockets, Destroy(s) PROVE NoFatal'
  BY <1>5 DEF Destroy, CloseNow, ForgetFd, Users
<1>6. ASSUME Event PROVE NoFatal'
  BY <1>6 DEF Event, is_listening, Goto
<1>7. ASSUME OnReadReady PROVE NoFatal'
  BY <1>7 DEF OnReadReady, is_listening, Goto
<1>8. ASSUME Accept PROVE NoFatal'
  BY <1>8 DEF Accept, Holds
<1>9. ASSUME AcceptFails PROVE NoFatal'
  BY <1>9 DEF AcceptFails, ForgetFd
<1>10. ASSUME AcceptEnds PROVE NoFatal'
  BY <1>10 DEF AcceptEnds, OwnerAfterAccept, Goto
<1>11. ASSUME HandOver PROVE NoFatal'
  BY <1>11 DEF HandOver, Goto
<1>12. ASSUME Drop PROVE NoFatal'
  BY <1>12 DEF Drop, CloseNow, ForgetFd
<1>13. ASSUME Register PROVE NoFatal'
  BY <1>13 DEF Register, Goto
<1>14. ASSUME HandlerReturn PROVE NoFatal'
  BY <1>14 DEF HandlerReturn, Goto
<1>15. ASSUME NEW t \in Threads, CloseSocket(t) PROVE NoFatal'
  BY <1>15 DEF CloseSocket, Goto
<1>16. ASSUME NEW t \in Threads, CloseAcceptor(t) PROVE NoFatal'
  BY <1>16 DEF CloseAcceptor, CloseNow, ClosedState, ForgetFd, Goto
<1>17. ASSUME NEW t \in Threads, Unregister(t) PROVE NoFatal'
  BY <1>17 DEF Unregister, Goto
<1>18. ASSUME PeerConnects PROVE NoFatal'
  BY <1>18 DEF PeerConnects, is_listening
<1>19. ASSUME NEW n \in Numbers, PeerResets(n) PROVE NoFatal'
  BY <1>19 DEF PeerResets
<1> HIDE DEF NoFatal
<1> QED
  BY <1>1, <1>2, <1>3, <1>4, <1>5, <1>6, <1>7, <1>8, <1>9, <1>10, <1>11,
       <1>12, <1>13, <1>14, <1>15, <1>16, <1>17, <1>18, <1>19 DEF Next,
       Running

----------------------------------------------------------------------------
(* The theorems.                                                            *)

\* At first no socket has a descriptor.
LEMMA InitInv == ASSUME 0 \in Taken, Init PROVE SetupInv
<1> USE NumbersAssumption, SocketsAssumption, ThreadsAssumption DEF Init
<1>1. TypeOK
  <2>1. file \in [Numbers -> {"free", "taken", "socket", "listening", "connected", "reset"}]
    OBVIOUS
  <2>2. m_fd \in [Sockets -> Numbers \cup {-1}]
    OBVIOUS
  <2>3. m_state \in [Sockets -> {"none", "Unknown", "Listening", "Connected", "Shutdown",
                                 "Closed"}]
    OBVIOUS
  <2>4. pc \in [Threads -> {"idle"}] /\ cret \in [Threads -> {"idle"}]
    OBVIOUS
  <2>5. armed \in BOOLEAN /\ alive = "yes" /\ listener = "none" /\ m_mutex = NoThread
        /\ dropped = {} /\ registered = {} /\ arrived = 0 /\ accepted = 0 /\ handed = 0
    OBVIOUS
  <2> HIDE DEF Init
  <2>6. /\ pc \in [Threads -> {"idle", "lock", "accept", "hand", "register", "c_lock", "c_unreg"}]
        /\ cret \in [Threads -> {"idle", "hand"}]
    BY <2>4
  <2> QED
    BY <2>1, <2>2, <2>3, <2>5, <2>6 DEF TypeOK
<1>2. OwnedInv
  BY DEF OwnedInv
<1>3. StateInv /\ ChildInv /\ AcceptorInv /\ NoFatal
  BY DEF StateInv, ChildInv, AcceptorInv, NoFatal, Sockets, Children, Threads
<1> QED
  BY <1>1, <1>2, <1>3 DEF SetupInv

\* The invariant is inductive.
LEMMA InvStep == ASSUME 0 \in Taken, SetupInv, [Next]_vars PROVE SetupInv'
<1>1. CASE Next
  BY <1>1, TypeOKStep, OwnedStep, ChildStep, AcceptorStep, NoFatalStep DEF SetupInv
<1>2. CASE UNCHANGED vars
  <2> USE <1>2 DEF SetupInv, vars
  <2>1. TypeOK'
    BY DEF TypeOK
  <2>2. OwnedInv' /\ StateInv'
    BY DEF OwnedInv, StateInv
  <2>3. ChildInv' /\ AcceptorInv' /\ NoFatal'
    BY DEF ChildInv, AcceptorInv, NoFatal
  <2> QED
    BY <2>1, <2>2, <2>3
<1> QED
  BY <1>1, <1>2

\* The invariant holds in every state.
LEMMA AlwaysInv == ASSUME 0 \in Taken PROVE Spec => []SetupInv
  BY InitInv, InvStep, PTL DEF Spec

\* Every variable keeps its type: m_fd is a number of the table or -1, and no
\* connection is handed over that was not accepted.
THEOREM TypeCorrect ==
    ASSUME 0 \in Taken
    PROVE  Spec => []TypeOK
<1>1. SetupInv => TypeOK
  BY DEF SetupInv
<1> QED
  BY <1>1, AlwaysInv, PTL

\* Whichever system calls fail, every open descriptor has exactly one socket
\* that will close it and a closed one has none, but for the connections that
\* close() forgets on ENOTCONN: create_fd(), bind, connect, accept, close()
\* and the destructor neither leak nor close twice.
THEOREM EveryDescriptorOwned ==
    ASSUME 0 \in Taken
    PROVE  Spec => []DescriptorsOwned
<1>1. ASSUME SetupInv PROVE DescriptorsOwned
  <2> SUFFICES ASSUME NEW n \in Numbers \ (Taken \cup dropped)
               PROVE  Cardinality(Holders(n)) = IF file[n] = "free" THEN 0 ELSE 1
    BY DEF DescriptorsOwned
  <2>1. n # -1
    BY NumbersAssumption
  <2>2. CASE file[n] = "free"
    <3>1. Holders(n) = {}
      BY <1>1, <2>1, <2>2 DEF SetupInv, OwnedInv, Holders
    <3> QED
      BY <2>2, <3>1, FS_EmptySet
  <2>3. CASE file[n] # "free"
    <3>1. PICK s \in Sockets : m_fd[s] = n
      BY <1>1, <2>3 DEF SetupInv, OwnedInv
    <3>2. Holders(n) = {s}
      BY <1>1, <2>1, <3>1 DEF SetupInv, OwnedInv, Holders
    <3> QED
      BY <2>3, <3>2, FS_Singleton
  <2> QED
    BY <2>2, <2>3
<1> QED
  BY <1>1, AlwaysInv, PTL

\* close() never meets its LOG(FATAL): a socket without descriptor is Closed
\* or Unknown whenever close() or the destructor is called, and shutdown() is
\* called on connections only.
THEOREM CloseIsNeverFatal ==
    ASSUME 0 \in Taken
    PROVE  Spec => []NoFatal
<1>1. SetupInv => NoFatal
  BY DEF SetupInv
<1> QED
  BY <1>1, AlwaysInv, PTL
=============================================================================
