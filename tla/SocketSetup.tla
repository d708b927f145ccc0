----------------------------- MODULE SocketSetup -----------------------------
(***************************************************************************)
(* How sockets get and lose their descriptors: connect(), listen(),        *)
(* accept(), close() and the destructor of TcpSocket, and a listener of    *)
(* type Acceptor whose worker accepts connections and hands them to        *)
(* on_new_connection() (src/src/network/TcpSocket.cpp and                  *)
(* src/src/NetworkSocketListener.cpp).                                     *)
(*                                                                         *)
(* All sockets of the process share its table of descriptors, in which the *)
(* kernel gives out the lowest free number.  System calls fail.  A step is *)
(* one call on a socket or one system call of the worker.  The peers of    *)
(* all connections are elsewhere.                                          *)
(***************************************************************************)
EXTENDS Naturals, Integers, Sequences, FiniteSetsExt

CONSTANTS
    Numbers,         \* descriptor numbers of the process
    Taken,           \* the ones that other parts of it have open
    Acceptor,        \* the socket on which listen() is called
    Clients,         \* sockets on which connect() is called
    MaxConnections,  \* bound on the connections to the acceptor
    NoThread

Children == 1 .. MaxConnections
Sockets == Clients \cup Children \cup {Acceptor}
Threads == {"worker", "closer"}

ASSUME NumbersAssumption ==
    /\ Numbers \subseteq Nat /\ IsFiniteSet(Numbers)
    /\ Taken \subseteq Numbers
ASSUME SocketsAssumption ==
    /\ MaxConnections \in Nat
    /\ Clients \cap (Children \cup {Acceptor}) = {}
    /\ Acceptor \notin Children
ASSUME ThreadsAssumption == NoThread \notin Threads

VARIABLES
    file,        \* number -> what is open under it
    m_fd,        \* socket -> number or -1
    m_state,     \* socket -> its state; "none" before and after its life
    dropped,     \* history: numbers that were forgotten on ENOTCONN
    arrived,     \* connections to the acceptor the kernel has completed ...
    accepted,    \* ... that accept() has returned ...
    handed,      \* ... and that on_new_connection() was called for
    registered,  \* children whose listener is in the event loop
    listener,    \* of the acceptor: "none", then "in" the event loop, then "out"
    armed,       \* epoll would report it
    m_mutex,     \* of the acceptor's listener: its owner
    pc, cret,
    alive        \* "yes", "exception" or "fatal"

vars == << file, m_fd, m_state, dropped, arrived, accepted, handed, registered,
           listener, armed, m_mutex, pc, cret, alive >>

socketVars == << file, m_fd, m_state, dropped >>
childVars == << accepted, handed, registered >>
loopVars == << listener, armed >>

----------------------------------------------------------------------------

Free == {n \in Numbers : file[n] = "free"}

is_valid(s) == m_fd[s] > 0

is_listening(s) == m_state[s] = "Listening"

Goto(t, label) == pc' = [pc EXCEPT ![t] = label]

\* A descriptor becomes the one of s.
Holds(s, n, kind) ==
    /\ file' = [file EXCEPT ![n] = kind]
    /\ m_fd' = [m_fd EXCEPT ![s] = n]

\* Seeded fault: m_fd keeps the number that was closed.
ForgetFdNot(s) == m_fd

\* m_fd = -1
ForgetFd(s) == [m_fd EXCEPT ![s] = -1]

\* The part of close() without shutdown(); the state is state afterwards.
CloseNow(s, state) ==
    /\ \/ /\ is_valid(s)
          /\ file' = [file EXCEPT ![m_fd[s]] = "free"]
          /\ m_fd' = ForgetFd(s)
          /\ UNCHANGED alive
       \/ /\ ~ is_valid(s)
          /\ alive' = IF m_state[s] \in {"Closed", "Unknown"} THEN alive ELSE "fatal"
          /\ UNCHANGED << file, m_fd >>
    /\ m_state' = [m_state EXCEPT ![s] = state]
    /\ UNCHANGED dropped

\* Seeded fault: the state is left as it is.
ClosedStateKept(s) == m_state[s]

\* The state close() leaves: without descriptor nothing is done.
ClosedState(s) == IF is_valid(s) THEN "Closed" ELSE m_state[s]

----------------------------------------------------------------------------
(* connect() and listen(), by a user that makes sure the socket has no       *)
(* descriptor yet.                                                          *)

\* socket() fails: m_fd = -1 and an exception.
CreateFails(s) ==
    /\ Free = {}
    /\ m_fd' = [m_fd EXCEPT ![s] = -1]
    /\ UNCHANGED << file, m_state >>

\* create_fd() takes number 0 for an error, or bind() or listen() fails: the
\* socket keeps the descriptor.
BindFails(s) ==
    /\ Free # {}
    /\ Holds(s, Min(Free), "socket")
    /\ UNCHANGED m_state

\* ::connect() fails: close(), in state Unknown or Closed.
ConnectFails(s) ==
    /\ Free # {} /\ Min(Free) > 0
    /\ m_state' = [m_state EXCEPT ![s] = "Closed"]
    /\ m_fd' = [m_fd EXCEPT ![s] = -1]
    /\ UNCHANGED file

Succeeds(s, kind, state) ==
    /\ Free # {} /\ Min(Free) > 0
    /\ Holds(s, Min(Free), kind)
    /\ m_state' = [m_state EXCEPT ![s] = state]

Connect(s) ==
    /\ s \in Clients
    /\ m_state[s] \in {"Unknown", "Closed"} /\ ~ is_valid(s)
    /\ \/ CreateFails(s) \/ BindFails(s) \/ ConnectFails(s)
       \/ Succeeds(s, "connected", "Connected")
    /\ UNCHANGED << dropped, arrived, childVars, loopVars, m_mutex, pc, cret, alive >>

\* listen(), and the listener that is then constructed with the socket and
\* registered.
Listen(s) ==
    /\ s = Acceptor /\ listener = "none"
    /\ m_state[s] \in {"Unknown", "Closed"} /\ ~ is_valid(s)
    /\ \/ (CreateFails(s) \/ BindFails(s)) /\ UNCHANGED loopVars
       \/ Succeeds(s, "listening", "Listening") /\ listener' = "in" /\ armed' = TRUE
    /\ UNCHANGED << dropped, arrived, childVars, m_mutex, pc, cret, alive >>

----------------------------------------------------------------------------
(* close()                                                                  *)

\* The user's part of the connections: clients, and what it was given.
Users == Clients \cup registered

\* What shutdown() finds.
File(s) == IF m_fd[s] \in Numbers THEN file[m_fd[s]] ELSE "none"

\* close(): the connection is shut down, and its reader will close it.  One
\* that is not connected any more (ENOTCONN) is left, with its descriptor open;
\* any other error is LOG(FATAL).
CloseGentle(s) ==
    LET gone == File(s) = "reset"
    IN /\ s \in Users
       /\ m_state[s] = "Connected"
       /\ m_state' = [m_state EXCEPT ![s] = IF gone THEN "Closed" ELSE "Shutdown"]
       /\ m_fd' = IF gone THEN [m_fd EXCEPT ![s] = -1] ELSE m_fd
       /\ dropped' = IF gone THEN dropped \cup {m_fd[s]} ELSE dropped
       /\ alive' = IF File(s) \in {"connected", "reset"} THEN alive ELSE "fatal"
       /\ UNCHANGED << file, arrived, childVars, loopVars, m_mutex, pc, cret >>

\* close() otherwise, and close(true) by the reader at the end of the stream.
CloseFast(s) ==
    /\ s \in Users \cup {Acceptor}
    /\ m_state[s] # "none"
    /\ s = Acceptor => listener = "none"
    /\ CloseNow(s, ClosedState(s))
    /\ UNCHANGED << arrived, childVars, loopVars, m_mutex, pc, cret >>

\* ~TcpSocket()
Destroy(s) ==
    /\ s \in Users \cup {Acceptor}
    /\ m_state[s] # "none"
    /\ s = Acceptor => listener # "in" /\ pc["worker"] = "idle" /\ pc["closer"] = "idle"
    /\ CloseNow(s, "none")
    /\ UNCHANGED << arrived, childVars, loopVars, m_mutex, pc, cret >>

----------------------------------------------------------------------------
(* The worker.                                                              *)

\* The event loop reports the acceptor.
Event ==
    /\ pc["worker"] = "idle"
    /\ listener = "in" /\ armed /\ is_listening(Acceptor)
    /\ arrived > accepted
    /\ armed' = FALSE
    /\ Goto("worker", "lock")
    /\ UNCHANGED << socketVars, arrived, childVars, listener, m_mutex, cret, alive >>

\* on_read_ready(): accept() throws on a socket that was closed meanwhile, and
\* nobody catches it.
OnReadReady ==
    /\ pc["worker"] = "lock"
    /\ m_mutex = NoThread
    /\ \/ is_listening(Acceptor) /\ m_mutex' = "worker" /\ UNCHANGED alive
       \/ ~ is_listening(Acceptor) /\ alive' = "exception" /\ UNCHANGED m_mutex
    /\ Goto("worker", "accept")
    /\ UNCHANGED << socketVars, arrived, childVars, loopVars, cret >>

\* internal_accept() returns a descriptor and a child socket is constructed.
Accept ==
    LET child == accepted + 1
    IN /\ pc["worker"] = "accept"
       /\ arrived > accepted /\ Free # {}
       /\ accepted' = child
       /\ Holds(child, Min(Free), "connected")
       /\ m_state' = [m_state EXCEPT ![child] = "Connected"]
       /\ UNCHANGED << dropped, arrived, handed, registered, loopVars,
                       m_mutex, pc, cret, alive >>

\* EMFILE or another error: close() and an exception that ends the process.
AcceptFails ==
    /\ pc["worker"] = "accept"
    /\ arrived > accepted
    /\ file' = [file EXCEPT ![m_fd[Acceptor]] = "free"]
    /\ m_fd' = ForgetFd(Acceptor)
    /\ m_state' = [m_state EXCEPT ![Acceptor] = "Closed"]
    /\ alive' = "exception"
    /\ UNCHANGED << dropped, arrived, childVars, loopVars, m_mutex, pc, cret >>

\* Seeded fault: on_new_connection() is called with the lock held.
OwnerInCallbacks == "worker"

\* lock.unlock()
OwnerAfterAccept == NoThread

\* EWOULDBLOCK
AcceptEnds ==
    /\ pc["worker"] = "accept"
    /\ arrived = accepted
    /\ m_mutex' = OwnerAfterAccept
    /\ Goto("worker", "hand")
    /\ UNCHANGED << socketVars, arrived, childVars, loopVars, cret, alive >>

\* on_new_connection() keeps the socket: set_socket() throws if it is not
\* valid.  (wait_connection_established(), in the constructor that takes a
\* socket, returns at once for TCP.)
HandOver ==
    LET child == handed + 1
    IN /\ pc["worker"] = "hand"
       /\ handed < accepted
       /\ handed' = child
       /\ alive' = IF is_valid(child) THEN alive ELSE "exception"
       /\ Goto("worker", "register")
       /\ UNCHANGED << socketVars, arrived, accepted, registered, loopVars, m_mutex, cret >>

Register ==
    /\ pc["worker"] = "register"
    /\ registered' = registered \cup {handed}
    /\ Goto("worker", "hand")
    /\ UNCHANGED << socketVars, arrived, accepted, handed, loopVars, m_mutex, cret, alive >>

\* on_new_connection() drops the socket: its destructor closes it.
Drop ==
    LET child == handed + 1
    IN /\ pc["worker"] = "hand"
       /\ handed < accepted
       /\ handed' = child
       /\ CloseNow(child, "none")
       /\ UNCHANGED << arrived, accepted, registered, loopVars, m_mutex, pc, cret >>

\* The handler returns and the listener is re-registered if it is valid.
HandlerReturn ==
    /\ pc["worker"] = "hand"
    /\ handed = accepted
    /\ armed' = is_valid(Acceptor)
    /\ Goto("worker", "idle")
    /\ UNCHANGED << socketVars, arrived, childVars, listener, m_mutex, cret, alive >>

----------------------------------------------------------------------------
(* close_socket() of the acceptor's listener, by another thread or from      *)
(* on_new_connection().                                                     *)

CloseSocket(t) ==
    /\ listener = "in"
    /\ pc[t] = IF t = "worker" THEN "hand" ELSE "idle"
    /\ cret' = [cret EXCEPT ![t] = pc[t]]
    /\ Goto(t, "c_lock")
    /\ UNCHANGED << socketVars, arrived, childVars, loopVars, m_mutex, alive >>

\* close_socket_internal(): the lock is released after m_socket->close().
CloseAcceptor(t) ==
    /\ pc[t] = "c_lock"
    /\ m_mutex = NoThread
    /\ CloseNow(Acceptor, ClosedState(Acceptor))
    /\ Goto(t, "c_unreg")
    /\ UNCHANGED << arrived, childVars, loopVars, m_mutex, cret >>

Unregister(t) ==
    /\ pc[t] = "c_unreg"
    /\ listener' = "out"
    /\ Goto(t, cret[t])
    /\ UNCHANGED << socketVars, arrived, childVars, armed, m_mutex, cret, alive >>

----------------------------------------------------------------------------
(* The peers.                                                               *)

PeerConnects ==
    /\ is_listening(Acceptor)
    /\ arrived < MaxConnections
    /\ arrived' = arrived + 1
    /\ UNCHANGED << socketVars, childVars, loopVars, m_mutex, pc, cret, alive >>

PeerResets(n) ==
    /\ file[n] = "connected"
    /\ file' = [file EXCEPT ![n] = "reset"]
    /\ UNCHANGED << m_fd, m_state, dropped, arrived, childVars, loopVars, m_mutex, pc, cret,
                    alive >>

----------------------------------------------------------------------------

Init ==
    /\ file = [n \in Numbers |-> IF n \in Taken THEN "taken" ELSE "free"]
    /\ m_fd = [s \in Sockets |-> -1]
    /\ m_state = [s \in Sockets |-> IF s \in Children THEN "none" ELSE "Unknown"]
    /\ dropped = {}
    /\ arrived = 0 /\ accepted = 0 /\ handed = 0
    /\ registered = {}
    /\ listener = "none" /\ armed = FALSE
    /\ m_mutex = NoThread
    /\ pc = [t \in Threads |-> "idle"]
    /\ cret = [t \in Threads |-> "idle"]
    /\ alive = "yes"

\* What the worker, a thread in close_socket() and the event loop do by
\* themselves.
Running ==
    /\ alive = "yes"
    /\ \/ Event \/ OnReadReady \/ Accept \/ AcceptFails \/ AcceptEnds
       \/ HandOver \/ Drop \/ Register \/ HandlerReturn
       \/ \E t \in Threads : CloseAcceptor(t) \/ Unregister(t)

Next ==
    \/ Running
    \/ /\ alive = "yes"
       /\ \/ \E s \in Sockets : \/ Connect(s) \/ Listen(s)
                                \/ CloseGentle(s) \/ CloseFast(s) \/ Destroy(s)
          \/ \E t \in Threads : CloseSocket(t)
          \/ PeerConnects
          \/ \E n \in Numbers : PeerResets(n)

Spec == Init /\ [][Next]_vars /\ WF_vars(Running)

----------------------------------------------------------------------------

\* The type of every variable.
TypeOK ==
    /\ file \in [Numbers -> {"free", "taken", "socket", "listening", "connected", "reset"}]
    /\ m_fd \in [Sockets -> Numbers \cup {-1}]
    /\ m_state \in [Sockets -> {"none", "Unknown", "Listening", "Connected", "Shutdown",
                                "Closed"}]
    /\ dropped \subseteq Numbers
    /\ arrived \in 0 .. MaxConnections
    /\ accepted \in 0 .. arrived
    /\ handed \in 0 .. accepted
    /\ registered \subseteq Children
    /\ listener \in {"none", "in", "out"}
    /\ armed \in BOOLEAN
    /\ m_mutex \in Threads \cup {NoThread}
    /\ pc \in [Threads -> {"idle", "lock", "accept", "hand", "register", "c_lock", "c_unreg"}]
    /\ cret \in [Threads -> {"idle", "hand"}]
    /\ alive \in {"yes", "exception", "fatal"}

\* The sockets that exist and hold n.
Holders(n) == {s \in Sockets : m_state[s] # "none" /\ m_fd[s] = n}

\* Every descriptor that was opened is held by exactly one socket, which will
\* close it, and a number that was closed by none: nothing leaks and nothing is
\* closed twice, whichever system call fails.  close() on a connection that
\* the peer has reset is the exception: it forgets the descriptor.
DescriptorsOwned ==
    \A n \in Numbers \ (Taken \cup dropped) :
        Cardinality(Holders(n)) = IF file[n] = "free" THEN 0 ELSE 1

\* No LOG(FATAL) of close(): a socket without descriptor is in state Closed or
\* Unknown.
NoFatal == alive # "fatal"

\* A connection the kernel has completed is handed to the user, unless the
\* acceptor is closed.
ConnectionsServed ==
    \A k \in Children :
        arrived >= k ~> (handed >= k \/ ~ is_listening(Acceptor) \/ alive # "yes")
=============================================================================
