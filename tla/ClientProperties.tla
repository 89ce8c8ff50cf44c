-------------------------- MODULE ClientProperties --------------------------
(***************************************************************************)
(* What ProxyClient, its listener and its poller owe the tunnels: exact    *)
(* registrations, no descriptor lost or shared, a sound pool, and events   *)
(* that reach the connection they were meant for.                          *)
(***************************************************************************)
EXTENDS ProxyClient

\* The members of ProxyClient and of its poller have their types.
PollerType ==
  [reads : SUBSET Fd, writes : SUBSET Fd, top : Fd \cup {-1}, count : Int,
   readers : [Fd -> Conn \cup {Listener, Nobody}],
   writers : [Fd -> Conn \cup {Listener, Nobody}]]
ConnType ==
  [fd : Fd \cup {NoFd}, rd : BOOLEAN, wr : BOOLEAN,
   status : {"Closed", "Connecting", "Connected"}]
TypeOK ==
  /\ poller \in PollerType
  /\ conn \in [Conn -> ConnType]
  /\ file \in [Tunnel -> Fd \cup {NoFd}]
  /\ open \subseteq Fd
  /\ alive \subseteq Tunnel /\ handled \subseteq Tunnel /\ broken \subseteq Tunnel
  /\ free \in Seq(Tunnel)
  /\ mbLoop \in BOOLEAN
  /\ at \in {"off", "test", "select", "dispatch", "accept", "reclaim", "ended"}
  /\ reads \subseteq Fd /\ writes \subseteq Fd
  /\ ready \in Int /\ accepts \in Nat /\ backlog \in Int
  /\ fresh \subseteq Conn

\* The four views that the poller keeps of what is watched agree: the two sets,
\* the two maps of handlers, the largest descriptor and the count of writers.
\* select() is given too few descriptors, or not the writers, when they do not.
Exact(p) ==
  /\ p.reads  = {fd \in Fd : p.readers[fd] # Nobody}
  /\ p.writes = {fd \in Fd : p.writers[fd] # Nobody}
  /\ p.count = Cardinality(p.writes)
  /\ p.top \in p.reads \cup p.writes \cup {-1}
  /\ \A fd \in p.reads \cup p.writes : fd <= p.top
PollerExact == Exact(poller)

\* Whom the poller calls, and who thinks that it is watched, are the same
\* connections, on their own open descriptors: no event reaches a connection
\* that was closed, recycled or deleted, and only a descriptor that does not
\* fit in an fd_set is never watched.
HandlersOwn ==
  /\ \A fd \in Fd :
       /\ poller.readers[fd] \in {Nobody, Listener} \/ conn[poller.readers[fd]].fd = fd
       /\ poller.writers[fd] = Nobody \/ conn[poller.writers[fd]].fd = fd
  /\ \A c \in Conn :
       /\ conn[c].rd => conn[c].fd \in open
       /\ conn[c].wr => conn[c].fd \in open
       /\ \A fd \in Fd : fd < SetSize =>
            /\ poller.readers[fd] = c <=> conn[c].rd /\ conn[c].fd = fd
            /\ poller.writers[fd] = c <=> conn[c].wr /\ conn[c].fd = fd

\* Who holds which descriptor.
Held ==
  {<<c, conn[c].fd>> : c \in {d \in Conn : conn[d].fd # NoFd}} \cup
  {<<<<t, "file">>, file[t]>> : t \in {u \in Tunnel : file[u] # NoFd}} \cup
  {<<<<0, "log">>, LogFd>>, <<Listener, ListenFd>>}

\* Every open descriptor has exactly one holder, and none has lost his: however
\* a session ends or fails to start, nothing leaks and nothing is shared.
NoFdLeak ==
  /\ open = {h[2] : h \in Held}
  /\ Cardinality(open) = Cardinality(Held)

\* A tunnel is free once, or broken, or in use; a free or broken one exists,
\* has no descriptor left, and the pool keeps no more than CACHE_TUN_SIZE.
PoolSound ==
  /\ Cardinality(Range(free)) = Len(free) /\ Len(free) <= CACHE_TUN_SIZE
  /\ Range(free) \cap broken = {}
  /\ Range(free) \cup broken \cup handled \subseteq alive
  /\ \A t \in Tunnel :
       t \in Range(free) \cup broken \/ t \notin alive =>
         /\ file[t] = NoFd
         /\ \A side \in Side : conn[<<t, side>>] = ClosedConn

\* An event that select() reported reaches the connection that it was reported
\* for, or nobody: not one that was opened later in the same pass and was given
\* a descriptor that had just been closed.
NoStaleEvent ==
  \A c \in fresh :
    /\ c[1] \notin broken => conn[c].fd \notin reads \cup writes
    /\ \A fd \in reads : poller.readers[fd] # c
    /\ \A fd \in writes : poller.writers[fd] # c

\* Among the others each tunnel remains the Session that it is alone, whichever
\* descriptors it is given and however often its object is recycled or deleted.
Place(t) ==
  IF t \in broken THEN "broken"
  ELSE IF t \notin alive \/ t \in Range(free) THEN "free" ELSE "active"
SocketOf(c) == [status |-> conn[c].status, rd |-> conn[c].rd, wr |-> conn[c].wr]
AsSession(t) == INSTANCE Session WITH
  socket <- [side \in Side |-> SocketOf(<<t, side>>)],
  file <- file[t] # NoFd, known <- t \in handled, place <- Place(t)
TunnelsAreSessions ==
  /\ \A t \in Tunnel : AsSession(t)!Init
  /\ [][\A t \in Tunnel : AsSession(t)!Next \/ UNCHANGED AsSession(t)!vars]_vars

\* The request to leave the loop is met, whatever goes on in the passes.
LoopEnds == at # "off" /\ ~ mbLoop ~> at = "ended"

\* A client that waits is accepted while the process has descriptors: sessions
\* that come and go never make the poller lose sight of the listener.
Admitted ==
  at # "off" /\ backlog = MaxBacklog ~>
    backlog < MaxBacklog \/ at = "ended" \/ Fd \subseteq open \/ OutOfTunnels
=============================================================================
