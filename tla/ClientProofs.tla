---------------------------- MODULE ClientProofs ----------------------------
(***************************************************************************)
(* For every number of tunnels, descriptors and clients: the members of    *)
(* ProxyClient and of its poller keep their types, and the poller's views  *)
(* of what is watched agree; the poller calls the connections that are     *)
(* watched, on their own descriptors; every open descriptor has one        *)
(* holder; the pool is sound; no event of a pass reaches a connection that *)
(* was opened in it; and each tunnel is a Session.                         *)
(***************************************************************************)
EXTENDS ClientProperties, FiniteSetTheorems, SequenceTheorems, TLAPS

-----------------------------------------------------------------------------
(* The methods of the poller.                                              *)

Handler == Conn \cup {Listener}

\* A connection or the listener is somebody.
LEMMA HandlerIsSomebody == Nobody \notin Handler
BY ClientAssumption DEF Handler, Conn, Side, Tunnel, Nobody, Listener

\* Sets of descriptors are finite.
LEMMA FdSetsFinite == ASSUME NEW S \in SUBSET Fd PROVE IsFiniteSet(S)
<1>1. IsFiniteSet(Fd)
  BY FS_Interval, PollerAssumption DEF Fd
<1> QED
  BY <1>1, FS_Subset

\* recalcMaxFD() returns the largest descriptor that has a handler, or -1.
LEMMA RecalcLaw ==
  ASSUME NEW p
  PROVE  /\ RecalcMaxFD(p) \in Handled(p) \cup {-1}
         /\ \A fd \in Handled(p) : fd <= RecalcMaxFD(p)
<1>1. Handled(p) \in SUBSET Fd
  BY DEF Handled
<1>2. \E m \in Handled(p) \cup {-1} : \A fd \in Handled(p) : fd <= m
  BY <1>1, PollerAssumption
<1> QED
  BY <1>2 DEF RecalcMaxFD

\* A descriptor that is watched fits in an fd_set.
Fits(p) == \A fd \in p.reads \cup p.writes : fd < SetSize

GoodPoller(p) == p \in PollerType /\ Exact(p) /\ Fits(p)

\* Registration keeps the poller exact.
LEMMA RegisterForReadLaw ==
  ASSUME NEW p, GoodPoller(p), NEW fd \in Fd, NEW h \in Handler
  PROVE  GoodPoller(RegisterForRead(p, fd, h))
<1> DEFINE q == RegisterForRead(p, fd, h)
<1>1. CASE SetSize <= fd \/ fd \in p.reads
  BY <1>1 DEF RegisterForRead
<1>2. CASE ~ (SetSize <= fd \/ fd \in p.reads)
  <2>1. q = [p EXCEPT !.reads = @ \cup {fd}, !.top = Larger(fd, @), !.readers[fd] = h]
    BY <1>2 DEF RegisterForRead
  <2>2. /\ q.reads = p.reads \cup {fd} /\ q.writes = p.writes
        /\ q.readers = [p.readers EXCEPT ![fd] = h] /\ q.writers = p.writers
        /\ q.top = Larger(fd, p.top) /\ q.count = p.count
    BY <2>1 DEF GoodPoller, PollerType
  <2>3. q \in PollerType
    <3>1. p.reads \cup {fd} \in SUBSET Fd /\ Larger(fd, p.top) \in Fd \cup {-1}
      BY DEF GoodPoller, PollerType, Larger
    <3>2. [p.readers EXCEPT ![fd] = h] \in [Fd -> Conn \cup {Listener, Nobody}]
      BY DEF GoodPoller, PollerType, Handler
    <3>3. p.count + 1 \in Int
      BY DEF GoodPoller, PollerType
    <3> QED
      BY <2>1, <3>1, <3>2, <3>3 DEF GoodPoller, PollerType
  <2>4. q.reads = {x \in Fd : q.readers[x] # Nobody}
    BY <2>2, HandlerIsSomebody DEF GoodPoller, PollerType, Exact
  <2>5. fd \in Int /\ p.top \in Int /\ (\A x \in p.reads \cup p.writes : x \in Int)
    BY DEF GoodPoller, PollerType, Fd
  <2>6. q.top \in q.reads \cup q.writes \cup {-1} /\ \A x \in q.reads \cup q.writes : x <= q.top
    BY <2>2, <2>5 DEF GoodPoller, Exact, Larger
  <2>8. Fits(q)
    BY <1>2, <2>2, <2>5, PollerAssumption DEF GoodPoller, Fits
  <2> QED
    BY <2>2, <2>3, <2>4, <2>6, <2>8 DEF GoodPoller, Exact
<1> QED
  BY <1>1, <1>2

\* The same for the write event, which is counted.
LEMMA RegisterForWriteLaw ==
  ASSUME NEW p, GoodPoller(p), NEW fd \in Fd, NEW h \in Handler
  PROVE  GoodPoller(RegisterForWrite(p, fd, h))
<1> DEFINE q == RegisterForWrite(p, fd, h)
<1>1. CASE SetSize <= fd \/ fd \in p.writes
  BY <1>1 DEF RegisterForWrite
<1>2. CASE ~ (SetSize <= fd \/ fd \in p.writes)
  <2>1. q = [p EXCEPT !.writes = @ \cup {fd}, !.top = Larger(fd, @), !.count = @ + 1,
                      !.writers[fd] = h]
    BY <1>2 DEF RegisterForWrite
  <2>2. /\ q.reads = p.reads /\ q.writes = p.writes \cup {fd}
        /\ q.readers = p.readers /\ q.writers = [p.writers EXCEPT ![fd] = h]
        /\ q.top = Larger(fd, p.top) /\ q.count = p.count + 1
    BY <2>1 DEF GoodPoller, PollerType
  <2>3. q \in PollerType
    <3>1. p.writes \cup {fd} \in SUBSET Fd /\ Larger(fd, p.top) \in Fd \cup {-1}
      BY DEF GoodPoller, PollerType, Larger
    <3>2. [p.writers EXCEPT ![fd] = h] \in [Fd -> Conn \cup {Listener, Nobody}]
      BY DEF GoodPoller, PollerType, Handler
    <3>3. p.count + 1 \in Int
      BY DEF GoodPoller, PollerType
    <3> QED
      BY <2>1, <3>1, <3>2, <3>3 DEF GoodPoller, PollerType
  <2>4. q.writes = {x \in Fd : q.writers[x] # Nobody}
    BY <2>2, HandlerIsSomebody DEF GoodPoller, PollerType, Exact
  <2>5. fd \in Int /\ p.top \in Int /\ (\A x \in p.reads \cup p.writes : x \in Int)
    BY DEF GoodPoller, PollerType, Fd
  <2>6. q.top \in q.reads \cup q.writes \cup {-1} /\ \A x \in q.reads \cup q.writes : x <= q.top
    BY <2>2, <2>5 DEF GoodPoller, Exact, Larger
  <2>7. q.count = Cardinality(q.writes)
    <3>1. IsFiniteSet(p.writes)
      BY FdSetsFinite DEF GoodPoller, PollerType
    <3>2. Cardinality(p.writes \cup {fd}) = Cardinality(p.writes) + 1
      BY <3>1, <1>2, FS_AddElement
    <3> QED
      BY <2>2, <3>2 DEF GoodPoller, Exact
  <2>8. Fits(q)
    BY <1>2, <2>2, <2>5, PollerAssumption DEF GoodPoller, Fits
  <2> QED
    BY <2>2, <2>3, <2>4, <2>6, <2>7, <2>8 DEF GoodPoller, Exact
<1> QED
  BY <1>1, <1>2

\* Once the largest descriptor is looked for again everything agrees.
LEMMA TopLaw ==
  ASSUME NEW r \in PollerType, Fits(r),
         r.reads = {x \in Fd : r.readers[x] # Nobody},
         r.writes = {x \in Fd : r.writers[x] # Nobody},
         r.count = Cardinality(r.writes)
  PROVE  GoodPoller(WithoutTop(r, r.top))
<1> DEFINE m == RecalcMaxFD(r)
           s == [r EXCEPT !.top = m]
<1>1. Handled(r) = r.reads \cup r.writes
  BY DEF Handled
<1>2. m \in r.reads \cup r.writes \cup {-1} /\ \A x \in r.reads \cup r.writes : x <= m
  BY <1>1, RecalcLaw
<1> HIDE DEF m
<1>3. /\ s.reads = r.reads /\ s.writes = r.writes /\ s.readers = r.readers
      /\ s.writers = r.writers /\ s.count = r.count /\ s.top = m
  BY DEF PollerType
<1>4. s \in PollerType
  BY <1>2 DEF PollerType
<1>5. WithoutTop(r, r.top) = s
  BY DEF WithoutTop, m
<1> HIDE DEF s
<1> QED
  BY <1>2, <1>3, <1>4, <1>5 DEF GoodPoller, Exact, Fits

\* Deregistration keeps the poller exact: the largest descriptor is looked for
\* again when it goes.
LEMMA DeregisterForReadLaw ==
  ASSUME NEW p, GoodPoller(p), NEW fd \in Fd
  PROVE  GoodPoller(DeregisterForRead(p, fd))
<1> DEFINE q == [p EXCEPT !.readers[fd] = Nobody]
           r == [q EXCEPT !.reads = @ \ {fd}]
<1>1. CASE SetSize <= fd \/ fd \notin p.reads
  <2>1. fd \notin p.reads
    BY <1>1, PollerAssumption DEF GoodPoller, Fits, PollerType, Fd
  <2>2. p.readers[fd] = Nobody
    BY <2>1 DEF GoodPoller, Exact
  <2>3. q = p
    BY <2>2 DEF GoodPoller, PollerType
  <2> QED
    BY <1>1, <2>3 DEF DeregisterForRead
<1>2. CASE ~ (SetSize <= fd \/ fd \notin p.reads)
  <2>1. DeregisterForRead(p, fd) = WithoutTop(r, fd)
    BY <1>2 DEF DeregisterForRead
  <2>2. /\ r.reads = p.reads \ {fd} /\ r.writes = p.writes
        /\ r.readers = [p.readers EXCEPT ![fd] = Nobody] /\ r.writers = p.writers
        /\ r.top = p.top /\ r.count = p.count
    BY DEF GoodPoller, PollerType
  <2>3. r \in PollerType
    <3>1. p.reads \ {fd} \in SUBSET Fd
      BY DEF GoodPoller, PollerType
    <3>2. [p.readers EXCEPT ![fd] = Nobody] \in [Fd -> Conn \cup {Listener, Nobody}]
      BY DEF GoodPoller, PollerType
    <3>3. p.count - 1 \in Int
      BY DEF GoodPoller, PollerType
    <3> QED
      BY <3>1, <3>2, <3>3 DEF GoodPoller, PollerType
  <2>4. r.reads = {x \in Fd : r.readers[x] # Nobody}
    BY <2>2 DEF GoodPoller, PollerType, Exact
  <2>5. r.writes = {x \in Fd : r.writers[x] # Nobody}
    BY <2>2 DEF GoodPoller, Exact
  <2>6. Handled(r) = r.reads \cup r.writes
    BY <2>4, <2>5 DEF Handled
  <2>7. Fits(r)
    BY <2>2 DEF GoodPoller, Fits
  <2>8. r.count = Cardinality(r.writes)
    BY <2>2 DEF GoodPoller, Exact
  <2>9. fd \in Int /\ p.top \in Int /\ (\A x \in p.reads \cup p.writes : x \in Int)
    BY DEF GoodPoller, PollerType, Fd
  <2> HIDE DEF r
  <2>10. CASE fd = r.top
    BY <2>1, <2>3, <2>4, <2>5, <2>6, <2>7, <2>8, <2>10, TopLaw
  <2>11. CASE fd # r.top
    <3>1. r.top \in r.reads \cup r.writes \cup {-1} /\ \A x \in r.reads \cup r.writes : x <= r.top
      BY <2>2, <2>9, <2>11 DEF GoodPoller, Exact
    <3> QED
      BY <2>1, <2>3, <2>4, <2>5, <2>7, <2>8, <2>11, <3>1 DEF WithoutTop, GoodPoller, Exact
  <2> QED
    BY <2>10, <2>11
<1> QED
  BY <1>1, <1>2

\* The same for the write event.
LEMMA DeregisterForWriteLaw ==
  ASSUME NEW p, GoodPoller(p), NEW fd \in Fd
  PROVE  GoodPoller(DeregisterForWrite(p, fd))
<1> DEFINE q == [p EXCEPT !.writers[fd] = Nobody]
           r == [q EXCEPT !.writes = @ \ {fd}, !.count = @ - 1]
<1>1. CASE SetSize <= fd \/ fd \notin p.writes
  <2>1. fd \notin p.writes
    BY <1>1, PollerAssumption DEF GoodPoller, Fits, PollerType, Fd
  <2>2. p.writers[fd] = Nobody
    BY <2>1 DEF GoodPoller, Exact
  <2>3. q = p
    BY <2>2 DEF GoodPoller, PollerType
  <2> QED
    BY <1>1, <2>3 DEF DeregisterForWrite
<1>2. CASE ~ (SetSize <= fd \/ fd \notin p.writes)
  <2>1. DeregisterForWrite(p, fd) = WithoutTop(r, fd)
    BY <1>2 DEF DeregisterForWrite
  <2>2. /\ r.writes = p.writes \ {fd} /\ r.reads = p.reads
        /\ r.writers = [p.writers EXCEPT ![fd] = Nobody] /\ r.readers = p.readers
        /\ r.top = p.top /\ r.count = p.count - 1
    BY DEF GoodPoller, PollerType
  <2>3. r \in PollerType
    <3>1. p.writes \ {fd} \in SUBSET Fd
      BY DEF GoodPoller, PollerType
    <3>2. [p.writers EXCEPT ![fd] = Nobody] \in [Fd -> Conn \cup {Listener, Nobody}]
      BY DEF GoodPoller, PollerType
    <3>3. p.count - 1 \in Int
      BY DEF GoodPoller, PollerType
    <3> QED
      BY <3>1, <3>2, <3>3 DEF GoodPoller, PollerType
  <2>4. r.writes = {x \in Fd : r.writers[x] # Nobody}
    BY <2>2 DEF GoodPoller, PollerType, Exact
  <2>5. r.reads = {x \in Fd : r.readers[x] # Nobody}
    BY <2>2 DEF GoodPoller, Exact
  <2>6. Handled(r) = r.reads \cup r.writes
    BY <2>4, <2>5 DEF Handled
  <2>7. Fits(r)
    BY <2>2 DEF GoodPoller, Fits
  <2>8. r.count = Cardinality(r.writes)
    <3>1. IsFiniteSet(p.writes) /\ fd \in p.writes
      BY <1>2, FdSetsFinite DEF GoodPoller, PollerType
    <3>2. Cardinality(p.writes \ {fd}) = Cardinality(p.writes) - 1
      BY <3>1, FS_RemoveElement
    <3> QED
      BY <2>2, <3>2 DEF GoodPoller, Exact
  <2>9. fd \in Int /\ p.top \in Int /\ (\A x \in p.reads \cup p.writes : x \in Int)
    BY DEF GoodPoller, PollerType, Fd
  <2> HIDE DEF r
  <2>10. CASE fd = r.top
    BY <2>1, <2>3, <2>4, <2>5, <2>6, <2>7, <2>8, <2>10, TopLaw
  <2>11. CASE fd # r.top
    <3>1. r.top \in r.reads \cup r.writes \cup {-1} /\ \A x \in r.reads \cup r.writes : x <= r.top
      BY <2>2, <2>9, <2>11 DEF GoodPoller, Exact
    <3> QED
      BY <2>1, <2>3, <2>4, <2>5, <2>7, <2>8, <2>11, <3>1 DEF WithoutTop, GoodPoller, Exact
  <2> QED
    BY <2>10, <2>11
<1> QED
  BY <1>1, <1>2

-----------------------------------------------------------------------------
(* The methods of a connection.                                            *)

WorldType ==
  [poller : PollerType, conn : [Conn -> ConnType], file : [Tunnel -> Fd \cup {NoFd}],
   open : SUBSET Fd, broken : SUBSET Tunnel]

\* A connection that is in use or watched has a descriptor.
GoodConns(k) ==
  \A c \in Conn : k[c].status # "Closed" \/ k[c].rd \/ k[c].wr => k[c].fd \in Fd

GoodWorld(w) == w \in WorldType /\ GoodPoller(w.poller) /\ GoodConns(w.conn)

\* Each method of a connection keeps the world good.
LEMMA TryRegReadEventLaw ==
  ASSUME NEW w, GoodWorld(w), NEW c \in Conn, w.conn[c].fd \in Fd
  PROVE  GoodWorld(TryRegReadEvent(w, c))
<1> DEFINE v == TryRegReadEvent(w, c)
           k == [w.conn EXCEPT ![c].rd = TRUE]
           p == RegisterForRead(w.poller, w.conn[c].fd, c)
<1>1. CASE w.conn[c].rd
  BY <1>1 DEF TryRegReadEvent
<1>2. CASE ~ (w.conn[c].rd)
  <2>1. w.conn[c].fd \in Fd
    OBVIOUS
  <2>2. GoodPoller(p)
    BY <2>1, RegisterForReadLaw DEF GoodWorld, Handler
  <2>3. k \in [Conn -> ConnType] /\ GoodConns(k)
    <3>1. w.conn \in [Conn -> ConnType] /\ GoodConns(w.conn)
      BY DEF GoodWorld, WorldType
    <3>2. k \in [Conn -> ConnType]
      BY <3>1, ZenonT(40) DEF ConnType
    <3> QED
      BY <2>1, <3>1, <3>2 DEF GoodConns, ConnType
  <2>4. v = [w EXCEPT !.conn = k, !.poller = p]
    BY <1>2 DEF TryRegReadEvent, GoodWorld, WorldType
  <2>5. GoodWorld(v)
    <3> HIDE DEF k, p, v
    <3> QED
      BY <2>2, <2>3, <2>4 DEF GoodWorld, WorldType, GoodPoller
  <2> QED
    BY <2>5
<1> QED
  BY <1>1, <1>2

\* The write event of a connection that may be registered already.
LEMMA TryRegWriteEventLaw ==
  ASSUME NEW w, GoodWorld(w), NEW c \in Conn, w.conn[c].fd \in Fd
  PROVE  GoodWorld(TryRegWriteEvent(w, c))
<1> DEFINE v == TryRegWriteEvent(w, c)
           k == [w.conn EXCEPT ![c].wr = TRUE]
           p == RegisterForWrite(w.poller, w.conn[c].fd, c)
<1>1. CASE w.conn[c].wr
  BY <1>1 DEF TryRegWriteEvent
<1>2. CASE ~ (w.conn[c].wr)
  <2>1. w.conn[c].fd \in Fd
    OBVIOUS
  <2>2. GoodPoller(p)
    BY <2>1, RegisterForWriteLaw DEF GoodWorld, Handler
  <2>3. k \in [Conn -> ConnType] /\ GoodConns(k)
    <3>1. w.conn \in [Conn -> ConnType] /\ GoodConns(w.conn)
      BY DEF GoodWorld, WorldType
    <3>2. k \in [Conn -> ConnType]
      BY <3>1, ZenonT(40) DEF ConnType
    <3> QED
      BY <2>1, <3>1, <3>2 DEF GoodConns, ConnType
  <2>4. v = [w EXCEPT !.conn = k, !.poller = p]
    BY <1>2 DEF TryRegWriteEvent, GoodWorld, WorldType
  <2>5. GoodWorld(v)
    <3> HIDE DEF k, p, v
    <3> QED
      BY <2>2, <2>3, <2>4 DEF GoodWorld, WorldType, GoodPoller
  <2> QED
    BY <2>5
<1> QED
  BY <1>1, <1>2

\* The read event of one that may not be registered.
LEMMA TryUnregReadEventLaw ==
  ASSUME NEW w, GoodWorld(w), NEW c \in Conn
  PROVE  GoodWorld(TryUnregReadEvent(w, c))
<1> DEFINE v == TryUnregReadEvent(w, c)
           k == [w.conn EXCEPT ![c].rd = FALSE]
           p == DeregisterForRead(w.poller, w.conn[c].fd)
<1>1. CASE ~ w.conn[c].rd
  BY <1>1 DEF TryUnregReadEvent
<1>2. CASE ~ (~ w.conn[c].rd)
  <2>1. w.conn[c].fd \in Fd
    BY <1>2 DEF GoodWorld, GoodConns
  <2>2. GoodPoller(p)
    BY <2>1, DeregisterForReadLaw DEF GoodWorld, Handler
  <2>3. k \in [Conn -> ConnType] /\ GoodConns(k)
    <3>1. w.conn \in [Conn -> ConnType] /\ GoodConns(w.conn)
      BY DEF GoodWorld, WorldType
    <3>2. k \in [Conn -> ConnType]
      BY <3>1 DEF ConnType
    <3> QED
      BY <2>1, <3>1, <3>2 DEF GoodConns, ConnType
  <2>4. v = [w EXCEPT !.conn = k, !.poller = p]
    BY <1>2 DEF TryUnregReadEvent, GoodWorld, WorldType
  <2>5. GoodWorld(v)
    <3> HIDE DEF k, p, v
    <3> QED
      BY <2>2, <2>3, <2>4 DEF GoodWorld, WorldType, GoodPoller
  <2> QED
    BY <2>5
<1> QED
  BY <1>1, <1>2

\* The same of its write event.
LEMMA TryUnregWriteEventLaw ==
  ASSUME NEW w, GoodWorld(w), NEW c \in Conn
  PROVE  GoodWorld(TryUnregWriteEvent(w, c))
<1> DEFINE v == TryUnregWriteEvent(w, c)
           k == [w.conn EXCEPT ![c].wr = FALSE]
           p == DeregisterForWrite(w.poller, w.conn[c].fd)
<1>1. CASE ~ w.conn[c].wr
  BY <1>1 DEF TryUnregWriteEvent
<1>2. CASE ~ (~ w.conn[c].wr)
  <2>1. w.conn[c].fd \in Fd
    BY <1>2 DEF GoodWorld, GoodConns
  <2>2. GoodPoller(p)
    BY <2>1, DeregisterForWriteLaw DEF GoodWorld, Handler
  <2>3. k \in [Conn -> ConnType] /\ GoodConns(k)
    <3>1. w.conn \in [Conn -> ConnType] /\ GoodConns(w.conn)
      BY DEF GoodWorld, WorldType
    <3>2. k \in [Conn -> ConnType]
      BY <3>1 DEF ConnType
    <3> QED
      BY <2>1, <3>1, <3>2 DEF GoodConns, ConnType
  <2>4. v = [w EXCEPT !.conn = k, !.poller = p]
    BY <1>2 DEF TryUnregWriteEvent, GoodWorld, WorldType
  <2>5. GoodWorld(v)
    <3> HIDE DEF k, p, v
    <3> QED
      BY <2>2, <2>3, <2>4 DEF GoodWorld, WorldType, GoodPoller
  <2> QED
    BY <2>5
<1> QED
  BY <1>1, <1>2

\* The descriptor of a connection is closed.
LEMMA ShutdownLaw ==
  ASSUME NEW w, GoodWorld(w), NEW c \in Conn
  PROVE  GoodWorld(ShutdownConn(w, c))
<1> DEFINE u == TryUnregReadEvent(TryUnregWriteEvent(w, c), c)
           v == [u EXCEPT !.open = @ \ {w.conn[c].fd}, !.conn[c] = ClosedConn]
<1>1. GoodWorld(u)
  BY TryUnregReadEventLaw, TryUnregWriteEventLaw
<1> HIDE DEF u
<1>2. ClosedConn \in ConnType
  BY DEF ClosedConn, ConnType
<1>3. v \in WorldType /\ v.poller = u.poller /\ v.conn = [u.conn EXCEPT ![c] = ClosedConn]
  BY <1>1, <1>2 DEF GoodWorld, WorldType
<1>4. GoodConns(v.conn)
  BY <1>1, <1>3 DEF GoodWorld, WorldType, GoodConns, ClosedConn
<1>5. GoodWorld(v)
  BY <1>1, <1>3, <1>4 DEF GoodWorld
<1> HIDE DEF v
<1>6. ShutdownConn(w, c) \in {w, v}
  BY DEF ShutdownConn, u, v
<1> QED
  BY <1>5, <1>6

\* The end of a session.
LEMMA EndSessionLaw ==
  ASSUME NEW w, GoodWorld(w), NEW t \in Tunnel
  PROVE  GoodWorld(EndSession(w, t))
<1> DEFINE u == ShutdownConn(ShutdownConn(w, <<t, "local">>), <<t, "proxy">>)
           v == ClearFile(u, t)
<1>1. GoodWorld(u)
  BY ShutdownLaw DEF Conn, Side
<1> HIDE DEF u
<1>2. GoodWorld(v)
  BY <1>1 DEF GoodWorld, WorldType, ClearFile
<1> HIDE DEF v
<1>3. GoodWorld([v EXCEPT !.broken = @ \cup {t}])
  BY <1>2 DEF GoodWorld, WorldType
<1> QED
  BY <1>2, <1>3 DEF EndSession, u, v

\* A connection with a descriptor becomes connected.
LEMMA StatusLaw ==
  ASSUME NEW w, GoodWorld(w), NEW c \in Conn, w.conn[c].fd \in Fd
  PROVE  /\ GoodWorld([w EXCEPT !.conn[c].status = "Connected"])
         /\ [w EXCEPT !.conn[c].status = "Connected"].conn[c].fd \in Fd
<1> DEFINE k == [w.conn EXCEPT ![c].status = "Connected"]
           v == [w EXCEPT !.conn[c].status = "Connected"]
<1>1. w.conn \in [Conn -> ConnType] /\ GoodConns(w.conn)
  BY DEF GoodWorld, WorldType
<1>2. k \in [Conn -> ConnType] /\ k[c].fd = w.conn[c].fd
  BY <1>1 DEF ConnType
<1>3. GoodConns(k)
  BY <1>1, <1>2 DEF GoodConns, ConnType
<1>4. v = [w EXCEPT !.conn = k]
  BY DEF GoodWorld, WorldType
<1> HIDE DEF k
<1> QED
  BY <1>2, <1>3, <1>4 DEF GoodWorld, WorldType, GoodPoller

-----------------------------------------------------------------------------
(* The steps of the program.                                               *)

SocketsOK == GoodWorld(World)

RestOK ==
  /\ alive \subseteq Tunnel /\ handled \subseteq Tunnel /\ free \in Seq(Tunnel)
  /\ mbLoop \in BOOLEAN
  /\ at \in {"off", "test", "select", "dispatch", "accept", "reclaim", "ended"}
  /\ reads \subseteq Fd /\ writes \subseteq Fd
  /\ ready \in Int /\ accepts \in Nat /\ backlog \in Int
  /\ fresh \subseteq Conn

\* A step that leads to a good world.
LEMMA BecomeLaw ==
  ASSUME NEW w, GoodWorld(w), Become(w)
  PROVE  SocketsOK'
<1>1. /\ World'.poller = w.poller /\ World'.conn = w.conn /\ World'.file = w.file
      /\ World'.open = w.open /\ World'.broken = w.broken
  BY DEF Become, World
<1>2. World' \in WorldType
  BY <1>1 DEF GoodWorld, WorldType, World
<1> QED
  BY <1>1, <1>2 DEF SocketsOK, GoodWorld

\* A step that leaves the world alone.
LEMMA SameWorld ==
  ASSUME SocketsOK, UNCHANGED <<sockets, broken>>
  PROVE  SocketsOK'
<1>1. World' = World
  BY DEF sockets, World
<1> QED
  BY <1>1 DEF SocketsOK

\* What a good world says of the variables.
LEMMA WorldTypes ==
  ASSUME SocketsOK
  PROVE  /\ World.poller = poller /\ World.conn = conn /\ World.file = file
         /\ World.open = open /\ World.broken = broken
         /\ poller \in PollerType /\ conn \in [Conn -> ConnType]
         /\ file \in [Tunnel -> Fd \cup {NoFd}] /\ open \subseteq Fd /\ broken \subseteq Tunnel
         /\ Exact(poller)
         /\ \A c \in Conn : conn[c].status # "Closed" => conn[c].fd \in Fd
BY DEF SocketsOK, GoodWorld, WorldType, World, GoodPoller, GoodConns

\* An effect on a tunnel, from any good world.  What is kept is kept for a
\* connection with a descriptor.
LEMMA HappensLaw ==
  ASSUME NEW w, GoodWorld(w), NEW t \in Tunnel, NEW side \in Side, NEW kind,
         kind = "keep" => w.conn[<<t, side>>].fd \in Fd,
         Happens(w, t, <<kind, side>>)
  PROVE  SocketsOK'
<1> DEFINE c == <<t, side>>
           e == <<kind, side>>
<1>0. e[1] = kind /\ e[2] = side
  OBVIOUS
<1>c. c \in Conn
  BY DEF Conn
<1>1. CASE kind = "none" /\ Become(w)
  BY <1>1, BecomeLaw
<1>2. ASSUME kind = "keep", NEW v \in {TryRegWriteEvent(w, c)}, Become(v) PROVE SocketsOK'
  BY <1>c, <1>2, TryRegWriteEventLaw, BecomeLaw
<1>3. ASSUME NEW v \in {TryUnregWriteEvent(w, c)}, Become(v) PROVE SocketsOK'
  BY <1>c, <1>3, TryUnregWriteEventLaw, BecomeLaw
<1>4. ASSUME NEW fd \in Spills(t), Become([w EXCEPT !.file[t] = fd, !.open = @ \cup {fd}])
      PROVE  SocketsOK'
  <2>1. fd \in Fd
    BY DEF Spills
  <2>2. GoodWorld([w EXCEPT !.file[t] = fd, !.open = @ \cup {fd}])
    BY <2>1 DEF GoodWorld, WorldType
  <2> QED
    BY <1>4, <2>2, BecomeLaw
<1>5. ASSUME NEW v \in {EndSession(w, t)}, Become(v) PROVE SocketsOK'
  BY <1>5, EndSessionLaw, BecomeLaw
<1> QED
  BY <1>0, <1>1, <1>2, <1>3, <1>4, <1>5 DEF Happens

\* The effects of a notification: a write is to a connected side.
LEMMA EffectsLaw ==
  ASSUME SocketsOK, NEW t \in Tunnel, NEW side \in Side,
         NEW effect \in InputEffects(Status(t), side) \cup OutputEffects(Status(t), side)
  PROVE  /\ effect = <<effect[1], effect[2]>> /\ effect[2] \in Side
         /\ effect[1] = "keep" => conn[<<t, effect[2]>>].fd \in Fd
<1>1. \A to \in Side : Status(t)[to] = "Connected" => conn[<<t, to>>].fd \in Fd
  <2> TAKE to \in Side
  <2>1. <<t, to>> \in Conn
    BY DEF Conn
  <2>2. Status(t)[to] = conn[<<t, to>>].status
    BY DEF Status
  <2> QED
    BY <2>1, <2>2, WorldTypes
<1> DEFINE S == Status(t)
<1>1a. \A to \in Side : S[to] = "Connected" => conn[<<t, to>>].fd \in Fd
  BY <1>1
<1>1b. effect \in InputEffects(S, side) \cup OutputEffects(S, side)
  OBVIOUS
<1> HIDE DEF S
<1>2. CASE effect \in InputEffects(S, side)
  <2>1. CASE effect \in {<<"none", side>>, <<"spill", side>>}
    BY <2>1
  <2>2. ASSUME NEW to \in Side, S[to] = "Connected", effect \in SendEffects(to)
        PROVE  /\ effect = <<effect[1], effect[2]>> /\ effect[2] \in Side
               /\ effect[1] = "keep" => conn[<<t, effect[2]>>].fd \in Fd
    <3>1. \/ effect = <<"none", to>> \/ effect = <<"keep", to>>
          \/ effect = <<"sent", to>> \/ effect = <<"end", to>>
      BY <2>2 DEF SendEffects
    <3> QED
      BY <1>1a, <2>2, <3>1
  <2>3. \/ effect \in {<<"none", side>>, <<"spill", side>>}
        \/ \E to \in Side : S[to] = "Connected" /\ effect \in SendEffects(to)
    BY <1>2 DEF InputEffects
  <2> QED
    BY <2>1, <2>2, <2>3
<1>3. CASE effect \in OutputEffects(S, side)
  BY <1>3 DEF OutputEffects
<1> QED
  BY <1>1b, <1>2, <1>3

\* The initial states.
LEMMA InitOK == ASSUME Init PROVE SocketsOK /\ RestOK
<1> DEFINE p == NewPoller
<1>1. p \in PollerType
  BY DEF NewPoller, PollerType
<1>2. /\ p.reads = {} /\ p.writes = {} /\ p.count = 0 /\ p.top = -1
      /\ \A fd \in Fd : p.readers[fd] = Nobody /\ p.writers[fd] = Nobody
  BY DEF NewPoller
<1>3. GoodPoller(p)
  BY <1>1, <1>2, FS_EmptySet DEF GoodPoller, Exact, Fits
<1>4. ListenFd \in Fd /\ LogFd \in Fd
  BY ClientAssumption, PollerAssumption DEF Fd, ListenFd, LogFd
<1>5. GoodPoller(poller)
  BY <1>3, <1>4, RegisterForReadLaw DEF Init, Handler
<1>6. conn \in [Conn -> ConnType] /\ GoodConns(conn)
  BY DEF Init, ClosedConn, ConnType, GoodConns
<1>7. file \in [Tunnel -> Fd \cup {NoFd}] /\ open \in SUBSET Fd /\ broken \in SUBSET Tunnel
  BY <1>4 DEF Init
<1>8. SocketsOK
  BY <1>5, <1>6, <1>7 DEF SocketsOK, GoodWorld, WorldType, World, GoodPoller
<1>9. free \in Seq(Tunnel)
  BY EmptySeq DEF Init
<1>10. RestOK
  <2>1. /\ alive \subseteq Tunnel /\ handled \subseteq Tunnel /\ reads \subseteq Fd
        /\ writes \subseteq Fd /\ fresh \subseteq Conn
    BY DEF Init
  <2>2. mbLoop = FALSE /\ at = "off" /\ ready = 0 /\ accepts = 0 /\ backlog = 0
    BY Zenon DEF Init
  <2>3. mbLoop \in BOOLEAN
    BY <2>2, Zenon
  <2>4. ready \in Int /\ accepts \in Nat /\ backlog \in Int
    BY <2>2
  <2> QED
    BY <1>9, <2>1, <2>2, <2>3, <2>4, Zenon DEF RestOK
<1> QED
  BY <1>8, <1>10

\* The types that are not the world's.
LEMMA RestNext ==
  ASSUME SocketsOK, RestOK, [Next]_vars
  PROVE  RestOK'
<1>w. /\ poller \in PollerType /\ open \subseteq Fd /\ broken \subseteq Tunnel
  BY WorldTypes
<1>1. CASE RunLoop \/ TestLoop \/ ExitLoop \/ Reclaimed \/ EndPass
  <2>1. CASE RunLoop
    BY <2>1 DEF RestOK, RunLoop, pool, pass
  <2>2. CASE TestLoop
    BY <2>2 DEF RestOK, TestLoop, pool, pass
  <2>3. CASE ExitLoop
    BY <2>3 DEF RestOK, ExitLoop, pool, pass
  <2>4. CASE Reclaimed
    BY <2>4 DEF RestOK, Reclaimed, pool, pass
  <2>5. CASE EndPass
    BY <2>5 DEF RestOK, EndPass, pool
  <2> QED
    BY <1>1, <2>1, <2>2, <2>3, <2>4, <2>5
<1>2. ASSUME NEW t \in Tunnel, ReclaimTunnel(t) PROVE RestOK'
  <2>1. Append(free, t) \in Seq(Tunnel)
    BY AppendProperties DEF RestOK
  <2> QED
    BY <1>2, <2>1 DEF RestOK, ReclaimTunnel, pass
<1>3. CASE Select
  <2>1. PICK r \in SUBSET {fd \in poller.reads : fd <= poller.top},
             w \in SUBSET {fd \in poller.writes : fd <= poller.top} :
          /\ reads' = r
          /\ writes' = IF poller.count = 0 THEN poller.writes ELSE w
          /\ ready' = Cardinality(r) + Cardinality(w)
          /\ at' = IF r \cup w = {} THEN "reclaim" ELSE "dispatch"
    BY <1>3 DEF Select
  <2>2. r \in SUBSET Fd /\ w \in SUBSET Fd /\ poller.writes \in SUBSET Fd
    BY <1>w DEF PollerType
  <2>3. Cardinality(r) \in Nat /\ Cardinality(w) \in Nat
    BY <2>2, FdSetsFinite, FS_CardinalityType
  <2>4. reads' \subseteq Fd /\ writes' \subseteq Fd /\ ready' \in Int
    BY <2>1, <2>2, <2>3
  <2>5. at' \in {"reclaim", "dispatch"}
    BY <2>1
  <2> QED
    BY <1>3, <2>4, <2>5 DEF RestOK, Select, pool
<1>4. ASSUME NEW fd \in Fd, Dispatch(fd) PROVE RestOK'
  <2>1. DueRead(fd) \/ DueWrite(fd)
    BY <1>4 DEF Dispatch, TriggerNobody, Readable, Writable, StartAccepting
  <2>2. reads' \subseteq Fd /\ writes' \subseteq Fd /\ ready' \in Int
    BY <2>1 DEF DueRead, DueWrite, RestOK
  <2>3. /\ alive' = alive /\ handled' = handled /\ free' = free /\ mbLoop' = mbLoop
        /\ backlog' = backlog /\ fresh' = fresh
        /\ accepts' \in {0, accepts} /\ at' \in {"accept", at}
    BY <1>4 DEF Dispatch, TriggerNobody, Readable, Writable, StartAccepting, OfConnection, pool
  <2> QED
    BY <2>2, <2>3 DEF RestOK
<1>5. CASE StopAccepting
  BY <1>5 DEF RestOK, StopAccepting, pool, pass
<1>6. ASSUME NEW t \in Tunnel, NEW connfd \in Fd, Accept(t, connfd) PROVE RestOK'
  <2>1. /\ Accepted(t, connfd)
        /\ handled' \subseteq handled \cup {t} /\ fresh' \subseteq fresh \cup ({t} \X Side)
    BY <1>6 DEF Accept, AcceptFails, ConnectPending, ConnectNow, ConnectStarts
  <2>2. free' \in Seq(Tunnel)
    BY <2>1, HeadTailProperties DEF Accepted, RestOK
  <2>3. /\ alive' \subseteq Tunnel /\ backlog' \in Int /\ accepts' \in Nat
        /\ mbLoop' = mbLoop /\ at' = at /\ reads' = reads /\ writes' = writes /\ ready' = ready
    BY <2>1 DEF Accepted, RestOK
  <2>4. {t} \X Side \subseteq Conn
    BY DEF Conn
  <2> QED
    BY <2>1, <2>2, <2>3, <2>4 DEF RestOK
<1>7. CASE ClientArrives
  BY <1>7 DEF RestOK, ClientArrives, pool, pass
<1>8. CASE Terminated \/ UNCHANGED vars
  BY <1>8 DEF RestOK, Terminated, vars, pool, pass
<1> QED
  BY <1>1, <1>2, <1>3, <1>4, <1>5, <1>6, <1>7, <1>8 DEF Next, MainThread

\* The client's connection is registered.
LEMMA WithLocalLaw ==
  ASSUME SocketsOK, NEW t \in Tunnel, NEW connfd \in Fd
  PROVE  GoodWorld(WithLocal(t, connfd))
<1> DEFINE c == <<t, "local">>
           k == [conn EXCEPT ![c].fd = connfd, ![c].status = "Connected"]
           u == [World EXCEPT !.open = @ \cup {connfd}, !.conn[c].fd = connfd,
                              !.conn[c].status = "Connected"]
<1>1. c \in Conn
  BY DEF Conn, Side
<1> HIDE DEF c
<1>2. k \in [Conn -> ConnType] /\ GoodConns(k) /\ k[c].fd = connfd
  <2>1. conn \in [Conn -> ConnType] /\ GoodConns(conn)
    BY WorldTypes DEF SocketsOK, GoodWorld
  <2>2. k \in [Conn -> ConnType] /\ k[c].fd = connfd
    BY <1>1, <2>1 DEF ConnType
  <2> QED
    BY <1>1, <2>1, <2>2 DEF GoodConns, ConnType
<1>3. u = [World EXCEPT !.open = @ \cup {connfd}, !.conn = k]
  BY <1>1, WorldTypes DEF SocketsOK, GoodWorld, WorldType
<1> HIDE DEF k, u
<1>4. GoodWorld(u) /\ u.conn[c].fd \in Fd
  BY <1>2, <1>3 DEF SocketsOK, GoodWorld, WorldType, GoodPoller
<1>5. GoodWorld(TryRegReadEvent(u, c))
  BY <1>1, <1>4, TryRegReadEventLaw
<1> QED
  BY <1>5 DEF WithLocal, u, c

\* The proxy's connection is there and can be registered.
LEMMA ConnectingLaw ==
  ASSUME SocketsOK, NEW t \in Tunnel, NEW connfd \in Fd, NEW proxyfd \in Fd,
         NEW status \in {"Connecting", "Connected"}
  PROVE  /\ GoodWorld(Connecting(t, connfd, proxyfd, status))
         /\ Connecting(t, connfd, proxyfd, status).conn[<<t, "proxy">>].fd \in Fd
<1> DEFINE c == <<t, "proxy">>
           w == WithLocal(t, connfd)
           k == [w.conn EXCEPT ![c].fd = proxyfd, ![c].status = status]
           u == [w EXCEPT !.open = @ \cup {proxyfd}, !.conn[c].fd = proxyfd,
                          !.conn[c].status = status]
<1>1. c \in Conn
  BY DEF Conn, Side
<1>2. GoodWorld(w)
  BY WithLocalLaw
<1> HIDE DEF c, w
<1>3. k \in [Conn -> ConnType] /\ GoodConns(k) /\ k[c].fd = proxyfd
  <2>1. w.conn \in [Conn -> ConnType] /\ GoodConns(w.conn)
    BY <1>2 DEF GoodWorld, WorldType
  <2>2. k \in [Conn -> ConnType] /\ k[c].fd = proxyfd
    BY <1>1, <2>1 DEF ConnType
  <2> QED
    BY <1>1, <2>1, <2>2 DEF GoodConns, ConnType
<1>4. u = [w EXCEPT !.open = @ \cup {proxyfd}, !.conn = k]
  BY <1>1, <1>2 DEF GoodWorld, WorldType
<1> HIDE DEF k, u
<1>5. GoodWorld(u) /\ u.conn[c].fd \in Fd
  BY <1>2, <1>3, <1>4 DEF GoodWorld, WorldType, GoodPoller
<1> QED
  BY <1>5 DEF Connecting, u, c, w

\* Each step keeps the world good.
LEMMA SocketsNext ==
  ASSUME SocketsOK, RestOK, [Next]_vars
  PROVE  SocketsOK'
<1>g. GoodWorld(World)
  BY DEF SocketsOK
<1>1. CASE RunLoop \/ TestLoop \/ ExitLoop \/ Reclaimed \/ EndPass \/ Select
  BY <1>1, SameWorld DEF RunLoop, TestLoop, ExitLoop, Reclaimed, EndPass, Select, pool
<1>2. ASSUME NEW t \in Tunnel, ReclaimTunnel(t) PROVE SocketsOK'
  <2>1. /\ poller' = poller /\ conn' = conn /\ file' = file /\ open' = open
        /\ broken' = broken \ {t}
    BY <1>2 DEF ReclaimTunnel, sockets
  <2>2. Become([World EXCEPT !.broken = @ \ {t}])
    BY <2>1 DEF Become, World
  <2>3. GoodWorld([World EXCEPT !.broken = @ \ {t}])
    BY <1>g DEF GoodWorld, WorldType
  <2> QED
    BY <2>2, <2>3, BecomeLaw
<1>3. ASSUME NEW fd \in Fd, Dispatch(fd) PROVE SocketsOK'
  <2>1. CASE TriggerNobody(fd) \/ StartAccepting(fd)
    BY <2>1, SameWorld DEF TriggerNobody, StartAccepting, pool
  <2>2. CASE Readable(fd)
    <3> DEFINE c == poller.readers[fd]
               t == c[1]
    <3>1. c \in Conn /\ t \in Tunnel /\ c[2] \in Side
      BY <2>2 DEF Readable, Conn
    <3>2. PICK effect \in InputEffects(Status(t), c[2]) : Happens(World, t, effect)
      BY <2>2 DEF Readable
    <3> HIDE DEF c, t
    <3>3. /\ effect = <<effect[1], effect[2]>> /\ effect[2] \in Side
          /\ effect[1] = "keep" => World.conn[<<t, effect[2]>>].fd \in Fd
      BY <3>1, EffectsLaw, WorldTypes
    <3> QED
      BY <1>g, <3>1, <3>2, <3>3, HappensLaw
  <2>3. CASE Writable(fd)
    <3> DEFINE c == poller.writers[fd]
               t == c[1]
               v == TryUnregWriteEvent(World, c)
               r == TryRegReadEvent(v, c)
               connected == ConnectedConn(c)
    <3>1. c \in Conn /\ t \in Tunnel /\ c[2] \in Side /\ c = <<t, c[2]>>
      BY <2>3 DEF Writable, Conn
    <3>2. GoodWorld(v)
      BY <1>g, <3>1, TryUnregWriteEventLaw
    <3>3. conn[c].status = "Connecting" => GoodWorld(connected) /\ connected.conn[c].fd \in Fd
      <4> SUFFICES ASSUME conn[c].status = "Connecting"
                   PROVE  GoodWorld(connected) /\ connected.conn[c].fd \in Fd
        OBVIOUS
      <4>1. conn[c].fd \in Fd
        BY <3>1, WorldTypes
      <4>2. v.conn[c].fd \in Fd
        BY <1>g, <3>1, <4>1, WorldTypes DEF TryUnregWriteEvent, GoodWorld, WorldType, ConnType
      <4>3. GoodWorld(r)
        BY <3>1, <3>2, <4>2, TryRegReadEventLaw
      <4>4. r.conn[c].fd \in Fd
        BY <3>1, <3>2, <4>2 DEF TryRegReadEvent, GoodWorld, WorldType, ConnType
      <4>5. connected = [r EXCEPT !.conn[c].status = "Connected"]
        BY DEF ConnectedConn
      <4> HIDE DEF r, c, connected
      <4> QED
        BY <3>1, <4>3, <4>4, <4>5, StatusLaw
    <3>4. ASSUME NEW effect \in OutputEffects(Status(t), c[2]), Happens(World, t, effect)
          PROVE  SocketsOK'
      <4> HIDE DEF c, t
      <4>1. /\ effect = <<effect[1], effect[2]>> /\ effect[2] \in Side
            /\ effect[1] = "keep" => World.conn[<<t, effect[2]>>].fd \in Fd
        BY <3>1, EffectsLaw, WorldTypes
      <4> QED
        BY <1>g, <3>1, <3>4, <4>1, HappensLaw
    <3>5. ASSUME conn[c].status = "Connecting", NEW effect \in SendEffects(c[2]),
                 NEW w \in {connected}, Happens(w, t, effect)
          PROVE  SocketsOK'
      <4>1. GoodWorld(connected) /\ connected.conn[c].fd \in Fd
        BY <3>3, <3>5
      <4> HIDE DEF connected, c, t
      <4>2. PICK kind : effect = <<kind, c[2]>>
        BY <3>5 DEF SendEffects
      <4>3. Happens(connected, t, <<kind, c[2]>>) /\ connected.conn[<<t, c[2]>>].fd \in Fd
        BY <3>1, <3>5, <4>1, <4>2
      <4> QED
        BY <3>1, <4>1, <4>3, HappensLaw
    <3> HIDE DEF connected
    <3> QED
      BY <2>3, <3>4, <3>5 DEF Writable, connected
  <2> QED
    BY <1>3, <2>1, <2>2, <2>3 DEF Dispatch
<1>4. CASE StopAccepting \/ ClientArrives \/ Terminated \/ UNCHANGED vars
  BY <1>4, SameWorld DEF StopAccepting, ClientArrives, Terminated, vars, pool
<1>5. ASSUME NEW t \in Tunnel, NEW connfd \in Fd, Accept(t, connfd) PROVE SocketsOK'
  <2>0. <<t, "local">> \in Conn /\ <<t, "proxy">> \in Conn
    BY DEF Conn, Side
  <2>1. CASE AcceptFails(t, connfd)
    <3> DEFINE w == ShutdownConn(WithLocal(t, connfd), <<t, "local">>)
               v == [w EXCEPT !.open = @ \ {connfd}, !.broken = @ \cup {t}]
    <3>1. GoodWorld(w)
      BY <2>0, WithLocalLaw, ShutdownLaw
    <3>2. Become(v)
      BY <2>1 DEF AcceptFails
    <3> HIDE DEF w
    <3>3. GoodWorld(v)
      BY <3>1 DEF GoodWorld, WorldType
    <3> QED
      BY <3>2, <3>3, BecomeLaw
  <2>2. ASSUME NEW proxyfd \in Fd, ConnectPending(t, connfd, proxyfd) PROVE SocketsOK'
    <3> DEFINE w == Connecting(t, connfd, proxyfd, "Connecting")
    <3>1. GoodWorld(TryRegWriteEvent(w, <<t, "proxy">>))
      BY <2>0, ConnectingLaw, TryRegWriteEventLaw
    <3> QED
      BY <2>2, <3>1, BecomeLaw DEF ConnectPending
  <2>3. ASSUME NEW proxyfd \in Fd, ConnectNow(t, connfd, proxyfd) PROVE SocketsOK'
    <3> DEFINE c == <<t, "proxy">>
               u == Connecting(t, connfd, proxyfd, "Connected")
               w == TryRegReadEvent(u, c)
    <3>1. GoodWorld(u) /\ u.conn[c].fd \in Fd
      BY ConnectingLaw
    <3>2. GoodWorld(w)
      BY <2>0, <3>1, TryRegReadEventLaw
    <3>3. PICK effect \in SendEffects("proxy") : Happens(w, t, effect)
      BY <2>3 DEF ConnectNow
    <3> HIDE DEF u
    <3>4. w.conn[c].fd \in Fd
      BY <2>0, <3>1 DEF TryRegReadEvent, GoodWorld, WorldType, ConnType
    <3> HIDE DEF w
    <3>5. PICK kind : effect = <<kind, "proxy">>
      BY DEF SendEffects
    <3>6. "proxy" \in Side
      BY DEF Side
    <3> QED
      BY <3>2, <3>3, <3>4, <3>5, <3>6, HappensLaw
  <2> QED
    BY <1>5, <2>1, <2>2, <2>3 DEF Accept
<1> QED
  BY <1>1, <1>2, <1>3, <1>4, <1>5 DEF Next, MainThread

-----------------------------------------------------------------------------

\* The members of ProxyClient and of its poller keep their types.
THEOREM TypeCorrect == Spec => []TypeOK
<1>1. Init => SocketsOK /\ RestOK
  BY InitOK
<1>2. SocketsOK /\ RestOK /\ [Next]_vars => SocketsOK' /\ RestOK'
  BY SocketsNext, RestNext
<1>3. SocketsOK /\ RestOK => TypeOK
  BY WorldTypes DEF RestOK, TypeOK
<1> QED
  BY <1>1, <1>2, <1>3, PTL DEF Spec

\* The poller's sets, handlers, largest descriptor and count of writers agree,
\* however sessions start, fail and end.
THEOREM PollerIsExact == Spec => []PollerExact
<1>1. Init => SocketsOK /\ RestOK
  BY InitOK
<1>2. SocketsOK /\ RestOK /\ [Next]_vars => SocketsOK' /\ RestOK'
  BY SocketsNext, RestNext
<1>3. SocketsOK => PollerExact
  BY WorldTypes DEF PollerExact
<1> QED
  BY <1>1, <1>2, <1>3, PTL DEF Spec

-----------------------------------------------------------------------------
(* Who holds which descriptor, and whom the poller calls.                  *)

Owner == Conn \cup (Tunnel \X {"file"})

HeldBy(w) == [o \in Owner |-> IF o[2] = "file" THEN w.file[o[1]] ELSE w.conn[o].fd]

\* Two owners do not hold the same descriptor, and what is open is held.
OneHolder(held, fds) ==
  /\ {LogFd, ListenFd} \subseteq fds
  /\ \A o \in Owner : held[o] # NoFd => held[o] \in fds \ {LogFd, ListenFd}
  /\ \A o, q \in Owner : held[o] = held[q] /\ held[o] # NoFd => o = q
  /\ \A fd \in fds \ {LogFd, ListenFd} : \E o \in Owner : held[o] = fd

\* The handlers of the poller p are the connections of k that are watched.
Watched(p, k) ==
  /\ \A fd \in Fd, c \in Conn :
       /\ p.readers[fd] = c => k[c].rd /\ k[c].fd = fd
       /\ p.writers[fd] = c => k[c].wr /\ k[c].fd = fd
  /\ \A c \in Conn : k[c].fd # NoFd /\ k[c].fd < SetSize =>
       /\ k[c].rd => p.readers[k[c].fd] = c
       /\ k[c].wr => p.writers[k[c].fd] = c
  /\ \A fd \in Fd : p.readers[fd] = Listener <=> fd = ListenFd
  /\ \A fd \in Fd : p.writers[fd] # Listener

Owned(w) == GoodWorld(w) /\ OneHolder(HeldBy(w), w.open) /\ Watched(w.poller, w.conn)

\* Connections and files are different owners.
LEMMA OwnerLaw ==
  /\ \A c \in Conn : c \in Owner /\ c[2] # "file"
  /\ \A t \in Tunnel : <<t, "file">> \in Owner /\ <<t, "file">> \notin Conn
  /\ \A o \in Owner : o \in Conn \/ \E t \in Tunnel : o = <<t, "file">>
  /\ \A t \in Tunnel, side \in Side : <<t, side>> \in Conn
  /\ Nobody \notin Conn /\ Listener \notin Conn /\ Nobody # Listener
BY ClientAssumption DEF Owner, Conn, Side, Tunnel, Nobody, Listener

\* An owner that has none opens a descriptor, or closes the one he has.
LEMMA HolderLaw ==
  ASSUME NEW f \in [Owner -> Fd \cup {NoFd}], NEW g \in [Owner -> Fd \cup {NoFd}],
         NEW S \in SUBSET Fd, OneHolder(f, S), NEW o \in Owner,
         \A q \in Owner : q # o => g[q] = f[q],
         NEW T, \/ f[o] = NoFd /\ g[o] \in Fd \ S /\ T = S \cup {g[o]}
                \/ g[o] = NoFd /\ T = S \ {f[o]}
  PROVE  OneHolder(g, T)
<1>1. CASE f[o] = NoFd /\ g[o] \in Fd \ S /\ T = S \cup {g[o]}
  <2>1. g[o] \notin {LogFd, ListenFd} /\ \A q \in Owner : f[q] # g[o]
    BY <1>1 DEF OneHolder, Fd, NoFd
  <2>2. \A x \in (S \cup {g[o]}) \ {LogFd, ListenFd} : \E q \in Owner : g[q] = x
    <3> TAKE x \in (S \cup {g[o]}) \ {LogFd, ListenFd}
    <3>1. CASE x # g[o]
      <4>1. PICK q \in Owner : f[q] = x
        BY <3>1 DEF OneHolder
      <4>2. q # o
        BY <1>1, <4>1 DEF Fd, NoFd
      <4> QED
        BY <4>1, <4>2
    <3> QED
      BY <3>1
  <2> QED
    BY <1>1, <2>1, <2>2 DEF OneHolder
<1>2. CASE g[o] = NoFd /\ T = S \ {f[o]}
  <2>1. f[o] \notin {LogFd, ListenFd}
    BY DEF OneHolder, NoFd, LogFd, ListenFd
  <2> QED
    BY <1>2, <2>1 DEF OneHolder
<1> QED
  BY <1>1, <1>2

\* The world of HeldBy has its types.
LEMMA HeldType ==
  ASSUME NEW w, GoodWorld(w)
  PROVE  /\ HeldBy(w) \in [Owner -> Fd \cup {NoFd}]
         /\ \A c \in Conn : HeldBy(w)[c] = w.conn[c].fd
         /\ \A t \in Tunnel : HeldBy(w)[<<t, "file">>] = w.file[t]
         /\ w.open \in SUBSET Fd
<1>1. w.conn \in [Conn -> ConnType] /\ w.file \in [Tunnel -> Fd \cup {NoFd}]
  BY DEF GoodWorld, WorldType
<1>2. \A c \in Conn : HeldBy(w)[c] = w.conn[c].fd /\ w.conn[c].fd \in Fd \cup {NoFd}
  BY <1>1, OwnerLaw DEF HeldBy, ConnType
<1>3. \A t \in Tunnel : HeldBy(w)[<<t, "file">>] = w.file[t] /\ w.file[t] \in Fd \cup {NoFd}
  BY <1>1, OwnerLaw DEF HeldBy
<1>4. HeldBy(w) = [o \in Owner |-> HeldBy(w)[o]]
  BY DEF HeldBy
<1>5. \A o \in Owner : HeldBy(w)[o] \in Fd \cup {NoFd}
  BY <1>2, <1>3, OwnerLaw
<1>6. HeldBy(w) \in [Owner -> Fd \cup {NoFd}]
  BY <1>4, <1>5
<1> QED
  BY <1>2, <1>3, <1>6 DEF GoodWorld, WorldType

\* From world w to world v owner o opens a descriptor, or closes the one he has.
Moves(w, v, o) ==
  /\ \A q \in Owner : q # o => HeldBy(v)[q] = HeldBy(w)[q]
  /\ \/ /\ HeldBy(w)[o] = NoFd /\ HeldBy(v)[o] \in Fd \ w.open
        /\ v.open = w.open \cup {HeldBy(v)[o]}
     \/ HeldBy(v)[o] = NoFd /\ v.open = w.open \ {HeldBy(w)[o]}

\* Each descriptor still has one holder.
LEMMA MovesLaw ==
  ASSUME NEW w, Owned(w), NEW v, GoodWorld(v), NEW o \in Owner, Moves(w, v, o)
  PROVE  OneHolder(HeldBy(v), v.open)
<1> DEFINE f == HeldBy(w)
           g == HeldBy(v)
<1>1. GoodWorld(w) /\ OneHolder(f, w.open)
  BY DEF Owned
<1>2. f \in [Owner -> Fd \cup {NoFd}] /\ g \in [Owner -> Fd \cup {NoFd}] /\ w.open \in SUBSET Fd
  BY <1>1, HeldType
<1>3. \A q \in Owner : q # o => g[q] = f[q]
  BY DEF Moves
<1>4. \/ f[o] = NoFd /\ g[o] \in Fd \ w.open /\ v.open = w.open \cup {g[o]}
      \/ g[o] = NoFd /\ v.open = w.open \ {f[o]}
  BY DEF Moves
<1> HIDE DEF f, g
<1>5. OneHolder(g, v.open)
  BY <1>1, <1>2, <1>3, <1>4, HolderLaw
<1> QED
  BY <1>5 DEF g

\* What its owner may say of a descriptor: nobody else holds it, and the poller
\* calls nobody else for it.
LEMMA OwnFacts ==
  ASSUME NEW w, Owned(w), NEW c \in Conn, w.conn[c].fd # NoFd
  PROVE  /\ w.conn[c].fd \in Fd /\ w.conn[c].fd \in w.open
         /\ w.conn[c].fd \notin {LogFd, ListenFd}
         /\ \A d \in Conn : w.conn[d].fd = w.conn[c].fd => d = c
         /\ w.poller.readers[w.conn[c].fd] = (IF w.conn[c].rd /\ w.conn[c].fd < SetSize THEN c ELSE Nobody)
         /\ w.poller.writers[w.conn[c].fd] = (IF w.conn[c].wr /\ w.conn[c].fd < SetSize THEN c ELSE Nobody)
<1> DEFINE fd == w.conn[c].fd
<1>t. /\ w.conn \in [Conn -> ConnType] /\ w.poller \in PollerType
      /\ Exact(w.poller) /\ Fits(w.poller)
  BY DEF Owned, GoodWorld, WorldType, GoodPoller
<1>1. fd \in Fd
  BY <1>t DEF ConnType
<1>2. fd \in w.open /\ fd \notin {LogFd, ListenFd} /\ \A d \in Conn : w.conn[d].fd = fd => d = c
  <2>1. OneHolder(HeldBy(w), w.open) /\ GoodWorld(w)
    BY DEF Owned
  <2>2. \A d \in Conn : d \in Owner /\ HeldBy(w)[d] = w.conn[d].fd
    BY <2>1, OwnerLaw, HeldType
  <2> QED
    BY <2>1, <2>2 DEF OneHolder
<1>3. SetSize <= fd => w.poller.readers[fd] = Nobody /\ w.poller.writers[fd] = Nobody
  BY <1>1, <1>t, PollerAssumption DEF Exact, Fits, Fd
<1>4. w.poller.readers[fd] \in Conn \cup {Listener, Nobody} /\ w.poller.writers[fd] \in Conn \cup {Listener, Nobody}
  BY <1>1, <1>t DEF PollerType
<1>5. Watched(w.poller, w.conn)
  BY DEF Owned
<1>6. fd < SetSize \/ SetSize <= fd
  BY <1>1, PollerAssumption DEF Fd
<1> QED
  BY <1>1, <1>2, <1>3, <1>4, <1>5, <1>6 DEF Watched

-----------------------------------------------------------------------------
(* The methods of a connection.                                            *)

\* A method leaves files, descriptors and broken tunnels alone.
Same(v, w) == v.file = w.file /\ v.open = w.open /\ v.broken = w.broken

\* A connection with a descriptor is watched for reading.
LEMMA RegReadOwned ==
  ASSUME NEW w, Owned(w), NEW c \in Conn, w.conn[c].fd # NoFd
  PROVE  /\ Owned(TryRegReadEvent(w, c)) /\ Same(TryRegReadEvent(w, c), w)
         /\ TryRegReadEvent(w, c).conn = [w.conn EXCEPT ![c].rd = TRUE]
<1> DEFINE v == TryRegReadEvent(w, c)
           fd == w.conn[c].fd
           p == RegisterForRead(w.poller, fd, c)
           k == [w.conn EXCEPT ![c].rd = TRUE]
<1>t. GoodWorld(w) /\ w.conn \in [Conn -> ConnType] /\ w.poller \in PollerType
  BY DEF Owned, GoodWorld, WorldType
<1>f. /\ fd \in Fd
      /\ \A d \in Conn : w.conn[d].fd = fd => d = c
      /\ fd # ListenFd
      /\ w.poller.readers[fd] = (IF w.conn[c].rd /\ fd < SetSize THEN c ELSE Nobody)
  BY OwnFacts
<1>1. CASE w.conn[c].rd
  <2>1. v = w
    BY <1>1 DEF TryRegReadEvent
  <2>2. k = w.conn
    BY <1>1, <1>t DEF ConnType
  <2> QED
    BY <2>1, <2>2 DEF Same
<1>2. CASE ~ w.conn[c].rd
  <2>1. v = [w EXCEPT !.conn = k, !.poller = p]
    BY <1>2, <1>t DEF TryRegReadEvent, GoodWorld, WorldType
  <2>2. v.conn = k /\ v.poller = p /\ Same(v, w)
    BY <2>1, <1>t DEF GoodWorld, WorldType, Same
  <2>3. GoodWorld(v)
    BY <1>f, <1>t, TryRegReadEventLaw
  <2>4. /\ k[c].rd
        /\ \A d \in Conn : k[d].fd = w.conn[d].fd /\ k[d].wr = w.conn[d].wr
        /\ \A d \in Conn : d # c => k[d].rd = w.conn[d].rd
    BY <1>t DEF ConnType
  <2>5. HeldBy(v) = HeldBy(w)
    BY <2>2, <2>4, OwnerLaw, HeldType DEF Same, HeldBy
  <2>6. /\ p.writers = w.poller.writers
        /\ \A x \in Fd : p.readers[x] = IF x = fd /\ fd < SetSize THEN c ELSE w.poller.readers[x]
    <3>1. fd \notin w.poller.reads
      BY <1>2, <1>f, <1>t DEF GoodWorld, GoodPoller, Exact
    <3>2. CASE SetSize <= fd
      <4>1. ~ (fd < SetSize)
        BY <3>2, <1>f, PollerAssumption DEF Fd
      <4> QED
        BY <3>2, <4>1 DEF RegisterForRead
    <3>3. CASE ~ (SetSize <= fd)
      <4>1. fd < SetSize
        BY <3>3, <1>f, PollerAssumption DEF Fd
      <4>2. p = [w.poller EXCEPT !.reads = @ \cup {fd}, !.top = Larger(fd, @), !.readers[fd] = c]
        BY <3>1, <3>3 DEF RegisterForRead
      <4>3. p.readers = [w.poller.readers EXCEPT ![fd] = c] /\ p.writers = w.poller.writers
        BY <4>2, <1>t DEF PollerType
      <4>4. w.poller.readers \in [Fd -> Conn \cup {Listener, Nobody}]
        BY <1>t DEF PollerType
      <4> QED
        BY <4>1, <4>3, <4>4, <1>f
    <3> QED
      BY <3>2, <3>3
  <2>7. Watched(w.poller, w.conn)
    BY DEF Owned
  <2>9. \A d \in Conn : w.conn[d].fd # NoFd => w.conn[d].fd \in Fd
    BY <1>t DEF ConnType
  <2> HIDE DEF k, p
  <2>8. Watched(p, k)
    <3>1. \A x \in Fd, d \in Conn : (p.readers[x] = d => k[d].rd /\ k[d].fd = x)
                                /\ (p.writers[x] = d => k[d].wr /\ k[d].fd = x)
      BY <1>f, <2>4, <2>6, <2>7 DEF Watched
    <3>2. \A d \in Conn : k[d].fd # NoFd /\ k[d].fd < SetSize =>
            (k[d].rd => p.readers[k[d].fd] = d) /\ (k[d].wr => p.writers[k[d].fd] = d)
      BY <1>f, <2>4, <2>6, <2>7, <2>9 DEF Watched
    <3>3. \A x \in Fd : (p.readers[x] = Listener <=> x = ListenFd) /\ p.writers[x] # Listener
      BY <1>f, <2>6, <2>7, OwnerLaw DEF Watched
    <3> QED
      BY <3>1, <3>2, <3>3 DEF Watched
  <2> QED
    BY <2>2, <2>3, <2>5, <2>8 DEF Owned, Same, k
<1> QED
  BY <1>1, <1>2

\* A connection with a descriptor is watched for writing.
LEMMA RegWriteOwned ==
  ASSUME NEW w, Owned(w), NEW c \in Conn, w.conn[c].fd # NoFd
  PROVE  /\ Owned(TryRegWriteEvent(w, c)) /\ Same(TryRegWriteEvent(w, c), w)
         /\ TryRegWriteEvent(w, c).conn = [w.conn EXCEPT ![c].wr = TRUE]
<1> DEFINE v == TryRegWriteEvent(w, c)
           fd == w.conn[c].fd
           p == RegisterForWrite(w.poller, fd, c)
           k == [w.conn EXCEPT ![c].wr = TRUE]
<1>t. GoodWorld(w) /\ w.conn \in [Conn -> ConnType] /\ w.poller \in PollerType
  BY DEF Owned, GoodWorld, WorldType
<1>f. /\ fd \in Fd
      /\ \A d \in Conn : w.conn[d].fd = fd => d = c
      /\ fd # ListenFd
      /\ w.poller.writers[fd] = (IF w.conn[c].wr /\ fd < SetSize THEN c ELSE Nobody)
  BY OwnFacts
<1>1. CASE w.conn[c].wr
  <2>1. v = w
    BY <1>1 DEF TryRegWriteEvent
  <2>2. k = w.conn
    BY <1>1, <1>t DEF ConnType
  <2> QED
    BY <2>1, <2>2 DEF Same
<1>2. CASE ~ w.conn[c].wr
  <2>1. v = [w EXCEPT !.conn = k, !.poller = p]
    BY <1>2, <1>t DEF TryRegWriteEvent, GoodWorld, WorldType
  <2>2. v.conn = k /\ v.poller = p /\ Same(v, w)
    BY <2>1, <1>t DEF GoodWorld, WorldType, Same
  <2>3. GoodWorld(v)
    BY <1>f, <1>t, TryRegWriteEventLaw
  <2>4. /\ k[c].wr
        /\ \A d \in Conn : k[d].fd = w.conn[d].fd /\ k[d].rd = w.conn[d].rd
        /\ \A d \in Conn : d # c => k[d].wr = w.conn[d].wr
    BY <1>t DEF ConnType
  <2>5. HeldBy(v) = HeldBy(w)
    BY <2>2, <2>4, OwnerLaw, HeldType DEF Same, HeldBy
  <2>6. /\ p.readers = w.poller.readers
        /\ \A x \in Fd : p.writers[x] = IF x = fd /\ fd < SetSize THEN c ELSE w.poller.writers[x]
    <3>1. fd \notin w.poller.writes
      BY <1>2, <1>f, <1>t DEF GoodWorld, GoodPoller, Exact
    <3>2. CASE SetSize <= fd
      <4>1. ~ (fd < SetSize)
        BY <3>2, <1>f, PollerAssumption DEF Fd
      <4> QED
        BY <3>2, <4>1 DEF RegisterForWrite
    <3>3. CASE ~ (SetSize <= fd)
      <4>1. fd < SetSize
        BY <3>3, <1>f, PollerAssumption DEF Fd
      <4>2. p = [w.poller EXCEPT !.writes = @ \cup {fd}, !.top = Larger(fd, @), !.count = @ + 1,
                                 !.writers[fd] = c]
        BY <3>1, <3>3 DEF RegisterForWrite
      <4>3. p.writers = [w.poller.writers EXCEPT ![fd] = c] /\ p.readers = w.poller.readers
        BY <4>2, <1>t DEF PollerType
      <4>4. w.poller.writers \in [Fd -> Conn \cup {Listener, Nobody}]
        BY <1>t DEF PollerType
      <4> QED
        BY <4>1, <4>3, <4>4, <1>f
    <3> QED
      BY <3>2, <3>3
  <2>7. Watched(w.poller, w.conn)
    BY DEF Owned
  <2>9. \A d \in Conn : w.conn[d].fd # NoFd => w.conn[d].fd \in Fd
    BY <1>t DEF ConnType
  <2> HIDE DEF k, p
  <2>8. Watched(p, k)
    <3>1. \A x \in Fd, d \in Conn : (p.readers[x] = d => k[d].rd /\ k[d].fd = x)
                                /\ (p.writers[x] = d => k[d].wr /\ k[d].fd = x)
      BY <1>f, <2>4, <2>6, <2>7 DEF Watched
    <3>2. \A d \in Conn : k[d].fd # NoFd /\ k[d].fd < SetSize =>
            (k[d].rd => p.readers[k[d].fd] = d) /\ (k[d].wr => p.writers[k[d].fd] = d)
      BY <1>f, <2>4, <2>6, <2>7, <2>9 DEF Watched
    <3>3. \A x \in Fd : (p.readers[x] = Listener <=> x = ListenFd) /\ p.writers[x] # Listener
      BY <1>f, <2>6, <2>7, OwnerLaw DEF Watched
    <3> QED
      BY <3>1, <3>2, <3>3 DEF Watched
  <2> QED
    BY <2>2, <2>3, <2>5, <2>8 DEF Owned, Same, k
<1> QED
  BY <1>1, <1>2

\* A connection is no longer watched for reading.
LEMMA UnregReadOwned ==
  ASSUME NEW w, Owned(w), NEW c \in Conn
  PROVE  /\ Owned(TryUnregReadEvent(w, c)) /\ Same(TryUnregReadEvent(w, c), w)
         /\ TryUnregReadEvent(w, c).conn = [w.conn EXCEPT ![c].rd = FALSE]
<1> DEFINE v == TryUnregReadEvent(w, c)
           fd == w.conn[c].fd
           p == DeregisterForRead(w.poller, fd)
           k == [w.conn EXCEPT ![c].rd = FALSE]
<1>t. GoodWorld(w) /\ w.conn \in [Conn -> ConnType] /\ w.poller \in PollerType
  BY DEF Owned, GoodWorld, WorldType
<1>1. CASE ~ w.conn[c].rd
  <2>1. v = w
    BY <1>1 DEF TryUnregReadEvent
  <2>2. k = w.conn
    BY <1>1, <1>t DEF ConnType
  <2> QED
    BY <2>1, <2>2 DEF Same
<1>2. CASE w.conn[c].rd
  <2>f. fd \in Fd /\ \A d \in Conn : w.conn[d].fd = fd => d = c
    BY <1>2, <1>t, OwnFacts DEF GoodWorld, GoodConns, Fd, NoFd
  <2>l. fd # ListenFd
    BY <2>f, OwnFacts DEF Fd, NoFd
  <2>1. v = [w EXCEPT !.conn = k, !.poller = p]
    BY <1>2, <1>t DEF TryUnregReadEvent, GoodWorld, WorldType
  <2>2. v.conn = k /\ v.poller = p /\ Same(v, w)
    BY <2>1, <1>t DEF GoodWorld, WorldType, Same
  <2>3. GoodWorld(v)
    BY <1>t, TryUnregReadEventLaw
  <2>4. /\ ~ k[c].rd
        /\ \A d \in Conn : k[d].fd = w.conn[d].fd /\ k[d].wr = w.conn[d].wr
        /\ \A d \in Conn : d # c => k[d].rd = w.conn[d].rd
    BY <1>t DEF ConnType
  <2>5. HeldBy(v) = HeldBy(w)
    BY <2>2, <2>4, OwnerLaw, HeldType DEF Same, HeldBy
  <2>6. p.writers = w.poller.writers /\ p.readers = [w.poller.readers EXCEPT ![fd] = Nobody]
    BY <1>t DEF DeregisterForRead, WithoutTop, PollerType
  <2>7. Watched(w.poller, w.conn) /\ w.poller.readers \in [Fd -> Conn \cup {Listener, Nobody}]
    BY <1>t DEF Owned, PollerType
  <2>9. \A d \in Conn : w.conn[d].fd # NoFd => w.conn[d].fd \in Fd
    BY <1>t DEF ConnType
  <2> HIDE DEF k, p
  <2>8. Watched(p, k)
    <3>1. \A x \in Fd, d \in Conn : (p.readers[x] = d => k[d].rd /\ k[d].fd = x)
                                /\ (p.writers[x] = d => k[d].wr /\ k[d].fd = x)
      BY <2>f, <2>4, <2>6, <2>7, OwnerLaw DEF Watched
    <3>2. \A d \in Conn : k[d].fd # NoFd /\ k[d].fd < SetSize =>
            (k[d].rd => p.readers[k[d].fd] = d) /\ (k[d].wr => p.writers[k[d].fd] = d)
      BY <2>f, <2>4, <2>6, <2>7, <2>9 DEF Watched
    <3>3. \A x \in Fd : (p.readers[x] = Listener <=> x = ListenFd) /\ p.writers[x] # Listener
      BY <2>l, <2>6, <2>7, OwnerLaw DEF Watched
    <3> QED
      BY <3>1, <3>2, <3>3 DEF Watched
  <2> QED
    BY <2>2, <2>3, <2>5, <2>8 DEF Owned, Same, k
<1> QED
  BY <1>1, <1>2

\* A connection is no longer watched for writing.
LEMMA UnregWriteOwned ==
  ASSUME NEW w, Owned(w), NEW c \in Conn
  PROVE  /\ Owned(TryUnregWriteEvent(w, c)) /\ Same(TryUnregWriteEvent(w, c), w)
         /\ TryUnregWriteEvent(w, c).conn = [w.conn EXCEPT ![c].wr = FALSE]
<1> DEFINE v == TryUnregWriteEvent(w, c)
           fd == w.conn[c].fd
           p == DeregisterForWrite(w.poller, fd)
           k == [w.conn EXCEPT ![c].wr = FALSE]
<1>t. GoodWorld(w) /\ w.conn \in [Conn -> ConnType] /\ w.poller \in PollerType
  BY DEF Owned, GoodWorld, WorldType
<1>1. CASE ~ w.conn[c].wr
  <2>1. v = w
    BY <1>1 DEF TryUnregWriteEvent
  <2>2. k = w.conn
    BY <1>1, <1>t DEF ConnType
  <2> QED
    BY <2>1, <2>2 DEF Same
<1>2. CASE w.conn[c].wr
  <2>f. fd \in Fd /\ \A d \in Conn : w.conn[d].fd = fd => d = c
    BY <1>2, <1>t, OwnFacts DEF GoodWorld, GoodConns, Fd, NoFd
  <2>l. fd # ListenFd
    BY <2>f, OwnFacts DEF Fd, NoFd
  <2>1. v = [w EXCEPT !.conn = k, !.poller = p]
    BY <1>2, <1>t DEF TryUnregWriteEvent, GoodWorld, WorldType
  <2>2. v.conn = k /\ v.poller = p /\ Same(v, w)
    BY <2>1, <1>t DEF GoodWorld, WorldType, Same
  <2>3. GoodWorld(v)
    BY <1>t, TryUnregWriteEventLaw
  <2>4. /\ ~ k[c].wr
        /\ \A d \in Conn : k[d].fd = w.conn[d].fd /\ k[d].rd = w.conn[d].rd
        /\ \A d \in Conn : d # c => k[d].wr = w.conn[d].wr
    BY <1>t DEF ConnType
  <2>5. HeldBy(v) = HeldBy(w)
    BY <2>2, <2>4, OwnerLaw, HeldType DEF Same, HeldBy
  <2>6. p.readers = w.poller.readers /\ p.writers = [w.poller.writers EXCEPT ![fd] = Nobody]
    BY <1>t DEF DeregisterForWrite, WithoutTop, PollerType
  <2>7. Watched(w.poller, w.conn) /\ w.poller.writers \in [Fd -> Conn \cup {Listener, Nobody}]
    BY <1>t DEF Owned, PollerType
  <2>9. \A d \in Conn : w.conn[d].fd # NoFd => w.conn[d].fd \in Fd
    BY <1>t DEF ConnType
  <2> HIDE DEF k, p
  <2>8. Watched(p, k)
    <3>1. \A x \in Fd, d \in Conn : (p.readers[x] = d => k[d].rd /\ k[d].fd = x)
                                /\ (p.writers[x] = d => k[d].wr /\ k[d].fd = x)
      BY <2>f, <2>4, <2>6, <2>7, OwnerLaw DEF Watched
    <3>2. \A d \in Conn : k[d].fd # NoFd /\ k[d].fd < SetSize =>
            (k[d].rd => p.readers[k[d].fd] = d) /\ (k[d].wr => p.writers[k[d].fd] = d)
      BY <2>f, <2>4, <2>6, <2>7, <2>9 DEF Watched
    <3>3. \A x \in Fd : (p.readers[x] = Listener <=> x = ListenFd) /\ p.writers[x] # Listener
      BY <2>l, <2>6, <2>7, OwnerLaw DEF Watched
    <3> QED
      BY <3>1, <3>2, <3>3 DEF Watched
  <2> QED
    BY <2>2, <2>3, <2>5, <2>8 DEF Owned, Same, k
<1> QED
  BY <1>1, <1>2

NewConn(fd, status) == [fd |-> fd, status |-> status, rd |-> FALSE, wr |-> FALSE]
Watching(fd) == [fd |-> fd, status |-> "Connected", rd |-> TRUE, wr |-> FALSE]
Awaiting(fd) == [fd |-> fd, status |-> "Connecting", rd |-> FALSE, wr |-> TRUE]

Opened(w, c, fd, status) ==
  [w EXCEPT !.open = @ \cup {fd}, !.conn[c].fd = fd, !.conn[c].status = status]

\* World v is world w in which connection c has become k.
Adds(v, w, c, k) ==
  /\ Owned(v) /\ v.open = w.open \cup {k.fd} /\ v.file = w.file /\ v.broken = w.broken
  /\ v.conn[c] = k
  /\ \A d \in Conn : d # c => v.conn[d] = w.conn[d]

\* A connection that is closed gets a descriptor that is free.
LEMMA OpenOwned ==
  ASSUME NEW w, Owned(w), NEW c \in Conn, w.conn[c] = ClosedConn, NEW fd \in Fd \ w.open,
         NEW status \in {"Connecting", "Connected"}
  PROVE  Adds(Opened(w, c, fd, status), w, c, NewConn(fd, status))
<1> DEFINE n == [w.conn EXCEPT ![c].fd = fd, ![c].status = status]
           k == [w.conn EXCEPT ![c] = NewConn(fd, status)]
           v == Opened(w, c, fd, status)
<1>t. GoodWorld(w) /\ w.conn \in [Conn -> ConnType] /\ w.poller \in PollerType
  BY DEF Owned, GoodWorld, WorldType
<1>n. n = k
  <2>1. n \in [Conn -> ConnType] /\ k \in [Conn -> ConnType]
    BY <1>t, fd \in Fd DEF ConnType, NewConn
  <2>2. n[c].fd = fd /\ n[c].status = status /\ n[c].rd = FALSE /\ n[c].wr = FALSE
    BY <1>t DEF ConnType, ClosedConn
  <2>3. n[c] = NewConn(fd, status)
    BY <2>1, <2>2 DEF ConnType, NewConn
  <2>4. \A d \in Conn : d # c => n[d] = w.conn[d]
    BY <1>t
  <2>5. \A d \in Conn : n[d] = k[d]
    BY <1>t, <2>3, <2>4
  <2> HIDE DEF n, k
  <2> QED
    BY <2>1, <2>5
<1>1. v = [w EXCEPT !.open = @ \cup {fd}, !.conn = k]
  <2>1. v = [w EXCEPT !.open = @ \cup {fd}, !.conn = n]
    BY <1>t DEF GoodWorld, WorldType, Opened
  <2> QED
    BY <1>n, <2>1
<1>2. /\ v.open = w.open \cup {fd} /\ v.file = w.file /\ v.broken = w.broken
      /\ v.poller = w.poller /\ v.conn = k
  BY <1>1, <1>t DEF GoodWorld, WorldType
<1>3. /\ k[c].fd = fd /\ k[c].rd = FALSE /\ k[c].wr = FALSE
      /\ \A d \in Conn : d # c => k[d] = w.conn[d]
      /\ k \in [Conn -> ConnType]
  BY <1>t DEF ConnType, ClosedConn, NewConn
<1> HIDE DEF k
<1>4. GoodConns(k)
  BY <1>3, <1>t DEF GoodConns, GoodWorld
<1>5. GoodWorld(v)
  BY <1>1, <1>2, <1>3, <1>4, <1>t DEF GoodWorld, WorldType
<1> HIDE DEF v
<1>6. /\ w.conn[c].fd = NoFd /\ v.conn[c].fd = fd
      /\ \A d \in Conn : d # c => v.conn[d].fd = w.conn[d].fd
  BY <1>2, <1>3 DEF ClosedConn
<1>7. OneHolder(HeldBy(v), v.open)
  <2>1. HeldBy(w)[c] = NoFd /\ HeldBy(v)[c] = fd
    BY <1>5, <1>6, <1>t, HeldType
  <2>2. \A q \in Owner : q # c => HeldBy(v)[q] = HeldBy(w)[q]
    BY <1>2, <1>5, <1>6, <1>t, HeldType, OwnerLaw
  <2>3. Moves(w, v, c)
    BY <1>2, <2>1, <2>2 DEF Moves
  <2> QED
    BY <1>5, <2>3, MovesLaw, OwnerLaw
<1>8. Watched(v.poller, v.conn)
  BY <1>2, <1>3 DEF Owned, Watched, ClosedConn
<1>9. v.conn[c] = NewConn(fd, status) /\ NewConn(fd, status).fd = fd
  BY <1>2, <1>t DEF k, NewConn
<1> QED
  BY <1>2, <1>3, <1>5, <1>7, <1>8, <1>9 DEF Owned, Adds, v

Established(w, c) == [w EXCEPT !.conn[c].status = "Connected"]

\* A connect() succeeds.
LEMMA StatusOwned ==
  ASSUME NEW w, Owned(w), NEW c \in Conn, w.conn[c].fd \in Fd
  PROVE  /\ Owned(Established(w, c)) /\ Same(Established(w, c), w)
         /\ Established(w, c).conn = [w.conn EXCEPT ![c].status = "Connected"]
<1> DEFINE k == [w.conn EXCEPT ![c].status = "Connected"]
           v == Established(w, c)
<1>t. GoodWorld(w) /\ w.conn \in [Conn -> ConnType] /\ w.poller \in PollerType
  BY DEF Owned, GoodWorld, WorldType
<1>1. v.open = w.open /\ v.file = w.file /\ v.broken = w.broken /\ v.poller = w.poller /\ v.conn = k
  BY <1>t DEF GoodWorld, WorldType, Established
<1>2. \A d \in Conn : k[d].fd = w.conn[d].fd /\ k[d].rd = w.conn[d].rd /\ k[d].wr = w.conn[d].wr
  BY <1>t DEF ConnType
<1>3. GoodWorld(v)
  BY <1>t, StatusLaw DEF Established
<1> HIDE DEF k, v
<1>4. HeldBy(v) = HeldBy(w)
  BY <1>1, <1>2, OwnerLaw, HeldType DEF HeldBy
<1>5. Watched(v.poller, k)
  BY <1>1, <1>2 DEF Owned, Watched
<1> QED
  BY <1>1, <1>3, <1>4, <1>5 DEF Owned, Same, k, v


\* A closed connection has no descriptor and is not watched.
LEMMA NoFdIsClosed ==
  ASSUME NEW w, GoodWorld(w), NEW c \in Conn
  PROVE  /\ w.conn[c].fd = NoFd => w.conn[c] = ClosedConn
         /\ NoFd \notin w.open
<1>1. w.conn[c] \in ConnType
  BY DEF GoodWorld, WorldType
<1>2. w.conn[c].fd = NoFd => w.conn[c].status = "Closed" /\ ~ w.conn[c].rd /\ ~ w.conn[c].wr
  BY DEF GoodWorld, GoodConns, Fd, NoFd
<1>3. w.conn[c].fd = NoFd => w.conn[c] = ClosedConn
  BY <1>1, <1>2 DEF ConnType, ClosedConn
<1>4. NoFd \notin w.open
  BY DEF GoodWorld, WorldType, Fd, NoFd
<1> QED
  BY <1>3, <1>4

\* A connection is closed, and so is its descriptor.
LEMMA ShutdownOwned ==
  ASSUME NEW w, Owned(w), NEW c \in Conn
  PROVE  /\ Owned(ShutdownConn(w, c))
         /\ ShutdownConn(w, c).conn = [w.conn EXCEPT ![c] = ClosedConn]
         /\ ShutdownConn(w, c).open = w.open \ {w.conn[c].fd}
         /\ ShutdownConn(w, c).file = w.file /\ ShutdownConn(w, c).broken = w.broken
<1> DEFINE x == TryUnregWriteEvent(w, c)
           y == TryUnregReadEvent(x, c)
           v == ShutdownConn(w, c)
           k == [w.conn EXCEPT ![c] = ClosedConn]
           fd == w.conn[c].fd
<1>t. GoodWorld(w) /\ w.conn \in [Conn -> ConnType]
  BY DEF Owned, GoodWorld, WorldType
<1>1. CASE fd = NoFd
  <2>1. v = w
    BY <1>1 DEF ShutdownConn
  <2>2. w.open \ {fd} = w.open
    BY <1>1, <1>t, NoFdIsClosed
  <2>3. k = w.conn
    BY <1>1, <1>t, NoFdIsClosed
  <2> QED
    BY <2>1, <2>2, <2>3
<1>2. CASE fd # NoFd
  <2>1. v = [y EXCEPT !.open = @ \ {fd}, !.conn[c] = ClosedConn]
    BY <1>2 DEF ShutdownConn
  <2>2. Owned(x) /\ Same(x, w) /\ x.conn = [w.conn EXCEPT ![c].wr = FALSE]
    BY UnregWriteOwned
  <2> HIDE DEF x
  <2>3. Owned(y) /\ Same(y, x) /\ y.conn = [x.conn EXCEPT ![c].rd = FALSE]
    BY <2>2, UnregReadOwned
  <2>4. /\ y.conn[c].fd = fd /\ ~ y.conn[c].rd /\ ~ y.conn[c].wr
        /\ \A d \in Conn : d # c => y.conn[d] = w.conn[d]
    BY <2>2, <2>3, <1>t DEF ConnType
  <2>t. GoodWorld(y) /\ y.conn \in [Conn -> ConnType] /\ Same(y, w)
    BY <2>2, <2>3 DEF Owned, GoodWorld, WorldType, Same
  <2> HIDE DEF y
  <2>5. [y.conn EXCEPT ![c] = ClosedConn] = k
    BY <1>t, <2>4, <2>t
  <2>6. /\ v.conn = k /\ v.open = w.open \ {fd} /\ v.file = w.file /\ v.broken = w.broken
        /\ v.poller = y.poller
    BY <2>1, <2>5, <2>t DEF GoodWorld, WorldType, Same
  <2>7. GoodWorld(v)
    BY <1>t, ShutdownLaw
  <2>8. k[c] = ClosedConn /\ \A d \in Conn : d # c => k[d] = y.conn[d]
    BY <1>t, <2>4
  <2> HIDE DEF v, k
  <2>9. /\ v.conn[c].fd = NoFd /\ \A d \in Conn : d # c => v.conn[d].fd = y.conn[d].fd
        /\ v.file = y.file /\ v.open = y.open \ {y.conn[c].fd}
    BY <2>4, <2>6, <2>8, <2>t DEF ClosedConn, Same
  <2>10. OneHolder(HeldBy(v), v.open)
    <3>1. HeldBy(y)[c] = fd /\ HeldBy(v)[c] = NoFd
      BY <2>4, <2>7, <2>9, <2>t, HeldType
    <3>2. \A q \in Owner : q # c => HeldBy(v)[q] = HeldBy(y)[q]
      BY <2>7, <2>9, <2>t, HeldType, OwnerLaw
    <3>3. Moves(y, v, c)
      BY <2>4, <2>9, <3>1, <3>2 DEF Moves
    <3> QED
      BY <2>3, <2>7, <3>3, MovesLaw, OwnerLaw
  <2>11. Watched(v.poller, v.conn)
    <3>1. Watched(y.poller, y.conn)
      BY <2>3 DEF Owned
    <3>2. \A d \in Conn : (k[d].rd => y.conn[d].rd) /\ (k[d].wr => y.conn[d].wr)
      BY <2>8 DEF ClosedConn
    <3>3. \A z \in Fd, d \in Conn : (y.poller.readers[z] = d => k[d].rd /\ k[d].fd = z)
                                 /\ (y.poller.writers[z] = d => k[d].wr /\ k[d].fd = z)
      BY <2>4, <2>8, <3>1 DEF Watched
    <3>4. \A d \in Conn : k[d].fd # NoFd /\ k[d].fd < SetSize =>
            (k[d].rd => y.poller.readers[k[d].fd] = d) /\ (k[d].wr => y.poller.writers[k[d].fd] = d)
      BY <2>8, <3>1 DEF Watched, ClosedConn
    <3> QED
      BY <2>6, <3>1, <3>3, <3>4 DEF Watched
  <2> QED
    BY <2>6, <2>7, <2>10, <2>11 DEF Owned, k, v
<1> QED
  BY <1>1, <1>2

\* A file is opened or closed.
LEMMA FileOwned ==
  ASSUME NEW w, Owned(w), NEW t \in Tunnel
  PROVE  /\ \A fd \in Fd \ w.open : w.file[t] = NoFd =>
              Owned([w EXCEPT !.file[t] = fd, !.open = @ \cup {fd}])
         /\ Owned(ClearFile(w, t))
         /\ ClearFile(w, t).conn = w.conn /\ ClearFile(w, t).broken = w.broken
         /\ ClearFile(w, t).file = [w.file EXCEPT ![t] = NoFd]
         /\ ClearFile(w, t).open = w.open \ {w.file[t]}
<1>t. /\ GoodWorld(w) /\ w.conn \in [Conn -> ConnType] /\ w.file \in [Tunnel -> Fd \cup {NoFd}]
      /\ OneHolder(HeldBy(w), w.open) /\ Watched(w.poller, w.conn) /\ w.open \in SUBSET Fd
  BY DEF Owned, GoodWorld, WorldType
<1>1. ASSUME NEW fd \in Fd \ w.open, w.file[t] = NoFd
      PROVE  Owned([w EXCEPT !.file[t] = fd, !.open = @ \cup {fd}])
  <2> DEFINE v == [w EXCEPT !.file[t] = fd, !.open = @ \cup {fd}]
  <2>1. /\ v.file = [w.file EXCEPT ![t] = fd] /\ v.open = w.open \cup {fd} /\ v.conn = w.conn
        /\ v.poller = w.poller /\ GoodWorld(v)
    BY <1>1, <1>t DEF GoodWorld, WorldType
  <2>2. v.file[t] = fd /\ \A u \in Tunnel : u # t => v.file[u] = w.file[u]
    BY <1>t, <2>1
  <2> HIDE DEF v
  <2>3. OneHolder(HeldBy(v), v.open)
    <3> DEFINE o == <<t, "file">>
    <3>1. HeldBy(w)[o] = NoFd /\ HeldBy(v)[o] = fd /\ o \in Owner
      BY <1>1, <1>t, <2>1, <2>2, HeldType, OwnerLaw
    <3>2. \A q \in Owner : q # o => HeldBy(v)[q] = HeldBy(w)[q]
      BY <1>t, <2>1, <2>2, HeldType, OwnerLaw
    <3> HIDE DEF o
    <3>3. Moves(w, v, o)
      BY <2>1, <3>1, <3>2 DEF Moves
    <3> QED
      BY <2>1, <3>1, <3>3, MovesLaw
  <2> QED
    BY <1>t, <2>1, <2>3 DEF Owned, v
<1>2. /\ ClearFile(w, t).conn = w.conn /\ ClearFile(w, t).broken = w.broken
      /\ ClearFile(w, t).file = [w.file EXCEPT ![t] = NoFd]
      /\ ClearFile(w, t).open = w.open \ {w.file[t]}
      /\ ClearFile(w, t).poller = w.poller /\ GoodWorld(ClearFile(w, t))
  BY <1>t DEF GoodWorld, WorldType, ClearFile
<1>3. Owned(ClearFile(w, t))
  <2> DEFINE v == ClearFile(w, t)
  <2>1. v.file[t] = NoFd /\ \A u \in Tunnel : u # t => v.file[u] = w.file[u]
    BY <1>t, <1>2
  <2> HIDE DEF v
  <2>2. v.conn = w.conn /\ v.open = w.open \ {w.file[t]} /\ GoodWorld(v)
    BY <1>2 DEF v
  <2>3. OneHolder(HeldBy(v), v.open)
    <3> DEFINE o == <<t, "file">>
    <3>1. HeldBy(w)[o] = w.file[t] /\ HeldBy(v)[o] = NoFd /\ o \in Owner
      BY <1>t, <2>1, <2>2, HeldType, OwnerLaw
    <3>2. \A q \in Owner : q # o => HeldBy(v)[q] = HeldBy(w)[q]
      BY <1>t, <2>1, <2>2, HeldType, OwnerLaw
    <3> HIDE DEF o
    <3>3. Moves(w, v, o)
      BY <2>2, <3>1, <3>2 DEF Moves
    <3> QED
      BY <2>2, <3>1, <3>3, MovesLaw
  <2> QED
    BY <1>t, <1>2, <2>3 DEF Owned, v
<1> QED
  BY <1>1, <1>2, <1>3

\* A session ends: nothing is left of it, and its handler is told.
LEMMA EndSessionOwned ==
  ASSUME NEW w, Owned(w), NEW t \in Tunnel
  PROVE  /\ Owned(EndSession(w, t))
         /\ \A side \in Side : EndSession(w, t).conn[<<t, side>>] = ClosedConn
         /\ \A d \in Conn : d[1] # t => EndSession(w, t).conn[d] = w.conn[d]
         /\ EndSession(w, t).file = [w.file EXCEPT ![t] = NoFd]
         /\ EndSession(w, t).open
              = ((w.open \ {w.conn[<<t, "local">>].fd}) \ {w.conn[<<t, "proxy">>].fd}) \ {w.file[t]}
         /\ EndSession(w, t).broken = w.broken \cup (IF t \in handled THEN {t} ELSE {})
<1> DEFINE x == ShutdownConn(w, <<t, "local">>)
           y == ShutdownConn(x, <<t, "proxy">>)
           z == ClearFile(y, t)
           v == EndSession(w, t)
<1>0. /\ <<t, "local">> \in Conn /\ <<t, "proxy">> \in Conn
      /\ \A side \in Side : side = "local" \/ side = "proxy"
      /\ \A d \in Conn : d[1] # t => d # <<t, "local">> /\ d # <<t, "proxy">>
  BY DEF Conn, Side
<1>t. w.conn \in [Conn -> ConnType] /\ w.broken \in SUBSET Tunnel
  BY DEF Owned, GoodWorld, WorldType
<1>1. /\ Owned(x) /\ x.conn = [w.conn EXCEPT ![<<t, "local">>] = ClosedConn]
      /\ x.open = w.open \ {w.conn[<<t, "local">>].fd} /\ x.file = w.file /\ x.broken = w.broken
  BY <1>0, ShutdownOwned
<1> HIDE DEF x
<1>2. /\ Owned(y) /\ y.conn = [x.conn EXCEPT ![<<t, "proxy">>] = ClosedConn]
      /\ y.open = x.open \ {x.conn[<<t, "proxy">>].fd} /\ y.file = x.file /\ y.broken = x.broken
  BY <1>0, <1>1, ShutdownOwned
<1> HIDE DEF y
<1>3. /\ Owned(z) /\ z.conn = y.conn /\ z.file = [y.file EXCEPT ![t] = NoFd]
      /\ z.open = y.open \ {y.file[t]} /\ z.broken = y.broken
  BY <1>2, FileOwned
<1> HIDE DEF z
<1>4. v = IF t \in handled THEN [z EXCEPT !.broken = @ \cup {t}] ELSE z
  BY DEF EndSession, x, y, z
<1>5. /\ v.conn = z.conn /\ v.file = z.file /\ v.open = z.open /\ v.poller = z.poller
      /\ v.broken = w.broken \cup (IF t \in handled THEN {t} ELSE {})
  BY <1>1, <1>2, <1>3, <1>4 DEF Owned, GoodWorld, WorldType
<1>6. GoodWorld(v)
  BY EndSessionLaw DEF Owned
<1> HIDE DEF v
<1>7. HeldBy(v) = HeldBy(z)
  BY <1>5 DEF HeldBy
<1>8. Owned(v)
  BY <1>3, <1>5, <1>6, <1>7 DEF Owned
<1>9. y.conn = [[w.conn EXCEPT ![<<t, "local">>] = ClosedConn] EXCEPT ![<<t, "proxy">>] = ClosedConn]
  BY <1>1, <1>2
<1>10. /\ y.conn[<<t, "local">>] = ClosedConn /\ y.conn[<<t, "proxy">>] = ClosedConn
       /\ \A d \in Conn : d[1] # t => y.conn[d] = w.conn[d]
  BY <1>0, <1>9, <1>t
<1>11. x.conn[<<t, "proxy">>] = w.conn[<<t, "proxy">>]
  BY <1>0, <1>1, <1>t
<1>12. v.open = ((w.open \ {w.conn[<<t, "local">>].fd}) \ {w.conn[<<t, "proxy">>].fd}) \ {w.file[t]}
  BY <1>1, <1>2, <1>3, <1>5, <1>11
<1>13. v.file = [w.file EXCEPT ![t] = NoFd] /\ v.conn = y.conn
  BY <1>1, <1>2, <1>3, <1>5
<1> QED
  BY <1>0, <1>5, <1>8, <1>10, <1>12, <1>13 DEF v

-----------------------------------------------------------------------------
(* The effects of a callback.                                              *)

\* A step that leads to an owned world.
LEMMA BecomeOwned ==
  ASSUME NEW v, Owned(v), Become(v)
  PROVE  /\ World' = v /\ Owned(World)'
         /\ poller' = v.poller /\ conn' = v.conn /\ file' = v.file /\ open' = v.open
         /\ broken' = v.broken
<1>1. World' = v
  BY DEF Become, World, Owned, GoodWorld, WorldType
<1> QED
  BY <1>1 DEF Become, World

\* What an effect leaves in the next state, from world w.
Effect(w, t, kind, side) ==
  \/ /\ kind \in {"none", "keep", "sent"}
     /\ file' = w.file /\ open' = w.open /\ broken' = w.broken
     /\ \A d \in Conn : d # <<t, side>> => conn'[d] = w.conn[d]
     /\ \/ kind = "none" /\ conn' = w.conn
        \/ kind = "keep" /\ conn' = [w.conn EXCEPT ![<<t, side>>].wr = TRUE]
        \/ kind = "sent" /\ conn' = [w.conn EXCEPT ![<<t, side>>].wr = FALSE]
  \/ /\ kind = "spill"
     /\ conn' = w.conn /\ broken' = w.broken /\ w.open \subseteq open'
     /\ w.file[t] = NoFd
     /\ \E fd \in Fd : file' = [w.file EXCEPT ![t] = fd]
  \/ /\ kind = "end"
     /\ \A side2 \in Side : conn'[<<t, side2>>] = ClosedConn
     /\ \A d \in Conn : d[1] # t => conn'[d] = w.conn[d]
     /\ file' = [w.file EXCEPT ![t] = NoFd]
     /\ open' = ((w.open \ {w.conn[<<t, "local">>].fd}) \ {w.conn[<<t, "proxy">>].fd}) \ {w.file[t]}
     /\ broken' = w.broken \cup (IF t \in handled THEN {t} ELSE {})

\* An effect leads from an owned world to an owned world.
LEMMA HappensOwned ==
  ASSUME NEW w, Owned(w), NEW t \in Tunnel, NEW side \in Side, NEW kind,
         kind = "keep" => w.conn[<<t, side>>].fd # NoFd,
         kind = "spill" => w.open = open /\ w.file = file,
         Happens(w, t, <<kind, side>>)
  PROVE  Owned(World)' /\ Effect(w, t, kind, side)
<1> DEFINE c == <<t, side>>
           e == <<kind, side>>
<1>0. e[1] = kind /\ e[2] = side
  OBVIOUS
<1>c. c \in Conn
  BY DEF Conn
<1>t. w.conn \in [Conn -> ConnType]
  BY DEF Owned, GoodWorld, WorldType
<1>1. CASE kind = "none" /\ Become(w)
  BY <1>1, BecomeOwned DEF Effect
<1>2. ASSUME kind = "keep", NEW v \in {TryRegWriteEvent(w, c)}, Become(v)
      PROVE  Owned(World)' /\ Effect(w, t, kind, side)
  <2>1. Owned(v) /\ Same(v, w) /\ v.conn = [w.conn EXCEPT ![c].wr = TRUE]
    BY <1>c, <1>2, RegWriteOwned
  <2>2. \A d \in Conn : d # c => v.conn[d] = w.conn[d]
    BY <1>c, <1>t, <2>1
  <2> QED
    BY <1>2, <2>1, <2>2, BecomeOwned DEF Effect, Same
<1>3. ASSUME kind = "sent", NEW v \in {TryUnregWriteEvent(w, c)}, Become(v)
      PROVE  Owned(World)' /\ Effect(w, t, kind, side)
  <2>1. Owned(v) /\ Same(v, w) /\ v.conn = [w.conn EXCEPT ![c].wr = FALSE]
    BY <1>c, <1>3, UnregWriteOwned
  <2>2. \A d \in Conn : d # c => v.conn[d] = w.conn[d]
    BY <1>c, <1>t, <2>1
  <2> QED
    BY <1>3, <2>1, <2>2, BecomeOwned DEF Effect, Same
<1>4. ASSUME kind = "spill", NEW fd \in Spills(t),
             Become([w EXCEPT !.file[t] = fd, !.open = @ \cup {fd}])
      PROVE  Owned(World)' /\ Effect(w, t, kind, side)
  <2> DEFINE v == [w EXCEPT !.file[t] = fd, !.open = @ \cup {fd}]
  <2>1. fd \in Fd \ w.open /\ w.file[t] = NoFd
    BY <1>4 DEF Spills
  <2>2. Owned(v)
    BY <2>1, FileOwned
  <2>3. v.conn = w.conn /\ v.broken = w.broken /\ v.open = w.open \cup {fd}
        /\ v.file = [w.file EXCEPT ![t] = fd]
    BY DEF Owned, GoodWorld, WorldType
  <2>4. Become(v)
    BY <1>4
  <2> HIDE DEF v
  <2> QED
    BY <1>4, <2>1, <2>2, <2>3, <2>4, BecomeOwned DEF Effect
<1>5. ASSUME kind = "end", NEW v \in {EndSession(w, t)}, Become(v)
      PROVE  Owned(World)' /\ Effect(w, t, kind, side)
  <2>1. Become(EndSession(w, t)) /\ Owned(EndSession(w, t))
    BY <1>5, EndSessionOwned
  <2>2. /\ conn' = EndSession(w, t).conn /\ file' = EndSession(w, t).file
        /\ open' = EndSession(w, t).open /\ broken' = EndSession(w, t).broken /\ Owned(World)'
    BY <2>1, BecomeOwned
  <2> QED
    BY <1>5, <2>2, EndSessionOwned DEF Effect
<1> QED
  BY <1>0, <1>1, <1>2, <1>3, <1>4, <1>5 DEF Happens

-----------------------------------------------------------------------------
(* The inductive invariant.                                                *)

\* A tunnel that no client uses, and one that has nothing.
Idle(t)  == t \in Range(free) \cup broken \/ t \notin alive
Blank(t) == file[t] = NoFd /\ \A side \in Side : conn[<<t, side>>] = ClosedConn

Distinct(s) == \A i, j \in 1 .. Len(s) : s[i] = s[j] => i = j

PoolOK ==
  /\ Distinct(free) /\ Len(free) <= CACHE_TUN_SIZE
  /\ Range(free) \cap broken = {}
  /\ Range(free) \cup broken \cup handled \subseteq alive
  /\ \A t \in Tunnel : Idle(t) => Blank(t)

\* What select() reported is still open until the listener, the lowest of the
\* descriptors, has accepted; what is opened after that was not reported.
PassOK ==
  /\ at \in {"off", "test", "select"} => fresh = {}
  /\ at = "accept" \/ (at = "dispatch" /\ ListenFd \in reads) => reads \cup writes \subseteq open
  /\ \A c \in fresh : conn[c].fd \notin reads \cup writes

Inv == Owned(World) /\ RestOK /\ PoolOK /\ PassOK

\* The first of distinct tunnels is taken.
LEMMA TakeFirst ==
  ASSUME NEW s \in Seq(Tunnel), s # <<>>, Distinct(s)
  PROVE  /\ Distinct(Tail(s)) /\ Len(Tail(s)) = Len(s) - 1 /\ Len(Tail(s)) \in Nat
         /\ Head(s) \in Range(s) /\ Head(s) \in Tunnel
         /\ Range(Tail(s)) = Range(s) \ {Head(s)}
<1>1. /\ Len(s) \in Nat /\ Len(s) > 0 /\ Len(Tail(s)) = Len(s) - 1
      /\ Tail(s) \in Seq(Tunnel) /\ Head(s) = s[1]
      /\ \A i \in 1 .. Len(s) - 1 : Tail(s)[i] = s[i + 1]
      /\ DOMAIN s = 1 .. Len(s) /\ DOMAIN Tail(s) = 1 .. Len(s) - 1
  BY EmptySeq, HeadTailProperties, LenProperties
<1>2. Distinct(Tail(s))
  BY <1>1 DEF Distinct
<1>3. Head(s) \in Range(s) /\ s[1] \in Tunnel
  BY <1>1 DEF Range
<1>4. Range(Tail(s)) \subseteq Range(s) \ {Head(s)}
  <2> SUFFICES ASSUME NEW i \in 1 .. Len(s) - 1 PROVE Tail(s)[i] \in Range(s) \ {Head(s)}
    BY <1>1 DEF Range
  <2>1. i + 1 \in 1 .. Len(s) /\ i + 1 # 1 /\ 1 \in 1 .. Len(s)
    BY <1>1
  <2> QED
    BY <1>1, <2>1 DEF Range, Distinct
<1>5. Range(s) \ {Head(s)} \subseteq Range(Tail(s))
  <2> SUFFICES ASSUME NEW i \in 1 .. Len(s), s[i] # s[1] PROVE s[i] \in Range(Tail(s))
    BY <1>1 DEF Range
  <2>1. i - 1 \in 1 .. Len(s) - 1 /\ (i - 1) + 1 = i
    BY <1>1
  <2> QED
    BY <1>1, <2>1 DEF Range
<1> QED
  BY <1>1, <1>2, <1>3, <1>4, <1>5

\* A tunnel that is not among them is appended.
LEMMA PutLast ==
  ASSUME NEW s \in Seq(Tunnel), NEW t \in Tunnel, Distinct(s), t \notin Range(s)
  PROVE  /\ Distinct(Append(s, t)) /\ Len(Append(s, t)) = Len(s) + 1 /\ Len(s) \in Nat
         /\ Range(Append(s, t)) = Range(s) \cup {t}
<1> DEFINE a == Append(s, t)
<1>1. /\ Len(s) \in Nat /\ Len(a) = Len(s) + 1 /\ a[Len(s) + 1] = t
      /\ \A i \in 1 .. Len(s) : a[i] = s[i]
      /\ DOMAIN s = 1 .. Len(s) /\ DOMAIN a = 1 .. Len(s) + 1
  BY AppendProperties, LenProperties
<1> HIDE DEF a
<1>2. \A i \in 1 .. Len(s) : a[i] # t
  BY <1>1 DEF Range
<1>3. \A i \in 1 .. Len(s) + 1 : i \in 1 .. Len(s) \/ i = Len(s) + 1
  BY <1>1
<1>4. Distinct(a)
  BY <1>1, <1>2, <1>3 DEF Distinct
<1>5. Range(a) = Range(s) \cup {t}
  <2>1. \A i \in 1 .. Len(s) : i \in 1 .. Len(s) + 1
    BY <1>1
  <2>2. Len(s) + 1 \in 1 .. Len(s) + 1
    BY <1>1
  <2> QED
    BY <1>1, <1>3, <2>1, <2>2 DEF Range
<1> QED
  BY <1>1, <1>4, <1>5 DEF a

-----------------------------------------------------------------------------
(* Each step keeps it.                                                     *)

\* The initial states.
LEMMA InitInv == ASSUME Init PROVE Inv
<1>1. SocketsOK /\ RestOK
  BY InitOK
<1>2. GoodWorld(World) /\ World.conn = conn /\ World.open = open /\ World.file = file
      /\ World.poller = poller
  BY <1>1, WorldTypes DEF SocketsOK
<1>3. HeldBy(World) \in [Owner -> {NoFd}]
  BY <1>2, OwnerLaw DEF Init, ClosedConn, HeldBy
<1>4. OneHolder(HeldBy(World), World.open)
  BY <1>2, <1>3 DEF Init, OneHolder
<1>5. ListenFd \in Fd /\ ~ (SetSize <= ListenFd)
  BY ClientAssumption, PollerAssumption DEF ListenFd, Fd
<1>6. /\ poller.readers = [[fd \in Fd |-> Nobody] EXCEPT ![ListenFd] = Listener]
      /\ poller.writers = [fd \in Fd |-> Nobody]
  BY <1>5 DEF Init, RegisterForRead, NewPoller
<1>7. \A c \in Conn : conn[c].fd = NoFd
  BY DEF Init, ClosedConn
<1>8. Watched(poller, conn)
  BY <1>5, <1>6, <1>7, OwnerLaw DEF Watched
<1>9. PoolOK
  <2>1. Len(free) = 0 /\ Range(free) = {} /\ CACHE_TUN_SIZE >= 0
    BY ClientAssumption DEF Init, Range
  <2>2. \A t \in Tunnel : Blank(t)
    BY DEF Init, Blank, Conn
  <2> QED
    BY <2>1, <2>2 DEF Init, PoolOK, Distinct
<1>10. PassOK
  BY DEF Init, PassOK
<1> QED
  BY <1>1, <1>2, <1>4, <1>8, <1>9, <1>10 DEF Inv, Owned

\* A step that leaves the connections and the pool alone.
LEMMA QuietStep ==
  ASSUME Inv, UNCHANGED <<sockets, pool>>
  PROVE  Owned(World)' /\ PoolOK'
<1>1. World' = World
  BY DEF sockets, pool, World
<1>2. Owned(World)'
  BY <1>1 DEF Inv
<1>3. PoolOK'
  BY DEF Inv, PoolOK, Idle, Blank, sockets, pool
<1> QED
  BY <1>2, <1>3

\* What an owned world says of the variables.
LEMMA OwnedTypes ==
  ASSUME Owned(World)
  PROVE  /\ SocketsOK
         /\ World.poller = poller /\ World.conn = conn /\ World.file = file
         /\ World.open = open /\ World.broken = broken
         /\ poller \in PollerType /\ conn \in [Conn -> ConnType]
         /\ file \in [Tunnel -> Fd \cup {NoFd}] /\ open \subseteq Fd /\ broken \subseteq Tunnel
         /\ Watched(poller, conn) /\ OneHolder(HeldBy(World), open)
<1>1. SocketsOK
  BY DEF Owned, SocketsOK
<1> QED
  BY <1>1, WorldTypes DEF Owned

\* What is watched is open.
LEMMA WatchedIsOpen ==
  ASSUME Owned(World)
  PROVE  poller.reads \subseteq open /\ poller.writes \subseteq open
<1>1. /\ poller \in PollerType /\ Watched(poller, conn) /\ OneHolder(HeldBy(World), open)
      /\ World.conn = conn /\ World.open = open /\ Exact(poller)
  BY OwnedTypes, WorldTypes
<1>2. ASSUME NEW fd \in Fd, NEW c \in Conn, poller.readers[fd] = c \/ poller.writers[fd] = c
      PROVE  fd \in open
  <2>1. conn[c].fd = fd
    BY <1>1, <1>2 DEF Watched
  <2>2. fd # NoFd
    BY DEF Fd, NoFd
  <2> QED
    BY <1>1, <2>1, <2>2, OwnFacts
<1>3. ListenFd \in open
  BY <1>1 DEF OneHolder
<1>4. \A fd \in Fd : /\ poller.readers[fd] \in Conn \cup {Listener, Nobody}
                     /\ poller.writers[fd] \in Conn \cup {Listener, Nobody}
  BY <1>1 DEF PollerType
<1>5. \A fd \in poller.reads : fd \in Fd /\ poller.readers[fd] # Nobody
  BY <1>1 DEF Exact
<1>6. \A fd \in poller.writes : fd \in Fd /\ poller.writers[fd] # Nobody
  BY <1>1 DEF Exact
<1>7. \A fd \in Fd : (poller.readers[fd] = Listener => fd = ListenFd) /\ poller.writers[fd] # Listener
  BY <1>1 DEF Watched
<1> QED
  BY <1>2, <1>3, <1>4, <1>5, <1>6, <1>7

\* Steps that leave the connections and the pool alone keep the pass sound.
LEMMA QuietPass ==
  ASSUME Inv, \/ RunLoop \/ TestLoop \/ ExitLoop \/ Reclaimed \/ EndPass \/ Select
              \/ StopAccepting \/ ClientArrives \/ Terminated \/ UNCHANGED vars
              \/ \E fd \in Fd : TriggerNobody(fd) \/ StartAccepting(fd)
  PROVE  UNCHANGED <<sockets, pool>> /\ PassOK'
<1>1. CASE RunLoop \/ TestLoop \/ ExitLoop \/ Reclaimed
  BY <1>1 DEF RunLoop, TestLoop, ExitLoop, Reclaimed, Inv, PassOK, sockets, pass
<1>2. CASE EndPass
  BY <1>2 DEF EndPass, Inv, PassOK, sockets
<1>3. CASE Select
  <2>1. reads' \subseteq poller.reads /\ writes' \subseteq poller.writes
    BY <1>3 DEF Select
  <2>2. reads' \cup writes' \subseteq open
    BY <2>1, WatchedIsOpen DEF Inv
  <2>3. fresh = {} /\ fresh' = fresh /\ open' = open /\ at' \in {"reclaim", "dispatch"}
        /\ UNCHANGED <<sockets, pool>>
    BY <1>3 DEF Select, Inv, PassOK, sockets
  <2> QED
    BY <2>2, <2>3 DEF PassOK
<1>4. CASE StopAccepting \/ ClientArrives \/ Terminated \/ UNCHANGED vars
  BY <1>4 DEF StopAccepting, ClientArrives, Terminated, vars, Inv, PassOK, sockets, pass
<1>5. ASSUME NEW fd \in Fd, TriggerNobody(fd)
      PROVE  UNCHANGED <<sockets, pool>> /\ PassOK'
  <2>1. reads' \subseteq reads /\ writes' \subseteq writes /\ UNCHANGED <<sockets, pool, at, fresh>>
    BY <1>5 DEF TriggerNobody, DueRead, DueWrite
  <2> QED
    BY <2>1 DEF Inv, PassOK, sockets
<1>6. ASSUME NEW fd \in Fd, StartAccepting(fd)
      PROVE  UNCHANGED <<sockets, pool>> /\ PassOK'
  <2>1. /\ reads' \subseteq reads /\ writes' \subseteq writes /\ UNCHANGED <<sockets, pool, fresh>>
        /\ at = "dispatch" /\ at' = "accept" /\ fd \in reads /\ poller.readers[fd] = Listener
    BY <1>6 DEF StartAccepting, DueRead, Due
  <2>2. fd = ListenFd
    BY <2>1, OwnedTypes DEF Inv, Watched
  <2> QED
    BY <2>1, <2>2 DEF Inv, PassOK, sockets
<1> QED
  BY <1>1, <1>2, <1>3, <1>4, <1>5, <1>6

\* A broken tunnel becomes free, or is deleted.
LEMMA ReclaimInv ==
  ASSUME Inv, NEW t \in Tunnel, ReclaimTunnel(t)
  PROVE  Owned(World)' /\ PoolOK' /\ PassOK'
<1>1. /\ poller' = poller /\ conn' = conn /\ file' = file /\ open' = open
      /\ t \in broken /\ broken' = broken \ {t} /\ UNCHANGED <<at, reads, writes, fresh>>
      /\ \/ Len(free) >= CACHE_TUN_SIZE /\ alive' = alive \ {t} /\ handled' = handled \ {t} /\ free' = free
         \/ Len(free) < CACHE_TUN_SIZE /\ free' = Append(free, t) /\ alive' = alive /\ handled' = handled
  <2>1. Len(free) \in Nat /\ CACHE_TUN_SIZE \in Nat
    BY LenProperties, ClientAssumption DEF Inv, RestOK
  <2> QED
    BY <2>1 DEF ReclaimTunnel, sockets, pass
<1>2. Owned(World)'
  <2>1. SocketsOK'
    BY SocketsNext, OwnedTypes DEF Inv, Next, MainThread
  <2>2. /\ World'.conn = World.conn /\ World'.file = World.file /\ World'.open = World.open
        /\ World'.poller = World.poller
    BY <1>1 DEF World
  <2>3. HeldBy(World)' = HeldBy(World)
    BY <2>2 DEF HeldBy
  <2> QED
    BY <2>1, <2>2, <2>3 DEF Inv, Owned, SocketsOK
<1>3. PassOK'
  BY <1>1 DEF Inv, PassOK
<1>4. PoolOK /\ free \in Seq(Tunnel) /\ t \notin Range(free) /\ t \in alive
  BY <1>1 DEF Inv, RestOK, PoolOK
<1>5. \A u \in Tunnel : Blank(u)' <=> Blank(u)
  BY <1>1 DEF Blank
<1>6. CASE Len(free) >= CACHE_TUN_SIZE /\ alive' = alive \ {t} /\ handled' = handled \ {t} /\ free' = free
  <2>1. \A u \in Tunnel : Idle(u)' => Idle(u)
    BY <1>1, <1>6 DEF Idle
  <2> QED
    <3>1. \A u \in Tunnel : Idle(u)' => Blank(u)'
      BY <1>4, <1>5, <2>1 DEF PoolOK
    <3>2. /\ Range(free') \cap broken' = {}
          /\ Range(free') \cup broken' \cup handled' \subseteq alive'
      BY <1>1, <1>4, <1>6 DEF PoolOK
    <3>3. Distinct(free') /\ Len(free') <= CACHE_TUN_SIZE
      BY <1>4, <1>6 DEF PoolOK
    <3> QED
      BY <1>2, <1>3, <3>1, <3>2, <3>3 DEF PoolOK
<1>7. CASE Len(free) < CACHE_TUN_SIZE /\ free' = Append(free, t) /\ alive' = alive /\ handled' = handled
  <2>1. /\ Distinct(free') /\ Range(free') = Range(free) \cup {t} /\ Len(free') = Len(free) + 1
        /\ Len(free) \in Nat
    BY <1>4, <1>7, PutLast DEF PoolOK
  <2>2. Len(free') <= CACHE_TUN_SIZE
    BY <1>7, <2>1, ClientAssumption
  <2>3. \A u \in Tunnel : Idle(u)' => Idle(u)
    BY <1>1, <1>7, <2>1 DEF Idle
  <2> QED
    <3>1. \A u \in Tunnel : Idle(u)' => Blank(u)'
      BY <1>4, <1>5, <2>3 DEF PoolOK
    <3>2. /\ Range(free') \cap broken' = {}
          /\ Range(free') \cup broken' \cup handled' \subseteq alive'
      BY <1>1, <1>4, <1>7, <2>1 DEF PoolOK
    <3> QED
      BY <1>2, <1>3, <2>1, <2>2, <3>1, <3>2 DEF PoolOK
<1> QED
  BY <1>1, <1>2, <1>3, <1>6, <1>7

\* What the event of a connection may rely on: its tunnel is in use, and the
\* listener is done with.
LEMMA EventFacts ==
  ASSUME Inv, NEW fd \in Fd, NEW c \in Conn,
         \/ DueRead(fd) /\ poller.readers[fd] = c
         \/ DueWrite(fd) /\ poller.writers[fd] = c
  PROVE  /\ conn[c].fd = fd /\ ~ Idle(c[1]) /\ ListenFd \notin reads /\ at = "dispatch"
         /\ reads' \subseteq reads /\ writes' \subseteq writes
         /\ poller.readers[fd] = c => conn[c].rd
         /\ poller.writers[fd] = c => conn[c].wr
<1>1. Watched(poller, conn) /\ OneHolder(HeldBy(World), open) /\ World.conn = conn
  BY OwnedTypes DEF Inv
<1>2. /\ conn[c].fd = fd
      /\ poller.readers[fd] = c => conn[c].rd
      /\ poller.writers[fd] = c => conn[c].wr
      /\ conn[c].rd \/ conn[c].wr
  BY <1>1 DEF Watched
<1>3. fd # NoFd
  BY DEF Fd, NoFd
<1>4. fd \notin {LogFd, ListenFd}
  BY <1>1, <1>2, <1>3, OwnFacts DEF Inv
<1>5. c[1] \in Tunnel /\ c[2] \in Side /\ c = <<c[1], c[2]>>
  BY DEF Conn
<1>6. ~ Idle(c[1])
  <2>1. conn[c] # ClosedConn
    BY <1>2 DEF ClosedConn
  <2> QED
    BY <1>5, <2>1 DEF Inv, PoolOK, Blank
<1>7. ListenFd \notin reads
  <2>1. \A other \in reads \cup writes : fd <= other
    BY DEF DueRead, DueWrite, Due
  <2>2. ~ (fd <= ListenFd)
    BY <1>4 DEF Fd, LogFd, ListenFd
  <2> QED
    BY <2>1, <2>2
<1> QED
  BY <1>2, <1>6, <1>7 DEF DueRead, DueWrite, Due

\* An effect on a tunnel in use keeps the pool and the pass sound.
LEMMA EffectInv ==
  ASSUME Inv, NEW t \in Tunnel, ~ Idle(t), NEW side \in Side, NEW kind, NEW w,
         Owned(w), Owned(World)', Effect(w, t, kind, side),
         \A d \in Conn : (d[1] # t => w.conn[d] = conn[d]) /\ w.conn[d].fd = conn[d].fd,
         w.file = file, w.broken = broken,
         UNCHANGED <<alive, handled, free, at, fresh>>, at = "dispatch", ListenFd \notin reads,
         reads' \subseteq reads, writes' \subseteq writes
  PROVE  PoolOK' /\ PassOK'
<1>1. conn \in [Conn -> ConnType] /\ file \in [Tunnel -> Fd \cup {NoFd}]
      /\ w.conn \in [Conn -> ConnType]
  BY OwnedTypes DEF Inv, Owned, GoodWorld, WorldType
<1>2. \A d \in Conn : d[1] # t => conn'[d] = conn[d]
  BY DEF Effect
<1>3. \A u \in Tunnel : u # t => file'[u] = file[u]
  BY <1>1 DEF Effect
<1>4. \/ broken' = broken
      \/ t \in handled /\ broken' = broken \cup {t} /\ kind = "end"
  BY DEF Effect
<1>5. \A u \in Tunnel : u # t => (Blank(u) => Blank(u)')
  <2> TAKE u \in Tunnel
  <2>1. \A s \in Side : <<u, s>> \in Conn /\ <<u, s>>[1] = u
    BY DEF Conn
  <2> QED
    BY <1>2, <1>3, <2>1 DEF Blank
<1>6. kind = "end" => Blank(t)'
  BY <1>1 DEF Effect, Blank
<1>7. \A u \in Tunnel : Idle(u)' => Idle(u) \/ (u = t /\ kind = "end")
  BY <1>4 DEF Idle
<1>8. PoolOK'
  <2>1. \A u \in Tunnel : Idle(u)' => Blank(u)'
    BY <1>5, <1>6, <1>7 DEF Inv, PoolOK
  <2>2. t \in alive /\ t \notin Range(free)
    BY DEF Idle
  <2> QED
    BY <1>4, <2>1, <2>2 DEF Inv, PoolOK
<1>9. \A d \in Conn : conn'[d].fd \in {conn[d].fd, NoFd}
  <2> TAKE d \in Conn
  <2>1. CASE kind = "end"
    <3>1. CASE d[1] = t
      <4>1. d[2] \in Side /\ d = <<t, d[2]>>
        BY <3>1 DEF Conn
      <4>2. conn'[d] = ClosedConn
        BY <2>1, <4>1 DEF Effect
      <4> QED
        BY <4>2 DEF ClosedConn
    <3> QED
      BY <1>2, <3>1
  <2>2. CASE kind # "end"
    <3>1. \/ conn' = w.conn
          \/ conn' = [w.conn EXCEPT ![<<t, side>>].wr = TRUE]
          \/ conn' = [w.conn EXCEPT ![<<t, side>>].wr = FALSE]
      BY <2>2 DEF Effect
    <3>2. conn'[d].fd = w.conn[d].fd
      <4>1. w.conn[d] \in ConnType /\ <<t, side>> \in Conn
        BY <1>1 DEF Conn
      <4>2. CASE d = <<t, side>>
        <5>1. \/ conn' = w.conn
              \/ conn' = [w.conn EXCEPT ![d].wr = TRUE]
              \/ conn' = [w.conn EXCEPT ![d].wr = FALSE]
          BY <3>1, <4>2
        <5>2. conn' = w.conn \/ \E wr : conn'[d] = [w.conn[d] EXCEPT !.wr = wr]
          BY <1>1, <5>1, ZenonT(40)
        <5> QED
          BY <4>1, <5>2 DEF ConnType
      <4>3. CASE d # <<t, side>>
        BY <1>1, <3>1, <4>3
      <4> QED
        BY <4>2, <4>3
    <3> QED
      BY <3>2
  <2> QED
    BY <2>1, <2>2
<1>10. NoFd \notin reads \cup writes
  BY DEF Inv, RestOK, Fd, NoFd
<1>11. PassOK'
  BY <1>9, <1>10 DEF Inv, PassOK, RestOK
<1> QED
  BY <1>8, <1>11

\* What an event leaves alone besides.
EventRest ==
  /\ UNCHANGED <<alive, handled, free, at, fresh>>
  /\ at = "dispatch" /\ ListenFd \notin reads /\ reads' \subseteq reads /\ writes' \subseteq writes

\* A read event has one of its effects on a tunnel in use whose connection is
\* watched for reading.
LEMMA ReadableLaw ==
  ASSUME Inv, NEW fd \in Fd, Readable(fd)
  PROVE  \E t \in Tunnel, side \in Side, to \in Side : \E kind :
           /\ conn[<<t, side>>].rd /\ ~ Idle(t) /\ EventRest
           /\ <<kind, to>> \in InputEffects(Status(t), side)
           /\ Owned(World)' /\ Effect(World, t, kind, to)
<1> DEFINE c == poller.readers[fd]
<1>1. c \in Conn /\ c[1] \in Tunnel /\ c[2] \in Side /\ c = <<c[1], c[2]>>
  BY DEF Readable, Conn
<1>2. DueRead(fd)
  BY DEF Readable
<1>3. conn[c].rd /\ ~ Idle(c[1]) /\ EventRest
  <2>1. UNCHANGED <<alive, handled, free, at, fresh>>
    BY DEF Readable, OfConnection
  <2> QED
    BY <1>1, <1>2, <2>1, EventFacts DEF EventRest
<1>4. PICK effect \in InputEffects(Status(c[1]), c[2]) : Happens(World, c[1], effect)
  BY DEF Readable
<1> DEFINE t == c[1]
           side == c[2]
<1>5. t \in Tunnel /\ side \in Side /\ effect \in InputEffects(Status(t), side)
  BY <1>1, <1>4
<1>6. conn[<<t, side>>].rd
  BY <1>1, <1>3
<1>7. ~ Idle(t) /\ Happens(World, t, effect)
  BY <1>3, <1>4
<1> HIDE DEF c, t, side
<1>8. /\ effect = <<effect[1], effect[2]>> /\ effect[2] \in Side
      /\ effect[1] = "keep" => conn[<<t, effect[2]>>].fd \in Fd
  BY <1>5, EffectsLaw, OwnedTypes DEF Inv
<1> DEFINE kind == effect[1]
           to == effect[2]
<1>9. /\ to \in Side /\ Happens(World, t, <<kind, to>>)
      /\ kind = "keep" => World.conn[<<t, to>>].fd # NoFd
      /\ <<kind, to>> \in InputEffects(Status(t), side)
  BY <1>5, <1>7, <1>8, OwnedTypes DEF Inv, Fd, NoFd
<1> HIDE DEF kind, to
<1>10. Owned(World)' /\ Effect(World, t, kind, to)
  BY <1>5, <1>9, HappensOwned, OwnedTypes DEF Inv
<1> QED
  BY <1>3, <1>5, <1>6, <1>7, <1>9, <1>10

\* A connect() succeeds.
LEMMA ConnectedOwned ==
  ASSUME Owned(World), NEW c \in Conn, conn[c].fd \in Fd
  PROVE  /\ Owned(ConnectedConn(c)) /\ Same(ConnectedConn(c), World)
         /\ ConnectedConn(c).conn
              = [conn EXCEPT ![c] = [fd |-> conn[c].fd, status |-> "Connected", rd |-> TRUE, wr |-> FALSE]]
<1> DEFINE x == TryUnregWriteEvent(World, c)
           y == TryRegReadEvent(x, c)
           z == ConnectedConn(c)
<1>1. conn \in [Conn -> ConnType] /\ World.conn = conn /\ conn[c].fd # NoFd
  BY OwnedTypes DEF Fd, NoFd
<1>2. Owned(x) /\ Same(x, World) /\ x.conn = [conn EXCEPT ![c].wr = FALSE]
  BY <1>1, UnregWriteOwned
<1>3. x.conn[c].fd = conn[c].fd
  BY <1>1, <1>2 DEF ConnType
<1> HIDE DEF x
<1>4. Owned(y) /\ Same(y, x) /\ y.conn = [x.conn EXCEPT ![c].rd = TRUE]
  BY <1>1, <1>2, <1>3, RegReadOwned, ZenonT(40)
<1>5. y.conn[c].fd = conn[c].fd
  BY <1>1, <1>2, <1>4 DEF ConnType
<1>6. z = Established(y, c)
  BY DEF ConnectedConn, x, Established
<1> HIDE DEF y, z
<1>7. Owned(z) /\ Same(z, y) /\ z.conn = [y.conn EXCEPT ![c].status = "Connected"]
  BY <1>1, <1>4, <1>5, <1>6, StatusOwned, ZenonT(40)
<1>8. z.conn = [conn EXCEPT ![c] = [fd |-> conn[c].fd, status |-> "Connected", rd |-> TRUE, wr |-> FALSE]]
  <2>1. z.conn = [[[conn EXCEPT ![c].wr = FALSE] EXCEPT ![c].rd = TRUE] EXCEPT ![c].status = "Connected"]
    BY <1>2, <1>4, <1>7
  <2>2. z.conn[c] = [fd |-> conn[c].fd, status |-> "Connected", rd |-> TRUE, wr |-> FALSE]
    <3>t. /\ x.conn \in [Conn -> ConnType] /\ y.conn \in [Conn -> ConnType]
          /\ z.conn \in [Conn -> ConnType]
      BY <1>2, <1>4, <1>7 DEF Owned, GoodWorld, WorldType
    <3>1. x.conn[c].fd = conn[c].fd /\ x.conn[c].wr = FALSE
      BY <1>1, <1>2 DEF ConnType
    <3>2. y.conn[c].fd = conn[c].fd /\ y.conn[c].wr = FALSE /\ y.conn[c].rd = TRUE
      BY <1>4, <3>1, <3>t DEF ConnType
    <3>3. /\ z.conn[c].fd = conn[c].fd /\ z.conn[c].wr = FALSE /\ z.conn[c].rd = TRUE
          /\ z.conn[c].status = "Connected"
      BY <1>7, <3>2, <3>t DEF ConnType
    <3> QED
      BY <3>3, <3>t DEF ConnType
  <2>3. \A d \in Conn : d # c => z.conn[d] = conn[d]
    BY <1>1, <2>1
  <2>4. z.conn \in [Conn -> ConnType]
    BY <1>7 DEF Owned, GoodWorld, WorldType
  <2> QED
    BY <1>1, <2>2, <2>3, <2>4
<1> QED
  BY <1>2, <1>4, <1>7, <1>8 DEF Same, z

\* A write event has one of its effects on a tunnel in use, perhaps once a
\* connect() has succeeded.
LEMMA WritableLaw ==
  ASSUME Inv, NEW fd \in Fd, Writable(fd)
  PROVE  \E t \in Tunnel, side \in Side : \E kind, w :
           /\ conn[<<t, side>>].wr /\ ~ Idle(t) /\ EventRest
           /\ Owned(w) /\ Same(w, World) /\ Owned(World)' /\ Effect(w, t, kind, side)
           /\ \/ w = World /\ <<kind, side>> \in OutputEffects(Status(t), side)
              \/ /\ conn[<<t, side>>].status = "Connecting" /\ <<kind, side>> \in SendEffects(side)
                 /\ w.conn = [conn EXCEPT ![<<t, side>>] =
                                [fd |-> conn[<<t, side>>].fd, status |-> "Connected", rd |-> TRUE, wr |-> FALSE]]
<1> DEFINE c == poller.writers[fd]
<1>1. c \in Conn /\ c[1] \in Tunnel /\ c[2] \in Side /\ c = <<c[1], c[2]>>
  BY DEF Writable, Conn
<1>2. DueWrite(fd)
  BY DEF Writable
<1>3. conn[c].wr /\ conn[c].fd = fd /\ ~ Idle(c[1]) /\ EventRest
  <2>1. UNCHANGED <<alive, handled, free, at, fresh>>
    BY DEF Writable, OfConnection
  <2> QED
    BY <1>1, <1>2, <2>1, EventFacts DEF EventRest
<1>4. \/ \E effect \in OutputEffects(Status(c[1]), c[2]) : Happens(World, c[1], effect)
      \/ /\ conn[c].status = "Connecting"
         /\ \E effect \in SendEffects(c[2]) : Happens(ConnectedConn(c), c[1], effect)
  BY DEF Writable
<1> DEFINE t == c[1]
           side == c[2]
<1>5. t \in Tunnel /\ side \in Side /\ c = <<t, side>> /\ c \in Conn
  BY <1>1
<1>6. /\ conn[<<t, side>>].wr /\ conn[<<t, side>>].fd = fd /\ ~ Idle(t) /\ EventRest
      /\ <<t, side>> \in Conn
  BY <1>1, <1>3
<1>7. \/ \E effect \in OutputEffects(Status(t), side) : Happens(World, t, effect)
      \/ /\ conn[<<t, side>>].status = "Connecting"
         /\ \E effect \in SendEffects(side) : Happens(ConnectedConn(<<t, side>>), t, effect)
  BY <1>1, <1>4
<1> HIDE DEF c, t, side
<1>f. fd # NoFd
  BY DEF Fd, NoFd
<1>8. ASSUME NEW effect \in OutputEffects(Status(t), side), Happens(World, t, effect)
      PROVE  \E kind : /\ <<kind, side>> \in OutputEffects(Status(t), side)
                       /\ Owned(World)' /\ Effect(World, t, kind, side)
  <2>1. PICK kind \in {"none", "sent", "end"} : effect = <<kind, side>>
    BY DEF OutputEffects
  <2>2. Owned(World)' /\ Effect(World, t, kind, side)
    BY <1>5, <1>8, <2>1, HappensOwned DEF Inv
  <2> QED
    BY <2>1, <2>2
<1>9. ASSUME NEW effect \in SendEffects(side), Happens(ConnectedConn(<<t, side>>), t, effect)
      PROVE  \E kind, w :
               /\ <<kind, side>> \in SendEffects(side)
               /\ Owned(w) /\ Same(w, World) /\ Owned(World)' /\ Effect(w, t, kind, side)
               /\ w.conn = [conn EXCEPT ![<<t, side>>] =
                              [fd |-> conn[<<t, side>>].fd, status |-> "Connected", rd |-> TRUE, wr |-> FALSE]]
  <2> DEFINE w == ConnectedConn(<<t, side>>)
  <2>1. PICK kind \in {"none", "keep", "sent", "end"} : effect = <<kind, side>>
    BY DEF SendEffects
  <2>2. /\ Owned(w) /\ Same(w, World)
        /\ w.conn = [conn EXCEPT ![<<t, side>>] =
                       [fd |-> conn[<<t, side>>].fd, status |-> "Connected", rd |-> TRUE, wr |-> FALSE]]
    BY <1>6, ConnectedOwned DEF Inv
  <2>3. Happens(w, t, <<kind, side>>)
    BY <1>9, <2>1
  <2> HIDE DEF w
  <2>4. w.conn[<<t, side>>].fd # NoFd
    BY <1>6, <1>f, <2>2, OwnedTypes DEF Inv
  <2>5. Owned(World)' /\ Effect(w, t, kind, side)
    BY <1>5, <2>1, <2>2, <2>3, <2>4, HappensOwned
  <2> QED
    BY <2>1, <2>2, <2>5
<1>10. Same(World, World) /\ Owned(World)
  BY DEF Same, Inv
<1>11. CASE \E effect \in OutputEffects(Status(t), side) : Happens(World, t, effect)
  <2>1. PICK kind : /\ <<kind, side>> \in OutputEffects(Status(t), side)
                    /\ Owned(World)' /\ Effect(World, t, kind, side)
    BY <1>8, <1>11
  <2> QED
    BY <1>5, <1>6, <1>10, <2>1
<1>12. CASE /\ conn[<<t, side>>].status = "Connecting"
            /\ \E effect \in SendEffects(side) : Happens(ConnectedConn(<<t, side>>), t, effect)
  BY <1>5, <1>6, <1>9, <1>12
<1> QED
  BY <1>7, <1>11, <1>12

\* Events keep the invariant.
LEMMA EventInv ==
  ASSUME Inv, NEW fd \in Fd, Readable(fd) \/ Writable(fd)
  PROVE  Owned(World)' /\ PoolOK' /\ PassOK'
<1>t. conn \in [Conn -> ConnType] /\ World.conn = conn /\ World.file = file /\ World.broken = broken
  BY OwnedTypes DEF Inv
<1>1. CASE Readable(fd)
  <2>0. PICK t \in Tunnel, side \in Side, to \in Side : \E kind :
          /\ conn[<<t, side>>].rd /\ ~ Idle(t) /\ EventRest
          /\ <<kind, to>> \in InputEffects(Status(t), side)
          /\ Owned(World)' /\ Effect(World, t, kind, to)
    BY <1>1, ReadableLaw
  <2>1. PICK kind : ~ Idle(t) /\ EventRest /\ Owned(World)' /\ Effect(World, t, kind, to)
    BY <2>0
  <2>2. PoolOK' /\ PassOK'
    BY <1>t, <2>1, EffectInv DEF EventRest, Inv
  <2> QED
    BY <2>1, <2>2
<1>2. CASE Writable(fd)
  <2>0. PICK t \in Tunnel, side \in Side : \E kind, w :
           /\ conn[<<t, side>>].wr /\ ~ Idle(t) /\ EventRest
           /\ Owned(w) /\ Same(w, World) /\ Owned(World)' /\ Effect(w, t, kind, side)
           /\ \/ w = World /\ <<kind, side>> \in OutputEffects(Status(t), side)
              \/ /\ conn[<<t, side>>].status = "Connecting" /\ <<kind, side>> \in SendEffects(side)
                 /\ w.conn = [conn EXCEPT ![<<t, side>>] =
                                [fd |-> conn[<<t, side>>].fd, status |-> "Connected", rd |-> TRUE, wr |-> FALSE]]
    BY <1>2, WritableLaw
  <2>1. PICK kind, w :
           /\ ~ Idle(t) /\ EventRest
           /\ Owned(w) /\ Same(w, World) /\ Owned(World)' /\ Effect(w, t, kind, side)
           /\ \/ w = World
              \/ w.conn = [conn EXCEPT ![<<t, side>>] =
                             [fd |-> conn[<<t, side>>].fd, status |-> "Connected", rd |-> TRUE, wr |-> FALSE]]
    BY <2>0
  <2>2. \A d \in Conn : (d[1] # t => w.conn[d] = conn[d]) /\ w.conn[d].fd = conn[d].fd
    <3>1. <<t, side>> \in Conn
      BY DEF Conn
    <3>2. CASE w = World
      BY <1>t, <3>2
    <3>3. CASE w.conn = [conn EXCEPT ![<<t, side>>] =
                           [fd |-> conn[<<t, side>>].fd, status |-> "Connected", rd |-> TRUE, wr |-> FALSE]]
      BY <1>t, <3>1, <3>3
    <3> QED
      BY <2>1, <3>2, <3>3
  <2>3. w.file = file /\ w.broken = broken
    BY <1>t, <2>1 DEF Same
  <2>4. PoolOK' /\ PassOK'
    BY <2>1, <2>2, <2>3, EffectInv DEF EventRest
  <2> QED
    BY <2>1, <2>4
<1> QED
  BY <1>1, <1>2

\* A client is accepted while what was reported is still open; his tunnel was
\* idle and has nothing.
LEMMA AcceptedFacts ==
  ASSUME Inv, NEW t \in Tunnel, NEW connfd \in Fd, Accepted(t, connfd)
  PROVE  /\ Idle(t) /\ Blank(t) /\ t \notin broken
         /\ connfd \in Fd \ open /\ reads \cup writes \subseteq open /\ at = "accept"
         /\ UNCHANGED <<at, reads, writes>> /\ alive' = alive \cup {t}
         /\ Distinct(free') /\ Len(free') <= CACHE_TUN_SIZE /\ Range(free') = Range(free) \ {t}
<1>1. PoolOK /\ PassOK /\ free \in Seq(Tunnel)
  BY DEF Inv, RestOK
<1>2. CASE free # <<>>
  <2>1. t = Head(free) /\ free' = Tail(free)
    BY <1>2 DEF Accepted
  <2>2. /\ Distinct(Tail(free)) /\ Len(Tail(free)) = Len(free) - 1 /\ Len(Tail(free)) \in Nat
        /\ t \in Range(free) /\ Range(Tail(free)) = Range(free) \ {t}
    BY <1>1, <1>2, <2>1, TakeFirst DEF PoolOK
  <2>3. Len(free') <= CACHE_TUN_SIZE
    <3>1. Len(free) \in Nat /\ CACHE_TUN_SIZE \in Nat /\ Len(free) <= CACHE_TUN_SIZE
      BY <1>1, LenProperties, ClientAssumption DEF PoolOK
    <3> QED
      BY <2>1, <2>2, <3>1
  <2>4. Idle(t) /\ t \notin broken
    BY <1>1, <2>2 DEF Idle, PoolOK
  <2> QED
    BY <1>1, <2>1, <2>2, <2>3, <2>4 DEF Accepted, PoolOK, PassOK
<1>3. CASE free = <<>>
  <2>1. t \notin alive /\ free' = free
    BY <1>3 DEF Accepted
  <2>2. Idle(t) /\ t \notin broken /\ t \notin Range(free)
    BY <1>1, <2>1 DEF Idle, PoolOK
  <2> QED
    BY <1>1, <2>1, <2>2 DEF Accepted, PoolOK, PassOK
<1> QED
  BY <1>2, <1>3

\* A connection that is opened and connected is watched for reading.
LEMMA OpenedAndWatched ==
  ASSUME NEW w, Owned(w), NEW c \in Conn, w.conn[c] = ClosedConn, NEW fd \in Fd \ w.open
  PROVE  Adds(TryRegReadEvent(Opened(w, c, fd, "Connected"), c), w, c, Watching(fd))
<1> DEFINE x == Opened(w, c, fd, "Connected")
           y == TryRegReadEvent(x, c)
<1>1. Adds(x, w, c, NewConn(fd, "Connected"))
  BY OpenOwned
<1> HIDE DEF x
<1>2. /\ Owned(x) /\ x.conn[c].fd = fd /\ x.conn[c].status = "Connected" /\ x.conn[c].wr = FALSE
      /\ x.open = w.open \cup {fd} /\ x.file = w.file /\ x.broken = w.broken
      /\ \A d \in Conn : d # c => x.conn[d] = w.conn[d]
  BY <1>1 DEF Adds, NewConn
<1>3. fd # NoFd
  BY DEF Fd, NoFd
<1>4. Owned(y) /\ Same(y, x) /\ y.conn = [x.conn EXCEPT ![c].rd = TRUE]
  BY <1>2, <1>3, RegReadOwned
<1>5. x.conn \in [Conn -> ConnType] /\ y.conn \in [Conn -> ConnType]
  BY <1>2, <1>4 DEF Owned, GoodWorld, WorldType
<1> HIDE DEF y
<1>6. /\ y.conn[c].fd = fd /\ y.conn[c].status = "Connected"
      /\ y.conn[c].rd = TRUE /\ y.conn[c].wr = FALSE
  BY <1>2, <1>4, <1>5 DEF ConnType
<1>7. y.conn[c] = Watching(fd) /\ Watching(fd).fd = fd
  BY <1>5, <1>6 DEF ConnType, Watching
<1>8. \A d \in Conn : d # c => y.conn[d] = w.conn[d]
  BY <1>2, <1>4, <1>5
<1>9. y.open = w.open \cup {fd} /\ y.file = w.file /\ y.broken = w.broken
  BY <1>2, <1>4 DEF Same
<1> QED
  BY <1>4, <1>7, <1>8, <1>9 DEF Adds, y, x

\* A connection that is opened and not connected yet is watched for writing.
LEMMA OpenedAndAwaited ==
  ASSUME NEW w, Owned(w), NEW c \in Conn, w.conn[c] = ClosedConn, NEW fd \in Fd \ w.open
  PROVE  Adds(TryRegWriteEvent(Opened(w, c, fd, "Connecting"), c), w, c, Awaiting(fd))
<1> DEFINE x == Opened(w, c, fd, "Connecting")
           y == TryRegWriteEvent(x, c)
<1>1. Adds(x, w, c, NewConn(fd, "Connecting"))
  BY OpenOwned
<1> HIDE DEF x
<1>2. /\ Owned(x) /\ x.conn[c].fd = fd /\ x.conn[c].status = "Connecting" /\ x.conn[c].rd = FALSE
      /\ x.open = w.open \cup {fd} /\ x.file = w.file /\ x.broken = w.broken
      /\ \A d \in Conn : d # c => x.conn[d] = w.conn[d]
  BY <1>1 DEF Adds, NewConn
<1>3. fd # NoFd
  BY DEF Fd, NoFd
<1>4. Owned(y) /\ Same(y, x) /\ y.conn = [x.conn EXCEPT ![c].wr = TRUE]
  BY <1>2, <1>3, RegWriteOwned
<1>5. x.conn \in [Conn -> ConnType] /\ y.conn \in [Conn -> ConnType]
  BY <1>2, <1>4 DEF Owned, GoodWorld, WorldType
<1> HIDE DEF y
<1>6. /\ y.conn[c].fd = fd /\ y.conn[c].status = "Connecting"
      /\ y.conn[c].rd = FALSE /\ y.conn[c].wr = TRUE
  BY <1>2, <1>4, <1>5 DEF ConnType
<1>7. y.conn[c] = Awaiting(fd) /\ Awaiting(fd).fd = fd
  BY <1>5, <1>6 DEF ConnType, Awaiting
<1>8. \A d \in Conn : d # c => y.conn[d] = w.conn[d]
  BY <1>2, <1>4, <1>5
<1>9. y.open = w.open \cup {fd} /\ y.file = w.file /\ y.broken = w.broken
  BY <1>2, <1>4 DEF Same
<1> QED
  BY <1>4, <1>7, <1>8, <1>9 DEF Adds, y, x

\* The client's connection.
LEMMA LocalOwned ==
  ASSUME Owned(World), NEW t \in Tunnel, Blank(t), NEW connfd \in Fd \ open
  PROVE  Adds(WithLocal(t, connfd), World, <<t, "local">>, Watching(connfd))
<1> DEFINE c == <<t, "local">>
<1>1. c \in Conn /\ World.conn[c] = ClosedConn /\ connfd \in Fd \ World.open
  BY OwnedTypes DEF Blank, Conn, Side
<1>2. WithLocal(t, connfd) = TryRegReadEvent(Opened(World, c, connfd, "Connected"), c)
  BY DEF WithLocal, Opened
<1> HIDE DEF c
<1>3. Adds(WithLocal(t, connfd), World, c, Watching(connfd))
  BY <1>1, <1>2, OpenedAndWatched
<1> QED
  BY <1>3 DEF c

\* A session starts: from world w, in which the tunnel has both connections,
\* the request is sent if connect() has succeeded.
Starts(t, connfd, proxyfd, kind, w) ==
  /\ connfd \in Fd \ open /\ proxyfd \in Fd \ (open \cup {connfd})
  /\ Owned(w) /\ w.open = open \cup {connfd, proxyfd} /\ w.file = file /\ w.broken = broken
  /\ \A d \in Conn : d[1] # t => w.conn[d] = conn[d]
  /\ w.conn[<<t, "local">>] = Watching(connfd)
  /\ \/ /\ kind = "none"
        /\ w.conn[<<t, "proxy">>] = Awaiting(proxyfd)
     \/ /\ <<kind, "proxy">> \in SendEffects("proxy")
        /\ w.conn[<<t, "proxy">>] = Watching(proxyfd)

\* The proxy's connection is opened and watched, for writing until connect() has
\* succeeded, else for reading.
LEMMA ProxyOwned ==
  ASSUME Owned(World), NEW t \in Tunnel, Blank(t), NEW connfd \in Fd \ open,
         NEW proxyfd \in Fd \ (open \cup {connfd})
  PROVE  /\ Starts(t, connfd, proxyfd, "none",
                   TryRegWriteEvent(Connecting(t, connfd, proxyfd, "Connecting"), <<t, "proxy">>))
         /\ \A kind : <<kind, "proxy">> \in SendEffects("proxy") =>
              Starts(t, connfd, proxyfd, kind,
                     TryRegReadEvent(Connecting(t, connfd, proxyfd, "Connected"), <<t, "proxy">>))
<1> DEFINE w == WithLocal(t, connfd)
           c == <<t, "proxy">>
           l == <<t, "local">>
<1>1. Adds(w, World, l, Watching(connfd))
  BY LocalOwned
<1>2. \A status : Connecting(t, connfd, proxyfd, status) = Opened(w, c, proxyfd, status)
  BY DEF Connecting, Opened
<1> HIDE DEF w
<1>3. c \in Conn /\ l \in Conn /\ c # l /\ conn[c] = ClosedConn
      /\ \A d \in Conn : d[1] # t => d # c /\ d # l
  BY DEF Blank, Conn, Side
<1> HIDE DEF c, l
<1>4. Owned(w) /\ w.open = open \cup {connfd} /\ w.file = file /\ w.broken = broken
      /\ w.conn[l] = Watching(connfd) /\ \A d \in Conn : d # l => w.conn[d] = conn[d]
  BY <1>1, OwnedTypes DEF Adds, Watching
<1>5. w.conn[c] = ClosedConn /\ proxyfd \in Fd \ w.open
      /\ \A d \in Conn : d[1] # t => w.conn[d] = conn[d]
  BY <1>3, <1>4
<1>6. ASSUME NEW v, NEW k, Adds(v, w, c, k), k.fd = proxyfd
      PROVE  /\ Owned(v) /\ v.open = open \cup {connfd, proxyfd} /\ v.file = file
             /\ v.broken = broken /\ \A d \in Conn : d[1] # t => v.conn[d] = conn[d]
             /\ v.conn[l] = Watching(connfd) /\ v.conn[c] = k
  BY <1>3, <1>4, <1>5, <1>6 DEF Adds
<1>7. Starts(t, connfd, proxyfd, "none",
             TryRegWriteEvent(Connecting(t, connfd, proxyfd, "Connecting"), c))
  <2> DEFINE v == TryRegWriteEvent(Opened(w, c, proxyfd, "Connecting"), c)
  <2>1. Adds(v, w, c, Awaiting(proxyfd)) /\ Awaiting(proxyfd).fd = proxyfd
    BY <1>3, <1>4, <1>5, OpenedAndAwaited DEF Awaiting
  <2> HIDE DEF v
  <2>2. Starts(t, connfd, proxyfd, "none", v)
    BY <1>6, <2>1 DEF Starts, c, l
  <2> QED
    BY <1>2, <2>2 DEF v
<1>8. ASSUME NEW kind, <<kind, "proxy">> \in SendEffects("proxy")
      PROVE  Starts(t, connfd, proxyfd, kind,
                    TryRegReadEvent(Connecting(t, connfd, proxyfd, "Connected"), c))
  <2> DEFINE v == TryRegReadEvent(Opened(w, c, proxyfd, "Connected"), c)
  <2>1. Adds(v, w, c, Watching(proxyfd)) /\ Watching(proxyfd).fd = proxyfd
    BY <1>3, <1>4, <1>5, OpenedAndWatched DEF Watching
  <2> HIDE DEF v
  <2>2. Starts(t, connfd, proxyfd, kind, v)
    BY <1>6, <1>8, <2>1 DEF Starts, c, l
  <2> QED
    BY <1>2, <2>2 DEF v
<1> QED
  BY <1>7, <1>8 DEF c

\* A session that could not start leaves nothing behind; its tunnel is broken.
FailsToStart(t) ==
  /\ conn' = conn /\ file' = file /\ open' = open /\ broken' = broken \cup {t}
  /\ UNCHANGED <<handled, fresh>>

\* The client's connection is closed again and the tunnel is broken.
LEMMA FailedOwned ==
  ASSUME Inv, NEW t \in Tunnel, NEW connfd \in Fd, AcceptFails(t, connfd)
  PROVE  Owned(World)' /\ FailsToStart(t)
<1> DEFINE c == <<t, "local">>
           w == WithLocal(t, connfd)
           x == ShutdownConn(w, c)
           v == [x EXCEPT !.open = @ \ {connfd}, !.broken = @ \cup {t}]
<1>1. Accepted(t, connfd) /\ UNCHANGED <<handled, fresh>> /\ Become(v)
  BY DEF AcceptFails
<1>2. Blank(t) /\ connfd \in Fd \ open
  BY <1>1, AcceptedFacts
<1>3. Adds(w, World, c, Watching(connfd))
  BY <1>2, LocalOwned DEF Inv
<1>4. c \in Conn /\ conn[c] = ClosedConn
  BY <1>2 DEF Conn, Side, Blank
<1> HIDE DEF w, c
<1>5. /\ Owned(w) /\ w.open = open \cup {connfd} /\ w.file = file /\ w.broken = broken
      /\ w.conn[c].fd = connfd /\ \A d \in Conn : d # c => w.conn[d] = conn[d]
  BY <1>3, OwnedTypes DEF Adds, Watching, Inv
<1>6. /\ Owned(x) /\ x.conn = [w.conn EXCEPT ![c] = ClosedConn]
      /\ x.open = w.open \ {w.conn[c].fd} /\ x.file = w.file /\ x.broken = w.broken
  BY <1>4, <1>5, ShutdownOwned
<1> HIDE DEF x
<1>7. x.conn = conn
  <2>1. conn \in [Conn -> ConnType] /\ w.conn \in [Conn -> ConnType]
    BY <1>5, OwnedTypes DEF Inv, Owned, GoodWorld, WorldType
  <2> QED
    BY <1>4, <1>5, <1>6, <2>1
<1>8. x.open = open /\ connfd \notin open
  BY <1>2, <1>5, <1>6
<1>9. v = [x EXCEPT !.broken = @ \cup {t}]
  <2>1. x \in WorldType
    BY <1>6 DEF Owned, GoodWorld
  <2>2. x.open \ {connfd} = x.open
    BY <1>8
  <2>3. v = [x EXCEPT !.open = x.open, !.broken = @ \cup {t}]
    BY <2>2
  <2> QED
    BY <2>1, <2>3 DEF WorldType
<1>10. /\ v.conn = x.conn /\ v.open = x.open /\ v.file = x.file /\ v.poller = x.poller
       /\ v.broken = x.broken \cup {t}
  BY <1>6, <1>9 DEF Owned, GoodWorld, WorldType
<1>11. GoodWorld(v)
  BY <1>6, <1>9, <1>10 DEF Owned, GoodWorld, WorldType
<1> HIDE DEF v
<1>12. HeldBy(v) = HeldBy(x)
  BY <1>10 DEF HeldBy
<1>13. Owned(v)
  BY <1>6, <1>10, <1>11, <1>12 DEF Owned
<1>14. Owned(World)' /\ conn' = v.conn /\ file' = v.file /\ open' = v.open /\ broken' = v.broken
  BY <1>1, <1>13, BecomeOwned
<1> QED
  BY <1>1, <1>5, <1>6, <1>7, <1>8, <1>10, <1>14 DEF FailsToStart

\* An accepted client gets a session with both connections, or nothing.
LEMMA AcceptLaw ==
  ASSUME Inv, NEW t \in Tunnel, NEW connfd \in Fd, Accept(t, connfd)
  PROVE  /\ Accepted(t, connfd) /\ Owned(World)'
         /\ \/ FailsToStart(t)
            \/ /\ handled' = handled \cup {t} /\ fresh' = fresh \cup ({t} \X Side)
               /\ \E proxyfd \in Fd : \E kind, w :
                    Starts(t, connfd, proxyfd, kind, w) /\ Effect(w, t, kind, "proxy")
<1>1. CASE AcceptFails(t, connfd)
  BY <1>1, FailedOwned DEF AcceptFails
<1>2. ASSUME NEW proxyfd \in Fd, ConnectPending(t, connfd, proxyfd)
      PROVE  /\ Owned(World)' /\ ConnectStarts(t, connfd, proxyfd)
             /\ \E w : Starts(t, connfd, proxyfd, "none", w) /\ Effect(w, t, "none", "proxy")
  <2> DEFINE w == TryRegWriteEvent(Connecting(t, connfd, proxyfd, "Connecting"), <<t, "proxy">>)
  <2>1. ConnectStarts(t, connfd, proxyfd) /\ Become(w)
    BY <1>2 DEF ConnectPending
  <2>2. Blank(t) /\ connfd \in Fd \ open /\ proxyfd \in Fd \ (open \cup {connfd})
    BY <2>1, AcceptedFacts DEF ConnectStarts
  <2>3. Starts(t, connfd, proxyfd, "none", w)
    BY <2>2, ProxyOwned DEF Inv
  <2> HIDE DEF w
  <2>4. Owned(w)
    BY <2>3 DEF Starts
  <2>5. Owned(World)' /\ conn' = w.conn /\ file' = w.file /\ open' = w.open /\ broken' = w.broken
    BY <2>1, <2>4, BecomeOwned
  <2>6. Effect(w, t, "none", "proxy")
    BY <2>5 DEF Effect
  <2> QED
    BY <2>1, <2>3, <2>5, <2>6
<1>3. ASSUME NEW proxyfd \in Fd, ConnectNow(t, connfd, proxyfd)
      PROVE  /\ Owned(World)' /\ ConnectStarts(t, connfd, proxyfd)
             /\ \E kind, w : Starts(t, connfd, proxyfd, kind, w) /\ Effect(w, t, kind, "proxy")
  <2> DEFINE w == TryRegReadEvent(Connecting(t, connfd, proxyfd, "Connected"), <<t, "proxy">>)
  <2>1. PICK kind : /\ kind \in {"none", "keep", "sent", "end"} /\ <<kind, "proxy">> \in SendEffects("proxy")
                    /\ ConnectStarts(t, connfd, proxyfd) /\ Happens(w, t, <<kind, "proxy">>)
    BY <1>3 DEF ConnectNow, SendEffects
  <2>2. Blank(t) /\ connfd \in Fd \ open /\ proxyfd \in Fd \ (open \cup {connfd})
    BY <2>1, AcceptedFacts DEF ConnectStarts
  <2>3. Starts(t, connfd, proxyfd, kind, w)
    BY <2>1, <2>2, ProxyOwned DEF Inv
  <2> HIDE DEF w
  <2>4. Owned(w) /\ w.conn[<<t, "proxy">>].fd = proxyfd /\ proxyfd # NoFd /\ kind # "spill"
    BY <2>1, <2>2, <2>3 DEF Starts, Awaiting, Watching, Fd, NoFd
  <2>5. "proxy" \in Side
    BY DEF Side
  <2>6. Owned(World)' /\ Effect(w, t, kind, "proxy")
    BY <2>1, <2>4, <2>5, HappensOwned
  <2> QED
    BY <2>1, <2>3, <2>6
<1>4. CASE \E proxyfd \in Fd : ConnectPending(t, connfd, proxyfd) \/ ConnectNow(t, connfd, proxyfd)
  BY <1>2, <1>3, <1>4 DEF ConnectStarts
<1> QED
  BY <1>1, <1>4 DEF Accept

\* An accepted client takes an idle tunnel; what is opened for him was closed
\* when select() reported.
LEMMA AcceptInv ==
  ASSUME Inv, NEW t \in Tunnel, NEW connfd \in Fd, Accept(t, connfd)
  PROVE  Owned(World)' /\ PoolOK' /\ PassOK'
<1>1. /\ Idle(t) /\ Blank(t) /\ t \notin broken
      /\ connfd \in Fd \ open /\ reads \cup writes \subseteq open /\ at = "accept"
      /\ UNCHANGED <<at, reads, writes>> /\ alive' = alive \cup {t}
      /\ Distinct(free') /\ Len(free') <= CACHE_TUN_SIZE /\ Range(free') = Range(free) \ {t}
      /\ Owned(World)'
  BY AcceptLaw, AcceptedFacts
<1>2. PoolOK /\ PassOK /\ NoFd \notin open
  BY DEF Inv, Owned, GoodWorld, WorldType, World, NoFd, Fd
<1>t. file \in [Tunnel -> Fd \cup {NoFd}] /\ conn \in [Conn -> ConnType]
  BY OwnedTypes DEF Inv, Owned, GoodWorld, WorldType
<1>3. CASE FailsToStart(t)
  <2>1. \A u \in Tunnel : Idle(u)' => Blank(u)'
    BY <1>1, <1>2, <1>3 DEF FailsToStart, PoolOK, Idle, Blank
  <2>2. PoolOK'
    BY <1>1, <1>2, <1>3, <2>1 DEF FailsToStart, PoolOK
  <2> QED
    BY <1>1, <1>2, <1>3, <2>2 DEF FailsToStart, PassOK
<1>4. ASSUME handled' = handled \cup {t}, fresh' = fresh \cup ({t} \X Side),
             NEW proxyfd \in Fd, NEW kind, NEW w,
             Starts(t, connfd, proxyfd, kind, w), Effect(w, t, kind, "proxy")
      PROVE  PoolOK' /\ PassOK'
  <2>1. \A d \in Conn : d[1] # t => conn'[d] = conn[d]
    BY <1>4 DEF Starts, Effect
  <2>2. /\ \A u \in Tunnel : u # t => file'[u] = file[u]
        /\ broken' = broken \/ (t \in handled /\ kind = "end" /\ broken' = broken \cup {t})
        /\ open \subseteq open'
    <3>1. /\ w.file = file /\ w.broken = broken /\ w.open = open \cup {connfd, proxyfd}
          /\ w.conn[<<t, "local">>].fd = connfd /\ w.conn[<<t, "proxy">>].fd = proxyfd
          /\ connfd \notin open /\ proxyfd \notin open /\ file[t] = NoFd
          /\ kind # "spill"
      BY <1>1, <1>4 DEF Starts, Watching, Awaiting, SendEffects, Blank
    <3>2. CASE kind = "end"
      <4>1. /\ file' = [file EXCEPT ![t] = NoFd]
            /\ broken' = broken \cup (IF t \in handled THEN {t} ELSE {})
            /\ open' = ((w.open \ {connfd}) \ {proxyfd}) \ {NoFd}
        BY <1>4, <3>1, <3>2 DEF Effect
      <4> QED
        BY <1>2, <1>t, <3>1, <3>2, <4>1
    <3>3. CASE kind # "end"
      BY <1>4, <3>1, <3>3 DEF Effect
    <3> QED
      BY <3>2, <3>3
  <2>3. \A u \in Tunnel : u # t => (Blank(u) => Blank(u)')
    <3> TAKE u \in Tunnel
    <3>1. \A s \in Side : <<u, s>> \in Conn /\ <<u, s>>[1] = u
      BY DEF Conn
    <3> QED
      BY <2>1, <2>2, <3>1 DEF Blank
  <2>4. kind = "end" => Blank(t)'
    BY <1>t, <1>4 DEF Effect, Blank, Starts
  <2>5. \A u \in Tunnel : Idle(u)' => Blank(u)'
    BY <1>1, <1>2, <2>2, <2>3, <2>4 DEF PoolOK, Idle
  <2>6. PoolOK'
    BY <1>1, <1>2, <1>4, <2>2, <2>5 DEF PoolOK
  <2>7. \A side \in Side : conn'[<<t, side>>].fd \notin open
    <3>1. kind = "end" => \A side \in Side : conn'[<<t, side>>] = ClosedConn
      BY <1>4 DEF Effect
    <3>2. w.conn[<<t, "local">>].fd = connfd /\ w.conn[<<t, "proxy">>].fd = proxyfd
      BY <1>4 DEF Starts, Watching, Awaiting
    <3>3. kind # "end" => \A side \in Side : conn'[<<t, side>>].fd = w.conn[<<t, side>>].fd
      <4>1. w.conn \in [Conn -> ConnType] /\ <<t, "local">> \in Conn /\ <<t, "proxy">> \in Conn
        BY <1>4 DEF Starts, Owned, GoodWorld, WorldType, Conn, Side
      <4>2. kind # "end" => \/ conn' = w.conn
                            \/ conn' = [w.conn EXCEPT ![<<t, "proxy">>].wr = TRUE]
                            \/ conn' = [w.conn EXCEPT ![<<t, "proxy">>].wr = FALSE]
        BY <1>4 DEF Effect
      <4>3. kind # "end" => \A d \in Conn : conn'[d] = w.conn[d] \/ \E b : conn'[d] = [w.conn[d] EXCEPT !.wr = b]
        BY <4>1, <4>2
      <4> QED
        BY <4>1, <4>3, ZenonT(40) DEF ConnType, Side
    <3> QED
      BY <1>1, <1>2, <1>4, <3>1, <3>2, <3>3 DEF Starts, ClosedConn, Side
  <2>8. \A c \in fresh' : conn'[c].fd \notin reads' \cup writes'
    <3> TAKE c \in fresh'
    <3>1. fresh \subseteq Conn
      BY DEF Inv, RestOK
    <3>2. CASE c[1] = t
      <4>1. c = <<t, c[2]>> /\ c[2] \in Side
        BY <1>4, <3>1, <3>2 DEF Conn
      <4> QED
        BY <1>1, <2>7, <4>1
    <3>3. CASE c[1] # t
      <4>1. c \in fresh
        BY <1>4, <3>3
      <4> QED
        BY <1>1, <1>2, <2>1, <3>1, <3>3, <4>1 DEF PassOK
    <3> QED
      BY <3>2, <3>3
  <2>9. PassOK'
    BY <1>1, <2>2, <2>8 DEF PassOK
  <2> QED
    BY <2>6, <2>9
<1> QED
  BY <1>1, <1>3, <1>4, AcceptLaw

\* Every step keeps the invariant.
LEMMA InvNext ==
  ASSUME Inv, [Next]_vars
  PROVE  Inv'
<1>1. RestOK'
  BY OwnedTypes, RestNext DEF Inv
<1>2. CASE \/ RunLoop \/ TestLoop \/ ExitLoop \/ Reclaimed \/ EndPass \/ Select
           \/ StopAccepting \/ ClientArrives \/ Terminated \/ UNCHANGED vars
           \/ \E fd \in Fd : TriggerNobody(fd) \/ StartAccepting(fd)
  BY <1>1, <1>2, QuietPass, QuietStep DEF Inv
<1>3. CASE \E fd \in Fd : Readable(fd) \/ Writable(fd)
  BY <1>1, <1>3, EventInv DEF Inv
<1>4. CASE \E t \in Tunnel : \E connfd \in Fd : Accept(t, connfd)
  BY <1>1, <1>4, AcceptInv DEF Inv
<1>5. CASE \E t \in Tunnel : ReclaimTunnel(t)
  BY <1>1, <1>5, ReclaimInv DEF Inv
<1> QED
  BY <1>2, <1>3, <1>4, <1>5 DEF Next, MainThread, Dispatch

\* The invariant holds in every reachable state.
THEOREM PoolInvariant == Spec => []Inv
<1>1. Init => Inv
  BY InitInv
<1>2. Inv /\ [Next]_vars => Inv'
  BY InvNext
<1> QED
  BY <1>1, <1>2, PTL DEF Spec

-----------------------------------------------------------------------------
(* What the invariant says of the properties that the runs check.          *)

\* Distinct elements are as many as the sequence is long.
LEMMA DistinctCount ==
  ASSUME NEW s \in Seq(Tunnel), Distinct(s)
  PROVE  Cardinality(Range(s)) = Len(s)
<1> DEFINE f == [i \in 1 .. Len(s) |-> s[i]]
<1>1. Len(s) \in Nat /\ DOMAIN s = 1 .. Len(s)
  BY LenProperties
<1>2. f \in Bijection(1 .. Len(s), Range(s))
  <2>1. f \in [1 .. Len(s) -> Range(s)]
    BY <1>1 DEF Range
  <2>2. \A i, j \in 1 .. Len(s) : f[i] = f[j] => i = j
    BY DEF Distinct
  <2>3. \A x \in Range(s) : \E i \in 1 .. Len(s) : f[i] = x
    BY <1>1 DEF Range
  <2> QED
    BY <2>1, <2>2, <2>3 DEF Bijection, Injection, Surjection, IsInjective
<1> QED
  BY <1>1, <1>2, FS_CountingElements DEF ExistsBijection

\* Whoever holds a descriptor is one of those that the property lists.
LEMMA HeldIsOwned ==
  ASSUME Owned(World)
  PROVE  /\ \A h \in Held : \/ h = <<<<0, "log">>, LogFd>> \/ h = <<Listener, ListenFd>>
                            \/ \E o \in Owner : /\ h = <<o, HeldBy(World)[o]>>
                                                /\ HeldBy(World)[o] # NoFd
         /\ <<<<0, "log">>, LogFd>> \in Held /\ <<Listener, ListenFd>> \in Held
         /\ \A o \in Owner : HeldBy(World)[o] # NoFd => <<o, HeldBy(World)[o]>> \in Held
<1>1. /\ \A c \in Conn : c \in Owner /\ HeldBy(World)[c] = conn[c].fd
      /\ \A t \in Tunnel : <<t, "file">> \in Owner /\ HeldBy(World)[<<t, "file">>] = file[t]
  BY OwnedTypes, HeldType, OwnerLaw DEF Owned
<1> QED
  BY <1>1, OwnerLaw DEF Held

\* The holders of descriptors and the open descriptors correspond.
LEMMA HoldersCount ==
  ASSUME Owned(World)
  PROVE  NoFdLeak
<1> DEFINE held == HeldBy(World)
           f == [h \in Held |-> h[2]]
<1>1. OneHolder(held, open) /\ open \in SUBSET Fd
  BY OwnedTypes DEF Owned, GoodWorld, WorldType
<1>2. /\ \A h \in Held : \/ h = <<<<0, "log">>, LogFd>> \/ h = <<Listener, ListenFd>>
                         \/ \E o \in Owner : h = <<o, held[o]>> /\ held[o] # NoFd
      /\ <<<<0, "log">>, LogFd>> \in Held /\ <<Listener, ListenFd>> \in Held
      /\ \A o \in Owner : held[o] # NoFd => <<o, held[o]>> \in Held
  BY HeldIsOwned
<1>3. NoFd \notin open /\ LogFd # ListenFd
  BY <1>1 DEF NoFd, Fd, LogFd, ListenFd
<1> HIDE DEF held
<1>4. \A h \in Held : h[2] \in open
  BY <1>1, <1>2 DEF OneHolder
<1>5. \A fd \in open : \E h \in Held : h[2] = fd
  <2> TAKE fd \in open
  <2>1. CASE fd \in {LogFd, ListenFd}
    <3>1. <<<<0, "log">>, LogFd>>[2] = LogFd /\ <<Listener, ListenFd>>[2] = ListenFd
      OBVIOUS
    <3> QED
      BY <1>2, <2>1, <3>1
  <2>2. CASE fd \notin {LogFd, ListenFd}
    <3>1. PICK o \in Owner : held[o] = fd
      BY <1>1, <2>2 DEF OneHolder
    <3>2. <<o, held[o]>> \in Held /\ <<o, held[o]>>[2] = fd
      BY <1>2, <1>3, <3>1
    <3> QED
      BY <3>2
  <2> QED
    BY <2>1, <2>2
<1>6. \A h, g \in Held : h[2] = g[2] => h = g
  BY <1>1, <1>2, <1>3 DEF OneHolder
<1>7. open = {h[2] : h \in Held}
  BY <1>4, <1>5
<1>8. f \in Injection(Held, open) /\ f \in Surjection(Held, open)
  BY <1>4, <1>5, <1>6 DEF Injection, Surjection, IsInjective
<1>9. IsFiniteSet(open)
  BY <1>1, FdSetsFinite
<1> HIDE DEF f
<1>10. Cardinality(Held) = Cardinality(open)
  BY <1>8, <1>9, FS_Injection
<1> QED
  BY <1>7, <1>10 DEF NoFdLeak

\* The pool, the handlers and the events.
LEMMA InvImplies ==
  ASSUME Inv
  PROVE  HandlersOwn /\ NoFdLeak /\ PoolSound /\ NoStaleEvent
<1>1. PoolSound
  <2>1. Cardinality(Range(free)) = Len(free)
    BY DistinctCount DEF Inv, PoolOK, RestOK
  <2> QED
    BY <2>1 DEF Inv, PoolOK, PoolSound, Idle, Blank
<1>2. Watched(poller, conn) /\ GoodConns(conn) /\ poller \in PollerType /\ World.open = open
      /\ World.conn = conn /\ World.poller = poller
  BY OwnedTypes DEF Inv, Owned, GoodWorld, WorldType
<1>3. \A c \in Conn : conn[c].rd \/ conn[c].wr => conn[c].fd \in open /\ conn[c].fd # NoFd
  <2>1. \A c \in Conn : conn[c].rd \/ conn[c].wr => conn[c].fd # NoFd
    BY <1>2 DEF GoodConns, Fd, NoFd
  <2>2. \A c \in Conn : c \in Owner /\ HeldBy(World)[c] = conn[c].fd
    BY <1>2, HeldType, OwnerLaw DEF Inv, Owned
  <2> QED
    BY <1>2, <2>1, <2>2 DEF Inv, Owned, OneHolder
<1>4. HandlersOwn
  <2>1. \A fd \in Fd : /\ poller.readers[fd] \in Conn \cup {Listener, Nobody}
                       /\ poller.writers[fd] \in Conn \cup {Listener, Nobody}
    BY <1>2 DEF PollerType
  <2>2. \A fd \in Fd :
          /\ poller.readers[fd] \in {Nobody, Listener} \/ conn[poller.readers[fd]].fd = fd
          /\ poller.writers[fd] = Nobody \/ conn[poller.writers[fd]].fd = fd
    BY <1>2, <2>1 DEF Watched
  <2>3. \A c \in Conn, fd \in Fd : fd < SetSize =>
          /\ poller.readers[fd] = c <=> conn[c].rd /\ conn[c].fd = fd
          /\ poller.writers[fd] = c <=> conn[c].wr /\ conn[c].fd = fd
    BY <1>2, <1>3 DEF Watched
  <2> QED
    BY <1>3, <2>2, <2>3 DEF HandlersOwn
<1>5. NoStaleEvent
  <2>1. fresh \subseteq Conn /\ reads \subseteq Fd /\ writes \subseteq Fd
    BY DEF Inv, RestOK
  <2>2. \A c \in fresh : conn[c].fd \notin reads \cup writes
    BY DEF Inv, PassOK
  <2>3. \A fd \in Fd, c \in Conn : poller.readers[fd] = c \/ poller.writers[fd] = c => conn[c].fd = fd
    BY <1>2 DEF Watched
  <2> QED
    BY <2>1, <2>2, <2>3 DEF NoStaleEvent
<1> QED
  BY <1>1, <1>4, <1>5, HoldersCount DEF Inv

\* No event reaches a connection that was closed, recycled or deleted: whom the
\* poller calls and who is watched are the same, on their own open descriptors.
THEOREM HandlersAreOwners == Spec => []HandlersOwn
BY PoolInvariant, InvImplies, PTL

\* Every open descriptor has one holder: nothing leaks and nothing is shared.
THEOREM NothingLeaks == Spec => []NoFdLeak
BY PoolInvariant, InvImplies, PTL

\* A tunnel is free once, or broken, or in use, and an idle one has nothing.
THEOREM PoolIsSound == Spec => []PoolSound
BY PoolInvariant, InvImplies, PTL

\* No event of a pass reaches a connection that was opened in it.
THEOREM EventsAreFresh == Spec => []NoStaleEvent
BY PoolInvariant, InvImplies, PTL

-----------------------------------------------------------------------------
(* Each tunnel is a Session.                                               *)

\* The sockets of tunnel t among the connections k.
Sockets(t, k) ==
  [side \in Side |-> [status |-> k[<<t, side>>].status,
                      rd |-> k[<<t, side>>].rd, wr |-> k[<<t, side>>].wr]]

\* What the tunnel's session is made of.
LEMMA SessionIs ==
  ASSUME NEW t \in Tunnel
  PROVE  /\ AsSession(t)!vars = <<Sockets(t, conn), file[t] # NoFd, t \in handled, Place(t)>>
         /\ AsSession(t)!Side = Side
         /\ AsSession(t)!Closed = [status |-> "Closed", rd |-> FALSE, wr |-> FALSE]
BY DEF AsSession!vars, AsSession!Side, AsSession!Closed, Sockets, SocketOf, Side

\* A step that leaves what t has and where it is leaves its session alone.
LEMMA SameSession ==
  ASSUME NEW t \in Tunnel, \A side \in Side : conn'[<<t, side>>] = conn[<<t, side>>],
         file'[t] = file[t], t \in handled' <=> t \in handled, Place(t)' = Place(t)
  PROVE  UNCHANGED AsSession(t)!vars
<1>1. [side \in Side |-> SocketOf(<<t, side>>)]' = [side \in Side |-> SocketOf(<<t, side>>)]
  BY DEF SocketOf
<1>2. (file[t] # NoFd)' = (file[t] # NoFd)
  OBVIOUS
<1>3. (t \in handled)' = (t \in handled)
  OBVIOUS
<1> QED
  BY <1>1, <1>2, <1>3 DEF AsSession!vars

\* At first each tunnel is a session that has not begun.
LEMMA SessionInit ==
  ASSUME Init, NEW t \in Tunnel
  PROVE  AsSession(t)!Init
<1>1. [side \in Side |-> SocketOf(<<t, side>>)] = AsSession(t)!NoSockets
  BY DEF Init, ClosedConn, SocketOf, Conn, AsSession!NoSockets, AsSession!Closed, AsSession!Side, Side
<1>2. (file[t] # NoFd) = FALSE /\ (t \in handled) = FALSE
  BY DEF Init
<1>3. Place(t) = "free"
  BY DEF Init, Place
<1> QED
  BY <1>1, <1>2, <1>3 DEF AsSession!Init

\* Where an active tunnel of the pool is.
LEMMA ActivePlace ==
  ASSUME NEW t \in Tunnel
  PROVE  /\ ~ Idle(t) <=> Place(t) = "active"
         /\ t \in broken <=> Place(t) = "broken"
         /\ Place(t) \in {"active", "broken", "free"}
BY DEF Idle, Place

\* An effect on a tunnel in use is an effect on its session.
LEMMA EffectIsAfter ==
  ASSUME NEW t \in Tunnel, NEW side \in Side, NEW kind, NEW w, Owned(w), Owned(World)',
         Effect(w, t, kind, side), w.file = file, w.broken = broken,
         t \notin broken, t \in alive', t \notin Range(free'), file \in [Tunnel -> Fd \cup {NoFd}]
  PROVE  AsSession(t)!After(Sockets(t, w.conn), <<kind, side>>, "active")
<1> DEFINE k == Sockets(t, w.conn)
           c == <<t, side>>
           e == <<kind, side>>
<1>1. e[1] = kind /\ e[2] = side /\ c \in Conn /\ \A s \in Side : <<t, s>> \in Conn
  BY DEF Conn
<1>t. w.conn \in [Conn -> ConnType] /\ w.conn[c] \in ConnType
  BY <1>1 DEF Owned, GoodWorld, WorldType
<1>2. Place(t)' = IF t \in broken' THEN "broken" ELSE "active"
  BY DEF Place
<1>3. [s \in Side |-> SocketOf(<<t, s>>)]' = Sockets(t, conn')
  BY DEF Sockets, SocketOf
<1>4. CASE kind \in {"none", "keep", "sent"}
  <2> DEFINE b == (k[side].wr \/ kind = "keep") /\ kind # "sent"
  <2>1. Place(t)' = "active" /\ (file[t] # NoFd)' = (file[t] # NoFd)
    BY <1>2, <1>4 DEF Effect
  <2>2. /\ \A d \in Conn : d # c => conn'[d] = w.conn[d]
        /\ kind = "none" => conn' = w.conn
        /\ kind = "keep" => conn' = [w.conn EXCEPT ![c].wr = TRUE]
        /\ kind = "sent" => conn' = [w.conn EXCEPT ![c].wr = FALSE]
    BY <1>4 DEF Effect
  <2>3. Sockets(t, conn') = [k EXCEPT ![side].wr = b]
    <3>1. \A s \in Side : s # side => Sockets(t, conn')[s] = k[s]
      BY <1>1, <2>2 DEF Sockets
    <3>2. conn'[c].status = w.conn[c].status /\ conn'[c].rd = w.conn[c].rd
      BY <1>1, <1>4, <1>t, <2>2 DEF ConnType
    <3>3. conn'[c].wr = b
      <4>1. k[side].wr = w.conn[c].wr /\ w.conn[c].wr \in BOOLEAN
        BY <1>t DEF Sockets, ConnType
      <4>2. CASE kind = "none"
        <5>1. conn'[c].wr = w.conn[c].wr
          BY <2>2, <4>2
        <5>2. b <=> w.conn[c].wr
          BY <4>1, <4>2
        <5> QED
          BY ONLY <4>1, <5>1, <5>2
      <4>3. CASE kind = "keep"
        <5>1. conn'[c].wr = TRUE
          BY <1>1, <1>t, <2>2, <4>3 DEF ConnType
        <5>2. b
          BY <4>3
        <5> QED
          BY <5>1, <5>2
      <4>4. CASE kind = "sent"
        <5>1. conn'[c].wr = FALSE
          BY <1>1, <1>t, <2>2, <4>4 DEF ConnType
        <5>2. ~ b
          BY <4>4
        <5> QED
          BY <5>1, <5>2
      <4> QED
        BY <1>4, <4>2, <4>3, <4>4
    <3>4. Sockets(t, conn')[side] = [k[side] EXCEPT !.wr = b]
      BY <3>2, <3>3 DEF Sockets
    <3> QED
      BY <3>1, <3>4 DEF Sockets
  <2> QED
    BY <1>1, <1>3, <1>4, <2>1, <2>3 DEF AsSession!After
<1>5. CASE kind = "spill"
  <2>1. conn' = w.conn /\ broken' = broken /\ file[t] = NoFd
        /\ \E fd \in Fd : file' = [file EXCEPT ![t] = fd]
    BY <1>5 DEF Effect
  <2>2. Place(t)' = "active" /\ Sockets(t, conn') = k
    BY <1>2, <2>1
  <2>3. (file[t] # NoFd)' = TRUE
    BY <2>1 DEF Fd, NoFd
  <2> QED
    BY <1>1, <1>3, <1>5, <2>1, <2>2, <2>3 DEF AsSession!After
<1>6. CASE kind = "end"
  <2>1. /\ \A s \in Side : conn'[<<t, s>>] = ClosedConn
        /\ file' = [file EXCEPT ![t] = NoFd]
        /\ broken' = broken \cup (IF t \in handled THEN {t} ELSE {})
    BY <1>6 DEF Effect
  <2>2. Place(t)' = IF t \in handled THEN "broken" ELSE "active"
    BY <1>2, <2>1
  <2>3. (file[t] # NoFd)' = FALSE
    BY <2>1
  <2>4. Sockets(t, conn') = AsSession(t)!NoSockets
    <3>1. \A s \in Side : /\ conn'[<<t, s>>].status = "Closed"
                          /\ conn'[<<t, s>>].rd = FALSE /\ conn'[<<t, s>>].wr = FALSE
      BY <2>1 DEF ClosedConn
    <3>2. Sockets(t, conn') = [s \in Side |-> [status |-> "Closed", rd |-> FALSE, wr |-> FALSE]]
      BY <3>1 DEF Sockets
    <3> QED
      BY <3>2, SessionIs DEF AsSession!NoSockets
  <2> QED
    BY <1>1, <1>3, <1>6, <2>2, <2>3, <2>4 DEF AsSession!After
<1> QED
  BY <1>4, <1>5, <1>6 DEF Effect

\* The session has the effects that the pool gives it, and the same status.
LEMMA SameEffects ==
  ASSUME NEW t \in Tunnel
  PROVE  /\ \A status, side : /\ AsSession(t)!InputEffects(status, side) = InputEffects(status, side)
                              /\ AsSession(t)!OutputEffects(status, side) = OutputEffects(status, side)
         /\ \A side : AsSession(t)!SendEffects(side) = SendEffects(side)
         /\ AsSession(t)!Status = Status(t)
         /\ [side \in Side |-> SocketOf(<<t, side>>)] = Sockets(t, conn)
<1>1. \A side : AsSession(t)!SendEffects(side) = SendEffects(side)
  BY DEF AsSession!SendEffects, SendEffects
<1>2. \A status, side : AsSession(t)!InputEffects(status, side) = InputEffects(status, side)
  BY DEF AsSession!InputEffects, InputEffects, AsSession!SendEffects, SendEffects, AsSession!Side, Side
<1>3. \A status, side : AsSession(t)!OutputEffects(status, side) = OutputEffects(status, side)
  BY DEF AsSession!OutputEffects, OutputEffects
<1>4. [side \in Side |-> SocketOf(<<t, side>>)] = Sockets(t, conn)
  BY DEF Sockets, SocketOf
<1>5. AsSession(t)!Status = Status(t)
  BY SessionIs, <1>4 DEF AsSession!Status, Status, Sockets
<1> QED
  BY <1>1, <1>2, <1>3, <1>4, <1>5

\* An event of a tunnel is one of its session.
LEMMA EventIsSession ==
  ASSUME Inv, NEW fd \in Fd, Readable(fd) \/ Writable(fd)
  PROVE  \E t \in Tunnel :
           /\ \E side \in Side : AsSession(t)!Readable(side) \/ AsSession(t)!Writable(side)
           /\ \A u \in Tunnel : u # t => UNCHANGED AsSession(u)!vars
<1>t. /\ conn \in [Conn -> ConnType] /\ file \in [Tunnel -> Fd \cup {NoFd}] /\ broken \subseteq Tunnel
      /\ World.conn = conn /\ World.file = file /\ World.broken = broken
      /\ \A t \in Tunnel, side \in Side : <<t, side>> \in Conn
  BY OwnedTypes DEF Inv, Owned, GoodWorld, WorldType, Conn
<1>1. ASSUME NEW t \in Tunnel, NEW side \in Side, NEW kind, NEW w, Effect(w, t, kind, side), EventRest,
             w.file = file, w.broken = broken, \A d \in Conn : d[1] # t => w.conn[d] = conn[d]
      PROVE  \A u \in Tunnel : u # t => UNCHANGED AsSession(u)!vars
  <2> SUFFICES ASSUME NEW u \in Tunnel, u # t PROVE UNCHANGED AsSession(u)!vars
    OBVIOUS
  <2>1. \A s \in Side : conn'[<<u, s>>] = conn[<<u, s>>]
    <3>1. \A s \in Side : <<u, s>> \in Conn /\ <<u, s>>[1] # t /\ <<u, s>> # <<t, side>>
      BY DEF Conn
    <3>2. \A d \in Conn : d[1] # t => conn'[d] = w.conn[d]
      BY <1>1 DEF Effect
    <3> QED
      BY <1>1, <3>1, <3>2
  <2>2. file'[u] = file[u]
    BY <1>t, <1>1 DEF Effect
  <2>3. u \in broken' <=> u \in broken
    BY <1>1 DEF Effect
  <2>4. Place(u)' = Place(u) /\ (u \in handled' <=> u \in handled)
    BY <1>1, <2>3 DEF Place, EventRest
  <2> QED
    BY <2>1, <2>2, <2>4, SameSession
<1>2. CASE Readable(fd)
  <2>1. PICK t \in Tunnel, side \in Side, to \in Side : \E kind :
          /\ conn[<<t, side>>].rd /\ ~ Idle(t) /\ EventRest
          /\ <<kind, to>> \in InputEffects(Status(t), side)
          /\ Owned(World)' /\ Effect(World, t, kind, to)
    BY <1>2, ReadableLaw
  <2>2. PICK kind : /\ <<kind, to>> \in InputEffects(Status(t), side)
                    /\ Owned(World)' /\ Effect(World, t, kind, to)
    BY <2>1
  <2>3. Place(t) = "active" /\ t \notin broken /\ t \in alive' /\ t \notin Range(free')
    BY <2>1, ActivePlace DEF Idle, EventRest
  <2>4. AsSession(t)!After(Sockets(t, conn), <<kind, to>>, "active")
    BY <1>t, <2>2, <2>3, EffectIsAfter DEF Inv
  <2>5. Sockets(t, conn)[side].rd /\ (t \in handled)' = (t \in handled)
    BY <2>1 DEF Sockets, EventRest
  <2>6. AsSession(t)!Readable(side)
    BY <2>2, <2>3, <2>4, <2>5, SameEffects DEF AsSession!Readable
  <2> QED
    BY <1>t, <1>1, <2>1, <2>2, <2>6
<1>3. CASE Writable(fd)
  <2>1. PICK t \in Tunnel, side \in Side : \E kind, w :
           /\ conn[<<t, side>>].wr /\ ~ Idle(t) /\ EventRest
           /\ Owned(w) /\ Same(w, World) /\ Owned(World)' /\ Effect(w, t, kind, side)
           /\ \/ w = World /\ <<kind, side>> \in OutputEffects(Status(t), side)
              \/ /\ conn[<<t, side>>].status = "Connecting" /\ <<kind, side>> \in SendEffects(side)
                 /\ w.conn = [conn EXCEPT ![<<t, side>>] =
                                [fd |-> conn[<<t, side>>].fd, status |-> "Connected", rd |-> TRUE, wr |-> FALSE]]
    BY <1>3, WritableLaw
  <2>2. PICK kind, w :
           /\ Owned(w) /\ Same(w, World) /\ Owned(World)' /\ Effect(w, t, kind, side)
           /\ \/ w = World /\ <<kind, side>> \in OutputEffects(Status(t), side)
              \/ /\ conn[<<t, side>>].status = "Connecting" /\ <<kind, side>> \in SendEffects(side)
                 /\ w.conn = [conn EXCEPT ![<<t, side>>] =
                                [fd |-> conn[<<t, side>>].fd, status |-> "Connected", rd |-> TRUE, wr |-> FALSE]]
    BY <2>1
  <2>3. Place(t) = "active" /\ t \notin broken /\ t \in alive' /\ t \notin Range(free')
    BY <2>1, ActivePlace DEF Idle, EventRest
  <2>f. w.file = file /\ w.broken = broken
    BY <1>t, <2>2 DEF Same
  <2>4. AsSession(t)!After(Sockets(t, w.conn), <<kind, side>>, "active")
    BY <1>t, <2>2, <2>3, <2>f, EffectIsAfter
  <2>5. Sockets(t, conn)[side].wr /\ (t \in handled)' = (t \in handled)
    BY <2>1 DEF Sockets, EventRest
  <2>6. AsSession(t)!Writable(side)
    <3>1. CASE w = World /\ <<kind, side>> \in OutputEffects(Status(t), side)
      BY <1>t, <2>3, <2>4, <2>5, <3>1, SameEffects, ZenonT(40) DEF AsSession!Writable
    <3>2. CASE /\ conn[<<t, side>>].status = "Connecting" /\ <<kind, side>> \in SendEffects(side)
               /\ w.conn = [conn EXCEPT ![<<t, side>>] =
                              [fd |-> conn[<<t, side>>].fd, status |-> "Connected", rd |-> TRUE, wr |-> FALSE]]
      <4>1. Sockets(t, w.conn) = [Sockets(t, conn) EXCEPT ![side] = AsSession(t)!Connected]
        <5>1. \A s \in Side : s # side => w.conn[<<t, s>>] = conn[<<t, s>>]
          BY <1>t, <3>2
        <5>2. /\ w.conn[<<t, side>>].status = "Connected" /\ w.conn[<<t, side>>].rd = TRUE
              /\ w.conn[<<t, side>>].wr = FALSE
          BY <1>t, <3>2
        <5> QED
          BY <5>1, <5>2 DEF Sockets, AsSession!Connected
      <4>2. Status(t)[side] = "Connecting"
        BY <3>2 DEF Status
      <4> QED
        BY <2>3, <2>4, <2>5, <3>2, <4>1, <4>2, SameEffects DEF AsSession!Writable
    <3> QED
      BY <2>2, <3>1, <3>2
  <2>7. \A d \in Conn : d[1] # t => w.conn[d] = conn[d]
    <3>1. \A d \in Conn : d[1] # t => d # <<t, side>>
      OBVIOUS
    <3> QED
      BY <1>t, <2>2, <3>1
  <2> QED
    BY <1>1, <2>1, <2>2, <2>f, <2>6, <2>7
<1> QED
  BY <1>2, <1>3

\* A client who is accepted begins the session of his tunnel, or fails to.
LEMMA AcceptIsSession ==
  ASSUME Inv, NEW t \in Tunnel, NEW connfd \in Fd, Accept(t, connfd)
  PROVE  /\ AsSession(t)!Accept \/ AsSession(t)!AcceptFails
         /\ \A u \in Tunnel : u # t => UNCHANGED AsSession(u)!vars
<1>t. /\ conn \in [Conn -> ConnType] /\ file \in [Tunnel -> Fd \cup {NoFd}] /\ PoolOK
      /\ \A u \in Tunnel, side \in Side : <<u, side>> \in Conn
  BY OwnedTypes DEF Inv, Owned, GoodWorld, WorldType, Conn
<1>1. /\ Idle(t) /\ Blank(t) /\ t \notin broken /\ alive' = alive \cup {t}
      /\ Range(free') = Range(free) \ {t} /\ Owned(World)'
  BY AcceptLaw, AcceptedFacts
<1>2. Place(t) = "free"
  BY <1>1 DEF Place, Idle
<1>o. ASSUME NEW u \in Tunnel, u # t, \A s \in Side : conn'[<<u, s>>] = conn[<<u, s>>],
             file'[u] = file[u], u \in broken' <=> u \in broken, u \in handled' <=> u \in handled
      PROVE  UNCHANGED AsSession(u)!vars
  <2>1. Place(u)' = Place(u)
    BY <1>1, <1>o DEF Place
  <2> QED
    BY <1>o, <2>1, SameSession
<1>3. CASE FailsToStart(t)
  <2>1. Place(t)' = "broken"
    BY <1>3 DEF FailsToStart, Place
  <2>2. /\ [s \in Side |-> SocketOf(<<t, s>>)]' = [s \in Side |-> SocketOf(<<t, s>>)]
        /\ (file[t] # NoFd)' = (file[t] # NoFd) /\ (t \in handled)' = (t \in handled)
    BY <1>3 DEF FailsToStart, SocketOf
  <2>3. AsSession(t)!AcceptFails
    BY <1>2, <2>1, <2>2 DEF AsSession!AcceptFails
  <2>4. \A u \in Tunnel : u # t => UNCHANGED AsSession(u)!vars
    BY <1>3, <1>o DEF FailsToStart
  <2> QED
    BY <2>3, <2>4
<1>4. ASSUME handled' = handled \cup {t}, NEW proxyfd \in Fd, NEW kind, NEW w,
             Starts(t, connfd, proxyfd, kind, w), Effect(w, t, kind, "proxy")
      PROVE  /\ AsSession(t)!Accept
             /\ \A u \in Tunnel : u # t => UNCHANGED AsSession(u)!vars
  <2>1. Owned(w) /\ w.file = file /\ w.broken = broken /\ "proxy" \in Side /\ "local" \in Side
    BY <1>4 DEF Starts, Side
  <2>2. AsSession(t)!After(Sockets(t, w.conn), <<kind, "proxy">>, "active")
    BY <1>1, <1>t, <1>4, <2>1, EffectIsAfter
  <2>3. (t \in handled)' = TRUE
    BY <1>4
  <2>s. \A side \in Side : Sockets(t, w.conn)[side] =
          [status |-> w.conn[<<t, side>>].status,
           rd |-> w.conn[<<t, side>>].rd, wr |-> w.conn[<<t, side>>].wr]
    BY DEF Sockets
  <2>w. \A side \in Side, fd \in Fd : w.conn[<<t, side>>] = Watching(fd) =>
          Sockets(t, w.conn)[side] = AsSession(t)!Connected
    <3> TAKE side \in Side, fd \in Fd
    <3> HAVE w.conn[<<t, side>>] = Watching(fd)
    <3>1. /\ w.conn[<<t, side>>].status = "Connected"
          /\ w.conn[<<t, side>>].rd = TRUE /\ w.conn[<<t, side>>].wr = FALSE
      BY DEF Watching
    <3> QED
      BY <2>s, <3>1 DEF AsSession!Connected
  <2>4. Sockets(t, w.conn)["local"] = AsSession(t)!Connected
    BY <1>4, <2>1, <2>w DEF Starts
  <2>5. ASSUME kind = "none", w.conn[<<t, "proxy">>] = Awaiting(proxyfd)
        PROVE  AsSession(t)!Accept
    <3>1. Sockets(t, w.conn)["proxy"] = AsSession(t)!Connecting
      <4>1. /\ w.conn[<<t, "proxy">>].status = "Connecting"
            /\ w.conn[<<t, "proxy">>].rd = FALSE /\ w.conn[<<t, "proxy">>].wr = TRUE
        BY <2>5 DEF Awaiting
      <4> QED
        BY <2>1, <2>s, <4>1 DEF AsSession!Connecting
    <3>2. Sockets(t, w.conn) = [local |-> AsSession(t)!Connected, proxy |-> AsSession(t)!Connecting]
      BY <2>4, <3>1 DEF Sockets, Side
    <3>3. AsSession(t)!After([local |-> AsSession(t)!Connected, proxy |-> AsSession(t)!Connecting],
                             <<"none", "proxy">>, "active")
      BY <2>2, <2>5, <3>2
    <3> QED
      BY <1>2, <2>3, <3>3 DEF AsSession!Accept
  <2>6. ASSUME <<kind, "proxy">> \in SendEffects("proxy"), w.conn[<<t, "proxy">>] = Watching(proxyfd)
        PROVE  AsSession(t)!Accept
    <3>1. Sockets(t, w.conn)["proxy"] = AsSession(t)!Connected
      BY <2>1, <2>6, <2>w
    <3>2. Sockets(t, w.conn) = [side \in Side |-> AsSession(t)!Connected]
      BY <2>4, <3>1 DEF Sockets, Side
    <3>3. AsSession(t)!After([side \in AsSession(t)!Side |-> AsSession(t)!Connected],
                             <<kind, "proxy">>, "active")
      BY <2>2, <3>2, SessionIs
    <3>4. <<kind, "proxy">> \in AsSession(t)!SendEffects("proxy")
      BY <2>6, SameEffects
    <3> QED
      BY <1>2, <2>3, <3>3, <3>4 DEF AsSession!Accept
  <2>7. AsSession(t)!Accept
    BY <1>4, <2>5, <2>6 DEF Starts
  <2>8. ASSUME NEW u \in Tunnel, u # t PROVE UNCHANGED AsSession(u)!vars
    <3>1. \A s \in Side : <<u, s>> \in Conn /\ <<u, s>>[1] # t
      BY <2>8 DEF Conn
    <3>2. \A d \in Conn : d[1] # t => conn'[d] = conn[d]
      BY <1>4 DEF Starts, Effect
    <3>3. file'[u] = file[u] /\ (u \in broken' <=> u \in broken) /\ (u \in handled' <=> u \in handled)
      BY <1>4, <1>t, <2>1, <2>8 DEF Effect
    <3> QED
      BY <1>o, <2>8, <3>1, <3>2, <3>3
  <2> QED
    BY <2>7, <2>8
<1> QED
  BY <1>3, <1>4, AcceptLaw

\* A tunnel that is recycled or deleted is a session that may begin again.
LEMMA ReclaimIsSession ==
  ASSUME Inv, NEW t \in Tunnel, ReclaimTunnel(t)
  PROVE  /\ AsSession(t)!Reclaim
         /\ \A u \in Tunnel : u # t => UNCHANGED AsSession(u)!vars
<1>1. /\ conn' = conn /\ file' = file /\ t \in broken /\ broken' = broken \ {t}
      /\ \/ Len(free) >= CACHE_TUN_SIZE /\ alive' = alive \ {t} /\ handled' = handled \ {t} /\ free' = free
         \/ Len(free) < CACHE_TUN_SIZE /\ free' = Append(free, t) /\ alive' = alive /\ handled' = handled
  <2>1. Len(free) \in Nat /\ CACHE_TUN_SIZE \in Nat
    BY LenProperties, ClientAssumption DEF Inv, RestOK
  <2> QED
    BY <2>1 DEF ReclaimTunnel, sockets
<1>2. \/ alive' = alive \ {t} /\ handled' = handled \ {t} /\ Range(free') = Range(free)
      \/ Range(free') = Range(free) \cup {t} /\ alive' = alive /\ handled' = handled
  <2>1. Distinct(free) /\ t \notin Range(free) /\ free \in Seq(Tunnel)
    BY <1>1 DEF Inv, PoolOK, RestOK
  <2>2. Range(Append(free, t)) = Range(free) \cup {t}
    BY <2>1, PutLast
  <2> QED
    BY <1>1, <2>2
<1>3. Place(t) = "broken" /\ Place(t)' = "free"
  BY <1>1, <1>2 DEF Place
<1>4. (t \in handled)' \in {(t \in handled), FALSE}
  <2>1. (t \in handled)' = (t \in handled) \/ (t \in handled)' = FALSE
    BY <1>2
  <2> QED
    BY ONLY <2>1, Zenon
<1>5. /\ [s \in Side |-> SocketOf(<<t, s>>)]' = [s \in Side |-> SocketOf(<<t, s>>)]
      /\ (file[t] # NoFd)' = (file[t] # NoFd)
  BY <1>1 DEF SocketOf
<1>6. AsSession(t)!Reclaim
  BY <1>3, <1>4, <1>5 DEF AsSession!Reclaim
<1>7. ASSUME NEW u \in Tunnel, u # t PROVE UNCHANGED AsSession(u)!vars
  <2>1. Place(u)' = Place(u) /\ (u \in handled' <=> u \in handled)
    BY <1>1, <1>2, <1>7 DEF Place
  <2> QED
    BY <1>1, <2>1, SameSession
<1> QED
  BY <1>6, <1>7

\* Every step is, for each tunnel, a step of its session or none.
LEMMA SessionNext ==
  ASSUME Inv, [Next]_vars, NEW t \in Tunnel
  PROVE  AsSession(t)!Next \/ UNCHANGED AsSession(t)!vars
<1>1. CASE \/ RunLoop \/ TestLoop \/ ExitLoop \/ Reclaimed \/ EndPass \/ Select
           \/ StopAccepting \/ ClientArrives \/ Terminated \/ UNCHANGED vars
           \/ \E fd \in Fd : TriggerNobody(fd) \/ StartAccepting(fd)
  <2>1. UNCHANGED <<sockets, pool>>
    BY <1>1, QuietPass
  <2>2. Place(t)' = Place(t)
    BY <2>1 DEF Place, pool
  <2> QED
    BY <2>1, <2>2, SameSession DEF sockets, pool
<1>2. CASE \E fd \in Fd : Readable(fd) \/ Writable(fd)
  BY <1>2, EventIsSession, SessionIs DEF AsSession!Next
<1>3. CASE \E u \in Tunnel : \E connfd \in Fd : Accept(u, connfd)
  BY <1>3, AcceptIsSession DEF AsSession!Next
<1>4. CASE \E u \in Tunnel : ReclaimTunnel(u)
  BY <1>4, ReclaimIsSession DEF AsSession!Next
<1> QED
  BY <1>1, <1>2, <1>3, <1>4 DEF Next, MainThread, Dispatch

\* Among any number of others each tunnel remains the Session that it is alone,
\* whichever descriptors it is given and however often it is recycled.
THEOREM TunnelsRefineSession == Spec => TunnelsAreSessions
<1>1. Init => \A t \in Tunnel : AsSession(t)!Init
  BY SessionInit
<1>2. Inv /\ [Next]_vars => [\A t \in Tunnel : AsSession(t)!Next \/ UNCHANGED AsSession(t)!vars]_vars
  BY SessionNext
<1> QED
  BY <1>1, <1>2, PoolInvariant, PTL DEF Spec, TunnelsAreSessions
=============================================================================
