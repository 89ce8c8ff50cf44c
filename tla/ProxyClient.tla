---------------------------- MODULE ProxyClient ----------------------------
(***************************************************************************)
(* The classes ProxyClient and Listener (src/proxy_client.cpp,             *)
(* src/listener.cpp) with the poller that drives them: the loop of         *)
(* select() passes, the tunnels that are in use, broken or kept for the    *)
(* next client, and the descriptors that their connections hold.           *)
(*                                                                         *)
(* ProxyTunnel.tla has the bytes, the phases and the callbacks of one      *)
(* tunnel.  Here a callback has one of the effects that SessionEffects     *)
(* allows it, and ProxyTunnel is shown to have no others.                  *)
(*                                                                         *)
(* A method is an operator on the world w, the record of what connections  *)
(* touch.                                                                  *)
(***************************************************************************)
EXTENDS SelectPoller, SessionEffects, Sequences, Functions

CONSTANTS
  CACHE_TUN_SIZE,  \* tunnels kept for reuse
  MaxAccepts,      \* clients accepted in one notification (32 in the code)
  MaxTunnels,      \* bound: tunnel objects at a time
  MaxBacklog       \* bound: clients that wait to be accepted

ASSUME ClientAssumption ==
  /\ {CACHE_TUN_SIZE, MaxAccepts, MaxBacklog} \subseteq Nat
  /\ MaxTunnels \in Nat /\ FdLimit > 1 /\ SetSize > 1

VARIABLES
  poller,   \* mEventPoller
  conn,     \* the connections of each tunnel object
  file,     \* the descriptor of each tunnel's disk cache
  open,     \* the descriptors that are open, as the kernel knows them
  alive,    \* the tunnel objects that were allocated and not deleted
  handled,  \* those that know their handler
  free,     \* mFreeTuns
  broken,   \* mBrokenTuns
  mbLoop,
  at,       \* where the main thread is: "off" (before runLoop), "test",
            \* "select", "dispatch", "accept", "reclaim", "ended"
  reads, writes, ready,  \* readFDs, writeFDs (what is left of them), countReady
  accepts,  \* newConns
  backlog,  \* clients that wait to be accepted
  fresh     \* the connections opened in this pass of the loop

sockets == <<poller, conn, file, open>>
pool    == <<alive, handled, free, broken>>
pass    == <<reads, writes, ready, accepts>>
vars    == <<sockets, pool, mbLoop, at, pass, backlog, fresh>>

Tunnel == 1 .. MaxTunnels
Conn   == Tunnel \X Side
NoFd   == -1

\* The log file and the listener were opened first, and stay open.
LogFd    == 0
ListenFd == 1

ClosedConn == [fd |-> NoFd, status |-> "Closed", rd |-> FALSE, wr |-> FALSE]

World ==
  [poller |-> poller, conn |-> conn, file |-> file, open |-> open, broken |-> broken]

Become(w) ==
  /\ poller' = w.poller /\ conn' = w.conn /\ file' = w.file
  /\ open' = w.open /\ broken' = w.broken

-----------------------------------------------------------------------------
(* Connection: its registrations and its descriptor.                       *)

TryRegReadEvent(w, c) ==
  IF w.conn[c].rd THEN w
  ELSE [w EXCEPT !.conn[c].rd = TRUE,
                 !.poller = RegisterForRead(@, w.conn[c].fd, c)]

TryRegWriteEvent(w, c) ==
  IF w.conn[c].wr THEN w
  ELSE [w EXCEPT !.conn[c].wr = TRUE,
                 !.poller = RegisterForWrite(@, w.conn[c].fd, c)]

TryUnregReadEvent(w, c) ==
  IF ~ w.conn[c].rd THEN w
  ELSE [w EXCEPT !.conn[c].rd = FALSE,
                 !.poller = DeregisterForRead(@, w.conn[c].fd)]

TryUnregWriteEvent(w, c) ==
  IF ~ w.conn[c].wr THEN w
  ELSE [w EXCEPT !.conn[c].wr = FALSE,
                 !.poller = DeregisterForWrite(@, w.conn[c].fd)]

\* MUTANT of ShutdownConn: the descriptor is closed while it is watched.
ShutdownWatched(w, c) ==
  IF w.conn[c].fd = NoFd THEN w
  ELSE [TryUnregReadEvent(w, c) EXCEPT !.open = @ \ {w.conn[c].fd}, !.conn[c] = ClosedConn]

ShutdownConn(w, c) ==
  IF w.conn[c].fd = NoFd THEN w
  ELSE [TryUnregReadEvent(TryUnregWriteEvent(w, c), c)
          EXCEPT !.open = @ \ {w.conn[c].fd}, !.conn[c] = ClosedConn]

\* MUTANT of ClearFile: the file stays open.
ClearFileForgets(w, t) == [w EXCEPT !.file[t] = NoFd]

\* DiskCache::clear().
ClearFile(w, t) == [w EXCEPT !.open = @ \ {w.file[t]}, !.file[t] = NoFd]

\* MUTANT of EndSession: the connection to the proxy stays.
EndSessionHalf(w, t) ==
  LET v == ClearFile(ShutdownConn(w, <<t, "local">>), t)
  IN  IF t \in handled THEN [v EXCEPT !.broken = @ \cup {t}] ELSE v

\* Every way a session ends: both connections down, the cache cleared, and
\* onClosed or onError of a handler that is known.
EndSession(w, t) ==
  LET v == ClearFile(ShutdownConn(ShutdownConn(w, <<t, "local">>), <<t, "proxy">>), t)
  IN  IF t \in handled THEN [v EXCEPT !.broken = @ \cup {t}] ELSE v

\* The file takes the lowest descriptor that is free.
Spills(t) == {fd \in Fd \ open : file[t] = NoFd /\ \A other \in Fd \ open : fd <= other}

\* An effect of a callback of tunnel t, in the world w.
Happens(w, t, effect) ==
  LET c == <<t, effect[2]>>
  IN  \/ effect[1] = "none"  /\ Become(w)
      \/ effect[1] = "keep"  /\ \E v \in {TryRegWriteEvent(w, c)} : Become(v)
      \/ effect[1] = "sent"  /\ \E v \in {TryUnregWriteEvent(w, c)} : Become(v)
      \/ effect[1] = "spill" /\ \E fd \in Spills(t) :
           Become([w EXCEPT !.file[t] = fd, !.open = @ \cup {fd}])
      \/ effect[1] = "end"   /\ \E v \in {EndSession(w, t)} : Become(v)

Status(t) == [side \in Side |-> conn[<<t, side>>].status]

-----------------------------------------------------------------------------
(* runLoop() and exitLoop().                                               *)

Init ==
  /\ poller = RegisterForRead(NewPoller, ListenFd, Listener)
  /\ conn = [c \in Conn |-> ClosedConn]
  /\ file = [t \in Tunnel |-> NoFd]
  /\ open = {LogFd, ListenFd}
  /\ alive = {} /\ handled = {} /\ free = <<>> /\ broken = {}
  /\ mbLoop = FALSE /\ at = "off"
  /\ reads = {} /\ writes = {} /\ ready = 0 /\ accepts = 0
  /\ backlog = 0 /\ fresh = {}

RunLoop ==
  /\ at = "off"
  /\ mbLoop' = TRUE /\ at' = "test"
  /\ UNCHANGED <<sockets, pool, pass, backlog, fresh>>

\* MUTANT of TestLoop: the loop goes on while tunnels are in use.
TestLoopDrains ==
  /\ at = "test"
  /\ at' = IF mbLoop \/ alive # Range(free) THEN "select" ELSE "ended"
  /\ UNCHANGED <<sockets, pool, mbLoop, pass, backlog, fresh>>

TestLoop ==
  /\ at = "test"
  /\ at' = IF mbLoop THEN "select" ELSE "ended"
  /\ UNCHANGED <<sockets, pool, mbLoop, pass, backlog, fresh>>

\* Called by the signal handler, at any time.
ExitLoop ==
  /\ at # "ended" /\ mbLoop
  /\ mbLoop' = FALSE
  /\ UNCHANGED <<sockets, pool, at, pass, backlog, fresh>>

\* MUTANT of ReclaimTunnel: mBrokenTuns keeps the tunnel.
ReclaimTwice(t) ==
  /\ at = "reclaim" /\ t \in broken
  /\ IF Len(free) >= CACHE_TUN_SIZE
     THEN alive' = alive \ {t} /\ handled' = handled \ {t} /\ UNCHANGED free
     ELSE free' = Append(free, t) /\ UNCHANGED <<alive, handled>>
  /\ UNCHANGED <<sockets, broken, mbLoop, at, pass, backlog, fresh>>

\* The tunnels of the set are taken in the order of their addresses.
ReclaimTunnel(t) ==
  /\ at = "reclaim" /\ t \in broken
  /\ broken' = broken \ {t}
  /\ IF Len(free) >= CACHE_TUN_SIZE
     THEN alive' = alive \ {t} /\ handled' = handled \ {t} /\ UNCHANGED free
     ELSE free' = Append(free, t) /\ UNCHANGED <<alive, handled>>
  /\ UNCHANGED <<sockets, mbLoop, at, pass, backlog, fresh>>

Reclaimed ==
  /\ at = "reclaim" /\ broken = {}
  /\ at' = "test" /\ fresh' = {}
  /\ UNCHANGED <<sockets, pool, mbLoop, pass, backlog>>

-----------------------------------------------------------------------------
(* processPendingEvents().                                                 *)

\* Among the watched descriptors up to mMaxFd some are ready, the listener when
\* clients wait.  Without a count of writers select() is not given writeFDs,
\* and leaves them as they are.
Select ==
  /\ at = "select"
  /\ \E r \in SUBSET {fd \in poller.reads : fd <= poller.top},
        w \in SUBSET {fd \in poller.writes : fd <= poller.top} :
       /\ ListenFd \in {fd \in poller.reads : fd <= poller.top} /\ backlog > 0 <=> ListenFd \in r
       /\ poller.count = 0 => w = {}
       /\ reads' = r
       /\ writes' = IF poller.count = 0 THEN poller.writes ELSE w
       /\ ready' = Cardinality(r) + Cardinality(w)
       /\ at' = IF r \cup w = {} THEN "reclaim" ELSE "dispatch"
  /\ UNCHANGED <<sockets, pool, mbLoop, accepts, backlog, fresh>>

\* MUTANT of Due: in any order.
DueAnyOrder(fd) ==
  at = "dispatch" /\ ready > 0 /\ fd <= poller.top /\ fd \in reads \cup writes

\* The loop of handleNotifications(): descriptors in increasing order, for each
\* of them the read event before the write event.
Due(fd) ==
  /\ at = "dispatch" /\ ready > 0 /\ fd <= poller.top
  /\ fd \in reads \cup writes /\ \A other \in reads \cup writes : fd <= other
DueRead(fd) ==
  /\ Due(fd) /\ fd \in reads
  /\ reads' = reads \ {fd} /\ ready' = ready - 1
  /\ UNCHANGED writes
DueWrite(fd) ==
  /\ Due(fd) /\ fd \notin reads
  /\ writes' = writes \ {fd} /\ ready' = ready - 1
  /\ UNCHANGED reads

EndPass ==
  /\ at = "dispatch" /\ \A fd \in Fd : ~ Due(fd)
  /\ at' = "reclaim" /\ reads' = {} /\ writes' = {} /\ ready' = 0
  /\ UNCHANGED <<sockets, pool, mbLoop, accepts, backlog, fresh>>

\* triggerRead() and triggerWrite() when the handler is gone.
TriggerNobody(fd) ==
  /\ \/ DueRead(fd) /\ poller.readers[fd] = Nobody
     \/ DueWrite(fd) /\ poller.writers[fd] = Nobody
  /\ UNCHANGED <<sockets, pool, mbLoop, at, accepts, backlog, fresh>>

\* An event of connection c that is not the listener's changes the world.
OfConnection == UNCHANGED <<alive, handled, free, mbLoop, at, accepts, backlog, fresh>>

\* handleInputNotification() of a connection.
Readable(fd) ==
  /\ DueRead(fd) /\ poller.readers[fd] \in Conn
  /\ LET c == poller.readers[fd]
     IN  \E effect \in InputEffects(Status(c[1]), c[2]) : Happens(World, c[1], effect)
  /\ OfConnection

\* handleOutputNotification() of c.  A connect() that succeeded: c is watched
\* for reading instead of writing, and onConnected() sends the request.
ConnectedConn(c) ==
  [TryRegReadEvent(TryUnregWriteEvent(World, c), c) EXCEPT !.conn[c].status = "Connected"]

Writable(fd) ==
  /\ DueWrite(fd) /\ poller.writers[fd] \in Conn
  /\ LET c == poller.writers[fd]
     IN  \/ \E effect \in OutputEffects(Status(c[1]), c[2]) : Happens(World, c[1], effect)
         \/ /\ conn[c].status = "Connecting"
            /\ \E effect \in SendEffects(c[2]), w \in {ConnectedConn(c)} :
                 Happens(w, c[1], effect)
  /\ OfConnection

-----------------------------------------------------------------------------
(* Listener::handleInputNotification() and ProxyClient::onAccept().        *)

StartAccepting(fd) ==
  /\ DueRead(fd) /\ poller.readers[fd] = Listener
  /\ at' = "accept" /\ accepts' = 0
  /\ UNCHANGED <<sockets, pool, mbLoop, backlog, fresh>>

\* accept() has nobody, or no descriptor for him, or it is enough for now; or
\* the bound on tunnel objects is reached.
OutOfTunnels == free = <<>> /\ Tunnel \subseteq alive
NoMore ==
  \/ backlog = 0
  \/ Fd \subseteq open
  \/ accepts = MaxAccepts
  \/ OutOfTunnels

StopAccepting ==
  /\ at = "accept" /\ NoMore
  /\ at' = "dispatch"
  /\ UNCHANGED <<sockets, pool, mbLoop, pass, backlog, fresh>>

\* A client is accepted on the lowest descriptor that is free, and gets a
\* tunnel from the pool or a new one.
Accepted(t, connfd) ==
  /\ at = "accept" /\ ~ NoMore
  /\ connfd \in Fd \ open /\ \A other \in Fd \ open : connfd <= other
  /\ IF free # <<>> THEN t = Head(free) /\ free' = Tail(free)
     ELSE t \in Tunnel \ alive /\ (\A other \in Tunnel \ alive : t <= other) /\ UNCHANGED free
  /\ alive' = alive \cup {t}
  /\ backlog' = backlog - 1 /\ accepts' = accepts + 1
  /\ UNCHANGED <<mbLoop, at, reads, writes, ready>>

\* acceptConnection(): the client's connection is open and watched.
WithLocal(t, connfd) ==
  LET c == <<t, "local">>
  IN  TryRegReadEvent([World EXCEPT !.open = @ \cup {connfd}, !.conn[c].fd = connfd,
                                    !.conn[c].status = "Connected"], c)

\* acceptLocal() fails: the client's socket cannot be made non-blocking, or
\* socket() or connect() fails.  acceptLocal() has closed connfd, onAccept()
\* closes it again, and the tunnel is broken though it has no handler.
AcceptFails(t, connfd) ==
  /\ Accepted(t, connfd)
  /\ \E w \in {ShutdownConn(WithLocal(t, connfd), <<t, "local">>)} :
       Become([w EXCEPT !.open = @ \ {connfd}, !.broken = @ \cup {t}])
  /\ UNCHANGED <<handled, fresh>>

\* The rest of acceptLocal(): the proxy's connection on the next descriptor.
Connecting(t, connfd, proxyfd, status) ==
  LET w == WithLocal(t, connfd)
  IN  [w EXCEPT !.open = @ \cup {proxyfd}, !.conn[<<t, "proxy">>].fd = proxyfd,
                !.conn[<<t, "proxy">>].status = status]

ConnectStarts(t, connfd, proxyfd) ==
  /\ Accepted(t, connfd)
  /\ proxyfd \in Fd \ (open \cup {connfd})
  /\ \A other \in Fd \ (open \cup {connfd}) : proxyfd <= other
  /\ handled' = handled \cup {t}
  /\ fresh' = fresh \cup ({t} \X Side)

ConnectPending(t, connfd, proxyfd) ==
  /\ ConnectStarts(t, connfd, proxyfd)
  /\ \E w \in {TryRegWriteEvent(Connecting(t, connfd, proxyfd, "Connecting"), <<t, "proxy">>)} :
       Become(w)

\* connect() answers at once, and onConnected() sends the request.
ConnectNow(t, connfd, proxyfd) ==
  /\ ConnectStarts(t, connfd, proxyfd)
  /\ \E w \in {TryRegReadEvent(Connecting(t, connfd, proxyfd, "Connected"), <<t, "proxy">>)},
        effect \in SendEffects("proxy") : Happens(w, t, effect)

Accept(t, connfd) ==
  \/ \E proxyfd \in Fd : ConnectPending(t, connfd, proxyfd) \/ ConnectNow(t, connfd, proxyfd)
  \/ AcceptFails(t, connfd)

-----------------------------------------------------------------------------

ClientArrives ==
  /\ at # "ended" /\ backlog < MaxBacklog
  /\ backlog' = backlog + 1
  /\ UNCHANGED <<sockets, pool, mbLoop, at, pass, fresh>>

Dispatch(fd) == TriggerNobody(fd) \/ Readable(fd) \/ Writable(fd) \/ StartAccepting(fd)

MainThread ==
  \/ RunLoop \/ TestLoop \/ Select \/ EndPass
  \/ \E fd \in Fd : Dispatch(fd)
  \/ StopAccepting
  \/ \E t \in Tunnel, connfd \in Fd : Accept(t, connfd)
  \/ \E t \in Tunnel : ReclaimTunnel(t)
  \/ Reclaimed

Terminated == at = "ended" /\ UNCHANGED vars

Next == MainThread \/ ExitLoop \/ ClientArrives \/ Terminated

Spec == Init /\ [][Next]_vars

\* The main thread is scheduled until it has ended: clients and signals do not
\* keep it from its next step.  (The runs find no deadlock, so MainThread is
\* enabled until then and this is WF_vars(MainThread).)
Environment == backlog' > backlog \/ (mbLoop /\ ~ mbLoop')
Fairness == <>[](at = "ended") \/ []<><<~ Environment>>_vars

FairSpec == Spec /\ Fairness
=============================================================================
