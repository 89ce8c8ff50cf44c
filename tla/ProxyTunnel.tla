----------------------------- MODULE ProxyTunnel -----------------------------
(***************************************************************************)
(* The class ProxyTunnel (src/proxy_tunnel.h, src/proxy_tunnel.cpp): the   *)
(* connection accepted from a local client, the connection to the HTTP     *)
(* proxy, and the cache that holds what the client sends until the proxy   *)
(* has answered the CONNECT request.  One tunnel object serves one client  *)
(* after another (a session each), as ProxyClient recycles it.             *)
(*                                                                         *)
(* The program is a single-threaded select() loop, so an action is one     *)
(* dispatch of the poller with every callback nested in it.  A method is   *)
(* an operator on the world w, the record of all variables; a method that  *)
(* may call ::send is the set of worlds it can lead to.                    *)
(***************************************************************************)
EXTENDS Connection, Cache, SequencesExt

CONSTANTS
  HeaderRoom,        \* the tokens that mHttpHeader can hold
  ConnectOutcomes,   \* what ::connect may answer: "now", "progress", "fail"
  ServerSpeaksFirst, \* the server may write before it has heard the client
  DiskFaults,        \* the ways in which a write to the cache's file may fail
  MaxSessions,       \* bound: clients served
  MaxClient,         \* bound: bytes a client writes
  MaxServer,         \* bound: bytes a server writes
  MaxExtra           \* bound: header lines after the status line

ASSUME TunnelAssumption ==
  /\ HeaderRoom \in Nat
  /\ ConnectOutcomes \subseteq {"now", "progress", "fail"}
  /\ ServerSpeaksFirst \in BOOLEAN
  /\ DiskFaults \subseteq {"none", "torn"}
  /\ {MaxSessions, MaxClient, MaxServer, MaxExtra} \subseteq Nat

VARIABLES
  local, proxy,    \* mLocalConn, mProxyConn
  cache,           \* mLocalCache
  status,          \* mProxyStatus
  header,          \* mHttpHeader
  handler,         \* whether mHandler is set
  place,           \* where ProxyClient has the tunnel: "free" (or not yet
                   \* allocated), "active", "broken"; "crashed" ends the process
  errno,
  net              \* the kernel and the two peers, see NewNet

vars == <<local, proxy, cache, status, header, handler, place, errno, net>>

-----------------------------------------------------------------------------
(* Tokens.  A token stands for the bytes that matter together: a line of a *)
(* header, the empty line that ends it, or a byte of one party in one      *)
(* session.                                                                *)

ConnectLine  == -1
BlankLine    == -2
StatusOK     == -3   \* contains SSL_CONNECTION_RESPONSE_OK
StatusDenied == -4   \* any other status line
HeaderLine   == -5

Request == <<ConnectLine, BlankLine>>

\* The k-th byte in session s: even from the client, odd from the server.
Numbered(s, k)   == (1 + MaxClient + MaxServer) * s + k
ClientByte(s, k) == 2 * Numbered(s, k)
ServerByte(s, k) == 2 * Numbered(s, k) + 1
IsServerByte(t)  == t > 0 /\ t % 2 = 1

\* in[c], end[c]: what waits to be read on connection c, and the peer's side of
\* it; up, down: what the kernel took for the proxy and for the client;
\* fault: the connections on which a system call really failed; blamed: those
\* whose onError ran; badDisk: a write to the cache's file failed; client, server, extra: how much was written; answer: how
\* far the proxy's header is (0 nothing, 1 begun, 2 ended); ok: it said yes.
NewNet(s) ==
  [in     |-> [local |-> <<>>, proxy |-> <<>>],
   end    |-> [local |-> "open", proxy |-> "open"],
   up     |-> <<>>, down |-> <<>>,
   fault  |-> {}, blamed |-> {}, badDisk |-> FALSE,
   client |-> 0, server |-> 0, extra |-> 0, answer |-> 0, ok |-> FALSE,
   session |-> s]

World ==
  [local |-> local, proxy |-> proxy, cache |-> cache, status |-> status,
   header |-> header, handler |-> handler, place |-> place, errno |-> errno, net |-> net]

Become(w) ==
  /\ local' = w.local /\ proxy' = w.proxy /\ cache' = w.cache /\ status' = w.status
  /\ header' = w.header /\ handler' = w.handler /\ place' = w.place
  /\ errno' = w.errno /\ net' = w.net

-----------------------------------------------------------------------------
(* Teardown.                                                               *)

WithoutHandler(c) == [c EXCEPT !.handler = FALSE]
Dropped(c) == Shutdown(WithoutHandler(c))

\* MUTANT of Cleanup: the cache is not cleared.
CleanupKeepsCache(w) ==
  [w EXCEPT !.local = Dropped(@), !.status = "Closed", !.proxy = Dropped(@)]

Cleanup(w) ==
  [w EXCEPT !.cache = ClearCache(@), !.local = Dropped(@),
            !.status = "Closed", !.proxy = Dropped(@)]

\* MUTANT of Upcall: ProxyClient does not keep the tunnel among the broken ones.
UpcallForgets(w) == IF w.handler THEN Cleanup(w) ELSE w

\* _onClose and _onError: ProxyClient cleans the tunnel up and keeps it among
\* the broken ones.
Upcall(w) == IF w.handler THEN [Cleanup(w) EXCEPT !.place = "broken"] ELSE w

\* MUTANT of GiveUp: _onError() is not called.
GiveUpSilently(w) == [w EXCEPT !.proxy = WithoutHandler(@)]

\* setEventHandler(NULL) on the proxy connection, then _onError().
GiveUp(w) == Upcall([w EXCEPT !.proxy = WithoutHandler(@)])

OnErrorProxy(w) ==
  Upcall([w EXCEPT !.proxy = Dropped(@), !.cache = ClearCache(@), !.local = Dropped(@),
                   !.net.blamed = @ \cup {"proxy"}])

\* Adopt the result r of a method of mProxyConn that writes.
AfterProxyWrite(w, r) ==
  LET v == [w EXCEPT !.proxy = r.conn, !.errno = r.errno, !.net.up = @ \o r.out,
                     !.net.fault = @ \cup (IF r.fault THEN {"proxy"} ELSE {})]
  IN  IF r.failed /\ r.conn.handler THEN OnErrorProxy(v) ELSE v

SendProxy(w, data) == {AfterProxyWrite(w, r) : r \in Send(w.proxy, w.errno, data)}

-----------------------------------------------------------------------------
(* flushLocal: Cache::flushAll with onFlushLocal, which always returns true. *)

\* The head of the list.  When the send failed, onError has cleared the list
\* under the iterator: the loop reads the freed node and frees its data again,
\* on which the allocator aborts the process.
FlushPiece(w) ==
  {IF v.cache.mem = <<>> THEN [v EXCEPT !.place = "crashed"]
   ELSE [v EXCEPT !.cache = DropMemHead(@)] : v \in SendProxy(w, Head(w.cache.mem))}

\* The head record of the file; clear() in the meantime just ends the loop.
FlushRecord(w) ==
  LET sz == PeekSize(w.cache.file)
  IN  IF sz = 0 THEN {w}
      ELSE SendProxy([w EXCEPT !.cache = DropFileHead(@, sz)], DiskRead(w.cache.file, sz))

\* A turn of the first loop as long as it has a piece, then of the second.
FlushTurn(w) ==
  IF w.place = "crashed" THEN {w}
  ELSE IF w.cache.mem # <<>> THEN FlushPiece(w) ELSE FlushRecord(w)

\* There are no more turns than pieces and cells, and a turn too many does nothing.
FlushLocal(w) ==
  IF w.status # "Connected" THEN {w}
  ELSE LET turns == Len(w.cache.mem) + Len(w.cache.file.cells)
           after[k \in 0 .. turns] ==
             IF k = 0 THEN {w} ELSE UNION {FlushTurn(v) : v \in after[k - 1]}
       IN  after[turns]

-----------------------------------------------------------------------------
(* The callbacks of the two connections.                                   *)

\* MUTANT of OnConnectedProxy: the header of the last session stays.
OnConnectedProxyStale(w) == SendProxy([w EXCEPT !.status = "Connecting"], Request)

OnConnectedProxy(w) ==
  SendProxy([w EXCEPT !.status = "Connecting", !.header = <<>>], Request)

\* onError and onDisconnected of mLocalConn: they differ in the handler that
\* mProxyConn keeps until the cleanup.
LocalGone(w, keep) ==
  {IF v.place = "crashed" THEN v
   ELSE Upcall([v EXCEPT !.status = "Closed",
                         !.proxy = IF keep THEN Shutdown(@) ELSE Dropped(@)]) :
     v \in FlushLocal([w EXCEPT !.local = Shutdown(@)])}

OnErrorLocal(w) == LocalGone([w EXCEPT !.net.blamed = @ \cup {"local"}], FALSE)
OnDisconnectedLocal(w) == LocalGone(w, TRUE)

OnDisconnectedProxy(w) ==
  Upcall([w EXCEPT !.proxy = Shutdown(@), !.cache = ClearCache(@), !.local = Shutdown(@)])

AfterLocalWrite(w, r) ==
  LET v == [w EXCEPT !.local = r.conn, !.errno = r.errno, !.net.down = @ \o r.out,
                     !.net.fault = @ \cup (IF r.fault THEN {"local"} ELSE {})]
  IN  IF r.failed /\ r.conn.handler THEN OnErrorLocal(v) ELSE {v}

SendLocal(w, data) == UNION {AfterLocalWrite(w, r) : r \in Send(w.local, w.errno, data)}

\* MUTANTS of ParseHttpHeader: the cache is not flushed; the status line is
\* taken for the whole header.
ParseNoFlush(w) ==
  IF ~ Contains(w.header, BlankLine) THEN {w}
  ELSE IF Contains(w.header, StatusOK) THEN {[w EXCEPT !.status = "Connected"]}
  ELSE {GiveUp([w EXCEPT !.status = "Error"])}
ParseEarly(w) ==
  IF Contains(w.header, StatusOK) THEN FlushLocal([w EXCEPT !.status = "Connected"])
  ELSE {GiveUp([w EXCEPT !.status = "Error"])}

\* The header is complete at its empty line; what follows it in the buffer is
\* not looked at again.
ParseHttpHeader(w) ==
  IF ~ Contains(w.header, BlankLine) THEN {w}
  ELSE IF Contains(w.header, StatusOK) THEN FlushLocal([w EXCEPT !.status = "Connected"])
  ELSE {GiveUp([w EXCEPT !.status = "Error"])}

\* cache(), with what the disk makes of the write.
WithCached(w, data, disk, n) ==
  [w EXCEPT !.cache = Store(@, data, disk, n),
            !.net.badDisk = @ \/ (ToFile(w.cache, data) /\ disk # "ok")]

CacheLocal(w, data) ==
  {WithCached(w, data, disk, n) : disk \in {"ok"} \cup DiskFaults, n \in 0 .. Len(data)}

\* MUTANT of OnRecvLocal: an open connection to the proxy is enough to send.
OnRecvLocalEager(w, data) ==
  IF w.status \in {"Connecting", "Connected"} THEN SendProxy(w, data) ELSE CacheLocal(w, data)

OnRecvLocal(w, data) ==
  IF w.status = "Connected" THEN SendProxy(w, data) ELSE CacheLocal(w, data)

OnRecvProxy(w, data) ==
  CASE w.status = "Connecting" ->
         IF Len(data) > HeaderRoom - Len(w.header) THEN {GiveUp(w)}
         ELSE ParseHttpHeader([w EXCEPT !.header = @ \o data])
    [] w.status = "Connected" ->
         IF w.local.status # "Connected" THEN {GiveUp(w)} ELSE SendLocal(w, data)
    [] OTHER -> {GiveUp(w)}

OnRecv(w, side, data) ==
  IF side = "local" THEN OnRecvLocal(w, data) ELSE OnRecvProxy(w, data)

\* The end of handleInputNotification, after onRecv returned: status and
\* handler are read again.
AfterRecv(w, side) ==
  LET v == [w EXCEPT ![side] = Unwatched(@)]
  IN  IF w.place = "crashed" \/ ~ w[side].handler THEN {w}
      ELSE CASE w[side].status = "Error" ->
                  IF side = "local" THEN OnErrorLocal(v) ELSE {OnErrorProxy(v)}
             [] w[side].status = "Closed" ->
                  IF side = "local" THEN OnDisconnectedLocal(v) ELSE {OnDisconnectedProxy(v)}
             [] OTHER -> {w}

HandleInput(w, side) ==
  LET r    == Receive(w[side], w.errno, Len(w.net.in[side]), w.net.end[side])
      data == SubSeq(w.net.in[side], 1, r.n)
      v    == [w EXCEPT ![side].status = r.status, !.errno = r.errno,
                        !.net.in[side] = SubSeq(@, r.n + 1, Len(@)),
                        !.net.fault = @ \cup (IF r.status = "Error" THEN {side} ELSE {})]
  IN  UNION {AfterRecv(u, side) :
               u \in IF r.n > 0 /\ w[side].handler THEN OnRecv(v, side, data) ELSE {v}}

-----------------------------------------------------------------------------
(* Actions: ProxyClient.                                                   *)

\* onAccept on a tunnel from the pool, which is new or keeps the handler of
\* its last session: acceptLocal runs before setHandler.  "refuse" is a
\* connection that fcntl cannot make non-blocking.
OnAccept(outcome) ==
  /\ place = "free" /\ net.session < MaxSessions
  /\ LET accepted == [World EXCEPT !.local = [AcceptConnection(@) EXCEPT !.handler = TRUE],
                                   !.status = "Closed",
                                   !.proxy = [Connect(@, outcome) EXCEPT !.handler = TRUE],
                                   !.errno = IF outcome = "now" THEN @ ELSE "OTHER",
                                   !.net = NewNet(net.session + 1)]
         active(w) == [w EXCEPT !.handler = TRUE,
                                !.place = IF @ = "free" THEN "active" ELSE @]
     IN  CASE outcome = "now" ->
                \E w \in OnConnectedProxy(accepted) : Become(active(w))
           [] outcome = "progress" -> Become(active(accepted))
           [] outcome = "fail" ->
                Become([accepted EXCEPT !.local = Dropped(@), !.proxy = WithoutHandler(@),
                                        !.place = "broken"])

OnAcceptRefused ==
  /\ place = "free" /\ net.session < MaxSessions
  /\ Become([World EXCEPT !.place = "broken", !.errno = "OTHER", !.net = NewNet(@.session + 1)])

\* The end of a pass of runLoop.
ReclaimTunnel ==
  /\ place = "broken"
  /\ place' = "free"
  /\ UNCHANGED <<local, proxy, cache, status, header, handler, errno, net>>

-----------------------------------------------------------------------------
(* Actions: dispatches of the poller.                                      *)

Readable(side) ==
  /\ place # "crashed"
  /\ World[side].rd /\ World[side].status = "Connected"
  /\ net.in[side] # <<>> \/ net.end[side] # "open"
  /\ \E w \in HandleInput(World, side) : Become(w)

Writable(side) ==
  /\ place # "crashed"
  /\ World[side].wr /\ World[side].status = "Connected"
  /\ \E r \in FlushWritable(World[side], errno) :
       IF side = "local" THEN \E w \in AfterLocalWrite(World, r) : Become(w)
       ELSE Become(AfterProxyWrite(World, r))

ConnectDone(ok) ==
  /\ place # "crashed"
  /\ proxy.wr /\ proxy.status = "Connecting"
  /\ LET w == [World EXCEPT !.proxy = ConnectResolved(@, ok)]
     IN  IF ok THEN \E v \in OnConnectedProxy(w) : Become(v)
         ELSE Become(OnErrorProxy([w EXCEPT !.errno = "OTHER", !.net.fault = {"proxy"}]))

-----------------------------------------------------------------------------
(* Actions: the rest of the process, the client, the proxy and the server. *)

OtherSocket(e) ==
  /\ place # "crashed"
  /\ errno' = e
  /\ UNCHANGED <<local, proxy, cache, status, header, handler, place, net>>

Peers(n) ==
  /\ place = "active"
  /\ net' = n
  /\ UNCHANGED <<local, proxy, cache, status, header, handler, place, errno>>

ClientWrites ==
  /\ net.end.local = "open" /\ net.client < MaxClient
  /\ Peers([net EXCEPT !.client = @ + 1,
                       !.in.local = Append(@, ClientByte(net.session, net.client + 1))])

\* The proxy answers a complete CONNECT request with a status line, perhaps
\* further lines, and an empty line.
ProxyAnswers(line) ==
  /\ proxy.status = "Connected" /\ net.end.proxy = "open"
  /\ Len(net.up) >= Len(Request)
  /\ \/ net.answer = 0 /\ line \in {StatusOK, StatusDenied}
     \/ net.answer = 1 /\ (line = BlankLine \/ (line = HeaderLine /\ net.extra < MaxExtra))
  /\ Peers([net EXCEPT !.in.proxy = Append(@, line),
                       !.answer = CASE line = HeaderLine -> 1
                                    [] line = BlankLine  -> IF @ = 1 THEN 2 ELSE @
                                    [] OTHER -> 1,
                       !.ok = @ \/ line = StatusOK,
                       !.extra = IF line = HeaderLine THEN @ + 1 ELSE @])

\* Behind an accepted CONNECT the server's bytes follow.
ServerWrites ==
  /\ net.answer = 2 /\ net.ok /\ net.end.proxy = "open" /\ net.server < MaxServer
  /\ ServerSpeaksFirst \/ Len(net.up) > Len(Request)
  /\ Peers([net EXCEPT !.server = @ + 1,
                       !.in.proxy = Append(@, ServerByte(net.session, net.server + 1))])

PeerEnds(side, how) ==
  /\ World[side].status = "Connected" /\ net.end[side] = "open"
  /\ Peers([net EXCEPT !.end[side] = how])

Next ==
  \/ \E o \in ConnectOutcomes : OnAccept(o)
  \/ OnAcceptRefused
  \/ ReclaimTunnel
  \/ \E side \in {"local", "proxy"} : Readable(side)
  \/ \E side \in {"local", "proxy"} : Writable(side)
  \/ \E ok \in BOOLEAN : ConnectDone(ok)
  \/ \E e \in Errno : OtherSocket(e)
  \/ ClientWrites
  \/ \E line \in {StatusOK, StatusDenied, HeaderLine, BlankLine} : ProxyAnswers(line)
  \/ ServerWrites
  \/ \E side \in {"local", "proxy"}, how \in {"eof", "reset"} : PeerEnds(side, how)

Init ==
  /\ local = NewConnection /\ proxy = NewConnection
  /\ cache = NewCache
  /\ status = "Closed" /\ header = <<>>
  /\ handler = FALSE /\ place = "free"
  /\ errno = "OTHER"
  /\ net = NewNet(0)

Spec == Init /\ [][Next]_vars
=============================================================================
