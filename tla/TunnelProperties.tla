--------------------------- MODULE TunnelProperties ---------------------------
(***************************************************************************)
(* What a tunnel owes its client, its proxy and the ProxyClient that       *)
(* recycles it.                                                            *)
(***************************************************************************)
EXTENDS ProxyTunnel

Live == place = "active" /\ local.open /\ proxy.open

ClientBytes == [k \in 1 .. net.client |-> ClientByte(net.session, k)]
ServerBytes == [k \in 1 .. net.server |-> ServerByte(net.session, k)]

\* What the cache holds, oldest first.
CachedBytes == Cached(cache)

-----------------------------------------------------------------------------
(* Safety.                                                                 *)

\* A tunnel that ProxyClient holds as broken or free carries nothing over to
\* the next client: no socket, registration, event handler, kept packet,
\* cached byte or phase of the session that ended, whichever of the error
\* paths of proxy_tunnel.cpp ended it and however they were nested.
QuietWhenIdle ==
  place \in {"free", "broken"} =>
    /\ local = NewConnection /\ proxy = NewConnection
    /\ cache.mem = <<>> /\ cache.file = NoFile
    /\ status = "Closed"

\* While a tunnel has a socket, it is whole: both sockets are open, both report
\* to the tunnel, the client's is read, and the end of either reaches
\* ProxyClient; the phase of the handshake agrees with the two sockets and the
\* cache, so that onRecv never meets "illegal proxy status" and never finds the
\* client gone.  No error path lets go of one half.
HalvesAgree ==
  /\ place = "active" /\ (local.open \/ proxy.open) =>
       /\ handler
       /\ local.open /\ local.handler /\ local.rd
       /\ proxy.open /\ proxy.handler
  /\ Live =>
       /\ local.status = "Connected"
       /\ proxy.status \in {"Connecting", "Connected"}
       /\ status \in {"Closed", "Connecting", "Connected"}
       /\ status = "Closed" <=> proxy.status = "Connecting"
       /\ status = "Connected" => CachedBytes = <<>>

\* What the proxy was sent and what waits to be sent to it, through every mix
\* of memory cache, file cache, kept packets and direct sends; and what that
\* should be.
Upstream     == net.up \o proxy.pending \o CachedBytes \o net.in.local
UpstreamLead == IF status = "Closed" THEN <<>> ELSE Request
UpstreamDue  == UpstreamLead \o ClientBytes
UpstreamRest == SubSeq(Upstream, Len(UpstreamLead) + 1, Len(Upstream))

\* While both sockets are open, the proxy is sent the CONNECT request and then
\* exactly the bytes of this session's client in their order, unless a write to
\* the cache's file failed: Cache::cache() then puts newer bytes in memory, which
\* flushAll() sends before the older ones of the file, and a record written in
\* part makes the position pass over those that were not read.
UpstreamIntact == Live /\ ~ net.badDisk => Upstream = UpstreamDue

\* Even after a failed write to the file, the proxy is sent the whole CONNECT
\* request first, and then nothing twice, nothing of an earlier session and
\* nothing that is not a byte of this client (the length of a record, say).
UpstreamOwn ==
  Live =>
    /\ Upstream = UpstreamLead \o UpstreamRest
    /\ IsInjective(UpstreamRest)
    /\ Range(UpstreamRest) \subseteq Range(ClientBytes)

\* The server's bytes among some tokens.
Server(tokens) ==
  FlattenSeq([i \in 1 .. Len(tokens) |->
                IF IsServerByte(tokens[i]) THEN <<tokens[i]>> ELSE <<>>])

\* The server's bytes that came in the read that ended the proxy's header: they
\* stay behind it in mHttpHeader and are not looked at again.
Swallowed == IF status = "Connected" THEN Server(header) ELSE <<>>

\* While both sockets are open, the client is sent exactly the server's bytes
\* of this session in their order, and none of the proxy's header; the ones that
\* came in one read with the end of the header, if the server spoke first, are
\* all that is lost.
DownstreamIntact ==
  Live =>
    Swallowed \o net.down \o local.pending \o Server(net.in.proxy) = ServerBytes

\* The client's bytes go to the proxy only behind a CONNECT request that this
\* proxy connection accepted: what is left in mHttpHeader of an earlier session
\* never opens the tunnel, and neither that nor a header in many pieces ever runs
\* over the buffer.
HeaderSound ==
  /\ Len(header) <= HeaderRoom
  /\ Len(net.up) + Len(proxy.pending) > Len(Request) => net.ok

\* onError runs for a connection only when a system call on it failed
\* ("local connection in error", "proxy connection in error").
JustifiedErrors == net.blamed \subseteq net.fault

\* flushLocal sends what is cached and comes back.
NeverCrashes == place # "crashed"

-----------------------------------------------------------------------------
(* Refinement.                                                             *)

\* Whatever a step of the tunnel is about, to its sockets and its file it does
\* one of the things that Session lists, and ProxyClient counts on; else it
\* ends the process.
SocketOf(c) == [status |-> c.status, rd |-> c.rd, wr |-> c.wr]
AsSession == INSTANCE Session WITH
  socket <- [local |-> SocketOf(local), proxy |-> SocketOf(proxy)],
  file <- cache.file.open, known <- handler
ImplementsSession ==
  AsSession!Init /\ [][AsSession!Next \/ place' = "crashed"]_(AsSession!vars)

-----------------------------------------------------------------------------
(* Liveness.                                                               *)

\* runLoop comes round for ever and select() reports what stays ready, so
\* that a notification that stays due is delivered; the kernel makes room in
\* the end; a connect() in progress has an outcome.
ProgressProxy == Writable("proxy") /\ proxy'.pending # proxy.pending
ProgressLocal == Writable("local") /\ local'.pending # local.pending

Fairness ==
  /\ WF_vars(ReclaimTunnel)
  /\ WF_vars(Readable("local")) /\ WF_vars(Readable("proxy"))
  /\ WF_vars(ProgressLocal) /\ WF_vars(ProgressProxy)
  /\ WF_vars(\E ok \in BOOLEAN : ConnectDone(ok))

FairSpec == Spec /\ Fairness

\* A session whose client or proxy is gone ends, and its tunnel is taken back.
SessionEnds ==
  place = "active" /\ (net.end.local # "open" \/ net.end.proxy # "open")
    ~> place \in {"free", "crashed"}

\* Once the tunnel is up, all that the client wrote and the cache gave back is
\* handed to the kernel, and that is all it wrote when no write to the cache's
\* file failed; what the server wrote reaches the client; unless the session ends.
BothWaysComplete ==
  /\ Live /\ status = "Connected" ~>
       \/ ~ Live
       \/ /\ net.in.local = <<>> /\ proxy.pending = <<>>
          /\ ~ net.badDisk => net.up = Request \o ClientBytes
  /\ Live /\ status = "Connected" ~> ~ Live \/ Swallowed \o net.down = ServerBytes
=============================================================================
