---------------------------- MODULE TunnelProofs ----------------------------
(***************************************************************************)
(* Proofs about ProxyTunnel.  An outcome of a dispatch is a world that the *)
(* callbacks lead to; each method has a law about the worlds it leads to,  *)
(* and the invariant says which worlds are met between two dispatches.     *)
(***************************************************************************)
EXTENDS TunnelProperties, StreamLemmas

-----------------------------------------------------------------------------
(* Worlds.                                                                 *)

Sides == {"local", "proxy"}
Ends  == {"open", "eof", "reset"}

Nets ==
  [in : [local : Seq(Int), proxy : Seq(Int)], end : [local : Ends, proxy : Ends],
   up : Seq(Int), down : Seq(Int), fault : SUBSET Sides, blamed : SUBSET Sides,
   badDisk : BOOLEAN, client : Nat, server : Nat, extra : Nat, answer : {0, 1, 2},
   ok : BOOLEAN, session : Nat]

Worlds ==
  [local : Connections, proxy : Connections, cache : Caches,
   status : {"Closed", "Connecting", "Connected", "Error"}, header : Seq(Int),
   handler : BOOLEAN, place : {"free", "active", "broken", "crashed"},
   errno : Errno, net : Nets]

\* A connection that is closed may still have its handler; a teardown leaves
\* nothing of c.
Bare(c) ==
  /\ c \in Connections
  /\ ~ c.open /\ c.status = "Closed" /\ ~ c.rd /\ ~ c.wr /\ c.pending = <<>> /\ c.ends = {}
Droppable(c) == c \in Connections /\ (c.open \/ Bare(c))

\* The header is within its buffer, and more than the request has gone to the
\* proxy only if it has answered with yes.
Asked(w) ==
  /\ Len(w.header) <= HeaderRoom
  /\ ~ w.net.ok => Len(w.net.up) + Len(w.proxy.pending) <= Len(Request)
  /\ w.status = "Connected" => w.net.ok

\* What holds of every world, also in the middle of a teardown.
Sane(w) ==
  /\ w \in Worlds /\ Droppable(w.local) /\ Droppable(w.proxy)
  /\ \E ps : CacheOK(w.cache, ps)
  /\ Asked(w)

\* Nothing is left of a session.
Quiet(w) ==
  /\ w.local = NewConnection /\ w.proxy = NewConnection
  /\ w.cache.mem = <<>> /\ w.cache.file = NoFile

\* The session is over and ProxyClient knows; or the process is.
Ended(w)   == Sane(w) /\ Quiet(w) /\ w.status = "Closed" /\ w.handler /\ w.place = "broken"
Crashed(w) == Sane(w) /\ w.place = "crashed"

-----------------------------------------------------------------------------
(* Teardown.                                                               *)

\* A closed connection without its handler is as good as new.
LEMMA NewIsBare ==
  /\ NewConnection \in Connections /\ Bare(NewConnection) /\ ~ NewConnection.handler
  /\ \A c : Bare(c) /\ ~ c.handler => c = NewConnection
<1>1. <<>> \in Seq(Byte)
  BY EmptySeq
<1>2. NewConnection \in Connections
  BY <1>1 DEF NewConnection, Connections, ConnStatus
<1>3. Bare(NewConnection) /\ ~ NewConnection.handler
  BY <1>2 DEF NewConnection, Bare
<1>4. ASSUME NEW c, Bare(c), ~ c.handler PROVE c = NewConnection
  BY <1>4 DEF NewConnection, Bare, Connections
<1> QED
  BY <1>2, <1>3, <1>4

\* What setEventHandler(NULL) and shutdown() leave of a connection.
LEMMA DropLaw ==
  ASSUME NEW c, Droppable(c)
  PROVE  /\ Dropped(c) = NewConnection
         /\ Bare(Shutdown(c)) /\ Shutdown(c).handler = c.handler
         /\ Droppable(WithoutHandler(c)) /\ WithoutHandler(c).pending = c.pending
<1>1. c \in Connections /\ <<>> \in Seq(Byte)
  BY EmptySeq DEF Droppable
<1>2. ASSUME NEW d, Droppable(d) PROVE Bare(Shutdown(d)) /\ Shutdown(d).handler = d.handler
  <2>1. CASE d.open
    <3> DEFINE e == Shutdown(d)
    <3>1. e = [[[[[[d EXCEPT !.rd = FALSE] EXCEPT !.wr = FALSE] EXCEPT !.open = FALSE]
                  EXCEPT !.status = "Closed"] EXCEPT !.pending = <<>>] EXCEPT !.ends = {}]
      BY <2>1 DEF Shutdown, Unwatched
    <3>2. /\ ~ e.open /\ e.status = "Closed" /\ ~ e.rd /\ ~ e.wr /\ e.pending = <<>> /\ e.ends = {}
          /\ e.handler = d.handler /\ e \in Connections
      BY <1>1, <1>2, <3>1, ZenonT(40) DEF Droppable, Connections, ConnStatus
    <3> QED
      BY <3>2 DEF Bare
  <2>2. CASE ~ d.open
    BY <1>2, <2>2 DEF Shutdown, Droppable
  <2> QED
    BY <2>1, <2>2
<1> DEFINE b == WithoutHandler(c)
<1>3. /\ b \in Connections /\ ~ b.handler /\ b.open = c.open /\ b.status = c.status /\ b.rd = c.rd
      /\ b.wr = c.wr /\ b.pending = c.pending /\ b.ends = c.ends
  BY <1>1 DEF WithoutHandler, Connections
<1>4. Droppable(b)
  BY <1>3 DEF Droppable, Bare
<1> HIDE DEF b
<1>5. Dropped(c) = NewConnection
  <2>1. Bare(Shutdown(b)) /\ ~ Shutdown(b).handler
    BY <1>2, <1>3, <1>4
  <2> QED
    BY <2>1, NewIsBare DEF Dropped, b
<1> QED
  BY <1>2, <1>3, <1>4, <1>5 DEF b

\* A world without connections is sane if its header and its stream are.
LEMMA QuietIsSane ==
  ASSUME NEW v \in Worlds, v.local = NewConnection, v.proxy = NewConnection,
         CacheOK(v.cache, <<>>), Len(v.header) <= HeaderRoom,
         ~ v.net.ok => Len(v.net.up) <= Len(Request), v.status = "Connected" => v.net.ok
  PROVE  Sane(v)
<1>1. Len(v.proxy.pending) = 0 /\ Len(v.net.up) \in Nat
  BY DEF NewConnection, Worlds, Nets
<1>2. Asked(v)
  BY <1>1 DEF Asked
<1> QED
  BY <1>2, NewIsBare DEF Sane, Droppable

\* Less than was asked for before is kept now.
LEMMA AskedUp ==
  ASSUME NEW w, Sane(w)
  PROVE  /\ w \in Worlds /\ w.local \in Connections /\ w.proxy \in Connections
         /\ w.net \in Nets /\ w.net.up \in Seq(Int) /\ w.net.ok \in BOOLEAN
         /\ Len(w.header) <= HeaderRoom
         /\ ~ w.net.ok => Len(w.net.up) <= Len(Request)
<1>1. w \in Worlds /\ Asked(w)
  BY DEF Sane
<1>2. w.local \in Connections /\ w.proxy \in Connections /\ w.net \in Nets
  BY <1>1 DEF Worlds
<1>3. w.net.up \in Seq(Int) /\ w.proxy.pending \in Seq(Int) /\ w.net.ok \in BOOLEAN
  BY <1>2 DEF Nets, Connections, Byte
<1>4. Len(w.net.up) \in Nat /\ Len(w.proxy.pending) \in Nat
  BY <1>3
<1>5. ASSUME ~ w.net.ok PROVE Len(w.net.up) <= Len(Request)
  <2>1. Len(w.net.up) + Len(w.proxy.pending) <= Len(Request)
    BY <1>1, <1>5 DEF Asked
  <2> DEFINE a == Len(w.net.up)
             b == Len(w.proxy.pending)
             r == Len(Request)
  <2>2. a \in Nat /\ b \in Nat /\ a + b <= r
    BY <1>4, <2>1
  <2>3. r = 2
    BY DEF Request
  <2> HIDE DEF a, b, r
  <2>4. a <= r
    BY <2>2, <2>3
  <2> QED
    BY <2>4 DEF a, r
<1>6. Len(w.header) <= HeaderRoom
  BY <1>1 DEF Asked
<1> QED
  BY <1>1, <1>2, <1>3, <1>5, <1>6

\* ProxyTunnel::cleanup().
LEMMA CleanupLaw ==
  ASSUME NEW w, Sane(w), NEW v, v = Cleanup(w)
  PROVE  /\ Sane(v) /\ Quiet(v) /\ v.status = "Closed"
         /\ v.header = w.header /\ v.handler = w.handler /\ v.place = w.place
         /\ v.errno = w.errno /\ v.net = w.net
<1>1. PICK ps : CacheOK(w.cache, ps)
  BY DEF Sane
<1>2. CacheOK(ClearCache(w.cache), <<>>)
  BY <1>1, ClearIs
<1>3. Dropped(w.local) = NewConnection /\ Dropped(w.proxy) = NewConnection
  BY DropLaw DEF Sane
<1>4. ClearCache(w.cache) \in Caches /\ w \in Worlds
  BY <1>2 DEF CacheOK, Sane
<1> DEFINE c == ClearCache(w.cache)
<1> HIDE DEF c
<1>5. v = [w EXCEPT !.cache = c, !.local = NewConnection, !.status = "Closed", !.proxy = NewConnection]
  BY <1>3 DEF Cleanup, c
<1>6. /\ v.cache = c /\ v.local = NewConnection /\ v.proxy = NewConnection /\ v.status = "Closed"
      /\ v.header = w.header /\ v.handler = w.handler /\ v.place = w.place
      /\ v.errno = w.errno /\ v.net = w.net
  BY <1>4, <1>5 DEF Worlds
<1>7. v \in Worlds
  BY <1>4, <1>5, NewIsBare DEF Worlds, c
<1>8. Sane(v)
  BY <1>2, <1>6, <1>7, AskedUp, QuietIsSane DEF c
<1>9. c.mem = <<>> /\ c.file = NoFile
  <2>1. w.cache \in Caches
    BY <1>1 DEF CacheOK
  <2> QED
    BY <2>1 DEF c, ClearCache, Caches
<1> QED
  BY <1>6, <1>8, <1>9 DEF Quiet

\* _onError() and _onClose(), with a handler.
LEMMA UpcallLaw ==
  ASSUME NEW w, Sane(w), w.handler, NEW v, v = Upcall(w)
  PROVE  Ended(v) /\ v.net = w.net /\ v.header = w.header
<1> DEFINE u == Cleanup(w)
<1>1. /\ Sane(u) /\ Quiet(u) /\ u.status = "Closed" /\ u.handler = w.handler
      /\ u.net = w.net /\ u.header = w.header
  BY CleanupLaw
<1>2. v = [u EXCEPT !.place = "broken"]
  BY DEF Upcall
<1> HIDE DEF u
<1>3. u \in Worlds
  BY <1>1 DEF Sane
<1>4. /\ v.local = u.local /\ v.proxy = u.proxy /\ v.cache = u.cache /\ v.status = u.status
      /\ v.header = u.header /\ v.handler = u.handler /\ v.net = u.net /\ v.place = "broken"
  BY <1>2, <1>3 DEF Worlds
<1>5. v \in Worlds
  BY <1>2, <1>3 DEF Worlds
<1>6. Sane(v) /\ Quiet(v)
  BY <1>1, <1>4, <1>5 DEF Sane, Asked, Quiet
<1> QED
  BY <1>1, <1>4, <1>6 DEF Ended

\* onError of the proxy connection: the session is over, or on a tunnel that has
\* no handler yet, nothing but the phase is left.
LEMMA OnErrorProxyLaw ==
  ASSUME NEW w, Sane(w), NEW v, v = OnErrorProxy(w)
  PROVE  /\ w.handler => Ended(v)
         /\ ~ w.handler => Sane(v) /\ Quiet(v) /\ ~ v.handler /\ v.place = w.place
<1> DEFINE u == [w EXCEPT !.proxy = Dropped(@), !.cache = ClearCache(@), !.local = Dropped(@),
                          !.net.blamed = @ \cup {"proxy"}]
<1>1. PICK ps : CacheOK(w.cache, ps)
  BY DEF Sane
<1>2. CacheOK(ClearCache(w.cache), <<>>)
  BY <1>1, ClearIs
<1>3. Dropped(w.local) = NewConnection /\ Dropped(w.proxy) = NewConnection
  BY DropLaw DEF Sane
<1> DEFINE c == ClearCache(w.cache)
           n == [w.net EXCEPT !.blamed = @ \cup {"proxy"}]
<1>4. c \in Caches /\ w \in Worlds /\ w.net \in Nets
  BY <1>2 DEF CacheOK, Sane, Worlds
<1>5. n \in Nets /\ n.up = w.net.up /\ n.ok = w.net.ok
  BY <1>4 DEF Nets, Sides
<1>6. c.mem = <<>> /\ c.file = NoFile
  <2>1. w.cache \in Caches
    BY <1>1 DEF CacheOK
  <2> QED
    BY <2>1 DEF ClearCache, Caches
<1>7. u = [w EXCEPT !.proxy = NewConnection, !.cache = c, !.local = NewConnection, !.net = n]
  BY <1>3, <1>4 DEF Worlds
<1>8. v = Upcall(u)
  BY DEF OnErrorProxy
<1> HIDE DEF c, n, u
<1>9. /\ u.cache = c /\ u.local = NewConnection /\ u.proxy = NewConnection /\ u.net = n
      /\ u.header = w.header /\ u.handler = w.handler /\ u.place = w.place /\ u.status = w.status
  BY <1>4, <1>7 DEF Worlds
<1>10. u \in Worlds
  BY <1>4, <1>5, <1>7, NewIsBare DEF Worlds
<1>11. CacheOK(u.cache, <<>>) /\ (u.status = "Connected" => u.net.ok)
  BY <1>2, <1>5, <1>9 DEF c, Sane, Asked
<1>12. Sane(u)
  BY <1>5, <1>9, <1>10, <1>11, AskedUp, QuietIsSane
<1>13. Quiet(u)
  BY <1>6, <1>9 DEF Quiet
<1>14. CASE w.handler
  BY <1>8, <1>9, <1>12, <1>14, UpcallLaw
<1>15. CASE ~ w.handler
  <2>1. v = u
    BY <1>8, <1>9, <1>15 DEF Upcall
  <2> QED
    BY <1>9, <1>12, <1>13, <1>15, <2>1
<1> QED
  BY <1>14, <1>15

\* The proxy connection loses its handler before _onError().
LEMMA GiveUpLaw ==
  ASSUME NEW w, Sane(w), w.handler, NEW v, v = GiveUp(w)
  PROVE  Ended(v)
<1> DEFINE c == WithoutHandler(w.proxy)
           u == [w EXCEPT !.proxy = c]
<1>1. Droppable(c) /\ c.pending = w.proxy.pending
  BY DropLaw DEF Sane
<1>2. v = Upcall(u) /\ w \in Worlds
  BY DEF GiveUp, Sane, Worlds
<1> HIDE DEF c
<1>3. /\ u \in Worlds /\ u.proxy = c /\ u.local = w.local /\ u.cache = w.cache /\ u.net = w.net
      /\ u.header = w.header /\ u.handler = w.handler /\ u.status = w.status
  BY <1>1, <1>2 DEF Worlds, Droppable
<1> HIDE DEF u
<1>4. Asked(u)
  BY <1>1, <1>3 DEF Sane, Asked
<1>5. Sane(u)
  BY <1>1, <1>3, <1>4 DEF Sane
<1> QED
  BY <1>2, <1>3, <1>5, UpcallLaw

\* onDisconnected of the proxy connection.
LEMMA OnDisconnectedProxyLaw ==
  ASSUME NEW w, Sane(w), w.handler, NEW v, v = OnDisconnectedProxy(w)
  PROVE  Ended(v)
<1> DEFINE p == Shutdown(w.proxy)
           l == Shutdown(w.local)
           c == ClearCache(w.cache)
           u == [w EXCEPT !.proxy = p, !.cache = c, !.local = l]
<1>1. Bare(p) /\ Bare(l)
  BY DropLaw DEF Sane
<1>2. CacheOK(c, <<>>)
  BY ClearIs DEF Sane
<1>3. v = Upcall(u) /\ w \in Worlds
  BY DEF OnDisconnectedProxy, Sane
<1>4. p \in Connections /\ l \in Connections /\ c \in Caches /\ p.pending = <<>>
  BY <1>1, <1>2 DEF Bare, CacheOK
<1> HIDE DEF p, l, c
<1>5. /\ u \in Worlds /\ u.proxy = p /\ u.local = l /\ u.cache = c /\ u.net = w.net
      /\ u.header = w.header /\ u.handler = w.handler /\ u.status = w.status
  BY <1>3, <1>4 DEF Worlds
<1> HIDE DEF u
<1>6. Asked(u)
  <2>1. Len(u.proxy.pending) = 0 /\ Len(u.net.up) \in Nat
    BY <1>4, <1>5, AskedUp
  <2>2. ASSUME ~ u.net.ok PROVE Len(u.net.up) + Len(u.proxy.pending) <= Len(Request)
    <3>1. Len(u.net.up) <= Len(Request)
      BY <1>5, <2>2, AskedUp
    <3> QED
      BY <2>1, <3>1
  <2> QED
    BY <1>5, <2>2 DEF Sane, Asked
<1>7. Sane(u)
  BY <1>1, <1>2, <1>5, <1>6 DEF Sane, Droppable, Bare
<1> QED
  BY <1>3, <1>5, <1>7, UpcallLaw

-----------------------------------------------------------------------------
(* Writing to the proxy.                                                   *)

\* What no write changes.
SameRest(w, v) ==
  /\ v.status = w.status /\ v.header = w.header /\ v.handler = w.handler /\ v.place = w.place
  /\ v.net.in = w.net.in /\ v.net.end = w.net.end
  /\ v.net.client = w.net.client /\ v.net.server = w.net.server /\ v.net.extra = w.net.extra
  /\ v.net.answer = w.net.answer /\ v.net.ok = w.net.ok /\ v.net.session = w.net.session /\ v.net.badDisk = w.net.badDisk

\* What a write to the proxy changes besides.
ByProxy(w, v) == SameRest(w, v) /\ v.local = w.local /\ v.net.down = w.net.down

\* The data follows what went to the proxy before.
SentUp(w, data, v) ==
  /\ Sane(v) /\ ByProxy(w, v) /\ v.cache = w.cache /\ Established(v.proxy)
  /\ v.net.up \o v.proxy.pending = (w.net.up \o w.proxy.pending) \o data

\* The proxy connection failed: the session is over, or on a tunnel that has no
\* handler yet, nothing is left.
Failed(w, v) ==
  \/ w.handler /\ Ended(v)
  \/ ~ w.handler /\ Sane(v) /\ Quiet(v) /\ ~ v.handler /\ v.place = w.place

\* More than the request goes out only once the proxy has said yes.
MayGo(w, data) ==
  ~ w.net.ok => Len(w.net.up) + Len(w.proxy.pending) + Len(data) <= Len(Request)

\* Sequences of numbers.
LEMMA IntJoin ==
  /\ \A s, t \in Seq(Int) : s \o t \in Seq(Int) /\ Len(s \o t) = Len(s) + Len(t)
  /\ \A s \in Seq(Int) : Len(s) \in Nat /\ s \o <<>> = s /\ <<>> \o s = s
  /\ \A s \in Seq(Int) : s = <<>> <=> Len(s) = 0
<1>1. \A s, t \in Seq(Int) : s \o t \in Seq(Int) /\ Len(s \o t) = Len(s) + Len(t)
  BY JoinLen DEF Byte
<1>2. \A s \in Seq(Int) : s \o <<>> = s /\ <<>> \o s = s
  BY JoinLaws DEF Byte
<1>3. \A s \in Seq(Int) : Len(s) \in Nat /\ (s = <<>> <=> Len(s) = 0)
  BY EmptyLen DEF Byte
<1> QED
  BY <1>1, <1>2, <1>3

\* Taking up the result of a method of mProxyConn that writes.
LEMMA ProxyWriteLaw ==
  ASSUME NEW w, Sane(w), Established(w.proxy), NEW data \in Seq(Int), MayGo(w, data),
         NEW r, Wrote(w.proxy, data, r), NEW v, v = AfterProxyWrite(w, r)
  PROVE  Failed(w, v) \/ SentUp(w, data, v)
<1> DEFINE b == IF r.fault THEN {"proxy"} ELSE {}
           c == r.conn
           up == w.net.up \o r.out
           n == [w.net EXCEPT !.up = up, !.fault = @ \cup b]
           u == [w EXCEPT !.proxy = c, !.errno = r.errno, !.net.up = @ \o r.out, !.net.fault = @ \cup b]
<1>1. /\ c \in Connections /\ c.open /\ c.handler /\ c.pending \in Seq(Int)
      /\ r.errno \in Errno /\ r.failed \in BOOLEAN /\ r.out \in Seq(Int)
      /\ ~ r.failed => Established(c) /\ r.out \o c.pending = w.proxy.pending \o data
  BY DEF Wrote, Connections, Byte
<1>2. /\ w \in Worlds /\ w.net \in Nets /\ w.net.up \in Seq(Int) /\ w.proxy.pending \in Seq(Int)
      /\ w.net.ok \in BOOLEAN
  BY AskedUp DEF Connections, Byte
<1>3. b \subseteq Sides /\ up \in Seq(Int) /\ Len(up) = Len(w.net.up) + Len(r.out)
  BY <1>1, <1>2, IntJoin DEF Sides
<1>4. v = IF r.failed THEN OnErrorProxy(u) ELSE u
  BY <1>1 DEF AfterProxyWrite
<1>5. u = [w EXCEPT !.proxy = c, !.errno = r.errno, !.net = n]
  BY <1>2 DEF Worlds, Nets
<1> HIDE DEF b, c, up, u
<1>6. /\ n \in Nets /\ n.up = up /\ n.down = w.net.down /\ n.in = w.net.in /\ n.end = w.net.end
      /\ n.client = w.net.client /\ n.server = w.net.server /\ n.extra = w.net.extra
      /\ n.answer = w.net.answer /\ n.ok = w.net.ok /\ n.session = w.net.session /\ n.badDisk = w.net.badDisk
  BY <1>2, <1>3 DEF Nets
<1> HIDE DEF n
<1>7. /\ u.proxy = c /\ u.net = n /\ u.local = w.local /\ u.cache = w.cache /\ u.status = w.status
      /\ u.header = w.header /\ u.handler = w.handler /\ u.place = w.place
  BY <1>2, <1>5 DEF Worlds
<1>8. u \in Worlds
  BY <1>1, <1>2, <1>5, <1>6 DEF Worlds
<1>9. ASSUME ~ w.net.ok PROVE Len(up) + Len(c.pending) <= Len(Request)
  <2>1. PICK rest \in Seq(Int) : (r.out \o c.pending) \o rest = w.proxy.pending \o data
    BY DEF Wrote, Byte, c
  <2>2. /\ Len((r.out \o c.pending) \o rest) = (Len(r.out) + Len(c.pending)) + Len(rest)
        /\ Len(w.proxy.pending \o data) = Len(w.proxy.pending) + Len(data)
    BY <1>1, <1>2, IntJoin
  <2>3. Len(w.net.up) + Len(w.proxy.pending) + Len(data) <= Len(Request)
    BY <1>9 DEF MayGo
  <2>4. /\ Len(w.net.up) \in Nat /\ Len(w.proxy.pending) \in Nat /\ Len(data) \in Nat
        /\ Len(r.out) \in Nat /\ Len(c.pending) \in Nat /\ Len(rest) \in Nat
    BY <1>1, <1>2, SMTT(30)
  <2> DEFINE n1 == Len(w.net.up)
             n2 == Len(w.proxy.pending)
             n3 == Len(data)
             n4 == Len(r.out)
             n5 == Len(c.pending)
             n6 == Len(rest)
             n7 == Len(Request)
  <2>5. /\ n1 \in Nat /\ n2 \in Nat /\ n3 \in Nat /\ n4 \in Nat /\ n5 \in Nat /\ n6 \in Nat
        /\ n7 = 2 /\ (n4 + n5) + n6 = n2 + n3 /\ n1 + n2 + n3 <= n7
    BY <2>1, <2>2, <2>3, <2>4 DEF Request
  <2>6. Len(up) = n1 + n4
    BY <1>3
  <2> HIDE DEF n1, n2, n3, n4, n5, n6, n7
  <2>7. (n1 + n4) + n5 <= n7
    BY <2>5
  <2> QED
    BY <2>6, <2>7 DEF n5, n7
<1>10. Asked(u)
  BY <1>6, <1>7, <1>9 DEF Sane, Asked
<1>11. Sane(u)
  BY <1>1, <1>7, <1>8, <1>10 DEF Sane, Droppable
<1>12. CASE r.failed
  BY <1>4, <1>7, <1>11, <1>12, OnErrorProxyLaw DEF Failed
<1>13. CASE ~ r.failed
  <2>1. up \o c.pending = (w.net.up \o w.proxy.pending) \o data
    <3>1. (w.net.up \o r.out) \o c.pending = w.net.up \o (r.out \o c.pending)
      BY <1>1, <1>2, IntAssociative, ZenonT(40)
    <3>2. (w.net.up \o w.proxy.pending) \o data = w.net.up \o (w.proxy.pending \o data)
      BY <1>2, IntAssociative, Zenon
    <3> QED
      BY <1>1, <1>13, <3>1, <3>2 DEF up
  <2>2. ByProxy(w, u)
    BY <1>6, <1>7 DEF ByProxy, SameRest
  <2>3. SentUp(w, data, u)
    BY <1>1, <1>6, <1>7, <1>11, <1>13, <2>1, <2>2 DEF SentUp
  <2> QED
    BY <1>4, <1>13, <2>3, SMTT(30)
<1> QED
  BY <1>1, <1>12, <1>13

\* Connection::send() to the proxy.
LEMMA SendProxyLaw ==
  ASSUME NEW w, Sane(w), Established(w.proxy), NEW data \in Seq(Int), data # <<>>,
         MayGo(w, data), NEW v \in SendProxy(w, data)
  PROVE  Failed(w, v) \/ SentUp(w, data, v)
<1>1. PICK r \in Send(w.proxy, w.errno, data) : v = AfterProxyWrite(w, r)
  BY DEF SendProxy
<1>2. w.errno \in Errno
  BY DEF Sane, Worlds
<1>3. Wrote(w.proxy, data, r)
  BY <1>2, SendSound DEF Byte
<1> QED
  BY <1>1, <1>3, ProxyWriteLaw

-----------------------------------------------------------------------------
(* flushLocal().                                                           *)

\* A connection that can be written to, or one that recv() has just found at its
\* end or in error: send() does nothing on it.
Doomed(c) == c \in Connections /\ c.open /\ c.handler /\ c.status # "Connected"
Able(c)   == Established(c) \/ Doomed(c)

\* v comes of w by writing data to the proxy, if that can still be written to.
Carried(w, data, v) ==
  /\ Sane(v) /\ ByProxy(w, v) /\ v.cache = w.cache
  /\ IF Established(w.proxy)
     THEN /\ Established(v.proxy)
          /\ v.net.up \o v.proxy.pending = (w.net.up \o w.proxy.pending) \o data
     ELSE v.proxy = w.proxy

\* Writing on a tunnel that has been answered: the session is over, or the data
\* is carried.
LEMMA SendAbleLaw ==
  ASSUME NEW w, Sane(w), w.handler, w.status = "Connected", Able(w.proxy),
         NEW data \in Chunk, NEW v \in SendProxy(w, data)
  PROVE  Ended(v) \/ Carried(w, data, v)
<1>1. w \in Worlds /\ w.net \in Nets /\ w.net.ok /\ w.net.up \in Seq(Int)
  BY AskedUp DEF Sane, Asked
<1>2. data \in Seq(Int) /\ data # <<>>
  BY DEF Chunk
<1>3. CASE Established(w.proxy)
  <2>1. MayGo(w, data)
    BY <1>1 DEF MayGo
  <2>2. Failed(w, v) \/ SentUp(w, data, v)
    BY <1>2, <1>3, <2>1, SendProxyLaw
  <2> QED
    BY <1>3, <2>2 DEF Failed, SentUp, Carried
<1>4. CASE ~ Established(w.proxy)
  <2> DEFINE r == Result(w.proxy, w.errno)
             n == [w.net EXCEPT !.up = @ \o r.out, !.fault = @ \cup {}]
             u == [w EXCEPT !.proxy = r.conn, !.errno = r.errno, !.net.up = @ \o r.out,
                            !.net.fault = @ \cup (IF r.fault THEN {"proxy"} ELSE {})]
  <2>1. Doomed(w.proxy)
    BY <1>4 DEF Able
  <2>2. Send(w.proxy, w.errno, data) = {r}
    BY <2>1 DEF Send, Doomed
  <2>3. r.conn = w.proxy /\ r.errno = w.errno /\ r.out = <<>> /\ ~ r.fault /\ ~ r.failed
    BY DEF Result
  <2>5. w.net.up \o <<>> = w.net.up
    BY <1>1, IntJoin
  <2>9. v = AfterProxyWrite(w, r)
    BY <2>2 DEF SendProxy
  <2> HIDE DEF r
  <2>4. v = u
    BY <2>3, <2>9 DEF AfterProxyWrite
  <2>6. u = [w EXCEPT !.proxy = w.proxy, !.errno = w.errno, !.net = n]
    BY <1>1, <2>3 DEF Worlds, Nets
  <2>7. n = w.net
    BY <1>1, <2>3, <2>5 DEF Nets
  <2> HIDE DEF n, u
  <2>8. u = w
    BY <1>1, <2>6, <2>7 DEF Worlds
  <2> QED
    BY <1>4, <2>4, <2>8 DEF Carried, ByProxy, SameRest
<1> QED
  BY <1>3, <1>4

\* v comes of w by sending a part of what is cached.
Turned(w, v) ==
  /\ Sane(v) /\ ByProxy(w, v) /\ v.cache.file.open = w.cache.file.open
  /\ IF Established(w.proxy)
     THEN /\ Established(v.proxy)
          /\ (v.net.up \o v.proxy.pending) \o Cached(v.cache)
               = (w.net.up \o w.proxy.pending) \o Cached(w.cache)
     ELSE v.proxy = w.proxy

\* No more than n pieces are cached.
Holding(w, n) == \E ps : CacheOK(w.cache, ps) /\ Len(w.cache.mem) + Len(ps) <= n

\* Every chunk has a record of its own.
LEMMA RecordsLong ==
  ASSUME NEW ps \in Chunks
  PROVE  Len(ps) <= Len(Records(ps))
<1> DEFINE P == {q \in Chunks : Len(q) <= Len(Records(q))}
<1>1. <<>> \in P
  BY RecordsFew DEF Chunks
<1>2. ASSUME NEW q \in Seq(Chunk), NEW x \in Chunk, q \in P PROVE Append(q, x) \in P
  <2>1. q \in Chunks /\ <<x>> \in Chunks /\ Append(q, x) \in Chunks /\ Append(q, x) = q \o <<x>>
        /\ Len(Append(q, x)) = Len(q) + 1 /\ Len(q) \in Nat
    BY DEF Chunks
  <2>2. Records(q \o <<x>>) = Records(q) \o Record(x)
    <3>1. Records(q \o <<x>>) = Records(q) \o Records(<<x>>)
      BY <2>1, RecordsConcat
    <3> QED
      BY <3>1, RecordsFew
  <2>3. /\ Records(q) \in Seq(Cells) /\ Record(x) \in Seq(Cells) /\ Len(Record(x)) = 1 + Len(x)
        /\ Len(x) \in Nat
    <3>1. Records(q) \in Seq(Cells)
      BY <2>1, RecordsType
    <3>2. x \in Seq(Int) /\ Len(x) \in Nat
      BY DEF Chunk
    <3>3. Record(x) \in Seq(Cells) /\ Len(Record(x)) = 1 + Len(x)
      BY <3>2, RecordIs
    <3> QED
      BY <3>1, <3>2, <3>3
  <2>4. Len(Records(q) \o Record(x)) = Len(Records(q)) + Len(Record(x)) /\ Len(Records(q)) \in Nat
    <3> DEFINE y == Records(q)
               z == Record(x)
    <3>1. y \in Seq(Cells) /\ z \in Seq(Cells)
      BY <2>3
    <3> HIDE DEF y, z
    <3>2. Len(y \o z) = Len(y) + Len(z) /\ Len(y) \in Nat
      BY <3>1
    <3> QED
      BY <3>2 DEF y, z
  <2>5. Len(q) <= Len(Records(q))
    BY <1>2
  <2> DEFINE a == Len(q)
             b == Len(Records(q))
             c == Len(x)
  <2>6. a \in Nat /\ b \in Nat /\ c \in Nat /\ a <= b
    BY <2>1, <2>3, <2>4, <2>5
  <2>7. Len(Records(Append(q, x))) = b + (1 + c)
    BY <2>1, <2>2, <2>3, <2>4
  <2> HIDE DEF a, b, c
  <2>8. a + 1 <= b + (1 + c)
    BY <2>6
  <2> QED
    BY <2>1, <2>7, <2>8 DEF a
<1> HIDE DEF P
<1>3. Seq(Chunk) \subseteq P
  BY <1>1, <1>2, SeqAll
<1> QED
  BY <1>3 DEF P, Chunks

\* A piece of the list: DropMemHead comes after the send.
LEMMA FlushPieceLaw ==
  ASSUME NEW w, Sane(w), w.handler, w.status = "Connected", Able(w.proxy),
         NEW ps, CacheOK(w.cache, ps), w.cache.mem # <<>>, NEW v \in FlushPiece(w)
  PROVE  \/ Crashed(v)
         \/ /\ Turned(w, v) /\ CacheOK(v.cache, ps)
            /\ v.cache.mem = Tail(w.cache.mem)
<1> DEFINE data == Head(w.cache.mem)
<1>1. PICK u \in SendProxy(w, data) :
        v = IF u.cache.mem = <<>> THEN [u EXCEPT !.place = "crashed"]
            ELSE [u EXCEPT !.cache = DropMemHead(@)]
  BY DEF FlushPiece
<1>2. /\ data \in Chunk /\ CacheOK(DropMemHead(w.cache), ps)
      /\ DropMemHead(w.cache).mem = Tail(w.cache.mem)
      /\ Cached(w.cache) = data \o Cached(DropMemHead(w.cache))
  BY DropMemIs
<1>3. Ended(u) \/ Carried(w, data, u)
  BY <1>2, SendAbleLaw
<1>4. CASE Ended(u)
  <2>1. u.cache.mem = <<>> /\ u \in Worlds
    BY <1>4 DEF Ended, Quiet, Sane
  <2>2. v = [u EXCEPT !.place = "crashed"]
    BY <1>1, <2>1
  <2>3. /\ v \in Worlds /\ v.place = "crashed" /\ v.local = u.local /\ v.proxy = u.proxy
        /\ v.cache = u.cache /\ v.status = u.status /\ v.header = u.header /\ v.net = u.net
    BY <2>1, <2>2 DEF Worlds
  <2>4. Sane(v)
    BY <1>4, <2>3 DEF Ended, Sane, Asked
  <2> QED
    BY <2>3, <2>4 DEF Crashed
<1>5. CASE Carried(w, data, u)
  <2> DEFINE c == DropMemHead(w.cache)
  <2>1. u.cache = w.cache /\ u \in Worlds /\ Sane(u) /\ ByProxy(w, u)
    BY <1>5 DEF Carried, Sane
  <2>2. v = [u EXCEPT !.cache = c]
    BY <1>1, <2>1
  <2>3. c \in Caches /\ c.file = w.cache.file /\ Cached(c) \in Seq(Int)
    <3>1. c.file = w.cache.file
      BY DEF DropMemHead, CacheOK, Caches
    <3> QED
      BY <1>2, <3>1, CachedIs DEF CacheOK
  <2>6. Cached(w.cache) = data \o Cached(c) /\ CacheOK(c, ps) /\ c.mem = Tail(w.cache.mem)
    BY <1>2
  <2> HIDE DEF c
  <2>4. /\ v \in Worlds /\ v.local = u.local /\ v.proxy = u.proxy /\ v.cache = c
        /\ v.status = u.status /\ v.header = u.header /\ v.net = u.net /\ v.handler = u.handler
        /\ v.place = u.place
    BY <2>1, <2>2, <2>3 DEF Worlds
  <2>5. Sane(v) /\ ByProxy(w, v)
    BY <2>1, <2>4, <2>6 DEF Sane, Asked, ByProxy, SameRest
  <2>7. v.cache.file.open = w.cache.file.open
    BY <2>3, <2>4, SMTT(30)
  <2>8. ASSUME Established(w.proxy)
        PROVE  /\ Established(v.proxy)
               /\ (v.net.up \o v.proxy.pending) \o Cached(v.cache)
                    = (w.net.up \o w.proxy.pending) \o Cached(w.cache)
    <3> DEFINE a == w.net.up \o w.proxy.pending
    <3>1. Established(u.proxy) /\ u.net.up \o u.proxy.pending = a \o data
      BY <1>5, <2>8 DEF Carried
    <3>2. a \in Seq(Int)
      <4>1. w.net.up \in Seq(Int) /\ w.proxy.pending \in Seq(Int)
        BY AskedUp DEF Connections, Byte
      <4> QED
        BY <4>1, IntJoin
    <3>3. data \in Seq(Int)
      BY <1>2 DEF Chunk
    <3> HIDE DEF a
    <3>4. (a \o data) \o Cached(c) = a \o (data \o Cached(c))
      BY <2>3, <3>2, <3>3, IntAssociative, ZenonT(40)
    <3>5. (v.net.up \o v.proxy.pending) \o Cached(v.cache) = (a \o data) \o Cached(c)
      BY <2>4, <3>1
    <3>6. (v.net.up \o v.proxy.pending) \o Cached(v.cache) = a \o Cached(w.cache)
      BY <2>6, <3>4, <3>5
    <3> QED
      BY <2>4, <3>1, <3>6, ZenonT(40) DEF a
  <2>9. ~ Established(w.proxy) => v.proxy = w.proxy
    BY <1>5, <2>4, SMTT(30) DEF Carried
  <2>10. Turned(w, v)
    BY <2>5, <2>7, <2>8, <2>9 DEF Turned
  <2> QED
    BY <2>4, <2>6, <2>10
<1> QED
  BY <1>3, <1>4, <1>5

\* A record of the file: DropFileHead comes before the send.
LEMMA FlushRecordLaw ==
  ASSUME NEW w, Sane(w), w.handler, w.status = "Connected", Able(w.proxy),
         NEW ps, CacheOK(w.cache, ps), w.cache.mem = <<>>, ps # <<>>, NEW v \in FlushRecord(w)
  PROVE  \/ Ended(v)
         \/ Turned(w, v) /\ CacheOK(v.cache, Tail(ps)) /\ v.cache.mem = <<>>
<1> DEFINE sz == PeekSize(w.cache.file)
           data == DiskRead(w.cache.file, sz)
           c == DropFileHead(w.cache, sz)
           u == [w EXCEPT !.cache = DropFileHead(@, sz)]
<1>1. sz = Len(Head(ps)) /\ Head(ps) \in Chunk
  BY PeekSizeIs DEF CacheOK, Holds, Chunks
<1>2. sz \in Nat /\ sz > 0
  BY <1>1, EmptySeq DEF Chunk
<1>3. /\ data \in Chunk /\ CacheOK(c, Tail(ps)) /\ c.mem = w.cache.mem
      /\ FlattenSeq(ps) = data \o FlattenSeq(Tail(ps))
  BY <1>2, DropFileIs
<1>4. c.file.open = w.cache.file.open
  <2>1. w.cache \in Caches /\ w.cache.file \in Files
    BY DEF CacheOK, Caches
  <2> QED
    BY <2>1 DEF DropFileHead, DiskAdvance, Caches, Files
<1>5. Cached(w.cache) = data \o Cached(c) /\ Cached(c) \in Seq(Int)
  <2>1. /\ Cached(w.cache) = FlattenSeq(w.cache.mem) \o FlattenSeq(ps)
        /\ Cached(c) = FlattenSeq(c.mem) \o FlattenSeq(Tail(ps))
        /\ Cached(c) \in Seq(Int) /\ ps \in Chunks /\ Tail(ps) \in Chunks
    BY <1>3, CachedIs
  <2>2. FlattenSeq(ps) \in Seq(Int) /\ FlattenSeq(Tail(ps)) \in Seq(Int)
    BY <2>1, FlattenChunks
  <2>3. FlattenSeq(<<>>) = <<>>
    BY FlattenType
  <2>4. Cached(w.cache) = FlattenSeq(ps) /\ Cached(c) = FlattenSeq(Tail(ps))
    <3>1. <<>> \o FlattenSeq(ps) = FlattenSeq(ps)
      BY <2>2, IntJoin, Zenon
    <3>2. <<>> \o FlattenSeq(Tail(ps)) = FlattenSeq(Tail(ps))
      BY <2>2, IntJoin, Zenon
    <3>3. FlattenSeq(w.cache.mem) = <<>> /\ FlattenSeq(c.mem) = <<>>
      BY <1>3, <2>3, Zenon
    <3> HIDE DEF c
    <3> QED
      BY <2>1, <3>1, <3>2, <3>3
  <2> QED
    BY <1>3, <2>1, <2>4
<1>6. v \in SendProxy(u, data)
  <2> HIDE DEF data, c
  <2> QED
    BY <1>2 DEF FlushRecord, data
<1>7. w \in Worlds /\ c \in Caches
  BY <1>3 DEF Sane, CacheOK
<1>8. /\ u \in Worlds /\ u.cache = c /\ u.local = w.local /\ u.proxy = w.proxy /\ u.net = w.net
      /\ u.status = w.status /\ u.header = w.header /\ u.handler = w.handler /\ u.place = w.place
  <2>1. u = [w EXCEPT !.cache = c]
    BY <1>7 DEF Worlds
  <2> HIDE DEF c, u
  <2> QED
    BY <1>7, <2>1 DEF Worlds
<1> HIDE DEF sz, data, c, u
<1>9. Sane(u)
  BY <1>3, <1>8 DEF Sane, Asked
<1>10. Ended(v) \/ Carried(u, data, v)
  BY <1>3, <1>6, <1>8, <1>9, SendAbleLaw
<1>11. ASSUME Carried(u, data, v) PROVE Turned(w, v)
  <2>1. Sane(v) /\ ByProxy(w, v) /\ v.cache = c
    BY <1>8, <1>11 DEF Carried, ByProxy, SameRest
  <2>2. ASSUME Established(w.proxy)
        PROVE  /\ Established(v.proxy)
               /\ (v.net.up \o v.proxy.pending) \o Cached(v.cache)
                    = (w.net.up \o w.proxy.pending) \o Cached(w.cache)
    <3> DEFINE a == w.net.up \o w.proxy.pending
    <3>1. Established(v.proxy) /\ v.net.up \o v.proxy.pending = a \o data
      BY <1>8, <1>11, <2>2 DEF Carried
    <3>2. a \in Seq(Int)
      <4>1. w.net.up \in Seq(Int) /\ w.proxy.pending \in Seq(Int)
        BY AskedUp DEF Connections, Byte
      <4> QED
        BY <4>1, IntJoin
    <3>3. data \in Seq(Int)
      BY <1>3 DEF Chunk
    <3> HIDE DEF a
    <3>4. (a \o data) \o Cached(c) = a \o (data \o Cached(c))
      BY <1>5, <3>2, <3>3, IntAssociative, Zenon
    <3>5. (v.net.up \o v.proxy.pending) \o Cached(v.cache) = a \o Cached(w.cache)
      BY <1>5, <2>1, <3>1, <3>4
    <3> QED
      BY <3>1, <3>5 DEF a
  <2>3. ~ Established(w.proxy) => v.proxy = w.proxy
    BY <1>8, <1>11 DEF Carried
  <2> QED
    BY <1>4, <2>1, <2>2, <2>3 DEF Turned
<1> QED
  BY <1>3, <1>8, <1>10, <1>11 DEF Carried

\* The end of a turn: nothing is left of the tunnel, or one piece less.
Goes(w, n, v) == Ended(v) \/ Crashed(v) \/ (Turned(w, v) /\ Holding(v, n))

\* A turn of the loops.
LEMMA FlushTurnLaw ==
  ASSUME NEW w, Sane(w), w.handler, w.place # "crashed", w.status = "Connected", Able(w.proxy),
         NEW n \in Nat, Holding(w, n + 1), NEW v \in FlushTurn(w)
  PROVE  Goes(w, n, v)
<1>1. PICK ps : CacheOK(w.cache, ps) /\ Len(w.cache.mem) + Len(ps) <= n + 1
  BY DEF Holding
<1>2. w.cache.mem \in Chunks /\ ps \in Chunks
  BY <1>1 DEF CacheOK, Caches, Holds
<1> DEFINE l == Len(w.cache.mem)
           k == Len(ps)
<1>3. l \in Nat /\ k \in Nat /\ l + k <= n + 1
  BY <1>1, <1>2 DEF Chunks
<1>4. CASE w.cache.mem # <<>>
  <2>1. v \in FlushPiece(w)
    BY <1>4 DEF FlushTurn
  <2>2. Crashed(v) \/ (Turned(w, v) /\ CacheOK(v.cache, ps) /\ v.cache.mem = Tail(w.cache.mem))
    BY <1>1, <1>4, <2>1, FlushPieceLaw
  <2>3. Len(Tail(w.cache.mem)) = l - 1
    BY <1>2, <1>4 DEF Chunks
  <2> HIDE DEF l, k
  <2>4. (l - 1) + k <= n
    BY <1>3
  <2>5. CASE Turned(w, v) /\ CacheOK(v.cache, ps) /\ v.cache.mem = Tail(w.cache.mem)
    <3>1. Len(v.cache.mem) + Len(ps) <= n
      BY <2>3, <2>4, <2>5 DEF k
    <3> QED
      BY <2>5, <3>1 DEF Goes, Holding
  <2> QED
    BY <2>2, <2>5 DEF Goes
<1>5. CASE w.cache.mem = <<>> /\ ps # <<>>
  <2>1. v \in FlushRecord(w)
    BY <1>5 DEF FlushTurn
  <2>2. Ended(v) \/ (Turned(w, v) /\ CacheOK(v.cache, Tail(ps)) /\ v.cache.mem = <<>>)
    BY <1>1, <1>5, <2>1, FlushRecordLaw
  <2>3. Len(Tail(ps)) = k - 1 /\ l = 0
    BY <1>2, <1>5 DEF Chunks
  <2> HIDE DEF l, k
  <2>4. 0 + (k - 1) <= n
    BY <1>3, <2>3
  <2>5. CASE Turned(w, v) /\ CacheOK(v.cache, Tail(ps)) /\ v.cache.mem = <<>>
    <3>1. Len(v.cache.mem) = 0
      BY <2>5
    <3>2. Len(v.cache.mem) + Len(Tail(ps)) <= n
      BY <2>3, <2>4, <3>1
    <3> QED
      BY <2>5, <3>2 DEF Goes, Holding
  <2> QED
    BY <2>2, <2>5 DEF Goes
<1>6. CASE w.cache.mem = <<>> /\ ps = <<>>
  <2>1. PeekSize(w.cache.file) = 0
    BY <1>1, <1>6, PeekSizeIs DEF CacheOK
  <2>2. v = w
    BY <1>6, <2>1 DEF FlushTurn, FlushRecord
  <2>3. Len(w.cache.mem) + Len(ps) <= n
    BY <1>6
  <2>4. Turned(w, w)
    BY DEF Turned, ByProxy, SameRest, Able
  <2> QED
    BY <1>1, <2>2, <2>3, <2>4 DEF Goes, Holding
<1> QED
  BY <1>4, <1>5, <1>6

\* Everything cached has gone to the proxy; or the tunnel is gone.
Flushed(w, v) == Ended(v) \/ Crashed(v) \/ (Turned(w, v) /\ Cached(v.cache) = <<>>)

\* Nothing to send, nothing cached.
LEMMA HoldingNone ==
  ASSUME NEW w, Holding(w, 0)
  PROVE  Cached(w.cache) = <<>>
<1>1. PICK ps : CacheOK(w.cache, ps) /\ Len(w.cache.mem) + Len(ps) <= 0
  BY DEF Holding
<1>2. w.cache.mem \in Chunks /\ ps \in Chunks
  BY <1>1 DEF CacheOK, Caches, Holds
<1> DEFINE l == Len(w.cache.mem)
           k == Len(ps)
<1>3. l \in Nat /\ k \in Nat /\ l + k <= 0
  BY <1>1, <1>2 DEF Chunks
<1> HIDE DEF l, k
<1>4. l = 0 /\ k = 0
  BY <1>3
<1>5. w.cache.mem = <<>> /\ ps = <<>>
  BY <1>2, <1>4, EmptySeq DEF l, k, Chunks
<1>6. FlattenSeq(<<>>) = <<>>
  BY FlattenType
<1>7. Cached(w.cache) = FlattenSeq(w.cache.mem) \o FlattenSeq(ps)
  BY <1>1, CachedIs
<1>8. <<>> \o <<>> = <<>>
  OBVIOUS
<1> QED
  BY <1>5, <1>6, <1>7, <1>8

\* Nothing that a turn promises is lost by another.
LEMMA TurnedOn ==
  ASSUME NEW w, NEW v, NEW u, Turned(w, v), Turned(v, u)
  PROVE  Turned(w, u)
BY DEF Turned, ByProxy, SameRest

\* An ended or a crashed tunnel has no more turns.
LEMMA TurnStays ==
  ASSUME NEW v, Ended(v) \/ Crashed(v)
  PROVE  FlushTurn(v) = {v}
<1>1. CASE Crashed(v)
  BY <1>1 DEF Crashed, FlushTurn
<1>2. CASE Ended(v)
  <2>1. v.place # "crashed" /\ v.cache.mem = <<>> /\ v.cache.file = NoFile
    BY <1>2 DEF Ended, Quiet
  <2>2. PeekSize(v.cache.file) = 0
    BY <2>1 DEF PeekSize, NoFile
  <2> QED
    BY <2>1, <2>2 DEF FlushTurn, FlushRecord
<1> QED
  BY <1>1, <1>2

\* f is the function that FlushLocal evaluates up to n turns.
Turns(w, n, f) ==
  f = [k \in 0 .. n |-> IF k = 0 THEN {w} ELSE UNION {FlushTurn(v) : v \in f[k - 1]}]

\* It exists, by induction on n.
LEMMA TurnsExist ==
  ASSUME NEW w, NEW n \in Nat
  PROVE  \E f : Turns(w, n, f)
<1> DEFINE T == {m \in Nat : \E f : Turns(w, m, f)}
<1>1. 0 \in T
  <2> DEFINE f == [k \in 0 .. 0 |-> {w}]
  <2>1. Turns(w, 0, f)
    BY DEF Turns
  <2> QED
    BY <2>1
<1>2. ASSUME NEW m \in Nat, m \in T PROVE m + 1 \in T
  <2>1. PICK f : Turns(w, m, f)
    BY <1>2
  <2> DEFINE next == UNION {FlushTurn(v) : v \in f[m]}
             g == [k \in 0 .. m + 1 |-> IF k = m + 1 THEN next ELSE f[k]]
  <2>2. \A k \in 0 .. m + 1 : g[k] = IF k = 0 THEN {w} ELSE UNION {FlushTurn(v) : v \in g[k - 1]}
    <3>1. \A k \in 0 .. m : f[k] = IF k = 0 THEN {w} ELSE UNION {FlushTurn(v) : v \in f[k - 1]}
      BY <2>1 DEF Turns
    <3> SUFFICES ASSUME NEW k \in 0 .. m + 1
                 PROVE  g[k] = IF k = 0 THEN {w} ELSE UNION {FlushTurn(v) : v \in g[k - 1]}
      OBVIOUS
    <3>2. k # 0 => k - 1 \in 0 .. m + 1 /\ k - 1 # m + 1
      OBVIOUS
    <3>3. k # 0 => g[k - 1] = f[k - 1]
      BY <3>2
    <3>4. CASE k = m + 1
      BY <3>3, <3>4
    <3>5. CASE k # m + 1
      <4>1. k \in 0 .. m /\ g[k] = f[k]
        BY <3>5
      <4> HIDE DEF g
      <4> QED
        BY <3>1, <3>3, <4>1
    <3> QED
      BY <3>4, <3>5
  <2>3. Turns(w, m + 1, g)
    BY <2>2 DEF Turns
  <2> QED
    BY <2>3
<1> HIDE DEF T
<1>3. n \in T
  BY <1>1, <1>2, NatAll
<1> QED
  BY <1>3 DEF T

\* A tunnel whose loops may run.
Flushable(w) ==
  Sane(w) /\ w.handler /\ w.place # "crashed" /\ w.status = "Connected" /\ Able(w.proxy)

\* FlushLocal returns the last value of that function.
LEMMA FlushLocalIs ==
  ASSUME NEW w, Flushable(w), NEW n, n = Len(w.cache.mem) + Len(w.cache.file.cells)
  PROVE  n \in Nat /\ \E f : Turns(w, n, f) /\ FlushLocal(w) = f[n]
<1>1. w.cache.mem \in Seq(Chunk) /\ w.cache.file.cells \in Seq(Cells)
  BY DEF Flushable, Sane, Worlds, Caches, Files, Chunks
<1> DEFINE l == Len(w.cache.mem)
           m == Len(w.cache.file.cells)
<1>4. l \in Nat /\ m \in Nat /\ n = l + m
  BY <1>1
<1> HIDE DEF l, m
<1>2. n \in Nat
  <2>1. \A a, b \in Nat : a + b \in Nat
    OBVIOUS
  <2> QED
    BY <1>4, <2>1, Zenon
<1>3. \E f : Turns(w, n, f)
  BY <1>2, TurnsExist
<1> QED
  BY <1>2, <1>3 DEF FlushLocal, Turns, Flushable

\* After k turns.
LEMMA TurnsSound ==
  ASSUME NEW w, Flushable(w), NEW n \in Nat, Holding(w, n), NEW f, Turns(w, n, f)
  PROVE  \A v \in f[n] : Goes(w, 0, v)
<1> DEFINE T == {k \in Nat : k <= n => \A v \in f[k] : Goes(w, n - k, v)}
<1>0. \A k \in 0 .. n : f[k] = IF k = 0 THEN {w} ELSE UNION {FlushTurn(v) : v \in f[k - 1]}
  BY DEF Turns
<1>1. 0 \in T
  <2>1. f[0] = {w} /\ n - 0 = n
    <3>1. 0 \in 0 .. n /\ n - 0 = n
      OBVIOUS
    <3> HIDE DEF T
    <3> QED
      BY <1>0, <3>1
  <2>2. Turned(w, w)
    BY DEF Turned, ByProxy, SameRest, Able, Flushable
  <2>3. Goes(w, n, w)
    BY <2>2 DEF Goes
  <2> QED
    BY <2>1, <2>3
<1>2. ASSUME NEW k \in Nat, k \in T PROVE k + 1 \in T
  <2> SUFFICES ASSUME k + 1 <= n, NEW u \in f[k + 1] PROVE Goes(w, n - (k + 1), u)
    OBVIOUS
  <2> DEFINE m == n - (k + 1)
  <2>1. k <= n /\ m \in Nat /\ n - k = m + 1 /\ k + 1 \in 0 .. n /\ k + 1 # 0 /\ (k + 1) - 1 = k
    OBVIOUS
  <2>2. f[k + 1] = UNION {FlushTurn(v) : v \in f[k]}
    BY <1>0, <2>1
  <2>3. PICK v \in f[k] : u \in FlushTurn(v)
    BY <2>2
  <2>4. Goes(w, m + 1, v)
    BY <1>2, <2>1
  <2> HIDE DEF m, T
  <2>5. CASE Ended(v) \/ Crashed(v)
    <3>1. u = v
      BY <2>3, <2>5, TurnStays
    <3> QED
      BY <2>5, <3>1 DEF Goes, m
  <2>6. CASE Turned(w, v) /\ Holding(v, m + 1)
    <3>1. Flushable(v)
      BY <2>6 DEF Flushable, Turned, ByProxy, SameRest, Able
    <3>2. Goes(v, m, u)
      BY <2>1, <2>3, <2>6, <3>1, FlushTurnLaw DEF Flushable
    <3>3. Goes(w, m, u)
      BY <2>6, <3>2, TurnedOn DEF Goes
    <3> QED
      BY <3>3 DEF m
  <2> QED
    BY <2>4, <2>5, <2>6 DEF Goes
<1> HIDE DEF T
<1>3. n \in T
  BY <1>1, <1>2, NatAll
<1> QED
  BY <1>3 DEF T

\* There is a turn for every piece.
LEMMA HoldingAll ==
  ASSUME NEW w, Sane(w)
  PROVE  Holding(w, Len(w.cache.mem) + Len(w.cache.file.cells))
<1>1. PICK ps : CacheOK(w.cache, ps)
  BY DEF Sane
<1>2. /\ w.cache.file \in Files /\ w.cache.file.pos <= Len(w.cache.file.cells)
      /\ Ahead(w.cache.file) = Records(ps) /\ ps \in Chunks /\ w.cache.mem \in Chunks
  BY <1>1 DEF CacheOK, Holds, Caches
<1> DEFINE a == Len(Ahead(w.cache.file))
           k == Len(ps)
           l == Len(w.cache.mem)
           m == Len(w.cache.file.cells)
           p == w.cache.file.pos
<1>3. a = m - p /\ m \in Nat /\ p \in Nat
  BY <1>2, AheadIs
<1>4. k <= a
  BY <1>2, RecordsLong
<1>5. l \in Nat /\ k \in Nat
  BY <1>2 DEF Chunks
<1> HIDE DEF a, k, l, m, p
<1>6. l + k <= l + m
  BY <1>3, <1>4, <1>5
<1> QED
  BY <1>1, <1>6 DEF Holding, k, l, m

\* flushLocal(): the cached bytes follow what went to the proxy before.
LEMMA FlushLocalLaw ==
  ASSUME NEW w, Flushable(w), NEW v \in FlushLocal(w)
  PROVE  Flushed(w, v)
<1> DEFINE n == Len(w.cache.mem) + Len(w.cache.file.cells)
<1>1. Holding(w, n)
  BY HoldingAll DEF Flushable
<1> HIDE DEF n
<1>2. n \in Nat /\ \E f : Turns(w, n, f) /\ FlushLocal(w) = f[n]
  BY FlushLocalIs DEF n
<1>3. Goes(w, 0, v)
  BY <1>1, <1>2, TurnsSound
<1> QED
  BY <1>3, HoldingNone DEF Goes, Flushed

-----------------------------------------------------------------------------
(* The client is gone.                                                     *)

Over(v) == Ended(v) \/ Crashed(v)

\* A tunnel that may lose its client.
Losable(w) ==
  /\ Sane(w) /\ w.handler /\ w.place # "crashed"
  /\ w.status = "Connected" => Able(w.proxy)

\* Another phase that claims nothing, and less for the proxy: still sane.
LEMMA LessIsSane ==
  ASSUME NEW w, Sane(w), NEW l, NEW p, Droppable(l), Bare(p),
         NEW v, v = [w EXCEPT !.status = "Closed", !.local = l, !.proxy = p]
  PROVE  Sane(v) /\ v.handler = w.handler
<1>1. w \in Worlds /\ l \in Connections /\ p \in Connections /\ p.pending = <<>>
  BY DEF Sane, Bare, Droppable
<1>2. /\ v \in Worlds /\ v.local = l /\ v.proxy = p /\ v.status = "Closed" /\ v.net = w.net
      /\ v.header = w.header /\ v.handler = w.handler /\ v.cache = w.cache
  BY <1>1 DEF Worlds
<1>3. Len(v.proxy.pending) = 0 /\ Len(w.net.up) \in Nat
  BY <1>1, <1>2, AskedUp
<1>4. ASSUME ~ v.net.ok PROVE Len(v.net.up) + Len(v.proxy.pending) <= Len(Request)
  <2>1. Len(w.net.up) <= Len(Request)
    BY <1>2, <1>4, AskedUp
  <2>2. \A x, y, z : x \in Nat /\ y = 0 /\ x <= z => x + y <= z
    OBVIOUS
  <2> QED
    BY <1>2, <1>3, <2>1, <2>2, Zenon
<1>5. Asked(v)
  BY <1>2, <1>4 DEF Asked, Sane
<1>6. Droppable(v.local) /\ Droppable(v.proxy)
  BY <1>2, Zenon DEF Droppable, Bare
<1>7. \E ps : CacheOK(v.cache, ps)
  BY <1>2 DEF Sane
<1> QED
  BY <1>2, <1>5, <1>6, <1>7, Zenon DEF Sane

\* onError and onDisconnected of mLocalConn end the session.
LEMMA LocalGoneLaw ==
  ASSUME NEW w, Losable(w), NEW keep \in BOOLEAN, NEW v \in LocalGone(w, keep)
  PROVE  Over(v)
<1> DEFINE l == Shutdown(w.local)
           s == [w EXCEPT !.local = Shutdown(@)]
<1>1. Bare(l) /\ w \in Worlds /\ l \in Connections
  BY DropLaw DEF Losable, Sane, Bare
<1>2. PICK u \in FlushLocal(s) :
        v = IF u.place = "crashed" THEN u
            ELSE Upcall([u EXCEPT !.status = "Closed",
                                  !.proxy = IF keep THEN Shutdown(@) ELSE Dropped(@)])
  BY DEF LocalGone
<1> HIDE DEF l
<1>3. s = [w EXCEPT !.local = l]
  BY <1>1 DEF l, Worlds
<1>4. /\ s \in Worlds /\ s.local = l /\ s.proxy = w.proxy /\ s.cache = w.cache /\ s.net = w.net
      /\ s.status = w.status /\ s.header = w.header /\ s.handler = w.handler /\ s.place = w.place
  BY <1>1, <1>3 DEF Worlds
<1> HIDE DEF s
<1>5. Sane(s)
  BY <1>1, <1>4 DEF Losable, Sane, Asked, Droppable
<1>6. Sane(u) /\ (u.place # "crashed" => u.handler)
  <2>1. CASE s.status = "Connected"
    <3>1. Flushable(s)
      BY <1>4, <1>5, <2>1 DEF Losable, Flushable
    <3>2. Flushed(s, u)
      BY <1>2, <3>1, FlushLocalLaw
    <3> QED
      BY <1>4, <3>2 DEF Flushed, Ended, Crashed, Turned, ByProxy, SameRest, Losable
  <2>2. CASE s.status # "Connected"
    <3>1. u = s
      BY <1>2, <2>2 DEF FlushLocal
    <3> QED
      BY <1>4, <1>5, <3>1 DEF Losable
  <2> QED
    BY <2>1, <2>2, SMTT(30)
<1>7. CASE u.place = "crashed"
  BY <1>2, <1>6, <1>7 DEF Over, Crashed
<1>8. CASE u.place # "crashed"
  <2> DEFINE p == IF keep THEN Shutdown(u.proxy) ELSE Dropped(u.proxy)
             x == [u EXCEPT !.status = "Closed", !.proxy = IF keep THEN Shutdown(@) ELSE Dropped(@)]
  <2>1. Bare(p) /\ Droppable(u.local) /\ u \in Worlds
    BY <1>6, DropLaw, NewIsBare DEF Sane
  <2> HIDE DEF p
  <2>2. x = [u EXCEPT !.status = "Closed", !.local = u.local, !.proxy = p]
    BY <2>1 DEF Worlds, p
  <2>3. v = Upcall(x)
    BY <1>2, <1>8
  <2> HIDE DEF x
  <2>4. Sane(x) /\ x.handler
    BY <1>6, <1>8, <2>1, <2>2, LessIsSane
  <2> QED
    BY <2>3, <2>4, UpcallLaw DEF Over
<1> QED
  BY <1>7, <1>8

\* What is said of the two callbacks.
LEMMA LocalEndsLaw ==
  ASSUME NEW w, Losable(w), NEW v, v \in OnErrorLocal(w) \/ v \in OnDisconnectedLocal(w)
  PROVE  Over(v)
<1>1. CASE v \in OnDisconnectedLocal(w)
  BY <1>1, LocalGoneLaw DEF OnDisconnectedLocal
<1>2. CASE v \in OnErrorLocal(w)
  <2> DEFINE n == [w.net EXCEPT !.blamed = @ \cup {"local"}]
             u == [w EXCEPT !.net.blamed = @ \cup {"local"}]
  <2>1. w \in Worlds /\ w.net \in Nets
    BY AskedUp DEF Losable
  <2>2. n \in Nets /\ n.up = w.net.up /\ n.ok = w.net.ok
    BY <2>1 DEF Nets, Sides
  <2>3. u = [w EXCEPT !.net = n]
    BY <2>1 DEF Worlds, Nets
  <2>4. v \in LocalGone(u, FALSE)
    BY <1>2 DEF OnErrorLocal
  <2> HIDE DEF n, u
  <2>5. /\ u \in Worlds /\ u.net = n /\ u.local = w.local /\ u.proxy = w.proxy /\ u.cache = w.cache
        /\ u.status = w.status /\ u.header = w.header /\ u.handler = w.handler /\ u.place = w.place
    BY <2>1, <2>2, <2>3 DEF Worlds
  <2>6. Losable(u)
    BY <2>2, <2>5 DEF Losable, Sane, Asked
  <2> QED
    BY <2>4, <2>6, LocalGoneLaw
<1> QED
  BY <1>1, <1>2

-----------------------------------------------------------------------------
(* Writing to the client.                                                  *)

\* What a write to the client changes besides.
ByLocal(w, v) ==
  SameRest(w, v) /\ v.proxy = w.proxy /\ v.cache = w.cache /\ v.net.up = w.net.up

\* The data follows what went to the client before.
SentDown(w, data, v) ==
  /\ Sane(v) /\ ByLocal(w, v) /\ Established(v.local)
  /\ v.net.down \o v.local.pending = (w.net.down \o w.local.pending) \o data

\* Taking up the result of a method of mLocalConn that writes.
LEMMA LocalWriteLaw ==
  ASSUME NEW w, Losable(w), Established(w.local), NEW data \in Seq(Int),
         NEW r, Wrote(w.local, data, r), NEW v \in AfterLocalWrite(w, r)
  PROVE  Over(v) \/ SentDown(w, data, v)
<1> DEFINE b == IF r.fault THEN {"local"} ELSE {}
           c == r.conn
           down == w.net.down \o r.out
           n == [w.net EXCEPT !.down = down, !.fault = @ \cup b]
           u == [w EXCEPT !.local = c, !.errno = r.errno, !.net.down = @ \o r.out,
                          !.net.fault = @ \cup b]
<1>1. /\ c \in Connections /\ c.open /\ c.handler /\ c.pending \in Seq(Int)
      /\ r.errno \in Errno /\ r.failed \in BOOLEAN /\ r.out \in Seq(Int)
      /\ ~ r.failed => Established(c) /\ r.out \o c.pending = w.local.pending \o data
  BY DEF Wrote, Connections, Byte
<1>2. /\ w \in Worlds /\ w.net \in Nets /\ w.net.down \in Seq(Int) /\ w.local.pending \in Seq(Int)
  BY AskedUp DEF Connections, Byte, Losable, Nets
<1>3. b \subseteq Sides /\ down \in Seq(Int)
  BY <1>1, <1>2, IntJoin DEF Sides
<1>4. v \in IF r.failed THEN OnErrorLocal(u) ELSE {u}
  BY <1>1 DEF AfterLocalWrite
<1>5. u = [w EXCEPT !.local = c, !.errno = r.errno, !.net = n]
  BY <1>2 DEF Worlds, Nets
<1> HIDE DEF b, c, down, u
<1>6. /\ n \in Nets /\ n.down = down /\ n.up = w.net.up /\ n.in = w.net.in /\ n.end = w.net.end
      /\ n.client = w.net.client /\ n.server = w.net.server /\ n.extra = w.net.extra
      /\ n.answer = w.net.answer /\ n.ok = w.net.ok /\ n.session = w.net.session /\ n.badDisk = w.net.badDisk
  BY <1>2, <1>3 DEF Nets
<1> HIDE DEF n
<1>7. /\ u.local = c /\ u.net = n /\ u.proxy = w.proxy /\ u.cache = w.cache /\ u.status = w.status
      /\ u.header = w.header /\ u.handler = w.handler /\ u.place = w.place
  BY <1>2, <1>5 DEF Worlds
<1>8. u \in Worlds
  BY <1>1, <1>2, <1>5, <1>6 DEF Worlds
<1>9. Losable(u)
  BY <1>1, <1>6, <1>7, <1>8 DEF Losable, Sane, Asked, Droppable
<1>10. CASE r.failed
  BY <1>4, <1>9, <1>10, LocalEndsLaw
<1>11. CASE ~ r.failed
  <2>1. down \o c.pending = (w.net.down \o w.local.pending) \o data
    <3>1. (w.net.down \o r.out) \o c.pending = w.net.down \o (r.out \o c.pending)
      BY <1>1, <1>2, IntAssociative, ZenonT(40)
    <3>2. (w.net.down \o w.local.pending) \o data = w.net.down \o (w.local.pending \o data)
      BY <1>2, IntAssociative, Zenon
    <3> QED
      BY <1>1, <1>11, <3>1, <3>2 DEF down
  <2>2. ByLocal(w, u)
    BY <1>6, <1>7 DEF ByLocal, SameRest
  <2>3. SentDown(w, data, u)
    BY <1>1, <1>6, <1>7, <1>9, <1>11, <2>1, <2>2 DEF SentDown, Losable
  <2> QED
    BY <1>4, <1>11, <2>3, SMTT(30)
<1> QED
  BY <1>1, <1>10, <1>11

\* Connection::send() to the client.
LEMMA SendLocalLaw ==
  ASSUME NEW w, Losable(w), Established(w.local), NEW data \in Chunk, NEW v \in SendLocal(w, data)
  PROVE  Over(v) \/ SentDown(w, data, v)
<1>1. PICK r \in Send(w.local, w.errno, data) : v \in AfterLocalWrite(w, r)
  BY DEF SendLocal
<1>2. w.errno \in Errno /\ data \in Seq(Int) /\ data # <<>>
  BY DEF Losable, Sane, Worlds, Chunk
<1>3. Wrote(w.local, data, r)
  BY <1>2, SendSound DEF Byte
<1> QED
  BY <1>1, <1>2, <1>3, LocalWriteLaw

-----------------------------------------------------------------------------
(* The streams.                                                            *)

FromClient(n) == [k \in 1 .. n.client |-> ClientByte(n.session, k)]
FromServer(n) == [k \in 1 .. n.server |-> ServerByte(n.session, k)]

AllServer(s) == \A i \in 1 .. Len(s) : IsServerByte(s[i])

\* What Server flattens.
Sieve(s) == [i \in 1 .. Len(s) |-> IF IsServerByte(s[i]) THEN <<s[i]>> ELSE <<>>]

\* The bytes of the two ends are numbers, and those of the server are its own.
LEMMA TokensLaw ==
  ASSUME NEW s \in Nat, NEW k \in Nat \ {0}
  PROVE  ClientByte(s, k) \in Int /\ ServerByte(s, k) \in Int /\ IsServerByte(ServerByte(s, k))
<1> DEFINE m == (1 + MaxClient + MaxServer) * s
           x == m + k
<1>1. MaxClient \in Nat /\ MaxServer \in Nat
  BY TunnelAssumption
<1>2. m \in Nat
  <2>1. \A a, b \in Nat : a * b \in Nat
    OBVIOUS
  <2>2. 1 + MaxClient + MaxServer \in Nat
    BY <1>1
  <2> QED
    BY <2>1, <2>2
<1>3. ClientByte(s, k) = 2 * x /\ ServerByte(s, k) = 2 * x + 1
  BY DEF ClientByte, ServerByte, Numbered
<1> HIDE DEF m
<1>4. x \in Nat
  BY <1>2
<1> HIDE DEF x
<1>5. 2 * x \in Int /\ 2 * x + 1 \in Int /\ 2 * x + 1 > 0 /\ (2 * x + 1) % 2 = 1
  BY <1>4
<1> QED
  BY <1>3, <1>5 DEF IsServerByte

\* What the two ends have written so far, and one byte more.
LEMMA WrittenLaw ==
  ASSUME NEW n \in Nets
  PROVE  /\ FromClient(n) \in Seq(Int) /\ FromServer(n) \in Seq(Int)
         /\ n.server = 0 => FromServer(n) = <<>>
         /\ n.client = 0 => FromClient(n) = <<>>
         /\ \A m \in Nets : m.session = n.session /\ m.client = n.client + 1 =>
              FromClient(m) = Append(FromClient(n), ClientByte(n.session, n.client + 1))
         /\ \A m \in Nets : m.session = n.session /\ m.server = n.server + 1 =>
              FromServer(m) = Append(FromServer(n), ServerByte(n.session, n.server + 1))
<1>1. n.session \in Nat /\ n.client \in Nat /\ n.server \in Nat
  BY DEF Nets
<1> DEFINE s == n.session
           c == n.client
           v == n.server
<1>2. s \in Nat /\ c \in Nat /\ v \in Nat
  BY <1>1
<1>3. /\ FromClient(n) = [k \in 1 .. c |-> ClientByte(s, k)]
      /\ FromServer(n) = [k \in 1 .. v |-> ServerByte(s, k)]
  BY DEF FromClient, FromServer
<1> HIDE DEF s, c, v
<1>4. \A k \in Nat \ {0} : ClientByte(s, k) \in Int /\ ServerByte(s, k) \in Int
  BY <1>2, TokensLaw
<1>5. FromClient(n) \in Seq(Int) /\ FromServer(n) \in Seq(Int)
  <2>1. \A k \in 1 .. c : k \in Nat \ {0}
    BY <1>2
  <2>2. \A k \in 1 .. v : k \in Nat \ {0}
    BY <1>2
  <2> QED
    BY <1>2, <1>3, <1>4, <2>1, <2>2
<1>6. ASSUME NEW m \in Nets, m.session = n.session, m.client = n.client + 1
      PROVE  FromClient(m) = Append(FromClient(n), ClientByte(n.session, n.client + 1))
  <2>1. FromClient(m) = [k \in 1 .. c + 1 |-> ClientByte(s, k)]
    BY <1>6 DEF FromClient, s, c
  <2>2. c + 1 \in Nat \ {0}
    BY <1>2
  <2>3. ClientByte(s, c + 1) \in Int
    BY <1>4, <2>2
  <2>4. FromClient(m) = Append(FromClient(n), ClientByte(s, c + 1))
    BY <1>2, <1>3, <1>5, <2>1, <2>3
  <2> QED
    BY <2>4 DEF s, c
<1>7. ASSUME NEW m \in Nets, m.session = n.session, m.server = n.server + 1
      PROVE  FromServer(m) = Append(FromServer(n), ServerByte(n.session, n.server + 1))
  <2>1. FromServer(m) = [k \in 1 .. v + 1 |-> ServerByte(s, k)]
    BY <1>7 DEF FromServer, s, v
  <2>2. v + 1 \in Nat \ {0}
    BY <1>2
  <2>3. ServerByte(s, v + 1) \in Int
    BY <1>4, <2>2
  <2>4. FromServer(m) = Append(FromServer(n), ServerByte(s, v + 1))
    BY <1>2, <1>3, <1>5, <2>1, <2>3
  <2> QED
    BY <2>4 DEF s, v
<1>8. (n.server = 0 => FromServer(n) = <<>>) /\ (n.client = 0 => FromClient(n) = <<>>)
  BY <1>3, <1>5 DEF c, v
<1> QED
  BY <1>5, <1>6, <1>7, <1>8

\* One token more.
LEMMA ServerAppend ==
  ASSUME NEW s \in Seq(Int), NEW t \in Int
  PROVE  /\ Server(s) \in Seq(Int) /\ Server(<<>>) = <<>>
         /\ Server(Append(s, t)) = Server(s) \o (IF IsServerByte(t) THEN <<t>> ELSE <<>>)
<1>1. Server(s) = FlattenSeq(Sieve(s)) /\ Server(Append(s, t)) = FlattenSeq(Sieve(Append(s, t)))
      /\ Server(<<>>) = FlattenSeq(Sieve(<<>>))
  BY DEF Server, Sieve
<1> DEFINE x == IF IsServerByte(t) THEN <<t>> ELSE <<>>
<1>2. x \in Seq(Int)
  OBVIOUS
<1>3. \A i \in 1 .. Len(s) : s[i] \in Int
  BY ElementOfSeq
<1>4. Sieve(s) \in Seq(Seq(Int)) /\ Len(Sieve(s)) = Len(s)
  BY <1>3 DEF Sieve
<1>5. Sieve(Append(s, t)) = Append(Sieve(s), x)
  <2> DEFINE l == Sieve(Append(s, t))
             r == Append(Sieve(s), x)
  <2>1. Append(s, t) \in Seq(Int) /\ Len(Append(s, t)) = Len(s) + 1
        /\ \A i \in 1 .. Len(s) + 1 : Append(s, t)[i] = IF i <= Len(s) THEN s[i] ELSE t
    OBVIOUS
  <2>2. \A i \in 1 .. Len(s) + 1 : Append(s, t)[i] \in Int
    BY <1>3, <2>1
  <2>3. l \in Seq(Seq(Int)) /\ Len(l) = Len(s) + 1
    BY <2>1, <2>2 DEF Sieve
  <2>4. \A i \in 1 .. Len(s) + 1 : l[i] = IF i <= Len(s) THEN Sieve(s)[i] ELSE x
    BY <2>1 DEF Sieve
  <2> HIDE DEF l, x
  <2>5. r \in Seq(Seq(Int)) /\ Len(r) = Len(s) + 1
        /\ \A i \in 1 .. Len(s) + 1 : r[i] = IF i <= Len(s) THEN Sieve(s)[i] ELSE x
    <3> DEFINE S == Seq(Int)
               z == Sieve(s)
    <3>1. x \in S /\ z \in Seq(S) /\ Len(z) = Len(s)
      BY <1>2, <1>4
    <3> HIDE DEF S, z
    <3>2. /\ Append(z, x) \in Seq(S) /\ Len(Append(z, x)) = Len(z) + 1
          /\ \A i \in 1 .. Len(z) + 1 : Append(z, x)[i] = IF i <= Len(z) THEN z[i] ELSE x
      BY <3>1
    <3> QED
      BY <3>1, <3>2, Zenon DEF S, z
  <2> HIDE DEF r
  <2>6. \A i \in 1 .. Len(s) + 1 : l[i] = r[i]
    BY <2>4, <2>5
  <2>7. l = r
    BY <2>3, <2>5, <2>6, SeqEqual
  <2> QED
    BY <2>7 DEF l, r
<1>6. FlattenSeq(Sieve(s)) \in Seq(Int)
  BY <1>4, FlattenType
<1>7. FlattenSeq(Append(Sieve(s), x)) = FlattenSeq(Sieve(s)) \o x
  <2> HIDE DEF x
  <2> QED
    BY <1>2, <1>4, FlattenAppend
<1>8. Server(<<>>) = <<>>
  <2>1. Sieve(<<>>) = <<>>
    BY DEF Sieve
  <2> QED
    BY <1>1, <2>1, FlattenType
<1> QED
  BY <1>1, <1>5, <1>6, <1>7, <1>8

\* The laws of Server.
LEMMA ServerLaws ==
  /\ Server(<<>>) = <<>>
  /\ \A s \in Seq(Int) : Server(s) \in Seq(Int)
  /\ \A s, t \in Seq(Int) : Server(s \o t) = Server(s) \o Server(t)
  /\ \A s \in Seq(Int) : AllServer(s) => Server(s) = s
  /\ \A s \in Seq(Int) : (\A i \in 1 .. Len(s) : ~ IsServerByte(s[i])) => Server(s) = <<>>
<1>1. <<>> \in Seq(Int) /\ 0 \in Int
  OBVIOUS
<1>2. Server(<<>>) = <<>>
  BY <1>1, ServerAppend
<1>3. ASSUME NEW s \in Seq(Int) PROVE Server(s) \in Seq(Int)
  BY <1>1, ServerAppend
<1>4. ASSUME NEW s \in Seq(Int), NEW t \in Seq(Int) PROVE Server(s \o t) = Server(s) \o Server(t)
  <2> DEFINE P == {u \in Seq(Int) : Server(s \o u) = Server(s) \o Server(u)}
  <2>1. <<>> \in P
    <3>1. s \o <<>> = s /\ Server(s) \o <<>> = Server(s)
      BY <1>3, IntJoin
    <3> QED
      BY <1>1, <1>2, <3>1
  <2>2. ASSUME NEW u \in Seq(Int), NEW e \in Int, u \in P PROVE Append(u, e) \in P
    <3> DEFINE piece == IF IsServerByte(e) THEN <<e>> ELSE <<>>
    <3>1. piece \in Seq(Int) /\ Append(u, e) \in Seq(Int)
      OBVIOUS
    <3>2. s \o Append(u, e) = Append(s \o u, e) /\ s \o u \in Seq(Int)
      OBVIOUS
    <3>3. Server(Append(s \o u, e)) = Server(s \o u) \o piece /\ Server(Append(u, e)) = Server(u) \o piece
      BY <3>2, ServerAppend
    <3> HIDE DEF piece
    <3>4. (Server(s) \o Server(u)) \o piece = Server(s) \o (Server(u) \o piece)
      <4> DEFINE p == Server(s)
                 q == Server(u)
      <4>1. p \in Seq(Int) /\ q \in Seq(Int) /\ piece \in Seq(Int)
        BY <1>3, <3>1
      <4> HIDE DEF p, q
      <4>2. (p \o q) \o piece = p \o (q \o piece)
        BY <4>1, ConcatAssociative, SMTT(60)
      <4> QED
        BY <4>2 DEF p, q
    <3>5. Server(s \o u) = Server(s) \o Server(u)
      BY <2>2
    <3>6. Server(s \o Append(u, e)) = Server(s) \o Server(Append(u, e))
      BY <3>2, <3>3, <3>4, <3>5, Zenon
    <3> QED
      BY <3>1, <3>6
  <2> HIDE DEF P
  <2>3. t \in P
    BY <2>1, <2>2, SeqAll
  <2> QED
    BY <2>3 DEF P
<1>5. ASSUME NEW s \in Seq(Int)
      PROVE  /\ AllServer(s) => Server(s) = s
             /\ (\A i \in 1 .. Len(s) : ~ IsServerByte(s[i])) => Server(s) = <<>>
  <2> DEFINE P == {u \in Seq(Int) :
                     /\ AllServer(u) => Server(u) = u
                     /\ (\A i \in 1 .. Len(u) : ~ IsServerByte(u[i])) => Server(u) = <<>>}
  <2>1. <<>> \in P
    BY <1>1, <1>2
  <2>2. ASSUME NEW u \in Seq(Int), NEW x \in Int, u \in P PROVE Append(u, x) \in P
    <3>1. /\ Append(u, x) \in Seq(Int) /\ Len(Append(u, x)) = Len(u) + 1 /\ Len(u) \in Nat
          /\ \A i \in 1 .. Len(u) : Append(u, x)[i] = u[i]
          /\ Append(u, x)[Len(u) + 1] = x
      OBVIOUS
    <3>2. Server(Append(u, x)) = Server(u) \o (IF IsServerByte(x) THEN <<x>> ELSE <<>>)
      BY ServerAppend
    <3>3. ASSUME AllServer(Append(u, x)) PROVE Server(Append(u, x)) = Append(u, x)
      <4>1. AllServer(u) /\ IsServerByte(x)
        BY <3>1, <3>3, SMTT(30) DEF AllServer
      <4>2. Server(u) = u
        BY <2>2, <4>1
      <4>3. u \o <<x>> = Append(u, x)
        OBVIOUS
      <4> QED
        BY <3>2, <4>1, <4>2, <4>3
    <3>4. ASSUME \A i \in 1 .. Len(Append(u, x)) : ~ IsServerByte(Append(u, x)[i])
          PROVE  Server(Append(u, x)) = <<>>
      <4>1. (\A i \in 1 .. Len(u) : ~ IsServerByte(u[i])) /\ ~ IsServerByte(x)
        BY <3>1, <3>4, SMTT(30)
      <4>2. Server(u) = <<>>
        BY <2>2, <4>1
      <4>3. <<>> \o <<>> = <<>>
        OBVIOUS
      <4> QED
        BY <3>2, <4>1, <4>2, <4>3
    <3> QED
      BY <3>1, <3>3, <3>4
  <2> HIDE DEF P
  <2>3. s \in P
    BY <2>1, <2>2, SeqAll
  <2> QED
    BY <2>3 DEF P
<1> QED
  BY <1>2, <1>3, <1>4, <1>5

-----------------------------------------------------------------------------
(* The proxy's answer.                                                     *)

\* What the proxy has sent so far, when it has sent a: the server's bytes are
\* behind the empty line that ends the header.
Answered(a, n) ==
  /\ \A j \in 1 .. Len(a) : IsServerByte(a[j]) <=> \E i \in 1 .. Len(a) : i < j /\ a[i] = BlankLine
  /\ n.answer = 2 <=> \E i \in 1 .. Len(a) : a[i] = BlankLine
  /\ (\E i \in 1 .. Len(a) : a[i] = StatusOK) => n.ok
  /\ Server(a) = FromServer(n)

\* No line of the header is a byte of the server.
LEMMA LinesLaw ==
  \A t \in {ConnectLine, BlankLine, StatusOK, StatusDenied, HeaderLine} :
    t \in Int /\ ~ IsServerByte(t)
BY DEF ConnectLine, BlankLine, StatusOK, StatusDenied, HeaderLine, IsServerByte

\* A part h of it in mHttpHeader, and the rest.
Cut(h, r, n) ==
  /\ Contains(h, BlankLine) =>
       n.answer = 2 /\ AllServer(r) /\ Server(h) \o r = FromServer(n)
  /\ ~ Contains(h, BlankLine) => Server(h) = <<>> /\ Server(r) = FromServer(n)
  /\ Contains(h, StatusOK) => n.ok

\* What the part says of the rest.
LEMMA AnsweredCut ==
  ASSUME NEW h \in Seq(Int), NEW r \in Seq(Int), NEW n, Answered(h \o r, n)
  PROVE  Cut(h, r, n)
<1> DEFINE a == h \o r
           l == Len(h)
           k == Len(r)
<1>1. /\ a \in Seq(Int) /\ Len(a) = l + k /\ l \in Nat /\ k \in Nat
      /\ \A i \in 1 .. l : a[i] = h[i]
      /\ \A i \in 1 .. k : a[l + i] = r[i]
  OBVIOUS
<1>2. /\ \A j \in 1 .. Len(a) :
           IsServerByte(a[j]) <=> \E i \in 1 .. Len(a) : i < j /\ a[i] = BlankLine
      /\ n.answer = 2 <=> \E i \in 1 .. Len(a) : a[i] = BlankLine
      /\ (\E i \in 1 .. Len(a) : a[i] = StatusOK) => n.ok
      /\ Server(h) \o Server(r) = FromServer(n)
  BY ServerLaws DEF Answered
<1>3. Server(h) \in Seq(Int) /\ Server(r) \in Seq(Int)
  BY ServerLaws
<1> DEFINE H == Len(h)
<1>4. 1 .. l \subseteq 1 .. Len(a) /\ \A i \in 1 .. k : l + i \in 1 .. Len(a)
  <2> HIDE DEF l, k, a
  <2> QED
    BY <1>1
<1>5. ASSUME Contains(h, BlankLine)
      PROVE  n.answer = 2 /\ AllServer(r) /\ Server(h) \o r = FromServer(n)
  <2>1. PICK i \in 1 .. l : h[i] = BlankLine
    BY <1>5 DEF Contains
  <2>2. i \in 1 .. Len(a) /\ a[i] = BlankLine
    BY <1>1, <1>4, <2>1
  <2>3. ASSUME NEW j \in 1 .. k PROVE IsServerByte(r[j])
    <3>1. l + j \in 1 .. Len(a) /\ i < l + j /\ a[l + j] = r[j]
      BY <1>1, <1>4
    <3> HIDE DEF l, k, a
    <3> QED
      BY <1>2, <2>2, <3>1
  <2>4. AllServer(r)
    BY <2>3 DEF AllServer
  <2>5. Server(r) = r
    BY <2>4, ServerLaws
  <2> QED
    BY <1>2, <2>2, <2>4, <2>5
<1>6. ASSUME ~ Contains(h, BlankLine) PROVE Server(h) = <<>> /\ Server(r) = FromServer(n)
  <2>1. ASSUME NEW j \in 1 .. l, IsServerByte(h[j]) PROVE FALSE
    <3>1. j \in 1 .. Len(a) /\ IsServerByte(a[j])
      BY <1>1, <1>4, <2>1
    <3>2. PICK i \in 1 .. Len(a) : i < j /\ a[i] = BlankLine
      BY <1>2, <3>1
    <3>3. i \in 1 .. l
      BY <3>2, <1>1
    <3> QED
      BY <1>1, <1>6, <3>2, <3>3 DEF Contains
  <2>2. Server(h) = <<>>
    BY <2>1, ServerLaws
  <2>3. <<>> \o Server(r) = Server(r)
    BY <1>3, IntJoin
  <2> QED
    BY <1>2, <2>2, <2>3
<1>7. ASSUME Contains(h, StatusOK) PROVE n.ok
  <2>1. PICK i \in 1 .. l : h[i] = StatusOK
    BY <1>7 DEF Contains
  <2>2. i \in 1 .. Len(a) /\ a[i] = StatusOK
    BY <1>1, <1>4, <2>1
  <2> QED
    BY <1>2, <2>2
<1> QED
  BY <1>5, <1>6, <1>7 DEF Cut

\* A line of the header, or a byte of the server behind it.
Adds(n, m, t) ==
  /\ m.session = n.session
  /\ \/ /\ t \in {StatusOK, StatusDenied, HeaderLine} /\ n.answer # 2 /\ m.answer = 1
        /\ m.server = n.server /\ m.ok = (n.ok \/ t = StatusOK)
     \/ /\ t = BlankLine /\ n.answer # 2 /\ m.answer = 2
        /\ m.server = n.server /\ m.ok = n.ok
     \/ /\ t = ServerByte(n.session, n.server + 1) /\ n.answer = 2 /\ m.answer = 2
        /\ m.server = n.server + 1 /\ m.ok = n.ok

\* One token more from the proxy's side.
LEMMA AnsweredGrow ==
  ASSUME NEW a \in Seq(Int), NEW n \in Nets, Answered(a, n), NEW m \in Nets, NEW t \in Int,
         Adds(n, m, t)
  PROVE  Answered(Append(a, t), m)
<1> DEFINE b == Append(a, t)
           l == Len(a)
<1>1. /\ b \in Seq(Int) /\ Len(b) = l + 1 /\ l \in Nat
      /\ \A i \in 1 .. l : b[i] = a[i]
      /\ b[l + 1] = t
  OBVIOUS
<1>2. /\ \A j \in 1 .. l : IsServerByte(a[j]) <=> \E i \in 1 .. l : i < j /\ a[i] = BlankLine
      /\ n.answer = 2 <=> \E i \in 1 .. l : a[i] = BlankLine
      /\ (\E i \in 1 .. l : a[i] = StatusOK) => n.ok
      /\ Server(a) = FromServer(n)
  BY DEF Answered
<1>3. n.session \in Nat /\ n.server + 1 \in Nat \ {0} /\ n.server \in Nat
  <2>1. n.session \in Nat /\ n.server \in Nat
    BY DEF Nets
  <2>2. \A k \in Nat : k + 1 \in Nat \ {0}
    OBVIOUS
  <2> QED
    BY <2>1, <2>2, Zenon
<1> DEFINE s == ServerByte(n.session, n.server + 1)
<1>4. IsServerByte(s)
  BY <1>3, TokensLaw
<1>6. IsServerByte(t) <=> n.answer = 2
  BY <1>4, LinesLaw DEF Adds
<1>7. t = BlankLine => ~ IsServerByte(t)
  BY LinesLaw
<1> HIDE DEF b, l, s
<1>8. ASSUME NEW j \in 1 .. l + 1
      PROVE  IsServerByte(b[j]) <=> \E i \in 1 .. l + 1 : i < j /\ b[i] = BlankLine
  <2>1. CASE j \in 1 .. l
    <3>1. b[j] = a[j]
      BY <1>1, <2>1
    <3>2. (\E i \in 1 .. l + 1 : i < j /\ b[i] = BlankLine)
            <=> \E i \in 1 .. l : i < j /\ a[i] = BlankLine
      <4>1. ASSUME NEW i \in 1 .. l + 1, i < j, b[i] = BlankLine
            PROVE  \E k \in 1 .. l : k < j /\ a[k] = BlankLine
        <5>1. i \in 1 .. l
          BY <1>1, <2>1, <4>1
        <5> QED
          BY <1>1, <4>1, <5>1
      <4>2. ASSUME NEW i \in 1 .. l, i < j, a[i] = BlankLine
            PROVE  \E k \in 1 .. l + 1 : k < j /\ b[k] = BlankLine
        <5>1. i \in 1 .. l + 1
          BY <1>1, <4>2
        <5> QED
          BY <1>1, <4>2, <5>1
      <4> QED
        BY <4>1, <4>2
    <3> QED
      BY <1>2, <2>1, <3>1, <3>2
  <2>2. CASE j = l + 1
    <3>1. b[j] = t
      BY <1>1, <2>2
    <3>2. (\E i \in 1 .. l + 1 : i < j /\ b[i] = BlankLine) <=> \E i \in 1 .. l : a[i] = BlankLine
      BY <1>1, <2>2
    <3> QED
      BY <1>2, <1>6, <3>1, <3>2
  <2> QED
    BY <1>1, <2>1, <2>2
<1>9. m.answer = 2 <=> \E i \in 1 .. l + 1 : b[i] = BlankLine
  <2>1. (\E i \in 1 .. l + 1 : b[i] = BlankLine) <=> (t = BlankLine \/ \E i \in 1 .. l : a[i] = BlankLine)
    BY <1>1
  <2>2. m.answer = 2 <=> (t = BlankLine \/ n.answer = 2)
    <3>1. StatusOK # BlankLine /\ StatusDenied # BlankLine /\ HeaderLine # BlankLine
      BY DEF StatusOK, StatusDenied, HeaderLine, BlankLine
    <3> QED
      BY <1>6, <1>7, <3>1 DEF Adds
  <2> QED
    BY <1>2, <2>1, <2>2
<1>10. (\E i \in 1 .. l + 1 : b[i] = StatusOK) => m.ok
  <2>1. (\E i \in 1 .. l + 1 : b[i] = StatusOK) => (t = StatusOK \/ \E i \in 1 .. l : a[i] = StatusOK)
    BY <1>1
  <2>2. t = StatusOK => ~ IsServerByte(t) /\ t # BlankLine
    BY LinesLaw DEF StatusOK, BlankLine
  <2>3. t = StatusOK => m.ok
    BY <1>6, <2>2 DEF Adds
  <2>4. n.ok => m.ok
    BY DEF Adds
  <2> QED
    BY <1>2, <2>1, <2>3, <2>4
<1>11. Server(b) = FromServer(m)
  <2>1. Server(b) = Server(a) \o (IF IsServerByte(t) THEN <<t>> ELSE <<>>) /\ Server(a) \in Seq(Int)
    BY ServerAppend DEF b
  <2>2. CASE t = s /\ m.server = n.server + 1
    <3>1. FromServer(m) = Append(FromServer(n), s) /\ FromServer(n) \in Seq(Int)
      BY <2>2, WrittenLaw DEF s, Adds
    <3>2. \A q \in Seq(Int) : Append(q, t) = q \o <<t>>
      OBVIOUS
    <3> QED
      BY <1>2, <1>4, <2>1, <2>2, <3>1, <3>2
  <2>3. CASE ~ IsServerByte(t) /\ m.server = n.server
    <3>1. FromServer(m) = FromServer(n)
      BY <2>3 DEF FromServer, Adds
    <3>2. Server(a) \o <<>> = Server(a)
      BY <2>1, IntJoin
    <3> QED
      BY <1>2, <2>1, <2>3, <3>1, <3>2
  <2> QED
    BY <2>2, <2>3, LinesLaw DEF s, Adds
<1>12. Answered(b, m)
  BY <1>1, <1>8, <1>9, <1>10, <1>11 DEF Answered
<1> QED
  BY <1>12 DEF b

-----------------------------------------------------------------------------
(* A session in progress.  l and p are the bytes that have been read from  *)
(* the client and from the proxy and are being handled.                    *)

\* Sent, kept, cached and on their way, and what comes first of it.
Given(w)     == w.net.up \o w.proxy.pending
Stream(w, l) == (Given(w) \o Cached(w.cache)) \o (l \o w.net.in.local)
Lead(w)      == IF w.status = "Closed" THEN <<>> ELSE Request

\* s are bytes of the client, each once; and all of them in their order unless a
\* write to the cache's file failed.
Own(s, f)    == s \in Seq(Int) /\ IsInjective(s) /\ Range(s) \subseteq Range(f)
Theirs(s, n) == Own(s, FromClient(n)) /\ (~ n.badDisk => s = FromClient(n))

\* The request, and nothing else before the proxy has answered; and behind it what
\* the client wrote.
UpFlow(w, l) ==
  /\ w.status # "Connected" => Given(w) = Lead(w)
  /\ \E s : Theirs(s, w.net) /\ Stream(w, l) = Lead(w) \o s

\* The proxy has not been reached.
Dialing(w) ==
  /\ w.status = "Closed"
  /\ w.proxy.open /\ w.proxy.handler /\ w.proxy.status = "Connecting"
  /\ w.proxy.wr /\ ~ w.proxy.rd /\ w.proxy.pending = <<>> /\ w.proxy.ends = {}
  /\ w.net.up = <<>> /\ w.net.down = <<>> /\ w.local.pending = <<>>
  /\ w.net.in.proxy = <<>> /\ w.net.server = 0 /\ w.net.answer = 0

\* It has been asked, and its header is not complete.
Asking(w, p) ==
  /\ w.status = "Connecting" /\ Able(w.proxy)
  /\ w.net.down = <<>> /\ w.local.pending = <<>>
  /\ ~ Contains(w.header, BlankLine)
  /\ Answered(w.header \o (p \o w.net.in.proxy), w.net)

\* It has said yes.
Talking(w, p) ==
  /\ w.status = "Connected" /\ Able(w.proxy)
  /\ w.net.answer = 2 /\ Cached(w.cache) = <<>>
  /\ AllServer(p \o w.net.in.proxy)
  /\ ((Server(w.header) \o w.net.down) \o w.local.pending) \o (p \o w.net.in.proxy)
       = FromServer(w.net)

\* What the client writes is owed as long as the proxy's connection can be used.
Going(w, l, p) ==
  /\ Sane(w) /\ w.handler /\ w.place = "active"
  /\ Able(w.local)
  /\ Dialing(w) \/ Asking(w, p) \/ Talking(w, p)
  /\ Dialing(w) \/ Established(w.proxy) => UpFlow(w, l)

\* Between two dispatches.
Running(w) ==
  Going(w, <<>>, <<>>) /\ Established(w.local) /\ (Dialing(w) \/ Established(w.proxy))

\* What a callback that does not end the session does to the sockets and the file:
\* it changes the watch for writing on one of them, or opens the file.
SameSocket(c, d) == d.status = c.status /\ d.rd = c.rd /\ d.wr = c.wr
Rewatched(c, d)  == d.status = c.status /\ d.rd = c.rd
TouchesProxy(w, v) ==
  SameSocket(w.local, v.local) /\ Rewatched(w.proxy, v.proxy) /\ v.cache.file.open = w.cache.file.open
TouchesLocal(w, v) ==
  SameSocket(w.proxy, v.proxy) /\ Rewatched(w.local, v.local) /\ v.cache.file.open = w.cache.file.open
TouchesFile(w, v) ==
  /\ SameSocket(w.local, v.local) /\ SameSocket(w.proxy, v.proxy)
  /\ v.cache.file.open = w.cache.file.open \/ v.cache.file.open

\* A side that can be used stays so; one that cannot stays as it is.
Keeps(c, d) == d.status = c.status /\ d.handler /\ (Established(c) => Established(d))
Stays(w, v) == (Dialing(w) => Dialing(v)) /\ Keeps(w.local, v.local) /\ Keeps(w.proxy, v.proxy)

\* The way upstream is the same.
SameFlow(w, l, v, k) ==
  /\ Stream(v, k) = Stream(w, l) /\ Lead(v) = Lead(w)
  /\ v.status # "Connected" => w.status # "Connected" /\ Given(v) = Given(w)
  /\ FromClient(v.net) = FromClient(w.net) /\ v.net.badDisk = w.net.badDisk

\* So is what it owes.
LEMMA FlowSame ==
  ASSUME NEW w, NEW l, UpFlow(w, l), NEW v, NEW k, SameFlow(w, l, v, k)
  PROVE  UpFlow(v, k)
<1>1. PICK s : Theirs(s, w.net) /\ Stream(w, l) = Lead(w) \o s
  BY Zenon DEF UpFlow
<1>2. Theirs(s, v.net) /\ Stream(v, k) = Lead(v) \o s
  BY <1>1, Zenon DEF Theirs, SameFlow
<1>3. v.status # "Connected" => Given(v) = Lead(v)
  BY Zenon DEF UpFlow, SameFlow
<1> QED
  BY <1>2, <1>3, Zenon DEF UpFlow

\* The types of what the streams are made of.
LEMMA StreamTypes ==
  ASSUME NEW w, Sane(w)
  PROVE  /\ w.net.up \in Seq(Int) /\ w.net.down \in Seq(Int)
         /\ w.local.pending \in Seq(Int) /\ w.proxy.pending \in Seq(Int)
         /\ w.net.in.local \in Seq(Int) /\ w.net.in.proxy \in Seq(Int)
         /\ w.header \in Seq(Int) /\ Cached(w.cache) \in Seq(Int)
         /\ w.net.up \o w.proxy.pending \in Seq(Int)
         /\ w.net.down \o w.local.pending \in Seq(Int)
<1>1. w \in Worlds /\ w.net \in Nets /\ w.local \in Connections /\ w.proxy \in Connections
  BY AskedUp
<1>2. /\ w.net.up \in Seq(Int) /\ w.net.down \in Seq(Int)
      /\ w.local.pending \in Seq(Int) /\ w.proxy.pending \in Seq(Int)
      /\ w.net.in.local \in Seq(Int) /\ w.net.in.proxy \in Seq(Int)
      /\ w.header \in Seq(Int)
  BY <1>1 DEF Worlds, Nets, Connections, Byte
<1>3. Cached(w.cache) \in Seq(Int)
  BY CachedIs DEF Sane
<1> QED
  BY <1>2, <1>3, IntJoin

\* A bracket moved.
LEMMA BracketEmpty ==
  \A a, c, d \in Seq(Int) : (a \o <<>>) \o (c \o d) = ((a \o c) \o <<>>) \o (<<>> \o d)
<1> SUFFICES ASSUME NEW a \in Seq(Int), NEW c \in Seq(Int), NEW d \in Seq(Int)
             PROVE  (a \o <<>>) \o (c \o d) = ((a \o c) \o <<>>) \o (<<>> \o d)
  OBVIOUS
<1>1. a \o <<>> = a /\ <<>> \o d = d /\ (a \o c) \o <<>> = a \o c
  BY IntJoin
<1>2. (a \o c) \o d = a \o (c \o d)
  BY IntAssociative, Zenon
<1> QED
  BY <1>1, <1>2, Zenon

\* Two sequences joined share no element unless they repeat it.
LEMMA JoinInjective ==
  ASSUME NEW a \in Seq(Int), NEW b \in Seq(Int)
  PROVE  /\ IsInjective(a \o b) <=> IsInjective(a) /\ IsInjective(b) /\ Range(a) \cap Range(b) = {}
         /\ Range(a \o b) = Range(a) \cup Range(b)
<1> DEFINE c == a \o b
<1>1. /\ Len(a) \in Nat /\ Len(b) \in Nat /\ Len(c) = Len(a) + Len(b)
      /\ DOMAIN a = 1 .. Len(a) /\ DOMAIN b = 1 .. Len(b) /\ DOMAIN c = 1 .. Len(c)
      /\ \A i \in 1 .. Len(a) : c[i] = a[i]
      /\ \A i \in 1 .. Len(b) : c[Len(a) + i] = b[i]
  OBVIOUS
<1> HIDE DEF c
<1>2. \A i \in 1 .. Len(c) :
        \/ i \in 1 .. Len(a) /\ c[i] = a[i]
        \/ i - Len(a) \in 1 .. Len(b) /\ c[i] = b[i - Len(a)]
  <2> SUFFICES ASSUME NEW i \in 1 .. Len(c), i \notin 1 .. Len(a)
               PROVE  i - Len(a) \in 1 .. Len(b) /\ c[i] = b[i - Len(a)]
    BY <1>1
  <2>1. i - Len(a) \in 1 .. Len(b) /\ Len(a) + (i - Len(a)) = i
    BY <1>1
  <2> QED
    BY <1>1, <2>1
<1>3. Range(c) = Range(a) \cup Range(b)
  <2>1. \A i \in 1 .. Len(a) : i \in 1 .. Len(c)
    BY <1>1
  <2>2. \A i \in 1 .. Len(b) : Len(a) + i \in 1 .. Len(c)
    BY <1>1
  <2>3. Range(c) \subseteq Range(a) \cup Range(b)
    BY <1>1, <1>2, ZenonT(40) DEF Range
  <2>4. Range(a) \subseteq Range(c) /\ Range(b) \subseteq Range(c)
    BY <1>1, <2>1, <2>2, ZenonT(40) DEF Range
  <2> QED
    BY <2>3, <2>4
<1>4. ASSUME IsInjective(c)
      PROVE  IsInjective(a) /\ IsInjective(b) /\ Range(a) \cap Range(b) = {}
  <2>1. IsInjective(a)
    BY <1>1, <1>4 DEF IsInjective
  <2>2. IsInjective(b)
    <3> SUFFICES ASSUME NEW i \in 1 .. Len(b), NEW j \in 1 .. Len(b), b[i] = b[j] PROVE i = j
      BY <1>1 DEF IsInjective
    <3>1. Len(a) + i \in 1 .. Len(c) /\ Len(a) + j \in 1 .. Len(c)
      BY <1>1
    <3>2. Len(a) + i = Len(a) + j
      BY <1>1, <1>4, <3>1 DEF IsInjective
    <3> QED
      BY <1>1, <3>2
  <2>3. \A i \in 1 .. Len(a), j \in 1 .. Len(b) : a[i] # b[j]
    <3> SUFFICES ASSUME NEW i \in 1 .. Len(a), NEW j \in 1 .. Len(b), a[i] = b[j] PROVE FALSE
      OBVIOUS
    <3>1. i \in 1 .. Len(c) /\ Len(a) + j \in 1 .. Len(c) /\ i # Len(a) + j
      BY <1>1
    <3>2. c[i] = c[Len(a) + j]
      BY <1>1
    <3> QED
      BY <1>1, <1>4, <3>1, <3>2 DEF IsInjective
  <2> QED
    BY <1>1, <2>1, <2>2, <2>3 DEF Range
<1>5. ASSUME IsInjective(a), IsInjective(b), Range(a) \cap Range(b) = {}
      PROVE  IsInjective(c)
  <2> SUFFICES ASSUME NEW i \in 1 .. Len(c), NEW j \in 1 .. Len(c), c[i] = c[j] PROVE i = j
    BY <1>1 DEF IsInjective
  <2>1. \A x \in 1 .. Len(a), y \in 1 .. Len(b) : a[x] # b[y]
    BY <1>1, <1>5 DEF Range
  <2>2. CASE i \in 1 .. Len(a) /\ j \in 1 .. Len(a)
    BY <1>1, <1>5, <2>2 DEF IsInjective
  <2>3. CASE i \notin 1 .. Len(a) /\ j \notin 1 .. Len(a)
    <3>1. /\ i - Len(a) \in 1 .. Len(b) /\ j - Len(a) \in 1 .. Len(b)
          /\ b[i - Len(a)] = b[j - Len(a)]
      BY <1>2, <2>3
    <3>2. i - Len(a) = j - Len(a)
      BY <1>1, <1>5, <3>1 DEF IsInjective
    <3> QED
      BY <1>1, <3>2
  <2>4. CASE i \in 1 .. Len(a) /\ j \notin 1 .. Len(a)
    BY <1>1, <1>2, <2>1, <2>4
  <2>5. CASE i \notin 1 .. Len(a) /\ j \in 1 .. Len(a)
    BY <1>1, <1>2, <2>1, <2>5
  <2> QED
    BY <2>2, <2>3, <2>4, <2>5
<1> QED
  BY <1>3, <1>4, <1>5 DEF c

\* Of parts that are each other's own, two may be swapped and one dropped.
LEMMA OwnParts ==
  ASSUME NEW a \in Seq(Int), NEW b \in Seq(Int), NEW f
  PROVE  Own(a \o b, f) <=> Own(a, f) /\ Own(b, f) /\ Range(a) \cap Range(b) = {}
<1>1. a \o b \in Seq(Int)
  BY IntJoin
<1>2. /\ IsInjective(a \o b) <=> IsInjective(a) /\ IsInjective(b) /\ Range(a) \cap Range(b) = {}
      /\ Range(a \o b) = Range(a) \cup Range(b)
  BY JoinInjective
<1> QED
  BY <1>1, <1>2 DEF Own

\* d holds what c holds and the data, behind it unless the disk failed; then what
\* the file held may be behind the data, or given up.
Reordered(c, data, d, i) ==
  \A f : Own(Cached(c) \o (data \o i), f) => Own(Cached(d) \o i, f)
Stored(c, data, i, bad, d) ==
  /\ \E qs : CacheOK(d, qs)
  /\ ~ bad => Cached(d) = Cached(c) \o data
  /\ Reordered(c, data, d, i)
  /\ d.file.open = c.file.open \/ d.file.open

\* The parts m, q of the cache, the data and what is behind it, in another order.
LEMMA ReorderParts ==
  ASSUME NEW m \in Seq(Int), NEW q \in Seq(Int), NEW data \in Seq(Int), NEW i \in Seq(Int), NEW f,
         Own((m \o q) \o (data \o i), f)
  PROVE  /\ Own(((m \o q) \o data) \o i, f)
         /\ Own(((m \o data) \o q) \o i, f)
         /\ Own((m \o data) \o i, f)
<1>1. m \o q \in Seq(Int) /\ data \o i \in Seq(Int) /\ m \o data \in Seq(Int)
  BY IntJoin
<1>2. (m \o q) \o data \in Seq(Int) /\ (m \o data) \o q \in Seq(Int)
  BY <1>1, IntJoin
<1>3. /\ Own(m, f) /\ Own(q, f) /\ Own(data, f) /\ Own(i, f)
      /\ Range(m) \cap Range(q) = {} /\ Range(data) \cap Range(i) = {}
      /\ Range(m \o q) \cap Range(data \o i) = {}
  BY <1>1, OwnParts
<1>4. /\ Range(m \o q) = Range(m) \cup Range(q) /\ Range(data \o i) = Range(data) \cup Range(i)
      /\ Range(m \o data) = Range(m) \cup Range(data)
      /\ Range((m \o q) \o data) = Range(m \o q) \cup Range(data)
      /\ Range((m \o data) \o q) = Range(m \o data) \cup Range(q)
  BY <1>1, JoinInjective
<1>5. Own(m \o q, f) /\ Own(m \o data, f)
  <2>1. Range(m) \cap Range(data) = {}
    BY <1>3, <1>4
  <2> QED
    BY <1>3, <2>1, OwnParts
<1>6. Own((m \o q) \o data, f) /\ Own((m \o data) \o q, f)
  <2>1. Range(m \o q) \cap Range(data) = {} /\ Range(m \o data) \cap Range(q) = {}
    BY <1>3, <1>4
  <2> QED
    BY <1>1, <1>3, <1>5, <2>1, OwnParts
<1>7. /\ Range((m \o q) \o data) \cap Range(i) = {} /\ Range((m \o data) \o q) \cap Range(i) = {}
      /\ Range(m \o data) \cap Range(i) = {}
  BY <1>3, <1>4
<1> QED
  BY <1>1, <1>2, <1>3, <1>5, <1>6, <1>7, OwnParts

\* cache(), whatever the disk does.
LEMMA StoreLaw ==
  ASSUME NEW c, NEW ps, CacheOK(c, ps), NEW data \in Chunk, NEW i \in Seq(Int),
         NEW disk \in {"ok", "none", "torn"}, NEW n \in 0 .. Len(data),
         NEW d, d = Store(c, data, disk, n)
  PROVE  Stored(c, data, i, ToFile(c, data) /\ disk # "ok", d)
<1> DEFINE m == FlattenSeq(c.mem)
           q == FlattenSeq(ps)
<1>1. Stores(c, ps, data, disk, d)
  BY StoreIs
<1>2. Cached(c) = m \o q /\ m \in Seq(Int) /\ q \in Seq(Int) /\ data \in Seq(Int) /\ c \in Caches
  BY CachedIs, FlattenChunks DEF Chunk, CacheOK
<1>3. d.file.open = c.file.open \/ d.file.open
  <2>1. ASSUME NEW e \in Caches PROVE CacheInMem(e, data).file = e.file
    BY <2>1 DEF CacheInMem, Caches
  <2>2. CASE ~ ToFile(c, data) \/ disk = "none"
    BY <1>2, <2>1, <2>2 DEF Store
  <2>3. CASE ToFile(c, data) /\ disk = "ok"
    <3>1. d = CacheInFile(c, data)
      BY <2>3, Zenon DEF Store
    <3>2. CacheInFile(c, data).file = DiskWrite(c.file, data)
      BY <1>2 DEF CacheInFile, Caches
    <3>3. DiskWrite(c.file, data).open = TRUE
      BY DEF DiskWrite
    <3> QED
      BY <3>1, <3>2, <3>3, Zenon
  <2>4. CASE ToFile(c, data) /\ disk = "torn"
    <3> DEFINE e == [c EXCEPT !.file = DiskWriteTorn(@, data, n)]
    <3>1. d = CacheInMem(e, data)
      BY <2>4, Zenon DEF Store
    <3>2. CacheOK(e, <<>>)
      BY InTornFileIs
    <3>3. e.file = DiskWriteTorn(c.file, data, n)
      BY <1>2 DEF Caches
    <3>4. DiskWriteTorn(c.file, data, n).open = TRUE
      BY DEF DiskWriteTorn
    <3> HIDE DEF e
    <3>5. e \in Caches
      BY <3>2 DEF CacheOK
    <3> QED
      BY <2>1, <3>1, <3>3, <3>4, <3>5, Zenon
  <2> QED
    BY <2>2, <2>3, <2>4
<1> HIDE DEF m, q
<1>4. ASSUME NEW f, Own(Cached(c) \o (data \o i), f)
      PROVE  /\ Own(((m \o q) \o data) \o i, f)
             /\ Own(((m \o data) \o q) \o i, f)
             /\ Own((m \o data) \o i, f)
  BY <1>2, <1>4, ReorderParts, Zenon
<1>5. (m \o q) \o data = m \o (q \o data) /\ m \o <<>> = m /\ m \o data \in Seq(Int)
  BY <1>2, IntAssociative, IntJoin, ZenonT(40)
<1>6. (m \o data) \o <<>> = m \o data
  BY <1>5, IntJoin
<1>7. CASE ~ ToFile(c, data)
  <2>1. CacheOK(d, ps) /\ FlattenSeq(d.mem) = m \o data /\ q = <<>>
    BY <1>1, <1>7 DEF Stores, m, q
  <2>2. Cached(d) = (m \o data) \o <<>>
    BY <2>1, CachedIs DEF q
  <2>3. Cached(d) = Cached(c) \o data
    BY <1>2, <1>5, <1>6, <2>1, <2>2, Zenon
  <2>4. Reordered(c, data, d, i)
    BY <1>2, <1>4, <2>3, Zenon DEF Reordered
  <2> QED
    BY <1>3, <2>1, <2>3, <2>4, Zenon DEF Stored
<1>8. CASE ToFile(c, data) /\ disk = "ok"
  <2>1. /\ CacheOK(d, Append(ps, data)) /\ FlattenSeq(d.mem) = m
        /\ FlattenSeq(Append(ps, data)) = q \o data
    BY <1>1, <1>8 DEF Stores, m, q
  <2>2. Cached(d) = m \o (q \o data)
    <3>1. Cached(d) = FlattenSeq(d.mem) \o FlattenSeq(Append(ps, data))
      BY <2>1, CachedIs
    <3> QED
      BY <2>1, <3>1, Zenon
  <2>3. Cached(d) = Cached(c) \o data
    BY <1>2, <1>5, <2>2, Zenon
  <2>4. Reordered(c, data, d, i)
    BY <1>2, <1>4, <2>3, Zenon DEF Reordered
  <2> QED
    BY <1>3, <2>1, <2>3, <2>4, Zenon DEF Stored
<1>9. CASE ToFile(c, data) /\ disk # "ok"
  <2>1. /\ FlattenSeq(d.mem) = m \o data
        /\ CacheOK(d, ps) \/ CacheOK(d, <<>>)
    BY <1>1, <1>9 DEF Stores, m
  <2>2. CASE CacheOK(d, ps)
    <3>1. Cached(d) = (m \o data) \o q
      BY <2>1, <2>2, CachedIs DEF q
    <3>2. Reordered(c, data, d, i)
      BY <1>4, <3>1, Zenon DEF Reordered
    <3> QED
      BY <1>3, <1>9, <2>2, <3>2, Zenon DEF Stored
  <2>3. CASE CacheOK(d, <<>>)
    <3>1. FlattenSeq(<<>>) = <<>>
      BY FlattenType
    <3>2. Cached(d) = m \o data
      <4>1. Cached(d) = FlattenSeq(d.mem) \o FlattenSeq(<<>>)
        BY <2>3, CachedIs
      <4> QED
        BY <1>6, <2>1, <3>1, <4>1, Zenon
    <3>3. Reordered(c, data, d, i)
      BY <1>4, <3>2, Zenon DEF Reordered
    <3> QED
      BY <1>3, <1>9, <2>3, <3>3, Zenon DEF Stored
  <2> QED
    BY <2>1, <2>2, <2>3
<1> QED
  BY <1>7, <1>8, <1>9

-----------------------------------------------------------------------------
(* onRecv of the client's connection.                                      *)

\* On a tunnel that has been answered: straight to the proxy.
LEMMA OnRecvTalking ==
  ASSUME NEW w, NEW data \in Chunk, Going(w, data, <<>>), Talking(w, <<>>),
         NEW v \in SendProxy(w, data)
  PROVE  Over(v) \/ (Going(v, <<>>, <<>>) /\ Stays(w, v) /\ TouchesProxy(w, v))
<1>1. Sane(w) /\ w.handler /\ w.status = "Connected" /\ Able(w.proxy) /\ ~ Dialing(w)
  BY DEF Going, Talking, Dialing
<1>2. Ended(v) \/ Carried(w, data, v)
  BY <1>1, SendAbleLaw
<1> SUFFICES ASSUME Carried(w, data, v)
             PROVE  Going(v, <<>>, <<>>) /\ Stays(w, v) /\ TouchesProxy(w, v)
  BY <1>2 DEF Over
<1>3. /\ Sane(v) /\ v.local = w.local /\ v.cache = w.cache /\ v.net.down = w.net.down
      /\ v.status = w.status /\ v.header = w.header /\ v.handler = w.handler /\ v.place = w.place
      /\ v.net.in = w.net.in /\ v.net.client = w.net.client /\ v.net.server = w.net.server
      /\ v.net.answer = w.net.answer /\ v.net.session = w.net.session /\ v.net.badDisk = w.net.badDisk
  BY DEF Carried, ByProxy, SameRest
<1>4. Able(v.proxy) /\ (Established(w.proxy) <=> Established(v.proxy))
  BY <1>1 DEF Carried, Able
<1>5. FromServer(v.net) = FromServer(w.net) /\ FromClient(v.net) = FromClient(w.net)
  BY <1>3 DEF FromServer, FromClient
<1>6. Talking(v, <<>>)
  BY <1>3, <1>4, <1>5 DEF Talking
<1>7. ASSUME Established(v.proxy) PROVE UpFlow(v, <<>>)
  <2> DEFINE u == w.net.up \o w.proxy.pending
             x == v.net.up \o v.proxy.pending
             i == w.net.in.local
  <2>1. x = u \o data
    BY <1>4, <1>7 DEF Carried
  <2>2. Cached(w.cache) = <<>> /\ Cached(v.cache) = <<>>
    BY <1>3 DEF Talking
  <2>3. u \in Seq(Int) /\ i \in Seq(Int) /\ data \in Seq(Int)
    BY <1>1, StreamTypes, SMTT(30) DEF Chunk
  <2>4. UpFlow(w, data)
    BY <1>1, <1>4, <1>7 DEF Going
  <2> HIDE DEF u, x, i
  <2>5. (u \o <<>>) \o (data \o i) = ((u \o data) \o <<>>) \o (<<>> \o i)
    BY <2>3, BracketEmpty, Zenon
  <2>6. Stream(v, <<>>) = (x \o <<>>) \o (<<>> \o i) /\ Stream(w, data) = (u \o <<>>) \o (data \o i)
    BY <1>3, <2>2, Zenon DEF Stream, Given, u, x, i
  <2>7. SameFlow(w, data, v, <<>>)
    BY <1>1, <1>3, <1>5, <2>1, <2>5, <2>6, Zenon DEF SameFlow, Lead
  <2> QED
    BY <2>4, <2>7, FlowSame
<1>8. Going(v, <<>>, <<>>)
  <2>1. ~ Dialing(v)
    BY <1>1, <1>3 DEF Dialing
  <2> QED
    BY <1>3, <1>6, <1>7, <2>1 DEF Going
<1>9. Keeps(w.local, v.local) /\ SameSocket(w.local, v.local)
  BY <1>3 DEF Going, Able, Established, Doomed, Keeps, SameSocket
<1>10. Keeps(w.proxy, v.proxy) /\ Rewatched(w.proxy, v.proxy)
  <2>1. CASE Established(w.proxy)
    BY <1>4, <2>1 DEF Established, Keeps, Rewatched
  <2>2. CASE ~ Established(w.proxy)
    BY <1>1, <2>2 DEF Carried, Able, Doomed, Keeps, Rewatched
  <2> QED
    BY <2>1, <2>2
<1> QED
  BY <1>1, <1>3, <1>8, <1>9, <1>10, SMTT(30) DEF Stays, TouchesProxy

\* The answer is that of the tokens, whatever else happens.
LEMMA AnsweredSame ==
  ASSUME NEW a, NEW n, Answered(a, n), NEW b, b = a, NEW m, m.answer = n.answer, m.ok = n.ok,
         FromServer(m) = FromServer(n)
  PROVE  Answered(b, m)
BY DEF Answered

\* What is behind the same beginning is the same.
LEMMA SameBehind ==
  ASSUME NEW r \in Seq(Int), NEW u \in Seq(Int), NEW s \in Seq(Int), r \o u = r \o s
  PROVE  u = s
BY ConcatSimplifications, Zenon

\* Before that: into the cache.
LEMMA OnRecvStored ==
  ASSUME NEW w, NEW data \in Chunk, Going(w, data, <<>>), w.status # "Connected",
         NEW v \in CacheLocal(w, data)
  PROVE  Going(v, <<>>, <<>>) /\ Stays(w, v) /\ TouchesFile(w, v)
<1> DEFINE old == Cached(w.cache)
           i == w.net.in.local
<1>0. Sane(w) /\ w \in Worlds /\ w.net \in Nets /\ i \in Seq(Int)
  BY AskedUp, StreamTypes DEF Going, Sane
<1>1. PICK ps : CacheOK(w.cache, ps)
  BY <1>0 DEF Sane
<1>2. PICK disk \in {"ok", "none", "torn"}, n \in 0 .. Len(data) :
        v = WithCached(w, data, disk, n)
  BY TunnelAssumption DEF CacheLocal
<1> DEFINE d == Store(w.cache, data, disk, n)
           bad == ToFile(w.cache, data) /\ disk # "ok"
           m == [w.net EXCEPT !.badDisk = w.net.badDisk \/ bad]
           new == Cached(d)
<1>3. v = [w EXCEPT !.cache = d, !.net = m]
  BY <1>0, <1>2 DEF WithCached, Worlds, Nets
<1>4. /\ \E qs : CacheOK(d, qs)
      /\ ~ bad => new = old \o data
      /\ Reordered(w.cache, data, d, i)
      /\ d.file.open = w.cache.file.open \/ d.file.open
  <2>0. d = Store(w.cache, data, disk, n)
    OBVIOUS
  <2> HIDE DEF d
  <2>1. Stored(w.cache, data, i, ToFile(w.cache, data) /\ disk # "ok", d)
    BY <1>0, <1>1, <2>0, StoreLaw
  <2> QED
    BY <2>1, Zenon DEF Stored
<1>5. d \in Caches
  BY <1>4 DEF CacheOK
<1>6. /\ m \in Nets /\ m.badDisk = (w.net.badDisk \/ bad)
      /\ m.in = w.net.in /\ m.up = w.net.up /\ m.down = w.net.down
      /\ m.client = w.net.client /\ m.server = w.net.server /\ m.session = w.net.session
      /\ m.answer = w.net.answer /\ m.ok = w.net.ok
  <2> HIDE DEF bad
  <2>1. (w.net.badDisk \/ bad) \in BOOLEAN
    OBVIOUS
  <2> QED
    BY <1>0, <2>1 DEF Nets
<1> HIDE DEF d, m, bad, i
<1>7. /\ v \in Worlds /\ v.cache = d /\ v.local = w.local /\ v.proxy = w.proxy /\ v.status = w.status
      /\ v.header = w.header /\ v.handler = w.handler /\ v.place = w.place /\ v.net = m
  BY <1>0, <1>3, <1>5, <1>6 DEF Worlds
<1>8. FromClient(m) = FromClient(w.net) /\ FromServer(m) = FromServer(w.net)
  BY <1>6, Zenon DEF FromClient, FromServer
<1>9. Sane(v)
  BY <1>0, <1>4, <1>6, <1>7, Zenon DEF Sane, Asked
<1>10. Dialing(v) <=> Dialing(w)
  BY <1>6, <1>7, ZenonT(40) DEF Dialing
<1>11. Asking(w, <<>>) => Asking(v, <<>>)
  <2> SUFFICES ASSUME Asking(w, <<>>) PROVE Asking(v, <<>>)
    OBVIOUS
  <2>1. Answered(w.header \o (<<>> \o w.net.in.proxy), w.net)
    BY Zenon DEF Asking
  <2>2. Answered(v.header \o (<<>> \o v.net.in.proxy), v.net)
    BY <1>6, <1>7, <1>8, <2>1, AnsweredSame, ZenonT(40)
  <2> QED
    BY <1>6, <1>7, <2>2, Zenon DEF Asking
<1>12. Dialing(w) \/ Asking(w, <<>>)
  BY Zenon DEF Going, Talking
<1>13. ASSUME Dialing(v) \/ Established(v.proxy) PROVE UpFlow(v, <<>>)
  <2> DEFINE r == Lead(w)
             f == FromClient(w.net)
  <2>1. UpFlow(w, data)
    BY <1>7, <1>10, <1>13, Zenon DEF Going
  <2>2. PICK s : Theirs(s, w.net) /\ Stream(w, data) = r \o s
    BY <2>1, Zenon DEF UpFlow
  <2>3. /\ r \in Seq(Int) /\ old \in Seq(Int) /\ new \in Seq(Int) /\ data \in Seq(Int) /\ s \in Seq(Int)
        /\ i \in Seq(Int)
    <3>1. r \in Seq(Int)
      BY DEF Lead, Request, ConnectLine, BlankLine
    <3>2. old \in Seq(Int) /\ new \in Seq(Int)
      BY <1>1, <1>4, CachedIs
    <3> QED
      BY <1>0, <2>2, <3>1, <3>2 DEF Chunk, Theirs, Own
  <2>4. Given(w) = r /\ Given(v) = r /\ Lead(v) = r
    BY <1>6, <1>7, <2>1, Zenon DEF UpFlow, Given, Lead
  <2>5. /\ Stream(w, data) = (r \o old) \o (data \o i)
        /\ Stream(v, <<>>) = (r \o new) \o (<<>> \o i)
    BY <1>6, <1>7, <2>4, Zenon DEF Stream, i
  <2>6. Own(s, f) /\ (~ w.net.badDisk => s = f)
    BY <2>2, Zenon DEF Theirs
  <2> HIDE DEF old, new, r, f
  <2>7. old \o (data \o i) = s
    <3> DEFINE t == data \o i
    <3>1. (r \o old) \o t = r \o s
      BY <2>2, <2>5
    <3>2. r \in Seq(Int) /\ old \in Seq(Int) /\ s \in Seq(Int) /\ t \in Seq(Int)
      BY <2>3, IntJoin
    <3> HIDE DEF t
    <3>3. (r \o old) \o t = r \o (old \o t)
      BY <3>2, IntAssociative, ZenonT(40)
    <3>4. r \o (old \o t) = r \o s
      BY <3>1, <3>3
    <3>5. old \o t \in Seq(Int)
      BY <3>2, IntJoin
    <3>6. old \o t = s
      BY <3>2, <3>4, <3>5, SameBehind, Zenon
    <3> QED
      BY <3>6 DEF t
  <2>8. Stream(v, <<>>) = r \o (new \o i)
    <3>1. <<>> \o i = i
      BY <2>3, IntJoin
    <3>2. r \in Seq(Int) /\ new \in Seq(Int) /\ i \in Seq(Int)
      BY <2>3
    <3>3. (r \o new) \o i = r \o (new \o i)
      BY <3>2, IntAssociative, ZenonT(40)
    <3> QED
      BY <2>5, <3>1, <3>3, Zenon
  <2>9. Own(new \o i, f)
    BY <1>4, <2>6, <2>7, Zenon DEF Reordered, old, new
  <2>10. ~ m.badDisk => new \o i = f
    <3>1. old \in Seq(Int) /\ data \in Seq(Int) /\ i \in Seq(Int)
      BY <2>3
    <3>2. (old \o data) \o i = old \o (data \o i)
      BY <3>1, IntAssociative, ZenonT(40)
    <3> QED
      BY <1>4, <1>6, <2>6, <2>7, <3>2, Zenon DEF old, new
  <2>11. Theirs(new \o i, v.net)
    BY <1>7, <1>8, <2>9, <2>10, Zenon DEF Theirs, f
  <2> QED
    BY <2>4, <2>8, <2>11, Zenon DEF UpFlow
<1>14. Going(v, <<>>, <<>>)
  <2>1. v.handler /\ v.place = "active" /\ Able(v.local)
    BY <1>7, Zenon DEF Going
  <2> QED
    BY <1>9, <1>10, <1>11, <1>12, <1>13, <2>1, Zenon DEF Going
<1>15. Keeps(w.local, v.local) /\ Keeps(w.proxy, v.proxy)
  <2>1. w.local.handler /\ w.proxy.handler
    BY <1>12 DEF Going, Able, Established, Doomed, Dialing, Asking
  <2> QED
    BY <1>7, <2>1, Zenon DEF Keeps
<1>16. TouchesFile(w, v)
  BY <1>4, <1>7, Zenon DEF TouchesFile, SameSocket
<1> QED
  BY <1>10, <1>14, <1>15, <1>16 DEF Stays

\* onRecv of the client's connection.
LEMMA OnRecvLocalLaw ==
  ASSUME NEW w, NEW data \in Chunk, Going(w, data, <<>>), NEW v \in OnRecvLocal(w, data)
  PROVE  \/ Over(v)
         \/ /\ Going(v, <<>>, <<>>) /\ Stays(w, v)
            /\ TouchesFile(w, v) \/ (TouchesProxy(w, v) /\ w.status = "Connected")
<1>1. CASE w.status = "Connected"
  <2>1. Talking(w, <<>>)
    BY <1>1 DEF Going, Dialing, Asking
  <2>2. v \in SendProxy(w, data)
    BY <1>1 DEF OnRecvLocal
  <2> QED
    BY <1>1, <2>1, <2>2, OnRecvTalking
<1>2. CASE w.status # "Connected"
  <2>1. v \in CacheLocal(w, data)
    BY <1>2 DEF OnRecvLocal
  <2> QED
    BY <1>2, <2>1, OnRecvStored
<1> QED
  BY <1>1, <1>2

-----------------------------------------------------------------------------
(* onRecv of the proxy's connection.                                       *)

\* A piece of the header is kept; the phase may be another.
Reads(w, h, p, v) ==
  /\ Sane(v) /\ v.header = h /\ v.status = p
  /\ v.local = w.local /\ v.proxy = w.proxy /\ v.cache = w.cache /\ v.net = w.net
  /\ v.handler = w.handler /\ v.place = w.place

\* It must not claim an answer that has not been given.
LEMMA HeaderSane ==
  ASSUME NEW w, Sane(w), NEW h \in Seq(Int), Len(h) <= HeaderRoom,
         NEW p \in {"Connecting", "Connected", "Error"}, p # "Connected" \/ w.net.ok,
         NEW v, v = [w EXCEPT !.header = h, !.status = p]
  PROVE  Reads(w, h, p, v)
<1>1. w \in Worlds
  BY DEF Sane
<1>2. /\ v \in Worlds /\ v.header = h /\ v.status = p
      /\ v.local = w.local /\ v.proxy = w.proxy /\ v.cache = w.cache /\ v.net = w.net
      /\ v.handler = w.handler /\ v.place = w.place
  BY <1>1 DEF Worlds
<1>3. Asked(v)
  BY <1>2, Zenon DEF Sane, Asked
<1>4. Sane(v)
  BY <1>2, <1>3, Zenon DEF Sane
<1> QED
  BY <1>2, <1>4, Zenon DEF Reads

\* The header is complete and accepts: what was cached follows the request.
LEMMA AcceptedLaw ==
  ASSUME NEW w, NEW data \in Seq(Int), Going(w, <<>>, data), Established(w.local), Asking(w, data),
         NEW h, h = w.header \o data, Len(h) <= HeaderRoom,
         Contains(h, BlankLine), Contains(h, StatusOK),
         NEW x, x = [w EXCEPT !.header = h, !.status = "Connected"], NEW v \in FlushLocal(x)
  PROVE  Over(v) \/ (Going(v, <<>>, <<>>) /\ Stays(w, v) /\ TouchesProxy(w, v))
<1> DEFINE r == w.net.in.proxy
<1>1. Sane(w) /\ w.handler /\ w.place = "active" /\ Able(w.proxy) /\ ~ Dialing(w)
  BY DEF Going, Asking, Dialing
<1>2. h \in Seq(Int) /\ r \in Seq(Int) /\ w.header \in Seq(Int)
  BY <1>1, StreamTypes, IntJoin
<1>3. w.header \o (data \o r) = h \o r
  BY <1>2, IntAssociative, ZenonT(40)
<1>4. Answered(h \o r, w.net)
  BY <1>3 DEF Asking
<1> HIDE DEF r
<1>5. w.net.ok /\ w.net.answer = 2 /\ AllServer(r) /\ Server(h) \o r = FromServer(w.net)
  <2>1. Cut(h, r, w.net)
    BY <1>2, <1>4, AnsweredCut, Zenon
  <2> QED
    BY <2>1, Zenon DEF Cut
<1>6. /\ Sane(x) /\ x.header = h /\ x.status = "Connected"
      /\ x.local = w.local /\ x.proxy = w.proxy /\ x.cache = w.cache /\ x.net = w.net
      /\ x.handler = w.handler /\ x.place = w.place
  <2>1. "Connected" \in {"Connecting", "Connected", "Error"}
    OBVIOUS
  <2>2. Reads(w, h, "Connected", x)
    BY <1>1, <1>2, <1>5, <2>1, HeaderSane, Zenon
  <2> QED
    BY <2>2, Zenon DEF Reads
<1>7. Flushable(x)
  BY <1>1, <1>6, Zenon DEF Flushable
<1>8. Flushed(x, v)
  BY <1>7, FlushLocalLaw
<1> SUFFICES ASSUME Turned(x, v), Cached(v.cache) = <<>>
             PROVE  Going(v, <<>>, <<>>) /\ Stays(w, v) /\ TouchesProxy(w, v)
  BY <1>8 DEF Flushed, Over
<1>9. /\ Sane(v) /\ v.local = w.local /\ v.net.down = w.net.down
      /\ v.status = "Connected" /\ v.header = h /\ v.handler = w.handler /\ v.place = w.place
      /\ v.net.in = w.net.in /\ v.net.client = w.net.client /\ v.net.server = w.net.server
      /\ v.net.answer = w.net.answer /\ v.net.session = w.net.session /\ v.net.badDisk = w.net.badDisk
      /\ v.cache.file.open = w.cache.file.open
  BY <1>6, Zenon DEF Turned, ByProxy, SameRest
<1>10. Able(v.proxy) /\ (Established(w.proxy) <=> Established(v.proxy))
  BY <1>1, <1>6, Zenon DEF Turned, Able
<1>11. FromServer(v.net) = FromServer(w.net) /\ FromClient(v.net) = FromClient(w.net)
  BY <1>9, Zenon DEF FromServer, FromClient
<1>12. Talking(v, <<>>)
  <2> DEFINE s == Server(h)
  <2>1. s \in Seq(Int)
    BY <1>2, ServerLaws
  <2>2. w.net.down = <<>> /\ w.local.pending = <<>>
    BY DEF Asking
  <2> HIDE DEF s
  <2>3. (s \o <<>>) \o <<>> = s /\ <<>> \o r = r
    BY <1>2, <2>1, IntJoin
  <2>4. v.net.in.proxy = r /\ Server(v.header) = s
    BY <1>9 DEF r, s
  <2>5. ((Server(v.header) \o v.net.down) \o v.local.pending) \o (<<>> \o v.net.in.proxy)
          = FromServer(v.net)
    BY <1>5, <1>9, <1>11, <2>2, <2>3, <2>4, Zenon DEF s
  <2>6. AllServer(<<>> \o v.net.in.proxy)
    BY <1>5, <2>3, <2>4, Zenon
  <2> QED
    BY <1>5, <1>9, <1>10, <2>5, <2>6, Zenon DEF Talking
<1>13. ASSUME Established(v.proxy) PROVE UpFlow(v, <<>>)
  <2>1. UpFlow(w, <<>>) /\ Established(x.proxy)
    BY <1>6, <1>10, <1>13, Zenon DEF Going
  <2>2. (v.net.up \o v.proxy.pending) \o Cached(v.cache) = (w.net.up \o w.proxy.pending) \o Cached(w.cache)
    BY <1>6, <2>1, Zenon DEF Turned
  <2>3. Lead(w) = Request
    BY DEF Asking, Lead
  <2>4. Lead(v) = Request
    BY <1>9 DEF Lead
  <2>5. Stream(v, <<>>) = Stream(w, <<>>)
    BY <1>9, <2>2, Zenon DEF Stream, Given
  <2>6. SameFlow(w, <<>>, v, <<>>)
    BY <1>9, <1>11, <2>3, <2>4, <2>5, Zenon DEF SameFlow
  <2> QED
    BY <2>1, <2>6, FlowSame
<1>14. Going(v, <<>>, <<>>)
  <2>1. ~ Dialing(v) /\ Able(v.local)
    BY <1>9 DEF Dialing, Able
  <2> QED
    BY <1>1, <1>9, <1>12, <1>13, <2>1, Zenon DEF Going
<1>15. Keeps(w.local, v.local) /\ SameSocket(w.local, v.local)
  BY <1>9 DEF Established, Keeps, SameSocket
<1>16. Keeps(w.proxy, v.proxy) /\ Rewatched(w.proxy, v.proxy)
  <2>1. CASE Established(w.proxy)
    BY <1>10, <2>1 DEF Established, Keeps, Rewatched
  <2>2. CASE ~ Established(w.proxy)
    <3>1. v.proxy = w.proxy
      BY <1>6, <2>2, Zenon DEF Turned
    <3> QED
      BY <1>1, <2>2, <3>1 DEF Able, Doomed, Keeps, Rewatched
  <2> QED
    BY <2>1, <2>2
<1> QED
  BY <1>1, <1>9, <1>14, <1>15, <1>16 DEF Stays, TouchesProxy

\* A piece of the header.
LEMMA OnRecvAsking ==
  ASSUME NEW w, NEW data \in Chunk, Going(w, <<>>, data), Established(w.local), Asking(w, data),
         NEW v \in OnRecvProxy(w, data)
  PROVE  Over(v) \/ (Going(v, <<>>, <<>>) /\ Stays(w, v) /\ TouchesProxy(w, v))
<1> DEFINE h == w.header \o data
           x == [w EXCEPT !.header = h]
<1>1. Sane(w) /\ w.handler /\ w.place = "active" /\ Able(w.proxy) /\ ~ Dialing(w) /\ w.status = "Connecting"
  BY DEF Going, Asking, Dialing
<1>2. /\ data \in Seq(Int) /\ w.header \in Seq(Int) /\ h \in Seq(Int)
      /\ Len(h) = Len(w.header) + Len(data) /\ Len(data) \in Nat /\ Len(w.header) \in Nat
      /\ HeaderRoom \in Nat
  BY <1>1, StreamTypes, IntJoin, TunnelAssumption DEF Chunk
<1>3. w \in Worlds
  BY <1>1 DEF Sane
<1>4. CASE Len(data) > HeaderRoom - Len(w.header)
  <2>1. v = GiveUp(w)
    BY <1>1, <1>4 DEF OnRecvProxy
  <2> QED
    BY <1>1, <2>1, GiveUpLaw DEF Over
<1>5. CASE ~ (Len(data) > HeaderRoom - Len(w.header))
  <2>1. v \in ParseHttpHeader(x)
    <3>1. x = [w EXCEPT !.header = @ \o data]
      BY <1>3 DEF Worlds
    <3> HIDE DEF x, h
    <3> QED
      BY <1>1, <1>5, <3>1 DEF OnRecvProxy
  <2>2. Len(h) <= HeaderRoom
    <3> DEFINE a == Len(w.header)
               b == Len(data)
    <3>1. a \in Nat /\ b \in Nat /\ ~ (b > HeaderRoom - a) /\ HeaderRoom \in Nat
      BY <1>2, <1>5
    <3>2. Len(h) = a + b
      BY <1>2
    <3> HIDE DEF a, b, h
    <3> QED
      BY <3>1, <3>2
  <2> HIDE DEF h
  <2>3. x.header = h
    BY <1>3 DEF Worlds
  <2>4. CASE ~ Contains(h, BlankLine)
    <3>1. v = [w EXCEPT !.header = h, !.status = "Connecting"]
      <4>1. v = x
        BY <2>1, <2>3, <2>4 DEF ParseHttpHeader
      <4> QED
        BY <1>1, <1>3, <4>1 DEF Worlds
    <3>2. /\ Sane(v) /\ v.header = h /\ v.status = "Connecting"
          /\ v.local = w.local /\ v.proxy = w.proxy /\ v.cache = w.cache /\ v.net = w.net
          /\ v.handler = w.handler /\ v.place = w.place
      <4>1. "Connecting" \in {"Connecting", "Connected", "Error"} /\ "Connecting" # "Connected"
        OBVIOUS
      <4>2. Reads(w, h, "Connecting", v)
        BY <1>1, <1>2, <2>2, <3>1, <4>1, HeaderSane, Zenon
      <4> QED
        BY <4>2, Zenon DEF Reads
    <3> DEFINE r == w.net.in.proxy
    <3>3. r \in Seq(Int)
      BY <1>1, StreamTypes
    <3> HIDE DEF r, x
    <3>4. w.header \o (data \o r) = h \o r /\ <<>> \o r = r
      <4>1. (w.header \o data) \o r = w.header \o (data \o r)
        BY <1>2, <3>3, IntAssociative, ZenonT(40)
      <4> QED
        BY <3>3, <4>1, IntJoin DEF h
    <3>5. Asking(v, <<>>)
      BY <2>4, <3>2, <3>4, Zenon DEF Asking, r
    <3>6. UpFlow(w, <<>>) => UpFlow(v, <<>>)
      <4>1. SameFlow(w, <<>>, v, <<>>)
        BY <1>1, <3>2, Zenon DEF SameFlow, Stream, Given, Lead
      <4> QED
        BY <4>1, FlowSame
    <3>7. Going(v, <<>>, <<>>)
      <4>1. ~ Dialing(v)
        BY <3>2 DEF Dialing
      <4> QED
        BY <3>2, <3>5, <3>6, <4>1, Zenon DEF Going
    <3>8. w.local.handler /\ w.proxy.handler
      BY <1>1 DEF Established, Able, Doomed
    <3>9. Stays(w, v) /\ TouchesProxy(w, v)
      BY <1>1, <3>2, <3>8, Zenon DEF Stays, Keeps, TouchesProxy, SameSocket, Rewatched
    <3> QED
      BY <3>7, <3>9
  <2>5. CASE Contains(h, BlankLine) /\ Contains(h, StatusOK)
    <3> DEFINE z == [w EXCEPT !.header = h, !.status = "Connected"]
    <3>1. v \in FlushLocal(z)
      <4>1. z = [x EXCEPT !.status = "Connected"]
        BY <1>3 DEF Worlds
      <4> HIDE DEF z, x
      <4> QED
        BY <2>1, <2>3, <2>5, <4>1 DEF ParseHttpHeader
    <3>2. h = w.header \o data
      BY DEF h
    <3>3. z = [w EXCEPT !.header = h, !.status = "Connected"]
      OBVIOUS
    <3> HIDE DEF z, x
    <3> QED
      BY <1>2, <2>2, <2>5, <3>1, <3>2, <3>3, AcceptedLaw
  <2>6. CASE Contains(h, BlankLine) /\ ~ Contains(h, StatusOK)
    <3> DEFINE z == [w EXCEPT !.header = h, !.status = "Error"]
    <3>1. v = GiveUp(z)
      <4>1. z = [x EXCEPT !.status = "Error"]
        BY <1>3 DEF Worlds
      <4> HIDE DEF z, x
      <4> QED
        BY <2>1, <2>3, <2>6, <4>1 DEF ParseHttpHeader
    <3>2. Sane(z) /\ z.handler
      <4>1. "Error" \in {"Connecting", "Connected", "Error"} /\ "Error" # "Connected"
        OBVIOUS
      <4>2. z = [w EXCEPT !.header = h, !.status = "Error"]
        OBVIOUS
      <4> HIDE DEF z
      <4>3. Reads(w, h, "Error", z)
        BY <1>1, <1>2, <2>2, <4>1, <4>2, HeaderSane, Zenon
      <4> QED
        BY <1>1, <4>3, Zenon DEF Reads
    <3> QED
      BY <3>1, <3>2, GiveUpLaw DEF Over
  <2> QED
    BY <2>4, <2>5, <2>6
<1> QED
  BY <1>4, <1>5

\* What follows of bytes of the server are bytes of the server.
LEMMA AllServerTail ==
  ASSUME NEW a \in Seq(Int), NEW b \in Seq(Int), NEW c, c = a \o b, AllServer(c)
  PROVE  AllServer(b)
<1> DEFINE l == Len(a)
<1>1. /\ Len(c) = l + Len(b) /\ l \in Nat /\ Len(b) \in Nat
      /\ \A i \in 1 .. Len(b) : c[l + i] = b[i]
  OBVIOUS
<1> SUFFICES ASSUME NEW i \in 1 .. Len(b) PROVE IsServerByte(b[i])
  BY DEF AllServer
<1> HIDE DEF l
<1>2. l + i \in 1 .. Len(c)
  BY <1>1
<1>3. c[l + i] = b[i]
  BY <1>1
<1>4. IsServerByte(c[l + i])
  BY <1>2 DEF AllServer
<1> QED
  BY <1>3, <1>4, Zenon

\* Brackets moved in the other stream.
Bracket(s, d, l, x, i) == ((s \o d) \o l) \o (x \o i) = (s \o ((d \o l) \o x)) \o i

\* They may be.
LEMMA BracketDown ==
  ASSUME NEW s \in Seq(Int), NEW d \in Seq(Int), NEW l \in Seq(Int), NEW x \in Seq(Int),
         NEW i \in Seq(Int)
  PROVE  Bracket(s, d, l, x, i)
<1> DEFINE t == d \o l
<1>1. t \in Seq(Int)
  BY IntJoin
<1>2. (s \o d) \o l = s \o t
  BY IntAssociative, ZenonT(40)
<1> HIDE DEF t
<1>3. (s \o t) \o x = s \o (t \o x)
  <2>1. \A z \in Seq(Int) : (s \o t) \o z = s \o (t \o z)
    BY <1>1, IntAssociative, ZenonT(40)
  <2> QED
    BY <2>1
<1> DEFINE p == s \o t
<1>4. p \in Seq(Int)
  BY <1>1, IntJoin
<1>5. (s \o d) \o l = p /\ p \o x = s \o (t \o x)
  BY <1>2, <1>3, Zenon
<1> HIDE DEF p
<1>6. (p \o x) \o i = p \o (x \o i)
  BY <1>4, IntAssociative, ZenonT(40)
<1> QED
  BY <1>5, <1>6, Zenon DEF t, Bracket

\* What is sent down in e and k is taken from the front of what came.
Moves(s, d, l, x, i, e, k) ==
  e \o k = (d \o l) \o x =>
    ((s \o e) \o k) \o (<<>> \o i) = ((s \o d) \o l) \o (x \o i)

Regroups(x, y, z) == (x \o y) \o z = x \o (y \o z)

\* The associative law by its name.
LEMMA Regroup == \A x, y, z \in Seq(Int) : Regroups(x, y, z)
BY IntAssociative, Zenon DEF Regroups

\* Nothing is lost by moving it.
LEMMA MovesDown ==
  ASSUME NEW s \in Seq(Int), NEW d \in Seq(Int), NEW l \in Seq(Int), NEW x \in Seq(Int),
         NEW i \in Seq(Int), NEW e \in Seq(Int), NEW k \in Seq(Int)
  PROVE  Moves(s, d, l, x, i, e, k)
<1>1. Bracket(s, d, l, x, i)
  BY BracketDown, Zenon
<1>2. (s \o e) \o k = s \o (e \o k)
  <2>1. Regroups(s, e, k)
    BY Regroup, Zenon
  <2> QED
    BY <2>1, Zenon DEF Regroups
<1>3. <<>> \o i = i
  BY IntJoin
<1> QED
  BY <1>1, <1>2, <1>3, Zenon DEF Moves, Bracket

\* On a tunnel that has been answered: straight to the client.
LEMMA OnRecvAnswered ==
  ASSUME NEW w, NEW data \in Chunk, Going(w, <<>>, data), Established(w.local), Talking(w, data),
         NEW v \in OnRecvProxy(w, data)
  PROVE  Over(v) \/ (Going(v, <<>>, <<>>) /\ Stays(w, v) /\ TouchesLocal(w, v))
<1>1. /\ Sane(w) /\ w.handler /\ w.place = "active" /\ Able(w.proxy) /\ ~ Dialing(w)
      /\ w.status = "Connected" /\ w.local.status = "Connected"
  BY DEF Going, Talking, Dialing, Established
<1>2. v \in SendLocal(w, data)
  BY <1>1 DEF OnRecvProxy
<1>3. Losable(w)
  BY <1>1 DEF Losable
<1>4. Over(v) \/ SentDown(w, data, v)
  BY <1>2, <1>3, SendLocalLaw
<1> SUFFICES ASSUME SentDown(w, data, v)
             PROVE  Going(v, <<>>, <<>>) /\ Stays(w, v) /\ TouchesLocal(w, v)
  BY <1>4
<1>5. /\ Sane(v) /\ Established(v.local) /\ v.proxy = w.proxy /\ v.cache = w.cache /\ v.net.up = w.net.up
      /\ v.status = w.status /\ v.header = w.header /\ v.handler = w.handler /\ v.place = w.place
      /\ v.net.in = w.net.in /\ v.net.client = w.net.client /\ v.net.server = w.net.server
      /\ v.net.answer = w.net.answer /\ v.net.session = w.net.session /\ v.net.badDisk = w.net.badDisk
      /\ v.net.down \o v.local.pending = (w.net.down \o w.local.pending) \o data
  BY Zenon DEF SentDown, ByLocal, SameRest
<1>6. FromServer(v.net) = FromServer(w.net) /\ FromClient(v.net) = FromClient(w.net)
  BY <1>5, Zenon DEF FromServer, FromClient
<1>7. Talking(v, <<>>)
  <2> DEFINE s == Server(w.header)
             i == w.net.in.proxy
  <2>1. /\ s \in Seq(Int) /\ i \in Seq(Int) /\ data \in Seq(Int)
        /\ w.net.down \in Seq(Int) /\ w.local.pending \in Seq(Int)
        /\ v.net.down \in Seq(Int) /\ v.local.pending \in Seq(Int)
    BY <1>1, <1>5, StreamTypes, ServerLaws DEF Chunk
  <2>2. ((s \o w.net.down) \o w.local.pending) \o (data \o i) = FromServer(w.net) /\ AllServer(data \o i)
    BY DEF Talking
  <2>3. v.net.in.proxy = i /\ Server(v.header) = s
    BY <1>5
  <2> HIDE DEF s, i
  <2>4. ((s \o v.net.down) \o v.local.pending) \o (<<>> \o i)
          = ((s \o w.net.down) \o w.local.pending) \o (data \o i)
    <3>1. Moves(s, w.net.down, w.local.pending, data, i, v.net.down, v.local.pending)
      BY <2>1, MovesDown, Zenon
    <3> QED
      BY <1>5, <3>1, Zenon DEF Moves
  <2>5. AllServer(<<>> \o i)
    <3>1. AllServer(i) /\ <<>> \o i = i
      BY <2>1, <2>2, AllServerTail, IntJoin
    <3> QED
      BY <3>1, Zenon
  <2>6. Able(v.proxy) /\ v.net.answer = 2 /\ Cached(v.cache) = <<>> /\ v.status = "Connected"
    BY <1>1, <1>5, Zenon DEF Talking
  <2> QED
    BY <1>6, <2>2, <2>3, <2>4, <2>5, <2>6, Zenon DEF Talking
<1>8. UpFlow(w, <<>>) => UpFlow(v, <<>>)
  <2>1. SameFlow(w, <<>>, v, <<>>)
    BY <1>5, <1>6, Zenon DEF SameFlow, Stream, Given, Lead
  <2> QED
    BY <2>1, FlowSame
<1>9. Going(v, <<>>, <<>>)
  <2>1. ~ Dialing(v) /\ Able(v.local)
    BY <1>1, <1>5 DEF Dialing, Able
  <2> QED
    BY <1>1, <1>5, <1>7, <1>8, <2>1, Zenon DEF Going
<1>10. Keeps(w.local, v.local) /\ Rewatched(w.local, v.local)
  BY <1>1, <1>5, SMTT(30) DEF Established, Keeps, Rewatched
<1>11. Keeps(w.proxy, v.proxy) /\ SameSocket(w.proxy, v.proxy)
  BY <1>1, <1>5 DEF Able, Established, Doomed, Keeps, SameSocket
<1> QED
  BY <1>1, <1>5, <1>9, <1>10, <1>11, Zenon DEF Stays, TouchesLocal

\* onRecv of the proxy's connection, which has been reached.
LEMMA OnRecvProxyLaw ==
  ASSUME NEW w, NEW data \in Chunk, Going(w, <<>>, data), Established(w.local), ~ Dialing(w),
         NEW v \in OnRecvProxy(w, data)
  PROVE  \/ Over(v)
         \/ Going(v, <<>>, <<>>) /\ Stays(w, v) /\ (TouchesProxy(w, v) \/ TouchesLocal(w, v))
<1>1. CASE Asking(w, data)
  BY <1>1, OnRecvAsking
<1>2. CASE Talking(w, data)
  BY <1>2, OnRecvAnswered
<1> QED
  BY <1>1, <1>2 DEF Going

-----------------------------------------------------------------------------
(* handleInputNotification().                                              *)

\* What the loop of recv() calls tells.
LEMMA ReceiveLaw ==
  ASSUME NEW c, c.status = "Connected", NEW e \in Errno, NEW k \in Nat, NEW how \in Ends,
         NEW r, r = Receive(c, e, k, how)
  PROVE  r.n \in 0 .. k /\ r.status \in {"Connected", "Closed", "Error"} /\ r.errno \in Errno
<1>1. LIMIT_LEN \in Nat
  BY RecvAssumption
<1> DEFINE m == IF k < LIMIT_LEN THEN k ELSE LIMIT_LEN
<1>2. m \in 0 .. k
  BY <1>1
<1> HIDE DEF m
<1> DEFINE last == m < LIMIT_LEN /\ m % MAXLEN = 0
<1>3. r = [n      |-> m,
           status |-> CASE last /\ how = "eof"   -> "Closed"
                        [] last /\ how = "reset" -> "Error"
                        [] OTHER                 -> c.status,
           errno  |-> CASE last /\ how = "open"  -> "EAGAIN"
                        [] last /\ how = "reset" -> "OTHER"
                        [] OTHER                 -> e]
  BY DEF Receive, m
<1> HIDE DEF last
<1> QED
  BY <1>2, <1>3 DEF Ends, Errno

\* A connection that recv() has found at its end, or in error, or neither.
LEMMA FoundLaw ==
  ASSUME NEW c, Established(c), NEW st \in {"Connected", "Closed", "Error"},
         NEW d, d = [c EXCEPT !.status = st]
  PROVE  /\ d.status = st /\ Able(d) /\ Droppable(d) /\ d.pending = c.pending /\ d \in Connections
         /\ d.wr = c.wr /\ d.rd = c.rd /\ d.handler
         /\ st = "Connected" => d = c /\ Established(d)
<1>1. c \in Connections /\ c.open /\ c.handler /\ c.status = "Connected"
  BY DEF Established
<1>2. /\ d \in Connections /\ d.open /\ d.handler /\ d.status = st /\ d.pending = c.pending
      /\ d.wr = c.wr /\ d.rd = c.rd
  BY <1>1 DEF Connections, ConnStatus
<1>3. st = "Connected" => d = c
  BY <1>1 DEF Connections
<1>4. Able(d)
  BY <1>2, <1>3 DEF Able, Doomed
<1> QED
  BY <1>2, <1>3, <1>4 DEF Droppable

\* What recv() changes besides the connection, errno and the record of faults.
Heard(w, u) ==
  /\ u.cache = w.cache /\ u.status = w.status /\ u.header = w.header
  /\ u.handler = w.handler /\ u.place = w.place
  /\ u.net.up = w.net.up /\ u.net.down = w.net.down
  /\ u.net.client = w.net.client /\ u.net.server = w.net.server
  /\ u.net.answer = w.net.answer /\ u.net.ok = w.net.ok /\ u.net.session = w.net.session /\ u.net.badDisk = w.net.badDisk

\* data has been read from the client.
HeardLocal(w, st, data, u) ==
  /\ Going(u, data, <<>>) /\ Heard(w, u) /\ u.proxy = w.proxy
  /\ u.local.status = st /\ (st = "Connected" => u.local = w.local)

\* The loop of recv() calls on the client's connection.
LEMMA HeardLocalLaw ==
  ASSUME NEW w, Running(w), NEW st \in {"Connected", "Closed", "Error"}, NEW e \in Errno,
         NEW n \in 0 .. Len(w.net.in.local), NEW f \in SUBSET Sides,
         NEW data, data = SubSeq(w.net.in.local, 1, n),
         NEW u, u = [w EXCEPT !.local.status = st, !.errno = e,
                              !.net.in.local = SubSeq(@, n + 1, Len(@)), !.net.fault = f]
  PROVE  HeardLocal(w, st, data, u)
<1> DEFINE i == w.net.in.local
           rest == SubSeq(i, n + 1, Len(i))
           c == [w.local EXCEPT !.status = st]
           m == [w.net EXCEPT !.in.local = rest, !.fault = f]
<1>1. /\ Sane(w) /\ w.handler /\ w.place = "active" /\ Established(w.local)
      /\ Dialing(w) \/ Asking(w, <<>>) \/ Talking(w, <<>>)
      /\ Dialing(w) \/ Established(w.proxy)
      /\ UpFlow(w, <<>>)
  BY Zenon DEF Running, Going
<1>2. w \in Worlds /\ w.net \in Nets /\ i \in Seq(Int) /\ w.net.in.proxy \in Seq(Int)
  BY <1>1, AskedUp, StreamTypes
<1>3. rest \in Seq(Int) /\ data \in Seq(Int) /\ data \o rest = i
  BY <1>2, CutJoin DEF Byte
<1>4. u = [w EXCEPT !.local = c, !.errno = e, !.net = m]
  BY <1>2 DEF Worlds, Nets
<1>5. /\ c.status = st /\ Able(c) /\ Droppable(c) /\ c \in Connections
      /\ st = "Connected" => c = w.local
  BY <1>1, FoundLaw
<1> HIDE DEF rest, c
<1>6. /\ m \in Nets /\ m.in.local = rest /\ m.in.proxy = w.net.in.proxy
      /\ m.up = w.net.up /\ m.down = w.net.down
      /\ m.client = w.net.client /\ m.server = w.net.server
      /\ m.answer = w.net.answer /\ m.ok = w.net.ok /\ m.session = w.net.session /\ m.badDisk = w.net.badDisk
  BY <1>2, <1>3 DEF Nets
<1> HIDE DEF m
<1>7. /\ u \in Worlds /\ u.local = c /\ u.net = m /\ u.proxy = w.proxy /\ u.cache = w.cache
      /\ u.status = w.status /\ u.header = w.header /\ u.handler = w.handler /\ u.place = w.place
  BY <1>2, <1>4, <1>5, <1>6, ZenonT(40) DEF Worlds
<1>8. Heard(w, u)
  BY <1>6, <1>7, Zenon DEF Heard
<1>9. Sane(u)
  <2>1. Asked(u)
    BY <1>1, <1>6, <1>7, Zenon DEF Sane, Asked
  <2> QED
    BY <1>1, <1>5, <1>7, <2>1, Zenon DEF Sane
<1>10. FromClient(m) = FromClient(w.net) /\ FromServer(m) = FromServer(w.net)
  BY <1>6, Zenon DEF FromClient, FromServer
<1>11. UpFlow(u, data)
  <2>1. <<>> \o i = i
    BY <1>2, IntJoin
  <2>2. data \o rest = <<>> \o i
    BY <1>3, <2>1
  <2>3. Given(u) = Given(w)
    BY <1>6, <1>7, Zenon DEF Given
  <2>4. Stream(u, data) = Stream(w, <<>>)
    BY <1>6, <1>7, <2>2, <2>3, Zenon DEF Stream, i
  <2>5. SameFlow(w, <<>>, u, data)
    BY <1>6, <1>7, <1>10, <2>3, <2>4, Zenon DEF SameFlow, Lead
  <2> QED
    BY <1>1, <2>5, FlowSame
<1> HIDE DEF i
<1>12. Going(u, data, <<>>)
  <2>1. CASE Dialing(w)
    <3>1. w.local.pending = <<>> /\ c.pending = w.local.pending
      BY <1>1, <2>1, FoundLaw DEF Dialing, c
    <3>2. Dialing(u)
      BY <1>6, <1>7, <2>1, <3>1, ZenonT(40) DEF Dialing
    <3> QED
      BY <1>1, <1>5, <1>7, <1>9, <1>11, <3>2, Zenon DEF Going
  <2>2. c.pending = w.local.pending
    BY <1>1, FoundLaw DEF c
  <2>3. CASE Asking(w, <<>>)
    <3>1. Answered(u.header \o (<<>> \o u.net.in.proxy), u.net)
      <4>1. Answered(w.header \o (<<>> \o w.net.in.proxy), w.net)
        BY <2>3, Zenon DEF Asking
      <4> QED
        BY <1>6, <1>7, <1>10, <4>1, AnsweredSame, ZenonT(40)
    <3>2. Asking(u, <<>>)
      BY <1>6, <1>7, <2>2, <2>3, <3>1, Zenon DEF Asking
    <3> QED
      BY <1>1, <1>5, <1>7, <1>9, <1>11, <3>2, Zenon DEF Going
  <2>4. CASE Talking(w, <<>>)
    <3>2. Talking(u, <<>>)
      BY <1>6, <1>7, <1>10, <2>2, <2>4, Zenon DEF Talking
    <3> QED
      BY <1>1, <1>5, <1>7, <1>9, <1>11, <3>2, Zenon DEF Going
  <2> QED
    BY <1>1, <2>1, <2>3, <2>4
<1> QED
  BY <1>5, <1>7, <1>8, <1>12, Zenon DEF HeardLocal

\* data has been read from the proxy.
HeardProxy(w, st, data, u) ==
  /\ Going(u, <<>>, data) /\ Heard(w, u) /\ u.local = w.local /\ ~ Dialing(u)
  /\ u.proxy.status = st /\ (st = "Connected" => u.proxy = w.proxy)

\* The loop of recv() calls on the proxy's connection.
LEMMA HeardProxyLaw ==
  ASSUME NEW w, Running(w), w.proxy.status = "Connected",
         NEW st \in {"Connected", "Closed", "Error"}, NEW e \in Errno,
         NEW n \in 0 .. Len(w.net.in.proxy), NEW f \in SUBSET Sides,
         NEW data, data = SubSeq(w.net.in.proxy, 1, n),
         NEW u, u = [w EXCEPT !.proxy.status = st, !.errno = e,
                              !.net.in.proxy = SubSeq(@, n + 1, Len(@)), !.net.fault = f]
  PROVE  HeardProxy(w, st, data, u)
<1> DEFINE i == w.net.in.proxy
           rest == SubSeq(i, n + 1, Len(i))
           c == [w.proxy EXCEPT !.status = st]
           m == [w.net EXCEPT !.in.proxy = rest, !.fault = f]
<1>0. ~ Dialing(w)
  BY DEF Dialing
<1>1. /\ Sane(w) /\ w.handler /\ w.place = "active" /\ Established(w.local) /\ Able(w.local)
      /\ Asking(w, <<>>) \/ Talking(w, <<>>)
      /\ Established(w.proxy) /\ UpFlow(w, <<>>)
  BY <1>0, Zenon DEF Running, Going
<1>2. w \in Worlds /\ w.net \in Nets /\ i \in Seq(Int) /\ w.header \in Seq(Int)
  BY <1>1, AskedUp, StreamTypes
<1>3. rest \in Seq(Int) /\ data \in Seq(Int) /\ data \o rest = i
  BY <1>2, CutJoin DEF Byte
<1>4. u = [w EXCEPT !.proxy = c, !.errno = e, !.net = m]
  BY <1>2 DEF Worlds, Nets
<1>5. /\ c.status = st /\ Able(c) /\ Droppable(c) /\ c \in Connections /\ c.pending = w.proxy.pending
      /\ st = "Connected" => c = w.proxy
  BY <1>1, FoundLaw
<1> HIDE DEF rest, c
<1>6. /\ m \in Nets /\ m.in.proxy = rest /\ m.in.local = w.net.in.local
      /\ m.up = w.net.up /\ m.down = w.net.down
      /\ m.client = w.net.client /\ m.server = w.net.server
      /\ m.answer = w.net.answer /\ m.ok = w.net.ok /\ m.session = w.net.session /\ m.badDisk = w.net.badDisk
  BY <1>2, <1>3 DEF Nets
<1> HIDE DEF m
<1>7. /\ u \in Worlds /\ u.proxy = c /\ u.net = m /\ u.local = w.local /\ u.cache = w.cache
      /\ u.status = w.status /\ u.header = w.header /\ u.handler = w.handler /\ u.place = w.place
  BY <1>2, <1>4, <1>5, <1>6, ZenonT(40) DEF Worlds
<1>8. Heard(w, u)
  BY <1>6, <1>7, Zenon DEF Heard
<1>9. Sane(u)
  <2>1. Asked(u)
    BY <1>1, <1>5, <1>6, <1>7, Zenon DEF Sane, Asked
  <2> QED
    BY <1>1, <1>5, <1>7, <2>1, Zenon DEF Sane
<1>10. FromClient(m) = FromClient(w.net) /\ FromServer(m) = FromServer(w.net)
  BY <1>6, Zenon DEF FromClient, FromServer
<1>11. UpFlow(u, <<>>)
  <2>1. Given(u) = Given(w)
    BY <1>5, <1>6, <1>7, Zenon DEF Given
  <2>2. SameFlow(w, <<>>, u, <<>>)
    BY <1>6, <1>7, <1>10, <2>1, Zenon DEF SameFlow, Stream, Lead
  <2> QED
    BY <1>1, <2>2, FlowSame
<1>12. data \o rest = <<>> \o i
  <2>1. <<>> \o i = i
    BY <1>2, IntJoin
  <2> QED
    BY <1>3, <2>1
<1> HIDE DEF i
<1>13. ~ Dialing(u)
  <2>1. w.status # "Closed"
    BY <1>1 DEF Asking, Talking
  <2> QED
    BY <1>7, <2>1, ZenonT(40) DEF Dialing
<1>14. Going(u, <<>>, data)
  <2>1. CASE Asking(w, <<>>)
    <3>1. Answered(u.header \o (data \o u.net.in.proxy), u.net)
      <4>1. Answered(w.header \o (<<>> \o w.net.in.proxy), w.net)
        BY <2>1, Zenon DEF Asking
      <4>2. u.header \o (data \o u.net.in.proxy) = w.header \o (<<>> \o w.net.in.proxy)
        BY <1>6, <1>7, <1>12, Zenon DEF i
      <4> QED
        BY <1>6, <1>7, <1>10, <4>1, <4>2, AnsweredSame, ZenonT(40)
    <3>2. Asking(u, data)
      BY <1>5, <1>6, <1>7, <2>1, <3>1, Zenon DEF Asking
    <3> QED
      BY <1>1, <1>7, <1>9, <1>11, <3>2, Zenon DEF Going
  <2>2. CASE Talking(w, <<>>)
    <3>1. data \o u.net.in.proxy = <<>> \o w.net.in.proxy
      BY <1>6, <1>7, <1>12, Zenon DEF i
    <3>2. Talking(u, data)
      BY <1>5, <1>6, <1>7, <1>10, <2>2, <3>1, Zenon DEF Talking
    <3> QED
      BY <1>1, <1>7, <1>9, <1>11, <3>2, Zenon DEF Going
  <2> QED
    BY <1>1, <2>1, <2>2
<1> QED
  BY <1>5, <1>7, <1>8, <1>13, <1>14, Zenon DEF HeardProxy

\* The watches of an open connection are dropped before its last callback.
LEMMA UnwatchedLaw ==
  ASSUME NEW c \in Connections, c.open, NEW d, d = Unwatched(c)
  PROVE  /\ d \in Connections /\ d.open /\ d.handler = c.handler /\ d.pending = c.pending
         /\ d.status = c.status /\ Droppable(d)
<1>1. /\ d \in Connections /\ d.open /\ d.handler = c.handler /\ d.pending = c.pending
      /\ d.status = c.status
  BY DEF Unwatched, Connections
<1> QED
  BY <1>1 DEF Droppable

\* When onRecv has ended the session, its connection has no handler any more.
LEMMA AfterOver ==
  ASSUME NEW x, Over(x), NEW side \in Sides
  PROVE  AfterRecv(x, side) = {x}
<1>1. CASE Crashed(x)
  BY <1>1 DEF Crashed, AfterRecv
<1>2. CASE Ended(x)
  <2>1. ~ x[side].handler
    BY <1>2, NewIsBare DEF Ended, Quiet, Sides
  <2> QED
    BY <2>1 DEF AfterRecv
<1> QED
  BY <1>1, <1>2 DEF Over

\* The end of the input handler of the client's connection.
LEMMA AfterLocal ==
  ASSUME NEW x, Going(x, <<>>, <<>>), NEW y \in AfterRecv(x, "local")
  PROVE  Over(y) \/ (y = x /\ x.local.status \notin {"Closed", "Error"})
<1> DEFINE c == Unwatched(x.local)
           v == [x EXCEPT !.local = Unwatched(@)]
<1>1. /\ Sane(x) /\ x.handler /\ x.place = "active" /\ Able(x.local) /\ x \in Worlds
      /\ Dialing(x) \/ Asking(x, <<>>) \/ Talking(x, <<>>)
  BY DEF Going, Sane
<1>2. x.local \in Connections /\ x.local.open /\ x.local.handler
  BY <1>1 DEF Able, Established, Doomed
<1>3. c \in Connections /\ Droppable(c)
  BY <1>2, UnwatchedLaw
<1>4. v = [x EXCEPT !.local = c]
  BY <1>1 DEF Worlds
<1>5. CASE x.local.status \notin {"Closed", "Error"}
  <2>1. AfterRecv(x, "local") = {x}
    BY <1>5 DEF AfterRecv
  <2> QED
    BY <1>5, <2>1
<1>6. CASE x.local.status \in {"Closed", "Error"}
  <2>1. y \in OnErrorLocal(v) \/ y \in OnDisconnectedLocal(v)
    <3>1. x["local"].handler /\ x.place # "crashed" /\ x["local"].status \in {"Closed", "Error"}
      BY <1>1, <1>2, <1>6
    <3>2. CASE x["local"].status = "Error"
      BY <3>1, <3>2 DEF AfterRecv
    <3>3. CASE x["local"].status = "Closed"
      BY <3>1, <3>3 DEF AfterRecv
    <3> QED
      BY <3>1, <3>2, <3>3
  <2> HIDE DEF v, c
  <2>2. /\ v \in Worlds /\ v.local = c /\ v.proxy = x.proxy /\ v.cache = x.cache /\ v.net = x.net
        /\ v.status = x.status /\ v.header = x.header /\ v.handler = x.handler /\ v.place = x.place
    BY <1>1, <1>3, <1>4 DEF Worlds
  <2>3. Sane(v)
    BY <1>1, <1>3, <2>2, Zenon DEF Sane, Asked
  <2>4. v.status = "Connected" => Able(v.proxy)
    BY <1>1, <2>2 DEF Dialing, Asking, Talking
  <2>5. Losable(v)
    <3>1. v.place # "crashed"
      BY <1>1, <2>2
    <3> QED
      BY <1>1, <2>2, <2>3, <2>4, <3>1, Zenon DEF Losable
  <2> QED
    BY <2>1, <2>5, LocalEndsLaw
<1> QED
  BY <1>5, <1>6

\* And of the proxy's.
LEMMA AfterProxy ==
  ASSUME NEW x, Going(x, <<>>, <<>>), NEW y \in AfterRecv(x, "proxy")
  PROVE  Over(y) \/ (y = x /\ x.proxy.status \notin {"Closed", "Error"})
<1> DEFINE c == Unwatched(x.proxy)
           v == [x EXCEPT !.proxy = Unwatched(@)]
<1>1. /\ Sane(x) /\ x.handler /\ x.place = "active" /\ x \in Worlds
      /\ Dialing(x) \/ Asking(x, <<>>) \/ Talking(x, <<>>)
  BY DEF Going, Sane
<1>2. x.proxy \in Connections /\ x.proxy.open /\ x.proxy.handler
  <2>1. x.proxy.open /\ x.proxy.handler
    BY <1>1 DEF Dialing, Asking, Talking, Able, Established, Doomed
  <2> QED
    BY <1>1, <2>1, SMTT(30) DEF Worlds
<1>3. c \in Connections /\ Droppable(c) /\ c.pending = x.proxy.pending
  BY <1>2, UnwatchedLaw
<1>4. v = [x EXCEPT !.proxy = c]
  BY <1>1 DEF Worlds
<1>5. CASE x.proxy.status \notin {"Closed", "Error"}
  <2>1. AfterRecv(x, "proxy") = {x}
    BY <1>5 DEF AfterRecv
  <2> QED
    BY <1>5, <2>1
<1>6. CASE x.proxy.status \in {"Closed", "Error"}
  <2>1. y = OnErrorProxy(v) \/ y = OnDisconnectedProxy(v)
    <3>1. x["proxy"].handler /\ x.place # "crashed" /\ x["proxy"].status \in {"Closed", "Error"}
      BY <1>1, <1>2, <1>6
    <3>2. CASE x["proxy"].status = "Error"
      BY <3>1, <3>2 DEF AfterRecv
    <3>3. CASE x["proxy"].status = "Closed"
      BY <3>1, <3>3 DEF AfterRecv
    <3> QED
      BY <3>1, <3>2, <3>3
  <2> HIDE DEF v, c
  <2>2. /\ v \in Worlds /\ v.proxy = c /\ v.local = x.local /\ v.cache = x.cache /\ v.net = x.net
        /\ v.status = x.status /\ v.header = x.header /\ v.handler = x.handler /\ v.place = x.place
    BY <1>1, <1>3, <1>4 DEF Worlds
  <2>3. Sane(v)
    BY <1>1, <1>3, <2>2, Zenon DEF Sane, Asked
  <2> QED
    BY <1>1, <2>1, <2>2, <2>3, OnErrorProxyLaw, OnDisconnectedProxyLaw DEF Over
<1> QED
  BY <1>5, <1>6

\* What is left of a callback that has not ended the session.
LEMMA StillRunning ==
  ASSUME NEW u, NEW x, Going(x, <<>>, <<>>), Stays(u, x), Established(u.local),
         Dialing(u) \/ Established(u.proxy)
  PROVE  Running(x)
BY Zenon DEF Running, Stays, Keeps

\* What the input handler does to the sockets and the file unless it ends the
\* session: the proxy is written to only if it was connected.
LocalInput(w, v) ==
  TouchesFile(w, v) \/ (TouchesProxy(w, v) /\ w.proxy.status = "Connected")
ProxyInput(w, v) == TouchesProxy(w, v) \/ TouchesLocal(w, v)

\* A dispatch of the client's connection.
LEMMA InputLocalLaw ==
  ASSUME NEW w, Running(w), NEW v \in HandleInput(w, "local")
  PROVE  Over(v) \/ (Running(v) /\ LocalInput(w, v))
<1> DEFINE r    == Receive(w.local, w.errno, Len(w.net.in.local), w.net.end.local)
           data == SubSeq(w.net.in.local, 1, r.n)
           f    == w.net.fault \cup (IF r.status = "Error" THEN {"local"} ELSE {})
           u    == [w EXCEPT !.local.status = r.status, !.errno = r.errno,
                             !.net.in.local = SubSeq(@, r.n + 1, Len(@)), !.net.fault = f]
           us   == IF r.n > 0 /\ w.local.handler THEN OnRecvLocal(u, data) ELSE {u}
<1>1. /\ Sane(w) /\ w.place = "active" /\ Established(w.local)
      /\ Dialing(w) \/ Established(w.proxy)
      /\ w \in Worlds /\ w.net \in Nets /\ w.net.in.local \in Seq(Int)
  BY AskedUp, StreamTypes DEF Running, Going
<1>2. /\ w.local.status = "Connected" /\ w.local.handler /\ w.errno \in Errno
      /\ Len(w.net.in.local) \in Nat /\ w.net.end.local \in Ends /\ w.net.fault \in SUBSET Sides
  <2> HIDE DEF r, data, f, u, us
  <2>1. w.local.status = "Connected" /\ w.local.handler /\ w.errno \in Errno
    BY <1>1 DEF Established, Worlds
  <2>2. w.net.end.local \in Ends /\ w.net.fault \in SUBSET Sides
    BY <1>1 DEF Nets
  <2>3. Len(w.net.in.local) \in Nat
    BY <1>1
  <2> QED
    BY <2>1, <2>2, <2>3
<1>3. PICK x \in us : v \in AfterRecv(x, "local")
  <2>1. u = [w EXCEPT !["local"].status = r.status, !.errno = r.errno,
                      !.net.in["local"] = SubSeq(@, r.n + 1, Len(@)),
                      !.net.fault = @ \cup (IF r.status = "Error" THEN {"local"} ELSE {})]
    BY <1>1 DEF Worlds, Nets
  <2> QED
    BY <2>1 DEF HandleInput, OnRecv
<1>4. r.n \in 0 .. Len(w.net.in.local) /\ r.status \in {"Connected", "Closed", "Error"} /\ r.errno \in Errno
  BY <1>2, ReceiveLaw
<1>5. f \in SUBSET Sides
  BY <1>2 DEF Sides
<1>6. r.n = 0 => data = <<>>
  BY <1>1
<1>7. r.n > 0 => data \in Chunk
  <2>1. data \in Seq(Int) /\ Len(data) = r.n /\ r.n \in Nat
    BY <1>1, <1>4, SMTT(30)
  <2> HIDE DEF data, r, u, f, us
  <2>2. r.n > 0 => data # <<>>
    BY <2>1
  <2> QED
    BY <2>1, <2>2, SMTT(30) DEF Chunk, Byte
<1>8. HeardLocal(w, r.status, data, u)
  <2> HIDE DEF r, f
  <2> QED
    BY <1>4, <1>5, HeardLocalLaw
<1> HIDE DEF r, f, u, data
<1>9. /\ Going(u, data, <<>>) /\ u.proxy = w.proxy /\ u.cache = w.cache /\ u.status = w.status
      /\ u.local.status = r.status /\ (r.status = "Connected" => u.local = w.local)
  BY <1>8, Zenon DEF HeardLocal, Heard
<1>10. \/ Over(x)
       \/ /\ Going(x, <<>>, <<>>) /\ Stays(u, x)
          /\ TouchesFile(u, x) \/ (TouchesProxy(u, x) /\ u.status = "Connected")
  <2>1. CASE r.n > 0
    BY <1>2, <1>3, <1>7, <1>9, <2>1, OnRecvLocalLaw
  <2>2. CASE ~ (r.n > 0)
    <3>1. x = u /\ data = <<>>
      BY <1>3, <1>4, <1>6, <2>2
    <3>2. Going(u, <<>>, <<>>)
      BY <1>9, <3>1, SMTT(30)
    <3>3. u.local.handler /\ u.proxy.handler
      BY <3>2 DEF Going, Dialing, Asking, Talking, Able, Established, Doomed
    <3>4. Stays(u, u) /\ TouchesFile(u, u)
      BY <3>3 DEF Stays, Keeps, TouchesFile, SameSocket
    <3> QED
      BY <3>1, <3>2, <3>4
  <2> QED
    BY <2>1, <2>2
<1>11. CASE Over(x)
  <2>1. v = x
    BY <1>3, <1>11, AfterOver DEF Sides
  <2> QED
    BY <1>11, <2>1
<1>12. CASE /\ Going(x, <<>>, <<>>) /\ Stays(u, x)
            /\ TouchesFile(u, x) \/ (TouchesProxy(u, x) /\ u.status = "Connected")
  <2>1. Over(v) \/ (v = x /\ x.local.status \notin {"Closed", "Error"})
    BY <1>3, <1>12, AfterLocal
  <2>2. CASE v = x /\ x.local.status \notin {"Closed", "Error"}
    <3>1. r.status = "Connected"
      BY <1>4, <1>9, <1>12, <2>2 DEF Stays, Keeps
    <3>2. u.local = w.local /\ u.proxy = w.proxy
      BY <1>9, <3>1
    <3>3. Dialing(u) \/ Established(u.proxy)
      <4>1. CASE Dialing(w)
        <5>1. w.proxy.status = "Connecting"
          BY <4>1 DEF Dialing
        <5>2. u.proxy.status = "Connecting" /\ u.status = "Closed"
          BY <1>9, <4>1 DEF Dialing
        <5> QED
          BY <1>9, <5>2 DEF Going, Asking, Talking
      <4>2. CASE Established(w.proxy)
        BY <1>9, <4>2
      <4> QED
        BY <1>1, <4>1, <4>2
    <3>4. Running(x)
      <4>1. Going(x, <<>>, <<>>) /\ Stays(u, x) /\ Established(u.local)
        BY <1>1, <1>12, <3>2
      <4> QED
        BY <3>3, <4>1, StillRunning, Zenon
    <3>5. u.status = "Connected" => w.proxy.status = "Connected"
      BY <1>1, <1>9 DEF Dialing, Established
    <3>6. LocalInput(w, x)
      BY <1>9, <1>12, <3>2, <3>5 DEF LocalInput, TouchesFile, TouchesProxy
    <3> QED
      BY <2>2, <3>4, <3>6
  <2> QED
    BY <2>1, <2>2
<1> QED
  BY <1>10, <1>11, <1>12

\* A dispatch of the proxy's connection.
LEMMA InputProxyLaw ==
  ASSUME NEW w, Running(w), w.proxy.status = "Connected", NEW v \in HandleInput(w, "proxy")
  PROVE  Over(v) \/ (Running(v) /\ ProxyInput(w, v))
<1> DEFINE r    == Receive(w.proxy, w.errno, Len(w.net.in.proxy), w.net.end.proxy)
           data == SubSeq(w.net.in.proxy, 1, r.n)
           f    == w.net.fault \cup (IF r.status = "Error" THEN {"proxy"} ELSE {})
           u    == [w EXCEPT !.proxy.status = r.status, !.errno = r.errno,
                             !.net.in.proxy = SubSeq(@, r.n + 1, Len(@)), !.net.fault = f]
           us   == IF r.n > 0 /\ w.proxy.handler THEN OnRecvProxy(u, data) ELSE {u}
<1>1. /\ Sane(w) /\ w.place = "active" /\ Established(w.local) /\ Established(w.proxy)
      /\ w \in Worlds /\ w.net \in Nets /\ w.net.in.proxy \in Seq(Int)
  BY AskedUp, StreamTypes DEF Running, Going, Dialing
<1>2. /\ w.proxy.handler /\ w.errno \in Errno
      /\ Len(w.net.in.proxy) \in Nat /\ w.net.end.proxy \in Ends /\ w.net.fault \in SUBSET Sides
  <2> HIDE DEF r, data, f, u, us
  <2>1. w.proxy.handler /\ w.errno \in Errno
    BY <1>1 DEF Established, Worlds
  <2>2. w.net.end.proxy \in Ends /\ w.net.fault \in SUBSET Sides
    BY <1>1 DEF Nets
  <2>3. Len(w.net.in.proxy) \in Nat
    BY <1>1
  <2> QED
    BY <2>1, <2>2, <2>3
<1>3. PICK x \in us : v \in AfterRecv(x, "proxy")
  <2>1. u = [w EXCEPT !["proxy"].status = r.status, !.errno = r.errno,
                      !.net.in["proxy"] = SubSeq(@, r.n + 1, Len(@)),
                      !.net.fault = @ \cup (IF r.status = "Error" THEN {"proxy"} ELSE {})]
    BY <1>1 DEF Worlds, Nets
  <2> QED
    BY <2>1 DEF HandleInput, OnRecv
<1>4. r.n \in 0 .. Len(w.net.in.proxy) /\ r.status \in {"Connected", "Closed", "Error"} /\ r.errno \in Errno
  BY <1>2, ReceiveLaw
<1>5. f \in SUBSET Sides
  BY <1>2 DEF Sides
<1>6. r.n = 0 => data = <<>>
  BY <1>1
<1>7. r.n > 0 => data \in Chunk
  <2>1. data \in Seq(Int) /\ Len(data) = r.n /\ r.n \in Nat
    BY <1>1, <1>4, SMTT(30)
  <2> HIDE DEF data, r, u, f, us
  <2>2. r.n > 0 => data # <<>>
    BY <2>1
  <2> QED
    BY <2>1, <2>2, SMTT(30) DEF Chunk, Byte
<1>8. HeardProxy(w, r.status, data, u)
  <2> HIDE DEF r, f
  <2> QED
    BY <1>4, <1>5, HeardProxyLaw
<1> HIDE DEF r, f, u, data
<1>9. /\ Going(u, <<>>, data) /\ u.local = w.local /\ u.cache = w.cache /\ u.status = w.status
      /\ ~ Dialing(u)
      /\ u.proxy.status = r.status /\ (r.status = "Connected" => u.proxy = w.proxy)
  BY <1>8, Zenon DEF HeardProxy, Heard
<1>10. \/ Over(x)
       \/ Going(x, <<>>, <<>>) /\ Stays(u, x) /\ ProxyInput(u, x)
  <2>1. CASE r.n > 0
    <3>1. x \in OnRecvProxy(u, data) /\ data \in Chunk /\ Established(u.local)
      BY <1>1, <1>2, <1>3, <1>7, <1>9, <2>1
    <3> QED
      BY <1>9, <3>1, OnRecvProxyLaw, Zenon DEF ProxyInput
  <2>2. CASE ~ (r.n > 0)
    <3>1. x = u /\ data = <<>>
      BY <1>3, <1>4, <1>6, <2>2
    <3>2. Going(u, <<>>, <<>>)
      BY <1>9, <3>1, SMTT(30)
    <3>3. u.local.handler /\ u.proxy.handler
      BY <3>2 DEF Going, Dialing, Asking, Talking, Able, Established, Doomed
    <3>4. Stays(u, u) /\ ProxyInput(u, u)
      BY <3>3 DEF Stays, Keeps, ProxyInput, TouchesProxy, SameSocket, Rewatched
    <3> QED
      BY <3>1, <3>2, <3>4
  <2> QED
    BY <2>1, <2>2
<1>11. CASE Over(x)
  <2>1. v = x
    BY <1>3, <1>11, AfterOver DEF Sides
  <2> QED
    BY <1>11, <2>1
<1>12. CASE Going(x, <<>>, <<>>) /\ Stays(u, x) /\ ProxyInput(u, x)
  <2>1. Over(v) \/ (v = x /\ x.proxy.status \notin {"Closed", "Error"})
    BY <1>3, <1>12, AfterProxy
  <2>2. CASE v = x /\ x.proxy.status \notin {"Closed", "Error"}
    <3>1. r.status = "Connected"
      BY <1>4, <1>9, <1>12, <2>2 DEF Stays, Keeps
    <3>2. u.local = w.local /\ u.proxy = w.proxy
      BY <1>9, <3>1
    <3>3. Running(x)
      <4>1. Going(x, <<>>, <<>>) /\ Stays(u, x) /\ Established(u.local) /\ Established(u.proxy)
        BY <1>1, <1>12, <3>2
      <4> QED
        BY <4>1, StillRunning, Zenon
    <3>4. ProxyInput(w, x)
      BY <1>9, <1>12, <3>2 DEF ProxyInput, TouchesProxy, TouchesLocal
    <3> QED
      BY <2>2, <3>3, <3>4
  <2> QED
    BY <2>1, <2>2
<1> QED
  BY <1>10, <1>11, <1>12

-----------------------------------------------------------------------------
(* handleOutputNotification() of a connection that is established.         *)

\* Something may be written to a proxy that has been reached.
LEMMA FlushedUp ==
  ASSUME NEW w, Running(w), ~ Dialing(w), NEW v, SentUp(w, <<>>, v)
  PROVE  Running(v) /\ TouchesProxy(w, v)
<1>1. /\ Sane(w) /\ w.handler /\ w.place = "active" /\ Established(w.local) /\ Established(w.proxy)
      /\ Asking(w, <<>>) \/ Talking(w, <<>>)
      /\ UpFlow(w, <<>>)
  BY Zenon DEF Running, Going
<1>2. /\ Sane(v) /\ Established(v.proxy) /\ v.local = w.local /\ v.cache = w.cache
      /\ v.status = w.status /\ v.header = w.header /\ v.handler = w.handler /\ v.place = w.place
      /\ v.net.in = w.net.in /\ v.net.client = w.net.client /\ v.net.server = w.net.server
      /\ v.net.answer = w.net.answer /\ v.net.ok = w.net.ok /\ v.net.session = w.net.session /\ v.net.badDisk = w.net.badDisk
      /\ v.net.down = w.net.down
      /\ v.net.up \o v.proxy.pending = (w.net.up \o w.proxy.pending) \o <<>>
  BY Zenon DEF SentUp, ByProxy, SameRest
<1>3. v.net.up \o v.proxy.pending = w.net.up \o w.proxy.pending
  BY <1>1, <1>2, StreamTypes, IntJoin
<1>4. FromClient(v.net) = FromClient(w.net) /\ FromServer(v.net) = FromServer(w.net)
  BY <1>2, Zenon DEF FromClient, FromServer
<1>5. UpFlow(v, <<>>)
  <2>1. SameFlow(w, <<>>, v, <<>>)
    BY <1>2, <1>3, <1>4, Zenon DEF SameFlow, Stream, Given, Lead
  <2> QED
    BY <1>1, <2>1, FlowSame
<1>6. Able(v.proxy) /\ Able(v.local)
  BY <1>1, <1>2, Zenon DEF Able
<1>7. Asking(v, <<>>) \/ Talking(v, <<>>)
  <2>1. CASE Asking(w, <<>>)
    <3>1. Answered(w.header \o (<<>> \o w.net.in.proxy), w.net)
      BY <2>1, Zenon DEF Asking
    <3>2. Answered(v.header \o (<<>> \o v.net.in.proxy), v.net)
      BY <1>2, <1>4, <3>1, AnsweredSame
    <3> QED
      BY <1>2, <1>6, <2>1, <3>2, Zenon DEF Asking
  <2>2. CASE Talking(w, <<>>)
    BY <1>2, <1>4, <1>6, <2>2, Zenon DEF Talking
  <2> QED
    BY <1>1, <2>1, <2>2
<1>8. Running(v)
  BY <1>1, <1>2, <1>5, <1>6, <1>7, Zenon DEF Running, Going
<1>9. TouchesProxy(w, v)
  BY <1>1, <1>2 DEF TouchesProxy, SameSocket, Rewatched, Established
<1> QED
  BY <1>8, <1>9

\* A dispatch of the proxy's connection.
LEMMA OutputProxyLaw ==
  ASSUME NEW w, Running(w), w.proxy.status = "Connected",
         NEW r \in FlushWritable(w.proxy, w.errno), NEW v, v = AfterProxyWrite(w, r)
  PROVE  Over(v) \/ (Running(v) /\ TouchesProxy(w, v))
<1>1. ~ Dialing(w)
  BY DEF Dialing
<1>2. Sane(w) /\ w.handler /\ Established(w.proxy) /\ w.errno \in Errno
  BY <1>1 DEF Running, Going, Sane, Worlds
<1>3. Wrote(w.proxy, <<>>, r)
  BY <1>2, FlushWritableSound
<1>4. MayGo(w, <<>>)
  <2>1. Len(w.net.up) \in Nat /\ Len(w.proxy.pending) \in Nat /\ Len(<<>>) = 0
    BY <1>2, StreamTypes
  <2>2. \A x, y, z : x \in Nat /\ y \in Nat /\ z = 0 => x + y + z = x + y
    OBVIOUS
  <2>3. Len(w.net.up) + Len(w.proxy.pending) + Len(<<>>) = Len(w.net.up) + Len(w.proxy.pending)
    BY <2>1, <2>2, Zenon
  <2> QED
    BY <1>2, <2>3 DEF Sane, Asked, MayGo
<1>5. <<>> \in Seq(Int)
  OBVIOUS
<1>6. Failed(w, v) \/ SentUp(w, <<>>, v)
  BY <1>2, <1>3, <1>4, <1>5, ProxyWriteLaw
<1>7. CASE Failed(w, v)
  BY <1>2, <1>7 DEF Failed, Over
<1>8. CASE SentUp(w, <<>>, v)
  BY <1>1, <1>8, FlushedUp
<1> QED
  BY <1>6, <1>7, <1>8

\* A dispatch of the client's connection.
LEMMA OutputLocalLaw ==
  ASSUME NEW w, Running(w), w.local.wr, NEW r \in FlushWritable(w.local, w.errno),
         NEW v \in AfterLocalWrite(w, r)
  PROVE  Over(v) \/ (Running(v) /\ TouchesLocal(w, v))
<1>1. /\ Sane(w) /\ w.handler /\ w.place = "active" /\ Established(w.local)
      /\ w.errno \in Errno /\ w.local.pending # <<>>
  BY DEF Running, Going, Sane, Worlds, Established
<1>2. Talking(w, <<>>) /\ ~ Dialing(w) /\ Established(w.proxy) /\ UpFlow(w, <<>>) /\ Able(w.proxy)
  BY <1>1 DEF Running, Going, Dialing, Asking, Able
<1>3. Wrote(w.local, <<>>, r)
  BY <1>1, FlushWritableSound
<1>4. Losable(w)
  BY <1>1, <1>2 DEF Losable
<1>5. <<>> \in Seq(Int)
  OBVIOUS
<1>6. Over(v) \/ SentDown(w, <<>>, v)
  BY <1>1, <1>3, <1>4, <1>5, LocalWriteLaw
<1> SUFFICES ASSUME SentDown(w, <<>>, v)
             PROVE  Running(v) /\ TouchesLocal(w, v)
  BY <1>6
<1>7. /\ Sane(v) /\ Established(v.local) /\ v.proxy = w.proxy /\ v.cache = w.cache /\ v.net.up = w.net.up
      /\ v.status = w.status /\ v.header = w.header /\ v.handler = w.handler /\ v.place = w.place
      /\ v.net.in = w.net.in /\ v.net.client = w.net.client /\ v.net.server = w.net.server
      /\ v.net.answer = w.net.answer /\ v.net.session = w.net.session /\ v.net.badDisk = w.net.badDisk
      /\ v.net.down \o v.local.pending = (w.net.down \o w.local.pending) \o <<>>
  BY Zenon DEF SentDown, ByLocal, SameRest
<1>8. FromServer(v.net) = FromServer(w.net) /\ FromClient(v.net) = FromClient(w.net)
  BY <1>7, Zenon DEF FromServer, FromClient
<1>9. Talking(v, <<>>)
  <2> DEFINE s == Server(w.header)
             i == w.net.in.proxy
  <2>1. /\ s \in Seq(Int) /\ i \in Seq(Int)
        /\ w.net.down \in Seq(Int) /\ w.local.pending \in Seq(Int)
        /\ v.net.down \in Seq(Int) /\ v.local.pending \in Seq(Int)
    BY <1>1, <1>7, StreamTypes, ServerLaws
  <2>2. ((s \o w.net.down) \o w.local.pending) \o (<<>> \o i) = FromServer(w.net) /\ AllServer(<<>> \o i)
    BY <1>2, Zenon DEF Talking
  <2>3. v.net.in.proxy = i /\ Server(v.header) = s
    BY <1>7
  <2> HIDE DEF s, i
  <2>4. ((s \o v.net.down) \o v.local.pending) \o (<<>> \o i)
          = ((s \o w.net.down) \o w.local.pending) \o (<<>> \o i)
    <3>1. Moves(s, w.net.down, w.local.pending, <<>>, i, v.net.down, v.local.pending)
      BY <1>5, <2>1, MovesDown, Zenon
    <3> QED
      BY <1>7, <3>1, Zenon DEF Moves
  <2> QED
    BY <1>2, <1>7, <1>8, <2>2, <2>3, <2>4, Zenon DEF Talking
<1>10. UpFlow(v, <<>>)
  <2>1. SameFlow(w, <<>>, v, <<>>)
    BY <1>7, <1>8, Zenon DEF SameFlow, Stream, Given, Lead
  <2> QED
    BY <1>2, <2>1, FlowSame
<1>11. Running(v)
  BY <1>1, <1>2, <1>7, <1>9, <1>10, Zenon DEF Running, Going, Able
<1>12. TouchesLocal(w, v)
  BY <1>1, <1>7 DEF TouchesLocal, SameSocket, Rewatched, Established
<1> QED
  BY <1>11, <1>12

-----------------------------------------------------------------------------
(* The beginning of a session.                                             *)

\* The proxy has been reached, and nothing has been exchanged with it.
Poised(u) ==
  /\ Sane(u) /\ Established(u.local) /\ Established(u.proxy)
  /\ u.status = "Connecting" /\ u.header = <<>>
  /\ u.local.pending = <<>> /\ u.proxy.pending = <<>> /\ u.net.up = <<>> /\ u.net.down = <<>>
  /\ u.net.in.proxy = <<>> /\ u.net.server = 0 /\ u.net.answer = 0
  /\ Theirs(Cached(u.cache) \o u.net.in.local, u.net)

\* It has been sent the request.
Awaiting(v) ==
  /\ Sane(v) /\ Established(v.local) /\ Established(v.proxy)
  /\ Asking(v, <<>>) /\ UpFlow(v, <<>>)

\* Nothing has been answered.
LEMMA NotAnswered ==
  ASSUME NEW n \in Nets, n.server = 0, n.answer = 0
  PROVE  Answered(<<>> \o (<<>> \o <<>>), n)
<1>1. <<>> \o (<<>> \o <<>>) = <<>> /\ Len(<<>>) = 0
  OBVIOUS
<1>2. Server(<<>>) = FromServer(n)
  BY WrittenLaw, ServerLaws
<1>3. Answered(<<>>, n)
  BY <1>1, <1>2 DEF Answered
<1> QED
  BY <1>1, <1>3

\* onConnected() of the proxy's connection sends it.
LEMMA AskLaw ==
  ASSUME NEW u, Poised(u), NEW v \in SendProxy(u, Request)
  PROVE  \/ Failed(u, v)
         \/ /\ Awaiting(v) /\ v.local = u.local /\ v.cache = u.cache
            /\ v.handler = u.handler /\ v.place = u.place
<1>1. Sane(u) /\ Established(u.local) /\ Established(u.proxy)
  BY DEF Poised
<1>2. Request \in Seq(Int) /\ Request # <<>> /\ Len(Request) = 2
  BY DEF Request, ConnectLine, BlankLine
<1>3. MayGo(u, Request)
  BY <1>2 DEF MayGo, Poised
<1>4. Failed(u, v) \/ SentUp(u, Request, v)
  BY <1>1, <1>2, <1>3, SendProxyLaw
<1> SUFFICES ASSUME SentUp(u, Request, v)
             PROVE  /\ Awaiting(v) /\ v.local = u.local /\ v.cache = u.cache
                    /\ v.handler = u.handler /\ v.place = u.place
  BY <1>4
<1>5. /\ Sane(v) /\ Established(v.proxy) /\ v.local = u.local /\ v.cache = u.cache
      /\ v.status = "Connecting" /\ v.header = <<>> /\ v.handler = u.handler /\ v.place = u.place
      /\ v.net.in = u.net.in /\ v.net.client = u.net.client /\ v.net.session = u.net.session /\ v.net.badDisk = u.net.badDisk
      /\ v.net.server = 0 /\ v.net.answer = 0 /\ v.net.in.proxy = <<>>
      /\ v.net.down = <<>> /\ v.local.pending = <<>>
      /\ v.net.up \o v.proxy.pending = (<<>> \o <<>>) \o Request
  BY Zenon DEF SentUp, ByProxy, SameRest, Poised
<1>6. v.net \in Nets
  BY <1>5, AskedUp
<1>7. Asking(v, <<>>)
  <2>1. Answered(v.header \o (<<>> \o v.net.in.proxy), v.net)
    BY <1>5, <1>6, NotAnswered
  <2>2. ~ Contains(v.header, BlankLine)
    BY <1>5 DEF Contains
  <2>3. Able(v.proxy)
    BY <1>5 DEF Able
  <2> QED
    BY <1>5, <2>1, <2>2, <2>3, Zenon DEF Asking
<1>8. UpFlow(v, <<>>)
  <2> DEFINE c == Cached(u.cache)
             i == u.net.in.local
  <2>1. c \in Seq(Int) /\ i \in Seq(Int) /\ Theirs(c \o i, u.net)
    BY <1>1, StreamTypes DEF Poised
  <2>2. FromClient(v.net) = FromClient(u.net)
    BY <1>5, Zenon DEF FromClient
  <2>3. Given(v) = Request
    BY <1>2, <1>5 DEF Given
  <2>4. Cached(v.cache) = c /\ v.net.in.local = i
    BY <1>5
  <2>5. Lead(v) = Request
    BY <1>5 DEF Lead
  <2> HIDE DEF c, i
  <2>6. <<>> \o i = i
    BY <2>1, IntJoin
  <2>7. (Request \o c) \o i = Request \o (c \o i)
    <3>1. Regroups(Request, c, i)
      BY <1>2, <2>1, Regroup
    <3> QED
      BY <3>1, Zenon DEF Regroups
  <2>8. Theirs(c \o i, v.net)
    BY <1>5, <2>1, <2>2, Zenon DEF Theirs
  <2>9. Stream(v, <<>>) = Lead(v) \o (c \o i)
    BY <2>3, <2>4, <2>5, <2>6, <2>7, Zenon DEF Stream
  <2> QED
    BY <2>3, <2>5, <2>8, <2>9, Zenon DEF UpFlow
<1> QED
  BY <1>1, <1>5, <1>7, <1>8, Zenon DEF Awaiting

\* With its handler, and among the active ones, the tunnel runs.
LEMMA AwaitingRuns ==
  ASSUME NEW v, Awaiting(v), v.handler, v.place = "active"
  PROVE  Running(v)
BY Zenon DEF Awaiting, Running, Going, Able

Posing(w, u) ==
  Poised(u) /\ u.local = w.local /\ u.cache = w.cache /\ u.handler = w.handler /\ u.place = w.place

\* The phase of the request.
LEMMA PoisedLaw ==
  ASSUME NEW w, NEW u, u = [w EXCEPT !.status = "Connecting", !.header = <<>>],
         Sane(w), Established(w.local), Established(w.proxy),
         w.local.pending = <<>>, w.proxy.pending = <<>>, w.net.up = <<>>, w.net.down = <<>>,
         w.net.in.proxy = <<>>, w.net.server = 0, w.net.answer = 0,
         Theirs(Cached(w.cache) \o w.net.in.local, w.net)
  PROVE  Posing(w, u)
<1>1. w \in Worlds /\ <<>> \in Seq(Int) /\ Len(<<>>) = 0 /\ HeaderRoom \in Nat
  BY TunnelAssumption DEF Sane
<1>2. /\ u \in Worlds /\ u.local = w.local /\ u.proxy = w.proxy /\ u.cache = w.cache /\ u.net = w.net
      /\ u.status = "Connecting" /\ u.header = <<>> /\ u.handler = w.handler /\ u.place = w.place
  BY <1>1 DEF Worlds
<1>3. Asked(u)
  <2>1. Len(u.header) <= HeaderRoom
    BY <1>1, <1>2
  <2>2. u.status # "Connected"
    BY <1>2
  <2> QED
    BY <1>2, <2>1, <2>2, Zenon DEF Sane, Asked
<1>4. Sane(u)
  BY <1>2, <1>3, Zenon DEF Sane
<1> QED
  BY <1>2, <1>4, Zenon DEF Poised, Posing

\* connect() has an outcome.
Opened(w, v) ==
  /\ SameSocket(w.local, v.local) /\ v.cache.file.open = w.cache.file.open
  /\ v.proxy.status = "Connected" /\ v.proxy.rd

\* It is good.
LEMMA ConnectedLaw ==
  ASSUME NEW w, Running(w), w.proxy.status = "Connecting",
         NEW x, x = [w EXCEPT !.proxy = ConnectResolved(@, TRUE)],
         NEW v \in OnConnectedProxy(x)
  PROVE  Over(v) \/ (Running(v) /\ Opened(w, v))
<1> DEFINE c == ConnectResolved(w.proxy, TRUE)
           u == [x EXCEPT !.status = "Connecting", !.header = <<>>]
<1>1. Dialing(w) /\ Sane(w) /\ w.handler /\ w.place = "active" /\ Established(w.local) /\ UpFlow(w, <<>>)
  BY DEF Running, Going, Established
<1>2. w \in Worlds /\ w.proxy \in Connections /\ w.net \in Nets
  BY <1>1, AskedUp
<1>3. Established(c) /\ c.pending = <<>> /\ c \in Connections /\ Droppable(c)
  <2>1. /\ c \in Connections /\ c.open /\ c.status = "Connected" /\ c.handler /\ c.rd
        /\ ~ c.wr /\ c.pending = <<>> /\ c.ends = {}
    BY <1>1, <1>2 DEF ConnectResolved, Dialing, Connections, ConnStatus
  <2> HIDE DEF c
  <2>2. PacketsOK(c)
    BY <2>1 DEF PacketsOK
  <2> QED
    BY <2>1, <2>2 DEF Established, Droppable
<1>4. x = [w EXCEPT !.proxy = c]
  BY <1>2 DEF Worlds
<1> HIDE DEF c
<1>5. /\ x \in Worlds /\ x.proxy = c /\ x.local = w.local /\ x.cache = w.cache /\ x.net = w.net
      /\ x.status = w.status /\ x.header = w.header /\ x.handler = w.handler /\ x.place = w.place
  BY <1>2, <1>3, <1>4 DEF Worlds
<1>6. Sane(x)
  <2>1. x.proxy.pending = w.proxy.pending
    BY <1>1, <1>3, <1>5 DEF Dialing
  <2>2. Asked(x)
    BY <1>1, <1>5, <2>1, Zenon DEF Sane, Asked
  <2> QED
    BY <1>1, <1>3, <1>5, <2>2, Zenon DEF Sane
<1>7. Theirs(Cached(w.cache) \o w.net.in.local, w.net)
  <2> DEFINE k == Cached(w.cache)
             i == w.net.in.local
  <2>1. k \in Seq(Int) /\ i \in Seq(Int)
    BY <1>1, <1>2, StreamTypes
  <2>2. PICK f : Theirs(f, w.net) /\ ((<<>> \o <<>>) \o k) \o (<<>> \o i) = <<>> \o f
    BY <1>1 DEF UpFlow, Dialing, Stream, Given, Lead
  <2> HIDE DEF k, i
  <2>3. <<>> \o <<>> = <<>> /\ f \in Seq(Int)
    BY <2>2 DEF Theirs, Own
  <2>4. <<>> \o i = i /\ <<>> \o k = k /\ <<>> \o f = f
    BY <2>1, <2>3, IntJoin
  <2>5. k \o i = f
    BY <2>2, <2>3, <2>4, Zenon
  <2> QED
    BY <2>2, <2>5 DEF k, i
<1>8. v \in SendProxy(u, Request)
  BY DEF OnConnectedProxy
<1> HIDE DEF u
<1>9. Poised(u) /\ u.local = w.local /\ u.cache = w.cache /\ u.handler = w.handler /\ u.place = w.place
  <2>1. u = [x EXCEPT !.status = "Connecting", !.header = <<>>]
    BY DEF u
  <2>2. /\ x.local.pending = <<>> /\ x.proxy.pending = <<>> /\ x.net.up = <<>> /\ x.net.down = <<>>
        /\ x.net.in.proxy = <<>> /\ x.net.server = 0 /\ x.net.answer = 0
    BY <1>1, <1>3, <1>5, Zenon DEF Dialing
  <2>3. Established(x.local) /\ Established(x.proxy)
    BY <1>1, <1>3, <1>5
  <2>4. Theirs(Cached(x.cache) \o x.net.in.local, x.net)
    BY <1>5, <1>7
  <2>5. Posing(x, u)
    BY <1>6, <2>1, <2>2, <2>3, <2>4, PoisedLaw, Zenon
  <2> QED
    BY <1>5, <2>5, Zenon DEF Posing
<1>10. \/ Failed(u, v)
       \/ /\ Awaiting(v) /\ v.local = u.local /\ v.cache = u.cache
          /\ v.handler = u.handler /\ v.place = u.place
  BY <1>8, <1>9, AskLaw
<1>11. CASE Failed(u, v)
  BY <1>1, <1>9, <1>11 DEF Failed, Over
<1>12. CASE /\ Awaiting(v) /\ v.local = u.local /\ v.cache = u.cache
            /\ v.handler = u.handler /\ v.place = u.place
  <2>1. Running(v)
    BY <1>1, <1>9, <1>12, AwaitingRuns
  <2>2. Opened(w, v)
    BY <1>9, <1>12 DEF Opened, SameSocket, Awaiting, Established
  <2> QED
    BY <2>1, <2>2
<1> QED
  BY <1>10, <1>11, <1>12

\* It is not.
LEMMA RefusedLaw ==
  ASSUME NEW w, Running(w), w.proxy.status = "Connecting",
         NEW x, x = [w EXCEPT !.proxy = ConnectResolved(@, FALSE)],
         NEW v, v = OnErrorProxy([x EXCEPT !.errno = "OTHER", !.net.fault = {"proxy"}])
  PROVE  Ended(v)
<1> DEFINE c == ConnectResolved(w.proxy, FALSE)
           n == [w.net EXCEPT !.fault = {"proxy"}]
           u == [x EXCEPT !.errno = "OTHER", !.net.fault = {"proxy"}]
<1>1. Dialing(w) /\ Sane(w) /\ w.handler
  BY DEF Running, Going, Established
<1>2. w \in Worlds /\ w.proxy \in Connections /\ w.net \in Nets
  BY <1>1, AskedUp
<1>3. c \in Connections /\ Droppable(c) /\ c.pending = w.proxy.pending
  <2>1. c \in Connections /\ c.open /\ c.pending = w.proxy.pending
    BY <1>1, <1>2 DEF ConnectResolved, Unwatched, Dialing, Connections, ConnStatus
  <2> QED
    BY <2>1 DEF Droppable
<1>4. n \in Nets /\ n.up = w.net.up /\ n.ok = w.net.ok
  BY <1>2 DEF Nets, Sides
<1>5. u = [w EXCEPT !.proxy = c, !.errno = "OTHER", !.net = n]
  BY <1>2 DEF Worlds, Nets
<1> HIDE DEF c, n, u
<1>6. /\ u \in Worlds /\ u.proxy = c /\ u.local = w.local /\ u.cache = w.cache /\ u.net = n
      /\ u.status = w.status /\ u.header = w.header /\ u.handler = w.handler /\ u.place = w.place
  BY <1>2, <1>3, <1>4, <1>5 DEF Worlds, Errno
<1>7. Sane(u)
  <2>1. Asked(u)
    BY <1>1, <1>3, <1>4, <1>6, Zenon DEF Sane, Asked
  <2> QED
    BY <1>1, <1>3, <1>6, <2>1, Zenon DEF Sane
<1>8. v = OnErrorProxy(u)
  BY DEF u
<1> QED
  BY <1>1, <1>6, <1>7, <1>8, OnErrorProxyLaw

-----------------------------------------------------------------------------
(* onAccept().                                                             *)

\* A tunnel that is not in use; one that ProxyClient counts on, but whose first
\* send has failed before it had its handler.
Idle(w) == Sane(w) /\ Quiet(w) /\ w.status = "Closed" /\ w.place \in {"free", "broken"}
Dead(w) == Sane(w) /\ Quiet(w) /\ w.handler /\ w.place = "active"

\* The connections of a new session.
LEMMA FreshLaw ==
  /\ \A c : c = [AcceptConnection(NewConnection) EXCEPT !.handler = TRUE] =>
       c \in Connections /\ Established(c) /\ c.pending = <<>> /\ ~ c.wr /\ Dropped(c) = NewConnection
  /\ \A c : c = [Connect(NewConnection, "now") EXCEPT !.handler = TRUE] =>
       c \in Connections /\ Established(c) /\ c.pending = <<>>
  /\ \A c : c = [Connect(NewConnection, "progress") EXCEPT !.handler = TRUE] =>
       /\ c \in Connections /\ c.open /\ c.handler /\ c.status = "Connecting"
       /\ c.wr /\ ~ c.rd /\ c.pending = <<>> /\ c.ends = {}
  /\ \A c : c = [Connect(NewConnection, "fail") EXCEPT !.handler = TRUE] =>
       WithoutHandler(c) = NewConnection
<1>1. NewConnection \in Connections /\ <<>> \in Seq(Byte) /\ Shutdown(NewConnection) = NewConnection
  BY NewIsBare, EmptySeq DEF Shutdown, NewConnection
<1>2. \A c : /\ c \in Connections /\ c.open /\ c.status = "Connected" /\ c.handler /\ c.rd
             /\ ~ c.wr /\ c.pending = <<>> /\ c.ends = {}
             => Established(c)
  BY DEF Established, PacketsOK
<1>3. ASSUME NEW c, c = [AcceptConnection(NewConnection) EXCEPT !.handler = TRUE]
      PROVE  c \in Connections /\ Established(c) /\ c.pending = <<>> /\ ~ c.wr /\ Dropped(c) = NewConnection
  <2>1. /\ c \in Connections /\ c.open /\ c.status = "Connected" /\ c.handler /\ c.rd
        /\ ~ c.wr /\ c.pending = <<>> /\ c.ends = {}
    BY <1>1, <1>3 DEF AcceptConnection, NewConnection, Connections, ConnStatus
  <2>2. Droppable(c)
    BY <2>1 DEF Droppable
  <2> QED
    BY <1>2, <2>1, <2>2, DropLaw
<1>4. ASSUME NEW c, c = [Connect(NewConnection, "now") EXCEPT !.handler = TRUE]
      PROVE  c \in Connections /\ Established(c) /\ c.pending = <<>>
  <2>0. Connect(NewConnection, "now")
          = [NewConnection EXCEPT !.open = TRUE, !.status = "Connected", !.rd = TRUE]
    BY <1>1 DEF Connect
  <2>1. /\ c \in Connections /\ c.open /\ c.status = "Connected" /\ c.handler /\ c.rd
        /\ ~ c.wr /\ c.pending = <<>> /\ c.ends = {}
    <3>1. <<>> \in Seq(Byte)
      BY <1>1
    <3> QED
      BY <1>4, <2>0, <3>1 DEF NewConnection, Connections, ConnStatus
  <2> QED
    BY <1>2, <2>1
<1>5. ASSUME NEW c, c = [Connect(NewConnection, "progress") EXCEPT !.handler = TRUE]
      PROVE  /\ c \in Connections /\ c.open /\ c.handler /\ c.status = "Connecting"
             /\ c.wr /\ ~ c.rd /\ c.pending = <<>> /\ c.ends = {}
  <2>0. Connect(NewConnection, "progress")
          = [NewConnection EXCEPT !.open = TRUE, !.status = "Connecting", !.wr = TRUE]
    BY <1>1 DEF Connect
  <2>1. <<>> \in Seq(Byte)
    BY <1>1
  <2> QED
    BY <1>5, <2>0, <2>1 DEF NewConnection, Connections, ConnStatus
<1>6. ASSUME NEW c, c = [Connect(NewConnection, "fail") EXCEPT !.handler = TRUE]
      PROVE  WithoutHandler(c) = NewConnection
  <2>1. Connect(NewConnection, "fail") = NewConnection
    BY <1>1 DEF Connect
  <2>2. c = [NewConnection EXCEPT !.handler = TRUE]
    BY <1>6, <2>1
  <2>3. /\ c \in Connections /\ ~ c.open /\ c.status = "Closed" /\ ~ c.rd /\ ~ c.wr
        /\ c.pending = <<>> /\ c.ends = {}
    <3>1. <<>> \in Seq(Byte)
      BY <1>1
    <3> QED
      BY <2>2, <3>1 DEF NewConnection, Connections, ConnStatus
  <2>4. Bare(WithoutHandler(c)) /\ ~ WithoutHandler(c).handler
    BY <2>3 DEF Bare, WithoutHandler, Connections
  <2> QED
    BY <2>4, NewIsBare
<1> QED
  BY <1>3, <1>4, <1>5, <1>6

\* The kernel and the peers of a new session.
LEMMA NewNetLaw ==
  ASSUME NEW s \in Nat, NEW n, n = NewNet(s)
  PROVE  /\ n \in Nets /\ n.in.local = <<>> /\ n.in.proxy = <<>> /\ n.up = <<>> /\ n.down = <<>>
         /\ n.client = 0 /\ n.server = 0 /\ n.answer = 0
         /\ FromClient(n) = <<>> /\ FromServer(n) = <<>> /\ Theirs(<<>>, n)
<1>1. <<>> \in Seq(Int)
  OBVIOUS
<1>2. /\ n \in Nets /\ n.in.local = <<>> /\ n.in.proxy = <<>> /\ n.up = <<>> /\ n.down = <<>>
      /\ n.client = 0 /\ n.server = 0 /\ n.answer = 0
  BY <1>1 DEF NewNet, Nets, Ends, Sides
<1>3. FromClient(n) = <<>> /\ FromServer(n) = <<>>
  BY <1>2, WrittenLaw
<1>4. IsInjective(<<>>)
  BY DEF IsInjective
<1>5. Theirs(<<>>, n)
  BY <1>1, <1>3, <1>4, Zenon DEF Theirs, Own
<1> QED
  BY <1>2, <1>3, <1>5

\* A quiet cache holds nothing.
LEMMA QuietCached ==
  ASSUME NEW w, Quiet(w)
  PROVE  Cached(w.cache) = <<>> /\ w.cache.file.open = FALSE
<1>1. Cached(w.cache) = Cached(NewCache)
  BY DEF Quiet, Cached, NewCache
<1> QED
  BY <1>1, NewCacheOK DEF Quiet, NoFile

\* The tunnel after acceptLocal(), with c and p for connections.
Accepting(w, c, p, n, a) ==
  /\ a \in Worlds /\ a.local = c /\ a.proxy = p /\ a.cache = w.cache /\ a.net = n
  /\ a.status = "Closed" /\ a.header = w.header /\ a.handler = w.handler /\ a.place = w.place

Accepted(w, c, p, n, a) == Accepting(w, c, p, n, a) /\ Sane(a) /\ w.net.session + 1 \in Nat

\* It is sane.
LEMMA AcceptingLaw ==
  ASSUME NEW w, Idle(w), NEW c \in Connections, NEW p \in Connections,
         Droppable(c), Droppable(p), p.pending = <<>>, NEW e \in Errno,
         NEW n, n = NewNet(w.net.session + 1),
         NEW a, a = [w EXCEPT !.local = c, !.status = "Closed", !.proxy = p, !.errno = e, !.net = n]
  PROVE  Accepted(w, c, p, n, a)
<1>1. w \in Worlds /\ w.net \in Nets /\ w.net.session + 1 \in Nat
  BY AskedUp DEF Idle, Nets
<1>2. n \in Nets /\ n.up = <<>>
  BY <1>1, NewNetLaw
<1>3. Accepting(w, c, p, n, a)
  <2> HIDE DEF NewNet
  <2>1. /\ a \in Worlds /\ a.local = c /\ a.proxy = p /\ a.cache = w.cache /\ a.net = n
        /\ a.status = "Closed" /\ a.header = w.header /\ a.handler = w.handler /\ a.place = w.place
    BY <1>1, <1>2 DEF Worlds
  <2> QED
    BY <2>1, Zenon DEF Accepting
<1>4. Asked(a)
  <2>1. Len(a.net.up) + Len(a.proxy.pending) <= Len(Request)
    <3>1. a.net.up = <<>> /\ a.proxy.pending = <<>>
      BY <1>2, <1>3 DEF Accepting
    <3>2. Len(<<>>) + Len(<<>>) <= Len(Request)
      BY DEF Request
    <3> QED
      BY <3>1, <3>2, Zenon
  <2>2. a.status # "Connected"
    BY <1>3 DEF Accepting
  <2> QED
    BY <1>3, <2>1, <2>2, Zenon DEF Asked, Accepting, Idle, Sane
<1>5. Sane(a)
  BY <1>3, <1>4, Zenon DEF Sane, Accepting, Idle
<1> QED
  BY <1>1, <1>3, <1>5, Zenon DEF Accepted

\* setHandler(), and the tunnel among the active ones, unless it has ended.
Activated(u, v) ==
  v = [u EXCEPT !.handler = TRUE, !.place = IF @ = "free" THEN "active" ELSE @]

Alive(u, v) ==
  /\ Sane(v) /\ v.handler /\ v.local = u.local /\ v.proxy = u.proxy /\ v.cache = u.cache
  /\ v.status = u.status /\ v.header = u.header /\ v.net = u.net
  /\ v.place = IF u.place = "free" THEN "active" ELSE u.place

\* What that leaves of a sane tunnel.
LEMMA ActivatedLaw ==
  ASSUME NEW u, Sane(u), NEW v, Activated(u, v)
  PROVE  Alive(u, v)
<1>1. u \in Worlds
  BY DEF Sane
<1> DEFINE p == IF u.place = "free" THEN "active" ELSE u.place
<1>2. p \in {"free", "active", "broken", "crashed"}
  BY <1>1 DEF Worlds
<1> HIDE DEF p
<1>3. v = [u EXCEPT !.handler = TRUE, !.place = p]
  BY <1>1 DEF Activated, Worlds, p
<1>4. /\ v \in Worlds /\ v.handler /\ v.local = u.local /\ v.proxy = u.proxy /\ v.cache = u.cache
      /\ v.status = u.status /\ v.header = u.header /\ v.net = u.net /\ v.place = p
  BY <1>1, <1>2, <1>3 DEF Worlds
<1>5. Asked(v)
  BY <1>4, Zenon DEF Sane, Asked
<1>6. Sane(v)
  BY <1>4, <1>5, Zenon DEF Sane
<1> QED
  BY <1>4, <1>6 DEF p, Alive

\* The client's socket is as accept() gave it.
Begun(v) ==
  /\ v.local.status = "Connected" /\ v.local.rd /\ ~ v.local.wr /\ v.cache.file.open = FALSE

\* connect() is done at once.
LEMMA AcceptNowLaw ==
  ASSUME NEW w, Idle(w), w.place = "free",
         NEW c, c = [AcceptConnection(w.local) EXCEPT !.handler = TRUE],
         NEW p, p = [Connect(w.proxy, "now") EXCEPT !.handler = TRUE],
         NEW a, a = [w EXCEPT !.local = c, !.status = "Closed", !.proxy = p, !.errno = w.errno,
                              !.net = NewNet(w.net.session + 1)],
         NEW u \in OnConnectedProxy(a), NEW v, Activated(u, v)
  PROVE  \/ w.handler /\ Ended(v)
         \/ ~ w.handler /\ Dead(v)
         \/ Running(v) /\ Begun(v) /\ v.proxy.status = "Connected" /\ v.proxy.rd
<1> DEFINE n == NewNet(w.net.session + 1)
           x == [a EXCEPT !.status = "Connecting", !.header = <<>>]
<1>1. w.local = NewConnection /\ w.proxy = NewConnection /\ Sane(w) /\ w.errno \in Errno
  BY DEF Idle, Quiet, Sane, Worlds
<1>2. /\ c \in Connections /\ Established(c) /\ c.pending = <<>> /\ ~ c.wr /\ Droppable(c)
      /\ p \in Connections /\ Established(p) /\ p.pending = <<>> /\ Droppable(p)
  BY <1>1, FreshLaw DEF Droppable, Established
<1>3. Accepting(w, c, p, n, a) /\ Sane(a) /\ w.net.session + 1 \in Nat
  <2> HIDE DEF NewNet, x
  <2>1. w.errno \in Errno
    BY <1>1
  <2>2. Accepted(w, c, p, NewNet(w.net.session + 1), a)
    BY <1>2, <2>1, AcceptingLaw
  <2> QED
    BY <2>2 DEF Accepted
<1>4. /\ n.in.local = <<>> /\ n.in.proxy = <<>> /\ n.up = <<>> /\ n.down = <<>>
      /\ n.server = 0 /\ n.answer = 0 /\ Theirs(<<>>, n)
  BY <1>3, NewNetLaw
<1> HIDE DEF n
<1>5. /\ a.local = c /\ a.proxy = p /\ a.cache = w.cache /\ a.net = n
      /\ a.handler = w.handler /\ a.place = "free"
  BY <1>3 DEF Accepting
<1>6. Theirs(Cached(a.cache) \o a.net.in.local, a.net) /\ w.cache.file.open = FALSE
  <2>1. Cached(w.cache) = <<>> /\ w.cache.file.open = FALSE
    BY QuietCached DEF Idle
  <2>2. <<>> \o <<>> = <<>>
    OBVIOUS
  <2> QED
    BY <1>4, <1>5, <2>1, <2>2
<1>7. u \in SendProxy(x, Request)
  BY DEF OnConnectedProxy
<1>8. x = [a EXCEPT !.status = "Connecting", !.header = <<>>]
  OBVIOUS
<1> HIDE DEF x
<1>9. Poised(x) /\ x.local = c /\ x.cache = w.cache /\ x.handler = w.handler /\ x.place = "free"
  <2>1. /\ a.local.pending = <<>> /\ a.proxy.pending = <<>> /\ a.net.up = <<>> /\ a.net.down = <<>>
        /\ a.net.in.proxy = <<>> /\ a.net.server = 0 /\ a.net.answer = 0
        /\ Established(a.local) /\ Established(a.proxy)
    BY <1>2, <1>4, <1>5
  <2>2. Posing(a, x)
    BY <1>3, <1>6, <1>8, <2>1, PoisedLaw, Zenon
  <2> QED
    BY <1>5, <2>2 DEF Posing
<1>10. \/ Failed(x, u)
       \/ /\ Awaiting(u) /\ u.local = x.local /\ u.cache = x.cache
          /\ u.handler = x.handler /\ u.place = x.place
  BY <1>7, <1>9, AskLaw
<1>11. CASE Failed(x, u)
  <2>1. CASE w.handler
    <3>1. Ended(u)
      BY <1>9, <1>11, <2>1 DEF Failed
    <3>2. /\ Sane(v) /\ v.handler /\ v.local = u.local /\ v.proxy = u.proxy /\ v.cache = u.cache
          /\ v.status = u.status /\ v.place = "broken"
      BY <3>1, ActivatedLaw DEF Ended, Alive
    <3> QED
      BY <2>1, <3>1, <3>2 DEF Ended, Quiet
  <2>2. CASE ~ w.handler
    <3>1. Sane(u) /\ Quiet(u) /\ u.place = "free"
      BY <1>9, <1>11, <2>2 DEF Failed
    <3>2. /\ Sane(v) /\ v.handler /\ v.local = u.local /\ v.proxy = u.proxy /\ v.cache = u.cache
          /\ v.place = "active"
      BY <3>1, ActivatedLaw DEF Alive
    <3> QED
      BY <2>2, <3>1, <3>2 DEF Dead, Quiet
  <2> QED
    BY <2>1, <2>2
<1>12. CASE /\ Awaiting(u) /\ u.local = x.local /\ u.cache = x.cache
            /\ u.handler = x.handler /\ u.place = x.place
  <2>1. Awaiting(u) /\ Sane(u) /\ u.local = c /\ u.cache = w.cache /\ u.place = "free"
    BY <1>9, <1>12 DEF Awaiting
  <2>2. /\ Sane(v) /\ v.handler /\ v.local = u.local /\ v.proxy = u.proxy /\ v.cache = u.cache
        /\ v.status = u.status /\ v.header = u.header /\ v.net = u.net /\ v.place = "active"
    BY <2>1, ActivatedLaw DEF Alive
  <2>3. Awaiting(v)
    <3>1. SameFlow(u, <<>>, v, <<>>)
      BY <2>2, Zenon DEF SameFlow, Stream, Given, Lead
    <3>2. UpFlow(v, <<>>)
      BY <2>1, <3>1, FlowSame DEF Awaiting
    <3> QED
      BY <2>1, <2>2, <3>2, Zenon DEF Awaiting, Asking
  <2>4. Running(v)
    BY <2>2, <2>3, AwaitingRuns
  <2>5. v.local = c /\ v.cache.file.open = FALSE
    BY <1>6, <2>1, <2>2
  <2>6. Begun(v)
    BY <1>2, <2>5 DEF Begun, Established
  <2> QED
    BY <2>3, <2>4, <2>6 DEF Awaiting, Established
<1> QED
  BY <1>10, <1>11, <1>12

\* connect() is in progress.
LEMMA AcceptProgressLaw ==
  ASSUME NEW w, Idle(w), w.place = "free",
         NEW c, c = [AcceptConnection(w.local) EXCEPT !.handler = TRUE],
         NEW p, p = [Connect(w.proxy, "progress") EXCEPT !.handler = TRUE],
         NEW a, a = [w EXCEPT !.local = c, !.status = "Closed", !.proxy = p, !.errno = "OTHER",
                              !.net = NewNet(w.net.session + 1)],
         NEW v, Activated(a, v)
  PROVE  Running(v) /\ Begun(v) /\ v.proxy.status = "Connecting" /\ v.proxy.wr /\ ~ v.proxy.rd
<1> DEFINE n == NewNet(w.net.session + 1)
<1>1. w.local = NewConnection /\ w.proxy = NewConnection /\ Sane(w) /\ "OTHER" \in Errno
  BY DEF Idle, Quiet, Errno
<1>2. /\ c \in Connections /\ Established(c) /\ c.pending = <<>> /\ ~ c.wr /\ Droppable(c)
      /\ p \in Connections /\ p.open /\ p.handler /\ p.status = "Connecting"
      /\ p.wr /\ ~ p.rd /\ p.pending = <<>> /\ p.ends = {} /\ Droppable(p)
  BY <1>1, FreshLaw DEF Droppable, Established
<1>3. Accepting(w, c, p, n, a) /\ Sane(a) /\ w.net.session + 1 \in Nat
  <2> HIDE DEF NewNet
  <2>1. Accepted(w, c, p, NewNet(w.net.session + 1), a)
    BY <1>1, <1>2, AcceptingLaw
  <2> QED
    BY <2>1 DEF Accepted
<1>4. /\ n.in.local = <<>> /\ n.in.proxy = <<>> /\ n.up = <<>> /\ n.down = <<>>
      /\ n.server = 0 /\ n.answer = 0 /\ Theirs(<<>>, n)
  BY <1>3, NewNetLaw
<1> HIDE DEF n
<1>5. /\ a.local = c /\ a.proxy = p /\ a.cache = w.cache /\ a.net = n
      /\ a.status = "Closed" /\ a.place = "free"
  BY <1>3 DEF Accepting
<1>6. /\ Sane(v) /\ v.handler /\ v.local = c /\ v.proxy = p /\ v.cache = w.cache
      /\ v.status = "Closed" /\ v.net = n /\ v.place = "active"
  <2>1. Sane(a)
    BY <1>3
  <2>2. /\ Sane(v) /\ v.handler /\ v.local = a.local /\ v.proxy = a.proxy /\ v.cache = a.cache
        /\ v.status = a.status /\ v.net = a.net
        /\ v.place = IF a.place = "free" THEN "active" ELSE a.place
    <3>1. Alive(a, v)
      BY <2>1, ActivatedLaw, Zenon
    <3> QED
      BY <3>1, Zenon DEF Alive
  <2> QED
    BY <1>5, <2>2, Zenon
<1>7. Dialing(v)
  BY <1>2, <1>4, <1>6, Zenon DEF Dialing
<1>8. Cached(v.cache) = <<>> /\ v.cache.file.open = FALSE
  <2>1. Cached(w.cache) = <<>> /\ w.cache.file.open = FALSE
    BY QuietCached, Zenon DEF Idle
  <2> QED
    BY <1>6, <2>1, Zenon
<1>9. UpFlow(v, <<>>)
  <2>1. <<>> \o <<>> = <<>>
    OBVIOUS
  <2>2. /\ v.net.up = <<>> /\ v.proxy.pending = <<>> /\ Cached(v.cache) = <<>>
        /\ v.net.in.local = <<>> /\ Theirs(<<>>, v.net)
    BY <1>2, <1>4, <1>6, <1>8, Zenon
  <2>3. Lead(v) = <<>>
    BY <1>6, Zenon DEF Lead
  <2>4. Given(v) = Lead(v) /\ Stream(v, <<>>) = Lead(v) \o <<>>
    BY <2>1, <2>2, <2>3, Zenon DEF Given, Stream
  <2> QED
    BY <2>2, <2>4, Zenon DEF UpFlow
<1>10. Running(v)
  BY <1>2, <1>6, <1>7, <1>9, Zenon DEF Running, Going, Able
<1>11. Begun(v)
  BY <1>2, <1>6, <1>8 DEF Begun, Established
<1> QED
  BY <1>2, <1>6, <1>10, <1>11

\* The client's connection is dropped again, and the tunnel kept among the broken ones.
Refused(u, v) ==
  v = [u EXCEPT !.local = Dropped(@), !.proxy = WithoutHandler(@), !.place = "broken"]

\* ... so that it is as good as before.
Rejected(w, v) == Idle(v) /\ v.place = "broken" /\ v.handler = w.handler

\* connect() fails.
LEMMA AcceptFailLaw ==
  ASSUME NEW w, Idle(w), w.place = "free",
         NEW c, c = [AcceptConnection(w.local) EXCEPT !.handler = TRUE],
         NEW p, p = [Connect(w.proxy, "fail") EXCEPT !.handler = TRUE],
         NEW a, a = [w EXCEPT !.local = c, !.status = "Closed", !.proxy = p, !.errno = "OTHER",
                              !.net = NewNet(w.net.session + 1)],
         NEW v, Refused(a, v)
  PROVE  Rejected(w, v)
<1> DEFINE n == NewNet(w.net.session + 1)
<1>1. /\ w.local = NewConnection /\ w.proxy = NewConnection /\ Sane(w) /\ "OTHER" \in Errno
      /\ w \in Worlds /\ w.net \in Nets
  BY AskedUp DEF Idle, Quiet, Errno
<1>2. Dropped(c) = NewConnection /\ WithoutHandler(p) = NewConnection
  BY <1>1, FreshLaw
<1>3. w.net.session + 1 \in Nat
  BY <1>1 DEF Nets
<1>4. n \in Nets /\ n.up = <<>>
  BY <1>3, NewNetLaw
<1> HIDE DEF n
<1>5. v = [w EXCEPT !.local = NewConnection, !.status = "Closed", !.proxy = NewConnection,
                    !.errno = "OTHER", !.net = n, !.place = "broken"]
  BY <1>1, <1>2, ZenonT(40) DEF Worlds, Refused, n
<1>6. /\ v \in Worlds /\ v.local = NewConnection /\ v.proxy = NewConnection /\ v.cache = w.cache
      /\ v.status = "Closed" /\ v.header = w.header /\ v.handler = w.handler /\ v.place = "broken"
      /\ v.net = n
  BY <1>1, <1>4, <1>5, NewIsBare DEF Worlds, Errno
<1>7. Sane(v)
  <2>1. Asked(v)
    <3>1. Len(v.net.up) + Len(v.proxy.pending) <= Len(Request)
      <4>1. v.net.up = <<>> /\ v.proxy.pending = <<>>
        BY <1>4, <1>6 DEF NewConnection
      <4>2. Len(<<>>) + Len(<<>>) <= Len(Request)
        BY DEF Request
      <4> QED
        BY <4>1, <4>2, Zenon
    <3>2. v.status # "Connected"
      BY <1>6
    <3> QED
      BY <1>1, <1>6, <3>1, <3>2, Zenon DEF Asked, Sane
  <2> QED
    BY <1>1, <1>6, <2>1, Zenon DEF Sane
<1>8. Quiet(v)
  BY <1>6 DEF Idle, Quiet
<1> QED
  BY <1>6, <1>7, <1>8 DEF Idle, Rejected

-----------------------------------------------------------------------------
(* The client, the proxy and the server.                                   *)

\* The tunnel with another net.
Netted(w, n, v) ==
  /\ Sane(v) /\ v.local = w.local /\ v.proxy = w.proxy /\ v.cache = w.cache /\ v.status = w.status
  /\ v.header = w.header /\ v.handler = w.handler /\ v.place = w.place /\ v.net = n

\* It is sane if nothing was sent and no answer was taken back.
LEMMA NetLaw ==
  ASSUME NEW w, Sane(w), NEW n \in Nets, n.up = w.net.up, w.net.ok => n.ok,
         NEW v, v = [w EXCEPT !.net = n]
  PROVE  Netted(w, n, v)
<1>1. /\ v \in Worlds /\ v.local = w.local /\ v.proxy = w.proxy /\ v.cache = w.cache
      /\ v.status = w.status /\ v.header = w.header /\ v.handler = w.handler /\ v.place = w.place
      /\ v.net = n
  BY DEF Sane, Worlds
<1>2. Asked(v)
  BY <1>1, Zenon DEF Sane, Asked
<1>3. Sane(v)
  BY <1>1, <1>2, Zenon DEF Sane
<1> QED
  BY <1>1, <1>3, Zenon DEF Netted

\* t at the end of both sides of an equation.
Lengthens(x, i, p, f, t) ==
  x \o (<<>> \o i) = p \o f => x \o (<<>> \o Append(i, t)) = p \o Append(f, t)

\* Append by concatenation.
LEMMA AppendIs ==
  \A q \in Seq(Int), t \in Int : Append(q, t) = q \o <<t>>
OBVIOUS

\* It is still one.
LEMMA Lengthen ==
  ASSUME NEW x \in Seq(Int), NEW i \in Seq(Int), NEW p \in Seq(Int), NEW f \in Seq(Int), NEW t \in Int
  PROVE  Lengthens(x, i, p, f, t)
<1> DEFINE s == <<t>>
<1>0. \A q \in Seq(Int) : Append(q, t) = q \o <<t>>
  BY AppendIs, Zenon
<1>00. \A q \in Seq(Int) : Append(q, t) \in Seq(Int)
  OBVIOUS
<1>1. /\ s \in Seq(Int) /\ Append(i, t) = i \o s /\ Append(f, t) = f \o s
      /\ Append(i, t) \in Seq(Int)
  <2>1. s \in Seq(Int)
    OBVIOUS
  <2> QED
    BY <1>0, <1>00, <2>1, Zenon
<1>2. <<>> \o i = i /\ <<>> \o Append(i, t) = Append(i, t)
  BY <1>1, IntJoin
<1> HIDE DEF s
<1>3. Regroups(x, i, s)
  BY <1>1, Regroup, Zenon
<1>4. Regroups(p, f, s)
  BY <1>1, Regroup, Zenon
<1> QED
  BY <1>1, <1>2, <1>3, <1>4, Zenon DEF Lengthens, Regroups

\* A token behind two sequences is behind the second.
LEMMA AppendJoin ==
  \A h, i \in Seq(Int), t \in Int : Append(h \o i, t) = h \o Append(i, t)
<1> SUFFICES ASSUME NEW h \in Seq(Int), NEW i \in Seq(Int), NEW t \in Int
             PROVE  Append(h \o i, t) = h \o Append(i, t)
  OBVIOUS
<1>1. \A q \in Seq(Int) : Append(q, t) = q \o <<t>>
  BY AppendIs, Zenon
<1>2. <<t>> \in Seq(Int)
  OBVIOUS
<1>3. Regroups(h, i, <<t>>)
  BY <1>2, Regroup
<1>4. h \o i \in Seq(Int)
  BY IntJoin
<1> QED
  BY <1>1, <1>3, <1>4, Zenon DEF Regroups

\* The client writes t.
FromWriter(n, t, m) ==
  /\ m \in Nets /\ m.in.proxy = n.in.proxy /\ m.in.local = Append(n.in.local, t)
  /\ m.up = n.up /\ m.down = n.down /\ m.client = n.client + 1 /\ m.server = n.server
  /\ m.answer = n.answer /\ m.ok = n.ok /\ m.session = n.session /\ m.badDisk = n.badDisk
  /\ t \in Int /\ n.in.local \in Seq(Int)
  /\ FromServer(m) = FromServer(n) /\ FromClient(m) = Append(FromClient(n), t)

\* What waits on the two connections, with another a on one of them.
LEMMA InboxLocal ==
  \A q \in [local : Seq(Int), proxy : Seq(Int)] :
    \A a : [q EXCEPT !.local = a] = [local |-> a, proxy |-> q.proxy]
OBVIOUS

\* The same for the other one.
LEMMA InboxProxy ==
  \A q \in [local : Seq(Int), proxy : Seq(Int)] :
    \A a : [q EXCEPT !.proxy = a] = [local |-> q.local, proxy |-> a]
OBVIOUS

\* It is one byte of its stream.
LEMMA ClientNetLaw ==
  ASSUME NEW n \in Nets, NEW t, t = ClientByte(n.session, n.client + 1),
         NEW m, m = [n EXCEPT !.client = @ + 1, !.in.local = Append(@, t)]
  PROVE  FromWriter(n, t, m)
<1>1. n.session \in Nat /\ n.client \in Nat /\ n.in.local \in Seq(Int) /\ n.in.proxy \in Seq(Int)
  BY DEF Nets
<1>2. n.client + 1 \in Nat \ {0}
  BY <1>1
<1>3. t \in Int
  BY <1>1, <1>2, TokensLaw
<1> DEFINE a == Append(n.in.local, t)
           b == [local |-> a, proxy |-> n.in.proxy]
           k == n.client + 1
<1>4. a \in Seq(Int)
  BY <1>1, <1>3
<1>5. m = [n EXCEPT !.client = k, !.in = b]
  <2>1. [n.in EXCEPT !.local = a] = b
    <3>1. n.in \in [local : Seq(Int), proxy : Seq(Int)]
      BY DEF Nets
    <3>2. [n.in EXCEPT !.local = a] = [local |-> a, proxy |-> n.in.proxy]
      BY <3>1, InboxLocal, Zenon
    <3> QED
      BY <3>2
  <2>2. m = [n EXCEPT !.client = k, !.in = [n.in EXCEPT !.local = a]]
    BY DEF Nets
  <2> QED
    BY <2>1, <2>2, Zenon
<1>6. b.local = a /\ b.proxy = n.in.proxy /\ b \in [local : Seq(Int), proxy : Seq(Int)] /\ k \in Nat
  BY <1>1, <1>2, <1>4
<1>7. a = Append(n.in.local, t) /\ k = n.client + 1
  OBVIOUS
<1> HIDE DEF a, b, k
<1>8. /\ m \in Nets /\ m.in = b
      /\ m.up = n.up /\ m.down = n.down /\ m.client = k /\ m.server = n.server
      /\ m.answer = n.answer /\ m.ok = n.ok /\ m.session = n.session /\ m.badDisk = n.badDisk
  BY <1>5, <1>6, ZenonT(40) DEF Nets
<1>9. FromServer(m) = FromServer(n)
  <2>1. m.server = n.server /\ m.session = n.session
    BY <1>8
  <2>2. \A q : q.server = n.server /\ q.session = n.session => FromServer(q) = FromServer(n)
    BY Zenon DEF FromServer
  <2> QED
    BY <2>1, <2>2, Zenon
<1>10. FromClient(m) = Append(FromClient(n), t)
  <2>1. m.client = n.client + 1 /\ m.session = n.session /\ m \in Nets
    BY <1>7, <1>8
  <2> QED
    BY <2>1, WrittenLaw
<1> QED
  BY <1>1, <1>3, <1>6, <1>7, <1>8, <1>9, <1>10, Zenon DEF FromWriter

\* One byte more is another byte.
LEMMA TheirsGrow ==
  ASSUME NEW n \in Nets, NEW m \in Nets, NEW t, t = ClientByte(n.session, n.client + 1),
         t \in Int, FromClient(m) = Append(FromClient(n), t), m.badDisk = n.badDisk,
         NEW s, Theirs(s, n)
  PROVE  Theirs(Append(s, t), m)
<1> DEFINE f == FromClient(n)
           g == Append(s, t)
           h == Append(f, t)
<1>1. f \in Seq(Int) /\ s \in Seq(Int) /\ n.client \in Nat
  BY WrittenLaw DEF Theirs, Own, Nets
<1>2. t \notin Range(f)
  <2>1. f = [k \in 1 .. n.client |-> ClientByte(n.session, k)]
    BY DEF FromClient
  <2> DEFINE b == (1 + MaxClient + MaxServer) * n.session
  <2>2. b \in Int
    <3>1. \A x, y \in Nat : x * y \in Nat
      OBVIOUS
    <3>2. n.session \in Nat
      BY Zenon DEF Nets
    <3>3. MaxClient \in Nat /\ MaxServer \in Nat
      BY TunnelAssumption
    <3>4. 1 + MaxClient + MaxServer \in Nat
      BY <3>3
    <3> QED
      BY <3>1, <3>2, <3>4
  <2>3. \A k : ClientByte(n.session, k) = 2 * (b + k)
    BY DEF ClientByte, Numbered
  <2> HIDE DEF b, f
  <2>4. \A k \in 1 .. n.client : 2 * (b + k) # 2 * (b + (n.client + 1))
    BY <1>1, <2>2
  <2>5. \A k \in 1 .. n.client : f[k] # t
    BY <2>1, <2>3, <2>4
  <2> QED
    BY <2>1, <2>5 DEF Range
<1>3. /\ Range(s) \subseteq Range(f) /\ IsInjective(s) /\ (~ n.badDisk => s = f)
  BY DEF Theirs, Own
<1> HIDE DEF f
<1>4. /\ g \in Seq(Int) /\ Len(g) = Len(s) + 1 /\ Len(s) \in Nat /\ g[Len(s) + 1] = t
      /\ \A k \in 1 .. Len(s) : g[k] = s[k]
      /\ DOMAIN g = 1 .. Len(g) /\ DOMAIN s = 1 .. Len(s)
  BY <1>1
<1>5. /\ Len(h) = Len(f) + 1 /\ Len(f) \in Nat /\ h[Len(f) + 1] = t
      /\ \A k \in 1 .. Len(f) : h[k] = f[k]
      /\ DOMAIN h = 1 .. Len(h) /\ DOMAIN f = 1 .. Len(f)
  BY <1>1
<1>6. m.badDisk = n.badDisk /\ FromClient(m) = h
  BY DEF f
<1>7. ~ n.badDisk => g = h
  BY <1>3
<1> HIDE DEF g, h
<1>8. \A k \in 1 .. Len(s) : s[k] # t
  BY <1>2, <1>3, <1>4 DEF Range
<1>9. IsInjective(g)
  BY <1>3, <1>4, <1>8, SMTT(30) DEF IsInjective
<1>10. Range(g) \subseteq Range(h)
  <2>1. Range(f) \subseteq Range(h) /\ t \in Range(h)
    BY <1>5 DEF Range
  <2>2. \A k \in DOMAIN g : g[k] \in Range(f) \/ g[k] = t
    <3> SUFFICES ASSUME NEW k \in DOMAIN g, k # Len(s) + 1 PROVE g[k] \in Range(f)
      BY <1>4
    <3>1. k \in DOMAIN s /\ g[k] = s[k]
      BY <1>4
    <3>2. s[k] \in Range(s)
      BY <3>1 DEF Range
    <3> QED
      BY <1>3, <3>1, <3>2
  <2> QED
    BY <2>1, <2>2 DEF Range
<1> QED
  BY <1>4, <1>6, <1>7, <1>9, <1>10, Zenon DEF Theirs, Own, g

\* A session goes on when the client writes.
LEMMA ClientWritesLaw ==
  ASSUME NEW w, Running(w), NEW t, t = ClientByte(w.net.session, w.net.client + 1),
         NEW m, m = [w.net EXCEPT !.client = @ + 1, !.in.local = Append(@, t)],
         NEW v, Netted(w, m, v)
  PROVE  Running(v)
<1>1. /\ Sane(w) /\ w.handler /\ w.place = "active" /\ Established(w.local) /\ Able(w.local)
      /\ Dialing(w) \/ Asking(w, <<>>) \/ Talking(w, <<>>)
      /\ Dialing(w) \/ Established(w.proxy)
      /\ UpFlow(w, <<>>)
  BY Zenon DEF Running, Going
<1>2. /\ m \in Nets /\ m.in.proxy = w.net.in.proxy /\ m.in.local = Append(w.net.in.local, t)
      /\ m.up = w.net.up /\ m.down = w.net.down /\ m.server = w.net.server
      /\ m.answer = w.net.answer /\ m.ok = w.net.ok /\ m.badDisk = w.net.badDisk
      /\ t \in Int /\ w.net.in.local \in Seq(Int)
      /\ FromServer(m) = FromServer(w.net) /\ FromClient(m) = Append(FromClient(w.net), t)
  <2>1. w.net \in Nets
    BY <1>1, AskedUp
  <2>2. FromWriter(w.net, t, m)
    BY <2>1, ClientNetLaw
  <2> QED
    BY <2>2, Zenon DEF FromWriter
<1>3. /\ Sane(v) /\ v.local = w.local /\ v.proxy = w.proxy /\ v.cache = w.cache /\ v.status = w.status
      /\ v.header = w.header /\ v.handler = w.handler /\ v.place = w.place /\ v.net = m
  BY Zenon DEF Netted
<1>4. UpFlow(v, <<>>)
  <2> DEFINE x == Given(w) \o Cached(w.cache)
             p == Lead(w)
             i == w.net.in.local
  <2>1. x \in Seq(Int) /\ i \in Seq(Int)
    <3>1. w.net.up \o w.proxy.pending \in Seq(Int) /\ Cached(w.cache) \in Seq(Int)
      BY <1>1, StreamTypes
    <3> QED
      BY <1>2, <3>1, IntJoin DEF Given
  <2>2. p \in Seq(Int)
    BY DEF Lead, Request, ConnectLine, BlankLine
  <2>3. PICK f : Theirs(f, w.net) /\ x \o (<<>> \o i) = p \o f
    BY <1>1, Zenon DEF UpFlow, Stream
  <2>4. f \in Seq(Int)
    BY <2>3 DEF Theirs, Own
  <2>5. Given(v) = Given(w) /\ Cached(v.cache) = Cached(w.cache) /\ v.net.in.local = Append(i, t)
    BY <1>2, <1>3, Zenon DEF Given
  <2>6. Lead(v) = p
    BY <1>3, Zenon DEF Lead
  <2>7. Stream(v, <<>>) = x \o (<<>> \o Append(i, t))
    BY <2>5, ZenonT(40) DEF Stream
  <2>8. Theirs(Append(f, t), m)
    <3>1. w.net \in Nets
      BY <1>1, AskedUp
    <3> QED
      BY <1>2, <2>3, <3>1, TheirsGrow, ZenonT(40)
  <2> HIDE DEF x, p, i
  <2>9. Lengthens(x, i, p, f, t)
    BY <1>2, <2>1, <2>2, <2>4, Lengthen
  <2>10. Stream(v, <<>>) = Lead(v) \o Append(f, t)
    BY <2>3, <2>6, <2>7, <2>9, ZenonT(40) DEF Lengthens
  <2>11. v.status # "Connected" => Given(v) = Lead(v)
    BY <1>1, <1>3, <2>5, <2>6, Zenon DEF UpFlow, p
  <2> QED
    BY <1>3, <2>8, <2>10, <2>11, ZenonT(40) DEF UpFlow
<1>5. Dialing(w) => Dialing(v)
  BY <1>2, <1>3, Zenon DEF Dialing
<1>6. Asking(w, <<>>) => Asking(v, <<>>)
  <2> SUFFICES ASSUME Asking(w, <<>>) PROVE Asking(v, <<>>)
    OBVIOUS
  <2>1. Answered(w.header \o (<<>> \o w.net.in.proxy), w.net)
    BY Zenon DEF Asking
  <2>2. /\ v.header \o (<<>> \o v.net.in.proxy) = w.header \o (<<>> \o w.net.in.proxy)
        /\ v.net.answer = w.net.answer /\ v.net.ok = w.net.ok /\ FromServer(v.net) = FromServer(w.net)
    BY <1>2, <1>3, Zenon
  <2>3. Answered(v.header \o (<<>> \o v.net.in.proxy), v.net)
    BY <2>1, <2>2, AnsweredSame, Zenon
  <2> QED
    BY <1>2, <1>3, <2>3, Zenon DEF Asking
<1>7. Talking(w, <<>>) => Talking(v, <<>>)
  BY <1>2, <1>3, Zenon DEF Talking
<1> QED
  BY <1>1, <1>3, <1>4, <1>5, <1>6, <1>7, Zenon DEF Running, Going

\* t comes from the proxy.
FromProxy(n, t, m) ==
  /\ m \in Nets /\ m.in.local = n.in.local /\ m.in.proxy = Append(n.in.proxy, t)
  /\ m.up = n.up /\ m.down = n.down /\ m.client = n.client /\ m.session = n.session /\ m.badDisk = n.badDisk

\* A session goes on when it does.
LEMMA FromProxyLaw ==
  ASSUME NEW w, Running(w), w.proxy.status = "Connected", NEW t \in Int, NEW m,
         FromProxy(w.net, t, m), Adds(w.net, m, t), NEW v, Netted(w, m, v)
  PROVE  Running(v)
<1>0. ~ Dialing(w)
  BY DEF Dialing
<1>1. /\ Sane(w) /\ w.handler /\ w.place = "active" /\ Established(w.local) /\ Able(w.local)
      /\ Asking(w, <<>>) \/ Talking(w, <<>>)
      /\ Established(w.proxy) /\ UpFlow(w, <<>>)
  BY <1>0, Zenon DEF Running, Going
<1>2. /\ m \in Nets /\ m.in.local = w.net.in.local /\ m.in.proxy = Append(w.net.in.proxy, t)
      /\ m.up = w.net.up /\ m.down = w.net.down /\ m.client = w.net.client
      /\ m.session = w.net.session /\ m.badDisk = w.net.badDisk
  BY Zenon DEF FromProxy
<1>3. /\ Sane(v) /\ v.local = w.local /\ v.proxy = w.proxy /\ v.cache = w.cache /\ v.status = w.status
      /\ v.header = w.header /\ v.handler = w.handler /\ v.place = w.place /\ v.net = m
  BY Zenon DEF Netted
<1>4. UpFlow(v, <<>>)
  <2>1. FromClient(v.net) = FromClient(w.net)
    BY <1>2, <1>3, Zenon DEF FromClient
  <2>2. SameFlow(w, <<>>, v, <<>>)
    BY <1>2, <1>3, <2>1, Zenon DEF SameFlow, Stream, Given, Lead
  <2> QED
    BY <1>1, <2>2, FlowSame
<1> DEFINE i == w.net.in.proxy
           h == w.header
<1>5. /\ i \in Seq(Int) /\ h \in Seq(Int) /\ w.net \in Nets /\ Append(i, t) \in Seq(Int)
      /\ <<>> \o i = i /\ <<>> \o Append(i, t) = Append(i, t)
  <2>1. i \in Seq(Int) /\ h \in Seq(Int) /\ w.net \in Nets
    BY <1>1, StreamTypes, AskedUp
  <2>2. Append(i, t) \in Seq(Int)
    BY <2>1
  <2> QED
    BY <2>1, <2>2, IntJoin
<1>6. v.header = h /\ v.net.in.proxy = Append(i, t)
  BY <1>2, <1>3
<1>7. Asking(w, <<>>) => Asking(v, <<>>)
  <2> SUFFICES ASSUME Asking(w, <<>>) PROVE Asking(v, <<>>)
    OBVIOUS
  <2>1. Answered(h \o i, w.net)
    BY <1>5 DEF Asking
  <2>2. h \o i \in Seq(Int) /\ Append(h \o i, t) = h \o Append(i, t)
    BY <1>5, AppendJoin, IntJoin
  <2> HIDE DEF i, h
  <2>3. Answered(Append(h \o i, t), m)
    BY <1>2, <1>5, <2>1, <2>2, AnsweredGrow
  <2>4. Answered(v.header \o (<<>> \o v.net.in.proxy), v.net)
    BY <1>3, <1>5, <1>6, <2>2, <2>3, Zenon
  <2> QED
    BY <1>2, <1>3, <2>4, Zenon DEF Asking
<1>8. Talking(w, <<>>) => Talking(v, <<>>)
  <2> SUFFICES ASSUME Talking(w, <<>>) PROVE Talking(v, <<>>)
    OBVIOUS
  <2> DEFINE s == (Server(h) \o w.net.down) \o w.local.pending
             f == FromServer(w.net)
  <2>1. /\ w.net.answer = 2 /\ Cached(w.cache) = <<>> /\ Able(w.proxy) /\ w.status = "Connected"
        /\ AllServer(<<>> \o i)
        /\ s \o (<<>> \o i) = f
    BY Zenon DEF Talking
  <2>2. t = ServerByte(w.net.session, w.net.server + 1) /\ m.answer = 2 /\ m.server = w.net.server + 1
    BY <2>1 DEF Adds
  <2>3. FromServer(m) = Append(f, t)
    BY <1>2, <1>5, <2>2, WrittenLaw
  <2>4. f \in Seq(Int) /\ s \in Seq(Int)
    <3>1. Server(h) \in Seq(Int) /\ w.net.down \in Seq(Int) /\ w.local.pending \in Seq(Int)
      BY <1>1, <1>5, StreamTypes, ServerLaws
    <3>2. s \in Seq(Int)
      BY <3>1, IntJoin
    <3> QED
      BY <1>5, <3>2, WrittenLaw
  <2>5. IsServerByte(t)
    <3>1. w.net.session \in Nat /\ w.net.server + 1 \in Nat \ {0}
      BY <1>5, SMTT(30) DEF Nets
    <3> QED
      BY <2>2, <3>1, TokensLaw
  <2>6. AllServer(Append(i, t))
    <3>1. AllServer(i)
      BY <1>5, <2>1
    <3> HIDE DEF i
    <3> QED
      BY <1>5, <2>5, <3>1 DEF AllServer
  <2>7. ((Server(v.header) \o v.net.down) \o v.local.pending) = s
    BY <1>2, <1>3, Zenon
  <2> HIDE DEF s, f, h, i
  <2>8. s \o (<<>> \o Append(i, t)) = Append(f, t)
    <3>0. <<>> \in Seq(Int)
      OBVIOUS
    <3>1. Lengthens(s, i, <<>>, f, t)
      BY <1>5, <2>4, <3>0, Lengthen, Zenon
    <3>2. <<>> \o f = f /\ <<>> \o Append(f, t) = Append(f, t)
      <4>1. Append(f, t) \in Seq(Int)
        BY <2>4
      <4> QED
        BY <2>4, <4>1, IntJoin
    <3> QED
      BY <2>1, <3>1, <3>2, Zenon DEF Lengthens
  <2> QED
    BY <1>3, <1>5, <1>6, <2>1, <2>2, <2>3, <2>6, <2>7, <2>8, Zenon DEF Talking
<1> QED
  BY <1>1, <1>3, <1>4, <1>7, <1>8, Zenon DEF Running, Going

\* t comes from the proxy as it should.
Comes(n, t, m) == t \in Int /\ FromProxy(n, t, m) /\ Adds(n, m, t) /\ (n.ok => m.ok)

\* A line of the header.
LEMMA AnswersNetLaw ==
  ASSUME NEW n \in Nets, NEW t \in {StatusOK, StatusDenied, HeaderLine, BlankLine},
         \/ n.answer = 0 /\ t \in {StatusOK, StatusDenied}
         \/ n.answer = 1 /\ t \in {BlankLine, HeaderLine},
         NEW m, m = [n EXCEPT !.in.proxy = Append(@, t),
                              !.answer = CASE t = HeaderLine -> 1
                                           [] t = BlankLine  -> IF @ = 1 THEN 2 ELSE @
                                           [] OTHER -> 1,
                              !.ok = @ \/ t = StatusOK,
                              !.extra = IF t = HeaderLine THEN @ + 1 ELSE @]
  PROVE  Comes(n, t, m)
<1>1. /\ n.in.local \in Seq(Int) /\ n.in.proxy \in Seq(Int) /\ n.ok \in BOOLEAN /\ n.extra \in Nat
      /\ n.in \in [local : Seq(Int), proxy : Seq(Int)]
  BY DEF Nets
<1>2. t \in Int
  BY LinesLaw
<1> DEFINE a == Append(n.in.proxy, t)
           b == [local |-> n.in.local, proxy |-> a]
           k == IF t = HeaderLine THEN n.extra + 1 ELSE n.extra
           g == IF t = BlankLine THEN 2 ELSE 1
           o == n.ok \/ t = StatusOK
<1>3. a \in Seq(Int)
  BY <1>1, <1>2
<1>4. (CASE t = HeaderLine -> 1
         [] t = BlankLine  -> IF n.answer = 1 THEN 2 ELSE n.answer
         [] OTHER -> 1) = g
  BY DEF HeaderLine, BlankLine, StatusOK, StatusDenied
<1>5. m = [n EXCEPT !.in = b, !.answer = g, !.ok = o, !.extra = k]
  <2>1. [n.in EXCEPT !.proxy = a] = b
    BY <1>1, InboxProxy, Zenon
  <2>2. m = [n EXCEPT !.in = [n.in EXCEPT !.proxy = a],
                      !.answer = CASE t = HeaderLine -> 1
                                   [] t = BlankLine  -> IF n.answer = 1 THEN 2 ELSE n.answer
                                   [] OTHER -> 1,
                      !.ok = o, !.extra = k]
    BY DEF Nets
  <2> QED
    BY <1>4, <2>1, <2>2, Zenon
<1>6. /\ b \in [local : Seq(Int), proxy : Seq(Int)] /\ b.local = n.in.local /\ b.proxy = a
      /\ k \in Nat /\ g \in {0, 1, 2} /\ o \in BOOLEAN
  BY <1>1, <1>3
<1>7. a = Append(n.in.proxy, t) /\ o = (n.ok \/ t = StatusOK) /\ g = IF t = BlankLine THEN 2 ELSE 1
  OBVIOUS
<1> HIDE DEF a, b, k, g, o
<1>8. /\ m \in Nets /\ m.in = b
      /\ m.up = n.up /\ m.down = n.down /\ m.client = n.client /\ m.server = n.server
      /\ m.answer = g /\ m.ok = o /\ m.session = n.session /\ m.badDisk = n.badDisk
  BY <1>5, <1>6, ZenonT(40) DEF Nets
<1>9. FromProxy(n, t, m)
  BY <1>6, <1>7, <1>8, Zenon DEF FromProxy
<1>10. Adds(n, m, t)
  <2>1. n.answer # 2
    OBVIOUS
  <2>2. CASE t \in {StatusOK, StatusDenied, HeaderLine}
    <3>1. g = 1
      BY <1>7, <2>2 DEF HeaderLine, BlankLine, StatusOK, StatusDenied
    <3> QED
      BY <1>7, <1>8, <2>1, <2>2, <3>1, Zenon DEF Adds
  <2>3. CASE t = BlankLine
    <3>1. g = 2 /\ o = n.ok
      BY <1>1, <1>7, <2>3 DEF BlankLine, StatusOK
    <3> QED
      BY <1>8, <2>1, <2>3, <3>1, Zenon DEF Adds
  <2> QED
    BY <2>2, <2>3
<1>11. n.ok => m.ok
  BY <1>7, <1>8
<1> QED
  BY <1>2, <1>9, <1>10, <1>11, Zenon DEF Comes

\* A byte of the server.
LEMMA ServerNetLaw ==
  ASSUME NEW n \in Nets, n.answer = 2, NEW t, t = ServerByte(n.session, n.server + 1),
         NEW m, m = [n EXCEPT !.server = @ + 1, !.in.proxy = Append(@, t)]
  PROVE  Comes(n, t, m)
<1>1. /\ n.in.local \in Seq(Int) /\ n.in.proxy \in Seq(Int) /\ n.server \in Nat /\ n.session \in Nat
      /\ n.in \in [local : Seq(Int), proxy : Seq(Int)]
  BY DEF Nets
<1> DEFINE a == Append(n.in.proxy, t)
           b == [local |-> n.in.local, proxy |-> a]
           k == n.server + 1
<1>2. k \in Nat \ {0} /\ k \in Nat
  BY <1>1
<1>3. t \in Int
  BY <1>1, <1>2, TokensLaw
<1>4. a \in Seq(Int)
  BY <1>1, <1>3
<1>5. m = [n EXCEPT !.server = k, !.in = b]
  <2>1. [n.in EXCEPT !.proxy = a] = b
    BY <1>1, InboxProxy, Zenon
  <2>2. m = [n EXCEPT !.server = k, !.in = [n.in EXCEPT !.proxy = a]]
    BY DEF Nets
  <2> QED
    BY <2>1, <2>2, Zenon
<1>6. b \in [local : Seq(Int), proxy : Seq(Int)] /\ b.local = n.in.local /\ b.proxy = a
  BY <1>1, <1>4
<1>7. a = Append(n.in.proxy, t) /\ k = n.server + 1
  OBVIOUS
<1> HIDE DEF a, b, k
<1>8. /\ m \in Nets /\ m.in = b
      /\ m.up = n.up /\ m.down = n.down /\ m.client = n.client /\ m.server = k
      /\ m.answer = n.answer /\ m.ok = n.ok /\ m.session = n.session /\ m.badDisk = n.badDisk
  BY <1>2, <1>5, <1>6, ZenonT(40) DEF Nets
<1>9. FromProxy(n, t, m)
  BY <1>6, <1>7, <1>8, Zenon DEF FromProxy
<1>10. Adds(n, m, t)
  BY <1>7, <1>8, Zenon DEF Adds
<1> QED
  BY <1>3, <1>8, <1>9, <1>10, Zenon DEF Comes

\* One end of a connection is gone.
Shut(n, m) ==
  /\ m \in Nets /\ m.in = n.in /\ m.up = n.up /\ m.down = n.down /\ m.client = n.client
  /\ m.server = n.server /\ m.answer = n.answer /\ m.ok = n.ok /\ m.session = n.session /\ m.badDisk = n.badDisk

\* Nothing else of the streams changes.
LEMMA EndNetLaw ==
  ASSUME NEW n \in Nets, NEW side \in Sides, NEW how \in {"eof", "reset"},
         NEW m, m = [n EXCEPT !.end[side] = how]
  PROVE  Shut(n, m)
<1> DEFINE e == [n.end EXCEPT ![side] = how]
<1>1. e \in [local : Ends, proxy : Ends]
  BY DEF Nets, Sides, Ends
<1>2. m = [n EXCEPT !.end = e]
  BY DEF Nets
<1> HIDE DEF e
<1>3. /\ m \in Nets /\ m.in = n.in /\ m.up = n.up /\ m.down = n.down /\ m.client = n.client
      /\ m.server = n.server /\ m.answer = n.answer /\ m.ok = n.ok /\ m.session = n.session /\ m.badDisk = n.badDisk
  BY <1>1, <1>2, ZenonT(40) DEF Nets
<1> QED
  BY <1>3, Zenon DEF Shut

\* The session is the same to the tunnel until it reads.
LEMMA PeerEndsLaw ==
  ASSUME NEW w, Running(w), NEW m, Shut(w.net, m), NEW v, Netted(w, m, v)
  PROVE  Running(v)
<1>1. /\ Sane(w) /\ w.handler /\ w.place = "active" /\ Established(w.local) /\ Able(w.local)
      /\ Dialing(w) \/ Asking(w, <<>>) \/ Talking(w, <<>>)
      /\ Dialing(w) \/ Established(w.proxy)
      /\ UpFlow(w, <<>>)
  BY Zenon DEF Running, Going
<1>2. /\ v.net.in = w.net.in /\ v.net.up = w.net.up /\ v.net.down = w.net.down
      /\ v.net.server = w.net.server /\ v.net.answer = w.net.answer /\ v.net.ok = w.net.ok
      /\ v.net.client = w.net.client /\ v.net.session = w.net.session /\ v.net.badDisk = w.net.badDisk
  BY Zenon DEF Shut, Netted
<1>3. /\ Sane(v) /\ v.local = w.local /\ v.proxy = w.proxy /\ v.cache = w.cache /\ v.status = w.status
      /\ v.header = w.header /\ v.handler = w.handler /\ v.place = w.place
  BY Zenon DEF Netted
<1>4. FromClient(v.net) = FromClient(w.net) /\ FromServer(v.net) = FromServer(w.net)
  BY <1>2, Zenon DEF FromClient, FromServer
<1>5. UpFlow(v, <<>>)
  <2>1. SameFlow(w, <<>>, v, <<>>)
    BY <1>2, <1>3, <1>4, Zenon DEF SameFlow, Stream, Given, Lead
  <2> QED
    BY <1>1, <2>1, FlowSame
<1>6. Dialing(w) => Dialing(v)
  BY <1>2, <1>3, Zenon DEF Dialing
<1>7. Asking(w, <<>>) => Asking(v, <<>>)
  <2> SUFFICES ASSUME Asking(w, <<>>) PROVE Asking(v, <<>>)
    OBVIOUS
  <2>1. Answered(w.header \o (<<>> \o w.net.in.proxy), w.net)
    BY Zenon DEF Asking
  <2>2. v.header \o (<<>> \o v.net.in.proxy) = w.header \o (<<>> \o w.net.in.proxy)
    BY <1>2, <1>3, Zenon
  <2>3. Answered(v.header \o (<<>> \o v.net.in.proxy), v.net)
    BY <1>2, <1>4, <2>1, <2>2, AnsweredSame, Zenon
  <2> QED
    BY <1>2, <1>3, <2>3, Zenon DEF Asking
<1>8. Talking(w, <<>>) => Talking(v, <<>>)
  BY <1>2, <1>3, <1>4, Zenon DEF Talking
<1> QED
  BY <1>1, <1>3, <1>5, <1>6, <1>7, <1>8, Zenon DEF Running, Going

\* A call on some other socket.
LEMMA ErrnoLaw ==
  ASSUME NEW w, Sane(w), NEW e \in Errno, NEW v, v = [w EXCEPT !.errno = e]
  PROVE  Netted(w, w.net, v)
<1>1. /\ v \in Worlds /\ v.local = w.local /\ v.proxy = w.proxy /\ v.cache = w.cache
      /\ v.status = w.status /\ v.header = w.header /\ v.handler = w.handler /\ v.place = w.place
      /\ v.net = w.net
  BY DEF Sane, Worlds
<1>2. Asked(v)
  BY <1>1, Zenon DEF Sane, Asked
<1>3. Sane(v)
  BY <1>1, <1>2, Zenon DEF Sane
<1> QED
  BY <1>1, <1>3, Zenon DEF Netted

-----------------------------------------------------------------------------
(* The invariant.                                                          *)

\* Between two dispatches a tunnel is out of use, or ProxyClient counts on it
\* though its first send has failed, or its session goes on, or the process has
\* been aborted.
Inv == Idle(World) \/ Dead(World) \/ Running(World) \/ Crashed(World)

\* The world is made of the variables.
LEMMA WorldIs ==
  /\ World.local = local /\ World.proxy = proxy /\ World.cache = cache /\ World.status = status
  /\ World.header = header /\ World.handler = handler /\ World.place = place
  /\ World.errno = errno /\ World.net = net
  /\ World["local"] = local /\ World["proxy"] = proxy
BY DEF World

\* It becomes w.
LEMMA BecomeLaw ==
  ASSUME NEW w \in Worlds, Become(w)
  PROVE  World' = w
<1>1. w = [local |-> w.local, proxy |-> w.proxy, cache |-> w.cache, status |-> w.status,
           header |-> w.header, handler |-> w.handler, place |-> w.place, errno |-> w.errno,
           net |-> w.net]
  BY DEF Worlds
<1> QED
  BY <1>1, Zenon DEF World, Become

\* Sockets and callbacks are those of a session.
LEMMA Watched ==
  ASSUME Inv, NEW side \in Sides, place # "crashed", World[side].rd \/ World[side].wr
  PROVE  Running(World)
<1>1. ~ NewConnection.rd /\ ~ NewConnection.wr
  BY DEF NewConnection
<1>2. ~ Idle(World) /\ ~ Dead(World)
  BY <1>1, WorldIs DEF Idle, Dead, Quiet, Sides
<1> QED
  BY <1>2, WorldIs DEF Inv, Crashed

\* What a dispatch leads to is sane.
LEMMA OverSane ==
  \A v : Over(v) \/ Running(v) => v \in Worlds
BY DEF Over, Ended, Crashed, Running, Going, Sane

\* The peers.
LEMMA PeersLaw ==
  ASSUME NEW m, Peers(m), World \in Worlds
  PROVE  place = "active" /\ World' = [World EXCEPT !.net = m]
BY DEF Peers, World

\* A dispatch that reads.
LEMMA ReadableLaw ==
  ASSUME Inv, NEW side \in Sides, Readable(side)
  PROVE  /\ Running(World) /\ World[side].status = "Connected"
         /\ \/ Over(World')
            \/ Running(World') /\ IF side = "local" THEN LocalInput(World, World')
                                  ELSE ProxyInput(World, World')
<1>1. Running(World) /\ World[side].status = "Connected"
  BY Watched DEF Readable
<1>2. PICK v \in HandleInput(World, side) : Become(v)
  BY DEF Readable
<1>3. CASE side = "local"
  <2>1. Over(v) \/ (Running(v) /\ LocalInput(World, v))
    BY <1>1, <1>2, <1>3, InputLocalLaw
  <2>2. World' = v
    BY <1>2, <2>1, OverSane, BecomeLaw
  <2> QED
    BY <1>1, <1>3, <2>1, <2>2, Zenon
<1>4. CASE side = "proxy"
  <2>1. Over(v) \/ (Running(v) /\ ProxyInput(World, v))
    <3>1. World.proxy.status = "Connected"
      BY <1>1, <1>4, WorldIs
    <3> QED
      BY <1>1, <1>2, <1>4, <3>1, InputProxyLaw
  <2>2. World' = v
    BY <1>2, <2>1, OverSane, BecomeLaw
  <2>3. side # "local"
    BY <1>4
  <2> QED
    BY <1>1, <2>1, <2>2, <2>3, Zenon
<1> QED
  BY <1>3, <1>4 DEF Sides

\* A dispatch that writes.
LEMMA WritableLaw ==
  ASSUME Inv, NEW side \in Sides, Writable(side)
  PROVE  /\ Running(World) /\ World[side].status = "Connected" /\ World[side].wr
         /\ \/ Over(World')
            \/ Running(World') /\ IF side = "local" THEN TouchesLocal(World, World')
                                  ELSE TouchesProxy(World, World')
<1>1. Running(World) /\ World[side].status = "Connected" /\ World[side].wr /\ World.errno = errno
  BY Watched, WorldIs DEF Writable
<1>2. PICK r \in FlushWritable(World[side], errno) :
        IF side = "local" THEN \E w \in AfterLocalWrite(World, r) : Become(w)
        ELSE Become(AfterProxyWrite(World, r))
  BY DEF Writable
<1>3. CASE side = "local"
  <2>1. PICK v \in AfterLocalWrite(World, r) : Become(v)
    BY <1>2, <1>3
  <2>2. r \in FlushWritable(World.local, World.errno) /\ World.local.wr
    BY <1>1, <1>2, <1>3, WorldIs
  <2>3. Over(v) \/ (Running(v) /\ TouchesLocal(World, v))
    BY <1>1, <2>1, <2>2, OutputLocalLaw
  <2>4. World' = v
    BY <2>1, <2>3, OverSane, BecomeLaw
  <2> QED
    BY <1>1, <1>3, <2>3, <2>4, Zenon
<1>4. CASE side = "proxy"
  <2>0. side # "local"
    BY <1>4
  <2>1. Become(AfterProxyWrite(World, r))
    BY <1>2, <2>0
  <2>2. r \in FlushWritable(World.proxy, World.errno) /\ World.proxy.status = "Connected"
    BY <1>1, <1>2, <1>4, WorldIs
  <2> DEFINE v == AfterProxyWrite(World, r)
  <2>3. Over(v) \/ (Running(v) /\ TouchesProxy(World, v))
    BY <1>1, <2>2, OutputProxyLaw
  <2> HIDE DEF v
  <2>4. World' = v
    <3>1. Become(v)
      BY <2>1 DEF v
    <3> QED
      BY <2>3, <3>1, OverSane, BecomeLaw
  <2> QED
    BY <1>1, <2>0, <2>3, <2>4, Zenon
<1> QED
  BY <1>3, <1>4 DEF Sides

\* connect() is done.
LEMMA ConnectDoneLaw ==
  ASSUME Inv, NEW ok \in BOOLEAN, ConnectDone(ok)
  PROVE  /\ Running(World) /\ World.proxy.status = "Connecting" /\ World.proxy.wr
         /\ Over(World') \/ (Running(World') /\ Opened(World, World'))
<1>1. /\ Running(World) /\ World.proxy.status = "Connecting" /\ World.proxy.wr
  BY Watched, WorldIs DEF ConnectDone, Sides
<1> DEFINE w == [World EXCEPT !.proxy = ConnectResolved(@, ok)]
<1>2. IF ok THEN \E v \in OnConnectedProxy(w) : Become(v)
      ELSE Become(OnErrorProxy([w EXCEPT !.errno = "OTHER", !.net.fault = {"proxy"}]))
  BY DEF ConnectDone
<1>3. CASE ok
  <2>1. PICK v \in OnConnectedProxy(w) : Become(v)
    BY <1>2, <1>3
  <2>2. w = [World EXCEPT !.proxy = ConnectResolved(@, TRUE)]
    BY <1>3
  <2> HIDE DEF w
  <2>3. Over(v) \/ (Running(v) /\ Opened(World, v))
    BY <1>1, <2>1, <2>2, ConnectedLaw
  <2>4. World' = v
    BY <2>1, <2>3, OverSane, BecomeLaw
  <2> QED
    BY <1>1, <2>3, <2>4, Zenon
<1>4. CASE ~ ok
  <2> DEFINE v == OnErrorProxy([w EXCEPT !.errno = "OTHER", !.net.fault = {"proxy"}])
  <2>1. Become(v)
    BY <1>2, <1>4
  <2>2. w = [World EXCEPT !.proxy = ConnectResolved(@, FALSE)]
    BY <1>4
  <2>3. v = OnErrorProxy([w EXCEPT !.errno = "OTHER", !.net.fault = {"proxy"}])
    OBVIOUS
  <2> HIDE DEF w, v
  <2>4. Over(v)
    <3>1. Ended(v)
      BY <1>1, <2>2, <2>3, RefusedLaw
    <3> QED
      BY <3>1 DEF Over
  <2>5. World' = v
    BY <2>1, <2>4, OverSane, BecomeLaw
  <2> QED
    BY <1>1, <2>4, <2>5, Zenon
<1> QED
  BY <1>3, <1>4

\* onAccept() when connect() is done at once: the session has begun, or ended.
BegunNow(w, v) ==
  \/ w.handler /\ Ended(v)
  \/ ~ w.handler /\ Dead(v)
  \/ Running(v) /\ Begun(v) /\ v.proxy.status = "Connected" /\ v.proxy.rd

\* ... and when it is in progress.
BegunLater(v) ==
  Running(v) /\ Begun(v) /\ v.proxy.status = "Connecting" /\ v.proxy.wr /\ ~ v.proxy.rd

\* onAccept(), by the outcome of connect().
LEMMA OnAcceptLaw ==
  ASSUME Inv, NEW o \in ConnectOutcomes, OnAccept(o)
  PROVE  /\ Idle(World) /\ World.place = "free"
         /\ \/ BegunNow(World, World')
            \/ BegunLater(World')
            \/ Rejected(World, World')
<1>1. Idle(World) /\ World.place = "free"
  <2>1. World.place = "free"
    BY WorldIs DEF OnAccept
  <2> QED
    BY <2>1 DEF Inv, Dead, Running, Going, Crashed
<1>2. World \in Worlds /\ World.net.session = net.session
  BY <1>1, WorldIs DEF Idle, Sane
<1> DEFINE c == [AcceptConnection(World.local) EXCEPT !.handler = TRUE]
           p == [Connect(World.proxy, o) EXCEPT !.handler = TRUE]
           e == IF o = "now" THEN World.errno ELSE "OTHER"
           a == [World EXCEPT !.local = [AcceptConnection(@) EXCEPT !.handler = TRUE],
                              !.status = "Closed",
                              !.proxy = [Connect(@, o) EXCEPT !.handler = TRUE],
                              !.errno = IF o = "now" THEN @ ELSE "OTHER",
                              !.net = NewNet(net.session + 1)]
           act(w) == [w EXCEPT !.handler = TRUE,
                               !.place = IF @ = "free" THEN "active" ELSE @]
<1>3. /\ o = "now" => \E u \in OnConnectedProxy(a) : Become(act(u))
      /\ o = "progress" => Become(act(a))
      /\ o = "fail" =>
           Become([a EXCEPT !.local = Dropped(@), !.proxy = WithoutHandler(@), !.place = "broken"])
  BY DEF OnAccept
<1>4. a = [World EXCEPT !.local = c, !.status = "Closed", !.proxy = p, !.errno = e,
                        !.net = NewNet(World.net.session + 1)]
  BY <1>2, WorldIs
<1>5. o \in {"now", "progress", "fail"}
  BY TunnelAssumption
<1>6. \A u, v : v = act(u) => Activated(u, v)
  BY Zenon DEF Activated
<1>7. CASE o = "now"
  <2>1. PICK u \in OnConnectedProxy(a) : Become(act(u))
    BY <1>3, <1>7
  <2> DEFINE v == act(u)
  <2>2. Become(v) /\ Activated(u, v)
    BY <1>6, <2>1, Zenon
  <2>3. /\ c = [AcceptConnection(World.local) EXCEPT !.handler = TRUE]
        /\ p = [Connect(World.proxy, "now") EXCEPT !.handler = TRUE] /\ e = World.errno
    BY <1>7
  <2> HIDE DEF a, v, c, p, e
  <2>4. BegunNow(World, v)
    BY <1>1, <1>4, <2>1, <2>2, <2>3, AcceptNowLaw DEF BegunNow
  <2>5. v \in Worlds
    BY <2>4 DEF BegunNow, Ended, Dead, Running, Going, Sane
  <2>6. World' = v
    BY <2>2, <2>5, BecomeLaw
  <2> QED
    BY <1>1, <2>4, <2>6, Zenon
<1>8. CASE o = "progress"
  <2> DEFINE v == act(a)
  <2>1. Become(v)
    BY <1>3, <1>8
  <2>2. Activated(a, v)
    BY <1>6, ZenonT(40)
  <2>3. /\ c = [AcceptConnection(World.local) EXCEPT !.handler = TRUE]
        /\ p = [Connect(World.proxy, "progress") EXCEPT !.handler = TRUE] /\ e = "OTHER"
    BY <1>8
  <2> HIDE DEF a, v, c, p, e
  <2>4. BegunLater(v)
    BY <1>1, <1>4, <2>2, <2>3, AcceptProgressLaw DEF BegunLater
  <2>5. v \in Worlds
    BY <2>4 DEF BegunLater, Running, Going, Sane
  <2>6. World' = v
    BY <2>1, <2>5, BecomeLaw
  <2> QED
    BY <1>1, <2>4, <2>6, Zenon
<1>9. CASE o = "fail"
  <2> DEFINE v == [a EXCEPT !.local = Dropped(@), !.proxy = WithoutHandler(@), !.place = "broken"]
  <2>1. Become(v)
    BY <1>3, <1>9
  <2>2. Refused(a, v)
    BY DEF Refused
  <2>3. /\ c = [AcceptConnection(World.local) EXCEPT !.handler = TRUE]
        /\ p = [Connect(World.proxy, "fail") EXCEPT !.handler = TRUE] /\ e = "OTHER"
    BY <1>9
  <2> HIDE DEF a, v, c, p, e
  <2>4. Rejected(World, v)
    <3>1. a = [World EXCEPT !.local = c, !.status = "Closed", !.proxy = p, !.errno = "OTHER",
                            !.net = NewNet(World.net.session + 1)]
      BY <1>4, <2>3, Zenon
    <3> QED
      BY <1>1, <2>2, <2>3, <3>1, AcceptFailLaw
  <2>5. v \in Worlds
    BY <2>4 DEF Rejected, Idle, Sane
  <2>6. World' = v
    BY <2>1, <2>5, BecomeLaw
  <2> QED
    BY <1>1, <2>4, <2>6, Zenon
<1> QED
  BY <1>5, <1>7, <1>8, <1>9

\* A client that could not be accepted.
LEMMA OnAcceptRefusedLaw ==
  ASSUME Inv, OnAcceptRefused
  PROVE  /\ Idle(World) /\ World.place = "free"
         /\ Rejected(World, World')
<1>1. Idle(World) /\ World.place = "free"
  <2>1. World.place = "free"
    BY WorldIs DEF OnAcceptRefused
  <2> QED
    BY <2>1 DEF Inv, Dead, Running, Going, Crashed
<1>2. World \in Worlds /\ World.net \in Nets /\ Sane(World)
  BY <1>1, AskedUp DEF Idle
<1> DEFINE n == NewNet(World.net.session + 1)
           v == [World EXCEPT !.place = "broken", !.errno = "OTHER", !.net = NewNet(@.session + 1)]
<1>3. Become(v)
  BY DEF OnAcceptRefused
<1>4. n \in Nets /\ n.up = <<>>
  <2>1. World.net.session + 1 \in Nat
    BY <1>2 DEF Nets
  <2> QED
    BY <2>1, NewNetLaw
<1>5. v = [World EXCEPT !.place = "broken", !.errno = "OTHER", !.net = n]
  BY <1>2 DEF Worlds
<1> HIDE DEF v, n
<1>6. /\ v \in Worlds /\ v.local = World.local /\ v.proxy = World.proxy /\ v.cache = World.cache
      /\ v.status = World.status /\ v.header = World.header /\ v.handler = World.handler
      /\ v.place = "broken" /\ v.net = n
  BY <1>2, <1>4, <1>5 DEF Worlds, Errno
<1>7. Sane(v)
  <2>1. Asked(v)
    <3>1. Len(v.net.up) + Len(v.proxy.pending) <= Len(Request)
      <4>1. v.net.up = <<>> /\ v.proxy.pending = <<>>
        BY <1>1, <1>4, <1>6 DEF Idle, Quiet, NewConnection
      <4>2. Len(<<>>) + Len(<<>>) <= Len(Request)
        BY DEF Request
      <4> QED
        BY <4>1, <4>2, Zenon
    <3>2. v.status # "Connected"
      BY <1>1, <1>6 DEF Idle
    <3> QED
      BY <1>2, <1>6, <3>1, <3>2, Zenon DEF Asked, Sane
  <2> QED
    BY <1>2, <1>6, <2>1, Zenon DEF Sane
<1>8. Idle(v)
  BY <1>1, <1>6, <1>7 DEF Idle, Quiet
<1>9. World' = v
  BY <1>3, <1>6, BecomeLaw
<1> QED
  BY <1>1, <1>6, <1>8, <1>9, Zenon DEF Rejected

\* The tunnel is taken back.
LEMMA ReclaimLaw ==
  ASSUME Inv, ReclaimTunnel
  PROVE  Idle(World) /\ World.place = "broken" /\ Idle(World')
<1>1. World.place = "broken" /\ Idle(World)
  <2>1. World.place = "broken"
    BY WorldIs DEF ReclaimTunnel
  <2> QED
    BY <2>1 DEF Inv, Dead, Running, Going, Crashed
<1>2. World \in Worlds /\ Sane(World)
  BY <1>1 DEF Idle, Sane
<1> DEFINE v == [World EXCEPT !.place = "free"]
<1>3. Become(v)
  BY DEF ReclaimTunnel, Become, World
<1>4. /\ v \in Worlds /\ v.local = World.local /\ v.proxy = World.proxy /\ v.cache = World.cache
      /\ v.status = World.status /\ v.header = World.header /\ v.handler = World.handler
      /\ v.place = "free" /\ v.net = World.net
  BY <1>2 DEF Worlds
<1> HIDE DEF v
<1>5. Sane(v)
  <2>1. Asked(v)
    BY <1>2, <1>4, Zenon DEF Asked, Sane
  <2> QED
    BY <1>2, <1>4, <2>1, Zenon DEF Sane
<1>6. Idle(v)
  BY <1>1, <1>4, <1>5 DEF Idle, Quiet
<1>7. World' = v
  BY <1>3, <1>4, BecomeLaw
<1> QED
  BY <1>1, <1>6, <1>7, Zenon

\* A tunnel that is not in use is not, whatever is written to its peers.
LEMMA OutOfUse ==
  \A w, m, v : Netted(w, m, v) => (Idle(w) => Idle(v)) /\ (Dead(w) => Dead(v))
BY DEF Netted, Idle, Dead, Quiet

\* Sockets, cache, phase and place stay.
Spared == \E m : Netted(World, m, World')

\* One of the peers acts on a tunnel among the active ones.
LEMMA PeerLaw ==
  ASSUME Inv, NEW m \in Nets, Peers(m), m.up = net.up, net.ok => m.ok,
         Running(World) /\ Netted(World, m, World') => Running(World')
  PROVE  Inv' /\ Spared
<1>1. Dead(World) \/ Running(World)
  <2>1. World.place = "active"
    BY WorldIs DEF Peers
  <2> QED
    BY <2>1 DEF Inv, Idle, Crashed
<1>2. Sane(World) /\ World \in Worlds
  BY <1>1 DEF Dead, Running, Going, Sane
<1>3. World' = [World EXCEPT !.net = m]
  BY <1>2, PeersLaw
<1>4. m.up = World.net.up /\ (World.net.ok => m.ok)
  BY WorldIs
<1>5. Netted(World, m, World')
  BY <1>2, <1>3, <1>4, NetLaw
<1>6. Dead(World') \/ Running(World')
  BY <1>1, <1>5, OutOfUse, Zenon
<1>7. Inv'
  BY <1>6, Zenon DEF Inv
<1> QED
  BY <1>5, <1>7, Zenon DEF Spared

\* The kernel and the peers are as they should be.
LEMMA NetsOK ==
  ASSUME Inv
  PROVE  World \in Worlds /\ net \in Nets /\ net = World.net /\ Sane(World)
<1>1. Sane(World)
  BY DEF Inv, Idle, Dead, Running, Going, Crashed
<1> QED
  BY <1>1, AskedUp, WorldIs

\* The client writes.
LEMMA ClientWritesStep ==
  ASSUME Inv, ClientWrites
  PROVE  Inv' /\ Spared
<1> DEFINE t == ClientByte(net.session, net.client + 1)
           m == [net EXCEPT !.client = @ + 1,
                            !.in.local = Append(@, ClientByte(net.session, net.client + 1))]
<1>1. Peers(m)
  BY DEF ClientWrites
<1>2. net \in Nets /\ net = World.net
  BY NetsOK
<1>3. t = ClientByte(net.session, net.client + 1)
  OBVIOUS
<1>4. m = [net EXCEPT !.client = @ + 1, !.in.local = Append(@, t)]
  OBVIOUS
<1> HIDE DEF m, t
<1>5. FromWriter(net, t, m)
  BY <1>2, <1>3, <1>4, ClientNetLaw
<1>6. m \in Nets /\ m.up = net.up /\ (net.ok => m.ok)
  BY <1>5 DEF FromWriter
<1>7. ASSUME Running(World), Netted(World, m, World') PROVE Running(World')
  BY <1>2, <1>3, <1>4, <1>7, ClientWritesLaw
<1> QED
  BY <1>1, <1>6, <1>7, PeerLaw

\* The proxy writes a line of its header.
LEMMA ProxyAnswersStep ==
  ASSUME Inv, NEW line \in {StatusOK, StatusDenied, HeaderLine, BlankLine}, ProxyAnswers(line)
  PROVE  Inv' /\ Spared
<1> DEFINE m == [net EXCEPT !.in.proxy = Append(@, line),
                            !.answer = CASE line = HeaderLine -> 1
                                         [] line = BlankLine  -> IF @ = 1 THEN 2 ELSE @
                                         [] OTHER -> 1,
                            !.ok = @ \/ line = StatusOK,
                            !.extra = IF line = HeaderLine THEN @ + 1 ELSE @]
<1>1. Peers(m)
  BY DEF ProxyAnswers
<1>2. net \in Nets /\ net = World.net /\ World.proxy.status = "Connected"
  BY NetsOK, WorldIs DEF ProxyAnswers
<1>3. \/ net.answer = 0 /\ line \in {StatusOK, StatusDenied}
      \/ net.answer = 1 /\ line \in {BlankLine, HeaderLine}
  BY DEF ProxyAnswers
<1>4. m = [net EXCEPT !.in.proxy = Append(@, line),
                      !.answer = CASE line = HeaderLine -> 1
                                   [] line = BlankLine  -> IF @ = 1 THEN 2 ELSE @
                                   [] OTHER -> 1,
                      !.ok = @ \/ line = StatusOK,
                      !.extra = IF line = HeaderLine THEN @ + 1 ELSE @]
  OBVIOUS
<1> HIDE DEF m
<1>5. FromProxy(net, line, m) /\ Adds(net, m, line) /\ (net.ok => m.ok)
  <2>1. Comes(net, line, m)
    BY <1>2, <1>3, <1>4, AnswersNetLaw
  <2> QED
    BY <2>1, ZenonT(40) DEF Comes
<1>6. m \in Nets /\ m.up = net.up
  BY <1>5 DEF FromProxy
<1>7. ASSUME Running(World), Netted(World, m, World') PROVE Running(World')
  <2>1. line \in Int
    BY LinesLaw
  <2> QED
    BY <1>2, <1>5, <1>7, <2>1, FromProxyLaw
<1> QED
  BY <1>1, <1>5, <1>6, <1>7, PeerLaw

\* The server writes.  The proxy's answer has ended, so that the tunnel has its
\* connection.
LEMMA ServerWritesStep ==
  ASSUME Inv, ServerWrites
  PROVE  Inv' /\ Spared
<1> DEFINE t == ServerByte(net.session, net.server + 1)
           m == [net EXCEPT !.server = @ + 1,
                            !.in.proxy = Append(@, ServerByte(net.session, net.server + 1))]
<1>1. Peers(m) /\ net.answer = 2
  BY DEF ServerWrites
<1>2. net \in Nets /\ net = World.net
  BY NetsOK
<1>3. t = ServerByte(net.session, net.server + 1)
  OBVIOUS
<1>4. m = [net EXCEPT !.server = @ + 1, !.in.proxy = Append(@, t)]
  OBVIOUS
<1> HIDE DEF m, t
<1>5. t \in Int /\ FromProxy(net, t, m) /\ Adds(net, m, t) /\ (net.ok => m.ok)
  <2>1. Comes(net, t, m)
    BY <1>1, <1>2, <1>3, <1>4, ServerNetLaw
  <2> QED
    BY <2>1, Zenon DEF Comes
<1>6. m \in Nets /\ m.up = net.up
  BY <1>5 DEF FromProxy
<1>7. ASSUME Running(World), Netted(World, m, World') PROVE Running(World')
  <2>1. World.proxy.status = "Connected"
    <3>1. ~ Dialing(World)
      BY <1>1, <1>2 DEF Dialing
    <3> QED
      BY <1>7, <3>1 DEF Running, Established
  <2> QED
    BY <1>2, <1>5, <1>7, <2>1, FromProxyLaw
<1> QED
  BY <1>1, <1>5, <1>6, <1>7, PeerLaw

\* One of them ends its side.
LEMMA PeerEndsStep ==
  ASSUME Inv, NEW side \in Sides, NEW how \in {"eof", "reset"}, PeerEnds(side, how)
  PROVE  Inv' /\ Spared
<1> DEFINE m == [net EXCEPT !.end[side] = how]
<1>1. Peers(m)
  BY DEF PeerEnds
<1>2. net \in Nets /\ net = World.net
  BY NetsOK
<1>3. m = [net EXCEPT !.end[side] = how]
  OBVIOUS
<1> HIDE DEF m
<1>4. Shut(net, m)
  BY <1>2, <1>3, EndNetLaw
<1>5. m \in Nets /\ m.up = net.up /\ (net.ok => m.ok)
  BY <1>4 DEF Shut
<1>6. ASSUME Running(World), Netted(World, m, World') PROVE Running(World')
  BY <1>2, <1>4, <1>6, PeerEndsLaw
<1> QED
  BY <1>1, <1>5, <1>6, PeerLaw

\* Another tunnel's socket.
LEMMA OtherSocketStep ==
  ASSUME Inv, NEW e \in Errno, OtherSocket(e)
  PROVE  Inv' /\ Spared
<1>1. World \in Worlds /\ Sane(World) /\ World.net \in Nets
  BY NetsOK
<1>2. World' = [World EXCEPT !.errno = e]
  BY DEF OtherSocket, World
<1>3. Netted(World, World.net, World')
  BY <1>1, <1>2, ErrnoLaw
<1>4. ~ Crashed(World)
  BY WorldIs DEF OtherSocket, Crashed
<1>5. Running(World) => Running(World')
  <2>1. Shut(World.net, World.net)
    BY <1>1 DEF Shut
  <2> QED
    BY <1>3, <2>1, PeerEndsLaw
<1>6. Idle(World') \/ Dead(World') \/ Running(World')
  BY <1>3, <1>4, <1>5, OutOfUse, Zenon DEF Inv
<1>7. Inv'
  BY <1>6, Zenon DEF Inv
<1> QED
  BY <1>3, <1>7, Zenon DEF Spared

\* A new tunnel is out of use.
LEMMA InitInv == Init => Inv
<1> SUFFICES ASSUME Init PROVE Idle(World)
  BY Zenon DEF Inv
<1> DEFINE n == NewNet(0)
<1>1. n \in Nets /\ n.up = <<>>
  <2>1. 0 \in Nat
    OBVIOUS
  <2> QED
    BY <2>1, NewNetLaw
<1>2. /\ World.local = NewConnection /\ World.proxy = NewConnection /\ World.cache = NewCache
      /\ World.status = "Closed" /\ World.header = <<>> /\ World.handler = FALSE
      /\ World.place = "free" /\ World.errno = "OTHER" /\ World.net = n
  BY DEF Init, World
<1>3. CacheOK(NewCache, <<>>) /\ NewCache \in Caches
  BY NewCacheOK DEF CacheOK
<1>4. <<>> \in Seq(Int) /\ Len(<<>>) = 0 /\ HeaderRoom \in Nat
  BY TunnelAssumption
<1>5. World = [local |-> NewConnection, proxy |-> NewConnection, cache |-> NewCache,
               status |-> "Closed", header |-> <<>>, handler |-> FALSE, place |-> "free",
               errno |-> "OTHER", net |-> n]
  BY DEF Init, World
<1> HIDE DEF n
<1>6. World \in Worlds
  <2>1. NewConnection \in Connections /\ "OTHER" \in Errno
    BY NewIsBare DEF Errno
  <2> QED
    BY <1>1, <1>3, <1>4, <1>5, <2>1 DEF Worlds
<1>7. Asked(World)
  <2>1. Len(World.net.up) + Len(World.proxy.pending) <= Len(Request)
    <3>1. World.net.up = <<>> /\ World.proxy.pending = <<>>
      BY <1>1, <1>2 DEF NewConnection
    <3>2. Len(<<>>) + Len(<<>>) <= Len(Request)
      BY DEF Request
    <3> QED
      BY <3>1, <3>2, Zenon
  <2>2. Len(World.header) <= HeaderRoom /\ World.status # "Connected"
    BY <1>2, <1>4
  <2> QED
    BY <2>1, <2>2, Zenon DEF Asked
<1>8. Sane(World)
  BY <1>2, <1>3, <1>6, <1>7, NewIsBare DEF Sane, Droppable
<1> QED
  BY <1>2, <1>8 DEF Idle, Quiet, NewCache

\* Nothing but dispatches, peers and ProxyClient changes the tunnel, and whatever
\* they do it is again in one of its states.
LEMMA NextInv == Inv /\ [Next]_vars => Inv'
<1> SUFFICES ASSUME Inv, [Next]_vars PROVE Inv'
  OBVIOUS
<1>1. ASSUME NEW o \in ConnectOutcomes, OnAccept(o) PROVE Inv'
  <2>1. BegunNow(World, World') \/ BegunLater(World') \/ Rejected(World, World')
    BY <1>1, OnAcceptLaw
  <2>2. Idle(World') \/ Dead(World') \/ Running(World')
    BY <2>1, Zenon DEF BegunNow, BegunLater, Rejected, Ended, Idle
  <2> QED
    BY <2>2, Zenon DEF Inv
<1>2. ASSUME OnAcceptRefused PROVE Inv'
  <2>1. Idle(World')
    BY <1>2, OnAcceptRefusedLaw DEF Rejected
  <2> QED
    BY <2>1, Zenon DEF Inv
<1>3. ASSUME ReclaimTunnel PROVE Inv'
  <2>1. Idle(World')
    BY <1>3, ReclaimLaw
  <2> QED
    BY <2>1, Zenon DEF Inv
<1>4. ASSUME Over(World') \/ Running(World') PROVE Inv'
  <2>1. Idle(World') \/ Running(World') \/ Crashed(World')
    BY <1>4 DEF Over, Ended, Idle
  <2> QED
    BY <2>1, Zenon DEF Inv
<1>5. ASSUME NEW side \in Sides, Readable(side) PROVE Inv'
  BY <1>4, <1>5, ReadableLaw
<1>6. ASSUME NEW side \in Sides, Writable(side) PROVE Inv'
  BY <1>4, <1>6, WritableLaw
<1>7. ASSUME NEW ok \in BOOLEAN, ConnectDone(ok) PROVE Inv'
  BY <1>4, <1>7, ConnectDoneLaw
<1>8. ASSUME NEW e \in Errno, OtherSocket(e) PROVE Inv'
  BY <1>8, OtherSocketStep
<1>9. ASSUME ClientWrites PROVE Inv'
  BY <1>9, ClientWritesStep
<1>10. ASSUME NEW line \in {StatusOK, StatusDenied, HeaderLine, BlankLine}, ProxyAnswers(line)
       PROVE  Inv'
  BY <1>10, ProxyAnswersStep
<1>11. ASSUME ServerWrites PROVE Inv'
  BY <1>11, ServerWritesStep
<1>12. ASSUME NEW side \in Sides, NEW how \in {"eof", "reset"}, PeerEnds(side, how) PROVE Inv'
  BY <1>12, PeerEndsStep
<1>13. ASSUME UNCHANGED vars PROVE Inv'
  <2>1. World' = World
    BY <1>13, Zenon DEF vars, World
  <2> QED
    BY <2>1, Zenon DEF Inv
<1> QED
  BY <1>1, <1>2, <1>3, <1>5, <1>6, <1>7, <1>8, <1>9, <1>10, <1>11, <1>12, <1>13, Zenon
     DEF Next, Sides

\* Between two dispatches of the poller a tunnel is out of use, counted on though its
\* first send has failed, or in a session, or the process is gone.  In a session the
\* client's stream is whole and the proxy's is the request and the client's bytes, which
\* a failed write to the cache's file, and nothing else, may reorder or leave out.
THEOREM TunnelInvariant == Spec => []Inv
BY InitInv, NextInv, PTL DEF Spec

-----------------------------------------------------------------------------
(* What it says.                                                           *)

\* A tunnel that ProxyClient holds as broken or free carries nothing over to
\* the next client.
LEMMA QuietInv == Inv => QuietWhenIdle
<1> SUFFICES ASSUME Inv, place \in {"free", "broken"}
             PROVE  /\ local = NewConnection /\ proxy = NewConnection
                    /\ cache.mem = <<>> /\ cache.file = NoFile /\ status = "Closed"
  BY DEF QuietWhenIdle
<1>1. Idle(World)
  BY WorldIs DEF Inv, Dead, Running, Going, Crashed
<1> QED
  BY <1>1, WorldIs DEF Idle, Quiet

\* A live tunnel is in a session.
LEMMA LiveRuns ==
  ASSUME Inv, place = "active", local.open \/ proxy.open
  PROVE  /\ Running(World) /\ Sane(World) /\ World.handler
         /\ Established(local) /\ (Dialing(World) \/ Established(proxy))
         /\ Dialing(World) \/ Asking(World, <<>>) \/ Talking(World, <<>>)
         /\ UpFlow(World, <<>>)
<1>1. ~ NewConnection.open
  BY DEF NewConnection
<1>2. Running(World)
  BY <1>1, WorldIs DEF Inv, Idle, Dead, Quiet, Crashed
<1> QED
  BY <1>2, WorldIs, Zenon DEF Running, Going

\* Both halves of a live tunnel are whole and in the same phase.
LEMMA AgreeInv == Inv => HalvesAgree
<1> SUFFICES ASSUME Inv, place = "active", local.open \/ proxy.open
             PROVE  /\ handler
                    /\ local.open /\ local.handler /\ local.rd
                    /\ proxy.open /\ proxy.handler
                    /\ local.status = "Connected"
                    /\ proxy.status \in {"Connecting", "Connected"}
                    /\ status \in {"Closed", "Connecting", "Connected"}
                    /\ status = "Closed" <=> proxy.status = "Connecting"
                    /\ status = "Connected" => CachedBytes = <<>>
  BY DEF HalvesAgree, Live
<1>1. /\ handler /\ Established(local) /\ (Dialing(World) \/ Established(proxy))
      /\ Dialing(World) \/ Asking(World, <<>>) \/ Talking(World, <<>>)
  BY LiveRuns, WorldIs
<1>2. local.open /\ local.handler /\ local.rd /\ local.status = "Connected"
  BY <1>1 DEF Established
<1>3. proxy.open /\ proxy.handler
  BY <1>1, WorldIs DEF Established, Dialing
<1>4. CASE Dialing(World)
  <2>1. proxy.status = "Connecting" /\ status = "Closed"
    BY <1>4, WorldIs DEF Dialing
  <2> QED
    BY <1>1, <1>2, <1>3, <2>1
<1>5. CASE ~ Dialing(World)
  <2>1. proxy.status = "Connected"
    BY <1>1, <1>5 DEF Established
  <2>2. \/ status = "Connecting"
        \/ status = "Connected" /\ CachedBytes = <<>>
    BY <1>1, <1>5, WorldIs DEF Asking, Talking, CachedBytes
  <2> QED
    BY <1>1, <1>2, <1>3, <2>1, <2>2
<1> QED
  BY <1>4, <1>5

\* The world of a live tunnel, its stream, and what that starts with.
LEMMA UpstreamIs ==
  ASSUME Inv, Live
  PROVE  /\ Upstream = Stream(World, <<>>) /\ Lead(World) \in Seq(Int)
         /\ Lead(World) = IF status = "Closed" THEN <<>> ELSE Request
         /\ ClientBytes = FromClient(net) /\ UpFlow(World, <<>>)
<1>1. Sane(World) /\ UpFlow(World, <<>>)
  BY LiveRuns DEF Live
<1>2. <<>> \o net.in.local = net.in.local
  BY <1>1, StreamTypes, WorldIs, IntJoin
<1>3. Upstream = Stream(World, <<>>)
  BY <1>2, WorldIs, Zenon DEF Upstream, CachedBytes, Stream, Given
<1>4. ClientBytes = FromClient(net)
  BY Zenon DEF ClientBytes, FromClient
<1>5. Lead(World) = IF status = "Closed" THEN <<>> ELSE Request
  BY WorldIs, Zenon DEF Lead
<1>6. Lead(World) \in Seq(Int)
  BY DEF Lead, Request, ConnectLine, BlankLine
<1> QED
  BY <1>1, <1>3, <1>4, <1>5, <1>6

\* The proxy is sent the request and the client's bytes.
LEMMA UpstreamInv == Inv => UpstreamIntact
<1> SUFFICES ASSUME Inv, Live, ~ net.badDisk PROVE Upstream = UpstreamDue
  BY DEF UpstreamIntact
<1>1. PICK s : Theirs(s, net) /\ Stream(World, <<>>) = Lead(World) \o s
  BY UpstreamIs, WorldIs, Zenon DEF UpFlow
<1>2. s = FromClient(net)
  BY <1>1, Zenon DEF Theirs
<1>3. UpstreamLead = Lead(World)
  BY UpstreamIs DEF UpstreamLead
<1> QED
  BY <1>1, <1>2, <1>3, UpstreamIs, Zenon DEF UpstreamDue

\* Whatever the disk does, nothing but that.
LEMMA OwnInv == Inv => UpstreamOwn
<1> SUFFICES ASSUME Inv, Live PROVE UpstreamOwn
  BY DEF UpstreamOwn
<1>1. PICK s : Theirs(s, net) /\ Stream(World, <<>>) = Lead(World) \o s
  BY UpstreamIs, WorldIs, Zenon DEF UpFlow
<1>2. s \in Seq(Int) /\ IsInjective(s) /\ Range(s) \subseteq Range(ClientBytes)
  BY <1>1, UpstreamIs DEF Theirs, Own
<1>3. Upstream = UpstreamLead \o s /\ UpstreamLead \in Seq(Int)
  BY <1>1, UpstreamIs, Zenon DEF UpstreamLead
<1>4. SubSeq(UpstreamLead \o s, Len(UpstreamLead) + 1, Len(UpstreamLead \o s)) = s
  <2> DEFINE a == UpstreamLead
  <2>1. a \in Seq(Int)
    BY <1>3
  <2> HIDE DEF a
  <2>2. SubSeq(a \o s, Len(a) + 1, Len(a \o s)) = s
    BY <1>2, <2>1
  <2> QED
    BY <2>2 DEF a
<1> QED
  BY <1>2, <1>3, <1>4, Zenon DEF UpstreamOwn, UpstreamRest

\* The client is sent the server's bytes.
LEMMA DownstreamInv == Inv => DownstreamIntact
<1> SUFFICES ASSUME Inv, place = "active", local.open, proxy.open
             PROVE  Swallowed \o net.down \o local.pending \o Server(net.in.proxy) = ServerBytes
  BY DEF DownstreamIntact, Live
<1> DEFINE i == net.in.proxy
<1>1. /\ Sane(World)
      /\ Dialing(World) \/ Asking(World, <<>>) \/ Talking(World, <<>>)
  BY LiveRuns
<1>2. i \in Seq(Int) /\ header \in Seq(Int) /\ net \in Nets /\ Server(i) \in Seq(Int)
  <2>1. i \in Seq(Int) /\ header \in Seq(Int)
    BY <1>1, StreamTypes, WorldIs
  <2>2. net \in Nets
    BY NetsOK
  <2>3. Server(i) \in Seq(Int)
    BY <2>1, ServerLaws, Zenon
  <2> QED
    BY <2>1, <2>2, <2>3
<1>3. ServerBytes = FromServer(net) /\ <<>> \o i = i
  BY <1>2, IntJoin DEF ServerBytes, FromServer
<1>4. (<<>> \o <<>>) \o <<>> = <<>> /\ <<>> \o Server(i) = Server(i)
  BY <1>2, IntJoin
<1>5. CASE Dialing(World)
  <2>1. /\ status = "Closed" /\ net.down = <<>> /\ local.pending = <<>> /\ i = <<>>
        /\ net.server = 0
    BY <1>5, WorldIs DEF Dialing
  <2>2. FromServer(net) = <<>> /\ Server(i) = <<>>
    BY <1>2, <2>1, WrittenLaw, ServerLaws
  <2>3. Swallowed = <<>>
    BY <2>1 DEF Swallowed
  <2> QED
    BY <1>3, <1>4, <2>1, <2>2, <2>3, Zenon
<1>6. CASE Asking(World, <<>>)
  <2>1. /\ status = "Connecting" /\ net.down = <<>> /\ local.pending = <<>>
        /\ ~ Contains(header, BlankLine) /\ Answered(header \o i, net)
    BY <1>3, <1>6, WorldIs DEF Asking
  <2>2. Cut(header, i, net)
    BY <1>2, <2>1, AnsweredCut
  <2>3. Server(i) = FromServer(net)
    BY <2>1, <2>2, Zenon DEF Cut
  <2>4. Swallowed = <<>>
    BY <2>1 DEF Swallowed
  <2> QED
    BY <1>3, <1>4, <2>1, <2>3, <2>4, Zenon
<1>7. CASE Talking(World, <<>>)
  <2>1. /\ status = "Connected" /\ AllServer(<<>> \o i)
        /\ ((Server(header) \o net.down) \o local.pending) \o (<<>> \o i) = FromServer(net)
    BY <1>7, WorldIs DEF Talking
  <2>2. AllServer(i)
    BY <1>3, <2>1, Zenon
  <2>3. Server(i) = i
    BY <1>2, <2>2, ServerLaws
  <2>4. Swallowed = Server(header)
    BY <2>1 DEF Swallowed
  <2> QED
    BY <1>3, <2>1, <2>3, <2>4, Zenon
<1> QED
  BY <1>1, <1>5, <1>6, <1>7

\* The header is within its buffer, and only an accepted request is followed.
LEMMA HeaderInv == Inv => HeaderSound
<1> SUFFICES ASSUME Inv PROVE HeaderSound
  OBVIOUS
<1>1. Asked(World) /\ Sane(World) /\ net.ok \in BOOLEAN
  BY NetsOK, AskedUp, WorldIs DEF Sane
<1>2. Len(net.up) \in Nat /\ Len(proxy.pending) \in Nat
  BY <1>1, StreamTypes, WorldIs
<1>3. Len(Request) = 2
  BY DEF Request
<1>4. /\ Len(header) <= HeaderRoom
      /\ ~ net.ok => Len(net.up) + Len(proxy.pending) <= Len(Request)
  BY <1>1, WorldIs DEF Asked
<1> DEFINE k == Len(net.up) + Len(proxy.pending)
<1>5. k \in Nat
  <2>1. \A x, y \in Nat : x + y \in Nat
    OBVIOUS
  <2> QED
    BY <1>2, <2>1, Zenon
<1> HIDE DEF k
<1>6. k > Len(Request) => ~ (k <= Len(Request))
  BY <1>3, <1>5
<1> QED
  BY <1>1, <1>4, <1>6, Zenon DEF k, HeaderSound

\* Whichever error path ended a session, and however they were nested, a tunnel that
\* is broken or free has no socket, handler, packet or cached byte of it.
THEOREM QuietBetweenSessions == Spec => []QuietWhenIdle
BY TunnelInvariant, QuietInv, PTL

\* onRecv never meets "illegal proxy status" and never finds the client gone.
THEOREM HalvesAlwaysAgree == Spec => []HalvesAgree
BY TunnelInvariant, AgreeInv, PTL

\* Through every mix of memory cache, file cache, kept packets and direct sends the
\* proxy is sent the request and the client's bytes in their order, unless a write of
\* this session to the cache's file has failed (Cache::cache, which then uses memory).
THEOREM UpstreamIsIntact == Spec => []UpstreamIntact
BY TunnelInvariant, UpstreamInv, PTL

\* Wherever writes to the cache's file fail and however much of the record they leave,
\* the proxy is sent the whole request first and then none but this client's bytes,
\* none of them twice.
THEOREM UpstreamIsOwn == Spec => []UpstreamOwn
BY TunnelInvariant, OwnInv, PTL

\* The client is sent the server's bytes in their order, and none of the header.
THEOREM DownstreamIsIntact == Spec => []DownstreamIntact
BY TunnelInvariant, DownstreamInv, PTL

\* onRecvProxy never overruns mHttpHeader, and no header of an earlier session opens
\* the tunnel.
THEOREM HeaderIsSound == Spec => []HeaderSound
BY TunnelInvariant, HeaderInv, PTL

-----------------------------------------------------------------------------
(* A tunnel is a session.                                                  *)

Socks == [local |-> SocketOf(local), proxy |-> SocketOf(proxy)]

\* The parts of the session.
LEMMA SessionIs ==
  /\ AsSession!Side = Sides
  /\ AsSession!Status = [s \in Sides |-> Socks[s].status]
  /\ Socks["local"] = SocketOf(local) /\ Socks["proxy"] = SocketOf(proxy)
  /\ \A s \in Sides : /\ Socks[s].status = World[s].status
                      /\ Socks[s].rd = World[s].rd /\ Socks[s].wr = World[s].wr
BY DEF AsSession!Side, AsSession!Status, Sides, Socks, SocketOf, World

\* The callbacks may write to any side that is connected, and end the session.
LEMMA EffectsLaw ==
  /\ \A to \in Sides, kind \in {"none", "keep", "sent", "end"} :
       <<kind, to>> \in AsSession!SendEffects(to)
  /\ \A st : \A side, to \in Sides, kind \in {"none", "keep", "sent", "end"} :
       st[side] = "Connected" /\ st[to] = "Connected" =>
         <<kind, to>> \in AsSession!InputEffects(st, side)
  /\ \A st : st["local"] = "Connected" => <<"spill", "local">> \in AsSession!InputEffects(st, "local")
  /\ \A st, side : \A kind \in {"none", "sent", "end"} :
       st[side] = "Connected" => <<kind, side>> \in AsSession!OutputEffects(st, side)
  /\ \A st, side : st[side] = "Connecting" => <<"end", side>> \in AsSession!OutputEffects(st, side)
<1>1. \A to \in Sides, kind \in {"none", "keep", "sent", "end"} :
        <<kind, to>> \in AsSession!SendEffects(to)
  BY DEF AsSession!SendEffects
<1>2. ASSUME NEW st, NEW side \in Sides, NEW to \in Sides, NEW kind \in {"none", "keep", "sent", "end"},
             st[side] = "Connected", st[to] = "Connected"
      PROVE  <<kind, to>> \in AsSession!InputEffects(st, side)
  <2>1. to \in {s \in AsSession!Side : st[s] = "Connected"}
    BY <1>2, SessionIs
  <2>2. <<kind, to>> \in UNION {AsSession!SendEffects(x) : x \in {s \in AsSession!Side : st[s] = "Connected"}}
    BY <1>1, <2>1
  <2> QED
    BY <1>2, <2>2, Zenon DEF AsSession!InputEffects
<1>3. ASSUME NEW st, st["local"] = "Connected"
      PROVE  <<"spill", "local">> \in AsSession!InputEffects(st, "local")
  BY <1>3 DEF AsSession!InputEffects
<1>4. ASSUME NEW st, NEW side, NEW kind \in {"none", "sent", "end"}, st[side] = "Connected"
      PROVE  <<kind, side>> \in AsSession!OutputEffects(st, side)
  BY <1>4 DEF AsSession!OutputEffects
<1>5. ASSUME NEW st, NEW side, st[side] = "Connecting"
      PROVE  <<"end", side>> \in AsSession!OutputEffects(st, side)
  BY <1>5 DEF AsSession!OutputEffects
<1> QED
  BY <1>1, <1>2, <1>3, <1>4, <1>5

\* The watch for writing on one of the sockets k is as b says.
Watches(k, side, b, p) ==
  /\ Socks' = [k EXCEPT ![side].wr = b]
  /\ cache'.file.open = cache.file.open /\ place' = p

\* By that it is one of the effects of a send.
Effects(k, side, b, p) ==
  /\ b = k[side].wr => AsSession!After(k, <<"none", side>>, p)
  /\ b => AsSession!After(k, <<"keep", side>>, p)
  /\ ~ b => AsSession!After(k, <<"sent", side>>, p)

\* It is.
LEMMA WatchLaw ==
  ASSUME NEW k, NEW side, NEW b \in BOOLEAN, NEW p, k[side].wr \in BOOLEAN, Watches(k, side, b, p)
  PROVE  Effects(k, side, b, p)
<1> DEFINE x == k[side].wr
           As(e) == [k EXCEPT ![side].wr = (@ \/ e = "keep") /\ e # "sent"]
<1>1. /\ ((x \/ "none" = "keep") /\ "none" # "sent") = x
      /\ ((x \/ "keep" = "keep") /\ "keep" # "sent") = TRUE
      /\ ((x \/ "sent" = "keep") /\ "sent" # "sent") = FALSE
  OBVIOUS
<1>2. \A e : (\A y : y = ((x \/ e = "keep") /\ e # "sent") => As(e) = [k EXCEPT ![side].wr = y])
  BY Zenon
<1>3. /\ As("none") = [k EXCEPT ![side].wr = x] /\ As("keep") = [k EXCEPT ![side].wr = TRUE]
      /\ As("sent") = [k EXCEPT ![side].wr = FALSE]
  BY <1>1, <1>2, Zenon
<1>4. ASSUME NEW e \in {"none", "keep", "sent"}, Socks' = As(e)
      PROVE  AsSession!After(k, <<e, side>>, p)
  BY <1>4 DEF AsSession!After, Watches, Socks
<1> HIDE DEF As
<1>5. /\ b = x => Socks' = As("none")
      /\ b => Socks' = As("keep")
      /\ ~ b => Socks' = As("sent")
  <2>1. b = TRUE \/ b = FALSE
    OBVIOUS
  <2> QED
    BY <1>3, <2>1 DEF Watches
<1> QED
  BY <1>4, <1>5, Zenon DEF Effects


\* The session is over, or the process is.
LEMMA EndLaw ==
  ASSUME NEW k, NEW side, NEW p, handler, Over(World')
  PROVE  \/ place' = "crashed"
         \/ /\ AsSession!After(k, <<"end", side>>, p)
            /\ handler' = handler
<1>1. CASE Crashed(World')
  BY <1>1, WorldIs DEF Crashed, World
<1>2. CASE Ended(World')
  <2>1. /\ local' = NewConnection /\ proxy' = NewConnection /\ cache'.file = NoFile
        /\ handler' /\ place' = "broken"
    BY <1>2 DEF Ended, Quiet, World
  <2>2. Sane(World') /\ handler' = World'.handler /\ handler = World.handler
    BY <1>2 DEF Ended, World
  <2>3. SocketOf(NewConnection) = AsSession!Closed
    BY DEF SocketOf, NewConnection, AsSession!Closed
  <2>4. [local |-> SocketOf(local), proxy |-> SocketOf(proxy)]' = AsSession!NoSockets
    BY <2>1, <2>3, SessionIs DEF AsSession!NoSockets, Sides
  <2>5. cache'.file.open = FALSE
    BY <2>1 DEF NoFile
  <2> QED
    BY <2>1, <2>4, <2>5 DEF AsSession!After
<1> QED
  BY <1>1, <1>2 DEF Over


\* What both ends of a step of a session have in common.
LEMMA BothRun ==
  ASSUME Running(World), Running(World')
  PROVE  /\ handler /\ handler' /\ handler' = handler /\ place = "active" /\ place' = place
         /\ \A s \in Sides : Socks[s].wr \in BOOLEAN
         /\ proxy'.wr \in BOOLEAN /\ local'.wr \in BOOLEAN
         /\ cache.file.open \in BOOLEAN /\ cache'.file.open \in BOOLEAN
<1>1. /\ World.handler /\ World'.handler /\ World.place = "active" /\ World'.place = "active"
      /\ Sane(World) /\ Sane(World')
  BY DEF Running, Going
<1>2. /\ World \in Worlds /\ World' \in Worlds
      /\ World.local \in Connections /\ World.proxy \in Connections
      /\ World'.local \in Connections /\ World'.proxy \in Connections
  BY <1>1, AskedUp
<1>3. /\ World.handler = handler /\ World'.handler = handler' /\ World.place = place
      /\ World'.place = place' /\ World.local = local /\ World'.local = local'
      /\ World.proxy = proxy /\ World'.proxy = proxy' /\ World.cache = cache /\ World'.cache = cache'
  BY DEF World
<1>4. /\ handler \in BOOLEAN /\ handler' \in BOOLEAN /\ cache \in Caches /\ cache' \in Caches
  BY <1>2, <1>3 DEF Worlds
<1>5. cache.file.open \in BOOLEAN /\ cache'.file.open \in BOOLEAN
  BY <1>4 DEF Caches, Files
<1>6. \A s \in Sides : Socks[s].wr \in BOOLEAN
  BY <1>2, <1>3 DEF Sides, Socks, SocketOf, Connections
<1>7. proxy'.wr \in BOOLEAN /\ local'.wr \in BOOLEAN
  BY <1>2, <1>3 DEF Connections
<1> QED
  BY <1>1, <1>3, <1>4, <1>5, <1>6, <1>7

\* What changed is the watch of one of them, or whether the file is open.
LEMMA TouchLaw ==
  ASSUME Running(World), Running(World')
  PROVE  /\ TouchesProxy(World, World') => Watches(Socks, "proxy", proxy'.wr, place)
         /\ TouchesLocal(World, World') => Watches(Socks, "local", local'.wr, place)
         /\ TouchesFile(World, World') =>
              /\ Socks' = Socks /\ place' = place
              /\ cache'.file.open = cache.file.open \/ (~ cache.file.open /\ cache'.file.open)
<1>1. /\ World'.local = local' /\ World'.proxy = proxy' /\ World'.cache = cache'
      /\ World.local = local /\ World.proxy = proxy /\ World.cache = cache
  BY DEF World
<1>2. /\ place' = place /\ cache.file.open \in BOOLEAN /\ cache'.file.open \in BOOLEAN
  BY BothRun
<1>3. Socks' = [local |-> SocketOf(local'), proxy |-> SocketOf(proxy')]
  BY DEF Socks, SocketOf
<1>4. ASSUME TouchesProxy(World, World') PROVE Watches(Socks, "proxy", proxy'.wr, place)
  <2>1. /\ local'.status = local.status /\ local'.rd = local.rd /\ local'.wr = local.wr
        /\ proxy'.status = proxy.status /\ proxy'.rd = proxy.rd
        /\ cache'.file.open = cache.file.open
    BY <1>1, <1>4 DEF TouchesProxy, SameSocket, Rewatched
  <2>2. Socks' = [Socks EXCEPT !["proxy"].wr = proxy'.wr]
    BY <1>3, <2>1 DEF Socks, SocketOf
  <2> QED
    BY <1>2, <2>1, <2>2, Zenon DEF Watches
<1>5. ASSUME TouchesLocal(World, World') PROVE Watches(Socks, "local", local'.wr, place)
  <2>1. /\ proxy'.status = proxy.status /\ proxy'.rd = proxy.rd /\ proxy'.wr = proxy.wr
        /\ local'.status = local.status /\ local'.rd = local.rd
        /\ cache'.file.open = cache.file.open
    BY <1>1, <1>5 DEF TouchesLocal, SameSocket, Rewatched
  <2>2. Socks' = [Socks EXCEPT !["local"].wr = local'.wr]
    BY <1>3, <2>1 DEF Socks, SocketOf
  <2> QED
    BY <1>2, <2>1, <2>2, Zenon DEF Watches
<1>6. ASSUME TouchesFile(World, World')
      PROVE  /\ Socks' = Socks /\ place' = place
             /\ cache'.file.open = cache.file.open \/ (~ cache.file.open /\ cache'.file.open)
  <2>1. /\ proxy'.status = proxy.status /\ proxy'.rd = proxy.rd /\ proxy'.wr = proxy.wr
        /\ local'.status = local.status /\ local'.rd = local.rd /\ local'.wr = local.wr
        /\ cache'.file.open = cache.file.open \/ cache'.file.open
    BY <1>1, <1>6 DEF TouchesFile, SameSocket
  <2>2. Socks' = Socks
    BY <1>3, <2>1 DEF Socks, SocketOf
  <2> QED
    BY <1>2, <2>1, <2>2
<1> QED
  BY <1>4, <1>5, <1>6, Zenon

\* A dispatch that reads does what a session's does.
LEMMA SessionReads ==
  ASSUME Inv, NEW side \in Sides, Readable(side)
  PROVE  place' = "crashed" \/ AsSession!Readable(side)
<1> DEFINE st == AsSession!Status
<1>1. /\ Running(World) /\ World[side].status = "Connected" /\ World[side].rd
      /\ \/ Over(World')
         \/ Running(World') /\ IF side = "local" THEN LocalInput(World, World')
                               ELSE ProxyInput(World, World')
  BY ReadableLaw DEF Readable
<1>2. /\ Socks[side].rd /\ st[side] = "Connected" /\ World.local.status = "Connected"
      /\ st["local"] = "Connected" /\ (World.proxy.status = "Connected" => st["proxy"] = "Connected")
  <2>1. World.local.status = "Connected"
    BY <1>1 DEF Running, Established
  <2>2. World.local.status = World["local"].status /\ World.proxy.status = World["proxy"].status
    OBVIOUS
  <2>3. "local" \in Sides /\ "proxy" \in Sides
    BY DEF Sides
  <2> QED
    BY <1>1, <2>1, <2>2, <2>3, SessionIs
<1>3. handler
  BY <1>1, WorldIs DEF Running, Going
<1> SUFFICES ASSUME place' # "crashed"
             PROVE  /\ \E effect \in AsSession!InputEffects(st, side) :
                         AsSession!After(Socks, effect, place)
                    /\ handler' = handler
  BY <1>2 DEF AsSession!Readable, Socks
<1> HIDE DEF st
<1>4. \A to \in Sides, kind \in {"none", "keep", "sent", "end"} :
        st[to] = "Connected" => <<kind, to>> \in AsSession!InputEffects(st, side)
  BY <1>2, EffectsLaw
<1>5. CASE Over(World')
  <2>1. AsSession!After(Socks, <<"end", side>>, place) /\ handler' = handler
    BY <1>3, <1>5, EndLaw
  <2> QED
    BY <1>2, <1>4, <2>1
<1>6. ASSUME Running(World'), NEW to \in Sides, NEW b \in BOOLEAN, st[to] = "Connected",
             Watches(Socks, to, b, place)
      PROVE  \E effect \in AsSession!InputEffects(st, side) : AsSession!After(Socks, effect, place)
  <2>1. Socks[to].wr \in BOOLEAN
    BY <1>1, <1>6, BothRun
  <2>2. \/ AsSession!After(Socks, <<"keep", to>>, place)
        \/ AsSession!After(Socks, <<"sent", to>>, place)
    <3>1. Effects(Socks, to, b, place)
      BY <1>6, <2>1, WatchLaw
    <3> QED
      BY <3>1, Zenon DEF Effects
  <2>3. /\ <<"keep", to>> \in AsSession!InputEffects(st, side)
        /\ <<"sent", to>> \in AsSession!InputEffects(st, side)
    BY <1>4, <1>6
  <2> QED
    BY <2>2, <2>3, Zenon
<1>7. CASE Running(World')
  <2>1. handler' = handler /\ proxy'.wr \in BOOLEAN /\ local'.wr \in BOOLEAN
    BY <1>1, <1>7, BothRun
  <2>2. CASE side = "local" /\ TouchesFile(World, World')
    <3>1. /\ Socks' = Socks /\ place' = place
          /\ cache'.file.open = cache.file.open \/ (~ cache.file.open /\ cache'.file.open)
      BY <1>1, <1>7, <2>2, TouchLaw
    <3>2. CASE cache'.file.open = cache.file.open
      <4>1. Socks' = [Socks EXCEPT !["local"].wr = Socks["local"].wr]
        BY <3>1 DEF Socks, SocketOf
      <4>2. Watches(Socks, "local", Socks["local"].wr, place)
        BY <3>1, <3>2, <4>1, Zenon DEF Watches
      <4>3. "local" \in Sides /\ Socks["local"].wr \in BOOLEAN
        <5>1. "local" \in Sides
          BY DEF Sides
        <5> QED
          BY <1>1, <1>7, <5>1, BothRun
      <4> QED
        BY <1>2, <1>6, <1>7, <2>1, <4>2, <4>3
    <3>3. CASE ~ cache.file.open /\ cache'.file.open
      <4>1. AsSession!After(Socks, <<"spill", "local">>, place)
        <5>1. cache'.file.open = TRUE
          BY <1>1, <1>7, <3>3, BothRun
        <5> QED
          BY <3>1, <3>3, <5>1 DEF AsSession!After, Socks
      <4>2. <<"spill", "local">> \in AsSession!InputEffects(st, side)
        BY <1>2, <2>2, EffectsLaw
      <4> QED
        BY <2>1, <4>1, <4>2
    <3> QED
      BY <3>1, <3>2, <3>3
  <2>3. CASE TouchesProxy(World, World') /\ World.proxy.status = "Connected"
    <3>1. Watches(Socks, "proxy", proxy'.wr, place) /\ "proxy" \in Sides
      BY <1>1, <1>7, <2>3, TouchLaw DEF Sides
    <3> QED
      BY <1>2, <1>6, <1>7, <2>1, <2>3, <3>1
  <2>4. CASE TouchesLocal(World, World')
    <3>1. Watches(Socks, "local", local'.wr, place) /\ "local" \in Sides
      BY <1>1, <1>7, <2>4, TouchLaw DEF Sides
    <3> QED
      BY <1>2, <1>6, <1>7, <2>1, <3>1
  <2>5. ~ Over(World') => \/ side = "local" /\ TouchesFile(World, World')
                          \/ TouchesProxy(World, World') /\ World.proxy.status = "Connected"
                          \/ TouchesLocal(World, World')
    <3>1. side = "local" \/ (side = "proxy" /\ World.proxy.status = "Connected")
      BY <1>1, WorldIs DEF Sides
    <3> QED
      BY <1>1, <3>1 DEF LocalInput, ProxyInput
  <2> QED
    BY <1>5, <2>2, <2>3, <2>4, <2>5
<1> QED
  BY <1>1, <1>5, <1>7

\* A dispatch that writes does what a session's does.
LEMMA SessionWrites ==
  ASSUME Inv, NEW side \in Sides, Writable(side)
  PROVE  place' = "crashed" \/ AsSession!Writable(side)
<1> DEFINE st == AsSession!Status
<1>1. /\ Running(World) /\ World[side].status = "Connected" /\ World[side].wr
      /\ \/ Over(World')
         \/ Running(World') /\ IF side = "local" THEN TouchesLocal(World, World')
                               ELSE TouchesProxy(World, World')
  BY WritableLaw
<1>2. Socks[side].wr /\ st[side] = "Connected"
  BY <1>1, SessionIs
<1>3. handler
  BY <1>1, WorldIs DEF Running, Going
<1> SUFFICES ASSUME place' # "crashed"
             PROVE  /\ \E effect \in AsSession!OutputEffects(st, side) :
                         AsSession!After(Socks, effect, place)
                    /\ handler' = handler
  BY <1>2 DEF AsSession!Writable, Socks
<1> HIDE DEF st
<1>4. \A kind \in {"none", "sent", "end"} : <<kind, side>> \in AsSession!OutputEffects(st, side)
  BY <1>2, EffectsLaw
<1>5. CASE Over(World')
  <2>1. AsSession!After(Socks, <<"end", side>>, place) /\ handler' = handler
    BY <1>3, <1>5, EndLaw
  <2> QED
    BY <1>4, <2>1
<1>6. CASE Running(World') /\ ~ Over(World')
  <2>1. /\ handler' = handler /\ proxy'.wr \in BOOLEAN /\ local'.wr \in BOOLEAN
        /\ Socks[side].wr \in BOOLEAN
    BY <1>1, <1>6, BothRun
  <2>2. PICK b \in BOOLEAN : Watches(Socks, side, b, place)
    <3>1. CASE side = "local"
      <4>1. Watches(Socks, "local", local'.wr, place)
        BY <1>1, <1>6, <3>1, TouchLaw
      <4> QED
        BY <2>1, <3>1, <4>1
    <3>2. CASE side = "proxy"
      <4>1. Watches(Socks, "proxy", proxy'.wr, place)
        BY <1>1, <1>6, <3>2, TouchLaw
      <4> QED
        BY <2>1, <3>2, <4>1
    <3> QED
      BY <3>1, <3>2 DEF Sides
  <2>3. \/ AsSession!After(Socks, <<"none", side>>, place)
        \/ AsSession!After(Socks, <<"sent", side>>, place)
    <3>1. Effects(Socks, side, b, place)
      BY <2>1, <2>2, WatchLaw
    <3>2. CASE b
      <4>1. b = Socks[side].wr
        BY <1>2, <2>1, <3>2
      <4> QED
        BY <3>1, <4>1, Zenon DEF Effects
    <3>3. CASE ~ b
      BY <3>1, <3>3, Zenon DEF Effects
    <3> QED
      BY <3>2, <3>3
  <2> QED
    BY <1>4, <2>1, <2>3
<1> QED
  BY <1>1, <1>5, <1>6

\* A pair of sockets is a record or a function of the side.
LEMMA Pairs ==
  /\ \A a, b, c : [[local |-> a, proxy |-> b] EXCEPT !["proxy"] = c] = [local |-> a, proxy |-> c]
  /\ \A c : [side \in Sides |-> c] = [local |-> c, proxy |-> c]
  /\ \A a, b : [local |-> a, proxy |-> b]["proxy"] = b
<1>1. \A a, b, c : [[local |-> a, proxy |-> b] EXCEPT !["proxy"] = c] = [local |-> a, proxy |-> c]
  OBVIOUS
<1>2. \A c : [side \in Sides |-> c] = [local |-> c, proxy |-> c]
  BY DEF Sides
<1>3. \A a, b : [local |-> a, proxy |-> b]["proxy"] = b
  OBVIOUS
<1> QED
  BY <1>1, <1>2, <1>3, Zenon

\* v is k with y for the watch x of the second one.
Paired(k, x, v, y) == v = [k EXCEPT !["proxy"].wr = y] /\ k["proxy"].wr = x

\* So it is when they agree in the rest.
LEMMA PairWatched ==
  ASSUME NEW a, NEW st, NEW r, NEW x, NEW y,
         NEW k, k = [local |-> a, proxy |-> [status |-> st, rd |-> r, wr |-> x]],
         NEW v, v = [local |-> a, proxy |-> [status |-> st, rd |-> r, wr |-> y]]
  PROVE  Paired(k, x, v, y)
BY DEF Paired

\* k when connect() is done.
LEMMA PairOpened ==
  ASSUME NEW a, NEW b, NEW c, NEW k, k = [[local |-> a, proxy |-> b] EXCEPT !["proxy"] = c]
  PROVE  k = [local |-> a, proxy |-> c]
OBVIOUS

\* So does the dispatch in which connect() is done.
LEMMA SessionConnects ==
  ASSUME Inv, NEW ok \in BOOLEAN, ConnectDone(ok)
  PROVE  place' = "crashed" \/ AsSession!Writable("proxy")
<1> DEFINE st == AsSession!Status
<1>1. /\ Running(World) /\ World.proxy.status = "Connecting" /\ World.proxy.wr
      /\ Over(World') \/ (Running(World') /\ Opened(World, World'))
  BY ConnectDoneLaw
<1>2. Socks["proxy"].wr /\ st["proxy"] = "Connecting"
  <2>1. "proxy" \in Sides /\ World.proxy = World["proxy"]
    BY DEF Sides
  <2> QED
    BY <1>1, <2>1, SessionIs
<1>3. handler
  BY <1>1, WorldIs DEF Running, Going
<1> DEFINE k == [Socks EXCEPT !["proxy"] = AsSession!Connected]
<1> SUFFICES ASSUME place' # "crashed"
             PROVE  /\ \/ \E effect \in AsSession!OutputEffects(st, "proxy") :
                            AsSession!After(Socks, effect, place)
                       \/ \E effect \in AsSession!SendEffects("proxy") :
                            AsSession!After(k, effect, place)
                    /\ handler' = handler
  BY <1>2 DEF AsSession!Writable, Socks
<1> HIDE DEF st
<1>4. CASE Over(World')
  <2>1. AsSession!After(Socks, <<"end", "proxy">>, place) /\ handler' = handler
    BY <1>3, <1>4, EndLaw
  <2>2. <<"end", "proxy">> \in AsSession!OutputEffects(st, "proxy")
    BY <1>2, EffectsLaw
  <2> QED
    BY <2>1, <2>2
<1>5. CASE Running(World') /\ Opened(World, World')
  <2> DEFINE b == proxy'.wr
  <2>1. handler' = handler /\ place' = place /\ b \in BOOLEAN
    BY <1>1, <1>5, BothRun
  <2>2. /\ local'.status = local.status /\ local'.rd = local.rd /\ local'.wr = local.wr
        /\ proxy'.status = "Connected" /\ proxy'.rd /\ cache'.file.open = cache.file.open
    BY <1>5 DEF Opened, SameSocket, World
  <2>3. proxy'.rd = TRUE
    <3>1. World'.proxy = proxy' /\ World'.proxy \in Connections
      BY <1>5, AskedUp DEF World, Running, Going
    <3> QED
      BY <2>2, <3>1 DEF Connections
  <2>4. Socks' = [local |-> SocketOf(local'), proxy |-> SocketOf(proxy')]
    BY DEF Socks, SocketOf
  <2>5. k = [local |-> SocketOf(local), proxy |-> [status |-> "Connected", rd |-> TRUE, wr |-> FALSE]]
    <3>1. k = [[local |-> SocketOf(local), proxy |-> SocketOf(proxy)]
                 EXCEPT !["proxy"] = AsSession!Connected]
      BY DEF Socks
    <3>2. AsSession!Connected = [status |-> "Connected", rd |-> TRUE, wr |-> FALSE]
      BY DEF AsSession!Connected
    <3> HIDE DEF k
    <3>3. k = [local |-> SocketOf(local), proxy |-> AsSession!Connected]
      BY <3>1, PairOpened
    <3> QED
      BY <3>2, <3>3, Zenon
  <2> HIDE DEF b, k
  <2>6. Socks' = [k EXCEPT !["proxy"].wr = b]
    <3>1. SocketOf(local') = SocketOf(local)
      BY <2>2 DEF SocketOf
    <3>2. SocketOf(proxy') = [status |-> "Connected", rd |-> TRUE, wr |-> b]
      BY <2>2, <2>3 DEF SocketOf, b
    <3>3. Paired(k, FALSE, Socks', b)
      BY <2>4, <2>5, <3>1, <3>2, PairWatched
    <3> QED
      BY <3>3, Zenon DEF Paired
  <2>0. k["proxy"].wr \in BOOLEAN
    <3>1. k["proxy"] = [status |-> "Connected", rd |-> TRUE, wr |-> FALSE]
      BY <2>5
    <3> QED
      BY <3>1
  <2>7. Watches(k, "proxy", b, place)
    BY <2>1, <2>2, <2>6, Zenon DEF Watches
  <2>8. Effects(k, "proxy", b, place)
    <3>1. b \in BOOLEAN
      BY <2>1
    <3> QED
      BY <2>0, <2>7, <3>1, WatchLaw
  <2>9. \/ AsSession!After(k, <<"keep", "proxy">>, place)
        \/ AsSession!After(k, <<"sent", "proxy">>, place)
    BY <2>8, Zenon DEF Effects
  <2>10. /\ <<"keep", "proxy">> \in AsSession!SendEffects("proxy")
         /\ <<"sent", "proxy">> \in AsSession!SendEffects("proxy")
    BY EffectsLaw DEF Sides
  <2> QED
    BY <2>1, <2>9, <2>10, Zenon
<1> QED
  BY <1>1, <1>4, <1>5

\* A tunnel that is out of use, and one that is held, have neither socket nor file.
LEMMA NoSocks ==
  ASSUME Quiet(World)
  PROVE  Socks = AsSession!NoSockets /\ cache.file.open = FALSE
<1>1. local = NewConnection /\ proxy = NewConnection /\ cache.file = NoFile
  BY WorldIs DEF Quiet
<1>2. SocketOf(NewConnection) = AsSession!Closed
  BY DEF SocketOf, NewConnection, AsSession!Closed
<1> QED
  BY <1>1, <1>2, SessionIs DEF AsSession!NoSockets, Sides, Socks, NoFile

\* The same of the next state.
LEMMA NoSocksNext ==
  ASSUME Quiet(World')
  PROVE  Socks' = AsSession!NoSockets /\ cache'.file.open = FALSE
<1>1. local' = NewConnection /\ proxy' = NewConnection /\ cache'.file = NoFile
  BY DEF Quiet, World
<1>2. SocketOf(NewConnection) = AsSession!Closed
  BY DEF SocketOf, NewConnection, AsSession!Closed
<1>3. Socks' = [local |-> SocketOf(local'), proxy |-> SocketOf(proxy')]
  BY DEF Socks, SocketOf
<1> QED
  BY <1>1, <1>2, <1>3, SessionIs DEF AsSession!NoSockets, Sides, NoFile

\* onAccept() is Accept, or AcceptFails.
LEMMA SessionAccepts ==
  ASSUME Inv, NEW o \in ConnectOutcomes, OnAccept(o)
  PROVE  AsSession!Accept \/ AsSession!AcceptFails
<1>1. /\ Idle(World) /\ World.place = "free"
      /\ BegunNow(World, World') \/ BegunLater(World') \/ Rejected(World, World')
  BY OnAcceptLaw
<1>2. place = "free" /\ Socks = AsSession!NoSockets /\ cache.file.open = FALSE
  BY <1>1, NoSocks, WorldIs DEF Idle
<1>3. /\ World.handler = handler /\ World'.handler = handler' /\ World'.place = place'
      /\ World'.local = local' /\ World'.proxy = proxy' /\ World'.cache = cache'
  BY DEF World
<1> DEFINE both == [side \in AsSession!Side |-> AsSession!Connected]
           half == [local |-> AsSession!Connected, proxy |-> AsSession!Connecting]
<1>4. Socks' = [local |-> SocketOf(local'), proxy |-> SocketOf(proxy')]
  BY DEF Socks, SocketOf
<1>5. /\ both = [local |-> [status |-> "Connected", rd |-> TRUE, wr |-> FALSE],
                 proxy |-> [status |-> "Connected", rd |-> TRUE, wr |-> FALSE]]
      /\ half = [local |-> [status |-> "Connected", rd |-> TRUE, wr |-> FALSE],
                 proxy |-> [status |-> "Connecting", rd |-> FALSE, wr |-> TRUE]]
  BY SessionIs, Pairs, Zenon DEF AsSession!Connected, AsSession!Connecting
<1>6. \A kind \in {"none", "keep", "sent", "end"} : <<kind, "proxy">> \in AsSession!SendEffects("proxy")
  BY EffectsLaw DEF Sides
<1>7. ASSUME handler' = TRUE, NEW kind \in {"none", "keep", "sent", "end"},
             AsSession!After(both, <<kind, "proxy">>, "active")
      PROVE  AsSession!Accept
  BY <1>2, <1>6, <1>7 DEF AsSession!Accept
<1>8. ASSUME Running(World'), Begun(World')
      PROVE  /\ handler' = TRUE /\ place' = "active" /\ cache'.file.open = cache.file.open
             /\ SocketOf(local') = [status |-> "Connected", rd |-> TRUE, wr |-> FALSE]
             /\ proxy' \in Connections
  <2>1. World'.handler /\ World'.place = "active" /\ Sane(World')
    BY <1>8 DEF Running, Going
  <2>2. /\ World' \in Worlds /\ World'.local \in Connections /\ World'.proxy \in Connections
    BY <2>1, AskedUp
  <2>3. local' \in Connections /\ proxy' \in Connections /\ handler' \in BOOLEAN
    BY <1>3, <2>2 DEF Worlds
  <2>4. local'.status = "Connected" /\ local'.rd = TRUE /\ local'.wr = FALSE /\ cache'.file.open = FALSE
    BY <1>3, <1>8, <2>3 DEF Begun, Connections
  <2> QED
    BY <1>2, <1>3, <2>1, <2>3, <2>4 DEF SocketOf
<1>9. CASE World.handler /\ Ended(World')
  <2>1. handler' = TRUE
    BY <1>3, <1>9 DEF Ended, Sane, Worlds
  <2>2. /\ Socks' = AsSession!NoSockets /\ cache'.file.open = FALSE /\ place' = "broken" /\ handler
    BY <1>3, <1>9, NoSocksNext DEF Ended
  <2>3. AsSession!After(both, <<"end", "proxy">>, "active")
    BY <2>2 DEF AsSession!After, Socks
  <2> QED
    BY <1>7, <2>1, <2>3
<1>10. CASE ~ World.handler /\ Dead(World')
  <2>1. handler' = TRUE
    BY <1>3, <1>10 DEF Dead, Sane, Worlds
  <2>2. /\ Socks' = AsSession!NoSockets /\ cache'.file.open = FALSE /\ place' = "active" /\ ~ handler
    BY <1>3, <1>10, NoSocksNext DEF Dead
  <2>3. AsSession!After(both, <<"end", "proxy">>, "active")
    BY <2>2 DEF AsSession!After, Socks
  <2> QED
    BY <1>7, <2>1, <2>3
<1>11. CASE /\ Running(World') /\ Begun(World')
            /\ World'.proxy.status = "Connected" /\ World'.proxy.rd
  <2> DEFINE b == proxy'.wr
  <2>1. /\ handler' = TRUE /\ place' = "active" /\ cache'.file.open = cache.file.open
        /\ SocketOf(local') = [status |-> "Connected", rd |-> TRUE, wr |-> FALSE]
        /\ proxy' \in Connections
    BY <1>8, <1>11
  <2>2. proxy'.status = "Connected" /\ proxy'.rd = TRUE /\ b \in BOOLEAN
    BY <1>3, <1>11, <2>1 DEF Connections
  <2>3. Socks' = [both EXCEPT !["proxy"].wr = b]
    <3>1. SocketOf(proxy') = [status |-> "Connected", rd |-> TRUE, wr |-> b]
      BY <2>2 DEF SocketOf
    <3> HIDE DEF both, b
    <3>2. Paired(both, FALSE, Socks', b)
      BY <1>4, <1>5, <2>1, <3>1, PairWatched
    <3> QED
      BY <3>2, Zenon DEF Paired
  <2>0. both["proxy"].wr \in BOOLEAN
    BY <1>5, Pairs
  <2> HIDE DEF both, b
  <2>4. Watches(both, "proxy", b, "active")
    BY <2>1, <2>3, Zenon DEF Watches
  <2>5. Effects(both, "proxy", b, "active")
    BY <2>0, <2>2, <2>4, WatchLaw
  <2>6. \/ AsSession!After(both, <<"keep", "proxy">>, "active")
        \/ AsSession!After(both, <<"sent", "proxy">>, "active")
    BY <2>5, Zenon DEF Effects
  <2> QED
    BY <1>7, <2>1, <2>6
<1>12. CASE BegunLater(World')
  <2>1. /\ handler' = TRUE /\ place' = "active" /\ cache'.file.open = cache.file.open
        /\ SocketOf(local') = [status |-> "Connected", rd |-> TRUE, wr |-> FALSE]
        /\ proxy' \in Connections
    BY <1>8, <1>12 DEF BegunLater
  <2>2. proxy'.status = "Connecting" /\ proxy'.rd = FALSE /\ proxy'.wr = TRUE
    BY <1>3, <1>12, <2>1 DEF BegunLater, Connections
  <2> DEFINE b == proxy'.wr
  <2>0. b \in BOOLEAN /\ half["proxy"].wr = b
    BY <1>5, <2>2, Pairs
  <2>3. Socks' = [half EXCEPT !["proxy"].wr = b]
    <3>1. SocketOf(proxy') = [status |-> "Connecting", rd |-> FALSE, wr |-> b]
      BY <2>2 DEF SocketOf
    <3>2. b = TRUE
      BY <2>2
    <3> HIDE DEF half, both, b
    <3>3. Paired(half, TRUE, Socks', b)
      <4>1. /\ half = [local |-> [status |-> "Connected", rd |-> TRUE, wr |-> FALSE],
                       proxy |-> [status |-> "Connecting", rd |-> FALSE, wr |-> TRUE]]
            /\ Socks' = [local |-> [status |-> "Connected", rd |-> TRUE, wr |-> FALSE],
                         proxy |-> [status |-> "Connecting", rd |-> FALSE, wr |-> b]]
        BY <1>4, <1>5, <2>1, <3>1, Zenon
      <4> QED
        BY <4>1, PairWatched
    <3> QED
      BY <3>3, Zenon DEF Paired
  <2> HIDE DEF half, both, b
  <2>4. Watches(half, "proxy", b, "active")
    BY <2>1, <2>3, Zenon DEF Watches
  <2>5. Effects(half, "proxy", b, "active")
    <3>1. b \in BOOLEAN
      BY <2>0
    <3>2. half["proxy"].wr \in BOOLEAN
      BY <2>0
    <3> QED
      BY <2>4, <3>1, <3>2, WatchLaw
  <2>6. AsSession!After(half, <<"none", "proxy">>, "active")
    BY <2>0, <2>5, Zenon DEF Effects
  <2> QED
    BY <1>2, <2>1, <2>6 DEF AsSession!Accept, half
<1>13. CASE Rejected(World, World')
  <2>1. Socks' = Socks /\ cache'.file.open = cache.file.open /\ place' = "broken" /\ handler' = handler
    BY <1>2, <1>3, <1>13, NoSocksNext DEF Rejected, Idle
  <2> QED
    BY <1>2, <2>1 DEF AsSession!AcceptFails, Socks
<1> QED
  BY <1>1, <1>9, <1>10, <1>11, <1>12, <1>13 DEF BegunNow

\* A client that could not be accepted is AcceptFails.
LEMMA SessionRefuses ==
  ASSUME Inv, OnAcceptRefused
  PROVE  AsSession!AcceptFails
<1>1. Idle(World) /\ World.place = "free" /\ Rejected(World, World')
  BY OnAcceptRefusedLaw
<1>2. place = "free" /\ Socks = AsSession!NoSockets /\ cache.file.open = FALSE
  BY <1>1, NoSocks, WorldIs DEF Idle
<1>3. World.handler = handler /\ World'.handler = handler' /\ World'.place = place'
  BY DEF World
<1>4. Socks' = Socks /\ cache'.file.open = cache.file.open /\ place' = "broken" /\ handler' = handler
  BY <1>1, <1>2, <1>3, NoSocksNext DEF Rejected, Idle
<1> QED
  BY <1>2, <1>4 DEF AsSession!AcceptFails, Socks

\* The tunnel is taken back with its handler.
LEMMA SessionReclaims ==
  ASSUME ReclaimTunnel
  PROVE  AsSession!Reclaim
<1>1. /\ place = "broken" /\ place' = "free" /\ local' = local /\ proxy' = proxy /\ cache' = cache
      /\ handler' = handler
  BY DEF ReclaimTunnel
<1>2. handler' \in {handler, FALSE}
  BY <1>1
<1>3. SocketOf(local') = SocketOf(local) /\ SocketOf(proxy') = SocketOf(proxy)
  BY <1>1
<1> QED
  BY <1>1, <1>2, <1>3 DEF AsSession!Reclaim, SocketOf

\* The peers and the other sockets do nothing to a session.
LEMMA SessionSpared ==
  ASSUME Spared
  PROVE  UNCHANGED AsSession!vars
<1>1. /\ World'.local = World.local /\ World'.proxy = World.proxy /\ World'.cache = World.cache
      /\ World'.handler = World.handler /\ World'.place = World.place
  BY DEF Spared, Netted
<1>2. local' = local /\ proxy' = proxy /\ cache' = cache /\ handler' = handler /\ place' = place
  BY <1>1 DEF World
<1> QED
  BY <1>2 DEF AsSession!vars, SocketOf

\* A new tunnel is a new session.
LEMMA SessionInit == Init => AsSession!Init
<1> SUFFICES ASSUME Init PROVE AsSession!Init
  OBVIOUS
<1>1. Quiet(World) /\ handler = FALSE /\ place = "free"
  BY WorldIs DEF Init, Quiet, NewCache
<1>2. Socks = AsSession!NoSockets /\ cache.file.open = FALSE
  BY <1>1, NoSocks
<1> QED
  BY <1>1, <1>2 DEF AsSession!Init, Socks

\* Every step of a tunnel is one of a session, or none, or the process is gone.
SessionStep == [AsSession!Next \/ place' = "crashed"]_(AsSession!vars)

\* So it is.
LEMMA SessionNext == Inv /\ [Next]_vars => SessionStep
<1> SUFFICES ASSUME Inv, [Next]_vars PROVE SessionStep
  OBVIOUS
<1>1. ASSUME AsSession!Next \/ place' = "crashed" \/ UNCHANGED AsSession!vars PROVE SessionStep
  BY <1>1, Zenon DEF SessionStep
<1>2. \A side \in Sides : AsSession!Readable(side) \/ AsSession!Writable(side) => AsSession!Next
  BY SessionIs, Zenon DEF AsSession!Next
<1>3. AsSession!Accept \/ AsSession!AcceptFails \/ AsSession!Reclaim => AsSession!Next
  BY Zenon DEF AsSession!Next
<1>4. ASSUME NEW o \in ConnectOutcomes, OnAccept(o) PROVE SessionStep
  BY <1>1, <1>3, <1>4, SessionAccepts
<1>5. ASSUME OnAcceptRefused PROVE SessionStep
  BY <1>1, <1>3, <1>5, SessionRefuses
<1>6. ASSUME ReclaimTunnel PROVE SessionStep
  BY <1>1, <1>3, <1>6, SessionReclaims
<1>7. ASSUME NEW side \in Sides, Readable(side) PROVE SessionStep
  BY <1>1, <1>2, <1>7, SessionReads
<1>8. ASSUME NEW side \in Sides, Writable(side) PROVE SessionStep
  BY <1>1, <1>2, <1>8, SessionWrites
<1>9. ASSUME NEW ok \in BOOLEAN, ConnectDone(ok) PROVE SessionStep
  <2>1. "proxy" \in Sides
    BY DEF Sides
  <2> QED
    BY <1>1, <1>2, <1>9, <2>1, SessionConnects
<1>10. ASSUME Spared PROVE SessionStep
  BY <1>1, <1>10, SessionSpared
<1>11. ASSUME NEW e \in Errno, OtherSocket(e) PROVE SessionStep
  BY <1>10, <1>11, OtherSocketStep
<1>12. ASSUME ClientWrites PROVE SessionStep
  BY <1>10, <1>12, ClientWritesStep
<1>13. ASSUME NEW line \in {StatusOK, StatusDenied, HeaderLine, BlankLine}, ProxyAnswers(line)
       PROVE  SessionStep
  BY <1>10, <1>13, ProxyAnswersStep
<1>14. ASSUME ServerWrites PROVE SessionStep
  BY <1>10, <1>14, ServerWritesStep
<1>15. ASSUME NEW side \in Sides, NEW how \in {"eof", "reset"}, PeerEnds(side, how) PROVE SessionStep
  BY <1>10, <1>15, PeerEndsStep
<1>16. ASSUME UNCHANGED vars PROVE SessionStep
  <2>1. local' = local /\ proxy' = proxy /\ cache' = cache /\ handler' = handler /\ place' = place
    BY <1>16 DEF vars
  <2>2. UNCHANGED AsSession!vars
    BY <2>1 DEF AsSession!vars, SocketOf
  <2> QED
    BY <1>1, <2>2
<1> QED
  BY <1>4, <1>5, <1>6, <1>7, <1>8, <1>9, <1>11, <1>12, <1>13, <1>14, <1>15, <1>16, Zenon
     DEF Next, Sides

\* With its bytes, phases and nested callbacks a tunnel does to its sockets and its
\* file just what ProxyClient counts on: it implements Session, until the process
\* is aborted.
THEOREM TunnelIsSession == Spec => ImplementsSession
<1>1. Init => AsSession!Init
  BY SessionInit
<1>2. Inv /\ [Next]_vars => [AsSession!Next \/ place' = "crashed"]_(AsSession!vars)
  BY SessionNext DEF SessionStep
<1> QED
  BY <1>1, <1>2, TunnelInvariant, PTL DEF Spec, ImplementsSession
=============================================================================
