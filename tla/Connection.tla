------------------------------ MODULE Connection ------------------------------
(***************************************************************************)
(* The class Connection (src/connection.h, src/connection.cpp): one        *)
(* non-blocking TCP socket, the packets that the kernel has not yet taken  *)
(* and the two flags that mirror its registration in the poller.           *)
(*                                                                         *)
(* A connection is a record; a method is an operator on it.  A method that *)
(* calls ::send is a set of results, one for each answer of the kernel.    *)
(* ConnectionUse drives a single connection, ProxyTunnel composes two.     *)
(*                                                                         *)
(* Abstraction of mTcpPacketList: its packets are laid end to end in       *)
(* `pending' and `ends' holds the offsets at which one of them ends, so    *)
(* that the part of the head packet below `sentlen' is simply absent.      *)
(***************************************************************************)
EXTENDS Integers, Sequences

CONSTANTS MAXLEN,    \* bytes asked of one recv()
          LIMIT_LEN  \* bytes after which one notification stops reading

ASSUME RecvAssumption ==
  /\ MAXLEN \in Nat \ {0}
  /\ LIMIT_LEN \in Nat \ {0}
  /\ LIMIT_LEN % MAXLEN = 0

ConnStatus == {"Closed", "Error", "Connecting", "Connected"}

\* What a byte is does not matter here: ConnectionUse numbers the bytes, and in
\* ProxyTunnel some stand for a line.
Byte == Int

\* The one bit of errno that _checkSocketErrors looks at.  "OTHER" is any
\* other value, the zero of a process that never failed included.
Errno == {"EAGAIN", "OTHER"}

NewConnection ==
  [open |-> FALSE, status |-> "Closed", handler |-> FALSE,
   rd |-> FALSE, wr |-> FALSE, pending |-> <<>>, ends |-> {}]

-----------------------------------------------------------------------------
(* Registration flags and life cycle.                                      *)

Unwatched(c) == [c EXCEPT !.rd = FALSE, !.wr = FALSE]

Shutdown(c) ==
  IF c.open
  THEN [Unwatched(c) EXCEPT !.open = FALSE, !.status = "Closed",
                            !.pending = <<>>, !.ends = {}]
  ELSE c

\* acceptConnection when fcntl succeeds; when it fails, or when the object is
\* in use, the object is left as it was.
AcceptConnection(c) == [c EXCEPT !.open = TRUE, !.status = "Connected", !.rd = TRUE]

\* connect(): "now" is a ::connect that returns 0, "progress" is EINPROGRESS,
\* "fail" any other outcome of socket, fcntl and ::connect.  The caller runs
\* onConnected after "now".
Connect(c, outcome) ==
  LET d == Shutdown(c)
  IN  CASE outcome = "now"      -> [d EXCEPT !.open = TRUE, !.status = "Connected", !.rd = TRUE]
        [] outcome = "progress" -> [d EXCEPT !.open = TRUE, !.status = "Connecting", !.wr = TRUE]
        [] outcome = "fail"     -> d

-----------------------------------------------------------------------------
(* Output.                                                                 *)

\* What the kernel can do with `len' bytes offered by ::send calls that start
\* at the offsets `starts', when errno is e: it takes n of them.  Stopping
\* where a call starts means that this call returned -1 and set errno;
\* stopping inside a call is a short count, which leaves errno alone.
KernelTakes(len, starts, e) ==
  {[n |-> n, errno |-> e, fault |-> FALSE] : n \in (0 .. len) \ (starts \ {len})}
    \cup
  {[n |-> n, errno |-> x, fault |-> x # "EAGAIN"] : n \in starts \ {len}, x \in Errno}

\* What a method that writes leaves: the connection, errno, the bytes the
\* kernel took, whether a ::send of this connection really failed, and whether
\* checkSocketErrors found an error, so that onError is due.
Result(c, e) == [conn |-> c, errno |-> e, out |-> <<>>, fault |-> FALSE, failed |-> FALSE]

\* The packets that remain once the kernel has taken n bytes.
Taken(c, n) ==
  [c EXCEPT !.pending = SubSeq(@, n + 1, Len(@)),
            !.ends    = {k - n : k \in {j \in @ : j > n}},
            !.wr      = @ /\ n < Len(c.pending)]

TryFlushRemainPacket(c, e) ==
  IF c.pending = <<>>
  THEN {Result(c, e)}
  ELSE {[Result(Taken(c, k.n), k.errno) EXCEPT !.out = SubSeq(c.pending, 1, k.n), !.fault = k.fault] :
           k \in KernelTakes(Len(c.pending), {0} \cup c.ends, e)}

\* MUTANTS of CachePacket: push_front; buflen is not set.
CachePacketFront(c, data) ==
  [c EXCEPT !.pending = data \o @, !.ends = @ \cup {Len(c.pending) + Len(data)}]
CachePacketUnsized(c, data) == [c EXCEPT !.pending = @ \o data]

CachePacket(c, data) ==
  [c EXCEPT !.pending = @ \o data,
            !.ends    = @ \cup {Len(c.pending) + Len(data)}]

\* The decision is taken from errno, whichever call left it there.
CheckSocketErrors(r) ==
  IF r.errno = "EAGAIN"
  THEN r
  ELSE [r EXCEPT !.failed = TRUE, !.conn = IF @.handler THEN Unwatched(@) ELSE @]

\* MUTANT of Keep: the write event is not registered.
KeepUnwatched(r, rest) ==
  LET s == CheckSocketErrors(r)
  IN  IF s.failed THEN s ELSE [s EXCEPT !.conn = CachePacket(@, rest)]

\* The end of send(): what the kernel did not take becomes a packet.
Keep(r, rest) ==
  LET s == CheckSocketErrors(r)
  IN  IF s.failed THEN s
      ELSE [s EXCEPT !.conn = [CachePacket(@, rest) EXCEPT !.wr = TRUE]]

Send(c, e, data) ==
  IF ~ (c.open /\ c.status = "Connected")
  THEN {Result(c, e)}
  ELSE UNION {IF f.conn.pending # <<>>
              THEN {Keep(f, data)}
              ELSE {IF k.n = Len(data)
                    THEN [f EXCEPT !.out = @ \o data]
                    ELSE Keep([f EXCEPT !.out   = @ \o SubSeq(data, 1, k.n),
                                        !.errno = k.errno,
                                        !.fault = k.fault],
                              SubSeq(data, k.n + 1, Len(data))) :
                       k \in KernelTakes(Len(data), {0}, f.errno)} :
                 f \in TryFlushRemainPacket(c, e)}

\* handleOutputNotification of an established connection ...
FlushWritable(c, e) == {CheckSocketErrors(f) : f \in TryFlushRemainPacket(c, e)}

\* ... and of one whose connect() was in progress: SO_ERROR tells the result.
\* onConnected is due after TRUE, onError after FALSE.
\* MUTANT of ConnectResolved: the read event is not registered.
ConnectResolvedDeaf(c, ok) ==
  IF ok THEN [c EXCEPT !.wr = FALSE, !.status = "Connected"]
        ELSE [Unwatched(c) EXCEPT !.status = "Error"]

ConnectResolved(c, ok) ==
  IF ok THEN [c EXCEPT !.wr = FALSE, !.rd = TRUE, !.status = "Connected"]
        ELSE [Unwatched(c) EXCEPT !.status = "Error"]

-----------------------------------------------------------------------------
(* Input.                                                                  *)

\* The loop of recv() calls in handleInputNotification, when `avail' bytes are
\* readable and the peer's side is `end' ("open", "eof" or "reset").  A short
\* recv() ends the loop without looking further; after a full one the loop
\* meets the end of the stream, or EAGAIN, unless LIMIT_LEN stops it.
\* MUTANT of Receive: recv() == 0 is taken for EAGAIN.
ReceiveNoEof(c, e, avail, end) ==
  LET n    == IF avail < LIMIT_LEN THEN avail ELSE LIMIT_LEN
      last == n < LIMIT_LEN /\ n % MAXLEN = 0
  IN  [n |-> n,
       status |-> IF last /\ end = "reset" THEN "Error" ELSE c.status,
       errno  |-> IF last /\ end = "open" THEN "EAGAIN" ELSE e]

Receive(c, e, avail, end) ==
  LET n    == IF avail < LIMIT_LEN THEN avail ELSE LIMIT_LEN
      last == n < LIMIT_LEN /\ n % MAXLEN = 0
  IN  [n      |-> n,
       status |-> CASE last /\ end = "eof"   -> "Closed"
                    [] last /\ end = "reset" -> "Error"
                    [] OTHER                 -> c.status,
       errno  |-> CASE last /\ end = "open"  -> "EAGAIN"
                    [] last /\ end = "reset" -> "OTHER"
                    [] OTHER                 -> e]
=============================================================================
