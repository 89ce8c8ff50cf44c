---------------------------- MODULE ConnectionUse ----------------------------
(***************************************************************************)
(* One Connection driven through every order of calls its owner may make   *)
(* and every answer the kernel may give, while other sockets of the same   *)
(* process overwrite errno.  The owner reacts to onError and onDisconnected *)
(* as ProxyTunnel does: it drops its handler and shuts the connection down. *)
(***************************************************************************)
EXTENDS Connection, FiniteSets

CONSTANTS MaxBytes,  \* bound: bytes handed to send() while one socket is open
          MaxSend,   \* bound: bytes handed to one send()
          MaxUnread  \* bound: bytes of the peer waiting in the kernel

ASSUME BoundAssumption == MaxBytes \in Nat /\ MaxSend \in Nat \ {0} /\ MaxUnread \in Nat

VARIABLES
  conn,    \* the object
  errno,
  given,   \* the bytes handed to send() since the socket was opened
  sent,    \* the bytes the kernel has taken since the socket was opened
  unread,  \* how many bytes of the peer wait in the kernel
  peer     \* the peer's side of the stream: "open", "eof" or "reset"

vars == <<conn, errno, given, sent, unread, peer>>

\* The k-th byte handed to send() is the number k.
NextBytes(n) == [i \in 1 .. n |-> Len(given) + i]

Init ==
  /\ conn = NewConnection
  /\ errno = "OTHER"
  /\ given = <<>> /\ sent = <<>>
  /\ unread = 0 /\ peer = "open"

\* What the owner's onError and onDisconnected do to this connection.
Dropped(c) == Shutdown([c EXCEPT !.handler = FALSE])

\* A new stream begins: nothing written, nothing received.
FreshStream == given' = <<>> /\ sent' = <<>> /\ unread' = 0 /\ peer' = "open"

Accept ==
  /\ ~ conn.open
  /\ conn' = [AcceptConnection(conn) EXCEPT !.handler = TRUE]
  /\ FreshStream
  /\ UNCHANGED errno

\* connect() is also the way to abandon the current stream: it shuts an open
\* socket down first.
DoConnect(outcome) ==
  /\ conn' = [Connect(conn, outcome) EXCEPT !.handler = outcome # "fail"]
  /\ errno' = IF outcome = "now" THEN errno ELSE "OTHER"
  /\ FreshStream

\* Adopt the result r of a call that writes; onError runs inside the call.
Finish(r) ==
  /\ conn' = IF r.failed THEN Dropped(r.conn) ELSE r.conn
  /\ errno' = r.errno
  /\ sent' = sent \o r.out
  /\ UNCHANGED <<unread, peer>>

DoSend(n) ==
  /\ conn.status = "Connected"
  /\ Len(given) + n <= MaxBytes
  /\ given' = given \o NextBytes(n)
  /\ \E r \in Send(conn, errno, NextBytes(n)) : Finish(r)

\* handleOutputNotification.
Resolve(ok) ==
  /\ conn.wr /\ conn.status = "Connecting"
  /\ LET c == ConnectResolved(conn, ok)
     IN  conn' = IF ok THEN c ELSE Dropped(c)
  /\ errno' = IF ok THEN errno ELSE "OTHER"
  /\ UNCHANGED <<given, sent, unread, peer>>

Writable ==
  /\ conn.wr /\ conn.status = "Connected"
  /\ \E r \in FlushWritable(conn, errno) : Finish(r)
  /\ UNCHANGED given

\* handleInputNotification; what it reads is handed to onRecv.
Readable ==
  /\ conn.rd /\ (unread > 0 \/ peer # "open")
  /\ LET r == Receive(conn, errno, unread, peer)
     IN  /\ unread' = unread - r.n
         /\ errno' = r.errno
         /\ conn' = IF r.status = "Connected" THEN conn
                    ELSE Dropped(Unwatched([conn EXCEPT !.status = r.status]))
  /\ UNCHANGED <<given, sent, peer>>

Close ==
  /\ conn.open
  /\ conn' = Dropped(conn)
  /\ UNCHANGED <<errno, given, sent, unread, peer>>

-----------------------------------------------------------------------------
(* The environment.                                                        *)

\* A system call made for another socket of the process.
OtherSocket(e) ==
  /\ errno' = e
  /\ UNCHANGED <<conn, given, sent, unread, peer>>

PeerWrites ==
  /\ conn.status = "Connected" /\ peer = "open" /\ unread < MaxUnread
  /\ unread' = unread + 1
  /\ UNCHANGED <<conn, errno, given, sent, peer>>

PeerEnds(how) ==
  /\ conn.status = "Connected" /\ peer = "open"
  /\ peer' = how
  /\ UNCHANGED <<conn, errno, given, sent, unread>>

Next ==
  \/ Accept
  \/ \E o \in {"now", "progress", "fail"} : DoConnect(o)
  \/ \E n \in 1 .. MaxSend : DoSend(n)
  \/ \E ok \in BOOLEAN : Resolve(ok)
  \/ Writable
  \/ Readable
  \/ Close
  \/ \E e \in Errno : OtherSocket(e)
  \/ PeerWrites
  \/ \E how \in {"eof", "reset"} : PeerEnds(how)

\* select() reports again and again what stays ready, so a notification that
\* stays due is delivered; the kernel makes room in the end, so that one of
\* the output notifications takes bytes.
Progress == Writable /\ conn'.pending # conn.pending

Fairness ==
  /\ WF_vars(\E ok \in BOOLEAN : Resolve(ok))
  /\ WF_vars(Progress)
  /\ WF_vars(Readable)

Spec == Init /\ [][Next]_vars
FairSpec == Spec /\ Fairness

-----------------------------------------------------------------------------
(* Properties.                                                             *)

\* The members of Connection have the types the header declares.
TypeOK ==
  /\ conn \in [open : BOOLEAN, status : ConnStatus, handler : BOOLEAN, rd : BOOLEAN,
               wr : BOOLEAN, pending : Seq(Byte), ends : SUBSET Nat]
  /\ errno \in Errno
  /\ given \in Seq(Byte) /\ sent \in Seq(Byte)
  /\ unread \in Nat
  /\ peer \in {"open", "eof", "reset"}

\* While the socket is open, what the kernel has taken followed by the kept
\* packets is exactly what the owner handed to send(): no byte is lost,
\* repeated or overtaken however the partial sends of send() and of
\* handleOutputNotification are cut.
StreamIntact == conn.open => sent \o conn.pending = given

\* Packets are kept only while an output notification will come for them, and
\* an output notification is asked for only while there is something to do:
\* otherwise kept data would never leave, or select() would spin.
WriteWatchExact ==
  conn.wr <=> conn.status = "Connecting" \/ conn.pending # <<>>

\* Between two calls a connection is either closed, without registration,
\* packets or handler, or it is live and watched for what its status waits
\* for: no error path leaves it half torn down.
WatchMatchesStatus ==
  /\ conn.status \in {"Closed", "Connecting", "Connected"}
  /\ conn.open <=> conn.status # "Closed"
  /\ conn.handler <=> conn.open
  /\ conn.rd <=> conn.status = "Connected"
  /\ conn.status # "Connected" => conn.pending = <<>>

\* A connection is registered for exactly what it waits for, whichever call,
\* notification or error came last.
WatchExact == WriteWatchExact /\ WatchMatchesStatus

\* assert(p->buflen > p->sentlen) in tryFlushRemainPacket: no packet of the
\* list is ever empty, and the last one ends where the kept bytes end.
PacketsNonEmpty ==
  /\ conn.ends \subseteq 1 .. Len(conn.pending)
  /\ conn.pending # <<>> => Len(conn.pending) \in conn.ends

\* Kept packets eventually leave, through the kernel or with the connection.
Drains == conn.pending # <<>> ~> conn.pending = <<>>

\* The end of the peer's stream, orderly or not, is eventually noticed.
NoticesEnd == conn.status = "Connected" /\ peer # "open" ~> peer = "open" \/ ~ conn.open
=============================================================================
