--------------------------- MODULE ConnectionProofs ---------------------------
(***************************************************************************)
(* The invariants of ConnectionUse hold for every choice of its constants. *)
(* StreamLemmas says what each method does to a sound connection; the      *)
(* invariance proof looks at one action at a time.                         *)
(***************************************************************************)
EXTENDS ConnectionUse, StreamLemmas

-----------------------------------------------------------------------------
(* The invariant: the conjunction of the properties is inductive.          *)

Inv == TypeOK /\ StreamIntact /\ WriteWatchExact /\ WatchMatchesStatus /\ PacketsNonEmpty

\* The bytes handed to one send() form a non-empty sequence.
LEMMA NextBytesType ==
  ASSUME NEW n \in Nat \ {0}, given \in Seq(Byte)
  PROVE  NextBytes(n) \in Seq(Byte) /\ NextBytes(n) # <<>>
<1>1. Len(given) \in Nat
  BY EmptyLen
<1>2. NextBytes(n) \in [1 .. n -> Byte]
  BY <1>1 DEF NextBytes, Byte
<1>3. NextBytes(n) \in Seq(Byte) /\ Len(NextBytes(n)) = n
  BY <1>2, SeqDef
<1> QED
  BY <1>3, EmptyLen

\* In a state of the invariant a connected socket is Established.
LEMMA ConnectedIsEstablished ==
  ASSUME Inv, conn.status = "Connected"
  PROVE  Established(conn)
BY DEF Inv, TypeOK, WriteWatchExact, WatchMatchesStatus, PacketsNonEmpty,
       Established, Connections, PacketsOK

\* A connection that its owner has dropped satisfies everything that the
\* invariant asks of a closed one.
LEMMA DroppedClosed ==
  ASSUME NEW c \in Connections, c.open
  PROVE  Dropped(c) = NewConnection
BY DEF Dropped, Shutdown, Unwatched, NewConnection, Connections

\* A step that leaves the connection closed establishes the invariant.
LEMMA ClosedInv ==
  ASSUME conn' = NewConnection, errno' \in Errno, given' \in Seq(Byte), sent' \in Seq(Byte),
         unread' \in Nat, peer' \in {"open", "eof", "reset"}
  PROVE  Inv'
<1>1. <<>> \in Seq(Byte) /\ Len(<<>>) = 0
  BY EmptySeq
<1>2. TypeOK'
  BY <1>1 DEF TypeOK, NewConnection, ConnStatus
<1>3. (StreamIntact /\ WriteWatchExact /\ WatchMatchesStatus)'
  BY DEF StreamIntact, WriteWatchExact, WatchMatchesStatus, NewConnection
<1>4. PacketsNonEmpty'
  BY <1>1 DEF PacketsNonEmpty, NewConnection
<1> QED
  BY <1>2, <1>3, <1>4 DEF Inv

\* The last step of a call that writes: if its result keeps the promise of
\* Wrote, the invariant holds again.
LEMMA FinishSound ==
  ASSUME Inv, conn.status = "Connected", NEW data \in Seq(Byte), NEW r,
         Wrote(conn, data, r), Finish(r), given' = given \o data
  PROVE  Inv'
<1>1. /\ r.conn \in Connections /\ r.conn.open /\ r.errno \in Errno /\ r.failed \in BOOLEAN /\ r.out \in Seq(Byte)
      /\ ~ r.failed => Established(r.conn) /\ r.out \o r.conn.pending = conn.pending \o data
  BY DEF Wrote
<1>2. /\ given \in Seq(Byte) /\ sent \in Seq(Byte) /\ conn.pending \in Seq(Byte)
      /\ unread \in Nat /\ peer \in {"open", "eof", "reset"}
  BY DEF Inv, TypeOK
<1>3. /\ sent' = sent \o r.out /\ errno' = r.errno /\ unread' = unread /\ peer' = peer
      /\ conn' = IF r.failed THEN Dropped(r.conn) ELSE r.conn
  BY DEF Finish
<1>4. given' \in Seq(Byte) /\ sent' \in Seq(Byte)
  BY <1>1, <1>2, <1>3, JoinLen
<1>5. CASE r.failed
  <2>1. conn' = NewConnection
    BY <1>1, <1>3, <1>5, DroppedClosed
  <2> QED
    BY <1>1, <1>2, <1>3, <1>4, <2>1, ClosedInv
<1>6. CASE ~ r.failed
  <2>1. conn' = r.conn /\ Established(conn')
    BY <1>1, <1>3, <1>6
  <2>2. sent' \o conn'.pending = given'
    <3>1. r.conn.pending \in Seq(Byte)
      BY <1>1 DEF Connections
    <3>2. (sent \o r.out) \o r.conn.pending = sent \o (r.out \o r.conn.pending)
      <4>1. sent \in Seq(Byte) /\ r.out \in Seq(Byte)
        BY <1>1, <1>2
      <4> QED
        BY <3>1, <4>1, JoinLaws, ZenonT(60)
    <3>3. (sent \o conn.pending) \o data = sent \o (conn.pending \o data)
      <4>1. sent \in Seq(Byte) /\ conn.pending \in Seq(Byte)
        BY <1>2
      <4> QED
        BY <4>1, JoinLaws, ZenonT(60)
    <3>4. sent \o conn.pending = given
      BY DEF Inv, StreamIntact, WatchMatchesStatus
    <3>5. r.out \o r.conn.pending = conn.pending \o data
      BY <1>1, <1>6
    <3> QED
      BY <1>3, <2>1, <3>2, <3>3, <3>4, <3>5
  <2> QED
    BY <1>1, <1>2, <1>3, <1>4, <2>1, <2>2
    DEF Inv, TypeOK, StreamIntact, WriteWatchExact, WatchMatchesStatus, PacketsNonEmpty,
        Established, Connections, PacketsOK
<1> QED
  BY <1>1, <1>5, <1>6

\* Every initial state satisfies the invariant.
LEMMA InitInv == Init => Inv
<1> SUFFICES ASSUME Init PROVE Inv
  OBVIOUS
<1>1. <<>> \in Seq(Byte) /\ Len(<<>>) = 0
  BY EmptySeq
<1> QED
  BY <1>1 DEF Init, NewConnection, Inv, TypeOK, StreamIntact, WriteWatchExact,
         WatchMatchesStatus, PacketsNonEmpty, ConnStatus, Errno

\* Every step preserves the invariant.
LEMMA NextInv == Inv /\ [Next]_vars => Inv'
<1> SUFFICES ASSUME Inv, [Next]_vars PROVE Inv'
  OBVIOUS
<1>1. /\ conn \in Connections /\ errno \in Errno
      /\ given \in Seq(Byte) /\ sent \in Seq(Byte)
      /\ unread \in Nat /\ peer \in {"open", "eof", "reset"}
  BY DEF Inv, TypeOK, Connections
<1>2. <<>> \in Seq(Byte) /\ <<>> \o <<>> = <<>>
  BY EmptySeq, JoinLaws
\* A stream that begins on a live socket satisfies the invariant.
<1>3. ASSUME FreshStream, errno' \in Errno, conn' \in Connections,
             conn'.open, conn'.handler, conn'.status \in {"Connecting", "Connected"},
             conn'.rd <=> conn'.status = "Connected", conn'.wr <=> conn'.status = "Connecting",
             conn'.pending = <<>>, conn'.ends = {}
      PROVE  Inv'
  <2>1. given' = <<>> /\ sent' = <<>> /\ unread' = 0 /\ peer' = "open"
    BY <1>3 DEF FreshStream
  <2>2. TypeOK'
    BY <1>2, <1>3, <2>1 DEF TypeOK, Connections
  <2> QED
    BY <1>2, <1>3, <2>1, <2>2
    DEF Inv, StreamIntact, WriteWatchExact, WatchMatchesStatus, PacketsNonEmpty
<1>4. ~ conn.open => conn = NewConnection
  BY <1>1 DEF Inv, WriteWatchExact, WatchMatchesStatus, PacketsNonEmpty, NewConnection, Connections
<1>5. LET d == Shutdown(conn)
      IN  /\ d \in Connections /\ ~ d.open /\ d.status = "Closed" /\ ~ d.rd /\ ~ d.wr
          /\ d.pending = <<>> /\ d.ends = {}
  <2>1. CASE conn.open
    BY <1>1, <1>2, <2>1 DEF Shutdown, Unwatched, Connections, ConnStatus
  <2>2. CASE ~ conn.open
    BY <1>1, <1>4, <2>2 DEF Shutdown, NewConnection
  <2> QED
    BY <2>1, <2>2
<1>6. CASE Accept
  <2>1. conn = NewConnection /\ FreshStream /\ errno' = errno
        /\ conn' = [AcceptConnection(conn) EXCEPT !.handler = TRUE]
    BY <1>4, <1>6 DEF Accept
  <2>2. conn' = [open |-> TRUE, status |-> "Connected", handler |-> TRUE,
                 rd |-> TRUE, wr |-> FALSE, pending |-> <<>>, ends |-> {}]
    BY <2>1 DEF AcceptConnection, NewConnection
  <2>3. conn' \in Connections
    BY <1>2, <2>2 DEF Connections, ConnStatus
  <2> QED
    BY <1>1, <1>3, <2>1, <2>2, <2>3
<1>7. ASSUME NEW o \in {"now", "progress", "fail"}, DoConnect(o)
      PROVE  Inv'
  <2>1. errno' \in Errno
    BY <1>1, <1>7 DEF DoConnect, Errno
  <2>2. FreshStream /\ conn' = [Connect(conn, o) EXCEPT !.handler = o # "fail"]
    BY <1>7 DEF DoConnect
  <2> DEFINE d == Shutdown(conn)
  <2>3. /\ d \in Connections /\ ~ d.open /\ d.status = "Closed" /\ ~ d.rd /\ ~ d.wr
        /\ d.pending = <<>> /\ d.ends = {}
    BY <1>5
  <2>4. CASE o = "fail"
    <3>1. conn' = [d EXCEPT !.handler = FALSE]
      BY <2>2, <2>4 DEF Connect
    <3> HIDE DEF d
    <3>2. conn' = NewConnection
      BY <2>3, <3>1 DEF Connections, NewConnection
    <3> QED
      BY <1>2, <2>1, <2>2, <3>2, ClosedInv DEF FreshStream
  <2>5. CASE o = "now"
    <3>1. conn' = [[d EXCEPT !.open = TRUE, !.status = "Connected", !.rd = TRUE] EXCEPT !.handler = TRUE]
      BY <2>2, <2>5 DEF Connect
    <3> HIDE DEF d
    <3> QED
      BY <1>3, <2>1, <2>2, <2>3, <3>1 DEF Connections, ConnStatus
  <2>6. CASE o = "progress"
    <3>1. conn' = [[d EXCEPT !.open = TRUE, !.status = "Connecting", !.wr = TRUE] EXCEPT !.handler = TRUE]
      BY <2>2, <2>6 DEF Connect
    <3> HIDE DEF d
    <3> QED
      BY <1>3, <2>1, <2>2, <2>3, <3>1 DEF Connections, ConnStatus
  <2> QED
    BY <2>4, <2>5, <2>6
<1>8. ASSUME NEW n \in 1 .. MaxSend, DoSend(n)
      PROVE  Inv'
  <2>1. conn.status = "Connected" /\ given' = given \o NextBytes(n)
    BY <1>8 DEF DoSend
  <2>2. PICK r \in Send(conn, errno, NextBytes(n)) : Finish(r)
    BY <1>8 DEF DoSend
  <2>3. NextBytes(n) \in Seq(Byte) /\ NextBytes(n) # <<>>
    <3>1. n \in Nat \ {0}
      BY BoundAssumption
    <3> QED
      BY <1>1, <3>1, NextBytesType
  <2>4. Wrote(conn, NextBytes(n), r)
    BY <1>1, <2>1, <2>3, ConnectedIsEstablished, SendSound
  <2> QED
    BY <2>1, <2>2, <2>3, <2>4, FinishSound
<1>9. ASSUME NEW ok \in BOOLEAN, Resolve(ok)
      PROVE  Inv'
  <2>1. conn.status = "Connecting" /\ conn.open /\ conn.handler /\ conn.pending = <<>>
    BY <1>9 DEF Resolve, Inv, WatchMatchesStatus
  <2>2. /\ errno' \in Errno /\ given' = given /\ sent' = sent /\ unread' = unread /\ peer' = peer
        /\ conn' = IF ok THEN ConnectResolved(conn, ok) ELSE Dropped(ConnectResolved(conn, ok))
    BY <1>1, <1>9 DEF Resolve, Errno
  <2>3. CASE ok
    <3>1. conn' = [conn EXCEPT !.wr = FALSE, !.rd = TRUE, !.status = "Connected"]
      BY <2>2, <2>3 DEF ConnectResolved
    <3>2. TypeOK'
      BY <1>1, <2>2, <3>1 DEF TypeOK, Connections, ConnStatus
    <3>3. /\ conn'.open /\ conn'.handler /\ conn'.status = "Connected" /\ conn'.rd /\ ~ conn'.wr
          /\ conn'.pending = conn.pending /\ conn'.ends = conn.ends
      BY <1>1, <2>1, <3>1 DEF Connections
    <3> QED
      BY <2>1, <2>2, <3>2, <3>3
      DEF Inv, StreamIntact, WriteWatchExact, WatchMatchesStatus, PacketsNonEmpty
  <2>4. CASE ~ ok
    <3> DEFINE c == ConnectResolved(conn, ok)
    <3>1. c \in Connections /\ c.open
      BY <1>1, <2>1, <2>4 DEF ConnectResolved, Unwatched, Connections, ConnStatus
    <3>2. conn' = NewConnection
      BY <2>2, <2>4, <3>1, DroppedClosed
    <3> QED
      BY <1>1, <2>2, <3>2, ClosedInv
  <2> QED
    BY <2>3, <2>4
<1>10. CASE Writable
  <2>1. conn.status = "Connected" /\ given' = given
    BY <1>10 DEF Writable
  <2>2. PICK r \in FlushWritable(conn, errno) : Finish(r)
    BY <1>10 DEF Writable
  <2>3. Wrote(conn, <<>>, r)
    BY <1>1, <2>1, <2>2, ConnectedIsEstablished, FlushWritableSound
  <2>4. given' = given \o <<>>
    BY <1>1, <2>1, JoinLaws
  <2> QED
    BY <1>2, <2>1, <2>2, <2>3, <2>4, FinishSound
<1>11. CASE Readable
  <2> DEFINE r == Receive(conn, errno, unread, peer)
  <2>1. conn.status = "Connected" /\ conn.open
    BY <1>11 DEF Readable, Inv, WatchMatchesStatus
  <2>2. /\ unread' = unread - r.n /\ errno' = r.errno
        /\ conn' = IF r.status = "Connected" THEN conn
                   ELSE Dropped(Unwatched([conn EXCEPT !.status = r.status]))
        /\ given' = given /\ sent' = sent /\ peer' = peer
    BY <1>11 DEF Readable
  <2>3. r.n \in 0 .. unread /\ r.errno \in Errno /\ r.status \in ConnStatus
    <3>1. r.n \in 0 .. unread
      BY <1>1, RecvAssumption DEF Receive
    <3>2. r.errno \in Errno
      BY <1>1 DEF Receive, Errno
    <3>3. r.status \in ConnStatus
      BY <1>1 DEF Receive, ConnStatus, Connections
    <3> QED
      BY <3>1, <3>2, <3>3
  <2>4. unread' \in Nat /\ errno' \in Errno
    <3> HIDE DEF r
    <3> QED
      BY <1>1, <2>2, <2>3
  <2>5. CASE r.status = "Connected"
    <3>1. conn' = conn
      BY <2>2, <2>5
    <3>2. TypeOK'
      BY <1>1, <2>2, <2>4, <3>1 DEF TypeOK, Connections
    <3> QED
      BY <2>2, <3>1, <3>2 DEF Inv, StreamIntact, WriteWatchExact, WatchMatchesStatus, PacketsNonEmpty
  <2>6. CASE r.status # "Connected"
    <3> DEFINE c == Unwatched([conn EXCEPT !.status = r.status])
    <3> HIDE DEF r
    <3>1. c \in Connections /\ c.open
      BY <1>1, <2>1, <2>3 DEF Unwatched, Connections
    <3>2. conn' = NewConnection
      BY <2>2, <2>6, <3>1, DroppedClosed
    <3> QED
      BY <1>1, <2>2, <2>4, <3>2, ClosedInv
  <2> QED
    BY <2>5, <2>6
<1>12. CASE Close
  BY <1>1, <1>12, DroppedClosed, ClosedInv DEF Close
\* The environment does not touch the connection or its stream.
<1>13. ASSUME UNCHANGED <<conn, given, sent>>, errno' \in Errno, unread' \in Nat,
              peer' \in {"open", "eof", "reset"}
       PROVE  Inv'
  <2>1. TypeOK'
    BY <1>1, <1>13 DEF TypeOK, Connections
  <2> QED
    BY <1>13, <2>1 DEF Inv, StreamIntact, WriteWatchExact, WatchMatchesStatus, PacketsNonEmpty
<1>14. ASSUME NEW e \in Errno, OtherSocket(e)
       PROVE  Inv'
  BY <1>1, <1>13, <1>14 DEF OtherSocket
<1>15. CASE PeerWrites
  BY <1>1, <1>13, <1>15 DEF PeerWrites
<1>16. ASSUME NEW how \in {"eof", "reset"}, PeerEnds(how)
       PROVE  Inv'
  BY <1>1, <1>13, <1>16 DEF PeerEnds
<1>17. CASE UNCHANGED vars
  BY <1>1, <1>13, <1>17 DEF vars
<1> QED
  BY <1>6, <1>7, <1>8, <1>9, <1>10, <1>11, <1>12, <1>14, <1>15, <1>16, <1>17 DEF Next

\* The members keep their types in every execution.
THEOREM TypeCorrect == Spec => []TypeOK
<1>1. Inv => TypeOK
  BY DEF Inv
<1> QED
  BY <1>1, InitInv, NextInv, PTL DEF Spec

\* No byte handed to send() is lost, repeated or overtaken while the socket is
\* open, for every size of a send, of a recv and of a stream.
THEOREM StreamIsIntact == Spec => []StreamIntact
<1>1. Inv => StreamIntact
  BY DEF Inv
<1> QED
  BY <1>1, InitInv, NextInv, PTL DEF Spec

\* The poller is asked for exactly the notifications that the connection needs.
THEOREM WatchIsExact == Spec => []WatchExact
<1>1. Inv => WatchExact
  BY DEF Inv, WatchExact
<1> QED
  BY <1>1, InitInv, NextInv, PTL DEF Spec

\* The assertion p->buflen > p->sentlen never fires.
THEOREM AssertionHolds == Spec => []PacketsNonEmpty
<1>1. Inv => PacketsNonEmpty
  BY DEF Inv
<1> QED
  BY <1>1, InitInv, NextInv, PTL DEF Spec
=============================================================================
