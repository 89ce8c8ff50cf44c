---------------------------- MODULE StreamLemmas ----------------------------
(***************************************************************************)
(* What the proofs about a connection, a cache and the tunnel that is made *)
(* of them rest on: what each method of Connection does to its packets and *)
(* its stream; induction over numbers and over sequences, stated for a set *)
(* instead of a predicate; the laws of FlattenSeq; and what each operator  *)
(* of Cache does to the bytes that it holds.                               *)
(***************************************************************************)
EXTENDS Connection, Cache, SequenceTheorems, WellFoundedInduction, TLAPS

-----------------------------------------------------------------------------
(* The methods of Connection.                                              *)

Connections ==
  [open : BOOLEAN, status : ConnStatus, handler : BOOLEAN, rd : BOOLEAN,
   wr : BOOLEAN, pending : Seq(Byte), ends : SUBSET Nat]

PacketsOK(c) ==
  /\ c.ends \subseteq 1 .. Len(c.pending)
  /\ c.pending # <<>> => Len(c.pending) \in c.ends

\* An established connection between two calls.
Established(c) ==
  /\ c \in Connections
  /\ c.open /\ c.status = "Connected" /\ c.handler /\ c.rd
  /\ c.wr <=> c.pending # <<>>
  /\ PacketsOK(c)

\* What a method that writes `data' promises about its result: what the kernel
\* took and what is kept are a first part of the stream.  When onError is due the
\* connection is about to be shut down, and only its type matters.
Wrote(c, data, r) ==
  /\ r.conn \in Connections /\ r.conn.open /\ r.conn.handler
  /\ r.errno \in Errno
  /\ r.failed \in BOOLEAN
  /\ r.out \in Seq(Byte)
  /\ \E rest \in Seq(Byte) : (r.out \o r.conn.pending) \o rest = c.pending \o data
  /\ ~ r.failed => /\ Established(r.conn)
                   /\ r.out \o r.conn.pending = c.pending \o data

\* Cutting a sequence in two and joining the parts gives it back.
LEMMA CutJoin ==
  ASSUME NEW s \in Seq(Byte), NEW n \in 0 .. Len(s)
  PROVE  /\ SubSeq(s, 1, n) \in Seq(Byte)
         /\ SubSeq(s, n + 1, Len(s)) \in Seq(Byte)
         /\ Len(SubSeq(s, n + 1, Len(s))) = Len(s) - n
         /\ SubSeq(s, 1, n) \o SubSeq(s, n + 1, Len(s)) = s
<1>1. Len(s) \in Nat
  BY LenProperties
<1>2. \A i \in 1 .. Len(s) : s[i] \in Byte
  BY ElementOfSeq
<1>3. SubSeq(s, 1, n) \in Seq(Byte)
  BY <1>1, <1>2, SubSeqProperties
<1>4. /\ SubSeq(s, n + 1, Len(s)) \in Seq(Byte)
      /\ Len(SubSeq(s, n + 1, Len(s))) = IF n + 1 <= Len(s) THEN Len(s) - (n + 1) + 1 ELSE 0
  BY <1>1, <1>2, SubSeqProperties
<1>5. SubSeq(s, 1, n) \o SubSeq(s, n + 1, Len(s)) = SubSeq(s, 1, Len(s))
  <2>1. 1 \in 1 .. Len(s) + 1 /\ n \in 1 - 1 .. Len(s) /\ Len(s) \in n .. Len(s)
    BY <1>1
  <2> QED
    BY <2>1, ConcatAdjacentSubSeq, Zenon
<1>6. SubSeq(s, 1, Len(s)) = s
  BY SubSeqFull, Zenon
<1>7. Len(SubSeq(s, n + 1, Len(s))) = Len(s) - n
  BY <1>1, <1>4
<1> QED
  BY <1>3, <1>4, <1>5, <1>6, <1>7, Zenon

\* A sequence is empty exactly when its length is zero.
LEMMA EmptyLen == \A s \in Seq(Byte) : Len(s) \in Nat /\ (s = <<>> <=> Len(s) = 0)
<1> SUFFICES ASSUME NEW s \in Seq(Byte)
             PROVE  Len(s) \in Nat /\ (s = <<>> <=> Len(s) = 0)
  OBVIOUS
<1>1. Len(s) \in Nat
  BY LenProperties
<1>2. s = <<>> <=> Len(s) = 0
  BY EmptySeq, Zenon
<1> QED
  BY <1>1, <1>2

\* Joining two sequences adds their lengths.
LEMMA JoinLen ==
  \A s, t \in Seq(Byte) : s \o t \in Seq(Byte) /\ Len(s \o t) = Len(s) + Len(t)
<1> SUFFICES ASSUME NEW s \in Seq(Byte), NEW t \in Seq(Byte)
             PROVE  s \o t \in Seq(Byte) /\ Len(s \o t) = Len(s) + Len(t)
  OBVIOUS
<1> QED
  BY ConcatProperties, Zenon

\* Joining is associative and the empty sequence is its identity.
LEMMA JoinLaws ==
  /\ \A s, t, u \in Seq(Byte) : (s \o t) \o u = s \o (t \o u)
  /\ \A s \in Seq(Byte) : s \o <<>> = s /\ <<>> \o s = s
<1>1. ASSUME NEW s \in Seq(Byte), NEW t \in Seq(Byte), NEW u \in Seq(Byte)
      PROVE  (s \o t) \o u = s \o (t \o u)
  BY ConcatAssociative, SMTT(60)
<1>2. ASSUME NEW s \in Seq(Byte)
      PROVE  s \o <<>> = s /\ <<>> \o s = s
  BY ConcatEmptySeq, Zenon
<1> QED
  BY <1>1, <1>2, Zenon

\* A packet added behind l kept bytes ends behind all the others.
LEMMA EndsGrow ==
  ASSUME NEW l \in Nat, NEW m \in Nat \ {0}, NEW E \in SUBSET (1 .. l)
  PROVE  E \cup {l + m} \in SUBSET (1 .. l + m) /\ E \cup {l + m} \in SUBSET Nat
OBVIOUS

\* The ends behind the first n bytes, counted from there.
LEMMA EndsShift ==
  ASSUME NEW l \in Nat, NEW n \in 0 .. l, NEW E \in SUBSET (1 .. l)
  PROVE  {k - n : k \in {j \in E : j > n}} \subseteq 1 .. l - n
<1>1. ASSUME NEW k \in E, k > n PROVE k - n \in 1 .. l - n
  BY <1>1
<1> QED
  BY <1>1

\* The kernel takes at most what it is offered, and leaves some errno.
LEMMA KernelTakesType ==
  ASSUME NEW len \in Nat, NEW starts \in SUBSET (0 .. len), NEW e \in Errno,
         NEW k \in KernelTakes(len, starts, e)
  PROVE  /\ k.n \in 0 .. len
         /\ k.errno \in Errno
         /\ k.fault \in BOOLEAN
<1>1. CASE \E n \in (0 .. len) \ (starts \ {len}) : k = [n |-> n, errno |-> e, fault |-> FALSE]
  BY <1>1
<1>2. CASE \E n \in starts \ {len}, x \in Errno : k = [n |-> n, errno |-> x, fault |-> x # "EAGAIN"]
  BY <1>2
<1> QED
  BY <1>1, <1>2 DEF KernelTakes

\* What is left after the kernel took n bytes of an established connection is
\* an established connection, and the bytes are those that were kept.
LEMMA TakenSound ==
  ASSUME NEW c, Established(c), NEW n \in 0 .. Len(c.pending)
  PROVE  /\ Established(Taken(c, n))
         /\ SubSeq(c.pending, 1, n) \in Seq(Byte)
         /\ SubSeq(c.pending, 1, n) \o Taken(c, n).pending = c.pending
<1> DEFINE p == c.pending
           q == SubSeq(p, n + 1, Len(p))
           t == Taken(c, n)
<1>1. p \in Seq(Byte) /\ Len(p) \in Nat
  BY LenProperties DEF Established, Connections
<1>2. /\ SubSeq(p, 1, n) \in Seq(Byte)
      /\ q \in Seq(Byte)
      /\ Len(q) = Len(p) - n
      /\ SubSeq(p, 1, n) \o q = p
  BY <1>1, CutJoin
<1>3. /\ t.pending = q
      /\ t.ends = {k - n : k \in {j \in c.ends : j > n}}
      /\ t.wr = (c.wr /\ n < Len(p))
      /\ t.open = c.open /\ t.status = c.status /\ t.handler = c.handler /\ t.rd = c.rd
  BY DEF Taken, Established, Connections
<1>4. c.ends \subseteq 1 .. Len(p) /\ (p # <<>> => Len(p) \in c.ends)
  BY DEF Established, PacketsOK
<1>5. q # <<>> <=> n < Len(p)
  <2>1. q # <<>> <=> Len(q) # 0
    BY <1>2, EmptyLen
  <2> QED
    BY <1>1, <1>2, <2>1
<1>6. PacketsOK(t)
  <2>1. t.ends \subseteq 1 .. Len(q)
    <3>1. {k - n : k \in {j \in c.ends : j > n}} \subseteq 1 .. Len(p) - n
      <4> HIDE DEF p
      <4> QED
        BY <1>1, <1>4, EndsShift
    <3> QED
      BY <1>2, <1>3, <3>1, Zenon
  <2>2. ASSUME q # <<>> PROVE Len(q) \in t.ends
    <3>1. n < Len(p) /\ p # <<>>
      BY <1>1, <1>5, <2>2, EmptyLen
    <3> QED
      BY <1>1, <1>2, <1>3, <1>4, <3>1
  <2> QED
    BY <1>3, <2>1, <2>2 DEF PacketsOK
<1>7. t \in Connections
  <2>0. t.ends \subseteq 1 .. Len(t.pending)
    BY <1>6 DEF PacketsOK
  <2>1. t.ends \in SUBSET Nat
    BY <2>0, SMT
  <2> QED
    BY <1>2, <2>1 DEF Taken, Established, Connections
<1>8. t.wr <=> t.pending # <<>>
  <2>1. n < Len(p) => p # <<>>
    BY <1>1, EmptyLen
  <2> QED
    BY <1>3, <1>5, <2>1 DEF Established
<1> QED
  BY <1>2, <1>3, <1>6, <1>7, <1>8 DEF Established

\* tryFlushRemainPacket keeps the connection sound and the bytes in order.
LEMMA FlushSound ==
  ASSUME NEW c, Established(c), NEW e \in Errno,
         NEW r \in TryFlushRemainPacket(c, e)
  PROVE  /\ Established(r.conn)
         /\ r.errno \in Errno
         /\ r.failed = FALSE
         /\ r.out \in Seq(Byte)
         /\ r.out \o r.conn.pending = c.pending
<1>1. c.pending \in Seq(Byte) /\ Len(c.pending) \in Nat
  BY EmptyLen DEF Established, Connections
<1>2. CASE c.pending = <<>>
  <2>1. r = Result(c, e)
    BY <1>2 DEF TryFlushRemainPacket
  <2>2. <<>> \in Seq(Byte) /\ <<>> \o c.pending = c.pending
    BY <1>1, <1>2, ConcatEmptySeq
  <2> QED
    BY <2>1, <2>2 DEF Result
<1>3. CASE c.pending # <<>>
  <2>1. PICK k \in KernelTakes(Len(c.pending), {0} \cup c.ends, e) :
          r = [Result(Taken(c, k.n), k.errno) EXCEPT !.out = SubSeq(c.pending, 1, k.n), !.fault = k.fault]
    BY <1>3 DEF TryFlushRemainPacket
  <2>2. {0} \cup c.ends \in SUBSET (0 .. Len(c.pending))
    BY <1>1 DEF Established, PacketsOK
  <2>3. k.n \in 0 .. Len(c.pending) /\ k.errno \in Errno
    BY <1>1, <2>2, KernelTakesType
  <2>4. /\ Established(Taken(c, k.n))
        /\ SubSeq(c.pending, 1, k.n) \in Seq(Byte)
        /\ SubSeq(c.pending, 1, k.n) \o Taken(c, k.n).pending = c.pending
    BY <2>3, TakenSound
  <2>5. /\ r.conn = Taken(c, k.n) /\ r.errno = k.errno
        /\ r.out = SubSeq(c.pending, 1, k.n) /\ r.failed = FALSE
    BY <2>1 DEF Result
  <2> QED
    BY <2>3, <2>4, <2>5
<1> QED
  BY <1>2, <1>3

\* The records that the methods pass around.
Results ==
  [conn : Connections, errno : Errno, out : Seq(Byte), fault : BOOLEAN, failed : BOOLEAN]

\* The end of send(): unless errno accuses the socket, the rest of the data
\* joins the kept bytes behind those that were there.
LEMMA KeepSound ==
  ASSUME NEW r, Established(r.conn), r.errno \in Errno, r.failed = FALSE, r.out \in Seq(Byte),
         DOMAIN r = {"conn", "errno", "out", "fault", "failed"},
         NEW rest \in Seq(Byte), rest # <<>>
  PROVE  LET k == Keep(r, rest)
         IN  /\ k.conn \in Connections /\ k.conn.open /\ k.conn.handler
             /\ k.errno = r.errno
             /\ k.failed \in BOOLEAN
             /\ k.out = r.out
             /\ k.failed => k.conn.pending = r.conn.pending
             /\ ~ k.failed => Established(k.conn) /\ k.conn.pending = r.conn.pending \o rest
<1> DEFINE c == r.conn
           k == Keep(r, rest)
<1>1. CASE r.errno # "EAGAIN"
  <2>1. k.failed = TRUE /\ k.errno = r.errno /\ k.out = r.out
    BY <1>1 DEF Keep, CheckSocketErrors
  <2>2. k.conn = Unwatched(c)
    BY <1>1 DEF Keep, CheckSocketErrors, Established
  <2>3. /\ Unwatched(c) \in Connections /\ Unwatched(c).open /\ Unwatched(c).handler
        /\ Unwatched(c).pending = c.pending
    BY DEF Established, Connections, Unwatched
  <2> QED
    BY <2>1, <2>2, <2>3
<1>2. CASE r.errno = "EAGAIN"
  <2> DEFINE d == [CachePacket(c, rest) EXCEPT !.wr = TRUE]
  <2>1. k = [r EXCEPT !.conn = d]
    BY <1>2 DEF Keep, CheckSocketErrors
  <2>2. /\ c.pending \in Seq(Byte) /\ c.ends \subseteq 1 .. Len(c.pending)
    BY DEF Established, Connections, PacketsOK
  <2>3. /\ c.pending \o rest \in Seq(Byte)
        /\ Len(c.pending \o rest) = Len(c.pending) + Len(rest)
        /\ Len(c.pending) \in Nat /\ Len(rest) \in Nat \ {0}
    <3>1. c.pending \o rest \in Seq(Byte) /\ Len(c.pending \o rest) = Len(c.pending) + Len(rest)
      BY <2>2, JoinLen
    <3>2. Len(c.pending) \in Nat
      BY <2>2, EmptyLen
    <3>3. Len(rest) \in Nat /\ Len(rest) # 0
      BY EmptyLen
    <3> QED
      BY <3>1, <3>2, <3>3
  <2>4. /\ d.pending = c.pending \o rest
        /\ d.ends = c.ends \cup {Len(c.pending) + Len(rest)}
        /\ d.wr = TRUE /\ d.open = c.open /\ d.status = c.status
        /\ d.handler = c.handler /\ d.rd = c.rd
    BY DEF CachePacket, Established, Connections
  <2>5. PacketsOK(d) /\ d.pending # <<>>
    <3>1. d.pending # <<>>
      BY <2>3, <2>4, EmptyLen
    <3>2. d.ends \subseteq 1 .. Len(d.pending)
      BY <2>2, <2>3, <2>4, EndsGrow
    <3>3. Len(d.pending) \in d.ends
      BY <2>3, <2>4
    <3> QED
      BY <3>1, <3>2, <3>3 DEF PacketsOK
  <2>6. d \in Connections
    <3>1. d.ends \in SUBSET Nat
      BY <2>2, <2>3, <2>4, EndsGrow
    <3> QED
      BY <2>3, <3>1 DEF CachePacket, Established, Connections
  <2>7. Established(d)
    BY <2>4, <2>5, <2>6 DEF Established
  <2> QED
    BY <1>2, <2>1, <2>4, <2>6, <2>7 DEF Established
<1> QED
  BY <1>1, <1>2

\* send() on an established connection appends the data to the stream, whatever
\* part of it the kernel takes at once.
LEMMA SendSound ==
  ASSUME NEW c, Established(c), NEW e \in Errno,
         NEW data \in Seq(Byte), data # <<>>,
         NEW r \in Send(c, e, data)
  PROVE  Wrote(c, data, r)
<1>1. PICK f \in TryFlushRemainPacket(c, e) :
        r \in IF f.conn.pending # <<>>
              THEN {Keep(f, data)}
              ELSE {IF k.n = Len(data)
                    THEN [f EXCEPT !.out = @ \o data]
                    ELSE Keep([f EXCEPT !.out   = @ \o SubSeq(data, 1, k.n),
                                        !.errno = k.errno,
                                        !.fault = k.fault],
                              SubSeq(data, k.n + 1, Len(data))) :
                       k \in KernelTakes(Len(data), {0}, f.errno)}
  BY DEF Send, Established
<1>2. /\ Established(f.conn) /\ f.errno \in Errno /\ f.failed = FALSE
      /\ f.out \in Seq(Byte) /\ f.out \o f.conn.pending = c.pending
  BY FlushSound
<1>3. DOMAIN f = {"conn", "errno", "out", "fault", "failed"}
  <2>1. CASE c.pending = <<>>
    BY <2>1 DEF TryFlushRemainPacket, Result
  <2>2. CASE c.pending # <<>>
    BY <2>2 DEF TryFlushRemainPacket, Result
  <2> QED
    BY <2>1, <2>2
<1>4. f.conn.pending \in Seq(Byte)
  BY <1>2 DEF Established, Connections
<1>5. CASE f.conn.pending # <<>>
  <2>1. r = Keep(f, data)
    BY <1>1, <1>5
  <2>2. /\ r.conn \in Connections /\ r.conn.open /\ r.conn.handler
        /\ r.errno = f.errno /\ r.failed \in BOOLEAN /\ r.out = f.out
        /\ r.failed => r.conn.pending = f.conn.pending
        /\ ~ r.failed => Established(r.conn) /\ r.conn.pending = f.conn.pending \o data
    BY <1>2, <1>3, <2>1, KeepSound
  <2>3. f.out \o (f.conn.pending \o data) = c.pending \o data
    <3>1. (f.out \o f.conn.pending) \o data = f.out \o (f.conn.pending \o data)
      BY <1>2, <1>4, JoinLaws, Zenon
    <3> QED
      BY <1>2, <3>1
  <2>4. \E rest \in Seq(Byte) : (r.out \o r.conn.pending) \o rest = c.pending \o data
    <3>1. CASE r.failed
      BY <1>2, <2>2, <3>1
    <3>2. CASE ~ r.failed
      <4>1. r.out \o r.conn.pending = c.pending \o data /\ <<>> \in Seq(Byte)
        BY <2>2, <2>3, <3>2, EmptySeq
      <4>2. (c.pending \o data) \o <<>> = c.pending \o data
        BY JoinLen, JoinLaws DEF Established, Connections
      <4> QED
        BY <4>1, <4>2
    <3> QED
      BY <3>1, <3>2
  <2> QED
    BY <1>2, <2>2, <2>3, <2>4 DEF Wrote
<1>6. CASE f.conn.pending = <<>>
  <2>1. PICK k \in KernelTakes(Len(data), {0}, f.errno) :
          r = IF k.n = Len(data)
              THEN [f EXCEPT !.out = @ \o data]
              ELSE Keep([f EXCEPT !.out   = @ \o SubSeq(data, 1, k.n),
                                  !.errno = k.errno,
                                  !.fault = k.fault],
                        SubSeq(data, k.n + 1, Len(data)))
    BY <1>1, <1>6
  <2>2. k.n \in 0 .. Len(data) /\ k.errno \in Errno /\ Len(data) \in Nat
    <3>1. Len(data) \in Nat
      BY EmptyLen
    <3> QED
      BY <1>2, <3>1, KernelTakesType
  <2>3. f.out = c.pending
    BY <1>2, <1>6, JoinLaws
  <2>4. CASE k.n = Len(data)
    <3>1. r = [f EXCEPT !.out = @ \o data]
      BY <2>1, <2>4
    <3>2. /\ r.conn = f.conn /\ r.errno = f.errno /\ r.failed = FALSE
          /\ r.out = f.out \o data
      BY <1>2, <1>3, <3>1
    <3>3. r.out \in Seq(Byte) /\ r.out \o r.conn.pending = r.out
      <4>1. f.out \o data \in Seq(Byte)
        BY <1>2, JoinLen
      <4>2. r.out \in Seq(Byte) /\ r.conn.pending = <<>>
        BY <1>6, <3>2, <4>1, Zenon
      <4> QED
        BY <4>2, JoinLaws
    <3>4. <<>> \in Seq(Byte) /\ (r.out \o r.conn.pending) \o <<>> = c.pending \o data
      BY <2>3, <3>2, <3>3, JoinLaws, EmptySeq
    <3> QED
      BY <1>2, <2>3, <3>2, <3>3, <3>4 DEF Wrote, Established
  <2>5. CASE k.n # Len(data)
    <3> DEFINE head == SubSeq(data, 1, k.n)
               rest == SubSeq(data, k.n + 1, Len(data))
               g == [f EXCEPT !.out = @ \o head, !.errno = k.errno, !.fault = k.fault]
    <3>1. r = Keep(g, rest)
      BY <2>1, <2>5
    <3>2. /\ head \in Seq(Byte) /\ rest \in Seq(Byte)
          /\ Len(rest) = Len(data) - k.n /\ head \o rest = data
      BY <2>2, CutJoin
    <3>3. rest # <<>>
      <4>1. Len(rest) # 0
        BY <2>2, <2>5, <3>2
      <4> QED
        BY <3>2, <4>1, EmptyLen
    <3>4. /\ g.conn = f.conn /\ g.errno = k.errno /\ g.failed = FALSE
          /\ g.out = c.pending \o head
          /\ DOMAIN g = {"conn", "errno", "out", "fault", "failed"}
      BY <1>2, <1>3, <2>3
    <3> HIDE DEF head, rest, g
    <3>5. c.pending \in Seq(Byte) /\ c.pending \o head \in Seq(Byte)
      BY <3>2, JoinLen DEF Established, Connections
    <3>6. /\ r.conn \in Connections /\ r.conn.open /\ r.conn.handler /\ r.errno = g.errno /\ r.failed \in BOOLEAN /\ r.out = g.out
          /\ r.failed => r.conn.pending = g.conn.pending
          /\ ~ r.failed => Established(r.conn) /\ r.conn.pending = g.conn.pending \o rest
      <4>1. Established(g.conn) /\ g.errno \in Errno /\ g.out \in Seq(Byte)
        BY <1>2, <2>2, <3>4, <3>5, Zenon
      <4> QED
        BY <3>1, <3>2, <3>3, <3>4, <4>1, KeepSound
    <3>7. f.conn.pending \o rest = rest
      BY <1>6, <3>2, JoinLaws
    <3>8. (c.pending \o head) \o rest = c.pending \o data
      <4>1. (c.pending \o head) \o rest = c.pending \o (head \o rest)
        BY <3>2, <3>5, JoinLaws, ZenonT(40)
      <4> QED
        BY <3>2, <4>1
    <3>9. \E left \in Seq(Byte) : (r.out \o r.conn.pending) \o left = c.pending \o data
      <4>1. CASE r.failed
        <5>1. r.conn.pending = <<>> /\ (c.pending \o head) \o <<>> = c.pending \o head
          BY <1>6, <3>4, <3>5, <3>6, <4>1, JoinLaws
        <5> QED
          BY <3>2, <3>4, <3>6, <3>8, <5>1
      <4>2. CASE ~ r.failed
        <5>1. r.out \o r.conn.pending = c.pending \o data /\ <<>> \in Seq(Byte)
          BY <3>4, <3>6, <3>7, <3>8, <4>2, EmptySeq
        <5>2. (c.pending \o data) \o <<>> = c.pending \o data
          BY JoinLen, JoinLaws DEF Established, Connections
        <5> QED
          BY <5>1, <5>2
      <4> QED
        BY <4>1, <4>2
    <3>10. r.errno \in Errno /\ r.out \in Seq(Byte)
      BY <2>2, <3>4, <3>5, <3>6, Zenon
    <3>11. ~ r.failed => Established(r.conn) /\ r.out \o r.conn.pending = c.pending \o data
      BY <3>4, <3>6, <3>7, <3>8, Zenon
    <3> QED
      BY <3>6, <3>9, <3>10, <3>11, Zenon DEF Wrote
  <2> QED
    BY <2>4, <2>5
<1> QED
  BY <1>5, <1>6

\* handleOutputNotification of an established connection keeps the stream.
LEMMA FlushWritableSound ==
  ASSUME NEW c, Established(c), NEW e \in Errno, NEW r \in FlushWritable(c, e)
  PROVE  Wrote(c, <<>>, r)
<1>1. PICK f \in TryFlushRemainPacket(c, e) : r = CheckSocketErrors(f)
  BY DEF FlushWritable
<1>2. /\ Established(f.conn) /\ f.errno \in Errno /\ f.failed = FALSE
      /\ f.out \in Seq(Byte) /\ f.out \o f.conn.pending = c.pending
  BY FlushSound
<1>3. DOMAIN f = {"conn", "errno", "out", "fault", "failed"}
  <2>1. CASE c.pending = <<>>
    BY <2>1 DEF TryFlushRemainPacket, Result
  <2>2. CASE c.pending # <<>>
    BY <2>2 DEF TryFlushRemainPacket, Result
  <2> QED
    BY <2>1, <2>2
<1>4. /\ c.pending \in Seq(Byte) /\ f.conn.pending \in Seq(Byte) /\ <<>> \in Seq(Byte)
      /\ c.pending \o <<>> = c.pending
  BY <1>2, JoinLaws, EmptySeq DEF Established, Connections
<1>5. CASE f.errno = "EAGAIN"
  <2>1. r = f
    BY <1>1, <1>5 DEF CheckSocketErrors
  <2> QED
    BY <1>2, <1>4, <2>1 DEF Wrote, Established
<1>6. CASE f.errno # "EAGAIN"
  <2>1. r.conn = Unwatched(f.conn) /\ r.failed = TRUE /\ r.errno = f.errno /\ r.out = f.out
    BY <1>1, <1>2, <1>3, <1>6 DEF CheckSocketErrors, Established
  <2>2. /\ Unwatched(f.conn) \in Connections /\ Unwatched(f.conn).open /\ Unwatched(f.conn).handler
        /\ Unwatched(f.conn).pending = f.conn.pending
    BY <1>2 DEF Established, Connections, Unwatched
  <2> QED
    BY <1>2, <1>4, <2>1, <2>2 DEF Wrote
<1> QED
  BY <1>5, <1>6

-----------------------------------------------------------------------------
(* Induction, and the laws of FlattenSeq.                                  *)

\* The ordering of the naturals is well-founded, as a relation.
LEMMA NatWellFounded ==
  \E R : IsWellFoundedOn(R, Nat) /\ \A x, y \in Nat : y < x => <<y, x>> \in R
<1> DEFINE R == OpToRel(<, Nat)
<1>1. IsWellFoundedOn(R, Nat)
  BY NatLessThanWellFounded
<1>2. \A x, y \in Nat : y < x => <<y, x>> \in R
  BY DEF OpToRel
<1> HIDE DEF R
<1> QED
  BY <1>1, <1>2

\* Among some numbers there is a least one.
LEMMA NatMin ==
  ASSUME NEW T \in SUBSET Nat, T # {}
  PROVE  \E x \in T : \A y \in T : x <= y
<1>1. PICK R : IsWellFoundedOn(R, Nat) /\ \A x, y \in Nat : y < x => <<y, x>> \in R
  BY NatWellFounded
<1>2. PICK x \in T : \A y \in T : ~ (<<y, x>> \in R)
  BY <1>1, WFMin
<1>3. \A y \in T : ~ (y < x)
  BY <1>1, <1>2
<1> QED
  BY <1>2, <1>3

\* Induction: a set of numbers that has 0 and every successor has them all.
LEMMA NatAll ==
  ASSUME NEW T, 0 \in T, \A n \in Nat : n \in T => n + 1 \in T
  PROVE  Nat \subseteq T
<1> SUFFICES ASSUME Nat \ T # {} PROVE FALSE
  OBVIOUS
<1>1. PICK x \in Nat \ T : \A y \in Nat \ T : x <= y
  BY NatMin
<1>2. x - 1 \in Nat /\ ~ (x <= x - 1) /\ (x - 1) + 1 = x
  BY <1>1
<1>3. x - 1 \in T
  BY <1>1, <1>2
<1> QED
  BY <1>1, <1>2, <1>3

\* f is the function that FlattenSeq evaluates on the first n entries of s.
Flat(s, n, f) == f = [i \in 1 .. n |-> IF i = 1 THEN s[i] ELSE f[i - 1] \o s[i]]

\* It exists, by induction on n.
LEMMA FlatExists ==
  ASSUME NEW s, NEW n \in Nat
  PROVE  \E f : Flat(s, n, f)
<1> DEFINE T == {m \in Nat : \E f : Flat(s, m, f)}
<1>1. 0 \in T
  <2>1. Flat(s, 0, [i \in 1 .. 0 |-> i])
    BY DEF Flat
  <2> QED
    BY <2>1
<1>2. ASSUME NEW m \in Nat, m \in T PROVE m + 1 \in T
  <2>1. PICK f : Flat(s, m, f)
    BY <1>2
  <2> DEFINE g == [i \in 1 .. m + 1 |->
                     IF i = m + 1 THEN IF i = 1 THEN s[i] ELSE f[i - 1] \o s[i] ELSE f[i]]
  <2>2. \A i \in 1 .. m + 1 : g[i] = IF i = 1 THEN s[i] ELSE g[i - 1] \o s[i]
    <3>1. \A i \in 1 .. m : f[i] = IF i = 1 THEN s[i] ELSE f[i - 1] \o s[i]
      BY <2>1 DEF Flat
    <3> SUFFICES ASSUME NEW i \in 1 .. m + 1
                 PROVE  g[i] = IF i = 1 THEN s[i] ELSE g[i - 1] \o s[i]
      OBVIOUS
    <3>2. i # 1 => i - 1 \in 1 .. m + 1 /\ i - 1 # m + 1
      OBVIOUS
    <3>3. i # 1 => g[i - 1] = f[i - 1]
      BY <3>2
    <3>4. CASE i = m + 1
      BY <3>3, <3>4
    <3>5. CASE i # m + 1
      <4>1. i \in 1 .. m /\ g[i] = f[i]
        BY <3>5
      <4> HIDE DEF g
      <4> QED
        BY <3>1, <3>3, <4>1
    <3> QED
      BY <3>4, <3>5
  <2>3. Flat(s, m + 1, g)
    BY <2>2 DEF Flat
  <2> QED
    BY <2>3
<1> HIDE DEF T
<1>3. n \in T
  BY <1>1, <1>2, NatAll
<1> QED
  BY <1>3 DEF T

\* FlattenSeq returns its last value.
LEMMA FlatIs ==
  ASSUME NEW s, Len(s) \in Nat
  PROVE  Len(s) # 0 => \E f : Flat(s, Len(s), f) /\ FlattenSeq(s) = f[Len(s)]
BY FlatExists DEF FlattenSeq, Flat

\* The function that FlattenSeq evaluates is determined entry by entry.
LEMMA FlatEntry ==
  ASSUME NEW s, NEW n \in Nat, NEW f, Flat(s, n, f)
  PROVE  \A i \in 1 .. n : f[i] = IF i = 1 THEN s[i] ELSE f[i - 1] \o s[i]
BY DEF Flat

\* Two functions agree up to k.
Agree(f, g, k) == \A i \in 1 .. k : f[i] = g[i]

\* Two lists that agree on their first entries have the same flattened prefixes.
LEMMA FlatAgree ==
  ASSUME NEW s, NEW t, NEW n \in Nat, NEW m \in Nat, NEW f, NEW g,
         Flat(s, n, f), Flat(t, m, g),
         NEW k \in Nat, k <= n, k <= m, Agree(s, t, k)
  PROVE  Agree(f, g, k)
<1> DEFINE T == {i \in Nat : i \in 1 .. k => f[i] = g[i]}
<1>1. 0 \in T
  OBVIOUS
<1>2. ASSUME NEW i \in Nat, i \in T PROVE i + 1 \in T
  <2> SUFFICES ASSUME i + 1 \in 1 .. k PROVE f[i + 1] = g[i + 1]
    OBVIOUS
  <2>1. i + 1 \in 1 .. n /\ i + 1 \in 1 .. m /\ (i + 1) - 1 = i
    OBVIOUS
  <2>2. f[i + 1] = IF i + 1 = 1 THEN s[i + 1] ELSE f[i] \o s[i + 1]
    BY <2>1, FlatEntry
  <2>3. g[i + 1] = IF i + 1 = 1 THEN t[i + 1] ELSE g[i] \o t[i + 1]
    BY <2>1, FlatEntry
  <2>4. i + 1 # 1 => f[i] = g[i]
    BY <1>2
  <2> QED
    BY <2>2, <2>3, <2>4 DEF Agree
<1> HIDE DEF T
<1>3. Nat \subseteq T
  BY <1>1, <1>2, NatAll
<1> QED
  BY <1>3 DEF T, Agree

\* Flattening a list with one more entry puts that entry at the end.
LEMMA FlattenAppend ==
  ASSUME NEW S, NEW s \in Seq(Seq(S)), NEW x \in Seq(S)
  PROVE  FlattenSeq(Append(s, x)) = FlattenSeq(s) \o x
<1> DEFINE t == Append(s, x)
<1>1. /\ Len(s) \in Nat /\ Len(t) = Len(s) + 1 /\ Len(t) # 0
      /\ t[Len(s) + 1] = x /\ \A i \in 1 .. Len(s) : s[i] = t[i]
  OBVIOUS
<1> HIDE DEF t
<1>2. PICK g : Flat(t, Len(t), g) /\ FlattenSeq(t) = g[Len(t)]
  BY <1>1, FlatIs
<1>3. g[Len(t)] = IF Len(s) = 0 THEN x ELSE g[Len(s)] \o x
  <2>1. Len(t) \in 1 .. Len(t) /\ Len(t) \in Nat
    BY <1>1
  <2>2. g[Len(t)] = IF Len(t) = 1 THEN t[Len(t)] ELSE g[Len(t) - 1] \o t[Len(t)]
    <3> DEFINE m == Len(t)
    <3>1. Flat(t, m, g) /\ m \in Nat /\ m \in 1 .. m
      BY <1>2, <2>1, Zenon
    <3> HIDE DEF m
    <3>2. \A i \in 1 .. m : g[i] = IF i = 1 THEN t[i] ELSE g[i - 1] \o t[i]
      BY <3>1, FlatEntry
    <3>3. g[m] = IF m = 1 THEN t[m] ELSE g[m - 1] \o t[m]
      BY <3>1, <3>2
    <3> QED
      BY <3>3 DEF m
  <2>3. Len(t) - 1 = Len(s) /\ (Len(t) = 1 <=> Len(s) = 0) /\ t[Len(t)] = x
    <3>1. Len(s) \in Nat /\ Len(t) = Len(s) + 1 /\ t[Len(s) + 1] = x
      BY <1>1, Zenon
    <3> QED
      BY <3>1
  <2> QED
    BY <2>2, <2>3, Zenon
<1>4. CASE Len(s) = 0
  <2>1. FlattenSeq(s) = s /\ s = <<>>
    BY <1>4 DEF FlattenSeq
  <2>2. <<>> \o x = x
    BY ConcatEmptySeq
  <2> QED
    BY <1>2, <1>3, <1>4, <2>1, <2>2 DEF t
<1>5. CASE Len(s) # 0
  <2>1. PICK f : Flat(s, Len(s), f) /\ FlattenSeq(s) = f[Len(s)]
    BY <1>1, <1>5, FlatIs
  <2>2. f[Len(s)] = g[Len(s)]
    <3>1. Len(s) \in 1 .. Len(s) /\ Len(t) \in Nat /\ Len(s) <= Len(t) /\ Len(s) <= Len(s)
      BY <1>1, <1>5
    <3>2. Agree(s, t, Len(s))
      BY <1>1 DEF Agree
    <3>3. Agree(f, g, Len(s))
      BY <1>1, <1>2, <2>1, <3>1, <3>2, FlatAgree
    <3> QED
      BY <3>1, <3>3 DEF Agree
  <2> QED
    BY <1>2, <1>3, <1>5, <2>1, <2>2 DEF t
<1> QED
  BY <1>4, <1>5

\* Induction over sequences: a set that has the empty one, and every sequence
\* it has with one more entry, has them all.
LEMMA SeqAll ==
  ASSUME NEW S, NEW P, <<>> \in P,
         \A s \in Seq(S), x \in S : s \in P => Append(s, x) \in P
  PROVE  Seq(S) \subseteq P
<1> DEFINE T == {n \in Nat : \A s \in Seq(S) : Len(s) = n => s \in P}
<1>1. 0 \in T
  <2>1. \A s \in Seq(S) : Len(s) = 0 => s = <<>>
    OBVIOUS
  <2> QED
    BY <2>1
<1>2. ASSUME NEW n \in Nat, n \in T PROVE n + 1 \in T
  <2> SUFFICES ASSUME NEW s \in Seq(S), Len(s) = n + 1 PROVE s \in P
    OBVIOUS
  <2> DEFINE front == SubSeq(s, 1, n)
  <2>1. front \in Seq(S) /\ Len(front) = n /\ s[n + 1] \in S
    <3>1. \A i \in 1 .. n + 1 : s[i] \in S
      BY ElementOfSeq
    <3> QED
      BY <3>1, SubSeqProperties
  <2>2. s = Append(front, s[n + 1])
    <3>1. \A i \in 1 .. n : front[i] = s[i]
      BY SubSeqProperties, ElementOfSeq
    <3> HIDE DEF front
    <3>2. Append(front, s[n + 1]) \in Seq(S) /\ Len(Append(front, s[n + 1])) = n + 1
      BY <2>1
    <3>3. \A i \in 1 .. n + 1 : Append(front, s[n + 1])[i] = s[i]
      BY <2>1, <3>1
    <3> QED
      BY <3>2, <3>3, SeqEqual
  <2> HIDE DEF front
  <2>3. front \in P
    BY <1>2, <2>1
  <2> QED
    BY <2>1, <2>2, <2>3
<1> HIDE DEF T
<1>3. Nat \subseteq T
  BY <1>1, <1>2, NatAll
<1>4. \A s \in Seq(S) : Len(s) \in T
  BY <1>3
<1> QED
  BY <1>4 DEF T

\* Flattening the empty list, and what kind of thing flattening returns.
LEMMA FlattenType ==
  ASSUME NEW S
  PROVE  /\ FlattenSeq(<<>>) = <<>>
         /\ \A s \in Seq(Seq(S)) : FlattenSeq(s) \in Seq(S)
<1>1. FlattenSeq(<<>>) = <<>>
  BY DEF FlattenSeq
<1> DEFINE P == {s \in Seq(Seq(S)) : FlattenSeq(s) \in Seq(S)}
<1>2. <<>> \in P
  <2>1. <<>> \in Seq(Seq(S)) /\ <<>> \in Seq(S)
    OBVIOUS
  <2> QED
    BY <1>1, <2>1
<1>3. ASSUME NEW s \in Seq(Seq(S)), NEW x \in Seq(S), s \in P PROVE Append(s, x) \in P
  <2>1. FlattenSeq(Append(s, x)) = FlattenSeq(s) \o x
    BY FlattenAppend
  <2>2. FlattenSeq(s) \o x \in Seq(S)
    BY <1>3
  <2>3. Append(s, x) \in Seq(Seq(S))
    OBVIOUS
  <2> QED
    BY <2>1, <2>2, <2>3
<1> HIDE DEF P
<1>4. Seq(Seq(S)) \subseteq P
  BY <1>2, <1>3, SeqAll
<1> QED
  BY <1>1, <1>4 DEF P

\* Flattening two lists one after the other.
LEMMA FlattenConcat ==
  ASSUME NEW S, NEW s \in Seq(Seq(S)), NEW t \in Seq(Seq(S))
  PROVE  FlattenSeq(s \o t) = FlattenSeq(s) \o FlattenSeq(t)
<1> DEFINE P == {u \in Seq(Seq(S)) : FlattenSeq(s \o u) = FlattenSeq(s) \o FlattenSeq(u)}
<1>1. <<>> \in P
  <2>1. s \o <<>> = s /\ FlattenSeq(<<>>) = <<>> /\ FlattenSeq(s) \in Seq(S)
    BY ConcatEmptySeq, FlattenType
  <2>2. FlattenSeq(s) \o <<>> = FlattenSeq(s)
    BY <2>1, ConcatEmptySeq
  <2> QED
    BY <2>1, <2>2
<1>2. ASSUME NEW u \in Seq(Seq(S)), NEW x \in Seq(S), u \in P PROVE Append(u, x) \in P
  <2>1. s \o Append(u, x) = Append(s \o u, x) /\ s \o u \in Seq(Seq(S))
    <3>1. s \o u \in Seq(Seq(S)) /\ Append(u, x) \in Seq(Seq(S))
      OBVIOUS
    <3>2. s \o Append(u, x) \in Seq(Seq(S)) /\ Append(s \o u, x) \in Seq(Seq(S))
      BY <3>1
    <3>3. Len(s \o Append(u, x)) = Len(Append(s \o u, x))
      BY <3>1
    <3>4. \A i \in 1 .. Len(s \o Append(u, x)) : (s \o Append(u, x))[i] = Append(s \o u, x)[i]
      BY <3>1
    <3> QED
      BY <3>1, <3>2, <3>3, <3>4, SeqEqual
  <2>2. /\ FlattenSeq(Append(s \o u, x)) = FlattenSeq(s \o u) \o x
        /\ FlattenSeq(Append(u, x)) = FlattenSeq(u) \o x
    BY <2>1, FlattenAppend
  <2>3. FlattenSeq(s) \in Seq(S) /\ FlattenSeq(u) \in Seq(S)
    BY FlattenType
  <2>4. (FlattenSeq(s) \o FlattenSeq(u)) \o x = FlattenSeq(s) \o (FlattenSeq(u) \o x)
    BY <2>3, ConcatAssociative, SMTT(60)
  <2>5. FlattenSeq(s \o u) = FlattenSeq(s) \o FlattenSeq(u)
    BY <1>2
  <2>6. FlattenSeq(s \o Append(u, x)) = FlattenSeq(s) \o FlattenSeq(Append(u, x))
    BY <2>1, <2>2, <2>4, <2>5
  <2> QED
    BY <2>6
<1> HIDE DEF P
<1>3. Seq(Seq(S)) \subseteq P
  BY <1>1, <1>2, SeqAll
<1> QED
  BY <1>3 DEF P

\* Flattening takes the head of the list first.
LEMMA FlattenHead ==
  ASSUME NEW S, NEW s \in Seq(Seq(S)), s # <<>>
  PROVE  FlattenSeq(s) = Head(s) \o FlattenSeq(Tail(s))
<1>1. Head(s) \in Seq(S) /\ Tail(s) \in Seq(Seq(S))
  BY HeadTailProperties
<1>2. <<Head(s)>> \in Seq(Seq(S)) /\ s = <<Head(s)>> \o Tail(s)
  BY <1>1
<1>3. FlattenSeq(<<Head(s)>>) = Head(s)
  <2> DEFINE none == <<>>
  <2>1. Append(none, Head(s)) = <<Head(s)>> /\ none \in Seq(Seq(S))
    OBVIOUS
  <2> HIDE DEF none
  <2>2. FlattenSeq(Append(none, Head(s))) = FlattenSeq(none) \o Head(s)
    BY <1>1, <2>1, FlattenAppend
  <2>3. FlattenSeq(none) = <<>> /\ <<>> \o Head(s) = Head(s)
    BY <1>1, FlattenType, ConcatEmptySeq DEF none
  <2> QED
    BY <2>1, <2>2, <2>3
<1>4. FlattenSeq(<<Head(s)>> \o Tail(s)) = FlattenSeq(<<Head(s)>>) \o FlattenSeq(Tail(s))
  BY <1>1, <1>2, FlattenConcat
<1> QED
  BY <1>2, <1>3, <1>4

\* c is a and then b, entry by entry.
Joins(a, b, c) ==
  /\ Len(c) = Len(a) + Len(b)
  /\ \A i \in 1 .. Len(a) : c[i] = a[i]
  /\ \A i \in 1 .. Len(b) : c[Len(a) + i] = b[i]

\* Which is what \o is.
LEMMA JoinIs ==
  ASSUME NEW S, NEW a \in Seq(S), NEW b \in Seq(S), NEW c \in Seq(S)
  PROVE  Joins(a, b, c) <=> c = a \o b
<1> DEFINE d == a \o b
<1>1. /\ Len(a) \in Nat /\ Len(b) \in Nat /\ d \in Seq(S) /\ Len(d) = Len(a) + Len(b)
      /\ \A i \in 1 .. Len(a) + Len(b) : d[i] = IF i <= Len(a) THEN a[i] ELSE b[i - Len(a)]
  BY ConcatProperties
<1> HIDE DEF d
<1>2. Joins(a, b, d)
  BY <1>1 DEF Joins
<1>3. ASSUME Joins(a, b, c) PROVE c = d
  <2>1. ASSUME NEW i \in 1 .. Len(c) PROVE c[i] = d[i]
    <3>1. CASE i \in 1 .. Len(a)
      BY <1>1, <1>3, <3>1 DEF Joins
    <3>2. CASE i \notin 1 .. Len(a)
      <4>1. i - Len(a) \in 1 .. Len(b) /\ Len(a) + (i - Len(a)) = i
        BY <1>1, <1>3, <3>2 DEF Joins
      <4> QED
        BY <1>2, <1>3, <4>1 DEF Joins
    <3> QED
      BY <3>1, <3>2
  <2>2. Len(c) = Len(d)
    BY <1>1, <1>3 DEF Joins
  <2> QED
    BY <1>1, <2>1, <2>2, SeqEqual
<1> QED
  BY <1>2, <1>3 DEF d

\* And so it says what is in a sequence made of two.
LEMMA CatJoins ==
  ASSUME NEW S, NEW a \in Seq(S), NEW b \in Seq(S)
  PROVE  a \o b \in Seq(S) /\ Joins(a, b, a \o b)
<1>1. a \o b \in Seq(S)
  OBVIOUS
<1> QED
  BY <1>1, JoinIs

-----------------------------------------------------------------------------
(* The records of the file.                                                *)

\* The cells a file can have, and what is cached at one call.
Cells == [kind : {"len", "byte"}, value : Int]
Chunk == Seq(Int) \ {<<>>}

\* The byte cells of a record, and the records of some chunks.
Body(data) == [i \in 1 .. Len(data) |-> ByteCell(data[i])]
RecordsOf(ps) == [i \in 1 .. Len(ps) |-> Record(ps[i])]
Records(ps) == FlattenSeq(RecordsOf(ps))

\* A record is one length cell and as many byte cells as it says.
LEMMA RecordIs ==
  ASSUME NEW data \in Seq(Int)
  PROVE  /\ Body(data) \in Seq(Cells) /\ Len(Body(data)) = Len(data)
         /\ \A i \in 1 .. Len(data) : Body(data)[i] = ByteCell(data[i])
         /\ Record(data) = <<LenCell(Len(data))>> \o Body(data)
         /\ Record(data) \in Seq(Cells) /\ Len(Record(data)) = 1 + Len(data)
         /\ Record(data)[1] = LenCell(Len(data))
         /\ \A i \in 1 .. Len(data) : Record(data)[1 + i] = ByteCell(data[i])
<1>1. Len(data) \in Nat /\ \A i \in 1 .. Len(data) : data[i] \in Int
  BY ElementOfSeq
<1>2. \A i \in 1 .. Len(data) : ByteCell(data[i]) \in Cells
  BY <1>1 DEF ByteCell, Cells
<1>3. /\ Body(data) \in Seq(Cells) /\ Len(Body(data)) = Len(data)
      /\ \A i \in 1 .. Len(data) : Body(data)[i] = ByteCell(data[i])
  BY <1>1, <1>2 DEF Body
<1>4. Record(data) = <<LenCell(Len(data))>> \o Body(data)
  BY DEF Record, Body
<1> DEFINE head == <<LenCell(Len(data))>>
<1>5. head \in Seq(Cells) /\ Len(head) = 1 /\ head[1] = LenCell(Len(data))
  <2>1. LenCell(Len(data)) \in Cells
    BY <1>1 DEF LenCell, Cells
  <2> QED
    BY <2>1
<1>6. Record(data) = head \o Body(data)
  BY <1>4
<1> HIDE DEF head
<1>7. Record(data) \in Seq(Cells) /\ Joins(head, Body(data), Record(data))
  BY <1>3, <1>5, <1>6, CatJoins
<1>8. /\ Len(Record(data)) = 1 + Len(data)
      /\ Record(data)[1] = LenCell(Len(data))
      /\ \A i \in 1 .. Len(data) : Record(data)[1 + i] = Body(data)[i]
  BY <1>1, <1>3, <1>5, <1>7 DEF Joins
<1> QED
  BY <1>1, <1>3, <1>4, <1>7, <1>8

\* The bytes in some cells and some more cells.
LEMMA BytesConcat ==
  ASSUME NEW a \in Seq(Cells), NEW b \in Seq(Cells)
  PROVE  /\ BytesIn(a) \in Seq(Seq(Int)) /\ BytesOf(a) \in Seq(Int)
         /\ BytesOf(a \o b) = BytesOf(a) \o BytesOf(b)
<1>1. ASSUME NEW c \in Seq(Cells)
      PROVE  /\ BytesIn(c) \in Seq(Seq(Int)) /\ Len(BytesIn(c)) = Len(c)
             /\ \A i \in 1 .. Len(c) :
                  BytesIn(c)[i] = IF c[i].kind = "byte" THEN <<c[i].value>> ELSE <<>>
  <2>1. \A i \in 1 .. Len(c) :
          (IF c[i].kind = "byte" THEN <<c[i].value>> ELSE <<>>) \in Seq(Int)
    <3> SUFFICES ASSUME NEW i \in 1 .. Len(c)
                 PROVE  (IF c[i].kind = "byte" THEN <<c[i].value>> ELSE <<>>) \in Seq(Int)
      OBVIOUS
    <3>0. c[i] \in Cells
      BY ElementOfSeq
    <3>1. c[i].value \in Int
      BY <3>0 DEF Cells
    <3>2. <<c[i].value>> \in Seq(Int) /\ <<>> \in Seq(Int)
      BY <3>1
    <3> QED
      BY <3>2
  <2> QED
    BY <2>1 DEF BytesIn
<1>2. a \o b \in Seq(Cells)
  OBVIOUS
<1>3. BytesIn(a \o b) = BytesIn(a) \o BytesIn(b)
  <2>1. Joins(a, b, a \o b)
    BY CatJoins
  <2>2. Len(a) \in Nat /\ Len(b) \in Nat
    OBVIOUS
  <2>3. Joins(BytesIn(a), BytesIn(b), BytesIn(a \o b))
    <3>1. Len(BytesIn(a \o b)) = Len(BytesIn(a)) + Len(BytesIn(b))
      BY <1>1, <1>2, <2>1 DEF Joins
    <3>2. ASSUME NEW i \in 1 .. Len(a) PROVE BytesIn(a \o b)[i] = BytesIn(a)[i]
      <4>1. i \in 1 .. Len(a \o b) /\ (a \o b)[i] = a[i]
        BY <2>1, <2>2 DEF Joins
      <4> QED
        BY <1>1, <1>2, <4>1
    <3>3. ASSUME NEW i \in 1 .. Len(b) PROVE BytesIn(a \o b)[Len(a) + i] = BytesIn(b)[i]
      <4>1. Len(a) + i \in 1 .. Len(a \o b) /\ (a \o b)[Len(a) + i] = b[i]
        BY <2>1, <2>2 DEF Joins
      <4> QED
        BY <1>1, <1>2, <4>1
    <3> QED
      BY <1>1, <3>1, <3>2, <3>3 DEF Joins
  <2> QED
    BY <1>1, <1>2, <2>3, JoinIs
<1>4. FlattenSeq(BytesIn(a) \o BytesIn(b)) = FlattenSeq(BytesIn(a)) \o FlattenSeq(BytesIn(b))
  BY <1>1, FlattenConcat
<1>5. BytesOf(a) \in Seq(Int)
  BY <1>1, FlattenType DEF BytesOf
<1> QED
  BY <1>1, <1>3, <1>4, <1>5 DEF BytesOf

\* The bytes in a record are the ones that were written.
LEMMA BytesOfRecord ==
  ASSUME NEW data \in Seq(Int)
  PROVE  BytesOf(Record(data)) = data
<1>1. BytesOf(<<>>) = <<>>
  <2>1. BytesIn(<<>>) = <<>>
    BY DEF BytesIn
  <2> QED
    BY <2>1, FlattenType DEF BytesOf
<1>2. ASSUME NEW cell \in Cells
      PROVE  BytesOf(<<cell>>) = IF cell.kind = "byte" THEN <<cell.value>> ELSE <<>>
  <2> DEFINE v == IF cell.kind = "byte" THEN <<cell.value>> ELSE <<>>
             none == <<>>
  <2>1. v \in Seq(Int) /\ none \in Seq(Seq(Int))
    BY DEF Cells
  <2>2. BytesIn(<<cell>>) = <<v>>
    BY DEF BytesIn
  <2> HIDE DEF v
  <2>3. <<v>> = Append(none, v)
    OBVIOUS
  <2>4. FlattenSeq(none) \o v = v
    BY <2>1, FlattenType, ConcatEmptySeq
  <2> HIDE DEF none
  <2>5. FlattenSeq(Append(none, v)) = FlattenSeq(none) \o v
    BY <2>1, FlattenAppend
  <2>6. BytesOf(<<cell>>) = v
    BY <2>2, <2>3, <2>4, <2>5 DEF BytesOf
  <2> QED
    BY <2>6 DEF v
<1> DEFINE P == {d \in Seq(Int) : BytesOf(Body(d)) = d}
<1>3. <<>> \in P
  <2>1. Body(<<>>) = <<>>
    BY DEF Body
  <2> QED
    BY <1>1, <2>1
<1>4. ASSUME NEW d \in Seq(Int), NEW x \in Int, d \in P PROVE Append(d, x) \in P
  <2>1. ByteCell(x) \in Cells /\ ByteCell(x).kind = "byte" /\ ByteCell(x).value = x
    BY DEF ByteCell, Cells
  <2>2. Body(Append(d, x)) = Body(d) \o <<ByteCell(x)>>
    <3> DEFINE l == Body(Append(d, x))
               r == Body(d) \o <<ByteCell(x)>>
    <3>1. l \in Seq(Cells) /\ Len(l) = Len(d) + 1
          /\ \A i \in 1 .. Len(d) + 1 : l[i] = ByteCell(Append(d, x)[i])
      <4>1. Append(d, x) \in Seq(Int) /\ Len(Append(d, x)) = Len(d) + 1
        OBVIOUS
      <4> QED
        BY <4>1, RecordIs
    <3>2. /\ Body(d) \in Seq(Cells) /\ Len(Body(d)) = Len(d)
          /\ \A i \in 1 .. Len(d) : Body(d)[i] = ByteCell(d[i])
      BY RecordIs
    <3>3. r \in Seq(Cells) /\ Len(r) = Len(d) + 1
          /\ \A i \in 1 .. Len(d) + 1 : r[i] = IF i <= Len(d) THEN Body(d)[i] ELSE ByteCell(x)
      BY <2>1, <3>2
    <3>4. \A i \in 1 .. Len(d) + 1 : l[i] = r[i]
      BY <3>1, <3>2, <3>3
    <3> HIDE DEF l, r
    <3>5. l = r
      BY <3>1, <3>3, <3>4, SeqEqual
    <3> QED
      BY <3>5 DEF l, r
  <2>3. BytesOf(Body(d) \o <<ByteCell(x)>>) = BytesOf(Body(d)) \o BytesOf(<<ByteCell(x)>>)
    <3> DEFINE one == <<ByteCell(x)>>
    <3>0. one \in Seq(Cells)
      BY <2>1
    <3>1. Body(d) \in Seq(Cells)
      BY RecordIs
    <3> HIDE DEF one
    <3>2. BytesOf(Body(d) \o one) = BytesOf(Body(d)) \o BytesOf(one)
      BY <3>0, <3>1, BytesConcat
    <3> QED
      BY <3>2 DEF one
  <2>4. BytesOf(<<ByteCell(x)>>) = <<x>>
    BY <1>2, <2>1
  <2>5. d \o <<x>> = Append(d, x)
    OBVIOUS
  <2>6. BytesOf(Body(d)) = d
    BY <1>4
  <2>7. BytesOf(Body(Append(d, x))) = Append(d, x)
    BY <2>2, <2>3, <2>4, <2>5, <2>6
  <2> QED
    BY <2>7
<1> HIDE DEF P
<1>5. Seq(Int) \subseteq P
  BY <1>3, <1>4, SeqAll
<1>6. BytesOf(Body(data)) = data
  BY <1>5 DEF P
<1>7. /\ LenCell(Len(data)) \in Cells /\ LenCell(Len(data)).kind # "byte"
  BY DEF LenCell, Cells
<1>8. BytesOf(<<LenCell(Len(data))>>) = <<>>
  BY <1>2, <1>7
<1>9. BytesOf(<<LenCell(Len(data))>> \o Body(data))
        = BytesOf(<<LenCell(Len(data))>>) \o BytesOf(Body(data))
  <2> DEFINE one == <<LenCell(Len(data))>>
  <2>0. one \in Seq(Cells)
    BY <1>7
  <2>1. Body(data) \in Seq(Cells)
    BY RecordIs
  <2> HIDE DEF one
  <2>2. BytesOf(one \o Body(data)) = BytesOf(one) \o BytesOf(Body(data))
    BY <2>0, <2>1, BytesConcat
  <2> QED
    BY <2>2 DEF one
<1> QED
  BY <1>6, <1>8, <1>9, RecordIs, ConcatEmptySeq

Chunks == Seq(Chunk)

\* What kind of thing the records of some chunks are.
LEMMA RecordsType ==
  ASSUME NEW ps \in Chunks
  PROVE  /\ RecordsOf(ps) \in Seq(Seq(Cells)) /\ Len(RecordsOf(ps)) = Len(ps)
         /\ \A i \in 1 .. Len(ps) : RecordsOf(ps)[i] = Record(ps[i])
         /\ Records(ps) \in Seq(Cells)
<1>1. \A i \in 1 .. Len(ps) : ps[i] \in Seq(Int)
  BY ElementOfSeq DEF Chunks, Chunk
<1>2. \A i \in 1 .. Len(ps) : Record(ps[i]) \in Seq(Cells)
  BY <1>1, RecordIs
<1> DEFINE S == Seq(Cells)
<1>3. Len(ps) \in Nat /\ \A i \in 1 .. Len(ps) : Record(ps[i]) \in S
  BY <1>2 DEF Chunks
<1> HIDE DEF S
<1>4. /\ RecordsOf(ps) \in Seq(S) /\ Len(RecordsOf(ps)) = Len(ps)
      /\ \A i \in 1 .. Len(ps) : RecordsOf(ps)[i] = Record(ps[i])
  BY <1>3 DEF RecordsOf
<1> USE DEF S
<1>5. Records(ps) \in Seq(Cells)
  BY <1>4, FlattenType DEF Records
<1> QED
  BY <1>4, <1>5

\* The records of some chunks and some more.
LEMMA RecordsConcat ==
  ASSUME NEW a \in Chunks, NEW b \in Chunks
  PROVE  a \o b \in Chunks /\ Records(a \o b) = Records(a) \o Records(b)
<1>1. a \o b \in Chunks /\ Joins(a, b, a \o b)
  BY CatJoins DEF Chunks
<1>2. /\ RecordsOf(a) \in Seq(Seq(Cells)) /\ RecordsOf(b) \in Seq(Seq(Cells))
      /\ RecordsOf(a \o b) \in Seq(Seq(Cells))
  BY <1>1, RecordsType
<1>3. Joins(RecordsOf(a), RecordsOf(b), RecordsOf(a \o b))
  <2>0. Len(a) \in Nat /\ Len(b) \in Nat
    BY DEF Chunks
  <2>1. Len(RecordsOf(a \o b)) = Len(RecordsOf(a)) + Len(RecordsOf(b))
    BY <1>1, RecordsType DEF Joins
  <2>2. ASSUME NEW i \in 1 .. Len(a) PROVE RecordsOf(a \o b)[i] = RecordsOf(a)[i]
    <3>1. i \in 1 .. Len(a \o b) /\ (a \o b)[i] = a[i]
      BY <1>1, <2>0 DEF Joins
    <3> QED
      BY <1>1, <3>1, RecordsType
  <2>3. ASSUME NEW i \in 1 .. Len(b) PROVE RecordsOf(a \o b)[Len(a) + i] = RecordsOf(b)[i]
    <3>1. Len(a) + i \in 1 .. Len(a \o b) /\ (a \o b)[Len(a) + i] = b[i]
      BY <1>1, <2>0 DEF Joins
    <3> QED
      BY <1>1, <3>1, RecordsType
  <2>4. Len(RecordsOf(a)) = Len(a) /\ Len(RecordsOf(b)) = Len(b)
    BY RecordsType
  <2> QED
    BY <2>1, <2>2, <2>3, <2>4 DEF Joins
<1>4. RecordsOf(a \o b) = RecordsOf(a) \o RecordsOf(b)
  BY <1>2, <1>3, JoinIs
<1>5. FlattenSeq(RecordsOf(a) \o RecordsOf(b))
        = FlattenSeq(RecordsOf(a)) \o FlattenSeq(RecordsOf(b))
  BY <1>2, FlattenConcat
<1> QED
  BY <1>1, <1>4, <1>5 DEF Records

\* The records of none and of one chunk.
LEMMA RecordsFew ==
  /\ Records(<<>>) = <<>>
  /\ \A x \in Chunk : <<x>> \in Chunks /\ Records(<<x>>) = Record(x)
<1>1. Records(<<>>) = <<>>
  <2>1. RecordsOf(<<>>) = <<>>
    BY DEF RecordsOf
  <2> QED
    BY <2>1, FlattenType DEF Records
<1> SUFFICES ASSUME NEW x \in Chunk
             PROVE  <<x>> \in Chunks /\ Records(<<x>>) = Record(x)
  BY <1>1
<1>2. <<x>> \in Chunks
  BY DEF Chunks
<1> DEFINE r == Record(x)
           none == <<>>
<1>3. r \in Seq(Cells)
  BY RecordIs DEF Chunk
<1>4. RecordsOf(<<x>>) = <<r>>
  BY DEF RecordsOf
<1> HIDE DEF r
<1>5. <<r>> = Append(none, r) /\ none \in Seq(Seq(Cells))
  OBVIOUS
<1>6. FlattenSeq(none) \o r = r
  BY <1>3, FlattenType, ConcatEmptySeq
<1> HIDE DEF none
<1>7. FlattenSeq(Append(none, r)) = FlattenSeq(none) \o r
  BY <1>3, <1>5, FlattenAppend
<1>8. Records(<<x>>) = r
  BY <1>4, <1>5, <1>6, <1>7 DEF Records
<1> QED
  BY <1>2, <1>8 DEF r

\* The bytes in the records of some chunks are these chunks, one after another.
LEMMA BytesOfRecords ==
  ASSUME NEW ps \in Chunks
  PROVE  BytesOf(Records(ps)) = FlattenSeq(ps)
<1> DEFINE P == {q \in Chunks : BytesOf(Records(q)) = FlattenSeq(q)}
<1>1. <<>> \in P
  <2>1. BytesIn(<<>>) = <<>> /\ <<>> \in Chunks
    BY DEF BytesIn, Chunks
  <2>2. BytesOf(<<>>) = <<>>
    BY <2>1, FlattenType DEF BytesOf
  <2> QED
    BY <2>1, <2>2, RecordsFew, FlattenType
<1>2. ASSUME NEW q \in Seq(Chunk), NEW x \in Chunk, q \in P PROVE Append(q, x) \in P
  <2>1. q \in Chunks /\ <<x>> \in Chunks /\ Append(q, x) \in Chunks /\ q \in Seq(Seq(Int))
        /\ x \in Seq(Int)
    BY SeqMonotonic DEF Chunks, Chunk
  <2>2. Append(q, x) = q \o <<x>>
    OBVIOUS
  <2>3. Records(q \o <<x>>) = Records(q) \o Record(x)
    <3>1. Records(q \o <<x>>) = Records(q) \o Records(<<x>>)
      BY <2>1, RecordsConcat
    <3> QED
      BY <3>1, RecordsFew
  <2>4. BytesOf(Records(q) \o Record(x)) = BytesOf(Records(q)) \o BytesOf(Record(x))
    <3>1. Records(q) \in Seq(Cells) /\ Record(x) \in Seq(Cells)
      BY <2>1, RecordsType, RecordIs
    <3> QED
      BY <3>1, BytesConcat
  <2>5. BytesOf(Record(x)) = x
    BY <2>1, BytesOfRecord
  <2>6. FlattenSeq(Append(q, x)) = FlattenSeq(q) \o x
    BY <2>1, FlattenAppend
  <2>7. BytesOf(Records(q)) = FlattenSeq(q)
    BY <1>2
  <2>8. BytesOf(Records(Append(q, x))) = FlattenSeq(Append(q, x))
    BY <2>2, <2>3, <2>4, <2>5, <2>6, <2>7
  <2> QED
    BY <2>1, <2>8
<1> HIDE DEF P
<1>3. Seq(Chunk) \subseteq P
  BY <1>1, <1>2, SeqAll
<1> QED
  BY <1>3 DEF P, Chunks

-----------------------------------------------------------------------------
(* The file.                                                               *)

\* What a file can be, in any of its states.
Files == [open : BOOLEAN, cells : Seq(Cells), pos : Nat]

\* The position of f is at the records of the chunks ps, which end the file.
Holds(f, ps) ==
  /\ f \in Files /\ ps \in Chunks
  /\ f.pos <= Len(f.cells)
  /\ Ahead(f) = Records(ps)
  /\ ~ f.open => f.cells = <<>>

\* What is ahead of a position.
LEMMA AheadIs ==
  ASSUME NEW f \in Files, f.pos <= Len(f.cells)
  PROVE  /\ f.cells \in Seq(Cells) /\ Len(f.cells) \in Nat /\ f.pos \in Nat
         /\ Ahead(f) \in Seq(Cells) /\ Len(Ahead(f)) = Len(f.cells) - f.pos
         /\ \A i \in 1 .. Len(Ahead(f)) : Ahead(f)[i] = f.cells[f.pos + i]
<1>1. f.cells \in Seq(Cells) /\ Len(f.cells) \in Nat /\ f.pos \in Nat
  BY DEF Files
<1> DEFINE c == f.cells
           p == f.pos
<1>2. c \in Seq(Cells) /\ Len(c) \in Nat /\ p \in Nat /\ p <= Len(c)
  BY <1>1
<1> HIDE DEF c, p
<1>3. \A i \in p + 1 .. Len(c) : c[i] \in Cells
  <2> SUFFICES ASSUME NEW i \in p + 1 .. Len(c) PROVE c[i] \in Cells
    OBVIOUS
  <2>1. i \in 1 .. Len(c)
    BY <1>2
  <2> QED
    BY <1>2, <2>1, ElementOfSeq
<1>4. /\ SubSeq(c, p + 1, Len(c)) \in Seq(Cells)
      /\ Len(SubSeq(c, p + 1, Len(c))) = IF p + 1 <= Len(c) THEN Len(c) - (p + 1) + 1 ELSE 0
      /\ \A i \in 1 .. Len(c) - (p + 1) + 1 : SubSeq(c, p + 1, Len(c))[i] = c[(p + 1) + i - 1]
  BY <1>2, <1>3, SubSeqProperties, SMTT(30)
<1>5. /\ SubSeq(c, p + 1, Len(c)) \in Seq(Cells)
      /\ Len(SubSeq(c, p + 1, Len(c))) = Len(c) - p
      /\ \A i \in 1 .. Len(c) - p : SubSeq(c, p + 1, Len(c))[i] = c[p + i]
  <2>1. Len(c) - (p + 1) + 1 = Len(c) - p
    BY <1>2
  <2>2. \A i \in 1 .. Len(c) - p : (p + 1) + i - 1 = p + i
    BY <1>2
  <2>3. Len(SubSeq(c, p + 1, Len(c))) = Len(c) - p
    BY <1>2, <1>4
  <2> QED
    BY <1>4, <2>1, <2>2, <2>3
<1> QED
  BY <1>1, <1>5 DEF Ahead, c, p

\* The bytes ahead are the chunks of the records.
LEMMA HoldsBytes ==
  ASSUME NEW f, NEW ps, Holds(f, ps)
  PROVE  BytesOf(Ahead(f)) = FlattenSeq(ps) /\ FlattenSeq(ps) \in Seq(Int)
<1>1. ps \in Seq(Seq(Int))
  BY SeqMonotonic DEF Holds, Chunks, Chunk
<1> QED
  BY <1>1, BytesOfRecords, FlattenType DEF Holds

\* r is a length cell and the bytes of data.
Shape(data, r) ==
  /\ r \in Seq(Cells) /\ Len(data) \in Nat /\ Len(r) = 1 + Len(data)
  /\ r[1] = LenCell(Len(data))
  /\ \A i \in 1 .. Len(data) : r[1 + i] = ByteCell(data[i])

\* Which is what a record is.
LEMMA RecordShape ==
  ASSUME NEW data \in Seq(Int)
  PROVE  Shape(data, Record(data))
<1>1. Len(data) \in Nat
  OBVIOUS
<1> QED
  BY <1>1, RecordIs DEF Shape

\* A file that nobody opened holds nothing.
LEMMA NoFileHolds == Holds(NoFile, <<>>)
<1>1. NoFile \in Files /\ <<>> \in Chunks
  BY DEF NoFile, Files, Chunks
<1>2. Ahead(NoFile) = <<>>
  BY DEF Ahead, NoFile
<1> QED
  BY <1>1, <1>2, RecordsFew DEF Holds, NoFile

\* The first record is a length and its bytes, and the others follow.
LEMMA FirstRecord ==
  ASSUME NEW ps \in Chunks, ps # <<>>
  PROVE  /\ Head(ps) \in Chunk /\ Tail(ps) \in Chunks
         /\ Records(ps) = Record(Head(ps)) \o Records(Tail(ps))
         /\ Joins(Record(Head(ps)), Records(Tail(ps)), Records(ps))
<1>1. Head(ps) \in Chunk /\ Tail(ps) \in Chunks
  BY HeadTailProperties DEF Chunks
<1>2. ps = <<Head(ps)>> \o Tail(ps) /\ <<Head(ps)>> \in Chunks
  BY <1>1, RecordsFew DEF Chunks
<1>3. Records(<<Head(ps)>> \o Tail(ps)) = Records(<<Head(ps)>>) \o Records(Tail(ps))
  BY <1>1, <1>2, RecordsConcat
<1>4. Records(ps) = Record(Head(ps)) \o Records(Tail(ps))
  BY <1>1, <1>2, <1>3, RecordsFew
<1>5. Record(Head(ps)) \in Seq(Cells) /\ Records(Tail(ps)) \in Seq(Cells)
  BY <1>1, RecordIs, RecordsType DEF Chunk
<1> QED
  BY <1>1, <1>4, <1>5, CatJoins

\* peeksize() returns the size of the first chunk, and 0 when there is none.
LEMMA PeekSizeIs ==
  ASSUME NEW f, NEW ps, Holds(f, ps)
  PROVE  PeekSize(f) = IF ps = <<>> THEN 0 ELSE Len(Head(ps))
<1>0. f \in Files /\ ps \in Chunks /\ f.pos <= Len(f.cells) /\ Ahead(f) = Records(ps)
      /\ (~ f.open => f.cells = <<>>)
  BY DEF Holds
<1>1. /\ Len(f.cells) \in Nat /\ f.pos \in Nat /\ Len(Ahead(f)) = Len(f.cells) - f.pos
      /\ \A i \in 1 .. Len(Ahead(f)) : Ahead(f)[i] = f.cells[f.pos + i]
  BY <1>0, AheadIs
<1>2. CASE ps = <<>>
  <2>1. Len(Ahead(f)) = 0
    BY <1>0, <1>2, RecordsFew
  <2>2. ~ (f.pos < Len(f.cells))
    BY <1>1, <2>1
  <2> QED
    BY <1>2, <2>2 DEF PeekSize
<1>3. CASE ps # <<>>
  <2> DEFINE first == Record(Head(ps))
             rest == Records(Tail(ps))
  <2>1. Joins(first, rest, Ahead(f)) /\ Head(ps) \in Seq(Int)
    BY <1>0, <1>3, FirstRecord DEF Chunk
  <2>0. Shape(Head(ps), first)
    BY <2>1, RecordShape
  <2>3. Len(rest) \in Nat
    <3>1. rest \in Seq(Cells)
      BY <1>0, <1>3, FirstRecord, RecordsType
    <3> QED
      BY <3>1
  <2> HIDE DEF first, rest
  <2>2. Len(first) = 1 + Len(Head(ps)) /\ first[1] = LenCell(Len(Head(ps))) /\ Len(Head(ps)) \in Nat
    BY <2>0 DEF Shape
  <2>4. 1 \in 1 .. Len(first) /\ 1 \in 1 .. Len(Ahead(f))
    BY <2>1, <2>2, <2>3 DEF Joins
  <2>5. f.cells[f.pos + 1] = LenCell(Len(Head(ps)))
    BY <1>1, <2>1, <2>2, <2>4 DEF Joins
  <2>6. f.pos < Len(f.cells)
    BY <1>1, <2>4
  <2>7. f.open
    <3>1. Len(<<>>) = 0
      OBVIOUS
    <3> QED
      BY <1>0, <1>1, <2>6, <3>1
  <2> QED
    BY <1>3, <2>5, <2>6, <2>7 DEF PeekSize, LenCell
<1> QED
  BY <1>2, <1>3

\* read() of the first record returns its chunk, complete, and moves on to the
\* next record.
LEMMA ReadIs ==
  ASSUME NEW f, NEW ps, Holds(f, ps), ps # <<>>
  PROVE  /\ DiskRead(f, PeekSize(f)) = Head(ps)
         /\ Holds(DiskAdvance(f, PeekSize(f)), Tail(ps))
<1>0. f \in Files /\ ps \in Chunks /\ f.pos <= Len(f.cells) /\ Ahead(f) = Records(ps)
      /\ (~ f.open => f.cells = <<>>)
  BY DEF Holds
<1>1. /\ Len(f.cells) \in Nat /\ f.pos \in Nat /\ Len(Ahead(f)) = Len(f.cells) - f.pos
      /\ \A i \in 1 .. Len(Ahead(f)) : Ahead(f)[i] = f.cells[f.pos + i]
      /\ f.cells \in Seq(Cells)
  BY <1>0, AheadIs
<1> DEFINE data == Head(ps)
           first == Record(data)
           rest == Records(Tail(ps))
           n == Len(data)
<1>2. PeekSize(f) = n
  BY PeekSizeIs
<1>3. Joins(first, rest, Ahead(f)) /\ data \in Seq(Int) /\ rest \in Seq(Cells) /\ Tail(ps) \in Chunks
  BY <1>0, FirstRecord, RecordsType DEF Chunk
<1>a. Len(rest) \in Nat
  BY <1>3
<1>b. Shape(data, first)
  BY <1>3, RecordShape
<1> HIDE DEF data, first, rest
<1>4. /\ Len(first) = 1 + n /\ n \in Nat /\ Len(rest) \in Nat
      /\ \A i \in 1 .. n : first[1 + i] = ByteCell(data[i])
  BY <1>a, <1>b DEF Shape
<1>c. data = [i \in 1 .. n |-> data[i]]
  BY <1>3, LenProperties
<1> HIDE DEF n
<1>5. Len(f.cells) = f.pos + 1 + n + Len(rest)
  <2>1. Len(Ahead(f)) = Len(first) + Len(rest)
    BY <1>3 DEF Joins
  <2>2. Len(f.cells) \in Nat /\ f.pos \in Nat /\ Len(Ahead(f)) = Len(f.cells) - f.pos
    BY <1>1
  <2>3. Len(first) = 1 + n /\ n \in Nat /\ Len(rest) \in Nat
    BY <1>4
  <2> QED
    BY <2>1, <2>2, <2>3, SMTT(30)
<1>6. \A i \in 1 .. n : f.cells[f.pos + 1 + i] = ByteCell(data[i])
  <2> SUFFICES ASSUME NEW i \in 1 .. n PROVE f.cells[f.pos + 1 + i] = ByteCell(data[i])
    OBVIOUS
  <2>1. 1 + i \in 1 .. Len(first) /\ 1 + i \in 1 .. Len(Ahead(f)) /\ f.pos + (1 + i) = f.pos + 1 + i
    <3>1. /\ Len(first) = 1 + n /\ n \in Nat /\ Len(rest) \in Nat /\ f.pos \in Nat
          /\ Len(f.cells) \in Nat /\ Len(Ahead(f)) = Len(f.cells) - f.pos
      BY <1>1, <1>4
    <3> QED
      BY <1>5, <3>1, SMTT(30)
  <2>2. Ahead(f)[1 + i] = first[1 + i]
    BY <1>3, <2>1 DEF Joins
  <2>3. Ahead(f)[1 + i] = f.cells[f.pos + 1 + i]
    BY <1>1, <2>1
  <2> QED
    BY <1>4, <2>2, <2>3
<1>7. DiskRead(f, n) = data
  <2> DEFINE cells == SubSeq(f.cells, f.pos + 2, f.pos + 1 + n)
  <2>1. /\ Len(cells) = n /\ \A i \in 1 .. n : cells[i] = f.cells[f.pos + 1 + i]
    <3>1. \A i \in f.pos + 2 .. f.pos + 1 + n : f.cells[i] \in Cells
      <4> SUFFICES ASSUME NEW i \in f.pos + 2 .. f.pos + 1 + n PROVE f.cells[i] \in Cells
        OBVIOUS
      <4>1. i \in 1 .. Len(f.cells)
        BY <1>1, <1>4, <1>5, SMTT(30)
      <4> QED
        BY <1>1, <4>1, ElementOfSeq
    <3> DEFINE p == f.pos
               a == p + 2
               b == p + 1 + n
    <3>0. p \in Nat
      BY <1>1
    <3> HIDE DEF p
    <3>a. a \in Int /\ b \in Int /\ b - a + 1 = n
      BY <1>4, <3>0
    <3>b. a <= b <=> n # 0
      BY <1>4, <3>0
    <3>c. \A i \in 1 .. n : a + i - 1 = p + 1 + i
      BY <1>4, <3>0
    <3>2. a \in Int /\ b \in Int /\ b - a + 1 = n /\ (a <= b <=> n # 0)
          /\ \A i \in 1 .. n : a + i - 1 = f.pos + 1 + i
      BY <3>a, <3>b, <3>c DEF p
    <3>3. \A i \in a .. b : f.cells[i] \in Cells
      BY <3>1 DEF p
    <3> HIDE DEF a, b
    <3>4. /\ Len(SubSeq(f.cells, a, b)) = IF a <= b THEN b - a + 1 ELSE 0
          /\ \A i \in 1 .. b - a + 1 : SubSeq(f.cells, a, b)[i] = f.cells[a + i - 1]
      BY <3>2, <3>3, SubSeqProperties
    <3>5. Len(SubSeq(f.cells, a, b)) = n
      BY <1>4, <3>2, <3>4
    <3>6. \A i \in 1 .. n : SubSeq(f.cells, a, b)[i] = f.cells[f.pos + 1 + i]
      BY <3>2, <3>4
    <3> QED
      BY <3>5, <3>6 DEF a, b, p
  <2> HIDE DEF cells
  <2> DEFINE r == [i \in 1 .. Len(cells) |-> cells[i].value]
  <2>2. \A i \in 1 .. n : cells[i].value = data[i]
    <3>1. \A i \in 1 .. n : cells[i] = ByteCell(data[i])
      BY <1>6, <2>1
    <3>2. \A b : ByteCell(b).value = b
      BY DEF ByteCell
    <3> QED
      BY <3>1, <3>2
  <2>3. r = [i \in 1 .. n |-> data[i]]
    BY <2>1, <2>2
  <2> QED
    BY <1>c, <2>3 DEF DiskRead, cells
<1>8. Holds(DiskAdvance(f, n), Tail(ps))
  <2> DEFINE g == DiskAdvance(f, n)
  <2>1. /\ g \in Files /\ g.cells = f.cells /\ g.open = f.open /\ g.pos = f.pos + 1 + n
    <3>1. f.pos + 1 + n \in Nat
      BY <1>1, <1>4
    <3> QED
      BY <1>0, <3>1 DEF DiskAdvance, Files
  <2> HIDE DEF g
  <2>2. g.pos <= Len(g.cells)
    BY <1>1, <1>4, <1>5, <2>1
  <2>3. /\ Len(Ahead(g)) = Len(g.cells) - g.pos /\ Ahead(g) \in Seq(Cells)
        /\ \A i \in 1 .. Len(Ahead(g)) : Ahead(g)[i] = g.cells[g.pos + i]
    BY <2>1, <2>2, AheadIs
  <2>4. Len(Ahead(g)) = Len(rest)
    BY <1>1, <1>4, <1>5, <2>1, <2>3
  <2>5. ASSUME NEW i \in 1 .. Len(rest) PROVE Ahead(g)[i] = rest[i]
    <3>1. Ahead(g)[i] = f.cells[f.pos + 1 + n + i]
      BY <2>1, <2>3, <2>4
    <3>2. Ahead(f)[Len(first) + i] = rest[i]
      BY <1>3 DEF Joins
    <3>3. Len(first) + i \in 1 .. Len(Ahead(f)) /\ f.pos + (Len(first) + i) = f.pos + 1 + n + i
      BY <1>1, <1>4, <1>5, SMTT(30)
    <3> QED
      BY <1>1, <3>1, <3>2, <3>3
  <2>6. Ahead(g) = rest
    BY <1>3, <2>3, <2>4, <2>5, SeqEqual
  <2> QED
    BY <1>0, <1>3, <2>1, <2>2, <2>6 DEF Holds, g, rest
<1> QED
  BY <1>2, <1>7, <1>8 DEF data

\* The i-th of m cells that are appended to c cells, of which a are ahead of p.
LEMMA Beyond ==
  ASSUME NEW c \in Nat, NEW p \in Nat, NEW m \in Nat, NEW a, NEW h,
         p <= c, a = c - p, h = a + m, NEW i \in 1 .. m
  PROVE  a + i \in 1 .. h /\ p + (a + i) = c + i
OBVIOUS

\* write() puts one more record behind those ahead.
LEMMA WriteIs ==
  ASSUME NEW f, NEW ps, Holds(f, ps), NEW data \in Chunk
  PROVE  Append(ps, data) \in Chunks /\ Holds(DiskWrite(f, data), Append(ps, data))
<1>0. f \in Files /\ ps \in Chunks /\ f.pos <= Len(f.cells) /\ Ahead(f) = Records(ps)
  BY DEF Holds
<1>1. /\ Len(f.cells) \in Nat /\ f.pos \in Nat /\ Len(Ahead(f)) = Len(f.cells) - f.pos
      /\ \A i \in 1 .. Len(Ahead(f)) : Ahead(f)[i] = f.cells[f.pos + i]
      /\ f.cells \in Seq(Cells) /\ Ahead(f) \in Seq(Cells)
  BY <1>0, AheadIs
<1>2. /\ Append(ps, data) \in Chunks /\ Records(Append(ps, data)) = Ahead(f) \o Record(data)
  <2>1. <<data>> \in Chunks /\ Append(ps, data) = ps \o <<data>>
    BY <1>0, RecordsFew DEF Chunks
  <2> QED
    BY <1>0, <2>1, RecordsConcat, RecordsFew
<1> DEFINE g == DiskWrite(f, data)
           r == Record(data)
           l == Ahead(f) \o r
<1>3. r \in Seq(Cells)
  BY RecordShape DEF Chunk, Shape
<1> HIDE DEF r
<1>4. f.cells \o r \in Seq(Cells) /\ Joins(f.cells, r, f.cells \o r)
      /\ l \in Seq(Cells) /\ Joins(Ahead(f), r, l)
  BY <1>1, <1>3, CatJoins
<1>5. /\ g \in Files /\ g.cells = f.cells \o r /\ g.pos = f.pos /\ g.open = TRUE
  BY <1>1, <1>4 DEF DiskWrite, Files, r
<1> HIDE DEF g, l
<1>6. Len(r) \in Nat /\ Len(g.cells) = Len(f.cells) + Len(r)
  BY <1>3, <1>4, <1>5 DEF Joins
<1>7. g.pos <= Len(g.cells)
  BY <1>0, <1>1, <1>5, <1>6
<1>8. /\ Len(Ahead(g)) = Len(g.cells) - g.pos /\ Ahead(g) \in Seq(Cells)
      /\ \A i \in 1 .. Len(Ahead(g)) : Ahead(g)[i] = g.cells[g.pos + i]
  BY <1>5, <1>7, AheadIs
<1>9. Joins(Ahead(f), r, Ahead(g))
  <2>1. Len(Ahead(g)) = Len(Ahead(f)) + Len(r)
    BY <1>1, <1>5, <1>6, <1>8
  <2>2. ASSUME NEW i \in 1 .. Len(Ahead(f)) PROVE Ahead(g)[i] = Ahead(f)[i]
    <3>1. f.pos + i \in 1 .. Len(f.cells) /\ i \in 1 .. Len(Ahead(g))
      BY <1>1, <1>6, <2>1, SMTT(30)
    <3>2. g.cells[f.pos + i] = f.cells[f.pos + i]
      BY <1>4, <1>5, <3>1 DEF Joins
    <3> QED
      BY <1>1, <1>5, <1>8, <3>1, <3>2
  <2>3. ASSUME NEW i \in 1 .. Len(r) PROVE Ahead(g)[Len(Ahead(f)) + i] = r[i]
    <3>1. Len(Ahead(f)) + i \in 1 .. Len(Ahead(g)) /\ f.pos + (Len(Ahead(f)) + i) = Len(f.cells) + i
      <4>1. Len(f.cells) \in Nat /\ f.pos \in Nat /\ Len(Ahead(f)) = Len(f.cells) - f.pos
        BY <1>1, Zenon
      <4>2. f.pos <= Len(f.cells) /\ Len(r) \in Nat
        BY <1>0, <1>6, Zenon
      <4> QED
        BY <2>1, <4>1, <4>2, Beyond, SMTT(30)
    <3>2. g.cells[Len(f.cells) + i] = r[i]
      BY <1>4, <1>5 DEF Joins
    <3> QED
      BY <1>5, <1>8, <3>1, <3>2
  <2> QED
    BY <2>1, <2>2, <2>3 DEF Joins
<1>10. Ahead(g) = l
  BY <1>1, <1>3, <1>8, <1>9, JoinIs DEF l
<1> QED
  BY <1>2, <1>5, <1>7, <1>10 DEF Holds, g, l, r

\* A torn write leaves the position at the end, with nothing ahead.
LEMMA TornIs ==
  ASSUME NEW f \in Files, NEW data \in Chunk, NEW n \in 0 .. Len(data)
  PROVE  Holds(DiskWriteTorn(f, data, n), <<>>)
<1> DEFINE g == DiskWriteTorn(f, data, n)
           torn == SubSeq(Record(data), 1, n)
<1>1. torn \in Seq(Cells)
  <2> DEFINE r == Record(data)
  <2>1. r \in Seq(Cells) /\ Len(r) = 1 + Len(data) /\ Len(data) \in Nat
    BY RecordShape DEF Chunk, Shape
  <2> HIDE DEF r
  <2>2. \A i \in 1 .. n : r[i] \in Cells
    <3> SUFFICES ASSUME NEW i \in 1 .. n PROVE r[i] \in Cells
      OBVIOUS
    <3>1. i \in 1 .. Len(r)
      BY <2>1
    <3> QED
      BY <2>1, <3>1, ElementOfSeq
  <2>3. n \in Int /\ 1 \in Int
    BY <2>1
  <2>4. SubSeq(r, 1, n) \in Seq(Cells)
    BY <2>2, <2>3, SubSeqProperties
  <2> QED
    BY <2>4 DEF r
<1> HIDE DEF torn
<1>2. f.cells \o torn \in Seq(Cells) /\ Len(f.cells \o torn) \in Nat
  BY <1>1 DEF Files
<1>3. g \in Files /\ g.cells = f.cells \o torn /\ g.pos = Len(g.cells) /\ g.open = TRUE
  BY <1>2 DEF DiskWriteTorn, Files, torn
<1> HIDE DEF g
<1>4. g.pos <= Len(g.cells) /\ Len(g.cells) - g.pos = 0
  BY <1>2, <1>3
<1>5. Len(Ahead(g)) = 0 /\ Ahead(g) \in Seq(Cells)
  BY <1>3, <1>4, AheadIs
<1>6. Ahead(g) = <<>>
  <2> DEFINE a == Ahead(g)
  <2>1. a \in Seq(Cells) /\ Len(a) = 0
    BY <1>5
  <2> HIDE DEF a
  <2>2. a = <<>>
    BY <2>1, EmptySeq
  <2> QED
    BY <2>2 DEF a
<1>7. <<>> \in Chunks
  BY DEF Chunks
<1> QED
  BY <1>3, <1>4, <1>6, <1>7, RecordsFew DEF Holds, g

\* rollback() takes a read back.
LEMMA RollbackIs ==
  ASSUME NEW f \in Files, NEW sz \in Int
  PROVE  DiskRollback(DiskAdvance(f, sz), sz) = f
<1> DEFINE g == DiskRollback(DiskAdvance(f, sz), sz)
<1>1. f.pos \in Int /\ (f.pos + 1 + sz) - (1 + sz) = f.pos
  BY DEF Files
<1>2. /\ DiskAdvance(f, sz).open = f.open /\ DiskAdvance(f, sz).cells = f.cells
      /\ DiskAdvance(f, sz).pos = f.pos + 1 + sz
      /\ DiskAdvance(f, sz) \in [open : BOOLEAN, cells : Seq(Cells), pos : Int]
  BY <1>1 DEF DiskAdvance, Files
<1>3. g.open = f.open /\ g.cells = f.cells /\ g.pos = (f.pos + 1 + sz) - (1 + sz)
      /\ g \in [open : BOOLEAN, cells : Seq(Cells), pos : Int]
  <2> DEFINE h == DiskAdvance(f, sz)
  <2> HIDE DEF h
  <2>1. /\ h.open = f.open /\ h.cells = f.cells /\ h.pos = f.pos + 1 + sz
        /\ h \in [open : BOOLEAN, cells : Seq(Cells), pos : Int] /\ g = DiskRollback(h, sz)
    BY <1>2 DEF h
  <2> QED
    BY <2>1 DEF DiskRollback
<1> HIDE DEF g
<1>4. g.pos = f.pos
  BY <1>1, <1>3
<1>5. g = [open |-> g.open, cells |-> g.cells, pos |-> g.pos]
  BY <1>3
<1>6. f = [open |-> f.open, cells |-> f.cells, pos |-> f.pos]
  BY DEF Files
<1>7. g = f
  BY <1>3, <1>4, <1>5, <1>6
<1> QED
  BY <1>7 DEF g

-----------------------------------------------------------------------------
(* The cache.                                                              *)

\* What a cache can be, in any of its states.
Caches == [mem : Chunks, file : Files, lenMem : Int, lenFile : Int]

\* The file holds the chunks ps, and neither counter is too small for what is
\* there.
CacheOK(c, ps) ==
  /\ c \in Caches /\ Holds(c.file, ps)
  /\ c.lenMem >= Len(FlattenSeq(c.mem))
  /\ c.lenFile >= Len(FlattenSeq(ps))

\* Some chunks, as lists of bytes.
LEMMA FlattenChunks ==
  ASSUME NEW q \in Chunks
  PROVE  /\ q \in Seq(Seq(Int)) /\ FlattenSeq(q) \in Seq(Int) /\ Len(FlattenSeq(q)) \in Nat
         /\ \A x \in Chunk : /\ Append(q, x) \in Chunks
                             /\ FlattenSeq(Append(q, x)) = FlattenSeq(q) \o x
                             /\ Len(FlattenSeq(Append(q, x))) = Len(FlattenSeq(q)) + Len(x)
         /\ q # <<>> => /\ Head(q) \in Chunk /\ Tail(q) \in Chunks
                        /\ FlattenSeq(q) = Head(q) \o FlattenSeq(Tail(q))
                        /\ Len(FlattenSeq(q)) = Len(Head(q)) + Len(FlattenSeq(Tail(q)))
<1>1. q \in Seq(Seq(Int))
  BY SeqMonotonic DEF Chunks, Chunk
<1>2. FlattenSeq(q) \in Seq(Int) /\ Len(FlattenSeq(q)) \in Nat
  <2>1. FlattenSeq(q) \in Seq(Int)
    BY <1>1, FlattenType
  <2> QED
    BY <2>1, LenProperties
<1>3. ASSUME NEW x \in Chunk
      PROVE  /\ Append(q, x) \in Chunks
             /\ FlattenSeq(Append(q, x)) = FlattenSeq(q) \o x
             /\ Len(FlattenSeq(Append(q, x))) = Len(FlattenSeq(q)) + Len(x)
  <2>1. Append(q, x) \in Chunks /\ x \in Seq(Int)
    BY DEF Chunks, Chunk
  <2>2. FlattenSeq(Append(q, x)) = FlattenSeq(q) \o x
    BY <1>1, <2>1, FlattenAppend
  <2> QED
    BY <1>2, <2>1, <2>2, ConcatProperties
<1>4. ASSUME q # <<>>
      PROVE  /\ Head(q) \in Chunk /\ Tail(q) \in Chunks
             /\ FlattenSeq(q) = Head(q) \o FlattenSeq(Tail(q))
             /\ Len(FlattenSeq(q)) = Len(Head(q)) + Len(FlattenSeq(Tail(q)))
  <2>1. Head(q) \in Chunk /\ Tail(q) \in Chunks /\ Head(q) \in Seq(Int)
    BY <1>4, HeadTailProperties DEF Chunks, Chunk
  <2>2. FlattenSeq(q) = Head(q) \o FlattenSeq(Tail(q))
    BY <1>1, <1>4, FlattenHead
  <2>3. Tail(q) \in Seq(Seq(Int))
    BY <2>1, SeqMonotonic DEF Chunks, Chunk
  <2>4. FlattenSeq(Tail(q)) \in Seq(Int)
    BY <2>3, FlattenType
  <2> QED
    BY <2>1, <2>2, <2>4, ConcatProperties
<1> QED
  BY <1>1, <1>2, <1>3, <1>4

\* What the cache holds: the bytes of the list, then those of the file.
LEMMA CachedIs ==
  ASSUME NEW c, NEW ps, CacheOK(c, ps)
  PROVE  /\ Cached(c) = FlattenSeq(c.mem) \o FlattenSeq(ps)
         /\ Cached(c) \in Seq(Int) /\ c.mem \in Chunks /\ ps \in Chunks
         /\ BytesOf(Ahead(c.file)) = FlattenSeq(ps)
<1>1. c.mem \in Chunks /\ ps \in Chunks
  BY DEF CacheOK, Caches, Holds
<1>2. BytesOf(Ahead(c.file)) = FlattenSeq(ps)
  BY HoldsBytes DEF CacheOK
<1>3. FlattenSeq(c.mem) \in Seq(Int) /\ FlattenSeq(ps) \in Seq(Int)
  BY <1>1, FlattenChunks
<1> QED
  BY <1>1, <1>2, <1>3, ConcatProperties DEF Cached

\* The new cache.
LEMMA NewCacheOK == CacheOK(NewCache, <<>>) /\ Cached(NewCache) = <<>>
<1>1. NoFile \in Files /\ <<>> \in Chunks /\ FlattenSeq(<<>>) = <<>> /\ Len(<<>>) = 0
  BY NoFileHolds, FlattenType DEF Holds
<1>2. NewCache \in Caches
  BY <1>1 DEF NewCache, Caches
<1>3. CacheOK(NewCache, <<>>)
  BY <1>1, <1>2, NoFileHolds DEF CacheOK, NewCache
<1>4. Cached(NewCache) = <<>> \o <<>>
  BY <1>1, <1>3, CachedIs DEF NewCache
<1> QED
  BY <1>3, <1>4

\* clear().
LEMMA ClearIs ==
  ASSUME NEW c, NEW ps, CacheOK(c, ps)
  PROVE  CacheOK(ClearCache(c), <<>>) /\ Cached(ClearCache(c)) = <<>>
<1> DEFINE d == ClearCache(c)
<1>1. NoFile \in Files /\ <<>> \in Chunks /\ FlattenSeq(<<>>) = <<>> /\ Len(<<>>) = 0
  BY NoFileHolds, FlattenType DEF Holds
<1>2. /\ d.mem = <<>> /\ d.file = NoFile /\ d.lenMem = c.lenMem /\ d.lenFile = c.lenFile
      /\ d \in Caches
  BY <1>1 DEF ClearCache, CacheOK, Caches
<1> HIDE DEF d
<1>3. /\ c.lenMem \in Int /\ c.lenFile \in Int
      /\ Len(FlattenSeq(c.mem)) \in Nat /\ Len(FlattenSeq(ps)) \in Nat
      /\ c.lenMem >= Len(FlattenSeq(c.mem)) /\ c.lenFile >= Len(FlattenSeq(ps))
  <2>1. c.mem \in Chunks /\ ps \in Chunks
    BY CachedIs
  <2> QED
    BY <2>1, FlattenChunks DEF CacheOK, Caches
<1>4. d.lenMem >= 0 /\ d.lenFile >= 0
  BY <1>2, <1>3
<1>5. CacheOK(d, <<>>)
  BY <1>1, <1>2, <1>4, NoFileHolds DEF CacheOK
<1>6. Cached(d) = <<>> \o <<>>
  BY <1>1, <1>2, <1>5, CachedIs
<1> QED
  BY <1>5, <1>6 DEF d

\* One more chunk in the list.
LEMMA InMemIs ==
  ASSUME NEW c, NEW ps, CacheOK(c, ps), NEW data \in Chunk
  PROVE  /\ CacheOK(CacheInMem(c, data), ps)
         /\ CacheInMem(c, data).mem = Append(c.mem, data)
         /\ CacheInMem(c, data).file = c.file
         /\ FlattenSeq(CacheInMem(c, data).mem) = FlattenSeq(c.mem) \o data
<1> DEFINE d == CacheInMem(c, data)
<1>0. c.mem \in Chunks /\ ps \in Chunks /\ c.lenMem \in Int /\ Len(data) \in Nat /\ c \in Caches
  BY CachedIs DEF CacheOK, Caches, Chunk
<1>1. /\ Append(c.mem, data) \in Chunks
      /\ FlattenSeq(Append(c.mem, data)) = FlattenSeq(c.mem) \o data
      /\ Len(FlattenSeq(Append(c.mem, data))) = Len(FlattenSeq(c.mem)) + Len(data)
      /\ Len(FlattenSeq(c.mem)) \in Nat
  BY <1>0, FlattenChunks
<1>2. /\ d.mem = Append(c.mem, data) /\ d.file = c.file /\ d.lenFile = c.lenFile
      /\ d.lenMem = c.lenMem + Len(data) /\ d \in Caches
  <2> DEFINE m == Append(c.mem, data)
             a == c.lenMem + Len(data)
  <2>1. m \in Chunks /\ a \in Int
    BY <1>0, <1>1
  <2>2. d = [c EXCEPT !.mem = m, !.lenMem = a]
    BY DEF CacheInMem
  <2> HIDE DEF m, a, d
  <2>3. d \in Caches /\ d.mem = m /\ d.file = c.file /\ d.lenMem = a /\ d.lenFile = c.lenFile
    BY <1>0, <2>1, <2>2 DEF Caches
  <2> QED
    BY <2>3 DEF m, a
<1> HIDE DEF d
<1>3. d.lenMem >= Len(FlattenSeq(d.mem))
  <2>1. c.lenMem >= Len(FlattenSeq(c.mem))
    BY DEF CacheOK
  <2> QED
    BY <1>0, <1>1, <1>2, <2>1
<1> QED
  BY <1>1, <1>2, <1>3 DEF CacheOK, d

\* One more record in the file.
LEMMA InFileIs ==
  ASSUME NEW c, NEW ps, CacheOK(c, ps), NEW data \in Chunk
  PROVE  /\ CacheOK(CacheInFile(c, data), Append(ps, data))
         /\ CacheInFile(c, data).mem = c.mem
         /\ FlattenSeq(Append(ps, data)) = FlattenSeq(ps) \o data
<1> DEFINE d == CacheInFile(c, data)
<1>0. c.mem \in Chunks /\ ps \in Chunks /\ c.lenFile \in Int /\ Len(data) \in Nat /\ c \in Caches
      /\ Holds(c.file, ps)
  BY CachedIs DEF CacheOK, Caches, Chunk
<1>1. /\ FlattenSeq(Append(ps, data)) = FlattenSeq(ps) \o data
      /\ Len(FlattenSeq(Append(ps, data))) = Len(FlattenSeq(ps)) + Len(data)
      /\ Len(FlattenSeq(ps)) \in Nat
  BY <1>0, FlattenChunks
<1>2. Holds(DiskWrite(c.file, data), Append(ps, data))
  BY <1>0, WriteIs
<1>3. /\ d.mem = c.mem /\ d.file = DiskWrite(c.file, data) /\ d.lenMem = c.lenMem
      /\ d.lenFile = c.lenFile + Len(data) /\ d \in Caches
  <2>1. DiskWrite(c.file, data) \in Files
    BY <1>2 DEF Holds
  <2> DEFINE f == DiskWrite(c.file, data)
             a == c.lenFile + Len(data)
  <2>2. f \in Files /\ a \in Int
    BY <1>0, <2>1
  <2>3. d = [c EXCEPT !.file = f, !.lenFile = a]
    BY DEF CacheInFile
  <2> HIDE DEF f, a, d
  <2>4. d \in Caches /\ d.mem = c.mem /\ d.file = f /\ d.lenMem = c.lenMem /\ d.lenFile = a
    BY <1>0, <2>2, <2>3 DEF Caches
  <2> QED
    BY <2>4 DEF f, a
<1> HIDE DEF d
<1>4. d.lenFile >= Len(FlattenSeq(Append(ps, data)))
  <2>1. c.lenFile >= Len(FlattenSeq(ps))
    BY DEF CacheOK
  <2> QED
    BY <1>0, <1>1, <1>3, <2>1
<1>5. d.lenMem >= Len(FlattenSeq(d.mem))
  BY <1>3 DEF CacheOK
<1> QED
  BY <1>1, <1>2, <1>3, <1>4, <1>5 DEF CacheOK, d

\* A torn write gives up what was in the file.
LEMMA InTornFileIs ==
  ASSUME NEW c, NEW ps, CacheOK(c, ps), NEW data \in Chunk, NEW n \in 0 .. Len(data)
  PROVE  /\ CacheOK([c EXCEPT !.file = DiskWriteTorn(@, data, n)], <<>>)
         /\ [c EXCEPT !.file = DiskWriteTorn(@, data, n)].mem = c.mem
<1> DEFINE d == [c EXCEPT !.file = DiskWriteTorn(@, data, n)]
<1>0. c.mem \in Chunks /\ ps \in Chunks /\ c.lenFile \in Int /\ c \in Caches /\ c.file \in Files
  BY CachedIs DEF CacheOK, Caches
<1>1. Holds(DiskWriteTorn(c.file, data, n), <<>>)
  BY <1>0, TornIs
<1>2. /\ d.mem = c.mem /\ d.file = DiskWriteTorn(c.file, data, n) /\ d.lenMem = c.lenMem
      /\ d.lenFile = c.lenFile /\ d \in Caches
  <2>1. DiskWriteTorn(c.file, data, n) \in Files
    BY <1>1 DEF Holds
  <2> QED
    BY <1>0, <2>1 DEF Caches
<1> HIDE DEF d
<1>3. d.lenFile >= Len(FlattenSeq(<<>>))
  <2>1. c.lenFile >= Len(FlattenSeq(ps)) /\ Len(FlattenSeq(ps)) \in Nat
    BY <1>0, FlattenChunks DEF CacheOK
  <2>2. Len(FlattenSeq(<<>>)) = 0
    BY FlattenType
  <2> QED
    BY <1>0, <1>2, <2>1, <2>2
<1>4. d.lenMem >= Len(FlattenSeq(d.mem))
  BY <1>2 DEF CacheOK
<1> QED
  BY <1>1, <1>2, <1>3, <1>4 DEF CacheOK, d

\* The head of the list goes.
LEMMA DropMemIs ==
  ASSUME NEW c, NEW ps, CacheOK(c, ps), c.mem # <<>>
  PROVE  /\ CacheOK(DropMemHead(c), ps)
         /\ DropMemHead(c).mem = Tail(c.mem) /\ Head(c.mem) \in Chunk
         /\ Cached(c) = Head(c.mem) \o Cached(DropMemHead(c))
<1> DEFINE d == DropMemHead(c)
<1>0. c.mem \in Chunks /\ ps \in Chunks /\ c.lenMem \in Int /\ c \in Caches
  BY CachedIs DEF CacheOK, Caches
<1>1. /\ Head(c.mem) \in Chunk /\ Tail(c.mem) \in Chunks
      /\ FlattenSeq(c.mem) = Head(c.mem) \o FlattenSeq(Tail(c.mem))
      /\ Len(FlattenSeq(c.mem)) = Len(Head(c.mem)) + Len(FlattenSeq(Tail(c.mem)))
      /\ Len(FlattenSeq(c.mem)) \in Nat
  BY <1>0, FlattenChunks
<1>a. Len(Head(c.mem)) \in Nat /\ Len(FlattenSeq(Tail(c.mem))) \in Nat /\ Head(c.mem) \in Seq(Int)
  <2>1. Head(c.mem) \in Seq(Int)
    BY <1>1 DEF Chunk
  <2> QED
    BY <1>1, <2>1, FlattenChunks, LenProperties
<1>2. /\ d.mem = Tail(c.mem) /\ d.file = c.file /\ d.lenFile = c.lenFile
      /\ d.lenMem = c.lenMem - Len(Head(c.mem)) /\ d \in Caches
  <2> DEFINE m == Tail(c.mem)
             a == c.lenMem - Len(Head(c.mem))
  <2>1. m \in Chunks /\ a \in Int
    BY <1>0, <1>1, <1>a
  <2>2. d = [c EXCEPT !.mem = m, !.lenMem = a]
    BY DEF DropMemHead
  <2> HIDE DEF m, a, d
  <2>3. d \in Caches /\ d.mem = m /\ d.file = c.file /\ d.lenMem = a /\ d.lenFile = c.lenFile
    BY <1>0, <2>1, <2>2 DEF Caches
  <2> QED
    BY <2>3 DEF m, a
<1> HIDE DEF d
<1>3. d.lenMem >= Len(FlattenSeq(d.mem))
  <2>1. c.lenMem >= Len(FlattenSeq(c.mem))
    BY DEF CacheOK
  <2> DEFINE all == Len(FlattenSeq(c.mem))
             first == Len(Head(c.mem))
             rest == Len(FlattenSeq(Tail(c.mem)))
  <2>2. all = first + rest /\ first \in Nat /\ rest \in Nat
    BY <1>1, <1>a
  <2>3. d.lenMem = c.lenMem - first /\ c.lenMem >= all /\ c.lenMem \in Int
    BY <1>0, <1>2, <2>1
  <2>4. Len(FlattenSeq(d.mem)) = rest
    BY <1>2
  <2> HIDE DEF all, first, rest
  <2> QED
    BY <2>2, <2>3, <2>4
<1>4. CacheOK(d, ps)
  BY <1>2, <1>3 DEF CacheOK
<1>5. Cached(c) = Head(c.mem) \o Cached(d)
  <2>1. Cached(c) = FlattenSeq(c.mem) \o FlattenSeq(ps)
    BY CachedIs
  <2>2. Cached(d) = FlattenSeq(Tail(c.mem)) \o FlattenSeq(ps)
    BY <1>2, <1>4, CachedIs
  <2>3. FlattenSeq(Tail(c.mem)) \in Seq(Int) /\ FlattenSeq(ps) \in Seq(Int)
    BY <1>0, <1>1, FlattenChunks
  <2>4. (Head(c.mem) \o FlattenSeq(Tail(c.mem))) \o FlattenSeq(ps)
          = Head(c.mem) \o (FlattenSeq(Tail(c.mem)) \o FlattenSeq(ps))
    <3> DEFINE x == Head(c.mem)
               y == FlattenSeq(Tail(c.mem))
               z == FlattenSeq(ps)
    <3>1. x \in Seq(Int) /\ y \in Seq(Int) /\ z \in Seq(Int)
      BY <1>a, <2>3
    <3> HIDE DEF x, y, z
    <3>2. (x \o y) \o z = x \o (y \o z)
      BY <3>1, ConcatAssociative, SMTT(60)
    <3> QED
      BY <3>2 DEF x, y, z
  <2> QED
    BY <1>1, <2>1, <2>2, <2>4
<1> QED
  BY <1>1, <1>2, <1>4, <1>5 DEF d

\* The head record of the file goes.
LEMMA DropFileIs ==
  ASSUME NEW c, NEW ps, CacheOK(c, ps), PeekSize(c.file) > 0
  PROVE  /\ ps # <<>> /\ Head(ps) \in Chunk /\ Tail(ps) \in Chunks
         /\ DiskRead(c.file, PeekSize(c.file)) = Head(ps) /\ PeekSize(c.file) = Len(Head(ps))
         /\ CacheOK(DropFileHead(c, PeekSize(c.file)), Tail(ps))
         /\ DropFileHead(c, PeekSize(c.file)).mem = c.mem
         /\ FlattenSeq(ps) = Head(ps) \o FlattenSeq(Tail(ps))
<1> DEFINE sz == PeekSize(c.file)
           d == DropFileHead(c, sz)
<1>0. /\ c.mem \in Chunks /\ ps \in Chunks /\ c.lenFile \in Int /\ c \in Caches
      /\ Holds(c.file, ps)
  BY CachedIs DEF CacheOK, Caches
<1>1. ps # <<>> /\ sz = Len(Head(ps))
  BY <1>0, PeekSizeIs
<1>2. DiskRead(c.file, sz) = Head(ps) /\ Holds(DiskAdvance(c.file, sz), Tail(ps))
  BY <1>0, <1>1, ReadIs
<1>3. /\ Head(ps) \in Chunk /\ Tail(ps) \in Chunks
      /\ FlattenSeq(ps) = Head(ps) \o FlattenSeq(Tail(ps))
      /\ Len(FlattenSeq(ps)) = Len(Head(ps)) + Len(FlattenSeq(Tail(ps)))
  BY <1>0, <1>1, FlattenChunks
<1>4. Len(Head(ps)) \in Nat /\ Len(FlattenSeq(Tail(ps))) \in Nat
  <2>1. Head(ps) \in Seq(Int)
    BY <1>3 DEF Chunk
  <2> QED
    BY <1>3, <2>1, FlattenChunks, LenProperties
<1>5. /\ d.mem = c.mem /\ d.file = DiskAdvance(c.file, sz) /\ d.lenMem = c.lenMem
      /\ d.lenFile = c.lenFile - sz /\ d \in Caches
  <2>1. DiskAdvance(c.file, sz) \in Files
    BY <1>2 DEF Holds
  <2>2. sz \in Int
    BY <1>1, <1>4
  <2> DEFINE f == DiskAdvance(c.file, sz)
             a == c.lenFile - sz
  <2>3. f \in Files /\ a \in Int
    BY <1>0, <2>1, <2>2
  <2>4. d = [c EXCEPT !.file = f, !.lenFile = a]
    BY DEF DropFileHead
  <2> HIDE DEF f, a, d, sz
  <2>5. d \in Caches /\ d.mem = c.mem /\ d.file = f /\ d.lenMem = c.lenMem /\ d.lenFile = a
    BY <1>0, <2>3, <2>4 DEF Caches
  <2> QED
    BY <2>5 DEF f, a
<1> HIDE DEF d, sz
<1>6. d.lenFile >= Len(FlattenSeq(Tail(ps)))
  <2>1. c.lenFile >= Len(FlattenSeq(ps))
    BY DEF CacheOK
  <2> QED
    BY <1>0, <1>1, <1>3, <1>4, <1>5, <2>1
<1>7. d.lenMem >= Len(FlattenSeq(d.mem))
  BY <1>5 DEF CacheOK
<1>8. CacheOK(d, Tail(ps))
  BY <1>2, <1>5, <1>6, <1>7 DEF CacheOK
<1> QED
  BY <1>1, <1>2, <1>3, <1>5, <1>8 DEF d, sz

\* A read that is rolled back leaves the cache as it was.
LEMMA CacheRollbackIs ==
  ASSUME NEW c \in Caches, NEW sz \in Int
  PROVE  [c EXCEPT !.file = DiskRollback(DiskAdvance(@, sz), sz)] = c
<1>1. c.file \in Files
  BY DEF Caches
<1>2. DiskRollback(DiskAdvance(c.file, sz), sz) = c.file
  BY <1>1, RollbackIs
<1> QED
  BY <1>2 DEF Caches

\* Concatenation is associative.
LEMMA IntAssociative == \A x, y, z \in Seq(Int) : (x \o y) \o z = x \o (y \o z)
<1> TAKE x, y, z \in Seq(Int)
<1> QED
  BY ConcatAssociative, SMTT(60)

\* What cache() can do: one more chunk in the list or in the file; or, when the
\* disk fails, in the list before what is in the file, or with the file given up.
Stores(c, ps, data, disk, d) ==
  \/ /\ ~ ToFile(c, data)
     /\ CacheOK(d, ps) /\ FlattenSeq(d.mem) = FlattenSeq(c.mem) \o data
     /\ FlattenSeq(ps) = <<>>
     /\ Len(FlattenSeq(d.mem)) <= MAX_LEN_CACHE_IN_MEM
  \/ /\ disk = "ok" /\ ToFile(c, data)
     /\ CacheOK(d, Append(ps, data)) /\ d.mem = c.mem
     /\ FlattenSeq(Append(ps, data)) = FlattenSeq(ps) \o data
  \/ /\ disk # "ok" /\ ToFile(c, data)
     /\ CacheOK(d, ps) /\ FlattenSeq(d.mem) = FlattenSeq(c.mem) \o data
  \/ /\ disk # "ok" /\ ToFile(c, data)
     /\ CacheOK(d, <<>>) /\ FlattenSeq(d.mem) = FlattenSeq(c.mem) \o data

\* It does one of these.
LEMMA StoreIs ==
  ASSUME NEW c, NEW ps, CacheOK(c, ps), NEW data \in Chunk,
         NEW disk \in {"ok", "none", "torn"}, NEW n \in 0 .. Len(data),
         NEW d, d = Store(c, data, disk, n)
  PROVE  Stores(c, ps, data, disk, d)
<1>1. CASE ~ ToFile(c, data)
  <2>1. d = CacheInMem(c, data)
    BY <1>1 DEF Store
  <2>2. CacheOK(d, ps) /\ FlattenSeq(d.mem) = FlattenSeq(c.mem) \o data
    BY <2>1, InMemIs
  <2>3. /\ c.lenMem + Len(data) <= MAX_LEN_CACHE_IN_MEM /\ ~ (c.lenFile > 0)
        /\ c.lenMem \in Int /\ c.lenFile \in Int /\ Len(data) \in Nat
    BY <1>1, CacheAssumption DEF ToFile, CacheOK, Caches, Chunk
  <2>4. /\ FlattenSeq(ps) \in Seq(Int) /\ Len(FlattenSeq(ps)) \in Nat
        /\ FlattenSeq(c.mem) \in Seq(Int) /\ Len(FlattenSeq(c.mem)) \in Nat
    BY CachedIs, FlattenChunks
  <2>5. FlattenSeq(ps) = <<>>
    <3>1. Len(FlattenSeq(ps)) = 0
      BY <2>3, <2>4 DEF CacheOK
    <3> QED
      BY <2>4, <3>1, EmptySeq
  <2>6. Len(FlattenSeq(d.mem)) <= MAX_LEN_CACHE_IN_MEM
    <3>1. Len(FlattenSeq(c.mem) \o data) = Len(FlattenSeq(c.mem)) + Len(data)
      BY <2>4, ConcatProperties DEF Chunk
    <3>2. c.lenMem >= Len(FlattenSeq(c.mem))
      BY DEF CacheOK
    <3> QED
      BY <2>2, <2>3, <2>4, <3>1, <3>2, CacheAssumption
  <2> QED
    BY <1>1, <2>2, <2>5, <2>6 DEF Stores
<1>2. CASE ToFile(c, data) /\ disk = "ok"
  <2>1. d = CacheInFile(c, data)
    BY <1>2, Zenon DEF Store
  <2>2. /\ CacheOK(d, Append(ps, data)) /\ d.mem = c.mem
        /\ FlattenSeq(Append(ps, data)) = FlattenSeq(ps) \o data
    BY <2>1, InFileIs
  <2> QED
    BY <1>2, <2>2 DEF Stores
<1>3. CASE ToFile(c, data) /\ disk = "none"
  <2>1. d = CacheInMem(c, data)
    BY <1>3, Zenon DEF Store
  <2>2. CacheOK(d, ps) /\ FlattenSeq(d.mem) = FlattenSeq(c.mem) \o data
    BY <2>1, InMemIs
  <2> QED
    BY <1>3, <2>2 DEF Stores
<1>4. CASE ToFile(c, data) /\ disk = "torn"
  <2> DEFINE e == [c EXCEPT !.file = DiskWriteTorn(@, data, n)]
  <2>1. d = CacheInMem(e, data)
    BY <1>4, Zenon DEF Store
  <2>2. CacheOK(e, <<>>) /\ e.mem = c.mem
    BY InTornFileIs
  <2> HIDE DEF e
  <2>3. CacheOK(d, <<>>) /\ FlattenSeq(d.mem) = FlattenSeq(e.mem) \o data
    BY <2>1, <2>2, InMemIs
  <2> QED
    BY <1>4, <2>2, <2>3 DEF Stores
<1> QED
  BY <1>1, <1>2, <1>3, <1>4
=============================================================================
