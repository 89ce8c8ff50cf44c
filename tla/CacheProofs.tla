----------------------------- MODULE CacheProofs -----------------------------
(***************************************************************************)
(* Proofs about CacheUse: the counters cover what is cached, the records   *)
(* of the file stay aligned, the bytes are exact, and until a write fails  *)
(* the cache is a queue.                                                   *)
(***************************************************************************)
EXTENDS CacheUse, StreamLemmas

-----------------------------------------------------------------------------
(* Sequences of distinct numbers.                                          *)

\* No entry twice; only the first k numbers.
Distinct(s) == \A i, j \in 1 .. Len(s) : s[i] = s[j] => i = j
Within(s, k) == \A i \in 1 .. Len(s) : s[i] \in 1 .. k

\* Nothing twice, and nothing but the first k numbers.
Exact(s, k) == Distinct(s) /\ Within(s, k)

\* The first k numbers in their order.
Count(k) == [i \in 1 .. k |-> i]

\* A first part of a sequence of distinct numbers is one.
LEMMA ExactFront ==
  ASSUME NEW a \in Seq(Int), NEW b \in Seq(Int), NEW k \in Nat, Exact(a \o b, k)
  PROVE  Exact(a, k)
<1>1. Joins(a, b, a \o b) /\ Len(a) \in Nat /\ Len(b) \in Nat
  BY CatJoins
<1>2. \A i \in 1 .. Len(a) : i \in 1 .. Len(a \o b) /\ (a \o b)[i] = a[i]
  BY <1>1 DEF Joins
<1> QED
  BY <1>2 DEF Exact, Distinct, Within

\* The next n numbers, put anywhere into the sequence, leave it one.
LEMMA ExactInsert ==
  ASSUME NEW a \in Seq(Int), NEW b \in Seq(Int), NEW d \in Seq(Int), NEW k \in Nat, NEW n \in Nat,
         d = [i \in 1 .. n |-> k + i], Exact(a \o b, k)
  PROVE  Exact((a \o d) \o b, k + n)
<1> DEFINE s == a \o b
           h == a \o d
           t == h \o b
           p == Len(a)
           q == Len(b)
<1>1. /\ Joins(a, b, s) /\ Joins(a, d, h) /\ Joins(h, b, t)
      /\ p \in Nat /\ q \in Nat
  <2>1. h \in Seq(Int)
    OBVIOUS
  <2>2. Joins(a, b, s) /\ Joins(a, d, h)
    BY CatJoins
  <2> HIDE DEF h
  <2>3. Joins(h, b, t)
    BY <2>1, CatJoins
  <2> QED
    BY <2>2, <2>3
<1>2. Len(d) = n /\ \A i \in 1 .. n : d[i] = k + i
  OBVIOUS
<1>0. Exact(s, k)
  OBVIOUS
<1> HIDE DEF s, h, t
<1>3. Len(s) = p + q /\ Len(h) = p + n /\ Len(t) = p + n + q
  BY <1>1, <1>2 DEF Joins
<1>a. /\ \A i \in 1 .. p : s[i] = a[i] /\ h[i] = a[i]
      /\ \A i \in 1 .. q : s[p + i] = b[i] /\ t[p + n + i] = b[i]
      /\ \A i \in 1 .. n : h[p + i] = k + i
      /\ \A i \in 1 .. p + n : t[i] = h[i]
  BY <1>1, <1>2, <1>3 DEF Joins
<1> HIDE DEF p, q
<1>4. \A i \in 1 .. p : t[i] = s[i]
  BY <1>1, <1>a
<1>5. \A i \in p + 1 .. p + n : t[i] = k + (i - p)
  <2> SUFFICES ASSUME NEW i \in p + 1 .. p + n PROVE t[i] = k + (i - p)
    OBVIOUS
  <2>1. i - p \in 1 .. n /\ p + (i - p) = i /\ i \in 1 .. p + n
    BY <1>1
  <2> QED
    BY <1>a, <2>1
<1>6. \A i \in p + n + 1 .. p + n + q : i - n \in 1 .. p + q /\ t[i] = s[i - n]
  <2> SUFFICES ASSUME NEW i \in p + n + 1 .. p + n + q
               PROVE  i - n \in 1 .. p + q /\ t[i] = s[i - n]
    OBVIOUS
  <2>1. i - p - n \in 1 .. q /\ p + n + (i - p - n) = i /\ p + (i - p - n) = i - n
    BY <1>1
  <2>2. s[p + (i - p - n)] = b[i - p - n] /\ t[p + n + (i - p - n)] = b[i - p - n]
    BY <1>a, <2>1
  <2>3. i - n \in 1 .. p + q
    BY <1>1
  <2> QED
    BY <2>1, <2>2, <2>3
<1>7. \A i \in 1 .. p + q : s[i] \in 1 .. k
  BY <1>0, <1>3 DEF Exact, Within
<1>8. \A i, j \in 1 .. p + q : s[i] = s[j] => i = j
  BY <1>0, <1>3 DEF Exact, Distinct
<1> DEFINE of(i) == IF i <= p THEN i ELSE i - n
           old(i) == i <= p \/ i > p + n
<1>9. ASSUME NEW i \in 1 .. p + n + q
      PROVE  \/ of(i) \in 1 .. p + q /\ old(i) /\ t[i] = s[of(i)] /\ t[i] \in 1 .. k
             \/ ~ old(i) /\ t[i] = k + (i - p) /\ t[i] \in k + 1 .. k + n
  <2>1. CASE i <= p
    <3>1. i \in 1 .. p /\ i \in 1 .. p + q
      BY <1>1, <2>1
    <3> QED
      BY <1>4, <1>7, <2>1, <3>1
  <2>2. CASE i > p /\ i <= p + n
    <3>1. i \in p + 1 .. p + n /\ ~ (i <= p) /\ ~ (i > p + n)
      BY <1>1, <2>2
    <3>2. t[i] = k + (i - p)
      BY <1>5, <3>1
    <3>3. k + (i - p) \in k + 1 .. k + n
      BY <1>1, <2>2
    <3> QED
      BY <3>1, <3>2, <3>3
  <2>3. CASE i > p + n
    <3>1. i \in p + n + 1 .. p + n + q /\ ~ (i <= p)
      BY <1>1, <2>3
    <3>2. i - n \in 1 .. p + q /\ t[i] = s[i - n]
      BY <1>6, <3>1
    <3> QED
      BY <1>7, <2>3, <3>1, <3>2
  <2> QED
    BY <1>1, <2>1, <2>2, <2>3
<1>10. ASSUME NEW i \in 1 .. p + n + q, NEW j \in 1 .. p + n + q, t[i] = t[j] PROVE i = j
  <2>1. CASE old(i) /\ old(j)
    <3>1. of(i) \in 1 .. p + q /\ of(j) \in 1 .. p + q /\ s[of(i)] = s[of(j)]
      BY <1>9, <1>10, <2>1
    <3>2. of(i) = of(j)
      BY <1>8, <3>1
    <3> QED
      BY <1>1, <2>1, <3>2
  <2>2. CASE ~ old(i) /\ ~ old(j)
    <3>1. k + (i - p) = k + (j - p)
      BY <1>9, <1>10, <2>2
    <3> QED
      BY <1>1, <3>1
  <2>3. CASE old(i) # old(j)
    <3>1. \/ t[i] \in 1 .. k /\ t[j] \in k + 1 .. k + n
          \/ t[j] \in 1 .. k /\ t[i] \in k + 1 .. k + n
      BY <1>9, <2>3
    <3> QED
      BY <1>10, <3>1
  <2> QED
    BY <2>1, <2>2, <2>3
<1>11. ASSUME NEW i \in 1 .. p + n + q PROVE t[i] \in 1 .. k + n
  <2>1. t[i] \in 1 .. k \/ t[i] \in k + 1 .. k + n
    BY <1>9
  <2> QED
    BY <2>1
<1>12. Exact(t, k + n)
  BY <1>3, <1>10, <1>11 DEF Exact, Distinct, Within
<1> QED
  BY <1>12 DEF t, h

\* Counting on.
LEMMA CountOn ==
  ASSUME NEW k \in Nat, NEW n \in Nat, NEW d \in Seq(Int), d = [i \in 1 .. n |-> k + i]
  PROVE  Count(k) \in Seq(Int) /\ Count(k) \o d = Count(k + n) /\ Count(k + n) \in Seq(Int)
<1>1. /\ Count(k) \in Seq(Int) /\ Len(Count(k)) = k
      /\ Count(k + n) \in Seq(Int) /\ Len(Count(k + n)) = k + n
      /\ \A i \in 1 .. k : Count(k)[i] = i
      /\ \A i \in 1 .. k + n : Count(k + n)[i] = i
  BY DEF Count
<1>2. Len(d) = n /\ \A i \in 1 .. n : d[i] = k + i
  OBVIOUS
<1>3. \A i \in 1 .. n : k + i \in 1 .. k + n
  OBVIOUS
<1>4. \A i \in 1 .. k : i \in 1 .. k + n
  OBVIOUS
<1>5. Joins(Count(k), d, Count(k + n))
  BY <1>1, <1>2, <1>3, <1>4 DEF Joins
<1>6. Count(k + n) = Count(k) \o d
  <2> DEFINE x == Count(k)
             y == Count(k + n)
  <2>1. x \in Seq(Int) /\ y \in Seq(Int) /\ d \in Seq(Int) /\ Joins(x, d, y)
    BY <1>1, <1>5
  <2> HIDE DEF x, y
  <2>2. y = x \o d
    BY ONLY <2>1, JoinIs
  <2> QED
    BY <2>2 DEF x, y
<1> QED
  BY <1>1, <1>6

-----------------------------------------------------------------------------
(* The invariant.                                                          *)

\* Every byte there is, in the order in which it is to leave.
All == delivered \o Waiting

\* The inductive invariant: the file is aligned at the records of some chunks and
\* the counters cover what is there (CacheOK), the list is through before the file
\* is read, the budget holds, and the bytes are exact.
CacheInv ==
  /\ pc \in {"idle", "mem", "file"}
  /\ stored \in Nat /\ clears \in Nat /\ faulted \in BOOLEAN /\ delivered \in Seq(Int)
  /\ \E ps : CacheOK(cache, ps)
  /\ pc = "file" => cache.mem = <<>>
  /\ ~ faulted => Len(FlattenSeq(cache.mem)) <= MAX_LEN_CACHE_IN_MEM
  /\ Exact(All, stored)
  /\ ~ faulted => All = Count(stored)

\* Nothing has been cached.
LEMMA NothingExact ==
  /\ <<>> \in Seq(Int) /\ <<>> \o <<>> = <<>> /\ Exact(<<>>, 0) /\ <<>> = Count(0)
  /\ Len(FlattenSeq(<<>>)) = 0
<1>1. <<>> \in Seq(Int) /\ <<>> \o <<>> = <<>> /\ Len(<<>>) = 0
  OBVIOUS
<1>2. <<>> = Count(0)
  BY DEF Count
<1>3. Exact(<<>>, 0)
  BY <1>1 DEF Exact, Distinct, Within
<1>4. FlattenSeq(<<>>) = <<>>
  BY FlattenType
<1> QED
  BY <1>1, <1>2, <1>3, <1>4

\* It holds at the start.
LEMMA InitInv == Init => CacheInv
<1> SUFFICES ASSUME Init PROVE CacheInv
  OBVIOUS
<1>1. Waiting = <<>> /\ CacheOK(cache, <<>>)
  BY NewCacheOK DEF Init, Waiting
<1>2. cache.mem = <<>>
  BY DEF Init, NewCache
<1>3. All = <<>>
  BY <1>1, NothingExact DEF Init, All
<1>4. Len(FlattenSeq(cache.mem)) <= MAX_LEN_CACHE_IN_MEM
  BY <1>2, NothingExact, CacheAssumption
<1> QED
  BY <1>1, <1>2, <1>3, <1>4, NothingExact DEF Init, CacheInv

\* The bytes of one call of cache() are the next numbers.
LEMMA PieceIs ==
  ASSUME NEW n \in 1 .. MaxPiece, stored \in Nat
  PROVE  /\ Piece(n) \in Chunk /\ Piece(n) \in Seq(Int) /\ Len(Piece(n)) = n
         /\ Piece(n) = [i \in 1 .. n |-> stored + i] /\ n \in Nat /\ n > 0
<1>1. n \in Nat /\ n > 0
  BY CacheUseAssumption
<1>2. Piece(n) \in Seq(Int) /\ Len(Piece(n)) = n
  BY <1>1 DEF Piece
<1>3. Piece(n) # <<>>
  BY <1>1, <1>2
<1> QED
  BY <1>1, <1>2, <1>3 DEF Piece, Chunk

-----------------------------------------------------------------------------
(* The steps.                                                              *)

\* The parts of the invariant, for a cache that holds the chunks ps.
LEMMA InvParts ==
  ASSUME CacheInv
  PROVE  \E ps : /\ CacheOK(cache, ps) /\ cache.mem \in Chunks /\ ps \in Chunks
                 /\ FlattenSeq(cache.mem) \in Seq(Int) /\ FlattenSeq(ps) \in Seq(Int)
                 /\ Waiting = FlattenSeq(cache.mem) \o FlattenSeq(ps)
                 /\ Waiting \in Seq(Int) /\ delivered \in Seq(Int) /\ All \in Seq(Int)
                 /\ All = (delivered \o FlattenSeq(cache.mem)) \o FlattenSeq(ps)
                 /\ delivered \o FlattenSeq(cache.mem) \in Seq(Int)
<1>1. PICK ps : CacheOK(cache, ps)
  BY DEF CacheInv
<1>2. /\ cache.mem \in Chunks /\ ps \in Chunks
      /\ Waiting = FlattenSeq(cache.mem) \o FlattenSeq(ps) /\ Waiting \in Seq(Int)
  BY <1>1, CachedIs DEF Waiting
<1>3. FlattenSeq(cache.mem) \in Seq(Int) /\ FlattenSeq(ps) \in Seq(Int) /\ delivered \in Seq(Int)
  BY <1>2, FlattenChunks DEF CacheInv
<1> DEFINE m == FlattenSeq(cache.mem)
           f == FlattenSeq(ps)
<1>4. /\ delivered \o (m \o f) = (delivered \o m) \o f
      /\ delivered \o m \in Seq(Int) /\ delivered \o (m \o f) \in Seq(Int)
  <2>1. m \in Seq(Int) /\ f \in Seq(Int) /\ delivered \in Seq(Int)
    BY <1>3
  <2> HIDE DEF m, f
  <2>2. delivered \o m \in Seq(Int) /\ delivered \o (m \o f) \in Seq(Int)
    BY <2>1
  <2>3. delivered \o (m \o f) = (delivered \o m) \o f
    BY <2>1, IntAssociative, Zenon
  <2> QED
    BY <2>2, <2>3
<1> QED
  BY <1>1, <1>2, <1>3, <1>4 DEF All

\* cache() keeps the invariant, and puts a chunk at the end unless a write failed.
LEMMA DoCacheStep ==
  ASSUME CacheInv, NEW n \in 1 .. MaxPiece, NEW disk \in {"ok"} \cup DiskFaults,
         NEW cells \in 0 .. (IF disk = "torn" THEN n ELSE 0), DoCache(n, disk, cells)
  PROVE  /\ CacheInv'
         /\ ~ faulted' => Waiting' = Waiting \o Piece(n) /\ UNCHANGED delivered
<1>1. PICK ps : /\ CacheOK(cache, ps) /\ cache.mem \in Chunks /\ ps \in Chunks
                /\ FlattenSeq(cache.mem) \in Seq(Int) /\ FlattenSeq(ps) \in Seq(Int)
                /\ Waiting = FlattenSeq(cache.mem) \o FlattenSeq(ps)
                /\ Waiting \in Seq(Int) /\ delivered \in Seq(Int) /\ All \in Seq(Int)
                /\ All = (delivered \o FlattenSeq(cache.mem)) \o FlattenSeq(ps)
                /\ delivered \o FlattenSeq(cache.mem) \in Seq(Int)
  BY InvParts
<1>2. stored \in Nat /\ faulted \in BOOLEAN /\ Exact(All, stored) /\ clears \in Nat
      /\ (~ faulted => All = Count(stored))
      /\ (~ faulted => Len(FlattenSeq(cache.mem)) <= MAX_LEN_CACHE_IN_MEM)
  BY DEF CacheInv
<1> DEFINE data == Piece(n)
           d == cache'
           m == FlattenSeq(cache.mem)
           f == FlattenSeq(ps)
<1>3. /\ data \in Chunk /\ data \in Seq(Int) /\ Len(data) = n /\ n \in Nat
      /\ data = [i \in 1 .. n |-> stored + i]
  BY <1>2, PieceIs
<1>4. /\ disk \in {"ok", "none", "torn"} /\ cells \in 0 .. n
  <2>1. disk \in {"ok", "none", "torn"}
    BY CacheUseAssumption
  <2>2. CASE disk = "torn"
    BY <2>1, <2>2
  <2>3. CASE disk # "torn"
    <3>1. cells \in 0 .. 0
      BY <2>3
    <3> QED
      BY <1>3, <2>1, <3>1
  <2> QED
    BY <2>2, <2>3
<1>5. /\ pc = "idle" /\ pc' = "idle" /\ stored' = stored + n /\ clears' = clears
      /\ d = Store(cache, data, disk, cells) /\ delivered' = delivered
      /\ faulted' = (faulted \/ (ToFile(cache, data) /\ disk # "ok"))
  BY DEF DoCache
<1>6. faulted' \in BOOLEAN /\ stored' \in Nat /\ clears' \in Nat /\ delivered' \in Seq(Int)
  BY <1>1, <1>2, <1>3, <1>5
<1>7. \/ /\ ~ ToFile(cache, data)
         /\ CacheOK(d, ps) /\ FlattenSeq(d.mem) = m \o data
         /\ f = <<>>
         /\ Len(FlattenSeq(d.mem)) <= MAX_LEN_CACHE_IN_MEM
      \/ /\ disk = "ok" /\ ToFile(cache, data)
         /\ CacheOK(d, Append(ps, data)) /\ d.mem = cache.mem
         /\ FlattenSeq(Append(ps, data)) = f \o data
      \/ /\ disk # "ok" /\ ToFile(cache, data)
         /\ CacheOK(d, ps) /\ FlattenSeq(d.mem) = m \o data
      \/ /\ disk # "ok" /\ ToFile(cache, data)
         /\ CacheOK(d, <<>>) /\ FlattenSeq(d.mem) = m \o data
  <2>1. cells \in 0 .. Len(data)
    BY <1>3, <1>4
  <2>2. data \in Chunk /\ d = Store(cache, data, disk, cells)
    BY <1>3, <1>5
  <2> HIDE DEF data, d, m, f
  <2>3. Stores(cache, ps, data, disk, d)
    BY <1>1, <1>4, <2>1, <2>2, StoreIs
  <2> QED
    BY <2>3 DEF Stores, m, f
<1> HIDE DEF data, d, m, f
<1>8. /\ m \in Seq(Int) /\ f \in Seq(Int) /\ Waiting = m \o f
      /\ All = (delivered \o m) \o f /\ delivered \o m \in Seq(Int) /\ delivered \in Seq(Int)
  BY <1>1 DEF m, f
<1>9. Waiting' = Cached(d) /\ All' = delivered \o Waiting'
  BY <1>5 DEF Waiting, All, d
\* The new bytes are the last.
<1>10. ASSUME Waiting' = Waiting \o data
       PROVE  Exact(All', stored') /\ (~ faulted' => All' = Count(stored'))
  <2>1. All' = All \o data
    <3>1. delivered \o (Waiting \o data) = (delivered \o Waiting) \o data
      <4>1. Waiting \in Seq(Int) /\ delivered \in Seq(Int) /\ data \in Seq(Int)
        BY <1>1, <1>3
      <4> QED
        BY <4>1, IntAssociative, Zenon
    <3> QED
      BY <1>9, <1>10, <3>1 DEF All
  <2>2. Exact((All \o data) \o <<>>, stored + n)
    <3> DEFINE none == <<>>
    <3>1. none \in Seq(Int) /\ All \in Seq(Int) /\ All \o none = All
      BY <1>1, ConcatEmptySeq
    <3>2. Exact(All \o none, stored)
      BY <1>2, <3>1
    <3> HIDE DEF none
    <3>3. Exact((All \o data) \o none, stored + n)
      BY ONLY <1>2, <1>3, <3>1, <3>2, ExactInsert
    <3> QED
      BY <3>3 DEF none
  <2>3. (All \o data) \o <<>> = All \o data
    <3>1. All \o data \in Seq(Int)
      BY <1>1, <1>3
    <3> QED
      BY <3>1, ConcatEmptySeq
  <2>4. ASSUME ~ faulted' PROVE All' = Count(stored')
    <3>1. All = Count(stored)
      BY <1>2, <1>5, <2>4
    <3>2. Count(stored) \o data = Count(stored + n)
      BY <1>2, <1>3, CountOn
    <3> QED
      BY <1>5, <2>1, <3>1, <3>2
  <2> QED
    BY <1>5, <2>1, <2>2, <2>3, <2>4
\* The new bytes are the last of the list, before those of the file.
<1>11. ASSUME NEW g \in Seq(Int), Waiting' = (m \o data) \o g, Exact((delivered \o m) \o g, stored)
       PROVE  Exact(All', stored')
  <2>1. All' = ((delivered \o m) \o data) \o g
    <3>1. delivered \o ((m \o data) \o g) = ((delivered \o m) \o data) \o g
      <4>1. m \in Seq(Int) /\ delivered \in Seq(Int) /\ data \in Seq(Int) /\ g \in Seq(Int)
        BY <1>3, <1>8
      <4> DEFINE md == m \o data
      <4>2. md \in Seq(Int) /\ delivered \o md = (delivered \o m) \o data
        <5>1. delivered \o md = (delivered \o m) \o data
          BY <4>1, IntAssociative, ZenonT(40)
        <5> QED
          BY <4>1, <5>1
      <4> HIDE DEF md
      <4>3. delivered \o (md \o g) = (delivered \o md) \o g
        BY <4>1, <4>2, IntAssociative, ZenonT(40)
      <4> QED
        BY <4>2, <4>3 DEF md
    <3> QED
      BY <1>9, <1>11, <3>1
  <2>2. Exact(((delivered \o m) \o data) \o g, stored + n)
    BY <1>2, <1>3, <1>8, <1>11, ExactInsert
  <2> QED
    BY <1>5, <2>1, <2>2
<1>12. CASE /\ ~ ToFile(cache, data)
            /\ CacheOK(d, ps) /\ FlattenSeq(d.mem) = m \o data
            /\ f = <<>>
            /\ Len(FlattenSeq(d.mem)) <= MAX_LEN_CACHE_IN_MEM
  <2>1. Waiting' = (m \o data) \o <<>> /\ Waiting = m \o <<>>
    BY <1>8, <1>9, <1>12, CachedIs DEF f
  <2>2. Waiting' = Waiting \o data
    <3>1. m \o data \in Seq(Int)
      BY <1>3, <1>8
    <3> QED
      BY <1>8, <2>1, <3>1, ConcatEmptySeq
  <2>3. Exact(All', stored') /\ (~ faulted' => All' = Count(stored'))
    BY <1>10, <2>2
  <2> QED
    BY <1>5, <1>6, <1>12, <2>2, <2>3 DEF CacheInv, d, data
<1>13. CASE /\ disk = "ok" /\ ToFile(cache, data)
            /\ CacheOK(d, Append(ps, data)) /\ d.mem = cache.mem
            /\ FlattenSeq(Append(ps, data)) = f \o data
  <2>1. Waiting' = m \o (f \o data)
    BY <1>9, <1>13, CachedIs DEF m
  <2>2. Waiting' = Waiting \o data
    <3>1. m \in Seq(Int) /\ f \in Seq(Int) /\ data \in Seq(Int)
      BY <1>3, <1>8
    <3>2. m \o (f \o data) = (m \o f) \o data
      BY <3>1, IntAssociative, Zenon
    <3> QED
      BY <1>8, <2>1, <3>2
  <2>3. Exact(All', stored') /\ (~ faulted' => All' = Count(stored'))
    BY <1>10, <2>2
  <2>4. ~ faulted' => Len(FlattenSeq(d.mem)) <= MAX_LEN_CACHE_IN_MEM
    BY <1>2, <1>5, <1>13
  <2> QED
    BY <1>5, <1>6, <1>13, <2>2, <2>3, <2>4 DEF CacheInv, d, data
<1>14. CASE /\ disk # "ok" /\ ToFile(cache, data)
            /\ CacheOK(d, ps) /\ FlattenSeq(d.mem) = m \o data
  <2>1. Waiting' = (m \o data) \o f
    BY <1>9, <1>14, CachedIs DEF f
  <2>2. Exact((delivered \o m) \o f, stored)
    BY <1>2, <1>8
  <2>3. Exact(All', stored')
    BY <1>8, <1>11, <2>1, <2>2
  <2> QED
    BY <1>5, <1>6, <1>14, <2>3 DEF CacheInv, d, data
<1>15. CASE /\ disk # "ok" /\ ToFile(cache, data)
            /\ CacheOK(d, <<>>) /\ FlattenSeq(d.mem) = m \o data
  <2> DEFINE none == <<>>
  <2>0. none \in Seq(Int) /\ FlattenSeq(<<>>) = none
    BY NothingExact, FlattenType
  <2>1. Waiting' = (m \o data) \o none
    BY <1>9, <1>15, <2>0, CachedIs
  <2>2. Exact((delivered \o m) \o none, stored)
    <3>1. Exact(delivered \o m, stored)
      BY <1>2, <1>8, ExactFront
    <3>2. (delivered \o m) \o none = delivered \o m
      BY <1>8, ConcatEmptySeq
    <3> QED
      BY <3>1, <3>2
  <2> HIDE DEF none
  <2>3. Exact(All', stored')
    BY <1>11, <2>0, <2>1, <2>2
  <2> QED
    BY <1>5, <1>6, <1>15, <2>3 DEF CacheInv, d, data
<1> QED
  BY <1>7, <1>12, <1>13, <1>14, <1>15

\* clear() starts the account again, whoever calls it.
LEMMA ClearStep ==
  ASSUME CacheInv, Clear \/ HostClears
  PROVE  CacheInv' /\ Waiting' = <<>> /\ delivered' = <<>>
<1>1. \E c, ps : CacheOK(c, ps) /\ cache' = ClearCache(c)
  <2>1. PICK ps : CacheOK(cache, ps)
    BY DEF CacheInv
  <2>2. CASE Clear
    BY <2>1, <2>2 DEF Clear
  <2>3. CASE HostClears
    <3>1. PeekSize(cache.file) > 0 /\ cache' = ClearCache(DropFileHead(cache, PeekSize(cache.file)))
      BY <2>3 DEF HostClears
    <3>2. CacheOK(DropFileHead(cache, PeekSize(cache.file)), Tail(ps))
      BY <2>1, <3>1, DropFileIs
    <3> QED
      BY <3>1, <3>2
  <2> QED
    BY <2>2, <2>3
<1>2. CacheOK(cache', <<>>) /\ Waiting' = <<>> /\ cache'.mem = <<>>
  <2>1. PICK c, ps : CacheOK(c, ps) /\ cache' = ClearCache(c)
    BY <1>1
  <2>2. CacheOK(ClearCache(c), <<>>) /\ Cached(ClearCache(c)) = <<>>
    BY <2>1, ClearIs
  <2> QED
    BY <2>1, <2>2 DEF Waiting, ClearCache
<1>3. /\ clears' = clears + 1 /\ stored' = 0 /\ delivered' = <<>> /\ faulted' = FALSE /\ pc' = pc
      /\ pc \in {"idle", "mem", "file"} /\ clears \in Nat
  BY DEF Clear, HostClears, CacheInv
<1>4. All' = <<>>
  BY <1>2, <1>3, NothingExact DEF All
<1>5. Len(FlattenSeq(cache'.mem)) <= MAX_LEN_CACHE_IN_MEM
  BY <1>2, NothingExact, CacheAssumption
<1>6. /\ Exact(All', stored') /\ All' = Count(stored') /\ delivered' \in Seq(Int)
      /\ stored' \in Nat /\ clears' \in Nat /\ faulted' \in BOOLEAN
  <2>1. Exact(<<>>, 0) /\ <<>> = Count(0) /\ <<>> \in Seq(Int)
    BY NothingExact
  <2>2. Exact(All', stored') /\ All' = Count(stored') /\ delivered' \in Seq(Int)
    BY <1>3, <1>4, <2>1, Zenon
  <2>3. stored' \in Nat /\ clears' \in Nat
    BY <1>3
  <2>4. faulted' \in BOOLEAN
    BY <1>3, Zenon
  <2> QED
    BY <2>2, <2>3, <2>4
<1>7. CacheInv'
  BY <1>2, <1>3, <1>5, <1>6 DEF CacheInv
<1> QED
  BY <1>2, <1>3, <1>7

\* A chunk is handed to the host.
Hands(h) == Waiting = h \o Waiting' /\ delivered' = delivered \o h /\ Waiting' \in Seq(Int)

\* It changes sides, and nothing else does.
LEMMA HandsKeeps ==
  ASSUME CacheInv, NEW h \in Chunk, Hands(h)
  PROVE  All' = All /\ delivered' \in Seq(Int)
<1> DEFINE w == Waiting'
<1>1. /\ delivered \in Seq(Int) /\ h \in Seq(Int) /\ w \in Seq(Int)
      /\ All = delivered \o (h \o w) /\ All' = (delivered \o h) \o w
      /\ delivered' = delivered \o h
  BY DEF CacheInv, Chunk, Hands, All
<1> HIDE DEF w
<1>2. (delivered \o h) \o w = delivered \o (h \o w)
  BY <1>1, IntAssociative, Zenon
<1>3. delivered \o h \in Seq(Int)
  BY <1>1
<1> QED
  BY <1>1, <1>2, <1>3

\* An iteration of the list.
LEMMA FlushMemStep ==
  ASSUME CacheInv, NEW taken \in BOOLEAN, FlushMem(taken)
  PROVE  /\ CacheInv'
         /\ UNCHANGED <<Waiting, delivered>> \/ \E h \in Chunk : Hands(h)
<1>1. PICK ps : CacheOK(cache, ps)
  BY DEF CacheInv
<1>2. CASE taken
  <2>1. /\ cache.mem # <<>> /\ cache' = DropMemHead(cache) /\ pc' = pc /\ pc = "mem"
        /\ delivered' = delivered \o Head(cache.mem)
        /\ stored' = stored /\ clears' = clears /\ faulted' = faulted
    BY <1>2 DEF FlushMem
  <2>2. /\ CacheOK(cache', ps) /\ cache'.mem = Tail(cache.mem) /\ Head(cache.mem) \in Chunk
        /\ Cached(cache) = Head(cache.mem) \o Cached(cache')
    BY <1>1, <2>1, DropMemIs
  <2>3. Cached(cache') \in Seq(Int)
    BY <2>2, CachedIs
  <2>4. Hands(Head(cache.mem))
    BY <2>1, <2>2, <2>3 DEF Hands, Waiting
  <2>5. All' = All /\ delivered' \in Seq(Int)
    BY <2>2, <2>4, HandsKeeps
  <2>6. Len(FlattenSeq(cache'.mem)) <= Len(FlattenSeq(cache.mem))
    <3> DEFINE all == Len(FlattenSeq(cache.mem))
               first == Len(Head(cache.mem))
               rest == Len(FlattenSeq(Tail(cache.mem)))
    <3>1. cache.mem \in Chunks /\ Tail(cache.mem) \in Chunks
      BY <1>1, <2>1, CachedIs, FlattenChunks
    <3>2. all = first + rest /\ rest \in Nat
      BY <2>1, <3>1, FlattenChunks
    <3>3. first \in Nat
      BY <2>2 DEF Chunk
    <3>4. Len(FlattenSeq(cache'.mem)) = rest
      BY <2>2
    <3> HIDE DEF all, first, rest
    <3>5. rest <= all
      BY <3>2, <3>3
    <3> QED
      BY <3>4, <3>5 DEF all
  <2>7. ~ faulted => Len(FlattenSeq(cache'.mem)) <= MAX_LEN_CACHE_IN_MEM
    <3>1. Len(FlattenSeq(cache.mem)) \in Nat /\ Len(FlattenSeq(cache'.mem)) \in Nat
      BY <1>1, <2>2, CachedIs, FlattenChunks
    <3>2. ~ faulted => Len(FlattenSeq(cache.mem)) <= MAX_LEN_CACHE_IN_MEM
      BY DEF CacheInv
    <3> QED
      BY <2>6, <3>1, <3>2, CacheAssumption
  <2>8. /\ stored \in Nat /\ clears \in Nat /\ faulted \in BOOLEAN /\ pc \in {"idle", "mem", "file"}
        /\ Exact(All, stored) /\ (~ faulted => All = Count(stored))
    BY DEF CacheInv
  <2>9. CacheInv'
    BY <2>1, <2>2, <2>5, <2>7, <2>8 DEF CacheInv
  <2> QED
    BY <2>2, <2>4, <2>9
<1>3. CASE ~ taken
  <2>1. /\ cache' = cache /\ pc' = "idle" /\ delivered' = delivered
        /\ stored' = stored /\ clears' = clears /\ faulted' = faulted
    BY <1>3 DEF FlushMem
  <2>2. Waiting' = Waiting /\ All' = All
    BY <2>1 DEF Waiting, All
  <2> QED
    BY <2>1, <2>2 DEF CacheInv
<1> QED
  BY <1>2, <1>3

\* An iteration of the file.
LEMMA FlushFileStep ==
  ASSUME CacheInv, NEW taken \in BOOLEAN, FlushFile(taken)
  PROVE  /\ CacheInv'
         /\ UNCHANGED <<Waiting, delivered>> \/ \E h \in Chunk : Hands(h)
<1>1. PICK ps : CacheOK(cache, ps)
  BY DEF CacheInv
<1> DEFINE sz == PeekSize(cache.file)
<1>a. sz > 0 /\ pc = "file" /\ stored' = stored /\ clears' = clears /\ faulted' = faulted
  BY DEF FlushFile
<1>b. /\ ps # <<>> /\ Head(ps) \in Chunk /\ Tail(ps) \in Chunks
      /\ DiskRead(cache.file, sz) = Head(ps) /\ sz = Len(Head(ps))
      /\ CacheOK(DropFileHead(cache, sz), Tail(ps))
      /\ DropFileHead(cache, sz).mem = cache.mem
      /\ FlattenSeq(ps) = Head(ps) \o FlattenSeq(Tail(ps))
  BY <1>1, <1>a, DropFileIs
<1>2. CASE taken
  <2>1. /\ cache' = DropFileHead(cache, sz) /\ pc' = pc /\ delivered' = delivered \o Head(ps)
    BY <1>2, <1>b DEF FlushFile
  <2> HIDE DEF sz
  <2>2. CacheOK(cache', Tail(ps)) /\ cache'.mem = cache.mem /\ cache.mem = <<>>
    BY <1>a, <1>b, <2>1 DEF CacheInv
  <2>3. Waiting = Head(ps) \o Waiting' /\ Waiting' \in Seq(Int)
    <3> DEFINE t == FlattenSeq(Tail(ps))
               none == <<>>
    <3>1. t \in Seq(Int) /\ Head(ps) \in Seq(Int) /\ FlattenSeq(ps) \in Seq(Int)
      BY <1>1, <1>b, CachedIs, FlattenChunks DEF Chunk
    <3>2. Waiting = none \o FlattenSeq(ps) /\ Waiting' = none \o t
      BY <1>1, <2>2, CachedIs, NothingExact, FlattenType DEF Waiting
    <3> HIDE DEF t, none
    <3>3. FlattenSeq(ps) = Head(ps) \o t
      BY <1>b DEF t
    <3>4. none \o FlattenSeq(ps) = FlattenSeq(ps) /\ none \o t = t
      BY <3>1, ConcatEmptySeq DEF none
    <3> QED
      BY <3>1, <3>2, <3>3, <3>4
  <2>4. Hands(Head(ps))
    BY <2>1, <2>3 DEF Hands
  <2>5. All' = All /\ delivered' \in Seq(Int)
    BY <1>b, <2>4, HandsKeeps
  <2>6. CacheInv'
    BY <1>a, <2>1, <2>2, <2>5 DEF CacheInv
  <2> QED
    BY <1>b, <2>4, <2>6
<1>3. CASE ~ taken
  <2>1. /\ cache' = [cache EXCEPT !.file = DiskRollback(DiskAdvance(@, sz), sz)]
        /\ pc' = "idle" /\ delivered' = delivered
    BY <1>3 DEF FlushFile
  <2>2. sz \in Int /\ cache \in Caches
    BY <1>1, <1>b DEF CacheOK, Chunk
  <2> HIDE DEF sz
  <2>3. cache' = cache
    BY <2>1, <2>2, CacheRollbackIs
  <2>4. Waiting' = Waiting /\ All' = All
    BY <2>1, <2>3 DEF Waiting, All
  <2> QED
    BY <1>a, <2>1, <2>3, <2>4 DEF CacheInv
<1> QED
  BY <1>2, <1>3

\* The steps between the phases, and those of others.
LEMMA PhaseStep ==
  ASSUME CacheInv, FlushAll \/ MemDone \/ FileDone \/ UNCHANGED vars
  PROVE  CacheInv' /\ UNCHANGED <<Waiting, delivered>>
<1>1. /\ cache' = cache /\ delivered' = delivered
      /\ stored' = stored /\ clears' = clears /\ faulted' = faulted
  BY DEF FlushAll, MemDone, FileDone, vars
<1>2. pc' \in {"idle", "mem", "file"} /\ (pc' = "file" => cache.mem = <<>>)
  BY DEF FlushAll, MemDone, FileDone, vars, CacheInv
<1>3. Waiting' = Waiting /\ All' = All
  BY <1>1 DEF Waiting, All
<1> QED
  BY <1>1, <1>2, <1>3 DEF CacheInv

-----------------------------------------------------------------------------
(* The theorems.                                                           *)

\* Every step keeps the invariant.
LEMMA NextInv == CacheInv /\ [Next]_vars => CacheInv'
<1> SUFFICES ASSUME CacheInv, [Next]_vars PROVE CacheInv'
  OBVIOUS
<1>1. CASE \E n \in 1 .. MaxPiece : \E disk \in {"ok"} \cup DiskFaults :
             \E cells \in 0 .. IF disk = "torn" THEN n ELSE 0 : DoCache(n, disk, cells)
  BY <1>1, DoCacheStep
<1>2. CASE Clear \/ HostClears
  BY <1>2, ClearStep
<1>3. CASE \E taken \in BOOLEAN : FlushMem(taken)
  BY <1>3, FlushMemStep
<1>4. CASE \E taken \in BOOLEAN : FlushFile(taken)
  BY <1>4, FlushFileStep
<1>5. CASE FlushAll \/ MemDone \/ FileDone \/ UNCHANGED vars
  BY <1>5, PhaseStep
<1> QED
  BY <1>1, <1>2, <1>3, <1>4, <1>5 DEF Next

\* The invariant holds in every reachable state of the cache.
THEOREM CacheInvariant == Spec => []CacheInv
BY InitInv, NextInv, PTL DEF Spec

\* The record at the position is complete, so assert(mDiskCache.read(ptr, sz) ==
\* sz) in flushAll() never fires, whatever writes failed or reads were rolled
\* back before.
THEOREM RecordsStayAligned == Spec => []RecordsAligned
<1>1. CacheInv => RecordsAligned
  <2> SUFFICES ASSUME CacheInv PROVE RecordsAligned
    OBVIOUS
  <2> DEFINE f == cache.file
  <2>1. PICK ps : CacheOK(cache, ps)
    BY DEF CacheInv
  <2>2. Holds(f, ps) /\ f \in Files /\ ps \in Chunks /\ f.pos <= Len(f.cells) /\ Ahead(f) = Records(ps)
    BY <2>1 DEF CacheOK, Holds
  <2> HIDE DEF f
  <2>3. /\ Len(f.cells) \in Nat /\ f.pos \in Nat /\ Len(Ahead(f)) = Len(f.cells) - f.pos
        /\ \A i \in 1 .. Len(Ahead(f)) : Ahead(f)[i] = f.cells[f.pos + i]
    BY <2>2, AheadIs
  <2>4. ASSUME f.pos < Len(f.cells)
        PROVE  /\ f.cells[f.pos + 1].kind = "len"
               /\ PeekSize(f) > 0
               /\ Len(DiskRead(f, PeekSize(f))) = PeekSize(f)
    <3>1. 1 \in 1 .. Len(Ahead(f))
      BY <2>3, <2>4
    <3>2. ps # <<>>
      <4>1. Len(<<>>) = 0
        OBVIOUS
      <4> QED
        BY <2>2, <3>1, <4>1, RecordsFew
    <3>3. /\ Head(ps) \in Chunk /\ Joins(Record(Head(ps)), Records(Tail(ps)), Ahead(f))
      BY <2>2, <3>2, FirstRecord
    <3>4. Shape(Head(ps), Record(Head(ps)))
      BY <3>3, RecordShape DEF Chunk
    <3> DEFINE first == Record(Head(ps))
    <3>5. 1 \in 1 .. Len(first) /\ first[1] = LenCell(Len(Head(ps)))
      BY <3>4 DEF Shape
    <3>6. f.cells[f.pos + 1] = LenCell(Len(Head(ps)))
      BY <2>3, <3>1, <3>3, <3>5 DEF Joins
    <3>7. PeekSize(f) = Len(Head(ps)) /\ DiskRead(f, PeekSize(f)) = Head(ps)
      BY <2>2, <3>2, PeekSizeIs, ReadIs
    <3>8. Len(Head(ps)) > 0
      BY <3>3, EmptySeq DEF Chunk
    <3> QED
      BY <3>6, <3>7, <3>8 DEF LenCell
  <2>5. f.pos \in 0 .. Len(f.cells)
    BY <2>2, <2>3
  <2> QED
    BY <2>4, <2>5 DEF RecordsAligned, f
<1> QED
  BY <1>1, CacheInvariant, PTL

\* The counters never fall below what is cached, so the unsigned subtractions of
\* flushAll() do not wrap around even after clear(), which leaves the counters
\* as they are; and as long as the disk works the list keeps within its budget.
THEOREM CountersAlwaysCover == Spec => []CountersCover
<1>1. CacheInv => CountersCover
  <2> SUFFICES ASSUME CacheInv PROVE CountersCover
    OBVIOUS
  <2>1. PICK ps : CacheOK(cache, ps)
    BY DEF CacheInv
  <2>2. FileBytes = FlattenSeq(ps)
    BY <2>1, CachedIs DEF FileBytes
  <2> QED
    BY <2>1, <2>2 DEF CacheOK, CacheInv, CountersCover
<1> QED
  BY <1>1, CacheInvariant, PTL

\* Nothing is delivered twice and nothing that was not cached, even when the disk
\* fails; until it does, everything is there and in order.
THEOREM BytesStayExact == Spec => []BytesExact
<1>1. CacheInv => BytesExact
  BY DEF CacheInv, Exact, Distinct, Within, Count, All, BytesExact
<1> QED
  BY <1>1, CacheInvariant, PTL

\* A chunk at the end is a Put of the queue.
LEMMA IsPut ==
  ASSUME NEW w \in Seq(Int), NEW d \in Chunk
  PROVE  Len(w \o d) > Len(w) /\ SubSeq(w \o d, 1, Len(w)) = w
<1> DEFINE v == w \o d
<1>1. Joins(w, d, v) /\ v \in Seq(Int) /\ Len(w) \in Nat /\ Len(d) \in Nat /\ Len(d) # 0
  BY CatJoins, EmptySeq DEF Chunk
<1> HIDE DEF v
<1>2. Len(v) > Len(w)
  BY <1>1 DEF Joins
<1>3. \A i \in 1 .. Len(w) : v[i] \in Int /\ v[i] = w[i]
  <2>1. \A i \in 1 .. Len(w) : v[i] = w[i]
    BY <1>1 DEF Joins
  <2> QED
    BY <2>1, ElementOfSeq
<1> DEFINE k == Len(w)
<1>4. k \in Nat
  BY <1>1
<1> HIDE DEF k
<1>5. /\ SubSeq(v, 1, k) \in Seq(Int) /\ Len(SubSeq(v, 1, k)) = IF 1 <= k THEN k - 1 + 1 ELSE 0
      /\ \A i \in 1 .. k - 1 + 1 : SubSeq(v, 1, k)[i] = v[1 + i - 1]
  <2>1. \A i \in 1 .. k : v[i] \in Int
    BY <1>3 DEF k
  <2> QED
    BY <1>4, <2>1, SubSeqProperties
<1>6. Len(SubSeq(v, 1, k)) = k /\ \A i \in 1 .. k : SubSeq(v, 1, k)[i] = v[i]
  BY <1>4, <1>5
<1>7. SubSeq(v, 1, k) = w
  BY <1>3, <1>5, <1>6, SeqEqual DEF k
<1> QED
  BY <1>2, <1>7 DEF v, k

\* A chunk from the front is a Deliver of the queue.
LEMMA IsDeliver ==
  ASSUME NEW h \in Chunk, NEW r \in Seq(Int)
  PROVE  LET w == h \o r
         IN  /\ Len(h) \in 1 .. Len(w)
             /\ r = SubSeq(w, Len(h) + 1, Len(w)) /\ h = SubSeq(w, 1, Len(h))
<1> DEFINE w == h \o r
<1>1. /\ Joins(h, r, w) /\ w \in Seq(Int) /\ Len(h) \in Nat /\ Len(r) \in Nat /\ Len(h) # 0
      /\ h \in Seq(Int)
  BY CatJoins, EmptySeq DEF Chunk
<1>2. Len(w) = Len(h) + Len(r)
  BY <1>1 DEF Joins
<1>3. h = SubSeq(w, 1, Len(h))
  BY <1>1, SubSeqOfConcat1, SubSeqFull
<1> QED
  BY <1>1, <1>2, <1>3

\* Until a write to the file fails, the list, the file, its records and its
\* position together are one queue of bytes: each of cache(), clear() and the
\* iterations of flushAll() is a step of Fifo.
THEOREM CacheIsFifo == Spec => ImplementsFifo
<1>1. Init => Queue!Init
  <2> SUFFICES ASSUME Init PROVE Queue!Init
    OBVIOUS
  <2>1. Waiting = <<>>
    BY NewCacheOK DEF Init, Waiting
  <2> QED
    BY <2>1 DEF Init, Queue!Init
<1>2. CacheInv /\ [Next]_vars => [Queue!Next \/ faulted']_<<Waiting, delivered>>
  <2> SUFFICES ASSUME CacheInv, [Next]_vars
               PROVE  (Queue!Next \/ faulted') \/ UNCHANGED <<Waiting, delivered>>
    OBVIOUS
  <2>0. Waiting \in Seq(Int) /\ stored \in Nat
    BY InvParts DEF CacheInv
  <2>1. ASSUME NEW n \in 1 .. MaxPiece, NEW disk \in {"ok"} \cup DiskFaults,
               NEW cells \in 0 .. (IF disk = "torn" THEN n ELSE 0), DoCache(n, disk, cells),
               ~ faulted'
        PROVE  Queue!Next
    <3>1. Waiting' = Waiting \o Piece(n) /\ delivered' = delivered
      BY <2>1, DoCacheStep
    <3>2. Piece(n) \in Chunk
      BY <2>0, PieceIs
    <3>3. Len(Waiting \o Piece(n)) > Len(Waiting)
          /\ SubSeq(Waiting \o Piece(n), 1, Len(Waiting)) = Waiting
      BY <2>0, <3>2, IsPut
    <3>4. Queue!Put
      BY <3>1, <3>3 DEF Queue!Put
    <3> QED
      BY <3>4 DEF Queue!Next
  <2>2. ASSUME Clear \/ HostClears PROVE Queue!Next
    BY <2>2, ClearStep DEF Queue!Next, Queue!Discard
  <2>3. ASSUME NEW h \in Chunk, Hands(h) PROVE Queue!Next
    <3> DEFINE w == Waiting
               r == Waiting'
    <3>1. w = h \o r /\ r \in Seq(Int) /\ delivered' = delivered \o h
      BY <2>3 DEF Hands
    <3> HIDE DEF w, r
    <3>2. Len(h) \in 1 .. Len(w) /\ r = SubSeq(w, Len(h) + 1, Len(w)) /\ h = SubSeq(w, 1, Len(h))
      BY <3>1, IsDeliver
    <3>3. \E n \in 1 .. Len(w) : r = SubSeq(w, n + 1, Len(w)) /\ delivered' = delivered \o SubSeq(w, 1, n)
      BY <3>1, <3>2
    <3>4. Queue!Deliver
      BY <3>3 DEF Queue!Deliver, w, r
    <3> QED
      BY <3>4 DEF Queue!Next
  <2>4. CASE \E n \in 1 .. MaxPiece : \E disk \in {"ok"} \cup DiskFaults :
               \E cells \in 0 .. IF disk = "torn" THEN n ELSE 0 : DoCache(n, disk, cells)
    BY <2>1, <2>4
  <2>5. CASE \E taken \in BOOLEAN : FlushMem(taken)
    BY <2>3, <2>5, FlushMemStep
  <2>6. CASE \E taken \in BOOLEAN : FlushFile(taken)
    BY <2>3, <2>6, FlushFileStep
  <2>7. CASE FlushAll \/ MemDone \/ FileDone \/ UNCHANGED vars
    BY <2>7, PhaseStep
  <2> QED
    BY <2>2, <2>4, <2>5, <2>6, <2>7 DEF Next
<1> QED
  BY <1>1, <1>2, CacheInvariant, PTL DEF Spec, ImplementsFifo
=============================================================================
