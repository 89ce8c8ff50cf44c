----------------------------- MODULE KmemProofs -----------------------------
(***************************************************************************)
(* The invariants of Kmem hold for every number of threads and arrays and  *)
(* every choice of the sizes and limits.  A sound world is one whose slabs,*)
(* lists, counters and pools agree; each critical section under list_lock  *)
(* takes a sound world to a sound one and moves exactly the objects that   *)
(* it hands out or takes back.  The arrays, the program and the calls of   *)
(* free() in progress share out what is not free in a slab.                *)
(* The second part is about the pure functions: the sizes of the allocator *)
(* for every page and every set of caches, and the text helpers and Base64 *)
(* of the proxy for every text.                                            *)
(***************************************************************************)
EXTENDS Kmem, FiniteSetTheorems, FunctionTheorems, SequenceTheorems, TLAPS

-----------------------------------------------------------------------------
(* A sound world.                                                          *)

PoolType  == [open : Seq(Nat), max : Nat]
SlabType  == [desc : Nat, bufctl : Seq(Slot), inuse : Int]
CountType == [partial : Int, full : Int, free : Int, free_objects : Int]
SlabsType == UNION {[D -> SlabType] : D \in SUBSET Nat}
WorldType ==
  [slab : SlabsType, partial : Seq(Nat), full : SUBSET Nat, empty : Seq(Nat),
   count : CountType, pages : PoolType, descs : PoolType]

\* The free nodes of a pool are some of its nodes, each once.
PoolOK(pool) ==
  /\ pool \in PoolType
  /\ IsInjective(pool.open)
  /\ ToSet(pool.open) \subseteq 0 .. pool.max - 1

SlabsOK(w) ==
  \A p \in DOMAIN w.slab :
    IsInjective(w.slab[p].bufctl) /\ w.slab[p].inuse = Num - Len(w.slab[p].bufctl)

\* The lists hold the slabs of P, F and E, and their counters say so.
Queued(w, P, F, E) ==
  /\ IsInjective(w.partial) /\ ToSet(w.partial) = P /\ w.count.partial = Len(w.partial)
  /\ w.full = F /\ w.count.full = Cardinality(F)
  /\ IsInjective(w.empty) /\ ToSet(w.empty) = E /\ w.count.free = Len(w.empty)

SomeUsed(w) == {p \in DOMAIN w.slab : w.slab[p].inuse \in 1 .. Num - 1}
AllUsed(w)  == {p \in DOMAIN w.slab : w.slab[p].inuse = Num}
NoneUsed(w) == {p \in DOMAIN w.slab : w.slab[p].inuse = 0}

FreeCounted(w) == w.count.free_objects = Cardinality(FreeObjects(w))

\* o is the set of the pages that the other caches have.
PagesOK(w, o) ==
  /\ PoolOK(w.pages)
  /\ Used(w.pages) = DOMAIN w.slab \cup o /\ DOMAIN w.slab \cap o = {}

\* The nodes from m on have never been taken and are the last ones of the list.
FreshFrom(pool, k, m) ==
  /\ k <= Len(pool.open) /\ m <= pool.max /\ Len(pool.open) - k = pool.max - m
  /\ \A i \in 1 .. k : pool.open[i] < m
  /\ \A i \in k + 1 .. Len(pool.open) : pool.open[i] = m + (i - k - 1)

DescsOK(w) ==
  /\ PoolOK(w.descs)
  /\ Used(w.descs) = {w.slab[p].desc : p \in DOMAIN w.slab}
  /\ \A p, q \in DOMAIN w.slab : w.slab[p].desc = w.slab[q].desc => p = q
  /\ \E k, m \in Nat : FreshFrom(w.descs, k, m) /\ m <= w.pages.max

\* Sound, but for the lists.
WorldOK(w, o) ==
  w \in WorldType /\ SlabsOK(w) /\ FreeCounted(w) /\ PagesOK(w, o) /\ DescsOK(w)

Sound(w, o) == WorldOK(w, o) /\ Queued(w, SomeUsed(w), AllUsed(w), NoneUsed(w))

\* The objects that are not free in their slab.
Out(w) == (DOMAIN w.slab) \X Slot \ FreeObjects(w)

-----------------------------------------------------------------------------
(* The invariant.                                                          *)

Objects == Nat \X Slot
CallType ==
  {c \in [op : {"none", "alloc", "free", "drain"}, obj : Objects \cup {NoObject}] :
     c.op = "free" <=> c.obj # NoObject}

TypeOK ==
  /\ array \in [Array -> Seq(Objects)]
  /\ cpu \in [Thread -> Array]
  /\ call \in [Thread -> CallType]

\* Each object outside is in one array, or the program has it, or one call.
ArraysApart ==
  /\ \A i, j \in Array : i # j => ToSet(array[i]) \cap ToSet(array[j]) = {}
  /\ \A i \in Array : IsInjective(array[i])

CallsApart ==
  \A t, u \in Thread : call[t].obj # NoObject /\ call[t].obj = call[u].obj => t = u

Shared ==
  /\ InArrays \cup held \cup Returning = Out(World)
  /\ held \cap (InArrays \cup Returning) = {} /\ InArrays \cap Returning = {}
  /\ ArraysApart /\ CallsApart

Inv == TypeOK /\ Sound(World, other) /\ Shared

-----------------------------------------------------------------------------
(* Sequences without repetition.                                           *)

\* What a sequence over S is, in terms of its indices.
LEMMA SeqFacts ==
  ASSUME NEW S, NEW s \in Seq(S)
  PROVE  /\ Len(s) \in Nat /\ DOMAIN s = 1 .. Len(s)
         /\ \A i \in 1 .. Len(s) : s[i] \in S
         /\ ToSet(s) = {s[i] : i \in 1 .. Len(s)} /\ ToSet(s) \subseteq S
         /\ s = <<>> <=> Len(s) = 0
         /\ s = <<>> <=> ToSet(s) = {}
         /\ IsInjective(s) <=> \A i, j \in 1 .. Len(s) : s[i] = s[j] => i = j
<1>1. Len(s) \in Nat /\ DOMAIN s = 1 .. Len(s)
  BY LenProperties
<1>2. \A i \in 1 .. Len(s) : s[i] \in S
  BY ElementOfSeq
<1>3. s = <<>> <=> Len(s) = 0
  BY EmptySeq
<1>4. ToSet(s) = {s[i] : i \in 1 .. Len(s)}
  BY <1>1 DEF ToSet
<1>5. Len(s) = 0 <=> {s[i] : i \in 1 .. Len(s)} = {}
  <2>1. Len(s) = 0 => 1 .. Len(s) = {}
    BY <1>1
  <2>2. Len(s) # 0 => 1 \in 1 .. Len(s)
    BY <1>1
  <2> QED
    BY <2>1, <2>2
<1> QED
  BY <1>1, <1>2, <1>3, <1>4, <1>5 DEF IsInjective

\* Such a sequence counts its elements.
LEMMA InjCard ==
  ASSUME NEW S, NEW s \in Seq(S), IsInjective(s)
  PROVE  IsFiniteSet(ToSet(s)) /\ Cardinality(ToSet(s)) = Len(s)
<1>1. Len(s) \in Nat /\ DOMAIN s = 1 .. Len(s) /\ ToSet(s) = {s[i] : i \in 1 .. Len(s)}
  BY SeqFacts
<1>2. s \in [1 .. Len(s) -> ToSet(s)]
  BY <1>1, LenProperties
<1>3. s \in Bijection(1 .. Len(s), ToSet(s))
  <2>1. \A a, b \in 1 .. Len(s) : s[a] = s[b] => a = b
    BY SeqFacts
  <2>2. \A x \in ToSet(s) : \E i \in 1 .. Len(s) : s[i] = x
    BY <1>1
  <2> QED
    BY <1>2, <2>1, <2>2, Fun_IsBij
<1>4. IsFiniteSet(1 .. Len(s)) /\ Cardinality(1 .. Len(s)) = Len(s)
  BY <1>1, FS_Interval, SMTT(30)
<1>5. ExistsBijection(1 .. Len(s), ToSet(s))
  BY <1>3 DEF ExistsBijection
<1> QED
  BY <1>4, <1>5, FS_Bijection

\* One element makes such a sequence.
LEMMA InjOne ==
  ASSUME NEW S, NEW x \in S
  PROVE  /\ <<x>> \in Seq(S) /\ IsInjective(<<x>>) /\ ToSet(<<x>>) = {x}
         /\ Len(<<x>>) = 1 /\ Head(<<x>>) = x /\ <<x>> # <<>>
<1> DEFINE s == <<x>>
<1>1. s \in Seq(S) /\ Len(s) = 1 /\ s[1] = x /\ Head(s) = x /\ s # <<>>
  OBVIOUS
<1> HIDE DEF s
<1>2. ToSet(s) = {s[i] : i \in 1 .. Len(s)}
  BY <1>1, SeqFacts
<1>3. 1 .. 1 = {1}
  OBVIOUS
<1>4. IsInjective(s) <=> \A i, j \in 1 .. Len(s) : s[i] = s[j] => i = j
  BY <1>1, SeqFacts
<1> QED
  BY <1>1, <1>2, <1>3, <1>4 DEF s

\* Its first element leaves,
LEMMA InjTail ==
  ASSUME NEW S, NEW s \in Seq(S), IsInjective(s), s # <<>>
  PROVE  /\ Head(s) \in ToSet(s) /\ Head(s) \in S
         /\ Tail(s) \in Seq(S) /\ IsInjective(Tail(s))
         /\ ToSet(Tail(s)) = ToSet(s) \ {Head(s)} /\ Len(Tail(s)) = Len(s) - 1
<1> DEFINE t == Tail(s)
<1>1. t \in Seq(S) /\ Len(t) = Len(s) - 1 /\ \A i \in 1 .. Len(t) : t[i] = s[i + 1]
  BY HeadTailProperties
<1>2. Len(s) \in Nat \ {0} /\ Head(s) = s[1]
  BY EmptySeq, HeadTailProperties
<1>3. \A i, j \in 1 .. Len(s) : s[i] = s[j] => i = j
  BY SeqFacts
<1>4. ToSet(s) = {s[i] : i \in 1 .. Len(s)} /\ ToSet(t) = {t[i] : i \in 1 .. Len(t)}
  BY <1>1, SeqFacts
<1> HIDE DEF t
<1>5. ToSet(t) = ToSet(s) \ {s[1]}
  <2>1. ASSUME NEW x \in ToSet(t) PROVE x \in ToSet(s) \ {s[1]}
    <3>1. PICK i \in 1 .. Len(t) : x = t[i]
      BY <1>4
    <3>2. i + 1 \in 1 .. Len(s) /\ 1 \in 1 .. Len(s) /\ i + 1 # 1 /\ x = s[i + 1]
      BY <1>1, <1>2, <3>1
    <3> QED
      BY <1>3, <1>4, <3>2
  <2>2. ASSUME NEW x \in ToSet(s) \ {s[1]} PROVE x \in ToSet(t)
    <3>1. PICK i \in 1 .. Len(s) : x = s[i] /\ i # 1
      BY <1>4
    <3>2. i - 1 \in 1 .. Len(t) /\ (i - 1) + 1 = i
      BY <1>1, <1>2, <3>1
    <3>3. x = t[i - 1]
      BY <1>1, <3>1, <3>2
    <3> QED
      BY <1>4, <3>2, <3>3
  <2> QED
    BY <2>1, <2>2
<1>6. IsInjective(t)
  <2>1. \A i \in 1 .. Len(t) : i + 1 \in 1 .. Len(s)
    BY <1>1, <1>2
  <2>2. ASSUME NEW i \in 1 .. Len(t), NEW j \in 1 .. Len(t), t[i] = t[j] PROVE i = j
    <3>1. i + 1 = j + 1
      BY <1>1, <1>3, <2>1, <2>2
    <3> QED
      BY <3>1
  <2> QED
    BY <1>1, <2>2, SeqFacts
<1>7. s[1] \in ToSet(s) /\ s[1] \in S
  BY <1>2, <1>4, SeqFacts
<1> QED
  BY <1>1, <1>2, <1>5, <1>6, <1>7 DEF t

\* or a new one comes to its front,
LEMMA InjCons ==
  ASSUME NEW S, NEW s \in Seq(S), IsInjective(s), NEW x \in S, x \notin ToSet(s)
  PROVE  /\ <<x>> \o s \in Seq(S) /\ IsInjective(<<x>> \o s)
         /\ ToSet(<<x>> \o s) = ToSet(s) \cup {x} /\ Len(<<x>> \o s) = Len(s) + 1
         /\ Head(<<x>> \o s) = x /\ <<x>> \o s # <<>>
<1> DEFINE t == <<x>> \o s
<1>1. /\ t \in Seq(S) /\ Len(t) = Len(s) + 1
      /\ \A i \in 1 .. Len(s) + 1 : t[i] = IF i <= 1 THEN x ELSE s[i - 1]
  <2>1. <<x>> \in Seq(S) /\ Len(<<x>>) = 1 /\ <<x>>[1] = x
    OBVIOUS
  <2> HIDE DEF t
  <2>2. /\ t \in Seq(S) /\ Len(t) = 1 + Len(s)
        /\ \A i \in 1 .. 1 + Len(s) : t[i] = IF i <= 1 THEN <<x>>[i] ELSE s[i - 1]
    BY <2>1, ConcatProperties DEF t
  <2>3. \A i \in 1 .. 1 + Len(s) : i <= 1 => i = 1
    OBVIOUS
  <2>4. 1 + Len(s) = Len(s) + 1
    BY SeqFacts
  <2> QED
    BY <2>1, <2>2, <2>3, <2>4
<1> HIDE DEF t
<1>2. Len(s) \in Nat /\ ToSet(s) = {s[i] : i \in 1 .. Len(s)} /\ ToSet(t) = {t[i] : i \in 1 .. Len(t)}
  BY <1>1, SeqFacts
<1>3. t[1] = x /\ \A i \in 1 .. Len(t) : i # 1 => i - 1 \in 1 .. Len(s) /\ t[i] = s[i - 1]
  BY <1>1, <1>2
<1>4. \A i \in 1 .. Len(s) : i + 1 \in 1 .. Len(t) /\ t[i + 1] = s[i] /\ i + 1 # 1
  BY <1>1, <1>2
<1>5. ToSet(t) = ToSet(s) \cup {x}
  <2>1. 1 \in 1 .. Len(t)
    BY <1>1, <1>2
  <2>2. ToSet(t) \subseteq ToSet(s) \cup {x}
    BY <1>2, <1>3
  <2>3. ToSet(s) \subseteq ToSet(t)
    BY <1>2, <1>4
  <2> QED
    BY <2>1, <2>2, <2>3, <1>2, <1>3, ZenonT(40)
<1>6. IsInjective(t)
  <2>1. ASSUME NEW i \in 1 .. Len(t), NEW j \in 1 .. Len(t), t[i] = t[j] PROVE i = j
    <3>1. \A a, b \in 1 .. Len(s) : s[a] = s[b] => a = b
      BY SeqFacts
    <3>2. CASE i = 1 \/ j = 1
      BY <1>2, <1>3, <2>1, <3>2
    <3>3. CASE i # 1 /\ j # 1
      <4>1. i - 1 = j - 1
        BY <1>3, <2>1, <3>1, <3>3
      <4> QED
        BY <4>1
    <3> QED
      BY <3>2, <3>3
  <2> QED
    BY <1>1, <2>1, SeqFacts
<1>7. t # <<>> /\ Head(t) = t[1]
  <2>1. Len(t) # 0
    BY <1>1, <1>2
  <2> QED
    BY <2>1, <1>1, SeqFacts
<1> QED
  BY <1>1, <1>3, <1>5, <1>6, <1>7 DEF t

\* or to its end,
LEMMA InjAppend ==
  ASSUME NEW S, NEW s \in Seq(S), IsInjective(s), NEW x \in S, x \notin ToSet(s)
  PROVE  /\ Append(s, x) \in Seq(S) /\ IsInjective(Append(s, x))
         /\ ToSet(Append(s, x)) = ToSet(s) \cup {x} /\ Len(Append(s, x)) = Len(s) + 1
<1> DEFINE t == Append(s, x)
           n == Len(s)
<1>1. /\ t \in Seq(S) /\ Len(t) = n + 1 /\ t[n + 1] = x
      /\ \A i \in 1 .. n : t[i] = s[i]
  BY AppendProperties
<1>2. n \in Nat /\ ToSet(s) = {s[i] : i \in 1 .. n}
  BY SeqFacts
<1> HIDE DEF t, n
<1>3. ToSet(t) = {t[i] : i \in 1 .. n + 1}
  BY <1>1, SeqFacts
<1>4. 1 .. n + 1 = (1 .. n) \cup {n + 1}
  BY <1>2
<1>5. ToSet(t) = ToSet(s) \cup {x}
  BY <1>1, <1>2, <1>3, <1>4
<1>6. IsInjective(t)
  <2>1. \A a, b \in 1 .. n : s[a] = s[b] => a = b
    BY SeqFacts DEF n
  <2>2. ASSUME NEW i \in 1 .. Len(t), NEW j \in 1 .. Len(t), t[i] = t[j] PROVE i = j
    BY <1>1, <1>2, <1>4, <2>1, <2>2
  <2> QED
    BY <1>1, <2>2, SeqFacts
<1> QED
  BY <1>1, <1>5, <1>6 DEF t, n

\* or to another one with other elements.
LEMMA InjConcat ==
  ASSUME NEW S, NEW s \in Seq(S), NEW t \in Seq(S), IsInjective(s), IsInjective(t),
         ToSet(s) \cap ToSet(t) = {}
  PROVE  /\ s \o t \in Seq(S) /\ IsInjective(s \o t)
         /\ ToSet(s \o t) = ToSet(s) \cup ToSet(t) /\ Len(s \o t) = Len(s) + Len(t)
<1> DEFINE u == s \o t
           m == Len(s)
           n == Len(t)
<1>1. /\ u \in Seq(S) /\ Len(u) = m + n
      /\ \A i \in 1 .. m + n : u[i] = IF i <= m THEN s[i] ELSE t[i - m]
  BY ConcatProperties
<1>2. m \in Nat /\ ToSet(s) = {s[i] : i \in 1 .. m}
  BY SeqFacts
<1>3. n \in Nat /\ ToSet(t) = {t[i] : i \in 1 .. n}
  BY SeqFacts
<1> HIDE DEF u, m, n
<1>4. ToSet(u) = {u[i] : i \in 1 .. m + n}
  BY <1>1, SeqFacts
<1>5. \A i \in 1 .. m : i \in 1 .. m + n /\ u[i] = s[i]
  BY <1>1, <1>2, <1>3
<1>6. \A i \in 1 .. n : m + i \in 1 .. m + n /\ u[m + i] = t[i]
  <2> SUFFICES ASSUME NEW i \in 1 .. n PROVE m + i \in 1 .. m + n /\ u[m + i] = t[i]
    OBVIOUS
  <2>1. m + i \in 1 .. m + n /\ ~ (m + i <= m) /\ (m + i) - m = i
    BY <1>2, <1>3
  <2> QED
    BY <1>1, <2>1
<1>7. \A i \in 1 .. m + n : i \in 1 .. m \/ (i - m \in 1 .. n /\ i = m + (i - m))
  BY <1>2, <1>3
<1>8. ToSet(u) = ToSet(s) \cup ToSet(t)
  <2>1. ToSet(u) \subseteq ToSet(s) \cup ToSet(t)
    <3> SUFFICES ASSUME NEW i \in 1 .. m + n PROVE u[i] \in ToSet(s) \cup ToSet(t)
      BY <1>4
    <3>1. CASE i \in 1 .. m
      BY <1>2, <1>5, <3>1
    <3>2. CASE i - m \in 1 .. n /\ i = m + (i - m)
      BY <1>3, <1>6, <3>2
    <3> QED
      BY <1>7, <3>1, <3>2
  <2>2. ToSet(s) \subseteq ToSet(u)
    BY <1>2, <1>4, <1>5
  <2>3. ToSet(t) \subseteq ToSet(u)
    BY <1>3, <1>4, <1>6
  <2> QED
    BY <2>1, <2>2, <2>3
<1>9. IsInjective(u)
  <2>1. \A a, b \in 1 .. m : s[a] = s[b] => a = b
    BY SeqFacts DEF m
  <2>2. \A a, b \in 1 .. n : t[a] = t[b] => a = b
    BY SeqFacts DEF n
  <2>3. ASSUME NEW i \in 1 .. m + n, NEW j \in 1 .. m + n, u[i] = u[j] PROVE i = j
    <3>1. i \in 1 .. m => u[i] \in ToSet(s)
      BY <1>2, <1>5
    <3>2. j \in 1 .. m => u[j] \in ToSet(s)
      BY <1>2, <1>5
    <3>3. i - m \in 1 .. n /\ i = m + (i - m) => u[i] \in ToSet(t) /\ u[i] = t[i - m]
      BY <1>3, <1>6
    <3>4. j - m \in 1 .. n /\ j = m + (j - m) => u[j] \in ToSet(t) /\ u[j] = t[j - m]
      BY <1>3, <1>6
    <3>5. CASE i \in 1 .. m
      <4>1. j \in 1 .. m
        BY <1>7, <2>3, <3>1, <3>4, <3>5
      <4> QED
        BY <1>5, <2>1, <2>3, <3>5, <4>1
    <3>6. CASE i \notin 1 .. m
      <4>1. i - m \in 1 .. n /\ i = m + (i - m)
        BY <1>7, <3>6
      <4>2. j - m \in 1 .. n /\ j = m + (j - m)
        BY <1>7, <2>3, <3>2, <3>3, <4>1
      <4>3. i - m = j - m
        BY <2>2, <2>3, <3>3, <3>4, <4>1, <4>2
      <4> QED
        BY <4>1, <4>2, <4>3
    <3> QED
      BY <3>5, <3>6
  <2> QED
    BY <1>1, <2>3, SeqFacts
<1> QED
  BY <1>1, <1>8, <1>9 DEF u, m, n

\* A part of it.
LEMMA InjPart ==
  ASSUME NEW S, NEW s \in Seq(S), IsInjective(s),
         NEW a \in 1 .. Len(s) + 1, NEW b \in 0 .. Len(s), a <= b + 1
  PROVE  /\ SubSeq(s, a, b) \in Seq(S) /\ IsInjective(SubSeq(s, a, b))
         /\ ToSet(SubSeq(s, a, b)) = {s[i] : i \in a .. b}
         /\ Len(SubSeq(s, a, b)) = b - a + 1
<1> DEFINE t == SubSeq(s, a, b)
           n == Len(s)
<1>1. n \in Nat /\ \A i \in 1 .. n : s[i] \in S
  BY SeqFacts
<1> HIDE DEF n
<1>2. a .. b \subseteq 1 .. n /\ a \in Int /\ b \in Int
  BY <1>1 DEF n
<1>3. \A i \in a .. b : s[i] \in S
  BY <1>1, <1>2
<1>4. /\ t \in Seq(S) /\ Len(t) = IF a <= b THEN b - a + 1 ELSE 0
      /\ \A i \in 1 .. b - a + 1 : t[i] = s[a + i - 1]
  BY <1>2, <1>3, SubSeqProperties
<1> HIDE DEF t
<1>5. Len(t) = b - a + 1
  BY <1>2, <1>4
<1>6. ToSet(t) = {t[i] : i \in 1 .. b - a + 1}
  BY <1>4, <1>5, SeqFacts
<1>7. \A i \in 1 .. b - a + 1 : a + i - 1 \in a .. b
  BY <1>2
<1>8. \A i \in a .. b : i - a + 1 \in 1 .. b - a + 1 /\ a + (i - a + 1) - 1 = i
  BY <1>2
<1>9. ToSet(t) = {s[i] : i \in a .. b}
  <2>1. ToSet(t) \subseteq {s[i] : i \in a .. b}
    BY <1>4, <1>6, <1>7
  <2>2. ASSUME NEW i \in a .. b PROVE s[i] \in ToSet(t)
    BY <1>4, <1>6, <1>8
  <2> QED
    BY <2>1, <2>2
<1>10. IsInjective(t)
  <2>1. ASSUME NEW i \in 1 .. Len(t), NEW j \in 1 .. Len(t), t[i] = t[j] PROVE i = j
    <3>1. s[a + i - 1] = s[a + j - 1]
      BY <1>4, <1>5, <2>1
    <3>2. a + i - 1 \in 1 .. n /\ a + j - 1 \in 1 .. n
      BY <1>2, <1>5, <1>7
    <3>3. a + i - 1 = a + j - 1
      BY <3>1, <3>2, SeqFacts, SMTT(30) DEF n
    <3> QED
      BY <1>2, <3>3
  <2> QED
    BY <1>4, <2>1, SeqFacts
<1> QED
  BY <1>4, <1>5, <1>9, <1>10 DEF t

\* Its last element leaves it.
LEMMA InjFront ==
  ASSUME NEW S, NEW s \in Seq(S), IsInjective(s), s # <<>>
  PROVE  /\ Last(s) \in ToSet(s) /\ Last(s) \in S
         /\ Front(s) \in Seq(S) /\ IsInjective(Front(s))
         /\ ToSet(Front(s)) = ToSet(s) \ {Last(s)} /\ Len(Front(s)) = Len(s) - 1
<1> DEFINE n == Len(s)
<1>1. /\ n \in Nat /\ n # 0 /\ ToSet(s) = {s[i] : i \in 1 .. n} /\ ToSet(s) \subseteq S
      /\ \A i, j \in 1 .. n : s[i] = s[j] => i = j
  BY SeqFacts
<1> HIDE DEF n
<1>2. 1 \in 1 .. n + 1 /\ n - 1 \in 0 .. n /\ 1 <= (n - 1) + 1 /\ n - 1 - 1 + 1 = n - 1
  BY <1>1
<1>3. /\ Front(s) \in Seq(S) /\ IsInjective(Front(s))
      /\ ToSet(Front(s)) = {s[i] : i \in 1 .. n - 1} /\ Len(Front(s)) = n - 1
  BY <1>2, InjPart DEF Front, n
<1>4. n \in 1 .. n /\ n \notin 1 .. n - 1 /\ 1 .. n = (1 .. n - 1) \cup {n}
  BY <1>1
<1>5. {s[i] : i \in 1 .. n - 1} = {s[i] : i \in 1 .. n} \ {s[n]}
  BY <1>1, <1>4
<1>6. Last(s) = s[n]
  BY DEF Last, n
<1> QED
  BY <1>1, <1>3, <1>4, <1>5, <1>6 DEF n

\* An element leaves it from where it is.
LEMMA InjUnqueued ==
  ASSUME NEW S, NEW s \in Seq(S), IsInjective(s), NEW x \in ToSet(s)
  PROVE  /\ Unqueued(s, x) \in Seq(S) /\ IsInjective(Unqueued(s, x))
         /\ ToSet(Unqueued(s, x)) = ToSet(s) \ {x} /\ Len(Unqueued(s, x)) = Len(s) - 1
<1> DEFINE n == Len(s)
           k == CHOOSE i \in DOMAIN s : s[i] = x
           t == SubSeq(s, 1, k - 1)
           u == SubSeq(s, k + 1, n)
<1>1. /\ n \in Nat /\ ToSet(s) = {s[i] : i \in 1 .. n} /\ DOMAIN s = 1 .. n
      /\ \A i, j \in 1 .. n : s[i] = s[j] => i = j
  BY SeqFacts
<1>2. k \in 1 .. n /\ s[k] = x
  BY <1>1
<1>3. Unqueued(s, x) = t \o u
  BY DEF Unqueued, RemoveAt
<1> HIDE DEF k
<1>4. /\ 1 \in 1 .. n + 1 /\ k - 1 \in 0 .. n /\ 1 <= (k - 1) + 1
      /\ k + 1 \in 1 .. n + 1 /\ n \in 0 .. n /\ k + 1 <= n + 1
  BY <1>1, <1>2
<1>5. /\ t \in Seq(S) /\ IsInjective(t) /\ ToSet(t) = {s[i] : i \in 1 .. k - 1}
      /\ Len(t) = k - 1 - 1 + 1
  BY <1>4, InjPart
<1>6. /\ u \in Seq(S) /\ IsInjective(u) /\ ToSet(u) = {s[i] : i \in k + 1 .. n}
      /\ Len(u) = n - (k + 1) + 1
  BY <1>4, InjPart
<1> HIDE DEF t, u, n
<1>7. /\ 1 .. k - 1 \subseteq 1 .. n /\ k + 1 .. n \subseteq 1 .. n
      /\ (1 .. k - 1) \cap (k + 1 .. n) = {} /\ k \notin 1 .. k - 1 /\ k \notin k + 1 .. n
      /\ 1 .. n = (1 .. k - 1) \cup (k + 1 .. n) \cup {k}
  BY <1>1, <1>2
<1>8. ToSet(t) \cap ToSet(u) = {}
  BY <1>1, <1>5, <1>6, <1>7, SMTT(30)
<1>9. ToSet(t) \cup ToSet(u) = ToSet(s) \ {x}
  BY <1>1, <1>2, <1>5, <1>6, <1>7
<1>10. Len(t) + Len(u) = n - 1
  BY <1>1, <1>2, <1>5, <1>6
<1>11. /\ t \o u \in Seq(S) /\ IsInjective(t \o u)
       /\ ToSet(t \o u) = ToSet(t) \cup ToSet(u) /\ Len(t \o u) = Len(t) + Len(u)
  <2>1. t \in Seq(S) /\ IsInjective(t) /\ u \in Seq(S) /\ IsInjective(u)
    BY <1>5, <1>6
  <2> QED
    BY <2>1, <1>8, InjConcat
<1> QED
  BY <1>3, <1>9, <1>10, <1>11 DEF n

\* The ordering of the naturals is well-founded, as a relation.
LEMMA NatWellFounded ==
  \E R : IsWellFoundedOn(R, Nat) /\ \A x, y \in Nat : y < x => <<y, x>> \in R
<1> DEFINE R == OpToRel(<, Nat)
<1>1. IsWellFoundedOn(R, Nat)
  BY NatLessThanWellFounded
<1>2. \A x, y \in Nat : y < x => <<y, x>> \in R
  BY DEF OpToRel
<1> HIDE DEF R
<1> QED
  BY <1>1, <1>2

\* Among some numbers there is a least one.
LEMMA NatMin ==
  ASSUME NEW T \in SUBSET Nat, T # {}
  PROVE  \E x \in T : \A y \in T : x <= y
<1>1. PICK R : IsWellFoundedOn(R, Nat) /\ \A x, y \in Nat : y < x => <<y, x>> \in R
  BY NatWellFounded
<1>2. PICK x \in T : \A y \in T : ~ (<<y, x>> \in R)
  BY <1>1, WFMin
<1>3. \A y \in T : ~ (y < x)
  BY <1>1, <1>2
<1> QED
  BY <1>2, <1>3

\* Induction: a set of numbers that has 0 and every successor has them all.
LEMMA NatAll ==
  ASSUME NEW T, 0 \in T, \A n \in Nat : n \in T => n + 1 \in T
  PROVE  Nat \subseteq T
<1> SUFFICES ASSUME Nat \ T # {} PROVE FALSE
  OBVIOUS
<1>1. PICK x \in Nat \ T : \A y \in Nat \ T : x <= y
  BY NatMin
<1>2. x - 1 \in Nat /\ ~ (x <= x - 1) /\ (x - 1) + 1 = x
  BY <1>1
<1>3. x - 1 \in T
  BY <1>1, <1>2
<1> QED
  BY <1>1, <1>2, <1>3

-----------------------------------------------------------------------------
(* The pools.                                                              *)

\* What is assumed of the constants.
LEMMA ConstantsType ==
  /\ IMCACHE_LRU_COUNT \in Nat \ {0} /\ Num \in Nat \ {0} /\ IMROUNDSIZE \in Nat \ {0}
  /\ GrowLimit \in Nat \ {0} /\ Limit \in Nat /\ Limit > Num
BY KmemAssumption

\* A pool grows by at least one node.
LEMMA GrowthType ==
  ASSUME NEW pool, pool.max \in Nat, NEW limit \in Nat
  PROVE  Growth(pool, limit) \in Nat \ {0}
BY ConstantsType DEF Growth

\* A pool that has grown has a free node and the same ones in use; when it
\* was empty, the free ones are the nodes from the old size on.
LEMMA GrownIs ==
  ASSUME NEW pool, PoolOK(pool), NEW limit \in Nat
  PROVE  /\ PoolOK(Grown(pool, limit)) /\ Grown(pool, limit).open # <<>>
         /\ Used(Grown(pool, limit)) = Used(pool)
         /\ Grown(pool, limit).max >= pool.max
         /\ pool.open # <<>> => Grown(pool, limit) = pool
         /\ pool.open = <<>> => FreshFrom(Grown(pool, limit), 0, pool.max)
<1> DEFINE n == Growth(pool, limit)
           m == pool.max
           s == [i \in 1 .. n |-> m + i - 1]
<1>1. /\ pool.open \in Seq(Nat) /\ m \in Nat /\ pool = [open |-> pool.open, max |-> m]
      /\ ToSet(pool.open) \subseteq 0 .. m - 1
  BY DEF PoolOK, PoolType
<1>2. n \in Nat \ {0}
  BY <1>1, GrowthType
<1>3. pool.open # <<>> => Grown(pool, limit) = pool
  BY DEF Grown
<1>4. CASE pool.open # <<>>
  BY <1>1, <1>3, <1>4
<1>5. CASE pool.open = <<>>
  <2> DEFINE g == [open |-> s, max |-> m + n]
  <2>1. Grown(pool, limit) = g
    BY <1>5 DEF Grown
  <2> HIDE DEF n, m
  <2>2. s \in Seq(Nat) /\ Len(s) = n /\ \A i \in 1 .. n : s[i] = m + i - 1
    <3>1. s \in [1 .. n -> Nat]
      BY <1>1, <1>2
    <3> QED
      BY <1>2, <3>1, SeqDef
  <2> HIDE DEF s
  <2>3. IsInjective(s)
    <3>1. \A i, j \in 1 .. Len(s) : s[i] = s[j] => i = j
      BY <1>1, <1>2, <2>2
    <3> QED
      BY <2>2, <3>1, SeqFacts
  <2>4. ToSet(s) = m .. m + n - 1
    <3>1. ToSet(s) = {s[i] : i \in 1 .. n}
      BY <2>2, SeqFacts
    <3>2. \A i \in 1 .. n : m + i - 1 \in m .. m + n - 1
      BY <1>1, <1>2
    <3>3. \A j \in m .. m + n - 1 : j - m + 1 \in 1 .. n /\ m + (j - m + 1) - 1 = j
      BY <1>1, <1>2
    <3>4. ToSet(s) \subseteq m .. m + n - 1
      BY <2>2, <3>1, <3>2
    <3>5. ASSUME NEW j \in m .. m + n - 1 PROVE j \in ToSet(s)
      BY <2>2, <3>1, <3>3
    <3> QED
      BY <3>4, <3>5
  <2>5. PoolOK(g)
    <3>1. m .. m + n - 1 \subseteq 0 .. (m + n) - 1 /\ m + n \in Nat
      BY <1>1, <1>2
    <3> QED
      BY <2>2, <2>3, <2>4, <3>1 DEF PoolOK, PoolType
  <2>6. Used(g) = Used(pool)
    <3>1. (0 .. (m + n) - 1) \ (m .. m + n - 1) = 0 .. m - 1
      BY <1>1, <1>2
    <3>2. ToSet(pool.open) = {}
      BY <1>1, <1>5, SeqFacts
    <3> QED
      BY <2>4, <3>1, <3>2 DEF Used, m
  <2>7. FreshFrom(g, 0, m)
    <3>1. 0 <= n /\ m <= m + n /\ n - 0 = (m + n) - m
      BY <1>1, <1>2
    <3>2. \A i \in 0 + 1 .. n : i \in 1 .. n /\ m + i - 1 = m + (i - 0 - 1)
      BY <1>1, <1>2
    <3>3. \A i \in 1 .. 0 : FALSE
      OBVIOUS
    <3> QED
      BY <2>2, <3>1, <3>2, <3>3 DEF FreshFrom
  <2>8. s # <<>> /\ m + n >= m
    BY <1>1, <1>2, <2>2, SeqFacts
  <2> QED
    BY <1>5, <2>1, <2>5, <2>6, <2>7, <2>8 DEF m
<1> QED
  BY <1>4, <1>5

\* The first free node is taken,
LEMMA TakenIs ==
  ASSUME NEW pool, PoolOK(pool), pool.open # <<>>
  PROVE  /\ PoolOK(Taken(pool)) /\ Taken(pool).max = pool.max
         /\ Taken(pool).open = Tail(pool.open)
         /\ Used(Taken(pool)) = Used(pool) \cup {Head(pool.open)}
         /\ Head(pool.open) \notin Used(pool) /\ Head(pool.open) \in 0 .. pool.max - 1
<1>1. /\ pool.open \in Seq(Nat) /\ pool.max \in Nat /\ IsInjective(pool.open)
      /\ ToSet(pool.open) \subseteq 0 .. pool.max - 1
  BY DEF PoolOK, PoolType
<1>2. /\ Taken(pool).open = Tail(pool.open) /\ Taken(pool).max = pool.max
      /\ Tail(pool.open) \in Seq(Nat) => Taken(pool) \in PoolType
  BY DEF Taken, PoolOK, PoolType
<1>3. /\ Head(pool.open) \in ToSet(pool.open)
      /\ Tail(pool.open) \in Seq(Nat) /\ IsInjective(Tail(pool.open))
      /\ ToSet(Tail(pool.open)) = ToSet(pool.open) \ {Head(pool.open)}
  BY <1>1, InjTail
<1> QED
  BY <1>1, <1>2, <1>3 DEF PoolOK, Used

\* and one in use comes back to the front.
LEMMA GivenIs ==
  ASSUME NEW pool, PoolOK(pool), NEW index \in Used(pool)
  PROVE  /\ PoolOK(Given(pool, index)) /\ Given(pool, index).max = pool.max
         /\ Given(pool, index).open = <<index>> \o pool.open
         /\ Used(Given(pool, index)) = Used(pool) \ {index}
<1>1. /\ pool.open \in Seq(Nat) /\ pool.max \in Nat /\ IsInjective(pool.open)
      /\ ToSet(pool.open) \subseteq 0 .. pool.max - 1
  BY DEF PoolOK, PoolType
<1>2. /\ Given(pool, index).open = <<index>> \o pool.open
      /\ Given(pool, index).max = pool.max
      /\ <<index>> \o pool.open \in Seq(Nat) => Given(pool, index) \in PoolType
  BY DEF Given, PoolOK, PoolType
<1>3. index \in 0 .. pool.max - 1 /\ index \notin ToSet(pool.open) /\ index \in Nat
  BY <1>1 DEF Used
<1>4. /\ <<index>> \o pool.open \in Seq(Nat) /\ IsInjective(<<index>> \o pool.open)
      /\ ToSet(<<index>> \o pool.open) = ToSet(pool.open) \cup {index}
  BY <1>1, <1>3, InjCons
<1> QED
  BY <1>1, <1>2, <1>3, <1>4 DEF PoolOK, Used

\* The numbers of the nodes in use are finitely many.
LEMMA UsedFinite ==
  ASSUME NEW pool, PoolOK(pool)
  PROVE  /\ IsFiniteSet(Used(pool)) /\ Used(pool) \subseteq Nat
         /\ Cardinality(Used(pool)) <= pool.max
<1>1. pool.max \in Nat /\ Used(pool) \in SUBSET (0 .. pool.max - 1)
  BY DEF PoolOK, PoolType, Used
<1>2. IsFiniteSet(0 .. pool.max - 1) /\ Cardinality(0 .. pool.max - 1) = pool.max
  <2>1. 0 \in Int /\ pool.max - 1 \in Int
    BY <1>1
  <2>2. (IF 0 > pool.max - 1 THEN 0 ELSE (pool.max - 1) - 0 + 1) = pool.max
    BY <1>1
  <2> QED
    BY <2>1, <2>2, FS_Interval
<1> QED
  BY <1>1, <1>2, FS_Subset

\* Nodes in use are below the fresh ones; they are all of those when no other
\* node is free.
LEMMA FreshUsed ==
  ASSUME NEW pool, PoolOK(pool), NEW k \in Nat, NEW m \in Nat, FreshFrom(pool, k, m)
  PROVE  /\ \A index \in Used(pool) : index < m
         /\ k = 0 => Used(pool) = 0 .. m - 1
<1> DEFINE n == Len(pool.open)
<1>1. /\ pool.max \in Nat /\ n \in Nat /\ ToSet(pool.open) = {pool.open[i] : i \in 1 .. n}
      /\ ToSet(pool.open) \subseteq 0 .. pool.max - 1
  BY SeqFacts DEF PoolOK, PoolType
<1>2. /\ k <= n /\ m <= pool.max /\ n - k = pool.max - m
      /\ \A i \in k + 1 .. n : pool.open[i] = m + (i - k - 1)
  BY DEF FreshFrom
<1> HIDE DEF n
<1>3. ASSUME NEW index \in m .. pool.max - 1 PROVE index \in ToSet(pool.open)
  <2> DEFINE i == k + 1 + (index - m)
  <2>1. i \in k + 1 .. n /\ i \in 1 .. n /\ m + (i - k - 1) = index
    BY <1>1, <1>2
  <2> QED
    BY <1>1, <1>2, <2>1
<1>4. ASSUME NEW index \in Used(pool) PROVE index < m
  BY <1>1, <1>3 DEF Used
<1>5. ASSUME k = 0, NEW index \in 0 .. m - 1 PROVE index \in Used(pool)
  <2>1. index \in 0 .. pool.max - 1
    BY <1>1, <1>2
  <2>2. ASSUME NEW i \in 1 .. n PROVE pool.open[i] # index
    <3>1. i \in k + 1 .. n /\ m + (i - k - 1) >= m
      BY <1>1, <1>5
    <3> QED
      BY <1>2, <3>1
  <2> QED
    BY <1>1, <2>1, <2>2 DEF Used
<1>6. Used(pool) \subseteq 0 .. pool.max - 1
  BY DEF Used
<1>7. k = 0 => Used(pool) \subseteq 0 .. m - 1
  BY <1>1, <1>4, <1>6
<1> QED
  BY <1>4, <1>5, <1>7

\* A node is taken from the others while there is one, and then from the fresh.
LEMMA FreshTaken ==
  ASSUME NEW pool, PoolOK(pool), pool.open # <<>>,
         NEW k \in Nat, NEW m \in Nat, FreshFrom(pool, k, m)
  PROVE  /\ k = 0 => FreshFrom(Taken(pool), 0, m + 1)
         /\ k > 0 => FreshFrom(Taken(pool), k - 1, m)
<1> DEFINE n == Len(pool.open)
           t == Taken(pool)
<1>1. pool.max \in Nat /\ n \in Nat \ {0} /\ pool.open \in Seq(Nat)
  BY SeqFacts DEF PoolOK, PoolType
<1>2. /\ k <= n /\ m <= pool.max /\ n - k = pool.max - m
      /\ \A i \in 1 .. k : pool.open[i] < m
      /\ \A i \in k + 1 .. n : pool.open[i] = m + (i - k - 1)
  BY DEF FreshFrom
<1>3. /\ t.max = pool.max /\ Len(t.open) = n - 1
      /\ \A i \in 1 .. n - 1 : t.open[i] = pool.open[i + 1]
  <2>1. t.max = pool.max /\ t.open = Tail(pool.open)
    BY TakenIs
  <2>2. /\ Len(Tail(pool.open)) = n - 1
        /\ \A i \in 1 .. n - 1 : Tail(pool.open)[i] = pool.open[i + 1]
    BY <1>1, HeadTailProperties
  <2> QED
    BY <2>1, <2>2
<1> HIDE DEF n, t
<1>4. CASE k = 0
  <2>1. 0 <= n - 1 /\ m + 1 <= pool.max /\ (n - 1) - 0 = pool.max - (m + 1)
    BY <1>1, <1>2, <1>4, SMTT(30)
  <2>2. ASSUME NEW i \in 0 + 1 .. n - 1 PROVE t.open[i] = (m + 1) + (i - 0 - 1)
    <3>1. i \in 1 .. n - 1 /\ i + 1 \in k + 1 .. n /\ m + ((i + 1) - k - 1) = (m + 1) + (i - 0 - 1)
      BY <1>1, <1>4
    <3> QED
      BY <1>2, <1>3, <3>1
  <2>3. \A i \in 1 .. 0 : FALSE
    OBVIOUS
  <2> QED
    BY <1>3, <1>4, <2>1, <2>2, <2>3 DEF FreshFrom, t
<1>5. CASE k > 0
  <2>1. k - 1 <= n - 1 /\ (n - 1) - (k - 1) = pool.max - m
    BY <1>1, <1>2
  <2>2. ASSUME NEW i \in 1 .. k - 1 PROVE t.open[i] < m
    <3>1. i \in 1 .. n - 1 /\ i + 1 \in 1 .. k
      BY <1>1, <1>2
    <3> QED
      BY <1>2, <1>3, <3>1
  <2>3. ASSUME NEW i \in (k - 1) + 1 .. n - 1 PROVE t.open[i] = m + (i - (k - 1) - 1)
    <3>1. i \in 1 .. n - 1 /\ i + 1 \in k + 1 .. n /\ m + ((i + 1) - k - 1) = m + (i - (k - 1) - 1)
      BY <1>1, <1>5
    <3> QED
      BY <1>2, <1>3, <3>1
  <2> QED
    BY <1>2, <1>3, <1>5, <2>1, <2>2, <2>3 DEF FreshFrom, t
<1> QED
  BY <1>4, <1>5

\* One that comes back is not fresh.
LEMMA FreshGiven ==
  ASSUME NEW pool, PoolOK(pool), NEW index \in Used(pool),
         NEW k \in Nat, NEW m \in Nat, FreshFrom(pool, k, m)
  PROVE  FreshFrom(Given(pool, index), k + 1, m)
<1> DEFINE n == Len(pool.open)
           g == Given(pool, index)
<1>1. pool.max \in Nat /\ n \in Nat /\ pool.open \in Seq(Nat) /\ index \in Nat
  BY SeqFacts, UsedFinite DEF PoolOK, PoolType
<1>2. /\ k <= n /\ m <= pool.max /\ n - k = pool.max - m
      /\ \A i \in 1 .. k : pool.open[i] < m
      /\ \A i \in k + 1 .. n : pool.open[i] = m + (i - k - 1)
  BY DEF FreshFrom
<1>3. /\ g.max = pool.max /\ Len(g.open) = 1 + n
      /\ \A i \in 1 .. 1 + n : g.open[i] = IF i <= 1 THEN <<index>>[i] ELSE pool.open[i - 1]
  <2>1. <<index>> \in Seq(Nat) /\ Len(<<index>>) = 1
    BY <1>1
  <2>2. g.max = pool.max /\ g.open = <<index>> \o pool.open
    BY GivenIs
  <2> QED
    BY <1>1, <2>1, <2>2, ConcatProperties
<1>4. index < m
  BY FreshUsed
<1> HIDE DEF n, g
<1>5. k + 1 <= 1 + n /\ (1 + n) - (k + 1) = pool.max - m
  BY <1>1, <1>2
<1>6. ASSUME NEW i \in 1 .. k + 1 PROVE g.open[i] < m
  <2>1. CASE i = 1
    BY <1>1, <1>3, <1>4, <2>1
  <2>2. CASE i # 1
    <3>1. i \in 1 .. 1 + n /\ ~ (i <= 1) /\ i - 1 \in 1 .. k
      BY <1>1, <1>2, <2>2
    <3> QED
      BY <1>2, <1>3, <3>1
  <2> QED
    BY <2>1, <2>2
<1>7. ASSUME NEW i \in (k + 1) + 1 .. 1 + n PROVE g.open[i] = m + (i - (k + 1) - 1)
  <2>1. /\ i \in 1 .. 1 + n /\ ~ (i <= 1) /\ i - 1 \in k + 1 .. n
        /\ m + ((i - 1) - k - 1) = m + (i - (k + 1) - 1)
    BY <1>1, <1>2
  <2> QED
    BY <1>2, <1>3, <2>1
<1> QED
  BY <1>2, <1>3, <1>5, <1>6, <1>7 DEF FreshFrom, g

-----------------------------------------------------------------------------
(* The slabs of a world.                                                   *)

\* The slabs are a function on some pages,
LEMMA SlabsFacts ==
  ASSUME NEW s \in SlabsType
  PROVE  DOMAIN s \subseteq Nat /\ s \in [DOMAIN s -> SlabType]
BY DEF SlabsType

\* and such a function is one of slabs.
LEMMA SlabsMade ==
  ASSUME NEW D \in SUBSET Nat, NEW s \in [D -> SlabType]
  PROVE  s \in SlabsType
BY DEF SlabsType

\* The parts of a world,
LEMMA WorldFields ==
  ASSUME NEW w \in WorldType
  PROVE  /\ w.slab \in SlabsType /\ w.partial \in Seq(Nat) /\ w.full \in SUBSET Nat
         /\ w.empty \in Seq(Nat) /\ w.count \in CountType
         /\ w.pages \in PoolType /\ w.descs \in PoolType
BY DEF WorldType

\* and of a slab.
LEMMA SlabFields ==
  ASSUME NEW w \in WorldType, NEW p \in DOMAIN w.slab
  PROVE  /\ p \in Nat /\ w.slab[p] \in SlabType
         /\ w.slab[p].desc \in Nat /\ w.slab[p].bufctl \in Seq(Slot) /\ w.slab[p].inuse \in Int
<1>1. p \in Nat /\ w.slab[p] \in SlabType
  BY WorldFields, SlabsFacts
<1> QED
  BY <1>1 DEF SlabType

\* A slab has Num objects,
LEMMA SlotCount == IsFiniteSet(Slot) /\ Cardinality(Slot) = Num
<1>1. 1 \in Int /\ Num \in Int /\ (IF 1 > Num THEN 0 ELSE Num - 1 + 1) = Num
  BY ConstantsType
<1> QED
  BY <1>1, FS_Interval DEF Slot

\* What a slab holds is between nothing and Num objects.
LEMMA SlabCounts ==
  ASSUME NEW w \in WorldType, SlabsOK(w), NEW p \in DOMAIN w.slab
  PROVE  /\ Len(w.slab[p].bufctl) \in 0 .. Num /\ w.slab[p].inuse \in 0 .. Num
         /\ w.slab[p].inuse = Num - Len(w.slab[p].bufctl)
         /\ IsInjective(w.slab[p].bufctl)
         /\ ToSet(w.slab[p].bufctl) \subseteq Slot
         /\ ToSet(w.slab[p].bufctl) = Slot <=> w.slab[p].inuse = 0
         /\ w.slab[p].bufctl = <<>> <=> w.slab[p].inuse = Num
<1> DEFINE s == w.slab[p].bufctl
<1>1. s \in Seq(Slot) /\ IsInjective(s) /\ w.slab[p].inuse = Num - Len(s)
  BY SlabFields DEF SlabsOK
<1> HIDE DEF s
<1>2. Len(s) \in Nat /\ ToSet(s) \subseteq Slot /\ (s = <<>> <=> Len(s) = 0)
  BY <1>1, SeqFacts
<1>3. Cardinality(ToSet(s)) = Len(s)
  BY <1>1, InjCard
<1>4. Len(s) <= Num /\ (Len(s) = Num => ToSet(s) = Slot)
  <2>1. ToSet(s) \in SUBSET Slot
    BY <1>2
  <2> QED
    BY <1>3, <2>1, SlotCount, FS_Subset
<1>5. ToSet(s) = Slot => Len(s) = Num
  BY <1>3, SlotCount
<1>6. /\ Len(s) \in 0 .. Num /\ Num - Len(s) \in 0 .. Num
      /\ (Len(s) = Num <=> Num - Len(s) = 0) /\ (Len(s) = 0 <=> Num - Len(s) = Num)
  BY <1>2, <1>4, ConstantsType
<1> QED
  BY <1>1, <1>2, <1>4, <1>5, <1>6 DEF s

\* wherever its page is.
LEMMA ColumnCount ==
  ASSUME NEW p
  PROVE  IsFiniteSet({p} \X Slot) /\ Cardinality({p} \X Slot) = Num
<1>1. IsFiniteSet({p}) /\ Cardinality({p}) = 1
  BY FS_Singleton
<1>2. IsFiniteSet({p} \X Slot) /\ Cardinality({p} \X Slot) = 1 * Num
  BY <1>1, SlotCount, FS_Product
<1> QED
  BY <1>2, ConstantsType

\* Counts of sets that share nothing add up.
LEMMA ApartCount ==
  ASSUME NEW S, NEW T, IsFiniteSet(S), IsFiniteSet(T), S \cap T = {}
  PROVE  Cardinality(S \cup T) = Cardinality(S) + Cardinality(T)
<1>1. Cardinality(S \cup T) = Cardinality(S) + Cardinality(T) - Cardinality(S \cap T)
  BY FS_Union
<1>2. Cardinality(S) \in Nat /\ Cardinality(T) \in Nat
  BY FS_CardinalityType
<1> QED
  BY <1>1, <1>2, FS_EmptySet

\* There are finitely many slabs and free objects.
LEMMA WorldFinite ==
  ASSUME NEW w, NEW o, WorldOK(w, o)
  PROVE  /\ IsFiniteSet(DOMAIN w.slab)
         /\ IsFiniteSet(FreeObjects(w)) /\ Cardinality(FreeObjects(w)) \in Nat
<1>1. DOMAIN w.slab \in SUBSET Used(w.pages) /\ PoolOK(w.pages)
  BY DEF WorldOK, PagesOK
<1>2. IsFiniteSet(DOMAIN w.slab)
  BY <1>1, UsedFinite, FS_Subset
<1>3. IsFiniteSet((DOMAIN w.slab) \X Slot)
  BY <1>2, SlotCount, FS_Product
<1>4. FreeObjects(w) \in SUBSET ((DOMAIN w.slab) \X Slot)
  BY DEF FreeObjects
<1>5. IsFiniteSet(FreeObjects(w))
  BY <1>3, <1>4, FS_Subset
<1> QED
  BY <1>2, <1>5, FS_CardinalityType

\* An object is free when its slab's list has it.
LEMMA FreeObjectsIs ==
  ASSUME NEW w
  PROVE  \A p, k : <<p, k>> \in FreeObjects(w) <=>
           p \in DOMAIN w.slab /\ k \in Slot /\ k \in ToSet(w.slab[p].bufctl)
BY DEF FreeObjects

-----------------------------------------------------------------------------
(* A slab is made.                                                         *)

\* The descriptors stay below the size of the pool of pages: a fresh one is
\* taken only when all the others are in use, and then each is a slab's, whose
\* page is in use as well.
LEMMA FreshStays ==
  ASSUME NEW w, NEW o, WorldOK(w, o)
  PROVE  LET pool == Grown(w.pages, GrowLimit)
             set  == Grown(w.descs, 0)
         IN  \E k, m \in Nat : FreshFrom(Taken(set), k, m) /\ m <= pool.max
<1> DEFINE pool == Grown(w.pages, GrowLimit)
           set  == Grown(w.descs, 0)
<1>1. /\ PoolOK(w.pages) /\ Used(w.pages) = DOMAIN w.slab \cup o /\ DOMAIN w.slab \cap o = {}
      /\ PoolOK(w.descs) /\ Used(w.descs) = {w.slab[p].desc : p \in DOMAIN w.slab}
      /\ \A p, q \in DOMAIN w.slab : w.slab[p].desc = w.slab[q].desc => p = q
  BY DEF WorldOK, PagesOK, DescsOK
<1>2. PICK k \in Nat, m \in Nat : FreshFrom(w.descs, k, m) /\ m <= w.pages.max
  BY DEF WorldOK, DescsOK
<1>3. /\ PoolOK(set) /\ set.open # <<>> /\ Used(set) = Used(w.descs)
      /\ w.descs.open # <<>> => set = w.descs
      /\ w.descs.open = <<>> => FreshFrom(set, 0, w.descs.max)
  BY <1>1, GrownIs
<1>4. /\ PoolOK(pool) /\ pool.open # <<>> /\ Used(pool) = Used(w.pages)
      /\ pool.max >= w.pages.max
  BY <1>1, ConstantsType, GrownIs
<1>5. w.pages.max \in Nat /\ pool.max \in Nat /\ w.descs.max \in Nat
  BY <1>1, <1>4 DEF PoolOK, PoolType
<1> HIDE DEF pool, set
<1>6. PICK i \in Nat : FreshFrom(set, i, m)
  <2>1. CASE w.descs.open # <<>>
    BY <1>2, <1>3, <2>1
  <2>2. CASE w.descs.open = <<>>
    <3>1. Len(w.descs.open) = 0
      BY <2>2
    <3>2. k <= 0 /\ m <= w.descs.max /\ 0 - k = w.descs.max - m
      BY <1>2, <3>1 DEF FreshFrom
    <3>3. m = w.descs.max
      BY <1>5, <3>2
    <3> QED
      BY <1>3, <2>2, <3>3
  <2> QED
    BY <2>1, <2>2
<1>7. CASE i > 0
  <2>1. FreshFrom(Taken(set), i - 1, m) /\ i - 1 \in Nat
    BY <1>3, <1>6, <1>7, FreshTaken
  <2>2. m <= pool.max
    BY <1>2, <1>4, <1>5
  <2> QED
    BY <2>1, <2>2 DEF pool, set
<1>8. CASE i = 0
  <2>1. FreshFrom(Taken(set), 0, m + 1) /\ m + 1 \in Nat
    BY <1>3, <1>6, <1>8, FreshTaken
  <2>2. Used(w.descs) = 0 .. m - 1
    BY <1>3, <1>6, <1>8, FreshUsed
  <2>3. Cardinality(0 .. m - 1) = m /\ IsFiniteSet(0 .. m - 1)
    <3>1. 0 \in Int /\ m - 1 \in Int /\ (IF 0 > m - 1 THEN 0 ELSE (m - 1) - 0 + 1) = m
      OBVIOUS
    <3> QED
      BY <3>1, FS_Interval
  <2>4. IsFiniteSet(DOMAIN w.slab) /\ Cardinality(DOMAIN w.slab) = m
    <3> DEFINE f == [p \in DOMAIN w.slab |-> w.slab[p].desc]
    <3>1. f \in [DOMAIN w.slab -> 0 .. m - 1]
      BY <1>1, <2>2
    <3>2. \A p, q \in DOMAIN w.slab : f[p] = f[q] => p = q
      BY <1>1
    <3>3. \A j \in 0 .. m - 1 : \E p \in DOMAIN w.slab : f[p] = j
      BY <1>1, <2>2, ZenonT(40)
    <3> HIDE DEF f
    <3>4. f \in Injection(DOMAIN w.slab, 0 .. m - 1)
      BY <3>1, <3>2, Fun_IsInj
    <3>5. f \in Surjection(DOMAIN w.slab, 0 .. m - 1)
      BY <3>1, <3>3, Fun_IsSurj
    <3> QED
      BY <2>3, <3>4, <3>5, FS_Injection
  <2>5. Cardinality(Used(Taken(pool))) <= pool.max
    <3>1. PoolOK(Taken(pool)) /\ Taken(pool).max = pool.max
      BY <1>4, TakenIs
    <3> QED
      BY <3>1, UsedFinite
  <2>6. m + 1 <= Cardinality(Used(Taken(pool)))
    <3> DEFINE page == Head(pool.open)
    <3>1. /\ Used(Taken(pool)) = Used(pool) \cup {page} /\ page \notin Used(pool)
          /\ PoolOK(Taken(pool))
      BY <1>4, TakenIs
    <3> HIDE DEF page
    <3>2. page \notin DOMAIN w.slab
      BY <1>1, <1>4, <3>1
    <3>3. /\ IsFiniteSet(DOMAIN w.slab \cup {page})
          /\ Cardinality(DOMAIN w.slab \cup {page}) = m + 1
      BY <2>4, <3>2, FS_AddElement
    <3>4. DOMAIN w.slab \cup {page} \in SUBSET Used(Taken(pool))
      BY <1>1, <1>4, <3>1
    <3>5. IsFiniteSet(Used(Taken(pool)))
      BY <3>1, UsedFinite
    <3> QED
      BY <3>3, <3>4, <3>5, FS_Subset
  <2>7. m + 1 <= pool.max
    <3>1. IsFiniteSet(Used(Taken(pool)))
      BY <1>4, TakenIs, UsedFinite
    <3>2. Cardinality(Used(Taken(pool))) \in Nat
      BY <3>1, FS_CardinalityType
    <3> QED
      BY <1>5, <2>5, <2>6, <3>2
  <2> QED
    BY <2>1, <2>7 DEF pool, set
<1>9. i > 0 \/ i = 0
  BY <1>6
<1> QED
  BY <1>7, <1>8, <1>9

\* The new slab is free, and in no list but the one it is put at the head of.
LEMMA SlabCreateIs ==
  ASSUME NEW w, NEW o, WorldOK(w, o)
  PROVE  LET v    == SlabCreate(w)
             page == Head(Grown(w.pages, GrowLimit).open)
         IN  /\ WorldOK(v, o) /\ Out(v) = Out(w)
             /\ page \in Nat /\ page \notin DOMAIN w.slab
             /\ DOMAIN v.slab = DOMAIN w.slab \cup {page} /\ v.slab[page].inuse = 0
             /\ \A p \in DOMAIN w.slab : v.slab[p] = w.slab[p]
             /\ v.partial = <<page>> \o w.partial /\ v.full = w.full /\ v.empty = w.empty
             /\ v.count.partial = w.count.partial + 1 /\ v.count.full = w.count.full
             /\ v.count.free = w.count.free
<1> DEFINE v    == SlabCreate(w)
           pool == Grown(w.pages, GrowLimit)
           set  == Grown(w.descs, 0)
           page == Head(pool.open)
           ids  == [k \in Slot |-> k]
           new  == [desc |-> Head(set.open), bufctl |-> ids, inuse |-> 0]
           all  == [p \in DOMAIN w.slab \cup {page} |-> IF p = page THEN new ELSE w.slab[p]]
<1>1. /\ w \in WorldType /\ SlabsOK(w) /\ FreeCounted(w)
      /\ PoolOK(w.pages) /\ Used(w.pages) = DOMAIN w.slab \cup o /\ DOMAIN w.slab \cap o = {}
      /\ PoolOK(w.descs) /\ Used(w.descs) = {w.slab[p].desc : p \in DOMAIN w.slab}
      /\ \A p, q \in DOMAIN w.slab : w.slab[p].desc = w.slab[q].desc => p = q
  BY DEF WorldOK, PagesOK, DescsOK
<1>2. /\ PoolOK(pool) /\ pool.open # <<>> /\ Used(pool) = Used(w.pages)
      /\ PoolOK(set) /\ set.open # <<>> /\ Used(set) = Used(w.descs)
  BY <1>1, ConstantsType, GrownIs
<1>3. /\ PoolOK(Taken(pool)) /\ Used(Taken(pool)) = Used(pool) \cup {page}
      /\ page \notin Used(pool) /\ page \in 0 .. pool.max - 1 /\ Taken(pool).max = pool.max
  BY <1>2, TakenIs
<1>4. /\ PoolOK(Taken(set)) /\ Used(Taken(set)) = Used(set) \cup {Head(set.open)}
      /\ Head(set.open) \notin Used(set) /\ Head(set.open) \in 0 .. set.max - 1
  BY <1>2, TakenIs
<1>5. page \in Nat /\ Head(set.open) \in Nat
  BY <1>3, <1>4
<1>6. page \notin DOMAIN w.slab /\ page \notin o
  BY <1>1, <1>2, <1>3
<1>7. /\ v.slab = all /\ v.pages = Taken(pool) /\ v.descs = Taken(set)
      /\ v.partial = <<page>> \o w.partial /\ v.full = w.full /\ v.empty = w.empty
      /\ v.count.partial = w.count.partial + 1 /\ v.count.full = w.count.full
      /\ v.count.free = w.count.free /\ v.count.free_objects = w.count.free_objects + Num
      /\ v.count \in CountType
      /\ v.slab \in SlabsType /\ v.partial \in Seq(Nat) /\ v.pages \in PoolType /\ v.descs \in PoolType
           => v \in WorldType
  <2> DEFINE c == [w.count EXCEPT !.free_objects = @ + Num, !.partial = @ + 1]
  <2>1. v = [w EXCEPT !.pages = Taken(pool), !.descs = Taken(set), !.slab = all,
                      !.partial = <<page>> \o @,
                      !.count.free_objects = @ + Num, !.count.partial = @ + 1]
    BY DEF SlabCreate
  <2> HIDE DEF v, all, page, pool, set
  <2>2. w.count \in CountType
    BY <1>1, WorldFields
  <2>3. /\ c \in CountType /\ c.partial = w.count.partial + 1 /\ c.full = w.count.full
        /\ c.free = w.count.free /\ c.free_objects = w.count.free_objects + Num
    <3>1. w.count.free_objects + Num \in Int /\ w.count.partial + 1 \in Int
      BY <2>2, ConstantsType DEF CountType
    <3> QED
      BY <2>2, <3>1 DEF CountType
  <2>4. v = [w EXCEPT !.pages = Taken(pool), !.descs = Taken(set), !.slab = all,
                      !.partial = <<page>> \o @, !.count = c]
    BY <1>1, <2>1, <2>2 DEF WorldType, CountType
  <2> HIDE DEF c
  <2> QED
    BY <1>1, <2>3, <2>4 DEF WorldType
<1>8. DOMAIN w.slab \subseteq Nat /\ \A p \in DOMAIN w.slab : w.slab[p] \in SlabType
  BY <1>1, SlabFields, WorldFields, SlabsFacts
<1>9. ids \in Seq(Slot) /\ Len(ids) = Num /\ IsInjective(ids) /\ ToSet(ids) = Slot
  <2>1. ids \in Seq(Slot) /\ Len(ids) = Num
    <3>1. ids \in [1 .. Num -> Slot]
      BY DEF Slot
    <3> QED
      BY <3>1, ConstantsType, SeqDef DEF Slot
  <2>2. DOMAIN ids = Slot /\ \A k \in Slot : ids[k] = k
    OBVIOUS
  <2> QED
    BY <2>1, <2>2 DEF IsInjective, ToSet
<1> HIDE DEF v, pool, set, page, ids
<1>10. new \in SlabType
  BY <1>5, <1>9 DEF SlabType
<1> HIDE DEF new
<1>11. all \in [DOMAIN w.slab \cup {page} -> SlabType]
  BY <1>8, <1>10
<1>12. DOMAIN w.slab \cup {page} \in SUBSET Nat
  BY <1>5, <1>8
<1>13. v.slab \in SlabsType
  BY <1>7, <1>11, <1>12, SlabsMade
<1>14. /\ DOMAIN v.slab = DOMAIN w.slab \cup {page} /\ v.slab[page] = new
       /\ \A p \in DOMAIN w.slab : v.slab[p] = w.slab[p]
  BY <1>6, <1>7
<1> HIDE DEF all
<1>15. new.desc = Head(set.open) /\ new.bufctl = ids /\ new.inuse = 0
  BY DEF new
<1>16. v \in WorldType
  <2>1. v.partial \in Seq(Nat)
    <3>1. w.partial \in Seq(Nat) /\ <<page>> \in Seq(Nat)
      BY <1>1, <1>5, WorldFields
    <3> QED
      BY <1>7, <3>1, ConcatProperties
  <2>2. v.full \in SUBSET Nat /\ v.empty \in Seq(Nat)
    BY <1>1, <1>7, WorldFields
  <2>3. v.pages \in PoolType /\ v.descs \in PoolType
    BY <1>3, <1>4, <1>7 DEF PoolOK
  <2> QED
    BY <1>7, <1>13, <2>1, <2>2, <2>3 DEF WorldType
<1>17. SlabsOK(v)
  <2>1. Num - Num = 0
    BY ConstantsType
  <2> QED
    BY <1>1, <1>9, <1>14, <1>15, <2>1 DEF SlabsOK
<1>18. FreeObjects(v) = FreeObjects(w) \cup ({page} \X Slot)
  <2>1. \A p, k : <<p, k>> \in FreeObjects(v) <=>
          <<p, k>> \in FreeObjects(w) \cup ({page} \X Slot)
    BY <1>6, <1>9, <1>14, <1>15, FreeObjectsIs
  <2>2. FreeObjects(v) \subseteq (DOMAIN v.slab) \X Slot
    BY DEF FreeObjects
  <2>3. FreeObjects(w) \subseteq (DOMAIN w.slab) \X Slot
    BY DEF FreeObjects
  <2> QED
    BY <2>1, <2>2, <2>3
<1>19. FreeObjects(w) \cap ({page} \X Slot) = {}
  BY <1>6 DEF FreeObjects
<1>20. FreeCounted(v)
  <2>1. Cardinality(FreeObjects(v)) = Cardinality(FreeObjects(w)) + Num
    BY <1>18, <1>19, WorldFinite, ColumnCount, ApartCount, ZenonT(40)
  <2>2. Cardinality(FreeObjects(w)) \in Nat
    BY WorldFinite
  <2> QED
    BY <1>1, <1>7, <2>1, <2>2, ConstantsType DEF FreeCounted
<1>21. Out(v) = Out(w)
  <2>1. (DOMAIN v.slab) \X Slot = ((DOMAIN w.slab) \X Slot) \cup ({page} \X Slot)
    BY <1>14
  <2>2. ((DOMAIN w.slab) \X Slot) \cap ({page} \X Slot) = {}
    BY <1>6
  <2> QED
    BY <1>18, <2>1, <2>2 DEF Out
<1>22. PagesOK(v, o)
  BY <1>1, <1>2, <1>3, <1>6, <1>7, <1>14 DEF PagesOK
<1>23. DescsOK(v)
  <2>1. Used(v.descs) = {v.slab[p].desc : p \in DOMAIN v.slab}
    BY <1>1, <1>2, <1>4, <1>7, <1>14, <1>15
  <2>2. \A p, q \in DOMAIN v.slab : v.slab[p].desc = v.slab[q].desc => p = q
    <3>1. \A p \in DOMAIN w.slab : w.slab[p].desc # new.desc
      BY <1>1, <1>2, <1>4, <1>15
    <3> QED
      BY <1>1, <1>14, <3>1
  <2>3. \E k, m \in Nat : FreshFrom(v.descs, k, m) /\ m <= v.pages.max
    BY <1>3, <1>7, FreshStays DEF pool, set
  <2> QED
    BY <1>4, <1>7, <2>1, <2>2, <2>3 DEF DescsOK
<1> QED
  BY <1>5, <1>6, <1>7, <1>14, <1>15, <1>16, <1>17, <1>20, <1>21, <1>22, <1>23
     DEF WorldOK, v, page, pool

-----------------------------------------------------------------------------
(* Free slabs go.                                                          *)

\* One that goes leaves the world sound, and nothing of it was outside.
LEMMA DropLastIs ==
  ASSUME NEW w, NEW o, Sound(w, o), w.empty # <<>>
  PROVE  LET v == DropLast(w)
         IN  /\ Sound(v, o) /\ Out(v) = Out(w)
             /\ Len(v.empty) = Len(w.empty) - 1
<1> DEFINE v    == DropLast(w)
           page == Last(w.empty)
           desc == w.slab[page].desc
           left == [p \in DOMAIN w.slab \ {page} |-> w.slab[p]]
           c    == [w.count EXCEPT !.free = @ - 1, !.free_objects = @ - Num]
<1>1. /\ w \in WorldType /\ SlabsOK(w) /\ FreeCounted(w) /\ WorldOK(w, o)
      /\ PoolOK(w.pages) /\ Used(w.pages) = DOMAIN w.slab \cup o /\ DOMAIN w.slab \cap o = {}
      /\ PoolOK(w.descs) /\ Used(w.descs) = {w.slab[p].desc : p \in DOMAIN w.slab}
      /\ \A p, q \in DOMAIN w.slab : w.slab[p].desc = w.slab[q].desc => p = q
  BY DEF Sound, WorldOK, PagesOK, DescsOK
<1>2. /\ IsInjective(w.partial) /\ ToSet(w.partial) = SomeUsed(w)
      /\ w.count.partial = Len(w.partial)
      /\ w.full = AllUsed(w) /\ w.count.full = Cardinality(AllUsed(w))
      /\ IsInjective(w.empty) /\ ToSet(w.empty) = NoneUsed(w) /\ w.count.free = Len(w.empty)
  BY DEF Sound, Queued
<1>3. /\ w.empty \in Seq(Nat) /\ w.count \in CountType /\ w.slab \in SlabsType
  BY <1>1, WorldFields
<1>4. /\ page \in NoneUsed(w) /\ Front(w.empty) \in Seq(Nat) /\ IsInjective(Front(w.empty))
      /\ ToSet(Front(w.empty)) = NoneUsed(w) \ {page} /\ Len(Front(w.empty)) = Len(w.empty) - 1
  <2> HIDE DEF v, desc, left, c
  <2>1. w.empty \in Seq(Nat) /\ IsInjective(w.empty)
    BY <1>2, <1>3
  <2>2. /\ page \in ToSet(w.empty) /\ Front(w.empty) \in Seq(Nat) /\ IsInjective(Front(w.empty))
        /\ ToSet(Front(w.empty)) = ToSet(w.empty) \ {page} /\ Len(Front(w.empty)) = Len(w.empty) - 1
    BY <2>1, InjFront
  <2> QED
    BY <1>2, <2>2
<1>5. page \in DOMAIN w.slab /\ w.slab[page].inuse = 0
  BY <1>4 DEF NoneUsed
<1>6. ToSet(w.slab[page].bufctl) = Slot
  BY <1>1, <1>5, SlabCounts
<1>7. /\ c \in CountType /\ c.partial = w.count.partial /\ c.full = w.count.full
      /\ c.free = w.count.free - 1 /\ c.free_objects = w.count.free_objects - Num
  <2>1. w.count.free - 1 \in Int /\ w.count.free_objects - Num \in Int
    BY <1>3, ConstantsType, SMTT(30) DEF CountType
  <2> QED
    BY <1>3, <2>1 DEF CountType
<1>8. v = [w EXCEPT !.pages = Given(@, page), !.descs = Given(@, desc), !.slab = left,
                    !.empty = Front(@), !.count = c]
  <2> DEFINE d == SlabDelete(w, page)
  <2>1. d = [w EXCEPT !.pages = Given(@, page), !.descs = Given(@, desc), !.slab = left]
    BY DEF SlabDelete
  <2>2. v = [d EXCEPT !.empty = Front(@), !.count.free = @ - 1, !.count.free_objects = @ - Num]
    BY DEF DropLast
  <2> HIDE DEF d, v, page, desc, left
  <2>3. d.count = w.count /\ d.empty = w.empty /\ "count" \in DOMAIN d
    BY <1>1, <2>1 DEF WorldType
  <2>4. v = [d EXCEPT !.empty = Front(w.empty), !.count = c]
    BY <1>3, <2>2, <2>3 DEF CountType
  <2> QED
    BY <1>1, <2>1, <2>4 DEF WorldType
<1> HIDE DEF v, page, desc, left, c
<1>9. /\ v.slab = left /\ v.pages = Given(w.pages, page) /\ v.descs = Given(w.descs, desc)
      /\ v.partial = w.partial /\ v.full = w.full /\ v.empty = Front(w.empty) /\ v.count = c
      /\ v.slab \in SlabsType /\ v.pages \in PoolType /\ v.descs \in PoolType => v \in WorldType
  BY <1>1, <1>4, <1>7, <1>8 DEF WorldType
<1>10. /\ PoolOK(Given(w.pages, page)) /\ Used(Given(w.pages, page)) = Used(w.pages) \ {page}
       /\ Given(w.pages, page).max = w.pages.max
  <2>1. page \in Used(w.pages)
    BY <1>1, <1>5
  <2> QED
    BY <1>1, <2>1, GivenIs
<1>11. desc \in Used(w.descs)
  BY <1>1, <1>5 DEF desc
<1>12. PoolOK(Given(w.descs, desc)) /\ Used(Given(w.descs, desc)) = Used(w.descs) \ {desc}
  BY <1>1, <1>11, GivenIs
<1>13. /\ DOMAIN v.slab = DOMAIN w.slab \ {page}
       /\ \A p \in DOMAIN v.slab : v.slab[p] = w.slab[p]
  BY <1>9 DEF left
<1>14. v.slab \in SlabsType
  <2>1. w.slab \in [DOMAIN w.slab -> SlabType] /\ DOMAIN w.slab \subseteq Nat
    BY <1>3, SlabsFacts
  <2>2. left \in [DOMAIN w.slab \ {page} -> SlabType]
    BY <2>1 DEF left
  <2>3. DOMAIN w.slab \ {page} \in SUBSET Nat
    BY <2>1
  <2> QED
    BY <1>9, <2>2, <2>3, SlabsMade
<1>15. v \in WorldType
  BY <1>9, <1>10, <1>12, <1>14 DEF PoolOK
<1>16. SlabsOK(v)
  BY <1>1, <1>13 DEF SlabsOK
<1>17. FreeObjects(w) = FreeObjects(v) \cup ({page} \X Slot)
  <2>1. \A p, k : <<p, k>> \in FreeObjects(w) <=>
          <<p, k>> \in FreeObjects(v) \cup ({page} \X Slot)
    <3> SUFFICES ASSUME NEW p, NEW k
                 PROVE  <<p, k>> \in FreeObjects(w) <=>
                          <<p, k>> \in FreeObjects(v) \/ (p = page /\ k \in Slot)
      OBVIOUS
    <3>1. CASE p = page
      BY <1>5, <1>6, <1>13, <3>1, FreeObjectsIs
    <3>2. CASE p # page
      BY <1>13, <3>2, FreeObjectsIs
    <3> QED
      BY <3>1, <3>2
  <2>2. FreeObjects(v) \subseteq (DOMAIN v.slab) \X Slot
    BY DEF FreeObjects
  <2>3. FreeObjects(w) \subseteq (DOMAIN w.slab) \X Slot
    BY DEF FreeObjects
  <2> QED
    BY <2>1, <2>2, <2>3
<1>18. FreeObjects(v) \cap ({page} \X Slot) = {}
  BY <1>13 DEF FreeObjects
<1>19. FreeCounted(v)
  <2>1. IsFiniteSet(FreeObjects(v))
    <3>1. FreeObjects(v) \in SUBSET FreeObjects(w)
      BY <1>17
    <3> QED
      BY <1>1, <3>1, WorldFinite, FS_Subset
  <2>2. Cardinality(FreeObjects(w)) = Cardinality(FreeObjects(v)) + Num
    BY <1>17, <1>18, <2>1, ColumnCount, ApartCount, ZenonT(40)
  <2>3. Cardinality(FreeObjects(v)) \in Nat
    BY <2>1, FS_CardinalityType
  <2> QED
    BY <1>1, <1>7, <1>9, <2>2, <2>3, ConstantsType DEF FreeCounted
<1>20. Out(v) = Out(w)
  <2>1. (DOMAIN w.slab) \X Slot = ((DOMAIN v.slab) \X Slot) \cup ({page} \X Slot)
    BY <1>5, <1>13
  <2>2. ((DOMAIN v.slab) \X Slot) \cap ({page} \X Slot) = {}
    BY <1>13
  <2> QED
    BY <1>17, <2>1, <2>2 DEF Out
<1>21. PagesOK(v, o)
  BY <1>1, <1>5, <1>9, <1>10, <1>13 DEF PagesOK
<1>22. DescsOK(v)
  <2>1. Used(v.descs) = {v.slab[p].desc : p \in DOMAIN v.slab}
    BY <1>1, <1>5, <1>9, <1>12, <1>13 DEF desc
  <2>2. \A p, q \in DOMAIN v.slab : v.slab[p].desc = v.slab[q].desc => p = q
    BY <1>1, <1>13
  <2>3. PICK k \in Nat, m \in Nat : FreshFrom(w.descs, k, m) /\ m <= w.pages.max
    BY <1>1 DEF WorldOK, DescsOK
  <2>4. FreshFrom(v.descs, k + 1, m) /\ m <= v.pages.max /\ k + 1 \in Nat
    BY <1>1, <1>9, <1>10, <1>11, <2>3, FreshGiven
  <2> QED
    BY <1>9, <1>12, <2>1, <2>2, <2>4 DEF DescsOK
<1>23. /\ SomeUsed(v) = SomeUsed(w) /\ AllUsed(v) = AllUsed(w)
       /\ NoneUsed(v) = NoneUsed(w) \ {page}
  BY <1>5, <1>13, ConstantsType DEF SomeUsed, AllUsed, NoneUsed
<1>24. Queued(v, SomeUsed(v), AllUsed(v), NoneUsed(v))
  BY <1>2, <1>4, <1>7, <1>9, <1>23 DEF Queued
<1> QED
  BY <1>4, <1>9, <1>15, <1>16, <1>19, <1>20, <1>21, <1>22, <1>24 DEF WorldOK, Sound, v

\* The function that a drain of n slabs evaluates,
Drains(w, n, f) == f = [k \in 0 .. n |-> IF k = 0 THEN w ELSE DropLast(f[k - 1])]

\* which there is, by induction on n.
LEMMA DrainsExist ==
  ASSUME NEW w, NEW n \in Nat
  PROVE  \E f : Drains(w, n, f)
<1> DEFINE T == {m \in Nat : \E f : Drains(w, m, f)}
<1>1. 0 \in T
  <2>1. Drains(w, 0, [k \in 0 .. 0 |-> w])
    BY DEF Drains
  <2> QED
    BY <2>1
<1>2. ASSUME NEW m \in Nat, m \in T PROVE m + 1 \in T
  <2>1. PICK f : Drains(w, m, f)
    BY <1>2
  <2> DEFINE g == [k \in 0 .. m + 1 |-> IF k = m + 1 THEN DropLast(f[m]) ELSE f[k]]
  <2>2. \A k \in 0 .. m : f[k] = IF k = 0 THEN w ELSE DropLast(f[k - 1])
    BY <2>1 DEF Drains
  <2>3. ASSUME NEW k \in 0 .. m + 1 PROVE g[k] = IF k = 0 THEN w ELSE DropLast(g[k - 1])
    <3>1. CASE k = m + 1
      <4>1. k # 0 /\ k - 1 \in 0 .. m + 1 /\ k - 1 # m + 1 /\ k - 1 = m
        BY <3>1
      <4> QED
        BY <3>1, <4>1
    <3>2. CASE k # m + 1
      <4>1. k \in 0 .. m /\ (k # 0 => k - 1 \in 0 .. m + 1 /\ k - 1 # m + 1)
        BY <3>2
      <4> QED
        BY <2>2, <3>2, <4>1
    <3> QED
      BY <3>1, <3>2
  <2>4. Drains(w, m + 1, g)
    <3>1. g = [k \in 0 .. m + 1 |-> g[k]]
      OBVIOUS
    <3> HIDE DEF g
    <3> QED
      BY <2>3, <3>1 DEF Drains
  <2> QED
    BY <2>4
<1> HIDE DEF T
<1>3. Nat \subseteq T
  BY <1>1, <1>2, NatAll
<1> QED
  BY <1>3 DEF T

\* A drain of as many free slabs as there are, or fewer.
LEMMA DrainListIs ==
  ASSUME NEW w, NEW o, Sound(w, o), NEW n \in 0 .. Len(w.empty)
  PROVE  Sound(DrainList(w, n), o) /\ Out(DrainList(w, n)) = Out(w)
<1> DEFINE f == CHOOSE f : Drains(w, n, f)
<1>1. n \in Nat /\ Len(w.empty) \in Nat
  <2>1. w.empty \in Seq(Nat)
    BY WorldFields DEF Sound, WorldOK
  <2> QED
    BY <2>1, SeqFacts
<1>2. Drains(w, n, f)
  BY <1>1, DrainsExist
<1>3. DrainList(w, n) = f[n]
  BY DEF DrainList, Drains
<1> HIDE DEF f
<1>4. \A k \in 0 .. n : f[k] = IF k = 0 THEN w ELSE DropLast(f[k - 1])
  BY <1>2 DEF Drains
<1> DEFINE Good(k) == /\ Sound(f[k], o) /\ Out(f[k]) = Out(w)
                      /\ Len(f[k].empty) = Len(w.empty) - k
           T == {k \in Nat : k <= n => Good(k)}
<1>5. 0 \in T
  <2>1. f[0] = w /\ Len(w.empty) = Len(w.empty) - 0
    BY <1>1, <1>4
  <2> QED
    BY <2>1
<1>6. ASSUME NEW k \in Nat, k \in T PROVE k + 1 \in T
  <2> SUFFICES ASSUME k + 1 <= n PROVE Good(k + 1)
    OBVIOUS
  <2>1. k <= n /\ k + 1 \in 0 .. n /\ k + 1 # 0 /\ (k + 1) - 1 = k
    BY <1>1
  <2>2. Good(k)
    BY <1>6, <2>1
  <2>3. f[k + 1] = DropLast(f[k])
    BY <1>4, <2>1
  <2>4. f[k].empty # <<>>
    <3>1. Len(f[k].empty) # 0
      BY <1>1, <2>2
    <3> QED
      BY <3>1, EmptySeq
  <2> HIDE DEF Good
  <2>5. /\ Sound(f[k + 1], o) /\ Out(f[k + 1]) = Out(f[k])
        /\ Len(f[k + 1].empty) = Len(f[k].empty) - 1
    BY <2>2, <2>3, <2>4, DropLastIs DEF Good
  <2>6. (Len(w.empty) - k) - 1 = Len(w.empty) - (k + 1)
    BY <1>1
  <2> QED
    BY <2>2, <2>5, <2>6 DEF Good
<1> HIDE DEF Good, T
<1>7. Nat \subseteq T
  BY <1>5, <1>6, NatAll
<1>8. Good(n)
  BY <1>1, <1>7 DEF T
<1> QED
  BY <1>3, <1>8 DEF Good

-----------------------------------------------------------------------------
(* An object leaves its slab.                                              *)

\* Moving slabs between the lists changes nothing else.
LEMMA SameSlabs ==
  ASSUME NEW w, NEW o, WorldOK(w, o), NEW v \in WorldType,
         v.slab = w.slab, v.pages = w.pages, v.descs = w.descs,
         v.count.free_objects = w.count.free_objects
  PROVE  /\ WorldOK(v, o) /\ Out(v) = Out(w)
         /\ SomeUsed(v) = SomeUsed(w) /\ AllUsed(v) = AllUsed(w) /\ NoneUsed(v) = NoneUsed(w)
<1>1. FreeObjects(v) = FreeObjects(w)
  BY DEF FreeObjects
<1> QED
  BY <1>1 DEF WorldOK, SlabsOK, FreeCounted, PagesOK, DescsOK, Out, SomeUsed, AllUsed, NoneUsed

\* Only the free objects of one slab change.
LEMMA OneSlab ==
  ASSUME NEW w, NEW o, WorldOK(w, o), NEW v \in WorldType, NEW page \in DOMAIN w.slab,
         DOMAIN v.slab = DOMAIN w.slab,
         \A p \in DOMAIN w.slab : p # page => v.slab[p] = w.slab[p],
         v.slab[page].desc = w.slab[page].desc, IsInjective(v.slab[page].bufctl),
         v.slab[page].inuse = Num - Len(v.slab[page].bufctl),
         v.pages = w.pages, v.descs = w.descs, FreeCounted(v)
  PROVE  WorldOK(v, o)
<1>1. \A p \in DOMAIN w.slab : v.slab[p].desc = w.slab[p].desc
  OBVIOUS
<1>2. SlabsOK(v)
  BY DEF WorldOK, SlabsOK
<1>3. PagesOK(v, o)
  BY DEF WorldOK, PagesOK
<1>4. DescsOK(v)
  BY <1>1 DEF WorldOK, DescsOK
<1> QED
  BY <1>2, <1>3, <1>4 DEF WorldOK

\* The world when an object has left its slab, or is back,
Without(w, page) ==
  [w EXCEPT !.slab[page].bufctl = Tail(@), !.slab[page].inuse = @ + 1,
            !.count.free_objects = @ - 1]
With(w, page, k) ==
  [w EXCEPT !.slab[page].bufctl = <<k>> \o @, !.slab[page].inuse = @ - 1,
            !.count.free_objects = @ + 1]

\* and either, with the fields that it changes.
Changed(w, page, b, n, m) ==
  [w EXCEPT !.slab[page].bufctl = b, !.slab[page].inuse = n, !.count.free_objects = m]

\* Nothing but these fields is different.
LEMMA ChangedIs ==
  ASSUME NEW w \in WorldType, NEW page \in DOMAIN w.slab,
         NEW b \in Seq(Slot), NEW n \in Int, NEW m \in Int
  PROVE  LET v == Changed(w, page, b, n, m)
         IN  /\ v \in WorldType /\ DOMAIN v.slab = DOMAIN w.slab
             /\ \A p \in DOMAIN w.slab : p # page => v.slab[p] = w.slab[p]
             /\ v.slab[page].desc = w.slab[page].desc
             /\ v.slab[page].bufctl = b /\ v.slab[page].inuse = n
             /\ v.partial = w.partial /\ v.full = w.full /\ v.empty = w.empty
             /\ v.pages = w.pages /\ v.descs = w.descs
             /\ v.count.partial = w.count.partial /\ v.count.full = w.count.full
             /\ v.count.free = w.count.free /\ v.count.free_objects = m
<1> DEFINE v  == Changed(w, page, b, n, m)
           r1 == [w.slab[page] EXCEPT !.bufctl = b]
           s1 == [w.slab EXCEPT ![page] = r1]
           w1 == [w EXCEPT !.slab = s1]
           r2 == [w1.slab[page] EXCEPT !.inuse = n]
           s2 == [w1.slab EXCEPT ![page] = r2]
           w2 == [w1 EXCEPT !.slab = s2]
           c  == [w2.count EXCEPT !.free_objects = m]
<1>1. w.slab \in SlabsType /\ w.count \in CountType /\ w.slab[page] \in SlabType
  BY WorldFields, SlabFields
<1>2. w.slab \in [DOMAIN w.slab -> SlabType] /\ DOMAIN w.slab \in SUBSET Nat
  BY <1>1, SlabsFacts
<1>3. v = [w2 EXCEPT !.count = c]
  <2>1. w1 = [w EXCEPT !.slab[page].bufctl = b]
    OBVIOUS
  <2> HIDE DEF w1
  <2>2. w2 = [w1 EXCEPT !.slab[page].inuse = n]
    OBVIOUS
  <2> HIDE DEF w2
  <2>3. v = [w2 EXCEPT !.count.free_objects = m]
    BY <2>1, <2>2 DEF Changed
  <2> QED
    BY <2>3
<1> HIDE DEF v, c, w2, s2, r2
<1>4. /\ r1 \in SlabType /\ r1.desc = w.slab[page].desc /\ r1.bufctl = b
  BY <1>1 DEF SlabType
<1> HIDE DEF r1
<1>5. /\ s1 \in [DOMAIN w.slab -> SlabType] /\ s1[page] = r1
      /\ \A p \in DOMAIN w.slab : p # page => s1[p] = w.slab[p]
  BY <1>2, <1>4
<1>6. s1 \in SlabsType
  BY <1>2, <1>5, SlabsMade
<1> HIDE DEF s1
<1>7. /\ w1 \in WorldType /\ w1.slab = s1 /\ w1.count = w.count
      /\ w1.partial = w.partial /\ w1.full = w.full /\ w1.empty = w.empty
      /\ w1.pages = w.pages /\ w1.descs = w.descs
  BY <1>6 DEF WorldType
<1> HIDE DEF w1
<1>8. /\ r2 \in SlabType /\ r2.desc = w.slab[page].desc /\ r2.bufctl = b /\ r2.inuse = n
  BY <1>4, <1>5, <1>7 DEF SlabType, r2
<1>9. /\ s2 \in [DOMAIN w.slab -> SlabType] /\ s2[page] = r2
      /\ \A p \in DOMAIN w.slab : p # page => s2[p] = w.slab[p]
  BY <1>5, <1>7, <1>8 DEF s2
<1>10. s2 \in SlabsType
  BY <1>2, <1>9, SlabsMade
<1>11. /\ w2 \in WorldType /\ w2.slab = s2 /\ w2.count = w.count
       /\ w2.partial = w.partial /\ w2.full = w.full /\ w2.empty = w.empty
       /\ w2.pages = w.pages /\ w2.descs = w.descs
  BY <1>7, <1>10 DEF WorldType, w2
<1>12. /\ c \in CountType /\ c.partial = w.count.partial /\ c.full = w.count.full
       /\ c.free = w.count.free /\ c.free_objects = m
  BY <1>1, <1>11 DEF CountType, c
<1>13. /\ v \in WorldType /\ v.slab = s2 /\ v.count = c
       /\ v.partial = w.partial /\ v.full = w.full /\ v.empty = w.empty
       /\ v.pages = w.pages /\ v.descs = w.descs
  BY <1>3, <1>11, <1>12 DEF WorldType
<1> QED
  BY <1>8, <1>9, <1>12, <1>13 DEF v

\* To take an object is such a change,
LEMMA WithoutIs ==
  ASSUME NEW w, NEW page
  PROVE  Without(w, page) = Changed(w, page, Tail(w.slab[page].bufctl),
                                    w.slab[page].inuse + 1, w.count.free_objects - 1)
BY DEF Without, Changed

\* and to put one back is another.
LEMMA WithIs ==
  ASSUME NEW w, NEW page, NEW k
  PROVE  With(w, page, k) = Changed(w, page, <<k>> \o w.slab[page].bufctl,
                                    w.slab[page].inuse - 1, w.count.free_objects + 1)
BY DEF With, Changed

\* The lists and their counters.
SameLists(v, w) ==
  /\ v.partial = w.partial /\ v.full = w.full /\ v.empty = w.empty
  /\ v.count.partial = w.count.partial /\ v.count.full = w.count.full
  /\ v.count.free = w.count.free

\* The object that leaves is outside from then on.
LEMMA WithoutSound ==
  ASSUME NEW w, NEW o, WorldOK(w, o), NEW page \in DOMAIN w.slab, w.slab[page].inuse < Num
  PROVE  LET v   == Without(w, page)
             ptr == <<page, Head(w.slab[page].bufctl)>>
         IN  /\ WorldOK(v, o) /\ ptr \in Objects
             /\ ptr \notin Out(w) /\ Out(v) = Out(w) \cup {ptr}
             /\ DOMAIN v.slab = DOMAIN w.slab /\ SameLists(v, w)
             /\ \A p \in DOMAIN w.slab : p # page => v.slab[p] = w.slab[p]
             /\ v.slab[page].inuse = w.slab[page].inuse + 1
<1> DEFINE v == Without(w, page)
           b == w.slab[page].bufctl
           k == Head(b)
           d == Tail(b)
<1>1. w \in WorldType /\ SlabsOK(w) /\ FreeCounted(w)
  BY DEF WorldOK
<1>2. /\ b \in Seq(Slot) /\ IsInjective(b) /\ w.slab[page].inuse = Num - Len(b)
      /\ Len(b) \in 0 .. Num /\ b # <<>> /\ page \in Nat
  <2>1. /\ IsInjective(b) /\ w.slab[page].inuse = Num - Len(b) /\ Len(b) \in 0 .. Num
        /\ w.slab[page].inuse \in 0 .. Num /\ (b = <<>> <=> w.slab[page].inuse = Num)
    BY <1>1, SlabCounts
  <2>2. w.slab[page].inuse # Num
    BY <2>1, ConstantsType
  <2> QED
    BY <1>1, <2>1, <2>2, SlabFields
<1> HIDE DEF b
<1>3. /\ k \in ToSet(b) /\ k \in Slot /\ d \in Seq(Slot) /\ IsInjective(d)
      /\ ToSet(d) = ToSet(b) \ {k} /\ Len(d) = Len(b) - 1
  BY <1>2, InjTail
<1> HIDE DEF k
<1>4. w.count.free_objects - 1 \in Int /\ w.slab[page].inuse + 1 \in Int
  <2>1. w.count \in CountType /\ w.slab[page].inuse \in Int
    BY <1>1, WorldFields, SlabFields
  <2> QED
    BY <2>1 DEF CountType
<1>5. v = Changed(w, page, d, w.slab[page].inuse + 1, w.count.free_objects - 1)
  BY WithoutIs, SMTT(30) DEF b
<1> HIDE DEF v, d
<1>6. /\ v \in WorldType /\ DOMAIN v.slab = DOMAIN w.slab /\ SameLists(v, w)
      /\ \A p \in DOMAIN w.slab : p # page => v.slab[p] = w.slab[p]
      /\ v.slab[page].desc = w.slab[page].desc
      /\ v.slab[page].bufctl = d /\ v.slab[page].inuse = w.slab[page].inuse + 1
      /\ v.pages = w.pages /\ v.descs = w.descs
      /\ v.count.free_objects = w.count.free_objects - 1
  BY <1>1, <1>3, <1>4, <1>5, ChangedIs DEF SameLists
<1>7. /\ <<page, k>> \in FreeObjects(w) /\ FreeObjects(v) = FreeObjects(w) \ {<<page, k>>}
  <2>1. <<page, k>> \in FreeObjects(w)
    BY <1>3, FreeObjectsIs DEF b
  <2>2. \A p, i : <<p, i>> \in FreeObjects(v) <=> <<p, i>> \in FreeObjects(w) \ {<<page, k>>}
    <3> SUFFICES ASSUME NEW p, NEW i
                 PROVE  <<p, i>> \in FreeObjects(v) <=>
                          <<p, i>> \in FreeObjects(w) /\ ~ (p = page /\ i = k)
      OBVIOUS
    <3>1. CASE p = page
      BY <1>3, <1>6, <3>1, FreeObjectsIs DEF b
    <3>2. CASE p # page
      BY <1>6, <3>2, FreeObjectsIs
    <3> QED
      BY <3>1, <3>2
  <2>3. FreeObjects(v) \subseteq (DOMAIN v.slab) \X Slot /\ FreeObjects(w) \subseteq (DOMAIN w.slab) \X Slot
    BY DEF FreeObjects
  <2> QED
    BY <2>1, <2>2, <2>3
<1>8. FreeCounted(v)
  <2>1. Cardinality(FreeObjects(v)) = Cardinality(FreeObjects(w)) - 1
    BY <1>7, WorldFinite, FS_RemoveElement
  <2> QED
    BY <1>1, <1>6, <2>1 DEF FreeCounted
<1>9. WorldOK(v, o)
  <2>1. v.slab[page].inuse = Num - Len(v.slab[page].bufctl)
    BY <1>2, <1>3, <1>6, ConstantsType
  <2> QED
    BY <1>3, <1>6, <1>8, <2>1, OneSlab
<1>10. /\ <<page, k>> \notin Out(w) /\ Out(v) = Out(w) \cup {<<page, k>>}
       /\ <<page, k>> \in Objects
  <2>1. <<page, k>> \in (DOMAIN w.slab) \X Slot /\ <<page, k>> \in Nat \X Slot
    BY <1>2, <1>3
  <2> QED
    BY <1>6, <1>7, <2>1 DEF Out, Objects
<1> QED
  BY <1>6, <1>9, <1>10 DEF v, k, b

\* The object that is back is free.
LEMMA WithSound ==
  ASSUME NEW w, NEW o, WorldOK(w, o), NEW page, NEW k, <<page, k>> \in Out(w)
  PROVE  LET v == With(w, page, k)
         IN  /\ WorldOK(v, o) /\ Out(v) = Out(w) \ {<<page, k>>}
             /\ DOMAIN v.slab = DOMAIN w.slab /\ SameLists(v, w)
             /\ \A p \in DOMAIN w.slab : p # page => v.slab[p] = w.slab[p]
             /\ page \in DOMAIN w.slab /\ w.slab[page].inuse \in 1 .. Num
             /\ v.slab[page].inuse = w.slab[page].inuse - 1
<1> DEFINE v == With(w, page, k)
           b == w.slab[page].bufctl
           d == <<k>> \o b
<1>1. w \in WorldType /\ SlabsOK(w) /\ FreeCounted(w)
  BY DEF WorldOK
<1>2. page \in DOMAIN w.slab /\ k \in Slot /\ k \notin ToSet(b)
  BY FreeObjectsIs DEF Out
<1>3. /\ b \in Seq(Slot) /\ IsInjective(b) /\ w.slab[page].inuse = Num - Len(b)
      /\ Len(b) \in 0 .. Num /\ w.slab[page].inuse \in 1 .. Num
  <2>1. /\ IsInjective(b) /\ w.slab[page].inuse = Num - Len(b) /\ Len(b) \in 0 .. Num
        /\ w.slab[page].inuse \in 0 .. Num /\ (ToSet(b) = Slot <=> w.slab[page].inuse = 0)
    BY <1>1, <1>2, SlabCounts
  <2>2. w.slab[page].inuse # 0
    BY <1>2, <2>1
  <2>3. w.slab[page].inuse \in 1 .. Num
    BY <2>1, <2>2, ConstantsType, SMTT(30)
  <2> QED
    BY <1>1, <1>2, <2>1, <2>3, SlabFields
<1> HIDE DEF b
<1>4. /\ d \in Seq(Slot) /\ IsInjective(d) /\ ToSet(d) = ToSet(b) \cup {k} /\ Len(d) = Len(b) + 1
  BY <1>2, <1>3, InjCons
<1>5. w.count.free_objects + 1 \in Int /\ w.slab[page].inuse - 1 \in Int
  <2>1. w.count \in CountType /\ w.slab[page].inuse \in Int
    BY <1>1, <1>2, WorldFields, SlabFields
  <2> QED
    BY <2>1 DEF CountType
<1>6. v = Changed(w, page, d, w.slab[page].inuse - 1, w.count.free_objects + 1)
  BY WithIs DEF b
<1> HIDE DEF v, d
<1>7. /\ v \in WorldType /\ DOMAIN v.slab = DOMAIN w.slab /\ SameLists(v, w)
      /\ \A p \in DOMAIN w.slab : p # page => v.slab[p] = w.slab[p]
      /\ v.slab[page].desc = w.slab[page].desc
      /\ v.slab[page].bufctl = d /\ v.slab[page].inuse = w.slab[page].inuse - 1
      /\ v.pages = w.pages /\ v.descs = w.descs
      /\ v.count.free_objects = w.count.free_objects + 1
  BY <1>1, <1>2, <1>4, <1>5, <1>6, ChangedIs DEF SameLists
<1>8. <<page, k>> \notin FreeObjects(w) /\ FreeObjects(v) = FreeObjects(w) \cup {<<page, k>>}
  <2>1. <<page, k>> \notin FreeObjects(w)
    BY DEF Out
  <2>2. \A p, i : <<p, i>> \in FreeObjects(v) <=> <<p, i>> \in FreeObjects(w) \cup {<<page, k>>}
    <3> SUFFICES ASSUME NEW p, NEW i
                 PROVE  <<p, i>> \in FreeObjects(v) <=>
                          <<p, i>> \in FreeObjects(w) \/ (p = page /\ i = k)
      OBVIOUS
    <3>1. CASE p = page
      BY <1>2, <1>4, <1>7, <3>1, FreeObjectsIs DEF b
    <3>2. CASE p # page
      BY <1>7, <3>2, FreeObjectsIs
    <3> QED
      BY <3>1, <3>2
  <2>3. FreeObjects(v) \subseteq (DOMAIN v.slab) \X Slot /\ FreeObjects(w) \subseteq (DOMAIN w.slab) \X Slot
    BY DEF FreeObjects
  <2>4. FreeObjects(v) \subseteq FreeObjects(w) \cup {<<page, k>>}
    BY <2>2, <2>3
  <2>5. FreeObjects(w) \cup {<<page, k>>} \subseteq FreeObjects(v)
    BY <2>2, <2>3
  <2> QED
    BY <2>1, <2>4, <2>5
<1>9. FreeCounted(v)
  <2>1. Cardinality(FreeObjects(v)) = Cardinality(FreeObjects(w)) + 1
    BY <1>8, WorldFinite, FS_AddElement
  <2> QED
    BY <1>1, <1>7, <2>1 DEF FreeCounted
<1>10. WorldOK(v, o)
  <2>1. v.slab[page].inuse = Num - Len(v.slab[page].bufctl)
    BY <1>3, <1>4, <1>7, ConstantsType
  <2> QED
    BY <1>2, <1>4, <1>7, <1>9, <2>1, OneSlab
<1>11. Out(v) = Out(w) \ {<<page, k>>}
  BY <1>7, <1>8 DEF Out
<1> QED
  BY <1>2, <1>3, <1>7, <1>10, <1>11 DEF v

\* There is a slab to take from, at the head of slabs_partial; it may have had
\* no object outside until now.
LEMMA WithPartialIs ==
  ASSUME NEW w, NEW o, Sound(w, o)
  PROVE  LET v    == WithPartial(w)
             page == Head(v.partial)
         IN  /\ WorldOK(v, o) /\ Out(v) = Out(w)
             /\ v.partial # <<>> /\ page \in DOMAIN v.slab /\ v.slab[page].inuse < Num
             /\ Queued(v, SomeUsed(v) \cup {page}, AllUsed(v), NoneUsed(v) \ {page})
<1> DEFINE v == WithPartial(w)
<1>1. w \in WorldType /\ WorldOK(w, o)
  BY DEF Sound, WorldOK
<1>2. /\ IsInjective(w.partial) /\ ToSet(w.partial) = SomeUsed(w)
      /\ w.count.partial = Len(w.partial)
      /\ w.full = AllUsed(w) /\ w.count.full = Cardinality(AllUsed(w))
      /\ IsInjective(w.empty) /\ ToSet(w.empty) = NoneUsed(w) /\ w.count.free = Len(w.empty)
  BY DEF Sound, Queued
<1>3. w.partial \in Seq(Nat) /\ w.empty \in Seq(Nat) /\ w.count \in CountType
  BY <1>1, WorldFields
<1>4. CASE w.partial # <<>>
  <2>1. v = w
    BY <1>4 DEF WithPartial
  <2> DEFINE page == Head(w.partial)
  <2>2. page \in SomeUsed(w)
    BY <1>2, <1>3, <1>4, InjTail
  <2> HIDE DEF page, v
  <2>3. page \in DOMAIN w.slab /\ w.slab[page].inuse < Num
    BY <2>2, ConstantsType DEF SomeUsed
  <2>4. SomeUsed(w) \cup {page} = SomeUsed(w) /\ NoneUsed(w) \ {page} = NoneUsed(w)
    BY <2>2 DEF SomeUsed, NoneUsed
  <2>5. Queued(w, SomeUsed(w) \cup {page}, AllUsed(w), NoneUsed(w) \ {page})
    BY <2>4 DEF Sound
  <2> QED
    BY <1>1, <1>4, <2>1, <2>3, <2>5 DEF page, v
<1>5. CASE w.partial = <<>> /\ w.empty # <<>>
  <2> DEFINE page == Head(w.empty)
             c == [w.count EXCEPT !.free = @ - 1, !.partial = @ + 1]
  <2>1. /\ c \in CountType /\ c.partial = w.count.partial + 1 /\ c.full = w.count.full
        /\ c.free = w.count.free - 1 /\ c.free_objects = w.count.free_objects
    <3>1. w.count.free - 1 \in Int /\ w.count.partial + 1 \in Int
      BY <1>3 DEF CountType
    <3> QED
      BY <1>3, <3>1 DEF CountType
  <2>2. v = [w EXCEPT !.empty = Tail(@), !.partial = <<page>>, !.count = c]
    <3>1. v = [w EXCEPT !.empty = Tail(@), !.count.free = @ - 1,
                        !.partial = <<page>>, !.count.partial = @ + 1]
      BY <1>5 DEF WithPartial
    <3> HIDE DEF v, page
    <3> QED
      BY <1>1, <1>3, <3>1 DEF WorldType, CountType
  <2>3. /\ page \in NoneUsed(w) /\ page \in Nat /\ Tail(w.empty) \in Seq(Nat)
        /\ IsInjective(Tail(w.empty)) /\ ToSet(Tail(w.empty)) = NoneUsed(w) \ {page}
        /\ Len(Tail(w.empty)) = Len(w.empty) - 1
    <3> HIDE DEF v, c
    <3>1. w.empty \in Seq(Nat) /\ IsInjective(w.empty) /\ w.empty # <<>>
      BY <1>2, <1>3, <1>5
    <3> QED
      BY <1>2, <3>1, InjTail
  <2> HIDE DEF v, page, c
  <2>4. /\ v \in WorldType /\ v.slab = w.slab /\ v.pages = w.pages /\ v.descs = w.descs
        /\ v.partial = <<page>> /\ v.full = w.full /\ v.empty = Tail(w.empty) /\ v.count = c
    <3> DEFINE t == Tail(w.empty)
               s == <<page>>
    <3>1. s \in Seq(Nat) /\ t \in Seq(Nat)
      BY <2>3
    <3>2. v = [w EXCEPT !.empty = t, !.partial = s, !.count = c]
      BY <2>2
    <3> HIDE DEF s, t
    <3>3. /\ v \in WorldType /\ v.slab = w.slab /\ v.pages = w.pages /\ v.descs = w.descs
          /\ v.partial = s /\ v.full = w.full /\ v.empty = t /\ v.count = c
      BY <1>1, <2>1, <3>1, <3>2 DEF WorldType
    <3> QED
      BY <3>3 DEF s, t
  <2>5. /\ WorldOK(v, o) /\ Out(v) = Out(w)
        /\ SomeUsed(v) = SomeUsed(w) /\ AllUsed(v) = AllUsed(w) /\ NoneUsed(v) = NoneUsed(w)
    BY <1>1, <2>1, <2>4, SameSlabs
  <2>6. page \in DOMAIN v.slab /\ v.slab[page].inuse < Num
    BY <2>3, <2>4, ConstantsType DEF NoneUsed
  <2>7. SomeUsed(w) = {} /\ w.count.partial = 0
    BY <1>2, <1>3, <1>5, SeqFacts
  <2>8. /\ IsInjective(<<page>>) /\ ToSet(<<page>>) = {page} /\ Len(<<page>>) = 1
        /\ <<page>> # <<>> /\ Head(<<page>>) = page
    BY <2>3, InjOne
  <2>9. Queued(v, SomeUsed(v) \cup {page}, AllUsed(v), NoneUsed(v) \ {page})
    BY <1>2, <2>1, <2>3, <2>4, <2>5, <2>7, <2>8 DEF Queued
  <2> QED
    BY <2>4, <2>5, <2>6, <2>8, <2>9 DEF v
<1>6. CASE w.partial = <<>> /\ w.empty = <<>>
  <2> DEFINE page == Head(Grown(w.pages, GrowLimit).open)
  <2>1. v = SlabCreate(w)
    BY <1>6 DEF WithPartial
  <2> HIDE DEF v
  <2>2. /\ WorldOK(v, o) /\ Out(v) = Out(w)
        /\ page \in Nat /\ page \notin DOMAIN w.slab
        /\ DOMAIN v.slab = DOMAIN w.slab \cup {page} /\ v.slab[page].inuse = 0
        /\ \A p \in DOMAIN w.slab : v.slab[p] = w.slab[p]
        /\ v.partial = <<page>> \o w.partial /\ v.full = w.full /\ v.empty = w.empty
        /\ v.count.partial = w.count.partial + 1 /\ v.count.full = w.count.full
        /\ v.count.free = w.count.free
    BY <1>1, <2>1, SlabCreateIs
  <2> HIDE DEF page
  <2>3. /\ SomeUsed(v) = SomeUsed(w) /\ AllUsed(v) = AllUsed(w)
        /\ NoneUsed(v) \ {page} = NoneUsed(w)
    BY <2>2, ConstantsType DEF SomeUsed, AllUsed, NoneUsed
  <2>4. page \notin ToSet(w.partial)
    BY <1>2, <2>2 DEF SomeUsed
  <2>5. /\ IsInjective(v.partial) /\ ToSet(v.partial) = SomeUsed(w) \cup {page}
        /\ Len(v.partial) = Len(w.partial) + 1 /\ Head(v.partial) = page /\ v.partial # <<>>
    BY <1>2, <1>3, <2>2, <2>4, InjCons
  <2>6. Queued(v, SomeUsed(v) \cup {page}, AllUsed(v), NoneUsed(v) \ {page})
    BY <1>2, <2>2, <2>3, <2>5 DEF Queued
  <2> QED
    BY <2>2, <2>5, <2>6, ConstantsType DEF v
<1> QED
  BY <1>4, <1>5, <1>6

\* One object is handed out that was free, and nothing else leaves.
LEMMA ListAllocIs ==
  ASSUME NEW w, NEW o, Sound(w, o)
  PROVE  LET one == ListAlloc(w)
         IN  /\ Sound(one.world, o) /\ one.ptr \in Objects
             /\ one.ptr \notin Out(w) /\ Out(one.world) = Out(w) \cup {one.ptr}
<1> DEFINE one  == ListAlloc(w)
           v    == WithPartial(w)
           page == Head(v.partial)
           ptr  == <<page, Head(v.slab[page].bufctl)>>
           u    == Without(v, page)
           z    == [u EXCEPT !.partial = Tail(@), !.full = @ \cup {page},
                             !.count.partial = @ - 1, !.count.full = @ + 1]
<1>1. /\ WorldOK(v, o) /\ Out(v) = Out(w)
      /\ v.partial # <<>> /\ page \in DOMAIN v.slab /\ v.slab[page].inuse < Num
      /\ Queued(v, SomeUsed(v) \cup {page}, AllUsed(v), NoneUsed(v) \ {page})
  BY WithPartialIs
<1>2. one.ptr = ptr /\ one.world = IF u.slab[page].bufctl # <<>> THEN u ELSE z
  BY DEF ListAlloc, Without
<1> HIDE DEF one, v, page
<1>3. /\ WorldOK(u, o) /\ ptr \in Objects
      /\ ptr \notin Out(v) /\ Out(u) = Out(v) \cup {ptr}
      /\ DOMAIN u.slab = DOMAIN v.slab /\ SameLists(u, v)
      /\ \A p \in DOMAIN v.slab : p # page => u.slab[p] = v.slab[p]
      /\ u.slab[page].inuse = v.slab[page].inuse + 1
  BY <1>1, WithoutSound
<1> HIDE DEF u, ptr
<1>4. /\ v \in WorldType /\ SlabsOK(v) /\ u \in WorldType /\ SlabsOK(u)
  BY <1>1, <1>3 DEF WorldOK
<1>5. v.slab[page].inuse \in 0 .. Num - 1
  <2>1. v.slab[page].inuse \in 0 .. Num
    BY <1>1, <1>4, SlabCounts
  <2> QED
    BY <1>1, <2>1, ConstantsType
<1>6. NoneUsed(u) = NoneUsed(v) \ {page}
  BY <1>1, <1>3, <1>5, ConstantsType DEF NoneUsed
<1>7. u.slab[page].bufctl = <<>> <=> u.slab[page].inuse = Num
  BY <1>1, <1>3, <1>4, SlabCounts
<1>8. /\ IsInjective(u.partial) /\ ToSet(u.partial) = SomeUsed(v) \cup {page}
      /\ u.count.partial = Len(u.partial) /\ u.partial = v.partial
      /\ u.full = AllUsed(v) /\ u.count.full = Cardinality(AllUsed(v))
      /\ IsInjective(u.empty) /\ ToSet(u.empty) = NoneUsed(u) /\ u.count.free = Len(u.empty)
  BY <1>1, <1>3, <1>6 DEF Queued, SameLists
<1>9. CASE u.slab[page].bufctl # <<>>
  <2>1. u.slab[page].inuse \in 1 .. Num - 1
    BY <1>3, <1>5, <1>7, <1>9, ConstantsType
  <2>2. SomeUsed(u) = SomeUsed(v) \cup {page}
    BY <1>1, <1>3, <2>1 DEF SomeUsed
  <2>3. AllUsed(u) = AllUsed(v)
    BY <1>1, <1>3, <2>1, ConstantsType DEF AllUsed
  <2>4. Queued(u, SomeUsed(u), AllUsed(u), NoneUsed(u))
    BY <1>8, <2>2, <2>3 DEF Queued
  <2> QED
    BY <1>1, <1>2, <1>3, <1>9, <2>4 DEF Sound, one
<1>10. CASE u.slab[page].bufctl = <<>>
  <2> DEFINE c == [u.count EXCEPT !.partial = @ - 1, !.full = @ + 1]
  <2>1. u.count \in CountType /\ u.partial \in Seq(Nat) /\ u.full \in SUBSET Nat
    BY <1>4, WorldFields
  <2>2. /\ c \in CountType /\ c.partial = u.count.partial - 1 /\ c.full = u.count.full + 1
        /\ c.free = u.count.free /\ c.free_objects = u.count.free_objects
    <3>1. u.count.partial - 1 \in Int /\ u.count.full + 1 \in Int
      BY <2>1 DEF CountType
    <3> QED
      BY <2>1, <3>1 DEF CountType
  <2>3. z = [u EXCEPT !.partial = Tail(@), !.full = @ \cup {page}, !.count = c]
    BY <1>4, <2>1 DEF WorldType, CountType
  <2>4. /\ Tail(u.partial) \in Seq(Nat) /\ IsInjective(Tail(u.partial))
        /\ ToSet(Tail(u.partial)) = ToSet(u.partial) \ {page}
        /\ Len(Tail(u.partial)) = Len(u.partial) - 1
    <3> HIDE DEF z, c
    <3>1. u.partial # <<>> /\ Head(u.partial) = page
      BY <1>1, <1>8 DEF page
    <3> QED
      BY <1>8, <2>1, <3>1, InjTail
  <2>5. page \in Nat
    BY <1>1, <1>4, SlabFields
  <2> HIDE DEF z, c
  <2>6. /\ z \in WorldType /\ z.slab = u.slab /\ z.pages = u.pages /\ z.descs = u.descs
        /\ z.partial = Tail(u.partial) /\ z.full = u.full \cup {page} /\ z.empty = u.empty
        /\ z.count = c
    BY <1>4, <2>1, <2>2, <2>3, <2>4, <2>5 DEF WorldType
  <2>7. /\ WorldOK(z, o) /\ Out(z) = Out(u)
        /\ SomeUsed(z) = SomeUsed(u) /\ AllUsed(z) = AllUsed(u) /\ NoneUsed(z) = NoneUsed(u)
    BY <1>3, <2>2, <2>6, SameSlabs
  <2>8. u.slab[page].inuse = Num
    BY <1>7, <1>10
  <2>9. AllUsed(u) = AllUsed(v) \cup {page} /\ page \notin AllUsed(v)
    BY <1>1, <1>3, <1>5, <2>8, ConstantsType DEF AllUsed
  <2>10. SomeUsed(u) = (SomeUsed(v) \cup {page}) \ {page}
    BY <1>1, <1>3, <2>8, ConstantsType DEF SomeUsed
  <2>11. Cardinality(AllUsed(u)) = Cardinality(AllUsed(v)) + 1
    <3>1. AllUsed(v) \in SUBSET DOMAIN v.slab
      BY DEF AllUsed
    <3>2. IsFiniteSet(AllUsed(v))
      BY <1>1, <3>1, WorldFinite, FS_Subset
    <3> QED
      BY <2>9, <3>2, FS_AddElement
  <2>12. Queued(z, SomeUsed(z), AllUsed(z), NoneUsed(z))
    BY <1>8, <2>2, <2>4, <2>6, <2>7, <2>9, <2>10, <2>11 DEF Queued
  <2> QED
    BY <1>1, <1>2, <1>3, <1>10, <2>7, <2>12 DEF Sound, one
<1> QED
  BY <1>9, <1>10

-----------------------------------------------------------------------------
(* An object comes back.                                                   *)

\* Its slab is in slabs_partial from then on, whether it was full or not.
LEMMA UnfilledIs ==
  ASSUME NEW w, NEW o, Sound(w, o), NEW page \in DOMAIN w.slab, w.slab[page].inuse \in 1 .. Num
  PROVE  LET v == Unfilled(w, page)
         IN  /\ WorldOK(v, o) /\ Out(v) = Out(w) /\ v.slab = w.slab
             /\ Queued(v, SomeUsed(w) \cup {page}, AllUsed(w) \ {page}, NoneUsed(w))
<1> DEFINE v == Unfilled(w, page)
<1>1. w \in WorldType /\ WorldOK(w, o) /\ SlabsOK(w)
  BY DEF Sound, WorldOK
<1>2. /\ IsInjective(w.partial) /\ ToSet(w.partial) = SomeUsed(w)
      /\ w.count.partial = Len(w.partial)
      /\ w.full = AllUsed(w) /\ w.count.full = Cardinality(AllUsed(w))
      /\ IsInjective(w.empty) /\ ToSet(w.empty) = NoneUsed(w) /\ w.count.free = Len(w.empty)
  BY DEF Sound, Queued
<1>3. /\ w.partial \in Seq(Nat) /\ w.full \in SUBSET Nat /\ w.count \in CountType /\ page \in Nat
  BY <1>1, WorldFields, SlabFields
<1>4. w.slab[page].bufctl = <<>> <=> w.slab[page].inuse = Num
  BY <1>1, SlabCounts
<1>5. CASE w.slab[page].bufctl # <<>>
  <2>1. v = w
    BY <1>5 DEF Unfilled
  <2>2. w.slab[page].inuse \in 1 .. Num - 1
    BY <1>4, <1>5, ConstantsType
  <2>3. SomeUsed(w) \cup {page} = SomeUsed(w) /\ AllUsed(w) \ {page} = AllUsed(w)
    BY <2>2, ConstantsType DEF SomeUsed, AllUsed
  <2> QED
    BY <1>1, <2>1, <2>3 DEF Sound
<1>6. CASE w.slab[page].bufctl = <<>>
  <2> DEFINE c == [w.count EXCEPT !.full = @ - 1, !.partial = @ + 1]
             s == Append(w.partial, page)
             h == w.full \ {page}
  <2>1. /\ c \in CountType /\ c.partial = w.count.partial + 1 /\ c.full = w.count.full - 1
        /\ c.free = w.count.free /\ c.free_objects = w.count.free_objects
    <3>1. w.count.full - 1 \in Int /\ w.count.partial + 1 \in Int
      BY <1>3 DEF CountType
    <3> QED
      BY <1>3, <3>1 DEF CountType
  <2>2. v = [w EXCEPT !.full = h, !.partial = s, !.count = c]
    <3>1. v = [w EXCEPT !.full = h, !.partial = s, !.count.full = @ - 1, !.count.partial = @ + 1]
      BY <1>6 DEF Unfilled
    <3> HIDE DEF v, s, h
    <3> QED
      BY <1>1, <1>3, <3>1 DEF WorldType, CountType
  <2> HIDE DEF v, c
  <2>3. w.slab[page].inuse = Num
    BY <1>4, <1>6
  <2>4. page \in AllUsed(w) /\ page \notin SomeUsed(w)
    BY <2>3, ConstantsType DEF SomeUsed, AllUsed
  <2>5. /\ s \in Seq(Nat) /\ IsInjective(s) /\ ToSet(s) = SomeUsed(w) \cup {page}
        /\ Len(s) = Len(w.partial) + 1
    BY <1>2, <1>3, <2>4, InjAppend
  <2>6. h \in SUBSET Nat /\ h = AllUsed(w) \ {page}
    BY <1>2, <1>3
  <2> HIDE DEF s, h
  <2>7. /\ v \in WorldType /\ v.slab = w.slab /\ v.pages = w.pages /\ v.descs = w.descs
        /\ v.partial = s /\ v.full = h /\ v.empty = w.empty /\ v.count = c
    BY <1>1, <2>1, <2>2, <2>5, <2>6 DEF WorldType
  <2>8. WorldOK(v, o) /\ Out(v) = Out(w)
    BY <1>1, <2>1, <2>7, SameSlabs
  <2>9. Cardinality(AllUsed(w) \ {page}) = Cardinality(AllUsed(w)) - 1
    <3>1. AllUsed(w) \in SUBSET DOMAIN w.slab
      BY DEF AllUsed
    <3>2. IsFiniteSet(AllUsed(w))
      BY <1>1, <3>1, WorldFinite, FS_Subset
    <3> QED
      BY <2>4, <3>2, FS_RemoveElement
  <2>10. Queued(v, SomeUsed(w) \cup {page}, AllUsed(w) \ {page}, NoneUsed(w))
    BY <1>2, <2>1, <2>5, <2>6, <2>7, <2>9 DEF Queued
  <2> QED
    BY <2>7, <2>8, <2>10 DEF v
<1> QED
  BY <1>5, <1>6

\* A slab whose last object is back goes to slabs_free.
LEMMA EmptiedIs ==
  ASSUME NEW w, NEW o, WorldOK(w, o), NEW page \in DOMAIN w.slab,
         Queued(w, SomeUsed(w) \cup {page}, AllUsed(w), NoneUsed(w) \ {page})
  PROVE  w.slab[page].inuse < Num =>
           Sound(Emptied(w, page), o) /\ Out(Emptied(w, page)) = Out(w)
<1> DEFINE v == Emptied(w, page)
<1> SUFFICES ASSUME w.slab[page].inuse < Num PROVE Sound(v, o) /\ Out(v) = Out(w)
  OBVIOUS
<1>1. w \in WorldType /\ SlabsOK(w)
  BY DEF WorldOK
<1>2. /\ IsInjective(w.partial) /\ ToSet(w.partial) = SomeUsed(w) \cup {page}
      /\ w.count.partial = Len(w.partial)
      /\ w.full = AllUsed(w) /\ w.count.full = Cardinality(AllUsed(w))
      /\ IsInjective(w.empty) /\ ToSet(w.empty) = NoneUsed(w) \ {page}
      /\ w.count.free = Len(w.empty)
  BY DEF Queued
<1>3. /\ w.partial \in Seq(Nat) /\ w.empty \in Seq(Nat) /\ w.count \in CountType /\ page \in Nat
  BY <1>1, WorldFields, SlabFields
<1>4. w.slab[page].inuse \in 0 .. Num - 1
  <2>1. w.slab[page].inuse \in 0 .. Num
    BY <1>1, SlabCounts
  <2> QED
    BY <2>1, ConstantsType
<1>5. CASE w.slab[page].inuse > 0
  <2>1. v = w
    BY <1>5 DEF Emptied
  <2>2. SomeUsed(w) \cup {page} = SomeUsed(w) /\ NoneUsed(w) \ {page} = NoneUsed(w)
    BY <1>4, <1>5, ConstantsType DEF SomeUsed, NoneUsed
  <2> QED
    BY <2>1, <2>2 DEF Sound
<1>6. CASE ~ (w.slab[page].inuse > 0)
  <2> DEFINE c == [w.count EXCEPT !.partial = @ - 1, !.free = @ + 1]
             s == Unqueued(w.partial, page)
             t == <<page>> \o w.empty
  <2>1. /\ c \in CountType /\ c.partial = w.count.partial - 1 /\ c.full = w.count.full
        /\ c.free = w.count.free + 1 /\ c.free_objects = w.count.free_objects
    <3>1. w.count.partial - 1 \in Int /\ w.count.free + 1 \in Int
      BY <1>3 DEF CountType
    <3> QED
      BY <1>3, <3>1 DEF CountType
  <2>2. v = [w EXCEPT !.partial = s, !.empty = t, !.count = c]
    <3>1. v = [w EXCEPT !.partial = s, !.empty = t, !.count.partial = @ - 1, !.count.free = @ + 1]
      BY <1>6 DEF Emptied
    <3> HIDE DEF v, s, t
    <3> QED
      BY <1>1, <1>3, <3>1 DEF WorldType, CountType
  <2> HIDE DEF v, c
  <2>3. w.slab[page].inuse = 0
    BY <1>4, <1>6, ConstantsType
  <2>4. page \in NoneUsed(w) /\ page \notin SomeUsed(w)
    BY <2>3, ConstantsType DEF SomeUsed, NoneUsed
  <2>5. /\ s \in Seq(Nat) /\ IsInjective(s) /\ ToSet(s) = SomeUsed(w)
        /\ Len(s) = Len(w.partial) - 1
    <3>1. page \in ToSet(w.partial) /\ ToSet(w.partial) \ {page} = SomeUsed(w)
      BY <1>2, <2>4
    <3>2. w.partial \in Seq(Nat) /\ IsInjective(w.partial)
      BY <1>2, <1>3
    <3> HIDE DEF t
    <3>3. /\ s \in Seq(Nat) /\ IsInjective(s) /\ ToSet(s) = ToSet(w.partial) \ {page}
          /\ Len(s) = Len(w.partial) - 1
      BY <3>1, <3>2, InjUnqueued
    <3> QED
      BY <3>1, <3>3
  <2>6. /\ t \in Seq(Nat) /\ IsInjective(t) /\ ToSet(t) = NoneUsed(w)
        /\ Len(t) = Len(w.empty) + 1
    <3>1. page \notin ToSet(w.empty) /\ ToSet(w.empty) \cup {page} = NoneUsed(w)
      BY <1>2, <2>4
    <3>2. w.empty \in Seq(Nat) /\ IsInjective(w.empty)
      BY <1>2, <1>3
    <3> HIDE DEF s
    <3>3. /\ t \in Seq(Nat) /\ IsInjective(t) /\ ToSet(t) = ToSet(w.empty) \cup {page}
          /\ Len(t) = Len(w.empty) + 1
      BY <1>3, <3>1, <3>2, InjCons
    <3> QED
      BY <3>1, <3>3
  <2> HIDE DEF s, t
  <2>7. /\ v \in WorldType /\ v.slab = w.slab /\ v.pages = w.pages /\ v.descs = w.descs
        /\ v.partial = s /\ v.full = w.full /\ v.empty = t /\ v.count = c
    BY <1>1, <2>1, <2>2, <2>5, <2>6 DEF WorldType
  <2>8. /\ WorldOK(v, o) /\ Out(v) = Out(w)
        /\ SomeUsed(v) = SomeUsed(w) /\ AllUsed(v) = AllUsed(w) /\ NoneUsed(v) = NoneUsed(w)
    BY <2>1, <2>7, SameSlabs
  <2>9. Queued(v, SomeUsed(v), AllUsed(v), NoneUsed(v))
    BY <1>2, <2>1, <2>5, <2>6, <2>7, <2>8 DEF Queued
  <2> QED
    BY <2>8, <2>9 DEF Sound
<1> QED
  BY <1>5, <1>6

\* Half of the free slabs may go; there are as many as are counted.
LEMMA HalfIs ==
  ASSUME NEW w, NEW o, Sound(w, o)
  PROVE  /\ Sound(DrainList(w, w.count.free \div 2), o)
         /\ Out(DrainList(w, w.count.free \div 2)) = Out(w)
<1>1. w.count.free = Len(w.empty) /\ w.empty \in Seq(Nat)
  BY WorldFields DEF Sound, Queued, WorldOK
<1>2. Len(w.empty) \in Nat
  BY <1>1, SeqFacts
<1>3. w.count.free \div 2 \in 0 .. Len(w.empty)
  <2>1. \A n \in Nat : n \div 2 \in 0 .. n
    OBVIOUS
  <2> QED
    BY <1>1, <1>2, <2>1
<1> QED
  BY <1>3, DrainListIs

\* An object that comes back is free, and nothing else is.
LEMMA ListFreeIs ==
  ASSUME NEW w, NEW o, Sound(w, o), NEW ptr \in Out(w)
  PROVE  Sound(ListFree(w, ptr), o) /\ Out(ListFree(w, ptr)) = Out(w) \ {ptr}
<1> DEFINE page == ptr[1]
           k == ptr[2]
           u == Unfilled(w, page)
           v == With(u, page, k)
           e == Emptied(v, page)
<1>1. ptr = <<page, k>> /\ page \in DOMAIN w.slab
  BY DEF Out
<1>2. ListFree(w, ptr) = Drained(e)
  BY DEF ListFree, With
<1> HIDE DEF page, k
<1>3. WorldOK(w, o)
  BY DEF Sound
<1>4. w.slab[page].inuse \in 1 .. Num
  BY <1>1, <1>3, WithSound
<1>5. /\ WorldOK(u, o) /\ Out(u) = Out(w) /\ u.slab = w.slab
      /\ Queued(u, SomeUsed(w) \cup {page}, AllUsed(w) \ {page}, NoneUsed(w))
  BY <1>1, <1>4, UnfilledIs
<1> HIDE DEF u
<1>6. /\ WorldOK(v, o) /\ Out(v) = Out(u) \ {<<page, k>>}
      /\ DOMAIN v.slab = DOMAIN u.slab /\ SameLists(v, u)
      /\ \A p \in DOMAIN u.slab : p # page => v.slab[p] = u.slab[p]
      /\ v.slab[page].inuse = u.slab[page].inuse - 1
  BY <1>1, <1>5, WithSound
<1> HIDE DEF v
<1>7. v.slab[page].inuse \in 0 .. Num - 1
  BY <1>4, <1>5, <1>6, ConstantsType
<1>8. AllUsed(v) = AllUsed(w) \ {page}
  BY <1>5, <1>6, <1>7, ConstantsType DEF AllUsed
<1>9. SomeUsed(v) \cup {page} = SomeUsed(w) \cup {page}
  BY <1>1, <1>5, <1>6 DEF SomeUsed
<1>10. NoneUsed(v) \ {page} = NoneUsed(w)
  BY <1>1, <1>4, <1>5, <1>6, ConstantsType DEF NoneUsed
<1>11. Queued(v, SomeUsed(v) \cup {page}, AllUsed(v), NoneUsed(v) \ {page})
  BY <1>5, <1>6, <1>8, <1>9, <1>10 DEF Queued, SameLists
<1>12. Sound(e, o) /\ Out(e) = Out(v)
  <2>1. v.slab[page].inuse < Num /\ page \in DOMAIN v.slab
    BY <1>1, <1>5, <1>6, <1>7, ConstantsType
  <2> QED
    BY <1>6, <1>11, <2>1, EmptiedIs
<1> HIDE DEF e
<1>13. Sound(Drained(e), o) /\ Out(Drained(e)) = Out(e)
  BY <1>12, HalfIs DEF Drained
<1> QED
  BY <1>1, <1>2, <1>5, <1>6, <1>12, <1>13

-----------------------------------------------------------------------------
(* Several objects.                                                        *)

\* The function that imemcache_fill_batch evaluates,
OneMore(r) ==
  LET one == ListAlloc(r.world) IN [world |-> one.world, ptrs |-> Append(r.ptrs, one.ptr)]
Fills(w, n, f) ==
  f = [k \in 0 .. n |-> IF k = 0 THEN [world |-> w, ptrs |-> <<>>] ELSE OneMore(f[k - 1])]

\* which there is.
LEMMA FillsExist ==
  ASSUME NEW w, NEW n \in Nat
  PROVE  \E f : Fills(w, n, f)
<1> DEFINE T == {m \in Nat : \E f : Fills(w, m, f)}
<1>1. 0 \in T
  <2>1. Fills(w, 0, [k \in 0 .. 0 |-> [world |-> w, ptrs |-> <<>>]])
    BY DEF Fills
  <2> QED
    BY <2>1
<1>2. ASSUME NEW m \in Nat, m \in T PROVE m + 1 \in T
  <2>1. PICK f : Fills(w, m, f)
    BY <1>2
  <2> DEFINE g == [k \in 0 .. m + 1 |-> IF k = m + 1 THEN OneMore(f[m]) ELSE f[k]]
  <2>2. \A k \in 0 .. m : f[k] = IF k = 0 THEN [world |-> w, ptrs |-> <<>>] ELSE OneMore(f[k - 1])
    BY <2>1 DEF Fills
  <2>3. ASSUME NEW k \in 0 .. m + 1 PROVE g[k] = IF k = 0 THEN [world |-> w, ptrs |-> <<>>] ELSE OneMore(g[k - 1])
    <3>1. CASE k = m + 1
      <4>1. k # 0 /\ k - 1 \in 0 .. m + 1 /\ k - 1 # m + 1 /\ k - 1 = m
        BY <3>1
      <4>2. g[k - 1] = f[m]
        BY <4>1
      <4> QED
        BY <3>1, <4>1, <4>2
    <3>2. CASE k # m + 1
      <4>1. k \in 0 .. m /\ (k # 0 => k - 1 \in 0 .. m + 1 /\ k - 1 # m + 1)
        BY <3>2
      <4>2. k # 0 => g[k - 1] = f[k - 1]
        BY <4>1
      <4> QED
        BY <2>2, <3>2, <4>1, <4>2
    <3> QED
      BY <3>1, <3>2
  <2>4. Fills(w, m + 1, g)
    <3>1. g = [k \in 0 .. m + 1 |-> g[k]]
      OBVIOUS
    <3> HIDE DEF g
    <3> QED
      BY <2>3, <3>1 DEF Fills
  <2> QED
    BY <2>4
<1> HIDE DEF T
<1>3. Nat \subseteq T
  BY <1>1, <1>2, NatAll
<1> QED
  BY <1>3 DEF T

\* A batch is of n objects that were free, each once.
LEMMA FilledIs ==
  ASSUME NEW w, NEW o, Sound(w, o), NEW n \in Nat
  PROVE  LET r == Filled(w, n)
         IN  /\ Sound(r.world, o)
             /\ r.ptrs \in Seq(Objects) /\ IsInjective(r.ptrs)
             /\ ToSet(r.ptrs) \cap Out(w) = {} /\ Out(r.world) = Out(w) \cup ToSet(r.ptrs)
<1> DEFINE f == CHOOSE f : Fills(w, n, f)
<1>1. Fills(w, n, f)
  BY FillsExist
<1>2. Filled(w, n) = f[n]
  BY DEF Filled, Fills, OneMore
<1> HIDE DEF f
<1>3. \A k \in 0 .. n : f[k] = IF k = 0 THEN [world |-> w, ptrs |-> <<>>] ELSE OneMore(f[k - 1])
  BY <1>1 DEF Fills
<1> DEFINE Good(r) ==
             /\ Sound(r.world, o)
             /\ r.ptrs \in Seq(Objects) /\ IsInjective(r.ptrs)
             /\ ToSet(r.ptrs) \cap Out(w) = {} /\ Out(r.world) = Out(w) \cup ToSet(r.ptrs)
           T == {k \in Nat : k <= n => Good(f[k])}
<1>4. 0 \in T
  <2>1. f[0].world = w /\ f[0].ptrs = <<>>
    BY <1>3
  <2>2. <<>> \in Seq(Objects) /\ ToSet(<<>>) = {} /\ IsInjective(<<>>)
    BY DEF ToSet, IsInjective
  <2> QED
    BY <2>1, <2>2
<1>5. ASSUME NEW r, Good(r) PROVE Good(OneMore(r))
  <2> DEFINE one == ListAlloc(r.world)
             s == r.ptrs
  <2>1. /\ Sound(one.world, o) /\ one.ptr \in Objects
        /\ one.ptr \notin Out(r.world) /\ Out(one.world) = Out(r.world) \cup {one.ptr}
    BY <1>5, ListAllocIs
  <2>2. OneMore(r).world = one.world /\ OneMore(r).ptrs = Append(s, one.ptr)
    BY DEF OneMore
  <2> HIDE DEF one
  <2>3. /\ s \in Seq(Objects) /\ IsInjective(s) /\ one.ptr \notin ToSet(s)
        /\ ToSet(s) \cap Out(w) = {} /\ Out(r.world) = Out(w) \cup ToSet(s)
    BY <1>5, <2>1
  <2> HIDE DEF s
  <2>4. /\ Append(s, one.ptr) \in Seq(Objects) /\ IsInjective(Append(s, one.ptr))
        /\ ToSet(Append(s, one.ptr)) = ToSet(s) \cup {one.ptr}
    BY <2>1, <2>3, InjAppend
  <2> QED
    BY <2>1, <2>2, <2>3, <2>4
<1> HIDE DEF Good
<1>6. ASSUME NEW k \in Nat, k \in T PROVE k + 1 \in T
  <2> SUFFICES ASSUME k + 1 <= n PROVE Good(f[k + 1])
    OBVIOUS
  <2>1. k <= n /\ k + 1 \in 0 .. n /\ k + 1 # 0 /\ (k + 1) - 1 = k
    OBVIOUS
  <2>2. Good(f[k]) /\ f[k + 1] = OneMore(f[k])
    BY <1>3, <1>6, <2>1
  <2> QED
    BY <1>5, <2>2
<1> HIDE DEF T
<1>7. Nat \subseteq T
  BY <1>4, <1>6, NatAll
<1>8. Good(f[n])
  BY <1>7 DEF T
<1> QED
  BY <1>2, <1>8 DEF Good

\* The function that a call of free() evaluates, on the last m objects,
Frees(w, ptrs, m, f) ==
  f = [k \in 0 .. m |-> IF k = 0 THEN w ELSE ListFree(f[k - 1], ptrs[Len(ptrs) - k + 1])]

\* which there is.
LEMMA FreesExist ==
  ASSUME NEW w, NEW ptrs, NEW n \in Nat
  PROVE  \E f : Frees(w, ptrs, n, f)
<1> DEFINE T == {m \in Nat : \E f : Frees(w, ptrs, m, f)}
<1>1. 0 \in T
  <2>1. Frees(w, ptrs, 0, [k \in 0 .. 0 |-> w])
    BY DEF Frees
  <2> QED
    BY <2>1
<1>2. ASSUME NEW m \in Nat, m \in T PROVE m + 1 \in T
  <2>1. PICK f : Frees(w, ptrs, m, f)
    BY <1>2
  <2> DEFINE g == [k \in 0 .. m + 1 |-> IF k = m + 1 THEN ListFree(f[m], ptrs[Len(ptrs) - (m + 1) + 1]) ELSE f[k]]
  <2>2. \A k \in 0 .. m : f[k] = IF k = 0 THEN w ELSE ListFree(f[k - 1], ptrs[Len(ptrs) - k + 1])
    BY <2>1 DEF Frees
  <2>3. ASSUME NEW k \in 0 .. m + 1 PROVE g[k] = IF k = 0 THEN w ELSE ListFree(g[k - 1], ptrs[Len(ptrs) - k + 1])
    <3>1. CASE k = m + 1
      <4>1. k # 0 /\ k - 1 \in 0 .. m + 1 /\ k - 1 # m + 1 /\ k - 1 = m
        BY <3>1
      <4>2. g[k - 1] = f[m]
        BY <4>1
      <4> QED
        BY <3>1, <4>1, <4>2
    <3>2. CASE k # m + 1
      <4>1. k \in 0 .. m /\ (k # 0 => k - 1 \in 0 .. m + 1 /\ k - 1 # m + 1)
        BY <3>2
      <4>2. k # 0 => g[k - 1] = f[k - 1]
        BY <4>1
      <4> QED
        BY <2>2, <3>2, <4>1, <4>2
    <3> QED
      BY <3>1, <3>2
  <2>4. Frees(w, ptrs, m + 1, g)
    <3>1. g = [k \in 0 .. m + 1 |-> g[k]]
      OBVIOUS
    <3> HIDE DEF g
    <3> QED
      BY <2>3, <3>1 DEF Frees
  <2> QED
    BY <2>4
<1> HIDE DEF T
<1>3. Nat \subseteq T
  BY <1>1, <1>2, NatAll
<1> QED
  BY <1>3 DEF T

\* Objects that come back, each once, are free, and nothing else is.
LEMMA FreeAllIs ==
  ASSUME NEW w, NEW o, Sound(w, o),
         NEW ptrs \in Seq(Objects), IsInjective(ptrs), ToSet(ptrs) \subseteq Out(w)
  PROVE  Sound(FreeAll(w, ptrs), o) /\ Out(FreeAll(w, ptrs)) = Out(w) \ ToSet(ptrs)
<1> DEFINE n == Len(ptrs)
           f == CHOOSE f : Frees(w, ptrs, n, f)
           Back(k) == {ptrs[i] : i \in n - k + 1 .. n}
<1>1. /\ n \in Nat /\ ToSet(ptrs) = {ptrs[i] : i \in 1 .. n}
      /\ \A i, j \in 1 .. n : ptrs[i] = ptrs[j] => i = j
  BY SeqFacts
<1>2. Frees(w, ptrs, n, f)
  BY <1>1, FreesExist
<1>3. FreeAll(w, ptrs) = f[n]
  BY DEF FreeAll, Frees
<1> HIDE DEF f
<1>4. \A k \in 0 .. n : f[k] = IF k = 0 THEN w ELSE ListFree(f[k - 1], ptrs[n - k + 1])
  BY <1>2 DEF Frees
<1> HIDE DEF n
<1> DEFINE Good(k) == Sound(f[k], o) /\ Out(f[k]) = Out(w) \ Back(k)
           T == {k \in Nat : k <= n => Good(k)}
<1>5. 0 \in T
  <2>1. f[0] = w /\ n - 0 + 1 .. n = {}
    BY <1>1, <1>4
  <2>2. Back(0) = {}
    BY <2>1
  <2> QED
    BY <2>1, <2>2
<1>6. ASSUME NEW k \in Nat, k \in T PROVE k + 1 \in T
  <2> SUFFICES ASSUME k + 1 <= n PROVE Good(k + 1)
    OBVIOUS
  <2> DEFINE ptr == ptrs[n - (k + 1) + 1]
  <2>1. /\ k <= n /\ k + 1 \in 0 .. n /\ k + 1 # 0 /\ (k + 1) - 1 = k
        /\ n - (k + 1) + 1 \in 1 .. n /\ n - k + 1 .. n \subseteq 1 .. n
        /\ n - (k + 1) + 1 \notin n - k + 1 .. n
        /\ n - (k + 1) + 1 .. n = (n - k + 1 .. n) \cup {n - (k + 1) + 1}
    BY <1>1
  <2>2. Good(k) /\ f[k + 1] = ListFree(f[k], ptr)
    BY <1>4, <1>6, <2>1
  <2>3. ptr \in Out(w) /\ ptr \notin Back(k)
    BY <1>1, <2>1, SMTT(30)
  <2>4. Back(k + 1) = Back(k) \cup {ptr}
    BY <2>1
  <2> HIDE DEF ptr, Back
  <2>5. ptr \in Out(f[k])
    BY <2>2, <2>3
  <2>6. Sound(f[k + 1], o) /\ Out(f[k + 1]) = Out(f[k]) \ {ptr}
    BY <2>2, <2>5, ListFreeIs
  <2> QED
    BY <2>2, <2>4, <2>6
<1> HIDE DEF T, Good
<1>7. Nat \subseteq T
  BY <1>5, <1>6, NatAll
<1>8. Good(n)
  BY <1>1, <1>7 DEF T
<1>9. Back(n) = ToSet(ptrs)
  <2>1. n - n + 1 = 1
    BY <1>1
  <2> QED
    BY <1>1, <2>1
<1> QED
  BY <1>3, <1>8, <1>9 DEF Good

-----------------------------------------------------------------------------
(* The calls.                                                              *)

\* A critical section leaves the world that it computes.
LEMMA BecomeIs ==
  ASSUME NEW w \in WorldType, Become(w)
  PROVE  World' = w
<1>1. w = [slab |-> w.slab, partial |-> w.partial, full |-> w.full, empty |-> w.empty,
           count |-> w.count, pages |-> w.pages, descs |-> w.descs]
  BY DEF WorldType
<1> QED
  BY <1>1 DEF World, Become

\* A pair is not the empty sequence.
LEMMA NotNoObject == NoObject \notin Objects
<1>1. \A p, k : <<p, k>> # <<>>
  OBVIOUS
<1> QED
  BY <1>1 DEF NoObject, Objects

\* The objects in the other arrays, and in the other calls.
InOthers(i) == UNION {ToSet(array[j]) : j \in Array \ {i}}
ByOthers(t) == {call[u].obj : u \in Thread \ {t}} \ {NoObject}

\* Only one array changes.
LEMMA ArrayIs ==
  ASSUME NEW i \in Array, array \in [Array -> Seq(Objects)], ArraysApart
  PROVE  /\ InArrays = ToSet(array[i]) \cup InOthers(i)
         /\ ToSet(array[i]) \cap InOthers(i) = {} /\ IsInjective(array[i])
BY DEF InArrays, InOthers, ArraysApart

\* The other arrays keep what they have.
LEMMA ArrayStep ==
  ASSUME NEW i \in Array, array \in [Array -> Seq(Objects)], ArraysApart,
         NEW s \in Seq(Objects), IsInjective(s), ToSet(s) \cap InOthers(i) = {},
         array' = [array EXCEPT ![i] = s]
  PROVE  /\ array' \in [Array -> Seq(Objects)] /\ ArraysApart'
         /\ InArrays' = ToSet(s) \cup InOthers(i)
<1>1. /\ array' \in [Array -> Seq(Objects)] /\ array'[i] = s
      /\ \A j \in Array : j # i => array'[j] = array[j]
  OBVIOUS
<1>2. \A j \in Array : j # i => ToSet(array[j]) \subseteq InOthers(i)
  BY DEF InOthers
<1>3. ArraysApart'
  BY <1>1, <1>2 DEF ArraysApart
<1>4. InArrays' = ToSet(s) \cup InOthers(i)
  BY <1>1 DEF InArrays, InOthers
<1> QED
  BY <1>1, <1>3, <1>4

\* Only one call changes.
LEMMA CallIs ==
  ASSUME NEW t \in Thread, CallsApart
  PROVE  /\ Returning = ByOthers(t) \cup ({call[t].obj} \ {NoObject})
         /\ call[t].obj \notin ByOthers(t)
BY DEF Returning, ByOthers, CallsApart

\* The other calls keep what they free.
LEMMA CallStep ==
  ASSUME NEW t \in Thread, call \in [Thread -> CallType], CallsApart,
         NEW c \in CallType, c.obj \notin ByOthers(t), call' = [call EXCEPT ![t] = c]
  PROVE  /\ call' \in [Thread -> CallType] /\ CallsApart'
         /\ Returning' = ByOthers(t) \cup ({c.obj} \ {NoObject})
<1>1. /\ call' \in [Thread -> CallType] /\ call'[t] = c
      /\ \A u \in Thread : u # t => call'[u] = call[u]
  OBVIOUS
<1>2. \A u \in Thread : u # t /\ call[u].obj # NoObject => call[u].obj \in ByOthers(t)
  BY DEF ByOthers
<1>3. CallsApart'
  BY <1>1, <1>2 DEF CallsApart
<1>4. Returning' = ByOthers(t) \cup ({c.obj} \ {NoObject})
  BY <1>1 DEF Returning, ByOthers
<1> QED
  BY <1>1, <1>3, <1>4

\* What the invariant says of the array and the call of a thread.
LEMMA ThreadFacts ==
  ASSUME Inv, NEW t \in Thread
  PROVE  /\ cpu[t] \in Array /\ array[cpu[t]] \in Seq(Objects) /\ call[t] \in CallType
         /\ Out(World) \subseteq Objects
         /\ InArrays = ToSet(array[cpu[t]]) \cup InOthers(cpu[t])
         /\ ToSet(array[cpu[t]]) \cap InOthers(cpu[t]) = {} /\ IsInjective(array[cpu[t]])
         /\ Returning = ByOthers(t) \cup ({call[t].obj} \ {NoObject})
         /\ call[t].obj \notin ByOthers(t)
<1>1. /\ cpu[t] \in Array /\ array \in [Array -> Seq(Objects)] /\ call[t] \in CallType
      /\ ArraysApart /\ CallsApart
  BY DEF Inv, TypeOK, Shared
<1>2. Out(World) \subseteq Objects
  <2>1. World \in WorldType
    BY DEF Inv, Sound, WorldOK
  <2>2. DOMAIN World.slab \subseteq Nat
    BY <2>1, WorldFields, SlabsFacts
  <2> QED
    BY <2>2 DEF Out, Objects
<1> QED
  BY <1>1, <1>2, ArrayIs, CallIs

\* The lists do not change.
LEMMA SameWorld ==
  ASSUME UNCHANGED lists
  PROVE  World' = World
BY DEF World, lists

\* The calls and the steps of the other caches, one by one: a call begins with
\* nothing to free,
LEMMA MallocStep ==
  ASSUME Inv, NEW t \in Thread, Malloc(t)
  PROVE  Inv'
<1> DEFINE c == [op |-> "alloc", obj |-> NoObject]
<1>1. /\ call[t] = Idle /\ call' = [call EXCEPT ![t] = c]
      /\ UNCHANGED lists /\ UNCHANGED <<array, cpu, held, other>>
  BY DEF Malloc, Begin
<1>2. c \in CallType /\ c.obj \notin ByOthers(t) /\ c.obj = NoObject
  BY DEF CallType, ByOthers
<1> HIDE DEF c
<1>3. TypeOK /\ Sound(World, other) /\ Shared
  BY DEF Inv
<1>4. /\ call' \in [Thread -> CallType] /\ CallsApart'
      /\ Returning' = ByOthers(t) \cup ({c.obj} \ {NoObject})
  BY <1>1, <1>2, <1>3, CallStep DEF TypeOK, Shared
<1>5. Returning = ByOthers(t) \cup ({call[t].obj} \ {NoObject}) /\ call[t].obj = NoObject
  BY <1>1, ThreadFacts DEF Idle
<1>6. Returning' = Returning
  BY <1>2, <1>4, <1>5
<1>7. World' = World
  BY <1>1, SameWorld
<1>8. InArrays' = InArrays /\ ArraysApart'
  BY <1>1, <1>3 DEF InArrays, ArraysApart, Shared
<1>9. TypeOK'
  BY <1>1, <1>3, <1>4 DEF TypeOK
<1>10. Shared'
  BY <1>1, <1>3, <1>4, <1>6, <1>7, <1>8 DEF Shared
<1> QED
  BY <1>1, <1>3, <1>7, <1>9, <1>10 DEF Inv

\* or with an object that the program gives up.
LEMMA FreeStep ==
  ASSUME Inv, NEW t \in Thread, Free(t)
  PROVE  Inv'
<1>1. PICK ptr \in held : Begin(t, "free", ptr) /\ held' = held \ {ptr}
  BY DEF Free
<1> DEFINE c == [op |-> "free", obj |-> ptr]
<1>2. /\ call[t] = Idle /\ call' = [call EXCEPT ![t] = c]
      /\ UNCHANGED lists /\ UNCHANGED <<array, cpu, other>>
  BY <1>1 DEF Free, Begin
<1>3. TypeOK /\ Sound(World, other) /\ Shared
  BY DEF Inv
<1>4. ptr \in Objects /\ ptr # NoObject /\ ptr \notin InArrays \cup Returning
  BY <1>1, <1>3, NotNoObject, ThreadFacts DEF Shared
<1>5. Returning = ByOthers(t)
  <2>1. Returning = ByOthers(t) \cup ({call[t].obj} \ {NoObject})
    BY ThreadFacts
  <2>2. call[t].obj = NoObject
    BY <1>2 DEF Idle
  <2> QED
    BY <2>1, <2>2
<1>6. c \in CallType /\ c.obj \notin ByOthers(t) /\ c.obj = ptr
  BY <1>4, <1>5 DEF CallType
<1> HIDE DEF c
<1>7. /\ call' \in [Thread -> CallType] /\ CallsApart'
      /\ Returning' = ByOthers(t) \cup ({c.obj} \ {NoObject})
  BY <1>2, <1>3, <1>6, CallStep DEF TypeOK, Shared
<1>8. Returning' = Returning \cup {ptr}
  BY <1>4, <1>5, <1>6, <1>7
<1>9. World' = World
  BY <1>2, SameWorld
<1>10. InArrays' = InArrays /\ ArraysApart'
  BY <1>2, <1>3 DEF InArrays, ArraysApart, Shared
<1>11. TypeOK'
  BY <1>2, <1>3, <1>7 DEF TypeOK
<1>12. Shared'
  BY <1>1, <1>3, <1>4, <1>7, <1>8, <1>9, <1>10 DEF Shared
<1> QED
  BY <1>2, <1>3, <1>9, <1>11, <1>12 DEF Inv

\* An empty array is filled with objects that are nowhere else.
LEMMA FillStep ==
  ASSUME Inv, NEW t \in Thread, FillBatch(t)
  PROVE  Inv'
<1> DEFINE r == Filled(World, Batch)
           i == cpu[t]
<1>1. /\ array[i] = <<>> /\ Become(r.world) /\ array' = [array EXCEPT ![i] = r.ptrs]
      /\ UNCHANGED <<holder, cpu, call, held, other>>
  BY DEF FillBatch
<1>2. TypeOK /\ Sound(World, other) /\ Shared
  BY DEF Inv
<1>3. Batch \in Nat
  <2>1. \A n \in Nat : n \div 2 \in Nat
    OBVIOUS
  <2> QED
    BY <2>1, ConstantsType DEF Batch
<1>4. /\ Sound(r.world, other)
      /\ r.ptrs \in Seq(Objects) /\ IsInjective(r.ptrs)
      /\ ToSet(r.ptrs) \cap Out(World) = {}
      /\ Out(r.world) = Out(World) \cup ToSet(r.ptrs)
  BY <1>2, <1>3, FilledIs
<1> HIDE DEF r
<1>5. i \in Array /\ InArrays = ToSet(array[i]) \cup InOthers(i)
  BY ThreadFacts
<1>6. ToSet(array[i]) = {}
  BY <1>1 DEF ToSet
<1> HIDE DEF i
<1>7. InArrays = InOthers(i) /\ ToSet(r.ptrs) \cap InOthers(i) = {}
  BY <1>2, <1>4, <1>5, <1>6 DEF Shared
<1>8. /\ array' \in [Array -> Seq(Objects)] /\ ArraysApart'
      /\ InArrays' = ToSet(r.ptrs) \cup InOthers(i)
  BY <1>1, <1>2, <1>4, <1>5, <1>7, ArrayStep DEF TypeOK, Shared
<1>9. World' = r.world
  BY <1>1, <1>4, BecomeIs DEF Sound, WorldOK
<1>10. Returning' = Returning /\ CallsApart'
  BY <1>1, <1>2 DEF Returning, CallsApart, Shared
<1>11. TypeOK'
  BY <1>1, <1>2, <1>8 DEF TypeOK
<1>12. Shared'
  BY <1>1, <1>2, <1>4, <1>7, <1>8, <1>9, <1>10 DEF Shared
<1> QED
  BY <1>1, <1>4, <1>9, <1>11, <1>12 DEF Inv

\* The end of a call.
LEMMA ReturnIs ==
  ASSUME Inv, NEW t \in Thread, Return(t)
  PROVE  call' \in [Thread -> CallType] /\ CallsApart' /\ Returning' = ByOthers(t)
<1>1. Idle \in CallType /\ Idle.obj \notin ByOthers(t) /\ Idle.obj = NoObject
  BY DEF Idle, CallType, ByOthers
<1>2. call' = [call EXCEPT ![t] = Idle]
  BY DEF Return
<1>3. /\ call' \in [Thread -> CallType] /\ CallsApart'
      /\ Returning' = ByOthers(t) \cup ({Idle.obj} \ {NoObject})
  BY <1>1, <1>2, CallStep DEF Inv, TypeOK, Shared
<1> QED
  BY <1>1, <1>3

\* The last object of an array goes to the program,
LEMMA TakeStep ==
  ASSUME Inv, NEW t \in Thread, Take(t)
  PROVE  Inv'
<1> DEFINE i == cpu[t]
           s == array[i]
<1>1. /\ call[t].op = "alloc" /\ s # <<>> /\ held' = held \cup {Last(s)}
      /\ array' = [array EXCEPT ![i] = Front(s)] /\ Return(t)
      /\ UNCHANGED lists /\ UNCHANGED <<cpu, other>>
  BY DEF Take
<1>2. TypeOK /\ Sound(World, other) /\ Shared
  BY DEF Inv
<1>3. /\ i \in Array /\ s \in Seq(Objects) /\ IsInjective(s)
      /\ InArrays = ToSet(s) \cup InOthers(i) /\ ToSet(s) \cap InOthers(i) = {}
  BY ThreadFacts
<1>4. Returning = ByOthers(t)
  BY <1>1, ThreadFacts DEF CallType
<1> HIDE DEF s, i
<1>5. /\ Last(s) \in ToSet(s) /\ Front(s) \in Seq(Objects) /\ IsInjective(Front(s))
      /\ ToSet(Front(s)) = ToSet(s) \ {Last(s)}
  BY <1>1, <1>3, InjFront
<1> DEFINE f == Front(s)
<1> HIDE DEF f
<1>6. /\ f \in Seq(Objects) /\ IsInjective(f) /\ ToSet(f) = ToSet(s) \ {Last(s)}
      /\ array' = [array EXCEPT ![i] = f] /\ ToSet(f) \cap InOthers(i) = {}
  BY <1>1, <1>3, <1>5 DEF f
<1>7. /\ array' \in [Array -> Seq(Objects)] /\ ArraysApart'
      /\ InArrays' = ToSet(f) \cup InOthers(i)
  BY <1>2, <1>3, <1>6, ArrayStep DEF TypeOK, Shared
<1>8. InArrays' = InArrays \ {Last(s)} /\ Last(s) \in InArrays
  BY <1>3, <1>5, <1>6, <1>7
<1>9. call' \in [Thread -> CallType] /\ CallsApart' /\ Returning' = Returning
  BY <1>1, <1>4, ReturnIs
<1>10. World' = World
  BY <1>1, SameWorld
<1>11. TypeOK'
  BY <1>1, <1>2, <1>7, <1>9 DEF TypeOK
<1>12. Shared'
  BY <1>1, <1>2, <1>7, <1>8, <1>9, <1>10 DEF Shared
<1> QED
  BY <1>1, <1>2, <1>10, <1>11, <1>12 DEF Inv

\* and a freed one comes after the last.
LEMMA PutStep ==
  ASSUME Inv, NEW t \in Thread, Put(t)
  PROVE  Inv'
<1> DEFINE i == cpu[t]
           s == array[i]
           x == call[t].obj
<1>1. /\ call[t].op = "free" /\ array' = [array EXCEPT ![i] = Append(s, x)] /\ Return(t)
      /\ UNCHANGED lists /\ UNCHANGED <<cpu, held, other>>
  BY DEF Put
<1>2. TypeOK /\ Sound(World, other) /\ Shared
  BY DEF Inv
<1>3. /\ i \in Array /\ s \in Seq(Objects) /\ IsInjective(s)
      /\ InArrays = ToSet(s) \cup InOthers(i) /\ ToSet(s) \cap InOthers(i) = {}
  BY ThreadFacts
<1>4. x \in Objects /\ x # NoObject /\ Returning = ByOthers(t) \cup {x} /\ x \notin ByOthers(t)
  BY <1>1, ThreadFacts DEF CallType
<1> HIDE DEF s, i, x
<1>5. x \notin InArrays /\ x \notin ToSet(s)
  BY <1>2, <1>3, <1>4 DEF Shared
<1> DEFINE f == Append(s, x)
<1>6. f \in Seq(Objects) /\ IsInjective(f) /\ ToSet(f) = ToSet(s) \cup {x}
  BY <1>3, <1>4, <1>5, InjAppend
<1>7. array' = [array EXCEPT ![i] = f]
  BY <1>1
<1> HIDE DEF f
<1>8. ToSet(f) \cap InOthers(i) = {}
  BY <1>3, <1>5, <1>6
<1>9. /\ array' \in [Array -> Seq(Objects)] /\ ArraysApart'
      /\ InArrays' = ToSet(f) \cup InOthers(i)
  BY <1>2, <1>3, <1>6, <1>7, <1>8, ArrayStep DEF TypeOK, Shared
<1>10. InArrays' = InArrays \cup {x}
  BY <1>3, <1>6, <1>9
<1>11. call' \in [Thread -> CallType] /\ CallsApart' /\ Returning' = ByOthers(t)
  BY <1>1, ReturnIs
<1>12. World' = World
  BY <1>1, SameWorld
<1>13. TypeOK'
  BY <1>1, <1>2, <1>9, <1>11 DEF TypeOK
<1>14. Shared'
  BY <1>1, <1>2, <1>4, <1>5, <1>9, <1>10, <1>11, <1>12 DEF Shared
<1> QED
  BY <1>1, <1>2, <1>12, <1>13, <1>14 DEF Inv

\* Of a full array the first half stays; the freed object and the other half go
\* back to their slabs.
LEMMA FlushStep ==
  ASSUME Inv, NEW t \in Thread, Flush(t)
  PROVE  Inv'
<1> DEFINE i    == cpu[t]
           mine == array[i]
           n    == Len(mine)
           x    == call[t].obj
           over == SubSeq(mine, Batch + 1, n)
           keep == SubSeq(mine, 1, Batch)
           ptrs == <<x>> \o over
           w    == FreeAll(World, ptrs)
           c    == [op |-> "drain", obj |-> NoObject]
<1>1. /\ call[t].op = "free" /\ n >= Limit /\ Become(w)
      /\ array' = [array EXCEPT ![i] = keep] /\ call' = [call EXCEPT ![t] = c]
      /\ UNCHANGED <<holder, cpu, held, other>>
  BY DEF Flush
<1>2. TypeOK /\ Sound(World, other) /\ Shared
  BY DEF Inv
<1>3. /\ i \in Array /\ mine \in Seq(Objects) /\ IsInjective(mine)
      /\ InArrays = ToSet(mine) \cup InOthers(i) /\ ToSet(mine) \cap InOthers(i) = {}
  BY ThreadFacts
<1>4. x \in Objects /\ x # NoObject /\ Returning = ByOthers(t) \cup {x} /\ x \notin ByOthers(t)
  BY <1>1, ThreadFacts DEF CallType
<1>5. c \in CallType /\ c.obj \notin ByOthers(t) /\ c.obj = NoObject
  BY DEF CallType, ByOthers
<1> HIDE DEF c, w, i, x
<1>6. n \in Nat /\ ToSet(mine) = {mine[j] : j \in 1 .. n}
      /\ \A j, k \in 1 .. n : mine[j] = mine[k] => j = k
  BY <1>3, SeqFacts
<1>7. Batch \in 0 .. n
  <2>1. \A m \in Nat : m \div 2 \in 0 .. m
    OBVIOUS
  <2>2. Limit \in Nat /\ Batch \in 0 .. Limit
    BY <2>1, ConstantsType DEF Batch
  <2> QED
    BY <1>1, <1>6, <2>2
<1>8. /\ Batch + 1 \in 1 .. n + 1 /\ n \in 0 .. n /\ Batch + 1 <= n + 1
      /\ 1 \in 1 .. n + 1 /\ 1 <= Batch + 1
      /\ 1 .. n = (1 .. Batch) \cup (Batch + 1 .. n)
      /\ (1 .. Batch) \cap (Batch + 1 .. n) = {}
  BY <1>6, <1>7
<1>9. /\ over \in Seq(Objects) /\ IsInjective(over)
      /\ ToSet(over) = {mine[j] : j \in Batch + 1 .. n}
  BY <1>3, <1>8, InjPart, SMTT(30)
<1>10. /\ keep \in Seq(Objects) /\ IsInjective(keep)
       /\ ToSet(keep) = {mine[j] : j \in 1 .. Batch}
  BY <1>3, <1>7, <1>8, InjPart, SMTT(30)
<1> HIDE DEF over, keep, mine, n
<1>11. ToSet(mine) = ToSet(keep) \cup ToSet(over) /\ ToSet(keep) \cap ToSet(over) = {}
  BY <1>6, <1>8, <1>9, <1>10
<1>12. x \notin InArrays /\ x \notin ToSet(over)
  BY <1>2, <1>3, <1>4, <1>11 DEF Shared
<1>13. ptrs \in Seq(Objects) /\ IsInjective(ptrs) /\ ToSet(ptrs) = ToSet(over) \cup {x}
  BY <1>4, <1>9, <1>12, InjCons
<1> HIDE DEF ptrs
<1>14. ToSet(ptrs) \subseteq Out(World)
  BY <1>2, <1>3, <1>4, <1>11, <1>13 DEF Shared
<1>15. Sound(w, other) /\ Out(w) = Out(World) \ ToSet(ptrs)
  BY <1>2, <1>13, <1>14, FreeAllIs DEF w
<1>16. World' = w
  BY <1>1, <1>15, BecomeIs DEF Sound, WorldOK
<1>17. ToSet(keep) \cap InOthers(i) = {}
  BY <1>3, <1>11
<1>18. /\ array' \in [Array -> Seq(Objects)] /\ ArraysApart'
       /\ InArrays' = ToSet(keep) \cup InOthers(i)
  BY <1>1, <1>2, <1>3, <1>10, <1>17, ArrayStep DEF TypeOK, Shared
<1>19. InArrays' = InArrays \ ToSet(over) /\ ToSet(over) \subseteq InArrays
  BY <1>3, <1>11, <1>18
<1>20. /\ call' \in [Thread -> CallType] /\ CallsApart'
       /\ Returning' = ByOthers(t) \cup ({c.obj} \ {NoObject})
  BY <1>1, <1>2, <1>5, CallStep DEF TypeOK, Shared
<1>21. Returning' = Returning \ {x} /\ x \in Returning
  BY <1>4, <1>5, <1>20
<1>22. TypeOK'
  BY <1>1, <1>2, <1>18, <1>20 DEF TypeOK
<1>23. held' = held /\ Out(World)' = Out(World) \ (ToSet(over) \cup {x})
  BY <1>1, <1>13, <1>15, <1>16
<1>24. Shared'
  BY <1>2, <1>12, <1>18, <1>19, <1>20, <1>21, <1>23 DEF Shared
<1> QED
  BY <1>1, <1>15, <1>16, <1>22, <1>24 DEF Inv

\* Free slabs go, or nothing happens: no object moves.
LEMMA DrainStep ==
  ASSUME Inv, NEW t \in Thread, Drain(t)
  PROVE  Inv'
<1> DEFINE w == DrainList(World, count.free \div 2)
<1>1. /\ call[t].op = "drain" /\ (UNCHANGED lists \/ Become(w)) /\ Return(t)
      /\ UNCHANGED <<array, cpu, held, other>>
  BY DEF Drain
<1>2. TypeOK /\ Sound(World, other) /\ Shared
  BY DEF Inv
<1>3. Sound(w, other) /\ Out(w) = Out(World)
  <2>1. World.count = count
    BY DEF World
  <2> QED
    BY <1>2, <2>1, HalfIs
<1> HIDE DEF w
<1>4. Sound(World', other) /\ Out(World') = Out(World)
  <2>1. CASE UNCHANGED lists
    BY <1>2, <2>1, SameWorld
  <2>2. CASE Become(w)
    BY <1>3, <2>2, BecomeIs DEF Sound, WorldOK
  <2> QED
    BY <1>1, <2>1, <2>2
<1>5. Returning = ByOthers(t)
  BY <1>1, ThreadFacts DEF CallType
<1>6. call' \in [Thread -> CallType] /\ CallsApart' /\ Returning' = Returning
  BY <1>1, <1>5, ReturnIs
<1>7. InArrays' = InArrays /\ ArraysApart'
  BY <1>1, <1>2 DEF InArrays, ArraysApart, Shared
<1>8. TypeOK'
  BY <1>1, <1>2, <1>6 DEF TypeOK
<1>9. Shared'
  BY <1>1, <1>2, <1>4, <1>6, <1>7 DEF Shared
<1> QED
  BY <1>1, <1>4, <1>8, <1>9 DEF Inv

\* The other caches change the pool of pages, and nothing else of the world.
LEMMA OtherPages ==
  ASSUME Inv, NEW pool, NEW o, pages' = pool, other' = o,
         UNCHANGED <<slab, partial, full, empty, count, descs, array, cpu, call, held>>,
         PoolOK(pool), pool.max >= pages.max,
         Used(pool) = DOMAIN slab \cup o, DOMAIN slab \cap o = {}
  PROVE  Inv'
<1> DEFINE w == World
           v == World'
<1>1. TypeOK /\ Sound(w, other) /\ Shared
  BY DEF Inv
<1>2. /\ v.slab = w.slab /\ v.partial = w.partial /\ v.full = w.full /\ v.empty = w.empty
      /\ v.count = w.count /\ v.descs = w.descs /\ v.pages = pool
      /\ w.slab = slab /\ w.pages = pages
      /\ w = [slab |-> w.slab, partial |-> w.partial, full |-> w.full, empty |-> w.empty,
              count |-> w.count, pages |-> w.pages, descs |-> w.descs]
      /\ v = [slab |-> v.slab, partial |-> v.partial, full |-> v.full, empty |-> v.empty,
              count |-> v.count, pages |-> v.pages, descs |-> v.descs]
  BY DEF World
<1>3. other' = o /\ TypeOK' /\ held' = held
  BY <1>1 DEF TypeOK
<1>4. InArrays' = InArrays /\ Returning' = Returning /\ ArraysApart' /\ CallsApart'
  BY <1>1 DEF InArrays, Returning, ArraysApart, CallsApart, Shared
<1> HIDE DEF w, v
<1>5. w \in WorldType /\ WorldOK(w, other)
  BY <1>1 DEF Sound, WorldOK
<1>6. v \in WorldType
  BY <1>2, <1>5 DEF WorldType, PoolOK
<1>7. FreeObjects(v) = FreeObjects(w)
  BY <1>2 DEF FreeObjects
<1>8. SlabsOK(v) /\ FreeCounted(v) /\ PagesOK(v, o)
  BY <1>2, <1>5, <1>7 DEF WorldOK, SlabsOK, FreeCounted, PagesOK
<1>9. DescsOK(v)
  <2>1. w.pages.max \in Nat /\ v.pages.max \in Nat /\ v.pages.max >= w.pages.max
    BY <1>2, <1>5, <1>6, WorldFields DEF PoolType
  <2>2. \A m \in Nat : m <= w.pages.max => m <= v.pages.max
    BY <2>1
  <2> QED
    BY <1>2, <1>5, <2>2 DEF WorldOK, DescsOK
<1>10. Queued(v, SomeUsed(v), AllUsed(v), NoneUsed(v))
  BY <1>1, <1>2 DEF Sound, Queued, SomeUsed, AllUsed, NoneUsed
<1>11. Sound(v, o)
  BY <1>6, <1>8, <1>9, <1>10 DEF Sound, WorldOK
<1>12. Out(v) = Out(w)
  BY <1>2, <1>7 DEF Out
<1>13. Shared'
  BY <1>1, <1>3, <1>4, <1>12 DEF Shared, v, w
<1> QED
  BY <1>3, <1>11, <1>13 DEF Inv, v

\* Another cache takes a page,
LEMMA OtherNewStep ==
  ASSUME Inv, OtherNew
  PROVE  Inv'
<1> DEFINE pool == Grown(pages, GrowLimit)
           page == Head(pool.open)
<1>1. /\ pages' = Taken(pool) /\ other' = other \cup {page}
      /\ UNCHANGED <<slab, partial, full, empty, count, descs, array, cpu, call, held>>
  BY DEF OtherNew
<1>2. PoolOK(pages) /\ Used(pages) = DOMAIN slab \cup other /\ DOMAIN slab \cap other = {}
  BY DEF Inv, Sound, WorldOK, PagesOK, World
<1>3. /\ PoolOK(pool) /\ pool.open # <<>> /\ Used(pool) = Used(pages) /\ pool.max >= pages.max
  BY <1>2, ConstantsType, GrownIs
<1> HIDE DEF pool
<1>4. /\ PoolOK(Taken(pool)) /\ Taken(pool).max = pool.max
      /\ Used(Taken(pool)) = Used(pool) \cup {page} /\ page \notin Used(pool)
  BY <1>3, TakenIs
<1> HIDE DEF page
<1>5. /\ Used(Taken(pool)) = DOMAIN slab \cup (other \cup {page})
      /\ DOMAIN slab \cap (other \cup {page}) = {}
  BY <1>2, <1>3, <1>4
<1>6. Taken(pool).max >= pages.max
  BY <1>3, <1>4
<1> QED
  BY <1>1, <1>4, <1>5, <1>6, OtherPages

\* or gives one back.
LEMMA OtherDelStep ==
  ASSUME Inv, OtherDel
  PROVE  Inv'
<1>1. PICK page \in other : pages' = Given(pages, page) /\ other' = other \ {page}
  BY DEF OtherDel
<1>2. UNCHANGED <<slab, partial, full, empty, count, descs, array, cpu, call, held>>
  BY DEF OtherDel
<1>3. PoolOK(pages) /\ Used(pages) = DOMAIN slab \cup other /\ DOMAIN slab \cap other = {}
  BY DEF Inv, Sound, WorldOK, PagesOK, World
<1>4. /\ PoolOK(Given(pages, page)) /\ Given(pages, page).max = pages.max
      /\ Used(Given(pages, page)) = Used(pages) \ {page}
  BY <1>3, GivenIs
<1>5. /\ Used(Given(pages, page)) = DOMAIN slab \cup (other \ {page})
      /\ DOMAIN slab \cap (other \ {page}) = {}
  BY <1>3, <1>4
<1>6. Given(pages, page).max >= pages.max
  BY <1>3, <1>4 DEF PoolOK, PoolType
<1> QED
  BY <1>1, <1>2, <1>4, <1>5, <1>6, OtherPages

\* At the start there is nothing.
LEMMA InitInv == Init => Inv
<1> SUFFICES ASSUME Init PROVE Inv
  OBVIOUS
<1> DEFINE w == World
<1>1. /\ w.slab = <<>> /\ w.partial = <<>> /\ w.full = {} /\ w.empty = <<>>
      /\ w.count = [partial |-> 0, full |-> 0, free |-> 0, free_objects |-> 0]
      /\ w.pages = NewPool /\ w.descs = NewPool
      /\ w = [slab |-> w.slab, partial |-> w.partial, full |-> w.full, empty |-> w.empty,
              count |-> w.count, pages |-> w.pages, descs |-> w.descs]
  BY DEF Init, World
<1> HIDE DEF w
<1>2. /\ <<>> \in Seq(Nat) /\ Len(<<>>) = 0 /\ ToSet(<<>>) = {} /\ IsInjective(<<>>)
      /\ DOMAIN <<>> = {}
  BY DEF ToSet, IsInjective
<1>3. <<>> \in SlabsType
  <2>1. <<>> \in [{} -> SlabType]
    BY <1>2
  <2> QED
    BY <2>1, SlabsMade
<1>4. PoolOK(NewPool) /\ Used(NewPool) = {}
  BY <1>2 DEF PoolOK, PoolType, NewPool, Used
<1>5. FreshFrom(NewPool, 0, 0)
  BY <1>2 DEF FreshFrom, NewPool
<1>6. w \in WorldType
  <2>1. w.count \in CountType
    BY <1>1 DEF CountType
  <2>2. w.partial \in Seq(Nat) /\ w.full \in SUBSET Nat /\ w.empty \in Seq(Nat)
    BY <1>1, <1>2
  <2>3. w.slab \in SlabsType /\ w.pages \in PoolType /\ w.descs \in PoolType
    BY <1>1, <1>3, <1>4 DEF PoolOK
  <2> QED
    BY <1>1, <2>1, <2>2, <2>3 DEF WorldType
<1>7. DOMAIN w.slab = {}
  BY <1>1, <1>2
<1>8. FreeObjects(w) = {} /\ Out(w) = {}
  BY <1>7 DEF FreeObjects, Out
<1>9. SlabsOK(w) /\ FreeCounted(w) /\ PagesOK(w, other)
  <2>1. other = {}
    BY DEF Init
  <2> QED
    BY <1>1, <1>4, <1>7, <1>8, <2>1, FS_EmptySet DEF SlabsOK, FreeCounted, PagesOK
<1>10. DescsOK(w)
  <2>1. 0 \in Nat /\ 0 <= w.pages.max
    BY <1>1 DEF NewPool
  <2> QED
    BY <1>1, <1>4, <1>5, <1>7, <2>1 DEF DescsOK
<1>11. Queued(w, SomeUsed(w), AllUsed(w), NoneUsed(w))
  BY <1>1, <1>2, <1>7, FS_EmptySet DEF Queued, SomeUsed, AllUsed, NoneUsed
<1>12. TypeOK
  <2>1. Idle \in CallType
    BY DEF Idle, CallType
  <2>2. <<>> \in Seq(Objects)
    OBVIOUS
  <2> QED
    BY <2>1, <2>2 DEF Init, TypeOK
<1>13. Shared
  <2>1. InArrays = {} /\ ArraysApart
    BY <1>2 DEF Init, InArrays, ArraysApart
  <2>2. Returning = {} /\ CallsApart
    BY DEF Init, Idle, Returning, CallsApart
  <2> QED
    BY <1>8, <2>1, <2>2 DEF Init, Shared, w
<1> QED
  BY <1>6, <1>9, <1>10, <1>11, <1>12, <1>13 DEF Inv, Sound, WorldOK, w

\* The invariant is inductive.
LEMMA StepInv == Inv /\ [Next]_vars => Inv'
<1> SUFFICES ASSUME Inv, [Next]_vars PROVE Inv'
  OBVIOUS
<1>1. ASSUME NEW t \in Thread, Malloc(t) PROVE Inv'
  BY <1>1, MallocStep
<1>2. ASSUME NEW t \in Thread, Free(t) PROVE Inv'
  BY <1>2, FreeStep
<1>3. ASSUME NEW t \in Thread, FillBatch(t) PROVE Inv'
  BY <1>3, FillStep
<1>4. ASSUME NEW t \in Thread, Take(t) PROVE Inv'
  BY <1>4, TakeStep
<1>5. ASSUME NEW t \in Thread, Put(t) PROVE Inv'
  BY <1>5, PutStep
<1>6. ASSUME NEW t \in Thread, Flush(t) PROVE Inv'
  BY <1>6, FlushStep
<1>7. ASSUME NEW t \in Thread, Drain(t) PROVE Inv'
  BY <1>7, DrainStep
<1>8. CASE OtherNew
  BY <1>8, OtherNewStep
<1>9. CASE OtherDel
  BY <1>9, OtherDelStep
<1>10. CASE UNCHANGED vars
  <2>1. UNCHANGED lists /\ UNCHANGED <<array, cpu, call, held, other>>
    BY <1>10 DEF vars
  <2>2. World' = World
    BY <2>1, SameWorld
  <2>3. InArrays' = InArrays /\ Returning' = Returning
    BY <2>1 DEF InArrays, Returning
  <2>4. TypeOK' /\ Shared'
    BY <2>1, <2>2, <2>3 DEF Inv, TypeOK, Shared, ArraysApart, CallsApart
  <2> QED
    BY <2>1, <2>2, <2>4 DEF Inv
<1> QED
  BY <1>1, <1>2, <1>3, <1>4, <1>5, <1>6, <1>7, <1>8, <1>9, <1>10 DEF Next

-----------------------------------------------------------------------------
(* What follows.                                                           *)

\* The slabs agree with the lists, the counters and the pools after every
\* step, and what is not free in them is in one place.
THEOREM KmemInvariant == Spec => []Inv
BY InitInv, StepInv, PTL DEF Spec

\* What is free in a slab and what is not are all its objects.
LEMMA InvOnePlace == Inv => OnePlace
<1> SUFFICES ASSUME Inv PROVE OnePlace
  OBVIOUS
<1>1. Sound(World, other) /\ Shared
  BY DEF Inv
<1>2. World.slab = slab
  BY DEF World
<1>3. \A page \in DOMAIN slab : IsInjective(slab[page].bufctl)
  BY <1>1, <1>2 DEF Sound, WorldOK, SlabsOK
<1>4. /\ InSlabs \cup Out(World) = (DOMAIN slab) \X Slot
      /\ InSlabs \cap Out(World) = {}
  BY <1>2 DEF InSlabs, Out, FreeObjects
<1>5. /\ InSlabs \cup InArrays \cup held \cup Returning = (DOMAIN slab) \X Slot
      /\ InSlabs \cap (InArrays \cup held \cup Returning) = {}
  BY <1>1, <1>4 DEF Shared
<1> QED
  BY <1>1, <1>3, <1>5 DEF OnePlace, Shared, ArraysApart, CallsApart

\* The books are a part of what a sound world is.
LEMMA InvBooksExact == Inv => BooksExact
<1> SUFFICES ASSUME Inv PROVE BooksExact
  OBVIOUS
<1>1. Sound(World, other)
  BY DEF Inv
<1>2. /\ World.slab = slab /\ World.partial = partial /\ World.full = full
      /\ World.empty = empty /\ World.count = count /\ World.pages = pages
      /\ World.descs = descs
  BY DEF World
<1>3. CountsExact
  BY <1>1, <1>2
  DEF CountsExact, Sound, WorldOK, SlabsOK, FreeCounted, Queued, SomeUsed, AllUsed, NoneUsed,
      InSlabs
<1>4. PagesOwned
  BY <1>1, <1>2 DEF PagesOwned, Sound, WorldOK, PagesOK, DescsOK
<1> QED
  BY <1>3, <1>4 DEF BooksExact

\* A descriptor in use is one of those that have ever been taken.
LEMMA InvDescriptorsCovered == Inv => DescriptorsCovered
<1> SUFFICES ASSUME Inv, NEW p \in DOMAIN slab PROVE slab[p].desc < pages.max
  BY DEF DescriptorsCovered
<1>1. WorldOK(World, other) /\ World.slab = slab /\ World.pages = pages /\ World.descs = descs
  BY DEF Inv, Sound, World
<1>2. /\ PoolOK(descs) /\ slab[p].desc \in Used(descs) /\ slab[p].desc \in Nat
      /\ \E k, m \in Nat : FreshFrom(descs, k, m) /\ m <= pages.max
  BY <1>1, SlabFields DEF WorldOK, DescsOK
<1>3. PICK k \in Nat, m \in Nat : FreshFrom(descs, k, m) /\ m <= pages.max
  BY <1>2
<1>4. slab[p].desc < m
  BY <1>2, <1>3, FreshUsed
<1>5. pages.max \in Nat
  BY <1>1, WorldFields DEF WorldOK, PoolType
<1> QED
  BY <1>2, <1>3, <1>4, <1>5

\* No object of the allocator is ever in two places, and none is lost: not by
\* a thread that refills its array while others free, not by one that frees
\* what another has allocated, and not by the deletion of slabs.
THEOREM EveryObjectInOnePlace == Spec => []OnePlace
BY KmemInvariant, InvOnePlace, PTL

\* Each slab is in the list that its objects call for, the counters are those
\* of the lists, and a page or a descriptor is in use as long as a slab has it.
THEOREM BooksAreExact == Spec => []BooksExact
BY KmemInvariant, InvBooksExact, PTL

\* The assertion of imslab_set_delete(), which compares the index of a
\* descriptor with the size of the other pool, never fails, by whichever rule
\* the two pools have grown.
THEOREM DescriptorsAreCovered == Spec => []DescriptorsCovered
BY KmemInvariant, InvDescriptorsCovered, PTL

-----------------------------------------------------------------------------
(* The pure functions, which PureUse calls with any arguments.             *)

CONSTANTS
  SearchAlphabet, MaxText, MaxSubstr, LineAlphabet, MaxHeader, FieldAlphabet, Separator,
  MaxFields, Byte, MaxBytes, MaxSpace, Ignored, MaxRequest, PageShift
VARIABLE lastCall  \* of a pure function
Pure == INSTANCE PureUse WITH call <- lastCall

-----------------------------------------------------------------------------
(* The sizes: which cache serves a request, and what fits into a slab.     *)

\* Among numbers with a bound there is a largest one.
LEMMA MaxIs ==
  ASSUME NEW n \in Nat, NEW T \in SUBSET (1 .. n), T # {}
  PROVE  Max(T) \in T /\ \A j \in T : j <= Max(T)
<1> DEFINE U == {n - j : j \in T}
<1>1. U \in SUBSET Nat /\ U # {}
  <2>1. \A j \in T : n - j \in Nat
    OBVIOUS
  <2> QED
    BY <2>1
<1>2. PICK x \in U : \A y \in U : x <= y
  BY <1>1, NatMin
<1>3. PICK i \in T : x = n - i
  BY <1>2
<1>4. \A j \in T : i >= j
  <2> SUFFICES ASSUME NEW j \in T PROVE i >= j
    OBVIOUS
  <2>1. n - j \in U
    OBVIOUS
  <2>2. n - i <= n - j
    BY <1>2, <1>3, <2>1
  <2>3. i \in Int /\ j \in Int
    OBVIOUS
  <2> QED
    BY <2>2, <2>3
<1>5. \E k \in T : \A j \in T : k >= j
  BY <1>4
<1>6. Max(T) \in T /\ \A j \in T : Max(T) >= j
  BY <1>5 DEF Max
<1> QED
  BY <1>6

\* Rounding goes up, to a multiple.
LEMMA RoundToIs ==
  ASSUME NEW size \in Nat \ {0}, NEW n \in {4, 1024}
  PROVE  LET r == Pure!RoundTo(size, n)
         IN  /\ r \in Nat /\ r >= size /\ r \div n \in Nat \ {0} /\ (r \div n) * n = r
<1>1. CASE n = 4
  BY <1>1 DEF Pure!RoundTo
<1>2. CASE n = 1024
  BY <1>2 DEF Pure!RoundTo
<1> QED
  BY <1>1, <1>2

\* The last cache of those that are large enough, if there is one.
LEMMA ChooseSizeIs ==
  ASSUME NEW caches, NEW lookup \in Seq(DOMAIN caches), NEW size \in Nat,
         \A g \in DOMAIN caches : g # Pure!NoCache /\ caches[g].obj \in Nat
  PROVE  LET r == Pure!ChooseSize(caches, lookup, size)
         IN  /\ r = Pure!NoCache =>
                  size >= Pure!PageSize \/ \A i \in 1 .. Len(lookup) : caches[lookup[i]].obj < size
             /\ r # Pure!NoCache =>
                  \E i \in 1 .. Len(lookup) :
                    /\ r = lookup[i] /\ caches[r].obj >= size
                    /\ \A j \in 1 .. Len(lookup) : caches[lookup[j]].obj >= size => j <= i
<1> DEFINE n == Len(lookup)
           enough == {i \in 1 .. n : caches[lookup[i]].obj >= size}
           r == Pure!ChooseSize(caches, lookup, size)
<1>1. /\ n \in Nat /\ DOMAIN lookup = 1 .. n
      /\ \A i \in 1 .. n : lookup[i] \in DOMAIN caches
  BY LenProperties, ElementOfSeq
<1>2. r = IF size >= Pure!PageSize \/ enough = {} THEN Pure!NoCache ELSE lookup[Max(enough)]
  BY <1>1, SMTT(30) DEF Pure!ChooseSize, Pure!Max, Max
<1> HIDE DEF r, n
<1>3. CASE enough = {}
  BY <1>1, <1>2, <1>3 DEF n, r
<1>4. CASE enough # {}
  <2>1. Max(enough) \in enough /\ \A j \in enough : j <= Max(enough)
    BY <1>1, <1>4, MaxIs
  <2>2. /\ Max(enough) \in 1 .. n /\ lookup[Max(enough)] # Pure!NoCache
        /\ caches[lookup[Max(enough)]].obj >= size
        /\ \A j \in 1 .. n : caches[lookup[j]].obj >= size => j <= Max(enough)
    BY <1>1, <2>1
  <2> HIDE DEF enough
  <2> QED
    BY <1>2, <1>4, <2>2, SMTT(30) DEF n, r
<1> QED
  BY <1>3, <1>4

\* The two tables answer for what the request is rounded to, and otherwise the
\* caches are searched.
LEMMA MallocCacheIs ==
  ASSUME NEW caches, NEW lookup, NEW size \in Nat \ {0}
  PROVE  LET r      == Pure!MallocCache(Pure!Tables(caches, lookup), size)
             Search(s) == Pure!ChooseSize(caches, lookup, s)
             most   == IF size <= 1024 THEN Pure!RoundTo(size, 4) ELSE Pure!RoundTo(size, 1024)
         IN  \/ r = Search(size)
             \/ \E round \in size .. most : r = Search(round) /\ r # Pure!NoCache
<1> DEFINE k  == Pure!Tables(caches, lookup)
           r  == Pure!MallocCache(k, size)
           r4 == Pure!RoundTo(size, 4)
           rk == Pure!RoundTo(size, 1024)
           Search(s) == Pure!ChooseSize(caches, lookup, s)
           cache == IF r4 <= 1024 THEN k.size_lookup1[r4 \div 4]
                    ELSE IF rk < 256 * 1024 THEN k.size_lookup2[rk \div 1024]
                    ELSE Pure!NoCache
<1>1. r = IF cache = Pure!NoCache THEN Search(size) ELSE cache
  BY DEF Pure!MallocCache, Pure!Tables
<1>2. /\ \A i \in 1 .. 256 : k.size_lookup1[i] = Search(i * 4)
      /\ \A i \in 1 .. 256 : k.size_lookup2[i] = Search(i * 1024)
  BY DEF Pure!Tables
<1>3. r4 \in Nat /\ r4 >= size /\ r4 \div 4 \in Nat \ {0} /\ (r4 \div 4) * 4 = r4
  BY RoundToIs
<1>4. rk \in Nat /\ rk >= size /\ rk \div 1024 \in Nat \ {0} /\ (rk \div 1024) * 1024 = rk
  BY RoundToIs
<1>5. size > 1024 => r4 > 1024
  BY <1>3
<1>6. size <= 1024 => r4 <= 1024
  BY DEF Pure!RoundTo
<1>7. r4 \div 4 \in Int /\ rk \div 1024 \in Int
  BY <1>3, <1>4
<1> HIDE DEF r, k, r4, rk
<1>8. CASE cache = Pure!NoCache
  BY <1>1, <1>8 DEF r, k
<1>9. CASE cache # Pure!NoCache /\ size <= 1024
  <2>1. r4 <= 1024 /\ r4 \div 4 \in 1 .. 256
    BY <1>3, <1>6, <1>9, SMTT(30)
  <2>2. cache = Search(r4)
    <3>1. k.size_lookup1[r4 \div 4] = Search((r4 \div 4) * 4)
      BY <1>2, <2>1, SMTT(30)
    <3>2. k.size_lookup1[r4 \div 4] = Search(r4)
      BY <1>3, <3>1
    <3> QED
      BY <2>1, <3>2, SMTT(30)
  <2>3. r4 \in size .. r4
    BY <1>3
  <2> QED
    BY <1>1, <1>9, <2>2, <2>3 DEF r, k, r4
<1>10. CASE cache # Pure!NoCache /\ ~ (size <= 1024)
  <2>1. ~ (r4 <= 1024)
    BY <1>3, <1>5, <1>10
  <2>2. rk < 256 * 1024
    BY <1>10, <2>1
  <2>3. rk \div 1024 \in 1 .. 256
    BY <1>4, <2>2, SMTT(30)
  <2>4. cache = Search(rk)
    <3>1. k.size_lookup2[rk \div 1024] = Search((rk \div 1024) * 1024)
      BY <1>2, <2>3, SMTT(30)
    <3>2. k.size_lookup2[rk \div 1024] = Search(rk)
      BY <1>4, <3>1
    <3> QED
      BY <2>1, <2>2, <3>2, SMTT(30)
  <2>5. rk \in size .. rk
    BY <1>4
  <2> QED
    BY <1>1, <1>10, <2>4, <2>5 DEF r, k, rk
<1> QED
  BY <1>8, <1>9, <1>10

\* A request is given a cache whose objects are large enough for it, and the
\* smallest of those for what the tables round it to; it has a block of its own
\* only if it is as large as a page or than all objects.
THEOREM RequestsFit ==
  ASSUME NEW caches, NEW lookup \in Seq(DOMAIN caches), NEW size \in Nat \ {0},
         \A g \in DOMAIN caches : g # Pure!NoCache /\ caches[g].obj \in Nat,
         \A i, j \in 1 .. Len(lookup) :
           i <= j => caches[lookup[i]].obj >= caches[lookup[j]].obj
  PROVE  LET r     == Pure!MallocCache(Pure!Tables(caches, lookup), size)
             round == IF size <= 1024 THEN Pure!RoundTo(size, 4) ELSE Pure!RoundTo(size, 1024)
         IN  /\ r = Pure!NoCache =>
                  size >= Pure!PageSize \/ \A g \in ToSet(lookup) : caches[g].obj < size
             /\ r # Pure!NoCache =>
                  /\ r \in ToSet(lookup) /\ caches[r].obj >= size
                  /\ \A g \in ToSet(lookup) :
                       caches[g].obj >= round => caches[g].obj >= caches[r].obj
<1> DEFINE n == Len(lookup)
           r == Pure!MallocCache(Pure!Tables(caches, lookup), size)
           most == IF size <= 1024 THEN Pure!RoundTo(size, 4) ELSE Pure!RoundTo(size, 1024)
           Search(s) == Pure!ChooseSize(caches, lookup, s)
<1>1. /\ n \in Nat /\ DOMAIN lookup = 1 .. n /\ ToSet(lookup) = {lookup[i] : i \in 1 .. n}
      /\ \A i \in 1 .. n : lookup[i] \in DOMAIN caches
  BY LenProperties, ElementOfSeq DEF ToSet
<1>2. most \in Nat /\ most >= size
  <2>1. Pure!RoundTo(size, 4) \in Nat /\ Pure!RoundTo(size, 4) >= size
    BY DEF Pure!RoundTo
  <2>2. Pure!RoundTo(size, 1024) \in Nat /\ Pure!RoundTo(size, 1024) >= size
    BY DEF Pure!RoundTo
  <2> QED
    BY <2>1, <2>2
<1>3. r = Search(size) \/ \E s \in size .. most : r = Search(s) /\ r # Pure!NoCache
  BY MallocCacheIs
<1>4. PICK s \in size .. most : r = Search(s) /\ (r = Pure!NoCache => s = size)
  <2>1. size \in size .. most
    BY <1>2
  <2> QED
    BY <1>3, <2>1
<1>5. s \in Nat /\ s >= size /\ s <= most
  BY <1>2
<1>6. /\ r = Pure!NoCache => s >= Pure!PageSize \/ \A i \in 1 .. n : caches[lookup[i]].obj < s
      /\ r # Pure!NoCache =>
           \E i \in 1 .. n : /\ r = lookup[i] /\ caches[r].obj >= s
                             /\ \A j \in 1 .. n : caches[lookup[j]].obj >= s => j <= i
  BY <1>4, <1>5, ChooseSizeIs
<1> HIDE DEF r, most, n
<1>7. CASE r = Pure!NoCache
  BY <1>1, <1>4, <1>6, <1>7 DEF r
<1>8. CASE r # Pure!NoCache
  <2>1. PICK i \in 1 .. n : /\ r = lookup[i] /\ caches[r].obj >= s
                            /\ \A j \in 1 .. n : caches[lookup[j]].obj >= s => j <= i
    BY <1>6, <1>8
  <2>2. r \in ToSet(lookup) /\ caches[r].obj >= size
    BY <1>1, <1>5, <2>1
  <2>3. ASSUME NEW j \in 1 .. n, caches[lookup[j]].obj >= most
        PROVE  caches[lookup[j]].obj >= caches[r].obj
    <3>1. caches[lookup[j]].obj \in Nat
      BY <1>1
    <3>2. \A x \in Nat : x >= most => x >= s
      BY <1>2, <1>5
    <3>3. j <= i
      BY <2>1, <2>3, <3>1, <3>2
    <3> QED
      BY <2>1, <3>3 DEF n
  <2> QED
    BY <1>1, <1>8, <2>2, <2>3, SMTT(30) DEF r, most
<1> QED
  BY <1>7, <1>8 DEF r

\* A quotient is the number that leaves a rest below the divisor.
LEMMA QuotientIs ==
  ASSUME NEW u \in Nat \ {0}, NEW q \in Nat, NEW r \in 0 .. u - 1
  PROVE  (q * u + r) \div u = q
OBVIOUS

\* A number is its quotient times the divisor and a rest below the divisor.
LEMMA DividedIs ==
  ASSUME NEW u \in Nat \ {0}, NEW a \in Nat
  PROVE  a \div u \in Nat /\ a % u \in 0 .. u - 1 /\ a = (a \div u) * u + (a % u)
OBVIOUS

\* The rest of a page behind the objects is less than one of them.
LEMMA LayoutIs ==
  ASSUME NEW unit \in Nat \ {0}, NEW page \in Nat,
         Pure!Layout(unit, page).num > 0
  PROVE  LET layout == Pure!Layout(unit, page)
             head   == IF layout.off THEN 0 ELSE Pure!SlabHead + Pure!IMROUNDSIZE
         IN  /\ layout.num \in Nat /\ layout.color_limit \in 0 .. unit - 1
             /\ page = head + layout.num * unit + layout.color_limit
<1> DEFINE layout == Pure!Layout(unit, page)
           off  == /\ unit >= page \div 8
                   /\ ~ (unit > Pure!SlabHead
                           /\ page % unit >= Pure!SlabHead + Pure!IMROUNDSIZE)
           room == IF off THEN page ELSE page - Pure!SlabHead - Pure!IMROUNDSIZE
<1>1. /\ layout.num = room \div unit /\ layout.color_limit = room % unit
      /\ layout.off = off /\ Pure!SlabHead + Pure!IMROUNDSIZE = 72
  <2>1. layout = [off |-> off, num |-> room \div unit, color_limit |-> room % unit]
    BY DEF Pure!Layout
  <2> HIDE DEF layout, off, room
  <2> QED
    BY <2>1 DEF Pure!SlabHead, Pure!IMROUNDSIZE
<1> HIDE DEF off
<1>2. room \in Int
  BY DEF Pure!SlabHead, Pure!IMROUNDSIZE
<1>3. page = (IF layout.off THEN 0 ELSE 72) + room
  BY <1>1 DEF Pure!SlabHead, Pure!IMROUNDSIZE
<1> HIDE DEF room, layout
<1>4. room \in Nat
  BY <1>1, <1>2 DEF layout
<1>5. room \div unit \in Nat /\ room % unit \in 0 .. unit - 1
      /\ room = (room \div unit) * unit + (room % unit)
  BY <1>4, DividedIs
<1> QED
  BY <1>1, <1>3, <1>5 DEF layout

\* There is room for an object if the page is no smaller than one, and no smaller
\* than a descriptor and as much again.
LEMMA SomeFit ==
  ASSUME NEW unit \in Nat \ {0}, NEW page \in Nat, page >= 2 * Pure!SlabHead, unit <= page
  PROVE  Pure!Layout(unit, page).num > 0
<1> DEFINE layout == Pure!Layout(unit, page)
           off  == /\ unit >= page \div 8
                   /\ ~ (unit > Pure!SlabHead
                           /\ page % unit >= Pure!SlabHead + Pure!IMROUNDSIZE)
           room == IF off THEN page ELSE page - Pure!SlabHead - Pure!IMROUNDSIZE
<1>1. layout.num = room \div unit
  <2>1. layout = [off |-> off, num |-> room \div unit, color_limit |-> room % unit]
    BY DEF Pure!Layout
  <2> HIDE DEF layout, off, room
  <2> QED
    BY <2>1
<1>2. page >= 128 /\ Pure!SlabHead = 64 /\ Pure!IMROUNDSIZE = 8
  BY DEF Pure!SlabHead, Pure!IMROUNDSIZE
<1>3. room \in Nat /\ room >= unit
  <2>1. CASE off
    BY <2>1
  <2>2. CASE unit < page \div 8
    <3>1. 8 * unit < page
      BY <2>2
    <3>2. page - 72 \in Nat /\ page - 72 >= unit
      BY <1>2, <3>1
    <3>3. ~ off
      BY <2>2
    <3> HIDE DEF off
    <3> QED
      BY <1>2, <3>2, <3>3
  <2>3. CASE unit > 64 /\ page % unit >= 72
    <3>1. /\ page \div unit \in Nat /\ page % unit \in 0 .. unit - 1
          /\ page = (page \div unit) * unit + (page % unit)
      BY DividedIs
    <3> DEFINE q == page \div unit
               low == page % unit
    <3>2. low >= 72
      BY <2>3
    <3>6. ~ off
      BY <1>2, <2>3
    <3> HIDE DEF q, low, off
    <3>3. q \in Nat /\ low \in Nat /\ low < unit /\ page = q * unit + low
      BY <3>1 DEF q, low
    <3>4. q # 0
      BY <1>2, <3>3
    <3>7. q * unit \in Nat /\ q * unit >= unit
      BY <3>3, <3>4
    <3>5. page - 72 \in Nat /\ page - 72 >= unit
      BY <1>2, <3>2, <3>3, <3>7
    <3> HIDE DEF off
    <3> QED
      BY <1>2, <3>5, <3>6
  <2>4. off \/ unit < page \div 8 \/ (unit > 64 /\ page % unit >= 72)
    <3>1. page \div 8 \in Int
      OBVIOUS
    <3>2. unit >= page \div 8 \/ unit < page \div 8
      BY <3>1
    <3> QED
      BY <1>2, <3>2
  <2> HIDE DEF room, off
  <2> QED
    BY <2>1, <2>2, <2>3, <2>4
<1> HIDE DEF room, layout
<1>4. /\ room \div unit \in Nat /\ room % unit \in 0 .. unit - 1
      /\ room = (room \div unit) * unit + (room % unit)
  BY <1>3, DividedIs
<1>5. room \div unit # 0
  BY <1>3, <1>4
<1> QED
  BY <1>1, <1>4, <1>5 DEF layout

\* A color is a multiple of the alignment below the rest of the page, or zero.
Color(cache, color) ==
  /\ color \in Nat /\ color % Pure!IMROUNDSIZE = 0
  /\ color = 0 \/ color < cache.color_limit

\* The color after a color is one again.
LEMMA NextColorIs ==
  ASSUME NEW cache, cache.color_limit \in Nat, NEW color, Color(cache, color)
  PROVE  Color(cache, Pure!NextColor(cache, color))
BY DEF Color, Pure!NextColor, Pure!IMROUNDSIZE

\* Whatever its color, a slab has the objects that its cache counts on, at least
\* one, or one more, all of them inside the page, aligned and behind the
\* descriptor; and the color of the next slab is such a color again.
THEOREM SlabsFit ==
  ASSUME NEW obj \in Nat \ {0}, NEW gfp, NEW page \in Nat,
         page >= 2 * Pure!SlabHead, Pure!UnitSize(obj) <= page,
         NEW cache, cache = Pure!NewCache(obj, gfp, page),
         NEW color, Color(cache, color)
  PROVE  LET n     == Pure!SlabObjects(cache, color)
             first == Pure!FirstObject(cache, color)
         IN  /\ n \in {cache.num, cache.num + 1} /\ n > 0
             /\ first % Pure!IMROUNDSIZE = 0 /\ first + n * cache.unit <= cache.page
             /\ ~ cache.off => first >= Pure!SlabHead
             /\ Color(cache, Pure!NextColor(cache, color))
<1> DEFINE unit == Pure!UnitSize(obj)
           layout == Pure!Layout(unit, page)
           n == Pure!SlabObjects(cache, color)
           first == Pure!FirstObject(cache, color)
           rest == layout.color_limit
           q == layout.num
<1>1. unit \in Nat /\ unit >= 16
  BY DEF Pure!UnitSize, Pure!IMROUNDUP, Pure!IMROUNDSIZE, Pure!Pointer
<1>2. /\ cache.unit = unit /\ cache.page = page /\ cache.off = layout.off
      /\ cache.num = q /\ cache.color_limit = rest
  BY DEF Pure!NewCache, Pure!LaidOut
<1>3. layout.off \in BOOLEAN
  BY DEF Pure!Layout
<1>21. cache.num > 0
  BY <1>1, <1>2, SomeFit
<1> HIDE DEF unit
<1>4. /\ q \in Nat /\ rest \in 0 .. unit - 1
      /\ page = (IF layout.off THEN 0 ELSE 72) + q * unit + rest
  BY <1>1, <1>2, <1>21, LayoutIs DEF Pure!SlabHead, Pure!IMROUNDSIZE
<1> HIDE DEF layout
<1>5. color \in Nat /\ color % 8 = 0 /\ (color = 0 \/ color < rest)
  BY <1>2 DEF Color, Pure!IMROUNDSIZE
<1>6. first = IF layout.off THEN color ELSE color + 64
  BY <1>2 DEF Pure!FirstObject, Pure!SlabHead
<1>7. n = IF first > page - unit THEN 0 ELSE (page - unit - first) \div unit + 1
  BY <1>2 DEF Pure!SlabObjects
<1>8. PICK left \in Nat : page - first = q * unit + left /\ left < 2 * unit
  <2> DEFINE left == (IF layout.off THEN 0 ELSE 8) + rest - color
  <2>1. left \in Nat /\ left < 2 * unit
    BY <1>1, <1>4, <1>5
  <2>2. q * unit \in Nat
    BY <1>1, <1>4
  <2>3. page - first = q * unit + left
    BY <1>4, <1>5, <1>6, <2>2
  <2> HIDE DEF left, first
  <2> QED
    BY <2>1, <2>3
<1>9. q >= 1
  BY <1>2, <1>4, <1>21
<1>10. first \in Nat /\ first % 8 = 0 /\ (~ layout.off => first >= 64)
  BY <1>5, <1>6
<1> HIDE DEF n, first, rest, q
<1>11. \E k \in {q, q + 1} : \E low \in 0 .. unit - 1 : page - first = k * unit + low
  <2>1. CASE left < unit
    BY <1>1, <1>8, <2>1
  <2>2. CASE ~ (left < unit)
    <3>1. left - unit \in 0 .. unit - 1
      BY <1>1, <1>8, <2>2
    <3>2. (q + 1) * unit = q * unit + unit
      BY <1>1, <1>4
    <3>3. q * unit \in Nat
      BY <1>1, <1>4
    <3>4. page - first = (q + 1) * unit + (left - unit)
      BY <1>1, <1>8, <3>2, <3>3
    <3> QED
      BY <3>1, <3>4
  <2> QED
    BY <2>1, <2>2
<1>12. PICK k \in {q, q + 1}, low \in 0 .. unit - 1 : page - first = k * unit + low
  BY <1>11
<1>13. k \in Nat /\ k >= 1 /\ low \in Nat /\ low < unit
  BY <1>1, <1>4, <1>9
<1>14. k * unit = (k - 1) * unit + unit /\ (k - 1) * unit \in Nat
  BY <1>1, <1>13
<1>15. page - unit - first = (k - 1) * unit + low
  BY <1>1, <1>4, <1>10, <1>12, <1>13, <1>14
<1>16. (page - unit - first) \div unit = k - 1
  BY <1>1, <1>13, <1>15, QuotientIs
<1>17. ~ (first > page - unit)
  BY <1>1, <1>4, <1>10, <1>13, <1>14, <1>15
<1>18. n = k
  BY <1>7, <1>13, <1>16, <1>17
<1>19. first + n * unit <= page
  BY <1>1, <1>4, <1>10, <1>12, <1>13, <1>14, <1>18
<1>20. Color(cache, Pure!NextColor(cache, color))
  BY <1>2, <1>4, NextColorIs
<1> QED
  BY <1>2, <1>10, <1>12, <1>13, <1>18, <1>19, <1>20 DEF n, first, Pure!IMROUNDSIZE, Pure!SlabHead

-----------------------------------------------------------------------------
(* Searching, the empty line, and splitting.                               *)

\* The least of some numbers.
LEMMA MinIs ==
  ASSUME NEW T \in SUBSET Nat, T # {}
  PROVE  /\ Pure!Min(T) \in T /\ \A y \in T : Pure!Min(T) <= y
         /\ \A x \in T : (\A y \in T : x <= y) => Pure!Min(T) = x
<1>1. PICK x \in T : \A y \in T : x <= y
  BY NatMin
<1>2. Pure!Min(T) \in T /\ \A y \in T : Pure!Min(T) <= y
  BY <1>1 DEF Pure!Min
<1>3. ASSUME NEW z \in T, \A y \in T : z <= y PROVE Pure!Min(T) = z
  <2>1. z <= Pure!Min(T) /\ Pure!Min(T) <= z
    BY <1>2, <1>3
  <2>2. z \in Nat /\ Pure!Min(T) \in Nat
    BY <1>2
  <2> HIDE DEF Pure!Min
  <2> QED
    BY <2>1, <2>2
<1> QED
  BY <1>2, <1>3

\* A loop that goes on from a place to a later one, and what it computes.
Forward(n, Stop, next) == \A q \in 1 .. n : q \notin Stop => next[q] \in q + 1 .. n
Loops(n, Stop, val, next, f) ==
  \A q \in 1 .. n : f[q] = IF q \in Stop THEN val[q] ELSE f[next[q]]

\* Such a loop ends in one way only.
LEMMA LoopIs ==
  ASSUME NEW n \in Nat, NEW Stop, NEW val, NEW next, NEW f, NEW g,
         Forward(n, Stop, next), Loops(n, Stop, val, next, f), Loops(n, Stop, val, next, g)
  PROVE  \A q \in 1 .. n : f[q] = g[q]
<1> USE DEF Forward, Loops
<1> DEFINE T == {d \in Nat : \A q \in 1 .. n : q > n - d => f[q] = g[q]}
<1>1. 0 \in T
  OBVIOUS
<1>2. ASSUME NEW d \in Nat, d \in T PROVE d + 1 \in T
  <2> SUFFICES ASSUME NEW q \in 1 .. n, q > n - (d + 1) PROVE f[q] = g[q]
    OBVIOUS
  <2>1. \A p \in q + 1 .. n : p \in 1 .. n /\ p > n - d
    OBVIOUS
  <2>2. \A p \in q + 1 .. n : f[p] = g[p]
    BY <1>2, <2>1
  <2>3. CASE q \in Stop
    BY <2>3
  <2>4. CASE q \notin Stop
    <3>1. next[q] \in q + 1 .. n /\ f[q] = f[next[q]] /\ g[q] = g[next[q]]
      BY <2>4
    <3> QED
      BY <2>2, <3>1
  <2> QED
    BY <2>3, <2>4
<1> HIDE DEF T
<1>3. n \in T
  BY <1>1, <1>2, NatAll
<1>4. \A q \in 1 .. n : q > n - n
  OBVIOUS
<1> QED
  BY <1>3, <1>4 DEF T

\* Two characters are the same letter in whatever case.
LEMMA SameICaseIs ==
  ASSUME NEW c \in Int, NEW d \in Int
  PROVE  Pure!SameICase(c, d) <=>
           Pure!SameLetter(c, d)
<1>1. Pure!SameICase(c, d) <=>
        \/ c = d
        \/ c \in 97 .. 122 /\ d = c - 32
        \/ c \in 65 .. 90 /\ d = c + 32
  BY DEF Pure!SameICase, Pure!TmpDiff, Pure!Lower, Pure!Upper
<1>2. c \in 97 .. 122 /\ d = c - 32 <=> \E k \in 1 .. 26 : c = 96 + k /\ d = 64 + k
  <2>1. c \in 97 .. 122 /\ d = c - 32 => c - 96 \in 1 .. 26 /\ c = 96 + (c - 96) /\ d = 64 + (c - 96)
    OBVIOUS
  <2> QED
    BY <2>1
<1>3. c \in 65 .. 90 /\ d = c + 32 <=> \E k \in 1 .. 26 : c = 64 + k /\ d = 96 + k
  <2>1. c \in 65 .. 90 /\ d = c + 32 => c - 64 \in 1 .. 26 /\ c = 64 + (c - 64) /\ d = 96 + (c - 64)
    OBVIOUS
  <2> QED
    BY <2>1
<1>4. \A k \in 1 .. 26 : {c, d} = {64 + k, 96 + k} <=>
                           (c = 64 + k /\ d = 96 + k) \/ (c = 96 + k /\ d = 64 + k)
  <2> SUFFICES ASSUME NEW k \in 1 .. 26
               PROVE  {c, d} = {64 + k, 96 + k} <=>
                        (c = 64 + k /\ d = 96 + k) \/ (c = 96 + k /\ d = 64 + k)
    BY SMTT(30)
  <2> DEFINE a == 64 + k
             b == 96 + k
  <2>1. a # b
    OBVIOUS
  <2> HIDE DEF a, b
  <2>2. {c, d} = {a, b} <=> (c = a /\ d = b) \/ (c = b /\ d = a)
    BY <2>1
  <2> QED
    BY <2>2 DEF a, b
<1>5. (\E k \in 1 .. 26 : {c, d} = {64 + k, 96 + k}) <=>
        \/ c \in 97 .. 122 /\ d = c - 32
        \/ c \in 65 .. 90 /\ d = c + 32
  <2> DEFINE A(k) == c = 64 + k /\ d = 96 + k
             B(k) == c = 96 + k /\ d = 64 + k
             Both(k) == {c, d} = {64 + k, 96 + k}
  <2>1. \A k \in 1 .. 26 : Both(k) <=> A(k) \/ B(k)
    BY <1>4
  <2>2. /\ c \in 97 .. 122 /\ d = c - 32 <=> \E k \in 1 .. 26 : B(k)
        /\ c \in 65 .. 90 /\ d = c + 32 <=> \E k \in 1 .. 26 : A(k)
    BY <1>2, <1>3
  <2> HIDE DEF A, B, Both
  <2>3. (\E k \in 1 .. 26 : Both(k)) <=>
          (\E k \in 1 .. 26 : A(k)) \/ (\E k \in 1 .. 26 : B(k))
    BY <2>1
  <2>4. (\E k \in 1 .. 26 : Both(k)) <=>
          \/ c \in 97 .. 122 /\ d = c - 32
          \/ c \in 65 .. 90 /\ d = c + 32
    BY <2>2, <2>3
  <2> QED
    BY <2>4 DEF Both
<1> QED
  BY <1>1, <1>5 DEF Pure!SameLetter

\* The inner loop stops at the first character that is not found.
LEMMA MatchedIs ==
  ASSUME NEW text \in Seq(Int), NEW substr \in Seq(Int), NEW start \in 1 .. Len(text)
  PROVE  Pure!Matched(text, start, substr) = Len(substr) <=> Pure!OccursAt(text, substr, start)
<1> DEFINE n == Len(text)
           m == Len(substr)
           Good(q) == q <= m /\ start + q - 1 <= n /\ Pure!SameICase(text[start + q - 1], substr[q])
           Stop == {q \in 1 .. m + 1 : ~ Good(q)}
           val  == [q \in 1 .. m + 1 |-> q - 1]
           next == [q \in 1 .. m + 1 |-> q + 1]
           Ahead(q) == {p \in Stop : p >= q}
           g == [q \in 1 .. m + 1 |-> Pure!Min(Ahead(q)) - 1]
           Loop(f) == f = [q \in 1 .. m + 1 |-> IF Good(q) THEN f[q + 1] ELSE q - 1]
           from == CHOOSE f : Loop(f)
<1>1. n \in Nat /\ m \in Nat /\ start \in Int
  OBVIOUS
<1>2. Pure!Matched(text, start, substr) = from[1]
  BY DEF Pure!Matched
<1> HIDE DEF n, m, from
<1>3. m + 1 \in Stop /\ Stop \in SUBSET Nat
  <2>1. m + 1 \in 1 .. m + 1 /\ ~ (m + 1 <= m) /\ 1 .. m + 1 \subseteq Nat
    BY <1>1
  <2> QED
    BY <2>1
<1>4. \A q \in 1 .. m + 1 : Good(q) <=> q \notin Stop
  OBVIOUS
<1>5. \A q \in 1 .. m + 1 : Good(q) => next[q] = q + 1 /\ q + 1 \in q + 1 .. m + 1 /\ q + 1 \in 1 .. m + 1
  BY <1>1
<1> HIDE DEF Good, Stop
<1>6. ASSUME NEW q \in 1 .. m + 1
      PROVE  g[q] = IF q \in Stop THEN val[q] ELSE g[next[q]]
  <2>1. Ahead(q) \in SUBSET Nat /\ m + 1 \in Ahead(q)
    <3>1. m + 1 >= q
      BY <1>1
    <3> QED
      BY <1>3, <3>1
  <2>2. CASE q \in Stop
    <3>1. q \in Ahead(q) /\ \A p \in Ahead(q) : q <= p
      BY <1>1, <1>3, <2>2
    <3> HIDE DEF Ahead
    <3>2. Pure!Min(Ahead(q)) = q
      BY <2>1, <3>1, MinIs
    <3> QED
      BY <2>2, <3>2
  <2>3. CASE q \notin Stop
    <3>1. Ahead(q) = Ahead(q + 1)
      <4>1. \A p \in Stop : p >= q <=> p >= q + 1
        <5>1. \A p \in Stop : p \in Int /\ p # q
          BY <1>3, <2>3
        <5> QED
          BY <5>1
      <4> QED
        BY <4>1
    <3>2. next[q] = q + 1 /\ q + 1 \in 1 .. m + 1
      BY <1>4, <1>5, <2>3
    <3> HIDE DEF Ahead
    <3> QED
      BY <2>3, <3>1, <3>2
  <2> QED
    BY <2>2, <2>3
<1>7. Loop(from)
  <2>1. ASSUME NEW q \in 1 .. m + 1 PROVE g[q] = IF Good(q) THEN g[q + 1] ELSE q - 1
    BY <1>4, <1>5, <1>6
  <2>2. g = [q \in 1 .. m + 1 |-> g[q]]
    OBVIOUS
  <2> HIDE DEF g
  <2>3. Loop(g)
    BY <2>1, <2>2
  <2> HIDE DEF Loop
  <2> QED
    BY <2>3 DEF from
<1>8. \A q \in 1 .. m + 1 : from[q] = IF q \in Stop THEN val[q] ELSE from[next[q]]
  BY <1>4, <1>5, <1>7
<1>9. \A q \in 1 .. m + 1 : q \notin Stop => next[q] \in q + 1 .. m + 1
  BY <1>4, <1>5
<1>10. 1 \in 1 .. m + 1 /\ m + 1 \in Nat
  BY <1>1
<1>11. from[1] = g[1]
  <2>1. Loops(m + 1, Stop, val, next, g)
    BY <1>6 DEF Loops
  <2>2. Loops(m + 1, Stop, val, next, from) /\ Forward(m + 1, Stop, next)
    BY <1>8, <1>9 DEF Loops, Forward
  <2> HIDE DEF val, next, g
  <2> QED
    BY <1>10, <2>1, <2>2, LoopIs
<1>12. from[1] = Pure!Min(Stop) - 1
  <2>1. Ahead(1) = Stop
    BY <1>3 DEF Stop
  <2> QED
    BY <1>10, <1>11, <2>1
<1>13. from[1] = m <=> \A q \in 1 .. m : Good(q)
  <2> DEFINE low == Pure!Min(Stop)
  <2>1. low \in Stop /\ \A p \in Stop : low <= p
    BY <1>3, MinIs
  <2>2. from[1] = low - 1
    BY <1>12
  <2> HIDE DEF low
  <2>3. low \in 1 .. m + 1
    BY <2>1 DEF Stop
  <2>4. ~ Good(low)
    BY <1>4, <2>1, <2>3
  <2>5. ASSUME NEW q \in 1 .. m, ~ Good(q) PROVE low # m + 1
    <3>1. q \in 1 .. m + 1 /\ q < m + 1 /\ q \in Int
      BY <1>1
    <3>2. low <= q
      BY <1>4, <2>1, <2>5, <3>1
    <3> QED
      BY <1>1, <2>3, <3>1, <3>2, SMTT(30)
  <2>6. CASE low = m + 1
    <3>1. from[1] = m
      BY <1>1, <2>2, <2>6
    <3> QED
      BY <2>5, <2>6, <3>1
  <2>7. CASE low # m + 1
    <3>1. from[1] # m /\ low \in 1 .. m
      BY <1>1, <2>2, <2>3, <2>7
    <3> QED
      BY <2>4, <3>1
  <2> QED
    BY <2>6, <2>7
<1>14. (\A q \in 1 .. m : Good(q)) <=> Pure!OccursAt(text, substr, start)
  <2>1. (\A q \in 1 .. m : start + q - 1 <= n) <=> start + m <= n + 1
    <3>1. CASE m = 0
      BY <1>1, <3>1 DEF n
    <3>2. CASE m # 0
      <4>1. m \in 1 .. m
        BY <1>1, <3>2
      <4>2. (\A q \in 1 .. m : start + q - 1 <= n) => start + m - 1 <= n
        BY <4>1
      <4>3. ASSUME start + m - 1 <= n, NEW q \in 1 .. m PROVE start + q - 1 <= n
        BY <1>1, <4>3
      <4>4. start + m - 1 <= n <=> start + m <= n + 1
        BY <1>1
      <4> QED
        BY <4>2, <4>3, <4>4
    <3> QED
      BY <3>1, <3>2
  <2>2. DOMAIN substr = 1 .. m /\ DOMAIN text = 1 .. n
    BY LenProperties DEF m, n
  <2>3. ASSUME NEW q \in 1 .. m, start + q - 1 <= n
        PROVE  Pure!SameICase(text[start + q - 1], substr[q]) <=>
                 Pure!SameLetter(text[start + q - 1], substr[q])
    <3>1. start + q - 1 \in 1 .. n
      BY <1>1, <2>3 DEF n
    <3>2. text[start + q - 1] \in Int /\ substr[q] \in Int
      BY <2>2, <3>1, ElementOfSeq DEF m, n
    <3> QED
      BY <3>2, SameICaseIs
  <2>4. \A q \in 1 .. m : q <= m
    BY <1>1
  <2>5. (\A q \in 1 .. m : Good(q)) <=>
          /\ start + m <= n + 1
          /\ \A q \in 1 .. m : Pure!SameLetter(text[start + q - 1], substr[q])
    BY <2>1, <2>3, <2>4 DEF Good
  <2>6. Pure!OccursAt(text, substr, start) <=>
          /\ start + m <= n + 1
          /\ \A q \in 1 .. m : Pure!SameLetter(text[start + q - 1], substr[q])
    BY <2>2 DEF Pure!OccursAt, m, n
  <2> QED
    BY <2>5, <2>6
<1> QED
  BY <1>2, <1>13, <1>14 DEF m

\* strstrICase() finds the first place.
LEMMA SearchIs ==
  ASSUME NEW text \in Seq(Int), NEW substr \in Seq(Int)
  PROVE  LET places == {i \in DOMAIN text : Pure!OccursAt(text, substr, i)}
         IN  Pure!StrstrICase(text, substr) =
               IF places = {} THEN Pure!NULL ELSE Pure!Min(places)
<1> DEFINE n == Len(text)
           places == {i \in DOMAIN text : Pure!OccursAt(text, substr, i)}
           Here(q) == Pure!Matched(text, q, substr) = Len(substr)
           Stop == {q \in 1 .. n + 1 : q > n \/ Here(q)}
           val  == [q \in 1 .. n + 1 |-> IF q > n THEN 0 ELSE q]
           next == [q \in 1 .. n + 1 |-> q + 1]
           Ahead(q) == {p \in places : p >= q}
           g == [q \in 1 .. n + 1 |-> IF Ahead(q) = {} THEN 0 ELSE Pure!Min(Ahead(q))]
           Loop(f) == f = [q \in 1 .. n + 1 |->
                             IF q > n THEN 0 ELSE IF Here(q) THEN q ELSE f[q + 1]]
           from == CHOOSE f : Loop(f)
<1>1. n \in Nat /\ DOMAIN text = 1 .. n
  BY LenProperties
<1>2. Pure!StrstrICase(text, substr) = from[1]
  BY DEF Pure!StrstrICase, Pure!NULL
<1>3. \A q \in 1 .. n : Here(q) <=> q \in places
  BY <1>1, MatchedIs
<1>4. \A p \in places : p \in Nat /\ p >= 1 /\ p <= n
  BY <1>1
<1> HIDE DEF n, from, Here, places
<1>5. ASSUME NEW q \in 1 .. n + 1
      PROVE  g[q] = IF q \in Stop THEN val[q] ELSE g[next[q]]
  <2>1. Ahead(q) \in SUBSET Nat
    BY <1>1, <1>4
  <2>2. CASE q > n
    <3>1. Ahead(q) = {}
      BY <1>1, <1>4, <2>2
    <3> QED
      BY <2>2, <3>1
  <2>3. CASE ~ (q > n) /\ q \in places
    <3>1. q \in Ahead(q) /\ \A p \in Ahead(q) : q <= p
      BY <1>1, <1>4, <2>3
    <3> HIDE DEF Ahead
    <3>2. Pure!Min(Ahead(q)) = q
      BY <2>1, <3>1, MinIs
    <3>3. q \in Stop
      BY <1>1, <1>3, <2>3
    <3> QED
      BY <2>3, <3>1, <3>2, <3>3
  <2>4. CASE ~ (q > n) /\ q \notin places
    <3>1. Ahead(q) = Ahead(q + 1)
      <4>1. \A p \in places : p >= q <=> p >= q + 1
        <5>1. \A p \in places : p \in Int /\ p # q
          BY <1>1, <1>4, <2>4
        <5> QED
          BY <5>1
      <4> QED
        BY <4>1
    <3>2. q \notin Stop /\ next[q] = q + 1 /\ q + 1 \in 1 .. n + 1
      BY <1>1, <1>3, <2>4
    <3> HIDE DEF Ahead
    <3> QED
      BY <2>4, <3>1, <3>2
  <2> QED
    BY <2>2, <2>3, <2>4
<1>6. \A q \in 1 .. n + 1 :
        /\ q \in Stop => q > n \/ (~ (q > n) /\ Here(q))
        /\ q \notin Stop => ~ (q > n) /\ ~ Here(q) /\ next[q] = q + 1 /\ q + 1 \in q + 1 .. n + 1
                            /\ q + 1 \in 1 .. n + 1
  BY <1>1
<1>7. Loop(from)
  <2>1. ASSUME NEW q \in 1 .. n + 1
        PROVE  g[q] = IF q > n THEN 0 ELSE IF Here(q) THEN q ELSE g[q + 1]
    <3>1. val[q] = IF q > n THEN 0 ELSE q
      OBVIOUS
    <3>2. q > n => q \in Stop
      OBVIOUS
    <3>3. Here(q) => q \in Stop
      OBVIOUS
    <3> HIDE DEF g, val, Stop, next
    <3> QED
      BY <1>5, <1>6, <3>1, <3>2, <3>3
  <2>2. g = [q \in 1 .. n + 1 |-> g[q]]
    OBVIOUS
  <2> HIDE DEF g
  <2>3. Loop(g)
    BY <2>1, <2>2
  <2> HIDE DEF Loop
  <2> QED
    BY <2>3 DEF from
<1>8. Loops(n + 1, Stop, val, next, from)
  <2>1. \A q \in 1 .. n + 1 : val[q] = IF q > n THEN 0 ELSE q
    OBVIOUS
  <2> HIDE DEF val, Stop, next
  <2> QED
    BY <1>6, <1>7, <2>1 DEF Loops
<1>9. Loops(n + 1, Stop, val, next, g) /\ Forward(n + 1, Stop, next)
  BY <1>5, <1>6 DEF Loops, Forward
<1>10. 1 \in 1 .. n + 1 /\ n + 1 \in Nat
  BY <1>1
<1>11. from[1] = g[1]
  <2> HIDE DEF val, next, g, Stop
  <2> QED
    BY <1>8, <1>9, <1>10, LoopIs
<1>12. Ahead(1) = places
  BY <1>1, <1>4
<1>13. from[1] = IF places = {} THEN 0 ELSE Pure!Min(places)
  BY <1>10, <1>11, <1>12
<1> QED
  BY <1>2, <1>13 DEF places, Pure!NULL

\* A line ends at i.
CrLfAt(text, i) == text[i] = Pure!CR /\ text[i + 1] = Pure!LF

\* strstr() finds the first end of a line from head on.
LEMMA LineTailIs ==
  ASSUME NEW text, Len(text) \in Nat, NEW head \in Nat
  PROVE  LET tail == Pure!LineTail(text, head)
         IN  \/ /\ tail = 0
                /\ \A i \in head .. Len(text) - 1 : ~ CrLfAt(text, i)
             \/ /\ tail \in head .. Len(text) - 1 /\ CrLfAt(text, tail)
                /\ \A i \in head .. Len(text) - 1 : CrLfAt(text, i) => tail <= i
<1> DEFINE tail == Pure!LineTail(text, head)
           ends == {i \in head .. Len(text) - 1 : CrLfAt(text, i)}
<1>1. tail = IF ends = {} THEN 0 ELSE Pure!Min(ends)
  BY DEF Pure!LineTail, Pure!NULL, CrLfAt
<1>2. \A i \in head .. Len(text) - 1 : i \in Nat
  OBVIOUS
<1>3. ends \in SUBSET Nat
  BY <1>2
<1> HIDE DEF tail
<1>4. CASE ends = {}
  BY <1>1, <1>4 DEF tail
<1>5. CASE ends # {}
  <2> HIDE DEF ends
  <2>1. tail \in ends /\ \A y \in ends : tail <= y
    BY <1>1, <1>3, <1>5, MinIs
  <2> QED
    BY <2>1 DEF ends, tail
<1> QED
  BY <1>4, <1>5

\* Two characters end a line when they are CR and LF.
LEMMA TwoAre ==
  ASSUME NEW S, NEW text \in Seq(S), NEW i \in 1 .. Len(text) - 1
  PROVE  SubSeq(text, i, i + 1) = <<Pure!CR, Pure!LF>> <=> CrLfAt(text, i)
<1> DEFINE two == SubSeq(text, i, i + 1)
<1>1. i \in Nat /\ i >= 1 /\ i + 1 <= Len(text) /\ Len(text) \in Nat
  BY LenProperties
<1>2. Len(two) = 2 /\ DOMAIN two = 1 .. 2 /\ two[1] = text[i] /\ two[2] = text[i + 1]
  <2>1. /\ Len(two) = (i + 1) - i + 1
        /\ \A j \in 1 .. (i + 1) - i + 1 : two[j] = text[i + j - 1]
        /\ two \in Seq(S)
    <3>1. \A j \in i .. i + 1 : text[j] \in S
      BY <1>1, ElementOfSeq
    <3> QED
      BY <1>1, <3>1, SubSeqProperties, SMTT(30)
  <2>2. DOMAIN two = 1 .. Len(two)
    BY <2>1, LenProperties
  <2>3. 1 \in 1 .. 2 /\ 2 \in 1 .. 2 /\ (i + 1) - i + 1 = 2 /\ i + 1 - 1 = i /\ i + 2 - 1 = i + 1
    BY <1>1
  <2> QED
    BY <2>1, <2>2, <2>3
<1>3. two \in Seq({text[i], text[i + 1]})
  <2>1. two = [j \in 1 .. 2 |-> two[j]]
    BY <1>1, <1>2, SubSeqProperties
  <2> HIDE DEF two
  <2>2. \A j \in 1 .. 2 : two[j] \in {text[i], text[i + 1]}
    <3>1. \A j \in 1 .. 2 : j = 1 \/ j = 2
      OBVIOUS
    <3> QED
      BY <1>2, <3>1
  <2> QED
    BY <2>1, <2>2, IsASeq
<1> HIDE DEF two
<1>4. two = <<text[i], text[i + 1]>>
  <2>1. <<text[i], text[i + 1]>> \in Seq({text[i], text[i + 1]})
    OBVIOUS
  <2>2. \A j \in 1 .. 2 : two[j] = <<text[i], text[i + 1]>>[j]
    <3>1. \A j \in 1 .. 2 : j = 1 \/ j = 2
      OBVIOUS
    <3> QED
      BY <1>2, <3>1
  <2>3. Len(<<text[i], text[i + 1]>>) = 2
    OBVIOUS
  <2> QED
    BY <1>2, <1>3, <2>1, <2>2, <2>3, SeqEqual
<1>5. \A a, b, c, d : <<a, b>> = <<c, d>> <=> a = c /\ b = d
  OBVIOUS
<1> QED
  BY <1>4, <1>5 DEF two, CrLfAt

\* parseHttpHeader() sees an empty line exactly when there is one.
LEMMA HeaderIs ==
  ASSUME NEW S, NEW text \in Seq(S)
  PROVE  Pure!FullHeader(text) = (\E i \in 1 .. Len(text) - 1 : Pure!EmptyLineAt(text, i))
<1> DEFINE n == Len(text)
           Tail1(h) == Pure!LineTail(text, h)
           Ends(i) == CrLfAt(text, i)
           Stop == {h \in 1 .. n + 1 : Tail1(h) = 0 \/ Tail1(h) = h}
           val  == [h \in 1 .. n + 1 |-> Tail1(h) # 0]
           next == [h \in 1 .. n + 1 |-> Tail1(h) + 2]
           Empty(h) == \E i \in h .. n - 1 : Ends(i) /\ (i = h \/ (i - 2 >= h /\ Ends(i - 2)))
           g == [h \in 1 .. n + 1 |-> Empty(h)]
           Loop(f) == f = [h \in 1 .. n + 1 |->
                             Tail1(h) # 0 /\ (Tail1(h) = h \/ f[Tail1(h) + 2])]
           walk == CHOOSE f : Loop(f)
<1>1. n \in Nat /\ DOMAIN text = 1 .. n
  BY LenProperties
<1>2. Pure!FullHeader(text) = walk[1]
  BY DEF Pure!FullHeader, Pure!NULL
<1>3. ASSUME NEW h \in 1 .. n + 1
      PROVE  \/ Tail1(h) = 0 /\ \A i \in h .. n - 1 : ~ Ends(i)
             \/ /\ Tail1(h) \in h .. n - 1 /\ Ends(Tail1(h))
                /\ \A i \in h .. n - 1 : Ends(i) => Tail1(h) <= i
  <2>1. h \in Nat
    BY <1>1
  <2> QED
    BY <1>1, <2>1, LineTailIs
<1>4. \A i \in Int : ~ (Ends(i) /\ Ends(i + 1))
  BY DEF CrLfAt, Pure!CR, Pure!LF
<1> HIDE DEF n, Tail1, Ends, walk
<1>5. \A h \in 1 .. n + 1 :
        h \notin Stop => /\ Tail1(h) # 0 /\ Tail1(h) # h
                         /\ next[h] = Tail1(h) + 2 /\ next[h] \in h + 1 .. n + 1
                         /\ next[h] \in 1 .. n + 1
  <2> SUFFICES ASSUME NEW h \in 1 .. n + 1, h \notin Stop
               PROVE  /\ Tail1(h) # 0 /\ Tail1(h) # h
                      /\ next[h] = Tail1(h) + 2 /\ next[h] \in h + 1 .. n + 1
                      /\ next[h] \in 1 .. n + 1
    OBVIOUS
  <2>1. Tail1(h) # 0 /\ Tail1(h) # h /\ Tail1(h) \in h .. n - 1
    BY <1>3
  <2> QED
    BY <1>1, <2>1
<1>6. ASSUME NEW h \in 1 .. n + 1
      PROVE  Empty(h) <=> Tail1(h) # 0 /\ (Tail1(h) = h \/ Empty(Tail1(h) + 2))
  <2>0. h \in Nat /\ h >= 1
    BY <1>1
  <2>1. CASE Tail1(h) = 0
    BY <1>3, <2>0, <2>1
  <2>2. CASE Tail1(h) # 0 /\ Tail1(h) = h
    BY <1>3, <2>0, <2>2
  <2>3. CASE Tail1(h) # 0 /\ Tail1(h) # h
    <3> DEFINE t == Tail1(h)
    <3>1. t \in Int /\ t > h /\ t <= n - 1 /\ Ends(t)
          /\ \A i \in h .. n - 1 : Ends(i) => t <= i
      BY <1>1, <1>3, <2>0, <2>3
    <3> HIDE DEF t
    <3>2. ASSUME NEW i \in h .. n - 1, Ends(i), i = h \/ (i - 2 >= h /\ Ends(i - 2))
          PROVE  /\ i \in t + 2 .. n - 1
                 /\ i = t + 2 \/ (i - 2 >= t + 2 /\ Ends(i - 2))
      <4>1. i - 2 >= h /\ Ends(i - 2) /\ i \in Int /\ i <= n - 1
        BY <1>1, <2>0, <3>1, <3>2
      <4>2. i - 2 \in h .. n - 1
        BY <1>1, <2>0, <4>1
      <4>3. t <= i - 2
        BY <3>1, <4>1, <4>2
      <4>4. i - 2 # t + 1
        BY <1>4, <3>1, <4>1
      <4> QED
        BY <1>1, <3>1, <4>1, <4>3, <4>4
    <3>3. ASSUME NEW i \in t + 2 .. n - 1, Ends(i),
                 i = t + 2 \/ (i - 2 >= t + 2 /\ Ends(i - 2))
          PROVE  i \in h .. n - 1 /\ i - 2 >= h /\ Ends(i - 2)
      <4>1. i \in h .. n - 1 /\ i - 2 >= h
        BY <1>1, <2>0, <3>1
      <4>2. CASE i = t + 2
        <5>1. i - 2 = t
          BY <3>1, <4>2
        <5> QED
          BY <3>1, <4>1, <5>1
      <4> QED
        BY <3>3, <4>1, <4>2
    <3>4. Empty(h) => Empty(t + 2)
      BY <3>2
    <3>5. Empty(t + 2) => Empty(h)
      BY <3>3
    <3> HIDE DEF Empty
    <3> QED
      BY <2>3, <3>4, <3>5 DEF t
  <2> QED
    BY <2>1, <2>2, <2>3
<1>7. \A h \in 1 .. n + 1 : g[h] = Empty(h)
  OBVIOUS
<1>8. \A h \in 1 .. n + 1 : val[h] = (Tail1(h) # 0)
  OBVIOUS
<1>9. \A h \in 1 .. n + 1 : h \in Stop <=> Tail1(h) = 0 \/ Tail1(h) = h
  OBVIOUS
<1>10. g = [h \in 1 .. n + 1 |-> g[h]]
  OBVIOUS
<1> HIDE DEF g, val, Stop, next
<1>11. \A h \in 1 .. n + 1 : Empty(h) \in BOOLEAN
  OBVIOUS
<1> HIDE DEF Empty
<1>12. Loop(walk)
  <2>1. ASSUME NEW h \in 1 .. n + 1
        PROVE  g[h] = (Tail1(h) # 0 /\ (Tail1(h) = h \/ g[Tail1(h) + 2]))
    <3>1. CASE h \in Stop
      BY <1>6, <1>7, <1>9, <1>11, <3>1
    <3>2. CASE h \notin Stop
      <4>1. Tail1(h) # 0 /\ Tail1(h) # h /\ Tail1(h) + 2 \in 1 .. n + 1
        BY <1>5, <3>2
      <4>2. g[h] = Empty(h) /\ g[Tail1(h) + 2] = Empty(Tail1(h) + 2)
        BY <1>7, <4>1
      <4> QED
        BY <1>6, <1>11, <4>1, <4>2
    <3> QED
      BY <3>1, <3>2
  <2>2. Loop(g)
    BY <1>10, <2>1
  <2> HIDE DEF Loop
  <2> QED
    BY <2>2 DEF walk
<1>13. \A h \in 1 .. n + 1 :
         walk[h] = (Tail1(h) # 0 /\ (Tail1(h) = h \/ walk[Tail1(h) + 2]))
  BY <1>12
<1>14. \A h \in 1 .. n + 1 : walk[h] \in BOOLEAN
  BY <1>13
<1>15. Loops(n + 1, Stop, val, next, walk)
  <2> SUFFICES ASSUME NEW h \in 1 .. n + 1
               PROVE  walk[h] = IF h \in Stop THEN val[h] ELSE walk[next[h]]
    BY DEF Loops
  <2>1. CASE h \in Stop
    BY <1>8, <1>9, <1>13, <2>1
  <2>2. CASE h \notin Stop
    <3>1. /\ Tail1(h) # 0 /\ Tail1(h) # h
          /\ next[h] = Tail1(h) + 2 /\ next[h] \in 1 .. n + 1
      BY <1>5, <2>2
    <3> QED
      BY <1>13, <1>14, <2>2, <3>1
  <2> QED
    BY <2>1, <2>2
<1>16. Loops(n + 1, Stop, val, next, g)
  <2> SUFFICES ASSUME NEW h \in 1 .. n + 1
               PROVE  g[h] = IF h \in Stop THEN val[h] ELSE g[next[h]]
    BY DEF Loops
  <2>1. CASE h \in Stop
    BY <1>6, <1>7, <1>8, <1>9, <1>11, <2>1
  <2>2. CASE h \notin Stop
    <3>1. /\ Tail1(h) # 0 /\ Tail1(h) # h
          /\ next[h] = Tail1(h) + 2 /\ next[h] \in 1 .. n + 1
      BY <1>5, <2>2
    <3> QED
      BY <1>6, <1>7, <1>11, <2>2, <3>1
  <2> QED
    BY <2>1, <2>2
<1>17. Forward(n + 1, Stop, next)
  BY <1>5 DEF Forward
<1>18. 1 \in 1 .. n + 1 /\ n + 1 \in Nat
  BY <1>1
<1>19. walk[1] = Empty(1)
  <2>1. walk[1] = g[1]
    BY <1>15, <1>16, <1>17, <1>18, LoopIs
  <2> QED
    BY <1>7, <1>18, <2>1
<1>20. \A i \in 1 .. n - 1 :
         Pure!EmptyLineAt(text, i) <=> Ends(i) /\ (i = 1 \/ (i - 2 >= 1 /\ Ends(i - 2)))
  <2> SUFFICES ASSUME NEW i \in 1 .. n - 1
               PROVE  Pure!EmptyLineAt(text, i) <=>
                        Ends(i) /\ (i = 1 \/ (i - 2 >= 1 /\ Ends(i - 2)))
    OBVIOUS
  <2>1. SubSeq(text, i, i + 1) = <<Pure!CR, Pure!LF>> <=> Ends(i)
    BY TwoAre DEF n, Ends
  <2>2. ASSUME i > 2
        PROVE  SubSeq(text, i - 2, i - 1) = <<Pure!CR, Pure!LF>> <=> Ends(i - 2)
    <3>1. i - 2 \in 1 .. Len(text) - 1 /\ (i - 2) + 1 = i - 1
      BY <1>1, <2>2 DEF n
    <3>2. SubSeq(text, i - 2, (i - 2) + 1) = <<Pure!CR, Pure!LF>> <=> Ends(i - 2)
      BY <3>1, TwoAre DEF Ends
    <3> QED
      BY <3>1, <3>2
  <2>3. i > 2 <=> i - 2 >= 1
    BY <1>1
  <2> QED
    BY <2>1, <2>2, <2>3 DEF Pure!EmptyLineAt
<1>21. Empty(1) <=> \E i \in 1 .. n - 1 : Pure!EmptyLineAt(text, i)
  BY <1>20 DEF Empty
<1>22. Empty(1) = (\E i \in 1 .. n - 1 : Pure!EmptyLineAt(text, i))
  BY <1>11, <1>18, <1>21
<1> QED
  BY <1>2, <1>19, <1>22 DEF n

\* A loop that joins a part at each place to what it finds at a later one.
Joins(n, Stop, part, next, f) ==
  f = [q \in 1 .. n |-> IF q \in Stop THEN part[q] ELSE part[q] \o f[next[q]]]

\* There is such a loop.
LEMMA JoinsExist ==
  ASSUME NEW n \in Nat, NEW Stop, NEW part, NEW next, Forward(n, Stop, next)
  PROVE  \E f : Joins(n, Stop, part, next, f)
<1> DEFINE Step(f, q) == IF q \in Stop THEN part[q] ELSE part[q] \o f[next[q]]
           T == {d \in Nat : \E f : \A q \in 1 .. n : q > n - d => f[q] = Step(f, q)}
<1>1. 0 \in T
  <2>1. \A q \in 1 .. n : ~ (q > n - 0)
    OBVIOUS
  <2> QED
    BY <2>1
<1>2. ASSUME NEW d \in Nat, d \in T PROVE d + 1 \in T
  <2>1. PICK f : \A q \in 1 .. n : q > n - d => f[q] = Step(f, q)
    BY <1>2
  <2> DEFINE h == [q \in 1 .. n |-> IF q > n - d THEN f[q] ELSE Step(f, q)]
  <2>2. ASSUME NEW q \in 1 .. n, q > n - (d + 1) PROVE h[q] = Step(h, q)
    <3>1. CASE q \in Stop
      BY <2>1, <3>1
    <3>2. CASE q \notin Stop
      <4>1. next[q] \in 1 .. n /\ next[q] > n - d
        <5>1. next[q] \in q + 1 .. n
          BY <3>2 DEF Forward
        <5> QED
          BY <2>2, <5>1
      <4>2. h[next[q]] = f[next[q]]
        BY <4>1
      <4>3. h[q] = Step(f, q)
        BY <2>1
      <4> HIDE DEF h
      <4> QED
        BY <3>2, <4>2, <4>3
    <3> QED
      BY <3>1, <3>2
  <2> HIDE DEF h, Step
  <2> QED
    BY <2>2
<1> HIDE DEF T
<1>3. n \in T
  BY <1>1, <1>2, NatAll
<1>4. PICK f : \A q \in 1 .. n : q > n - n => f[q] = Step(f, q)
  BY <1>3 DEF T
<1>5. \A q \in 1 .. n : f[q] = Step(f, q)
  <2>1. \A q \in 1 .. n : q > n - n
    OBVIOUS
  <2> QED
    BY <1>4, <2>1
<1> DEFINE h == [q \in 1 .. n |-> f[q]]
<1>6. ASSUME NEW q \in 1 .. n PROVE h[q] = Step(h, q)
  <2>1. CASE q \in Stop
    BY <1>5, <2>1
  <2>2. CASE q \notin Stop
    <3>1. next[q] \in 1 .. n
      <4>1. next[q] \in q + 1 .. n
        BY <2>2 DEF Forward
      <4> QED
        BY <4>1
    <3>2. h[next[q]] = f[next[q]] /\ h[q] = f[q]
      BY <3>1
    <3> HIDE DEF h
    <3> QED
      BY <1>5, <2>2, <3>2
  <2> QED
    BY <2>1, <2>2
<1>7. h = [q \in 1 .. n |-> h[q]]
  OBVIOUS
<1> HIDE DEF h
<1>8. h = [q \in 1 .. n |-> Step(h, q)]
  BY <1>6, <1>7
<1> QED
  BY <1>8 DEF Joins

\* The fields that begin at i or later, and that r is the sequence of them.
StartsFrom(s, i) == {j \in Pure!FieldStarts(s) : j >= i}
FieldsFrom(s, i, r) ==
  /\ r \in Seq(Seq(ToSet(s)))
  /\ Len(r) = Cardinality(StartsFrom(s, i))
  /\ \A k \in 1 .. Len(r) : \E j \in StartsFrom(s, i) :
       /\ Cardinality({x \in StartsFrom(s, i) : x < j}) = k - 1
       /\ Pure!IsField(s, j, r[k])

\* A field may begin at i.
Fresh(s, i) == i = 1 \/ s[i - 1] = Separator

\* A sequence is one of its own elements.
LEMMA OwnElements ==
  ASSUME NEW S, NEW s \in Seq(S)
  PROVE  /\ Len(s) \in Nat /\ DOMAIN s = 1 .. Len(s) /\ s \in Seq(ToSet(s))
         /\ \A j \in 1 .. Len(s) : s[j] \in ToSet(s)
<1>1. Len(s) \in Nat /\ DOMAIN s = 1 .. Len(s) /\ s = [i \in 1 .. Len(s) |-> s[i]]
  BY LenProperties
<1>2. \A j \in 1 .. Len(s) : s[j] \in ToSet(s)
  BY <1>1 DEF ToSet
<1>3. s \in Seq(ToSet(s))
  <2>1. s \in [1 .. Len(s) -> ToSet(s)]
    BY <1>1, <1>2
  <2> QED
    BY <1>1, <2>1, SeqDef
<1> QED
  BY <1>1, <1>2, <1>3

\* What is between two separators is a field.
LEMMA FieldIs ==
  ASSUME NEW S, NEW s \in Seq(S), NEW i \in 1 .. Len(s), NEW e \in i .. Len(s),
         \A j \in i .. e : s[j] # Separator,
         e + 1 \in 1 .. Len(s) => s[e + 1] = Separator
  PROVE  SubSeq(s, i, e) \in Seq(ToSet(s)) /\ Pure!IsField(s, i, SubSeq(s, i, e))
<1> DEFINE field == SubSeq(s, i, e)
<1>1. /\ Len(s) \in Nat /\ DOMAIN s = 1 .. Len(s)
      /\ \A j \in 1 .. Len(s) : s[j] \in ToSet(s)
  BY OwnElements
<1>2. i \in Nat /\ e \in Nat /\ i >= 1 /\ i <= e /\ e <= Len(s)
  BY <1>1
<1>3. /\ field \in Seq(ToSet(s)) /\ Len(field) = e - i + 1
      /\ \A k \in 1 .. e - i + 1 : field[k] = s[i + k - 1]
  <2>1. \A j \in i .. e : s[j] \in ToSet(s)
    BY <1>1, <1>2
  <2> QED
    BY <1>2, <2>1, SubSeqProperties
<1> HIDE DEF field
<1>4. i + Len(field) - 1 = e /\ i + Len(field) = e + 1
  BY <1>2, <1>3
<1>5. Separator \notin ToSet(field)
  <2> SUFFICES ASSUME NEW k \in DOMAIN field PROVE field[k] # Separator
    BY DEF ToSet
  <2>1. k \in 1 .. e - i + 1
    BY <1>3, LenProperties
  <2>2. i + k - 1 \in i .. e
    BY <1>2, <2>1
  <2> QED
    BY <1>3, <2>1, <2>2
<1>6. Pure!ToSet(field) = ToSet(field)
  BY DEF Pure!ToSet, ToSet
<1>7. SubSeq(s, i, i + Len(field) - 1) = field
  BY <1>4 DEF field
<1>8. i + Len(field) \in DOMAIN s => s[i + Len(field)] = Separator
  BY <1>1, <1>4
<1>9. Pure!IsField(s, i, field)
  BY <1>5, <1>6, <1>7, <1>8 DEF Pure!IsField
<1> QED
  BY <1>3, <1>9 DEF field

\* There are only so many fields.
LEMMA StartsAre ==
  ASSUME NEW S, NEW s \in Seq(S), NEW i
  PROVE  /\ \A j \in StartsFrom(s, i) : j \in 1 .. Len(s) /\ j \in Nat /\ j >= i
         /\ \A j \in 1 .. Len(s) :
              j \in StartsFrom(s, i) <=> j >= i /\ s[j] # Separator /\ Fresh(s, j)
         /\ \A T \in SUBSET StartsFrom(s, i) : IsFiniteSet(T) /\ Cardinality(T) \in Nat
<1>1. Len(s) \in Nat /\ DOMAIN s = 1 .. Len(s)
  BY LenProperties
<1>2. \A j \in StartsFrom(s, i) : j \in 1 .. Len(s) /\ j \in Nat /\ j >= i
  BY <1>1 DEF StartsFrom, Pure!FieldStarts
<1>3. \A j \in 1 .. Len(s) :
        j \in StartsFrom(s, i) <=> j >= i /\ s[j] # Separator /\ Fresh(s, j)
  BY <1>1 DEF StartsFrom, Pure!FieldStarts, Fresh
<1>4. ASSUME NEW T \in SUBSET StartsFrom(s, i) PROVE IsFiniteSet(T) /\ Cardinality(T) \in Nat
  <2>1. IsFiniteSet(1 .. Len(s))
    BY <1>1, FS_Interval
  <2>2. T \subseteq 1 .. Len(s)
    BY <1>2
  <2>3. IsFiniteSet(T)
    BY <2>1, <2>2, FS_Subset
  <2> QED
    BY <2>3, FS_CardinalityType
<1> QED
  BY <1>2, <1>3, <1>4

\* No field begins behind the end.
LEMMA NoFields ==
  ASSUME NEW S, NEW s \in Seq(S)
  PROVE  FieldsFrom(s, Len(s) + 1, <<>>)
<1>1. Len(s) \in Nat
  BY LenProperties
<1>2. StartsFrom(s, Len(s) + 1) = {}
  <2>1. \A j \in StartsFrom(s, Len(s) + 1) : j \in 1 .. Len(s) /\ j >= Len(s) + 1
    BY StartsAre
  <2> QED
    BY <1>1, <2>1
<1>3. Cardinality({}) = 0
  BY FS_EmptySet
<1>4. <<>> \in Seq(Seq(ToSet(s))) /\ Len(<<>>) = 0
  OBVIOUS
<1>5. \A k \in 1 .. 0 : FALSE
  OBVIOUS
<1> QED
  BY <1>2, <1>3, <1>4, <1>5 DEF FieldsFrom

\* None begins at a separator.
LEMMA EmptyField ==
  ASSUME NEW S, NEW s \in Seq(S), NEW i \in 1 .. Len(s), s[i] = Separator
  PROVE  StartsFrom(s, i) = StartsFrom(s, i + 1)
<1>1. \A j \in 1 .. Len(s) : j \in StartsFrom(s, i) <=> j \in StartsFrom(s, i + 1)
  <2> SUFFICES ASSUME NEW j \in 1 .. Len(s)
               PROVE  j \in StartsFrom(s, i) <=> j \in StartsFrom(s, i + 1)
    OBVIOUS
  <2>1. j >= i <=> j = i \/ j >= i + 1
    OBVIOUS
  <2>2. /\ j \in StartsFrom(s, i) <=> j >= i /\ s[j] # Separator /\ Fresh(s, j)
        /\ j \in StartsFrom(s, i + 1) <=> j >= i + 1 /\ s[j] # Separator /\ Fresh(s, j)
    BY StartsAre
  <2>3. j >= i + 1 => j >= i
    OBVIOUS
  <2> QED
    BY <2>1, <2>2, <2>3
<1>2. /\ \A j \in StartsFrom(s, i) : j \in 1 .. Len(s)
      /\ \A j \in StartsFrom(s, i + 1) : j \in 1 .. Len(s)
  BY StartsAre
<1> QED
  BY <1>1, <1>2

\* The field from i to e, behind which the next one is sought from b on.
IsNext(s, i, e, b) ==
  /\ i \in 1 .. Len(s) /\ e \in i .. Len(s) /\ Fresh(s, i)
  /\ \A j \in i .. e : s[j] # Separator
  /\ \/ e = Len(s) /\ b = e + 1
     \/ e < Len(s) /\ b = e + 2 /\ s[e + 1] = Separator

\* The next one begins behind the separator that ends a field, or there is none.
LEMMA NextField ==
  ASSUME NEW S, NEW s \in Seq(S), NEW i, NEW e, NEW b, IsNext(s, i, e, b)
  PROVE  StartsFrom(s, i) = {i} \cup StartsFrom(s, b) /\ i \notin StartsFrom(s, b)
<1>1. /\ i \in Nat /\ e \in Nat /\ i >= 1 /\ i <= e /\ e <= Len(s) /\ Len(s) \in Nat
      /\ b \in Nat /\ b > e /\ i \in i .. e /\ i \in 1 .. Len(s)
  BY LenProperties DEF IsNext
<1>0. /\ Fresh(s, i) /\ \A j \in i .. e : s[j] # Separator
      /\ b = e + 1 \/ (b = e + 2 /\ s[e + 1] = Separator)
  BY DEF IsNext
<1>2. /\ \A j \in StartsFrom(s, i) : j \in 1 .. Len(s)
      /\ \A j \in StartsFrom(s, b) : j \in 1 .. Len(s)
  BY StartsAre
<1>3. \A j \in 1 .. Len(s) :
        /\ j \in StartsFrom(s, i) <=> j >= i /\ s[j] # Separator /\ Fresh(s, j)
        /\ j \in StartsFrom(s, b) <=> j >= b /\ s[j] # Separator /\ Fresh(s, j)
  BY StartsAre
<1>4. ASSUME NEW j \in 1 .. Len(s)
      PROVE  j \in StartsFrom(s, i) <=> j = i \/ j \in StartsFrom(s, b)
  <2>1. CASE j < i
    <3>1. ~ (j >= i) /\ ~ (j >= b) /\ j # i
      BY <1>1, <2>1
    <3> QED
      BY <1>3, <3>1
  <2>2. CASE j = i
    <3>1. j \in i .. e /\ j >= i
      BY <1>1, <2>2
    <3> QED
      BY <1>0, <1>3, <2>2, <3>1
  <2>3. CASE j > i /\ j <= e
    <3>1. j - 1 \in i .. e /\ j # 1 /\ j # i /\ ~ (j >= b)
      BY <1>1, <2>3
    <3>2. ~ Fresh(s, j)
      BY <1>0, <3>1 DEF Fresh
    <3> QED
      BY <1>3, <3>1, <3>2
  <2>4. CASE j > e /\ j < b
    <3>1. j = e + 1 /\ b # e + 1 /\ j # i /\ ~ (j >= b)
      BY <1>0, <1>1, <2>4
    <3>2. s[j] = Separator
      BY <1>0, <3>1
    <3> QED
      BY <1>3, <3>1, <3>2
  <2>5. CASE j >= b
    <3>1. j >= i /\ j # i
      BY <1>1, <2>5
    <3> QED
      BY <1>3, <2>5, <3>1
  <2>6. j < i \/ j = i \/ (j > i /\ j <= e) \/ (j > e /\ j < b) \/ j >= b
    BY <1>1
  <2> QED
    BY <2>1, <2>2, <2>3, <2>4, <2>5, <2>6
<1>5. ~ (i >= b)
  BY <1>1
<1>6. i \notin StartsFrom(s, b)
  BY <1>1, <1>3, <1>5
<1> QED
  BY <1>1, <1>2, <1>4, <1>6

\* With the field in front, they are those from its beginning on.
LEMMA FieldFirst ==
  ASSUME NEW S, NEW s \in Seq(S), NEW i, NEW e, NEW b, IsNext(s, i, e, b),
         NEW r, FieldsFrom(s, b, r)
  PROVE  FieldsFrom(s, i, <<SubSeq(s, i, e)>> \o r)
<1> DEFINE field == SubSeq(s, i, e)
           F == StartsFrom(s, i)
           G == StartsFrom(s, b)
           t == <<field>> \o r
<1>1. F = {i} \cup G /\ i \notin G
  BY NextField
<1>2. /\ \A j \in G : j \in Nat /\ j >= b
      /\ \A T \in SUBSET F : IsFiniteSet(T) /\ Cardinality(T) \in Nat
  BY StartsAre
<1>3. i \in Nat /\ e \in Nat /\ Len(s) \in Nat /\ e <= Len(s) /\ b \in Nat /\ b > i
  BY LenProperties DEF IsNext
<1>4. field \in Seq(ToSet(s)) /\ Pure!IsField(s, i, field)
  <2>1. /\ i \in 1 .. Len(s) /\ e \in i .. Len(s) /\ \A j \in i .. e : s[j] # Separator
        /\ e + 1 \in 1 .. Len(s) => s[e + 1] = Separator
    BY <1>3 DEF IsNext
  <2> QED
    BY <2>1, FieldIs
<1>5. /\ r \in Seq(Seq(ToSet(s))) /\ Len(r) = Cardinality(G) /\ Len(r) \in Nat
      /\ \A k \in 1 .. Len(r) : \E j \in G :
           /\ Cardinality({x \in G : x < j}) = k - 1
           /\ Pure!IsField(s, j, r[k])
  BY LenProperties DEF FieldsFrom
<1> HIDE DEF field, F, G
<1>6. /\ t \in Seq(Seq(ToSet(s))) /\ Len(t) = Len(r) + 1 /\ t[1] = field
      /\ \A k \in 2 .. Len(r) + 1 : t[k] = r[k - 1]
  BY <1>4, <1>5
<1>7. Cardinality(F) = Cardinality(G) + 1
  <2>1. IsFiniteSet(G)
    BY <1>1, <1>2
  <2>2. F = G \cup {i}
    BY <1>1
  <2> QED
    BY <1>1, <2>1, <2>2, FS_AddElement
<1>8. ASSUME NEW k \in 1 .. Len(t)
      PROVE  \E j \in F : Cardinality({x \in F : x < j}) = k - 1 /\ Pure!IsField(s, j, t[k])
  <2>1. CASE k = 1
    <3>1. {x \in F : x < i} = {}
      <4>1. \A x \in F : ~ (x < i)
        BY <1>1, <1>2, <1>3
      <4> QED
        BY <4>1
    <3>2. Cardinality({}) = 0
      BY FS_EmptySet
    <3>3. Cardinality({x \in F : x < i}) = 0
      BY <3>1, <3>2
    <3>4. Cardinality({x \in F : x < i}) = k - 1
      BY <2>1, <3>3
    <3>5. i \in F /\ Pure!IsField(s, i, t[k])
      BY <1>1, <1>4, <1>6, <2>1
    <3> QED
      BY <3>4, <3>5
  <2>2. CASE k # 1
    <3>1. k \in 2 .. Len(r) + 1 /\ k - 1 \in 1 .. Len(r) /\ k \in Nat
      BY <1>5, <1>6, <2>2
    <3>2. PICK j \in G : /\ Cardinality({x \in G : x < j}) = (k - 1) - 1
                         /\ Pure!IsField(s, j, r[k - 1])
      BY <1>5, <3>1
    <3>3. {x \in F : x < j} = {x \in G : x < j} \cup {i} /\ i \notin {x \in G : x < j}
      <4>1. i < j
        BY <1>2, <1>3
      <4> QED
        BY <1>1, <4>1
    <3>4. IsFiniteSet({x \in G : x < j})
      <4>1. {x \in G : x < j} \in SUBSET F
        BY <1>1
      <4> QED
        BY <1>2, <4>1
    <3>5. Cardinality({x \in F : x < j}) = Cardinality({x \in G : x < j}) + 1
      BY <3>3, <3>4, FS_AddElement
    <3>6. Cardinality({x \in F : x < j}) = k - 1
      BY <3>1, <3>2, <3>5
    <3> QED
      BY <1>1, <1>6, <3>1, <3>2, <3>6
  <2> QED
    BY <2>1, <2>2
<1>9. Len(t) = Cardinality(F)
  BY <1>5, <1>6, <1>7
<1> QED
  BY <1>6, <1>8, <1>9 DEF FieldsFrom, F, field

\* split() returns the fields in their order.
LEMMA SplitIs ==
  ASSUME NEW S, NEW s \in Seq(S)
  PROVE  FieldsFrom(s, 1, Pure!Split(s, Separator))
<1> DEFINE n == Len(s)
           Found(i) == {j \in i .. n : s[j] = Separator}
           Field(i, k) == IF k > 0 THEN <<SubSeq(s, i, i + k - 1)>> ELSE <<>>
           Stop == {i \in 1 .. n + 1 : Found(i) = {}}
           part == [i \in 1 .. n + 1 |-> Field(i, (IF Found(i) = {} THEN n + 1
                                                   ELSE Pure!Min(Found(i))) - i)]
           next == [i \in 1 .. n + 1 |-> Pure!Min(Found(i)) + 1]
           Loop(f) == f = [i \in 1 .. n + 1 |->
                             IF Found(i) = {} THEN Field(i, n - i + 1)
                             ELSE Field(i, Pure!Min(Found(i)) - i)
                                    \o f[Pure!Min(Found(i)) + 1]]
           rest == CHOOSE f : Loop(f)
<1>1. n \in Nat
  BY LenProperties
<1>2. Pure!Split(s, Separator) = rest[1]
  BY DEF Pure!Split
<1> HIDE DEF n, rest
<1>3. ASSUME NEW i \in 1 .. n + 1, Found(i) # {}
      PROVE  LET m == Pure!Min(Found(i))
             IN  m \in i .. n /\ s[m] = Separator /\ \A j \in i .. m - 1 : s[j] # Separator
  <2> DEFINE m == Pure!Min(Found(i))
  <2>1. Found(i) \in SUBSET Nat
    <3>1. \A j \in i .. n : j \in Nat
      BY <1>1
    <3> QED
      BY <3>1
  <2> HIDE DEF Found
  <2>2. m \in Found(i) /\ \A j \in Found(i) : m <= j
    BY <1>3, <2>1, MinIs
  <2> HIDE DEF m
  <2>3. m \in i .. n /\ s[m] = Separator
    BY <2>2 DEF Found
  <2>4. ASSUME NEW j \in i .. m - 1 PROVE s[j] # Separator
    <3>1. j \in i .. n /\ ~ (m <= j)
      BY <1>1, <2>3
    <3> QED
      BY <2>2, <3>1 DEF Found
  <2> QED
    BY <2>3, <2>4 DEF m
<1>4. \A i \in 1 .. n + 1 : Found(i) = {} => \A j \in i .. n : s[j] # Separator
  OBVIOUS
<1> HIDE DEF Found, Field
<1>5. Forward(n + 1, Stop, next)
  <2> SUFFICES ASSUME NEW i \in 1 .. n + 1, Found(i) # {} PROVE next[i] \in i + 1 .. n + 1
    BY DEF Forward
  <2>1. Pure!Min(Found(i)) \in i .. n
    BY <1>3
  <2>2. next[i] = Pure!Min(Found(i)) + 1
    OBVIOUS
  <2> QED
    BY <1>1, <2>1, <2>2
<1>6. Loop(rest)
  <2>1. PICK f : Joins(n + 1, Stop, part, next, f)
    <3>1. n + 1 \in Nat
      BY <1>1
    <3> HIDE DEF Stop, part, next
    <3> QED
      BY <1>5, <3>1, JoinsExist
  <2>2. Loop(f)
    <3>1. \A i \in 1 .. n + 1 :
            (IF i \in Stop THEN part[i] ELSE part[i] \o f[next[i]]) =
              IF Found(i) = {} THEN Field(i, n - i + 1)
              ELSE Field(i, Pure!Min(Found(i)) - i) \o f[Pure!Min(Found(i)) + 1]
      <4> SUFFICES ASSUME NEW i \in 1 .. n + 1
                   PROVE  (IF i \in Stop THEN part[i] ELSE part[i] \o f[next[i]]) =
                            IF Found(i) = {} THEN Field(i, n - i + 1)
                            ELSE Field(i, Pure!Min(Found(i)) - i) \o f[Pure!Min(Found(i)) + 1]
        OBVIOUS
      <4>1. (n + 1) - i = n - i + 1
        BY <1>1
      <4>2. CASE Found(i) = {}
        <5>1. part[i] = Field(i, n - i + 1) /\ i \in Stop
          BY <4>1, <4>2
        <5> QED
          BY <4>2, <5>1
      <4>3. CASE Found(i) # {}
        <5>1. /\ part[i] = Field(i, Pure!Min(Found(i)) - i) /\ i \notin Stop
              /\ next[i] = Pure!Min(Found(i)) + 1
          BY <4>3
        <5> QED
          BY <4>3, <5>1
      <4> QED
        BY <4>2, <4>3
    <3> QED
      BY <2>1, <3>1 DEF Joins
  <2> HIDE DEF Loop
  <2> QED
    BY <2>2 DEF rest
<1>7. ASSUME NEW i \in 1 .. n + 1
      PROVE  rest[i] = IF Found(i) = {} THEN Field(i, n - i + 1)
                       ELSE Field(i, Pure!Min(Found(i)) - i) \o rest[Pure!Min(Found(i)) + 1]
  BY <1>6
<1> HIDE DEF Stop, part, next, Loop
<1> DEFINE Done(i) == Fresh(s, i) => FieldsFrom(s, i, rest[i])
           T == {d \in Nat : \A i \in 1 .. n + 1 : i > n + 1 - d => Done(i)}
<1>8. 0 \in T
  <2>1. \A i \in 1 .. n + 1 : ~ (i > n + 1 - 0)
    BY <1>1
  <2> QED
    BY <2>1
<1>9. ASSUME NEW d \in Nat, d \in T PROVE d + 1 \in T
  <2> SUFFICES ASSUME NEW i \in 1 .. n + 1, i > n + 1 - (d + 1), Fresh(s, i)
               PROVE  FieldsFrom(s, i, rest[i])
    OBVIOUS
  <2>1. i \in Nat /\ i >= 1 /\ i <= n + 1
    BY <1>1
  <2>2. CASE Found(i) = {} /\ i = n + 1
    <3>1. rest[i] = <<>>
      <4>1. ~ (n - i + 1 > 0)
        BY <1>1, <2>2
      <4> QED
        BY <1>7, <2>2, <4>1 DEF Field
    <3> QED
      BY <2>2, <3>1, NoFields DEF n
  <2>3. CASE Found(i) = {} /\ i # n + 1
    <3>1. n - i + 1 > 0 /\ i + (n - i + 1) - 1 = n /\ i \in 1 .. n /\ n \in i .. n
      BY <1>1, <2>1, <2>3
    <3>2. rest[i] = <<SubSeq(s, i, n)>>
      BY <1>7, <2>3, <3>1 DEF Field
    <3>3. IsNext(s, i, n, n + 1)
      BY <1>4, <2>3, <3>1 DEF IsNext, n
    <3>4. FieldsFrom(s, n + 1, <<>>)
      BY NoFields DEF n
    <3>5. FieldsFrom(s, i, <<SubSeq(s, i, n)>> \o <<>>)
      BY <3>3, <3>4, FieldFirst
    <3>6. SubSeq(s, i, n) \in Seq(ToSet(s))
      <4>1. n \in 1 .. Len(s) + 0 /\ \A j \in i .. n : s[j] # Separator
        BY <1>1, <1>4, <2>3, <3>1 DEF n
      <4>2. ~ (n + 1 \in 1 .. Len(s))
        BY <1>1 DEF n
      <4> QED
        BY <3>1, <4>1, <4>2, FieldIs DEF n
    <3>7. \A x \in Seq(ToSet(s)) : <<x>> \o <<>> = <<x>>
      OBVIOUS
    <3> QED
      BY <3>2, <3>5, <3>6, <3>7
  <2>4. CASE Found(i) # {}
    <3> DEFINE m == Pure!Min(Found(i))
    <3>1. m \in i .. n /\ s[m] = Separator /\ \A j \in i .. m - 1 : s[j] # Separator
      BY <1>3, <2>4
    <3>2. rest[i] = Field(i, m - i) \o rest[m + 1]
      BY <1>7, <2>4
    <3> HIDE DEF m
    <3>3. m + 1 \in 1 .. n + 1 /\ m + 1 > n + 1 - d /\ m \in Nat /\ m >= i /\ m <= n
      BY <1>1, <2>1, <3>1
    <3>4. FieldsFrom(s, m + 1, rest[m + 1])
      <4>1. Done(m + 1)
        BY <1>9, <3>3
      <4>2. Fresh(s, m + 1)
        <5>1. (m + 1) - 1 = m
          BY <3>3
        <5> QED
          BY <3>1, <5>1 DEF Fresh
      <4> QED
        BY <4>1, <4>2
    <3>5. CASE m = i
      <4>1. ~ (m - i > 0)
        BY <2>1, <3>5
      <4>2. Field(i, m - i) = <<>>
        BY <4>1 DEF Field
      <4>3. rest[m + 1] \in Seq(Seq(ToSet(s)))
        BY <3>4 DEF FieldsFrom
      <4>4. \A x \in Seq(Seq(ToSet(s))) : <<>> \o x = x
        OBVIOUS
      <4>5. rest[i] = rest[m + 1]
        BY <3>2, <4>2, <4>3, <4>4
      <4>6. StartsFrom(s, i) = StartsFrom(s, m + 1)
        <5>1. i \in 1 .. Len(s) /\ s[i] = Separator
          BY <2>1, <3>1, <3>3, <3>5 DEF n
        <5> QED
          BY <3>5, <5>1, EmptyField
      <4> QED
        BY <3>4, <4>5, <4>6 DEF FieldsFrom
    <3>6. CASE m # i
      <4>1. m - i > 0 /\ i + (m - i) - 1 = m - 1
        BY <2>1, <3>3, <3>6
      <4>2. Field(i, m - i) = <<SubSeq(s, i, m - 1)>>
        BY <4>1 DEF Field
      <4>3. IsNext(s, i, m - 1, m + 1)
        <5>1. /\ i \in 1 .. n /\ m - 1 \in i .. n /\ m - 1 < n
              /\ m + 1 = (m - 1) + 2 /\ (m - 1) + 1 = m
          BY <1>1, <2>1, <3>3, <3>6
        <5> QED
          BY <3>1, <5>1 DEF IsNext, n
      <4>4. FieldsFrom(s, i, <<SubSeq(s, i, m - 1)>> \o rest[m + 1])
        BY <3>4, <4>3, FieldFirst
      <4> QED
        BY <3>2, <4>2, <4>4
    <3> QED
      BY <3>5, <3>6
  <2> QED
    BY <2>2, <2>3, <2>4
<1> HIDE DEF T
<1>10. n + 1 \in T
  BY <1>1, <1>8, <1>9, NatAll
<1>11. Done(1)
  <2>1. 1 \in 1 .. n + 1 /\ 1 > n + 1 - (n + 1)
    BY <1>1
  <2> QED
    BY <1>10, <2>1 DEF T
<1> QED
  BY <1>2, <1>11 DEF Fresh

\* What the calls are given.
Arguments ==
  /\ "op" \in DOMAIN lastCall
  /\ lastCall.op = "given" =>
       /\ lastCall.to = "search" => lastCall.argument \in Seq(Int)
       /\ lastCall.to \in {"header", "split"} => \E S : lastCall.argument \in Seq(S)

\* Texts are sequences.
LEMMA TextsAre ==
  ASSUME NEW S, NEW n, NEW text \in Pure!Texts(S, n)
  PROVE  text \in Seq(S)
<1>1. PICK k \in 0 .. n : text \in [1 .. k -> S]
  BY DEF Pure!Texts
<1>2. k \in Nat
  OBVIOUS
<1> QED
  BY <1>1, <1>2, SeqDef

\* After a search.
LEMMA SearchExact ==
  ASSUME NEW text \in Seq(Int), NEW substr \in Seq(Int),
         lastCall' = [op |-> "search", text |-> text, substr |-> substr,
                      result |-> Pure!StrstrICase(text, substr)]
  PROVE  Pure!TextExact'
<1>1. /\ lastCall'.op = "search" /\ lastCall'.text = text /\ lastCall'.substr = substr
      /\ lastCall'.result = Pure!StrstrICase(text, substr)
  OBVIOUS
<1>2. LET places == {i \in DOMAIN text : Pure!OccursAt(text, substr, i)}
      IN  Pure!StrstrICase(text, substr) =
            IF places = {} THEN Pure!NULL ELSE Pure!Min(places)
  BY SearchIs
<1> QED
  BY <1>1, <1>2 DEF Pure!TextExact

\* After a scan for the empty line.
LEMMA HeaderExact ==
  ASSUME NEW S, NEW text \in Seq(S),
         lastCall' = [op |-> "header", text |-> text, result |-> Pure!FullHeader(text)]
  PROVE  Pure!TextExact'
<1>1. lastCall'.op = "header" /\ lastCall'.text = text /\ lastCall'.result = Pure!FullHeader(text)
  OBVIOUS
<1>2. Pure!FullHeader(text) = (\E i \in 1 .. Len(text) - 1 : Pure!EmptyLineAt(text, i))
  BY HeaderIs
<1>3. lastCall'.result =
        (\E i \in 1 .. Len(lastCall'.text) - 1 : Pure!EmptyLineAt(lastCall'.text, i))
  BY <1>1, <1>2
<1> QED
  BY <1>1, <1>3 DEF Pure!TextExact

\* After a split.
LEMMA SplitExact ==
  ASSUME NEW S, NEW text \in Seq(S),
         lastCall' = [op |-> "split", text |-> text, result |-> Pure!Split(text, Separator)]
  PROVE  Pure!TextExact'
<1> DEFINE r == Pure!Split(text, Separator)
<1>1. lastCall'.op = "split" /\ lastCall'.text = text /\ lastCall'.result = r
  OBVIOUS
<1>2. FieldsFrom(text, 1, r)
  BY SplitIs
<1>3. StartsFrom(text, 1) = Pure!FieldStarts(text)
  <2>1. DOMAIN text = 1 .. Len(text) /\ Len(text) \in Nat
    BY LenProperties
  <2>2. \A j \in Pure!FieldStarts(text) : j >= 1
    BY <2>1 DEF Pure!FieldStarts
  <2> QED
    BY <2>2 DEF StartsFrom
<1> HIDE DEF r
<1>4. DOMAIN r = 1 .. Len(r)
  BY <1>2, LenProperties DEF FieldsFrom
<1>5. /\ Len(r) = Cardinality(Pure!FieldStarts(text))
      /\ \A k \in DOMAIN r : \E i \in Pure!FieldStarts(text) :
           /\ Cardinality({j \in Pure!FieldStarts(text) : j < i}) = k - 1
           /\ Pure!IsField(text, i, r[k])
  BY <1>2, <1>3, <1>4 DEF FieldsFrom
<1>6. \A U : Pure!Cardinality(U) = Cardinality(U)
  BY DEF Pure!Cardinality, Cardinality
<1>7. /\ Len(lastCall'.result) = Pure!Cardinality(Pure!FieldStarts(lastCall'.text))
      /\ \A k \in DOMAIN lastCall'.result : \E i \in Pure!FieldStarts(lastCall'.text) :
           /\ Pure!Cardinality({j \in Pure!FieldStarts(lastCall'.text) : j < i}) = k - 1
           /\ Pure!IsField(lastCall'.text, i, lastCall'.result[k])
  BY <1>1, <1>5, <1>6
<1> QED
  BY <1>1, <1>7 DEF Pure!TextExact

\* The other calls leave no text.
LEMMA OthersExact ==
  ASSUME lastCall'.op \notin {"search", "header", "split"}
  PROVE  Pure!TextExact'
BY DEF Pure!TextExact

\* The text helpers of the proxy compute what they are meant to compute, for
\* texts of every length: the first place where a text is found in whatever
\* case, whether an empty line has come, and the parts between the separators.
THEOREM TextIsExact ==
  ASSUME Pure!PureAssumption
  PROVE  Pure!Spec => []Pure!TextExact
<1> DEFINE I == Pure!TextExact /\ Arguments
<1>1. Pure!Init => I
  BY DEF Pure!Init, Pure!NoCall, Pure!TextExact, Arguments
<1>2. I /\ [Pure!Next]_lastCall => I'
  <2> SUFFICES ASSUME I, [Pure!Next]_lastCall PROVE I'
    OBVIOUS
  <2>0. Arguments
    OBVIOUS
  <2>1. CASE Pure!Prepare
    <3>1. PICK op, text : /\ lastCall' = [op |-> "given", to |-> op, argument |-> text]
                          /\ op = "search" => text \in Seq(Int)
                          /\ op \in {"header", "split"} => \E S : text \in Seq(S)
      <4>1. \A text \in Pure!Texts(SearchAlphabet, MaxText) : text \in Seq(Int)
        <5> SUFFICES ASSUME NEW text \in Pure!Texts(SearchAlphabet, MaxText)
                     PROVE  text \in Seq(Int)
          OBVIOUS
        <5>1. text \in Seq(SearchAlphabet) /\ SearchAlphabet \subseteq Int
          BY TextsAre DEF Pure!PureAssumption
        <5> QED
          BY <5>1, SeqMonotonic
      <4>2. \A text \in Pure!Texts(LineAlphabet, MaxHeader) : text \in Seq(LineAlphabet)
        BY TextsAre
      <4>3. \A text \in Pure!Texts(FieldAlphabet, MaxFields) : text \in Seq(FieldAlphabet)
        BY TextsAre
      <4> QED
        BY <2>1, <4>1, <4>2, <4>3 DEF Pure!Prepare, Pure!Given
    <3>2. Arguments'
      BY <3>1 DEF Arguments
    <3>3. lastCall'.op = "given"
      BY <3>1
    <3> QED
      BY <3>2, <3>3, OthersExact
  <2>2. CASE Pure!Search
    <3>1. lastCall.argument \in Seq(Int)
      BY <2>0, <2>2 DEF Pure!Search, Pure!Has, Arguments
    <3>2. PICK substr \in Pure!Texts(SearchAlphabet, MaxSubstr) :
            lastCall' = [op |-> "search", text |-> lastCall.argument, substr |-> substr,
                         result |-> Pure!StrstrICase(lastCall.argument, substr)]
      BY <2>2 DEF Pure!Search
    <3>3. substr \in Seq(Int)
      <4>1. substr \in Seq(SearchAlphabet) /\ SearchAlphabet \subseteq Int
        BY TextsAre DEF Pure!PureAssumption
      <4> QED
        BY <4>1, SeqMonotonic
    <3>4. Arguments'
      BY <3>2 DEF Arguments
    <3> QED
      BY <3>1, <3>2, <3>3, <3>4, SearchExact
  <2>3. CASE Pure!Header
    <3>1. PICK S : lastCall.argument \in Seq(S)
      BY <2>0, <2>3 DEF Pure!Header, Pure!Has, Arguments
    <3>2. lastCall' = [op |-> "header", text |-> lastCall.argument,
                       result |-> Pure!FullHeader(lastCall.argument)]
      BY <2>3 DEF Pure!Header
    <3>3. Arguments'
      BY <3>2 DEF Arguments
    <3> QED
      BY <3>1, <3>2, <3>3, HeaderExact
  <2>4. CASE Pure!Divide
    <3>1. PICK S : lastCall.argument \in Seq(S)
      BY <2>0, <2>4 DEF Pure!Divide, Pure!Has, Arguments
    <3>2. lastCall' = [op |-> "split", text |-> lastCall.argument,
                       result |-> Pure!Split(lastCall.argument, Separator)]
      BY <2>4 DEF Pure!Divide
    <3>3. Arguments'
      BY <3>2 DEF Arguments
    <3> QED
      BY <3>1, <3>2, <3>3, SplitExact
  <2>5. ASSUME "op" \in DOMAIN lastCall',
               lastCall'.op \in {"none", "encode", "decode", "malloc", "slab"}
        PROVE  I'
    <3>1. Arguments'
      BY <2>5 DEF Arguments
    <3> QED
      BY <2>5, <3>1, OthersExact
  <2>6. CASE Pure!Encode
    <3>1. "op" \in DOMAIN lastCall' /\ lastCall'.op \in {"encode", "decode"}
      BY <2>6 DEF Pure!Encode
    <3> QED
      BY <2>5, <3>1
  <2>7. CASE Pure!Malloc
    <3>1. "op" \in DOMAIN lastCall' /\ lastCall'.op = "malloc"
      BY <2>7 DEF Pure!Malloc
    <3> QED
      BY <2>5, <3>1, SMTT(30)
  <2>8. CASE Pure!FirstSlab
    <3>1. "op" \in DOMAIN lastCall' /\ lastCall'.op = "slab"
      BY <2>8 DEF Pure!FirstSlab
    <3> QED
      BY <2>5, <3>1
  <2>9. CASE Pure!NextSlab
    <3>1. "op" \in DOMAIN lastCall' /\ lastCall'.op = "slab"
      BY <2>0, <2>9 DEF Pure!NextSlab, Arguments
    <3> QED
      BY <2>5, <3>1
  <2>10. CASE Pure!Return
    <3>1. "op" \in DOMAIN lastCall' /\ lastCall'.op = "none"
      BY <2>10 DEF Pure!Return, Pure!NoCall
    <3> QED
      BY <2>5, <3>1
  <2>11. CASE UNCHANGED lastCall
    BY <2>11 DEF Arguments, Pure!TextExact
  <2> QED
    BY <2>1, <2>2, <2>3, <2>4, <2>6, <2>7, <2>8, <2>9, <2>10, <2>11 DEF Pure!Next
<1> QED
  BY <1>1, <1>2, PTL DEF Pure!Spec

-----------------------------------------------------------------------------
(* Base64.                                                                 *)

\* One round of the encoder or of the decoder, and its fold over a sequence as
\* FoldLeft defines it.
Round(mode, s, x, size) ==
  IF mode = "encode" THEN Pure!EncodeByte(s, x, size) ELSE Pure!DecodeChar(s, x, size)
IsFold(mode, seq, size, base, g) ==
  g = [s \in SUBSET DOMAIN seq |->
         IF s = {} THEN base
         ELSE Round(mode, g[s \ {Pure!Max(s)}], seq[Pure!Max(s)], size)]

\* The largest number of a prefix of the numbers, and of a part of one.
LEMMA MaxOf ==
  ASSUME NEW n \in Nat, NEW T \in SUBSET (1 .. n), T # {}
  PROVE  /\ Pure!Max(T) \in T
         /\ \A x \in T : (\A y \in T : y <= x) => Pure!Max(T) = x
<1>1. Pure!Max(T) = Max(T)
  BY DEF Pure!Max, Max
<1> DEFINE m == Max(T)
<1>2. m \in T /\ \A j \in T : j <= m
  BY MaxIs
<1> HIDE DEF m
<1>3. ASSUME NEW x \in T, \A y \in T : y <= x PROVE m = x
  <2>1. m <= x /\ x <= m
    BY <1>2, <1>3
  <2>2. m \in 1 .. n /\ x \in 1 .. n
    BY <1>2
  <2> QED
    BY <2>1, <2>2
<1> QED
  BY <1>1, <1>2, <1>3 DEF m

\* There is such a fold.
LEMMA FoldExists ==
  ASSUME NEW mode, NEW n \in Nat, NEW seq, DOMAIN seq = 1 .. n, NEW size, NEW base
  PROVE  \E g : IsFold(mode, seq, size, base, g)
<1> DEFINE Next1(g, s) == IF s = {} THEN base
                          ELSE Round(mode, g[s \ {Pure!Max(s)}], seq[Pure!Max(s)], size)
           T == {d \in Nat : \E g : \A s \in SUBSET (1 .. d) : g[s] = Next1(g, s)}
<1>1. 0 \in T
  <2> DEFINE g == [s \in {{}} |-> base]
  <2>1. \A s \in SUBSET (1 .. 0) : s = {} /\ g[s] = base
    OBVIOUS
  <2> HIDE DEF g
  <2>2. \A s \in SUBSET (1 .. 0) : g[s] = Next1(g, s)
    BY <2>1
  <2> QED
    BY <2>2
<1>2. ASSUME NEW d \in Nat, d \in T PROVE d + 1 \in T
  <2>1. PICK g : \A s \in SUBSET (1 .. d) : g[s] = Next1(g, s)
    BY <1>2
  <2> DEFINE e == d + 1
             h == [s \in SUBSET (1 .. e) |->
                     IF e \in s THEN Round(mode, g[s \ {e}], seq[e], size) ELSE g[s]]
  <2>2. /\ \A s \in SUBSET (1 .. e) : e \notin s => s \in SUBSET (1 .. d)
        /\ \A s \in SUBSET (1 .. d) : s \in SUBSET (1 .. e) /\ e \notin s
        /\ e \in Nat /\ \A y \in 1 .. e : y <= e
    <3>1. \A x \in 1 .. e : x # e => x \in 1 .. d
      OBVIOUS
    <3>2. \A x \in 1 .. d : x \in 1 .. e /\ x # e
      OBVIOUS
    <3> QED
      BY <3>1, <3>2
  <2> HIDE DEF e
  <2>3. ASSUME NEW s \in SUBSET (1 .. e) PROVE h[s] = Next1(h, s)
    <3>1. CASE e \in s
      <4>1. Pure!Max(s) = e
        <5>1. s # {} /\ \A y \in s : y <= e
          BY <2>2, <3>1
        <5> QED
          BY <2>2, <3>1, <5>1, MaxOf
      <4>2. s \ {e} \in SUBSET (1 .. e) /\ e \notin s \ {e} /\ s # {}
        BY <3>1
      <4>3. h[s \ {e}] = g[s \ {e}]
        BY <4>2
      <4>4. h[s] = Round(mode, g[s \ {e}], seq[e], size)
        BY <3>1
      <4> HIDE DEF h
      <4> QED
        BY <4>1, <4>2, <4>3, <4>4
    <3>2. CASE e \notin s
      <4>1. s \in SUBSET (1 .. d) /\ h[s] = g[s]
        BY <2>2, <3>2
      <4>2. CASE s = {}
        BY <2>1, <4>1, <4>2
      <4>3. CASE s # {}
        <5>1. s \ {Pure!Max(s)} \in SUBSET (1 .. d)
          BY <4>1
        <5>2. h[s \ {Pure!Max(s)}] = g[s \ {Pure!Max(s)}]
          BY <2>2, <5>1
        <5>3. g[s] = Round(mode, g[s \ {Pure!Max(s)}], seq[Pure!Max(s)], size)
          BY <2>1, <4>1, <4>3
        <5> HIDE DEF h
        <5> QED
          BY <4>1, <4>3, <5>2, <5>3
      <4> QED
        BY <4>2, <4>3
    <3> QED
      BY <3>1, <3>2
  <2> HIDE DEF h, Next1
  <2> QED
    BY <2>2, <2>3 DEF e
<1> HIDE DEF T
<1>3. n \in T
  BY <1>1, <1>2, NatAll
<1>4. PICK g : \A s \in SUBSET (1 .. n) : g[s] = Next1(g, s)
  BY <1>3 DEF T
<1> DEFINE h == [s \in SUBSET (1 .. n) |-> g[s]]
<1>5. ASSUME NEW s \in SUBSET (1 .. n) PROVE h[s] = Next1(h, s)
  <2>1. s \ {Pure!Max(s)} \in SUBSET (1 .. n)
    OBVIOUS
  <2>2. h[s \ {Pure!Max(s)}] = g[s \ {Pure!Max(s)}] /\ h[s] = g[s]
    BY <2>1
  <2>3. g[s] = Next1(g, s)
    BY <1>4
  <2> HIDE DEF h
  <2> QED
    BY <2>2, <2>3
<1>6. h = [s \in SUBSET (1 .. n) |-> h[s]]
  OBVIOUS
<1> HIDE DEF h
<1>7. h = [s \in SUBSET (1 .. n) |-> Next1(h, s)]
  BY <1>5, <1>6
<1> QED
  BY <1>7 DEF IsFold

\* It goes through the sequence from its beginning.
Runs(mode, n, seq, size, base, g) ==
  /\ g[1 .. 0] = base
  /\ \A k \in 1 .. n : g[1 .. k] = Round(mode, g[1 .. k - 1], seq[k], size)
LEMMA FoldRuns ==
  ASSUME NEW mode, NEW n \in Nat, NEW seq, DOMAIN seq = 1 .. n, NEW size, NEW base,
         NEW g, IsFold(mode, seq, size, base, g)
  PROVE  Runs(mode, n, seq, size, base, g)
<1>1. \A s \in SUBSET (1 .. n) :
        g[s] = IF s = {} THEN base
               ELSE Round(mode, g[s \ {Pure!Max(s)}], seq[Pure!Max(s)], size)
  BY DEF IsFold
<1>2. g[1 .. 0] = base
  <2>1. 1 .. 0 \in SUBSET (1 .. n) /\ 1 .. 0 = {}
    OBVIOUS
  <2> QED
    BY <1>1, <2>1
<1>3. ASSUME NEW k \in 1 .. n PROVE g[1 .. k] = Round(mode, g[1 .. k - 1], seq[k], size)
  <2>1. 1 .. k \in SUBSET (1 .. n) /\ k \in 1 .. k /\ \A y \in 1 .. k : y <= k
    OBVIOUS
  <2>2. (1 .. k) \ {k} = 1 .. k - 1
    OBVIOUS
  <2>3. Pure!Max(1 .. k) = k
    BY <2>1, MaxOf
  <2> QED
    BY <1>1, <2>1, <2>2, <2>3
<1> QED
  BY <1>2, <1>3 DEF Runs

\* The operators of Base64 are such folds.
EncodesBy(f, bytes, n, size) ==
  /\ f[0] = [space |-> <<>>, phase |-> 0]
  /\ \A k \in 1 .. n : f[k] = Pure!EncodeByte(f[k - 1], bytes[k], size)
  /\ Pure!Base64Encode(bytes, size) =
       IF bytes = <<>> THEN <<>>
       ELSE Pure!Stored(f[n].space, [i \in 1 .. 3 - f[n].phase |-> Pure!PadChar], size)
LEMMA EncodeRuns ==
  ASSUME NEW bytes, NEW n \in Nat, DOMAIN bytes = 1 .. n, NEW size
  PROVE  \E f : EncodesBy(f, bytes, n, size)
<1> DEFINE base == [space |-> <<>>, phase |-> 0]
           It(g) == g = [s \in SUBSET DOMAIN bytes |->
                           IF s = {} THEN base
                           ELSE Pure!EncodeByte(g[s \ {Pure!Max(s)}], bytes[Pure!Max(s)], size)]
           iter == CHOOSE g : It(g)
           f == [k \in 0 .. n |-> iter[1 .. k]]
<1>1. Pure!Base64Encode(bytes, size) =
        IF bytes = <<>> THEN <<>>
        ELSE Pure!Stored(iter[DOMAIN bytes].space,
                         [i \in 1 .. 3 - iter[DOMAIN bytes].phase |-> Pure!PadChar], size)
  BY DEF Pure!Base64Encode, Pure!FoldLeft, Pure!MapThenFoldSet
<1> HIDE DEF iter, base
<1>2. \A g : It(g) <=> IsFold("encode", bytes, size, base, g)
  BY DEF IsFold, Round
<1>3. It(iter)
  <2>1. PICK g : IsFold("encode", bytes, size, base, g)
    BY FoldExists
  <2>2. It(g)
    BY <1>2, <2>1
  <2> HIDE DEF It
  <2> QED
    BY <2>2 DEF iter
<1>4. /\ iter[1 .. 0] = base
      /\ \A k \in 1 .. n : iter[1 .. k] = Round("encode", iter[1 .. k - 1], bytes[k], size)
  <2>1. IsFold("encode", bytes, size, base, iter)
    BY <1>2, <1>3
  <2>2. Runs("encode", n, bytes, size, base, iter)
    BY <2>1, FoldRuns
  <2> QED
    BY <2>2 DEF Runs
<1>5. f[0] = base /\ f[n] = iter[DOMAIN bytes]
  BY <1>4
<1>6. ASSUME NEW k \in 1 .. n PROVE f[k] = Pure!EncodeByte(f[k - 1], bytes[k], size)
  <2>1. k \in 0 .. n /\ k - 1 \in 0 .. n
    OBVIOUS
  <2>2. f[k] = iter[1 .. k] /\ f[k - 1] = iter[1 .. k - 1]
    BY <2>1
  <2> HIDE DEF f
  <2> QED
    BY <1>4, <2>2 DEF Round
<1> HIDE DEF f
<1> QED
  BY <1>1, <1>5, <1>6 DEF base, EncodesBy

DecodesBy(f, text, n, size) ==
  /\ f[0] = [space |-> <<>>, phase |-> 0, prev |-> 0]
  /\ \A k \in 1 .. n : f[k] = Pure!DecodeChar(f[k - 1], text[k], size)
  /\ Pure!Base64Decode(text, size) = f[n].space
LEMMA DecodeRuns ==
  ASSUME NEW text, NEW n \in Nat, DOMAIN text = 1 .. n, NEW size
  PROVE  \E f : DecodesBy(f, text, n, size)
<1> DEFINE base == [space |-> <<>>, phase |-> 0, prev |-> 0]
           It(g) == g = [s \in SUBSET DOMAIN text |->
                           IF s = {} THEN base
                           ELSE Pure!DecodeChar(g[s \ {Pure!Max(s)}], text[Pure!Max(s)], size)]
           iter == CHOOSE g : It(g)
           f == [k \in 0 .. n |-> iter[1 .. k]]
<1>1. Pure!Base64Decode(text, size) = iter[DOMAIN text].space
  BY DEF Pure!Base64Decode, Pure!FoldLeft, Pure!MapThenFoldSet
<1> HIDE DEF iter, base
<1>2. \A g : It(g) <=> IsFold("decode", text, size, base, g)
  BY DEF IsFold, Round
<1>3. It(iter)
  <2>1. PICK g : IsFold("decode", text, size, base, g)
    BY FoldExists
  <2>2. It(g)
    BY <1>2, <2>1
  <2> HIDE DEF It
  <2> QED
    BY <2>2 DEF iter
<1>4. /\ iter[1 .. 0] = base
      /\ \A k \in 1 .. n : iter[1 .. k] = Round("decode", iter[1 .. k - 1], text[k], size)
  <2>1. IsFold("decode", text, size, base, iter)
    BY <1>2, <1>3
  <2>2. Runs("decode", n, text, size, base, iter)
    BY <2>1, FoldRuns
  <2> QED
    BY <2>2 DEF Runs
<1>5. f[0] = base /\ f[n] = iter[DOMAIN text]
  BY <1>4
<1>6. ASSUME NEW k \in 1 .. n PROVE f[k] = Pure!DecodeChar(f[k - 1], text[k], size)
  <2>1. k \in 0 .. n /\ k - 1 \in 0 .. n
    OBVIOUS
  <2>2. f[k] = iter[1 .. k] /\ f[k - 1] = iter[1 .. k - 1]
    BY <2>1
  <2> HIDE DEF f
  <2> QED
    BY <1>4, <2>2 DEF Round
<1> HIDE DEF f
<1> QED
  BY <1>1, <1>5, <1>6 DEF base, DecodesBy

\* The tables are inverse to each other, and no digit is a negative number.
Enc(v) == Pure!B64_ENCODE_TABLE[v]
LEMMA TablesAre ==
  \A v \in 0 .. 63 : /\ Enc(v) \in 43 .. 122
                     /\ Pure!B64_DECODE_TABLE[Enc(v)] = v
<1> SUFFICES ASSUME NEW v \in 0 .. 63
             PROVE  Enc(v) \in 43 .. 122 /\ Pure!B64_DECODE_TABLE[Enc(v)] = v
  OBVIOUS
<1>1. \A c \in 43 .. 122 : c \in 0 .. 255
  OBVIOUS
<1>2. CASE v \in 0 .. 25
  <2>1. Enc(v) = 65 + v
    BY <1>2 DEF Enc, Pure!B64_ENCODE_TABLE
  <2>2. Enc(v) \in 65 .. 90
    BY <1>2, <2>1
  <2> HIDE DEF Enc
  <2>3. Pure!B64_DECODE_TABLE[Enc(v)] = Enc(v) - 65
    BY <2>2, <1>1 DEF Pure!B64_DECODE_TABLE, Pure!Upper, Pure!Lower
  <2> QED
    BY <1>2, <2>1, <2>2, <2>3
<1>3. CASE v \in 26 .. 51
  <2>1. Enc(v) = 97 + v - 26
    BY <1>3 DEF Enc, Pure!B64_ENCODE_TABLE
  <2>2. Enc(v) \in 97 .. 122
    BY <1>3, <2>1
  <2>3. Pure!B64_DECODE_TABLE[Enc(v)] = Enc(v) - 97 + 26
    BY <2>2, <1>1 DEF Pure!B64_DECODE_TABLE, Pure!Upper, Pure!Lower
  <2> QED
    BY <1>3, <2>1, <2>2, <2>3
<1>4. CASE v \in 52 .. 61
  <2>1. Enc(v) = 48 + v - 52
    BY <1>4 DEF Enc, Pure!B64_ENCODE_TABLE
  <2>2. Enc(v) \in 48 .. 57
    BY <1>4, <2>1
  <2>3. Pure!B64_DECODE_TABLE[Enc(v)] = Enc(v) - 48 + 52
    BY <2>2, <1>1 DEF Pure!B64_DECODE_TABLE, Pure!Upper, Pure!Lower
  <2> QED
    BY <1>4, <2>1, <2>2, <2>3
<1>5. CASE v = 62
  <2>1. Enc(v) = 43
    BY <1>5 DEF Enc, Pure!B64_ENCODE_TABLE
  <2> QED
    BY <1>5, <2>1 DEF Pure!B64_DECODE_TABLE, Pure!Upper, Pure!Lower
<1>6. CASE v = 63
  <2>1. Enc(v) = 47
    BY <1>6 DEF Enc, Pure!B64_ENCODE_TABLE
  <2> QED
    BY <1>6, <2>1 DEF Pure!B64_DECODE_TABLE, Pure!Upper, Pure!Lower
<1> QED
  BY <1>2, <1>3, <1>4, <1>5, <1>6

LEMMA CodesAre == \A v \in 0 .. 63 : Enc(v) \in Int
<1>1. \A c \in 43 .. 122 : c \in Int
  OBVIOUS
<1>2. \A v \in 0 .. 63 : Enc(v) \in 43 .. 122
  BY TablesAre
<1> QED
  BY <1>1, <1>2

\* A group of three bytes has four digits of six bits.
Octet == 0 .. 255
Places == 0 .. 3
Sextet(a, b, c, r) ==
  CASE r = 0 -> a \div 4
    [] r = 1 -> (a % 4) * 16 + (b \div 16)
    [] r = 2 -> (b % 16) * 4 + (c \div 64)
    [] r = 3 -> c % 64
LEMMA SextetIs ==
  \A a, b, c \in Octet : \A r \in Places :
    /\ Sextet(a, b, c, r) \in 0 .. 63
    /\ ((a * 65536 + b * 256 + c) \div <<262144, 4096, 64, 1>>[r + 1]) % 64
         = Sextet(a, b, c, r)
<1> SUFFICES ASSUME NEW a \in Octet, NEW b \in Octet, NEW c \in Octet, NEW r \in Places
             PROVE  /\ Sextet(a, b, c, r) \in 0 .. 63
                    /\ ((a * 65536 + b * 256 + c) \div <<262144, 4096, 64, 1>>[r + 1]) % 64
                         = Sextet(a, b, c, r)
  OBVIOUS
<1> USE DEF Octet, Places
<1> DEFINE group == a * 65536 + b * 256 + c
           unit == <<262144, 4096, 64, 1>>
<1>1. CASE r = 0
  <2>1. unit[r + 1] = 262144 /\ Sextet(a, b, c, r) = a \div 4
    BY <1>1 DEF Sextet
  <2>2. group \div 262144 = a \div 4
    OBVIOUS
  <2>3. a \div 4 \in 0 .. 63 /\ (a \div 4) % 64 = a \div 4
    OBVIOUS
  <2> HIDE DEF group, unit
  <2>4. (group \div unit[r + 1]) % 64 = Sextet(a, b, c, r)
    BY <2>1, <2>2, <2>3
  <2> QED
    BY <2>1, <2>3, <2>4 DEF group, unit
<1>2. CASE r = 1
  <2>1. unit[r + 1] = 4096 /\ Sextet(a, b, c, r) = (a % 4) * 16 + (b \div 16)
    BY <1>2 DEF Sextet
  <2>2. group \div 4096 = a * 16 + (b \div 16)
    OBVIOUS
  <2>3. /\ (a % 4) * 16 + (b \div 16) \in 0 .. 63
        /\ (a * 16 + (b \div 16)) % 64 = (a % 4) * 16 + (b \div 16)
    OBVIOUS
  <2> HIDE DEF group, unit
  <2>4. (group \div unit[r + 1]) % 64 = Sextet(a, b, c, r)
    BY <2>1, <2>2, <2>3
  <2> QED
    BY <2>1, <2>3, <2>4 DEF group, unit
<1>3. CASE r = 2
  <2>1. unit[r + 1] = 64 /\ Sextet(a, b, c, r) = (b % 16) * 4 + (c \div 64)
    BY <1>3 DEF Sextet
  <2>2. group \div 64 = a * 1024 + b * 4 + (c \div 64)
    OBVIOUS
  <2>3. /\ (b % 16) * 4 + (c \div 64) \in 0 .. 63
        /\ (a * 1024 + b * 4 + (c \div 64)) % 64 = (b % 16) * 4 + (c \div 64)
    OBVIOUS
  <2> HIDE DEF group, unit
  <2>4. (group \div unit[r + 1]) % 64 = Sextet(a, b, c, r)
    BY <2>1, <2>2, <2>3
  <2> QED
    BY <2>1, <2>3, <2>4 DEF group, unit
<1>4. CASE r = 3
  <2>1. unit[r + 1] = 1 /\ Sextet(a, b, c, r) = c % 64
    BY <1>4 DEF Sextet
  <2>2. group \div 1 = group /\ group % 64 = c % 64 /\ c % 64 \in 0 .. 63
    OBVIOUS
  <2> HIDE DEF group, unit
  <2>4. (group \div unit[r + 1]) % 64 = Sextet(a, b, c, r)
    BY <2>1, <2>2
  <2> QED
    BY <2>1, <2>2, <2>4 DEF group, unit
<1> QED
  BY <1>1, <1>2, <1>3, <1>4

LEMMA SextetType == \A a, b, c \in Octet : \A r \in Places : Sextet(a, b, c, r) \in 0 .. 63
BY SextetIs
LEMMA SextetOf ==
  \A a, b, c \in Octet : \A r \in Places :
    ((a * 65536 + b * 256 + c) \div <<262144, 4096, 64, 1>>[r + 1]) % 64 = Sextet(a, b, c, r)
BY SextetIs

LEMMA SextetParts ==
  ASSUME NEW a, NEW b, NEW c
  PROVE  /\ Sextet(a, b, c, 0) = a \div 4
         /\ Sextet(a, b, c, 1) = (a % 4) * 16 + (b \div 16)
         /\ Sextet(a, b, c, 2) = (b % 16) * 4 + (c \div 64)
         /\ Sextet(a, b, c, 3) = c % 64
BY DEF Sextet
LEMMA SextetLast ==
  \A a \in Octet : /\ Sextet(a, 0, 0, 1) = (a % 4) * 16
                   /\ \A b \in Octet : Sextet(b, a, 0, 2) = (a % 16) * 4
<1>1. 0 \div 16 = 0 /\ 0 \div 64 = 0 /\ 0 \in Octet
  BY DEF Octet
<1> SUFFICES ASSUME NEW a \in Octet, NEW b \in Octet
             PROVE  /\ Sextet(a, 0, 0, 1) = (a % 4) * 16
                    /\ Sextet(b, a, 0, 2) = (a % 16) * 4
  BY <1>1
<1>2. (a % 4) * 16 + 0 = (a % 4) * 16 /\ (a % 16) * 4 + 0 = (a % 16) * 4
  BY DEF Octet
<1>3. Sextet(a, 0, 0, 1) = (a % 4) * 16 + (0 \div 16)
  BY SextetParts
<1>4. Sextet(b, a, 0, 2) = (a % 16) * 4 + (0 \div 64)
  BY SextetParts
<1> QED
  BY <1>1, <1>2, <1>3, <1>4

\* The j-th digit when the first k bytes are there.
OctetAt(bytes, k, i) == IF i <= k THEN bytes[i] ELSE 0
DigitIn(bytes, k, j) ==
  LET first == 3 * ((j - 1) \div 4)
  IN  Sextet(OctetAt(bytes, k, first + 1), OctetAt(bytes, k, first + 2),
             OctetAt(bytes, k, first + 3), (j - 1) % 4)
LEMMA OctetGiven ==
  ASSUME NEW bytes \in Seq(Octet)
  PROVE  \A k \in 0 .. Len(bytes) : \A i \in Nat \ {0} : OctetAt(bytes, k, i) \in Octet
<1>1. Len(bytes) \in Nat /\ \A x \in 1 .. Len(bytes) : bytes[x] \in Octet
  BY ElementOfSeq, LenProperties
<1> SUFFICES ASSUME NEW k \in 0 .. Len(bytes), NEW i \in Nat \ {0}
             PROVE  OctetAt(bytes, k, i) \in Octet
  OBVIOUS
<1>2. i <= k => i \in 1 .. Len(bytes)
  BY <1>1
<1> QED
  BY <1>1, <1>2 DEF OctetAt, Octet
LEMMA DigitIs ==
  ASSUME NEW bytes \in Seq(Octet), NEW k \in 0 .. Len(bytes), NEW j \in Nat \ {0}
  PROVE  /\ DigitIn(bytes, k, j) \in 0 .. 63
         /\ Pure!Digit(bytes, j) = DigitIn(bytes, Len(bytes), j)
<1> DEFINE first == 3 * ((j - 1) \div 4)
           r == (j - 1) % 4
<1>1. first \in Nat /\ r \in Places /\ r = (j - 1) % 4
  BY DEF Places
<1> HIDE DEF r
<1>2. DigitIn(bytes, k, j) \in 0 .. 63
  <2> HIDE DEF first
  <2>1. first + 1 \in Nat \ {0} /\ first + 2 \in Nat \ {0} /\ first + 3 \in Nat \ {0}
    BY <1>1
  <2>2. /\ OctetAt(bytes, k, first + 1) \in Octet
        /\ OctetAt(bytes, k, first + 2) \in Octet
        /\ OctetAt(bytes, k, first + 3) \in Octet
    BY <2>1, OctetGiven
  <2>3. Sextet(OctetAt(bytes, k, first + 1), OctetAt(bytes, k, first + 2),
               OctetAt(bytes, k, first + 3), r) \in 0 .. 63
    BY <1>1, <2>2, SextetType
  <2> QED
    BY <1>1, <2>3 DEF DigitIn, first
<1>3. Pure!Digit(bytes, j) = DigitIn(bytes, Len(bytes), j)
  <2> DEFINE b(i) == OctetAt(bytes, Len(bytes), first + i)
             group == b(1) * 65536 + b(2) * 256 + b(3)
  <2>1. Pure!Digit(bytes, j) = (group \div <<262144, 4096, 64, 1>>[r + 1]) % 64
    BY <1>1 DEF Pure!Digit, OctetAt
  <2>2. DigitIn(bytes, Len(bytes), j) = Sextet(b(1), b(2), b(3), r)
    BY <1>1 DEF DigitIn
  <2> HIDE DEF first
  <2>3. b(1) \in Octet /\ b(2) \in Octet /\ b(3) \in Octet
    <3>1. Len(bytes) \in 0 .. Len(bytes) /\ first + 1 \in Nat \ {0}
          /\ first + 2 \in Nat \ {0} /\ first + 3 \in Nat \ {0}
      BY <1>1
    <3> QED
      BY <3>1, OctetGiven
  <2> HIDE DEF b
  <2>4. (group \div <<262144, 4096, 64, 1>>[r + 1]) % 64 = Sextet(b(1), b(2), b(3), r)
    BY <1>1, <2>3, SextetOf
  <2> QED
    BY <2>1, <2>2, <2>4
<1> QED
  BY <1>2, <1>3

\* In the group q.
LEMMA DigitAt ==
  ASSUME NEW bytes, NEW k, NEW q \in Nat, NEW r \in Places
  PROVE  DigitIn(bytes, k, 4 * q + r + 1) =
           Sextet(OctetAt(bytes, k, 3 * q + 1), OctetAt(bytes, k, 3 * q + 2),
                  OctetAt(bytes, k, 3 * q + 3), r)
<1> DEFINE j == 4 * q + r + 1
<1>1. (j - 1) \div 4 = q /\ (j - 1) % 4 = r
  BY DEF Places
<1> HIDE DEF j
<1>2. DigitIn(bytes, k, j) = Sextet(OctetAt(bytes, k, 3 * q + 1), OctetAt(bytes, k, 3 * q + 2),
                                    OctetAt(bytes, k, 3 * q + 3), r)
  BY <1>1 DEF DigitIn
<1> QED
  BY <1>2 DEF j

LEMMA GroupDigits ==
  ASSUME NEW bytes, NEW k, NEW q \in Nat, NEW a, NEW b, NEW c,
         OctetAt(bytes, k, 3 * q + 1) = a, OctetAt(bytes, k, 3 * q + 2) = b,
         OctetAt(bytes, k, 3 * q + 3) = c
  PROVE  /\ DigitIn(bytes, k, 4 * q + 1) = Sextet(a, b, c, 0)
         /\ DigitIn(bytes, k, 4 * q + 2) = Sextet(a, b, c, 1)
         /\ DigitIn(bytes, k, 4 * q + 3) = Sextet(a, b, c, 2)
         /\ DigitIn(bytes, k, 4 * q + 4) = Sextet(a, b, c, 3)
<1>1. 0 \in Places /\ 1 \in Places /\ 2 \in Places /\ 3 \in Places
  BY DEF Places
<1>2. /\ DigitIn(bytes, k, 4 * q + 0 + 1) = Sextet(a, b, c, 0)
      /\ DigitIn(bytes, k, 4 * q + 1 + 1) = Sextet(a, b, c, 1)
      /\ DigitIn(bytes, k, 4 * q + 2 + 1) = Sextet(a, b, c, 2)
      /\ DigitIn(bytes, k, 4 * q + 3 + 1) = Sextet(a, b, c, 3)
  BY <1>1, DigitAt
<1>3. /\ 4 * q + 0 + 1 = 4 * q + 1 /\ 4 * q + 1 + 1 = 4 * q + 2
      /\ 4 * q + 2 + 1 = 4 * q + 3 /\ 4 * q + 3 + 1 = 4 * q + 4
  OBVIOUS
<1> QED
  BY <1>2, <1>3

\* A digit stays what it is when the bytes of its group are there.
LEMMA DigitStays ==
  ASSUME NEW bytes, NEW q \in Nat, NEW k \in Nat, k >= 3 * q
  PROVE  \A j \in 1 .. 4 * q : DigitIn(bytes, k + 1, j) = DigitIn(bytes, k, j)
<1> TAKE j \in 1 .. 4 * q
<1> DEFINE first == 3 * ((j - 1) \div 4)
<1>1. first \in Nat /\ first + 3 <= k
  OBVIOUS
<1> HIDE DEF first
<1>2. \A i \in 1 .. 3 : OctetAt(bytes, k + 1, first + i) = OctetAt(bytes, k, first + i)
  BY <1>1 DEF OctetAt
<1>3. /\ OctetAt(bytes, k + 1, first + 1) = OctetAt(bytes, k, first + 1)
      /\ OctetAt(bytes, k + 1, first + 2) = OctetAt(bytes, k, first + 2)
      /\ OctetAt(bytes, k + 1, first + 3) = OctetAt(bytes, k, first + 3)
  <2>1. 1 \in 1 .. 3 /\ 2 \in 1 .. 3 /\ 3 \in 1 .. 3
    OBVIOUS
  <2> QED
    BY <1>2, <2>1
<1> QED
  BY <1>3 DEF DigitIn, first

\* What the encoder has stored of the first k bytes.
Count(k) == (8 * k + 5) \div 6
Encoded(bytes, k) == [j \in 1 .. Count(k) |-> Enc(DigitIn(bytes, k, j))]
EncodeOK(bytes, k, size, s) ==
  IF Count(k) > size THEN s.space = Pure!TooSmall
  ELSE s.space = Encoded(bytes, k) /\ s.phase = k % 3

LEMMA EncodedIs ==
  ASSUME NEW bytes \in Seq(Octet), NEW k \in 0 .. Len(bytes)
  PROVE  /\ Count(k) \in Nat /\ Count(k) # 1
         /\ Encoded(bytes, k) \in Seq(Int)
         /\ Len(Encoded(bytes, k)) = Count(k)
         /\ \A j \in 1 .. Count(k) : /\ Encoded(bytes, k)[j] = Enc(DigitIn(bytes, k, j))
                                     /\ DigitIn(bytes, k, j) \in 0 .. 63
         /\ Encoded(bytes, k) # Pure!TooSmall
<1>1. k \in Nat /\ Count(k) \in Nat /\ Count(k) # 1
  BY LenProperties DEF Count
<1>2. \A j \in 1 .. Count(k) : DigitIn(bytes, k, j) \in 0 .. 63
  <2>1. \A j \in 1 .. Count(k) : j \in Nat \ {0}
    BY <1>1
  <2> QED
    BY <2>1, DigitIs
<1>3. \A v \in 0 .. 63 : Enc(v) \in Int
  BY CodesAre
<1>4. Encoded(bytes, k) \in [1 .. Count(k) -> Int]
  BY <1>2, <1>3 DEF Encoded
<1>5. Encoded(bytes, k) \in Seq(Int) /\ Len(Encoded(bytes, k)) = Count(k)
  BY <1>1, <1>4, SeqDef, LenProperties
<1>6. Encoded(bytes, k) # Pure!TooSmall
  <2>1. Len(Pure!TooSmall) = 1
    BY DEF Pure!TooSmall
  <2> QED
    BY <1>1, <1>5, <2>1
<1> QED
  BY <1>1, <1>2, <1>5, <1>6 DEF Encoded

\* A sequence of numbers and some more are what has these numbers.
LEMMA AppendIs ==
  ASSUME NEW s \in Seq(Int), NEW t \in Seq(Int), NEW u \in Seq(Int),
         Len(u) = Len(s) + Len(t),
         \A j \in 1 .. Len(s) : u[j] = s[j],
         \A j \in 1 .. Len(t) : u[Len(s) + j] = t[j]
  PROVE  s \o t = u
<1>1. s \o t \in Seq(Int) /\ Len(s \o t) = Len(u)
  BY ConcatProperties
<1>2. \A j \in 1 .. Len(u) : (s \o t)[j] = u[j]
  <2> TAKE j \in 1 .. Len(u)
  <2>1. Len(s) \in Nat /\ Len(t) \in Nat /\ Len(u) \in Nat
    BY LenProperties
  <2>2. CASE j <= Len(s)
    BY <2>1, <2>2, ConcatProperties
  <2>3. CASE j > Len(s)
    <3>1. j - Len(s) \in 1 .. Len(t) /\ Len(s) + (j - Len(s)) = j
      BY <2>1, <2>3
    <3>2. (s \o t)[j] = t[j - Len(s)]
      BY <2>1, <2>3, ConcatProperties
    <3> QED
      BY <3>1, <3>2
  <2> QED
    BY <2>1, <2>2, <2>3
<1> QED
  BY <1>1, <1>2, SeqEqual

\* What Stored() does to what is not -1.
LEMMA StoredIs ==
  ASSUME NEW space \in Seq(Int), space # Pure!TooSmall, NEW cs \in Seq(Int), NEW size \in Int
  PROVE  Pure!Stored(space, cs, size) =
           IF Len(space) + Len(cs) > size THEN Pure!TooSmall ELSE space \o cs
BY DEF Pure!Stored

\* A byte more is encoded when its digits come behind those of the others.
LEMMA ByteStored ==
  ASSUME NEW bytes \in Seq(Octet), NEW k \in 0 .. Len(bytes) - 1, NEW size \in Int,
         NEW sp \in Seq(Int), sp # Pure!TooSmall, NEW cs \in Seq(Int),
         Len(sp) + Len(cs) = Count(k + 1),
         \A j \in 1 .. Len(sp) : sp[j] = Enc(DigitIn(bytes, k + 1, j)),
         \A j \in 1 .. Len(cs) : cs[j] = Enc(DigitIn(bytes, k + 1, Len(sp) + j)),
         NEW t, t.space = Pure!Stored(sp, cs, size), t.phase = (k + 1) % 3
  PROVE  EncodeOK(bytes, k + 1, size, t)
<1> DEFINE u == Encoded(bytes, k + 1)
<1>1. k + 1 \in 0 .. Len(bytes)
  BY LenProperties
<1>2. /\ u \in Seq(Int) /\ Len(u) = Count(k + 1)
      /\ \A j \in 1 .. Count(k + 1) : u[j] = Enc(DigitIn(bytes, k + 1, j))
  BY <1>1, EncodedIs, SMTT(30)
<1> HIDE DEF u
<1>3. Len(sp) \in Nat /\ Len(cs) \in Nat
  BY LenProperties
<1>4. sp \o cs = u
  <2>1. \A j \in 1 .. Len(sp) : u[j] = sp[j]
    <3>1. \A j \in 1 .. Len(sp) : j \in 1 .. Count(k + 1)
      BY <1>3
    <3> QED
      BY <1>2, <3>1
  <2>2. \A j \in 1 .. Len(cs) : u[Len(sp) + j] = cs[j]
    <3>1. \A j \in 1 .. Len(cs) : Len(sp) + j \in 1 .. Len(sp) + Len(cs)
      BY <1>3
    <3> QED
      BY <1>2, <3>1
  <2> QED
    BY <1>2, <2>1, <2>2, AppendIs, SMTT(30)
<1>5. t.space = IF Count(k + 1) > size THEN Pure!TooSmall ELSE u
  BY <1>4, StoredIs
<1> QED
  BY <1>5 DEF EncodeOK, u

\* The last digit is made up when the next byte comes.
LEMMA JoinedIs ==
  ASSUME NEW space \in Seq(Int), NEW n \in Nat \ {0}, Len(space) = n, NEW x \in Int
  PROVE  LET sp == [space EXCEPT ![n] = x]
         IN  /\ sp \in Seq(Int) /\ Len(sp) = n /\ sp[n] = x
             /\ \A j \in 1 .. n - 1 : sp[j] = space[j]
<1> DEFINE sp == [space EXCEPT ![n] = x]
<1>1. space \in [1 .. n -> Int]
  BY LenProperties, ElementOfSeq
<1>2. sp \in [1 .. n -> Int] /\ sp[n] = x /\ \A j \in 1 .. n - 1 : sp[j] = space[j]
  <2>1. n \in 1 .. n /\ \A j \in 1 .. n - 1 : j \in 1 .. n /\ j # n
    OBVIOUS
  <2> QED
    BY <1>1, <2>1
<1> HIDE DEF sp
<1>3. sp \in Seq(Int) /\ Len(sp) = n
  BY <1>2, SeqDef, LenProperties
<1> QED
  BY <1>2, <1>3 DEF sp

\* What the encoder does with the second and the third byte of a group.
JoinedAt(s, n, v) == [s.space EXCEPT ![n] = Enc(Pure!B64_DECODE_TABLE[s.space[n]] + v)]
Second(s, n, b, size) ==
  [space |-> Pure!Stored(JoinedAt(s, n, b \div 16), <<Enc((b % 16) * 4)>>, size),
   phase |-> 2]
Third(s, n, b, size) ==
  [space |-> Pure!Stored(JoinedAt(s, n, b \div 64), <<Enc(b % 64)>>, size), phase |-> 0]
LEMMA ByteIs ==
  ASSUME NEW s, NEW b, NEW size, s.space # Pure!TooSmall
  PROVE  /\ s.phase = 1 => Pure!EncodeByte(s, b, size) = Second(s, Len(s.space), b, size)
         /\ s.phase = 2 => Pure!EncodeByte(s, b, size) = Third(s, Len(s.space), b, size)
<1> DEFINE first == [space |-> Pure!Stored(s.space, <<Enc(b \div 4), Enc((b % 4) * 16)>>, size),
                     phase |-> 1]
<1>1. Pure!EncodeByte(s, b, size) =
        IF s.space = Pure!TooSmall THEN s
        ELSE CASE s.phase = 0 -> first
               [] s.phase = 1 -> Second(s, Len(s.space), b, size)
               [] s.phase = 2 -> Third(s, Len(s.space), b, size)
  BY Zenon DEF Pure!EncodeByte, Enc, JoinedAt, Second, Third
<1> HIDE DEF first
<1> QED
  BY <1>1

\* The first byte of a group.
LEMMA EncodeFirst ==
  ASSUME NEW bytes \in Seq(Octet), NEW q \in Nat, 3 * q \in 0 .. Len(bytes) - 1,
         NEW size \in Int, NEW s, s.space = Encoded(bytes, 3 * q), s.phase = 0
  PROVE  EncodeOK(bytes, 3 * q + 1, size, Pure!EncodeByte(s, bytes[3 * q + 1], size))
<1> DEFINE k == 3 * q
           b == bytes[k + 1]
           sp == Encoded(bytes, k)
           cs == <<Enc(b \div 4), Enc((b % 4) * 16)>>
           t == Pure!EncodeByte(s, b, size)
<1>1. /\ k \in 0 .. Len(bytes) /\ k + 1 \in 1 .. Len(bytes) /\ Len(bytes) \in Nat
      /\ Count(k) = 4 * q /\ Count(k + 1) = 4 * q + 2 /\ (k + 1) % 3 = 1
  BY LenProperties DEF Count
<1>2. b \in Octet
  BY <1>1, ElementOfSeq
<1>3. /\ sp \in Seq(Int) /\ Len(sp) = 4 * q /\ sp # Pure!TooSmall
      /\ \A j \in 1 .. 4 * q : sp[j] = Enc(DigitIn(bytes, k, j))
  BY <1>1, EncodedIs, ZenonT(40)
<1>4. /\ t.space = Pure!Stored(sp, cs, size)
      /\ t.phase = 1
  BY <1>3 DEF Pure!EncodeByte, Enc
<1>5. /\ DigitIn(bytes, k + 1, 4 * q + 1) = b \div 4
      /\ DigitIn(bytes, k + 1, 4 * q + 2) = (b % 4) * 16
  <2>1. /\ OctetAt(bytes, k + 1, 3 * q + 1) = b
        /\ OctetAt(bytes, k + 1, 3 * q + 2) = 0 /\ OctetAt(bytes, k + 1, 3 * q + 3) = 0
    BY DEF OctetAt
  <2>2. /\ DigitIn(bytes, k + 1, 4 * q + 1) = Sextet(b, 0, 0, 0)
        /\ DigitIn(bytes, k + 1, 4 * q + 2) = Sextet(b, 0, 0, 1)
    <3> HIDE DEF b, k
    <3> QED
      BY <2>1, GroupDigits
  <2>3. Sextet(b, 0, 0, 0) = b \div 4
    BY SextetParts
  <2>4. Sextet(b, 0, 0, 1) = (b % 4) * 16
    BY <1>2, SextetLast
  <2> QED
    BY <2>2, <2>3, <2>4
<1>6. cs \in Seq(Int) /\ Len(cs) = 2 /\ cs[1] = Enc(b \div 4) /\ cs[2] = Enc((b % 4) * 16)
  <2> HIDE DEF b
  <2>1. b \div 4 \in 0 .. 63 /\ (b % 4) * 16 \in 0 .. 63
    BY <1>2 DEF Octet
  <2>2. Enc(b \div 4) \in Int /\ Enc((b % 4) * 16) \in Int
    BY <2>1, CodesAre
  <2> QED
    BY <2>2
<1> HIDE DEF sp, cs, t, b
<1>7. \A j \in 1 .. Len(sp) : sp[j] = Enc(DigitIn(bytes, k + 1, j))
  <2> HIDE DEF k
  <2>1. k \in Nat /\ k >= 3 * q
    BY <1>1 DEF k
  <2>2. \A j \in 1 .. 4 * q : DigitIn(bytes, k + 1, j) = DigitIn(bytes, k, j)
    BY <2>1, DigitStays
  <2> QED
    BY <1>3, <2>2
<1>8. \A j \in 1 .. Len(cs) : cs[j] = Enc(DigitIn(bytes, k + 1, Len(sp) + j))
  <2> TAKE j \in 1 .. Len(cs)
  <2>1. j = 1 \/ j = 2
    BY <1>6
  <2> QED
    BY <1>3, <1>5, <1>6, <2>1
<1>9. k \in 0 .. Len(bytes) - 1 /\ Len(sp) + Len(cs) = Count(k + 1)
  BY <1>1, <1>3, <1>6
<1> HIDE DEF k
<1>10. EncodeOK(bytes, k + 1, size, t)
  BY <1>1, <1>3, <1>4, <1>6, <1>7, <1>8, <1>9, ByteStored, ZenonT(40)
<1> QED
  BY <1>10 DEF t, b, k

\* The second one.
LEMMA EncodeSecond ==
  ASSUME NEW bytes \in Seq(Octet), NEW q \in Nat, 3 * q + 1 \in 0 .. Len(bytes) - 1,
         NEW size \in Int, NEW s, s.space = Encoded(bytes, 3 * q + 1), s.phase = 1
  PROVE  EncodeOK(bytes, 3 * q + 2, size, Pure!EncodeByte(s, bytes[3 * q + 2], size))
<1> DEFINE k == 3 * q + 1
           a == bytes[3 * q + 1]
           b == bytes[3 * q + 2]
           x == Enc(Pure!B64_DECODE_TABLE[s.space[4 * q + 2]] + (b \div 16))
           sp == [s.space EXCEPT ![4 * q + 2] = x]
           cs == <<Enc((b % 16) * 4)>>
           t == Pure!EncodeByte(s, b, size)
<1>1. /\ k \in 0 .. Len(bytes) /\ k + 1 = 3 * q + 2
      /\ 3 * q + 1 \in 1 .. Len(bytes) /\ 3 * q + 2 \in 1 .. Len(bytes) /\ Len(bytes) \in Nat
      /\ Count(k) = 4 * q + 2 /\ Count(k + 1) = 4 * q + 3 /\ (k + 1) % 3 = 2
  BY LenProperties DEF Count
<1>2. a \in Octet /\ b \in Octet
  BY <1>1, ElementOfSeq
<1>3. /\ s.space \in Seq(Int) /\ Len(s.space) = 4 * q + 2 /\ s.space # Pure!TooSmall
      /\ \A j \in 1 .. 4 * q + 2 : s.space[j] = Enc(DigitIn(bytes, k, j))
  BY <1>1, EncodedIs, ZenonT(40)
<1>4. t.space = Pure!Stored(sp, cs, size) /\ t.phase = 2
  <2>1. t = Second(s, 4 * q + 2, b, size)
    <3> HIDE DEF b
    <3> QED
      BY <1>3, ByteIs
  <2>2. t = [space |-> Pure!Stored(sp, cs, size), phase |-> 2]
    BY <2>1 DEF Second, JoinedAt
  <2> HIDE DEF t, sp, cs
  <2> QED
    BY <2>2
<1>5. /\ DigitIn(bytes, k, 4 * q + 1) = a \div 4
      /\ DigitIn(bytes, k, 4 * q + 2) = (a % 4) * 16
  <2>1. /\ OctetAt(bytes, k, 3 * q + 1) = a
        /\ OctetAt(bytes, k, 3 * q + 2) = 0 /\ OctetAt(bytes, k, 3 * q + 3) = 0
    BY DEF OctetAt
  <2> HIDE DEF a, k
  <2>2. /\ DigitIn(bytes, k, 4 * q + 1) = Sextet(a, 0, 0, 0)
        /\ DigitIn(bytes, k, 4 * q + 2) = Sextet(a, 0, 0, 1)
    BY <2>1, GroupDigits
  <2>3. Sextet(a, 0, 0, 0) = a \div 4
    BY SextetParts
  <2>4. Sextet(a, 0, 0, 1) = (a % 4) * 16
    BY <1>2, SextetLast
  <2> QED
    BY <2>2, <2>3, <2>4
<1>6. /\ DigitIn(bytes, k + 1, 4 * q + 1) = a \div 4
      /\ DigitIn(bytes, k + 1, 4 * q + 2) = (a % 4) * 16 + (b \div 16)
      /\ DigitIn(bytes, k + 1, 4 * q + 3) = (b % 16) * 4
      /\ (a % 4) * 16 + (b \div 16) \in 0 .. 63 /\ (b % 16) * 4 \in 0 .. 63
      /\ (a % 4) * 16 \in 0 .. 63
  <2>1. /\ OctetAt(bytes, k + 1, 3 * q + 1) = a /\ OctetAt(bytes, k + 1, 3 * q + 2) = b
        /\ OctetAt(bytes, k + 1, 3 * q + 3) = 0
    BY DEF OctetAt
  <2> HIDE DEF a, b, k
  <2>2. /\ DigitIn(bytes, k + 1, 4 * q + 1) = Sextet(a, b, 0, 0)
        /\ DigitIn(bytes, k + 1, 4 * q + 2) = Sextet(a, b, 0, 1)
        /\ DigitIn(bytes, k + 1, 4 * q + 3) = Sextet(a, b, 0, 2)
    BY <2>1, GroupDigits
  <2>3. /\ Sextet(a, b, 0, 0) = a \div 4
        /\ Sextet(a, b, 0, 1) = (a % 4) * 16 + (b \div 16)
    BY SextetParts
  <2>4. Sextet(a, b, 0, 2) = (b % 16) * 4
    BY <1>2, SextetLast
  <2>5. /\ (a % 4) * 16 + (b \div 16) \in 0 .. 63 /\ (b % 16) * 4 \in 0 .. 63
        /\ (a % 4) * 16 \in 0 .. 63
    BY <1>2 DEF Octet
  <2> QED
    BY <2>2, <2>3, <2>4, <2>5
<1> HIDE DEF a, b
<1>7. x = Enc((a % 4) * 16 + (b \div 16)) /\ x \in Int
  <2>1. 4 * q + 2 \in 1 .. 4 * q + 2
    OBVIOUS
  <2>2. s.space[4 * q + 2] = Enc((a % 4) * 16)
    BY <1>3, <1>5, <2>1
  <2>3. Pure!B64_DECODE_TABLE[s.space[4 * q + 2]] = (a % 4) * 16
    BY <1>6, <2>2, TablesAre
  <2> QED
    BY <1>6, <2>3, CodesAre
<1> HIDE DEF x
<1>8. /\ sp \in Seq(Int) /\ Len(sp) = 4 * q + 2 /\ sp[4 * q + 2] = x
      /\ \A j \in 1 .. 4 * q + 1 : sp[j] = s.space[j]
  <2>1. 4 * q + 2 \in Nat \ {0} /\ (4 * q + 2) - 1 = 4 * q + 1
    OBVIOUS
  <2> DEFINE n == 4 * q + 2
  <2> HIDE DEF n
  <2>2. /\ [s.space EXCEPT ![n] = x] \in Seq(Int) /\ Len([s.space EXCEPT ![n] = x]) = n
        /\ [s.space EXCEPT ![n] = x][n] = x
        /\ \A j \in 1 .. n - 1 : [s.space EXCEPT ![n] = x][j] = s.space[j]
    BY <1>3, <1>7, <2>1, JoinedIs DEF n
  <2> QED
    BY <2>1, <2>2 DEF n
<1>9. cs \in Seq(Int) /\ Len(cs) = 1 /\ cs[1] = Enc((b % 16) * 4)
  <2>1. Enc((b % 16) * 4) \in Int
    BY <1>6, CodesAre
  <2> QED
    BY <2>1
<1>10. sp # Pure!TooSmall
  <2>1. Len(Pure!TooSmall) = 1 /\ 4 * q + 2 # 1
    BY DEF Pure!TooSmall
  <2> QED
    BY <1>8, <2>1
<1> HIDE DEF sp, cs, t
<1>11. \A j \in 1 .. Len(sp) : sp[j] = Enc(DigitIn(bytes, k + 1, j))
  <2> TAKE j \in 1 .. Len(sp)
  <2>1. CASE j \in 1 .. 4 * q
    <3>1. k \in Nat /\ k >= 3 * q
      BY <1>1
    <3>2. DigitIn(bytes, k + 1, j) = DigitIn(bytes, k, j)
      BY <2>1, <3>1, DigitStays
    <3>3. j \in 1 .. 4 * q + 1 /\ j \in 1 .. 4 * q + 2
      BY <2>1
    <3> HIDE DEF k
    <3> QED
      BY <1>3, <1>8, <3>2, <3>3
  <2>2. CASE j = 4 * q + 1
    <3>1. 4 * q + 1 \in 1 .. 4 * q + 1 /\ 4 * q + 1 \in 1 .. 4 * q + 2
      OBVIOUS
    <3> HIDE DEF k
    <3> QED
      BY <1>3, <1>5, <1>6, <1>8, <2>2, <3>1
  <2>3. CASE j = 4 * q + 2
    BY <1>6, <1>7, <1>8, <2>3
  <2> QED
    BY <1>8, <2>1, <2>2, <2>3
<1>12. \A j \in 1 .. Len(cs) : cs[j] = Enc(DigitIn(bytes, k + 1, Len(sp) + j))
  <2> TAKE j \in 1 .. Len(cs)
  <2>1. j = 1 /\ 4 * q + 2 + 1 = 4 * q + 3
    BY <1>9
  <2> QED
    BY <1>6, <1>8, <1>9, <2>1
<1> HIDE DEF k
<1>13. k \in 0 .. Len(bytes) - 1 /\ Len(sp) + Len(cs) = Count(k + 1)
  <2>1. k \in 0 .. Len(bytes) - 1
    BY <1>1
  <2>2. Len(sp) + Len(cs) = Count(k + 1)
    <3>1. (4 * q + 2) + 1 = 4 * q + 3
      OBVIOUS
    <3> QED
      BY <1>1, <1>8, <1>9, <3>1
  <2> QED
    BY <2>1, <2>2
<1>14. EncodeOK(bytes, k + 1, size, t)
  BY <1>1, <1>4, <1>8, <1>9, <1>10, <1>11, <1>12, <1>13, ByteStored, ZenonT(40)
<1> QED
  BY <1>1, <1>14 DEF t, b

\* The third one.
LEMMA EncodeThird ==
  ASSUME NEW bytes \in Seq(Octet), NEW q \in Nat, 3 * q + 2 \in 0 .. Len(bytes) - 1,
         NEW size \in Int, NEW s, s.space = Encoded(bytes, 3 * q + 2), s.phase = 2
  PROVE  EncodeOK(bytes, 3 * q + 3, size, Pure!EncodeByte(s, bytes[3 * q + 3], size))
<1> DEFINE k == 3 * q + 2
           a == bytes[3 * q + 1]
           b == bytes[3 * q + 2]
           c == bytes[3 * q + 3]
           x == Enc(Pure!B64_DECODE_TABLE[s.space[4 * q + 3]] + (c \div 64))
           sp == [s.space EXCEPT ![4 * q + 3] = x]
           cs == <<Enc(c % 64)>>
           t == Pure!EncodeByte(s, c, size)
<1>1. /\ k \in 0 .. Len(bytes) /\ k + 1 = 3 * q + 3
      /\ 3 * q + 1 \in 1 .. Len(bytes) /\ 3 * q + 2 \in 1 .. Len(bytes)
      /\ 3 * q + 3 \in 1 .. Len(bytes) /\ Len(bytes) \in Nat
      /\ Count(k) = 4 * q + 3 /\ Count(k + 1) = 4 * q + 4 /\ (k + 1) % 3 = 0
  BY LenProperties DEF Count
<1>2. a \in Octet /\ b \in Octet /\ c \in Octet
  BY <1>1, ElementOfSeq
<1>3. /\ s.space \in Seq(Int) /\ Len(s.space) = 4 * q + 3 /\ s.space # Pure!TooSmall
      /\ \A j \in 1 .. 4 * q + 3 : s.space[j] = Enc(DigitIn(bytes, k, j))
  BY <1>1, EncodedIs, ZenonT(40)
<1>4. t.space = Pure!Stored(sp, cs, size) /\ t.phase = 0
  <2>1. t = Third(s, 4 * q + 3, c, size)
    <3> HIDE DEF c
    <3> QED
      BY <1>3, ByteIs, ZenonT(40)
  <2>2. t = [space |-> Pure!Stored(sp, cs, size), phase |-> 0]
    BY <2>1 DEF Third, JoinedAt
  <2> HIDE DEF t, sp, cs
  <2> QED
    BY <2>2
<1>5. /\ DigitIn(bytes, k, 4 * q + 1) = a \div 4
      /\ DigitIn(bytes, k, 4 * q + 2) = (a % 4) * 16 + (b \div 16)
      /\ DigitIn(bytes, k, 4 * q + 3) = (b % 16) * 4
  <2>1. /\ OctetAt(bytes, k, 3 * q + 1) = a /\ OctetAt(bytes, k, 3 * q + 2) = b
        /\ OctetAt(bytes, k, 3 * q + 3) = 0
    BY DEF OctetAt
  <2> HIDE DEF a, b, k
  <2>2. /\ DigitIn(bytes, k, 4 * q + 1) = Sextet(a, b, 0, 0)
        /\ DigitIn(bytes, k, 4 * q + 2) = Sextet(a, b, 0, 1)
        /\ DigitIn(bytes, k, 4 * q + 3) = Sextet(a, b, 0, 2)
    BY <2>1, GroupDigits
  <2>3. /\ Sextet(a, b, 0, 0) = a \div 4
        /\ Sextet(a, b, 0, 1) = (a % 4) * 16 + (b \div 16)
    BY SextetParts
  <2>4. Sextet(a, b, 0, 2) = (b % 16) * 4
    BY <1>2, SextetLast
  <2> QED
    BY <2>2, <2>3, <2>4
<1>6. /\ DigitIn(bytes, k + 1, 4 * q + 1) = a \div 4
      /\ DigitIn(bytes, k + 1, 4 * q + 2) = (a % 4) * 16 + (b \div 16)
      /\ DigitIn(bytes, k + 1, 4 * q + 3) = (b % 16) * 4 + (c \div 64)
      /\ DigitIn(bytes, k + 1, 4 * q + 4) = c % 64
      /\ (b % 16) * 4 + (c \div 64) \in 0 .. 63 /\ c % 64 \in 0 .. 63
      /\ (b % 16) * 4 \in 0 .. 63
  <2>1. /\ OctetAt(bytes, k + 1, 3 * q + 1) = a /\ OctetAt(bytes, k + 1, 3 * q + 2) = b
        /\ OctetAt(bytes, k + 1, 3 * q + 3) = c
    BY DEF OctetAt
  <2> HIDE DEF a, b, c, k
  <2>2. /\ DigitIn(bytes, k + 1, 4 * q + 1) = Sextet(a, b, c, 0)
        /\ DigitIn(bytes, k + 1, 4 * q + 2) = Sextet(a, b, c, 1)
        /\ DigitIn(bytes, k + 1, 4 * q + 3) = Sextet(a, b, c, 2)
        /\ DigitIn(bytes, k + 1, 4 * q + 4) = Sextet(a, b, c, 3)
    BY <2>1, GroupDigits
  <2>3. /\ Sextet(a, b, c, 0) = a \div 4
        /\ Sextet(a, b, c, 1) = (a % 4) * 16 + (b \div 16)
        /\ Sextet(a, b, c, 2) = (b % 16) * 4 + (c \div 64)
        /\ Sextet(a, b, c, 3) = c % 64
    BY SextetParts
  <2>5. /\ (b % 16) * 4 + (c \div 64) \in 0 .. 63 /\ c % 64 \in 0 .. 63
        /\ (b % 16) * 4 \in 0 .. 63
    BY <1>2 DEF Octet
  <2> QED
    BY <2>2, <2>3, <2>5
<1> HIDE DEF a, b, c
<1>7. x = Enc((b % 16) * 4 + (c \div 64)) /\ x \in Int
  <2>1. 4 * q + 3 \in 1 .. 4 * q + 3
    OBVIOUS
  <2>2. s.space[4 * q + 3] = Enc((b % 16) * 4)
    BY <1>3, <1>5, <2>1
  <2>3. Pure!B64_DECODE_TABLE[s.space[4 * q + 3]] = (b % 16) * 4
    BY <1>6, <2>2, TablesAre
  <2> QED
    BY <1>6, <2>3, CodesAre
<1> HIDE DEF x
<1>8. /\ sp \in Seq(Int) /\ Len(sp) = 4 * q + 3 /\ sp[4 * q + 3] = x
      /\ \A j \in 1 .. 4 * q + 2 : sp[j] = s.space[j]
  <2>1. 4 * q + 3 \in Nat \ {0} /\ (4 * q + 3) - 1 = 4 * q + 2
    OBVIOUS
  <2> DEFINE n == 4 * q + 3
  <2> HIDE DEF n
  <2>2. /\ [s.space EXCEPT ![n] = x] \in Seq(Int) /\ Len([s.space EXCEPT ![n] = x]) = n
        /\ [s.space EXCEPT ![n] = x][n] = x
        /\ \A j \in 1 .. n - 1 : [s.space EXCEPT ![n] = x][j] = s.space[j]
    BY <1>3, <1>7, <2>1, JoinedIs, SMTT(30) DEF n
  <2> QED
    BY <2>1, <2>2 DEF n
<1>9. cs \in Seq(Int) /\ Len(cs) = 1 /\ cs[1] = Enc(c % 64)
  <2>1. Enc(c % 64) \in Int
    BY <1>6, CodesAre
  <2> QED
    BY <2>1
<1>10. sp # Pure!TooSmall
  <2>1. Len(Pure!TooSmall) = 1 /\ 4 * q + 3 # 1
    BY DEF Pure!TooSmall
  <2> QED
    BY <1>8, <2>1
<1> HIDE DEF sp, cs, t
<1>11. \A j \in 1 .. Len(sp) : sp[j] = Enc(DigitIn(bytes, k + 1, j))
  <2> TAKE j \in 1 .. Len(sp)
  <2>1. CASE j \in 1 .. 4 * q
    <3>1. k \in Nat /\ k >= 3 * q
      BY <1>1
    <3>2. DigitIn(bytes, k + 1, j) = DigitIn(bytes, k, j)
      BY <2>1, <3>1, DigitStays
    <3>3. j \in 1 .. 4 * q + 2 /\ j \in 1 .. 4 * q + 3
      BY <2>1
    <3> HIDE DEF k
    <3> QED
      BY <1>3, <1>8, <3>2, <3>3
  <2>2. CASE j \in {4 * q + 1, 4 * q + 2}
    <3>1. \A i \in {4 * q + 1, 4 * q + 2} : i \in 1 .. 4 * q + 2 /\ i \in 1 .. 4 * q + 3
      OBVIOUS
    <3> HIDE DEF k
    <3>2. DigitIn(bytes, k + 1, j) = DigitIn(bytes, k, j)
      BY <1>5, <1>6, <2>2, SMTT(30)
    <3> QED
      BY <1>3, <1>8, <2>2, <3>1, <3>2
  <2>3. CASE j = 4 * q + 3
    BY <1>6, <1>7, <1>8, <2>3
  <2> QED
    BY <1>8, <2>1, <2>2, <2>3
<1>12. \A j \in 1 .. Len(cs) : cs[j] = Enc(DigitIn(bytes, k + 1, Len(sp) + j))
  <2> TAKE j \in 1 .. Len(cs)
  <2>1. j = 1 /\ 4 * q + 3 + 1 = 4 * q + 4
    BY <1>9
  <2> QED
    BY <1>6, <1>8, <1>9, <2>1
<1> HIDE DEF k
<1>13. k \in 0 .. Len(bytes) - 1 /\ Len(sp) + Len(cs) = Count(k + 1)
  <2>1. k \in 0 .. Len(bytes) - 1
    BY <1>1
  <2>2. Len(sp) + Len(cs) = Count(k + 1)
    <3>1. (4 * q + 3) + 1 = 4 * q + 4
      OBVIOUS
    <3> QED
      BY <1>1, <1>8, <1>9, <3>1
  <2> QED
    BY <2>1, <2>2
<1>14. EncodeOK(bytes, k + 1, size, t)
  BY <1>1, <1>4, <1>8, <1>9, <1>10, <1>11, <1>12, <1>13, ByteStored
<1> QED
  BY <1>1, <1>14 DEF t, c

LEMMA EncodeStep ==
  ASSUME NEW bytes \in Seq(Octet), NEW k \in 0 .. Len(bytes) - 1, NEW size \in Int,
         NEW s, EncodeOK(bytes, k, size, s)
  PROVE  EncodeOK(bytes, k + 1, size, Pure!EncodeByte(s, bytes[k + 1], size))
<1>1. k \in Nat
  BY LenProperties
<1>2. CASE Count(k) > size
  <2>1. Count(k + 1) > size
    BY <1>1, <1>2 DEF Count
  <2>2. s.space = Pure!TooSmall
    BY <1>2 DEF EncodeOK
  <2>3. Pure!EncodeByte(s, bytes[k + 1], size) = s
    BY <2>2 DEF Pure!EncodeByte
  <2> QED
    BY <2>1, <2>2, <2>3 DEF EncodeOK
<1>3. CASE ~ (Count(k) > size)
  <2>1. s.space = Encoded(bytes, k) /\ s.phase = k % 3
    BY <1>3 DEF EncodeOK
  <2> DEFINE q == k \div 3
  <2>2. /\ q \in Nat
        /\ \/ k = 3 * q /\ k % 3 = 0 /\ k + 1 = 3 * q + 1
           \/ k = 3 * q + 1 /\ k % 3 = 1 /\ k + 1 = 3 * q + 2
           \/ k = 3 * q + 2 /\ k % 3 = 2 /\ k + 1 = 3 * q + 3
    BY <1>1
  <2> HIDE DEF q
  <2>3. CASE k = 3 * q /\ k % 3 = 0 /\ k + 1 = 3 * q + 1
    BY <2>1, <2>2, <2>3, EncodeFirst
  <2>4. CASE k = 3 * q + 1 /\ k % 3 = 1 /\ k + 1 = 3 * q + 2
    BY <2>1, <2>2, <2>4, EncodeSecond
  <2>5. CASE k = 3 * q + 2 /\ k % 3 = 2 /\ k + 1 = 3 * q + 3
    BY <2>1, <2>2, <2>5, EncodeThird
  <2> QED
    BY <2>2, <2>3, <2>4, <2>5
<1> QED
  BY <1>2, <1>3

\* The whole text, with its padding.
Whole(bytes) ==
  [k \in 1 .. Pure!Digits(bytes) + Pure!Padding(bytes) |->
     IF k <= Pure!Digits(bytes) THEN Pure!B64_ENCODE_TABLE[Pure!Digit(bytes, k)]
     ELSE Pure!PadChar]
LEMMA WholeIs ==
  ASSUME NEW bytes \in Seq(Octet)
  PROVE  LET n == Pure!Digits(bytes) + Pure!Padding(bytes)
             d == Count(Len(bytes))
         IN  /\ Pure!Digits(bytes) = d /\ d \in Nat /\ n \in Nat /\ d <= n
             /\ Pure!Padding(bytes) = IF bytes = <<>> THEN 0 ELSE 3 - (Len(bytes) % 3)
             /\ Whole(bytes) \in Seq(Int) /\ Len(Whole(bytes)) = n
             /\ DOMAIN Whole(bytes) = 1 .. n
             /\ \A j \in 1 .. d : Whole(bytes)[j] = Enc(DigitIn(bytes, Len(bytes), j))
             /\ \A j \in d + 1 .. n : Whole(bytes)[j] = 61
             /\ \A j \in 1 .. d : DigitIn(bytes, Len(bytes), j) \in 0 .. 63
<1> DEFINE n == Pure!Digits(bytes) + Pure!Padding(bytes)
           d == Count(Len(bytes))
<1>1. Len(bytes) \in Nat
  BY LenProperties
<1>2. Pure!Digits(bytes) = d /\ d \in Nat
  BY <1>1 DEF Pure!Digits, Count
<1>3. Pure!Padding(bytes) = IF bytes = <<>> THEN 0 ELSE 3 - (Len(bytes) % 3)
  BY DEF Pure!Padding
<1>4. Pure!Padding(bytes) \in Nat
  BY <1>1, <1>3
<1> HIDE DEF d
<1>5. n \in Nat /\ d <= n
  BY <1>2, <1>4
<1>6. Whole(bytes) = [k \in 1 .. n |->
        IF k <= d THEN Enc(Pure!Digit(bytes, k)) ELSE 61]
  BY <1>2 DEF Whole, Enc, Pure!PadChar
<1> HIDE DEF n
<1>7. \A j \in 1 .. n : /\ Pure!Digit(bytes, j) = DigitIn(bytes, Len(bytes), j)
                        /\ DigitIn(bytes, Len(bytes), j) \in 0 .. 63
  <2>1. \A j \in 1 .. n : j \in Nat \ {0}
    OBVIOUS
  <2>2. Len(bytes) \in 0 .. Len(bytes)
    BY <1>1
  <2> QED
    BY <2>1, <2>2, DigitIs
<1>8. \A j \in 1 .. d : j \in 1 .. n /\ j <= d
  BY <1>2, <1>5
<1>9. \A j \in d + 1 .. n : j \in 1 .. n /\ ~ (j <= d)
  BY <1>2, <1>5
<1>10. Whole(bytes) \in [1 .. n -> Int]
  <2>1. \A k \in 1 .. n : Enc(Pure!Digit(bytes, k)) \in Int
    BY <1>7, CodesAre
  <2>2. \A k \in 1 .. n : (IF k <= d THEN Enc(Pure!Digit(bytes, k)) ELSE 61) \in Int
    BY <2>1
  <2> QED
    BY <1>6, <2>2
<1>11. Whole(bytes) \in Seq(Int) /\ Len(Whole(bytes)) = n /\ DOMAIN Whole(bytes) = 1 .. n
  BY <1>5, <1>10, SeqDef, LenProperties
<1>12. \A j \in 1 .. d : Whole(bytes)[j] = Enc(DigitIn(bytes, Len(bytes), j))
  BY <1>6, <1>7, <1>8
<1>13. \A j \in d + 1 .. n : Whole(bytes)[j] = 61
  BY <1>6, <1>9
<1>14. \A j \in 1 .. d : DigitIn(bytes, Len(bytes), j) \in 0 .. 63
  BY <1>7, <1>8
<1> QED
  BY <1>2, <1>3, <1>5, <1>11, <1>12, <1>13, <1>14 DEF n, d

\* Base64Encode() writes it when there is the room.
LEMMA EncodeIs ==
  ASSUME NEW bytes \in Seq(Octet), NEW size \in Nat
  PROVE  Pure!Base64Encode(bytes, size) =
           IF Pure!Digits(bytes) + Pure!Padding(bytes) > size THEN Pure!TooSmall
           ELSE Whole(bytes)
<1> DEFINE n == Len(bytes)
           d == Count(n)
           p == 3 - (n % 3)
<1>1. n \in Nat /\ DOMAIN bytes = 1 .. n
  BY LenProperties
<1>2. PICK f : EncodesBy(f, bytes, n, size)
  BY <1>1, EncodeRuns
<1>2a. /\ f[0] = [space |-> <<>>, phase |-> 0]
       /\ \A k \in 1 .. n : f[k] = Pure!EncodeByte(f[k - 1], bytes[k], size)
       /\ Pure!Base64Encode(bytes, size) =
            IF bytes = <<>> THEN <<>>
            ELSE Pure!Stored(f[n].space, [i \in 1 .. 3 - f[n].phase |-> Pure!PadChar], size)
  BY <1>2 DEF EncodesBy
<1>3. /\ Pure!Digits(bytes) = d /\ d \in Nat
      /\ Pure!Padding(bytes) = IF bytes = <<>> THEN 0 ELSE p
      /\ Whole(bytes) \in Seq(Int) /\ Len(Whole(bytes)) = d + Pure!Padding(bytes)
      /\ \A j \in 1 .. d : Whole(bytes)[j] = Enc(DigitIn(bytes, n, j))
      /\ \A j \in d + 1 .. d + Pure!Padding(bytes) : Whole(bytes)[j] = 61
  BY WholeIs
<1>4. CASE bytes = <<>>
  <2>1. Pure!Padding(bytes) = 0 /\ n = 0
    BY <1>3, <1>4
  <2>2. d = 0
    BY <2>1 DEF Count
  <2> HIDE DEF d, n
  <2>3. Len(Whole(bytes)) = 0
    BY <1>3, <2>1, <2>2
  <2>4. Whole(bytes) = <<>>
    BY <1>3, <2>3, EmptySeq
  <2>5. ~ (Pure!Digits(bytes) + Pure!Padding(bytes) > size)
    BY <1>3, <2>1, <2>2
  <2> QED
    BY <1>2a, <1>4, <2>4, <2>5
<1>5. CASE bytes # <<>>
  <2> DEFINE T == {k \in Nat : k <= n => EncodeOK(bytes, k, size, f[k])}
  <2>1. 0 \in T
    <3>1. Encoded(bytes, 0) = <<>>
      <4>1. Len(Encoded(bytes, 0)) = Count(0) /\ Encoded(bytes, 0) \in Seq(Int)
        BY <1>1, EncodedIs
      <4>2. Count(0) = 0
        BY DEF Count
      <4> QED
        BY <4>1, <4>2, EmptySeq
    <3>2. Count(0) = 0
      BY DEF Count
    <3>3. EncodeOK(bytes, 0, size, f[0])
      BY <1>2a, <3>1, <3>2 DEF EncodeOK
    <3> QED
      BY <3>3
  <2>2. ASSUME NEW k \in Nat, k \in T PROVE k + 1 \in T
    <3> SUFFICES ASSUME k + 1 <= n PROVE EncodeOK(bytes, k + 1, size, f[k + 1])
      OBVIOUS
    <3>1. k \in 0 .. n - 1 /\ k <= n /\ k + 1 \in 1 .. n /\ (k + 1) - 1 = k
      BY <1>1
    <3>2. EncodeOK(bytes, k, size, f[k])
      BY <2>2, <3>1
    <3>3. f[k + 1] = Pure!EncodeByte(f[k], bytes[k + 1], size)
      BY <1>2a, <3>1
    <3> QED
      BY <3>1, <3>2, <3>3, EncodeStep
  <2> HIDE DEF T
  <2>3. n \in T
    BY <1>1, <2>1, <2>2, NatAll
  <2>4. EncodeOK(bytes, n, size, f[n])
    BY <1>1, <2>3 DEF T
  <2>5. p \in 1 .. 3
    BY <1>1
  <2>6. Pure!Padding(bytes) = p
    BY <1>3, <1>5
  <2> HIDE DEF d, p
  <2>7. CASE d > size
    <3>1. f[n].space = Pure!TooSmall
      BY <2>4, <2>7 DEF EncodeOK, d
    <3>2. Pure!Base64Encode(bytes, size) = Pure!TooSmall
      BY <1>2a, <1>5, <3>1 DEF Pure!Stored
    <3>3. Pure!Digits(bytes) + Pure!Padding(bytes) > size
      BY <1>3, <2>5, <2>6, <2>7
    <3> QED
      BY <3>2, <3>3
  <2>8. CASE ~ (d > size)
    <3> DEFINE sp == Encoded(bytes, n)
               pad == [i \in 1 .. p |-> 61]
    <3>1. f[n].space = sp /\ f[n].phase = n % 3
      BY <2>4, <2>8 DEF EncodeOK, d
    <3>2. Pure!Base64Encode(bytes, size) = Pure!Stored(sp, pad, size)
      BY <1>2a, <1>5, <3>1 DEF p, Pure!PadChar
    <3>3. /\ sp \in Seq(Int) /\ Len(sp) = d /\ sp # Pure!TooSmall
          /\ \A j \in 1 .. d : sp[j] = Enc(DigitIn(bytes, n, j))
      BY <1>1, EncodedIs DEF d
    <3> HIDE DEF sp
    <3>4. pad \in Seq(Int) /\ Len(pad) = p /\ \A i \in 1 .. p : pad[i] = 61
      <4>1. pad \in [1 .. p -> Int] /\ p \in Nat
        BY <2>5
      <4>2. \A i \in 1 .. p : pad[i] = 61
        OBVIOUS
      <4> HIDE DEF pad
      <4> QED
        BY <4>1, <4>2, SeqDef, LenProperties
    <3> HIDE DEF pad, n
    <3>5. sp \o pad = Whole(bytes)
      <4>1. \A j \in 1 .. Len(sp) : Whole(bytes)[j] = sp[j]
        BY <1>3, <3>3
      <4>2. \A i \in 1 .. Len(pad) : Whole(bytes)[Len(sp) + i] = pad[i]
        <5>1. \A i \in 1 .. p : d + i \in d + 1 .. d + p
          BY <1>3, <2>5
        <5> QED
          BY <1>3, <2>6, <3>3, <3>4, <5>1
      <4>3. Len(Whole(bytes)) = Len(sp) + Len(pad)
        BY <1>3, <2>6, <3>3, <3>4
      <4> QED
        BY <1>3, <3>3, <3>4, <4>1, <4>2, <4>3, AppendIs
    <3>6. Pure!Stored(sp, pad, size) = IF d + p > size THEN Pure!TooSmall ELSE sp \o pad
      <4>1. size \in Int
        OBVIOUS
      <4> QED
        BY <3>3, <3>4, <4>1, StoredIs
    <3> QED
      BY <1>3, <2>6, <3>2, <3>5, <3>6
  <2> QED
    BY <2>7, <2>8
<1> QED
  BY <1>4, <1>5

\* What the decoder has stored of the first j digits.
Complete(j) == (3 * j) \div 4
DecodeOK(bytes, j, room, s) ==
  IF Complete(j) > room THEN s.space = Pure!TooSmall
  ELSE /\ s.space = SubSeq(bytes, 1, Complete(j))
       /\ s.phase = j % 4
       /\ s.prev = IF j = 0 THEN 0 ELSE DigitIn(bytes, Len(bytes), j)

\* Two digits make up each byte of a group.
LEMMA Halves ==
  \A a, b, c \in Octet :
    LET d1 == a \div 4
        d2 == (a % 4) * 16 + (b \div 16)
        d3 == (b % 16) * 4 + (c \div 64)
        d4 == c % 64
    IN  /\ ((d1 * 4) % 256) + (d2 \div 16) = a
        /\ ((d2 % 16) * 16) + (d3 \div 4) = b
        /\ ((d3 % 4) * 64) + d4 = c
<1> SUFFICES ASSUME NEW a \in Octet, NEW b \in Octet, NEW c \in Octet
             PROVE  LET d1 == a \div 4
                        d2 == (a % 4) * 16 + (b \div 16)
                        d3 == (b % 16) * 4 + (c \div 64)
                        d4 == c % 64
                    IN  /\ ((d1 * 4) % 256) + (d2 \div 16) = a
                        /\ ((d2 % 16) * 16) + (d3 \div 4) = b
                        /\ ((d3 % 4) * 64) + d4 = c
  OBVIOUS
<1> USE DEF Octet
<1>1. (((a \div 4) * 4) % 256) + (((a % 4) * 16 + (b \div 16)) \div 16) = a
  <2>1. ((a \div 4) * 4) % 256 = (a \div 4) * 4
    OBVIOUS
  <2>2. ((a % 4) * 16 + (b \div 16)) \div 16 = a % 4
    OBVIOUS
  <2>3. (a \div 4) * 4 + (a % 4) = a
    OBVIOUS
  <2> QED
    BY <2>1, <2>2, <2>3
<1>2. ((((a % 4) * 16 + (b \div 16)) % 16) * 16) + (((b % 16) * 4 + (c \div 64)) \div 4) = b
  <2>1. ((a % 4) * 16 + (b \div 16)) % 16 = b \div 16
    OBVIOUS
  <2>2. ((b % 16) * 4 + (c \div 64)) \div 4 = b % 16
    OBVIOUS
  <2>3. (b \div 16) * 16 + (b % 16) = b
    OBVIOUS
  <2> QED
    BY <2>1, <2>2, <2>3
<1>3. ((((b % 16) * 4 + (c \div 64)) % 4) * 64) + (c % 64) = c
  <2>1. ((b % 16) * 4 + (c \div 64)) % 4 = c \div 64
    OBVIOUS
  <2>2. (c \div 64) * 64 + (c % 64) = c
    OBVIOUS
  <2> QED
    BY <2>1, <2>2
<1> QED
  BY <1>1, <1>2, <1>3

LEMMA DecodedParts ==
  ASSUME NEW s, NEW d
  PROVE  /\ s.phase = 0 => Pure!DecodedByte(s, d) = <<>>
         /\ s.phase = 1 => Pure!DecodedByte(s, d) = <<((s.prev * 4) % 256) + (d \div 16)>>
         /\ s.phase = 2 => Pure!DecodedByte(s, d) = <<((s.prev % 16) * 16) + (d \div 4)>>
         /\ s.phase = 3 => Pure!DecodedByte(s, d) = <<((s.prev % 4) * 64) + d>>
<1> DEFINE first  == <<((s.prev * 4) % 256) + (d \div 16)>>
           second == <<((s.prev % 16) * 16) + (d \div 4)>>
           third  == <<((s.prev % 4) * 64) + d>>
<1>1. Pure!DecodedByte(s, d) = CASE s.phase = 0 -> <<>>
                                 [] s.phase = 1 -> first
                                 [] s.phase = 2 -> second
                                 [] s.phase = 3 -> third
  BY DEF Pure!DecodedByte
<1> HIDE DEF first, second, third
<1>2. /\ s.phase = 0 => Pure!DecodedByte(s, d) = <<>>
      /\ s.phase = 1 => Pure!DecodedByte(s, d) = first
      /\ s.phase = 2 => Pure!DecodedByte(s, d) = second
      /\ s.phase = 3 => Pure!DecodedByte(s, d) = third
  BY <1>1
<1> QED
  BY <1>2 DEF first, second, third
LEMMA OctetInt == \A x \in Octet : x \in Int /\ x # -1
BY DEF Octet

\* The byte that a digit completes.
LEMMA DecodedIs ==
  ASSUME NEW bytes \in Seq(Octet), NEW j \in 0 .. Count(Len(bytes)) - 1, NEW s,
         s.phase = j % 4,
         s.prev = IF j = 0 THEN 0 ELSE DigitIn(bytes, Len(bytes), j)
  PROVE  LET w == Complete(j)
             v == Complete(j + 1)
             cs == Pure!DecodedByte(s, DigitIn(bytes, Len(bytes), j + 1))
         IN  /\ w \in Nat /\ v \in 0 .. Len(bytes) /\ w <= v
             /\ cs = SubSeq(bytes, w + 1, v)
             /\ v = w + Len(cs) /\ cs \in Seq(Int)
<1> DEFINE n == Len(bytes)
           q == j \div 4
           w == Complete(j)
           v == Complete(j + 1)
           d == DigitIn(bytes, n, j + 1)
           a == OctetAt(bytes, n, 3 * q + 1)
           b == OctetAt(bytes, n, 3 * q + 2)
           c == OctetAt(bytes, n, 3 * q + 3)
           d1 == a \div 4
           d2 == (a % 4) * 16 + (b \div 16)
           d3 == (b % 16) * 4 + (c \div 64)
           d4 == c % 64
<1>1. n \in Nat /\ Count(n) \in Nat /\ j \in Nat /\ j + 1 <= Count(n)
  BY LenProperties DEF Count
<1> HIDE DEF n
<1>2. q \in Nat /\ \/ j = 4 * q
                   \/ j = 4 * q + 1
                   \/ j = 4 * q + 2
                   \/ j = 4 * q + 3
  BY <1>1
<1> HIDE DEF q
<1>3. a \in Octet /\ b \in Octet /\ c \in Octet
  <2>1. n \in 0 .. n /\ 3 * q + 1 \in Nat \ {0} /\ 3 * q + 2 \in Nat \ {0}
        /\ 3 * q + 3 \in Nat \ {0}
    BY <1>1, <1>2
  <2> QED
    BY <2>1, OctetGiven DEF n
<1> HIDE DEF a, b, c
<1>4. /\ DigitIn(bytes, n, 4 * q + 1) = d1 /\ DigitIn(bytes, n, 4 * q + 2) = d2
      /\ DigitIn(bytes, n, 4 * q + 3) = d3 /\ DigitIn(bytes, n, 4 * q + 4) = d4
  <2>1. /\ DigitIn(bytes, n, 4 * q + 1) = Sextet(a, b, c, 0)
        /\ DigitIn(bytes, n, 4 * q + 2) = Sextet(a, b, c, 1)
        /\ DigitIn(bytes, n, 4 * q + 3) = Sextet(a, b, c, 2)
        /\ DigitIn(bytes, n, 4 * q + 4) = Sextet(a, b, c, 3)
    BY <1>2, GroupDigits DEF a, b, c
  <2> QED
    BY <2>1, SextetParts
<1>5. /\ ((d1 * 4) % 256) + (d2 \div 16) = a
      /\ ((d2 % 16) * 16) + (d3 \div 4) = b
      /\ ((d3 % 4) * 64) + d4 = c
  BY <1>3, Halves
<1> HIDE DEF d1, d2, d3, d4
<1>6. \A i \in 1 .. n : bytes[i] \in Octet /\ OctetAt(bytes, n, i) = bytes[i]
  BY <1>1, ElementOfSeq DEF OctetAt, n
<1> SUFFICES /\ w \in Nat /\ v \in 0 .. n /\ w <= v
             /\ Pure!DecodedByte(s, d) = SubSeq(bytes, w + 1, v)
             /\ v = w + Len(Pure!DecodedByte(s, d)) /\ Pure!DecodedByte(s, d) \in Seq(Int)
  BY DEF n
<1>7. \A i \in 1 .. n : /\ SubSeq(bytes, i, i) = <<bytes[i]>>
                        /\ Len(<<bytes[i]>>) = 1 /\ <<bytes[i]>> \in Seq(Int)
  <2> TAKE i \in 1 .. n
  <2>1. bytes[i] \in Octet /\ i \in Int
    BY <1>6
  <2>2. \A x \in i .. i : bytes[x] \in Octet
    BY <2>1
  <2>3. /\ SubSeq(bytes, i, i) \in Seq(Octet) /\ Len(SubSeq(bytes, i, i)) = 1
        /\ SubSeq(bytes, i, i)[1] = bytes[i]
    <3>1. /\ SubSeq(bytes, i, i) \in Seq(Octet)
          /\ Len(SubSeq(bytes, i, i)) = IF i <= i THEN i - i + 1 ELSE 0
          /\ \A x \in 1 .. i - i + 1 : SubSeq(bytes, i, i)[x] = bytes[i + x - 1]
      BY <2>1, <2>2, SubSeqProperties
    <3>2. i <= i /\ i - i + 1 = 1 /\ 1 \in 1 .. 1 /\ i + 1 - 1 = i
      BY <2>1
    <3> QED
      BY <3>1, <3>2
  <2>4. <<bytes[i]>> \in Seq(Octet) /\ Len(<<bytes[i]>>) = 1 /\ <<bytes[i]>>[1] = bytes[i]
    BY <2>1
  <2>5. SubSeq(bytes, i, i) = <<bytes[i]>>
    <3>1. \A x \in 1 .. 1 : SubSeq(bytes, i, i)[x] = <<bytes[i]>>[x]
      BY <2>3, <2>4, SMTT(30)
    <3> QED
      BY <2>3, <2>4, <3>1, SeqEqual
  <2>6. bytes[i] \in Int
    BY <2>1, OctetInt
  <2> QED
    BY <2>4, <2>5, <2>6
<1>8. CASE j = 4 * q
  <2>1. s.phase = 0 /\ w = 3 * q /\ v = 3 * q /\ 3 * q <= n
    BY <1>1, <1>2, <1>8 DEF Complete, Count
  <2>2. Pure!DecodedByte(s, d) = <<>>
    BY <2>1, DecodedParts
  <2>3. SubSeq(bytes, 3 * q + 1, 3 * q) = <<>>
    <3>1. 3 * q + 1 \in Int /\ 3 * q \in Int /\ 3 * q < 3 * q + 1
      BY <1>2
    <3> QED
      BY <3>1, SubSeqEmpty
  <2>4. Len(<<>>) = 0 /\ <<>> \in Seq(Int) /\ 3 * q + 0 = 3 * q /\ 3 * q \in 0 .. n
        /\ 3 * q \in Nat /\ 3 * q <= 3 * q
    BY <1>1, <1>2, <2>1
  <2> HIDE DEF w, v, d
  <2> QED
    BY <2>1, <2>2, <2>3, <2>4
<1>9. CASE j = 4 * q + 1
  <2>1. /\ s.phase = 1 /\ w = 3 * q /\ v = 3 * q + 1 /\ 3 * q + 1 \in 1 .. n
        /\ j # 0 /\ j + 1 = 4 * q + 2
    BY <1>1, <1>2, <1>9 DEF Complete, Count
  <2>2. d = d2 /\ s.prev = d1
    BY <1>4, <1>9, <2>1 DEF n
  <2>3. Pure!DecodedByte(s, d) = <<((s.prev * 4) % 256) + (d \div 16)>>
    BY <2>1, DecodedParts
  <2>4. Pure!DecodedByte(s, d) = <<bytes[3 * q + 1]>>
    BY <1>5, <1>6, <2>1, <2>2, <2>3 DEF a
  <2>5. 3 * q \in Nat /\ 3 * q + 1 \in 0 .. n /\ 3 * q <= 3 * q + 1
    BY <1>2, <2>1
  <2> HIDE DEF w, v, d
  <2> QED
    BY <1>7, <2>1, <2>4, <2>5
<1>10. CASE j = 4 * q + 2
  <2>1. /\ s.phase = 2 /\ w = 3 * q + 1 /\ v = 3 * q + 2 /\ 3 * q + 2 \in 1 .. n
        /\ j # 0 /\ j + 1 = 4 * q + 3
    BY <1>1, <1>2, <1>10 DEF Complete, Count
  <2>2. d = d3 /\ s.prev = d2
    BY <1>4, <1>10, <2>1 DEF n
  <2>3. Pure!DecodedByte(s, d) = <<((s.prev % 16) * 16) + (d \div 4)>>
    BY <2>1, DecodedParts
  <2>4. Pure!DecodedByte(s, d) = <<bytes[3 * q + 2]>>
    BY <1>5, <1>6, <2>1, <2>2, <2>3 DEF b
  <2>5. 3 * q + 1 \in Nat /\ 3 * q + 2 \in 0 .. n /\ 3 * q + 1 <= 3 * q + 2
        /\ (3 * q + 1) + 1 = 3 * q + 2
    BY <1>2, <2>1
  <2> HIDE DEF w, v, d
  <2> QED
    BY <1>7, <2>1, <2>4, <2>5
<1>11. CASE j = 4 * q + 3
  <2>1. /\ s.phase = 3 /\ w = 3 * q + 2 /\ v = 3 * q + 3 /\ 3 * q + 3 \in 1 .. n
        /\ j # 0 /\ j + 1 = 4 * q + 4
    BY <1>1, <1>2, <1>11 DEF Complete, Count
  <2>2. d = d4 /\ s.prev = d3
    BY <1>4, <1>11, <2>1 DEF n
  <2>3. Pure!DecodedByte(s, d) = <<((s.prev % 4) * 64) + d>>
    BY <2>1, DecodedParts
  <2>4. Pure!DecodedByte(s, d) = <<bytes[3 * q + 3]>>
    BY <1>5, <1>6, <2>1, <2>2, <2>3 DEF c
  <2>5. 3 * q + 2 \in Nat /\ 3 * q + 3 \in 0 .. n /\ 3 * q + 2 <= 3 * q + 3
        /\ (3 * q + 2) + 1 = 3 * q + 3
    BY <1>2, <2>1
  <2> HIDE DEF w, v, d
  <2> QED
    BY <1>7, <2>1, <2>4, <2>5
<1> QED
  BY <1>2, <1>8, <1>9, <1>10, <1>11

\* Each digit brings the byte that it completes.
LEMMA DecodeStep ==
  ASSUME NEW bytes \in Seq(Octet), NEW j \in 0 .. Count(Len(bytes)) - 1, NEW room \in Int,
         NEW s, DecodeOK(bytes, j, room, s)
  PROVE  DecodeOK(bytes, j + 1, room,
                  Pure!DecodeChar(s, Enc(DigitIn(bytes, Len(bytes), j + 1)), room))
<1> DEFINE d == DigitIn(bytes, Len(bytes), j + 1)
           w == Complete(j)
           v == Complete(j + 1)
           t == Pure!DecodeChar(s, Enc(d), room)
<1>1. Len(bytes) \in Nat /\ j \in Nat /\ j + 1 \in Nat \ {0}
  BY LenProperties DEF Count
<1>2. d \in 0 .. 63
  <2>1. Len(bytes) \in 0 .. Len(bytes)
    BY <1>1
  <2> QED
    BY <1>1, <2>1, DigitIs
<1> HIDE DEF d
<1>3. Pure!DecodeEntry[Enc(d)] = d /\ d # -1
  <2>1. Pure!DecodeEntry[Enc(d)] = d
    <3>1. Enc(d) \in 43 .. 122 /\ Pure!B64_DECODE_TABLE[Enc(d)] = d
      BY <1>2, TablesAre
    <3>2. Enc(d) \in 0 .. 127
      BY <3>1
    <3> QED
      BY <3>1, <3>2 DEF Pure!DecodeEntry
  <2>2. d # -1
    BY <1>2
  <2> QED
    BY <2>1, <2>2
<1>4. w \in Nat /\ v \in Nat /\ w <= v
  BY <1>1 DEF Complete
<1>5. CASE w > room
  <2>1. s.space = Pure!TooSmall
    BY <1>5 DEF DecodeOK
  <2>2. t = s
    BY <2>1 DEF Pure!DecodeChar
  <2>3. v > room
    BY <1>4, <1>5
  <2> QED
    BY <2>1, <2>2, <2>3 DEF DecodeOK, d
<1>6. CASE ~ (w > room)
  <2>1. /\ s.space = SubSeq(bytes, 1, w) /\ s.phase = j % 4
        /\ s.prev = IF j = 0 THEN 0 ELSE DigitIn(bytes, Len(bytes), j)
    BY <1>6 DEF DecodeOK
  <2> DEFINE cs == Pure!DecodedByte(s, d)
  <2>2. /\ w \in Nat /\ v \in 0 .. Len(bytes) /\ w <= v
        /\ cs = SubSeq(bytes, w + 1, v)
        /\ v = w + Len(cs) /\ cs \in Seq(Int)
    BY <2>1, DecodedIs DEF d
  <2> HIDE DEF cs
  <2>3. /\ s.space \in Seq(Int) /\ Len(s.space) = w /\ s.space # Pure!TooSmall
    <3>1. \A x \in 1 .. w : bytes[x] \in Octet
      <4>1. \A x \in 1 .. w : x \in 1 .. Len(bytes)
        BY <1>1, <2>2
      <4> QED
        BY <4>1, ElementOfSeq
    <3>2. /\ SubSeq(bytes, 1, w) \in Seq(Octet)
          /\ Len(SubSeq(bytes, 1, w)) = IF 1 <= w THEN w - 1 + 1 ELSE 0
      <4>1. 1 \in Int /\ w \in Int
        BY <2>2
      <4> QED
        BY <3>1, <4>1, SubSeqProperties
    <3>3. Len(s.space) = w
      <4> HIDE DEF w
      <4>1. (IF 1 <= w THEN w - 1 + 1 ELSE 0) = w
        BY <2>2
      <4> QED
        BY <2>1, <3>2, <4>1
    <3>4. s.space \in Seq(Int)
      <4>1. Octet \subseteq Int
        BY OctetInt
      <4> QED
        BY <2>1, <3>2, <4>1, SeqMonotonic
    <3>5. s.space # Pure!TooSmall
      <4> SUFFICES ASSUME s.space = <<-1>> PROVE FALSE
        BY DEF Pure!TooSmall
      <4>1. s.space \in Seq(Octet) /\ Len(s.space) = 1 /\ s.space[1] = -1
        <5>1. s.space \in Seq(Octet)
          BY <2>1, <3>2
        <5>2. Len(<<-1>>) = 1 /\ <<-1>>[1] = -1
          OBVIOUS
        <5> QED
          BY <5>1, <5>2
      <4>2. s.space[1] \in Octet
        <5>1. 1 \in 1 .. Len(s.space)
          BY <4>1
        <5> QED
          BY <4>1, <5>1, ElementOfSeq
      <4> QED
        BY <4>1, <4>2, OctetInt
    <3> QED
      BY <3>3, <3>4, <3>5
  <2>4. t = [space |-> Pure!Stored(s.space, cs, room), phase |-> (s.phase + 1) % 4, prev |-> d]
    <3> DEFINE new == [space |-> Pure!Stored(s.space, cs, room),
                       phase |-> (s.phase + 1) % 4, prev |-> d]
    <3>1. t = IF s.space = Pure!TooSmall \/ Pure!DecodeEntry[Enc(d)] = -1 THEN s
              ELSE [space |-> Pure!Stored(s.space,
                                 Pure!DecodedByte(s, Pure!DecodeEntry[Enc(d)]), room),
                    phase |-> (s.phase + 1) % 4, prev |-> Pure!DecodeEntry[Enc(d)]]
      BY Zenon DEF Pure!DecodeChar
    <3> HIDE DEF t
    <3> QED
      BY <1>3, <2>3, <3>1, Zenon DEF cs
  <2>5. t.space = Pure!Stored(s.space, cs, room) /\ t.phase = (s.phase + 1) % 4 /\ t.prev = d
    <3> HIDE DEF t
    <3> QED
      BY <2>4
  <2> HIDE DEF t
  <2>6. Pure!Stored(s.space, cs, room) = IF v > room THEN Pure!TooSmall ELSE s.space \o cs
    <3>1. room \in Int /\ Len(s.space) + Len(cs) = v
      BY <2>2, <2>3
    <3> QED
      BY <2>2, <2>3, <3>1, StoredIs
  <2>7. s.space \o cs = SubSeq(bytes, 1, v)
    <3> HIDE DEF w, v
    <3>1. /\ 1 \in 1 .. Len(bytes) + 1 /\ w \in 1 - 1 .. Len(bytes) /\ v \in w .. Len(bytes)
      BY <1>1, <2>2
    <3> QED
      BY <2>1, <2>2, <3>1, ConcatAdjacentSubSeq
  <2>8. t.phase = (j + 1) % 4
    BY <1>1, <2>1, <2>5
  <2>9. j + 1 # 0
    BY <1>1
  <2> HIDE DEF w, v
  <2>10. IF v > room THEN t.space = Pure!TooSmall
         ELSE t.space = SubSeq(bytes, 1, v) /\ t.phase = (j + 1) % 4 /\ t.prev = d
    BY <2>5, <2>6, <2>7, <2>8
  <2> QED
    BY <2>9, <2>10 DEF DecodeOK, v, d, t
<1> QED
  BY <1>5, <1>6 DEF d, t

\* A text with one character put in.
LEMMA InsertIs ==
  ASSUME NEW text \in Seq(Int), NEW i \in 1 .. Len(text) + 1, NEW c \in Int
  PROVE  LET all == Pure!InsertAt(text, i, c)
         IN  /\ DOMAIN all = 1 .. Len(text) + 1
             /\ \A m \in 1 .. i - 1 : all[m] = text[m]
             /\ all[i] = c
             /\ \A m \in i .. Len(text) : all[m + 1] = text[m]
<1> DEFINE n == Len(text)
           before == SubSeq(text, 1, i - 1)
           after == SubSeq(text, i, n)
           first == before \o <<c>>
           all == first \o after
<1>1. n \in Nat /\ i \in Nat \ {0} /\ i - 1 \in 0 .. n /\ \A m \in 1 .. n : text[m] \in Int
  BY LenProperties, ElementOfSeq
<1>2. Pure!InsertAt(text, i, c) = all
  BY DEF Pure!InsertAt
<1> HIDE DEF n
<1>3. /\ before \in Seq(Int) /\ Len(before) = i - 1
      /\ \A m \in 1 .. i - 1 : before[m] = text[m]
  <2>1. \A m \in 1 .. i - 1 : text[m] \in Int
    BY <1>1
  <2>2. 1 \in Int /\ i - 1 \in Int
    BY <1>1
  <2>3. /\ before \in Seq(Int)
        /\ Len(before) = IF 1 <= i - 1 THEN (i - 1) - 1 + 1 ELSE 0
        /\ \A m \in 1 .. (i - 1) - 1 + 1 : before[m] = text[1 + m - 1]
    BY <2>1, <2>2, SubSeqProperties
  <2> HIDE DEF before
  <2>4. (i - 1) - 1 + 1 = i - 1 /\ \A m \in 1 .. i - 1 : 1 + m - 1 = m
    BY <1>1
  <2>5. Len(before) = i - 1
    BY <1>1, <2>3
  <2> QED
    BY <2>3, <2>4, <2>5
<1>4. /\ after \in Seq(Int) /\ Len(after) = n - (i - 1)
      /\ \A m \in i .. n : after[m - (i - 1)] = text[m]
  <2>1. \A m \in i .. n : text[m] \in Int
    BY <1>1
  <2>2. i \in Int /\ n \in Int
    BY <1>1
  <2>3. /\ after \in Seq(Int)
        /\ Len(after) = IF i <= n THEN n - i + 1 ELSE 0
        /\ \A m \in 1 .. n - i + 1 : after[m] = text[i + m - 1]
    BY <2>1, <2>2, SubSeqProperties
  <2> HIDE DEF after
  <2>4. \A m \in i .. n : m - (i - 1) \in 1 .. n - i + 1 /\ i + (m - (i - 1)) - 1 = m
    BY <1>1
  <2>5. Len(after) = n - (i - 1)
    BY <1>1, <2>3
  <2> QED
    BY <2>3, <2>4, <2>5
<1> HIDE DEF before, after
<1>5. /\ first \in Seq(Int) /\ Len(first) = i
      /\ \A m \in 1 .. i - 1 : first[m] = text[m]
      /\ first[i] = c
  <2> DEFINE one == <<c>>
  <2>1. one \in Seq(Int) /\ Len(one) = 1 /\ one[1] = c
    OBVIOUS
  <2> HIDE DEF one
  <2>2. /\ first \in Seq(Int) /\ Len(first) = Len(before) + Len(one)
        /\ \A m \in 1 .. Len(before) + Len(one) :
             first[m] = IF m <= Len(before) THEN before[m] ELSE one[m - Len(before)]
    BY <1>3, <2>1, ConcatProperties DEF one
  <2> HIDE DEF first
  <2>3. Len(before) + Len(one) = i
    BY <1>1, <1>3, <2>1
  <2>4. Len(first) = i /\ \A m \in 1 .. i : first[m] = IF m <= i - 1 THEN before[m]
                                                      ELSE one[m - (i - 1)]
    BY <1>3, <2>2, <2>3
  <2>5. i \in 1 .. i /\ ~ (i <= i - 1) /\ i - (i - 1) = 1
        /\ \A m \in 1 .. i - 1 : m \in 1 .. i /\ m <= i - 1
    BY <1>1
  <2> QED
    BY <1>3, <2>1, <2>2, <2>4, <2>5, ZenonT(40)
<1> HIDE DEF first
<1>6. /\ all \in Seq(Int) /\ Len(all) = n + 1
      /\ \A m \in 1 .. n + 1 : all[m] = IF m <= i THEN first[m] ELSE after[m - i]
  <2>1. /\ all \in Seq(Int) /\ Len(all) = Len(first) + Len(after)
        /\ \A m \in 1 .. Len(first) + Len(after) :
             all[m] = IF m <= Len(first) THEN first[m] ELSE after[m - Len(first)]
    BY <1>4, <1>5, ConcatProperties
  <2>2. Len(first) + Len(after) = n + 1
    BY <1>1, <1>4, <1>5
  <2> QED
    BY <1>5, <2>1, <2>2
<1> HIDE DEF all
<1>7. DOMAIN all = 1 .. n + 1
  BY <1>1, <1>6, LenProperties
<1>8. \A m \in 1 .. i - 1 : all[m] = text[m]
  <2>1. \A m \in 1 .. i - 1 : m \in 1 .. n + 1 /\ m <= i
    BY <1>1
  <2> QED
    BY <1>5, <1>6, <2>1
<1>9. all[i] = c
  <2>1. i \in 1 .. n + 1 /\ i <= i
    BY <1>1
  <2> QED
    BY <1>5, <1>6, <2>1
<1>10. \A m \in i .. n : all[m + 1] = text[m]
  <2>1. \A m \in i .. n : m + 1 \in 1 .. n + 1 /\ ~ (m + 1 <= i) /\ (m + 1) - i = m - (i - 1)
    BY <1>1
  <2> QED
    BY <1>4, <1>6, <2>1
<1> QED
  BY <1>2, <1>7, <1>8, <1>9, <1>10 DEF n

\* The bytes are back whatever is put in between and however it is padded.
LEMMA DecodeIs ==
  ASSUME NEW bytes \in Seq(Octet), NEW i \in 1 .. Len(Whole(bytes)) + 1, NEW c \in Int,
         Pure!DecodeEntry[c] = -1, NEW room \in Nat
  PROVE  Pure!Base64Decode(Pure!InsertAt(Whole(bytes), i, c), room) =
           IF Len(bytes) <= room THEN bytes ELSE Pure!TooSmall
<1> DEFINE text == Whole(bytes)
           n == Len(text)
           d == Count(Len(bytes))
           all == Pure!InsertAt(text, i, c)
           \* Of the first m characters these come from the text, and so many digits.
           Passed(m) == IF m < i THEN m ELSE m - 1
           J(m) == IF Passed(m) <= d THEN Passed(m) ELSE d
<1>1. /\ text \in Seq(Int) /\ n \in Nat /\ d \in Nat /\ d <= n
      /\ \A j \in 1 .. d : text[j] = Enc(DigitIn(bytes, Len(bytes), j))
      /\ \A j \in d + 1 .. n : text[j] = 61
  BY WholeIs
<1>2. Len(bytes) \in Nat /\ Complete(d) = Len(bytes)
  BY LenProperties DEF Complete, Count
<1>3. /\ DOMAIN all = 1 .. n + 1
      /\ \A m \in 1 .. i - 1 : all[m] = text[m]
      /\ all[i] = c
      /\ \A m \in i .. n : all[m + 1] = text[m]
  <2> HIDE DEF text
  <2> QED
    BY <1>1, InsertIs DEF text
<1>4. i \in 1 .. n + 1
  OBVIOUS
<1> HIDE DEF n, d, text, all
<1>5. PICK f : DecodesBy(f, all, n + 1, room)
  <2>1. n + 1 \in Nat /\ DOMAIN all = 1 .. n + 1
    BY <1>1, <1>3
  <2> QED
    BY <2>1, DecodeRuns
<1>6. /\ f[0] = [space |-> <<>>, phase |-> 0, prev |-> 0]
      /\ \A m \in 1 .. n + 1 : f[m] = Pure!DecodeChar(f[m - 1], all[m], room)
      /\ Pure!Base64Decode(all, room) = f[n + 1].space
  BY <1>5 DEF DecodesBy
<1> DEFINE T == {m \in Nat : m <= n + 1 => DecodeOK(bytes, J(m), room, f[m])}
<1>7. 0 \in T
  <2>1. J(0) = 0
    BY <1>1, <1>4
  <2>2. Complete(0) = 0
    BY DEF Complete
  <2>3. SubSeq(bytes, 1, 0) = <<>>
    BY SubSeqEmpty
  <2>4. DecodeOK(bytes, 0, room, f[0])
    <3>1. f[0].space = <<>> /\ f[0].phase = 0 /\ f[0].prev = 0
      BY <1>6
    <3>2. ~ (0 > room) /\ 0 % 4 = 0
      OBVIOUS
    <3> QED
      BY <2>2, <2>3, <3>1, <3>2 DEF DecodeOK
  <2> HIDE DEF J
  <2> QED
    BY <2>1, <2>4
<1>8. ASSUME NEW m \in Nat, m \in T PROVE m + 1 \in T
  <2> SUFFICES ASSUME m + 1 <= n + 1 PROVE DecodeOK(bytes, J(m + 1), room, f[m + 1])
    OBVIOUS
  <2>1. m <= n + 1 /\ m + 1 \in 1 .. n + 1 /\ (m + 1) - 1 = m
    BY <1>1
  <2>2. DecodeOK(bytes, J(m), room, f[m])
    <3> HIDE DEF J
    <3> QED
      BY <1>8, <2>1
  <2>3. f[m + 1] = Pure!DecodeChar(f[m], all[m + 1], room)
    BY <1>6, <2>1
  <2>4. ASSUME Pure!DecodeEntry[all[m + 1]] = -1 PROVE f[m + 1] = f[m]
    BY <2>3, <2>4 DEF Pure!DecodeChar
  <2>5. CASE m + 1 = i
    <3>1. all[m + 1] = c
      BY <1>3, <2>5
    <3>2. Pure!DecodeEntry[all[m + 1]] = -1
      BY <3>1
    <3>3. J(m + 1) = J(m)
      BY <1>4, <2>5
    <3> HIDE DEF J
    <3> QED
      BY <2>2, <2>4, <3>2, <3>3
  <2>6. CASE m + 1 # i
    <3> DEFINE a == Passed(m)
    <3>1. /\ a \in Nat /\ a + 1 \in 1 .. n /\ Passed(m + 1) = a + 1
          /\ all[m + 1] = text[a + 1]
      <4>1. CASE m + 1 < i
        <5>1. m + 1 \in 1 .. i - 1 /\ m < i /\ m + 1 \in 1 .. n
          BY <1>1, <1>4, <4>1
        <5>2. all[m + 1] = text[m + 1]
          BY <1>3, <5>1
        <5>3. a = m /\ Passed(m + 1) = m + 1
          BY <4>1, <5>1
        <5> HIDE DEF Passed
        <5> QED
          BY <5>1, <5>2, <5>3
      <4>2. CASE m + 1 > i
        <5>1. m \in i .. n /\ m \in 1 .. n /\ ~ (m < i) /\ ~ (m + 1 < i)
              /\ (m - 1) + 1 = m /\ (m + 1) - 1 = m /\ m - 1 \in Nat
          BY <1>1, <1>4, <4>2
        <5>2. all[m + 1] = text[m]
          BY <1>3, <5>1
        <5>3. a = m - 1 /\ Passed(m + 1) = m
          BY <5>1
        <5> HIDE DEF Passed
        <5> QED
          BY <5>1, <5>2, <5>3
      <4> QED
        BY <1>4, <2>6, <4>1, <4>2
    <3> HIDE DEF Passed
    <3>1a. /\ J(m) = IF a <= d THEN a ELSE d
           /\ J(m + 1) = IF a + 1 <= d THEN a + 1 ELSE d
      BY <3>1
    <3> HIDE DEF a, J
    <3>2. CASE a + 1 <= d
      <4>1. J(m) = a /\ J(m + 1) = a + 1
        <5>1. a <= d
          BY <1>1, <3>1, <3>2
        <5> QED
          BY <3>1a, <3>2, <5>1
      <4>2. all[m + 1] = Enc(DigitIn(bytes, Len(bytes), a + 1))
        <5>1. a + 1 \in 1 .. d
          BY <1>1, <3>1, <3>2
        <5> QED
          BY <1>1, <3>1, <5>1
      <4>3. a \in 0 .. Count(Len(bytes)) - 1
        BY <1>1, <3>1, <3>2 DEF d
      <4>4. DecodeOK(bytes, a, room, f[m])
        BY <2>2, <4>1
      <4>5. DecodeOK(bytes, a + 1, room,
              Pure!DecodeChar(f[m], Enc(DigitIn(bytes, Len(bytes), a + 1)), room))
        <5>1. room \in Int
          OBVIOUS
        <5> QED
          BY <4>3, <4>4, <5>1, DecodeStep
      <4> QED
        BY <2>3, <4>1, <4>2, <4>5
    <3>3. CASE ~ (a + 1 <= d)
      <4>1. J(m) = J(m + 1)
        <5>1. a <= d => a = d
          BY <1>1, <3>1, <3>3
        <5> QED
          BY <3>1a, <3>3, <5>1
      <4>2. all[m + 1] = 61
        <5>1. a + 1 \in d + 1 .. n
          BY <1>1, <3>1, <3>3
        <5> QED
          BY <1>1, <3>1, <5>1
      <4>3. Pure!DecodeEntry[61] = -1
        BY DEF Pure!DecodeEntry, Pure!B64_DECODE_TABLE, Pure!Upper, Pure!Lower
      <4> QED
        BY <2>2, <2>4, <4>1, <4>2, <4>3
    <3> QED
      BY <3>2, <3>3
  <2> QED
    BY <2>5, <2>6
<1> HIDE DEF T
<1>9. n + 1 \in T
  <2>1. n + 1 \in Nat
    BY <1>1
  <2> QED
    BY <1>7, <1>8, <2>1, NatAll
<1>10. J(n + 1) = d
  BY <1>1, <1>4
<1> HIDE DEF J
<1>11. DecodeOK(bytes, d, room, f[n + 1])
  <2>1. n + 1 <= n + 1
    BY <1>1
  <2> QED
    BY <1>9, <1>10, <2>1 DEF T
<1>12. f[n + 1].space = IF Len(bytes) > room THEN Pure!TooSmall
                        ELSE SubSeq(bytes, 1, Len(bytes))
  BY <1>2, <1>11 DEF DecodeOK
<1>13. SubSeq(bytes, 1, Len(bytes)) = bytes
  BY SubSeqFull
<1>14. (Len(bytes) > room) <=> ~ (Len(bytes) <= room)
  BY <1>2
<1> QED
  BY <1>6, <1>12, <1>13, <1>14 DEF all, text

\* The first argument of an encoding is a sequence of bytes.
EncodeArgument ==
  lastCall.op = "given" /\ lastCall.to = "encode" => lastCall.argument \in Seq(Octet)

\* A call that is neither of the two says nothing about them.
LEMMA NotBase64 ==
  lastCall'.op \notin {"encode", "decode"} => Pure!RoundTrip'
BY DEF Pure!RoundTrip

\* What Base64Encode() has written, Base64Decode() turns back into the same bytes,
\* for bytes of every number: with the padding, and with any character below 128
\* in between that is no digit; and each returns -1 exactly when its result does
\* not fit.
THEOREM DecodedAsEncoded ==
  ASSUME Pure!PureAssumption
  PROVE  Pure!Spec => []Pure!RoundTrip
<1> DEFINE I == Pure!RoundTrip /\ EncodeArgument
<1>1. Pure!Init => I
  BY DEF Pure!Init, Pure!NoCall, Pure!RoundTrip, EncodeArgument
<1>2. I /\ [Pure!Next]_lastCall => I'
  <2> SUFFICES ASSUME I, [Pure!Next]_lastCall PROVE I'
    OBVIOUS
  <2>1. CASE Pure!Prepare
    <3>1. \A bytes \in Pure!Texts(Byte, MaxBytes) : bytes \in Seq(Octet)
      <4> SUFFICES ASSUME NEW bytes \in Pure!Texts(Byte, MaxBytes) PROVE bytes \in Seq(Octet)
        OBVIOUS
      <4>1. bytes \in Seq(Byte) /\ Byte \subseteq Octet
        BY TextsAre DEF Pure!PureAssumption, Octet
      <4> QED
        BY <4>1, SeqMonotonic
    <3>2. PICK op, argument :
            /\ lastCall' = [op |-> "given", to |-> op, argument |-> argument]
            /\ op = "encode" => argument \in Seq(Octet)
      BY <2>1, <3>1 DEF Pure!Prepare, Pure!Given
    <3>3. EncodeArgument' /\ lastCall'.op = "given"
      BY <3>2 DEF EncodeArgument
    <3> QED
      BY <3>3, NotBase64
  <2>2. CASE Pure!Search
    <3>1. lastCall'.op = "search"
      BY <2>2 DEF Pure!Search
    <3> QED
      BY <3>1, NotBase64 DEF EncodeArgument
  <2>3. CASE Pure!Header
    <3>1. lastCall'.op = "header"
      BY <2>3 DEF Pure!Header
    <3> QED
      BY <3>1, NotBase64 DEF EncodeArgument
  <2>4. CASE Pure!Divide
    <3>1. lastCall'.op = "split"
      BY <2>4 DEF Pure!Divide
    <3> QED
      BY <3>1, NotBase64 DEF EncodeArgument
  <2>5. CASE Pure!Encode
    <3> DEFINE bytes == lastCall.argument
               n == Pure!Digits(bytes) + Pure!Padding(bytes)
    <3>1. bytes \in Seq(Octet)
      BY <2>5 DEF Pure!Encode, Pure!Has, EncodeArgument
    <3>2. PICK size \in 0 .. MaxSpace :
            LET text == Pure!Base64Encode(bytes, size)
            IN  IF text = Pure!TooSmall
                THEN lastCall' = [op |-> "encode", bytes |-> bytes, size |-> size, text |-> text]
                ELSE \E i \in 1 .. Len(text) + 1, c \in Ignored, room \in 0 .. MaxBytes :
                       lastCall' =
                         [op |-> "decode", bytes |-> bytes, size |-> size, text |-> text,
                          room |-> room,
                          result |-> Pure!Base64Decode(Pure!InsertAt(text, i, c), room)]
      BY <2>5 DEF Pure!Encode
    <3> HIDE DEF bytes
    <3> DEFINE text == Pure!Base64Encode(bytes, size)
    <3>3. size \in Nat
      OBVIOUS
    <3>4. text = IF n > size THEN Pure!TooSmall ELSE Whole(bytes)
      BY <3>1, <3>3, EncodeIs
    <3>5. Whole(bytes) # Pure!TooSmall /\ n \in Nat
      <4>1. /\ Pure!Digits(bytes) = Count(Len(bytes)) /\ n \in Nat /\ Len(Whole(bytes)) = n
            /\ Pure!Padding(bytes) = IF bytes = <<>> THEN 0 ELSE 3 - (Len(bytes) % 3)
        BY <3>1, WholeIs
      <4>2. CASE bytes = <<>>
        <5>1. Len(bytes) = 0 /\ Pure!Padding(bytes) = 0
          BY <4>1, <4>2
        <5>2. n = 0
          BY <4>1, <5>1 DEF Count
        <5>3. Len(Pure!TooSmall) = 1
          BY DEF Pure!TooSmall
        <5> HIDE DEF n
        <5> QED
          BY <4>1, <5>2, <5>3
      <4>3. CASE bytes # <<>>
        <5>1. Len(bytes) \in Nat \ {0}
          BY <3>1, <4>3, EmptySeq
        <5>2. n # 1
          BY <4>1, <4>3, <5>1 DEF Count
        <5>3. Len(Pure!TooSmall) = 1
          BY DEF Pure!TooSmall
        <5> HIDE DEF n
        <5> QED
          BY <4>1, <5>2, <5>3
      <4> QED
        BY <4>2, <4>3
    <3>6. CASE n > size
      <4>1. text = Pure!TooSmall
        BY <3>4, <3>6
      <4>2. lastCall' = [op |-> "encode", bytes |-> bytes, size |-> size, text |-> text]
        BY <3>2, <4>1
      <4> HIDE DEF text
      <4>3. /\ lastCall'.op = "encode" /\ lastCall'.bytes = bytes
            /\ lastCall'.size = size /\ lastCall'.text = Pure!TooSmall
        BY <4>1, <4>2
      <4> HIDE DEF n
      <4>4. Pure!RoundTrip'
        BY <3>6, <4>3 DEF Pure!RoundTrip, n
      <4> QED
        BY <4>3, <4>4 DEF EncodeArgument
    <3>7. CASE ~ (n > size)
      <4>1. text = Whole(bytes) /\ text # Pure!TooSmall
        BY <3>4, <3>5, <3>7
      <4>2. PICK i \in 1 .. Len(text) + 1, c \in Ignored, room \in 0 .. MaxBytes :
              lastCall' = [op |-> "decode", bytes |-> bytes, size |-> size, text |-> text,
                           room |-> room,
                           result |-> Pure!Base64Decode(Pure!InsertAt(text, i, c), room)]
        BY <3>2, <4>1
      <4>3. c \in Int /\ Pure!DecodeEntry[c] = -1 /\ room \in Nat
        <5>1. c \in Octet /\ Pure!DecodeEntry[c] = -1
          <6>1. c \in DOMAIN Pure!DecodeEntry /\ Pure!DecodeEntry[c] = -1
            BY DEF Pure!PureAssumption
          <6>2. DOMAIN Pure!DecodeEntry = 0 .. 127
            BY DEF Pure!DecodeEntry
          <6> QED
            BY <6>1, <6>2 DEF Octet
        <5>2. room \in Nat
          OBVIOUS
        <5> QED
          BY <5>1, <5>2, OctetInt
      <4> HIDE DEF text
      <4>4. i \in 1 .. Len(Whole(bytes)) + 1
        BY <4>1
      <4>5. Pure!Base64Decode(Pure!InsertAt(text, i, c), room) =
              IF Len(bytes) <= room THEN bytes ELSE Pure!TooSmall
        BY <3>1, <4>1, <4>3, <4>4, DecodeIs
      <4>6. /\ lastCall'.op = "decode" /\ lastCall'.bytes = bytes
            /\ lastCall'.size = size /\ lastCall'.text = Whole(bytes)
            /\ lastCall'.room = room
            /\ lastCall'.result = IF Len(bytes) <= room THEN bytes ELSE Pure!TooSmall
        BY <4>1, <4>2, <4>5
      <4>7. Pure!RoundTrip'
        BY <3>7, <4>6 DEF Pure!RoundTrip, Whole
      <4> QED
        BY <4>6, <4>7 DEF EncodeArgument
    <3> QED
      BY <3>6, <3>7
  <2>6. CASE Pure!Malloc
    <3>1. lastCall'.op = "malloc"
      BY <2>6 DEF Pure!Malloc
    <3> QED
      BY <3>1, NotBase64 DEF EncodeArgument
  <2>7. CASE Pure!FirstSlab
    <3>1. lastCall'.op = "slab"
      BY <2>7 DEF Pure!FirstSlab
    <3> QED
      BY <3>1, NotBase64 DEF EncodeArgument
  <2>8. CASE Pure!NextSlab
    <3>1. lastCall.op = "slab" /\ lastCall'.op = lastCall.op
      BY <2>8 DEF Pure!NextSlab
    <3> QED
      BY <3>1, NotBase64 DEF EncodeArgument
  <2>9. CASE Pure!Return
    <3>1. lastCall'.op = "none"
      BY <2>9 DEF Pure!Return, Pure!NoCall
    <3> QED
      BY <3>1, NotBase64 DEF EncodeArgument
  <2>10. CASE UNCHANGED lastCall
    BY <2>10 DEF EncodeArgument, Pure!RoundTrip
  <2> QED
    BY <2>1, <2>2, <2>3, <2>4, <2>5, <2>6, <2>7, <2>8, <2>9, <2>10 DEF Pure!Next
<1>3. I => Pure!RoundTrip
  OBVIOUS
<1> QED
  BY <1>1, <1>2, <1>3, PTL DEF Pure!Spec
=============================================================================
