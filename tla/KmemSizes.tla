------------------------------ MODULE KmemSizes ------------------------------
(***************************************************************************)
(* The sizes of the allocator (src/kmem/imembase.c): which caches          *)
(* ikmem_setup_caches() makes, how each lays its objects out in a page,    *)
(* where its pages come from, and which cache ikmem_core_malloc() takes    *)
(* for a request.  Kmem is what one such cache then does.                  *)
(*                                                                         *)
(* Everything follows from the size of a page.  A cache is a record and    *)
(* its pages are objects of another one, gfp, or blocks of their own       *)
(* (gfp = 0).  A cache is named by its position in ikmem_array.           *)
(***************************************************************************)
EXTENDS Integers, Sequences, SequencesExt, FiniteSetsExt

CONSTANT PageShift  \* IDEFAULT_PAGE_SHIFT

ASSUME SizesAssumption == PageShift \in 10 .. 20

NoCache == 0

Pointer     == 8    \* sizeof(void*)
IMROUNDSIZE == 8
SlabHead    == 64   \* sizeof(imemslab_t)
ArrayLimit  == 128  \* IMCACHE_ARRAYLIMIT

IMROUNDUP(s) == ((s + IMROUNDSIZE - 1) \div IMROUNDSIZE) * IMROUNDSIZE

PageSize == 2 ^ PageShift + IMROUNDUP(Pointer) * 16

-----------------------------------------------------------------------------
(* One cache.                                                              *)

UnitSize(obj) == IMROUNDUP(obj + Pointer)

\* Half of the limit by size is what an array fetches at once.
BatchCount(unit) ==
  LET limit == CASE unit >= 1024             -> 32
                 [] unit \in 256 .. 1023     -> 48
                 [] unit \in 128 .. 255      -> 64
                 [] unit \in 64 .. 127       -> 96
                 [] unit < 64                -> 128
  IN  (limit + 1) \div 2

\* imemcache_calculate: large objects that would leave no room for a
\* descriptor in the page have theirs outside.  The remainder that the objects
\* leave is what the slabs may be shifted by; it is less than a unit.
Layout(unit, page) ==
  LET mustonslab == unit > SlabHead /\ page % unit >= SlabHead + IMROUNDSIZE
      off  == unit >= page \div 8 /\ ~ mustonslab
      room == IF off THEN page ELSE page - SlabHead - IMROUNDSIZE
  IN  [off |-> off, num |-> room \div unit, color_limit |-> room % unit]

\* imemcache_create and imemcache_init_list, for objects that take unit bytes.
LaidOut(obj, gfp, unit, page, layout) ==
  LET free == BatchCount(unit) + layout.num
  IN  [obj |-> obj, unit |-> unit, page |-> page, gfp |-> gfp,
       off |-> layout.off, num |-> layout.num, color_limit |-> layout.color_limit,
       free_limit |-> free, limit |-> Min({free, ArrayLimit}),
       batchcount |-> Min({free, ArrayLimit}) \div 2]

NewCache(obj, gfp, page) ==
  LaidOut(obj, gfp, UnitSize(obj), page, Layout(UnitSize(obj), page))

-----------------------------------------------------------------------------
(* Its slabs.                                                              *)

\* Where the first object of a slab begins.
FirstObject(cache, color) == IF cache.off THEN color ELSE color + SlabHead

\* imslab_init: the objects that it chains from there to the end of the page.
SlabObjects(cache, color) ==
  LET start == FirstObject(cache, color)
      endup == cache.page - cache.unit
  IN  IF start > endup THEN 0 ELSE (endup - start) \div cache.unit + 1

\* MUTANT of NextColor: the color is not set back.
NextColorGrows(cache, color) == color + IMROUNDSIZE

\* color_next after a slab is made.
NextColor(cache, color) ==
  IF color + IMROUNDSIZE >= cache.color_limit THEN 0 ELSE color + IMROUNDSIZE

-----------------------------------------------------------------------------
(* All caches.                                                             *)

PageWaste(obj, page) ==
  LET layout == Layout(UnitSize(obj), page)
  IN  page - UnitSize(obj) * layout.num + (IF layout.off THEN SlabHead ELSE 0)

GfpWaste(caches, obj, gfp) ==
  LET waste[o \in Nat, g \in 0 .. Len(caches)] ==
        IF g = NoCache THEN PageWaste(o, PageSize)
        ELSE PageWaste(o, caches[g].obj) * caches[g].num + waste[caches[g].obj, caches[g].gfp]
  IN  waste[obj, gfp]

\* The cache whose objects make the least wasteful pages for obj, the first of
\* them, if it wastes less than a page.
ChooseGfp(caches, obj) ==
  LET fits(g)  == caches[g].obj \in 8 * UnitSize(obj) .. 64 * UnitSize(obj)
      waste(g) == GfpWaste(caches, obj, g)
      good == {g \in DOMAIN caches : fits(g) /\ waste(g) < PageSize}
      best == {g \in good : \A h \in good : waste(g) <= waste(h)}
  IN  IF good = {} THEN NoCache ELSE Min(best)

\* ikmem_insert(obj, 1): a cache that is up to a sixteenth larger will do.
Insert(caches, obj) ==
  IF \E g \in DOMAIN caches : caches[g].obj \in obj .. obj + obj \div 16
  THEN caches
  ELSE LET gfp == ChooseGfp(caches, obj)
       IN  Append(caches,
                  NewCache(obj, gfp, IF gfp = NoCache THEN PageSize ELSE caches[gfp].obj))

\* The sizes between the powers of two.
JeSizes == {24, 40, 48, 56, 80, 96, 112, 160, 192, 224, 330}
FibSizes ==
  LET more[fib1, fib2 \in Nat] ==
        IF fib2 < PageSize \div 4 THEN {fib1 + fib2} \cup more[fib2, fib1 + fib2] ELSE {}
  IN  more[168, 272]

\* sizevec after the sort; a size that is there twice is inserted once.
SizeVec ==
  LET sizes == {2 ^ s : s \in 3 .. PageShift} \cup JeSizes \cup FibSizes
      larger(size) == Cardinality({other \in sizes : other > size})
  IN  [i \in 1 .. Cardinality(sizes) |-> CHOOSE size \in sizes : larger(size) = i - 1]

\* ikmem_init makes the largest cache, ikmem_setup_caches the others.
LargestCache == NewCache(PageSize - IMROUNDUP(Pointer), NoCache, PageSize)
Caches == FoldLeft(Insert, <<LargestCache>>, SizeVec)

\* ikmem_append sorts the newest cache into ikmem_lookup, behind the larger
\* ones and never before the first.
Lookup(caches) ==
  LET place(lookup, g) ==
        LET before == {i \in DOMAIN lookup : i = 1 \/ caches[lookup[i]].obj > caches[g].obj}
        IN  InsertAt(lookup, Cardinality(before) + 1, g)
  IN  FoldLeft(place, <<>>, [g \in DOMAIN caches |-> g])

-----------------------------------------------------------------------------
(* The cache of a request, among the caches ordered by lookup.             *)

\* ikmem_choose_size: from the smallest cache up.
ChooseSize(caches, lookup, size) ==
  LET enough == {i \in DOMAIN lookup : caches[lookup[i]].obj >= size}
  IN  IF size >= PageSize \/ enough = {} THEN NoCache ELSE lookup[Max(enough)]

\* What ikmem_setup_caches() leaves behind.
Tables(caches, lookup) ==
  LET size_lookup(step) ==
        [i \in 0 .. 256 |-> IF i = 0 THEN NoCache ELSE ChooseSize(caches, lookup, i * step)]
  IN  [array |-> caches, lookup |-> lookup,
       size_lookup1 |-> size_lookup(4), size_lookup2 |-> size_lookup(1024)]
WithLookup(caches) == Tables(caches, Lookup(caches))
Ikmem == WithLookup(Caches)

RoundTo(size, n) == ((size + n - 1) \div n) * n

\* MUTANT of MallocCache: the larger sizes are rounded down.
MallocCacheShort(k, size) ==
  LET cache == IF RoundTo(size, 4) <= 1024 THEN k.size_lookup1[RoundTo(size, 4) \div 4]
               ELSE IF size < 256 * 1024 THEN k.size_lookup2[size \div 1024]
               ELSE NoCache
  IN  IF cache = NoCache THEN ChooseSize(k.array, k.lookup, size) ELSE cache

\* ikmem_core_malloc with the tables k: NoCache is a block of its own.
MallocCache(k, size) ==
  LET round == RoundTo(size, 1024)
      cache == IF RoundTo(size, 4) <= 1024 THEN k.size_lookup1[RoundTo(size, 4) \div 4]
               ELSE IF round < 256 * 1024 THEN k.size_lookup2[round \div 1024]
               ELSE NoCache
  IN  IF cache = NoCache THEN ChooseSize(k.array, k.lookup, size) ELSE cache
=============================================================================
