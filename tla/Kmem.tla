--------------------------------- MODULE Kmem ---------------------------------
(***************************************************************************)
(* The allocator behind operator new (src/kmem/imembase.c): one IMEMCACHE, *)
(* with the objects that each thread's array keeps ready, the slabs that   *)
(* they are cut from, and the two node pools that pages and slab           *)
(* descriptors come from.  It is the cache of the largest objects, the one *)
(* whose descriptors are off the slab; the other caches of the program     *)
(* appear as users of the pool of pages.                                   *)
(*                                                                         *)
(* list_lock and the locks of the pools are taken last and are not held    *)
(* while anything is waited for, so that a critical section under          *)
(* list_lock is one step; an array's lock is held over several.  A section *)
(* is an operator on the world w, the record of what list_lock guards.     *)
(***************************************************************************)
EXTENDS Integers, Sequences, SequencesExt, FiniteSets, TLC

CONSTANTS
  Thread,
  IMCACHE_LRU_COUNT,  \* arrays
  Num,                \* objects of a slab
  Limit,              \* objects in an array, and free ones in slabs, before
                      \* some go back
  IMROUNDSIZE,        \* nodes by which an empty pool grows
  GrowLimit,          \* nodes by which the pool of pages grows at most
  MaxHeld,            \* bound: objects that the program has
  MaxOther            \* bound: pages of the other caches

ASSUME KmemAssumption ==
  /\ {IMCACHE_LRU_COUNT, Num, IMROUNDSIZE, GrowLimit} \subseteq Nat \ {0}
  /\ Limit \in Nat /\ Limit > Num
  /\ {MaxHeld, MaxOther} \subseteq Nat

VARIABLES
  slab,      \* the slabs, by the index of their page: see SlabCreate
  partial, full, empty,  \* slabs_partial, slabs_full, slabs_free
  count,     \* count_partial, count_full, count_free and free_objects
  pages, descs,          \* imem_page_cache and imslab_cache
  array,     \* the objects in each array
  holder,    \* who holds an array's lock
  cpu,       \* the array that a thread uses, by its pthread_self()
  call,      \* the call that a thread is in, and the object it frees
  held,      \* the objects that the program has
  other      \* the pages that other caches have

lists == <<slab, partial, full, empty, count, pages, descs>>
vars  == <<lists, array, holder, cpu, call, held, other>>

Array == 0 .. IMCACHE_LRU_COUNT - 1
Batch == Limit \div 2
Slot  == 1 .. Num
Nobody == "nobody"
NoObject == <<>>
Idle  == [op |-> "none", obj |-> NoObject]

World ==
  [slab |-> slab, partial |-> partial, full |-> full, empty |-> empty, count |-> count,
   pages |-> pages, descs |-> descs]

Become(w) ==
  /\ slab' = w.slab /\ partial' = w.partial /\ full' = w.full /\ empty' = w.empty
  /\ count' = w.count /\ pages' = w.pages /\ descs' = w.descs

-----------------------------------------------------------------------------
(* IMEMNODE: a pool of numbered nodes, of which list_open are free.        *)

NewPool == [open |-> <<>>, max |-> 0]
Used(pool) == (0 .. pool.max - 1) \ ToSet(pool.open)

Growth(pool, limit) ==
  LET n == IF pool.max = 0 THEN IMROUNDSIZE ELSE pool.max
  IN  IF limit > 0 /\ n > limit THEN limit ELSE n

\* MUTANT of Grown: the new nodes are chained from the first to the last.
GrownLastFirst(pool, limit) ==
  LET n == Growth(pool, limit)
  IN  IF pool.open # <<>> THEN pool
      ELSE [open |-> [i \in 1 .. n |-> pool.max + n - i], max |-> pool.max + n]

\* imnode_grow, when there is no free node: the lowest new node is first.
Grown(pool, limit) ==
  LET n == Growth(pool, limit)
  IN  IF pool.open # <<>> THEN pool
      ELSE [open |-> [i \in 1 .. n |-> pool.max + i - 1], max |-> pool.max + n]

Taken(pool)        == [pool EXCEPT !.open = Tail(@)]
Given(pool, index) == [pool EXCEPT !.open = <<index>> \o @]

-----------------------------------------------------------------------------
(* The slabs.                                                              *)

\* A page and a descriptor; the new slab is alone in no list yet.
SlabCreate(w) ==
  LET pool == Grown(w.pages, GrowLimit)
      set  == Grown(w.descs, 0)
      new  == [desc |-> Head(set.open), bufctl |-> [k \in Slot |-> k], inuse |-> 0]
      page == Head(pool.open)
  IN  [w EXCEPT !.pages = Taken(pool), !.descs = Taken(set),
                !.slab = [p \in DOMAIN @ \cup {page} |-> IF p = page THEN new ELSE @[p]],
                !.partial = <<page>> \o @,
                !.count.free_objects = @ + Num, !.count.partial = @ + 1]

\* imslab_set_delete() asserts of the descriptor's index that it is below the
\* node_max of the other pool; DescriptorsCovered says that it always is.
SlabDelete(w, page) ==
  [w EXCEPT !.pages = Given(@, page), !.descs = Given(@, w.slab[page].desc),
            !.slab = [p \in DOMAIN @ \ {page} |-> @[p]]]

\* imemcache_drain_list(cache, 0, n): the last free slab goes, n times.
DropLast(w) ==
  [SlabDelete(w, Last(w.empty)) EXCEPT !.empty = Front(@), !.count.free = @ - 1,
                                       !.count.free_objects = @ - Num]
DrainList(w, n) ==
  LET after[k \in 0 .. n] == IF k = 0 THEN w ELSE DropLast(after[k - 1]) IN after[n]

\* A slab to take from is at the head of slabs_partial.
WithPartial(w) ==
  CASE w.partial # <<>>                  -> w
    [] w.partial = <<>> /\ w.empty # <<>> ->
         [w EXCEPT !.empty = Tail(@), !.count.free = @ - 1,
                   !.partial = <<Head(w.empty)>>, !.count.partial = @ + 1]
    [] OTHER                             -> SlabCreate(w)

ListAlloc(w) ==
  LET v    == WithPartial(w)
      page == Head(v.partial)
      ptr  == <<page, Head(v.slab[page].bufctl)>>
      u    == [v EXCEPT !.slab[page].bufctl = Tail(@), !.slab[page].inuse = @ + 1,
                        !.count.free_objects = @ - 1]
  IN  [ptr |-> ptr,
       world |-> IF u.slab[page].bufctl # <<>> THEN u
                 ELSE [u EXCEPT !.partial = Tail(@), !.full = @ \cup {page},
                                !.count.partial = @ - 1, !.count.full = @ + 1]]

\* The slab of an object that comes back leaves slabs_full, and goes to
\* slabs_free when it was the last.
Unfilled(w, page) ==
  IF w.slab[page].bufctl # <<>> THEN w
  ELSE [w EXCEPT !.full = @ \ {page}, !.partial = Append(@, page),
                 !.count.full = @ - 1, !.count.partial = @ + 1]

Unqueued(list, page) == RemoveAt(list, CHOOSE i \in DOMAIN list : list[i] = page)
Emptied(w, page) ==
  IF w.slab[page].inuse > 0 THEN w
  ELSE [w EXCEPT !.partial = Unqueued(@, page), !.empty = <<page>> \o @,
                 !.count.partial = @ - 1, !.count.free = @ + 1]

Drained(w) ==
  IF w.count.free_objects >= Limit THEN DrainList(w, w.count.free \div 2) ELSE w

\* MUTANT of ListFree: the slab is looked at before the object is back.
ListFreeLate(w, ptr) ==
  Drained(Unfilled([Emptied(w, ptr[1]) EXCEPT
    !.slab[ptr[1]].bufctl = <<ptr[2]>> \o @, !.slab[ptr[1]].inuse = @ - 1,
    !.count.free_objects = @ + 1], ptr[1]))

ListFree(w, ptr) ==
  LET page == ptr[1]
      v    == [Unfilled(w, page) EXCEPT !.slab[page].bufctl = <<ptr[2]>> \o @,
                                        !.slab[page].inuse = @ - 1,
                                        !.count.free_objects = @ + 1]
  IN  Drained(Emptied(v, page))

\* Several objects, the last one first.
FreeAll(w, ptrs) ==
  LET after[k \in 0 .. Len(ptrs)] ==
        IF k = 0 THEN w ELSE ListFree(after[k - 1], ptrs[Len(ptrs) - k + 1])
  IN  after[Len(ptrs)]

\* imemcache_fill_batch: n objects and the world without them.
Filled(w, n) ==
  LET after[k \in 0 .. n] ==
        IF k = 0 THEN [world |-> w, ptrs |-> <<>>]
        ELSE LET one == ListAlloc(after[k - 1].world)
             IN  [world |-> one.world, ptrs |-> Append(after[k - 1].ptrs, one.ptr)]
  IN  after[n]

-----------------------------------------------------------------------------
(* The calls.                                                              *)

Init ==
  /\ slab = <<>> /\ partial = <<>> /\ full = {} /\ empty = <<>>
  /\ count = [partial |-> 0, full |-> 0, free |-> 0, free_objects |-> 0]
  /\ pages = NewPool /\ descs = NewPool
  /\ array = [i \in Array |-> <<>>] /\ holder = [i \in Array |-> Nobody]
  /\ cpu \in [Thread -> Array]
  /\ call = [t \in Thread |-> Idle]
  /\ held = {} /\ other = {}

\* A call begins when it has the lock of its array.
Begin(t, op, ptr) ==
  /\ call[t] = Idle /\ holder[cpu[t]] = Nobody
  /\ call' = [call EXCEPT ![t] = [op |-> op, obj |-> ptr]]
  /\ holder' = [holder EXCEPT ![cpu[t]] = t]

Malloc(t) ==
  /\ Cardinality(held) < MaxHeld
  /\ Begin(t, "alloc", NoObject)
  /\ UNCHANGED <<lists, array, cpu, held, other>>

\* Any thread may free what another has allocated.
Free(t) ==
  /\ \E ptr \in held :
       /\ Begin(t, "free", ptr)
       /\ held' = held \ {ptr}
  /\ UNCHANGED <<lists, array, cpu, other>>

Return(t) ==
  /\ holder' = [holder EXCEPT ![cpu[t]] = Nobody]
  /\ call' = [call EXCEPT ![t] = Idle]

FillBatch(t) ==
  LET more == Filled(World, Batch)
  IN  /\ call[t].op = "alloc" /\ array[cpu[t]] = <<>>
      /\ Become(more.world)
      /\ array' = [array EXCEPT ![cpu[t]] = more.ptrs]
      /\ UNCHANGED <<holder, cpu, call, held, other>>

\* MUTANT of Take: avial is not decremented.
TakeStays(t) ==
  /\ call[t].op = "alloc" /\ array[cpu[t]] # <<>>
  /\ held' = held \cup {Last(array[cpu[t]])}
  /\ Return(t)
  /\ UNCHANGED <<lists, array, cpu, other>>

Take(t) ==
  /\ call[t].op = "alloc" /\ array[cpu[t]] # <<>>
  /\ held' = held \cup {Last(array[cpu[t]])}
  /\ array' = [array EXCEPT ![cpu[t]] = Front(@)]
  /\ Return(t)
  /\ UNCHANGED <<lists, cpu, other>>

Put(t) ==
  /\ call[t].op = "free" /\ Len(array[cpu[t]]) < Limit
  /\ array' = [array EXCEPT ![cpu[t]] = Append(@, call[t].obj)]
  /\ Return(t)
  /\ UNCHANGED <<lists, cpu, held, other>>

Flush(t) ==
  LET mine == array[cpu[t]]
      over == SubSeq(mine, Batch + 1, Len(mine))
  IN  /\ call[t].op = "free" /\ Len(mine) >= Limit
      /\ Become(FreeAll(World, <<call[t].obj>> \o over))
      /\ array' = [array EXCEPT ![cpu[t]] = SubSeq(mine, 1, Batch)]
      /\ call' = [call EXCEPT ![t] = [op |-> "drain", obj |-> NoObject]]
      /\ UNCHANGED <<holder, cpu, held, other>>

\* free_objects and count_free are read without list_lock while another thread
\* may be changing them: either answer.
Drain(t) ==
  /\ call[t].op = "drain"
  /\ \/ UNCHANGED lists
     \/ Become(DrainList(World, count.free \div 2))
  /\ Return(t)
  /\ UNCHANGED <<array, cpu, held, other>>

-----------------------------------------------------------------------------
(* The other caches take pages and give them back.                         *)

OtherNew ==
  LET pool == Grown(pages, GrowLimit)
  IN  /\ Cardinality(other) < MaxOther
      /\ pages' = Taken(pool) /\ other' = other \cup {Head(pool.open)}
      /\ UNCHANGED <<slab, partial, full, empty, count, descs, array, holder, cpu, call, held>>

OtherDel ==
  /\ \E page \in other : pages' = Given(pages, page) /\ other' = other \ {page}
  /\ UNCHANGED <<slab, partial, full, empty, count, descs, array, holder, cpu, call, held>>

Next ==
  \/ \E t \in Thread :
       \/ Malloc(t) \/ Free(t)
       \/ FillBatch(t) \/ Take(t) \/ Put(t) \/ Flush(t) \/ Drain(t)
  \/ OtherNew \/ OtherDel

Spec == Init /\ [][Next]_vars

Symmetry == Permutations(Thread)

-----------------------------------------------------------------------------
(* Properties.                                                             *)

\* The free objects of the slabs, the arrays, the program and the calls of
\* free() in progress share out the objects of the slabs: no object is given
\* out twice or lost, and no slab is deleted that has one outside.
FreeObjects(w) == {ptr \in (DOMAIN w.slab) \X Slot : ptr[2] \in ToSet(w.slab[ptr[1]].bufctl)}
InSlabs   == FreeObjects(World)
InArrays  == UNION {ToSet(array[i]) : i \in Array}
Returning == {call[t].obj : t \in Thread} \ {NoObject}
OnePlace ==
  /\ InSlabs \cup InArrays \cup held \cup Returning = (DOMAIN slab) \X Slot
  /\ InSlabs \cap (InArrays \cup held \cup Returning) = {}
  /\ held \cap (InArrays \cup Returning) = {} /\ InArrays \cap Returning = {}
  /\ \A i, j \in Array : i # j => ToSet(array[i]) \cap ToSet(array[j]) = {}
  /\ \A t, u \in Thread : call[t].obj # NoObject /\ call[t].obj = call[u].obj => t = u
  /\ \A i \in Array : IsInjective(array[i])
  /\ \A page \in DOMAIN slab : IsInjective(slab[page].bufctl)

\* Every slab is in the list that its objects call for, once, and the four
\* counters are exact: a drain never takes more slabs than there are.
CountsExact ==
  /\ ToSet(partial) = {p \in DOMAIN slab : slab[p].inuse \in 1 .. Num - 1}
  /\ full           = {p \in DOMAIN slab : slab[p].inuse = Num}
  /\ ToSet(empty)   = {p \in DOMAIN slab : slab[p].inuse = 0}
  /\ \A p \in DOMAIN slab : slab[p].inuse = Num - Len(slab[p].bufctl)
  /\ IsInjective(partial) /\ IsInjective(empty)
  /\ count.partial = Len(partial) /\ count.full = Cardinality(full)
  /\ count.free = Len(empty)
  /\ count.free_objects = Cardinality(InSlabs)

\* Pages and descriptors are in use exactly as long as a slab has them.
PagesOwned ==
  /\ Used(pages) = DOMAIN slab \cup other /\ DOMAIN slab \cap other = {}
  /\ Used(descs) = {slab[p].desc : p \in DOMAIN slab}
  /\ \A p, q \in DOMAIN slab : slab[p].desc = slab[q].desc => p = q

\* What the allocator has noted down is what there is.
BooksExact == CountsExact /\ PagesOwned

\* The index of a descriptor is below the size of the pool of pages, which the
\* assertion of imslab_set_delete() takes for the size of the descriptors' own:
\* the two pools grow by different rules and the other caches use one of them.
DescriptorsCovered == \A p \in DOMAIN slab : slab[p].desc < pages.max
=============================================================================
