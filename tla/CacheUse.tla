------------------------------- MODULE CacheUse -------------------------------
(***************************************************************************)
(* One Cache under every sequence of cache(), clear() and flushAll().  The *)
(* loop of flushAll() calls its host for each piece; an iteration is one   *)
(* step, and no other call starts before the loop has ended.  The host may *)
(* refuse a piece, and it may call clear() before it returns, as           *)
(* ProxyTunnel does when the proxy connection fails under onFlushLocal.    *)
(* Here it does so in the file phase only: in the list phase the loop goes *)
(* on with a freed node, which is undefined (ProxyTunnel shows that it     *)
(* happens).                                                               *)
(***************************************************************************)
EXTENDS Cache

CONSTANTS MaxStored,       \* bound: bytes cached between two clear()
          MaxPiece,        \* bound: bytes of one cache()
          MaxClears,       \* bound: calls of clear(), which let the counters drift
          DiskFaults       \* the ways in which write() may fail

ASSUME CacheUseAssumption ==
  /\ MaxStored \in Nat /\ MaxPiece \in Nat \ {0} /\ MaxClears \in Nat
  /\ DiskFaults \subseteq {"none", "torn"}

VARIABLES
  cache,      \* the object
  pc,         \* "idle", or the phase of flushAll(): "mem" or "file"
  stored,     \* how many bytes were cached since the last clear()
  delivered,  \* the bytes handed to the host since the last clear()
  clears,     \* how often clear() ran
  faulted     \* whether a write to the file failed since the last clear()

vars == <<cache, pc, stored, delivered, clears, faulted>>

\* The k-th byte cached since the last clear() is the number k.
Piece(n) == [i \in 1 .. n |-> stored + i]

Init ==
  /\ cache = NewCache
  /\ pc = "idle"
  /\ stored = 0 /\ delivered = <<>>
  /\ clears = 0
  /\ faulted = FALSE

DoCache(n, disk, cells) ==
  /\ pc = "idle"
  /\ stored + n <= MaxStored
  /\ cache' = Store(cache, Piece(n), disk, cells)
  /\ stored' = stored + n
  /\ faulted' = (faulted \/ (ToFile(cache, Piece(n)) /\ disk # "ok"))
  /\ UNCHANGED <<pc, delivered, clears>>

Clear ==
  /\ pc = "idle"
  /\ clears < MaxClears
  /\ cache' = ClearCache(cache)
  /\ clears' = clears + 1
  /\ stored' = 0 /\ delivered' = <<>> /\ faulted' = FALSE
  /\ UNCHANGED pc

FlushAll ==
  /\ pc = "idle"
  /\ pc' = "mem"
  /\ UNCHANGED <<cache, stored, delivered, clears, faulted>>

\* The host took a record and cleared the cache before it returned.
HostClears ==
  /\ pc = "file"
  /\ clears < MaxClears
  /\ LET sz == PeekSize(cache.file)
     IN  sz > 0 /\ cache' = ClearCache(DropFileHead(cache, sz))
  /\ clears' = clears + 1
  /\ stored' = 0 /\ delivered' = <<>> /\ faulted' = FALSE
  /\ UNCHANGED pc

FlushMem(taken) ==
  /\ pc = "mem" /\ cache.mem # <<>>
  /\ IF taken
     THEN /\ cache' = DropMemHead(cache)
          /\ delivered' = delivered \o Head(cache.mem)
          /\ UNCHANGED pc
     ELSE pc' = "idle" /\ UNCHANGED <<cache, delivered>>
  /\ UNCHANGED <<stored, clears, faulted>>

MemDone ==
  /\ pc = "mem" /\ cache.mem = <<>>
  /\ pc' = "file"
  /\ UNCHANGED <<cache, stored, delivered, clears, faulted>>

\* A refused record is read and then rolled back.
FlushFile(taken) ==
  /\ pc = "file"
  /\ LET sz == PeekSize(cache.file)
     IN  /\ sz > 0
         /\ IF taken
            THEN /\ cache' = DropFileHead(cache, sz)
                 /\ delivered' = delivered \o DiskRead(cache.file, sz)
                 /\ UNCHANGED pc
            ELSE /\ cache' = [cache EXCEPT !.file = DiskRollback(DiskAdvance(@, sz), sz)]
                 /\ pc' = "idle"
                 /\ UNCHANGED delivered
  /\ UNCHANGED <<stored, clears, faulted>>

FileDone ==
  /\ pc = "file" /\ PeekSize(cache.file) = 0
  /\ pc' = "idle"
  /\ UNCHANGED <<cache, stored, delivered, clears, faulted>>

Next ==
  \/ \E n \in 1 .. MaxPiece : \E disk \in {"ok"} \cup DiskFaults :
       \E cells \in 0 .. IF disk = "torn" THEN n ELSE 0 : DoCache(n, disk, cells)
  \/ Clear
  \/ FlushAll
  \/ HostClears
  \/ \E taken \in BOOLEAN : FlushMem(taken)
  \/ MemDone
  \/ \E taken \in BOOLEAN : FlushFile(taken)
  \/ FileDone

Spec == Init /\ [][Next]_vars

-----------------------------------------------------------------------------
(* Properties.                                                             *)

\* The bytes of the file that are still to be delivered, and all of them.
FileBytes == BytesOf(Ahead(cache.file))
Waiting == Cached(cache)

\* The position is always at a length cell or at the end, and a record at the
\* position is complete: assert(mDiskCache.read(ptr, sz) == sz) in flushAll
\* never fires, after any mix of writes, torn writes, reads and rollbacks.
RecordsAligned ==
  LET f == cache.file
  IN  /\ f.pos \in 0 .. Len(f.cells)
      /\ f.pos < Len(f.cells) =>
        /\ f.cells[f.pos + 1].kind = "len"
        /\ PeekSize(f) > 0
        /\ Len(DiskRead(f, PeekSize(f))) = PeekSize(f)

\* The two counters never fall below what is really cached, so the unsigned
\* subtractions of flushAll() never wrap around, although clear() leaves both
\* counters as they are; and the memory stays within its budget as long as the
\* disk works.
CountersCover ==
  /\ cache.lenMem >= Len(FlattenSeq(cache.mem))
  /\ cache.lenFile >= Len(FileBytes)
  /\ ~ faulted => Len(FlattenSeq(cache.mem)) <= MAX_LEN_CACHE_IN_MEM

\* Even when the disk fails, nothing is delivered twice and nothing that was
\* not cached is delivered; until then every cached byte is delivered or waits,
\* in the order in which it came.
BytesExact ==
  /\ ~ faulted => delivered \o Waiting = [i \in 1 .. stored |-> i]
  /\ \A i, j \in 1 .. Len(delivered \o Waiting) :
       (delivered \o Waiting)[i] = (delivered \o Waiting)[j] => i = j
  /\ \A i \in 1 .. Len(delivered \o Waiting) : (delivered \o Waiting)[i] \in 1 .. stored

\* Until a write to the file fails, the cache is a queue of bytes: the list, the
\* file, its records and its position together do what Fifo does.
Queue == INSTANCE Fifo WITH waiting <- Waiting
ImplementsFifo == Queue!Init /\ [][Queue!Next \/ faulted']_<<Waiting, delivered>>
=============================================================================
