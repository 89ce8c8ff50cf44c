-------------------------------- MODULE Cache --------------------------------
(***************************************************************************)
(* The class template Cache (src/cache.h) and the class DiskCache          *)
(* (src/disk_cache.cpp) behind it: bytes wait in a list in memory and,     *)
(* past a budget, in records of a temporary file.                          *)
(*                                                                         *)
(* A cache is a record, a method an operator on it.  The temporary file is *)
(* a sequence of cells with a position: a record of n bytes is one length  *)
(* cell followed by n byte cells, so a position can be misaligned.         *)
(***************************************************************************)
EXTENDS Integers, SequencesExt

CONSTANT MAX_LEN_CACHE_IN_MEM

ASSUME CacheAssumption == MAX_LEN_CACHE_IN_MEM \in Nat

NoFile == [open |-> FALSE, cells |-> <<>>, pos |-> 0]

NewCache == [mem |-> <<>>, file |-> NoFile, lenMem |-> 0, lenFile |-> 0]

-----------------------------------------------------------------------------
(* DiskCache.                                                              *)

LenCell(n)  == [kind |-> "len", value |-> n]
ByteCell(b) == [kind |-> "byte", value |-> b]
Record(data) == <<LenCell(Len(data))>> \o [i \in 1 .. Len(data) |-> ByteCell(data[i])]

\* write(): the position is saved, the record appended at the end, the position
\* restored.  When fwrite fails after n whole cells the function returns with
\* the position still at the end.
DiskWrite(f, data) ==
  [open |-> TRUE, cells |-> f.cells \o Record(data), pos |-> f.pos]
DiskWriteTorn(f, data, n) ==
  LET cells == f.cells \o SubSeq(Record(data), 1, n)
  IN  [open |-> TRUE, cells |-> cells, pos |-> Len(cells)]

\* peeksize(): the number at the position, or 0 when there is nothing to read.
PeekSize(f) ==
  IF f.open /\ f.pos < Len(f.cells) THEN f.cells[f.pos + 1].value ELSE 0

\* MUTANT of DiskRollback: the length is forgotten.
DiskRollbackShort(f, sz) == [f EXCEPT !.pos = @ - sz]

\* read() of a record of sz bytes, and rollback() of that read.
DiskRead(f, sz) ==
  LET cells == SubSeq(f.cells, f.pos + 2, f.pos + 1 + sz)
  IN  [i \in 1 .. Len(cells) |-> cells[i].value]
DiskAdvance(f, sz)  == [f EXCEPT !.pos = @ + 1 + sz]
DiskRollback(f, sz) == [f EXCEPT !.pos = @ - (1 + sz)]

-----------------------------------------------------------------------------
(* Cache.                                                                  *)

\* MUTANT of ToFile: the file in use is forgotten.
ToFileOvertake(c, data) == c.lenMem + Len(data) > MAX_LEN_CACHE_IN_MEM

ToFile(c, data) ==
  c.lenMem + Len(data) > MAX_LEN_CACHE_IN_MEM \/ c.lenFile > 0

CacheInMem(c, data) ==
  [c EXCEPT !.mem = Append(@, data), !.lenMem = @ + Len(data)]
\* MUTANT of CacheInFile: the counter stays.
CacheInFileUncounted(c, data) == [c EXCEPT !.file = DiskWrite(@, data)]
CacheInFile(c, data) ==
  [c EXCEPT !.file = DiskWrite(@, data), !.lenFile = @ + Len(data)]

\* MUTANT of Store: cache() does not return once the file has the data.
StoreBoth(c, data, disk, n) ==
  IF ToFile(c, data) /\ disk = "ok" THEN CacheInMem(CacheInFile(c, data), data)
  ELSE CacheInMem(c, data)

\* cache(): the file is tried when the budget is exceeded or the file is in
\* use, and a file that cannot be written leaves the data to the memory.  The
\* disk is "ok", or fails before it writes ("none"), or fails after n cells of
\* the record ("torn").
Store(c, data, disk, n) ==
  IF ~ ToFile(c, data) THEN CacheInMem(c, data)
  ELSE CASE disk = "ok"   -> CacheInFile(c, data)
         [] disk = "none" -> CacheInMem(c, data)
         [] disk = "torn" -> CacheInMem([c EXCEPT !.file = DiskWriteTorn(@, data, n)], data)

\* clear(): the list and the file go, the two counters stay.
ClearCache(c) == [c EXCEPT !.mem = <<>>, !.file = NoFile]

\* flushAll(), once the host took the head of the list ...
DropMemHead(c) ==
  [c EXCEPT !.mem = Tail(@), !.lenMem = @ - Len(Head(c.mem))]

\* MUTANT of DropFileHead: the record is read without moving on.
DropFileHeadStays(c, sz) == [c EXCEPT !.lenFile = @ - sz]

\* ... and once read() handed the head record of the file to the host, which
\* took it.
DropFileHead(c, sz) ==
  [c EXCEPT !.file = DiskAdvance(@, sz), !.lenFile = @ - sz]

-----------------------------------------------------------------------------
(* What a cache holds: the cells of the file that are ahead of the         *)
(* position, the bytes in some cells, and the bytes of the list and of the *)
(* file, oldest first.                                                     *)

Ahead(f) == SubSeq(f.cells, f.pos + 1, Len(f.cells))

BytesIn(cells) ==
  [i \in 1 .. Len(cells) |-> IF cells[i].kind = "byte" THEN <<cells[i].value>> ELSE <<>>]
BytesOf(cells) == FlattenSeq(BytesIn(cells))

Cached(c) == FlattenSeq(c.mem) \o BytesOf(Ahead(c.file))
=============================================================================
