# Verification of the HTTP-proxy client

The program (`src/src`) listens on a local port. For each client that connects
it opens a connection to an HTTP proxy, asks it with `CONNECT` for a tunnel to a
fixed destination, and then copies bytes both ways. It is one `select()` loop in
the main thread, with a logging library (`src/log`) that has a thread of its own
and a signal handler that ends the loop. This directory holds TLA+ models of its
parts, the TLC runs that check them on small instances, and TLAPS proofs.

Every definition that stands for code is listed in `PROJECT.json` ("map") with
the lines it models. A definition commented `MUTANT of X` is a faulty variant of
`X`, kept to show that a property notices the fault; nothing else uses it.

## 1. Inventory

| Part | State it keeps | Operations | Talks to |
|---|---|---|---|
| `Connection` (connection.cpp) | socket, status, handler, registration for reading and writing, list of packets not yet sent | acceptConnection, connect, send, shutdown, input and output notification | poller (registers, is called), its handler (onConnected, onRecv, onDisconnected, onError) |
| `Cache`, `DiskCache` (cache.h, disk_cache.cpp) | list in memory, temporary file with a read/write position, two counters | cache, clear, flushAll | its host, called for every piece |
| `ProxyTunnel` (proxy_tunnel.cpp) | two connections, a cache, the phase of the handshake, the proxy's header so far, a handler | acceptLocal, cleanup, the callbacks of both connections | `ProxyClient` (onClosed, onError) |
| `ProxyClient`, `Listener` (proxy_client.cpp, listener.cpp) | free and broken tunnels, `mbLoop` | runLoop, exitLoop, onAccept, onClosed, onError, reclaimTunnel | poller, tunnels |
| `SelectPoller`, `EventPoller` | two fd_sets, two maps of handlers, largest descriptor, count of writers | register, deregister, processPendingEvents | connections, listener |
| `Log` (log.cpp) | two lists and the pointers that name them, mutex, condition variable, `mbExit` | initialise, printLog, finalise, the log thread | printers |
| `FileLog` (file_log.cpp, names in log_impl.cpp) | open file, its day, the files of the directory | onPrint, openRecentFile | file system |
| other printers (log_impl.cpp) | an open stream | onPrint | terminal, HTML file |
| `proxy_common` | none | Base64, split, strstrICase | the header, the command line |
| `main` | none | signal handler, options | log, `ProxyClient` |
| `kmem` (imembase.c) | caches of objects: arrays, slabs, two pools of nodes, locks | malloc, free | behind `operator new` and `delete` in both threads (log.h, `_USE_KMEM`) |

What is hard, and what makes each part correct:

* **Connection.** `::send` may take any part of what it is given, `connect()` has
  three outcomes, `errno` is one variable for all sockets, one read may bring data
  and the end of the stream, and a callback may shut the connection down inside
  the call that makes it. Correct: nothing is lost, repeated or overtaken; the
  write event is registered exactly when there is something to wait for.
* **Cache.** Two stores whose pieces must keep one order; a write that is torn; a
  host that refuses, or clears the cache in the middle of `flushAll()`. Correct: a
  FIFO until the disk fails, and never an invented byte. After a write that failed
  newer bytes are in memory and older records in the file, and memory is flushed first.
* **ProxyTunnel.** Errors of one connection while the other is flushed, nested in
  every combination, a cache that the disk lets down, and reuse of the object for the
  next client. Correct: both streams are exactly what the parties wrote - when a write
  to the cache's file fails, still nothing but that and nothing twice -, a session ends
  when a party is gone, the next client finds nothing of the one before, and what `ProxyClient` sees
  of all this is a few simple steps.
* **ProxyClient, Listener, poller.** Descriptors are closed and given out again
  inside one pass while the sets that `select()` filled are still being walked.
  Correct: no event reaches the wrong connection, no descriptor leaks, no tunnel
  serves two clients, the listener and the signal are heard.
* **Log.** Two threads and a handler; the thread is created before its mutex and its
  condition variable, and asked to end without the mutex; the handler is still
  installed in the last flush. Correct: every message printed once and in order.
* **kmem.** Two threads free what the other allocated; objects move between arrays
  and slabs in batches, slabs between three lists and back to a pool of pages that
  grows by another rule than the pool of their descriptors. Correct: an object is
  in one place, the lists and counters are exact, a page or descriptor is in use as
  long as a slab has it; a request gets a cache whose objects are large enough, and
  a slab's objects stay inside its page.
* **proxy_common.** A search that restarts inside a partial match, letters compared
  without case by arithmetic on the text, base64 through a table indexed with `char`.
  Correct: the same answers as a definition that does not follow the loops.
* **FileLog.** A file is copied and then removed, the process may die anywhere, the
  calls of the file system may fail. Correct: every line is in a file of its day.

The hazards, each at its line and with the properties that cover it, are in
`PROJECT.json`.

## 2. Plan

Order of work: the byte stream of one connection, then what it is built into,
then the loop, then the log.

1. `Connection`, `ConnectionUse`, `ConnectionProofs` - done.
2. `Cache`, `CacheUse`, and the abstract `Fifo` that they implement, `CacheProofs` - done.
3. `ProxyTunnel` (composes `Connection` twice with `Cache`), `TunnelProperties`,
   `TunnelProofs` - done.
4. `Log`, `LogProofs` - done.
5. `SelectPoller`, `ProxyClient` (composes it with the tunnels), `ClientProperties`,
   `ClientProofs` - done.
6. `FileLog`, `FileLogProofs` - done.
7. `Kmem`: arrays, slabs and node pools of one cache, `KmemProofs` - done.
8. `ProxyCommon` and `KmemSizes`: the pure algorithms, checked in `PureUse` against
   definitions of their own over bounded inputs, and their laws in the second part of
   `KmemProofs` - done.
9. `Session`, what a tunnel is to the rest of the program: `ProxyTunnel` implements
   it, and so does each tunnel of `ProxyClient` - done.

Proofs still wanted: the caches that `ikmem_setup_caches()` makes (section 5 says what is
known of them for any caches).

## 3. Modules and their correspondence to the code

**Connection** is the class as operators on a record (`open`, `status`, `handler`,
`rd`, `wr`, `pending`, `ends`). `pending` is the concatenation of the kept packets
and `ends` the positions at which they end, which is all that the packet list can
be asked. A method that calls `::send` is the set of its outcomes; each says which
bytes the kernel took, what `errno` is afterwards and whether the handler's
`onError` runs. `checkSocketErrors()` reads `errno` exactly when the code does, also
when the last call did not set it. `MAXLEN` and `LIMIT_LEN` are the constants of the
code, the size of a read and the amount after which `handleInputNotification()` stops reading.

**ConnectionUse** is one connection whose owner calls it in any order and reacts to
`onError` and `onDisconnected` as `ProxyTunnel` does, and other sockets that leave
values in `errno`.

**StreamLemmas** holds what the proofs of the stream rest on: the laws of the methods
of `Connection` and of `Cache`, and what `FlattenSeq` and the records of the file do under
append, head and concatenation.

**Cache** has the list, the file (a sequence of length cells and byte cells, and a
position) and the two counters. **CacheUse** is `cache()`, `clear()` and `flushAll()`
with one action per turn of its two loops. In the list phase its host does not
call `clear()`: the code then reads a freed node, which `ProxyTunnel` models instead.
**Fifo** is what a cache promises; `ImplementsFifo` maps the list and the unread
records to its contents. Once a write to
the file has failed the refinement claims nothing until the next `clear()`.

**ProxyTunnel** is the object with everything that happens to it: an action is one
dispatch of the poller with every callback nested in it, because the program has
one thread. `net` holds the kernel and the two peers. A token stands for a header
line, an empty line or a byte; the bytes of a session are numbered, even from the
client and odd from the server. `FlushLocal` is `flushAll()` with its two loops as
turns (`FlushTurn`): each hands one piece over, with whatever that sets off, until
nothing is left, the cache was cleared, or the process is gone. `place` says where `ProxyClient` has the tunnel.
`crashed` is the outcome of `flushAll()` walking a list that its host has cleared:
the node's memory still holds the freed pointer, its second `free` is noticed by the
allocator, and the process is aborted. What the client sends before the tunnel is up goes
to the cache (`CacheLocal`), and a write to its file may fail: before anything is
written, or inside a record (`DiskFaults`). `net.badDisk` remembers that for the
session. **TunnelProperties** holds what is checked.

**SelectPoller** is the record of the poller and its four registration methods.
**ProxyClient** is the loop: `at` is the position of the main thread, `reads` and
`writes` are what is left of the two sets in the current pass, and descriptors are
given out lowest first. A callback of a tunnel has one of the effects that
`SessionEffects` allows it at that point; the abort of the item above is left out.
Descriptors 0 and 1 stand for the log file and the listener. The check
for `FD_SETSIZE` in `registerForRead()` is there, with one descriptor beyond it, and
so is the fact that its callers ignore the answer. A setter that fails in
`onAccept()` and `finalise()` after a failed setter are not reached, since none can fail.

**SessionEffects** lists what a notification may do to the sockets and the file of its
tunnel: nothing, keep a rest and watch for writing, send the last of it (in a
callback that writes too, which then stops watching), open the
file, or end the session. It is the contract between the two levels. **Session** is a
tunnel that does just that, between `onAccept()` and `reclaimTunnel()`.
`ImplementsSession` says that every step of `ProxyTunnel`, with its bytes, phases and
nested callbacks, is a step of `Session` (or the abort), so `ProxyClient`, which is
built on the same effects, leaves out nothing that a tunnel can do.
`TunnelsAreSessions` says that each tunnel remains a `Session` among the others: what
`ProxyClient` adds - descriptors, the pool, deletion, the order of a pass - never
shows. It allows more than a tunnel does in places (data may be kept or sent
whatever the phase), so the safety properties hold for the code as well.

**Log** has one action per statement that another thread can see, for the main
thread, the signal handler on top of it, and the log thread. The new thread may run
before `initialise()` is past `pthread_mutex_init` and `pthread_cond_init`, on
zero bytes that glibc takes for initialised objects: `InitMutex` and `InitCond` reset
what it holds and forget that it waits, and `overtaken` remembers which of the two happened.
`finalise()` goes step by step - join, `mOutlist = mInlist`, the test, the loop and the
`clear()` of the last flush, the destruction - and the handler, which stays installed
(`main.cpp`), may run between any two of them; `late` are the messages that it logs
when the loop of the last flush is over, which `clear()` or the end drops.

**FileLog** has one action per turn of the switch in `onPrint()`, one per block of
the copy in `_dump()`, the death of the process at any point, and
`openRecentFile()`. Files are named for their day, so a day stands for a file;
`cur` and `store` are the two kinds of file, in one directory as `main()` sets them.
A block of the copy is one message, and a file is full after `FILE_SIZE` messages. The day of a
message is arbitrary: the clock may be set back. `faults` counts the calls that
failed: `fopen`, `open`, `write`, `fprintf`, `fflush`; `unlink` is taken to work. A disk
without room makes `_deleteEarliestFile()` end the process (it gives `strstr()` a
null pointer); when `opendir` fails there the rotation goes on as if there were room.
`damaged`, `torn` and `missed` remember what the properties make exceptions for.

**Kmem** is one cache with descriptors off its slabs, as the program's largest objects
have it. `slab`, the three lists, the counters and the two pools are what
`list_lock` and the locks of the pools guard; those are taken last, so a critical
section is one step, an operator on the world of these variables. A call begins with
the lock of its array and keeps it: filling the array, taking from it, and the read of
the counters after `list_lock` is released are steps of their own. A thread's array
is fixed by `pthread_self()`, so `Init` tries every assignment. The other caches of the
program are users of the pool of pages.

**KmemSizes** is the arithmetic around it: the layout of a slab
(`imemcache_calculate`, `imemcache_slab_create`), the list of caches that
`ikmem_setup_caches` makes, where the pages of each come from, the two lookup tables,
and the choice of a cache for a request. **ProxyCommon** is `strstrICase()`, the
search for the end of the proxy's header with it, `split()` and base64 as functions
on sequences of characters or small numbers; a loop is a recursive
function. **PureUse** runs through the arguments, one per step, and compares the results
with definitions that do not follow the code. For base64 these are the digits of
the number that three bytes make, with the padding that the code writes: for a length
that is a multiple of three it appends three `=` where the standard has none. The
decoder's table is indexed with a signed `char`, so the texts that it is given have
characters below 128, and the model's table (`DecodeEntry`) ends there.

## 4. What is checked

| Run | Shows | Bounds |
|---|---|---|
| connection_use | the stream is intact, the write event and status are exact, kept packets leave, the peer's end is noticed | 5 bytes in sends of at most 3; reads of 2 bytes, 4 per notification, 5 bytes waiting: several packets, partial sends at every position, a notification that stops at its limit |
| cache_use | records aligned, counters and memory bound, nothing lost or invented, implements `Fifo` | 2 bytes of memory, 4 stored, pieces of at most 2, two clears: both stores are used, and counters drift |
| tunnel_safety | both streams, the two halves and the phase, teardown and reuse, implements `Session` | two sessions, 2 client bytes, 2 server bytes, 2 further header lines in a header with room for 3, 1 byte of memory cache, a disk that may fail: the file is used, its writes fail, the header overflows, the second session inherits |
| tunnel_liveness | sessions end, both directions complete, and behind a cache that starts with its file and whose writes fail nothing is sent twice or invented and the flush ends | one session, 2 and 1 bytes, a server that waits for the client, no memory cache: a record behind a torn one, and one before it that is skipped |
| log_use | order, mutual exclusion, every message printed | 3 messages, 1 signal: messages on both sides of a swap and inside a flush, a handler inside each step of `finalise()`, a new thread ahead of `initialise()` |
| client_use | registrations, descriptors, pool, stale events, tunnels remain `Session`s, loop and listener | 6 descriptors of which the last does not fit in an fd_set, 2 tunnels, 1 kept, 2 clients accepted per notification, backlog 2: descriptors run out, are reused in the same pass, tunnels are recycled and deleted |
| filelog_use | one current file, lines in their day, nothing lost, order | files of 2, 2 days, 5 messages, 2 failures, 2 kills: two rotations, a fault or kill inside each |
| kmem_use | one place for every object, lists and counters, pages and descriptors | 2 threads, 2 arrays, slabs of 2, arrays of 3, 1 object held when a call begins, 1 page of another cache, a pool of pages that grows by 1 and one of descriptors that doubles from 1: slabs in all three lists, flushes, drains, both pools growing apart. Symmetric in the threads |
| pure_use | string helpers, base64, layout of slabs, choice of a cache | texts up to 5 over `@ A ` a` (the characters beside and inside the letters), substrings up to 3, headers up to 6 over CR, LF, A, fields up to 6, up to 4 bytes of 4 values into 9 bytes of room, every request from 1 to 67000 bytes with pages of 2^16: past the largest cache |

`MaxTunnels` bounds only how many tunnel objects exist; `Admitted` excepts the states
that this bound makes (`OutOfTunnels`). With three tunnels client_use passes as well
(about a million states). Deadlock is not checked where the program really stops
or its bounded peers have nothing left to do: the tunnel runs (the sessions are over, or the process
crashed), the log runs (`finalise()` ended, or the handler waits for its own
thread), filelog_use (all messages logged).

Three runs show a disagreement between the code and what a comment in it says; the
findings in `PROJECT.json` quote the comments.

| Run | Shows |
|---|---|
| tunnel_errno | a short `::send` after an `errno` left by another call tears a healthy session down |
| tunnel_flush | a send that fails under `flushLocal()` clears the list that is being walked: the process aborts |
| log_exit | `finalise()` signals without the mutex: the log thread sleeps on, and `pthread_join` never returns |

A server that speaks first loses the bytes that come in one read with the end of the
proxy's header: they stay in `mHttpHeader`. tunnel_safety has such servers
(`ServerSpeaksFirst`), `Swallowed` names those bytes, and `DownstreamIntact` says that
nothing else is lost. `SessionEnds` excepts the crash.

When a write to the cache's file fails, `Cache::cache()` falls back to memory, and
`flushAll()` sends the memory first: newer bytes overtake older records, and the records
before a torn one are skipped, though the session lives. `UpstreamIntact`, and the part of
`BothWaysComplete` that says that all arrives, except sessions in which that has happened (`badDisk`).
`UpstreamOwn` is what remains of them: the whole request first, then bytes of this client only, none
twice (tunnel_liveness, and the theorem `UpstreamIsOwn`); and the flush ends with nothing left in the socket or among the packets.

`InOrder` and `Exclusive` except a new thread that held the mutex when `initialise()`
reset it; `EventuallyPrinted` and `FinaliseEnds` also one that was asleep when it reset the
condition variable: no signal finds it any more, nothing is printed, and `finalise()` waits for
it. (Without that exception TLC finds `EventuallyPrinted` violated.)
`EventuallyPrinted` excepts the handler that waits for its own thread too. What the handler logs when the loop of the last flush
is over is not printed; `InOrder` says that it is exactly that which is missing.

### Fairness

* Connection, tunnel: weak fairness of the notifications. `select()` reports a
  descriptor that stays ready in every pass and the loop serves all that it
  reports, so that one that stays due is served; the kernel makes room in a socket
  in the end; a connect in progress has an outcome. No peer has to write or close.
* `ProxyClient`: either the process ends, or there are infinitely many steps of the
  main thread. Arrivals and the signal are not counted, so they may or may not come.
* `Log`: both threads are scheduled. Spurious wake-ups and signals are not assumed.

## 5. What is proved

The theorems hold for all values of the constants that satisfy the named
assumptions in the modules.

* **ConnectionProofs**: `TypeOK`, `StreamIntact`, `WatchExact` and `PacketsNonEmpty` are inductive only together (`Inv`): that
  the write event is exact needs to know that no kept packet is empty, and the
  stream needs the status to know which calls are possible. Each operator of
  `Connection` has a law in `StreamLemmas` (what it does to stream, registration and
  packets), and an action's step cites the law of its operator. Assumptions
  `RecvAssumption`, `BoundAssumption`.
* **CacheProofs**: `RecordsAligned`, `CountersCover`, `BytesExact`, and `ImplementsFifo`.
  None is inductive. What a step needs to know is that the cells ahead of the file
  position are the records of *some* chunks (`Holds(f, ps)`), none of them
  empty, and that the counters are at least what the list and those chunks have
  (`CacheOK`); a counter may be larger, which is the drift that the code has. Each
  operation has a law that says what `ps` becomes: `InFileIs` appends one,
  `DropFileIs` takes the first, a torn write leaves none that can be read, and a
  rollback puts a refused one back. `CacheInv` adds where `flushAll()` is and that
  the bytes are exact. The refinement follows from the same laws, since `Cached` is the
  list followed by the chunks. Assumptions `CacheAssumption`, `CacheUseAssumption`.
* **TunnelProofs**: `QuietWhenIdle`, `HalvesAgree`, `UpstreamIntact`, `UpstreamOwn`, `DownstreamIntact`,
  `HeaderSound` and `ImplementsSession`. The invariant `Inv` is a disjunction of what
  a tunnel can be between two dispatches:
    * `Idle`: nothing is left of a session (`Quiet`);
    * `Running`: a session in progress, of which `Dialing`, `Asking` and `Talking` are the
      phases. Each says where the bytes are: `UpFlow` is one equation over what was
      sent, kept, cached, read and not read of the client's stream, in all phases: behind
      the request there are different bytes of this client (`Own`), and all of them in
      their order unless a write to the file has failed (`Theirs`). `StoreLaw` is
      where the two meet: a write that works appends, and one that fails puts the data
      behind the memory and may give up what is in the file (`Reordered`). The other
      stream has one in `Talking`, and is still empty, or in the header, before;
    * `Dead`: `connect()` completed at once and the first send failed before
      `setHandler()`, so that `ProxyClient` counts on a tunnel with nothing in it (section 6);
    * `Crashed`: the abort inside `flushAll()`.

  It is inductive, but a dispatch is many calls deep, so most of the proof is about
  worlds in the middle of one. `Going(w, l, p)` is `Running` with bytes `l` and `p` that
  were read and are being handled; a side may have failed and not been torn down
  yet. `Sane` is what holds even inside a teardown: types, no socket half closed,
  an aligned cache, and `Asked` (the header is within its buffer and the proxy
  was given no more than the request before it said yes). Every method and callback
  has a law: from `Going` it leads to worlds that are `Going` with those bytes handled, or
  `Over` (ended and reported, or crashed); from `Sane`, where no session can be saved,
  to `Over`. `flushAll()` is an induction on its turns with such a law as hypothesis.
  For the refinement the laws say too which socket a callback has touched
  (`TouchesProxy`, `TouchesLocal`, `TouchesFile`), and these are the effects of `SessionEffects`.
  Assumptions `TunnelAssumption`, `CacheAssumption`, `RecvAssumption`.
* **LogProofs**: `OrderInv` adds to `InOrder` that the log thread's own list is empty
  except while it is flushing, without which a swap could overtake, and (`Quiet`) who
  still runs in which part of `initialise()` and `finalise()`: in the last flush
  both pointers name one list, which only the handler still appends to. `LockInv` ties
  the holder of the mutex to the program counters, also while the new thread is ahead
  of `initialise()`: a reset of the mutex that finds no holder changes nothing
  (theorem `ListIsGuarded`). Assumption `LogAssumption`.
* **ClientProofs**, in two parts. First `PollerExact`, by `SocketsOK` (the poller is
  exact, and every connection that is registered has a descriptor in range) and the
  types of the rest. Each method of a connection has a law that it leads from a good
  world to a good world; `HappensLaw` says it of every effect of `SessionEffects`, and
  the actions follow. Then `HandlersOwn`, `NoFdLeak`, `PoolSound`, `NoStaleEvent` and
  `TunnelsAreSessions`, by an `Inv` of four parts that need each other. `Owned`: every open
  descriptor has one holder, and whom the poller calls is who holds. `PoolOK`: free,
  broken and handled tunnels exist, are different ones, and an idle one has nothing; without it
  `acceptLocal()` could be called on a tunnel that still holds a socket. `RestOK`: the types. `PassOK`: what `select()` reported is still open until the listener has
  accepted, and what was opened after that was not reported; it is the reason why an
  event is never stale, and it rests on the listener having the lowest descriptor of the set.
  Assumptions `PollerAssumption`, `ClientAssumption`.
* **FileLogProofs**: `Inv` adds to the types what each state of the switch knows
  (`StateOK`) and that the open file is the only one, under the day of `mCurDay`
  (`FilesOK`); it implies `OneCurrentFile`. `FiledByDay` is inductive relative to it. For
  `NothingLost` the copy in progress is added (`KeptOK`): what is before `pos` is in the
  stored file already. For `InOrder` it is `OrderOK`: stored file, then current file, then
  the message in hand are in the order of their numbers, where lines that are copied
  and not yet removed count once (`Sorted`, with `First` as the line from which the
  current file counts). Assumption `FileLogAssumption`, of which "among some days one is
  the latest" says that the calendar of the program is bounded.

* **KmemProofs**: `OnePlace`, `BooksExact` and `DescriptorsCovered`, for any number of
  threads and arrays and any sizes. Since a critical section is an operator on worlds, the
  invariant is mostly one of worlds: `Sound(w, o)` says that the slabs, the lists with
  their counters and the two pools of `w` agree, where `o` are the pages of the other
  caches. `Out(w)` are the objects that are not free in their slab. Each section has a
  law: it takes a sound world to a sound one, and `Out` gains the object handed out
  (`ListAllocIs`), loses the one that comes back (`ListFreeIs`), or stays
  (`DrainListIs`: what is deleted is a slab with nothing out). Batches are inductions on
  their length (`FilledIs`, `FreeAllIs`). `Inv` adds that arrays, program and calls share
  `Out(World)`, each object in one of them.
  `DescriptorsCovered` is not inductive: it says nothing of the free descriptors, and the
  next one could have an index beyond the pool of pages. `FreshFrom` is what is missing: the
  descriptors from some `m` on were never taken and are, in ascending order, the last
  ones of the free list, and `m` is at most the size of the pool of pages. A fresh
  one is taken only when all before it are in use by slabs, and then each of these has
  a page, and so has the new slab (`FreshStays`). It rests on the order in which
  `imnode_grow` chains new nodes; `GrownLastFirst` breaks it.
  Assumption `KmemAssumption`.

  The second part is about the pure functions. `RequestsFit` is the choice of a cache for
  any caches in descending order, and `SlabsFit` the layout of a slab for any size of
  objects and any page that holds one of them and two descriptors, whatever the color;
  that the program's own tables are ordered and its pages large enough is what `LargeEnough`
  and `SlabsHold` check. `TextIsExact` is `TextExact` for texts of every length: a loop is
  a recursive function of the place it has reached, and two functions that obey the
  same loop agree, by induction on the distance from the end (`LoopIs`), so it is enough
  to give the meaning of "from this place on" in closed form and to show that it obeys
  the loop. For `split()` such a function is shown to exist (`JoinsExist`), and that the
  parts from a place on are the fields from there on (`FieldsFrom`) goes by the same
  induction. `DecodedAsEncoded` is `RoundTrip` for any number of bytes: both functions
  are a fold, which is shown to exist and to go through its sequence from the beginning
  (`FoldExists`, `FoldRuns`). After `k` bytes the encoder has stored the digits of those
  bytes with zeros for the bytes that are missing in the last group, or -1 when these do
  not fit (`EncodeOK`, one lemma per byte of a group, the second and the third of which
  make up the digit that the byte before has left); after `j` digits the decoder has
  the bytes that they complete, or -1 (`DecodeOK`), and a character without a digit, such
  as the padding or the one put in, changes nothing. Assumption `PureAssumption`: the texts
  searched consist of codes, bytes are 0 to 255, and what is put in between the digits are
  characters that the decoder's table has (0 to 127) and gives no digit. `TextIsExact` and `DecodedAsEncoded` speak of the
  properties of `PureUse` through `INSTANCE`, as `Pure!TextExact` and `Pure!RoundTrip`.

The induction theorems of the library cannot be used with these provers, since they
take an operator as a parameter. Where an induction over data is needed (the length
of a list, the turns of `flushAll()`, `FlattenSeq` of any list of chunks) it is made with
sets: `NatAll` says that a set of numbers with 0 and every successor has all of
them, `SeqAll` the same of lists, both from the order of the numbers being well-founded.

Only model-checked: all liveness properties and everything with ENABLED, which the
prover does not support; and of `LargeEnough` and `SlabsHold` what they say of the program's own table of caches, which
is computed with powers of two that the provers know nothing about. `JustifiedErrors`,
`NeverCrashes` and `FinaliseEnds` are not theorems, because the code does not have them (section 4).

## 6. What is not modelled

* Of `proxy_common`: `setNonblocking()` and the clock, which only call the system, and
  the checks of addresses and ports. The tunnel uses the header search as "contains the
  token"; `ProxyCommon` has it on characters.
* The printers' list of `Log`: it is filled before the first message is logged.
* Printers other than the file, which keep no state that a later call reads, log levels, times and the text of messages.
* The log thread's descriptors: it opens files while the main thread closes
  `connfd` twice (`proxy_client.cpp:153`), and the second close may hit one of them.
* A log call behind the destruction of the mutex in `finalise()`, and a signal before
  `runLoop()`. A handler runs on the main thread; that the kernel may pick the log
  thread for it is left out.
* Of two threads in one list, when `initialise()` has reset the mutex under the new
  thread: a message ends up in either list or in none; a list that is torn itself, and the crash
  that follows, are left out.
* Characters from 128 on in base64 text, for which the decoder reads before its table.
* Two instances of the program that share one log directory.
* Half-closed sessions: the code shuts both directions down at once, and the stream
  properties hold while both sockets are open.
* A `connect()` that completes at once on a new tunnel whose first send then fails:
  `ProxyTunnel` has it (`setHandler()` comes too late, and the tunnel is reclaimed by
  nobody) and the invariant of `TunnelProofs` has a case for it (`Dead`), but no property
  rules it out.
* Of `kmem`: caches whose pages are objects of another cache, blocks too large for a
  cache, `realloc` (which the program never calls) with the address range it asks for,
  statistics, hooks, tearing down.
* That `FileLog::onPrint()` never returns while `fflush()` goes on failing: the loop is
  modelled, the failures are bounded (`MaxFaults`), and whether it ends is not asked.
* Memory that cannot be allocated; option parsing; the build files.
