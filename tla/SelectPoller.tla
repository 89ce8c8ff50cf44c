---------------------------- MODULE SelectPoller ----------------------------
(***************************************************************************)
(* The classes EventPoller and SelectPoller (src/event_poller.cpp,         *)
(* src/select_poller.cpp): which descriptors are watched, and who handles  *)
(* their events.  A method is an operator on the poller p; the result of a *)
(* registration, which Connection ignores, is left out.                    *)
(***************************************************************************)
EXTENDS Integers, FiniteSets

CONSTANTS
  FdLimit,   \* the descriptors a process may have (RLIMIT_NOFILE)
  SetSize    \* FD_SETSIZE

Fd == 0 .. FdLimit - 1

\* Descriptors are finitely many numbers: among some of them one is the largest.
ASSUME PollerAssumption ==
  /\ FdLimit \in Nat /\ SetSize \in Nat
  /\ \A S \in SUBSET Fd : S # {} => \E m \in S : \A fd \in S : fd <= m

\* A handler is a connection, <<tunnel, side>>, or the listener.
Nobody   == <<0, "nobody">>
Listener == <<0, "listener">>

\* reads, writes: mFdReadSet, mFdWriteSet; readers, writers: mFdReadHandlers,
\* mFdWriteHandlers; top: mMaxFd; count: mFdWriteCount.
NewPoller ==
  [reads   |-> {}, writes  |-> {},
   readers |-> [fd \in Fd |-> Nobody], writers |-> [fd \in Fd |-> Nobody],
   top     |-> -1, count   |-> 0]

Handled(p) == {fd \in Fd : p.readers[fd] # Nobody \/ p.writers[fd] # Nobody}

\* MUTANT of RecalcMaxFD: only the writers are looked at.
RecalcWritersOnly(p) ==
  LET fds == {fd \in Fd : p.writers[fd] # Nobody}
  IN  CHOOSE m \in fds \cup {-1} : \A fd \in fds : fd <= m

RecalcMaxFD(p) ==
  CHOOSE m \in Handled(p) \cup {-1} : \A fd \in Handled(p) : fd <= m

Larger(a, b) == IF a > b THEN a ELSE b

RegisterForRead(p, fd, handler) ==
  IF SetSize <= fd \/ fd \in p.reads THEN p
  ELSE [p EXCEPT !.reads = @ \cup {fd}, !.top = Larger(fd, @),
                 !.readers[fd] = handler]

RegisterForWrite(p, fd, handler) ==
  IF SetSize <= fd \/ fd \in p.writes THEN p
  ELSE [p EXCEPT !.writes = @ \cup {fd}, !.top = Larger(fd, @),
                 !.count = @ + 1, !.writers[fd] = handler]

\* The handler goes first, so that recalcMaxFD() no longer sees it.
WithoutTop(p, fd) == IF fd = p.top THEN [p EXCEPT !.top = RecalcMaxFD(p)] ELSE p

DeregisterForRead(p, fd) ==
  LET q == [p EXCEPT !.readers[fd] = Nobody]
  IN  IF SetSize <= fd \/ fd \notin p.reads THEN q
      ELSE WithoutTop([q EXCEPT !.reads = @ \ {fd}], fd)

\* MUTANT of DeregisterForWrite: the largest descriptor is not looked for again.
DeregisterForWriteStale(p, fd) ==
  LET q == [p EXCEPT !.writers[fd] = Nobody]
  IN  IF SetSize <= fd \/ fd \notin p.writes THEN q
      ELSE [q EXCEPT !.writes = @ \ {fd}, !.count = @ - 1]

DeregisterForWrite(p, fd) ==
  LET q == [p EXCEPT !.writers[fd] = Nobody]
  IN  IF SetSize <= fd \/ fd \notin p.writes THEN q
      ELSE WithoutTop([q EXCEPT !.writes = @ \ {fd}, !.count = @ - 1], fd)
=============================================================================
