--------------------------------- MODULE Log ---------------------------------
(***************************************************************************)
(* The class Log (src/log/log.cpp): the main thread appends messages to    *)
(* one list under a mutex, the log thread swaps that list with its own and *)
(* prints what it got without the mutex.  initialise() starts the thread   *)
(* before it initialises the mutex and the condition variable, finalise()  *)
(* asks the thread to end, waits for it and prints what is left.  A signal *)
(* handler (main.cpp) logs too, on top of whatever the main thread was     *)
(* doing, finalise() included.                                             *)
(*                                                                         *)
(* A message is its number.  The mutex and the condition variable of a new *)
(* Log are zero bytes, which glibc takes for initialised objects.          *)
(***************************************************************************)
EXTENDS Integers, Sequences

CONSTANTS
  MaxMessages,  \* bound: messages logged by the main thread
  MaxSignals    \* bound: signals

ASSUME LogAssumption == MaxMessages \in Nat /\ MaxSignals \in Nat

VARIABLES
  main, handler, thread,  \* where the main thread, the signal handler on top
                          \* of it ("none" when there is none), and the log
                          \* thread are
  owner,                  \* mMutex: who holds it
  waiter,                 \* mCond: whether it knows of a waiting thread
  msgs, inlist, outlist,  \* mMsgs1 and mMsgs2; which of them the pointers name
  exit,                   \* mbExit
  written, printed,       \* the messages given to printLog() and to onPrint()
  late,                   \* history: those given when the last flush had ended
  overtaken,              \* history: what of "mutex" and "cond" the new thread
                          \* was using when initialise() initialised it
  signals

vars == <<main, handler, thread, owner, waiter, msgs, inlist, outlist, exit,
          written, printed, late, overtaken, signals>>

Message == Nat

Init ==
  /\ main = "off" /\ handler = "none" /\ thread = "none"
  /\ owner = "nobody" /\ waiter = FALSE
  /\ msgs = [l \in {1, 2} |-> <<>>]
  /\ inlist = 1 /\ outlist = 2
  /\ exit = FALSE
  /\ written = <<>> /\ printed = <<>>
  /\ late = <<>> /\ overtaken = {}
  /\ signals = 0

-----------------------------------------------------------------------------
(* initialise().  Nothing keeps the new thread from running at once.       *)

CreateThread ==
  /\ main = "off"
  /\ main' = "mutex" /\ thread' = "loop"
  /\ UNCHANGED <<handler, owner, waiter, msgs, inlist, outlist, exit, written, printed,
                 late, overtaken, signals>>

\* A thread that already holds the mutex goes on as if it still did.
InitMutex ==
  /\ main = "mutex"
  /\ main' = "cond" /\ owner' = "nobody"
  /\ overtaken' = IF owner = "nobody" THEN overtaken ELSE overtaken \cup {"mutex"}
  /\ UNCHANGED <<handler, thread, waiter, msgs, inlist, outlist, exit, written, printed,
                 late, signals>>

\* A thread that already waits is forgotten.
InitCond ==
  /\ main = "cond"
  /\ main' = "ready" /\ waiter' = FALSE
  /\ overtaken' = IF waiter THEN overtaken \cup {"cond"} ELSE overtaken
  /\ UNCHANGED <<handler, thread, owner, msgs, inlist, outlist, exit, written, printed,
                 late, signals>>

-----------------------------------------------------------------------------
(* printLog(), by the main thread or by the handler that interrupts it.    *)

Callers == {"main", "handler"}

\* In finalise(), behind the wake-up: pthread_join, mOutlist = mInlist, then
\* _flushOutlist with its test, its loop and its clear(), then the destruction.
LastFlushBegun == {"flush", "walk", "clear", "destroy"}
Finalising     == {"join", "joined"} \cup LastFlushBegun

At(caller) == IF caller = "main" THEN main ELSE handler

\* The caller runs, and goes on to pc.
Goto(caller, pc) ==
  \/ caller = "main" /\ handler = "none" /\ main' = pc /\ UNCHANGED handler
  \/ caller = "handler" /\ handler' = pc /\ UNCHANGED main

StartPrint ==
  /\ main = "ready" /\ Len(written) < MaxMessages
  /\ Goto("main", "lock")
  /\ UNCHANGED <<thread, owner, waiter, msgs, inlist, outlist, exit, written, printed,
                 late, overtaken, signals>>

\* A signal while the main thread is in runLoop() or in finalise(), up to the
\* destruction of the mutex: nobody takes the handler out of its place.
Interrupt ==
  /\ main \in {"ready", "lock", "push", "unlock", "signal", "fsignal"} \cup Finalising
  /\ handler = "none" /\ signals < MaxSignals
  /\ handler' = "lock" /\ signals' = signals + 1
  /\ UNCHANGED <<main, thread, owner, waiter, msgs, inlist, outlist, exit, written, printed,
                 late, overtaken>>

Lock(caller) ==
  /\ At(caller) = "lock" /\ owner = "nobody"
  /\ owner' = caller
  /\ Goto(caller, "push")
  /\ UNCHANGED <<thread, waiter, msgs, inlist, outlist, exit, written, printed,
                 late, overtaken, signals>>

\* The lists once a message was pushed.  Two threads in them at once, when the
\* mutex was reset under the new thread, may leave it in either list or in none.
Pushed(m) ==
  {[msgs EXCEPT ![inlist] = Append(@, m)]} \cup
  (IF "mutex" \in overtaken THEN {msgs, [msgs EXCEPT ![outlist] = Append(@, m)]} ELSE {})

\* The record of what was logged, and of what was logged too late.
Record(m) ==
  /\ written' = Append(written, m)
  /\ late' = IF main \in {"clear", "destroy"} THEN Append(late, m) ELSE late

\* MUTANT of Push: the message goes to the list that the log thread prints.
PushToOutlist(caller) ==
  /\ At(caller) = "push"
  /\ msgs' = [msgs EXCEPT ![outlist] = Append(@, Len(written) + 1)]
  /\ Record(Len(written) + 1)
  /\ Goto(caller, "unlock")
  /\ UNCHANGED <<thread, owner, waiter, inlist, outlist, exit, printed, overtaken, signals>>

Push(caller) ==
  /\ At(caller) = "push"
  /\ msgs' \in Pushed(Len(written) + 1)
  /\ Record(Len(written) + 1)
  /\ Goto(caller, "unlock")
  /\ UNCHANGED <<thread, owner, waiter, inlist, outlist, exit, printed, overtaken, signals>>

Unlock(caller) ==
  /\ At(caller) = "unlock"
  /\ owner' = "nobody"
  /\ Goto(caller, "signal")
  /\ UNCHANGED <<thread, waiter, msgs, inlist, outlist, exit, written, printed,
                 late, overtaken, signals>>

\* pthread_cond_signal: wakes the thread that the condition variable knows of.
Wake ==
  /\ waiter' = FALSE
  /\ thread' = IF waiter THEN "woken" ELSE thread

\* MUTANT of Signal: the condition variable is not signalled.
SignalNobody(caller) ==
  /\ At(caller) = "signal"
  /\ Goto(caller, IF caller = "main" THEN "ready" ELSE "none")
  /\ UNCHANGED <<thread, waiter, owner, msgs, inlist, outlist, exit, written, printed,
                 late, overtaken, signals>>

Signal(caller) ==
  /\ At(caller) = "signal"
  /\ Wake
  /\ Goto(caller, IF caller = "main" THEN "ready" ELSE "none")
  /\ UNCHANGED <<owner, msgs, inlist, outlist, exit, written, printed,
                 late, overtaken, signals>>

-----------------------------------------------------------------------------
(* finalise().                                                             *)

SetExit ==
  /\ main = "ready"
  /\ exit' = TRUE
  /\ Goto("main", "fsignal")
  /\ UNCHANGED <<thread, owner, waiter, msgs, inlist, outlist, written, printed,
                 late, overtaken, signals>>

SignalExit ==
  /\ main = "fsignal"
  /\ Wake
  /\ Goto("main", "join")
  /\ UNCHANGED <<owner, msgs, inlist, outlist, exit, written, printed,
                 late, overtaken, signals>>

Joined ==
  /\ main = "join" /\ thread = "exited"
  /\ Goto("main", "joined")
  /\ UNCHANGED <<thread, owner, waiter, msgs, inlist, outlist, exit, written, printed,
                 late, overtaken, signals>>

\* mOutlist = mInlist: what the last flush prints is the list that a handler
\* still appends to.
TakeInlist ==
  /\ main = "joined"
  /\ outlist' = inlist
  /\ Goto("main", "flush")
  /\ UNCHANGED <<thread, owner, waiter, msgs, inlist, exit, written, printed,
                 late, overtaken, signals>>

-----------------------------------------------------------------------------
(* _logProc.                                                               *)

\* A step of the log thread from one place to another.
Step(from, to) ==
  /\ thread = from /\ thread' = to
  /\ UNCHANGED <<main, handler, exit, written, late, overtaken, signals>>

Loop ==
  /\ Step("loop", IF exit THEN "exited" ELSE "lock")
  /\ UNCHANGED <<owner, waiter, msgs, inlist, outlist, printed>>

\* MUTANT of Acquire: the mutex is not taken.
AcquireNothing(from) ==
  /\ from \in {"lock", "woken"}
  /\ Step(from, "test")
  /\ UNCHANGED <<owner, waiter, msgs, inlist, outlist, printed>>

\* The lock at the top of the loop, and the one pthread_cond_wait takes again.
Acquire(from) ==
  /\ from \in {"lock", "woken"} /\ owner = "nobody"
  /\ Step(from, "test")
  /\ owner' = "thread"
  /\ UNCHANGED <<waiter, msgs, inlist, outlist, printed>>

Test ==
  /\ Step("test", IF msgs[inlist] = <<>> /\ ~ exit THEN "wait" ELSE "swap")
  /\ UNCHANGED <<owner, waiter, msgs, inlist, outlist, printed>>

Wait ==
  /\ Step("wait", "asleep")
  /\ owner' = "nobody" /\ waiter' = TRUE
  /\ UNCHANGED <<msgs, inlist, outlist, printed>>

\* pthread_cond_wait may return without a signal.
WakeByItself ==
  /\ waiter /\ Step("asleep", "woken")
  /\ waiter' = FALSE
  /\ UNCHANGED <<owner, msgs, inlist, outlist, printed>>

Swap ==
  /\ Step("swap", "flush")
  /\ inlist' = outlist /\ outlist' = inlist
  /\ owner' = "nobody"
  /\ UNCHANGED <<waiter, msgs, printed>>

-----------------------------------------------------------------------------
(* _flushOutlist, by the log thread, or at the end by the main thread, whose *)
(* list is then mInlist too.  A message is dropped here once it is printed,  *)
(* while the code drops them together in clear(): nobody looks at the        *)
(* printed part in between.  What follows it when the loop has met the end   *)
(* is dropped by clear() unprinted.                                          *)

PrintHead ==
  /\ msgs[outlist] # <<>>
  /\ printed' = Append(printed, Head(msgs[outlist]))
  /\ msgs' = [msgs EXCEPT ![outlist] = Tail(@)]

PrintNext ==
  /\ Step("flush", "flush") /\ PrintHead
  /\ UNCHANGED <<owner, waiter, inlist, outlist>>

\* The loop and clear(): only the log thread has this list.
Flushed ==
  /\ msgs[outlist] = <<>> /\ Step("flush", "loop")
  /\ UNCHANGED <<owner, waiter, msgs, inlist, outlist, printed>>

\* if (!outlist->empty())
LastFlush ==
  /\ main = "flush"
  /\ Goto("main", IF msgs[outlist] = <<>> THEN "destroy" ELSE "walk")
  /\ UNCHANGED <<thread, owner, waiter, msgs, inlist, outlist, exit, written, printed,
                 late, overtaken, signals>>

LastPrintNext ==
  /\ main = "walk" /\ PrintHead
  /\ Goto("main", "walk")
  /\ UNCHANGED <<thread, owner, waiter, inlist, outlist, exit, written,
                 late, overtaken, signals>>

LastWalked ==
  /\ main = "walk" /\ msgs[outlist] = <<>>
  /\ Goto("main", "clear")
  /\ UNCHANGED <<thread, owner, waiter, msgs, inlist, outlist, exit, written, printed,
                 late, overtaken, signals>>

LastClear ==
  /\ main = "clear"
  /\ msgs' = [msgs EXCEPT ![outlist] = <<>>]
  /\ Goto("main", "destroy")
  /\ UNCHANGED <<thread, owner, waiter, inlist, outlist, exit, written, printed,
                 late, overtaken, signals>>

\* The condition variable and the mutex go: a log call behind this is undefined.
Destroy ==
  /\ main = "destroy"
  /\ Goto("main", "done")
  /\ UNCHANGED <<thread, owner, waiter, msgs, inlist, outlist, exit, written, printed,
                 late, overtaken, signals>>

-----------------------------------------------------------------------------
LogProc ==
  \/ Loop \/ Acquire("lock") \/ Acquire("woken") \/ Test \/ Wait
  \/ Swap \/ PrintNext \/ Flushed

Finish ==
  \/ Joined \/ TakeInlist
  \/ LastFlush \/ LastPrintNext \/ LastWalked \/ LastClear
  \/ Destroy

PrintLog(caller) == Lock(caller) \/ Push(caller) \/ Unlock(caller) \/ Signal(caller)

Next ==
  \/ CreateThread \/ InitMutex \/ InitCond
  \/ StartPrint \/ Interrupt
  \/ \E caller \in Callers : PrintLog(caller)
  \/ SetExit \/ SignalExit \/ Finish
  \/ LogProc \/ WakeByItself

Spec == Init /\ [][Next]_vars

\* The two threads are scheduled for ever; nobody has to log, to send a signal
\* or to end the program.
Fairness ==
  /\ WF_vars(CreateThread) /\ WF_vars(InitMutex) /\ WF_vars(InitCond)
  /\ \A caller \in Callers : WF_vars(PrintLog(caller))
  /\ WF_vars(SignalExit) /\ WF_vars(Finish)
  /\ WF_vars(LogProc)

FairSpec == Spec /\ Fairness

-----------------------------------------------------------------------------
(* Properties.                                                             *)

\* The program counters, lists and flags have their types.
TypeOK ==
  /\ main \in {"off", "mutex", "cond", "ready", "lock", "push", "unlock", "signal",
               "fsignal", "done"} \cup Finalising
  /\ handler \in {"none", "lock", "push", "unlock", "signal"}
  /\ thread \in {"none", "loop", "lock", "test", "wait", "asleep", "woken", "swap",
                 "flush", "exited"}
  /\ owner \in {"nobody", "main", "handler", "thread"}
  /\ {waiter, exit} \subseteq BOOLEAN
  /\ msgs \in [{1, 2} -> Seq(Message)]
  /\ {inlist, outlist} \subseteq {1, 2}
  /\ {written, printed, late} \subseteq Seq(Message)
  /\ overtaken \subseteq {"mutex", "cond"}
  /\ signals \in Nat

\* What was printed, what the log thread is printing and what waits for it are
\* together what was logged, in order: the swap of the lists loses, repeats
\* and overtakes nothing.  From the last flush on everything is printed in its
\* order but what a handler logs behind the end of its loop: clear(), or the end
\* of the process, drops just that.  The new thread that overtook initialise()
\* and held the mutex when it was reset is excepted.
Unprinted ==
  IF main \notin LastFlushBegun \cup {"done"} THEN msgs[outlist] \o msgs[inlist]
  ELSE IF main \in {"flush", "walk"} THEN msgs[outlist]
  ELSE late
InOrder ==
  "mutex" \notin overtaken =>
    /\ main \notin LastFlushBegun \cup {"done"} => inlist # outlist
    /\ printed \o Unprinted = written

\* The list of new messages is touched by one thread at a time, the one that
\* holds the mutex, also while the new thread overtakes initialise(); unless it
\* held the mutex when initialise() reset it.
InCritical(who) ==
  IF who = "thread" THEN thread \in {"test", "wait", "swap"}
  ELSE At(who) \in {"push", "unlock"}
Exclusive ==
  "mutex" \notin overtaken =>
    \A who \in {"main", "handler", "thread"} : InCritical(who) <=> owner = who

\* The handler waits for a mutex that the code it interrupted holds.
SelfDeadlock == handler = "lock" /\ owner = "main"

\* Every message is printed in the end, unless the handler hangs the process,
\* or it is logged when the last flush has ended, or the new thread was ahead of
\* initialise(), which then reset the mutex that it held or the condition
\* variable that it waits on: no signal wakes it any more.
EventuallyPrinted ==
  \A n \in 1 .. MaxMessages + MaxSignals :
    Len(written) >= n ~>
      \/ \E i \in 1 .. Len(printed) : printed[i] = n
      \/ \E i \in 1 .. Len(late) : late[i] = n
      \/ SelfDeadlock \/ overtaken # {}

\* finalise() ends: "uninitialise the log system".  A new thread that initialise()
\* has reset something under is excepted, for it may be asleep for ever before.
FinaliseEnds == main = "fsignal" /\ overtaken = {} ~> main = "done"
=============================================================================
