------------------------------ MODULE LogProofs ------------------------------
(***************************************************************************)
(* For every number of messages and signals, and however early the log     *)
(* thread starts: what Log prints is what it was given, in order, but what *)
(* came behind the last flush; and only the holder of the mutex touches    *)
(* the list of new messages.                                               *)
(***************************************************************************)
EXTENDS Log, SequenceTheorems, TLAPS

-----------------------------------------------------------------------------
(* Facts about sequences of messages.                                      *)

\* Concatenation of message sequences is associative and has a unit.
LEMMA Laws ==
  /\ \A s, t \in Seq(Message) : s \o t \in Seq(Message)
  /\ \A s, t, u \in Seq(Message) : (s \o t) \o u = s \o (t \o u)
  /\ \A s \in Seq(Message) : s \o <<>> = s /\ <<>> \o s = s
<1>1. ASSUME NEW s \in Seq(Message), NEW t \in Seq(Message)
      PROVE  s \o t \in Seq(Message)
  BY ConcatProperties
<1>2. ASSUME NEW s \in Seq(Message), NEW t \in Seq(Message), NEW u \in Seq(Message)
      PROVE  (s \o t) \o u = s \o (t \o u)
  BY ConcatAssociative
<1>3. ASSUME NEW s \in Seq(Message)
      PROVE  s \o <<>> = s /\ <<>> \o s = s
  BY ConcatEmptySeq, Zenon
<1> QED
  BY <1>1, <1>2, <1>3, Zenon

\* A message appended is a one-message sequence concatenated.
LEMMA AppendLaws ==
  ASSUME NEW s \in Seq(Message), NEW m \in Message
  PROVE  /\ Append(s, m) \in Seq(Message)
         /\ Append(s, m) = s \o <<m>>
         /\ <<m>> \in Seq(Message)
BY AppendProperties, AppendIsConcat

\* A sequence that is not empty is its head and its tail.
LEMMA HeadTailLaws ==
  ASSUME NEW s \in Seq(Message), s # <<>>
  PROVE  /\ Head(s) \in Message /\ Tail(s) \in Seq(Message)
         /\ <<Head(s)>> \in Seq(Message)
         /\ <<Head(s)>> \o Tail(s) = s
BY HeadTailProperties

\* A message logged: what it adds to the new list it adds to the whole.
LEMMA PushLaw ==
  ASSUME NEW p \in Seq(Message), NEW c \in Seq(Message), NEW m \in Message
  PROVE  p \o Append(c, m) = Append(p \o c, m)
<1>1. p \o c \in Seq(Message)
  BY Laws
<1>2. Append(c, m) = c \o <<m>> /\ <<m>> \in Seq(Message)
  BY AppendLaws
<1>3. Append(p \o c, m) = (p \o c) \o <<m>>
  BY <1>1, AppendLaws
<1>4. p \o (c \o <<m>>) = (p \o c) \o <<m>>
  BY <1>1, <1>2, Laws, ZenonT(40)
<1> QED
  BY <1>2, <1>3, <1>4

\* A message printed moves from one side to the other.
LEMMA PrintLaw ==
  ASSUME NEW a \in Seq(Message), NEW b \in Seq(Message), b # <<>>
  PROVE  Append(a, Head(b)) \o Tail(b) = a \o b
<1>1. /\ Head(b) \in Message /\ Tail(b) \in Seq(Message)
      /\ <<Head(b)>> \in Seq(Message)
      /\ <<Head(b)>> \o Tail(b) = b
  BY HeadTailLaws
<1>2. Append(a, Head(b)) = a \o <<Head(b)>>
  BY <1>1, AppendLaws
<1>3. (a \o <<Head(b)>>) \o Tail(b) = a \o (<<Head(b)>> \o Tail(b))
  BY <1>1, Laws, ZenonT(40)
<1> QED
  BY <1>1, <1>2, <1>3

-----------------------------------------------------------------------------
(* Type correctness.                                                       *)

\* The lists after a message was added to one of them, or one was replaced.
LEMMA ListsType ==
  ASSUME msgs \in [{1, 2} -> Seq(Message)], NEW l \in {1, 2}, NEW s \in Seq(Message)
  PROVE  /\ [msgs EXCEPT ![l] = s] \in [{1, 2} -> Seq(Message)]
         /\ [msgs EXCEPT ![l] = s][l] = s
         /\ \A k \in {1, 2} \ {l} : [msgs EXCEPT ![l] = s][k] = msgs[k]
OBVIOUS

\* The number of the next message is a message.
LEMMA NextMessage ==
  ASSUME written \in Seq(Message)
  PROVE  Len(written) + 1 \in Message
BY LenProperties DEF Message

\* Each step of a thread preserves the types.
LEMMA TypeInv ==
  ASSUME TypeOK, [Next]_vars
  PROVE  TypeOK'
<1> USE DEF TypeOK, Finalising, LastFlushBegun
<1>1. CASE CreateThread
  BY <1>1 DEF CreateThread
<1>2. CASE InitMutex
  BY <1>2 DEF InitMutex
<1>3. CASE InitCond
  BY <1>3 DEF InitCond
<1>4. CASE StartPrint
  BY <1>4 DEF StartPrint, Goto
<1>5. CASE Interrupt
  BY <1>5 DEF Interrupt
<1>6. ASSUME NEW caller \in Callers, Lock(caller) PROVE TypeOK'
  BY <1>6 DEF Lock, Goto, Callers
<1>7. ASSUME NEW caller \in Callers, Push(caller) PROVE TypeOK'
  <2>1. Len(written) + 1 \in Message
    BY NextMessage
  <2>2. /\ Append(written, Len(written) + 1) \in Seq(Message)
        /\ Append(late, Len(written) + 1) \in Seq(Message)
        /\ Append(msgs[inlist], Len(written) + 1) \in Seq(Message)
        /\ Append(msgs[outlist], Len(written) + 1) \in Seq(Message)
    BY <2>1, AppendLaws
  <2>3. msgs' \in [{1, 2} -> Seq(Message)]
    <3>1. /\ [msgs EXCEPT ![inlist] = Append(@, Len(written) + 1)] \in [{1, 2} -> Seq(Message)]
          /\ [msgs EXCEPT ![outlist] = Append(@, Len(written) + 1)] \in [{1, 2} -> Seq(Message)]
      BY <2>2, ListsType
    <3>2. msgs' \in Pushed(Len(written) + 1)
      BY <1>7 DEF Push
    <3> QED
      BY <3>1, <3>2 DEF Pushed
  <2>4. {written', late'} \subseteq Seq(Message)
    BY <1>7, <2>2 DEF Push, Record
  <2> QED
    BY <1>7, <2>3, <2>4 DEF Push, Goto, Callers
<1>8. ASSUME NEW caller \in Callers, Unlock(caller) PROVE TypeOK'
  BY <1>8 DEF Unlock, Goto, Callers
<1>9. ASSUME NEW caller \in Callers, Signal(caller) PROVE TypeOK'
  BY <1>9 DEF Signal, Wake, Goto, Callers
<1>10. CASE SetExit
  BY <1>10 DEF SetExit, Goto
<1>11. CASE SignalExit
  BY <1>11 DEF SignalExit, Wake, Goto
<1>12. CASE Finish
  <2>1. CASE LastPrintNext
    <3>1. Head(msgs[outlist]) \in Message /\ Tail(msgs[outlist]) \in Seq(Message)
      BY <2>1, HeadTailLaws DEF LastPrintNext, PrintHead
    <3>2. msgs' \in [{1, 2} -> Seq(Message)] /\ printed' \in Seq(Message)
      BY <2>1, <3>1, AppendLaws, ListsType DEF LastPrintNext, PrintHead
    <3> QED
      BY <2>1, <3>2 DEF LastPrintNext, Goto
  <2>2. CASE LastClear
    <3>1. msgs' \in [{1, 2} -> Seq(Message)]
      BY <2>2, EmptySeq, ListsType DEF LastClear
    <3> QED
      BY <2>2, <3>1 DEF LastClear, Goto
  <2>3. CASE Joined \/ TakeInlist \/ LastFlush \/ LastWalked \/ Destroy
    BY <2>3 DEF Joined, TakeInlist, LastFlush, LastWalked, Destroy, Goto
  <2> QED
    BY <1>12, <2>1, <2>2, <2>3 DEF Finish
<1>13. CASE Loop
  BY <1>13 DEF Loop, Step
<1>14. ASSUME NEW from \in {"lock", "woken"}, Acquire(from) PROVE TypeOK'
  BY <1>14 DEF Acquire, Step
<1>15. CASE Test
  BY <1>15 DEF Test, Step
<1>16. CASE Wait
  BY <1>16 DEF Wait, Step
<1>17. CASE Swap
  BY <1>17 DEF Swap, Step
<1>18. CASE PrintNext
  <2>1. Head(msgs[outlist]) \in Message /\ Tail(msgs[outlist]) \in Seq(Message)
    BY <1>18, HeadTailLaws DEF PrintNext, PrintHead
  <2>2. msgs' \in [{1, 2} -> Seq(Message)] /\ printed' \in Seq(Message)
    BY <1>18, <2>1, AppendLaws, ListsType DEF PrintNext, PrintHead
  <2> QED
    BY <1>18, <2>2 DEF PrintNext, Step
<1>19. CASE Flushed
  BY <1>19 DEF Flushed, Step
<1>20. CASE WakeByItself
  BY <1>20 DEF WakeByItself, Step
<1>21. CASE UNCHANGED vars
  BY <1>21 DEF vars
<1> QED
  BY <1>1, <1>2, <1>3, <1>4, <1>5, <1>6, <1>7, <1>8, <1>9, <1>10, <1>11, <1>12, <1>13,
     <1>14, <1>15, <1>16, <1>17, <1>18, <1>19, <1>20, <1>21
     DEF Next, PrintLog, LogProc

\* A new Log has the types.
LEMMA InitTypes == Init => TypeOK
<1> SUFFICES ASSUME Init PROVE TypeOK
  OBVIOUS
<1>1. <<>> \in Seq(Message)
  BY EmptySeq
<1>2. msgs \in [{1, 2} -> Seq(Message)] /\ {written, printed, late} \subseteq Seq(Message)
  BY <1>1 DEF Init
<1>3. /\ {waiter, exit} \subseteq BOOLEAN /\ {inlist, outlist} \subseteq {1, 2}
      /\ signals \in Nat /\ overtaken \subseteq {"mutex", "cond"}
  BY DEF Init
<1> QED
  BY <1>2, <1>3 DEF Init, TypeOK

\* The program counters, lists and flags keep their types.
THEOREM TypeCorrect == Spec => []TypeOK
<1>1. Init => TypeOK
  BY InitTypes
<1> QED
  BY <1>1, TypeInv, PTL DEF Spec

-----------------------------------------------------------------------------
(* The order of the messages.                                              *)

\* InOrder is not inductive by itself: Swap and TakeInlist keep the order only
\* because the log thread has emptied its list whenever it is not printing; the
\* last flush has both pointers on one list, which the ended thread no longer
\* swaps; and only a sleeping thread is woken.
Last == LastFlushBegun \cup {"done"}

OutlistEmpty ==
  "mutex" \notin overtaken /\ main \notin Last /\ thread # "flush" => msgs[outlist] = <<>>

Quiet ==
  /\ waiter => thread = "asleep"
  /\ main = "off"  => thread = "none" /\ handler = "none"
  /\ main \in Last \cup {"joined"} => thread = "exited"
  /\ main \in LastFlushBegun => inlist = outlist
  /\ main = "done" => handler = "none"
  /\ main \notin {"clear", "destroy", "done"} => late = <<>>

OrderInv == TypeOK /\ Quiet /\ InOrder /\ OutlistEmpty

\* Before initialise() and after finalise() nothing runs, and the last flush has
\* the lists for itself and the handler.
LEMMA QuietNext ==
  ASSUME TypeOK, Quiet, [Next]_vars
  PROVE  Quiet'
<1> USE DEF Quiet, TypeOK, Last, LastFlushBegun, Finalising
<1>1. CASE CreateThread \/ InitMutex \/ InitCond \/ StartPrint \/ Interrupt
  BY <1>1 DEF CreateThread, InitMutex, InitCond, StartPrint, Interrupt, Goto
<1>2. ASSUME NEW caller \in Callers, PrintLog(caller) PROVE Quiet'
  BY <1>2 DEF PrintLog, Lock, Push, Record, Unlock, Signal, Wake, Goto, At, Callers
<1>3. CASE SetExit \/ SignalExit
  BY <1>3 DEF SetExit, SignalExit, Wake, Goto
<1>4. CASE Finish
  BY <1>4 DEF Finish, Joined, TakeInlist, LastFlush, LastPrintNext, LastWalked, LastClear,
              Destroy, Goto
<1>5. CASE LogProc \/ WakeByItself
  BY <1>5 DEF LogProc, WakeByItself, Loop, Acquire, Test, Wait, Swap, PrintNext, PrintHead,
              Flushed, Step
<1>6. CASE UNCHANGED vars
  BY <1>6 DEF vars
<1> QED
  BY <1>1, <1>2, <1>3, <1>4, <1>5, <1>6 DEF Next

\* Steps that touch no list, pointer or record of messages and neither begin nor
\* end a flush.
LEMMA OrderUntouched ==
  ASSUME OrderInv, TypeOK', Quiet',
         UNCHANGED <<msgs, inlist, outlist, written, printed, late>>,
         overtaken \subseteq overtaken',
         main' \in Last <=> main \in Last,
         main' \in {"flush", "walk"} <=> main \in {"flush", "walk"},
         thread' = "flush" <=> thread = "flush"
  PROVE  OrderInv'
BY DEF OrderInv, InOrder, OutlistEmpty, Unprinted, Last

\* The loop of a flush, in the one thread or the other, prints a message.
LEMMA OrderPrint ==
  ASSUME OrderInv, TypeOK', Quiet', PrintHead,
         UNCHANGED <<main, thread, inlist, outlist, written, late, overtaken>>,
         (thread = "flush" /\ main \notin Last) \/ main = "walk"
  PROVE  OrderInv'
<1> DEFINE out == msgs[outlist]
           in  == msgs[inlist]
<1>1. /\ out \in Seq(Message) /\ in \in Seq(Message) /\ printed \in Seq(Message)
      /\ inlist \in {1, 2} /\ outlist \in {1, 2} /\ out # <<>>
      /\ msgs \in [{1, 2} -> Seq(Message)]
  BY DEF OrderInv, TypeOK, PrintHead
<1>2. Head(out) \in Message /\ Tail(out) \in Seq(Message)
  BY <1>1, HeadTailLaws
<1>3. msgs'[outlist] = Tail(out) /\ (inlist # outlist => msgs'[inlist] = in)
  BY <1>1, <1>2, ListsType DEF PrintHead
<1>4. Append(printed, Head(out)) \o Tail(out) = printed \o out
  <2> HIDE DEF out
  <2> QED
    BY <1>1, PrintLaw, Zenon
<1>5. printed' = Append(printed, Head(out)) /\ printed' \in Seq(Message)
  BY <1>1, <1>2, AppendLaws DEF PrintHead
<1>6. ASSUME "mutex" \notin overtaken PROVE printed' \o Unprinted' = written'
  <2>1. CASE main = "walk"
    BY <1>3, <1>4, <1>5, <1>6, <2>1 DEF OrderInv, InOrder, Unprinted, LastFlushBegun
  <2>2. CASE main \notin Last
    <3>1. /\ Unprinted = out \o in /\ inlist # outlist
          /\ printed \o (out \o in) = written
      BY <1>6, <2>2 DEF OrderInv, InOrder, Unprinted, Last
    <3>2. Unprinted' = Tail(out) \o in
      BY <1>3, <2>2, <3>1 DEF Unprinted, Last
    <3>3. printed' \o (Tail(out) \o in) = (printed' \o Tail(out)) \o in
      <4> DEFINE p == printed'
                 t == Tail(out)
      <4>1. p \in Seq(Message) /\ t \in Seq(Message) /\ in \in Seq(Message)
        BY <1>1, <1>2, <1>5
      <4>2. p \o (t \o in) = (p \o t) \o in
        <5> HIDE DEF p, t, in
        <5> QED
          BY <4>1, Laws, ZenonT(40)
      <4> QED
        BY <4>2
    <3>4. (printed \o out) \o in = printed \o (out \o in)
      <4> HIDE DEF out, in
      <4> QED
        BY <1>1, Laws, ZenonT(40)
    <3> QED
      BY <1>4, <1>5, <3>1, <3>2, <3>3, <3>4
  <2> QED
    BY <2>1, <2>2
<1>7. main' \notin Last => thread' = "flush"
  BY DEF Last, LastFlushBegun
<1> QED
  BY <1>6, <1>7 DEF OrderInv, InOrder, OutlistEmpty, Last

\* A message is logged: before the last flush has ended its loop it goes to the
\* list of new messages, and later it counts as late.
LEMMA OrderPush ==
  ASSUME OrderInv, TypeOK', Quiet', NEW caller \in Callers, Push(caller)
  PROVE  OrderInv'
<1> DEFINE out == msgs[outlist]
           in  == msgs[inlist]
           n   == Len(written) + 1
<1>1. /\ out \in Seq(Message) /\ in \in Seq(Message) /\ late \in Seq(Message)
      /\ printed \in Seq(Message) /\ written \in Seq(Message)
      /\ inlist \in {1, 2} /\ outlist \in {1, 2}
      /\ msgs \in [{1, 2} -> Seq(Message)]
  BY DEF OrderInv, TypeOK
<1>2. n \in Message /\ Append(in, n) \in Seq(Message)
  BY <1>1, NextMessage, AppendLaws
<1>3. /\ UNCHANGED <<thread, inlist, outlist, printed, overtaken>>
      /\ written' = Append(written, n)
      /\ late' = IF main \in {"clear", "destroy"} THEN Append(late, n) ELSE late
  BY DEF Push, Record
<1>4. /\ main # "done"
      /\ main' \in Last <=> main \in Last
      /\ main' \in {"flush", "walk"} <=> main \in {"flush", "walk"}
  BY DEF Push, Goto, At, Callers, OrderInv, Quiet, Last, LastFlushBegun
<1>5. CASE "mutex" \in overtaken
  BY <1>3, <1>5 DEF OrderInv, InOrder, OutlistEmpty
<1>6. CASE "mutex" \notin overtaken
  <2>1. /\ msgs'[inlist] = Append(in, n)
        /\ inlist # outlist => msgs'[outlist] = out
    BY <1>1, <1>2, <1>6, ListsType DEF Push, Pushed
  <2>2. printed \o Unprinted = written
    BY <1>6 DEF OrderInv, InOrder
  <2>3. Unprinted \in Seq(Message) /\ Unprinted' = Append(Unprinted, n)
    <3>1. CASE main \notin Last
      <4>1. inlist # outlist /\ Unprinted = out \o in
        BY <1>6, <3>1 DEF OrderInv, InOrder, Unprinted, Last
      <4>2. Unprinted' = out \o Append(in, n)
        BY <1>3, <1>4, <2>1, <3>1, <4>1 DEF Unprinted, Last
      <4>3. out \o Append(in, n) = Append(out \o in, n)
        <5> HIDE DEF out, in, n
        <5> QED
          BY <1>1, <1>2, PushLaw
      <4>4. out \o in \in Seq(Message)
        BY <1>1, Laws, Zenon
      <4> QED
        BY <4>1, <4>2, <4>3, <4>4
    <3>2. CASE main \in {"flush", "walk"}
      <4>1. inlist = outlist /\ inlist' = outlist'
        BY <1>3, <3>2 DEF OrderInv, Quiet, LastFlushBegun
      <4>2. main' \in {"flush", "walk"} /\ main' \in Last /\ main \in Last
        BY <1>4, <3>2 DEF Last, LastFlushBegun
      <4> QED
        BY <1>1, <1>3, <2>1, <3>2, <4>1, <4>2 DEF Unprinted, Last
    <3>3. CASE main \in {"clear", "destroy"}
      <4>1. main \notin {"flush", "walk"} /\ main \in Last
        BY <3>3 DEF Last, LastFlushBegun
      <4> QED
        BY <1>1, <1>3, <1>4, <3>3, <4>1 DEF Unprinted, Last
    <3> QED
      BY <1>4, <3>1, <3>2, <3>3 DEF Last, LastFlushBegun
  <2>4. printed \o Append(Unprinted, n) = Append(printed \o Unprinted, n)
    <3> HIDE DEF n
    <3> QED
      BY <1>1, <1>2, <2>3, PushLaw
  <2>5. InOrder'
    BY <1>3, <1>4, <2>2, <2>3, <2>4 DEF OrderInv, InOrder, Last
  <2>6. OutlistEmpty'
    BY <1>3, <1>4, <1>6, <2>1 DEF OrderInv, InOrder, OutlistEmpty, Last
  <2> QED
    BY <2>5, <2>6 DEF OrderInv
<1> QED
  BY <1>5, <1>6

\* A wake-up concerns a sleeping thread only.
LEMMA OrderWake ==
  ASSUME OrderInv, TypeOK', Quiet', Wake,
         UNCHANGED <<msgs, inlist, outlist, written, printed, late, overtaken>>,
         main' \in Last <=> main \in Last,
         main' \in {"flush", "walk"} <=> main \in {"flush", "walk"}
  PROVE  OrderInv'
<1>1. thread' = "flush" <=> thread = "flush"
  BY DEF Wake, OrderInv, Quiet
<1> QED
  BY <1>1, OrderUntouched

\* Each step of finalise() behind the wake-up preserves the order.
LEMMA OrderFinish ==
  ASSUME OrderInv, TypeOK', Quiet', Finish
  PROVE  OrderInv'
<1> DEFINE out == msgs[outlist]
           in  == msgs[inlist]
<1>s. /\ out \in Seq(Message) /\ in \in Seq(Message) /\ printed \in Seq(Message)
      /\ inlist \in {1, 2} /\ outlist \in {1, 2}
  BY DEF OrderInv, TypeOK
<1>1. CASE Joined
  BY <1>1, OrderUntouched DEF Joined, Goto, Last, LastFlushBegun
<1>2. CASE TakeInlist
  <2>1. /\ main = "joined" /\ main' = "flush" /\ thread = "exited"
        /\ outlist' = inlist /\ main \notin Last /\ main' \in Last
        /\ UNCHANGED <<msgs, inlist, thread, printed, written, overtaken>>
    BY <1>2 DEF TakeInlist, Goto, OrderInv, Quiet, Last, LastFlushBegun
  <2>2. ASSUME "mutex" \notin overtaken PROVE printed' \o Unprinted' = written'
    <3>1. out = <<>> /\ printed \o (out \o in) = written
      BY <2>1, <2>2 DEF OrderInv, OutlistEmpty, InOrder, Unprinted, Last
    <3>2. out \o in = in
      BY <1>s, <3>1, Laws, Zenon
    <3>3. Unprinted' = in
      BY <2>1 DEF Unprinted, Last
    <3> QED
      BY <2>1, <3>1, <3>2, <3>3
  <2> QED
    BY <2>1, <2>2 DEF OrderInv, InOrder, OutlistEmpty, Last
<1>3. CASE LastFlush
  <2>1. /\ main = "flush" /\ main' = IF out = <<>> THEN "destroy" ELSE "walk"
        /\ UNCHANGED <<msgs, inlist, outlist, thread, printed, written, late, overtaken>>
        /\ main \in Last /\ main' \in Last /\ late = <<>>
    BY <1>3 DEF LastFlush, Goto, OrderInv, Quiet, Last, LastFlushBegun
  <2>2. Unprinted' = Unprinted
    BY <2>1 DEF Unprinted, Last
  <2> QED
    BY <2>1, <2>2 DEF OrderInv, InOrder, OutlistEmpty, Last
<1>4. CASE LastPrintNext
  BY <1>4, OrderPrint DEF LastPrintNext, Goto
<1>5. CASE LastWalked
  <2>1. /\ main = "walk" /\ main' = "clear" /\ out = <<>>
        /\ UNCHANGED <<msgs, inlist, outlist, thread, printed, written, late, overtaken>>
        /\ main \in Last /\ main' \in Last /\ late = <<>>
    BY <1>5 DEF LastWalked, Goto, OrderInv, Quiet, Last, LastFlushBegun
  <2>2. Unprinted' = Unprinted
    BY <2>1 DEF Unprinted, Last
  <2> QED
    BY <2>1, <2>2 DEF OrderInv, InOrder, OutlistEmpty, Last
<1>6. CASE LastClear
  <2>1. /\ main = "clear" /\ main' = "destroy"
        /\ UNCHANGED <<inlist, outlist, thread, printed, written, late, overtaken>>
        /\ main \in Last /\ main' \in Last
    BY <1>6 DEF LastClear, Goto, Last, LastFlushBegun
  <2>2. Unprinted' = Unprinted
    BY <2>1 DEF Unprinted, Last
  <2> QED
    BY <2>1, <2>2 DEF OrderInv, InOrder, OutlistEmpty, Last
<1>7. CASE Destroy
  BY <1>7, OrderUntouched DEF Destroy, Goto, Last, LastFlushBegun
<1> QED
  BY <1>1, <1>2, <1>3, <1>4, <1>5, <1>6, <1>7 DEF Finish

\* Each step preserves the order.
LEMMA OrderNext ==
  ASSUME OrderInv, [Next]_vars
  PROVE  OrderInv'
<1> DEFINE out == msgs[outlist]
           in  == msgs[inlist]
<1>t. TypeOK /\ TypeOK' /\ Quiet /\ Quiet'
  BY TypeInv, QuietNext DEF OrderInv
<1> USE DEF Last, LastFlushBegun
<1>1. CASE CreateThread
  BY <1>1, <1>t, OrderUntouched DEF CreateThread, Quiet
<1>2. CASE InitMutex
  BY <1>2, <1>t, OrderUntouched DEF InitMutex
<1>3. CASE InitCond
  BY <1>3, <1>t, OrderUntouched DEF InitCond
<1>4. CASE StartPrint
  BY <1>4, <1>t, OrderUntouched DEF StartPrint, Goto
<1>5. CASE Interrupt
  BY <1>5, <1>t, OrderUntouched DEF Interrupt
<1>6. ASSUME NEW caller \in Callers, Lock(caller) PROVE OrderInv'
  BY <1>6, <1>t, OrderUntouched DEF Lock, Goto, Callers, At
<1>7. ASSUME NEW caller \in Callers, Push(caller) PROVE OrderInv'
  BY <1>7, <1>t, OrderPush
<1>8. ASSUME NEW caller \in Callers, Unlock(caller) PROVE OrderInv'
  BY <1>8, <1>t, OrderUntouched DEF Unlock, Goto, Callers, At
<1>9. ASSUME NEW caller \in Callers, Signal(caller) PROVE OrderInv'
  BY <1>9, <1>t, OrderWake DEF Signal, Goto, Callers, At
<1>10. CASE SetExit
  BY <1>10, <1>t, OrderUntouched DEF SetExit, Goto
<1>11. CASE SignalExit
  BY <1>11, <1>t, OrderWake DEF SignalExit, Goto
<1>12. CASE Finish
  BY <1>12, <1>t, OrderFinish
<1>13. CASE Loop
  BY <1>13, <1>t, OrderUntouched DEF Loop, Step
<1>14. ASSUME NEW from \in {"lock", "woken"}, Acquire(from) PROVE OrderInv'
  BY <1>14, <1>t, OrderUntouched DEF Acquire, Step
<1>15. CASE Test
  BY <1>15, <1>t, OrderUntouched DEF Test, Step
<1>16. CASE Wait
  BY <1>16, <1>t, OrderUntouched DEF Wait, Step
<1>17. CASE Swap
  <2>1. /\ thread = "swap" /\ thread' = "flush" /\ main \notin Last
        /\ inlist' = outlist /\ outlist' = inlist
        /\ UNCHANGED <<main, msgs, printed, written, late, overtaken>>
    BY <1>17, <1>t DEF Swap, Step, Quiet
  <2>2. out \in Seq(Message) /\ in \in Seq(Message)
    BY <1>t DEF TypeOK
  <2>3. ASSUME "mutex" \notin overtaken
        PROVE  inlist # outlist /\ Unprinted' = Unprinted
    <3>1. out = <<>> /\ inlist # outlist /\ Unprinted = out \o in /\ Unprinted' = in \o out
      BY <2>1, <2>3 DEF OrderInv, OutlistEmpty, InOrder, Unprinted
    <3>2. <<>> \o in = in /\ in \o <<>> = in
      BY <2>2, Laws, Zenon
    <3> QED
      BY <3>1, <3>2
  <2> QED
    BY <1>t, <2>1, <2>3 DEF OrderInv, InOrder, OutlistEmpty
<1>18. CASE PrintNext
  BY <1>18, <1>t, OrderPrint DEF PrintNext, Step, Quiet
<1>19. CASE Flushed
  <2>1. out = <<>> /\ UNCHANGED <<main, msgs, inlist, outlist, written, printed, late, overtaken>>
    BY <1>19 DEF Flushed, Step
  <2> QED
    BY <1>t, <2>1 DEF OrderInv, InOrder, OutlistEmpty, Unprinted
<1>20. CASE WakeByItself
  BY <1>20, <1>t, OrderUntouched DEF WakeByItself, Step
<1>21. CASE UNCHANGED vars
  BY <1>21, <1>t, OrderUntouched DEF vars
<1> QED
  BY <1>1, <1>2, <1>3, <1>4, <1>5, <1>6, <1>7, <1>8, <1>9, <1>10, <1>11, <1>12, <1>13,
     <1>14, <1>15, <1>16, <1>17, <1>18, <1>19, <1>20, <1>21
     DEF Next, PrintLog, LogProc

\* What Log prints is what it was given, in order: no list swap and no clear()
\* loses, repeats or overtakes a message, whenever the threads and the handler
\* run, but one that the handler logs when the last flush has met the end of the
\* list, and unless the new thread held the mutex when initialise() reset it.
THEOREM PrintsInOrder == Spec => []InOrder
<1>1. Init => OrderInv
  <2> SUFFICES ASSUME Init PROVE OrderInv
    OBVIOUS
  <2>1. /\ msgs[outlist] = <<>> /\ msgs[inlist] = <<>> /\ inlist # outlist
        /\ printed = <<>> /\ written = <<>> /\ late = <<>> /\ overtaken = {}
        /\ main = "off" /\ thread = "none" /\ handler = "none" /\ waiter = FALSE
    BY DEF Init
  <2>2. <<>> \o (<<>> \o <<>>) = <<>>
    <3>1. <<>> \in Seq(Message)
      BY EmptySeq
    <3> QED
      BY <3>1, Laws
  <2>3. Unprinted = <<>> \o <<>>
    BY <2>1 DEF Unprinted, LastFlushBegun
  <2> QED
    BY <2>1, <2>2, <2>3, InitTypes
       DEF OrderInv, InOrder, OutlistEmpty, Quiet, Last, LastFlushBegun
<1>2. OrderInv => InOrder
  BY DEF OrderInv
<1> QED
  BY <1>1, <1>2, OrderNext, PTL DEF Spec

-----------------------------------------------------------------------------
(* Mutual exclusion.                                                       *)

\* While initialise() still works on the mutex only the new thread may be there.
Early ==
  main \in {"off", "mutex", "cond"} => handler = "none" /\ owner \in {"nobody", "thread"}

LockInv == TypeOK /\ Early /\ Exclusive

\* Each step preserves the exclusion.
LEMMA LockNext ==
  ASSUME LockInv, Quiet, [Next]_vars
  PROVE  LockInv'
<1>t. TypeOK'
  BY TypeInv DEF LockInv
<1> USE DEF LockInv, Early, Exclusive, InCritical, At, Finalising, LastFlushBegun
<1>1. CASE CreateThread \/ StartPrint \/ Interrupt
  BY <1>1, <1>t DEF CreateThread, StartPrint, Interrupt, Goto, Quiet
<1>2. CASE InitMutex \/ InitCond
  BY <1>2, <1>t DEF InitMutex, InitCond
<1>3. ASSUME NEW caller \in Callers, PrintLog(caller) PROVE LockInv'
  <2>1. CASE Lock(caller)
    BY <2>1, <1>t DEF Lock, Goto, Callers
  <2>2. CASE Push(caller)
    BY <2>2, <1>t DEF Push, Goto, Callers
  <2>3. CASE Unlock(caller)
    BY <2>3, <1>t DEF Unlock, Goto, Callers
  <2>4. CASE Signal(caller)
    BY <2>4, <1>t DEF Signal, Wake, Goto, Callers, Quiet
  <2> QED
    BY <1>3, <2>1, <2>2, <2>3, <2>4 DEF PrintLog
<1>4. CASE SetExit \/ SignalExit
  BY <1>4, <1>t DEF SetExit, SignalExit, Wake, Goto, Quiet
<1>5. CASE Finish
  BY <1>5, <1>t DEF Finish, Joined, TakeInlist, LastFlush, LastPrintNext, LastWalked,
                    LastClear, Destroy, Goto
<1>6. CASE LogProc \/ WakeByItself
  <2>1. CASE Loop
    BY <2>1, <1>t DEF Loop, Step
  <2>2. CASE Acquire("lock") \/ Acquire("woken")
    BY <2>2, <1>t DEF Acquire, Step
  <2>3. CASE Test
    BY <2>3, <1>t DEF Test, Step
  <2>4. CASE Wait
    BY <2>4, <1>t DEF Wait, Step
  <2>5. CASE Swap
    BY <2>5, <1>t DEF Swap, Step
  <2>6. CASE PrintNext \/ Flushed \/ WakeByItself
    BY <2>6, <1>t DEF PrintNext, Flushed, WakeByItself, Step
  <2> QED
    BY <1>6, <2>1, <2>2, <2>3, <2>4, <2>5, <2>6 DEF LogProc
<1>7. CASE UNCHANGED vars
  BY <1>7, <1>t DEF vars
<1> QED
  BY <1>1, <1>2, <1>3, <1>4, <1>5, <1>6, <1>7 DEF Next

\* The list of new messages is touched only by the holder of the mutex, for any
\* number of messages and signals, also by a thread that runs before initialise()
\* is done; unless that thread held the mutex when initialise() reset it.
THEOREM ListIsGuarded == Spec => []Exclusive
<1>1. Init => LockInv /\ Quiet
  <2> SUFFICES ASSUME Init PROVE LockInv /\ Quiet
    OBVIOUS
  <2>1. TypeOK
    BY InitTypes
  <2> QED
    BY <2>1 DEF Init, LockInv, Early, Exclusive, InCritical, At, Quiet, Last, LastFlushBegun
<1>2. LockInv /\ Quiet /\ [Next]_vars => LockInv' /\ Quiet'
  BY LockNext, QuietNext DEF LockInv
<1>3. LockInv => Exclusive
  BY DEF LockInv
<1> QED
  BY <1>1, <1>2, <1>3, PTL DEF Spec
=============================================================================
