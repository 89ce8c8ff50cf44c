---------------------------- MODULE FileLogProofs ----------------------------
(***************************************************************************)
(* For every size of a file, every set of days and any number of messages, *)
(* failures and kills: FileLog keeps one current file, files every line    *)
(* under its day, and loses nothing that it could copy.                    *)
(***************************************************************************)
EXTENDS FileLog, TLAPS

InOnPrint == {"Start", "PreOpenCurFile", "Dump", "Copy", "Remove", "Ready"}

\* What each state of the switch knows of the members.
StateOK ==
  /\ s \in InOnPrint => msg \in Message
  /\ s \in {"Dump", "Copy", "Remove", "Ready"} => mLogFile # NoDay /\ mCurDay # NoDay
  /\ s \in {"PreOpenCurFile", "down"} => mLogFile = NoDay
  /\ s = "Ready" => mCurDay = msg.day
  /\ mLogFile # NoDay => mCurDay # NoDay

\* The current file is the open one, or there is none; between two processes
\* it may be any.
FilesOK ==
  ~ missed =>
    /\ mLogFile # NoDay => mLogFile = mCurDay /\ present = {mLogFile}
    /\ mLogFile = NoDay /\ s # "down" => present = {}
    /\ \A d, e \in present : d = e
    /\ \A d \in Day : cur[d] # <<>> => d \in present

Inv == TypeOK /\ StateOK /\ FilesOK

\* A day is a number, and
LEMMA DaysAreNumbers == Day \subseteq Nat
BY FileLogAssumption

\* no day is the mark of a missing one.
LEMMA NoDayIsNoDay == NoDay \notin Day
BY DaysAreNumbers DEF NoDay

\* A line appended to a file leaves the others where they are.
LEMMA AppendLaw ==
  ASSUME NEW f \in Seq(Message), NEW m \in Message
  PROVE  /\ Append(f, m) \in Seq(Message) /\ Len(f) \in Nat
         /\ Len(Append(f, m)) = Len(f) + 1
         /\ \A i \in 1 .. Len(f) : Append(f, m)[i] = f[i] /\ f[i] \in Message
         /\ Append(f, m)[Len(f) + 1] = m
OBVIOUS

\* openRecentFile() finds a file if there is one.
LEMMA LatestLaw ==
  ASSUME present \in SUBSET Day, present # {}
  PROVE  Latest \in present
BY FileLogAssumption DEF Latest

-----------------------------------------------------------------------------
(* Types and states.                                                       *)

\* A process that starts in an empty directory.
LEMMA InitOK == Init => Inv
<1> SUFFICES ASSUME Init PROVE Inv
  OBVIOUS
<1>1. [d \in Day |-> <<>>] \in [Day -> Seq(Message)]
  OBVIOUS
<1> QED
  BY <1>1 DEF Init, Inv, TypeOK, StateOK, FilesOK, InOnPrint

\* The three answers of State_Start.
LEMMA StartLaw ==
  ASSUME Start
  PROVE  /\ s' \in {"PreOpenCurFile", "Dump", "Ready"}
         /\ mLogFile = NoDay => s' = "PreOpenCurFile"
         /\ mLogFile # NoDay /\ mCurDay # msg.day => s' = "Dump"
         /\ mLogFile # NoDay /\ mCurDay = msg.day => s' = "Ready"
<1>1. CASE mLogFile = NoDay
  BY <1>1, Zenon DEF Start
<1>2. CASE mLogFile # NoDay /\ mCurDay # msg.day
  BY <1>2, Zenon DEF Start
<1>3. CASE mLogFile # NoDay /\ mCurDay = msg.day
  BY <1>3, Zenon DEF Start
<1> QED
  BY <1>1, <1>2, <1>3

\* Every step keeps the types,
LEMMA TypeNext == Inv /\ [Next]_vars => TypeOK'
<1> SUFFICES ASSUME Inv, [Next]_vars PROVE TypeOK'
  OBVIOUS
<1> USE DaysAreNumbers DEF Inv, TypeOK, files, accounts
<1>1. CASE \E d \in Day : NewMessage(d)
  <2>1. PICK d \in Day : NewMessage(d)
    BY <1>1
  <2>2. msg' \in Message /\ logged' \in Nat
    BY <2>1 DEF NewMessage, Message
  <2> QED
    BY <2>1, <2>2 DEF NewMessage
<1>2. CASE Start
  <2>1. s' \in {"PreOpenCurFile", "Dump", "Ready"}
    BY <1>2, StartLaw, Zenon
  <2> QED
    BY <1>2, <2>1 DEF Start
<1>3. CASE PreOpenCurFile
  <2>1. msg \in Message /\ msg.day \in Day
    BY <1>3 DEF PreOpenCurFile, StateOK, InOnPrint, Message
  <2>2. /\ s' \in {"Ready", "idle"} /\ faults' \in Nat
        /\ mLogFile' \in Day \cup {NoDay} /\ mCurDay' \in Day /\ present' \subseteq Day
    <3>1. mLogFile \in Day \cup {NoDay} /\ present \cup {msg.day} \subseteq Day
      BY <2>1
    <3>2. faults' \in {faults, faults + 1}
      BY <1>3, Zenon DEF PreOpenCurFile, Fault
    <3>3. faults' \in Nat
      BY <3>2
    <3> QED
      BY <1>3, <2>1, <3>1, <3>3, Zenon DEF PreOpenCurFile
  <2>3. UNCHANGED <<msg, cur, store, pos, logged, written, kills, damaged, torn, missed>>
    BY <1>3 DEF PreOpenCurFile
  <2> QED
    BY <2>2, <2>3
<1>4. CASE Dump
  <2>1. damaged' \in BOOLEAN /\ torn' \in BOOLEAN /\ missed' \in BOOLEAN
    BY <1>4, Zenon DEF Dump
  <2> QED
    BY <1>4, <2>1 DEF Dump, Fault
<1>5. CASE DeleteEarliestFile
  BY <1>5 DEF DeleteEarliestFile
<1>6. CASE CopyBlock
  <2>1. mLogFile \in Day /\ mCurDay \in Day
    BY <1>6 DEF CopyBlock, StateOK
  <2>2. pos + 1 \in 1 .. Len(cur[mLogFile]) /\ cur[mLogFile] \in Seq(Message)
    BY <1>6, <2>1 DEF CopyBlock
  <2>3. cur[mLogFile][pos + 1] \in Message
    BY <2>2
  <2>4. Append(store[mCurDay], cur[mLogFile][pos + 1]) \in Seq(Message)
    BY <2>1, <2>3
  <2>5. store' \in [Day -> Seq(Message)]
    BY <1>6, <2>1, <2>4 DEF CopyBlock
  <2>6. damaged' \in BOOLEAN /\ torn' \in BOOLEAN /\ missed' \in BOOLEAN
    BY <1>6, Zenon DEF CopyBlock
  <2> QED
    BY <1>6, <2>5, <2>6 DEF CopyBlock, Fault
<1>7. CASE CopyDone
  BY <1>7 DEF CopyDone
<1>8. CASE Remove
  <2>1. mCurDay \in Day /\ <<>> \in Seq(Message)
    BY <1>8 DEF Remove, StateOK
  <2> QED
    BY <1>8, <2>1 DEF Remove
<1>9. CASE WriteLog
  <2>1. mLogFile \in Day /\ msg \in Message
    BY <1>9 DEF WriteLog, StateOK, InOnPrint
  <2>2. Append(cur[mLogFile], msg) \in Seq(Message)
    BY <2>1
  <2>3. cur' \in [Day -> Seq(Message)]
    BY <1>9, <2>1, <2>2 DEF WriteLog
  <2>4. faults' \in Nat /\ written' \subseteq Message /\ s' \in {"idle", "Dump"}
    BY <1>9, <2>1 DEF WriteLog, Fault
  <2> QED
    BY <1>9, <2>3, <2>4 DEF WriteLog
<1>10. CASE CurFileFull
  BY <1>10 DEF CurFileFull
<1>11. CASE Kill
  BY <1>11 DEF Kill
<1>12. CASE OpenRecentFile
  <2>1. CASE present = {}
    BY <1>12, <2>1 DEF OpenRecentFile
  <2>2. CASE present # {}
    <3>1. PICK last \in present :
            /\ cur' = [d \in Day |-> IF d = Latest THEN cur[d] ELSE <<>>]
            /\ present' \in {{Latest, last}, {Latest}}
            /\ mLogFile' \in {last, mLogFile} /\ mCurDay' \in {Latest, mCurDay}
            /\ faults' \in {faults, faults + 1} /\ missed' \in {missed, TRUE}
      BY <1>12, <2>2 DEF OpenRecentFile, Fault
    <3>2. Latest \in Day
      BY <2>2, LatestLaw
    <3>3. cur' \in [Day -> Seq(Message)]
      <4>1. <<>> \in Seq(Message) /\ \A d \in Day : cur[d] \in Seq(Message)
        OBVIOUS
      <4> QED
        BY <3>1, <4>1
    <3>4. missed' \in BOOLEAN /\ damaged' \in BOOLEAN /\ torn' \in BOOLEAN
      BY <1>12, <3>1, Zenon DEF OpenRecentFile
    <3>5. present' \subseteq Day /\ {mLogFile', mCurDay'} \subseteq Day \cup {NoDay}
      BY <3>1, <3>2
    <3>6. faults' \in Nat
      BY <3>1
    <3> QED
      BY <1>12, <3>3, <3>4, <3>5, <3>6 DEF OpenRecentFile
  <2> QED
    BY <2>1, <2>2
<1>13. CASE UNCHANGED vars
  BY <1>13 DEF vars
<1> QED
  BY <1>1, <1>2, <1>3, <1>4, <1>5, <1>6, <1>7, <1>8, <1>9, <1>10, <1>11, <1>12, <1>13
  DEF Next, OnPrint

\* what the states of the switch know,
LEMMA StateNext == Inv /\ [Next]_vars => StateOK'
<1> SUFFICES ASSUME Inv, [Next]_vars PROVE StateOK'
  OBVIOUS
<1> USE NoDayIsNoDay DEF Inv, StateOK, InOnPrint, files, accounts
<1>1. CASE \E d \in Day : NewMessage(d)
  BY <1>1 DEF NewMessage, Message, TypeOK
<1>2. CASE Start
  BY <1>2, StartLaw DEF Start
<1>3. CASE PreOpenCurFile
  BY <1>3 DEF PreOpenCurFile, Message
<1>4. CASE Dump
  BY <1>4 DEF Dump
<1>5. CASE DeleteEarliestFile
  BY <1>5 DEF DeleteEarliestFile
<1>6. CASE CopyBlock
  BY <1>6 DEF CopyBlock
<1>7. CASE CopyDone
  BY <1>7 DEF CopyDone
<1>8. CASE Remove
  BY <1>8 DEF Remove
<1>9. CASE WriteLog
  BY <1>9 DEF WriteLog
<1>10. CASE CurFileFull
  BY <1>10 DEF CurFileFull
<1>11. CASE Kill
  BY <1>11 DEF Kill
<1>12. CASE OpenRecentFile
  BY <1>12, LatestLaw DEF OpenRecentFile, TypeOK
<1>13. CASE UNCHANGED vars
  BY <1>13 DEF vars
<1> QED
  BY <1>1, <1>2, <1>3, <1>4, <1>5, <1>6, <1>7, <1>8, <1>9, <1>10, <1>11, <1>12, <1>13
  DEF Next, OnPrint

\* and the one current file.
LEMMA FilesNext == Inv /\ [Next]_vars => FilesOK'
<1> SUFFICES ASSUME Inv, [Next]_vars, ~ missed' PROVE FilesOK'
  BY DEF FilesOK
<1>0. ~ missed
  BY DEF Next, OnPrint, NewMessage, Start, PreOpenCurFile, Dump, DeleteEarliestFile, CopyBlock,
         CopyDone, Remove, WriteLog, CurFileFull, Kill, OpenRecentFile, vars, accounts
<1> USE <1>0, NoDayIsNoDay DEF FilesOK, files, accounts
<1>1. CASE \E d \in Day : NewMessage(d)
  BY <1>1 DEF NewMessage, Inv
<1>2. CASE Start
  BY <1>2 DEF Start, Inv
<1>3. CASE PreOpenCurFile
  <2>1. present = {} /\ msg.day \in Day
    BY <1>3 DEF PreOpenCurFile, Inv, StateOK, InOnPrint, Message
  <2> QED
    BY <1>3, <2>1 DEF PreOpenCurFile, Inv
<1>4. CASE Dump
  BY <1>4 DEF Dump, Inv
<1>5. CASE DeleteEarliestFile
  BY <1>5 DEF DeleteEarliestFile, Inv
<1>6. CASE CopyBlock
  BY <1>6 DEF CopyBlock, Inv
<1>7. CASE CopyDone
  BY <1>7 DEF CopyDone, Inv
<1>8. CASE Remove
  BY <1>8 DEF Remove, Inv, StateOK, TypeOK
<1>9. CASE WriteLog
  BY <1>9 DEF WriteLog, Inv, StateOK, TypeOK
<1>10. CASE CurFileFull
  BY <1>10 DEF CurFileFull, Inv
<1>11. CASE Kill
  BY <1>11 DEF Kill, Inv
<1>12. CASE OpenRecentFile
  BY <1>12, LatestLaw DEF OpenRecentFile, Inv, StateOK, TypeOK
<1>13. CASE UNCHANGED vars
  BY <1>13 DEF vars, Inv
<1> QED
  BY <1>1, <1>2, <1>3, <1>4, <1>5, <1>6, <1>7, <1>8, <1>9, <1>10, <1>11, <1>12, <1>13
  DEF Next, OnPrint

\* So the invariant is inductive.
LEMMA NextOK == Inv /\ [Next]_vars => Inv'
BY TypeNext, StateNext, FilesNext DEF Inv

\* The members of FileLog, the files and the accounts keep their types.
THEOREM TypeCorrect == Spec => []TypeOK
<1>1. Inv => TypeOK
  BY DEF Inv
<1> QED
  BY InitOK, NextOK, <1>1, PTL DEF Spec

\* FileLog keeps one current file, the one that mCurDay names, however it is
\* killed and started again.
THEOREM KeepsOneFile == Spec => []OneCurrentFile
<1>1. Inv => OneCurrentFile
  BY DEF Inv, FilesOK, OneCurrentFile
<1> QED
  BY InitOK, NextOK, <1>1, PTL DEF Spec

-----------------------------------------------------------------------------
(* Every line is filed under its day.                                      *)

\* Every line of f is of day d.
OfDay(f, d) == \A i \in 1 .. Len(f) : f[i].day = d

\* It stays so with one more of that day.
LEMMA OfDayGrows ==
  ASSUME NEW f \in Seq(Message), NEW d \in Day, NEW m \in Message,
         OfDay(f, d), m.day = d
  PROVE  OfDay(Append(f, m), d)
BY AppendLaw DEF OfDay

FiledOK == ~ missed => \A d \in Day : OfDay(cur[d], d) /\ OfDay(store[d], d)

\* A line is added to the file of its day only.
LEMMA FiledNext == Inv /\ FiledOK /\ [Next]_vars => FiledOK'
<1> SUFFICES ASSUME Inv, FiledOK, [Next]_vars, ~ missed', NEW d \in Day
             PROVE  OfDay(cur[d], d)' /\ OfDay(store[d], d)'
  BY DEF FiledOK
<1>0. ~ missed
  BY DEF Next, OnPrint, NewMessage, Start, PreOpenCurFile, Dump, DeleteEarliestFile, CopyBlock,
         CopyDone, Remove, WriteLog, CurFileFull, Kill, OpenRecentFile, vars, accounts
<1>1. OfDay(cur[d], d) /\ OfDay(store[d], d) /\ OfDay(<<>>, d)
  BY <1>0 DEF FiledOK, OfDay
<1>2. cur[d] \in Seq(Message) /\ store[d] \in Seq(Message)
  BY DEF Inv, TypeOK
<1>3. cur' = cur /\ store' = store => OfDay(cur[d], d)' /\ OfDay(store[d], d)'
  BY <1>1 DEF OfDay
<1>4. CASE CopyBlock
  <2>1. mLogFile = mCurDay /\ mLogFile \in Day
    BY <1>0, <1>4 DEF CopyBlock, Inv, StateOK, FilesOK, TypeOK
  <2>2. CASE d = mCurDay /\ store' # store
    <3>1. pos + 1 \in 1 .. Len(cur[d]) /\ store'[d] = Append(store[d], cur[d][pos + 1])
      BY <1>2, <1>4, <2>1, <2>2 DEF CopyBlock, Inv, TypeOK
    <3>2. cur[d][pos + 1] \in Message /\ cur[d][pos + 1].day = d
      BY <1>1, <1>2, <3>1 DEF OfDay
    <3>3. OfDay(store'[d], d)
      BY <1>1, <1>2, <3>1, <3>2, OfDayGrows
    <3> QED
      BY <1>1, <1>4, <3>3 DEF CopyBlock, OfDay
  <2>3. CASE ~ (d = mCurDay /\ store' # store)
    <3>1. store'[d] = store[d] /\ cur' = cur
      BY <1>4, <2>3 DEF CopyBlock, Inv, TypeOK
    <3> QED
      BY <1>1, <3>1 DEF OfDay
  <2> QED
    BY <2>2, <2>3
<1>5. CASE Remove
  <2>1. cur'[d] \in {cur[d], <<>>} /\ store' = store
    BY <1>5 DEF Remove, Inv, TypeOK
  <2> QED
    BY <1>1, <2>1 DEF OfDay
<1>6. CASE WriteLog
  <2>1. mLogFile \in Day /\ msg \in Message /\ msg.day = mLogFile
    BY <1>0, <1>6 DEF WriteLog, Inv, StateOK, FilesOK, TypeOK, InOnPrint
  <2>2. cur'[d] = cur[d] \/ (d = msg.day /\ cur'[d] = Append(cur[d], msg))
    BY <1>6, <2>1 DEF WriteLog, Inv, TypeOK
  <2>3. OfDay(cur'[d], d)
    BY <1>1, <1>2, <2>1, <2>2, OfDayGrows
  <2> QED
    BY <1>1, <1>6, <2>3 DEF WriteLog, OfDay
<1>7. CASE OpenRecentFile
  <2>1. cur'[d] \in {cur[d], <<>>} /\ store' = store
    BY <1>7 DEF OpenRecentFile
  <2> QED
    BY <1>1, <2>1 DEF OfDay
<1>8. CASE \E e \in Day : NewMessage(e)
  BY <1>3, <1>8 DEF NewMessage, files
<1>9. CASE UNCHANGED files
  BY <1>3, <1>9 DEF files
<1>10. CASE PreOpenCurFile
  BY <1>3, <1>10 DEF PreOpenCurFile
<1> QED
  BY <1>4, <1>5, <1>6, <1>7, <1>8, <1>9, <1>10
  DEF Next, OnPrint, Start, Dump, DeleteEarliestFile, CopyDone, CurFileFull, Kill, vars

\* A line of a file, current or stored, is of the day the file is named for.
THEOREM FilesAreDays == Spec => []FiledByDay
<1>1. Init => FiledOK
  BY DEF Init, FiledOK, OfDay
<1>2. FiledOK => FiledByDay
  BY DEF FiledOK, FiledByDay, OfDay
<1> QED
  BY InitOK, NextOK, FiledNext, <1>1, <1>2, PTL DEF Spec

-----------------------------------------------------------------------------
(* Nothing is lost.                                                        *)

\* A line that is appended is in the file, and the others remain.
LEMMA InFileGrows ==
  ASSUME NEW f \in Seq(Message), NEW m \in Message
  PROVE  /\ InFile(m, Append(f, m))
         /\ \A x : InFile(x, f) => InFile(x, Append(f, m))
<1>1. Len(Append(f, m)) = Len(f) + 1 /\ Len(f) \in Nat
  BY AppendLaw
<1>2. Append(f, m)[Len(f) + 1] = m /\ Len(f) + 1 \in 1 .. Len(Append(f, m))
  BY <1>1, AppendLaw
<1>3. ASSUME NEW x, InFile(x, f) PROVE InFile(x, Append(f, m))
  <2>1. PICK i \in 1 .. Len(f) : f[i] = x
    BY <1>3 DEF InFile
  <2>2. i \in 1 .. Len(Append(f, m)) /\ Append(f, m)[i] = x
    BY <1>1, <2>1, AppendLaw
  <2> QED
    BY <2>2 DEF InFile
<1> QED
  BY <1>2, <1>3 DEF InFile

\* The first n lines of the current file of day d are stored.
Copied(d, n) == n <= Len(cur[d]) /\ \A i \in 1 .. n : InFile(cur[d][i], store[d])

Kept == \A m \in written : InFile(m, cur[m.day]) \/ InFile(m, store[m.day])

\* A copy that is not given up has stored every line before the removal.
CopyOK ==
  /\ s = "Copy" => Copied(mCurDay, pos)
  /\ s = "Remove" => Copied(mCurDay, Len(cur[mCurDay]))

KeptOK == ~ damaged /\ ~ missed => Kept /\ CopyOK

\* A file is removed only when the stored one has what was in it.
LEMMA KeptNext == Inv /\ KeptOK /\ [Next]_vars => KeptOK'
<1> SUFFICES ASSUME Inv, KeptOK, [Next]_vars, ~ damaged', ~ missed'
             PROVE  Kept' /\ CopyOK'
  BY DEF KeptOK
<1>0. ~ missed
  BY DEF Next, OnPrint, NewMessage, Start, PreOpenCurFile, Dump, DeleteEarliestFile, CopyBlock,
         CopyDone, Remove, WriteLog, CurFileFull, Kill, OpenRecentFile, vars, accounts
<1>1. ~ damaged
  BY DEF Next, OnPrint, NewMessage, Start, PreOpenCurFile, Dump, DeleteEarliestFile, CopyBlock,
         CopyDone, Remove, WriteLog, CurFileFull, Kill, OpenRecentFile, vars, accounts
<1>2. Kept /\ CopyOK
  BY <1>0, <1>1 DEF KeptOK
<1>3. \A d \in Day : cur[d] \in Seq(Message) /\ store[d] \in Seq(Message) /\ Len(cur[d]) \in Nat
  BY DEF Inv, TypeOK
<1>4. \A m \in written : m \in Message /\ m.day \in Day
  BY DEF Inv, TypeOK, Message
<1>5. ASSUME UNCHANGED <<cur, store, written>>
      PROVE  Kept'
  BY <1>2, <1>5 DEF Kept, InFile
<1>6. ASSUME UNCHANGED <<cur, store, written>>, s' \notin {"Copy", "Remove"}
      PROVE  Kept' /\ CopyOK'
  BY <1>5, <1>6 DEF CopyOK
<1>7. CASE Dump
  <2>1. mLogFile = mCurDay /\ mCurDay \in Day /\ mCurDay' = mCurDay /\ UNCHANGED <<cur, store>>
    BY <1>0, <1>7 DEF Dump, Inv, StateOK, FilesOK, TypeOK, files
  <2>2. Copied(mCurDay, 0)'
    BY <1>3, <2>1 DEF Copied
  <2>3. s' = "Copy" => Copied(mCurDay, pos)'
    BY <1>7, <2>2 DEF Dump, Copied
  <2>4. s' = "Remove" => Len(cur[mCurDay])' = 0
    <3>1. s' = "Remove" => damaged' = (damaged \/ cur[mLogFile] # <<>>)
      BY <1>7 DEF Dump
    <3>2. s' = "Remove" => cur[mLogFile] = <<>>
      BY <3>1, Zenon
    <3> QED
      BY <2>1, <3>2
  <2>5. CopyOK'
    BY <2>2, <2>3, <2>4 DEF CopyOK, Copied
  <2> QED
    BY <1>5, <1>7, <2>1, <2>5 DEF Dump, accounts
<1>8. CASE CopyBlock
  <2> DEFINE d == mCurDay
             m == cur[d][pos + 1]
  <2>1. mLogFile = d /\ d \in Day /\ pos \in Nat
    BY <1>0, <1>8 DEF CopyBlock, Inv, StateOK, FilesOK, TypeOK
  <2>2. /\ store' = [store EXCEPT ![d] = Append(@, m)] /\ pos' = pos + 1 /\ s' = "Copy"
        /\ UNCHANGED <<cur, mCurDay, written>> /\ pos < Len(cur[d])
    BY <1>1, <1>8, <2>1 DEF CopyBlock
  <2>3. m \in Message
    BY <1>3, <2>1, <2>2
  <2>4. store'[d] = Append(store[d], m) /\ \A e \in Day : e # d => store'[e] = store[e]
    BY <2>1, <2>2 DEF Inv, TypeOK
  <2>5. InFile(m, store'[d]) /\ \A x : InFile(x, store[d]) => InFile(x, store'[d])
    BY <1>3, <2>1, <2>3, <2>4, InFileGrows
  <2>6. Kept'
    BY <1>2, <1>4, <2>2, <2>4, <2>5 DEF Kept
  <2>7. \A i \in 1 .. pos : InFile(cur[d][i], store[d])
    BY <1>2, <1>8 DEF CopyBlock, CopyOK, Copied
  <2>8. \A i \in 1 .. pos + 1 : InFile(cur[d][i], store'[d])
    BY <2>1, <2>5, <2>7
  <2>9. pos + 1 <= Len(cur[d])
    BY <1>3, <2>1, <2>2
  <2>10. Copied(mCurDay, pos)'
    BY <2>2, <2>8, <2>9 DEF Copied
  <2> QED
    BY <2>2, <2>6, <2>10 DEF CopyOK
<1>9. CASE CopyDone
  <2>1. /\ mLogFile = mCurDay /\ pos = Len(cur[mCurDay]) /\ s' = "Remove"
        /\ UNCHANGED <<mCurDay, cur, store, written>>
    BY <1>0, <1>9 DEF CopyDone, Inv, StateOK, FilesOK, files, accounts
  <2>2. Copied(mCurDay, Len(cur[mCurDay]))'
    BY <1>2, <1>9, <2>1 DEF CopyDone, CopyOK, Copied
  <2> QED
    BY <1>5, <2>1, <2>2 DEF CopyOK
<1>10. CASE Remove
  <2>1. mCurDay \in Day /\ UNCHANGED <<store, written>> /\ s' = "PreOpenCurFile"
    BY <1>10 DEF Remove, Inv, StateOK, TypeOK, accounts
  <2>2. \A e \in Day : e # mCurDay => cur'[e] = cur[e]
    BY <1>10 DEF Remove, Inv, TypeOK
  <2>3. \A x : InFile(x, cur[mCurDay]) => InFile(x, store[mCurDay])
    <3>1. Copied(mCurDay, Len(cur[mCurDay]))
      BY <1>2, <1>10 DEF Remove, CopyOK
    <3>2. ASSUME NEW x, InFile(x, cur[mCurDay]) PROVE InFile(x, store[mCurDay])
      <4>1. PICK i \in 1 .. Len(cur[mCurDay]) : cur[mCurDay][i] = x
        BY <3>2 DEF InFile
      <4> QED
        BY <3>1, <4>1 DEF Copied
    <3> QED
      BY <3>2
  <2>4. Kept'
    BY <1>2, <1>4, <2>1, <2>2, <2>3 DEF Kept
  <2> QED
    BY <2>1, <2>4 DEF CopyOK
<1>11. CASE WriteLog
  <2>1. mLogFile \in Day /\ msg \in Message /\ msg.day = mLogFile
    BY <1>0, <1>11 DEF WriteLog, Inv, StateOK, FilesOK, TypeOK, InOnPrint
  <2>2. s' \notin {"Copy", "Remove"} /\ store' = store
    BY <1>11 DEF WriteLog
  <2>3. CASE written' = written \cup {msg} /\ cur' = [cur EXCEPT ![mLogFile] = Append(@, msg)]
    <3>1. /\ cur'[mLogFile] = Append(cur[mLogFile], msg)
          /\ \A e \in Day : e # mLogFile => cur'[e] = cur[e]
      BY <2>1, <2>3 DEF Inv, TypeOK
    <3>2. InFile(msg, cur'[mLogFile]) /\ \A x : InFile(x, cur[mLogFile]) => InFile(x, cur'[mLogFile])
      BY <1>3, <2>1, <3>1, InFileGrows
    <3>3. Kept'
      BY <1>2, <1>4, <2>1, <2>2, <2>3, <3>1, <3>2 DEF Kept
    <3> QED
      BY <2>2, <3>3 DEF CopyOK
  <2>4. CASE UNCHANGED <<cur, written>>
    BY <1>6, <2>2, <2>4
  <2> QED
    BY <1>11, <2>3, <2>4 DEF WriteLog
<1>12. CASE OpenRecentFile
  <2>1. \A e \in Day : cur'[e] = cur[e]
    <3>1. CASE present = {}
      BY <1>12, <3>1 DEF OpenRecentFile
    <3>2. CASE present # {}
      <4>1. \A e \in Day : cur[e] # <<>> => e = Latest
        BY <1>0, <3>2, LatestLaw DEF Inv, FilesOK, TypeOK
      <4> QED
        BY <1>12, <3>2, <4>1 DEF OpenRecentFile
    <3> QED
      BY <3>1, <3>2
  <2>2. UNCHANGED <<store, written>> /\ s' \notin {"Copy", "Remove"}
    BY <1>12 DEF OpenRecentFile
  <2>3. Kept'
    BY <1>2, <1>4, <2>1, <2>2 DEF Kept
  <2> QED
    BY <2>2, <2>3 DEF CopyOK
<1>13. CASE \E e \in Day : NewMessage(e)
  BY <1>6, <1>13 DEF NewMessage, files
<1>14. CASE Start
  BY <1>6, <1>14, StartLaw DEF Start, files, accounts
<1>15. CASE PreOpenCurFile
  BY <1>6, <1>15 DEF PreOpenCurFile
<1>16. CASE DeleteEarliestFile \/ Kill
  BY <1>6, <1>16 DEF DeleteEarliestFile, Kill, files
<1>17. CASE CurFileFull
  BY <1>6, <1>17 DEF CurFileFull, files, accounts
<1>18. CASE UNCHANGED vars
  BY <1>2, <1>5, <1>18 DEF vars, files, accounts, CopyOK, Copied
<1> QED
  BY <1>7, <1>8, <1>9, <1>10, <1>11, <1>12, <1>13, <1>14, <1>15, <1>16, <1>17, <1>18
  DEF Next, OnPrint

\* What _writeLog() has written is in a file of its day, unless a copy failed.
THEOREM LosesNothing == Spec => []NothingLost
<1>1. Init => KeptOK
  BY DEF Init, KeptOK, Kept, CopyOK
<1>2. KeptOK => NothingLost
  BY DEF KeptOK, Kept, NothingLost
<1> QED
  BY InitOK, NextOK, KeptNext, <1>1, <1>2, PTL DEF Spec

-----------------------------------------------------------------------------
(* Files are in order.                                                     *)

Rising(f) == \A i, j \in 1 .. Len(f) : i < j => f[i].id < f[j].id
Below(f, n) == \A i \in 1 .. Len(f) : f[i].id < n

\* Two files of one day: each in order and older than n, and what the first has
\* is older than what the second has from its k-th line on.
Sorted(f, g, k, n) ==
  /\ Rising(f) /\ Rising(g) /\ Below(f, n) /\ Below(g, n)
  /\ \A i \in 1 .. Len(f), j \in k .. Len(g) : f[i].id < g[j].id

\* A file is made of messages.
LEMMA LineLaw ==
  ASSUME NEW f \in Seq(Message)
  PROVE  Len(f) \in Nat /\ \A i \in 1 .. Len(f) : f[i] \in Message /\ f[i].id \in Nat
<1>1. Len(f) \in Nat /\ \A i \in 1 .. Len(f) : f[i] \in Message
  OBVIOUS
<1> QED
  BY <1>1 DEF Message

\* Sorted files stay sorted when less of the second counts, or later messages.
LEMMA SortedLess ==
  ASSUME NEW f \in Seq(Message), NEW g \in Seq(Message), NEW k \in Nat, NEW n \in Nat,
         Sorted(f, g, k, n), NEW l \in Nat, k <= l, NEW m \in Nat, n <= m
  PROVE  Sorted(f, g, l, m)
<1>1. /\ \A i \in 1 .. Len(f) : f[i].id \in Nat
      /\ \A i \in 1 .. Len(g) : g[i].id \in Nat
      /\ Len(f) \in Nat /\ Len(g) \in Nat
  BY LineLaw
<1>2. Below(f, m) /\ Below(g, m)
  BY <1>1 DEF Sorted, Below
<1>3. \A i \in 1 .. Len(f), j \in l .. Len(g) : f[i].id < g[j].id
  BY <1>1 DEF Sorted
<1> QED
  BY <1>2, <1>3 DEF Sorted

\* The first line that counts of the second file is copied to the first file.
LEMMA SortedCopy ==
  ASSUME NEW f \in Seq(Message), NEW g \in Seq(Message), NEW k \in 1 .. Len(g), NEW n \in Nat,
         Sorted(f, g, k, n)
  PROVE  Sorted(Append(f, g[k]), g, k + 1, n)
<1> DEFINE h == Append(f, g[k])
<1>1. /\ Len(f) \in Nat /\ Len(g) \in Nat /\ g[k] \in Message /\ Len(h) = Len(f) + 1
      /\ \A i \in 1 .. Len(f) : h[i] = f[i]
      /\ h[Len(f) + 1] = g[k] /\ \A i \in 1 .. Len(h) : i \in 1 .. Len(f) \/ i = Len(f) + 1
  BY AppendLaw
<1> HIDE DEF h
<1>2. Below(h, n)
  BY <1>1 DEF Sorted, Below
<1>3. \A i \in 1 .. Len(f) : f[i].id < g[k].id
  BY <1>1 DEF Sorted
<1>4. \A j \in (k + 1) .. Len(g) : g[k].id < g[j].id /\ \A i \in 1 .. Len(f) : f[i].id < g[j].id
  BY <1>1 DEF Sorted, Rising
<1>5. Rising(h)
  <2> SUFFICES ASSUME NEW i \in 1 .. Len(h), NEW j \in 1 .. Len(h), i < j PROVE h[i].id < h[j].id
    BY DEF Rising
  <2>1. i \in 1 .. Len(f)
    BY <1>1
  <2>2. CASE j \in 1 .. Len(f)
    BY <1>1, <2>1, <2>2 DEF Sorted, Rising
  <2>3. CASE j = Len(f) + 1
    BY <1>1, <1>3, <2>1, <2>3
  <2> QED
    BY <1>1, <2>2, <2>3
<1>6. \A i \in 1 .. Len(h), j \in (k + 1) .. Len(g) : h[i].id < g[j].id
  BY <1>1, <1>4
<1> QED
  BY <1>2, <1>5, <1>6 DEF Sorted, h

\* A new message is written to the second file.
LEMMA SortedWrite ==
  ASSUME NEW f \in Seq(Message), NEW g \in Seq(Message), NEW m \in Message, Sorted(f, g, 1, m.id)
  PROVE  Sorted(f, Append(g, m), 1, m.id + 1)
<1> DEFINE h == Append(g, m)
<1>1. /\ Len(f) \in Nat /\ Len(g) \in Nat /\ Len(h) = Len(g) + 1
      /\ \A i \in 1 .. Len(g) : h[i] = g[i] /\ g[i] \in Message
      /\ h[Len(g) + 1] = m /\ \A i \in 1 .. Len(h) : i \in 1 .. Len(g) \/ i = Len(g) + 1
  BY AppendLaw
<1>2. /\ \A i \in 1 .. Len(f) : f[i].id \in Nat
      /\ \A i \in 1 .. Len(g) : g[i].id \in Nat
      /\ m.id \in Nat
  BY LineLaw DEF Message
<1> HIDE DEF h
<1>3. Below(f, m.id + 1) /\ Below(h, m.id + 1)
  <2>1. \A i \in 1 .. Len(f) : f[i].id < m.id + 1
    BY <1>2 DEF Sorted, Below
  <2>2. \A i \in 1 .. Len(g) : g[i].id < m.id + 1
    BY <1>2 DEF Sorted, Below
  <2>3. \A i \in 1 .. Len(h) : h[i].id < m.id + 1
    BY <1>1, <1>2, <2>2
  <2> QED
    BY <2>1, <2>3 DEF Below
<1>4. Rising(h)
  <2> SUFFICES ASSUME NEW i \in 1 .. Len(h), NEW j \in 1 .. Len(h), i < j PROVE h[i].id < h[j].id
    BY DEF Rising
  <2>1. i \in 1 .. Len(g)
    BY <1>1
  <2>2. CASE j \in 1 .. Len(g)
    BY <1>1, <2>1, <2>2 DEF Sorted, Rising
  <2>3. CASE j = Len(g) + 1
    BY <1>1, <2>1, <2>3 DEF Sorted, Below
  <2> QED
    BY <1>1, <2>2, <2>3
<1>5. \A i \in 1 .. Len(f), j \in 1 .. Len(h) : f[i].id < h[j].id
  BY <1>1 DEF Sorted, Below
<1> QED
  BY <1>3, <1>4, <1>5 DEF Sorted, h

\* An empty file is in order after any.
LEMMA SortedEmpty ==
  ASSUME NEW f, NEW g, NEW k, NEW n, Sorted(f, g, k, n)
  PROVE  Sorted(f, <<>>, 1, n)
BY DEF Sorted, Rising, Below

\* The message being printed is the latest that was logged, and older than it,
\* or than the next, is what the files have; the lines that are copied and not
\* removed yet do not count.
Newest == IF s \in InOnPrint THEN logged ELSE logged + 1
First(d) == IF s \in {"Copy", "Remove"} /\ d = mCurDay THEN pos + 1 ELSE 1
OrderOK ==
  /\ s \in InOnPrint => msg.id = logged
  /\ s \in {"Copy", "Remove"} => pos <= Len(cur[mLogFile])
  /\ ~ torn /\ ~ missed => \A d \in Day : Sorted(store[d], cur[d], First(d), Newest)

\* Each turn of onPrint() and each end of a process keeps the files in order.
LEMMA OrderNext == Inv /\ OrderOK /\ [Next]_vars => OrderOK'
<1> SUFFICES ASSUME Inv, OrderOK, [Next]_vars PROVE OrderOK'
  OBVIOUS
<1>t. /\ logged \in Nat /\ pos \in Nat /\ Newest \in Nat
      /\ \A d \in Day : cur[d] \in Seq(Message) /\ store[d] \in Seq(Message) /\ First(d) \in Nat
                        /\ 1 <= First(d) /\ Len(cur[d]) \in Nat
  BY DEF Inv, TypeOK, Newest, First
<1>m. s \in InOnPrint => msg \in Message
  BY DEF Inv, StateOK
<1>c. s \in {"Copy", "Remove"} /\ ~ missed => mLogFile = mCurDay
  BY DEF Inv, StateOK, FilesOK
<1>f. s = "Ready" /\ ~ missed => mLogFile \in Day
  BY DEF Inv, StateOK, TypeOK
<1>o. ~ torn /\ ~ missed => \A d \in Day : Sorted(store[d], cur[d], First(d), Newest)
  BY DEF OrderOK
<1>1. CASE \E d \in Day : NewMessage(d)
  <2>1. PICK d \in Day : NewMessage(d)
    BY <1>1
  <2>2. /\ cur' = cur /\ store' = store /\ s' = "Start" /\ msg'.id = logged + 1 /\ logged' = logged + 1
        /\ torn' = torn /\ missed' = missed /\ s = "idle"
    BY <2>1 DEF NewMessage, files
  <2>3. Newest' = Newest /\ \A e \in Day : First(e)' = First(e)
    BY <2>2 DEF Newest, First, InOnPrint
  <2> QED
    BY <1>o, <2>2, <2>3 DEF OrderOK
<1>2. CASE Start \/ CurFileFull
  <2>1. /\ s \in {"Start", "Ready"} /\ s' \in {"PreOpenCurFile", "Dump", "Ready"}
        /\ UNCHANGED <<msg, mLogFile, mCurDay, files, pos, accounts>>
    BY <1>2, StartLaw, Zenon DEF Start, CurFileFull
  <2>2. Newest' = Newest /\ \A e \in Day : First(e)' = First(e)
    BY <2>1 DEF Newest, First, InOnPrint, accounts
  <2> QED
    BY <1>o, <2>1, <2>2 DEF OrderOK, InOnPrint, files, accounts
<1>3. CASE PreOpenCurFile
  <2>1. /\ s = "PreOpenCurFile" /\ s' \in {"Ready", "idle"}
        /\ UNCHANGED <<msg, cur, store, logged, torn, missed>>
    BY <1>3 DEF PreOpenCurFile
  <2>2. Newest' \in {Newest, Newest + 1} /\ \A e \in Day : First(e)' = First(e)
    BY <2>1 DEF Newest, First, InOnPrint
  <2>3. \A e \in Day : Sorted(store[e], cur[e], First(e), Newest) => Sorted(store[e], cur[e], First(e)', Newest')
    BY <1>t, <2>2, SortedLess
  <2> QED
    BY <1>o, <2>1, <2>3 DEF OrderOK, InOnPrint
<1>4. CASE Dump
  <2>1. /\ s = "Dump" /\ s' \in {"Copy", "Remove"} /\ pos' = 0
        /\ UNCHANGED <<msg, mLogFile, mCurDay, files, logged, torn, missed>>
    BY <1>4 DEF Dump
  <2>2. Newest' = Newest /\ \A e \in Day : First(e)' = First(e)
    BY <2>1 DEF Newest, First, InOnPrint
  <2>3. mLogFile \in Day
    BY <2>1 DEF Inv, StateOK, TypeOK
  <2> QED
    BY <1>o, <1>t, <2>1, <2>2, <2>3 DEF OrderOK, InOnPrint, files
<1>5. CASE CopyBlock
  <2>1. /\ s = "Copy" /\ mLogFile \in Day /\ mCurDay \in Day /\ pos < Len(cur[mLogFile])
        /\ UNCHANGED <<msg, mLogFile, mCurDay, cur, logged, torn, missed>>
        /\ s' \in {"Copy", "Remove"} /\ pos' \in {pos, pos + 1}
    BY <1>5 DEF CopyBlock, Inv, StateOK, TypeOK
  <2>2. /\ \/ /\ pos' = pos + 1
             /\ store' = [store EXCEPT ![mCurDay] = Append(@, cur[mLogFile][pos + 1])]
          \/ store' = store
    BY <1>5 DEF CopyBlock
  <2>3. msg'.id = logged' /\ pos' <= Len(cur'[mLogFile'])
    BY <1>t, <2>1 DEF OrderOK, InOnPrint
  <2>4. Newest' = Newest /\ \A e \in Day : First(e) <= First(e)' /\ First(e)' \in Nat
    <3>1. Newest' = Newest
      BY <2>1 DEF Newest, InOnPrint
    <3>2. \A e \in Day : /\ e = mCurDay => First(e) = pos + 1 /\ First(e)' = pos' + 1
                         /\ e # mCurDay => First(e) = 1 /\ First(e)' = 1
      BY <2>1 DEF First
    <3>3. pos + 1 <= pos' + 1 /\ pos' + 1 \in Nat
      <4>1. pos' = pos \/ pos' = pos + 1
        BY <2>1
      <4>2. CASE pos' = pos
        BY <1>t, <4>2
      <4>3. CASE pos' = pos + 1
        BY <1>t, <4>3
      <4> QED
        BY <4>1, <4>2, <4>3
    <3>4. ASSUME NEW e \in Day PROVE First(e) <= First(e)' /\ First(e)' \in Nat
      <4>1. CASE e = mCurDay
        BY <3>2, <3>3, <4>1
      <4>2. CASE e # mCurDay
        BY <3>2, <4>2
      <4> QED
        BY <4>1, <4>2
    <3> QED
      BY <3>1, <3>4
  <2>5. ASSUME ~ torn, ~ missed, NEW d \in Day
        PROVE  Sorted(store'[d], cur'[d], First(d)', Newest')
    <3>1. CASE store'[d] = store[d]
      BY <1>o, <1>t, <2>1, <2>4, <2>5, <3>1, SortedLess, SMTT(30)
    <3>2. CASE store'[d] # store[d]
      <4>1. /\ d = mCurDay /\ d = mLogFile /\ pos' = pos + 1
            /\ store'[d] = Append(store[d], cur[d][pos + 1])
        BY <1>c, <2>1, <2>2, <2>5, <3>2 DEF Inv, TypeOK
      <4>2. First(d) = pos + 1 /\ First(d)' = (pos + 1) + 1 /\ pos + 1 \in 1 .. Len(cur[d])
        BY <1>t, <2>1, <4>1 DEF First
      <4>3. Sorted(store[d], cur[d], pos + 1, Newest)
        BY <1>o, <2>5, <4>2
      <4> QED
        BY <1>t, <2>1, <2>4, <4>1, <4>2, <4>3, SortedCopy
    <3> QED
      BY <3>1, <3>2
  <2> QED
    BY <2>1, <2>3, <2>5 DEF OrderOK
<1>6. CASE CopyDone
  <2>1. /\ s = "Copy" /\ s' = "Remove"
        /\ UNCHANGED <<msg, mLogFile, mCurDay, files, pos, accounts>>
    BY <1>6 DEF CopyDone
  <2>2. Newest' = Newest /\ \A e \in Day : First(e)' = First(e)
    BY <2>1 DEF Newest, First, InOnPrint, accounts
  <2> QED
    BY <1>o, <2>1, <2>2 DEF OrderOK, InOnPrint, files, accounts
<1>7. CASE Remove
  <2>1. /\ s = "Remove" /\ s' = "PreOpenCurFile" /\ mCurDay \in Day
        /\ cur' = [cur EXCEPT ![mCurDay] = <<>>] /\ UNCHANGED <<msg, store, accounts>>
    BY <1>7 DEF Remove, Inv, StateOK, TypeOK
  <2>2. Newest' = Newest /\ \A e \in Day : First(e)' = 1 /\ (e # mCurDay => First(e) = 1)
    BY <2>1 DEF Newest, First, InOnPrint, accounts
  <2>3. \A e \in Day : \/ e # mCurDay /\ cur'[e] = cur[e]
                       \/ cur'[e] = <<>>
    BY <2>1 DEF Inv, TypeOK
  <2> QED
    BY <1>o, <2>1, <2>2, <2>3, SortedEmpty DEF OrderOK, InOnPrint, accounts
<1>8. CASE WriteLog
  <2>1. /\ s = "Ready" /\ s' \in {"Dump", "idle"} /\ mLogFile \in Day
        /\ UNCHANGED <<msg, mLogFile, mCurDay, store, pos, logged, torn, missed>>
        /\ \/ cur' = cur
           \/ cur' = [cur EXCEPT ![mLogFile] = Append(@, msg)] /\ s' = "idle"
    BY <1>8 DEF WriteLog, Inv, StateOK, TypeOK
  <2>2. /\ Newest' \in {Newest, Newest + 1} /\ Newest = msg.id /\ (s' = "idle" => Newest' = msg.id + 1)
        /\ \A e \in Day : First(e)' = 1 /\ First(e) = 1
    BY <2>1 DEF OrderOK, Newest, First, InOnPrint
  <2>3. ASSUME ~ torn, ~ missed, NEW d \in Day
        PROVE  Sorted(store'[d], cur'[d], First(d)', Newest')
    <3>1. Sorted(store[d], cur[d], 1, msg.id)
      BY <1>o, <2>2, <2>3
    <3>2. CASE cur'[d] = cur[d]
      BY <1>t, <2>1, <2>2, <3>1, <3>2, SortedLess
    <3>3. CASE cur'[d] # cur[d]
      <4>1. cur'[d] = Append(cur[d], msg) /\ s' = "idle"
        BY <2>1, <3>3 DEF Inv, TypeOK
      <4>2. msg \in Message
        BY <1>m, <2>1 DEF InOnPrint
      <4> QED
        BY <1>t, <2>1, <2>2, <3>1, <4>1, <4>2, SortedWrite
    <3> QED
      BY <3>2, <3>3
  <2> QED
    BY <2>1, <2>3 DEF OrderOK, InOnPrint
<1>9. CASE DeleteEarliestFile \/ Kill
  <2>1. /\ s' = "down" /\ s # "down" /\ UNCHANGED <<msg, cur, store, pos, logged, missed>>
        /\ ~ torn' => ~ torn /\ (s \in {"Copy", "Remove"} => pos <= 0)
    <3>1. CASE DeleteEarliestFile
      BY <3>1 DEF DeleteEarliestFile, files
    <3>2. CASE Kill
      <4>1. torn' = (torn \/ (s \in {"Copy", "Remove"} /\ pos > 0))
        BY <3>2 DEF Kill
      <4>2. ~ torn' => ~ torn /\ (s \in {"Copy", "Remove"} => ~ (pos > 0))
        BY ONLY <4>1
      <4>3. ~ (pos > 0) => pos <= 0
        BY <1>t
      <4> QED
        BY <3>2, <4>2, <4>3 DEF Kill, files
    <3> QED
      BY <1>9, <3>1, <3>2
  <2>2. Newest' \in {Newest, Newest + 1} /\ \A e \in Day : First(e)' = 1 /\ (~ torn' => First(e) = 1)
    BY <1>t, <2>1 DEF Newest, First, InOnPrint
  <2>3. \A e \in Day : Sorted(store[e], cur[e], 1, Newest) => Sorted(store[e], cur[e], 1, Newest')
    BY <1>t, <2>2, SortedLess
  <2> QED
    BY <1>o, <2>1, <2>2, <2>3 DEF OrderOK, InOnPrint
<1>10. CASE OpenRecentFile
  <2>1. /\ s = "down" /\ s' = "idle" /\ UNCHANGED <<msg, store, pos, logged, torn>>
        /\ ~ missed' => ~ missed
        /\ \A e \in Day : cur'[e] \in {cur[e], <<>>}
    BY <1>10 DEF OpenRecentFile
  <2>2. Newest' = Newest /\ \A e \in Day : First(e)' = 1 /\ First(e) = 1
    BY <2>1 DEF Newest, First, InOnPrint
  <2> QED
    BY <1>o, <2>1, <2>2, SortedEmpty DEF OrderOK, InOnPrint
<1>11. CASE UNCHANGED vars
  <2>1. Newest' = Newest /\ \A e \in Day : First(e)' = First(e)
    BY <1>11 DEF Newest, First, vars, accounts
  <2> QED
    BY <1>11, <2>1, <1>o DEF OrderOK, vars, files, accounts
<1> QED
  BY <1>1, <1>2, <1>3, <1>4, <1>5, <1>6, <1>7, <1>8, <1>9, <1>10, <1>11 DEF Next, OnPrint

\* What counts of the two files of a day is in order.
LEMMA SortedIsInOrder ==
  ASSUME NEW f \in Seq(Message), NEW g \in Seq(Message), NEW k \in 1 .. Len(g) + 1, NEW n,
         Sorted(f, g, k, n)
  PROVE  LET all == f \o SubSeq(g, k, Len(g))
         IN  \A i, j \in 1 .. Len(all) : i < j => all[i].id < all[j].id
<1> DEFINE h == SubSeq(g, k, Len(g))
           all == f \o h
<1>1. Len(f) \in Nat /\ Len(g) \in Nat
  OBVIOUS
<1>2. /\ h \in Seq(Message) /\ Len(h) = (Len(g) + 1) - k
      /\ \A i \in 1 .. Len(h) : h[i] = g[i + (k - 1)] /\ i + (k - 1) \in k .. Len(g)
  BY <1>1
<1> HIDE DEF h
<1>3. /\ Len(h) \in Nat /\ Len(all) = Len(f) + Len(h)
      /\ \A i \in 1 .. Len(f) : all[i] = f[i]
      /\ \A i \in Len(f) + 1 .. Len(all) : all[i] = h[i - Len(f)] /\ i - Len(f) \in 1 .. Len(h)
  <2>1. Len(h) \in Nat /\ h \in Seq(Message)
    BY <1>2
  <2>2. Len(all) = Len(f) + Len(h)
    BY <2>1
  <2>3. \A i \in 1 .. Len(f) : all[i] = f[i]
    BY <1>1, <2>1
  <2>4. \A i \in Len(f) + 1 .. Len(f) + Len(h) : all[i] = h[i - Len(f)] /\ i - Len(f) \in 1 .. Len(h)
    BY <1>1, <2>1
  <2> QED
    BY <2>1, <2>2, <2>3, <2>4
<1> HIDE DEF all
<1>4. ASSUME NEW i \in 1 .. Len(all), NEW j \in 1 .. Len(all), i < j
      PROVE  all[i].id < all[j].id
  <2>1. CASE j \in 1 .. Len(f)
    BY <1>1, <1>3, <1>4, <2>1 DEF Sorted, Rising
  <2>2. CASE j \in Len(f) + 1 .. Len(all)
    <3> DEFINE q == (j - Len(f)) + (k - 1)
    <3>1. all[j] = g[q] /\ q \in k .. Len(g)
      BY <1>2, <1>3, <2>2
    <3>2. CASE i \in 1 .. Len(f)
      BY <1>3, <3>1, <3>2 DEF Sorted
    <3>3. CASE i \in Len(f) + 1 .. Len(all)
      <4> DEFINE p == (i - Len(f)) + (k - 1)
      <4>1. all[i] = g[p] /\ p \in k .. Len(g)
        BY <1>2, <1>3, <3>3
      <4>2. p \in 1 .. Len(g) /\ q \in 1 .. Len(g) /\ p < q
        BY <1>1, <1>4, <3>1, <4>1, SMTT(30)
      <4> QED
        BY <3>1, <4>1, <4>2 DEF Sorted, Rising
    <3> QED
      BY <1>1, <1>3, <3>2, <3>3
  <2> QED
    BY <1>1, <1>3, <2>1, <2>2
<1> QED
  BY <1>4 DEF all, h

\* The messages of a day are in its two files in their order and once, but for
\* the copy in progress.
THEOREM FilesAreInOrder == Spec => []InOrder
<1>1. Init => OrderOK
  BY DEF Init, OrderOK, InOnPrint, Sorted, Rising, Below
<1>2. Inv /\ OrderOK => InOrder
  <2> SUFFICES ASSUME Inv, OrderOK, ~ torn, ~ missed, NEW d \in Day
               PROVE  LET all == store[d] \o NotCopied(d)
                      IN  \A i, j \in 1 .. Len(all) : i < j => all[i].id < all[j].id
    BY DEF InOrder
  <2>1. cur[d] \in Seq(Message) /\ store[d] \in Seq(Message) /\ Len(cur[d]) \in Nat /\ pos \in Nat
    BY DEF Inv, TypeOK
  <2>2. First(d) \in 1 .. Len(cur[d]) + 1
    BY <2>1 DEF First, OrderOK, Inv, StateOK, FilesOK
  <2>3. NotCopied(d) = SubSeq(cur[d], First(d), Len(cur[d]))
    <3>1. SubSeq(cur[d], 1, Len(cur[d])) = cur[d]
      BY <2>1
    <3> QED
      BY <3>1 DEF NotCopied, First
  <2>4. Sorted(store[d], cur[d], First(d), Newest)
    BY DEF OrderOK
  <2> QED
    BY <2>1, <2>2, <2>3, <2>4, SortedIsInOrder
<1> QED
  BY InitOK, NextOK, OrderNext, <1>1, <1>2, PTL DEF Spec
=============================================================================
