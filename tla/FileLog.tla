------------------------------- MODULE FileLog -------------------------------
(***************************************************************************)
(* The class FileLog (src/log/file_log.cpp) with the names that            *)
(* FileLogImpl gives to its files (src/log/log_impl.cpp): messages are     *)
(* appended to the current file of a day; when the day changes, or the     *)
(* file is full, its content moves to the stored file of its day.  The     *)
(* process may be killed at any point, and opens the most recent current   *)
(* file when it starts again.                                              *)
(*                                                                         *)
(* Current and stored files are in one directory (main.cpp: "/tmp") and    *)
(* are named for their day, so that a day stands for a file.  The log      *)
(* thread alone calls onPrint(): an action is one turn of its switch, or   *)
(* one block of the copying in between.                                    *)
(***************************************************************************)
EXTENDS Integers, Sequences

CONSTANTS
  FILE_SIZE,    \* messages that fill a file; a block of the copy is one message
  Day,          \* the days on which a message is logged, numbers
  MaxMessages,  \* bound: messages logged
  MaxFaults,    \* bound: calls of the file system that fail
  MaxKills      \* bound: deaths of the process

\* The calendar of the program ends: among some days one is the latest.
ASSUME FileLogAssumption ==
  /\ FILE_SIZE \in Nat \ {0} /\ Day \subseteq Nat
  /\ \A D \in SUBSET Day : D # {} => \E d \in D : \A other \in D : other <= d
  /\ {MaxMessages, MaxFaults, MaxKills} \subseteq Nat

VARIABLES
  s,         \* where onPrint() is: its EState; "Copy" and "Remove" are inside
             \* State_Dump; "idle" between two messages; "down" without a process
  msg,       \* the message being printed
  mLogFile,  \* the day that the open current file is named for, or NoDay
  mCurDay,
  present,   \* the current files that exist
  cur,       \* the messages in the current file of each day
  store,     \* the messages in the stored file of each day
  pos,       \* how many messages of the current file are copied
  logged,    \* how many messages were given to onPrint()
  written,   \* those that _writeLog() has written
  faults, kills,
  damaged,   \* whether a copy was given up
  torn,      \* whether the process died after a copy had begun
  missed     \* whether a recent file could not be opened at a start

files    == <<present, cur, store>>
accounts == <<logged, written, faults, kills, damaged, torn, missed>>
vars     == <<s, msg, mLogFile, mCurDay, files, pos, accounts>>

Message == [id : Nat, day : Day]

\* No file; also the day of time 0, on which nothing is logged.
NoDay == -1

\* A call of the file system fails.
Fault == faults < MaxFaults /\ faults' = faults + 1

Init ==
  /\ s = "idle" /\ msg = <<>>
  /\ mLogFile = NoDay /\ mCurDay = NoDay
  /\ present = {} /\ cur = [d \in Day |-> <<>>] /\ store = [d \in Day |-> <<>>]
  /\ pos = 0
  /\ logged = 0 /\ written = {}
  /\ faults = 0 /\ kills = 0
  /\ damaged = FALSE /\ torn = FALSE /\ missed = FALSE

-----------------------------------------------------------------------------
(* onPrint().                                                              *)

NewMessage(d) ==
  /\ s = "idle" /\ logged < MaxMessages
  /\ msg' = [id |-> logged + 1, day |-> d]
  /\ logged' = logged + 1
  /\ s' = "Start"
  /\ UNCHANGED <<mLogFile, mCurDay, files, pos, written, faults, kills, damaged, torn, missed>>

\* MUTANT of Start: the day is not looked at.
StartAnyDay ==
  /\ s = "Start"
  /\ s' = IF mLogFile = NoDay THEN "PreOpenCurFile" ELSE "Ready"
  /\ UNCHANGED <<msg, mLogFile, mCurDay, files, pos, accounts>>

Start ==
  /\ s = "Start"
  /\ s' = CASE mLogFile = NoDay   -> "PreOpenCurFile"
            [] mLogFile # NoDay /\ mCurDay # msg.day -> "Dump"
            [] OTHER              -> "Ready"
  /\ UNCHANGED <<msg, mLogFile, mCurDay, files, pos, accounts>>

PreOpenCurFile ==
  /\ s = "PreOpenCurFile"
  /\ mCurDay' = msg.day
  /\ \/ /\ s' = "Ready" /\ mLogFile' = msg.day
        /\ present' = present \cup {msg.day}
        /\ UNCHANGED faults
     \/ /\ Fault
        /\ s' = "idle"
        /\ UNCHANGED <<mLogFile, present>>
  /\ UNCHANGED <<msg, cur, store, pos, logged, written, kills, damaged, torn, missed>>

\* There is room on the disk: _dump() opens the stored file and goes back to
\* the start of the current one.
Dump ==
  /\ s = "Dump"
  /\ \/ s' = "Copy" /\ UNCHANGED <<faults, damaged>>
     \/ /\ Fault
        /\ s' = "Remove" /\ damaged' = (damaged \/ cur[mLogFile] # <<>>)
  /\ pos' = 0
  /\ UNCHANGED <<msg, mLogFile, mCurDay, files, logged, written, kills, torn, missed>>

\* There is not: _deleteEarliestFile() meets the current file in the directory
\* and passes the null pointer `datestr' to strstr(), which ends the process.
DeleteEarliestFile ==
  /\ s = "Dump" /\ kills < MaxKills
  /\ s' = "down" /\ kills' = kills + 1
  /\ mLogFile' = NoDay /\ mCurDay' = NoDay
  /\ UNCHANGED <<msg, files, pos, logged, written, faults, damaged, torn, missed>>

\* A block that cannot be written ends the copy; one of which write() takes a
\* part counts as written.
CopyBlock ==
  /\ s = "Copy" /\ pos < Len(cur[mLogFile])
  /\ \/ /\ store' = [store EXCEPT ![mCurDay] = Append(@, cur[mLogFile][pos + 1])]
        /\ pos' = pos + 1
        /\ UNCHANGED <<s, faults, damaged>>
     \/ /\ Fault
        /\ damaged' = TRUE
        /\ \/ s' = "Remove" /\ UNCHANGED pos
           \/ pos' = pos + 1 /\ UNCHANGED s
        /\ UNCHANGED store
  /\ UNCHANGED <<msg, mLogFile, mCurDay, present, cur, logged, written, kills, torn, missed>>

\* MUTANT of CopyDone: the last block is not copied.
CopyDoneEarly ==
  /\ s = "Copy" /\ pos >= Len(cur[mLogFile]) - 1
  /\ s' = "Remove"
  /\ UNCHANGED <<msg, mLogFile, mCurDay, files, pos, accounts>>

CopyDone ==
  /\ s = "Copy" /\ pos = Len(cur[mLogFile])
  /\ s' = "Remove"
  /\ UNCHANGED <<msg, mLogFile, mCurDay, files, pos, accounts>>

\* MUTANT of Remove: the current file stays.
RemoveNothing ==
  /\ s = "Remove"
  /\ mLogFile' = NoDay /\ mCurDay' = NoDay
  /\ s' = "PreOpenCurFile"
  /\ UNCHANGED <<msg, files, pos, accounts>>

\* The rest of State_Dump, whatever became of the copy.
Remove ==
  /\ s = "Remove"
  /\ present' = present \ {mCurDay} /\ cur' = [cur EXCEPT ![mCurDay] = <<>>]
  /\ mLogFile' = NoDay /\ mCurDay' = NoDay
  /\ s' = "PreOpenCurFile"
  /\ UNCHANGED <<msg, store, pos, accounts>>

\* _writeLog(): what is written stays in the file although fflush() may fail
\* later; a failed fflush() drops the message from the buffer and is answered
\* like a full file; other failures end onPrint().
Full == Len(cur[mLogFile]) >= FILE_SIZE

\* MUTANT of WriteLog: a message whose fflush() fails is in the file.
WriteLogTwice ==
  /\ s = "Ready" /\ ~ Full
  /\ cur' = [cur EXCEPT ![mLogFile] = Append(@, msg)]
  /\ \/ s' = "idle" /\ written' = written \cup {msg} /\ UNCHANGED faults
     \/ s' = "Dump" /\ Fault /\ UNCHANGED written
  /\ UNCHANGED <<msg, mLogFile, mCurDay, present, store, pos, logged, kills, damaged, torn, missed>>

WriteLog ==
  /\ s = "Ready" /\ ~ Full
  /\ \/ /\ cur' = [cur EXCEPT ![mLogFile] = Append(@, msg)]
        /\ s' = "idle" /\ written' = written \cup {msg}
        /\ UNCHANGED faults
     \/ /\ Fault
        /\ s' \in {"Dump", "idle"}
        /\ UNCHANGED <<cur, written>>
  /\ UNCHANGED <<msg, mLogFile, mCurDay, present, store, pos, logged, kills, damaged, torn, missed>>

CurFileFull ==
  /\ s = "Ready" /\ Full
  /\ s' = "Dump"
  /\ UNCHANGED <<msg, mLogFile, mCurDay, files, pos, accounts>>

-----------------------------------------------------------------------------
(* The end of a process, and openRecentFile() in the next.                 *)

Kill ==
  /\ s # "down" /\ kills < MaxKills
  /\ s' = "down" /\ kills' = kills + 1
  /\ torn' = (torn \/ (s \in {"Copy", "Remove"} /\ pos > 0))
  /\ mLogFile' = NoDay /\ mCurDay' = NoDay
  /\ UNCHANGED <<msg, files, pos, logged, written, faults, damaged, missed>>

\* The latest file is the one with the fewest days between it and today, the
\* least number even below zero.  The others are removed, and the file that
\* readdir() named last is opened.
Latest == CHOOSE d \in present : \A other \in present : other <= d

OpenRecentFile ==
  /\ s = "down" /\ s' = "idle"
  /\ IF present = {} THEN UNCHANGED <<mLogFile, mCurDay, present, cur, faults, missed>>
     ELSE \E last \in present :
       /\ cur' = [d \in Day |-> IF d = Latest THEN cur[d] ELSE <<>>]
       /\ \/ /\ present' = {Latest, last}
             /\ mLogFile' = last /\ mCurDay' = Latest
             /\ UNCHANGED <<faults, missed>>
          \/ /\ Fault
             /\ present' = {Latest} /\ missed' = TRUE
             /\ UNCHANGED <<mLogFile, mCurDay>>
  /\ UNCHANGED <<msg, store, pos, logged, written, kills, damaged, torn>>

-----------------------------------------------------------------------------

OnPrint ==
  \/ Start \/ PreOpenCurFile \/ Dump \/ CopyBlock \/ CopyDone \/ Remove
  \/ WriteLog \/ CurFileFull

Next ==
  \/ \E d \in Day : NewMessage(d)
  \/ OnPrint \/ DeleteEarliestFile
  \/ Kill \/ OpenRecentFile

Spec == Init /\ [][Next]_vars

-----------------------------------------------------------------------------
(* Properties.                                                             *)

\* The members, the files and the accounts have their types.
TypeOK ==
  /\ s \in {"idle", "Start", "PreOpenCurFile", "Dump", "Copy", "Remove", "Ready", "down"}
  /\ msg \in Message \cup {<<>>}
  /\ {mLogFile, mCurDay} \subseteq Day \cup {NoDay}
  /\ present \subseteq Day
  /\ cur \in [Day -> Seq(Message)] /\ store \in [Day -> Seq(Message)]
  /\ pos \in Nat /\ logged \in Nat
  /\ written \subseteq Message
  /\ faults \in Nat /\ kills \in Nat
  /\ {damaged, torn, missed} \subseteq BOOLEAN

\* There is one current file at most, and while it is open it is the one that
\* mCurDay names, wherever the process was killed: only so does
\* openRecentFile() open the file that it keeps, and the dump remove the file
\* that it has copied.  A recent file that could not be opened at a start may
\* stay beside a newer one, and then neither is so.
OneCurrentFile ==
  ~ missed =>
    /\ \A d, e \in present : d = e
    /\ mLogFile # NoDay => mLogFile = mCurDay /\ mLogFile \in present
    /\ \A d \in Day : cur[d] # <<>> => d \in present

\* The lines of a file, current or stored, are of the day it is named for.
FiledByDay ==
  ~ missed => \A d \in Day :
    /\ \A i \in 1 .. Len(cur[d]) : cur[d][i].day = d
    /\ \A i \in 1 .. Len(store[d]) : store[d][i].day = d

\* What was written is in a file, current or stored, unless a copy failed: no
\* kill, rotation or restart loses it.
InFile(m, file) == \E i \in 1 .. Len(file) : file[i] = m
NothingLost ==
  ~ damaged /\ ~ missed =>
    \A m \in written : InFile(m, cur[m.day]) \/ InFile(m, store[m.day])

\* The messages of a day are in its two files in their order and once, but for
\* the copy in progress, unless the process died before it had removed what it
\* had copied.
NotCopied(d) ==
  IF s \in {"Copy", "Remove"} /\ d = mCurDay THEN SubSeq(cur[d], pos + 1, Len(cur[d]))
  ELSE cur[d]
InOrder ==
  ~ torn /\ ~ missed => \A d \in Day :
    LET all == store[d] \o NotCopied(d)
    IN  \A i, j \in 1 .. Len(all) : i < j => all[i].id < all[j].id

=============================================================================
