------------------------------ MODULE LogFiles ------------------------------
(***************************************************************************)
(* The two files the DLL writes (CFile, CLog, CSocketLog): the log that    *)
(* every thread writes to, and the report of the sockets that the          *)
(* background thread writes anew every second.                             *)
(*                                                                         *)
(* A line is put together from its text and a newline in a stream that     *)
(* other threads use too, under the mutex of the CFile; it is on the disk  *)
(* only once the stream is flushed.  When the process ends, whatever is in *)
(* its streams is lost and what is on the disk stays.  A text is told by   *)
(* the thread that wrote it (log) or its place in the report; one line     *)
(* always fits into a stream's buffer (a bound).                           *)
(***************************************************************************)
EXTENDS Integers, Sequences, SequencesExt, FiniteSets

CONSTANTS
  Threads, \* threads of the process
  Newline, \* the piece std::endl adds to a line
  NoText,  \* no line is being written
  Nobody,  \* owner of a free mutex
  Absent   \* the file does not exist

Objects == {"log", "report"}
Rows    == {"columns", "dashes", "socket"}
Pieces  == Threads \cup Rows \cup {Newline}
Steps   == {"none", "lock", "text", "endl"}

ASSUME LogAssumption ==
  /\ Nobody \notin Threads /\ Newline \notin Threads
  /\ NoText \notin Threads /\ NoText # Newline
  /\ Absent \notin Seq(Pieces)

VARIABLES
  folder, \* the directory of both files exists
  disk,   \* contents of each file, a sequence of pieces
  opened, \* _open of each CFile
  good,   \* the state of its _file
  buffer, \* what _file has still to write
  latch,  \* owner of its _syncRoot
  line,   \* the AppendLine each thread is in: its step, CFile and text
  said    \* history: lines of the log each thread has written to a good stream

streams == <<opened, good, buffer>>
files   == <<folder, disk, opened, good, buffer, latch, line, said>>

LineOf(s, o, x) == [step |-> s, object |-> o, text |-> x]
NoLine == LineOf("none", "log", NoText)
GoOn(t, s) == line' = [line EXCEPT ![t] = LineOf(s, line[t].object, line[t].text)]

-----------------------------------------------------------------------------
(* CFile::Open, one section of the mutex.  _open is set whether or not the   *)
(* stream could be opened, which any one open may fail to do and none can    *)
(* without the directory; nothing happens to a file that is open already.    *)
(* The slips: each file is opened the way the other one should be.           *)
EmptiedOnOpen(old) == <<>>
KeptOnOpen(old) == IF old = Absent THEN <<>> ELSE old

Truncated(old) == <<>>
Continued(old) == IF old = Absent THEN <<>> ELSE old

Open(o, contents) ==
  /\ latch[o] = Nobody
  /\ IF opened[o] THEN UNCHANGED <<disk, streams>>
     ELSE /\ opened' = [opened EXCEPT ![o] = TRUE]
          /\ buffer' = [buffer EXCEPT ![o] = <<>>]
          /\ \E opens \in IF folder THEN BOOLEAN ELSE {FALSE} :
               /\ good' = [good EXCEPT ![o] = opens]
               /\ disk' = IF opens THEN [disk EXCEPT ![o] = contents] ELSE disk

OpenLog    == Open("log", Continued(disk["log"]))
OpenReport == Open("report", Truncated(disk["report"]))

(* CFile::Close writes what is left. *)
Flushed(o) == IF good[o] THEN [disk EXCEPT ![o] = @ \o buffer[o]] ELSE disk
Close(o) ==
  /\ latch[o] = Nobody /\ opened[o]
  /\ opened' = [opened EXCEPT ![o] = FALSE]
  /\ disk' = Flushed(o)
  /\ buffer' = [buffer EXCEPT ![o] = <<>>]
  /\ UNCHANGED good

-----------------------------------------------------------------------------
(* CFile::AppendLine *)

Quiet(t) == line[t].step = "none"
AppendLine(t, o, text) == line' = [line EXCEPT ![t] = LineOf("lock", o, text)]

(* BEGIN_LOCK_PTR; the slip is to do without the mutex. *)
LatchAnyway(t, o) == latch' = [latch EXCEPT ![o] = t]
Latch(t, o) == latch[o] = Nobody /\ latch' = [latch EXCEPT ![o] = t]

LockFile(t) ==
  /\ line[t].step = "lock"
  /\ LET o == line[t].object IN
       IF opened[o] THEN Latch(t, o) /\ GoOn(t, "text")
       ELSE latch[o] = Nobody /\ line' = [line EXCEPT ![t] = NoLine] /\ UNCHANGED latch
  /\ UNCHANGED <<folder, disk, streams, said>>

(* this->_file << text *)
PutText(t) ==
  /\ line[t].step = "text"
  /\ LET o == line[t].object IN
       buffer' = IF good[o] THEN [buffer EXCEPT ![o] = Append(@, line[t].text)] ELSE buffer
  /\ GoOn(t, "endl")
  /\ UNCHANGED <<folder, disk, opened, good, latch, said>>

(* << std::endl, which adds a newline and flushes, and the end of the section.*)
(* The slip is "\n" instead of std::endl.                                    *)
NewlineOnly(o) == buffer' = [buffer EXCEPT ![o] = Append(@, Newline)] /\ UNCHANGED disk
Unlatch(o) == latch' = [latch EXCEPT ![o] = Nobody]
Endl(o) ==
  /\ disk' = IF good[o] THEN [disk EXCEPT ![o] = @ \o Append(buffer[o], Newline)] ELSE disk
  /\ buffer' = [buffer EXCEPT ![o] = <<>>]

EndLine(t) ==
  /\ line[t].step = "endl"
  /\ LET o == line[t].object IN
       /\ Endl(o)
       /\ Unlatch(o)
       /\ said' = IF o = "log" /\ good[o] THEN [said EXCEPT ![t] = @ + 1] ELSE said
  /\ line' = [line EXCEPT ![t] = NoLine]
  /\ UNCHANGED <<folder, opened, good>>

WriteLine(t) == LockFile(t) \/ PutText(t) \/ EndLine(t)

-----------------------------------------------------------------------------
(* path::ensure_directory_exists(path::app_data_path()); that CreateDirectory *)
(* fails is not noticed.                                                     *)
EnsureFolder == IF folder THEN UNCHANGED folder ELSE folder' \in BOOLEAN

(* A process that begins has no open file and no thread that writes. *)
Closed   == [o \in Objects |-> FALSE]
Unbuffered == [o \in Objects |-> <<>>]
Unlatched == [o \in Objects |-> Nobody]
NoLines  == [t \in Threads |-> NoLine]

FilesInit ==
  /\ folder = FALSE
  /\ disk = [o \in Objects |-> Absent]
  /\ opened = Closed /\ good = Closed /\ buffer = Unbuffered
  /\ latch = Unlatched /\ line = NoLines
  /\ said = [t \in Threads |-> 0]

(* The process ends. *)
StreamsLost ==
  /\ opened' = Closed /\ good' = Closed /\ buffer' = Unbuffered
  /\ latch' = Unlatched /\ line' = NoLines
  /\ UNCHANGED <<folder, disk, said>>

-----------------------------------------------------------------------------
(* Properties *)

(* Part of Library's type invariant. *)
FilesOK ==
  /\ folder \in BOOLEAN
  /\ disk \in [Objects -> Seq(Pieces) \cup {Absent}]
  /\ opened \in [Objects -> BOOLEAN] /\ good \in [Objects -> BOOLEAN]
  /\ buffer \in [Objects -> Seq(Pieces)]
  /\ latch \in [Objects -> Threads \cup {Nobody}]
  /\ line \in [Threads -> [step: Steps, object: Objects, text: Threads \cup Rows \cup {NoText}]]
  /\ said \in [Threads -> Nat]

(* Lines of several threads never run into each other, not even when the     *)
(* process is killed in the middle of one.                                   *)
WholeLines ==
  disk["log"] # Absent =>
    \A i \in DOMAIN disk["log"] : (disk["log"][i] = Newline) = (i % 2 = 0)

LinesBy(t, s) == {i \in DOMAIN s : s[i] = t}

(* A line that AppendLine gave to a stream that could be opened is on the    *)
(* disk for good when AppendLine returns, and only once: none was left in a  *)
(* stream, none has been overwritten since, and none is written again.       *)
LoggedIsOnDisk ==
  \A t \in Threads : said[t] > 0 =>
    /\ disk["log"] # Absent
    /\ Cardinality(LinesBy(t, disk["log"])) = said[t]

(* Nothing that is in the log is ever taken out of it, across restarts too.  *)
LogOnlyGrows ==
  [][disk["log"] = Absent \/ IsPrefix(disk["log"], disk["log"]')]_files
=============================================================================
