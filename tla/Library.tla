------------------------------- MODULE Library -------------------------------
(***************************************************************************)
(* The life of the DLL in a process (DllMain, DetourAttach,                *)
(* DetourStartBackground, _background_work), with the configuration it     *)
(* reads (FilterConfig) and the files it writes (LogFiles).                *)
(*                                                                         *)
(* DllMain runs on the thread that loads the DLL; the hooks it attaches    *)
(* run on any thread of the host program from then on, and the background  *)
(* thread beside them.  The process may be killed at any moment and        *)
(* started again; the files stay.  DllMain does nothing for a thread that  *)
(* begins or ends, LOG being there, and nothing at DLL_PROCESS_DETACH      *)
(* (its branch is under if (false)).                                       *)
(***************************************************************************)
EXTENDS FilterConfig, LogFiles

CONSTANTS
  Loader,      \* the thread that loads the DLL; a host thread afterwards
  Background,  \* the thread of _background_work
  MaxRows,     \* sockets in the table when it is cloned (a bound)
  MaxTicks,    \* turns of _background_work in a process (a bound)
  MaxCalls,    \* log calls of the hooks in a process (a bound)
  MaxRestarts  \* kills of the process (a bound)

Hosts == Threads \ {Background}

ASSUME LibraryAssumption ==
  /\ Loader \in Threads /\ Background \in Threads /\ Loader # Background
  /\ MaxRows \in Nat /\ MaxTicks \in Nat /\ MaxCalls \in Nat /\ MaxRestarts \in Nat

VARIABLES
  log,      \* LOG # nullptr
  detoured, \* the hooks are attached
  running,  \* _thread_running
  pc,       \* where DllMain and _background_work are
  shown,    \* sockets in the clone of the table
  todo,     \* those still to be appended to the report
  ticks,    \* reports begun by this process
  calls,    \* log calls the hooks have made
  restarts  \* history: kills so far

process == <<log, detoured, running, pc, shown, todo, ticks>>
vars == <<config, files, process, calls, restarts>>

Labels == {"out", "host", "ensure", "create", "attach", "configure", "parse",
           "commit", "start", "begin", "loop", "sleep", "header", "separator", "rows"}

Goto(t, l) == pc' = [pc EXCEPT ![t] = l]
At(t, l)   == pc[t] = l /\ Quiet(t)
Log(t)     == AppendLine(t, "log", t)

-----------------------------------------------------------------------------
(* The state of a process that has just begun to load the DLL. *)
Beginning == [t \in Threads |-> IF t = Loader THEN "ensure"
                                ELSE IF t = Background THEN "out" ELSE "host"]
Init ==
  /\ ConfigInit /\ FilesInit
  /\ log = FALSE /\ detoured = FALSE /\ running = FALSE
  /\ pc = Beginning
  /\ shown = 0 /\ todo = 0 /\ ticks = 0
  /\ calls = 0
  /\ restarts = 0

-----------------------------------------------------------------------------
(* DllMain, on every call: the directory, then LOG unless it is there.       *)
Ensure ==
  /\ At(Loader, "ensure")
  /\ EnsureFolder
  /\ Goto(Loader, "create")
  /\ UNCHANGED <<config, disk, streams, latch, line, said, log, detoured, running,
                 shown, todo, ticks, calls, restarts>>

(* A helper process of Detours stops here. *)
CreateLog ==
  /\ At(Loader, "create")
  /\ ~log /\ log' = TRUE
  /\ OpenLog
  /\ \E helper \in BOOLEAN : Goto(Loader, IF helper THEN "host" ELSE "attach")
  /\ UNCHANGED <<config, folder, latch, line, said, detoured, running,
                 shown, todo, ticks, calls, restarts>>

(* LOG->Trace("... Starting."), then DetourAttach and Parse. *)
TraceStarting ==
  /\ At(Loader, "attach")
  /\ Log(Loader) /\ Goto(Loader, "configure")
  /\ UNCHANGED <<config, folder, disk, streams, latch, said, log, detoured, running,
                 shown, todo, ticks, calls, restarts>>

(* path::file_exists; the slip attaches the hooks first. *)
CommitFirst == "commit"
AfterFileExists == IF file = NoFile THEN "commit" ELSE "parse"

LoadConfig ==
  /\ At(Loader, "configure")
  /\ Log(Loader) /\ Goto(Loader, AfterFileExists)
  /\ UNCHANGED <<config, folder, disk, streams, latch, said, log, detoured, running,
                 shown, todo, ticks, calls, restarts>>

ParseNext ==
  /\ At(Loader, "parse") /\ left # <<>>
  /\ \E parsed \in RulesOf(Head(left)) :
       /\ ParseLine(parsed)
       /\ IF parsed = <<>> THEN UNCHANGED line ELSE Log(Loader)
  /\ UNCHANGED <<folder, disk, streams, latch, said, process, calls, restarts>>

ParseDone ==
  /\ At(Loader, "parse")
  /\ InstallRules
  /\ Goto(Loader, "commit")
  /\ UNCHANGED <<files, log, detoured, running, shown, todo, ticks, calls, restarts>>

(* DetourTransactionCommit may fail; DllMain logs either outcome. *)
Commit ==
  /\ At(Loader, "commit")
  /\ detoured' \in BOOLEAN
  /\ Log(Loader) /\ Goto(Loader, IF detoured' THEN "start" ELSE "host")
  /\ UNCHANGED <<config, folder, disk, streams, latch, said, log, running,
                 shown, todo, ticks, calls, restarts>>

(* The slip creates the thread without having set the flag it looks at. *)
LeaveFlag == UNCHANGED running
SetFlag == running' = TRUE

DetourStartBackground ==
  /\ At(Loader, "start")
  /\ IF running THEN Goto(Loader, "host") /\ UNCHANGED running
     ELSE /\ SetFlag
          /\ pc' = [pc EXCEPT ![Loader] = "host", ![Background] = "begin"]
  /\ UNCHANGED <<config, files, log, detoured, shown, todo, ticks, calls, restarts>>

DllMain == \/ Ensure \/ CreateLog \/ TraceStarting \/ LoadConfig \/ ParseNext
           \/ ParseDone \/ Commit \/ DetourStartBackground

-----------------------------------------------------------------------------
(* _background_work *)

BackgroundStarting ==
  /\ At(Background, "begin")
  /\ Log(Background) /\ Goto(Background, "loop")
  /\ UNCHANGED <<config, folder, disk, streams, latch, said, log, detoured, running,
                 shown, todo, ticks, calls, restarts>>

TickStart ==
  /\ At(Background, "loop") /\ running /\ ticks < MaxTicks
  /\ Log(Background) /\ Goto(Background, "sleep")
  /\ UNCHANGED <<config, folder, disk, streams, latch, said, log, detoured, running,
                 shown, todo, ticks, calls, restarts>>

(* After the second of sleep: the clone, and a new CSocketLog that opens its *)
(* file.                                                                     *)
OpenSocketLog ==
  /\ At(Background, "sleep")
  /\ shown' \in 0..MaxRows /\ todo' = shown'
  /\ ticks' = ticks + 1
  /\ OpenReport
  /\ Goto(Background, "header")
  /\ UNCHANGED <<config, folder, latch, line, said, log, detoured, running, calls, restarts>>

(* CSocketLog::Open, continued: the names of the columns and a line. *)
Header(from, to, text) ==
  /\ At(Background, from) /\ opened["report"]
  /\ AppendLine(Background, "report", text) /\ Goto(Background, to)
  /\ UNCHANGED <<config, folder, disk, streams, latch, said, log, detoured, running,
                 shown, todo, ticks, calls, restarts>>
ColumnNames == Header("header", "separator", "columns")
Dashes      == Header("separator", "rows", "dashes")

(* CSocketLog::Append for each socket of the clone; the slip goes on to its end.*)
RowsLeftOrEnd == todo >= 0
RowsLeft == todo > 0
AppendSocket ==
  /\ At(Background, "rows") /\ RowsLeft
  /\ AppendLine(Background, "report", "socket")
  /\ todo' = todo - 1
  /\ UNCHANGED <<config, folder, disk, streams, latch, said, log, detoured, running,
                 pc, shown, ticks, calls, restarts>>

(* log.Close(); LOG->Debug("... tick end") *)
TickEnd ==
  /\ At(Background, "rows") /\ todo = 0
  /\ Close("report")
  /\ Log(Background) /\ Goto(Background, "loop")
  /\ UNCHANGED <<config, folder, latch, said, log, detoured, running,
                 shown, todo, ticks, calls, restarts>>

Work == \/ BackgroundStarting \/ TickStart \/ OpenSocketLog \/ ColumnNames
        \/ Dashes \/ AppendSocket \/ TickEnd

-----------------------------------------------------------------------------
(* The host program *)

(* A hook logs what it does. *)
HookLogs(t) ==
  /\ At(t, "host") /\ detoured /\ calls < MaxCalls
  /\ Log(t)
  /\ calls' = calls + 1
  /\ UNCHANGED <<config, folder, disk, streams, latch, said, process, restarts>>

Write(t) == WriteLine(t) /\ UNCHANGED <<config, process, calls, restarts>>

(* The process is killed, and started again. *)
Restart ==
  /\ restarts < MaxRestarts
  /\ restarts' = restarts + 1
  /\ StreamsLost
  /\ left' = IF file = NoFile THEN <<>> ELSE file
  /\ vector' = <<>> /\ rules' = <<>>
  /\ log' = FALSE /\ detoured' = FALSE /\ running' = FALSE
  /\ pc' = Beginning
  /\ shown' = 0 /\ todo' = 0 /\ ticks' = 0 /\ calls' = 0
  /\ UNCHANGED file

(* The bounded number of things has happened. *)
Idle ==
  /\ \A t \in Threads : Quiet(t) /\ pc[t] \in {"out", "host", "loop"}
  /\ UNCHANGED vars

Next == \/ DllMain \/ Work \/ Restart \/ Idle
        \/ \E t \in Hosts : HookLogs(t)
        \/ \E t \in Threads : Write(t)

(* The background thread is scheduled, and a thread that writes a line goes  *)
(* on with it once the mutex is free and stays so; hosts make as many calls  *)
(* as they like, or none.                                                    *)
Spec == /\ Init /\ [][Next]_vars
        /\ WF_vars(Work)
        /\ \A t \in Threads : WF_vars(Write(t))

-----------------------------------------------------------------------------
(* Properties *)

(* Every variable keeps the shape the code gives it. *)
TypeOK ==
  /\ FilesOK
  /\ log \in BOOLEAN /\ detoured \in BOOLEAN /\ running \in BOOLEAN
  /\ pc \in [Threads -> Labels]
  /\ shown \in 0..MaxRows /\ todo \in 0..shown
  /\ ticks \in 0..MaxTicks /\ calls \in 0..MaxCalls /\ restarts \in 0..MaxRestarts

(* A hook runs only once everything it uses is there: LOG, with its file     *)
(* open, and the rules of the whole configuration file, which Parse does not *)
(* touch again while CNetworkFilter iterates over them.                      *)
AttachedIsReady ==
  detoured => log /\ opened["log"] /\ left = <<>> /\ rules = vector

(* A report that could be opened holds a header and a line for each socket   *)
(* of the last copy of the table: nothing of the report before it, and       *)
(* nothing missing when the file has been closed.                            *)
Report(n) == <<"columns", Newline, "dashes", Newline>>
             \o [i \in 1..(2 * n) |-> IF i % 2 = 1 THEN "socket" ELSE Newline]
ReportFresh ==
  ticks > 0 /\ good["report"] =>
    /\ IsPrefix(disk["report"], Report(shown))
    /\ opened["report"] \/ disk["report"] = Report(shown)

(* A background thread that has been started finishes a report once the      *)
(* hooks fall silent, as MaxCalls makes them (while they go on, std::mutex   *)
(* promises nothing to a thread that others keep from it): whatever lines    *)
(* were being written when they did, unless the process is killed.           *)
ReportDone ==
  /\ ticks > 0 /\ ~opened["report"]
  /\ good["report"] => disk["report"] = Report(shown)
ReportWritten == pc[Background] = "begin" ~> pc[Background] = "out" \/ ReportDone
=============================================================================
