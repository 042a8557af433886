--------------------------- MODULE Library_proofs ---------------------------
(***************************************************************************)
(* What TLAPS proves of Library, for any number of threads, any            *)
(* configuration file, however often the process is killed and started     *)
(* again: the shape of the state, what is there when a hook runs, that     *)
(* the log is made of whole lines, only grows and holds each line once,    *)
(* that the rules are those of the file, and that the report holds a line  *)
(* for each socket of the last copy of the table.                          *)
(***************************************************************************)
EXTENDS Library, FilterConfig_proofs, LogFiles_proofs

(* Every step of Library is a step of the files. *)
LEMMA StepOfFiles == [Next]_vars => FileStep
<1> SUFFICES ASSUME [Next]_vars PROVE FileStep
  OBVIOUS
<1> USE LibraryAssumption DEF streams
<1>1. \A t \in Threads : Quiet(t) /\ Log(t) => Call(t, "log", t)
  BY DEF Log, Call
<1>2. "log" \in Objects /\ "report" \in Objects /\ Threads \subseteq Threads \cup Rows
  BY DEF Objects
<1>3. ASSUME NEW t \in Threads, Quiet(t), Log(t),
             UNCHANGED <<folder, disk, streams, latch, said>>
      PROVE  FileStep
  <2>1. Call(t, "log", t) /\ t \in Threads \cup Rows
    BY <1>1, <1>3
  <2> QED
    BY <1>2, <1>3, <2>1 DEF FileStep
<1>4. ASSUME UNCHANGED files PROVE FileStep
  BY <1>4 DEF FileStep
<1>5. CASE Ensure
  BY <1>5 DEF Ensure, FileStep
<1>6. CASE CreateLog
  BY <1>6 DEF CreateLog, FileStep
<1>7. CASE TraceStarting
  BY <1>3, <1>7 DEF TraceStarting, At
<1>8. CASE LoadConfig
  BY <1>3, <1>8 DEF LoadConfig, At
<1>9. CASE ParseNext
  <2>1. /\ Quiet(Loader) /\ UNCHANGED <<folder, disk, streams, latch, said>>
        /\ line' = line \/ Log(Loader)
    BY <1>9 DEF ParseNext, At
  <2>2. CASE line' = line
    BY <1>4, <2>1, <2>2 DEF files
  <2>3. CASE Log(Loader)
    BY <1>3, <2>1, <2>3
  <2> QED
    BY <2>1, <2>2, <2>3
<1>10. CASE ParseDone
  BY <1>4, <1>10 DEF ParseDone
<1>11. CASE Commit
  BY <1>3, <1>11 DEF Commit, At
<1>12. CASE DetourStartBackground
  BY <1>4, <1>12 DEF DetourStartBackground
<1>13. CASE BackgroundStarting
  BY <1>3, <1>13 DEF BackgroundStarting, At
<1>14. CASE TickStart
  BY <1>3, <1>14 DEF TickStart, At
<1>15. CASE OpenSocketLog
  BY <1>15 DEF OpenSocketLog, FileStep
<1>16. ASSUME NEW x \in Rows, Quiet(Background), AppendLine(Background, "report", x),
              UNCHANGED <<folder, disk, streams, latch, said>>
       PROVE  FileStep
  <2>1. Call(Background, "report", x) /\ x \in Threads \cup Rows
    BY <1>16 DEF Call
  <2> QED
    BY <1>2, <1>16, <2>1 DEF FileStep
<1>17. CASE ColumnNames
  BY <1>16, <1>17 DEF ColumnNames, Header, At, Rows
<1>18. CASE Dashes
  BY <1>16, <1>18 DEF Dashes, Header, At, Rows
<1>19. CASE AppendSocket
  BY <1>16, <1>19 DEF AppendSocket, At, Rows
<1>20. CASE TickEnd
  <2>1. Call(Background, "log", Background) /\ Close("report") /\ UNCHANGED <<folder, latch, said>>
    BY <1>1, <1>20 DEF TickEnd, At
  <2> QED
    BY <2>1 DEF FileStep
<1>21. CASE Restart
  BY <1>21 DEF Restart, FileStep
<1>22. CASE Idle
  BY <1>4, <1>22 DEF Idle, vars
<1>23. ASSUME NEW t \in Hosts, HookLogs(t) PROVE FileStep
  BY <1>3, <1>23 DEF HookLogs, At, Hosts
<1>24. ASSUME NEW t \in Threads, Write(t) PROVE FileStep
  BY <1>24 DEF Write, FileStep
<1>25. CASE UNCHANGED vars
  BY <1>4, <1>25 DEF vars
<1> QED
  BY <1>5, <1>6, <1>7, <1>8, <1>9, <1>10, <1>11, <1>12, <1>13, <1>14, <1>15, <1>17,
     <1>18, <1>19, <1>20, <1>21, <1>22, <1>23, <1>24, <1>25 DEF Next, DllMain, Work

-----------------------------------------------------------------------------
(* The files *)

(* What CFile keeps true of both files, of its lock and its buffers.         *)
THEOREM FilesInvariant == Spec => []FInv
<1>1. Init => FInv
  BY FilesInitInvariant DEF Init
<1>2. FInv /\ [Next]_vars => FInv'
  BY StepOfFiles, FilesStepInvariant
<1> QED
  BY <1>1, <1>2, PTL DEF Spec

(* Lines of several threads never run into each other, whichever of them     *)
(* write, and wherever the process is killed (CFile::AppendLine).            *)
THEOREM LinesStayWhole == Spec => []WholeLines
<1>1. FInv => WholeLines
  BY WholeSoFar
<1> QED
  BY <1>1, FilesInvariant, PTL

(* What is in the log stays in it, when it is opened again by the next       *)
(* process too (CLog::CLog).                                                 *)
THEOREM LogIsNeverCut == Spec => LogOnlyGrows
<1>1. FInv /\ [Next]_vars =>
        [disk["log"] = Absent \/ IsPrefix(disk["log"], disk["log"]')]_files
  BY StepOfFiles, StepKeepsLog
<1> QED
  BY <1>1, FilesInvariant, PTL DEF Spec, LogOnlyGrows

(* Every line that a thread has written to a good stream is on the disk once *)
(* AppendLine has returned, for good and only once (CFile::AppendLine).      *)
THEOREM WrittenIsOnDisk == Spec => []LoggedIsOnDisk
<1>1. Init => Counted
  <2> SUFFICES ASSUME Init PROVE Counted
    OBVIOUS
  <2>1. "log" \in Objects
    BY DEF Objects
  <2> QED
    BY <2>1 DEF Init, FilesInit, Counted
<1>2. FInv /\ Counted /\ [Next]_vars => Counted'
  BY StepOfFiles, StepCounts
<1>3. Counted => LoggedIsOnDisk
  BY DEF Counted, LoggedIsOnDisk
<1> QED
  BY <1>1, <1>2, <1>3, FilesInvariant, PTL DEF Spec

-----------------------------------------------------------------------------
(* The configuration *)

LEMMA StepOfConfig == ConfigInv /\ [Next]_vars => ConfigInv'
<1> SUFFICES ASSUME ConfigInv, [Next]_vars PROVE ConfigInv'
  OBVIOUS
<1>1. ASSUME UNCHANGED config PROVE ConfigInv'
  BY <1>1, ConfigUntouched
<1>2. CASE Ensure
  BY <1>1, <1>2 DEF Ensure
<1>3. CASE CreateLog
  BY <1>1, <1>3 DEF CreateLog
<1>4. CASE TraceStarting
  BY <1>1, <1>4 DEF TraceStarting
<1>5. CASE LoadConfig
  BY <1>1, <1>5 DEF LoadConfig
<1>6. CASE ParseNext
  BY <1>6, LineParsed DEF ParseNext
<1>7. CASE ParseDone
  BY <1>7, RulesInstalled DEF ParseDone
<1>8. CASE Commit
  BY <1>1, <1>8 DEF Commit
<1>9. CASE DetourStartBackground
  BY <1>1, <1>9 DEF DetourStartBackground
<1>10. CASE Work
  BY <1>1, <1>10 DEF Work, BackgroundStarting, TickStart, OpenSocketLog, ColumnNames,
                     Dashes, Header, AppendSocket, TickEnd
<1>11. CASE Restart
  <2>1. ConfigInit'
    BY <1>11 DEF Restart, ConfigInit, ConfigInv
  <2>2. ConfigInit' => ConfigInv'
    BY ConfigBegins, PTL
  <2> QED
    BY <2>1, <2>2
<1>12. CASE Idle \/ UNCHANGED vars
  BY <1>1, <1>12 DEF Idle, vars
<1>13. ASSUME NEW t \in Threads, HookLogs(t) \/ Write(t) PROVE ConfigInv'
  BY <1>1, <1>13 DEF HookLogs, Write
<1> QED
  BY <1>2, <1>3, <1>4, <1>5, <1>6, <1>7, <1>8, <1>9, <1>10, <1>11, <1>12, <1>13
     DEF Next, DllMain, Hosts

(* The rules parsed so far stem from the lines read so far.                  *)
THEOREM ConfigInvariant == Spec => []ConfigInv
<1>1. Init => ConfigInv
  BY ConfigBegins DEF Init
<1> QED
  BY <1>1, StepOfConfig, PTL DEF Spec

(* Every line of the documented format becomes one rule with the meaning     *)
(* written, except that an hour counts as a second, in the order of the      *)
(* file, whatever else stands in the file and whatever the stack holds       *)
(* (CNetworkFilter::Parse).                                                  *)
THEOREM RulesFollowTheFile == Spec => []RulesAsRead
<1>1. ConfigInv => RulesAsRead
  BY ConfigIsAsRead
<1> QED
  BY <1>1, ConfigInvariant, PTL

(* A rule of a documented line matches the sockets whose ends have the       *)
(* address and the port written, and no others (endpoint_parse,              *)
(* CNetworkFilterRule::Match).                                               *)
THEOREM RulesMatchTheirSockets == Spec => []MatchAsWritten
<1>1. ConfigInv => MatchAsWritten
  BY ConfigIsAsRead
<1> QED
  BY <1>1, ConfigInvariant, PTL

-----------------------------------------------------------------------------
(* The control of DllMain and _background_work *)

(* How far DllMain has come, and what it has done by then. *)
Wanted == IF file = NoFile THEN <<>> ELSE file
Progress ==
  /\ pc[Loader] \notin {"ensure", "create"} => log /\ opened["log"]
  /\ pc[Loader] \in {"ensure", "create", "attach", "configure"} =>
       left = Wanted /\ vector = <<>> /\ rules = <<>>
  /\ pc[Loader] = "commit" => left = <<>> /\ rules = vector
  /\ detoured => pc[Loader] \in {"start", "host"} /\ left = <<>> /\ rules = vector

(* A turn is begun only below the bound. *)
TurnCounted == pc[Background] = "sleep" => ticks < MaxTicks

IInv == TypeOK /\ FInv /\ Progress /\ TurnCounted

LEMMA InitInvariant == Init => IInv
<1> SUFFICES ASSUME Init PROVE IInv
  OBVIOUS
<1> USE LibraryAssumption
<1>1. FInv
  BY FilesInitInvariant DEF Init
<1>2. pc[Loader] = "ensure" /\ pc[Background] = "out"
  BY DEF Init, Beginning
<1>3. pc \in [Threads -> Labels]
  BY DEF Init, Beginning, Labels
<1>4. TypeOK
  <2>1. /\ shown \in 0..MaxRows /\ todo \in 0..shown
        /\ ticks \in 0..MaxTicks /\ calls \in 0..MaxCalls /\ restarts \in 0..MaxRestarts
    <3>1. shown = 0 /\ todo = 0 /\ ticks = 0 /\ calls = 0 /\ restarts = 0
      BY DEF Init
    <3> QED
      BY <3>1
  <2>2. log \in BOOLEAN /\ detoured \in BOOLEAN /\ running \in BOOLEAN
    BY DEF Init
  <2> QED
    BY <1>1, <1>3, <2>1, <2>2 DEF TypeOK, FInv
<1>5. Progress
  BY <1>2 DEF Progress, Init, ConfigInit, Wanted
<1>6. TurnCounted
  BY <1>2 DEF TurnCounted
<1> QED
  BY <1>1, <1>4, <1>5, <1>6 DEF IInv

(* What a step of DllMain changes beside the files.                          *)
LEMMA LoaderGoes ==
  ASSUME TypeOK, NEW l \in Labels, Goto(Loader, l)
  PROVE  /\ pc' \in [Threads -> Labels]
         /\ pc'[Loader] = l /\ pc'[Background] = pc[Background]
  BY LibraryAssumption DEF TypeOK, Goto

LEMMA BackgroundGoes ==
  ASSUME TypeOK, NEW l \in Labels, Goto(Background, l)
  PROVE  /\ pc' \in [Threads -> Labels]
         /\ pc'[Background] = l /\ pc'[Loader] = pc[Loader]
  BY LibraryAssumption DEF TypeOK, Goto

(* The log, once open, is closed only with the process.                      *)
LEMMA LogStaysOpen ==
  ASSUME FInv, NEW o \in Objects, NEW contents, Open(o, contents)
  PROVE  (opened["log"] => opened'["log"]) /\ opened'[o]
<1>1. opened \in [Objects -> BOOLEAN] /\ "log" \in Objects
  BY DEF FInv, FilesOK, Objects
<1>2. opened' = opened \/ opened' = [opened EXCEPT ![o] = TRUE]
  BY DEF Open, streams
<1>3. opened[o] \/ opened' = [opened EXCEPT ![o] = TRUE]
  BY DEF Open
<1> QED
  BY <1>1, <1>2, <1>3

(* DllMain *)
LEMMA LoaderKeeps ==
  ASSUME IInv, FInv', DllMain
  PROVE  (TypeOK /\ Progress /\ TurnCounted)'
<1> USE LibraryAssumption DEF IInv
<1>0. TypeOK /\ FilesOK' /\ "log" \in Objects
  BY DEF FInv, Objects
<1>1. CASE Ensure
  <2>1. Goto(Loader, "create") /\ "create" \in Labels
        /\ UNCHANGED <<config, streams, log, detoured, running, shown, todo, ticks, calls, restarts>>
    BY <1>1 DEF Ensure, Labels
  <2>2. pc[Loader] = "ensure"
    BY <1>1 DEF Ensure, At
  <2> QED
    BY <1>0, <2>1, <2>2, LoaderGoes DEF TypeOK, Progress, TurnCounted, Wanted, config, streams
<1>2. CASE CreateLog
  <2>1. PICK l \in {"host", "attach"} : Goto(Loader, l)
    BY <1>2 DEF CreateLog
  <2>2. l \in Labels
    BY DEF Labels
  <2>3. log' = TRUE /\ opened'["log"]
    BY <1>0, <1>2, LogStaysOpen DEF CreateLog, OpenLog
  <2>4. pc[Loader] = "create" /\ UNCHANGED <<config, detoured, running, shown, todo, ticks, calls, restarts>>
    BY <1>2 DEF CreateLog, At
  <2> QED
    BY <1>0, <2>1, <2>2, <2>3, <2>4, LoaderGoes DEF TypeOK, Progress, TurnCounted, Wanted, config
<1>3. CASE TraceStarting
  <2>1. Goto(Loader, "configure") /\ "configure" \in Labels /\ pc[Loader] = "attach"
        /\ UNCHANGED <<config, streams, log, detoured, running, shown, todo, ticks, calls, restarts>>
    BY <1>3 DEF TraceStarting, At, Labels
  <2> QED
    BY <1>0, <2>1, LoaderGoes DEF TypeOK, Progress, TurnCounted, Wanted, config, streams
<1>4. CASE LoadConfig
  <2>1. Goto(Loader, AfterFileExists) /\ AfterFileExists \in Labels /\ pc[Loader] = "configure"
        /\ UNCHANGED <<config, streams, log, detoured, running, shown, todo, ticks, calls, restarts>>
    BY <1>4 DEF LoadConfig, At, Labels, AfterFileExists
  <2>2. AfterFileExists = "commit" => left = <<>> /\ rules = vector
    BY <2>1 DEF AfterFileExists, Progress, Wanted
  <2>3. AfterFileExists \in {"commit", "parse"}
    BY DEF AfterFileExists
  <2> QED
    BY <1>0, <2>1, <2>2, <2>3, LoaderGoes DEF TypeOK, Progress, TurnCounted, Wanted, config, streams
<1>5. CASE ParseNext
  <2>1. /\ pc[Loader] = "parse"
        /\ UNCHANGED <<streams, log, detoured, running, pc, shown, todo, ticks, calls, restarts>>
    BY <1>5 DEF ParseNext, At, process
  <2> QED
    BY <1>0, <2>1 DEF TypeOK, Progress, TurnCounted, streams
<1>6. CASE ParseDone
  <2>1. /\ Goto(Loader, "commit") /\ "commit" \in Labels /\ pc[Loader] = "parse"
        /\ left' = <<>> /\ rules' = vector'
        /\ UNCHANGED <<files, log, detoured, running, shown, todo, ticks, calls, restarts>>
    BY <1>6 DEF ParseDone, InstallRules, At, Labels
  <2> QED
    BY <1>0, <2>1, LoaderGoes DEF TypeOK, Progress, TurnCounted, files
<1>7. CASE Commit
  <2>1. /\ pc[Loader] = "commit" /\ detoured' \in BOOLEAN
        /\ Goto(Loader, IF detoured' THEN "start" ELSE "host")
        /\ UNCHANGED <<config, streams, log, running, shown, todo, ticks, calls, restarts>>
    BY <1>7 DEF Commit, At
  <2>2. PICK l \in Labels : l = IF detoured' THEN "start" ELSE "host"
    BY DEF Labels
  <2> QED
    BY <1>0, <2>1, <2>2, LoaderGoes DEF TypeOK, Progress, TurnCounted, config, streams
<1>8. CASE DetourStartBackground
  <2>1. /\ pc[Loader] = "start" /\ running' \in BOOLEAN
        /\ UNCHANGED <<config, files, log, detoured, shown, todo, ticks, calls, restarts>>
    BY <1>8 DEF DetourStartBackground, SetFlag, At, TypeOK
  <2>2. /\ pc' \in [Threads -> Labels] /\ pc'[Loader] = "host"
        /\ pc'[Background] \in {pc[Background], "begin"}
    <3>1. \/ pc' = [pc EXCEPT ![Loader] = "host"]
          \/ pc' = [pc EXCEPT ![Loader] = "host", ![Background] = "begin"]
      BY <1>8 DEF DetourStartBackground, Goto
    <3> QED
      BY <1>0, <3>1 DEF TypeOK, Labels
  <2> QED
    BY <1>0, <2>1, <2>2 DEF TypeOK, Progress, TurnCounted, config, files
<1> QED
  BY <1>1, <1>2, <1>3, <1>4, <1>5, <1>6, <1>7, <1>8 DEF DllMain

(* _background_work *)
LEMMA BackgroundKeeps ==
  ASSUME IInv, FInv', Work
  PROVE  (TypeOK /\ Progress /\ TurnCounted)'
<1> USE LibraryAssumption DEF IInv
<1>0. TypeOK /\ FilesOK' /\ "log" \in Objects /\ "report" \in Objects /\ "log" # "report"
  BY DEF FInv, Objects
<1>1. CASE BackgroundStarting
  <2>1. Goto(Background, "loop") /\ "loop" \in Labels
        /\ UNCHANGED <<config, streams, log, detoured, running, shown, todo, ticks, calls, restarts>>
    BY <1>1 DEF BackgroundStarting, Labels
  <2> QED
    BY <1>0, <2>1, BackgroundGoes DEF TypeOK, Progress, TurnCounted, Wanted, config, streams
<1>2. CASE TickStart
  <2>1. Goto(Background, "sleep") /\ "sleep" \in Labels /\ ticks < MaxTicks
        /\ UNCHANGED <<config, streams, log, detoured, running, shown, todo, ticks, calls, restarts>>
    BY <1>2 DEF TickStart, Labels
  <2> QED
    BY <1>0, <2>1, BackgroundGoes DEF TypeOK, Progress, TurnCounted, Wanted, config, streams
<1>3. CASE OpenSocketLog
  <2>1. Goto(Background, "header") /\ "header" \in Labels /\ pc[Background] = "sleep"
        /\ shown' \in 0..MaxRows /\ todo' = shown' /\ ticks' = ticks + 1
        /\ UNCHANGED <<config, log, detoured, running, calls, restarts>>
    BY <1>3 DEF OpenSocketLog, At, Labels
  <2>2. ticks' \in 0..MaxTicks /\ todo' \in 0..shown'
    BY <1>0, <2>1 DEF TypeOK, TurnCounted
  <2>3. opened["log"] => opened'["log"]
    BY <1>0, <1>3, LogStaysOpen DEF OpenSocketLog, OpenReport
  <2>4. /\ pc' \in [Threads -> Labels]
        /\ pc'[Background] = "header" /\ pc'[Loader] = pc[Loader]
    BY <1>0, <2>1, BackgroundGoes
  <2>5. TypeOK'
    BY <1>0, <2>1, <2>2, <2>4 DEF TypeOK
  <2> QED
    BY <2>1, <2>3, <2>4, <2>5 DEF Progress, TurnCounted, Wanted, config
<1>4. CASE ColumnNames \/ Dashes
  <2>1. PICK l \in {"separator", "rows"} : Goto(Background, l)
    BY <1>4 DEF ColumnNames, Dashes, Header
  <2>2. l \in Labels
        /\ UNCHANGED <<config, streams, log, detoured, running, shown, todo, ticks, calls, restarts>>
    BY <1>4 DEF ColumnNames, Dashes, Header, Labels
  <2> QED
    BY <1>0, <2>1, <2>2, BackgroundGoes DEF TypeOK, Progress, TurnCounted, Wanted, config, streams
<1>5. CASE AppendSocket
  <2>1. todo > 0 /\ todo' = todo - 1
        /\ UNCHANGED <<config, streams, log, detoured, running, pc, shown, ticks, calls, restarts>>
    BY <1>5 DEF AppendSocket, RowsLeft
  <2>2. todo' \in 0..shown'
    BY <1>0, <2>1 DEF TypeOK
  <2> QED
    BY <1>0, <2>1, <2>2 DEF TypeOK, Progress, TurnCounted, Wanted, config, streams
<1>6. CASE TickEnd
  <2>1. Goto(Background, "loop") /\ "loop" \in Labels
        /\ UNCHANGED <<config, log, detoured, running, shown, todo, ticks, calls, restarts>>
    BY <1>6 DEF TickEnd, Labels
  <2>2. opened'["log"] = opened["log"]
    BY <1>0, <1>6 DEF TickEnd, Close, TypeOK, FilesOK
  <2> QED
    BY <1>0, <2>1, <2>2, BackgroundGoes DEF TypeOK, Progress, TurnCounted, Wanted, config
<1> QED
  BY <1>1, <1>2, <1>3, <1>4, <1>5, <1>6 DEF Work

(* The host program and the lines written on its threads; a new process.     *)
LEMMA HostKeeps ==
  ASSUME IInv, FInv',
         \/ Restart \/ Idle \/ (\E t \in Hosts : HookLogs(t))
         \/ (\E t \in Threads : Write(t)) \/ UNCHANGED vars
  PROVE  (TypeOK /\ Progress /\ TurnCounted)'
<1> USE LibraryAssumption DEF IInv
<1>0. TypeOK /\ FilesOK'
  BY DEF FInv
<1>1. CASE Restart
  <2>1. pc'[Loader] = "ensure" /\ pc'[Background] = "out" /\ pc' \in [Threads -> Labels]
    BY <1>1 DEF Restart, Beginning, Labels
  <2>2. /\ log' = FALSE /\ detoured' = FALSE /\ running' = FALSE
        /\ left' = (IF file = NoFile THEN <<>> ELSE file) /\ file' = file
        /\ vector' = <<>> /\ rules' = <<>>
    BY <1>1 DEF Restart
  <2>3. /\ shown' \in 0..MaxRows /\ todo' \in 0..shown'
        /\ ticks' \in 0..MaxTicks /\ calls' \in 0..MaxCalls /\ restarts' \in 0..MaxRestarts
    <3>1. shown' = 0 /\ todo' = 0 /\ ticks' = 0 /\ calls' = 0
          /\ restarts < MaxRestarts /\ restarts' = restarts + 1
      BY <1>1 DEF Restart
    <3>2. restarts \in 0..MaxRestarts
      BY DEF TypeOK
    <3> QED
      BY <3>1, <3>2
  <2>4. TypeOK'
    BY <1>0, <2>1, <2>2, <2>3 DEF TypeOK
  <2> QED
    BY <2>1, <2>2, <2>4 DEF Progress, TurnCounted, Wanted
<1>2. ASSUME NEW t \in Hosts, HookLogs(t)
      PROVE  (TypeOK /\ Progress /\ TurnCounted)'
  <2>1. /\ UNCHANGED <<config, streams, process, restarts>>
        /\ calls < MaxCalls /\ calls' = calls + 1
    BY <1>2 DEF HookLogs
  <2>2. calls' \in 0..MaxCalls
    BY <2>1 DEF TypeOK
  <2> QED
    BY <1>0, <2>1, <2>2 DEF TypeOK, Progress, TurnCounted, Wanted, config, process, streams
<1>3. ASSUME NEW t \in Threads, Write(t)
      PROVE  (TypeOK /\ Progress /\ TurnCounted)'
  <2>1. UNCHANGED <<config, opened, process, calls, restarts>>
    BY <1>3 DEF Write, WriteLine, LockFile, PutText, EndLine, streams
  <2> QED
    BY <1>0, <2>1 DEF TypeOK, Progress, TurnCounted, Wanted, config, process
<1>4. CASE Idle \/ UNCHANGED vars
  <2>1. UNCHANGED <<config, files, process, calls, restarts>>
    BY <1>4 DEF Idle, vars
  <2> QED
    BY <1>0, <2>1 DEF TypeOK, Progress, TurnCounted, Wanted, config, process, files
<1> QED
  BY <1>1, <1>2, <1>3, <1>4

(* DllMain and _background_work keep their order, and the files theirs.      *)
THEOREM LibraryInvariant == Spec => []IInv
<1>1. Init => IInv
  BY InitInvariant
<1>2. IInv /\ [Next]_vars => IInv'
  <2> SUFFICES ASSUME IInv, [Next]_vars PROVE IInv'
    OBVIOUS
  <2>1. FInv'
    BY StepOfFiles, FilesStepInvariant DEF IInv
  <2>2. (TypeOK /\ Progress /\ TurnCounted)'
    BY <2>1, LoaderKeeps, BackgroundKeeps, HostKeeps DEF Next
  <2> QED
    BY <2>1, <2>2 DEF IInv
<1> QED
  BY <1>1, <1>2, PTL DEF Spec

(* Every variable keeps the shape the code gives it.                         *)
THEOREM TypeCorrect == Spec => []TypeOK
<1>1. IInv => TypeOK
  BY DEF IInv
<1> QED
  BY <1>1, LibraryInvariant, PTL

(* LOG, its open file and the rules of the whole file are there whenever the *)
(* hooks are attached: DetourAttach parses first and commits afterwards.     *)
THEOREM HooksFindAllReady == Spec => []AttachedIsReady
<1>1. IInv => AttachedIsReady
  BY DEF IInv, Progress, AttachedIsReady
<1> QED
  BY <1>1, LibraryInvariant, PTL
-----------------------------------------------------------------------------
(* The report of the sockets *)

(* What stands at place i of a report. *)
Piece(i) == CASE i = 1 -> "columns" [] i = 3 -> "dashes"
              [] i % 2 = 0 -> Newline [] OTHER -> "socket"
Spells(d, n) == d \in Seq(Pieces) /\ Len(d) = n /\ \A i \in 1..n : d[i] = Piece(i)

LEMMA ReportSpells ==
  ASSUME NEW n \in Nat
  PROVE  Spells(Report(n), 4 + 2 * n)
<1> DEFINE head == <<"columns", Newline, "dashes", Newline>>
           tail == [i \in 1..(2 * n) |-> IF i % 2 = 1 THEN "socket" ELSE Newline]
<1>1. /\ head \in Seq(Pieces) /\ Len(head) = 4
      /\ head[1] = "columns" /\ head[2] = Newline /\ head[3] = "dashes" /\ head[4] = Newline
  BY DEF Pieces, Rows
<1>2. /\ tail \in Seq(Pieces) /\ Len(tail) = 2 * n
      /\ \A i \in 1..(2 * n) : tail[i] = IF i % 2 = 1 THEN "socket" ELSE Newline
  <2>1. 2 * n \in Nat /\ \A i \in 1..(2 * n) : (IF i % 2 = 1 THEN "socket" ELSE Newline) \in Pieces
    BY DEF Pieces, Rows
  <2> QED
    BY <2>1
<1> HIDE DEF head, tail
<1>3. /\ head \o tail \in Seq(Pieces) /\ Len(head \o tail) = 4 + 2 * n
      /\ \A i \in 1..(4 + 2 * n) : (head \o tail)[i] = IF i <= 4 THEN head[i] ELSE tail[i - 4]
  <2>1. /\ head \o tail \in Seq(Pieces) /\ Len(head \o tail) = Len(head) + Len(tail)
        /\ \A i \in 1..(Len(head) + Len(tail)) :
             (head \o tail)[i] = IF i <= Len(head) THEN head[i] ELSE tail[i - Len(head)]
    BY <1>1, <1>2, ConcatProperties
  <2> QED
    BY <1>1, <1>2, <2>1
<1>4. ASSUME NEW i \in 1..(4 + 2 * n) PROVE (head \o tail)[i] = Piece(i)
  <2>1. CASE i \in 1..4
    <3>1. (head \o tail)[i] = head[i]
      BY <1>3, <2>1
    <3>2. i = 1 \/ i = 2 \/ i = 3 \/ i = 4
      BY <2>1
    <3>3. 2 % 2 = 0 /\ 4 % 2 = 0
      OBVIOUS
    <3>4. Piece(1) = "columns" /\ Piece(2) = Newline /\ Piece(3) = "dashes" /\ Piece(4) = Newline
      BY <3>3 DEF Piece
    <3> QED
      BY <1>1, <3>1, <3>2, <3>4
  <2>2. CASE i \notin 1..4
    <3>1. i - 4 \in 1..(2 * n) /\ (i - 4) % 2 = i % 2 /\ i % 2 \in {0, 1} /\ i > 4
      BY <2>2
    <3> QED
      BY <1>2, <1>3, <3>1 DEF Piece
  <2> QED
    BY <2>1, <2>2
<1> QED
  BY <1>3, <1>4 DEF Spells, Report, head, tail

(* What spells the beginning of a report is one. *)
LEMMA SpelledPrefix ==
  ASSUME NEW n \in Nat, NEW m \in 0..(4 + 2 * n), NEW d, Spells(d, m)
  PROVE  /\ IsPrefix(d, Report(n))
         /\ m = 4 + 2 * n => d = Report(n)
<1>1. /\ d \in Seq(Pieces) /\ Len(d) = m /\ \A i \in 1..m : d[i] = Piece(i)
      /\ Report(n) \in Seq(Pieces) /\ Len(Report(n)) = 4 + 2 * n
      /\ \A i \in 1..(4 + 2 * n) : Report(n)[i] = Piece(i)
  BY ReportSpells DEF Spells
<1> DEFINE r == Report(n)
<1> HIDE DEF r
<1>2. /\ d \in Seq(Pieces) /\ r \in Seq(Pieces) /\ Len(d) = m /\ Len(r) = 4 + 2 * n
      /\ \A i \in 1..m : d[i] = r[i]
  BY <1>1 DEF r
<1>3. m = 4 + 2 * n => d = r
  BY <1>2, SeqEqual
<1>4. SubSeq(d, 1, m) = SubSeq(r, 1, m)
  <2>1. /\ SubSeq(d, 1, m) \in Seq(Pieces) /\ SubSeq(r, 1, m) \in Seq(Pieces)
        /\ Len(SubSeq(d, 1, m)) = m /\ Len(SubSeq(r, 1, m)) = m
        /\ \A i \in 1..m : SubSeq(d, 1, m)[i] = d[i] /\ SubSeq(r, 1, m)[i] = r[i]
    BY <1>2
  <2> HIDE DEF r
  <2> QED
    BY <1>2, <2>1, SeqEqual
<1> QED
  BY <1>2, <1>3, <1>4 DEF IsPrefix, r

(* One more line of it. *)
LEMMA SpellsOn ==
  ASSUME NEW k \in Nat, NEW d, Spells(d, 2 * k), NEW x \in Pieces, x = Piece(2 * k + 1)
  PROVE  Spells(d \o Append(<<x>>, Newline), 2 * (k + 1))
<1> DEFINE new == Append(<<x>>, Newline)
<1>1. new \in Seq(Pieces) /\ Len(new) = 2 /\ new[1] = x /\ new[2] = Newline
  BY DEF Pieces
<1> HIDE DEF new
<1>2. /\ d \o new \in Seq(Pieces) /\ Len(d \o new) = 2 * (k + 1)
      /\ \A i \in 1..(2 * k + 2) : (d \o new)[i] = IF i <= 2 * k THEN d[i] ELSE new[i - 2 * k]
  <2>1. d \in Seq(Pieces) /\ Len(d) = 2 * k
    BY DEF Spells
  <2>2. /\ d \o new \in Seq(Pieces) /\ Len(d \o new) = Len(d) + Len(new)
        /\ \A i \in 1..(Len(d) + Len(new)) :
             (d \o new)[i] = IF i <= Len(d) THEN d[i] ELSE new[i - Len(d)]
    BY <1>1, <2>1, ConcatProperties
  <2> QED
    BY <1>1, <2>1, <2>2
<1>3. ASSUME NEW i \in 1..(2 * (k + 1)) PROVE (d \o new)[i] = Piece(i)
  <2>1. CASE i \in 1..(2 * k)
    BY <1>2, <2>1 DEF Spells
  <2>2. CASE i = 2 * k + 1
    BY <1>1, <1>2, <2>2
  <2>3. CASE i = 2 * k + 2
    <3>1. i % 2 = 0 /\ i # 1 /\ i # 3
      BY <2>3
    <3>2. (d \o new)[i] = Newline
      BY <1>1, <1>2, <2>3
    <3> QED
      BY <3>1, <3>2 DEF Piece
  <2>4. i \in 1..(2 * k) \/ i = 2 * k + 1 \/ i = 2 * k + 2
    OBVIOUS
  <2> QED
    BY <2>1, <2>2, <2>3, <2>4
<1> QED
  BY <1>2, <1>3 DEF Spells, new
(* A line of the report is being written ... *)
OnReport(t) == line[t].step # "none" /\ line[t].object = "report"
(* ... and has still to get its newline. *)
Unended == OnReport(Background) /\ line[Background].step = "endl"

(* The lines _background_work has asked for, and those that are written. *)
Showing == {"header", "separator", "rows"}
Sent == IF pc[Background] = "header" THEN 0
        ELSE IF pc[Background] = "separator" THEN 1 ELSE 2 + (shown - todo)
Ended == IF OnReport(Background) THEN Sent - 1 ELSE Sent

(* The background thread begins when DllMain is over, and the report is open  *)
(* while it works on one.                                                    *)
StageOK ==
  /\ pc[Loader] # "host" => pc[Background] = "out"
  /\ pc[Background] \in {"out", "begin", "loop", "sleep"} \cup Showing
  /\ pc[Background] \in {"out", "begin"} => ticks = 0
  /\ pc[Background] \in {"header", "separator"} => todo = shown
  /\ opened["report"] <=> pc[Background] \in Showing

(* The only line on its way to the report is the last one asked for. *)
LineDue ==
  \A t \in Threads : OnReport(t) =>
    /\ t = Background /\ pc[Background] \in {"separator", "rows"}
    /\ line[t].text = Piece(2 * Sent - 1)

(* What the report holds while it is open, and when it has been closed. *)
Underway ==
  pc[Background] \in Showing /\ good["report"] =>
    /\ buffer["report"] = IF Unended THEN <<line[Background].text>> ELSE <<>>
    /\ Spells(disk["report"], 2 * Ended)
Finished ==
  pc[Background] \notin Showing /\ ticks > 0 /\ good["report"] =>
    Spells(disk["report"], 4 + 2 * shown)

ReportInv == StageOK /\ LineDue /\ Underway /\ Finished

(* Steps that have nothing to do with the report. *)
LEMMA ReportUntouched ==
  ASSUME ReportInv,
         \A t \in Threads : /\ OnReport(t)' <=> OnReport(t)
                            /\ OnReport(t) => line'[t] = line[t],
         UNCHANGED <<folder, shown, todo, ticks>>,
         opened'["report"] = opened["report"], good'["report"] = good["report"],
         buffer'["report"] = buffer["report"], disk'["report"] = disk["report"],
         pc'[Background] = pc[Background], pc'[Loader] # "host" => pc[Loader] # "host"
  PROVE  ReportInv'
<1> USE LibraryAssumption
<1>1. StageOK'
  BY DEF ReportInv, StageOK
<1>2. Sent' = Sent /\ Ended' = Ended /\ Unended' = Unended
      /\ (Unended => line'[Background] = line[Background])
  BY DEF Sent, Ended, Unended
<1>3. LineDue'
  BY <1>2 DEF ReportInv, LineDue
<1>4. Underway'
  BY <1>2 DEF ReportInv, Underway
<1>5. Finished'
  BY DEF ReportInv, Finished
<1> QED
  BY <1>1, <1>3, <1>4, <1>5 DEF ReportInv

(* A line for the log is none for the report. *)
LEMMA LogLeavesReport ==
  ASSUME FilesOK, NEW t \in Threads, Quiet(t), Log(t)
  PROVE  \A u \in Threads : /\ OnReport(u)' <=> OnReport(u)
                            /\ OnReport(u) => line'[u] = line[u]
<1>1. line' = [line EXCEPT ![t] = LineOf("lock", "log", t)] /\ line[t].step = "none"
  BY DEF Log, AppendLine, Quiet
<1>2. line'[t].object = "log" /\ \A u \in Threads \ {t} : line'[u] = line[u]
  BY <1>1 DEF FilesOK, LineOf
<1> QED
  BY <1>1, <1>2 DEF OnReport

(* DllMain *)
LEMMA LoaderLeavesReport ==
  ASSUME IInv, ReportInv, DllMain
  PROVE  ReportInv'
<1> USE LibraryAssumption
<1>0. TypeOK /\ FilesOK /\ "report" \in Objects /\ "log" \in Objects /\ "log" # "report"
  BY DEF IInv, FInv, Objects
<1>a. /\ "configure" \in Labels /\ "parse" \in Labels /\ "commit" \in Labels
      /\ "host" \in Labels /\ AfterFileExists \in Labels
      /\ \A l \in Labels : Goto(Loader, l) => pc'[Background] = pc[Background]
  BY <1>0, LoaderGoes DEF Labels, AfterFileExists
<1>1. ASSUME pc[Loader] # "host", pc'[Background] = pc[Background],
             Quiet(Loader), Log(Loader) \/ UNCHANGED line,
             UNCHANGED <<folder, disk, streams, shown, todo, ticks>>
      PROVE  ReportInv'
  <2>1. \A t \in Threads : /\ OnReport(t)' <=> OnReport(t)
                           /\ OnReport(t) => line'[t] = line[t]
    <3>1. CASE Log(Loader)
      BY <1>0, <1>1, <3>1, LogLeavesReport
    <3>2. CASE UNCHANGED line
      BY <3>2 DEF OnReport
    <3> QED
      BY <1>1, <3>1, <3>2
  <2> QED
    BY <1>1, <2>1, ReportUntouched DEF streams
<1>2. CASE Ensure
  <2>1. /\ pc[Loader] = "ensure" /\ Goto(Loader, "create") /\ "create" \in Labels
        /\ UNCHANGED <<disk, streams, line, shown, todo, ticks>>
    BY <1>2 DEF Ensure, At, Labels
  <2>2. pc'[Loader] = "create" /\ pc'[Background] = "out" /\ pc[Background] = "out" /\ ticks = 0
    BY <1>0, <2>1, LoaderGoes DEF ReportInv, StageOK
  <2>3. StageOK'
    BY <2>1, <2>2 DEF ReportInv, StageOK, streams, Showing
  <2>4. \A t \in Threads : ~OnReport(t)'
    BY <2>1, <2>2 DEF ReportInv, LineDue, OnReport
  <2> QED
    BY <2>1, <2>2, <2>3, <2>4 DEF ReportInv, LineDue, Underway, Finished, Showing
<1>3. CASE CreateLog
  <2>1. /\ pc[Loader] = "create" /\ OpenLog
        /\ UNCHANGED <<folder, line, shown, todo, ticks>>
    BY <1>3 DEF CreateLog, At
  <2>2. PICK l \in {"host", "attach"} : Goto(Loader, l)
    BY <1>3 DEF CreateLog
  <2>3. pc'[Background] = pc[Background]
    BY <1>0, <2>2, LoaderGoes DEF Labels
  <2>4. /\ opened'["report"] = opened["report"] /\ good'["report"] = good["report"]
        /\ buffer'["report"] = buffer["report"] /\ disk'["report"] = disk["report"]
    BY <1>0, <2>1 DEF OpenLog, Open, streams, FilesOK
  <2> QED
    BY <2>1, <2>3, <2>4, ReportUntouched DEF OnReport
<1>4. CASE TraceStarting \/ LoadConfig
  BY <1>1, <1>4, <1>a DEF TraceStarting, LoadConfig, At
<1>5. CASE ParseNext
  <2>1. /\ pc[Loader] = "parse" /\ Quiet(Loader)
        /\ Log(Loader) \/ UNCHANGED line
        /\ UNCHANGED <<folder, disk, streams, pc, shown, todo, ticks>>
    BY <1>5 DEF ParseNext, At, process
  <2> QED
    BY <1>1, <2>1
<1>6. CASE ParseDone
  <2>1. /\ pc[Loader] = "parse" /\ Quiet(Loader) /\ Goto(Loader, "commit")
        /\ UNCHANGED <<files, shown, todo, ticks>>
    BY <1>6 DEF ParseDone, At
  <2> QED
    BY <1>1, <1>a, <2>1 DEF files, streams
<1>7. CASE Commit
  <2>1. PICK l \in Labels : l = IF detoured' THEN "start" ELSE "host"
    BY DEF Labels
  <2> QED
    BY <1>1, <1>7, <1>a, <2>1 DEF Commit, At
<1>8. CASE DetourStartBackground
  <2>1. pc[Loader] = "start" /\ Quiet(Loader) /\ UNCHANGED <<files, shown, todo, ticks>>
    BY <1>8 DEF DetourStartBackground, At
  <2>2. CASE Goto(Loader, "host")
    BY <1>1, <1>a, <2>1, <2>2 DEF files, streams
  <2>3. CASE pc' = [pc EXCEPT ![Loader] = "host", ![Background] = "begin"]
    <3>1. pc'[Loader] = "host" /\ pc'[Background] = "begin"
      BY <1>0, <2>3 DEF TypeOK
    <3>2. pc[Background] = "out" /\ ticks = 0
      BY <2>1 DEF ReportInv, StageOK
    <3>3. StageOK'
      BY <2>1, <3>1, <3>2 DEF ReportInv, StageOK, files, Showing
    <3>4. \A t \in Threads : ~OnReport(t)'
      BY <2>1, <3>2 DEF ReportInv, LineDue, OnReport, files
    <3> QED
      BY <2>1, <3>1, <3>2, <3>3, <3>4 DEF ReportInv, LineDue, Underway, Finished, Showing, files
  <2> QED
    BY <1>8, <2>2, <2>3 DEF DetourStartBackground
<1> QED
  BY <1>2, <1>3, <1>4, <1>5, <1>6, <1>7, <1>8 DEF DllMain

(* _background_work *)
LEMMA BackgroundReports ==
  ASSUME IInv, ReportInv, Work
  PROVE  ReportInv'
<1> USE LibraryAssumption
<1>0. /\ TypeOK /\ FilesOK /\ "report" \in Objects /\ "log" \in Objects /\ "log" # "report"
      /\ shown \in Nat /\ todo \in Nat /\ shown - todo \in Nat
  BY DEF IInv, FInv, Objects, TypeOK
<1>1. pc[Background] # "out" => pc[Loader] = "host"
  BY DEF ReportInv, StageOK
<1>a. /\ ~(\E t \in Threads : OnReport(t)) <=> ~OnReport(Background)
      /\ Quiet(Background) => \A t \in Threads : ~OnReport(t)
  BY DEF ReportInv, LineDue, OnReport, Quiet
(* Lines about its own turns go to the log. *)
<1>2. CASE BackgroundStarting \/ TickStart
  <2>1. PICK l \in {"loop", "sleep"} : Goto(Background, l)
    BY <1>2 DEF BackgroundStarting, TickStart
  <2>2. /\ pc[Background] \in {"begin", "loop"} /\ Quiet(Background) /\ Log(Background)
        /\ UNCHANGED <<folder, disk, streams, shown, todo, ticks>>
    BY <1>2 DEF BackgroundStarting, TickStart, At
  <2>3. pc'[Background] = l /\ pc'[Loader] = "host"
    BY <1>0, <1>1, <2>1, <2>2, BackgroundGoes DEF Labels
  <2>4. \A t \in Threads : ~OnReport(t)'
    BY <1>0, <1>a, <2>2, LogLeavesReport
  <2>5. StageOK'
    BY <2>2, <2>3 DEF ReportInv, StageOK, streams, Showing
  <2> QED
    BY <2>2, <2>3, <2>4, <2>5 DEF ReportInv, LineDue, Underway, Finished, Showing, streams
<1>3. CASE OpenSocketLog
  <2>1. /\ pc[Background] = "sleep" /\ Quiet(Background) /\ OpenReport
        /\ todo' = shown' /\ UNCHANGED <<folder, line>> /\ Goto(Background, "header")
        /\ shown' \in Nat
    BY <1>3 DEF OpenSocketLog, At
  <2>2. pc'[Background] = "header" /\ pc'[Loader] = "host"
    BY <1>0, <1>1, <2>1, BackgroundGoes DEF Labels
  <2>3. ~opened["report"]
    BY <2>1 DEF ReportInv, StageOK, Showing
  <2>4. /\ opened'["report"] = TRUE
        /\ buffer'["report"] = <<>> /\ (good'["report"] => disk'["report"] = <<>>)
    BY <1>0, <2>1, <2>3 DEF OpenReport, Open, Truncated, FilesOK
  <2>5. \A t \in Threads : ~OnReport(t)'
    BY <1>a, <2>1 DEF OnReport
  <2>6. StageOK'
    BY <2>1, <2>2, <2>4 DEF StageOK, Showing
  <2>7. Spells(<<>>, 0)
    BY DEF Spells
  <2>8. Ended' = 0 /\ ~Unended'
    BY <2>2, <2>5 DEF Ended, Sent, Unended
  <2>9. Underway'
    BY <2>1, <2>4, <2>7, <2>8 DEF Underway
  <2> QED
    BY <2>2, <2>5, <2>6, <2>9 DEF ReportInv, LineDue, Finished, Showing
(* A line of the report is asked for. *)
<1>4. ASSUME NEW x \in Rows, Quiet(Background), AppendLine(Background, "report", x),
             pc[Background] \in Showing, pc'[Background] \in {"separator", "rows"},
             pc'[Loader] = "host", UNCHANGED <<folder, disk, streams, shown, ticks>>,
             pc'[Background] = "separator" => todo' = shown,
             Sent' = Sent + 1, x = Piece(2 * (Sent + 1) - 1)
      PROVE  ReportInv'
  <2>1. /\ line'[Background].step = "lock" /\ line'[Background].object = "report"
        /\ line'[Background].text = x
        /\ \A u \in Threads \ {Background} : line'[u] = line[u]
    BY <1>0, <1>4 DEF AppendLine, LineOf, FilesOK
  <2>2. ~OnReport(Background) /\ OnReport(Background)' /\ ~Unended /\ ~Unended'
        /\ \A u \in Threads \ {Background} : ~OnReport(u)'
    BY <1>4, <1>a, <2>1 DEF OnReport, Unended, Quiet
  <2>3. Sent \in Int
    BY <1>0 DEF Sent
  <2>4. Ended' = Ended
    BY <1>4, <2>2, <2>3 DEF Ended
  <2>5. LineDue'
    BY <1>4, <2>1, <2>2 DEF LineDue
  <2>6. StageOK'
    BY <1>4 DEF ReportInv, StageOK, Showing, streams
  <2>7. Underway'
    BY <1>4, <2>2, <2>4 DEF ReportInv, Underway, streams
  <2> QED
    BY <1>4, <2>5, <2>6, <2>7 DEF ReportInv, Finished, Showing
<1>5. CASE ColumnNames
  <2>1. /\ pc[Background] = "header" /\ Quiet(Background) /\ Goto(Background, "separator")
        /\ AppendLine(Background, "report", "columns")
        /\ UNCHANGED <<folder, disk, streams, shown, todo, ticks>>
    BY <1>5 DEF ColumnNames, Header, At
  <2>2. pc'[Background] = "separator" /\ pc'[Loader] = "host" /\ todo' = shown
    BY <1>0, <1>1, <2>1, BackgroundGoes DEF Labels, ReportInv, StageOK
  <2>3. Sent = 0 /\ Sent' = 1 /\ Piece(1) = "columns"
    BY <2>1, <2>2 DEF Sent, Piece
  <2> QED
    BY <1>4, <2>1, <2>2, <2>3 DEF Showing, Rows
<1>6. CASE Dashes
  <2>1. /\ pc[Background] = "separator" /\ Quiet(Background) /\ Goto(Background, "rows")
        /\ AppendLine(Background, "report", "dashes")
        /\ UNCHANGED <<folder, disk, streams, shown, todo, ticks>>
    BY <1>6 DEF Dashes, Header, At
  <2>2. pc'[Background] = "rows" /\ pc'[Loader] = "host" /\ todo = shown
    BY <1>0, <1>1, <2>1, BackgroundGoes DEF Labels, ReportInv, StageOK
  <2>3. Sent = 1 /\ Sent' = 2 /\ Piece(3) = "dashes"
    BY <1>0, <2>1, <2>2 DEF Sent, Piece
  <2> QED
    BY <1>4, <2>1, <2>2, <2>3 DEF Showing, Rows
<1>7. CASE AppendSocket
  <2>1. /\ pc[Background] = "rows" /\ Quiet(Background) /\ todo' = todo - 1
        /\ AppendLine(Background, "report", "socket")
        /\ UNCHANGED <<folder, disk, streams, pc, shown, ticks>>
    BY <1>7 DEF AppendSocket, At
  <2>2. pc'[Background] = "rows" /\ pc'[Loader] = "host"
    BY <1>1, <2>1
  <2>3. Sent' = Sent + 1 /\ Sent \in Nat /\ Sent >= 2
    BY <1>0, <2>1 DEF Sent
  <2>4. Piece(2 * (Sent + 1) - 1) = "socket"
    <3>1. ASSUME NEW i \in Nat, i >= 2 PROVE Piece(2 * (i + 1) - 1) = "socket"
      <4>1. (2 * (i + 1) - 1) % 2 = 1 /\ 2 * (i + 1) - 1 >= 5
        BY <3>1
      <4> QED
        BY <4>1 DEF Piece
    <3> QED
      BY <2>3, <3>1
  <2> QED
    BY <1>4, <2>1, <2>2, <2>3, <2>4 DEF Showing, Rows
<1>8. CASE TickEnd
  <2>1. /\ pc[Background] = "rows" /\ Quiet(Background) /\ todo = 0
        /\ Close("report") /\ Log(Background) /\ Goto(Background, "loop")
        /\ UNCHANGED <<folder, shown, todo, ticks>>
    BY <1>8 DEF TickEnd, At
  <2>2. pc'[Background] = "loop" /\ pc'[Loader] = "host"
    BY <1>0, <1>1, <2>1, BackgroundGoes DEF Labels
  <2>3. \A t \in Threads : ~OnReport(t)'
    BY <1>0, <1>a, <2>1, LogLeavesReport
  <2>4. opened'["report"] = FALSE
    BY <1>0, <2>1 DEF Close, FilesOK
  <2>5. StageOK'
    BY <2>1, <2>2, <2>4 DEF ReportInv, StageOK, Showing
  <2>6. ASSUME good["report"] PROVE Spells(disk'["report"], 4 + 2 * shown)
    <3>1. ~OnReport(Background) /\ ~Unended /\ Ended = 2 + shown
      BY <1>0, <1>a, <2>1 DEF Unended, Ended, Sent
    <3>2. good["report"] /\ buffer["report"] = <<>> /\ Spells(disk["report"], 2 * (2 + shown))
      BY <2>1, <2>6, <3>1 DEF ReportInv, Underway, Showing
    <3>3. disk["report"] \o <<>> = disk["report"]
      BY <3>2, ConcatEmptySeq DEF Spells
    <3>4. disk'["report"] = disk["report"]
      BY <1>0, <2>1, <3>2, <3>3 DEF Close, Flushed, FilesOK
    <3>5. 2 * (2 + shown) = 4 + 2 * shown
      BY <1>0
    <3> QED
      BY <3>2, <3>4, <3>5
  <2>7. good' = good
    BY <2>1 DEF Close
  <2> QED
    BY <2>1, <2>2, <2>3, <2>5, <2>6, <2>7 DEF ReportInv, LineDue, Underway, Finished, Showing
<1> QED
  BY <1>2, <1>3, <1>5, <1>6, <1>7, <1>8 DEF Work

(* CFile::AppendLine, on any thread. *)
LEMMA WriteReports ==
  ASSUME IInv, ReportInv, NEW t \in Threads, Write(t)
  PROVE  ReportInv'
<1> USE LibraryAssumption
<1>0. /\ TypeOK /\ FilesOK /\ "report" \in Objects /\ "log" \in Objects /\ "log" # "report"
      /\ line[t].object \in Objects
      /\ UNCHANGED <<folder, opened, good, pc, shown, todo, ticks>>
  BY DEF IInv, FInv, Objects, FilesOK, Write, WriteLine, LockFile, PutText, EndLine, process, streams
<1>1. line[t].step # "none"
  BY DEF Write, WriteLine, LockFile, PutText, EndLine
<1>2. CASE line[t].object = "log"
  <2>1. buffer'["report"] = buffer["report"] /\ disk'["report"] = disk["report"]
    BY <1>0, <1>2 DEF Write, WriteLine, LockFile, PutText, EndLine, Endl, streams, FilesOK
  <2>2. /\ \A u \in Threads \ {t} : line'[u] = line[u]
        /\ line'[t].object = "log"
    BY <1>0, <1>2 DEF Write, WriteLine, LockFile, PutText, EndLine, GoOn, NoLine, LineOf, FilesOK
  <2>3. \A u \in Threads : /\ OnReport(u)' <=> OnReport(u)
                           /\ OnReport(u) => line'[u] = line[u]
    BY <1>0, <1>2, <2>2 DEF OnReport
  <2> QED
    BY <1>0, <2>1, <2>3, ReportUntouched
<1>3. CASE line[t].object = "report"
  <2>1. /\ t = Background /\ OnReport(Background) /\ pc[Background] \in {"separator", "rows"}
        /\ line[Background].text = Piece(2 * Sent - 1) /\ opened["report"]
        /\ \A u \in Threads \ {Background} : ~OnReport(u)
    BY <1>1, <1>3 DEF ReportInv, LineDue, OnReport, StageOK, Showing
  <2>2. /\ Sent' = Sent /\ Sent \in Nat /\ Ended = Sent - 1 /\ Ended \in Nat
        /\ line[Background].text \in Pieces
    <3>1. shown \in Nat /\ shown - todo \in Nat
      BY <1>0 DEF TypeOK
    <3>2. Sent \in Nat /\ Sent >= 1
      BY <2>1, <3>1 DEF Sent
    <3>3. line[Background].text \in Rows
      BY <1>0, <1>3, <2>1 DEF IInv, FInv, LogTexts, OnReport
    <3> QED
      BY <1>0, <2>1, <3>2, <3>3 DEF Sent, Ended, Pieces
  <2>3. CASE LockFile(t)
    <3>1. /\ line[t].step = "lock" /\ GoOn(t, "text") /\ UNCHANGED <<disk, buffer>>
      BY <1>3, <2>1, <2>3 DEF LockFile, streams
    <3>2. /\ line'[t].step = "text" /\ line'[t].object = "report" /\ line'[t].text = line[t].text
          /\ \A u \in Threads \ {t} : line'[u] = line[u]
      BY <1>0, <1>3, <3>1 DEF GoOn, LineOf, FilesOK
    <3>3. /\ OnReport(Background)' /\ ~Unended /\ ~Unended'
          /\ \A u \in Threads \ {Background} : ~OnReport(u)'
      BY <2>1, <3>1, <3>2 DEF OnReport, Unended
    <3>4. Ended' = Ended
      BY <2>1, <2>2, <3>3 DEF Ended
    <3>5. LineDue'
      BY <1>0, <2>1, <2>2, <3>2, <3>3 DEF LineDue
    <3>6. StageOK' /\ Finished'
      BY <1>0, <3>1 DEF ReportInv, StageOK, Finished
    <3>7. Underway'
      BY <1>0, <3>1, <3>3, <3>4 DEF ReportInv, Underway
    <3> QED
      BY <3>5, <3>6, <3>7 DEF ReportInv
  <2>4. CASE PutText(t)
    <3>1. /\ line[t].step = "text" /\ GoOn(t, "endl") /\ UNCHANGED disk
          /\ buffer' = IF good["report"]
                       THEN [buffer EXCEPT !["report"] = Append(buffer["report"], line[t].text)]
                       ELSE buffer
      BY <1>3, <2>4 DEF PutText
    <3>2. /\ line'[t].step = "endl" /\ line'[t].object = "report" /\ line'[t].text = line[t].text
          /\ \A u \in Threads \ {t} : line'[u] = line[u]
      BY <1>0, <1>3, <3>1 DEF GoOn, LineOf, FilesOK
    <3>3. /\ OnReport(Background)' /\ ~Unended /\ Unended'
          /\ \A u \in Threads \ {Background} : ~OnReport(u)'
      BY <2>1, <3>1, <3>2 DEF OnReport, Unended
    <3>4. Ended' = Ended
      BY <2>1, <2>2, <3>3 DEF Ended
    <3>5. LineDue'
      BY <1>0, <2>1, <2>2, <3>2, <3>3 DEF LineDue
    <3>6. StageOK' /\ Finished'
      BY <1>0, <3>1 DEF ReportInv, StageOK, Finished
    <3>7. ASSUME pc[Background] \in Showing, good["report"]
          PROVE  buffer'["report"] = <<line'[Background].text>>
      <4>1. good["report"] /\ buffer["report"] = <<>>
        BY <3>3, <3>7 DEF ReportInv, Underway
      <4>2. Append(<<>>, line[t].text) = <<line[t].text>>
        OBVIOUS
      <4> QED
        BY <1>0, <2>1, <3>1, <3>2, <4>1, <4>2 DEF FilesOK
    <3>8. Underway'
      BY <1>0, <3>1, <3>3, <3>4, <3>7 DEF ReportInv, Underway
    <3> QED
      BY <3>5, <3>6, <3>8 DEF ReportInv
  <2>5. CASE EndLine(t)
    <3>1. /\ line[t].step = "endl" /\ line' = [line EXCEPT ![t] = NoLine]
          /\ disk' = IF good["report"]
                     THEN [disk EXCEPT !["report"] = disk["report"] \o Append(buffer["report"], Newline)]
                     ELSE disk
          /\ buffer' = [buffer EXCEPT !["report"] = <<>>]
      BY <1>3, <2>5 DEF EndLine, Endl
    <3>2. ~OnReport(t)' /\ \A u \in Threads \ {t} : line'[u] = line[u]
      BY <1>0, <3>1 DEF OnReport, NoLine, LineOf, FilesOK
    <3>3. Unended /\ ~Unended' /\ \A u \in Threads : ~OnReport(u)'
      BY <2>1, <3>1, <3>2 DEF OnReport, Unended
    <3>4. Ended' = Ended + 1
      BY <2>1, <2>2, <3>3 DEF Ended
    <3>5. LineDue'
      BY <3>3 DEF LineDue
    <3>6. StageOK' /\ Finished'
      BY <1>0, <2>1 DEF ReportInv, StageOK, Finished, Showing
    <3>7. ASSUME pc[Background] \in Showing, good["report"]
          PROVE  Spells(disk'["report"], 2 * (Ended + 1)) /\ buffer'["report"] = <<>>
      <4>1. /\ good["report"] /\ buffer["report"] = <<line[Background].text>>
            /\ Spells(disk["report"], 2 * Ended)
        BY <3>3, <3>7 DEF ReportInv, Underway
      <4>2. 2 * Sent - 1 = 2 * Ended + 1
        BY <2>2
      <4>3. Spells(disk["report"] \o Append(<<line[Background].text>>, Newline), 2 * (Ended + 1))
        BY <2>1, <2>2, <4>1, <4>2, SpellsOn
      <4>4. disk'["report"] = disk["report"] \o Append(<<line[Background].text>>, Newline)
        BY <1>0, <3>1, <4>1 DEF FilesOK
      <4> QED
        BY <1>0, <3>1, <4>3, <4>4 DEF FilesOK
    <3>8. Underway'
      BY <1>0, <3>3, <3>4, <3>7 DEF ReportInv, Underway
    <3> QED
      BY <3>5, <3>6, <3>8 DEF ReportInv
  <2> QED
    BY <2>3, <2>4, <2>5 DEF Write, WriteLine
<1> QED
  BY <1>0, <1>2, <1>3 DEF Objects

(* The report on the disk is the beginning of the report of the last copy of  *)
(* the table, and all of it once it has been closed: CSocketLog opens its    *)
(* file truncated, and every line is written before the next one is begun.   *)
THEOREM ReportIsFresh == Spec => []ReportFresh
<1> USE LibraryAssumption
<1>1. Init => ReportInv
  <2> SUFFICES ASSUME Init PROVE ReportInv
    OBVIOUS
  <2>1. pc[Loader] = "ensure" /\ pc[Background] = "out" /\ ticks = 0 /\ ~opened["report"]
    BY DEF Init, Beginning, FilesInit, Closed, Objects
  <2>2. \A t \in Threads : ~OnReport(t)
    BY DEF Init, FilesInit, NoLines, NoLine, LineOf, OnReport
  <2> QED
    BY <2>1, <2>2 DEF ReportInv, StageOK, LineDue, Underway, Finished, Showing
<1>2. IInv /\ ReportInv /\ [Next]_vars => ReportInv'
  <2> SUFFICES ASSUME IInv, ReportInv, [Next]_vars PROVE ReportInv'
    OBVIOUS
  <2>1. CASE Restart
    <3>1. pc'[Loader] = "ensure" /\ pc'[Background] = "out" /\ ticks' = 0 /\ ~opened'["report"]
      BY <2>1 DEF Restart, Beginning, StreamsLost, Closed, Objects
    <3>2. \A t \in Threads : ~OnReport(t)'
      BY <2>1 DEF Restart, StreamsLost, NoLines, NoLine, LineOf, OnReport
    <3> QED
      BY <3>1, <3>2 DEF ReportInv, StageOK, LineDue, Underway, Finished, Showing
  <2>2. ASSUME NEW t \in Hosts, HookLogs(t) PROVE ReportInv'
    <3>1. t \in Threads /\ FilesOK /\ Quiet(t) /\ Log(t)
          /\ UNCHANGED <<folder, disk, streams, process>>
      BY <2>2 DEF HookLogs, At, Hosts, IInv, FInv
    <3> QED
      BY <3>1, LogLeavesReport, ReportUntouched DEF process, streams
  <2>3. CASE Idle \/ UNCHANGED vars
    <3>1. UNCHANGED <<files, process>>
      BY <2>3 DEF Idle, vars
    <3> QED
      BY <3>1, ReportUntouched DEF files, process, OnReport
  <2> QED
    BY <2>1, <2>2, <2>3, LoaderLeavesReport, BackgroundReports, WriteReports DEF Next
<1>3. IInv /\ ReportInv => ReportFresh
  <2> SUFFICES ASSUME IInv, ReportInv, ticks > 0, good["report"]
               PROVE  /\ IsPrefix(disk["report"], Report(shown))
                      /\ opened["report"] \/ disk["report"] = Report(shown)
    BY DEF ReportFresh
  <2>0. shown \in Nat /\ todo \in 0..shown
    BY DEF IInv, TypeOK
  <2>1. CASE pc[Background] \in Showing
    <3>1. opened["report"] /\ Spells(disk["report"], 2 * Ended)
      BY <2>1 DEF ReportInv, StageOK, Underway
    <3>2. Sent \in 0..(2 + shown) /\ (OnReport(Background) => Sent >= 1)
      BY <2>0, <2>1 DEF Sent, ReportInv, LineDue, StageOK
    <3>3. 2 * Ended \in 0..(4 + 2 * shown)
      BY <2>0, <3>2 DEF Ended
    <3> QED
      BY <2>0, <3>1, <3>3, SpelledPrefix
  <2>2. CASE pc[Background] \notin Showing
    <3>1. Spells(disk["report"], 4 + 2 * shown)
      BY <2>2 DEF ReportInv, Finished
    <3>2. 4 + 2 * shown \in 0..(4 + 2 * shown)
      BY <2>0
    <3> QED
      BY <2>0, <3>1, <3>2, SpelledPrefix
  <2> QED
    BY <2>1, <2>2
<1> QED
  BY <1>1, <1>2, <1>3, LibraryInvariant, PTL DEF Spec
=============================================================================
