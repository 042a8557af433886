# network-filter: a TLA+ model

network-filter is a DLL that is loaded into a Windows program. It detours
`accept`, `connect`, `recv`, `send` and `closesocket`, keeps a table of the
program's sockets, measures their traffic and breaks the connections that the
rules of `network-filter.cfg` object to. The hooks run on whatever threads the
program calls winsock from, next to one background thread of the DLL. The
source has no tests; what it promises is in `README.md`, in the comments of
the headers and of `framework.cpp`, and in the comments of `network-filter.cfg`.

Its core is in five modules. `Framework` is about the hooks and the memory they
share, and implements the abstract `ConnectionRegistry`; `NetworkFilter` is about
the rules and the counters they share; `Statistics` is about the measured speed
of a socket; `Library` is about the life of the DLL in a process, and composes
`FilterConfig`, the configuration, with `LogFiles`, the files it writes. Constant
values are in the `MC` modules and `.cfg` files, proofs in the `_proofs` modules.

## Inventory

Paths are below `src/network-filter/`.

| Component | State | Operations | What makes it correct |
|---|---|---|---|
| Detoured calls, socket table (`framework.cpp`, `lock.h`) | `_sockets` (SOCKET to `CSocket*`), `_frameworkSyncRoot` | the five `Detour*` hooks, `register_socket`, `break_connection` | entries and the objects that are not leaked correspond; a pointer goes stale only under a close that overlaps the call; an entry never describes an earlier connection of its handle; a refused connection is closed |
| Background logger (`framework.cpp` `_background_work`, `CSocketLog.cpp`, `CFile.cpp`) | a copy of the table, the report | clone, `Append`, open and close the file | the objects it prints exist; the report is that of the last copy, and gets written once the hooks are silent |
| Filter and base rule (`CNetworkFilter.cpp`, `CNetworkFilterRule.cpp`) | `_rules`; each rule's `_sockets` pool and mutex | `Filter`, `Register`, `Unregister`, `Parse` | a socket that is not pre-filtered is registered with every rule it matches |
| Max-connections rule (`CMaxConnectionsRule.cpp`) | `_endpoints`: an INT32 per remote address; `_amount` | as above | at most `amount` admitted connections; no other connection refused or broken |
| New-connection rule (`CNewConnectionRule.cpp`) | `_endpoints`: a `CStatistics` per remote address | as above | at most `amount` new connections per duration |
| Speed rules (`CMaxRecvRule.cpp`, `CMaxSendRule.cpp`) | `_amountLimit` | `Filter`, `Parse` | only connections above the speed are broken |
| Statistics (`CNanoStatistics.cpp`, `CStatistics.cpp`) | a ring of samples, the current index, the start time | `Start`, `Stop`, `Add`, `Compute`, `ComputeRecent` | one sample runs at a time; values of an earlier round are not counted |
| Socket object (`CSocket.cpp`) | id, handle, endpoints, two statistics, own mutex | construction, `ProcessSend`, `ProcessReceive`, speeds, destruction | ids differ; a speed is that of the socket |
| Configuration (`Parse` of the rules, `CNetworkFilterTarget.cpp`, `endpoint.cpp`) | the lines left, the rules so far | parse a line, an endpoint; match an endpoint | each documented line becomes one rule with the meaning written (hours do not); a rule matches what its endpoints cover |
| Attach and detach (`dllmain.cpp`, `framework.cpp` `attach`, `detach`) | `LOG`, the Detours transaction, the logger thread | attach on load | what a hook uses is there before the first hook runs, and stays |
| Logs and files (`CLog.cpp`, `CFile.cpp`) | a file stream, a mutex | `Open`, `AppendLine`, `Close` | lines of several threads stay whole; no line given to a stream that opened is lost, over a kill and restart too |
| Paths and formatting (`path.cpp`, `format.cpp`) | none | strings, existence of files and directories | a directory is there before a file is opened in it |
| Detours (`dependency/`), `pch.*`, `export.h` | third-party code and type names | | |

**How they interact.** A hook makes the real call, builds a `CSocket` to ask
`CNetworkFilter::Filter` for a verdict (accept, connect), or looks the socket
up first and asks afterwards (recv, send). `register_socket` runs under
`_frameworkSyncRoot` and calls `CNetworkFilter::Register`, which takes each
rule's mutex several times. A bad verdict leads to `break_connection`, which
calls `closesocket` (itself detoured, so `DetourCloseSocket` runs inside it)
and then `CNetworkFilter::Unregister`, without `_frameworkSyncRoot`. The logger
takes `_frameworkSyncRoot` to copy the table. Every one of these writes to `LOG`,
a `CFile` with a mutex of its own; `DllMain` makes it, has the configuration
parsed, attaches the hooks and starts the logger, in this order.

**What is hard.** The real call and the bookkeeping are never one atomic step;
the kernel reuses a handle as soon as it is closed and the allocator an
address as soon as it is freed; pointers found under the lock are used after
it; the limit of a rule is checked in one section of its mutex and acted on in
two others; calls fail half-way (a failed `accept`, a connect still in
progress, a file that does not open); the process is killed with lines in its streams, and appends to the
same log when it is started again; a broken line of the configuration leaves
locals uninitialised. `PROJECT.json` lists these hazards, each at its line.

## Modules

### Framework

| TLA+ | Code |
|---|---|
| `sockets`, `mutex` | `_sockets`, `_frameworkSyncRoot` |
| `live`, `leaked`, `cell` | the heap: `CSocket` objects not yet deleted, those of them that no pointer is kept of, and the key and connection (endpoints) an object of the table was made for |
| `conn`, `used`, `known` | the environment: what a handle stands for in the kernel (a connection, a socket without a peer, nothing), which handles the program holds |
| `pc`, `call` | where each thread is in its hook, and the hook's locals |
| `snapshot` | the copy `_background_work` walks |
| `overtaken` | history: threads in a `recv` or `send` on whose handle a closing hook has been at work since their call began |
| `NewSocket`, `ConnectCompletes` | what no hook sees: `socket()`, and a pending connect that succeeds later |
| `DetourAccept`, `DetourConnect`, `DetourIo`, `DetourCloseSocket` | the hooks up to their first wait |
| `Probe`, `BreakConnection`, `Unregister` | the `CSocket` made for the verdict, and the verdict; `break_connection` before and after the nested `DetourCloseSocket` |
| `Leak` | a `CSocket` that nothing will ever delete: that of `Probe` (`framework.cpp:82`, `102`), and that of an insert that fails (`framework.cpp:71-73`) |
| `Lock`, `FindForIo`, `FindForClose`, `Register`, `Delete`, `Erase`, `UnlockAndReturn`, `UnlockAndGoOn` | the critical sections of the hooks, statement by statement |
| `UseEntry` | what `recv` and `send` do with the entry after the unlock |
| `CloneTable`, `AppendSocket` | `_background_work` |

Sections are split into their statements so that mutual exclusion is something
to be shown and not an assumption. The filter's verdict is any Boolean. `Null`
stands for a null pointer and for an absent entry. A deleted address can be
allocated again, for the table or for a leaked object, so a stale pointer is caught
even when it points at a live object of another handle. At most `MaxLeaks` leaked objects
take one of the followed addresses; any other one gets an address that the
model does not follow. `break_connection` closes the number it gets from
`Identifier()`, a running count of `CSocket` objects: no socket, or any handle. A `recv` or
`send` on a handle that has no connection yet, or none any more, registers
the endpoints `::0`, and the insert of the `connect` that follows leaves them there.

`Discipline` says how careful the host program is: `"none"` (it may use a
socket it has closed), `"forgets"` (it makes no new call on it) or `"serial"`
(it also waits for its calls in flight before it closes). The properties of the passing
run and the theorems are for any host; the runs that end in a counterexample use a
careful one, so that the fault is the code's.

### ConnectionRegistry

What the table promises, with neither hooks nor locks nor memory: `conn`, what
each handle stands for; `record`, what is recorded of it; `closing`, the threads
whose close has still to drop the record. `Monitor` records what the handle stands
for at that moment (a connection or not), and only if there is no record; a record never
changes; only a close of that very handle (`Close`) drops it, some time later (`Forget`), and each
close drops at most one. `Open` and `Connect` are the kernel's. It does not
promise that a handle which stands for a connection is recorded, nor that the record is
that connection's: a second opener or a stray close between the real close and the
section loses the entry of the new connection (`framework.cpp:177` to `188`), and
`::0` stays. `Framework` defines the refinement mapping: a record lasts from the insert
of the entry until the delete of its `CSocket` (`Recorded`), a close from the real
`closesocket` until its section has deleted that object or found none (`Closers`).
`ImplementsRegistry` is the abstract specification under it: `Register` maps to
`Monitor`, `DetourCloseSocket` and `BreakConnection` to `Close`, `Delete` and an unsuccessful
`FindForClose` to `Forget`, all that only threads see to a stutter.

### NetworkFilter

| TLA+ | Code |
|---|---|
| `count`, `pool` | `_endpoints` of each max-connections rule (for a new-connection rule: whether there is an entry), `_sockets` of each rule |
| `open`, `fresh`, `tracked` | open connections; `CSocket` addresses a new connection can get; sockets in the framework's table |
| `ends`, `Make` | the endpoints a `CSocket` read when it was made, at an address that an older one may have had |
| `mutex` | `_frameworkSyncRoot` |
| `pc`, `frame` | where each thread is; its hook, socket, position in `_rules`, verdict so far |
| `wild`, `first` | history: rules whose counter the registration under way made of a value at the amount or above; the value each counter was made of |
| `AskRule`, `Decide` | `CNetworkFilter::Filter` and the decision of the hook |
| `Lock`, `FindTracked`, `Prefiltered`, `EnsureEntry`, `CheckAgain`, `PushSocket`, `BumpCounter`, `RulesDone`, `Unlock` | `register_socket`, `CNetworkFilter::Register` and `Register` of the rules; one action per section of a rule's mutex |
| `BreakConnection`, `Decrement`, `RemoveSocket`, `BreakDone` | `break_connection` and `Unregister` of the rules |
| `OpenSocket`, `UseSocket`, `CloseSocket` | the hooks' beginnings |

What it abstracts:

- The hook's verdict and its registration use two `CSocket` objects of the same
  connection; one member of `Sockets` stands for both. (`Framework` counts the one that is
  leaked.)
- A connect that is finished after its `CSocket` was registered under `::0` counts as
  another `CSocket`: rules see the endpoints an object has read, once.
- A failed `accept` is filtered and registered under `::0` (`Nowhere`) like a
  connection, and nobody ever uses or closes it.
- The answer of the speed rules, and of a new-connection rule that has an
  entry, is any Boolean: it depends on measured traffic.
- The host closes a socket only when no call on it is in flight, and so does a
  stray close; the other case is `Framework`'s subject.
- A freed `CSocket` stays in the pools; when its address serves a new one (`Make`), of this
  peer or another, the pools hold that one instead.
- The statistics of a new-connection rule count for nothing but their presence
  (`NewStatistics`, `MeasuredVerdicts`).
- Counters are integers, made of any value of `Garbage`. An INT32 cannot overflow upward:
  `RaisedOnlyBelowLimit` says they are raised only below the amount. Downward it would
  take 2^31 refused connections.

### Statistics

| TLA+ | Code |
|---|---|
| `samples`, `index` | `_samples` and `_index` of a `CStatistics`; a sample is a `CNanoStatistics` |
| `now` | the clock, in ticks from `_start` |
| `Started`, `Stopped`, `Added`, `End`, `Span` | `CNanoStatistics` |
| `Bucket` | `computeIndex` |
| `ProcessBytes` (`Add`), `StopCurrent`, `StartNext` | `ProcessReceive` or `ProcessSend`: `Add` up to the switch, `current.Stop()`, and `next.Start()` with the new index |
| `ComputeTimesSpans`, `AverageTimesSpans`, `Filter` | `Compute`, `AverageDownloadSpeed`, and the verdict of a speed rule |
| `total`, `heard` | history: bytes moved so far; whether a call has returned in this tick |

`Add` runs under the mutex of the `CSocket`, so nobody else sees the ring in the
middle of it; it is three actions because it reads the clock three times
(`computeIndex`, `Stop`, `Start`) and `Tick` may happen between two readings, any
number of times: a thread can be preempted, a socket idle. One ring stands for
either direction of a socket; the other direction gets an `Add(0)`, which is why
0 is among `Results`, next to -1 (SOCKET_ERROR), which the hooks pass on unchecked.

What it abstracts: a tick is the unit of the clock, and one call returns per tick
with at most `Chunk` bytes (the throughput that `NoSampleOverstates` speaks of).
A DOUBLE is an exact fraction: `Compute` is written over the product of the
spans, so nothing is rounded. The constructor leaves the time points of a sample
at the clock's epoch; only their difference is used, so the epoch is tick 0.
`ComputeRecent` changes nothing and is left out.

### FilterConfig

| TLA+ | Code |
|---|---|
| `endpoint_parse`, `TargetParse`, `TargetMatch`, `computeEndPoint`, `Match` | the functions of these names, and `Parse` and `Match` of `CNetworkFilterTarget` |
| `ReadString`, `ReadChar`, `ReadNumber` | `stream >> x` for a `STRING`, a `CHAR` and a number: what it reads, what a failed read leaves in `x`, and that all later reads fail too |
| `Ends`, `MaxConnectionsRule`, `MaxSpeedRule`, `NewConnectionRule` | `Parse` of each class of rule: the set of rules it may give |
| `left`, `vector`, `rules`; `ParseLine`, `InstallRules` | the loop of `CNetworkFilter::Parse` and its end |

An endpoint is the sequence of its parts between colons, so that where it is cut
can be told without characters. A `Parse` is a set of outcomes because a broken line
leaves `quantifier`, `unit` and `time` uninitialised (`StackChars`, `StackTimes`):
a speed without a unit may be refused or taken, with 0 as its limit. Each line
carries, for the properties only, the meaning that the format of
`network-filter.cfg:1-8` gives it, and each rule the number of its line (`at`).
`FormatAssumption` says what a line of that format looks like, and that lines with a
meaning do: TLC evaluates it for `SomeFiles`, the proofs use it for all files. It leaves
out the address `:` and the port 0, which are the endpoint of a socket without one
(`computeEndPoint` of `Unknown`). The reference definitions
are `Written` and `Covers`, and `SecondsIn`, what the units are worth. Numbers do not overflow here: a numeral is looked up in
`ValueOf`.

The format has hours (`network-filter.cfg:2`), and on them the code is wrong: `HOURS` is a
typedef of `std::chrono::seconds` (`CNanoStatistics.h:12`), so `1/1h` means `1/1s`
(`PerAcceptDuration`). `RulesAsWritten` states the format as it is and is refuted by `cfg_hours`;
`RulesAsRead` names the exception, an hour that counts as a second (`HourIsASecond`), and
holds for every file of the format. One kind of text is outside: an IPv6 address in another
spelling than `inet_ntop`'s, as addresses are compared as text.

### LogFiles

| TLA+ | Code |
|---|---|
| `opened`, `good`, `buffer`, `latch` | `_open`, the state and buffer of `_file`, `_syncRoot` of a `CFile`; there are two, the log and the report |
| `disk`, `folder` | the contents of the files; whether their directory exists |
| `Open` (`OpenLog`, `OpenReport`), `Close` | `CFile::Open` (to append, to truncate), `CFile::Close`; one section of the mutex each |
| `AppendLine`, `LockFile`, `PutText`, `EndLine` | `CFile::AppendLine`: the call, the lock or the early return, `<< text`, `<< std::endl` and the unlock |
| `StreamsLost` | the process ends: what is in a stream is gone, what is on the disk stays |
| `said` | history: lines of the log a thread has written to a good stream |

Any single open may fail, also of one file and not the other, and `CFile` does not
notice: `_open` is set and lines are given to a stream that drops them (`good` is
`FALSE`). `LoggedIsOnDisk` and `ReportFresh` speak of the streams that did open; that
the rest is lost in silence is what the code does, and nothing promises otherwise.
A text is the thread that logs it or its place in the report. One line always fits
into a stream's buffer. `CFile::Append` is called by nobody and left out.

### Library

| TLA+ | Code |
|---|---|
| `log`, `detoured`, `running` | `LOG`, the outcome of the transaction, `_thread_running` |
| `Ensure`, `CreateLog`, `TraceStarting`, `LoadConfig`, `ParseNext`, `ParseDone`, `Commit`, `DetourStartBackground` (`SetFlag`) | `DllMain` at DLL_PROCESS_ATTACH, with `DetourAttach` and `CNetworkFilter::Parse` |
| `BackgroundStarting`, `TickStart`, `OpenSocketLog`, `ColumnNames`, `Dashes`, `AppendSocket`, `TickEnd` | `_background_work` with `CSocketLog` |
| `HookLogs`, `Write` | the lines hooks log; `AppendLine` on any thread |
| `Restart` | the process is killed at any moment and started again |

A thread that logs goes on only when its `AppendLine` has returned (`Quiet`). The
two lines `Commit` may log, and the number of lines a hook logs, are one line
each. The table is the number of its sockets: what a copy of it may point to is
the subject of `Framework`. `DllMain` calls for threads find `LOG` there and do
nothing that the model sees; the detach branch is under `if (false)`
(`dllmain.cpp:55`), so neither `DetourDetach` nor `DetourStopBackground` ever runs, and the
process ends by being killed or by leaving, which are the same to the files.

## Runs

All bounds are in the `.cfg` files; the values they name are in
`MCFramework.tla`, `MCNetworkFilter.tla`, `MCStatistics.tla` and `MCLibrary.tla`.

| Run | Question | Bounds |
|---|---|---|
| `fw_free` | With a host that does anything (two threads that open, use and close, pending connects, a logger, stray closes of any handle, leaked objects), do table and heap stay in step, are sections exclusive, does a pointer go stale only under a close that overlaps its call, does no entry outlive the close of its connection, and is the table a `ConnectionRegistry`? | 2 threads, 1 handle, 2 connections, 3 addresses, 1 leaked object at one of them |
| `nf_rules` | With a max-connections rule and a second rule that answers anything and does not match one peer, failed accepts, stray closes, and addresses reused for another peer: are counters raised only below their amount, never ahead of what their pools hold, and is a socket that was not pre-filtered in every counting pool it matches, unless its counter was made at the amount? | 2 threads, 2 sockets, 2 endpoints (one is `::0`), amount 1, initial counters -1, 0 and 1 |
| `st_ring` | Does one sample run at a time, is no stretch of time in two samples, and does a sample start from nothing when it is reused, however the clock moves? | 3 samples of 2 ticks, 10 ticks, results -1, 0 and 1 |
| `dll` | From the load of the DLL, through a configuration file, to three threads that log and a report, with a kill and a new start at any moment and with opens that fail: do the rules mean and match what is written (but for hours), are logged lines whole and kept, is everything there when the hooks are attached, is a report that of the last copy, and does it get finished? | 3 threads, 3 files of 2 to 7 lines or none, 3 peers, one report of up to one socket and one hook call in each process, 1 restart |

Two connections are enough for a handle to be reused for another one while an entry,
an object, a pointer or a snapshot of the first is around, and a call, a close and a stray
close of the handle can overlap in every order. One handle is enough for the questions of
`fw_free`: every section reads and writes the entry of one key, and the address of a
deleted object can go to the entry of INVALID_SOCKET (a failed accept), which is a second
key; the theorems are for any number. Three addresses hold the objects of both keys and a
leaked one. Two threads meet in every pair of sections of a rule; the amount 1 makes the
second socket the one too many, and a socket that has been closed and opened again, for
the same peer or another, finds what it left in the pools. `nf_rules` has a speed rule in
place of the new-connection rule of the shipped `network-filter.cfg`: it may answer
anything at any time, which includes what the other may answer. `Floor` stops new calls
once a counter is below 0; calls under way still take it to -2. The
values -1, 0 and 1 of a new counter are below, at the edge of and at the amount.
Ten ticks take a ring of three buckets of two ticks through a whole round and most
of the next; every jump over one, two or a full round of buckets happens, at rest
and between two readings of the clock.
In `dll` each documented kind of rule occurs with endpoints that have no, one or
two wildcards and addresses with and without colons, next to a comment, a blank
line, an unknown word and lines that end after each of their words; two processes
are enough for a file to be opened again after a kill in every state of it, and
three threads for one to hold the mutex while two wait. The bounds of `fw_refused` (two
handles), `fw_late_io` and `fw_logger` only need to reach their counterexample.

Runs that end in a counterexample, each against a line of the repository:

| Run | Property | What happens |
|---|---|---|
| `fw_refused` | `RefusedIsClosed` | `break_connection` closes `Identifier()`, not the socket; a refused connection stays open with nobody holding its handle. |
| `fw_late_io` | `EntryIsCurrent` | A `send` that returns after the close registers the closed handle; the next connection on it inherits the entry. |
| `fw_logger` | `SnapshotIsLive` | The logger's copy of the table does not keep the objects: a close deletes one that it has still to print. |
| `nf_subtract` | `AdmittedWithinAmount` | Unregistering a refused connection subtracts one that was never added. |
| `nf_breaks` | `AdmittedNotBroken` | The connection that fills the amount is broken at its next `recv` or `send`. |
| `nf_closed` | `RefusedOnlyAtLimit` | A closed connection is never unregistered and keeps its place. |
| `st_speed` | `SpeedNotOverstated` | `Compute` averages the rates of the samples, so a packet at the start of a sample makes a connection that moved one second's worth in all exceed its limit. |
| `cfg_hours` | `RulesAsWritten` | A rule per hour becomes a rule per second. |

The properties that hold are stated with the exceptions the code makes, and each
exception is one of its faults. `StaleOnlyIfOvertaken` leaves open that a close which
overlaps a `recv` or `send` deletes the object the call has found and not yet used
(`framework.cpp:137`, `166`); the close may be the host's own or the stray one of
`break_connection`. `EndpointsNotInherited` leaves open that an entry made before the
connect succeeded, or after the close, keeps `::0`. `ImplementsRegistry` leaves open that
an entry made between the real close and the section of the closing hook is dropped by it
(`framework.cpp:177`). `RegisteredUnlessWild` and `NeverOvercounts` name the two effects of an
uninitialised counter and of a pool that keeps freed sockets: with a value at the
amount, `Register` reports a socket as registered that a rule it matches does not hold
(`CMaxConnectionsRule.cpp:17`, `24`), and when a freed `CSocket` is made again for another peer, its
old peer's counter stays (`CNetworkFilterRule.cpp:36`).

Three more things the models have and no run is spent on: a failed
`accept` enters the table under INVALID_SOCKET and the rules under `::0` (`DetourAccept`,
`OpenSocket`, `framework.cpp:92`); `Filter` of a max-connections rule never asks `Match`, so
it refuses any port of an address it counted for one (`Verdicts`,
`CMaxConnectionsRule.cpp:68`); the `CSocket` made for each verdict, and that of
each insert that fails, is never deleted (`Leak`).

**Deadlock** is checked in every run. Hosts can always make another call in
`Framework`; `HostDone` of `NetworkFilter` is the host that makes none, `Over` of
`Statistics` the end of the bounded time, `Idle` of `Library` that of the bounded calls.

**Fairness** is assumed in `Library` alone; the other modules state no liveness.
No hook is shown to return: threads may wait in the kernel, and Windows mutexes promise
no order.

`Spec` of `Library` assumes weak fairness of the background thread (`Work`) and of
each thread that is in an `AppendLine` (`Write(t)`): threads are scheduled, and no
statement of theirs waits for anything but the mutex of the `CFile`. Weak fairness
does not promise a thread the mutex when others take it again and again, and neither
does `std::mutex`. `ReportWritten` says no more than that: the hooks make a bounded number of calls
(`MaxCalls`), and once they fall silent the report gets finished, whatever lines were being
written then; while they go on, the background thread may starve (`framework.cpp:36`).
Nothing is assumed of `DllMain`, of the
host or of a restart.

## Theorems

The proofs are in the eight `_proofs` modules; they use the named assumptions on
constants (`ConstantsAssumption`, `RuleAssumption`, `StatisticsAssumption`,
`ConfigAssumption`, `FormatAssumption`, `LogAssumption`, `LibraryAssumption`) and no other
hypothesis: the host is of any discipline, an uninitialised INT32 holds anything, and an
address of the heap serves any peer. They hold for any number of threads, handles,
addresses, sockets, rules, amounts, samples, files and lines. `PROJECT.json` lists the theorems.

`Framework`: `TypeCorrect`, `SectionsExclude` (`RegistrySynchronized`) and
`TableMatchesHeap` (`RegistryOwnsObjects`). The inductive invariant is

    IInv == TypeOK /\ LocalsOK /\ RegistrySynchronized /\ RegistryOwnsObjects

`RegistryOwnsObjects` alone is not inductive: to see that `Delete` deletes the
object of the key it looked up one needs the owner to be alone in the section
(`RegistrySynchronized`) and the key of the locals to be a key of the table at
`register` and `delete` (`LocalsOK`). The theorem says that the objects which are not leaked
correspond one to one with the entries, and that a leaked one is never deleted: the
leaks of the code are exactly the two that `Leak` names.

`Sharing_proofs`, about `Framework` too: `OnlyACloseMakesStale` (`StaleOnlyIfOvertaken`),
`EndpointsOfOldAreGone` (`EndpointsNotInherited`) and the refinement,
`TableImplementsRegistry` (`ImplementsRegistry`). Beside `IInv` they rest on

    SInv == IInv /\ HooksOK /\ Warned /\ Held

The table alone does not say why a pointer is still good: it is because it is still
in the table (`Held`), from which only a hook that closes that handle takes it, and such a hook
has marked every `recv` and `send` on the handle as overtaken before it gets there
(`Warned`). `HooksOK` says which hook is in which section and about which key.
`EndpointsNotInherited` is inductive on top of it: an entry speaks of an earlier connection only
from the real close on, and then a closing hook is on its way. For the
refinement each action is shown to be the action of `ConnectionRegistry` that the
section above names, or to leave `conn`, the records and the closers as they are.

`NetworkFilter`: `TypeCorrect` and `LimitRespected` (`RaisedOnlyBelowLimit`, an
action property). The check of the limit, the push and the increment are three
sections of the rule's mutex; the invariant

    IInv == TypeOK /\ OneRegisters /\ FramesOK /\ Settled /\ AnswerStands

says why the answer is still good at the increment: only one thread registers
at a time because `register_socket` holds `_frameworkSyncRoot`
(`OneRegisters`), all that others do to a counter meanwhile is to lower it
or drop its entry (`AnswerStands`), and no `CSocket` is made at an address a call works
with, so that the address of its peer stays the same (`Settled`).

`Admission_proofs`, about `NetworkFilter` too: `CountersNeverExceedPools`
(`NeverOvercounts`) and `RegisterAnswersAgree` (`RegisteredUnlessWild`). Both need

    CInv == IInv /\ SocketsOK /\ CallsOK

that is, who may be at work on which socket. The first adds that a socket is in the pool
before it is counted and is subtracted before it leaves (`CountsCovered`). It measures
from the value the counter was made of (`first`), and so holds for every one; where a
pool's socket has become another peer's, `first` is given up, as the code gives up the
count. The second adds that every rule that let the socket pass still would, because others
only make room, or has made a counter since that leaves none (`AnswersAgree`, `wild`), and what
the rules already passed have done (`TurnsOK`):

    RInv == CInv /\ AnswersAgree /\ TurnsOK

`Statistics`: `TypeCorrect`, `OneSampleRuns` (`CurrentRuns`), `NoTimeTwice`
(`SpansDisjoint`) and `SamplesBounded` (`NoSampleOverstates`). The invariant

    IInv == TypeOK /\ CurrentRuns /\ SpansDisjoint
            /\ PastOnly /\ RunningIsLast /\ Switching /\ CarriedAll

adds to the properties what the clock and the switch have to do with each other:
every recorded time is past (`PastOnly`); the running sample was started after
every other one ended, so stopping it now cannot make it overlap one of them
(`RunningIsLast`); between `Stop` and `Start` nothing runs and the next sample is
another one (`Switching`); and the running sample has the extra tick that
`NoSampleOverstates` grants only once a call has returned in the current tick
(`CarriedAll`): otherwise another call could go beyond it.

`Library`: `TypeCorrect`, `HooksFindAllReady` (`AttachedIsReady`), `LinesStayWhole`
(`WholeLines`), `LogIsNeverCut` (`LogOnlyGrows`), `WrittenIsOnDisk` (`LoggedIsOnDisk`),
`RulesFollowTheFile` (`RulesAsRead`), `RulesMatchTheirSockets` (`MatchAsWritten`) and
`ReportIsFresh` (`ReportFresh`). `LogFiles_proofs` is about
anything a process may do with its files (`FileStep`); `StepOfFiles` in
`Library_proofs` shows that each step of `Library` is one of these. The invariant of
the files,

    FInv == FilesOK /\ LogTexts /\ GoodIsThere /\ Exclusive /\ Buffered /\ LogPaired

says why a line is whole although its text and its newline are two steps: who
writes owns the mutex (`Exclusive`), and the stream's buffer holds the text of that thread
and nothing else (`Buffered`), so that each flush adds a text and a newline to a
file that ended with one (`LogPaired`). Around it, `Progress` says how far `DllMain`
has come and what it has done by then, and `TurnCounted` bounds the turns:

    IInv == TypeOK /\ FInv /\ Progress /\ TurnCounted

`WrittenIsOnDisk` counts: a step leaves the log and `said` alone, creates the empty log,
or adds one line and counts it (`StepOfLog`), so the lines of a thread in the log are
exactly those it was told of (`Counted`), over any number of processes.

`FilterConfig_proofs` reads a documented line word by word and lexeme by lexeme
(`EndsRead`, `WordRead`) up to the lemma `DocumentedParse`: the set of rules it may become has one
element, the rule it means (but for hours), whatever the stack held. `ConfigInv` says what that makes of a file:
`left` is its end, and the rules so far stem from the lines before it, in order and with no
documented one missing (`StemsFrom`). That such a rule matches what it should
(`WrittenMatches`) comes down to what `endpoint_parse` makes of an address with any number of
colons and of the endpoint of a socket that has none.

`ReportIsFresh` follows a report from the moment its file is truncated:

    ReportInv == StageOK /\ LineDue /\ Underway /\ Finished

While it is open the file holds the lines that are asked for but the one on its way
(`Underway`), and only that one can be (`LineDue`), because the background thread waits for
each `AppendLine`; when it is closed, nothing is missing (`Finished`).

Every safety and action property of the passing runs is proved. `ReportWritten` stays
with TLC: liveness under fairness is out of the prover's reach, as is
`ENABLED`. So is what the runs that end in a counterexample say.

## Plan

1. `Framework`, `NetworkFilter`, `Statistics` and their first theorems (done).
2. `FilterConfig`, `LogFiles` and `Library`, and `ConnectionRegistry` with the
   refinement (done).
3. Theorems for every safety and action property of the passing runs, the refinement
   included (done).
4. Theorems without hypotheses on the host, the heap or the initial counters, with the
   exceptions the code makes named in the properties (done).
5. A composition of `Framework` with `NetworkFilter`, in which the verdict is the
   rules' and stray closes hit connections in flight; it is far larger than
   either and wants an abstraction of the pools first.

## Not modelled

- The verdict of a new-connection rule. It compares a sum of rates per nanosecond
  with an amount per duration (`CNewConnectionRule.cpp:76`), so it does not fire at the
  amounts its format suggests; `NetworkFilter` lets it answer anything. With it
  `ComputeRecent`, which only this rule and the report use.
- A duration of 0 and the division by it (`CNewConnectionRule.cpp:66`).
- The text of log lines and rows; `CSocketLog::Append` changes nothing but the file,
  and `pad` the names of columns that are always padded alike.
- Two processes of the same program: the names of the log and the report depend
  on the program only, so they share both (`CLog.cpp:10`, `CSocketLog.cpp:33`).
- `line` of `CSocketLog` "must be called in a synchronized block" (`CSocketLog.h:8`) and is
  not; as the object is a local of one thread, nothing comes of it.
- The making of path strings, `string_format`, `net_speed_format`: no state.
- Detours itself: a commit that succeeds or fails.
