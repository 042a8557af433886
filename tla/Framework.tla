------------------------------ MODULE Framework ------------------------------
(***************************************************************************)
(* The detoured winsock calls and the table of monitored sockets           *)
(* (network-filter/framework.cpp).                                         *)
(*                                                                         *)
(* The host program calls accept, connect, recv, send and closesocket from *)
(* several threads; Detours sends each call through a hook that updates    *)
(* the table _sockets under _frameworkSyncRoot and asks the filter for a   *)
(* verdict.  A background thread walks a copy of the table.  The filter's  *)
(* answer is any Boolean here: the rules are modelled in NetworkFilter.    *)
(*                                                                         *)
(* A CSocket is a heap cell.  Deleting it takes its address out of "live"; *)
(* the address may then be handed out again while pointers to it remain.   *)
(* The CSocket built before a verdict, and the one a failed map insert     *)
(* leaves behind, are deleted by nobody: they are "leaked".                *)
(***************************************************************************)
EXTENDS FiniteSets, Naturals

CONSTANTS
  Threads,       \* host threads that call the hooked functions
  Loggers,       \* the background thread, or {} when _LOG is off
  Handles,       \* SOCKET values the kernel gives out
  Conns,         \* connections that can be established in a run (a bound)
  Addrs,         \* addresses of the heap that the model follows
  MaxLeaks,      \* leaked objects that get one of them (a bound)
  Discipline,    \* how careful the host is with a socket it closes:
                 \* "none", "forgets" (no new call on it), or "serial"
                 \* (nor is any call on it in flight)
  InvalidSocket, \* INVALID_SOCKET
  NoHandle,      \* a number that is not the value of any socket
  NoConn,        \* a handle that is not open: getpeername fails
  Unconnected,   \* a socket without a peer (yet): getpeername fails, too
  Null           \* no pointer, no owner

Keys   == Handles \cup {InvalidSocket}
Peers  == Conns \cup {NoConn, Unconnected}
Labels == {"idle", "probe", "break", "lock", "find", "register", "delete",
           "erase", "unlock", "use", "unregister"}
Hooks  == {"none", "accept", "connect", "io", "close"}

(* A connection can be opened and a CSocket made whenever the code does so. *)
ASSUME ConstantsAssumption ==
  /\ MaxLeaks \in Nat
  /\ Discipline \in {"none", "forgets", "serial"}
  /\ InvalidSocket \notin Handles
  /\ NoHandle \notin Keys
  /\ NoConn \notin Conns /\ Unconnected \notin Conns \cup {NoConn}
  /\ Null \notin Addrs \cup Threads \cup Loggers \cup Peers

VARIABLES
  conn,      \* kernel: what a handle stands for
  used,      \* kernel: connections established so far
  known,     \* host: handles it was given
  sockets,   \* _sockets: the CSocket of each key, Null when there is no entry
  live,      \* addresses of the CSocket objects not yet deleted
  leaked,    \* those of them that no pointer is kept of for a delete
  cell,      \* the key and connection the table's object at an address was
             \* made for
  mutex,     \* owner of _frameworkSyncRoot
  pc,        \* where each host thread is in its hook
  call,      \* locals of the hook a thread is in
  snapshot,  \* the objects the background thread still has to print
  overtaken  \* history: threads in a recv or send on whose handle a closing
             \* hook has been at work since their call began

kernel == <<conn, used>>
heap   == <<live, leaked, cell>>
vars   == <<conn, used, known, sockets, live, leaked, cell, mutex, pc, call,
            snapshot, overtaken>>

(* Locals: hook and its SOCKET argument, the key the current critical        *)
(* section is about, the CSocket pointer kept after the section, and whether *)
(* the section belongs to the closesocket call inside break_connection.      *)
Calls == [op: Hooks, arg: Keys \cup {NoHandle}, key: Keys \cup {NoHandle},
          ptr: Addrs \cup {Null}, brk: BOOLEAN]
Blank  == [key |-> InvalidSocket, conn |-> NoConn]
NoCall == [op |-> "none", arg |-> NoHandle, key |-> NoHandle,
           ptr |-> Null, brk |-> FALSE]

-----------------------------------------------------------------------------
(* Helpers *)

Goto(t, l) == pc' = [pc EXCEPT ![t] = l]

(* An open handle may be closed and still be in the table: the hook that     *)
(* closed h has yet to look it up, or to delete and erase what it found.     *)
Closing(t)    == call[t].brk \/ call[t].op = "close"
UnderClose(h) == \E t \in Threads : /\ Closing(t) /\ call[t].key = h
                                    /\ pc[t] \in {"lock", "find", "delete", "erase"}
Users(h)      == {t \in Threads : call[t].op = "io" /\ call[t].arg = h}

Enter(t, hook, s, l) ==
  /\ pc[t] = "idle"
  /\ Goto(t, l)
  /\ call' = [call EXCEPT ![t] = [op |-> hook, arg |-> s, key |-> s,
                                  ptr |-> Null, brk |-> FALSE]]

Return(t) == /\ Goto(t, "idle")
             /\ call' = [call EXCEPT ![t] = NoCall]
             /\ overtaken' = overtaken \ {t}

PeerOf(s)    == IF s \in Handles THEN conn[s] ELSE NoConn   \* getpeername
Lookup(s)    == IF s \in Keys THEN sockets[s] ELSE Null     \* _sockets.find
FreeHandles  == {h \in Handles : conn[h] = NoConn}
InSection(t) == pc[t] \in {"find", "register", "delete", "erase", "unlock"}

(* A call the host made on h that has not returned. *)
InFlight(h) == \E t \in Threads : /\ pc[t] # "idle"
                                  /\ call[t].arg = h
                                  /\ call[t].op \in {"accept", "connect", "io"}

Establish(h, c) == /\ conn' = [conn EXCEPT ![h] = c]
                   /\ used' = used \cup {c}

(* The real closesocket: a number that is no open handle is an error and     *)
(* changes nothing.                                                          *)
TrueCloseSocket(s) ==
  /\ conn' = [h \in Handles |-> IF h = s THEN NoConn ELSE conn[h]]
  /\ overtaken' = overtaken \cup Users(s)

(* A new CSocket that nothing will ever delete.  It gets an address the      *)
(* model follows or another one; what it was made for is not followed.       *)
Leak ==
  \/ UNCHANGED heap
  \/ /\ Cardinality(leaked) < MaxLeaks
     /\ \E a \in Addrs \ live : /\ live' = live \cup {a}
                               /\ leaked' = leaked \cup {a}
     /\ UNCHANGED cell

-----------------------------------------------------------------------------
(* The DLL is loaded into a program that may already have sockets. *)
Init ==
  /\ conn \in [Handles -> Peers]
  /\ \A g, h \in Handles : g # h /\ conn[g] = conn[h] => conn[g] \notin Conns
  /\ used = {conn[h] : h \in Handles} \cap Conns
  /\ known = {h \in Handles : conn[h] # NoConn}
  /\ sockets = [k \in Keys |-> Null]
  /\ live = {} /\ leaked = {}
  /\ cell = [a \in Addrs |-> Blank]
  /\ mutex = Null
  /\ pc = [t \in Threads |-> "idle"]
  /\ call = [t \in Threads |-> NoCall]
  /\ snapshot = {} /\ overtaken = {}

-----------------------------------------------------------------------------
(* Calls of the host that no hook sees *)

(* socket() *)
NewSocket(h) ==
  /\ h \in FreeHandles
  /\ conn' = [conn EXCEPT ![h] = Unconnected]
  /\ known' = known \cup {h}
  /\ UNCHANGED <<used, sockets, heap, mutex, pc, call, snapshot, overtaken>>

(* A connect that returned something other than 0 (a non-blocking socket)    *)
(* succeeds later.                                                           *)
ConnectCompletes(h) ==
  /\ conn[h] = Unconnected
  /\ \E c \in Conns \ used : Establish(h, c)
  /\ UNCHANGED <<known, sockets, heap, mutex, pc, call, snapshot, overtaken>>

-----------------------------------------------------------------------------
(* DetourAccept: the real accept returns a new socket or INVALID_SOCKET, and *)
(* the hook goes on the same way with either.                                *)
DetourAccept(t) ==
  /\ \/ \E h \in FreeHandles, c \in Conns \ used :
          Establish(h, c) /\ Enter(t, "accept", h, "probe")
     \/ Enter(t, "accept", InvalidSocket, "probe") /\ UNCHANGED kernel
  /\ UNCHANGED <<known, sockets, heap, mutex, snapshot, overtaken>>

(* DetourConnect: the real connect returned 0.  Any other result ends the    *)
(* hook and leaves the socket as it was.                                     *)
DetourConnect(t) ==
  /\ \E h \in known, c \in Conns \ used :
       /\ conn[h] = Unconnected
       /\ Establish(h, c) /\ Enter(t, "connect", h, "probe")
  /\ UNCHANGED <<known, sockets, heap, mutex, snapshot, overtaken>>

(* DetourRecv and DetourSend, up to the critical section, on a socket that   *)
(* is connected or not, or (by a careless host) closed.                      *)
DetourIo(t) ==
  /\ \E h \in known :
       /\ Enter(t, "io", h, "lock")
       /\ overtaken' = IF UnderClose(h) THEN overtaken \cup {t} ELSE overtaken
  /\ UNCHANGED <<kernel, known, sockets, heap, mutex, snapshot>>

(* DetourCloseSocket called by the host: the real close, then the section. *)
DetourCloseSocket(t) ==
  /\ \E h \in known :
       /\ Discipline = "serial" => ~InFlight(h)
       /\ Enter(t, "close", h, "lock")
       /\ TrueCloseSocket(h)
       /\ known' = IF Discipline = "none" THEN known ELSE known \ {h}
  /\ UNCHANGED <<used, sockets, heap, mutex, snapshot>>

(* accept and connect: a CSocket made for the occasion, and the verdict on   *)
(* it.                                                                       *)
Probe(t) ==
  /\ pc[t] = "probe"
  /\ Leak
  /\ \E flagged \in BOOLEAN : Goto(t, IF flagged THEN "break" ELSE "lock")
  /\ UNCHANGED <<kernel, known, sockets, mutex, call, snapshot, overtaken>>

(* break_connection hands closesocket the CSocket's Identifier(), a running  *)
(* count of CSocket objects, where the socket value belongs: it names the    *)
(* handle that happens to have that value, if any.  The call is itself       *)
(* detoured, so the closing section follows.                                 *)
BreakConnection(t) ==
  /\ pc[t] = "break"
  /\ \E id \in Handles \cup {NoHandle} :
       /\ TrueCloseSocket(id)
       /\ call' = [call EXCEPT ![t].key = id, ![t].brk = TRUE]
  /\ Goto(t, "lock")
  /\ UNCHANGED <<used, known, sockets, heap, mutex, snapshot>>

-----------------------------------------------------------------------------
(* The critical sections under _frameworkSyncRoot *)

(* Slips: no lock, an insert that replaces, no erase, a close that lets the  *)
(* entry of a handle be that is in use again.                                *)
AcquireUnguarded(t) == mutex' = t
VacantAlways(k) == TRUE
ErasedNot(k) == sockets
FoundUnused(k) == Lookup(k) # Null /\ PeerOf(k) = NoConn

(* BEGIN_LOCK and END_LOCK *)
Acquire(t) == mutex = Null /\ mutex' = t
Release    == mutex' = Null

(* map::insert leaves an entry that is there alone; map::erase drops it. *)
Vacant(k) == sockets[k] = Null
Erased(k) == [sockets EXCEPT ![k] = Null]

Lock(t) ==
  /\ pc[t] = "lock"
  /\ Acquire(t)
  /\ Goto(t, IF Closing(t) \/ call[t].op = "io" THEN "find" ELSE "register")
  /\ UNCHANGED <<kernel, known, sockets, heap, call, snapshot, overtaken>>

(* recv and send keep the entry they find, or register the socket. *)
FindForIo(t) ==
  /\ pc[t] = "find" /\ ~Closing(t)
  /\ LET a == Lookup(call[t].key) IN
       IF a = Null THEN Goto(t, "register") /\ UNCHANGED call
                   ELSE Goto(t, "unlock") /\ call' = [call EXCEPT ![t].ptr = a]
  /\ UNCHANGED <<kernel, known, sockets, heap, mutex, snapshot, overtaken>>

(* closesocket deletes whatever entry there is, or goes away. *)
Found(k) == Lookup(k) # Null
FindForClose(t) ==
  /\ pc[t] = "find" /\ Closing(t)
  /\ Goto(t, IF Found(call[t].key) THEN "delete" ELSE "unlock")
  /\ UNCHANGED <<kernel, known, sockets, heap, mutex, call, snapshot, overtaken>>

(* register_socket: a new CSocket with the endpoints the kernel reports now, *)
(* and an insert, whose failure leaves the object to nobody.  Only recv and  *)
(* send use the entry it returns.                                            *)
Register(t) ==
  LET k == call[t].key
      Keep(a) == call' = [call EXCEPT ![t].ptr =
                            IF call[t].op = "io" THEN a ELSE Null]
  IN /\ pc[t] = "register"
     /\ \/ /\ Vacant(k)
           /\ \E a \in Addrs \ live :
                /\ live' = live \cup {a}
                /\ cell' = [cell EXCEPT ![a] = [key |-> k, conn |-> PeerOf(k)]]
                /\ sockets' = [sockets EXCEPT ![k] = a]
                /\ Keep(a)
           /\ UNCHANGED leaked
        \/ ~Vacant(k) /\ Leak /\ Keep(sockets[k]) /\ UNCHANGED sockets
     /\ Goto(t, "unlock")
     /\ UNCHANGED <<kernel, known, mutex, snapshot, overtaken>>

(* delete iter->second; *)
Delete(t) ==
  /\ pc[t] = "delete"
  /\ LET a == sockets[call[t].key] IN
       /\ live' = live \ {a}
       /\ cell' = [cell EXCEPT ![a] = Blank]
  /\ Goto(t, "erase")
  /\ UNCHANGED <<kernel, known, sockets, leaked, mutex, call, snapshot, overtaken>>

(* _sockets.erase(iter); *)
Erase(t) ==
  /\ pc[t] = "erase"
  /\ sockets' = Erased(call[t].key)
  /\ Goto(t, "unlock")
  /\ UNCHANGED <<kernel, known, heap, mutex, call, snapshot, overtaken>>

(* The sockets a call leaves the host with; the slip is to take             *)
(* INVALID_SOCKET for one.                                                  *)
GivenUnchecked(t) == {call[t].arg}
Given(t) == {call[t].arg} \cap Handles

(* accept, connect and close return; a successful accept or connect leaves   *)
(* the host with the socket.                                                 *)
UnlockAndReturn(t) ==
  /\ pc[t] = "unlock" /\ ~call[t].brk /\ call[t].op # "io"
  /\ Release
  /\ known' = IF call[t].op = "close" THEN known ELSE known \cup Given(t)
  /\ Return(t)
  /\ UNCHANGED <<kernel, sockets, heap, snapshot>>

(* recv and send go on with the pointer, break_connection with Unregister. *)
UnlockAndGoOn(t) ==
  /\ pc[t] = "unlock" /\ (call[t].brk \/ call[t].op = "io")
  /\ Release
  /\ Goto(t, IF call[t].brk THEN "unregister" ELSE "use")
  /\ UNCHANGED <<kernel, known, sockets, heap, call, snapshot, overtaken>>

-----------------------------------------------------------------------------
(* After the section *)

(* iter->second->ProcessReceive(res), then the verdict on iter->second. *)
UseEntry(t) ==
  /\ pc[t] = "use"
  /\ \/ Return(t)
     \/ Goto(t, "break") /\ UNCHANGED <<call, overtaken>>
  /\ UNCHANGED <<kernel, known, sockets, heap, mutex, snapshot>>

(* The end of break_connection: _filters.Unregister(socket) takes the socket *)
(* out of the rules and not out of the table.  accept then returns           *)
(* INVALID_SOCKET, connect SOCKET_ERROR on a socket the host made itself,    *)
(* recv and send 0.                                                          *)
Unregister(t) ==
  /\ pc[t] = "unregister"
  /\ Return(t)
  /\ UNCHANGED <<kernel, known, sockets, heap, mutex, snapshot>>

-----------------------------------------------------------------------------
(* _background_work: the table is copied under the lock, the objects the     *)
(* copy points to are read after it.                                         *)
CloneTable(l) ==
  /\ l \in Loggers /\ snapshot = {}
  /\ mutex = Null
  /\ snapshot' = {sockets[k] : k \in Keys} \ {Null}
  /\ UNCHANGED <<kernel, known, sockets, heap, mutex, pc, call, overtaken>>

(* log.Append(it->second); *)
AppendSocket(l) ==
  /\ l \in Loggers
  /\ \E a \in snapshot : snapshot' = snapshot \ {a}
  /\ UNCHANGED <<kernel, known, sockets, heap, mutex, pc, call, overtaken>>

-----------------------------------------------------------------------------
Host(t) == \/ DetourAccept(t) \/ DetourConnect(t)
           \/ DetourIo(t) \/ DetourCloseSocket(t)
Section(t) == \/ FindForIo(t) \/ FindForClose(t) \/ Register(t) \/ Delete(t)
              \/ Erase(t) \/ UnlockAndReturn(t) \/ UnlockAndGoOn(t)
Outside(t) == \/ Probe(t) \/ BreakConnection(t) \/ Lock(t) \/ UseEntry(t)
              \/ Unregister(t)

Next == \/ \E h \in Handles : NewSocket(h) \/ ConnectCompletes(h)
        \/ \E t \in Threads : Host(t) \/ Outside(t) \/ Section(t)
        \/ \E l \in Loggers : CloneTable(l) \/ AppendSocket(l)

Spec == Init /\ [][Next]_vars

-----------------------------------------------------------------------------
(* Properties *)

(* Every variable keeps the shape the code gives it. *)
TypeOK ==
  /\ conn \in [Handles -> Peers]
  /\ used \subseteq Conns
  /\ known \subseteq Handles
  /\ sockets \in [Keys -> Addrs \cup {Null}]
  /\ live \subseteq Addrs /\ leaked \subseteq Addrs
  /\ cell \in [Addrs -> [key: Keys, conn: Peers]]
  /\ mutex \in Threads \cup {Null}
  /\ pc \in [Threads -> Labels]
  /\ call \in [Threads -> Calls]
  /\ snapshot \subseteq Addrs
  /\ overtaken \subseteq Threads

(* "Must be called from a synchronized block" (framework.cpp:68): a thread   *)
(* that looks up, registers, deletes or erases owns the lock, so no two do.  *)
RegistrySynchronized == \A t \in Threads : InSection(t) => mutex = t

BeingErased(k) == \E t \in Threads : pc[t] = "erase" /\ call[t].key = k

(* The table owns its objects.  Each entry points to an object that is still *)
(* there, was made for that very key and is not a leaked one, except between *)
(* the delete and the erase of the closing section, when its address may     *)
(* already belong to a leaked object; so no two entries share one.  The      *)
(* objects that are leaked are those of the CSockets made for a verdict or   *)
(* for an insert that failed, and none of these is ever deleted; every other *)
(* object is reachable from its key.  Whoever is about to delete deletes an  *)
(* object of the table, once.                                                *)
RegistryOwnsObjects ==
  LET owned == live \ leaked IN
    /\ leaked \subseteq live
    /\ \A k \in Keys : sockets[k] # Null =>
         BeingErased(k) \/ (sockets[k] \in owned /\ cell[sockets[k]].key = k)
    /\ \A a \in owned : sockets[cell[a].key] = a /\ ~BeingErased(cell[a].key)
    /\ \A t \in Threads : pc[t] = "delete" => Lookup(call[t].key) \in owned

(* The pointer a recv or send takes out of its section is good until it      *)
(* returns (framework.cpp:135-145, 164-172), unless a hook that closes its   *)
(* own handle is at work at some time during the call: nothing that happens  *)
(* to other handles, and no close that is over, leaves it with an object     *)
(* that is deleted or of another handle.                                     *)
StaleOnlyIfOvertaken ==
  \A t \in Threads \ overtaken : call[t].ptr # Null =>
    call[t].ptr \in live \ leaked /\ cell[call[t].ptr].key = call[t].arg

(* The endpoints cached in an entry are never those of an earlier connection *)
(* of the handle, unless the hook that closed that one has still to take the *)
(* entry out: the close deletes whatever entry there is, however a call that *)
(* was late or another accept interfered.  They may be "::0", those of no    *)
(* connection, which the insert of framework.cpp:73 does not replace.        *)
EndpointsNotInherited ==
  \A h \in Handles : sockets[h] # Null =>
    UnderClose(h) \/ cell[sockets[h]].conn \in {conn[h], NoConn, Unconnected}

(* The logger is not about to follow a pointer to an object that is deleted  *)
(* ("to do that we clone the _sockets map and release the lock",             *)
(* framework.cpp:40).                                                        *)
SnapshotIsLive == snapshot \subseteq live

(* The entry of a connected handle describes its connection, unless it was   *)
(* made while the socket was not connected yet, or the hook that closed the  *)
(* handle has still to take it out ("just in case `TrueSend` returns after   *)
(* `closesocket` was called", framework.cpp:182).                            *)
EntryIsCurrent ==
  \A h \in Handles : conn[h] \in Conns /\ sockets[h] # Null =>
    UnderClose(h) \/ cell[sockets[h]].conn \in {conn[h], Unconnected}

(* "or connection was blocked at start" (framework.cpp:184): a connection    *)
(* whose accept the filter refused goes through closesocket, so every        *)
(* connection left open belongs to the host or to a hook at work on it.      *)
RefusedIsClosed ==
  \A h \in Handles : conn[h] # NoConn => h \in known \/ InFlight(h)

(* The table implements ConnectionRegistry: a handle is recorded from the    *)
(* insert of its entry until the delete of the CSocket in it, with the       *)
(* endpoints the CSocket was made with, and a close of it is under way until *)
(* its section has deleted that object or found none.                        *)
Recorded(h) == IF sockets[h] = Null \/ BeingErased(h) THEN Null
               ELSE cell[sockets[h]].conn
Closers(h)  == {t \in Threads : /\ Closing(t) /\ call[t].key = h
                                /\ pc[t] \in {"lock", "find", "delete"}}

Registry == INSTANCE ConnectionRegistry
            WITH record <- [h \in Handles |-> Recorded(h)],
                 closing <- [h \in Handles |-> Closers(h)],
                 Absent <- Null

ImplementsRegistry == Registry!Spec
=============================================================================
