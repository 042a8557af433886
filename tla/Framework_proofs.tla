-------------------------- MODULE Framework_proofs --------------------------
(***************************************************************************)
(* What TLAPS proves of Framework, for every set of threads, handles,      *)
(* connections and addresses and for a host of any discipline: the shape   *)
(* of the state, the mutual exclusion of the sections under                *)
(* _frameworkSyncRoot, and the agreement of the table with the heap.       *)
(***************************************************************************)
EXTENDS Framework, TLAPS

(* The locals of a hook: outside break_connection the section is about a     *)
(* socket of the host, and only a registering section registers.             *)
LocalsOK ==
  \A t \in Threads :
    /\ pc[t] # "idle" /\ ~call[t].brk => call[t].key \in Keys
    /\ pc[t] = "register" => ~Closing(t)

(* The inductive invariant.  RegistryOwnsObjects alone is not inductive: it  *)
(* needs the sections to exclude each other.                                 *)
IInv == TypeOK /\ LocalsOK /\ RegistrySynchronized /\ RegistryOwnsObjects

(* What the table has to delete. *)
owned == live \ leaked

-----------------------------------------------------------------------------
(* The initial states satisfy it: nothing is registered, nobody is in a hook. *)
LEMMA InitInvariant == Init => IInv
<1> SUFFICES ASSUME Init PROVE IInv
  OBVIOUS
<1> USE ConstantsAssumption DEF Init
<1>1. TypeOK
  BY DEF TypeOK, Peers, Labels, Calls, NoCall, Hooks, Keys, Blank
<1>2. LocalsOK
  BY DEF LocalsOK, NoCall, Closing
<1>3. RegistrySynchronized
  BY DEF RegistrySynchronized, InSection
<1>4. RegistryOwnsObjects
  BY DEF RegistryOwnsObjects
<1> QED
  BY <1>1, <1>2, <1>3, <1>4 DEF IInv

-----------------------------------------------------------------------------
(* What entering and leaving a hook does to the locals. *)
LEMMA EnterType ==
  ASSUME TypeOK, NEW t \in Threads, NEW hook \in Hooks, NEW s \in Keys,
         NEW l \in Labels, Enter(t, hook, s, l)
  PROVE  pc' \in [Threads -> Labels] /\ call' \in [Threads -> Calls]
<1> DEFINE c == [op |-> hook, arg |-> s, key |-> s, ptr |-> Null, brk |-> FALSE]
<1>1. c \in Calls
  BY DEF Calls
<1>2. call' = [call EXCEPT ![t] = c] /\ pc' = [pc EXCEPT ![t] = l]
  BY DEF Enter, Goto
<1> HIDE DEF c
<1> QED
  BY <1>1, <1>2 DEF TypeOK

LEMMA ReturnType ==
  ASSUME TypeOK, NEW t \in Threads, Return(t)
  PROVE  /\ pc' \in [Threads -> Labels] /\ call' \in [Threads -> Calls]
         /\ overtaken' \subseteq Threads
<1>1. NoCall \in Calls
  BY DEF NoCall, Calls, Hooks
<1> QED
  BY <1>1 DEF TypeOK, Return, Goto, Labels

LEMMA GotoType ==
  ASSUME TypeOK, NEW t \in Threads, NEW l \in Labels, Goto(t, l)
  PROVE  pc' \in [Threads -> Labels]
  BY DEF TypeOK, Goto

(* The constants the actions name are in their sets. *)
LEMMA Names ==
  /\ \A l \in {"idle", "probe", "break", "lock", "find", "register", "delete",
                "erase", "unlock", "use", "unregister"} : l \in Labels
  /\ \A h \in {"accept", "connect", "io", "close"} : h \in Hooks
  /\ Handles \subseteq Keys /\ InvalidSocket \in Keys
  BY DEF Labels, Hooks, Keys

(* A leak takes an address that was free, or none, and owns nothing. *)
LEMMA LeakMeaning ==
  ASSUME TypeOK, leaked \subseteq live, Leak
  PROVE  /\ live' \subseteq Addrs /\ leaked' \subseteq live' /\ leaked' \subseteq Addrs
         /\ owned' = owned /\ cell' = cell
<1>1. CASE UNCHANGED heap
  BY <1>1 DEF TypeOK, heap, owned
<1>2. CASE \E a \in Addrs \ live : /\ live' = live \cup {a} /\ leaked' = leaked \cup {a}
                                 /\ cell' = cell
  BY <1>2 DEF TypeOK, owned
<1> QED
  BY <1>1, <1>2 DEF Leak

LEMMA UsersType == ASSUME NEW h PROVE Users(h) \subseteq Threads
  BY DEF Users

-----------------------------------------------------------------------------
(* Type correctness, one action at a time. *)
LEMMA TypeStep == IInv /\ [Next]_vars => TypeOK'
<1> SUFFICES ASSUME IInv, TypeOK, LocalsOK, leaked \subseteq live, [Next]_vars PROVE TypeOK'
  BY DEF IInv, RegistryOwnsObjects
<1> USE ConstantsAssumption DEF TypeOK
<1>0. ASSUME NEW h \in Handles, NewSocket(h) \/ ConnectCompletes(h) PROVE TypeOK'
  <2>1. conn' \in [Handles -> Peers] /\ used' \subseteq Conns /\ known' \subseteq Handles
    BY <1>0 DEF NewSocket, ConnectCompletes, Establish, Peers
  <2> QED
    BY <1>0, <2>1 DEF NewSocket, ConnectCompletes, heap
<1>1. ASSUME NEW t \in Threads, DetourAccept(t) PROVE TypeOK'
  <2>1. pc' \in [Threads -> Labels] /\ call' \in [Threads -> Calls]
    BY <1>1, EnterType, Names DEF DetourAccept, FreeHandles
  <2>2. conn' \in [Handles -> Peers] /\ used' \subseteq Conns
    BY <1>1 DEF DetourAccept, Establish, FreeHandles, kernel, Peers
  <2> QED
    BY <1>1, <2>1, <2>2 DEF DetourAccept, heap
<1>2. ASSUME NEW t \in Threads, DetourConnect(t) PROVE TypeOK'
  <2>1. pc' \in [Threads -> Labels] /\ call' \in [Threads -> Calls]
    BY <1>2, EnterType, Names DEF DetourConnect
  <2>2. conn' \in [Handles -> Peers] /\ used' \subseteq Conns
    BY <1>2 DEF DetourConnect, Establish, Peers
  <2> QED
    BY <1>2, <2>1, <2>2 DEF DetourConnect, heap
<1>3. ASSUME NEW t \in Threads, DetourIo(t) PROVE TypeOK'
  <2>1. pc' \in [Threads -> Labels] /\ call' \in [Threads -> Calls]
    BY <1>3, EnterType, Names DEF DetourIo
  <2>2. overtaken' \subseteq Threads
    BY <1>3 DEF DetourIo
  <2> QED
    BY <1>3, <2>1, <2>2 DEF DetourIo, kernel, heap
<1>4. ASSUME NEW t \in Threads, DetourCloseSocket(t) PROVE TypeOK'
  <2>1. pc' \in [Threads -> Labels] /\ call' \in [Threads -> Calls]
    BY <1>4, EnterType, Names DEF DetourCloseSocket
  <2>2. conn' \in [Handles -> Peers] /\ known' \subseteq Handles /\ overtaken' \subseteq Threads
    BY <1>4, UsersType DEF DetourCloseSocket, TrueCloseSocket, Peers
  <2> QED
    BY <1>4, <2>1, <2>2 DEF DetourCloseSocket, heap
<1>5. ASSUME NEW t \in Threads, Probe(t) PROVE TypeOK'
  <2>1. pc' \in [Threads -> Labels]
    BY <1>5, GotoType, Names DEF Probe
  <2> QED
    BY <1>5, <2>1, LeakMeaning DEF Probe, kernel
<1>6. ASSUME NEW t \in Threads, BreakConnection(t) PROVE TypeOK'
  <2>1. PICK id \in Handles \cup {NoHandle} :
          /\ TrueCloseSocket(id)
          /\ call' = [call EXCEPT ![t].key = id, ![t].brk = TRUE]
    BY <1>6 DEF BreakConnection
  <2>2. id \in Keys \cup {NoHandle}
    BY DEF Keys
  <2>3. call' \in [Threads -> Calls]
    <3>0. call[t] \in Calls
      OBVIOUS
    <3>1. [call[t] EXCEPT !.key = id, !.brk = TRUE] \in Calls
      BY ONLY <2>2, <3>0 DEF Calls
    <3> QED
      BY <2>1, <3>1
  <2>4. conn' \in [Handles -> Peers] /\ overtaken' \subseteq Threads
    BY <2>1, UsersType DEF TrueCloseSocket, Peers
  <2> QED
    BY <1>6, <2>3, <2>4 DEF BreakConnection, Goto, heap, Labels
<1>7. ASSUME NEW t \in Threads, Lock(t) PROVE TypeOK'
  BY <1>7 DEF Lock, Acquire, Goto, kernel, heap, Labels
<1>8. ASSUME NEW t \in Threads, FindForIo(t) PROVE TypeOK'
  <2>1. CASE Lookup(call[t].key) = Null
    BY <1>8, <2>1, GotoType, Names DEF FindForIo, kernel, heap
  <2>2. CASE Lookup(call[t].key) # Null
    <3>1. Lookup(call[t].key) \in Addrs
      BY <2>2 DEF Lookup
    <3>4. call[t] \in Calls
      OBVIOUS
    <3>2. [call[t] EXCEPT !.ptr = Lookup(call[t].key)] \in Calls
      BY ONLY <3>1, <3>4 DEF Calls
    <3>3. call' \in [Threads -> Calls]
      BY <1>8, <2>2, <3>2 DEF FindForIo
    <3> QED
      BY <1>8, <2>2, <3>3, GotoType, Names DEF FindForIo, kernel, heap
  <2> QED
    BY <2>1, <2>2
<1>9. ASSUME NEW t \in Threads, FindForClose(t) PROVE TypeOK'
  BY <1>9 DEF FindForClose, Goto, kernel, heap, Labels
<1>10. ASSUME NEW t \in Threads, Register(t) PROVE TypeOK'
  <2> DEFINE k == call[t].key
  <2>1. k \in Keys /\ pc[t] = "register"
    BY <1>10 DEF Register, LocalsOK, Closing
  <2>2. PeerOf(k) \in Peers
    BY <2>1 DEF PeerOf, Peers
  <2>3. CASE Vacant(k)
    <3>1. PICK a \in Addrs \ live :
            /\ live' = live \cup {a}
            /\ cell' = [cell EXCEPT ![a] = [key |-> k, conn |-> PeerOf(k)]]
            /\ sockets' = [sockets EXCEPT ![k] = a]
            /\ call' = [call EXCEPT ![t].ptr = IF call[t].op = "io" THEN a ELSE Null]
            /\ leaked' = leaked
      BY <1>10, <2>3 DEF Register
    <3>2. [call[t] EXCEPT !.ptr = IF call[t].op = "io" THEN a ELSE Null] \in Calls
      BY <3>1 DEF Calls
    <3>3. call' \in [Threads -> Calls]
      BY <3>1, <3>2
    <3>4. [key |-> k, conn |-> PeerOf(k)] \in [key: Keys, conn: Peers]
      BY <2>1, <2>2
    <3>5. cell' \in [Addrs -> [key: Keys, conn: Peers]]
      BY <3>1, <3>4
    <3>6. sockets' \in [Keys -> Addrs \cup {Null}] /\ live' \subseteq Addrs
      BY <2>1, <3>1
    <3> QED
      BY <1>10, <3>1, <3>3, <3>5, <3>6, GotoType, Names DEF Register, kernel
  <2>4. CASE ~Vacant(k)
    <3>1. call' = [call EXCEPT ![t].ptr = IF call[t].op = "io" THEN sockets[k] ELSE Null]
      BY <1>10, <2>4 DEF Register
    <3>2. [call[t] EXCEPT !.ptr = IF call[t].op = "io" THEN sockets[k] ELSE Null] \in Calls
      BY <2>1 DEF Calls
    <3>3. call' \in [Threads -> Calls]
      BY <3>1, <3>2
    <3> QED
      BY <1>10, <2>4, <3>3, GotoType, LeakMeaning, Names DEF Register, kernel
  <2> QED
    BY <2>3, <2>4
<1>11. ASSUME NEW t \in Threads, Delete(t) PROVE TypeOK'
  BY <1>11 DEF Delete, Goto, kernel, Blank, Labels, Keys, Peers
<1>12. ASSUME NEW t \in Threads, Erase(t) PROVE TypeOK'
  BY <1>12 DEF Erase, Erased, Goto, kernel, heap, Labels
<1>13. ASSUME NEW t \in Threads, UnlockAndReturn(t) PROVE TypeOK'
  BY <1>13, ReturnType DEF UnlockAndReturn, Release, Given, kernel, heap
<1>14. ASSUME NEW t \in Threads, UnlockAndGoOn(t) PROVE TypeOK'
  BY <1>14 DEF UnlockAndGoOn, Release, Goto, kernel, heap, Labels
<1>15. ASSUME NEW t \in Threads, UseEntry(t) PROVE TypeOK'
  <2>1. /\ pc' \in [Threads -> Labels] /\ call' \in [Threads -> Calls]
        /\ overtaken' \subseteq Threads
    BY <1>15, ReturnType, GotoType, Names DEF UseEntry
  <2> QED
    BY <1>15, <2>1 DEF UseEntry, kernel, heap
<1>16. ASSUME NEW t \in Threads, Unregister(t) PROVE TypeOK'
  BY <1>16, ReturnType DEF Unregister, kernel, heap
<1>17. ASSUME NEW l \in Loggers, CloneTable(l) PROVE TypeOK'
  BY <1>17 DEF CloneTable, kernel, heap
<1>18. ASSUME NEW l \in Loggers, AppendSocket(l) PROVE TypeOK'
  BY <1>18 DEF AppendSocket, kernel, heap
<1>19. CASE UNCHANGED vars
  BY <1>19 DEF vars
<1> QED
  BY <1>0, <1>1, <1>2, <1>3, <1>4, <1>5, <1>6, <1>7, <1>8, <1>9, <1>10, <1>11, <1>12,
     <1>13, <1>14, <1>15, <1>16, <1>17, <1>18, <1>19
     DEF Next, Host, Section, Outside

-----------------------------------------------------------------------------
(* The locals: Enter sets them, break_connection changes the key, and a       *)
(* thread reaches "register" only from a section that is not closing.        *)
LEMMA LocalsStep == TypeOK /\ LocalsOK /\ [Next]_vars => LocalsOK'
<1> SUFFICES ASSUME TypeOK, LocalsOK, [Next]_vars, NEW u \in Threads
             PROVE  /\ pc'[u] # "idle" /\ ~call'[u].brk => call'[u].key \in Keys
                    /\ pc'[u] = "register" => ~Closing(u)'
  BY DEF LocalsOK
<1> DEFINE Good == /\ pc'[u] # "idle" /\ ~call'[u].brk => call'[u].key \in Keys
                   /\ pc'[u] = "register" => ~Closing(u)'
<1> USE DEF TypeOK, LocalsOK, Closing
<1>0. ASSUME NEW h \in Handles, NewSocket(h) \/ ConnectCompletes(h) PROVE Good
  BY <1>0 DEF NewSocket, ConnectCompletes
<1>1. ASSUME NEW t \in Threads, DetourAccept(t) PROVE Good
  BY <1>1, Names DEF DetourAccept, Enter, Goto, FreeHandles
<1>2. ASSUME NEW t \in Threads, DetourConnect(t) PROVE Good
  BY <1>2, Names DEF DetourConnect, Enter, Goto, FreeHandles
<1>3. ASSUME NEW t \in Threads, DetourIo(t) PROVE Good
  BY <1>3, Names DEF DetourIo, Enter, Goto
<1>4. ASSUME NEW t \in Threads, DetourCloseSocket(t) PROVE Good
  BY <1>4, Names DEF DetourCloseSocket, Enter, Goto
<1>5. ASSUME NEW t \in Threads, Probe(t) PROVE Good
  BY <1>5 DEF Probe, Goto
<1>6. ASSUME NEW t \in Threads, BreakConnection(t) PROVE Good
  <2>1. CASE u = t
    BY <1>6, <2>1 DEF BreakConnection, Goto, Calls
  <2>2. CASE u # t
    BY <1>6, <2>2 DEF BreakConnection, Goto
  <2> QED
    BY <2>1, <2>2
<1>7. ASSUME NEW t \in Threads, Lock(t) PROVE Good
  BY <1>7 DEF Lock, Goto
<1>8. ASSUME NEW t \in Threads, FindForIo(t) PROVE Good
  <2>1. /\ call'[u].brk = call[u].brk /\ call'[u].op = call[u].op
        /\ call'[u].key = call[u].key /\ call'[u].arg = call[u].arg
    BY <1>8 DEF FindForIo, Goto, Calls
  <2>2. /\ pc[u] = "idle" => pc'[u] = "idle"
        /\ pc'[u] = "register" => pc[u] = "register" \/ ~Closing(u)
    BY <1>8 DEF FindForIo, Goto
  <2> QED
    BY <2>1, <2>2
<1>9. ASSUME NEW t \in Threads, FindForClose(t) PROVE Good
  BY <1>9 DEF FindForClose, Goto
<1>10. ASSUME NEW t \in Threads, Register(t) PROVE Good
  <2>1. PICK a \in Addrs \cup {Null} :
          call' = [call EXCEPT ![t].ptr = IF call[t].op = "io" THEN a ELSE Null]
    <3>1. CASE Vacant(call[t].key)
      BY <1>10, <3>1 DEF Register
    <3>2. CASE ~Vacant(call[t].key)
      BY <1>10, <3>2 DEF Register
    <3> QED
      BY <3>1, <3>2
  <2>2. /\ call'[u].brk = call[u].brk /\ call'[u].op = call[u].op
        /\ call'[u].key = call[u].key /\ call'[u].arg = call[u].arg
    BY <2>1 DEF Calls
  <2>3. /\ pc[u] = "idle" => pc'[u] = "idle"
        /\ pc'[u] = "register" => pc[u] = "register"
    BY <1>10 DEF Register, Goto
  <2> QED
    BY <2>2, <2>3
<1>11. ASSUME NEW t \in Threads, Delete(t) PROVE Good
  BY <1>11 DEF Delete, Goto
<1>12. ASSUME NEW t \in Threads, Erase(t) PROVE Good
  BY <1>12 DEF Erase, Goto
<1>13. ASSUME NEW t \in Threads, UnlockAndReturn(t) PROVE Good
  BY <1>13 DEF UnlockAndReturn, Return, Goto, NoCall
<1>14. ASSUME NEW t \in Threads, UnlockAndGoOn(t) PROVE Good
  BY <1>14 DEF UnlockAndGoOn, Goto
<1>15. ASSUME NEW t \in Threads, UseEntry(t) PROVE Good
  BY <1>15 DEF UseEntry, Return, Goto, NoCall
<1>16. ASSUME NEW t \in Threads, Unregister(t) PROVE Good
  BY <1>16 DEF Unregister, Return, Goto, NoCall
<1>17. ASSUME NEW l \in Loggers, CloneTable(l) \/ AppendSocket(l) PROVE Good
  BY <1>17 DEF CloneTable, AppendSocket
<1>18. CASE UNCHANGED vars
  BY <1>18 DEF vars
<1> QED
  BY <1>0, <1>1, <1>2, <1>3, <1>4, <1>5, <1>6, <1>7, <1>8, <1>9, <1>10, <1>11, <1>12,
     <1>13, <1>14, <1>15, <1>16, <1>17, <1>18 DEF Next, Host, Section, Outside

-----------------------------------------------------------------------------
(* Mutual exclusion: only Lock enters a section and it needs the mutex free,  *)
(* only the unlocking actions release it and they leave the section.         *)
LEMMA SynchronizedStep ==
  TypeOK /\ RegistrySynchronized /\ [Next]_vars => RegistrySynchronized'
<1> SUFFICES ASSUME TypeOK, RegistrySynchronized, [Next]_vars, NEW u \in Threads,
                    InSection(u)'
             PROVE  mutex' = u
  BY DEF RegistrySynchronized
<1> USE ConstantsAssumption DEF TypeOK, RegistrySynchronized, InSection
<1>0. ASSUME NEW h \in Handles, NewSocket(h) \/ ConnectCompletes(h) PROVE mutex' = u
  BY <1>0 DEF NewSocket, ConnectCompletes
<1>1. ASSUME NEW t \in Threads, Host(t) PROVE mutex' = u
  BY <1>1 DEF Host, DetourAccept, DetourConnect, DetourIo, DetourCloseSocket, Enter, Goto
<1>2. ASSUME NEW t \in Threads, Probe(t) PROVE mutex' = u
  BY <1>2 DEF Probe, Goto
<1>3. ASSUME NEW t \in Threads, BreakConnection(t) PROVE mutex' = u
  BY <1>3 DEF BreakConnection, Goto
<1>4. ASSUME NEW t \in Threads, Lock(t) PROVE mutex' = u
  BY <1>4 DEF Lock, Acquire, Goto
<1>5. ASSUME NEW t \in Threads, FindForIo(t) \/ FindForClose(t) PROVE mutex' = u
  BY <1>5 DEF FindForIo, FindForClose, Goto
<1>6. ASSUME NEW t \in Threads, Register(t) PROVE mutex' = u
  BY <1>6 DEF Register, Goto
<1>7. ASSUME NEW t \in Threads, Delete(t) \/ Erase(t) PROVE mutex' = u
  BY <1>7 DEF Delete, Erase, Goto
<1>8. ASSUME NEW t \in Threads, UnlockAndReturn(t) \/ UnlockAndGoOn(t) PROVE mutex' = u
  BY <1>8 DEF UnlockAndReturn, UnlockAndGoOn, Return, Goto
<1>9. ASSUME NEW t \in Threads, UseEntry(t) \/ Unregister(t) PROVE mutex' = u
  BY <1>9 DEF UseEntry, Unregister, Return, Goto
<1>10. ASSUME NEW l \in Loggers, CloneTable(l) \/ AppendSocket(l) PROVE mutex' = u
  BY <1>10 DEF CloneTable, AppendSocket
<1>11. CASE UNCHANGED vars
  BY <1>11 DEF vars
<1> QED
  BY <1>0, <1>1, <1>2, <1>3, <1>4, <1>5, <1>6, <1>7, <1>8, <1>9, <1>10, <1>11
     DEF Next, Section, Outside

-----------------------------------------------------------------------------
(* The table and the heap.  Most steps leave both alone, but for a leak, and  *)
(* move no thread into or out of the closing section's last two steps.       *)
LEMMA TableUntouched ==
  ASSUME IInv, UNCHANGED <<sockets, cell>>, owned' = owned, leaked' \subseteq live',
         \A u \in Threads :
           /\ pc'[u] = "delete" <=> pc[u] = "delete"
           /\ pc'[u] = "erase" <=> pc[u] = "erase"
           /\ pc[u] \in {"delete", "erase"} => call'[u].key = call[u].key
  PROVE  RegistryOwnsObjects'
<1> USE DEF IInv, RegistryOwnsObjects, BeingErased, Lookup, owned
<1>1. \A k \in Keys : BeingErased(k) <=> BeingErased(k)'
  OBVIOUS
<1>2. (\A k \in Keys : sockets[k] # Null =>
         BeingErased(k) \/ (sockets[k] \in owned /\ cell[sockets[k]].key = k))'
  BY <1>1
<1>3. (\A a \in owned : sockets[cell[a].key] = a /\ ~BeingErased(cell[a].key))'
  <2> SUFFICES ASSUME NEW a \in owned
               PROVE  sockets[cell[a].key] = a /\ ~BeingErased(cell[a].key)'
    OBVIOUS
  <2>1. cell[a].key \in Keys /\ sockets[cell[a].key] = a /\ ~BeingErased(cell[a].key)
    BY DEF TypeOK
  <2>2. BeingErased(cell[a].key)' <=> BeingErased(cell[a].key)
    BY DEF BeingErased
  <2> QED
    BY <2>1, <2>2
<1>4. (\A t \in Threads : pc[t] = "delete" => Lookup(call[t].key) \in owned)'
  OBVIOUS
<1> QED
  BY <1>2, <1>3, <1>4

(* While a thread is in a section and is not erasing, nobody is, so every     *)
(* entry has its object.                                                     *)
LEMMA NobodyErases ==
  ASSUME IInv, NEW t \in Threads, InSection(t), pc[t] # "erase"
  PROVE  /\ \A k : ~BeingErased(k)
         /\ \A k \in Keys : sockets[k] # Null =>
              sockets[k] \in owned /\ cell[sockets[k]].key = k
         /\ \A u \in Threads \ {t} : ~InSection(u)
  BY DEF IInv, RegistrySynchronized, InSection, BeingErased, RegistryOwnsObjects, owned

LEMMA RegistryStep == IInv /\ [Next]_vars => RegistryOwnsObjects'
<1> SUFFICES ASSUME IInv, leaked \subseteq live, [Next]_vars PROVE RegistryOwnsObjects'
  BY DEF IInv, RegistryOwnsObjects
<1> USE ConstantsAssumption DEF IInv, TypeOK
<1> DEFINE Good == RegistryOwnsObjects'
<1>a. UNCHANGED heap => UNCHANGED cell /\ owned' = owned /\ leaked' \subseteq live'
  BY DEF heap, owned
<1>0. ASSUME NEW h \in Handles, NewSocket(h) \/ ConnectCompletes(h) PROVE Good
  BY <1>0, <1>a, TableUntouched DEF NewSocket, ConnectCompletes
<1>1. ASSUME NEW t \in Threads, Host(t) PROVE Good
  <2>1. UNCHANGED <<heap, sockets>>
    BY <1>1 DEF Host, DetourAccept, DetourConnect, DetourIo, DetourCloseSocket
  <2> QED
    BY <1>1, <1>a, <2>1, TableUntouched DEF Host, DetourAccept, DetourConnect, DetourIo,
       DetourCloseSocket, Enter, Goto
<1>2. ASSUME NEW t \in Threads, Probe(t) PROVE Good
  BY <1>2, LeakMeaning, TableUntouched DEF Probe, Goto
<1>13. ASSUME NEW t \in Threads, Lock(t) PROVE Good
  BY <1>13, <1>a, TableUntouched DEF Lock, Goto
<1>3. ASSUME NEW t \in Threads, BreakConnection(t) PROVE Good
  BY <1>3, <1>a, TableUntouched DEF BreakConnection, Goto
<1>4. ASSUME NEW t \in Threads, FindForIo(t) PROVE Good
  BY <1>4, <1>a, TableUntouched DEF FindForIo, Goto
<1>5. ASSUME NEW t \in Threads, FindForClose(t) PROVE Good
  <2> USE DEF FindForClose, Found
  <2>1. CASE Lookup(call[t].key) = Null
    BY <1>5, <1>a, <2>1, TableUntouched DEF Goto
  <2>2. CASE Lookup(call[t].key) # Null
    <3>1. Lookup(call[t].key) \in owned
      BY <1>5, <2>2, NobodyErases DEF Lookup, InSection
    <3>2. /\ UNCHANGED <<sockets, live, leaked, cell, call>>
          /\ pc' = [pc EXCEPT ![t] = "delete"] /\ pc[t] = "find"
      BY <1>5, <2>2 DEF Goto, heap
    <3>3. \A k : BeingErased(k) <=> BeingErased(k)'
      BY <3>2 DEF BeingErased
    <3> QED
      BY <3>1, <3>2, <3>3 DEF RegistryOwnsObjects, Lookup, owned
  <2> QED
    BY <2>1, <2>2
<1>6. ASSUME NEW t \in Threads, Register(t) PROVE Good
  <2> DEFINE k == call[t].key
  <2>1. pc[t] = "register" /\ pc' = [pc EXCEPT ![t] = "unlock"] /\ k \in Keys
    BY <1>6 DEF Register, Goto, LocalsOK, Closing
  <2>2. CASE ~Vacant(k)
    <3>1. Leak /\ UNCHANGED sockets
      BY <1>6, <2>2 DEF Register
    <3>2. \A u \in Threads : u # t => call'[u] = call[u]
      BY <1>6, <2>2 DEF Register
    <3> QED
      BY <2>1, <3>1, <3>2, LeakMeaning, TableUntouched
  <2>3. CASE Vacant(k)
    <3>1. PICK a \in Addrs \ live :
            /\ live' = live \cup {a}
            /\ leaked' = leaked
            /\ cell' = [cell EXCEPT ![a] = [key |-> k, conn |-> PeerOf(k)]]
            /\ sockets' = [sockets EXCEPT ![k] = a]
      BY <1>6, <2>3 DEF Register
    <3>0. owned' = owned \cup {a} /\ a \notin owned /\ leaked' \subseteq live'
      BY <3>1 DEF owned
    <3>2. \A j \in Keys : sockets[j] # Null => sockets[j] \in owned /\ cell[sockets[j]].key = j
      BY <2>1, NobodyErases DEF InSection
    <3>3. \A u \in Threads : pc'[u] \notin {"delete", "erase"}
      BY <2>1, NobodyErases DEF InSection
    <3>4. \A j \in Keys : sockets'[j] # Null =>
            sockets'[j] \in owned' /\ cell'[sockets'[j]].key = j
      <4> SUFFICES ASSUME NEW j \in Keys, sockets'[j] # Null
                   PROVE  sockets'[j] \in owned' /\ cell'[sockets'[j]].key = j
        OBVIOUS
      <4>1. CASE j = k
        BY <2>1, <3>0, <3>1, <4>1
      <4>2. CASE j # k
        BY <2>1, <3>0, <3>1, <3>2, <4>2
      <4> QED
        BY <4>1, <4>2
    <3>5. \A b \in owned' : sockets'[cell'[b].key] = b
      <4> SUFFICES ASSUME NEW b \in owned' PROVE sockets'[cell'[b].key] = b
        OBVIOUS
      <4>1. CASE b = a
        BY <2>1, <3>1, <4>1
      <4>2. CASE b # a
        <5>1. b \in owned /\ b \in Addrs /\ b # Null
          BY <3>0, <4>2 DEF owned
        <5>2. cell'[b] = cell[b] /\ cell[b].key \in Keys
          BY <3>1, <4>2, <5>1
        <5>3. sockets[cell[b].key] = b
          BY <5>1 DEF RegistryOwnsObjects, owned
        <5> QED
          BY <2>3, <3>1, <5>1, <5>2, <5>3 DEF Vacant
      <4> QED
        BY <4>1, <4>2
    <3> QED
      BY <3>0, <3>3, <3>4, <3>5 DEF RegistryOwnsObjects, BeingErased, owned
  <2> QED
    BY <2>2, <2>3
<1>7. ASSUME NEW t \in Threads, Delete(t) PROVE Good
  <2> DEFINE k == call[t].key
             a == sockets[k]
  <2>1. /\ pc[t] = "delete" /\ pc' = [pc EXCEPT ![t] = "erase"]
        /\ live' = live \ {a} /\ cell' = [cell EXCEPT ![a] = Blank]
        /\ UNCHANGED <<sockets, leaked, call>>
    BY <1>7 DEF Delete, Goto
  <2>2. k \in Keys /\ a \in owned
    BY <2>1 DEF RegistryOwnsObjects, Lookup, owned
  <2>0. owned' = owned \ {a} /\ leaked' \subseteq live'
    BY <2>1, <2>2 DEF owned
  <2>3. \A j \in Keys : sockets[j] # Null => sockets[j] \in owned /\ cell[sockets[j]].key = j
    BY <2>1, NobodyErases DEF InSection
  <2>4. \A j : BeingErased(j)' <=> j = k
    BY <2>1, NobodyErases DEF BeingErased, InSection
  <2>5. \A u \in Threads \ {t} : pc'[u] \notin {"delete", "erase"}
    BY <2>1, NobodyErases DEF InSection
  <2>6. \A j \in Keys : sockets'[j] # Null =>
          BeingErased(j)' \/ (sockets'[j] \in owned' /\ cell'[sockets'[j]].key = j)
    <3> SUFFICES ASSUME NEW j \in Keys, sockets[j] # Null, j # k
                 PROVE  sockets[j] \in owned' /\ cell'[sockets[j]].key = j
      BY <2>1, <2>4
    <3>1. sockets[j] # a
      BY <2>2, <2>3
    <3> QED
      BY <2>0, <2>1, <2>3, <3>1
  <2>7. \A b \in owned' : sockets'[cell'[b].key] = b /\ cell'[b].key # k
    <3> SUFFICES ASSUME NEW b \in owned, b # a
                 PROVE  sockets[cell'[b].key] = b /\ cell'[b].key # k
      BY <2>0, <2>1
    <3>1. cell'[b] = cell[b] /\ sockets[cell[b].key] = b
      BY <2>1 DEF RegistryOwnsObjects, owned
    <3> QED
      BY <3>1
  <2>9. (\A u \in Threads : pc[u] = "delete" => Lookup(call[u].key) \in owned)'
    BY <2>1, <2>5
  <2> QED
    BY <2>0, <2>4, <2>6, <2>7, <2>9 DEF RegistryOwnsObjects, owned
<1>8. ASSUME NEW t \in Threads, Erase(t) PROVE Good
  <2> DEFINE k == call[t].key
  <2>1. /\ pc[t] = "erase" /\ pc' = [pc EXCEPT ![t] = "unlock"]
        /\ sockets' = [sockets EXCEPT ![k] = Null] /\ UNCHANGED <<live, leaked, cell, call>>
    BY <1>8 DEF Erase, Erased, Goto, heap
  <2>2. \A u \in Threads \ {t} : pc'[u] \notin {"delete", "erase"} /\ pc[u] # "erase"
    BY <2>1 DEF RegistrySynchronized, InSection
  <2>3. \A j \in Keys : sockets'[j] # Null => sockets[j] # Null /\ j # k /\ sockets'[j] = sockets[j]
    BY <2>1
  <2>4. \A j : BeingErased(j) <=> j = k
    BY <2>1, <2>2 DEF BeingErased
  <2>0. owned' = owned /\ leaked' \subseteq live'
    BY <2>1 DEF owned
  <2>5. \A j \in Keys : sockets'[j] # Null => sockets'[j] \in owned' /\ cell'[sockets'[j]].key = j
    BY <2>0, <2>1, <2>3, <2>4 DEF RegistryOwnsObjects, owned
  <2>6. \A b \in owned' : sockets'[cell'[b].key] = b
    <3> SUFFICES ASSUME NEW b \in owned PROVE sockets'[cell[b].key] = b
      BY <2>0, <2>1
    <3>1. cell[b].key \in Keys /\ sockets[cell[b].key] = b /\ cell[b].key # k
      BY <2>4 DEF RegistryOwnsObjects, owned
    <3> QED
      BY <2>1, <3>1
  <2>7. \A u \in Threads : pc'[u] \notin {"delete", "erase"}
    BY <2>1, <2>2
  <2> QED
    BY <2>0, <2>5, <2>6, <2>7 DEF RegistryOwnsObjects, BeingErased, owned
<1>9. ASSUME NEW t \in Threads, UnlockAndReturn(t) \/ UnlockAndGoOn(t) PROVE Good
  BY <1>9, <1>a, TableUntouched DEF UnlockAndReturn, UnlockAndGoOn, Return, Goto
<1>10. ASSUME NEW t \in Threads, UseEntry(t) \/ Unregister(t) PROVE Good
  BY <1>10, <1>a, TableUntouched DEF UseEntry, Unregister, Return, Goto
<1>11. ASSUME NEW l \in Loggers, CloneTable(l) \/ AppendSocket(l) PROVE Good
  BY <1>11, <1>a, TableUntouched DEF CloneTable, AppendSocket
<1>12. CASE UNCHANGED vars
  BY <1>12, <1>a, TableUntouched DEF vars, heap
<1> QED
  BY <1>0, <1>1, <1>2, <1>3, <1>4, <1>5, <1>6, <1>7, <1>8, <1>9, <1>10, <1>11, <1>12, <1>13
     DEF Next, Section, Outside

-----------------------------------------------------------------------------
(* The invariant holds in every reachable state. *)
LEMMA Invariance == Spec => []IInv
<1>1. Init => IInv
  BY InitInvariant
<1>2. IInv /\ [Next]_vars => IInv'
  BY TypeStep, LocalsStep, SynchronizedStep, RegistryStep DEF IInv
<1> QED
  BY <1>1, <1>2, PTL DEF Spec

(* The state keeps its shape: TypeOK of every run, for all constants. *)
THEOREM TypeCorrect == Spec => []TypeOK
<1>1. IInv => TypeOK
  BY DEF IInv
<1> QED
  BY <1>1, Invariance, PTL

(* "Must be called from a synchronized block" (framework.cpp:68): whoever     *)
(* reads or writes the table in a section owns _frameworkSyncRoot.           *)
THEOREM SectionsExclude == Spec => []RegistrySynchronized
<1>1. IInv => RegistrySynchronized
  BY DEF IInv
<1> QED
  BY <1>1, Invariance, PTL

(* Every entry of _sockets has a CSocket of its own, which is deleted once,   *)
(* and every undeleted CSocket has its entry or is one of those that accept, *)
(* connect and a failed insert leak, also for a host that closes sockets in  *)
(* use or twice, and for the stray closes of break_connection.               *)
THEOREM TableMatchesHeap == Spec => []RegistryOwnsObjects
<1>1. IInv => RegistryOwnsObjects
  BY DEF IInv
<1> QED
  BY <1>1, Invariance, PTL
=============================================================================
