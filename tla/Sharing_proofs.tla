--------------------------- MODULE Sharing_proofs ---------------------------
(***************************************************************************)
(* What TLAPS proves of the sharing of CSockets between the hooks, for     *)
(* every host, careful or not: which calls can be left with a stale        *)
(* pointer, which connection an entry can speak of, and that the table     *)
(* implements ConnectionRegistry.                                          *)
(***************************************************************************)
EXTENDS Framework_proofs

(* More about the locals: recv and send are on a handle and, outside         *)
(* break_connection, in a section about it; they alone keep a pointer, and   *)
(* only a closing section deletes.                                           *)
HookOK(t) ==
  /\ call[t].op = "io" => call[t].arg \in Handles
  /\ call[t].op = "io" /\ ~call[t].brk => call[t].key = call[t].arg
  /\ call[t].ptr # Null => call[t].op = "io"
  /\ pc[t] = "find" => Closing(t) \/ call[t].op = "io"
  /\ pc[t] \in {"delete", "erase"} => Closing(t)
  /\ pc[t] = "probe" => ~Closing(t)
HooksOK == \A t \in Threads : HookOK(t)

(* While a hook is closing a handle, each recv and send on it is overtaken. *)
Warned == \A h \in Handles : UnderClose(h) => Users(h) \subseteq overtaken

(* The pointer of one that is not overtaken is still in the table. *)
Held == \A t \in Threads \ overtaken :
          call[t].ptr # Null => sockets[call[t].arg] = call[t].ptr

SInv == IInv /\ HooksOK /\ Warned /\ Held

-----------------------------------------------------------------------------
(* The locals again, one action at a time. *)
LEMMA HooksStep == IInv /\ HooksOK /\ [Next]_vars => HooksOK'
<1> SUFFICES ASSUME IInv, TypeOK, HooksOK, [Next]_vars, NEW u \in Threads PROVE HookOK(u)'
  BY DEF HooksOK, IInv
<1> USE ConstantsAssumption DEF TypeOK, HookOK, Closing
<1>a. HookOK(u) /\ call[u] \in Calls
  BY DEF HooksOK
<1>b. ASSUME UNCHANGED <<pc, call>> PROVE HookOK(u)'
  BY <1>a, <1>b
<1>c. ASSUME NEW t \in Threads, Return(t) PROVE HookOK(u)'
  BY <1>a, <1>c DEF Return, Goto, NoCall
<1>d. ASSUME NEW t \in Threads, NEW l \in {"lock", "break", "unlock", "use", "unregister",
                                          "erase"},
             Goto(t, l), call' = call, l = "erase" => pc[t] = "delete"
      PROVE  HookOK(u)'
  BY <1>a, <1>d DEF Goto
<1>0. ASSUME NEW h \in Handles, NewSocket(h) \/ ConnectCompletes(h) PROVE HookOK(u)'
  BY <1>0, <1>b DEF NewSocket, ConnectCompletes
<1>1. ASSUME NEW t \in Threads, NEW hook \in Hooks, NEW s \in Keys, NEW l \in {"probe", "lock"},
             Enter(t, hook, s, l), hook = "io" => s \in Handles,
             l = "probe" => hook # "close"
      PROVE  HookOK(u)'
  BY <1>1, <1>a DEF Enter, Goto
<1>2. ASSUME NEW t \in Threads, Host(t) PROVE HookOK(u)'
  <2>1. CASE DetourAccept(t)
    BY <2>1, <1>1, Names DEF DetourAccept, FreeHandles
  <2>2. CASE DetourConnect(t)
    BY <2>2, <1>1, Names DEF DetourConnect
  <2>3. CASE DetourIo(t)
    BY <2>3, <1>1, Names DEF DetourIo
  <2>4. CASE DetourCloseSocket(t)
    BY <2>4, <1>1, Names DEF DetourCloseSocket
  <2> QED
    BY <1>2, <2>1, <2>2, <2>3, <2>4 DEF Host
<1>3. ASSUME NEW t \in Threads, Probe(t) PROVE HookOK(u)'
  BY <1>3, <1>d DEF Probe
<1>4. ASSUME NEW t \in Threads, BreakConnection(t) PROVE HookOK(u)'
  <2>1. CASE u # t
    BY <1>4, <1>a, <2>1 DEF BreakConnection, Goto
  <2>2. CASE u = t
    <3>1. pc'[t] = "lock" /\ call'[t].brk /\ call'[t].op = call[t].op
          /\ call'[t].arg = call[t].arg /\ call'[t].ptr = call[t].ptr
      BY <1>4, <1>a, <2>2 DEF BreakConnection, Goto, Calls
    <3> QED
      BY <3>1, <2>2, <1>a
  <2> QED
    BY <2>1, <2>2
<1>5. ASSUME NEW t \in Threads, Lock(t) PROVE HookOK(u)'
  BY <1>5, <1>a DEF Lock, Goto
<1>6. ASSUME NEW t \in Threads, FindForIo(t) PROVE HookOK(u)'
  <2>1. CASE Lookup(call[t].key) = Null
    BY <1>6, <2>1, <1>a DEF FindForIo, Goto
  <2>2. CASE Lookup(call[t].key) # Null
    <3>1. CASE u # t
      BY <1>6, <2>2, <1>a, <3>1 DEF FindForIo, Goto
    <3>2. CASE u = t
      <4>1. pc'[t] = "unlock" /\ call'[t].brk = call[t].brk /\ call'[t].op = call[t].op
            /\ call'[t].arg = call[t].arg /\ call'[t].key = call[t].key
        BY <1>6, <1>a, <2>2, <3>2 DEF FindForIo, Goto, Calls
      <4>2. pc[t] = "find" /\ ~Closing(t)
        BY <1>6 DEF FindForIo
      <4> QED
        BY <4>1, <4>2, <3>2, <1>a
    <3> QED
      BY <3>1, <3>2
  <2> QED
    BY <2>1, <2>2
<1>7. ASSUME NEW t \in Threads, FindForClose(t) PROVE HookOK(u)'
  BY <1>7, <1>a DEF FindForClose, Goto
<1>8. ASSUME NEW t \in Threads, Register(t) PROVE HookOK(u)'
  <2>1. PICK a \in Addrs \cup {Null} :
          call' = [call EXCEPT ![t].ptr = IF call[t].op = "io" THEN a ELSE Null]
    <3>0. call[t].key \in Keys
      BY <1>8 DEF Register, IInv, LocalsOK
    <3>1. CASE Vacant(call[t].key)
      BY <1>8, <3>1 DEF Register
    <3>2. CASE ~Vacant(call[t].key)
      BY <1>8, <3>0, <3>2 DEF Register
    <3> QED
      BY <3>1, <3>2
  <2>2. CASE u # t
    BY <1>8, <1>a, <2>1, <2>2 DEF Register, Goto
  <2>3. CASE u = t
    <3>1. pc'[t] = "unlock" /\ call'[t].brk = call[t].brk /\ call'[t].op = call[t].op
          /\ call'[t].arg = call[t].arg /\ call'[t].key = call[t].key
          /\ (call'[t].ptr # Null => call[t].op = "io")
      BY <1>8, <1>a, <2>1, <2>3 DEF Register, Goto, Calls
    <3> QED
      BY <3>1, <2>3, <1>a
  <2> QED
    BY <2>2, <2>3
<1>9. ASSUME NEW t \in Threads, Delete(t) PROVE HookOK(u)'
  BY <1>9, <1>d DEF Delete
<1>10. ASSUME NEW t \in Threads, Erase(t) PROVE HookOK(u)'
  BY <1>10, <1>d DEF Erase
<1>11. ASSUME NEW t \in Threads, UnlockAndReturn(t) PROVE HookOK(u)'
  BY <1>11, <1>c DEF UnlockAndReturn
<1>12. ASSUME NEW t \in Threads, UnlockAndGoOn(t) PROVE HookOK(u)'
  BY <1>12, <1>d DEF UnlockAndGoOn
<1>13. ASSUME NEW t \in Threads, UseEntry(t) PROVE HookOK(u)'
  BY <1>13, <1>c, <1>d DEF UseEntry
<1>14. ASSUME NEW t \in Threads, Unregister(t) PROVE HookOK(u)'
  BY <1>14, <1>c DEF Unregister
<1>15. ASSUME NEW l \in Loggers, CloneTable(l) \/ AppendSocket(l) PROVE HookOK(u)'
  BY <1>15, <1>b DEF CloneTable, AppendSocket
<1>16. CASE UNCHANGED vars
  BY <1>16, <1>b DEF vars
<1> QED
  BY <1>0, <1>2, <1>3, <1>4, <1>5, <1>6, <1>7, <1>8, <1>9, <1>10, <1>11, <1>12, <1>13,
     <1>14, <1>15, <1>16 DEF Next, Section, Outside

-----------------------------------------------------------------------------
(* Whoever starts to close a handle marks the calls on it, and a call that    *)
(* starts meanwhile is marked at once.                                       *)
LEMMA WarnedStep == IInv /\ HooksOK /\ Warned /\ [Next]_vars => Warned'
<1> DEFINE Closer(u, h) == /\ Closing(u) /\ call[u].key = h
                           /\ pc[u] \in {"lock", "find", "delete", "erase"}
           User(v, h)   == call[v].op = "io" /\ call[v].arg = h
<1> SUFFICES ASSUME IInv, TypeOK, HooksOK, Warned, [Next]_vars, NEW h \in Handles,
                    NEW u \in Threads, NEW v \in Threads, Closer(u, h)', User(v, h)'
             PROVE  v \in overtaken'
  BY DEF Warned, UnderClose, Users, IInv
<1> USE ConstantsAssumption DEF TypeOK, Closing
<1>a. ASSUME Closer(u, h), User(v, h), v \in overtaken => v \in overtaken'
      PROVE  v \in overtaken'
  BY <1>a DEF Warned, UnderClose, Users
<1>b. ASSUME UNCHANGED <<pc, call, overtaken>> PROVE v \in overtaken'
  BY <1>a, <1>b
<1>c. ASSUME NEW t \in Threads, Return(t) PROVE v \in overtaken'
  BY <1>a, <1>c DEF Return, Goto, NoCall
<1>0. ASSUME NEW g \in Handles, NewSocket(g) \/ ConnectCompletes(g) PROVE v \in overtaken'
  BY <1>0, <1>b DEF NewSocket, ConnectCompletes
<1>1. ASSUME NEW t \in Threads, DetourAccept(t) \/ DetourConnect(t) PROVE v \in overtaken'
  BY <1>1, <1>a DEF DetourAccept, DetourConnect, Enter, Goto
<1>2. ASSUME NEW t \in Threads, DetourIo(t) PROVE v \in overtaken'
  <2>1. PICK g \in known : /\ Enter(t, "io", g, "lock")
                           /\ overtaken' = IF UnderClose(g) THEN overtaken \cup {t}
                                                            ELSE overtaken
    BY <1>2 DEF DetourIo
  <2>2. u # t /\ Closer(u, h)
    BY <2>1 DEF Enter, Goto
  <2>3. CASE v # t
    BY <2>1, <2>2, <2>3, <1>a DEF Enter
  <2>4. CASE v = t
    <3>1. g = h
      BY <2>1, <2>4 DEF Enter
    <3>2. UnderClose(g)
      BY <2>2, <3>1 DEF UnderClose
    <3> QED
      BY <2>1, <2>4, <3>2
  <2> QED
    BY <2>3, <2>4
<1>3. ASSUME NEW t \in Threads, DetourCloseSocket(t) PROVE v \in overtaken'
  <2>1. PICK g \in known : Enter(t, "close", g, "lock") /\ TrueCloseSocket(g)
    BY <1>3 DEF DetourCloseSocket
  <2>2. v # t /\ User(v, h) /\ overtaken \subseteq overtaken'
    BY <2>1 DEF Enter, TrueCloseSocket
  <2>3. CASE u # t
    BY <2>1, <2>2, <2>3, <1>a DEF Enter, Goto
  <2>4. CASE u = t
    <3>1. g = h
      BY <2>1, <2>4 DEF Enter
    <3> QED
      BY <2>1, <2>2, <3>1 DEF TrueCloseSocket, Users
  <2> QED
    BY <2>3, <2>4
<1>4. ASSUME NEW t \in Threads, Probe(t) PROVE v \in overtaken'
  <2>1. CASE u # t
    BY <1>4, <2>1, <1>a DEF Probe, Goto
  <2>2. CASE u = t
    BY <1>4, <2>2 DEF Probe, HooksOK, HookOK
  <2> QED
    BY <2>1, <2>2
<1>5. ASSUME NEW t \in Threads, BreakConnection(t) PROVE v \in overtaken'
  <2>1. PICK g \in Handles \cup {NoHandle} :
          TrueCloseSocket(g) /\ call' = [call EXCEPT ![t].key = g, ![t].brk = TRUE]
    BY <1>5 DEF BreakConnection
  <2>2. User(v, h) /\ overtaken \subseteq overtaken'
    BY <2>1 DEF TrueCloseSocket, Calls
  <2>3. CASE u # t
    BY <1>5, <2>1, <2>2, <2>3, <1>a DEF BreakConnection, Goto
  <2>4. CASE u = t
    <3>1. g = h
      BY <2>1, <2>4 DEF Calls
    <3> QED
      BY <2>1, <2>2, <3>1 DEF TrueCloseSocket, Users
  <2> QED
    BY <2>3, <2>4
<1>6. ASSUME NEW t \in Threads, Lock(t) PROVE v \in overtaken'
  BY <1>6, <1>a DEF Lock, Goto
<1>7. ASSUME NEW t \in Threads, FindForIo(t) PROVE v \in overtaken'
  <2>1. CASE u = t
    BY <1>7, <2>1 DEF FindForIo, Goto, Calls
  <2>2. CASE u # t
    <3>1. Closer(u, h)
      BY <1>7, <2>2 DEF FindForIo, Goto
    <3>2. User(v, h)
      BY <1>7 DEF FindForIo, Calls
    <3> QED
      BY <1>7, <1>a, <3>1, <3>2 DEF FindForIo
  <2> QED
    BY <2>1, <2>2
<1>8. ASSUME NEW t \in Threads, FindForClose(t) PROVE v \in overtaken'
  BY <1>8, <1>a DEF FindForClose, Goto
<1>9. ASSUME NEW t \in Threads, Register(t) PROVE v \in overtaken'
  <2>1. u # t
    BY <1>9 DEF Register, Goto
  <2>2. /\ \A w \in Threads : w # t => call'[w] = call[w]
        /\ call'[t].op = call[t].op /\ call'[t].arg = call[t].arg
    <3>1. CASE Vacant(call[t].key)
      BY <1>9, <3>1 DEF Register, Calls
    <3>2. CASE ~Vacant(call[t].key)
      BY <1>9, <3>2 DEF Register, Calls
    <3> QED
      BY <3>1, <3>2
  <2>3. Closer(u, h) /\ User(v, h)
    BY <1>9, <2>1, <2>2 DEF Register, Goto
  <2> QED
    BY <1>9, <1>a, <2>3 DEF Register
<1>10. ASSUME NEW t \in Threads, Delete(t) PROVE v \in overtaken'
  BY <1>10, <1>a DEF Delete, Goto
<1>11. ASSUME NEW t \in Threads, Erase(t) PROVE v \in overtaken'
  BY <1>11, <1>a DEF Erase, Goto
<1>12. ASSUME NEW t \in Threads, UnlockAndReturn(t) PROVE v \in overtaken'
  BY <1>12, <1>c DEF UnlockAndReturn
<1>13. ASSUME NEW t \in Threads, UnlockAndGoOn(t) PROVE v \in overtaken'
  BY <1>13, <1>a DEF UnlockAndGoOn, Goto
<1>14. ASSUME NEW t \in Threads, UseEntry(t) PROVE v \in overtaken'
  <2>1. CASE Return(t)
    BY <2>1, <1>c
  <2>2. CASE Goto(t, "break") /\ UNCHANGED <<call, overtaken>>
    BY <2>2, <1>a DEF Goto
  <2> QED
    BY <1>14, <2>1, <2>2 DEF UseEntry
<1>15. ASSUME NEW t \in Threads, Unregister(t) PROVE v \in overtaken'
  BY <1>15, <1>c DEF Unregister
<1>16. ASSUME NEW l \in Loggers, CloneTable(l) \/ AppendSocket(l) PROVE v \in overtaken'
  BY <1>16, <1>b DEF CloneTable, AppendSocket
<1>17. CASE UNCHANGED vars
  BY <1>17, <1>b DEF vars
<1> QED
  BY <1>0, <1>1, <1>2, <1>3, <1>4, <1>5, <1>6, <1>7, <1>8, <1>9, <1>10, <1>11, <1>12,
     <1>13, <1>14, <1>15, <1>16, <1>17 DEF Next, Host, Section, Outside

-----------------------------------------------------------------------------
(* Only the erase of its own handle takes the object a call holds out of the  *)
(* table: an insert leaves an entry that is there alone.                     *)
LEMMA HeldStep == SInv /\ [Next]_vars => Held'
<1> SUFFICES ASSUME SInv, IInv, TypeOK, HooksOK, [Next]_vars, NEW v \in Threads,
                    v \notin overtaken', call'[v].ptr # Null
             PROVE  sockets'[call'[v].arg] = call'[v].ptr
  BY DEF SInv, IInv, Held
<1> DEFINE Good == sockets'[call'[v].arg] = call'[v].ptr
<1> USE ConstantsAssumption DEF TypeOK
<1>a. ASSUME v \notin overtaken, call'[v] = call[v], UNCHANGED sockets PROVE Good
  BY <1>a DEF SInv, Held
<1>b. ASSUME UNCHANGED <<call, overtaken, sockets>> PROVE Good
  BY <1>a, <1>b
<1>c. ASSUME NEW t \in Threads, Return(t), UNCHANGED sockets PROVE Good
  BY <1>a, <1>c DEF Return, NoCall
<1>0. ASSUME NEW g \in Handles, NewSocket(g) \/ ConnectCompletes(g) PROVE Good
  BY <1>0, <1>b DEF NewSocket, ConnectCompletes
<1>1. ASSUME NEW t \in Threads, Host(t) PROVE Good
  <2>1. UNCHANGED sockets /\ overtaken \subseteq overtaken'
    BY <1>1 DEF Host, DetourAccept, DetourConnect, DetourIo, DetourCloseSocket,
                TrueCloseSocket
  <2>2. call'[v] = call[v]
    BY <1>1 DEF Host, DetourAccept, DetourConnect, DetourIo, DetourCloseSocket, Enter
  <2> QED
    BY <1>a, <2>1, <2>2
<1>2. ASSUME NEW t \in Threads, Probe(t) \/ Lock(t) \/ FindForClose(t) \/ Delete(t)
                                 \/ UnlockAndGoOn(t)
      PROVE  Good
  BY <1>2, <1>b DEF Probe, Lock, FindForClose, Delete, UnlockAndGoOn
<1>3. ASSUME NEW t \in Threads, BreakConnection(t) PROVE Good
  <2>1. /\ call'[v].ptr = call[v].ptr /\ call'[v].arg = call[v].arg
        /\ UNCHANGED sockets /\ overtaken \subseteq overtaken'
    BY <1>3 DEF BreakConnection, TrueCloseSocket, Calls
  <2> QED
    BY <2>1 DEF SInv, Held
<1>4. ASSUME NEW t \in Threads, FindForIo(t) PROVE Good
  <2>1. CASE Lookup(call[t].key) = Null
    BY <1>4, <2>1, <1>b DEF FindForIo
  <2>2. CASE Lookup(call[t].key) # Null /\ v # t
    BY <1>4, <2>2, <1>a DEF FindForIo
  <2>3. CASE Lookup(call[t].key) # Null /\ v = t
    <3>1. call[t].op = "io" /\ call[t].key = call[t].arg /\ call[t].arg \in Handles
      BY <1>4 DEF FindForIo, HooksOK, HookOK, Closing
    <3>2. call'[t].arg = call[t].arg /\ call'[t].ptr = Lookup(call[t].key)
      BY <1>4, <2>3 DEF FindForIo, Calls
    <3> QED
      BY <1>4, <2>3, <3>1, <3>2, Names DEF FindForIo, Lookup
  <2> QED
    BY <2>1, <2>2, <2>3
<1>5. ASSUME NEW t \in Threads, Register(t) PROVE Good
  <2> DEFINE k == call[t].key
  <2>1. k \in Keys /\ ~Closing(t)
    BY <1>5 DEF Register, IInv, LocalsOK, Closing
  <2>2. CASE ~Vacant(k)
    <3>1. call' = [call EXCEPT ![t].ptr = IF call[t].op = "io" THEN sockets[k] ELSE Null]
          /\ UNCHANGED <<sockets, overtaken>>
      BY <1>5, <2>2 DEF Register
    <3>2. CASE v # t
      BY <3>1, <3>2, <1>a
    <3>3. CASE v = t
      <4>1. call[t].op = "io" /\ call'[t].ptr = sockets[k] /\ call'[t].arg = call[t].arg
        BY <3>1, <3>3 DEF Calls
      <4>2. k = call[t].arg
        BY <2>1, <4>1 DEF HooksOK, HookOK, Closing
      <4> QED
        BY <3>1, <3>3, <4>1, <4>2
    <3> QED
      BY <3>2, <3>3
  <2>3. CASE Vacant(k)
    <3>1. PICK a \in Addrs :
            /\ sockets' = [sockets EXCEPT ![k] = a]
            /\ call' = [call EXCEPT ![t].ptr = IF call[t].op = "io" THEN a ELSE Null]
            /\ overtaken' = overtaken
      BY <1>5, <2>3 DEF Register
    <3>2. CASE v # t
      <4>1. sockets[call[v].arg] = call[v].ptr /\ call'[v] = call[v]
        BY <3>1, <3>2 DEF SInv, Held
      <4>2. call[v].arg # k
        BY <2>3, <4>1 DEF Vacant
      <4>3. call[v].arg \in Keys
        BY <4>1, Names DEF HooksOK, HookOK
      <4> QED
        BY <3>1, <4>1, <4>2, <4>3
    <3>3. CASE v = t
      <4>1. call[t].op = "io" /\ call'[t].ptr = a /\ call'[t].arg = call[t].arg
        BY <3>1, <3>3 DEF Calls
      <4>2. k = call[t].arg
        BY <2>1, <4>1 DEF HooksOK, HookOK, Closing
      <4> QED
        BY <2>1, <3>1, <3>3, <4>1, <4>2
    <3> QED
      BY <3>2, <3>3
  <2> QED
    BY <2>2, <2>3
<1>6. ASSUME NEW t \in Threads, Erase(t) PROVE Good
  <2> DEFINE k == call[t].key
  <2>1. pc[t] = "erase" /\ sockets' = [sockets EXCEPT ![k] = Null]
        /\ UNCHANGED <<call, overtaken>>
    BY <1>6 DEF Erase, Erased
  <2>2. call[v].arg \in Handles /\ call[v].op = "io"
    BY <2>1 DEF HooksOK, HookOK
  <2>3. call[v].arg # k
    <3> SUFFICES ASSUME call[v].arg = k PROVE FALSE
      OBVIOUS
    <3>1. UnderClose(k) /\ v \in Users(k)
      BY <2>1, <2>2 DEF UnderClose, Users, HooksOK, HookOK
    <3> QED
      BY <2>1, <2>2, <3>1 DEF SInv, Warned
  <2> QED
    BY <2>1, <2>3 DEF SInv, Held
<1>7. ASSUME NEW t \in Threads, UnlockAndReturn(t) \/ Unregister(t) PROVE Good
  BY <1>7, <1>c DEF UnlockAndReturn, Unregister
<1>8. ASSUME NEW t \in Threads, UseEntry(t) PROVE Good
  <2>1. CASE Return(t)
    BY <1>8, <2>1, <1>c DEF UseEntry
  <2>2. CASE UNCHANGED <<call, overtaken>>
    BY <1>8, <2>2, <1>b DEF UseEntry
  <2> QED
    BY <1>8, <2>1, <2>2 DEF UseEntry
<1>9. ASSUME NEW l \in Loggers, CloneTable(l) \/ AppendSocket(l) PROVE Good
  BY <1>9, <1>b DEF CloneTable, AppendSocket
<1>10. CASE UNCHANGED vars
  BY <1>10, <1>b DEF vars
<1> QED
  BY <1>0, <1>1, <1>2, <1>3, <1>4, <1>5, <1>6, <1>7, <1>8, <1>9, <1>10
     DEF Next, Section, Outside

(* All of it is true at the start, when no thread is in a hook. *)
LEMMA SharingInvariance == Spec => []SInv
<1>1. Init => SInv
  <2> SUFFICES ASSUME Init PROVE SInv
    OBVIOUS
  <2>1. HooksOK /\ Warned /\ Held
    BY ConstantsAssumption DEF Init, HooksOK, HookOK, Warned, UnderClose, Held, NoCall, Closing
  <2> QED
    BY <2>1, InitInvariant DEF SInv
<1>2. SInv /\ [Next]_vars => SInv'
  BY TypeStep, LocalsStep, SynchronizedStep, RegistryStep, HooksStep, WarnedStep, HeldStep
     DEF SInv, IInv
<1> QED
  BY <1>1, <1>2, PTL DEF Spec

(* The pointer that a recv or send takes out of its section stays good until *)
(* it returns, unless a hook that closes its own handle is at work during    *)
(* the call: the one way to a deleted CSocket, however many threads, however *)
(* careless the host and wherever break_connection's stray closes go.        *)
THEOREM OnlyACloseMakesStale == Spec => []StaleOnlyIfOvertaken
<1>1. SInv => StaleOnlyIfOvertaken
  <2> SUFFICES ASSUME SInv, NEW v \in Threads \ overtaken, call[v].ptr # Null
               PROVE  call[v].ptr \in live \ leaked /\ cell[call[v].ptr].key = call[v].arg
    BY DEF StaleOnlyIfOvertaken
  <2>1. call[v].op = "io" /\ call[v].arg \in Handles /\ sockets[call[v].arg] = call[v].ptr
    BY DEF SInv, HooksOK, HookOK, Held
  <2>2. ~BeingErased(call[v].arg)
    <3> SUFFICES ASSUME NEW u \in Threads, pc[u] = "erase", call[u].key = call[v].arg
                 PROVE  FALSE
      BY DEF BeingErased
    <3>1. UnderClose(call[v].arg) /\ v \in Users(call[v].arg)
      BY <2>1 DEF UnderClose, Users, SInv, HooksOK, HookOK
    <3> QED
      BY <2>1, <3>1 DEF SInv, Warned
  <2> QED
    BY <2>1, <2>2, Names DEF SInv, IInv, RegistryOwnsObjects
<1> QED
  BY <1>1, SharingInvariance, PTL

-----------------------------------------------------------------------------
(* What a section does to an entry. *)

(* Two entries never share an object, so the delete of one, or a new one, is  *)
(* not seen through another.                                                 *)
LEMMA DeleteOthers ==
  ASSUME SInv, NEW t \in Threads, Delete(t), NEW g \in Keys, g # call[t].key,
         sockets[g] # Null
  PROVE  cell'[sockets[g]] = cell[sockets[g]]
<1> DEFINE k == call[t].key
<1>1. /\ Lookup(k) \in owned /\ InSection(t) /\ pc[t] = "delete"
      /\ cell' = [cell EXCEPT ![sockets[k]] = Blank]
  BY DEF Delete, SInv, IInv, RegistryOwnsObjects, owned, InSection
<1>2. k \in Keys
  BY <1>1, ConstantsAssumption DEF Lookup, owned, SInv, IInv, TypeOK
<1>3. cell[sockets[g]].key = g /\ cell[sockets[k]].key = k /\ sockets[g] \in Addrs
  BY <1>1, <1>2, NobodyErases, ConstantsAssumption DEF SInv, IInv, TypeOK, Lookup, owned
<1> QED
  BY <1>1, <1>3 DEF SInv, IInv, TypeOK

LEMMA RegisterEffect ==
  ASSUME SInv, NEW t \in Threads, Register(t)
  PROVE  /\ call[t].key \in Keys /\ ~Closing(t)
         /\ \A u \in Threads : /\ call'[u].op = call[u].op /\ call'[u].brk = call[u].brk
                               /\ call'[u].key = call[u].key
         /\ \/ UNCHANGED <<sockets, cell>>
            \/ /\ sockets[call[t].key] = Null /\ sockets'[call[t].key] \in Addrs
               /\ cell'[sockets'[call[t].key]].conn = PeerOf(call[t].key)
               /\ \A g \in Keys : g # call[t].key =>
                    /\ sockets'[g] = sockets[g]
                    /\ sockets[g] # Null => cell'[sockets[g]] = cell[sockets[g]]
<1> DEFINE k == call[t].key
<1> USE ConstantsAssumption DEF SInv, IInv, TypeOK
<1>1. k \in Keys /\ ~Closing(t) /\ InSection(t) /\ pc[t] = "register"
  BY DEF Register, LocalsOK, Closing, InSection
<1>2. CASE ~Vacant(k)
  <2>1. \A u \in Threads : /\ call'[u].op = call[u].op /\ call'[u].brk = call[u].brk
                           /\ call'[u].key = call[u].key
    BY <1>2 DEF Register, Calls
  <2>2. UNCHANGED <<sockets, cell>>
    BY <1>2, LeakMeaning DEF Register, RegistryOwnsObjects
  <2> QED
    BY <1>1, <2>1, <2>2
<1>3. CASE Vacant(k)
  <2>1. PICK a \in Addrs \ live :
          /\ cell' = [cell EXCEPT ![a] = [key |-> k, conn |-> PeerOf(k)]]
          /\ sockets' = [sockets EXCEPT ![k] = a]
          /\ call' = [call EXCEPT ![t].ptr = IF call[t].op = "io" THEN a ELSE Null]
    BY <1>3 DEF Register
  <2>2. \A u \in Threads : /\ call'[u].op = call[u].op /\ call'[u].brk = call[u].brk
                           /\ call'[u].key = call[u].key
    BY <2>1 DEF Calls
  <2>3. \A g \in Keys : sockets[g] # Null => sockets[g] # a /\ sockets[g] \in Addrs
    BY <1>1, NobodyErases DEF owned
  <2> QED
    BY <1>1, <1>3, <2>1, <2>2, <2>3 DEF Vacant
<1> QED
  BY <1>2, <1>3

(* An entry that speaks of an old connection has a closer until it goes.      *)
LEMMA EndpointsStep ==
  SInv /\ EndpointsNotInherited /\ [Next]_vars => EndpointsNotInherited'
<1> DEFINE Closer(u, h) == /\ Closing(u) /\ call[u].key = h
                           /\ pc[u] \in {"lock", "find", "delete", "erase"}
           Current(h)   == cell[sockets[h]].conn \in {conn[h], NoConn, Unconnected}
<1> SUFFICES ASSUME SInv, IInv, TypeOK, EndpointsNotInherited, [Next]_vars, NEW h \in Handles,
                    sockets'[h] # Null, \A u \in Threads : ~Closer(u, h)'
             PROVE  Current(h)'
  BY DEF SInv, IInv, EndpointsNotInherited, UnderClose
<1> USE ConstantsAssumption DEF TypeOK, Closing
<1>a. ASSUME UNCHANGED <<sockets, cell, conn>>, \A u \in Threads : Closer(u, h) => Closer(u, h)'
      PROVE  Current(h)'
  BY <1>a DEF EndpointsNotInherited, UnderClose
<1>b. ASSUME NEW t \in Threads, UNCHANGED <<sockets, cell, conn>>, ~Closer(t, h),
             \A u \in Threads \ {t} : pc'[u] = pc[u] /\ call'[u] = call[u]
      PROVE  Current(h)'
  BY <1>a, <1>b
<1>c. UNCHANGED heap => UNCHANGED cell
  BY DEF heap
<1>0. ASSUME NEW g \in Handles, NewSocket(g) \/ ConnectCompletes(g) PROVE Current(h)'
  <2>1. /\ conn[g] \in {NoConn, Unconnected} /\ UNCHANGED <<pc, call, sockets, cell>>
        /\ \A f \in Handles \ {g} : conn'[f] = conn[f]
    BY <1>0, <1>c DEF NewSocket, ConnectCompletes, Establish, FreeHandles
  <2>2. Current(h)
    BY <2>1 DEF EndpointsNotInherited, UnderClose
  <2> QED
    BY <2>1, <2>2
<1>1. ASSUME NEW t \in Threads, DetourAccept(t) \/ DetourConnect(t) PROVE Current(h)'
  <2>1. \A u \in Threads : ~Closer(u, h)
    BY <1>1 DEF DetourAccept, DetourConnect, Enter, Goto
  <2>2. Current(h) /\ UNCHANGED <<sockets, cell>>
    BY <1>1, <1>c, <2>1 DEF DetourAccept, DetourConnect, EndpointsNotInherited, UnderClose
  <2>3. conn'[h] = conn[h] \/ conn[h] \in {NoConn, Unconnected}
    BY <1>1 DEF DetourAccept, DetourConnect, Establish, FreeHandles, kernel
  <2> QED
    BY <2>2, <2>3
<1>2. ASSUME NEW t \in Threads, DetourIo(t) PROVE Current(h)'
  <2>1. pc[t] = "idle" /\ UNCHANGED <<sockets, cell, conn>>
    BY <1>2, <1>c DEF DetourIo, Enter, kernel
  <2> QED
    BY <1>2, <2>1, <1>b DEF DetourIo, Enter, Goto
<1>3. ASSUME NEW t \in Threads, DetourCloseSocket(t) PROVE Current(h)'
  <2>1. PICK g \in known : Enter(t, "close", g, "lock") /\ TrueCloseSocket(g)
    BY <1>3 DEF DetourCloseSocket
  <2>2. g # h
    BY <2>1 DEF Enter, Goto
  <2>3. conn'[h] = conn[h] /\ UNCHANGED <<sockets, cell>>
    BY <1>3, <1>c, <2>1, <2>2 DEF TrueCloseSocket, DetourCloseSocket
  <2>4. \A u \in Threads : ~Closer(u, h)
    BY <2>1 DEF Enter, Goto
  <2> QED
    BY <2>3, <2>4 DEF EndpointsNotInherited, UnderClose
<1>4. ASSUME NEW t \in Threads, BreakConnection(t) PROVE Current(h)'
  <2>1. PICK g \in Handles \cup {NoHandle} :
          TrueCloseSocket(g) /\ call' = [call EXCEPT ![t].key = g, ![t].brk = TRUE]
    BY <1>4 DEF BreakConnection
  <2>2. pc[t] = "break" /\ pc' = [pc EXCEPT ![t] = "lock"] /\ UNCHANGED <<sockets, cell>>
    BY <1>4, <1>c DEF BreakConnection, Goto
  <2>3. g # h
    BY <2>1, <2>2 DEF Calls
  <2>4. conn'[h] = conn[h]
    BY <2>1, <2>3 DEF TrueCloseSocket
  <2>5. \A u \in Threads : ~Closer(u, h)
    BY <2>1, <2>2
  <2> QED
    BY <2>2, <2>4, <2>5 DEF EndpointsNotInherited, UnderClose
<1>5. ASSUME NEW t \in Threads, Probe(t) PROVE Current(h)'
  <2>1. cell' = cell
    BY <1>5, LeakMeaning DEF Probe, IInv, RegistryOwnsObjects
  <2> QED
    BY <1>5, <2>1, <1>b DEF Probe, Goto, kernel
<1>6. ASSUME NEW t \in Threads, Lock(t) PROVE Current(h)'
  BY <1>6, <1>a, <1>c DEF Lock, Goto, kernel
<1>7. ASSUME NEW t \in Threads, FindForIo(t) PROVE Current(h)'
  BY <1>7, <1>b, <1>c DEF FindForIo, Goto, kernel
<1>8. ASSUME NEW t \in Threads, FindForClose(t) PROVE Current(h)'
  <2>1. CASE Found(call[t].key)
    BY <1>8, <2>1, <1>a, <1>c DEF FindForClose, Goto, kernel
  <2>2. CASE ~Found(call[t].key)
    <3>1. ~Closer(t, h)
      BY <1>8, <2>2, Names, <1>c DEF FindForClose, Found, Lookup
    <3> QED
      BY <1>8, <3>1, <1>b, <1>c DEF FindForClose, Goto, kernel
  <2> QED
    BY <2>1, <2>2
<1>9. ASSUME NEW t \in Threads, Register(t) PROVE Current(h)'
  <2> DEFINE k == call[t].key
  <2>1. conn' = conn /\ \A u \in Threads : Closer(u, h) => Closer(u, h)'
    BY <1>9, RegisterEffect DEF Register, Goto, kernel
  <2>2. CASE UNCHANGED <<sockets, cell>>
    BY <2>1, <2>2, <1>a
  <2>3. CASE h = k /\ cell'[sockets'[k]].conn = PeerOf(k)
    BY <2>1, <2>3 DEF PeerOf
  <2>4. CASE sockets'[h] = sockets[h] /\ (sockets[h] # Null => cell'[sockets[h]] = cell[sockets[h]])
    BY <2>1, <2>4 DEF EndpointsNotInherited, UnderClose
  <2> QED
    BY <1>9, <2>2, <2>3, <2>4, RegisterEffect, Names
<1>10. ASSUME NEW t \in Threads, Delete(t) PROVE Current(h)'
  <2>1. /\ \A u \in Threads : Closer(u, h) => Closer(u, h)'
        /\ UNCHANGED <<sockets, conn>>
    BY <1>10 DEF Delete, Goto, kernel
  <2>2. h # call[t].key
    BY <1>10, <2>1 DEF Delete, SInv, HooksOK, HookOK
  <2>3. cell'[sockets[h]] = cell[sockets[h]]
    BY <1>10, <2>1, <2>2, DeleteOthers, Names
  <2> QED
    BY <2>1, <2>3 DEF EndpointsNotInherited, UnderClose
<1>11. ASSUME NEW t \in Threads, Erase(t) PROVE Current(h)'
  <2>1. /\ sockets' = [sockets EXCEPT ![call[t].key] = Null] /\ UNCHANGED <<cell, conn, call>>
        /\ pc' = [pc EXCEPT ![t] = "unlock"]
    BY <1>11, <1>c DEF Erase, Erased, Goto, kernel
  <2>2. h # call[t].key /\ sockets'[h] = sockets[h]
    BY <2>1, Names
  <2>3. \A u \in Threads : ~Closer(u, h)
    BY <2>1, <2>2
  <2> QED
    BY <2>1, <2>2, <2>3 DEF EndpointsNotInherited, UnderClose
<1>12. ASSUME NEW t \in Threads, UnlockAndReturn(t) \/ UnlockAndGoOn(t) PROVE Current(h)'
  BY <1>12, <1>b, <1>c DEF UnlockAndReturn, UnlockAndGoOn, Return, Goto, kernel
<1>13. ASSUME NEW t \in Threads, UseEntry(t) \/ Unregister(t) PROVE Current(h)'
  BY <1>13, <1>b, <1>c DEF UseEntry, Unregister, Return, Goto, kernel
<1>14. ASSUME NEW l \in Loggers, CloneTable(l) \/ AppendSocket(l) PROVE Current(h)'
  BY <1>14, <1>a, <1>c DEF CloneTable, AppendSocket, kernel
<1>15. CASE UNCHANGED vars
  BY <1>15, <1>a DEF vars
<1> QED
  BY <1>0, <1>1, <1>2, <1>3, <1>4, <1>5, <1>6, <1>7, <1>8, <1>9, <1>10, <1>11, <1>12,
     <1>13, <1>14, <1>15 DEF Next, Host, Section, Outside

(* The endpoints cached for a handle are never those of a connection that is  *)
(* over, unless the hook that closed it has still to take the entry out: no  *)
(* interleaving of late calls, other accepts and stray closes keeps an old   *)
(* entry for a new connection.                                               *)
THEOREM EndpointsOfOldAreGone == Spec => []EndpointsNotInherited
<1>1. Init => EndpointsNotInherited
  BY Names DEF Init, EndpointsNotInherited
<1>2. SInv /\ EndpointsNotInherited /\ [Next]_vars => EndpointsNotInherited'
  BY EndpointsStep
<1> QED
  BY <1>1, <1>2, SharingInvariance, PTL DEF Spec

-----------------------------------------------------------------------------
(* The refinement. *)
Records  == [h \in Handles |-> Recorded(h)]
Closings == [h \in Handles |-> Closers(h)]

(* A step that changes neither the kernel, nor a record, nor who is closing,  *)
(* is no step of the registry.                                               *)
LEMMA SameRecords ==
  ASSUME UNCHANGED conn,
         \A h \in Handles : Recorded(h)' = Recorded(h) /\ Closers(h)' = Closers(h)
  PROVE  [Registry!Next]_(Registry!registry)
<1>1. Records' = Records /\ Closings' = Closings
  BY DEF Records, Closings
<1> QED
  BY <1>1 DEF Registry!registry, Records, Closings

(* Nothing is seen of a step outside the sections but of those that close. *)
LEMMA OutsideStep ==
  ASSUME SInv, NEW t \in Threads, UNCHANGED <<sockets, cell>>,
         \A u \in Threads \ {t} : pc'[u] = pc[u] /\ call'[u] = call[u],
         pc[t] \notin {"delete", "erase"}, pc'[t] \notin {"delete", "erase"}
  PROVE  \A h \in Handles :
           /\ Recorded(h)' = Recorded(h)
           /\ \A u \in Threads \ {t} : u \in Closers(h)' <=> u \in Closers(h)
<1>1. \A h : BeingErased(h)' <=> BeingErased(h)
  BY DEF BeingErased
<1> QED
  BY <1>1 DEF Recorded, Closers, Closing

(* The sections that change a record, or leave a closing one. *)
LEMMA RegisterMonitors ==
  ASSUME SInv, NEW t \in Threads, Register(t), NEW k \in Keys, call[t].key = k
  PROVE  [Registry!Next]_(Registry!registry)
<1> USE ConstantsAssumption DEF SInv, IInv, TypeOK
<1>1. /\ pc[t] = "register" /\ InSection(t) /\ conn' = conn
      /\ pc' = [pc EXCEPT ![t] = "unlock"] /\ ~Closing(t)
  BY RegisterEffect DEF Register, Goto, kernel, InSection
<1>2. \A h \in Handles : Closers(h)' = Closers(h)
  BY <1>1, RegisterEffect DEF Closers, Closing
<1>3. \A h : ~BeingErased(h) /\ ~BeingErased(h)'
  <2>1. \A h : ~BeingErased(h)
    BY <1>1, NobodyErases
  <2>2. \A u \in Threads : pc'[u] # "erase"
    BY <1>1, <2>1, NobodyErases DEF InSection
  <2> QED
    BY <2>1, <2>2 DEF BeingErased
<1>4. CASE UNCHANGED <<sockets, cell>>
  BY <1>1, <1>2, <1>3, <1>4, SameRecords DEF Recorded
<1>5. CASE /\ sockets[k] = Null /\ sockets'[k] \in Addrs
           /\ cell'[sockets'[k]].conn = PeerOf(k)
           /\ \A g \in Keys : g # k =>
                /\ sockets'[g] = sockets[g]
                /\ sockets[g] # Null => cell'[sockets[g]] = cell[sockets[g]]
  <2>1. \A h \in Handles \ {k} : Recorded(h)' = Recorded(h)
    BY <1>3, <1>5, Names DEF Recorded
  <2>2. CASE k \notin Handles
    BY <1>1, <1>2, <2>1, <2>2, SameRecords
  <2>3. CASE k \in Handles
    <3>1. Recorded(k) = Null /\ Recorded(k)' = conn[k]
      BY <1>3, <1>5, <2>3 DEF Recorded, PeerOf
    <3>2. /\ Records[k] = Null
          /\ Records' = [Records EXCEPT ![k] = conn[k]]
          /\ Closings' = Closings
      BY <1>2, <2>1, <2>3, <3>1 DEF Records, Closings
    <3>3. Registry!Monitor(k)
      BY <1>1, <3>2 DEF Registry!Monitor, Records, Closings
    <3> QED
      BY <2>3, <3>3 DEF Registry!Next
  <2> QED
    BY <2>2, <2>3
<1> QED
  BY <1>4, <1>5, RegisterEffect

LEMMA SectionForgets ==
  ASSUME SInv, NEW t \in Threads, NEW k \in Handles, call[t].key = k, Closing(t),
         pc[t] \in {"find", "delete"}, UNCHANGED <<conn, call>>,
         \E l \in {"erase", "unlock"} : pc' = [pc EXCEPT ![t] = l],
         Recorded(k)' = Null,
         \A h \in Handles \ {k} : Recorded(h)' = Recorded(h)
  PROVE  [Registry!Next]_(Registry!registry)
<1> USE DEF SInv, IInv, TypeOK
<1>1. t \in Closers(k) /\ Closers(k)' = Closers(k) \ {t}
  BY DEF Closers, Closing
<1>2. \A h \in Handles \ {k} : Closers(h)' = Closers(h)
  BY DEF Closers, Closing
<1>3. /\ Records' = [Records EXCEPT ![k] = Null]
      /\ Closings' = [Closings EXCEPT ![k] = @ \ {t}]
      /\ t \in Closings[k]
  BY <1>1, <1>2 DEF Records, Closings
<1>4. Registry!Forget(t, k)
  BY <1>3 DEF Registry!Forget, Records, Closings
<1> QED
  BY <1>4 DEF Registry!Next

LEMMA FindForCloseForgets ==
  ASSUME SInv, NEW t \in Threads, FindForClose(t) PROVE [Registry!Next]_(Registry!registry)
<1> DEFINE k == call[t].key
<1> USE DEF SInv, IInv, TypeOK
<1>1. /\ pc[t] = "find" /\ Closing(t) /\ UNCHANGED <<conn, sockets, cell, call>>
      /\ pc' = [pc EXCEPT ![t] = IF Found(k) THEN "delete" ELSE "unlock"]
  BY DEF FindForClose, Goto, kernel, heap
<1>2. \A h : BeingErased(h)' <=> BeingErased(h)
  BY <1>1 DEF BeingErased
<1>3. \A h \in Handles : Recorded(h)' = Recorded(h)
  BY <1>1, <1>2 DEF Recorded
<1>4. CASE Found(k) \/ k \notin Handles
  <2>1. \A h \in Handles : Closers(h)' = Closers(h)
    BY <1>1, <1>4 DEF Closers, Closing
  <2> QED
    BY <1>1, <1>3, <2>1, SameRecords
<1>5. CASE ~Found(k) /\ k \in Handles
  <2>1. Recorded(k) = Null
    BY <1>5, Names DEF Recorded, Found, Lookup
  <2> QED
    BY <1>1, <1>3, <1>5, <2>1, SectionForgets
<1> QED
  BY <1>4, <1>5

LEMMA DeleteForgets ==
  ASSUME SInv, NEW t \in Threads, Delete(t) PROVE [Registry!Next]_(Registry!registry)
<1> DEFINE k == call[t].key
<1> USE DEF SInv, IInv, TypeOK
<1>1. /\ pc[t] = "delete" /\ Closing(t) /\ UNCHANGED <<conn, sockets, call>>
      /\ pc' = [pc EXCEPT ![t] = "erase"]
  BY DEF Delete, Goto, kernel, HooksOK, HookOK
<1>2. \A h : ~BeingErased(h) /\ (BeingErased(h)' <=> h = k)
  BY <1>1, NobodyErases DEF BeingErased, InSection
<1>3. \A h \in Handles \ {k} : Recorded(h)' = Recorded(h)
  BY <1>1, <1>2, DeleteOthers, Names DEF Recorded
<1>4. CASE k \in Handles
  <2>1. Recorded(k)' = Null
    BY <1>1, <1>2 DEF Recorded
  <2> QED
    BY <1>1, <1>3, <1>4, <2>1, SectionForgets
<1>5. CASE k \notin Handles
  <2>1. \A h \in Handles : Closers(h)' = Closers(h)
    BY <1>1, <1>5 DEF Closers, Closing
  <2> QED
    BY <1>1, <1>3, <1>5, <2>1, SameRecords
<1> QED
  BY <1>4, <1>5
(* A real closesocket on an open or free handle starts a close. *)
LEMMA RealClose ==
  ASSUME SInv, NEW t \in Threads, NEW k \in Handles, TrueCloseSocket(k),
         pc[t] \in {"idle", "break"}, pc' = [pc EXCEPT ![t] = "lock"],
         call'[t].key = k, Closing(t)', \A u \in Threads \ {t} : call'[u] = call[u],
         UNCHANGED <<sockets, cell>>
  PROVE  [Registry!Next]_(Registry!registry)
<1> USE DEF SInv, IInv, TypeOK
<1>1. \A h \in Handles : /\ Recorded(h)' = Recorded(h)
                         /\ \A u \in Threads \ {t} : u \in Closers(h)' <=> u \in Closers(h)
  BY OutsideStep
<1>2. \A h \in Handles : t \notin Closers(h) /\ (t \in Closers(h)' <=> h = k)
  BY DEF Closers, Closing
<1>3. Closers(k)' = Closers(k) \cup {t} /\ \A h \in Handles \ {k} : Closers(h)' = Closers(h)
  BY <1>1, <1>2 DEF Closers
<1>4. /\ Records' = Records
      /\ Closings' = [Closings EXCEPT ![k] = @ \cup {t}]
      /\ \A h \in Handles : t \notin Closings[h]
      /\ conn' = [conn EXCEPT ![k] = NoConn]
  BY <1>1, <1>2, <1>3 DEF Records, Closings, TrueCloseSocket
<1>5. Registry!Close(t, k)
  BY <1>4 DEF Registry!Close, Records, Closings
<1> QED
  BY <1>5 DEF Registry!Next

(* Every step of a hook is a step of the registry, or none. *)
LEMMA RefinementStep ==
  SInv /\ [Next]_vars => [Registry!Next]_(Registry!registry)
<1> SUFFICES ASSUME SInv, IInv, TypeOK, [Next]_vars
             PROVE  [Registry!Next]_(Registry!registry)
  BY DEF SInv, IInv
<1> USE ConstantsAssumption DEF TypeOK
<1> DEFINE Good == [Registry!Next]_(Registry!registry)
<1>c. UNCHANGED heap => UNCHANGED cell
  BY DEF heap
<1>a. ASSUME NEW t \in Threads, UNCHANGED <<sockets, cell>>,
             \A u \in Threads \ {t} : pc'[u] = pc[u] /\ call'[u] = call[u],
             pc[t] \notin {"delete", "erase"}, pc'[t] \notin {"delete", "erase"},
             \A h \in Handles : t \in Closers(h) <=> t \in Closers(h)'
      PROVE  \A h \in Handles : Recorded(h)' = Recorded(h) /\ Closers(h)' = Closers(h)
  BY <1>a, OutsideStep DEF Closers
<1>0. ASSUME NEW g \in Handles, NewSocket(g) \/ ConnectCompletes(g) PROVE Good
  <2>1. Records' = Records /\ Closings' = Closings
    BY <1>0, <1>c DEF NewSocket, ConnectCompletes, Records, Closings, Recorded, Closers,
                      BeingErased, Closing
  <2>2. CASE NewSocket(g)
    <3>1. Registry!Open(g)
      BY <2>1, <2>2 DEF NewSocket, FreeHandles, Registry!Open, Records, Closings
    <3> QED
      BY <3>1 DEF Registry!Next
  <2>3. CASE ConnectCompletes(g)
    <3>1. Registry!Connect(g)
      BY <2>1, <2>3 DEF ConnectCompletes, Establish, Registry!Connect, Records, Closings
    <3> QED
      BY <3>1 DEF Registry!Next
  <2> QED
    BY <1>0, <2>2, <2>3
<1>1. ASSUME NEW t \in Threads, DetourAccept(t) \/ DetourConnect(t) PROVE Good
  <2>1. /\ pc[t] = "idle" /\ pc' = [pc EXCEPT ![t] = "probe"] /\ UNCHANGED <<sockets, cell>>
        /\ \A u \in Threads \ {t} : call'[u] = call[u]
    BY <1>1, <1>c DEF DetourAccept, DetourConnect, Enter, Goto
  <2>2. \A h \in Handles : Recorded(h)' = Recorded(h) /\ Closers(h)' = Closers(h)
    BY <2>1, <1>a DEF Closers
  <2>3. Records' = Records /\ Closings' = Closings
    BY <2>2 DEF Records, Closings
  <2>4. CASE conn' = conn
    BY <2>2, <2>4, SameRecords
  <2>5. CASE \E g \in Handles, c \in Conns : conn[g] = NoConn /\ conn' = [conn EXCEPT ![g] = c]
    <3>1. \E g \in Handles : Registry!Open(g)
      BY <2>3, <2>5 DEF Registry!Open, Records, Closings
    <3> QED
      BY <3>1 DEF Registry!Next
  <2>6. CASE \E g \in Handles, c \in Conns :
               conn[g] = Unconnected /\ conn' = [conn EXCEPT ![g] = c]
    <3>1. \E g \in Handles : Registry!Connect(g)
      BY <2>3, <2>6 DEF Registry!Connect, Records, Closings
    <3> QED
      BY <3>1 DEF Registry!Next
  <2>7. conn' = conn \/ \E g \in Handles, c \in Conns :
          conn[g] \in {NoConn, Unconnected} /\ conn' = [conn EXCEPT ![g] = c]
    BY <1>1 DEF DetourAccept, DetourConnect, Establish, FreeHandles, kernel
  <2> QED
    BY <2>4, <2>5, <2>6, <2>7
<1>2. ASSUME NEW t \in Threads, DetourIo(t) PROVE Good
  <2>1. /\ pc[t] = "idle" /\ pc' = [pc EXCEPT ![t] = "lock"] /\ ~Closing(t)'
        /\ \A u \in Threads \ {t} : call'[u] = call[u]
        /\ UNCHANGED <<conn, sockets, cell>>
    BY <1>2, <1>c DEF DetourIo, Enter, Goto, Closing, kernel
  <2>2. \A h \in Handles : Recorded(h)' = Recorded(h) /\ Closers(h)' = Closers(h)
    BY <2>1, <1>a DEF Closers
  <2> QED
    BY <2>1, <2>2, SameRecords
<1>3. ASSUME NEW t \in Threads, DetourCloseSocket(t) PROVE Good
  <2>1. PICK g \in known : Enter(t, "close", g, "lock") /\ TrueCloseSocket(g)
    BY <1>3 DEF DetourCloseSocket
  <2>2. /\ pc[t] = "idle" /\ pc' = [pc EXCEPT ![t] = "lock"] /\ Closing(t)'
        /\ call'[t].key = g /\ \A u \in Threads \ {t} : call'[u] = call[u]
        /\ UNCHANGED <<sockets, cell>>
    BY <1>3, <1>c, <2>1 DEF DetourCloseSocket, Enter, Goto, Closing
  <2> QED
    BY <2>1, <2>2, RealClose
<1>4. ASSUME NEW t \in Threads, BreakConnection(t) PROVE Good
  <2>1. PICK g \in Handles \cup {NoHandle} :
          TrueCloseSocket(g) /\ call' = [call EXCEPT ![t].key = g, ![t].brk = TRUE]
    BY <1>4 DEF BreakConnection
  <2>2. /\ pc[t] = "break" /\ pc' = [pc EXCEPT ![t] = "lock"] /\ Closing(t)'
        /\ call'[t].key = g /\ \A u \in Threads \ {t} : call'[u] = call[u]
        /\ UNCHANGED <<sockets, cell>>
    BY <1>4, <1>c, <2>1 DEF BreakConnection, Goto, Closing, Calls
  <2>3. CASE g \in Handles
    BY <2>1, <2>2, <2>3, RealClose
  <2>4. CASE g \notin Handles
    <3>1. conn' = conn
      BY <2>1, <2>4 DEF TrueCloseSocket
    <3>2. \A h \in Handles : Recorded(h)' = Recorded(h) /\ Closers(h)' = Closers(h)
      BY <2>2, <2>4, <1>a DEF Closers
    <3> QED
      BY <3>1, <3>2, SameRecords
  <2> QED
    BY <2>3, <2>4
<1>5. ASSUME NEW t \in Threads, Probe(t) PROVE Good
  <2>1. cell' = cell /\ sockets' = sockets /\ conn' = conn /\ call' = call
    BY <1>5, LeakMeaning DEF Probe, IInv, RegistryOwnsObjects, kernel
  <2>2. pc[t] = "probe" /\ ~Closing(t) /\ \E l \in {"break", "lock"} : pc' = [pc EXCEPT ![t] = l]
    BY <1>5 DEF Probe, Goto, SInv, HooksOK, HookOK
  <2>3. \A h \in Handles : Recorded(h)' = Recorded(h) /\ Closers(h)' = Closers(h)
    BY <2>1, <2>2, <1>a DEF Closers, Closing
  <2> QED
    BY <2>1, <2>3, SameRecords
<1>6. ASSUME NEW t \in Threads, Lock(t) PROVE Good
  <2>1. /\ pc[t] = "lock" /\ UNCHANGED <<conn, sockets, cell, call>>
        /\ \E l \in {"find", "register"} : /\ pc' = [pc EXCEPT ![t] = l]
                                           /\ Closing(t) => l = "find"
    BY <1>6, <1>c DEF Lock, Goto, kernel
  <2>2. \A h \in Handles : Recorded(h)' = Recorded(h) /\ Closers(h)' = Closers(h)
    BY <2>1, <1>a DEF Closers, Closing
  <2> QED
    BY <2>1, <2>2, SameRecords
<1>7. ASSUME NEW t \in Threads, FindForIo(t) PROVE Good
  <2>1. /\ pc[t] = "find" /\ ~Closing(t) /\ UNCHANGED <<conn, sockets, cell>>
        /\ \E l \in {"register", "unlock"} : pc' = [pc EXCEPT ![t] = l]
        /\ \A u \in Threads \ {t} : call'[u] = call[u]
    BY <1>7, <1>c DEF FindForIo, Goto, kernel
  <2>2. \A h \in Handles : t \notin Closers(h) /\ t \notin Closers(h)'
    BY <2>1 DEF Closers
  <2>3. \A h \in Handles : Recorded(h)' = Recorded(h) /\ Closers(h)' = Closers(h)
    BY <2>1, <2>2, <1>a
  <2> QED
    BY <2>1, <2>3, SameRecords
<1>8. ASSUME NEW t \in Threads, Erase(t) PROVE Good
  <2>1. /\ pc[t] = "erase" /\ pc' = [pc EXCEPT ![t] = "unlock"]
        /\ sockets' = [sockets EXCEPT ![call[t].key] = Null] /\ UNCHANGED <<conn, cell, call>>
    BY <1>8, <1>c DEF Erase, Erased, Goto, kernel
  <2>2. \A h : h # call[t].key => ~BeingErased(h)
    BY <2>1 DEF BeingErased, IInv, RegistrySynchronized, InSection
  <2>3. \A h : ~BeingErased(h)' /\ BeingErased(call[t].key)
    <3>1. \A u \in Threads : pc'[u] # "erase"
      BY <2>1 DEF IInv, RegistrySynchronized, InSection
    <3> QED
      BY <3>1, <2>1 DEF BeingErased
  <2>4. \A h \in Handles : Recorded(h)' = Recorded(h)
    BY <2>1, <2>2, <2>3, Names DEF Recorded
  <2>5. \A h \in Handles : Closers(h)' = Closers(h)
    BY <2>1 DEF Closers, Closing
  <2> QED
    BY <2>1, <2>4, <2>5, SameRecords
<1>9. ASSUME NEW t \in Threads, UnlockAndReturn(t) \/ UnlockAndGoOn(t) \/ UseEntry(t)
                                 \/ Unregister(t)
      PROVE  Good
  <2>1. /\ pc[t] \in {"unlock", "use", "unregister"} /\ UNCHANGED <<conn, sockets, cell>>
        /\ \E l \in {"idle", "use", "unregister", "break"} : pc' = [pc EXCEPT ![t] = l]
        /\ \A u \in Threads \ {t} : call'[u] = call[u]
    BY <1>9, <1>c DEF UnlockAndReturn, UnlockAndGoOn, UseEntry, Unregister, Return, Goto, kernel
  <2>2. \A h \in Handles : Recorded(h)' = Recorded(h) /\ Closers(h)' = Closers(h)
    BY <2>1, <1>a DEF Closers
  <2> QED
    BY <2>1, <2>2, SameRecords
<1>10. ASSUME NEW l \in Loggers, CloneTable(l) \/ AppendSocket(l) PROVE Good
  BY <1>10, <1>c, SameRecords DEF CloneTable, AppendSocket, kernel, Recorded, Closers,
     BeingErased, Closing
<1>11. CASE UNCHANGED vars
  BY <1>11, SameRecords DEF vars, Recorded, Closers, BeingErased, Closing
<1> QED
  BY <1>0, <1>1, <1>2, <1>3, <1>4, <1>5, <1>6, <1>7, <1>8, <1>9, <1>10, <1>11,
     RegisterMonitors, FindForCloseForgets, DeleteForgets, RegisterEffect
     DEF Next, Host, Section, Outside

(* The table is a registry of what the handles of the program stand for: an   *)
(* entry is made from what the handle is at that moment, never changes, and  *)
(* only the section of a close of that very handle drops it, whatever other  *)
(* calls, closes and reuses of the handle come between the real closesocket  *)
(* and that section.                                                         *)
THEOREM TableImplementsRegistry == Spec => ImplementsRegistry
<1>1. Init => Registry!Init
  BY Names DEF Init, Registry!Init, Recorded, Closers, Peers, BeingErased
<1>2. SInv /\ [Next]_vars => [Registry!Next]_(Registry!registry)
  BY RefinementStep
<1> QED
  BY <1>1, <1>2, SharingInvariance, PTL DEF Spec, ImplementsRegistry, Registry!Spec
=============================================================================
