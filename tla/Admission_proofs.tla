-------------------------- MODULE Admission_proofs --------------------------
(***************************************************************************)
(* What TLAPS proves of the pools of NetworkFilter: no counter has counted *)
(* more than its pool holds, and a socket that Register did not pre-filter *)
(* is in the pool of every max-connections rule that matches it, unless    *)
(* the rule made its counter of a value that leaves no room.  Both hold    *)
(* for every list of rules, any number of threads, sockets and addresses,  *)
(* and whatever an uninitialised INT32 holds.                              *)
(***************************************************************************)
EXTENDS NetworkFilter_proofs, FiniteSetTheorems

(* The labels at which a thread is inside break_connection. *)
Dismissing == {"break", "unregister", "remove"}

(* No CSocket is made where one of the table is. *)
SocketsOK == tracked \cap fresh = {}

(* Accept and connect have their CSocket to themselves; recv and send break  *)
(* a socket of the table, and whoever registers one does so because it is    *)
(* not there.                                                                *)
CallOK(t) ==
  /\ pc[t] = "idle" => frame[t] = NoFrame
  /\ pc[t] # "idle" => frame[t].hook \in {"open", "io"}
  /\ frame[t].hook = "open" =>
       Sock(t) \notin tracked /\ \A u \in Threads \ {t} : Sock(u) # Sock(t)
  /\ frame[t].hook = "io" /\ pc[t] \in {"filter"} \cup Dismissing => Sock(t) \in tracked
  /\ pc[t] \in Registering => Sock(t) \notin tracked

CallsOK == \A t \in Threads : CallOK(t)

(* The invariant that both properties need. *)
CInv == IInv /\ SocketsOK /\ CallsOK

-----------------------------------------------------------------------------
(* What the helpers do to the thread that uses them, and to the others. *)
Others(t) == \A u \in Threads \ {t} : pc'[u] = pc[u] /\ frame'[u] = frame[u]

LEMMA StartMoves ==
  ASSUME TypeOK, NEW t \in Threads, NEW l \in Labels, Start(t, l)
  PROVE  /\ pc'[t] = l
         /\ frame'[t].hook = frame[t].hook /\ frame'[t].sock = frame[t].sock
         /\ frame'[t].rule = 1 /\ frame'[t].flagged = FALSE
         /\ Others(t)
<1>1. frame' = [frame EXCEPT ![t] = FrameOf(@.hook, @.sock, 1, FALSE)]
  BY DEF Start
<1> QED
  BY <1>1 DEF TypeOK, Start, Goto, Others, FrameOf

LEMMA NextRuleMoves ==
  ASSUME TypeOK, NEW t \in Threads, NEW l \in Labels, NextRule(t, l)
  PROVE  /\ pc'[t] = l
         /\ frame'[t].hook = frame[t].hook /\ frame'[t].sock = frame[t].sock
         /\ frame'[t].rule = frame[t].rule + 1 /\ frame'[t].flagged = frame[t].flagged
         /\ Others(t)
  BY DEF TypeOK, NextRule, Goto, Others, Frames

LEMMA GotoMoves ==
  ASSUME TypeOK, NEW t \in Threads, NEW l \in Labels, Goto(t, l), UNCHANGED frame
  PROVE  pc'[t] = l /\ frame'[t] = frame[t] /\ Others(t)
  BY DEF TypeOK, Goto, Others

LEMMA ReturnMoves ==
  ASSUME TypeOK, NEW t \in Threads, Return(t)
  PROVE  pc'[t] = "idle" /\ frame'[t] = NoFrame /\ Others(t)
  BY DEF TypeOK, Return, Goto, Others

LEMMA EnterMoves ==
  ASSUME TypeOK, NEW t \in Threads, NEW h, NEW s, NEW l \in Labels, Enter(t, h, s, l)
  PROVE  pc'[t] = l /\ frame'[t] = FrameOf(h, s, 1, FALSE) /\ Others(t)
  BY DEF TypeOK, Enter, Goto, Others

LEMMA AskMoves ==
  ASSUME TypeOK, NEW t \in Threads, AskRule(t)
  PROVE  /\ pc' = pc /\ Others(t)
         /\ frame'[t].hook = frame[t].hook /\ frame'[t].sock = frame[t].sock
         /\ frame'[t].rule = frame[t].rule + 1
         /\ \E v \in Verdicts(Rule(t), Sock(t)) : frame'[t].flagged = (frame[t].flagged \/ v)
<1>1. PICK v \in Verdicts(Rule(t), Sock(t)) :
        frame' = [frame EXCEPT ![t] =
                    FrameOf(@.hook, @.sock, @.rule + 1, @.flagged \/ v)]
  BY DEF AskRule
<1>2. frame'[t] = FrameOf(frame[t].hook, frame[t].sock, frame[t].rule + 1, frame[t].flagged \/ v)
  BY <1>1 DEF TypeOK
<1>3. pc' = pc /\ Others(t)
  BY <1>1 DEF AskRule, TypeOK, Others
<1> QED
  BY <1>2, <1>3 DEF FrameOf

-----------------------------------------------------------------------------
(* Calls and sockets *)

(* Steps inside a call that leave the table alone. *)
LEMMA SameCall ==
  ASSUME IInv, CallsOK, NEW t \in Threads, UNCHANGED tracked, Others(t),
         pc[t] # "idle", pc'[t] # "idle",
         frame'[t].hook = frame[t].hook, frame'[t].sock = frame[t].sock,
         frame[t].hook = "io" /\ pc'[t] \in {"filter"} \cup Dismissing => Sock(t) \in tracked,
         pc'[t] \in Registering => Sock(t) \notin tracked
  PROVE  CallsOK'
<1> SUFFICES ASSUME NEW u \in Threads PROVE CallOK(u)'
  BY DEF CallsOK
<1>1. \A v \in Threads : Sock(v)' = Sock(v)
  BY DEF Others, Sock
<1>2. CASE u = t
  BY <1>1, <1>2 DEF CallsOK, CallOK, Sock
<1>3. CASE u # t
  BY <1>1, <1>3 DEF CallsOK, CallOK, Sock, Others
<1> QED
  BY <1>2, <1>3

(* Leaving a call. *)
LEMMA CallEnds ==
  ASSUME IInv, SocketsOK, CallsOK, NEW t \in Threads, Return(t),
         tracked' = tracked \/ (tracked' = tracked \cup {Sock(t)} /\ pc[t] \in Registering)
  PROVE  CallsOK'
<1> SUFFICES ASSUME NEW u \in Threads PROVE CallOK(u)'
  BY DEF CallsOK
<1>1. pc'[t] = "idle" /\ frame'[t] = NoFrame /\ Others(t)
  BY ReturnMoves DEF IInv
<1>2. CASE u = t
  BY <1>1, <1>2 DEF CallOK, NoFrame, FrameOf, Registering, Dismissing
<1>3. CASE u # t
  <2>1. Sock(u)' = Sock(u) /\ pc'[u] = pc[u] /\ frame'[u] = frame[u] /\ CallOK(u)
    BY <1>1, <1>3 DEF Others, Sock, CallsOK
  <2>2. frame[u].hook = "open" => Sock(u) # Sock(t) /\ Sock(u) \in Sockets
    BY <1>3, <2>1 DEF CallOK, NoFrame, FrameOf, IInv, FramesOK
  <2>3. pc[u] \in Registering /\ pc[t] \in Registering => FALSE
    BY <1>3 DEF IInv, OneRegisters
  <2>4. frame[u].hook = "open" => \A v \in Threads \ {u} : Sock(v)' # Sock(u)
    <3> SUFFICES ASSUME frame[u].hook = "open", NEW v \in Threads \ {u} PROVE Sock(v)' # Sock(u)
      OBVIOUS
    <3>1. CASE v = t
      BY <1>1, <2>2, <3>1, RuleAssumption DEF Sock, NoFrame, FrameOf, IInv, TypeOK
    <3>2. CASE v # t
      BY <1>1, <2>1, <3>2 DEF Sock, Others, CallOK
    <3> QED
      BY <3>1, <3>2
  <2> QED
    BY <2>1, <2>2, <2>3, <2>4 DEF CallOK
<1> QED
  BY <1>2, <1>3

(* A connection is closed, by the host or by a stray close: none that a call  *)
(* is about.                                                                 *)
LEMMA CallsSurviveDiscard ==
  ASSUME IInv, CallsOK, NEW S, Discard(S), \A s \in S : ~InFlight(s), UNCHANGED frame,
         \A t \in Threads : \/ pc'[t] = pc[t]
                            \/ pc[t] = "break" /\ pc'[t] = "unregister"
  PROVE  CallsOK'
<1> SUFFICES ASSUME NEW u \in Threads PROVE CallOK(u)'
  BY DEF CallsOK
<1>1. \A v \in Threads : Sock(v)' = Sock(v) /\ Sock(v) \notin S
  BY DEF Sock, InFlight
<1> QED
  BY <1>1 DEF CallsOK, CallOK, Discard, Dismissing, Registering

LEMMA SocketsStep == CInv /\ [Next]_vars => SocketsOK'
<1> SUFFICES ASSUME CInv, [Next]_vars PROVE SocketsOK'
  OBVIOUS
<1> USE DEF CInv, SocketsOK
<1>1. ASSUME NEW t \in Threads, OpenSocket(t) PROVE SocketsOK'
  BY <1>1 DEF OpenSocket, Make
<1>2. ASSUME NEW t \in Threads, CloseSocket(t) \/ BreakConnection(t) PROVE SocketsOK'
  BY <1>2 DEF CloseSocket, BreakConnection, Discard
<1>3. ASSUME NEW t \in Threads, Unlock(t) PROVE SocketsOK'
  <2>1. Sock(t) \notin fresh
    BY <1>3 DEF Unlock, IInv, Settled
  <2> QED
    BY <1>3, <2>1 DEF Unlock
<1>4. CASE UNCHANGED <<fresh, tracked>>
  BY <1>4
<1> QED
  BY <1>1, <1>2, <1>3, <1>4 DEF Next, HostDone, vars, Host, Step, Admit, Dismiss, UseSocket,
     AskRule, Decide, FindTracked, Lock, Prefiltered, EnsureEntry, CheckAgain, PushSocket,
     BumpCounter, RulesDone, Decrement, RemoveSocket, BreakDone

LEMMA CallsStep == CInv /\ [Next]_vars => CallsOK'
<1> SUFFICES ASSUME CInv, [Next]_vars PROVE CallsOK'
  OBVIOUS
<1> USE LabelNames DEF CInv, IInv
<1>1. ASSUME NEW t \in Threads, OpenSocket(t) PROVE CallsOK'
  <2>1. PICK s \in fresh : /\ UNCHANGED tracked
                           /\ Enter(t, "open", s, "filter") \/ UNCHANGED <<pc, frame>>
    BY <1>1 DEF OpenSocket
  <2>2. s \notin tracked
    BY <2>1 DEF SocketsOK
  <2>3. \A u \in Threads : Sock(u) # s
    <3> SUFFICES ASSUME NEW u \in Threads, Sock(u) = s PROVE FALSE
      OBVIOUS
    <3>1. pc[u] = "idle"
      BY <2>1 DEF Settled
    <3> QED
      BY <2>1, <3>1, RuleAssumption DEF CallsOK, CallOK, Sock, NoFrame, FrameOf, TypeOK
  <2>4. CASE UNCHANGED <<pc, frame>>
    BY <2>1, <2>4 DEF CallsOK, CallOK, Sock
  <2>5. CASE Enter(t, "open", s, "filter")
    <3>1. pc'[t] = "filter" /\ frame'[t] = FrameOf("open", s, 1, FALSE) /\ Others(t)
      BY <2>5, EnterMoves
    <3>2. Sock(t)' = s /\ \A u \in Threads \ {t} : Sock(u)' = Sock(u)
      BY <3>1 DEF Sock, Others, FrameOf
    <3> SUFFICES ASSUME NEW u \in Threads PROVE CallOK(u)'
      BY DEF CallsOK
    <3>3. CASE u = t
      BY <2>1, <2>2, <2>3, <3>1, <3>2, <3>3 DEF CallOK, FrameOf, Registering, Dismissing
    <3>4. CASE u # t
      BY <2>1, <2>3, <3>1, <3>2, <3>4 DEF CallsOK, CallOK, Others
    <3> QED
      BY <3>3, <3>4
  <2> QED
    BY <2>1, <2>4, <2>5
<1>2. ASSUME NEW t \in Threads, UseSocket(t) PROVE CallsOK'
  <2>1. PICK s \in open : /\ \A u \in Threads : Sock(u) = s => frame[u].hook = "io"
                          /\ Enter(t, "io", s, "lock")
    BY <1>2 DEF UseSocket
  <2>2. pc'[t] = "lock" /\ frame'[t] = FrameOf("io", s, 1, FALSE) /\ Others(t)
    BY <2>1, EnterMoves
  <2>3. Sock(t)' = s /\ (\A u \in Threads \ {t} : Sock(u)' = Sock(u)) /\ UNCHANGED tracked
    BY <1>2, <2>2 DEF Sock, Others, FrameOf, UseSocket
  <2> SUFFICES ASSUME NEW u \in Threads PROVE CallOK(u)'
    BY DEF CallsOK
  <2>4. CASE u = t
    BY <2>2, <2>3, <2>4 DEF CallOK, FrameOf, Registering, Dismissing
  <2>5. CASE u # t
    BY <2>1, <2>2, <2>3, <2>5 DEF CallsOK, CallOK, Others
  <2> QED
    BY <2>4, <2>5
<1>3. ASSUME NEW t \in Threads, CloseSocket(t) PROVE CallsOK'
  <2>1. PICK s \in open : ~InFlight(s) /\ Discard({s})
    BY <1>3 DEF CloseSocket
  <2> QED
    BY <1>3, <2>1, CallsSurviveDiscard DEF CloseSocket
<1>4. ASSUME NEW t \in Threads, BreakConnection(t) PROVE CallsOK'
  <2>1. PICK S : (\A s \in S : ~InFlight(s)) /\ Discard(S)
    BY <1>4 DEF BreakConnection
  <2>2. \A u \in Threads : pc'[u] = pc[u] \/ (pc[u] = "break" /\ pc'[u] = "unregister")
    BY <1>4 DEF BreakConnection, Goto, TypeOK
  <2> QED
    BY <1>4, <2>1, <2>2, CallsSurviveDiscard DEF BreakConnection
<1>5. ASSUME NEW t \in Threads, AskRule(t) PROVE CallsOK'
  <2>1. /\ pc' = pc /\ Others(t) /\ pc[t] \in {"filter", "prefilter"}
        /\ frame'[t].hook = frame[t].hook /\ frame'[t].sock = frame[t].sock
    BY <1>5, AskMoves DEF AskRule
  <2> QED
    BY <1>5, <2>1, SameCall DEF AskRule, CallsOK, CallOK
<1>6. ASSUME NEW t \in Threads, Decide(t) PROVE CallsOK'
  <2>1. CASE Return(t)
    BY <1>6, <2>1, CallEnds DEF Decide
  <2>2. ASSUME NEW l \in {"break", "lock"}, Start(t, l),
               l = "lock" => frame[t].hook = "open"
        PROVE  CallsOK'
    <3>1. /\ pc'[t] = l /\ Others(t)
          /\ frame'[t].hook = frame[t].hook /\ frame'[t].sock = frame[t].sock
      BY <2>2, StartMoves
    <3> QED
      BY <1>6, <2>2, <3>1, SameCall DEF Decide, CallsOK, CallOK, Registering, Dismissing
  <2> QED
    BY <1>6, <2>1, <2>2 DEF Decide
<1>7. ASSUME NEW t \in Threads, FindTracked(t) PROVE CallsOK'
  <2>1. /\ pc'[t] = "filter" /\ Others(t)
        /\ frame'[t].hook = frame[t].hook /\ frame'[t].sock = frame[t].sock
    BY <1>7, StartMoves DEF FindTracked
  <2> QED
    BY <1>7, <2>1, SameCall DEF FindTracked, Registering
<1>8. ASSUME NEW t \in Threads, Lock(t) PROVE CallsOK'
  <2>1. /\ pc'[t] = "prefilter" /\ Others(t)
        /\ frame'[t].hook = frame[t].hook /\ frame'[t].sock = frame[t].sock
    BY <1>8, StartMoves DEF Lock
  <2>2. Sock(t) \notin tracked
    BY <1>8 DEF Lock, CallsOK, CallOK
  <2> QED
    BY <1>8, <2>1, <2>2, SameCall DEF Lock, Dismissing
(* Steps of register_socket that stay in it ... *)
<1>9. ASSUME NEW t \in Threads, UNCHANGED tracked, Others(t),
             pc[t] \in Registering, pc'[t] \in Registering,
             frame'[t].hook = frame[t].hook, frame'[t].sock = frame[t].sock
      PROVE  CallsOK'
  BY <1>9, SameCall DEF CallsOK, CallOK, Registering, Dismissing
(* ... and of break_connection. *)
<1>10. ASSUME NEW t \in Threads, UNCHANGED tracked, Others(t),
              pc[t] \in Dismissing, pc'[t] \in Dismissing,
              frame'[t].hook = frame[t].hook, frame'[t].sock = frame[t].sock
       PROVE  CallsOK'
  BY <1>10, SameCall DEF CallsOK, CallOK, Registering, Dismissing
<1>11. ASSUME NEW t \in Threads, Prefiltered(t) \/ RulesDone(t) PROVE CallsOK'
  BY <1>9, <1>11, StartMoves, GotoMoves DEF Prefiltered, RulesDone, Registering
<1>12. ASSUME NEW t \in Threads, EnsureEntry(t) \/ CheckAgain(t) PROVE CallsOK'
  BY <1>9, <1>12, NextRuleMoves, GotoMoves DEF EnsureEntry, CheckAgain, Registering
<1>13. ASSUME NEW t \in Threads, PushSocket(t) \/ BumpCounter(t) PROVE CallsOK'
  BY <1>9, <1>13, NextRuleMoves, GotoMoves DEF PushSocket, BumpCounter, Registering
<1>14. ASSUME NEW t \in Threads, Decrement(t) \/ RemoveSocket(t) PROVE CallsOK'
  BY <1>10, <1>14, NextRuleMoves, GotoMoves DEF Decrement, RemoveSocket, Dismissing
<1>15. ASSUME NEW t \in Threads, BreakDone(t) PROVE CallsOK'
  BY <1>15, CallEnds DEF BreakDone
<1>16. ASSUME NEW t \in Threads, Unlock(t) PROVE CallsOK'
  <2>1. CASE Return(t)
    BY <1>16, <2>1, CallEnds DEF Unlock, Registering
  <2>2. CASE Start(t, "filter") /\ frame[t].hook # "open"
    <3>1. /\ pc'[t] = "filter" /\ Others(t) /\ pc[t] = "unlock"
          /\ frame'[t].hook = frame[t].hook /\ frame'[t].sock = frame[t].sock
          /\ tracked' = tracked \cup {Sock(t)}
      BY <1>16, <2>2, StartMoves DEF Unlock
    <3>2. \A v \in Threads : Sock(v)' = Sock(v)
      BY <3>1 DEF Others, Sock
    <3> SUFFICES ASSUME NEW u \in Threads PROVE CallOK(u)'
      BY DEF CallsOK
    <3>3. CASE u = t
      BY <2>2, <3>1, <3>2, <3>3 DEF CallsOK, CallOK, Registering
    <3>4. CASE u # t
      <4>1. pc[u] \notin Registering
        BY <3>1, <3>4 DEF OneRegisters, Registering
      <4>2. frame[u].hook = "open" => Sock(u) # Sock(t)
        BY <3>4 DEF CallsOK, CallOK
      <4> QED
        BY <3>1, <3>2, <3>4, <4>1, <4>2 DEF CallsOK, CallOK, Others
    <3> QED
      BY <3>3, <3>4
  <2> QED
    BY <1>16, <2>1, <2>2 DEF Unlock
<1>17. CASE UNCHANGED vars
  BY <1>17 DEF vars, CallsOK, CallOK, Sock
<1> QED
  BY <1>1, <1>2, <1>3, <1>4, <1>5, <1>6, <1>7, <1>8, <1>11, <1>12, <1>13, <1>14, <1>15,
     <1>16, <1>17 DEF Next, HostDone, Host, Step, Admit, Dismiss

LEMMA CallsInvariant == Spec => []CInv
<1>1. Init => CInv
  <2> SUFFICES ASSUME Init PROVE CInv
    OBVIOUS
  <2>1. SocketsOK
    BY DEF Init, SocketsOK
  <2>2. CallsOK
    BY DEF Init, CallsOK, CallOK, Registering, NoFrame, FrameOf
  <2> QED
    BY <2>1, <2>2, InitInvariant DEF CInv
<1>2. CInv /\ [Next]_vars => CInv'
  <2>1. IInv /\ [Next]_vars => IInv'
    BY TypeStep, OneRegistersStep, FramesStep, SettledStep, AnswerStep DEF IInv
  <2> QED
    BY <2>1, SocketsStep, CallsStep DEF CInv
<1> QED
  BY <1>1, <1>2, PTL DEF Spec

(* A socket is never registered by one thread and broken by another: it is    *)
(* broken by the one that opened it, or found in the table by recv and send. *)
LEMMA Apart ==
  ASSUME CInv, NEW t \in Threads, pc[t] \in Registering,
         NEW u \in Threads, pc[u] \in Dismissing
  PROVE  Sock(u) # Sock(t)
<1>1. u # t /\ pc[u] # "idle" /\ Sock(t) \notin tracked
  BY DEF CInv, CallsOK, CallOK, Registering, Dismissing
<1>2. frame[u].hook = "open" \/ frame[u].hook = "io"
  BY <1>1 DEF CInv, CallsOK, CallOK
<1> QED
  BY <1>1, <1>2 DEF CInv, CallsOK, CallOK

-----------------------------------------------------------------------------
(* The counters *)

(* The sockets that a rule has subtracted and not yet taken out of its pool. *)
Removing(r) == {s \in Sockets : \E t \in Threads :
                  pc[t] = "remove" /\ Rule(t) = r /\ Sock(t) = s}

(* One when a thread has pushed a socket and not yet counted it. *)
Pending(r, a) ==
  IF \E t \in Threads : pc[t] = "bump" /\ Rule(t) = r /\ Address(t) = a THEN 1 ELSE 0

Held(r, a) == At(pool[r] \ Removing(r), a)

(* NeverOvercounts, with the sections in between: a socket is in the pool     *)
(* before it is counted and is subtracted before it leaves.                  *)
CountsCovered ==
  \A r \in Counters, a \in Addresses :
    count[r][a] # None /\ first[r][a] # None =>
      count[r][a] - first[r][a] + Pending(r, a) <= Cardinality(Held(r, a))

LEMMA HeldFinite ==
  TypeOK => \A r \in Rules, a \in Addresses :
              IsFiniteSet(Held(r, a)) /\ Cardinality(Held(r, a)) \in Nat
<1> SUFFICES ASSUME TypeOK, NEW r \in Rules, NEW a \in Addresses
             PROVE  IsFiniteSet(Held(r, a)) /\ Cardinality(Held(r, a)) \in Nat
  OBVIOUS
<1>1. Held(r, a) \in SUBSET Sockets
  BY DEF Held, At, TypeOK
<1>2. IsFiniteSet(Held(r, a))
  BY <1>1, RuleAssumption, FS_Subset
<1> QED
  BY <1>2, FS_CardinalityType

LEMMA PendingType == \A r, a : Pending(r, a) \in {0, 1}
  BY DEF Pending

(* What is pending, and what is being removed, is a matter of the threads at  *)
(* that section.                                                             *)
LEMMA PendingKept ==
  ASSUME IInv, [Next]_vars,
         \A u \in Threads : /\ pc'[u] = "bump" <=> pc[u] = "bump"
                            /\ pc[u] = "bump" => frame'[u] = frame[u],
         NEW CONSTANT r, NEW CONSTANT a
  PROVE  Pending(r, a)' = Pending(r, a)
<1>1. \A u \in Threads : pc[u] = "bump" => ends'[frame[u].sock] = ends[frame[u].sock]
  BY EndsKept DEF IInv, FramesOK, Settled, Sock
<1>2. \A u \in Threads :
        (pc'[u] = "bump" /\ frame'[u].rule = r /\ AddressOf[ends'[frame'[u].sock]] = a)
          <=> (pc[u] = "bump" /\ frame[u].rule = r /\ AddressOf[ends[frame[u].sock]] = a)
  BY <1>1
<1> QED
  BY <1>2 DEF Pending, Rule, Address, Sock

LEMMA RemovingKept ==
  ASSUME \A u \in Threads : /\ pc'[u] = "remove" <=> pc[u] = "remove"
                            /\ pc[u] = "remove" => frame'[u] = frame[u],
         NEW CONSTANT r
  PROVE  Removing(r)' = Removing(r)
<1>1. \A u \in Threads, s \in Sockets :
        (pc'[u] = "remove" /\ frame'[u].rule = r /\ frame'[u].sock = s)
          <=> (pc[u] = "remove" /\ frame[u].rule = r /\ frame[u].sock = s)
  OBVIOUS
<1> QED
  BY <1>1 DEF Removing, Rule, Sock

LEMMA SameSections ==
  ASSUME IInv, [Next]_vars,
         NEW t \in Threads, Others(t), pc[t] \notin {"bump", "remove"},
         pc'[t] \notin {"bump", "remove"},
         NEW CONSTANT r, NEW CONSTANT a
  PROVE  Pending(r, a)' = Pending(r, a) /\ Removing(r)' = Removing(r)
<1>1. \A u \in Threads : /\ pc'[u] = "bump" <=> pc[u] = "bump"
                         /\ pc'[u] = "remove" <=> pc[u] = "remove"
                         /\ pc[u] \in {"bump", "remove"} => frame'[u] = frame[u]
  <2> SUFFICES ASSUME NEW u \in Threads
               PROVE  /\ pc'[u] = "bump" <=> pc[u] = "bump"
                      /\ pc'[u] = "remove" <=> pc[u] = "remove"
                      /\ pc[u] \in {"bump", "remove"} => frame'[u] = frame[u]
    OBVIOUS
  <2>1. CASE u = t
    BY <2>1
  <2>2. CASE u # t
    BY <2>2 DEF Others
  <2> QED
    BY <2>1, <2>2
<1> QED
  BY <1>1, PendingKept, RemovingKept

(* Only the thread that registers can have a count pending. *)
LEMMA PendingIsMine ==
  ASSUME CInv, NEW t \in Threads, pc[t] \in Registering, NEW r, NEW a
  PROVE  Pending(r, a) = IF pc[t] = "bump" /\ Rule(t) = r /\ Address(t) = a THEN 1 ELSE 0
<1>1. \A u \in Threads : pc[u] = "bump" => u = t
  BY DEF CInv, IInv, OneRegisters, Registering
<1> QED
  BY <1>1 DEF Pending

LEMMA CountsStep ==
  ASSUME CInv, CountsCovered, [Next]_vars
  PROVE  CountsCovered'
<1> USE LabelNames DEF CInv, IInv
<1> SUFFICES ASSUME NEW r \in Counters, NEW a \in Addresses,
                    count'[r][a] # None, first'[r][a] # None
             PROVE  count'[r][a] - first'[r][a] + Pending(r, a)' <= Cardinality(Held(r, a)')
  BY DEF CountsCovered, Counters
<1> DEFINE Good == count'[r][a] - first'[r][a] + Pending(r, a)' <= Cardinality(Held(r, a)')
<1>a. /\ r \in Rules /\ Kind[r] = "max-connections"
      /\ count[r][a] \in Int \cup {None} /\ first[r][a] \in Int \cup {None}
      /\ count[r][a] # None /\ first[r][a] # None =>
           count[r][a] - first[r][a] + Pending(r, a) <= Cardinality(Held(r, a))
      /\ Cardinality(Held(r, a)) \in Nat /\ IsFiniteSet(Held(r, a))
  BY HeldFinite DEF Counters, CountsCovered, TypeOK
<1>b. Cardinality(Held(r, a)') \in Nat /\ IsFiniteSet(Held(r, a)')
  <2>1. TypeOK'
    BY TypeStep
  <2>2. Held(r, a)' \in SUBSET Sockets
    BY <1>a, <2>1 DEF Held, At, TypeOK
  <2>3. IsFiniteSet(Held(r, a)')
    BY <2>2, RuleAssumption, FS_Subset
  <2> QED
    BY <2>3, FS_CardinalityType
(* Steps that touch neither counters nor pools. *)
<1>1. ASSUME NEW t \in Threads, UNCHANGED <<count, first, pool, ends>>, Others(t),
             pc[t] \notin {"bump", "remove"}, pc'[t] \notin {"bump", "remove"}
      PROVE  Good
  <2>1. Pending(r, a)' = Pending(r, a) /\ Removing(r)' = Removing(r)
    BY <1>1, SameSections
  <2>2. Held(r, a)' = Held(r, a)
    BY <1>1, <2>1 DEF Held, At
  <2> QED
    BY <1>a, <1>1, <2>1, <2>2
<1>2. ASSUME NEW t \in Threads, Host(t) PROVE Good
  <2>1. Others(t) /\ pc[t] = "idle" /\ pc'[t] \in {"idle", "filter", "lock"}
    BY <1>2, EnterMoves DEF Host, OpenSocket, UseSocket, CloseSocket, Others
  <2>2. CASE UseSocket(t) \/ CloseSocket(t)
    BY <1>1, <2>1, <2>2 DEF UseSocket, CloseSocket, past
  <2>3. CASE OpenSocket(t)
    <3>1. PICK s \in fresh, e \in Endpoints : Make(s, e)
      BY <2>3 DEF OpenSocket
    <3>2. UNCHANGED <<count, pool>>
      BY <2>3 DEF OpenSocket
    <3>3. Pending(r, a)' = Pending(r, a) /\ Removing(r)' = Removing(r)
      BY <2>1, SameSections
    <3>4. first'[r][a] = first[r][a] /\ ~(s \in pool[r] /\ a = AddressOf[ends[s]] /\ a # AddressOf[e])
      BY <1>a, <3>1 DEF Make
    <3>5. \A x \in Held(r, a) : x \in Sockets /\ AddressOf[ends'[x]] = a
      <4> SUFFICES ASSUME NEW x \in Held(r, a) PROVE x \in Sockets /\ AddressOf[ends'[x]] = a
        OBVIOUS
      <4>1. x \in pool[r] /\ x \in Sockets /\ AddressOf[ends[x]] = a
        BY <1>a DEF Held, At, TypeOK
      <4> QED
        BY <3>1, <3>4, <4>1 DEF Make, TypeOK
    <3>6. Held(r, a) \subseteq Held(r, a)'
      BY <3>2, <3>3, <3>5 DEF Held, At
    <3>7. Cardinality(Held(r, a)) <= Cardinality(Held(r, a)')
      BY <1>b, <3>6, FS_Subset
    <3> QED
      BY <1>a, <1>b, <3>2, <3>3, <3>4, <3>7, PendingType
  <2> QED
    BY <1>2, <2>2, <2>3 DEF Host
<1>3. ASSUME NEW t \in Threads, AskRule(t) PROVE Good
  BY <1>1, <1>3, AskMoves DEF AskRule, past
<1>4. ASSUME NEW t \in Threads,
             Decide(t) \/ FindTracked(t) \/ Lock(t) \/ Prefiltered(t) \/ RulesDone(t)
      PROVE  Good
  BY <1>1, <1>4, StartMoves, ReturnMoves, GotoMoves
     DEF Decide, FindTracked, Lock, Prefiltered, RulesDone, past
<1>5. ASSUME NEW t \in Threads, CheckAgain(t) \/ Unlock(t) \/ BreakConnection(t) \/ BreakDone(t)
      PROVE  Good
  <2>1. ASSUME CheckAgain(t) PROVE Others(t) /\ pc'[t] \in {"ensure", "push"} /\ pc[t] = "check"
    BY <2>1, NextRuleMoves, GotoMoves DEF CheckAgain
  <2>2. ASSUME Unlock(t) \/ BreakConnection(t) \/ BreakDone(t)
        PROVE  /\ Others(t) /\ pc[t] \in {"unlock", "break", "unregister"}
               /\ pc'[t] \in {"idle", "filter", "unregister"}
    BY <2>2, StartMoves, ReturnMoves, GotoMoves DEF Unlock, BreakConnection, BreakDone
  <2> QED
    BY <1>1, <1>5, <2>1, <2>2 DEF CheckAgain, Unlock, BreakConnection, BreakDone, past
<1>6. ASSUME NEW t \in Threads, EnsureEntry(t) PROVE Good
  <2>1. pc[t] = "ensure" /\ pc[t] \in Registering /\ Rule(t) \in Rules /\ UNCHANGED <<pool, ends>>
    BY <1>6, RuleAssumption DEF EnsureEntry, Registering, Rule, Rules, TypeOK, Frames
  <2>2. Others(t) /\ pc'[t] \in {"ensure", "check"}
    BY <1>6, <2>1, NextRuleMoves, GotoMoves DEF EnsureEntry
  <2>3. Pending(r, a)' = 0 /\ Held(r, a)' = Held(r, a)
    BY <2>1, <2>2, SameSections, PendingIsMine DEF Held, At
  <2>4. CASE UNCHANGED <<count, first>>
    BY <1>a, <2>1, <2>3, <2>4, PendingIsMine
  <2>5. ASSUME NEW n \in FirstValues(Rule(t)),
               count' = [count EXCEPT ![Rule(t)][Address(t)] = n],
               first' = [first EXCEPT ![Rule(t)][Address(t)] = n]
        PROVE  Good
    <3>1. CASE Rule(t) = r /\ Address(t) = a
      <4>1. n \in Int
        BY RuleAssumption DEF FirstValues, NewCounters, NewStatistics
      <4>2. count'[r][a] = n /\ first'[r][a] = n
        BY <1>a, <2>5, <3>1 DEF TypeOK
      <4> QED
        BY <1>a, <2>3, <4>1, <4>2
    <3>2. CASE ~(Rule(t) = r /\ Address(t) = a)
      <4>1. count'[r][a] = count[r][a] /\ first'[r][a] = first[r][a]
        BY <1>a, <2>5, <3>2 DEF TypeOK
      <4> QED
        BY <1>a, <2>1, <2>3, <4>1, PendingIsMine
    <3> QED
      BY <3>1, <3>2
  <2> QED
    BY <1>6, <2>4, <2>5 DEF EnsureEntry
<1>7. ASSUME NEW t \in Threads, PushSocket(t) PROVE Good
  <2> DEFINE s == Sock(t)
  <2>1. /\ pc[t] = "push" /\ Rule(t) \in Rules /\ s \in Sockets /\ pc[t] \in Registering
        /\ UNCHANGED <<count, first, ends>>
    BY <1>7 DEF PushSocket, FramesOK, Registering, past
  <2>2. Pending(r, a) = 0
    BY <2>1, PendingIsMine
  <2>3. CASE s \in pool[Rule(t)] \/ Kind[Rule(t)] = "max-speed"
    <3>1. Others(t) /\ pc'[t] = "ensure"
      BY <1>7, <2>1, <2>3, NextRuleMoves DEF PushSocket
    <3>2. pool'[r] = pool[r]
      BY <1>7, <1>a, <2>1, <2>3 DEF PushSocket, TypeOK
    <3>3. Pending(r, a)' = 0 /\ Removing(r)' = Removing(r)
      BY <2>1, <2>2, <3>1, SameSections
    <3> QED
      BY <1>a, <2>1, <2>2, <3>2, <3>3 DEF Held, At
  <2>4. CASE ~(s \in pool[Rule(t)] \/ Kind[Rule(t)] = "max-speed")
    <3>1. /\ pc'[t] = "bump" /\ frame'[t] = frame[t] /\ Others(t)
          /\ pool' = [pool EXCEPT ![Rule(t)] = @ \cup {s}]
      BY <1>7, <2>4, GotoMoves DEF PushSocket
    <3>2. \A u \in Threads : pc'[u] = "bump" => u = t
      BY <2>1, <3>1 DEF OneRegisters, Registering, Others
    <3>3. Pending(r, a)' = IF Rule(t) = r /\ Address(t) = a THEN 1 ELSE 0
      BY <2>1, <3>1, <3>2 DEF Pending, Rule, Address, Sock
    <3>4. \A u \in Threads : /\ pc'[u] = "remove" <=> pc[u] = "remove"
                             /\ pc[u] = "remove" => frame'[u] = frame[u]
      BY <2>1, <3>1 DEF Others
    <3>5. Removing(r)' = Removing(r)
      BY <3>4, RemovingKept
    <3>6. s \notin Removing(r)
      BY <2>1, Apart DEF Removing, Dismissing
    <3>7. CASE Rule(t) = r /\ Address(t) = a
      <4>1. Held(r, a)' = Held(r, a) \cup {s}
        BY <1>a, <2>1, <3>1, <3>5, <3>6, <3>7 DEF Held, At, Address, TypeOK
      <4>2. s \notin Held(r, a)
        BY <2>4, <3>7 DEF Held, At
      <4>3. Cardinality(Held(r, a)') = Cardinality(Held(r, a)) + 1
        <5>1. Cardinality(Held(r, a) \cup {s}) = Cardinality(Held(r, a)) + 1
          BY <1>a, <4>2, FS_AddElement
        <5> QED
          BY <4>1, <5>1
      <4> QED
        BY <1>a, <2>1, <2>2, <3>3, <3>7, <4>3
    <3>8. CASE ~(Rule(t) = r /\ Address(t) = a)
      <4>1. Held(r, a)' = Held(r, a)
        BY <1>a, <2>1, <3>1, <3>5, <3>8 DEF Held, At, Address, TypeOK
      <4> QED
        BY <1>a, <2>1, <2>2, <3>3, <3>8, <4>1
    <3> QED
      BY <3>7, <3>8
  <2> QED
    BY <2>3, <2>4
<1>8. ASSUME NEW t \in Threads, BumpCounter(t) PROVE Good
  <2>1. /\ pc[t] = "bump" /\ Rule(t) \in Rules /\ pc[t] \in Registering
        /\ UNCHANGED <<pool, first, ends>> /\ Address(t) \in Addresses
    BY <1>8, RuleAssumption DEF BumpCounter, FramesOK, Registering, Address, past, TypeOK
  <2>2. pc'[t] = "ensure" /\ Others(t)
    BY <1>8, <2>1, NextRuleMoves DEF BumpCounter
  <2>3. Pending(r, a)' = 0
    BY <2>1, <2>2 DEF Pending, Others, OneRegisters, Registering
  <2>4. \A u \in Threads : /\ pc'[u] = "remove" <=> pc[u] = "remove"
                           /\ pc[u] = "remove" => frame'[u] = frame[u]
    BY <2>1, <2>2 DEF Others
  <2>5. Held(r, a)' = Held(r, a)
    BY <2>1, <2>4, RemovingKept DEF Held, At
  <2>6. CASE Rule(t) = r /\ Address(t) = a
    <3>1. Pending(r, a) = 1
      BY <2>1, <2>6, PendingIsMine
    <3>2. count[r][a] # None /\ count'[r][a] = count[r][a] + 1
      BY <1>8, <1>a, <2>1, <2>6 DEF BumpCounter, TypeOK
    <3> QED
      BY <1>a, <2>1, <2>3, <2>5, <3>1, <3>2
  <2>7. CASE ~(Rule(t) = r /\ Address(t) = a)
    <3>1. Pending(r, a) = 0
      BY <2>1, <2>7, PendingIsMine
    <3>2. count'[r][a] = count[r][a]
      BY <1>8, <1>a, <2>1, <2>7 DEF BumpCounter, TypeOK
    <3> QED
      BY <1>a, <2>1, <2>3, <2>5, <3>1, <3>2
  <2> QED
    BY <2>6, <2>7
<1>9. ASSUME NEW t \in Threads, Decrement(t) PROVE Good
  <2> DEFINE s == Sock(t)
  <2>1. /\ pc[t] = "unregister" /\ Rule(t) \in Rules /\ s \in Sockets
        /\ UNCHANGED <<pool, ends>> /\ Address(t) \in Addresses
    BY <1>9, RuleAssumption DEF Decrement, FramesOK, Address, TypeOK, Frames, Rule, Rules
  <2>2. pc'[t] = "remove" /\ frame'[t] = frame[t] /\ Others(t)
    BY <1>9, GotoMoves DEF Decrement
  <2>3. \A u \in Threads : /\ pc'[u] = "bump" <=> pc[u] = "bump"
                           /\ pc[u] = "bump" => frame'[u] = frame[u]
    BY <2>1, <2>2 DEF Others
  <2>4. Pending(r, a)' = Pending(r, a)
    BY <2>3, PendingKept
  <2>5. Removing(r)' = IF Rule(t) = r THEN Removing(r) \cup {s} ELSE Removing(r)
    BY <2>1, <2>2 DEF Removing, Others, Rule, Sock
  <2>6. CASE Rule(t) = r /\ Address(t) = a
    <3>1. Held(r, a)' = Held(r, a) \ {s}
      BY <2>1, <2>5, <2>6 DEF Held, At
    <3>2. IsFiniteSet(Held(r, a)) /\ Cardinality(Held(r, a)) \in Nat
      BY <1>a
    <3>3. /\ Cardinality(Held(r, a)') >= Cardinality(Held(r, a)) - 1
          /\ Cardinality(Held(r, a)') \in Nat
      <4>1. /\ IsFiniteSet(Held(r, a) \ {s})
            /\ \/ Cardinality(Held(r, a) \ {s}) = Cardinality(Held(r, a)) - 1
               \/ Cardinality(Held(r, a) \ {s}) = Cardinality(Held(r, a))
        BY <3>2, FS_RemoveElement
      <4>2. Cardinality(Held(r, a) \ {s}) \in Nat
        BY <4>1, FS_CardinalityType
      <4> QED
        BY <3>1, <3>2, <4>1, <4>2
    <3>4. count'[r][a] = LessOne(count[r][a])
      BY <1>9, <1>a, <2>1, <2>6 DEF Decrement, TypeOK
    <3>5. count[r][a] # None /\ count'[r][a] = count[r][a] - 1
      BY <3>4 DEF LessOne
    <3>6. first'[r][a] = first[r][a]
      BY <1>9, <1>a, <2>1, <2>6, <3>4 DEF Decrement, TypeOK
    <3> QED
      BY <1>a, <2>4, <3>3, <3>5, <3>6, PendingType
  <2>7. CASE ~(Rule(t) = r /\ Address(t) = a)
    <3>1. Held(r, a)' = Held(r, a)
      BY <2>1, <2>5, <2>7 DEF Held, At, Address
    <3>2. count'[r][a] = count[r][a] /\ first'[r][a] = first[r][a]
      BY <1>9, <1>a, <2>1, <2>7 DEF Decrement, TypeOK
    <3> QED
      BY <1>a, <2>4, <3>1, <3>2
  <2> QED
    BY <2>6, <2>7
<1>10. ASSUME NEW t \in Threads, RemoveSocket(t) PROVE Good
  <2> DEFINE s == Sock(t)
  <2>1. /\ pc[t] = "remove" /\ Rule(t) \in Rules /\ s \in Sockets
        /\ UNCHANGED <<count, first, ends>>
    BY <1>10 DEF RemoveSocket, FramesOK, past
  <2>2. pc'[t] = "unregister" /\ Others(t)
    BY <1>10, <2>1, NextRuleMoves DEF RemoveSocket
  <2>3. \A u \in Threads : /\ pc'[u] = "bump" <=> pc[u] = "bump"
                           /\ pc[u] = "bump" => frame'[u] = frame[u]
    BY <2>1, <2>2 DEF Others
  <2>4. Pending(r, a)' = Pending(r, a)
    BY <2>3, PendingKept
  <2>5. Held(r, a) \subseteq Held(r, a)'
    <3>1. \A x \in Sockets : x \in Removing(r)' => x \in Removing(r)
      BY <2>1, <2>2 DEF Removing, Others, Rule, Sock
    <3>2. Rule(t) = r => s \in Removing(r)
      BY <2>1 DEF Removing
    <3>3. \A x \in pool[r] : x \in pool'[r] \/ (x = s /\ Rule(t) = r)
      BY <1>10, <1>a, <2>1 DEF RemoveSocket, TypeOK
    <3>4. pool[r] \subseteq Sockets
      BY <1>a DEF TypeOK
    <3>5. pool[r] \ Removing(r) \subseteq pool'[r] \ Removing(r)'
      BY <3>1, <3>2, <3>3, <3>4
    <3> QED
      BY <2>1, <3>5 DEF Held, At
  <2>6. Cardinality(Held(r, a)) <= Cardinality(Held(r, a)')
    BY <1>b, <2>5, FS_Subset
  <2> QED
    BY <1>a, <1>b, <2>1, <2>4, <2>6, PendingType
<1>11. CASE UNCHANGED vars
  <2>1. Pending(r, a)' = Pending(r, a) /\ Held(r, a)' = Held(r, a)
    BY <1>11 DEF vars, Pending, Held, At, Removing, Rule, Address, Sock
  <2> QED
    BY <1>11, <1>a, <2>1 DEF vars
<1> QED
  BY <1>2, <1>3, <1>4, <1>5, <1>6, <1>7, <1>8, <1>9, <1>10, <1>11
     DEF Next, HostDone, Step, Admit, Dismiss

(* What a counter was raised by never exceeds the sockets in its pool,        *)
(* although Register and Unregister of CMaxConnectionsRule change the two in *)
(* separate sections of the rule's mutex, any number of threads run them at  *)
(* once, and freed CSockets stay in the pools and are made again.            *)
THEOREM CountersNeverExceedPools == Spec => []NeverOvercounts
<1>1. Init => CountsCovered
  BY DEF Init, CountsCovered, Counters
<1>2. CInv /\ CountsCovered /\ [Next]_vars => CountsCovered'
  BY CountsStep
<1>3. CInv /\ CountsCovered => NeverOvercounts
  <2> SUFFICES ASSUME CInv, CountsCovered, NEW r \in Counters, NEW a \in Addresses,
                      count[r][a] # None, first[r][a] # None
               PROVE  count[r][a] - first[r][a] <= Cardinality(At(pool[r], a))
    BY DEF NeverOvercounts
  <2>1. r \in Rules /\ TypeOK /\ count[r][a] \in Int /\ first[r][a] \in Int
    BY DEF CInv, IInv, TypeOK, Counters
  <2>2. IsFiniteSet(At(pool[r], a)) /\ Held(r, a) \subseteq At(pool[r], a)
    <3>1. At(pool[r], a) \in SUBSET Sockets /\ Held(r, a) \subseteq At(pool[r], a)
      BY <2>1 DEF At, Held, TypeOK
    <3> QED
      BY <3>1, RuleAssumption, FS_Subset
  <2>3. Cardinality(Held(r, a)) <= Cardinality(At(pool[r], a))
    BY <2>2, FS_Subset
  <2>4. Cardinality(Held(r, a)) \in Nat /\ Cardinality(At(pool[r], a)) \in Nat
    BY <2>1, <2>2, HeldFinite, FS_CardinalityType
  <2>5. count[r][a] - first[r][a] + Pending(r, a) <= Cardinality(Held(r, a))
    BY DEF CountsCovered
  <2> QED
    BY <2>1, <2>3, <2>4, <2>5, PendingType
<1> QED
  BY <1>1, <1>2, <1>3, CallsInvariant, PTL DEF Spec

-----------------------------------------------------------------------------
(* What Register answers *)

(* Room is left for an address in a rule: the rule's Filter lets it pass. *)
Below(r, a) == count[r][a] = None \/ count[r][a] < Amount[r]

(* Rule r let the socket pass when Register asked it, and has still to       *)
(* answer, or to answer again, before the socket is in its pool.             *)
LetPass(t, r) ==
  \/ pc[t] = "prefilter" /\ ~frame[t].flagged /\ r < Rule(t)
  \/ pc[t] \in {"ensure", "check"} /\ r >= Rule(t)
  \/ pc[t] \in {"push", "bump"} /\ r > Rule(t)

AnswersAgree == \A t \in Threads, r \in Counters :
                  LetPass(t, r) => Below(r, Address(t)) \/ r \in wild

(* Rule r has had the socket to register. *)
TakenIn(t, r) ==
  /\ Matches(r, Sock(t))
  /\ \/ pc[t] = "unlock" /\ ~frame[t].flagged
     \/ pc[t] \in {"ensure", "check", "push", "bump"} /\ r < Rule(t)
     \/ pc[t] = "bump" /\ r = Rule(t)

TurnsOK ==
  /\ \A t \in Threads : pc[t] \in {"ensure", "check", "push", "bump"} => ~frame[t].flagged
  /\ \A t \in Threads, r \in Counters :
       TakenIn(t, r) => Sock(t) \in pool[r] \/ r \in wild

RInv == CInv /\ AnswersAgree /\ TurnsOK

-----------------------------------------------------------------------------
(* A step is one thread's; the others stay where they are. *)
LEMMA OnlyMover ==
  ASSUME TypeOK, NEW t \in Threads, Host(t) \/ Step(t)
  PROVE  Others(t)
<1> USE LabelNames
<1>1. CASE Host(t)
  BY <1>1, EnterMoves DEF Host, OpenSocket, UseSocket, CloseSocket, Others
<1>2. CASE AskRule(t) \/ Decide(t) \/ FindTracked(t) \/ Lock(t)
  BY <1>2, AskMoves, StartMoves, ReturnMoves DEF Decide, FindTracked, Lock
<1>3. CASE Prefiltered(t) \/ EnsureEntry(t) \/ CheckAgain(t) \/ RulesDone(t)
  BY <1>3, StartMoves, GotoMoves, NextRuleMoves DEF Prefiltered, EnsureEntry, CheckAgain, RulesDone
<1>4. CASE PushSocket(t) \/ BumpCounter(t) \/ Unlock(t)
  BY <1>4, StartMoves, GotoMoves, NextRuleMoves, ReturnMoves DEF PushSocket, BumpCounter, Unlock
<1>5. CASE Dismiss(t)
  BY <1>5, GotoMoves, NextRuleMoves, ReturnMoves
     DEF Dismiss, BreakConnection, Decrement, RemoveSocket, BreakDone
<1> QED
  BY <1>1, <1>2, <1>3, <1>4, <1>5 DEF Step, Admit

LEMMA WhoMoves ==
  ASSUME TypeOK, [Next]_vars, NEW u \in Threads
  PROVE  Host(u) \/ Step(u) \/ (pc'[u] = pc[u] /\ frame'[u] = frame[u])
<1>1. CASE UNCHANGED vars
  BY <1>1 DEF vars
<1>2. ASSUME NEW t \in Threads, Host(t) \/ Step(t), u # t
      PROVE  pc'[u] = pc[u] /\ frame'[u] = frame[u]
  BY <1>2, OnlyMover DEF Others
<1> QED
  BY <1>1, <1>2 DEF Next, HostDone

(* The steps that move a thread on within Register.                          *)
LEMMA AdmitMoves ==
  ASSUME TypeOK, NEW t \in Threads, Rule(t) \in Int
  PROVE  /\ Lock(t) => pc'[t] = "prefilter" /\ frame'[t].rule = 1
         /\ Prefiltered(t) =>
              \/ pc'[t] = "unlock" /\ frame'[t] = frame[t] /\ frame[t].flagged
              \/ /\ pc'[t] = "ensure" /\ frame'[t].rule = 1 /\ ~frame'[t].flagged
                 /\ frame'[t].sock = frame[t].sock /\ ~frame[t].flagged
         /\ EnsureEntry(t) =>
              /\ frame'[t].sock = frame[t].sock /\ frame'[t].flagged = frame[t].flagged
              /\ \/ pc'[t] = "check" /\ frame'[t] = frame[t]
                 \/ /\ pc'[t] = "ensure" /\ frame'[t].rule = frame[t].rule + 1
                    /\ ~Matches(Rule(t), Sock(t))
         /\ BumpCounter(t) =>
              /\ frame'[t].sock = frame[t].sock /\ frame'[t].flagged = frame[t].flagged
              /\ pc'[t] = "ensure" /\ frame'[t].rule = frame[t].rule + 1
         /\ RulesDone(t) => pc'[t] = "unlock" /\ frame'[t] = frame[t]
<1> USE LabelNames
<1>1. Lock(t) => pc'[t] = "prefilter" /\ frame'[t].rule = 1
  BY StartMoves DEF Lock
<1>2. Prefiltered(t) =>
        \/ pc'[t] = "unlock" /\ frame'[t] = frame[t] /\ frame[t].flagged
        \/ /\ pc'[t] = "ensure" /\ frame'[t].rule = 1 /\ ~frame'[t].flagged
           /\ frame'[t].sock = frame[t].sock /\ ~frame[t].flagged
  BY StartMoves, GotoMoves DEF Prefiltered
<1>3. EnsureEntry(t) =>
        /\ frame'[t].sock = frame[t].sock /\ frame'[t].flagged = frame[t].flagged
        /\ \/ pc'[t] = "check" /\ frame'[t] = frame[t]
           \/ /\ pc'[t] = "ensure" /\ frame'[t].rule = frame[t].rule + 1
              /\ ~Matches(Rule(t), Sock(t))
  BY NextRuleMoves, GotoMoves DEF EnsureEntry
<1>4. BumpCounter(t) =>
        /\ frame'[t].sock = frame[t].sock /\ frame'[t].flagged = frame[t].flagged
        /\ pc'[t] = "ensure" /\ frame'[t].rule = frame[t].rule + 1
  BY NextRuleMoves DEF BumpCounter
<1>5. RulesDone(t) => pc'[t] = "unlock" /\ frame'[t] = frame[t]
  BY GotoMoves DEF RulesDone
<1> QED
  BY <1>1, <1>2, <1>3, <1>4, <1>5

(* The rule's own answer, and then the pool. *)
LEMMA CheckMoves ==
  ASSUME TypeOK, FramesOK, NEW t \in Threads, CheckAgain(t)
  PROVE  /\ frame'[t].sock = frame[t].sock /\ frame'[t].flagged = frame[t].flagged
         /\ count' = count /\ pool' = pool
         /\ \/ pc'[t] = "push" /\ frame'[t] = frame[t]
            \/ /\ pc'[t] = "ensure" /\ frame'[t].rule = frame[t].rule + 1
               /\ Kind[Rule(t)] = "max-connections" => ~Below(Rule(t), Address(t))
<1>1. PICK v \in Verdicts(Rule(t), Sock(t)) :
        IF v THEN NextRule(t, "ensure") ELSE Goto(t, "push") /\ UNCHANGED frame
  BY DEF CheckAgain
<1>2. Rule(t) \in Rules /\ Sock(t) \in Sockets
  BY DEF CheckAgain, FramesOK
<1>3. v /\ Kind[Rule(t)] = "max-connections" => ~Below(Rule(t), Address(t))
  <2> SUFFICES ASSUME v, Kind[Rule(t)] = "max-connections" PROVE ~Below(Rule(t), Address(t))
    OBVIOUS
  <2> DEFINE n == count[Rule(t)][Address(t)]
  <2>1. Verdicts(Rule(t), Sock(t)) = CountedVerdicts(n, Rule(t))
    BY DEF Verdicts, Address
  <2>2. n # None /\ v = AtLimit(n, Rule(t))
    BY <1>1, <2>1 DEF CountedVerdicts
  <2>3. n \in Int /\ Amount[Rule(t)] \in Int
    BY <1>2, <2>2, RuleAssumption DEF TypeOK, Address
  <2>5. AtLimit(n, Rule(t))
    BY <2>2
  <2> HIDE DEF n
  <2>4. ~(n < Amount[Rule(t)])
    BY <2>3, <2>5 DEF AtLimit
  <2> QED
    BY <2>2, <2>4 DEF Below, n
<1>4. CASE v
  BY <1>1, <1>3, <1>4, NextRuleMoves, LabelNames DEF CheckAgain
<1>5. CASE ~v
  BY <1>1, <1>5, GotoMoves, LabelNames DEF CheckAgain
<1> QED
  BY <1>4, <1>5

LEMMA PushMoves ==
  ASSUME TypeOK, FramesOK, NEW t \in Threads, PushSocket(t)
  PROVE  /\ frame'[t].sock = frame[t].sock /\ frame'[t].flagged = frame[t].flagged
         /\ \/ pc'[t] = "ensure" /\ frame'[t].rule = frame[t].rule + 1
            \/ pc'[t] = "bump" /\ frame'[t] = frame[t]
         /\ Sock(t) \in pool'[Rule(t)]
         /\ \A r \in Rules : /\ pool[r] \subseteq pool'[r]
                             /\ pool'[r] \subseteq pool[r] \cup {Sock(t)}
<1>1. Rule(t) \in Rules
  BY DEF PushSocket, FramesOK
<1>2. \/ pool' = pool /\ Sock(t) \in pool[Rule(t)]
      \/ pool' = [pool EXCEPT ![Rule(t)] = @ \cup {Sock(t)}]
  BY DEF PushSocket
<1>3. /\ Sock(t) \in pool'[Rule(t)]
      /\ \A r \in Rules : /\ pool[r] \subseteq pool'[r]
                          /\ pool'[r] \subseteq pool[r] \cup {Sock(t)}
  BY <1>1, <1>2 DEF TypeOK
<1> QED
  BY <1>3, NextRuleMoves, GotoMoves, LabelNames DEF PushSocket

-----------------------------------------------------------------------------
(* Until the thread that registers is done, "wild" keeps its rules. *)
LEMMA WildKept ==
  ASSUME [Next]_vars, \A t \in Threads : ~Unlock(t)
  PROVE  wild \subseteq wild'
<1>1. ASSUME NEW t \in Threads, EnsureEntry(t) PROVE wild \subseteq wild'
  BY <1>1 DEF EnsureEntry
<1> QED
  BY <1>1 DEF Next, HostDone, Host, Step, Admit, Dismiss, vars, past, OpenSocket, UseSocket,
     CloseSocket, AskRule, Decide, FindTracked, Lock, Prefiltered, CheckAgain, PushSocket,
     BumpCounter, RulesDone, BreakConnection, Decrement, RemoveSocket, BreakDone

(* Only the thread that registers raises a counter, and an entry appears      *)
(* with room or is wild.                                                     *)
LEMMA BelowKept ==
  ASSUME IInv, [Next]_vars, NEW r \in Counters, NEW a \in Addresses, Below(r, a),
         \A t \in Threads : BumpCounter(t) => ~(r = Rule(t) /\ a = Address(t))
  PROVE  Below(r, a)' \/ r \in wild'
<1> USE DEF IInv
<1>1. /\ r \in Rules /\ Kind[r] = "max-connections" /\ Amount[r] \in Int
      /\ count[r][a] \in Int \cup {None}
  BY RuleAssumption DEF Counters, TypeOK
<1>2. CASE count'[r][a] = count[r][a]
  BY <1>2 DEF Below
<1>3. CASE count'[r][a] # count[r][a]
  <2>1. PICK t \in Threads : Counting(t)
    BY <1>3, OthersDoNotCount
  <2>2. CASE EnsureEntry(t)
    <3>1. PICK n \in FirstValues(Rule(t)) :
            /\ count' = [count EXCEPT ![Rule(t)][Address(t)] = n]
            /\ wild' = IF AtLimit(n, Rule(t)) THEN wild \cup {Rule(t)} ELSE wild
      BY <1>3, <2>2 DEF EnsureEntry
    <3>2. r = Rule(t) /\ count'[r][a] = n
      BY <1>1, <1>3, <3>1 DEF TypeOK
    <3>3. n \in Int
      BY <3>1, RuleAssumption DEF FirstValues, NewCounters, NewStatistics
    <3>4. CASE AtLimit(n, r)
      BY <3>1, <3>2, <3>4
    <3>5. CASE ~AtLimit(n, r)
      BY <1>1, <3>2, <3>3, <3>5 DEF AtLimit, Below
    <3> QED
      BY <3>4, <3>5
  <2>3. CASE BumpCounter(t)
    BY <1>1, <1>3, <2>3, CounterMoves
  <2>4. CASE Decrement(t)
    <3>1. \/ count'[r][a] = None
          \/ count'[r][a] = count[r][a] - 1 /\ count[r][a] \in Int
      BY <1>1, <1>3, <2>4, CounterMoves
    <3>2. count[r][a] \in Int => count[r][a] # None
      BY RuleAssumption
    <3> QED
      BY <1>1, <3>1, <3>2 DEF Below
  <2> QED
    BY <2>1, <2>2, <2>3, <2>4 DEF Counting
<1> QED
  BY <1>2, <1>3

LEMMA AnswersStep == ASSUME RInv, [Next]_vars PROVE AnswersAgree'
<1> SUFFICES ASSUME NEW u \in Threads, NEW r \in Counters, LetPass(u, r)',
                    NEW a, a = AddressOf[ends'[frame'[u].sock]]
             PROVE  Below(r, a)' \/ r \in wild'
  BY DEF AnswersAgree, Counters, Below, Address, Sock
<1> USE LabelNames DEF RInv, CInv, IInv
<1>1. /\ r \in Rules /\ r \in Int /\ Kind[r] = "max-connections" /\ NRules \in Nat
      /\ r >= 1 /\ r <= NRules /\ Rule(u) \in Int
  BY RuleAssumption DEF Counters, Rules, Rule, TypeOK, Frames
<1> DEFINE Same == LetPass(u, r) /\ frame'[u].sock = Sock(u)
           Asked == /\ AskRule(u) /\ pc[u] = "prefilter" /\ r = Rule(u)
                    /\ frame'[u].sock = Sock(u) /\ ~frame'[u].flagged
<1>2. Same \/ Asked
  <2>1. CASE Host(u)
    <3>1. pc'[u] \in {"idle", "filter", "lock"}
      BY <2>1, EnterMoves DEF Host, OpenSocket, UseSocket, CloseSocket
    <3> QED
      BY <3>1 DEF LetPass
  <2>2. CASE AskRule(u)
    <3>1. /\ pc' = pc /\ frame'[u].sock = Sock(u) /\ frame'[u].rule = Rule(u) + 1
          /\ ~frame'[u].flagged => ~frame[u].flagged
      BY <2>2, AskMoves DEF Rule, Sock
    <3>2. pc[u] = "prefilter" /\ ~frame'[u].flagged /\ r < Rule(u) + 1
      BY <2>2, <3>1 DEF LetPass, AskRule, Rule
    <3>3. r < Rule(u) \/ r = Rule(u)
      BY <1>1, <3>2
    <3> QED
      BY <2>2, <3>1, <3>2, <3>3 DEF LetPass
  <2>3. CASE Decide(u) \/ FindTracked(u)
    BY <2>3, StartMoves, ReturnMoves DEF Decide, FindTracked, LetPass
  <2>4. CASE Lock(u)
    <3>1. pc'[u] = "prefilter" /\ frame'[u].rule = 1
      BY <1>1, <2>4, AdmitMoves
    <3> QED
      BY <1>1, <3>1 DEF LetPass, Rule
  <2>5. CASE Prefiltered(u)
    <3>1. \/ pc'[u] = "unlock"
          \/ pc'[u] = "ensure" /\ frame'[u].sock = frame[u].sock /\ ~frame[u].flagged
      BY <1>1, <2>5, AdmitMoves
    <3>2. pc[u] = "prefilter" /\ r < Rule(u)
      BY <1>1, <2>5 DEF Prefiltered
    <3> QED
      BY <3>1, <3>2 DEF LetPass, Sock
  <2>6. CASE EnsureEntry(u)
    <3>1. /\ frame'[u].sock = frame[u].sock /\ pc[u] = "ensure"
          /\ pc'[u] \in {"check", "ensure"}
          /\ frame'[u].rule = frame[u].rule \/ frame'[u].rule = frame[u].rule + 1
      BY <1>1, <2>6, AdmitMoves DEF EnsureEntry
    <3>2. r >= frame'[u].rule
      BY <3>1 DEF LetPass, Rule
    <3>3. r >= Rule(u)
      BY <1>1, <3>1, <3>2 DEF Rule
    <3> QED
      BY <3>1, <3>3 DEF LetPass, Sock
  <2>7. CASE CheckAgain(u)
    <3>1. /\ frame'[u].sock = frame[u].sock /\ pc[u] = "check"
          /\ \/ pc'[u] = "push" /\ frame'[u].rule = frame[u].rule
             \/ pc'[u] = "ensure" /\ frame'[u].rule = frame[u].rule + 1
      BY <2>7, CheckMoves DEF CheckAgain
    <3>2. r > frame'[u].rule \/ r >= frame[u].rule + 1
      BY <3>1 DEF LetPass, Rule
    <3>3. r >= Rule(u)
      BY <1>1, <3>1, <3>2 DEF Rule
    <3> QED
      BY <3>1, <3>3 DEF LetPass, Sock
  <2>8. CASE PushSocket(u) \/ BumpCounter(u)
    <3>1. /\ frame'[u].sock = frame[u].sock /\ pc[u] \in {"push", "bump"}
          /\ \/ pc'[u] = "bump" /\ frame'[u].rule = frame[u].rule
             \/ pc'[u] = "ensure" /\ frame'[u].rule = frame[u].rule + 1
      BY <1>1, <2>8, PushMoves, AdmitMoves DEF PushSocket, BumpCounter
    <3>2. r > frame[u].rule \/ r >= frame[u].rule + 1
      BY <3>1 DEF LetPass, Rule
    <3>3. r > Rule(u)
      BY <1>1, <3>2 DEF Rule
    <3> QED
      BY <3>1, <3>3 DEF LetPass, Sock
  <2>9. CASE RulesDone(u) \/ Unlock(u)
    BY <2>9, StartMoves, GotoMoves, ReturnMoves DEF RulesDone, Unlock, LetPass
  <2>10. CASE Dismiss(u)
    BY <2>10, GotoMoves, NextRuleMoves, ReturnMoves
       DEF Dismiss, BreakConnection, Decrement, RemoveSocket, BreakDone, LetPass
  <2>11. CASE pc'[u] = pc[u] /\ frame'[u] = frame[u]
    BY <2>11 DEF LetPass, Rule, Sock
  <2> QED
    BY <2>1, <2>2, <2>3, <2>4, <2>5, <2>6, <2>7, <2>8, <2>9, <2>10, <2>11, WhoMoves
       DEF Step, Admit
<1>3. a = Address(u) /\ a \in Addresses /\ Sock(u) \in Sockets
  <2>1. pc[u] # "idle" /\ frame'[u].sock = Sock(u)
    BY <1>2 DEF LetPass
  <2>2. Sock(u) \in Sockets /\ Sock(u) \notin fresh
    BY <2>1 DEF FramesOK, Settled
  <2>3. ends'[Sock(u)] = ends[Sock(u)] /\ ends[Sock(u)] \in Endpoints
    BY <2>2, EndsKept DEF TypeOK
  <2> QED
    BY <2>1, <2>2, <2>3, RuleAssumption DEF Address
<1>4. CASE Asked
  <2>1. PICK v \in Verdicts(r, Sock(u)) : frame'[u].flagged = (frame[u].flagged \/ v)
    BY <1>4, AskMoves
  <2>2. ~v
    BY <1>4, <2>1
  <2>3. count[r][a] # None => count[r][a] < Amount[r]
    BY <1>1, <1>3, <2>1, <2>2, VerdictMeaning DEF Address
  <2> QED
    BY <1>4, <2>3 DEF AskRule, Below
<1>5. CASE Same
  <2>1. Below(r, a) \/ r \in wild
    BY <1>3, <1>5 DEF AnswersAgree
  <2>2. ASSUME NEW t \in Threads, BumpCounter(t), r = Rule(t) PROVE FALSE
    <3>1. t = u
      BY <1>5, <2>2 DEF OneRegisters, Registering, BumpCounter, LetPass
    <3>2. pc'[u] = "ensure" /\ frame'[u].rule = Rule(u) + 1
      BY <1>1, <2>2, <3>1, AdmitMoves DEF Rule
    <3>3. r >= Rule(u) + 1
      BY <3>2 DEF LetPass, Rule
    <3> QED
      BY <1>1, <2>2, <3>1, <3>3
  <2>3. ASSUME NEW t \in Threads, Unlock(t) PROVE FALSE
    <3>1. t = u
      BY <1>5, <2>3 DEF OneRegisters, Registering, Unlock, LetPass
    <3>2. pc'[u] \in {"idle", "filter"}
      BY <2>3, <3>1, StartMoves, ReturnMoves DEF Unlock
    <3> QED
      BY <3>2 DEF LetPass
  <2> QED
    BY <1>3, <2>1, <2>2, <2>3, BelowKept, WildKept
<1> QED
  BY <1>2, <1>4, <1>5
-----------------------------------------------------------------------------
(* What becomes of the turn of a rule r in the call of a thread u. *)
LEMMA TakenInFirst ==
  ASSUME RInv, [Next]_vars, NEW u \in Threads, Host(u) \/ Step(u), NEW r \in Counters, TakenIn(u, r)'
  PROVE  \/ TakenIn(u, r) /\ frame'[u].sock = Sock(u)
         \/ PushSocket(u) /\ r = Rule(u) /\ frame'[u].sock = Sock(u)
         \/ r \in wild /\ CheckAgain(u)
<1> USE LabelNames DEF RInv, CInv, IInv
<1>1. /\ r \in Rules /\ r \in Int /\ Kind[r] = "max-connections" /\ NRules \in Nat
      /\ r >= 1 /\ r <= NRules /\ Rule(u) \in Int
  BY RuleAssumption DEF Counters, Rules, Rule, TypeOK, Frames
<1>2. /\ ends'[frame'[u].sock] \in Matching[r]
      /\ \/ pc'[u] = "unlock" /\ ~frame'[u].flagged
         \/ pc'[u] \in {"ensure", "check", "push", "bump"} /\ r < frame'[u].rule
         \/ pc'[u] = "bump" /\ r = frame'[u].rule
  BY DEF TakenIn, Rule, Sock, Matches
<1>b. frame'[u].sock = Sock(u) /\ pc[u] # "idle" => (Matches(r, Sock(u)) <=> ends'[Sock(u)] \in Matching[r])
  BY EndsKept DEF FramesOK, Settled, Matches
<1> DEFINE Good == \/ TakenIn(u, r) /\ frame'[u].sock = Sock(u)
                   \/ PushSocket(u) /\ r = Rule(u) /\ frame'[u].sock = Sock(u)
                   \/ r \in wild /\ CheckAgain(u)
<1>3. CASE Host(u)
  <2>1. pc'[u] \in {"idle", "filter", "lock"}
    BY <1>3, EnterMoves DEF Host, OpenSocket, UseSocket, CloseSocket
  <2> QED
    BY <1>2, <2>1
<1>4. CASE AskRule(u) \/ Decide(u) \/ FindTracked(u) \/ Lock(u)
  <2>1. pc'[u] \in {"idle", "filter", "prefilter", "break", "lock"}
    BY <1>4, AskMoves, StartMoves, ReturnMoves DEF AskRule, Decide, FindTracked, Lock
  <2> QED
    BY <1>2, <2>1
<1>5. CASE Prefiltered(u)
  <2>1. \/ pc'[u] = "unlock" /\ frame'[u] = frame[u] /\ frame[u].flagged
        \/ pc'[u] = "ensure" /\ frame'[u].rule = 1
    BY <1>1, <1>5, AdmitMoves
  <2> QED
    BY <1>1, <1>2, <2>1
<1>6. CASE EnsureEntry(u)
  <2>1. /\ frame'[u].sock = frame[u].sock /\ pc[u] = "ensure"
        /\ \/ pc'[u] = "check" /\ frame'[u] = frame[u]
           \/ /\ pc'[u] = "ensure" /\ frame'[u].rule = frame[u].rule + 1
              /\ ~Matches(Rule(u), Sock(u))
    BY <1>1, <1>6, AdmitMoves DEF EnsureEntry
  <2>2. r < frame[u].rule \/ (r = frame[u].rule /\ ~Matches(Rule(u), Sock(u)))
    BY <1>1, <1>2, <2>1 DEF Rule
  <2>3. r < Rule(u)
    BY <1>2, <1>b, <2>1, <2>2 DEF Rule, Sock
  <2> QED
    BY <1>2, <1>b, <2>1, <2>3 DEF TakenIn, Sock
<1>7. CASE CheckAgain(u)
  <2>1. /\ frame'[u].sock = frame[u].sock /\ pc[u] = "check"
        /\ \/ pc'[u] = "push" /\ frame'[u] = frame[u]
           \/ /\ pc'[u] = "ensure" /\ frame'[u].rule = frame[u].rule + 1
              /\ Kind[Rule(u)] = "max-connections" => ~Below(Rule(u), Address(u))
    BY <1>7, CheckMoves DEF CheckAgain
  <2>2. \/ r < frame[u].rule
        \/ r = frame[u].rule /\ ~Below(r, Address(u))
    BY <1>1, <1>2, <2>1 DEF Rule
  <2>3. r = Rule(u) => Below(r, Address(u)) \/ r \in wild
    BY <1>1, <2>1 DEF AnswersAgree, LetPass
  <2>4. r < Rule(u) \/ r \in wild
    BY <2>2, <2>3 DEF Rule
  <2> QED
    BY <1>2, <1>7, <1>b, <2>1, <2>4 DEF TakenIn, Sock
<1>8. CASE PushSocket(u)
  <2>1. /\ frame'[u].sock = frame[u].sock /\ pc[u] = "push"
        /\ \/ pc'[u] = "ensure" /\ frame'[u].rule = frame[u].rule + 1
           \/ pc'[u] = "bump" /\ frame'[u] = frame[u]
    BY <1>8, PushMoves DEF PushSocket
  <2>2. r < frame[u].rule \/ r = frame[u].rule
    BY <1>1, <1>2, <2>1 DEF Rule
  <2> QED
    BY <1>2, <1>b, <1>8, <2>1, <2>2 DEF TakenIn, Sock, Rule
<1>9. CASE BumpCounter(u)
  <2>1. /\ frame'[u].sock = frame[u].sock /\ pc[u] = "bump"
        /\ pc'[u] = "ensure" /\ frame'[u].rule = frame[u].rule + 1
    BY <1>1, <1>9, AdmitMoves DEF BumpCounter
  <2>2. r < frame[u].rule \/ r = frame[u].rule
    BY <1>1, <1>2, <2>1 DEF Rule
  <2> QED
    BY <1>2, <1>b, <2>1, <2>2 DEF TakenIn, Sock, Rule
<1>10. CASE RulesDone(u)
  <2>1. pc'[u] = "unlock" /\ frame'[u] = frame[u] /\ pc[u] = "ensure"
    BY <1>1, <1>10, AdmitMoves DEF RulesDone
  <2>2. r < Rule(u)
    BY <1>1, <1>10 DEF RulesDone
  <2> QED
    BY <1>2, <1>b, <2>1, <2>2 DEF TakenIn, Sock
<1>11. CASE Unlock(u) \/ Dismiss(u)
  <2>1. pc'[u] \in {"idle", "filter", "unregister", "remove"}
    BY <1>11, StartMoves, GotoMoves, NextRuleMoves, ReturnMoves
       DEF Unlock, Dismiss, BreakConnection, Decrement, RemoveSocket, BreakDone
  <2> QED
    BY <1>2, <2>1
<1> QED
  BY <1>3, <1>4, <1>5, <1>6, <1>7, <1>8, <1>9, <1>10, <1>11 DEF Step, Admit

(* A socket that is being registered stays in the pools it is in. *)
LEMMA PoolKept ==
  ASSUME CInv, [Next]_vars, NEW u \in Threads, NEW r \in Rules,
         pc[u] \in Registering, Sock(u) \in pool[r]
  PROVE  Sock(u) \in pool'[r]
<1> USE DEF CInv, IInv
<1>1. ASSUME NEW t \in Threads, PushSocket(t) PROVE Sock(u) \in pool'[r]
  BY <1>1, PushMoves
<1>2. ASSUME NEW t \in Threads, RemoveSocket(t) PROVE Sock(u) \in pool'[r]
  <2>1. pc[t] \in Dismissing /\ Rule(t) \in Rules
    BY <1>2 DEF RemoveSocket, Dismissing, FramesOK
  <2>2. Sock(u) # Sock(t)
    BY <2>1, Apart
  <2> QED
    BY <1>2, <2>1, <2>2 DEF RemoveSocket, TypeOK
<1>3. CASE pool' = pool
  BY <1>3
<1> QED
  BY <1>1, <1>2, <1>3
     DEF Next, HostDone, Host, Step, Admit, Dismiss, vars, OpenSocket, UseSocket,
         CloseSocket, AskRule, Decide, FindTracked, Lock, Prefiltered, EnsureEntry, CheckAgain,
         BumpCounter, RulesDone, Unlock, BreakConnection, Decrement, BreakDone

LEMMA TurnsStep == ASSUME RInv, [Next]_vars PROVE TurnsOK'
<1> USE LabelNames DEF RInv, CInv, IInv
<1>1. ASSUME NEW u \in Threads
      PROVE  pc'[u] \in {"ensure", "check", "push", "bump"} => ~frame'[u].flagged
  <2>1. /\ pc[u] \in {"ensure", "check", "push", "bump"} => ~frame[u].flagged
        /\ Rule(u) \in Int
    BY DEF TurnsOK, Rule, TypeOK, Frames
  <2>2. CASE Host(u)
    <3>1. pc'[u] \in {"idle", "filter", "lock"}
      BY <2>2, EnterMoves DEF Host, OpenSocket, UseSocket, CloseSocket
    <3> QED
      BY <3>1
  <2>3. CASE AskRule(u)
    BY <2>3, AskMoves DEF AskRule
  <2>4. CASE Decide(u) \/ FindTracked(u) \/ Lock(u)
    BY <2>4, StartMoves, ReturnMoves DEF Decide, FindTracked, Lock
  <2>5. CASE Prefiltered(u) \/ EnsureEntry(u) \/ BumpCounter(u) \/ RulesDone(u)
    <3>1. pc[u] \in {"prefilter", "ensure", "bump"}
      BY <2>5 DEF Prefiltered, EnsureEntry, BumpCounter, RulesDone
    <3>2. CASE Prefiltered(u)
      BY <2>1, <3>2, AdmitMoves
    <3>3. CASE EnsureEntry(u)
      <4>1. pc[u] = "ensure"
        BY <3>3 DEF EnsureEntry
      <4> QED
        BY <2>1, <3>3, <4>1, AdmitMoves
    <3>4. CASE BumpCounter(u)
      <4>1. pc[u] = "bump"
        BY <3>4 DEF BumpCounter
      <4> QED
        BY <2>1, <3>4, <4>1, AdmitMoves
    <3>5. CASE RulesDone(u)
      BY <2>1, <3>5, AdmitMoves
    <3> QED
      BY <2>5, <3>2, <3>3, <3>4, <3>5
  <2>6. CASE CheckAgain(u)
    <3>1. pc[u] = "check"
      BY <2>6 DEF CheckAgain
    <3> QED
      BY <2>1, <2>6, <3>1, CheckMoves
  <2>7. CASE PushSocket(u)
    <3>1. pc[u] = "push"
      BY <2>7 DEF PushSocket
    <3> QED
      BY <2>1, <2>7, <3>1, PushMoves
  <2>8. CASE Unlock(u) \/ Dismiss(u)
    <3>1. pc'[u] \in {"idle", "filter", "unregister", "remove"}
      BY <2>8, StartMoves, GotoMoves, NextRuleMoves, ReturnMoves
         DEF Unlock, Dismiss, BreakConnection, Decrement, RemoveSocket, BreakDone
    <3> QED
      BY <3>1
  <2>9. CASE pc'[u] = pc[u] /\ frame'[u] = frame[u]
    BY <2>1, <2>9
  <2> QED
    BY <2>2, <2>3, <2>4, <2>5, <2>6, <2>7, <2>8, <2>9, WhoMoves DEF Step, Admit
<1>2. ASSUME NEW u \in Threads, NEW r \in Counters, TakenIn(u, r)'
      PROVE  frame'[u].sock \in pool'[r] \/ r \in wild'
  <2>1. r \in Rules /\ pc'[u] \in {"unlock", "ensure", "check", "push", "bump"}
    BY <1>2 DEF Counters, TakenIn
  <2>2. ASSUME pc[u] \in Registering, NEW t \in Threads, Unlock(t) PROVE FALSE
    <3>1. t = u
      BY <2>2 DEF OneRegisters, Registering, Unlock
    <3>2. pc'[u] \in {"idle", "filter"}
      BY <2>2, <3>1, StartMoves, ReturnMoves DEF Unlock
    <3> QED
      BY <2>1, <3>2
  <2>3. CASE TakenIn(u, r) /\ frame'[u].sock = Sock(u)
    <3>1. pc[u] \in Registering /\ (Sock(u) \in pool[r] \/ r \in wild)
      BY <2>3 DEF TakenIn, Registering, TurnsOK
    <3> QED
      BY <2>1, <2>2, <2>3, <3>1, PoolKept, WildKept
  <2>4. CASE PushSocket(u) /\ r = Rule(u) /\ frame'[u].sock = Sock(u)
    BY <2>4, PushMoves
  <2>5. CASE r \in wild /\ CheckAgain(u)
    BY <2>2, <2>5, WildKept DEF CheckAgain, Registering
  <2>6. CASE pc'[u] = pc[u] /\ frame'[u] = frame[u]
    <3>1. Sock(u) \in Sockets /\ Sock(u) \notin fresh
      BY <2>1, <2>6 DEF FramesOK, Settled
    <3>2. ends'[Sock(u)] = ends[Sock(u)]
      BY <3>1, EndsKept
    <3>3. TakenIn(u, r) /\ frame'[u].sock = Sock(u)
      BY <1>2, <2>6, <3>2 DEF TakenIn, Rule, Sock, Matches
    <3> QED
      BY <2>3, <3>3
  <2> QED
    BY <1>2, <2>3, <2>4, <2>5, <2>6, WhoMoves, TakenInFirst
<1> QED
  BY <1>1, <1>2 DEF TurnsOK, Counters, Rule, Sock

(* A socket that Register did not pre-filter ends in the pool of every        *)
(* max-connections rule that matches it: the two questions Register puts to  *)
(* each rule get the same answer, however many connections other threads     *)
(* break in between.  The one exception is a rule that made its counter      *)
(* between the two, of a value at its amount or above.                       *)
THEOREM RegisterAnswersAgree == Spec => []RegisteredUnlessWild
<1>1. Init => AnswersAgree /\ TurnsOK
  BY DEF Init, AnswersAgree, LetPass, TurnsOK, TakenIn
<1>2. CInv /\ (AnswersAgree /\ TurnsOK) /\ [Next]_vars => (AnswersAgree /\ TurnsOK)'
  BY AnswersStep, TurnsStep DEF RInv
<1>3. CInv /\ (AnswersAgree /\ TurnsOK) => RegisteredUnlessWild
  BY DEF TurnsOK, TakenIn, RegisteredUnlessWild
<1> QED
  BY <1>1, <1>2, <1>3, CallsInvariant, PTL DEF Spec
=============================================================================
