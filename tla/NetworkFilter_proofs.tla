------------------------ MODULE NetworkFilter_proofs ------------------------
(***************************************************************************)
(* What TLAPS proves of NetworkFilter, for every list of rules, every set  *)
(* of threads and sockets and every value an uninitialised counter may     *)
(* hold: the shape of the state, and that no counter of a max-connections  *)
(* rule is raised at or above the configured amount.                       *)
(***************************************************************************)
EXTENDS NetworkFilter, TLAPS

(* The labels at which a thread is inside register_socket.                  *)
Registering == {"prefilter", "ensure", "check", "push", "bump", "unlock"}

(* register_socket runs under the framework's lock, one thread at a time.   *)
OneRegisters == \A t \in Threads : pc[t] \in Registering => mutex = t

(* A thread in a call is about a socket, and at a rule when it works on one. *)
FramesOK ==
  \A t \in Threads :
    /\ pc[t] # "idle" => Sock(t) \in Sockets
    /\ pc[t] \in {"check", "push", "bump", "remove"} => Rule(t) \in Rules

(* The answer of CheckAgain is still right when the counter is raised: in    *)
(* between other threads can only lower the counter or drop it, since        *)
(* raising and creating happen in register_socket alone.                     *)
AnswerStands ==
  \A t \in Threads :
    /\ pc[t] \in {"push", "bump"}
    /\ Kind[Rule(t)] = "max-connections"
    /\ count[Rule(t)][Address(t)] # None
    => count[Rule(t)][Address(t)] < Amount[Rule(t)]

(* No CSocket is made at an address that a call works with.                  *)
Settled ==
  /\ open \cap fresh = {}
  /\ \A t \in Threads : pc[t] # "idle" => Sock(t) \notin fresh

IInv == TypeOK /\ OneRegisters /\ FramesOK /\ Settled /\ AnswerStands

-----------------------------------------------------------------------------
(* Helpers of the actions *)

LEMMA FrameType ==
  ASSUME NEW h \in {"none", "open", "io"}, NEW s \in Sockets \cup {None},
         NEW r \in 1..(NRules + 1), NEW f \in BOOLEAN
  PROVE  FrameOf(h, s, r, f) \in Frames
  BY DEF FrameOf, Frames

LEMMA FirstRule == 1 \in 1..(NRules + 1)
  BY RuleAssumption

LEMMA StartType ==
  ASSUME TypeOK, NEW t \in Threads, NEW l \in Labels, Start(t, l)
  PROVE  pc' \in [Threads -> Labels] /\ frame' \in [Threads -> Frames]
<1>1. frame[t].hook \in {"none", "open", "io"} /\ frame[t].sock \in Sockets \cup {None}
  BY DEF TypeOK, Frames
<1>2. FrameOf(frame[t].hook, frame[t].sock, 1, FALSE) \in Frames
  BY <1>1, FirstRule, FrameType
<1> QED
  BY <1>2 DEF TypeOK, Start, Goto

LEMMA NextRuleType ==
  ASSUME TypeOK, NEW t \in Threads, NEW l \in Labels, Rule(t) \in Rules, NextRule(t, l)
  PROVE  pc' \in [Threads -> Labels] /\ frame' \in [Threads -> Frames]
<1>1. frame[t].rule + 1 \in 1..(NRules + 1)
  BY RuleAssumption DEF Rule, Rules
<1>2. [frame[t] EXCEPT !.rule = frame[t].rule + 1] \in Frames
  BY <1>1 DEF TypeOK, Frames
<1> QED
  BY <1>2 DEF TypeOK, NextRule, Goto

LEMMA ReturnType ==
  ASSUME TypeOK, NEW t \in Threads, Return(t)
  PROVE  pc' \in [Threads -> Labels] /\ frame' \in [Threads -> Frames]
<1>1. NoFrame \in Frames
  BY FrameType, FirstRule DEF NoFrame
<1> QED
  BY <1>1 DEF TypeOK, Return, Goto, Labels

LEMMA EnterType ==
  ASSUME TypeOK, NEW t \in Threads, NEW h \in {"none", "open", "io"},
         NEW s \in Sockets, NEW l \in Labels, Enter(t, h, s, l)
  PROVE  pc' \in [Threads -> Labels] /\ frame' \in [Threads -> Frames]
<1>1. FrameOf(h, s, 1, FALSE) \in Frames
  BY FrameType, FirstRule
<1> QED
  BY <1>1 DEF TypeOK, Enter, Goto

LEMMA GotoType ==
  ASSUME TypeOK, NEW t \in Threads, NEW l \in Labels, Goto(t, l)
  PROVE  pc' \in [Threads -> Labels]
  BY DEF TypeOK, Goto

LEMMA LabelNames ==
  \A l \in {"idle", "filter", "lock", "prefilter", "ensure", "check", "push", "bump",
            "unlock", "break", "unregister", "remove"} : l \in Labels
  BY DEF Labels

(* A rule answers with a Boolean, and a max-connections rule that lets a      *)
(* socket pass has a counter below its amount, or none.                      *)
LEMMA VerdictMeaning ==
  ASSUME TypeOK, NEW r \in Rules, NEW s \in Sockets, NEW v \in Verdicts(r, s)
  PROVE  /\ v \in BOOLEAN
         /\ Kind[r] = "max-connections" /\ ~v /\ count[r][AddressOf[ends[s]]] # None =>
              count[r][AddressOf[ends[s]]] < Amount[r]
<1> DEFINE n == count[r][AddressOf[ends[s]]]
<1>0. AddressOf[ends[s]] \in Addresses
  BY RuleAssumption DEF TypeOK
<1>1. Amount[r] \in Int /\ n \in Int \cup {None}
  BY <1>0, RuleAssumption DEF TypeOK
<1>2. AtLimit(n, r) \in BOOLEAN
  BY DEF AtLimit
<1>3. CASE Kind[r] = "max-connections" /\ n # None
  <2>1. Verdicts(r, s) = {AtLimit(n, r)}
    BY <1>3 DEF Verdicts, CountedVerdicts
  <2>2. v = AtLimit(n, r)
    BY <2>1
  <2>3. ~AtLimit(n, r) => n < Amount[r]
    BY <1>1, <1>3 DEF AtLimit
  <2> QED
    BY <1>2, <2>2, <2>3
<1>4. CASE ~(Kind[r] = "max-connections" /\ n # None)
  <2>1. Kind[r] \in Kinds
    BY RuleAssumption
  <2>2. Verdicts(r, s) \subseteq BOOLEAN
    BY <1>4, <2>1 DEF Verdicts, CountedVerdicts, MeasuredVerdicts, Kinds
  <2> QED
    BY <1>4, <2>2
<1> QED
  BY <1>3, <1>4

-----------------------------------------------------------------------------
LEMMA InitInvariant == Init => IInv
<1> SUFFICES ASSUME Init PROVE IInv
  OBVIOUS
<1>1. NoFrame \in Frames
  BY FrameType, FirstRule DEF NoFrame
<1>2. TypeOK
  BY <1>1, LabelNames, RuleAssumption DEF Init, TypeOK
<1>3. OneRegisters /\ FramesOK /\ Settled /\ AnswerStands
  BY DEF Init, OneRegisters, FramesOK, Settled, AnswerStands, Registering
<1> QED
  BY <1>2, <1>3 DEF IInv

(* Type correctness, one action at a time. *)
LEMMA TypeStep == TypeOK /\ FramesOK /\ [Next]_vars => TypeOK'
<1> SUFFICES ASSUME TypeOK, FramesOK, [Next]_vars PROVE TypeOK'
  OBVIOUS
<1> DEFINE Control == pc' \in [Threads -> Labels] /\ frame' \in [Threads -> Frames]
<1> USE LabelNames
<1>1. ASSUME NEW t \in Threads, OpenSocket(t) PROVE TypeOK'
  <2>1. PICK s \in fresh, e \in Endpoints :
          /\ Make(s, e)
          /\ \/ open' = open \cup {s} /\ Enter(t, "open", s, "filter")
             \/ open' = open \cup {s} /\ UNCHANGED <<pc, frame>>
             \/ e = Nowhere /\ Enter(t, "open", s, "filter") /\ UNCHANGED open
    BY <1>1 DEF OpenSocket
  <2>2. Control
    BY <2>1, EnterType DEF TypeOK
  <2>3. open' \subseteq Sockets /\ fresh' \subseteq Sockets /\ ends' \in [Sockets -> Endpoints]
    BY <2>1 DEF TypeOK, Make
  <2>4. first' \in [Rules -> [Addresses -> Int \cup {None}]]
    BY <2>1 DEF TypeOK, Make
  <2> QED
    BY <1>1, <2>2, <2>3, <2>4 DEF TypeOK, OpenSocket
<1>2. ASSUME NEW t \in Threads, UseSocket(t) PROVE TypeOK'
  <2>1. Control
    BY <1>2, EnterType DEF UseSocket, TypeOK
  <2> QED
    BY <1>2, <2>1 DEF TypeOK, UseSocket, past
<1>3. ASSUME NEW t \in Threads, CloseSocket(t) PROVE TypeOK'
  BY <1>3 DEF TypeOK, CloseSocket, Discard, past
<1>4. ASSUME NEW t \in Threads, AskRule(t) PROVE TypeOK'
  <2>1. Sock(t) \in Sockets /\ Rule(t) \in Rules /\ frame[t] \in Frames
    BY <1>4, RuleAssumption DEF AskRule, FramesOK, TypeOK, Frames, Rule, Rules
  <2>2. PICK v \in Verdicts(Rule(t), Sock(t)) :
          frame' = [frame EXCEPT ![t] =
                      FrameOf(@.hook, @.sock, @.rule + 1, @.flagged \/ v)]
    BY <1>4 DEF AskRule
  <2>3. frame[t].hook \in {"none", "open", "io"} /\ frame[t].sock \in Sockets \cup {None}
    BY <2>1 DEF Frames
  <2>4. frame[t].rule + 1 \in 1..(NRules + 1)
    BY <2>1, RuleAssumption DEF Rule, Rules
  <2>5. (frame[t].flagged \/ v) \in BOOLEAN
    OBVIOUS
  <2>6. FrameOf(frame[t].hook, frame[t].sock, frame[t].rule + 1, frame[t].flagged \/ v) \in Frames
    BY <2>3, <2>4, <2>5, FrameType
  <2>7. frame' \in [Threads -> Frames]
    BY <2>2, <2>6 DEF TypeOK
  <2> QED
    BY <1>4, <2>7 DEF TypeOK, AskRule, past
<1>5. ASSUME NEW t \in Threads, Decide(t) PROVE TypeOK'
  <2>1. Control
    BY <1>5, StartType, ReturnType DEF Decide
  <2> QED
    BY <1>5, <2>1 DEF TypeOK, Decide, past
<1>6. ASSUME NEW t \in Threads, FindTracked(t) PROVE TypeOK'
  <2>1. Control
    BY <1>6, StartType DEF FindTracked
  <2> QED
    BY <1>6, <2>1 DEF TypeOK, FindTracked, past
<1>7. ASSUME NEW t \in Threads, Lock(t) PROVE TypeOK'
  <2>1. Control
    BY <1>7, StartType DEF Lock
  <2> QED
    BY <1>7, <2>1 DEF TypeOK, Lock, Acquire, past
<1>8. ASSUME NEW t \in Threads, Prefiltered(t) PROVE TypeOK'
  <2>1. Control
    BY <1>8, StartType, GotoType DEF Prefiltered, TypeOK
  <2> QED
    BY <1>8, <2>1 DEF TypeOK, Prefiltered, past
<1>9. ASSUME NEW t \in Threads, EnsureEntry(t) PROVE TypeOK'
  <2>1. Sock(t) \in Sockets /\ Rule(t) \in Rules
    BY <1>9, RuleAssumption DEF EnsureEntry, FramesOK, TypeOK, Frames, Rule, Rules
  <2>2. Control
    BY <1>9, <2>1, NextRuleType, GotoType DEF EnsureEntry, TypeOK
  <2>3. \/ UNCHANGED <<count, wild, first>>
        \/ \E n \in Int : /\ count' = [count EXCEPT ![Rule(t)][Address(t)] = n]
                          /\ first' = [first EXCEPT ![Rule(t)][Address(t)] = n]
                          /\ wild' \in {wild, wild \cup {Rule(t)}}
    BY <1>9, RuleAssumption
      DEF EnsureEntry, FirstValues, NewCounters, NewStatistics
  <2>4. /\ count' \in [Rules -> [Addresses -> Int \cup {None}]]
        /\ first' \in [Rules -> [Addresses -> Int \cup {None}]]
        /\ wild' \subseteq Rules
    <3>1. Address(t) \in Addresses
      BY <2>1, RuleAssumption DEF Address, TypeOK
    <3>2. CASE UNCHANGED <<count, wild, first>>
      BY <3>2 DEF TypeOK
    <3>3. ASSUME NEW n \in Int, count' = [count EXCEPT ![Rule(t)][Address(t)] = n],
                 first' = [first EXCEPT ![Rule(t)][Address(t)] = n],
                 wild' \in {wild, wild \cup {Rule(t)}}
          PROVE  /\ count' \in [Rules -> [Addresses -> Int \cup {None}]]
                 /\ first' \in [Rules -> [Addresses -> Int \cup {None}]]
                 /\ wild' \subseteq Rules
      BY <2>1, <3>1, <3>3 DEF TypeOK
    <3> QED
      BY <2>3, <3>2, <3>3
  <2> QED
    BY <1>9, <2>2, <2>4 DEF TypeOK, EnsureEntry
<1>10. ASSUME NEW t \in Threads, CheckAgain(t) PROVE TypeOK'
  <2>1. Rule(t) \in Rules
    BY <1>10 DEF CheckAgain, FramesOK
  <2>2. Control
    BY <1>10, <2>1, NextRuleType, GotoType DEF CheckAgain, TypeOK
  <2> QED
    BY <1>10, <2>2 DEF TypeOK, CheckAgain, past
<1>11. ASSUME NEW t \in Threads, PushSocket(t) PROVE TypeOK'
  <2>1. Rule(t) \in Rules /\ Sock(t) \in Sockets
    BY <1>11 DEF PushSocket, FramesOK
  <2>2. Control
    BY <1>11, <2>1, NextRuleType, GotoType DEF PushSocket, TypeOK
  <2>3. pool' \in [Rules -> SUBSET Sockets]
    BY <1>11, <2>1 DEF PushSocket, TypeOK
  <2> QED
    BY <1>11, <2>2, <2>3 DEF TypeOK, PushSocket, past
<1>12. ASSUME NEW t \in Threads, BumpCounter(t) PROVE TypeOK'
  <2>1. Rule(t) \in Rules /\ Address(t) \in Addresses
    BY <1>12, RuleAssumption DEF BumpCounter, FramesOK, Address, TypeOK
  <2>2. Control
    BY <1>12, <2>1, NextRuleType DEF BumpCounter
  <2>3. count' \in [Rules -> [Addresses -> Int \cup {None}]]
    BY <1>12, <2>1 DEF BumpCounter, TypeOK
  <2> QED
    BY <1>12, <2>2, <2>3 DEF TypeOK, BumpCounter, past
<1>13. ASSUME NEW t \in Threads, RulesDone(t) PROVE TypeOK'
  BY <1>13, GotoType DEF TypeOK, RulesDone, past
<1>14. ASSUME NEW t \in Threads, Unlock(t) PROVE TypeOK'
  <2>1. Control
    BY <1>14, StartType, ReturnType DEF Unlock
  <2>2. Sock(t) \in Sockets
    BY <1>14 DEF Unlock, FramesOK
  <2> QED
    BY <1>14, <2>1, <2>2 DEF TypeOK, Unlock
<1>15. ASSUME NEW t \in Threads, BreakConnection(t) PROVE TypeOK'
  <2>1. pc' \in [Threads -> Labels]
    BY <1>15, GotoType DEF BreakConnection
  <2> QED
    BY <1>15, <2>1 DEF TypeOK, BreakConnection, Discard, past
<1>16. ASSUME NEW t \in Threads, Decrement(t) PROVE TypeOK'
  <2>1. Rule(t) \in Rules /\ Address(t) \in Addresses
    BY <1>16, RuleAssumption DEF Decrement, FramesOK, Address, TypeOK, Frames, Rule, Rules
  <2>2. /\ count' \in [Rules -> [Addresses -> Int \cup {None}]]
        /\ first' \in [Rules -> [Addresses -> Int \cup {None}]]
    <3>1. \/ UNCHANGED <<count, first>>
          \/ \E l \in Int \cup {None}, f \in Int \cup {None} :
               /\ count' = [count EXCEPT ![Rule(t)][Address(t)] = l]
               /\ first' = [first EXCEPT ![Rule(t)][Address(t)] = f]
      <4>1. /\ LessOne(count[Rule(t)][Address(t)]) \in Int \cup {None}
            /\ first[Rule(t)][Address(t)] \in Int \cup {None}
        BY <2>1 DEF LessOne, TypeOK
      <4> QED
        BY <1>16, <4>1 DEF Decrement
    <3> QED
      <4>1. CASE UNCHANGED <<count, first>>
        BY <4>1 DEF TypeOK
      <4>2. ASSUME NEW l \in Int \cup {None}, NEW f \in Int \cup {None},
                   count' = [count EXCEPT ![Rule(t)][Address(t)] = l],
                   first' = [first EXCEPT ![Rule(t)][Address(t)] = f]
            PROVE  /\ count' \in [Rules -> [Addresses -> Int \cup {None}]]
                   /\ first' \in [Rules -> [Addresses -> Int \cup {None}]]
        BY <2>1, <4>2 DEF TypeOK
      <4> QED
        BY <3>1, <4>1, <4>2
  <2> QED
    BY <1>16, <2>2, GotoType DEF TypeOK, Decrement
<1>17. ASSUME NEW t \in Threads, RemoveSocket(t) PROVE TypeOK'
  <2>1. Rule(t) \in Rules
    BY <1>17 DEF RemoveSocket, FramesOK
  <2>2. Control
    BY <1>17, <2>1, NextRuleType DEF RemoveSocket
  <2>3. pool' \in [Rules -> SUBSET Sockets]
    BY <1>17, <2>1 DEF RemoveSocket, TypeOK
  <2> QED
    BY <1>17, <2>2, <2>3 DEF TypeOK, RemoveSocket, past
<1>18. ASSUME NEW t \in Threads, BreakDone(t) PROVE TypeOK'
  <2>1. Control
    BY <1>18, ReturnType DEF BreakDone
  <2> QED
    BY <1>18, <2>1 DEF TypeOK, BreakDone, past
<1>19. CASE UNCHANGED vars
  BY <1>19 DEF TypeOK, vars
<1> QED
  BY <1>1, <1>2, <1>3, <1>4, <1>5, <1>6, <1>7, <1>8, <1>9, <1>10, <1>11, <1>12,
     <1>13, <1>14, <1>15, <1>16, <1>17, <1>18, <1>19
     DEF Next, HostDone, Host, Step, Admit, Dismiss

-----------------------------------------------------------------------------
(* register_socket excludes itself: only Lock enters it, with the lock free.  *)
LEMMA OneRegistersStep == TypeOK /\ OneRegisters /\ [Next]_vars => OneRegisters'
<1> SUFFICES ASSUME TypeOK, OneRegisters, [Next]_vars, NEW u \in Threads,
                    pc'[u] \in Registering
             PROVE  mutex' = u
  BY DEF OneRegisters
<1> USE RuleAssumption DEF TypeOK, OneRegisters, Registering, Goto
<1>1. ASSUME NEW t \in Threads, Host(t) PROVE mutex' = u
  BY <1>1 DEF Host, OpenSocket, UseSocket, CloseSocket, Enter
<1>2. ASSUME NEW t \in Threads, AskRule(t) \/ Decide(t) PROVE mutex' = u
  BY <1>2 DEF AskRule, Decide, Start, Return
<1>3. ASSUME NEW t \in Threads, FindTracked(t) PROVE mutex' = u
  BY <1>3 DEF FindTracked, Start
<1>4. ASSUME NEW t \in Threads, Lock(t) PROVE mutex' = u
  BY <1>4 DEF Lock, Acquire, Start
<1>5. ASSUME NEW t \in Threads, Prefiltered(t) \/ RulesDone(t) PROVE mutex' = u
  BY <1>5 DEF Prefiltered, RulesDone, Start
<1>6. ASSUME NEW t \in Threads, EnsureEntry(t) \/ CheckAgain(t) PROVE mutex' = u
  BY <1>6 DEF EnsureEntry, CheckAgain, NextRule
<1>7. ASSUME NEW t \in Threads, PushSocket(t) \/ BumpCounter(t) PROVE mutex' = u
  BY <1>7 DEF PushSocket, BumpCounter, NextRule
<1>8. ASSUME NEW t \in Threads, Unlock(t) PROVE mutex' = u
  BY <1>8 DEF Unlock, Start, Return
<1>9. ASSUME NEW t \in Threads, Dismiss(t) PROVE mutex' = u
  BY <1>9 DEF Dismiss, BreakConnection, Decrement, RemoveSocket, BreakDone, NextRule, Return
<1>10. CASE UNCHANGED vars
  BY <1>10 DEF vars
<1> QED
  BY <1>1, <1>2, <1>3, <1>4, <1>5, <1>6, <1>7, <1>8, <1>9, <1>10
     DEF Next, HostDone, Step, Admit

(* A thread keeps its socket until it returns, and stays at a rule while it   *)
(* works on it.                                                              *)
LEMMA FramesStep == TypeOK /\ FramesOK /\ [Next]_vars => FramesOK'
<1> SUFFICES ASSUME TypeOK, FramesOK, [Next]_vars, NEW u \in Threads
             PROVE  /\ pc'[u] # "idle" => frame'[u].sock \in Sockets
                    /\ pc'[u] \in {"check", "push", "bump", "remove"} => frame'[u].rule \in Rules
  BY DEF FramesOK, Sock, Rule
<1> DEFINE Good == /\ pc'[u] # "idle" => frame'[u].sock \in Sockets
                   /\ pc'[u] \in {"check", "push", "bump", "remove"} => frame'[u].rule \in Rules
<1> USE DEF TypeOK, FramesOK, Sock, Rule, Goto
<1>1. ASSUME NEW t \in Threads, Host(t) PROVE Good
  BY <1>1 DEF Host, OpenSocket, UseSocket, CloseSocket, Enter, FrameOf
<1>2. ASSUME NEW t \in Threads, AskRule(t) PROVE Good
  BY <1>2 DEF AskRule, FrameOf
<1>3. ASSUME NEW t \in Threads, Decide(t) \/ FindTracked(t) PROVE Good
  BY <1>3 DEF Decide, FindTracked, Start, Return, FrameOf
<1>4. ASSUME NEW t \in Threads, Lock(t) PROVE Good
  BY <1>4 DEF Lock, Start, FrameOf
<1>5. ASSUME NEW t \in Threads, Prefiltered(t) \/ RulesDone(t) PROVE Good
  BY <1>5 DEF Prefiltered, RulesDone, Start, FrameOf
<1>6. ASSUME NEW t \in Threads, NEW l \in Labels, NextRule(t, l), pc[t] # "idle",
             l \notin {"check", "push", "bump", "remove"}
      PROVE  Good
  BY <1>6 DEF NextRule, Frames
<1>7. ASSUME NEW t \in Threads, EnsureEntry(t) PROVE Good
  <2>1. frame[t].rule \in Rules
    BY <1>7, RuleAssumption DEF EnsureEntry, Frames, Rules
  <2> QED
    BY <1>6, <1>7, <2>1, LabelNames DEF EnsureEntry
<1>8. ASSUME NEW t \in Threads, CheckAgain(t) PROVE Good
  BY <1>6, <1>8, LabelNames DEF CheckAgain
<1>9. ASSUME NEW t \in Threads, PushSocket(t) \/ BumpCounter(t) PROVE Good
  BY <1>6, <1>9, LabelNames DEF PushSocket, BumpCounter
<1>10. ASSUME NEW t \in Threads, Unlock(t) PROVE Good
  BY <1>10 DEF Unlock, Start, Return, FrameOf
<1>11. ASSUME NEW t \in Threads, BreakConnection(t) PROVE Good
  BY <1>11 DEF BreakConnection
<1>12. ASSUME NEW t \in Threads, Decrement(t) PROVE Good
  <2>1. frame[t].rule \in Rules
    BY <1>12, RuleAssumption DEF Decrement, Frames, Rules
  <2> QED
    BY <1>12, <2>1 DEF Decrement
<1>13. ASSUME NEW t \in Threads, RemoveSocket(t) PROVE Good
  BY <1>6, <1>13, LabelNames DEF RemoveSocket
<1>14. ASSUME NEW t \in Threads, BreakDone(t) PROVE Good
  BY <1>14 DEF BreakDone, Return
<1>15. CASE UNCHANGED vars
  BY <1>15 DEF vars
<1> QED
  BY <1>1, <1>2, <1>3, <1>4, <1>5, <1>7, <1>8, <1>9, <1>10, <1>11, <1>12, <1>13,
     <1>14, <1>15 DEF Next, HostDone, Step, Admit, Dismiss

LEMMA SettledStep == TypeOK /\ Settled /\ [Next]_vars => Settled'
<1> SUFFICES ASSUME TypeOK, Settled, [Next]_vars PROVE Settled'
  OBVIOUS
<1> USE LabelNames DEF TypeOK, Goto
<1>1. ASSUME NEW t \in Threads, OpenSocket(t) PROVE Settled'
  <2>1. PICK s \in fresh : /\ fresh' = fresh \ {s} /\ open' \subseteq open \cup {s}
                           /\ Enter(t, "open", s, "filter") \/ UNCHANGED <<pc, frame>>
    BY <1>1 DEF OpenSocket, Make
  <2>2. \A u \in Threads : pc'[u] # "idle" =>
          frame'[u].sock = s \/ (pc[u] # "idle" /\ frame'[u] = frame[u])
    BY <2>1 DEF Enter, FrameOf
  <2> QED
    BY <2>1, <2>2 DEF Settled, Sock
<1>2. ASSUME NEW t \in Threads, UseSocket(t) PROVE Settled'
  BY <1>2 DEF UseSocket, Settled, Sock, Enter, FrameOf
<1>3. ASSUME NEW S, Discard(S), \A s \in S : ~InFlight(s), UNCHANGED frame,
             \A u \in Threads : pc'[u] # "idle" => pc[u] # "idle"
      PROVE  Settled'
  BY <1>3 DEF Discard, InFlight, Settled, Sock
<1>4. ASSUME NEW t \in Threads, CloseSocket(t) PROVE Settled'
  BY <1>3, <1>4 DEF CloseSocket
<1>5. ASSUME NEW t \in Threads, BreakConnection(t) PROVE Settled'
  <2>1. PICK S : Discard(S) /\ \A s \in S : ~InFlight(s)
    BY <1>5 DEF BreakConnection
  <2>2. UNCHANGED frame /\ \A u \in Threads : pc'[u] # "idle" => pc[u] # "idle"
    BY <1>5 DEF BreakConnection
  <2> QED
    BY <1>3, <2>1, <2>2
(* A step of a call, which neither makes nor deletes a CSocket. *)
<1>6. ASSUME NEW t \in Threads, UNCHANGED <<open, fresh>>, pc[t] # "idle",
             \A u \in Threads \ {t} : pc'[u] = pc[u] /\ frame'[u] = frame[u],
             pc'[t] = "idle" \/ frame'[t].sock = frame[t].sock
      PROVE  Settled'
  BY <1>6 DEF Settled, Sock
<1>7. ASSUME NEW t \in Threads, AskRule(t) \/ Decide(t) \/ FindTracked(t) \/ Lock(t)
      PROVE  Settled'
  <2>1. CASE AskRule(t)
    BY <1>6, <2>1 DEF AskRule, FrameOf
  <2>2. CASE Decide(t) \/ FindTracked(t) \/ Lock(t)
    BY <1>6, <2>2 DEF Decide, FindTracked, Lock, Start, Return, FrameOf
  <2> QED
    BY <1>7, <2>1, <2>2
<1>8. ASSUME NEW t \in Threads, Prefiltered(t) \/ RulesDone(t) \/ Unlock(t) PROVE Settled'
  BY <1>6, <1>8 DEF Prefiltered, RulesDone, Unlock, Start, Return, FrameOf
<1>9. ASSUME NEW t \in Threads, EnsureEntry(t) \/ CheckAgain(t) PROVE Settled'
  BY <1>6, <1>9 DEF EnsureEntry, CheckAgain, NextRule, Frames
<1>10. ASSUME NEW t \in Threads, PushSocket(t) \/ BumpCounter(t) PROVE Settled'
  BY <1>6, <1>10 DEF PushSocket, BumpCounter, NextRule, Frames
<1>11. ASSUME NEW t \in Threads, Decrement(t) \/ RemoveSocket(t) \/ BreakDone(t) PROVE Settled'
  BY <1>6, <1>11 DEF Decrement, RemoveSocket, BreakDone, NextRule, Return, Frames
<1>12. CASE UNCHANGED vars
  BY <1>12 DEF vars, Settled, Sock
<1> QED
  BY <1>1, <1>2, <1>4, <1>5, <1>7, <1>8, <1>9, <1>10, <1>11, <1>12
     DEF Next, HostDone, Host, Step, Admit, Dismiss

(* Only a CSocket that is made reads its endpoints. *)
LEMMA EndsKept ==
  ASSUME TypeOK, Settled, [Next]_vars
  PROVE  \A s \in Sockets : s \notin fresh => ends'[s] = ends[s]
<1>1. ASSUME NEW t \in Threads, OpenSocket(t)
      PROVE  \A s \in Sockets : s \notin fresh => ends'[s] = ends[s]
  <2>1. PICK s \in fresh, e \in Endpoints : ends' = [ends EXCEPT ![s] = e]
    BY <1>1 DEF OpenSocket, Make
  <2> QED
    BY <2>1 DEF TypeOK
<1>2. ASSUME NEW t \in Threads, Host(t) \/ Step(t), ~OpenSocket(t) PROVE ends' = ends
  BY <1>2 DEF Host, Step, Admit, Dismiss, UseSocket, CloseSocket, AskRule, Decide, FindTracked,
     Lock, Prefiltered, EnsureEntry, CheckAgain, PushSocket, BumpCounter, RulesDone, Unlock,
     BreakConnection, Decrement, RemoveSocket, BreakDone
<1> QED
  BY <1>1, <1>2 DEF Next, HostDone, vars

-----------------------------------------------------------------------------
(* The actions that touch no counter. *)
Counting(t) == EnsureEntry(t) \/ BumpCounter(t) \/ Decrement(t)

LEMMA OthersDoNotCount ==
  ASSUME [Next]_vars, \A t \in Threads : ~Counting(t)
  PROVE  count' = count
  BY DEF Counting, Next, HostDone, Host, Step, Admit, Dismiss, vars, OpenSocket, UseSocket,
     CloseSocket, AskRule, Decide, FindTracked, Lock, Prefiltered, CheckAgain, PushSocket,
     RulesDone, Unlock, BreakConnection, RemoveSocket, BreakDone

(* A counter that a step changes: it appears or is raised in register_socket, *)
(* otherwise it is dropped or lowered.                                       *)
LEMMA CounterMoves ==
  ASSUME TypeOK, FramesOK, NEW t \in Threads, NEW r \in Rules, NEW a \in Addresses
  PROVE  /\ EnsureEntry(t) => count'[r][a] = count[r][a] \/ count[r][a] = None
         /\ BumpCounter(t) =>
              \/ count'[r][a] = count[r][a]
              \/ /\ r = Rule(t) /\ a = Address(t)
                 /\ Kind[r] = "max-connections" /\ count[r][a] # None
         /\ Decrement(t) =>
              \/ count'[r][a] = count[r][a] \/ count'[r][a] = None
              \/ count'[r][a] = count[r][a] - 1 /\ count[r][a] \in Int
<1> USE DEF TypeOK
<1>1. ASSUME EnsureEntry(t)
      PROVE  count'[r][a] = count[r][a] \/ count[r][a] = None
  <2>1. CASE UNCHANGED count
    BY <2>1
  <2>2. ASSUME NEW n, count' = [count EXCEPT ![Rule(t)][Address(t)] = n],
               count[Rule(t)][Address(t)] = None
        PROVE  count'[r][a] = count[r][a] \/ count[r][a] = None
    BY <2>2
  <2> QED
    BY <1>1, <2>1, <2>2 DEF EnsureEntry
<1>2. ASSUME BumpCounter(t)
      PROVE  \/ count'[r][a] = count[r][a]
             \/ /\ r = Rule(t) /\ a = Address(t)
                /\ Kind[r] = "max-connections" /\ count[r][a] # None
  BY <1>2 DEF BumpCounter
<1>3. ASSUME Decrement(t)
      PROVE  \/ count'[r][a] = count[r][a] \/ count'[r][a] = None
             \/ count'[r][a] = count[r][a] - 1 /\ count[r][a] \in Int
  <2>1. \/ count' = count
        \/ count' = [count EXCEPT ![Rule(t)][Address(t)] = LessOne(@)]
    BY <1>3 DEF Decrement
  <2> QED
    BY <2>1 DEF LessOne
<1> QED
  BY <1>1, <1>2, <1>3

LEMMA AnswerStep == IInv /\ [Next]_vars => AnswerStands'
<1> SUFFICES ASSUME IInv, [Next]_vars, NEW u \in Threads,
                    pc'[u] \in {"push", "bump"},
                    Kind[frame'[u].rule] = "max-connections",
                    count'[frame'[u].rule][AddressOf[ends'[frame'[u].sock]]] # None
             PROVE  count'[frame'[u].rule][AddressOf[ends'[frame'[u].sock]]] < Amount[frame'[u].rule]
  BY DEF AnswerStands, Rule, Address, Sock
<1> DEFINE r == Rule(u)
           a == Address(u)
<1> USE DEF IInv
<1>1. CASE CheckAgain(u)
  <2>1. r \in Rules /\ Sock(u) \in Sockets /\ count' = count /\ ends' = ends
    BY <1>1 DEF CheckAgain, FramesOK
  <2>2. PICK v \in Verdicts(r, Sock(u)) :
          IF v THEN NextRule(u, "ensure") ELSE Goto(u, "push") /\ UNCHANGED frame
    BY <1>1 DEF CheckAgain
  <2>3. ~v /\ UNCHANGED frame
    BY <2>2 DEF NextRule, Goto, TypeOK
  <2> QED
    BY <2>1, <2>2, <2>3, VerdictMeaning DEF Rule, Sock
<1>2. CASE ~CheckAgain(u)
  <2> DEFINE Kept == pc[u] \in {"push", "bump"} /\ frame'[u] = frame[u]
  <2>1. Kept
    <3> USE DEF Goto, TypeOK
    <3>1. ASSUME NEW t \in Threads, Host(t) PROVE Kept
      BY <3>1 DEF Host, OpenSocket, UseSocket, CloseSocket, Enter
    <3>2. ASSUME NEW t \in Threads, AskRule(t) \/ Decide(t) \/ FindTracked(t) \/ Lock(t)
          PROVE  Kept
      BY <3>2 DEF AskRule, Decide, FindTracked, Lock, Start, Return
    <3>3. ASSUME NEW t \in Threads, Prefiltered(t) \/ RulesDone(t) \/ EnsureEntry(t)
          PROVE  Kept
      BY <3>3 DEF Prefiltered, RulesDone, EnsureEntry, Start, NextRule
    <3>4. ASSUME NEW t \in Threads, t # u, CheckAgain(t) PROVE Kept
      BY <3>4 DEF CheckAgain, NextRule
    <3>5. ASSUME NEW t \in Threads, PushSocket(t) \/ BumpCounter(t) PROVE Kept
      BY <3>5 DEF PushSocket, BumpCounter, NextRule
    <3>6. ASSUME NEW t \in Threads, Unlock(t) \/ Dismiss(t) PROVE Kept
      BY <3>6 DEF Unlock, Dismiss, BreakConnection, Decrement, RemoveSocket, BreakDone,
         Start, NextRule, Return
    <3>7. CASE UNCHANGED vars
      BY <3>7 DEF vars
    <3> QED
      BY <1>2, <3>1, <3>2, <3>3, <3>4, <3>5, <3>6, <3>7 DEF Next, HostDone, Step, Admit
  <2>2. /\ r \in Rules /\ a \in Addresses /\ Kind[r] = "max-connections"
        /\ Amount[r] \in Int /\ mutex = u /\ frame'[u].rule = r
        /\ AddressOf[ends'[frame'[u].sock]] = a
    <3>1. Sock(u) \in Sockets /\ Sock(u) \notin fresh /\ r \in Rules /\ mutex = u
      BY <2>1 DEF FramesOK, Settled, OneRegisters, Registering
    <3>2. ends'[Sock(u)] = ends[Sock(u)] /\ ends[Sock(u)] \in Endpoints
      BY <3>1, EndsKept DEF TypeOK
    <3> QED
      BY <2>1, <3>1, <3>2, RuleAssumption DEF Rule, Address, Sock
  <2>3. count[r][a] # None => count[r][a] < Amount[r]
    BY <2>1, <2>2 DEF AnswerStands
  <2>4. count[r][a] \in Int \cup {None}
    BY <2>2 DEF TypeOK
  <2>5. CASE count'[r][a] = count[r][a]
    BY <2>2, <2>3, <2>5
  <2>6. ASSUME NEW t \in Threads, EnsureEntry(t) \/ BumpCounter(t)
        PROVE  count'[r][a] = count[r][a]
    <3>1. t = u
      BY <2>2, <2>6 DEF OneRegisters, Registering, EnsureEntry, BumpCounter
    <3> QED
      BY <2>1, <2>6, <3>1 DEF EnsureEntry, BumpCounter, NextRule, Goto, TypeOK
  <2>7. ASSUME NEW t \in Threads, Decrement(t)
        PROVE  count'[r][a] < Amount[r]
    <3>1. count'[r][a] # None
      BY <2>2
    <3>2. \/ count'[r][a] = count[r][a]
          \/ count'[r][a] = count[r][a] - 1 /\ count[r][a] \in Int
      BY <2>2, <2>7, <3>1, CounterMoves
    <3>3. count[r][a] \in Int
      BY <2>4, <3>1, <3>2
    <3>4. count[r][a] < Amount[r]
      BY <2>3, <3>3, RuleAssumption
    <3> HIDE DEF r, a
    <3> QED
      BY <2>2, <3>2, <3>3, <3>4
  <2> QED
    BY <2>2, <2>5, <2>6, <2>7, OthersDoNotCount DEF Counting
<1> QED
  BY <1>1, <1>2

-----------------------------------------------------------------------------
LEMMA Invariance == Spec => []IInv
<1>1. IInv /\ [Next]_vars => IInv'
  BY TypeStep, OneRegistersStep, FramesStep, SettledStep, AnswerStep DEF IInv
<1> QED
  BY <1>1, InitInvariant, PTL DEF Spec

(* The state keeps its shape: TypeOK of the runs, for all constants. *)
THEOREM TypeCorrect == Spec => []TypeOK
<1>1. IInv => TypeOK
  BY DEF IInv
<1> QED
  BY <1>1, Invariance, PTL

(* A counter that a step raises was below the amount. *)
LEMMA RaiseStep ==
  ASSUME IInv, [Next]_vars, NEW r \in Counters, NEW a \in Addresses,
         count[r][a] # None, count'[r][a] # None, count'[r][a] > count[r][a]
  PROVE  count[r][a] < Amount[r]
<1> USE DEF IInv
<1>1. /\ r \in Rules /\ Kind[r] = "max-connections"
      /\ count[r][a] \in Int
  BY DEF Counters, TypeOK
<1>2. count'[r][a] # count[r][a]
  BY <1>1
<1>3. PICK t \in Threads : Counting(t)
  BY <1>2, OthersDoNotCount
<1>4. ~EnsureEntry(t)
  BY <1>1, <1>2, CounterMoves
<1>5. ~Decrement(t)
  BY <1>1, <1>2, CounterMoves
<1>6. BumpCounter(t)
  BY <1>3, <1>4, <1>5 DEF Counting
<1>7. r = Rule(t) /\ a = Address(t)
  BY <1>1, <1>2, <1>6, CounterMoves
<1> QED
  BY <1>1, <1>6, <1>7 DEF BumpCounter, AnswerStands

(* The check of CNetworkFilterRule::Register and the increment after it are   *)
(* two sections of the rule's mutex (CMaxConnectionsRule.cpp:24-32), yet the *)
(* counter is only raised while it is below the amount, because everything   *)
(* that raises or creates counters runs under the framework's lock.          *)
THEOREM LimitRespected == Spec => RaisedOnlyBelowLimit
<1> DEFINE P == \A r \in Counters, a \in Addresses :
                  count[r][a] # None /\ count'[r][a] # None /\ count'[r][a] > count[r][a]
                    => count[r][a] < Amount[r]
<1>1. IInv /\ [Next]_vars => [P]_vars
  BY RaiseStep
<1>2. Spec => [][P]_vars
  BY <1>1, Invariance, PTL DEF Spec
<1> QED
  BY <1>2 DEF RaisedOnlyBelowLimit
=============================================================================
