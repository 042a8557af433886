---------------------------- MODULE NetworkFilter ----------------------------
(***************************************************************************)
(* The rules and the calls the hooks make on them (CNetworkFilter,         *)
(* CNetworkFilterRule, CMaxConnectionsRule, with the rule-pool side of     *)
(* CNewConnectionRule, CMaxRecvRule and CMaxSendRule).                     *)
(*                                                                         *)
(* Every rule keeps a pool of the sockets registered with it; a            *)
(* max-connections rule also keeps a counter per remote address.  Each     *)
(* section under a rule's mutex is one action; between two of them any     *)
(* other thread may run.  _frameworkSyncRoot, held around Register and     *)
(* around nothing else, is "mutex".                                        *)
(*                                                                         *)
(* The hooks are seen from the rules' side: the order in which they call   *)
(* Filter, Register and Unregister is framework.cpp's, the table of        *)
(* sockets is the set "tracked".  The host closes a socket only when no    *)
(* call on it is in flight.  "wild" and "first" remember what the          *)
(* properties need of the past; no step depends on them.                   *)
(***************************************************************************)
EXTENDS Integers, FiniteSets

CONSTANTS
  Threads,   \* host threads
  Sockets,   \* CSocket objects, by address: each is made for a connection,
             \* and once deleted its address may serve another one (a bound)
  Endpoints, \* the pairs of endpoints a CSocket may read when it is made
  Nowhere,   \* the one of a handle without a connection, "::0"
  Addresses, \* remote addresses, ports left out
  AddressOf, \* endpoint_parse(remote endpoint).first
  IdSockets, \* those whose handle the CSocket id counter reaches
  NRules,    \* length of _rules
  Kind,      \* class of each rule
  Amount,    \* _amount of each max-connections rule
  Matching,  \* the endpoints each rule's source and target match
  Garbage,   \* values an INT32 made by "new INT32" may hold
  Floor,     \* no new call once a counter is below it (a bound)
  None       \* no entry; no owner

Rules == 1..NRules
Kinds == {"max-connections", "new-connection", "max-speed"}

ASSUME RuleAssumption ==
  /\ NRules \in Nat
  /\ IsFiniteSet(Sockets) /\ IdSockets \subseteq Sockets /\ None \notin Sockets
  /\ AddressOf \in [Endpoints -> Addresses]
  /\ Kind \in [Rules -> Kinds]
  /\ Amount \in [Rules -> Int]
  /\ Matching \in [Rules -> SUBSET Endpoints]
  /\ Garbage \subseteq Int /\ Garbage # {}
  /\ Floor \in Int
  /\ None \notin Int \cup Threads

VARIABLES
  count,    \* _endpoints of each rule: counter per address, None if absent
  pool,     \* _sockets of each rule (a vector without repetitions)
  open,     \* connections that are open
  fresh,    \* CSockets that a new connection may get
  ends,     \* the endpoints each CSocket read when it was made
  tracked,  \* sockets in the framework's table
  mutex,    \* owner of _frameworkSyncRoot
  pc,       \* where each thread is
  frame,    \* its locals: hook, socket, position in _rules, verdict so far
  wild,     \* rules whose counter the Register under way made of a value
            \* that is at the amount or above
  first     \* the value each counter was made of; None without a counter,
            \* or once another peer got a CSocket of the address's pool

past == <<wild, first>>
vars == <<count, pool, open, fresh, ends, tracked, mutex, pc, frame, wild, first>>

Labels == {"idle", "filter", "lock", "prefilter", "ensure", "check", "push",
           "bump", "unlock", "break", "unregister", "remove"}
Frames == [hook: {"none", "open", "io"}, sock: Sockets \cup {None},
           rule: 1..(NRules + 1), flagged: BOOLEAN]
FrameOf(h, s, r, f) == [hook |-> h, sock |-> s, rule |-> r, flagged |-> f]
NoFrame == FrameOf("none", None, 1, FALSE)

-----------------------------------------------------------------------------
(* Helpers *)

Rule(t)    == frame[t].rule
Sock(t)    == frame[t].sock
Address(t) == AddressOf[ends[Sock(t)]]
Matches(r, s) == ends[s] \in Matching[r]

Goto(t, l)  == pc' = [pc EXCEPT ![t] = l]
Enter(t, hook, s, l) ==
  /\ Goto(t, l)
  /\ frame' = [frame EXCEPT ![t] = FrameOf(hook, s, 1, FALSE)]

(* A slip: one before the first rule. *)
StartBeforeFirst(t, l) ==
  Goto(t, l) /\ frame' = [frame EXCEPT ![t] = FrameOf(@.hook, @.sock, 0, FALSE)]

(* Go to l, at the first rule, with no verdict yet. *)
Start(t, l) ==
  Goto(t, l) /\ frame' = [frame EXCEPT ![t] = FrameOf(@.hook, @.sock, 1, FALSE)]
NextRule(t, l) == Goto(t, l) /\ frame' = [frame EXCEPT ![t].rule = @ + 1]
Return(t)   == Goto(t, "idle") /\ frame' = [frame EXCEPT ![t] = NoFrame]

(* The comparison of CMaxConnectionsRule::Filter; the slip is one too many. *)
AboveLimit(n, r) == n > Amount[r]
AtLimit(n, r) == n >= Amount[r]

(* What (rule)->Filter(socket) may answer.  A max-connections or             *)
(* new-connection rule looks the address up and never asks Match; the        *)
(* answers that depend on measured traffic are any Boolean here.             *)
CountedVerdicts(n, r)  == IF n = None THEN {FALSE} ELSE {AtLimit(n, r)}
MeasuredVerdicts(n)    == IF n = None THEN {FALSE} ELSE BOOLEAN
Verdicts(r, s) ==
  LET n == count[r][AddressOf[ends[s]]] IN
  CASE Kind[r] = "max-connections" -> CountedVerdicts(n, r)
    [] Kind[r] = "new-connection"  -> MeasuredVerdicts(n)
    [] Kind[r] = "max-speed"       -> BOOLEAN

(* What an address without an entry gets.  The INT32 of a max-connections    *)
(* rule is not initialised; a statistics entry is just there.                *)
NewCounters   == Garbage
NewStatistics == {0}
FirstValues(r) == IF Kind[r] = "max-connections" THEN NewCounters ELSE NewStatistics

-----------------------------------------------------------------------------
Init ==
  /\ count = [r \in Rules |-> [a \in Addresses |-> None]]
  /\ pool = [r \in Rules |-> {}]
  /\ open \in SUBSET Sockets
  /\ fresh = Sockets \ open
  /\ ends \in [Sockets -> Endpoints]
  /\ tracked = {}
  /\ mutex = None
  /\ pc = [t \in Threads |-> "idle"]
  /\ frame = [t \in Threads |-> NoFrame]
  /\ wild = {}
  /\ first = [r \in Rules |-> [a \in Addresses |-> None]]

WithinFloor == \A r \in Rules, a \in Addresses :
                 count[r][a] # None => count[r][a] >= Floor

(* A CSocket is made at s and reads its endpoints, once.  A pool that still  *)
(* holds an old CSocket of that address holds the new one from now on.       *)
Make(s, e) ==
  LET old == AddressOf[ends[s]]
      lost(r, a) == s \in pool[r] /\ a = old /\ old # AddressOf[e] IN
  /\ fresh' = fresh \ {s}
  /\ ends' = [ends EXCEPT ![s] = e]
  /\ first' = [r \in Rules |-> [a \in Addresses |->
                 IF lost(r, a) THEN None ELSE first[r][a]]]

(* DetourAccept and DetourConnect, on a new connection: Filter comes first,  *)
(* unless connect has not finished yet (a non-blocking socket).  An accept   *)
(* that failed takes the same path with the endpoints of INVALID_SOCKET, and *)
(* the host never uses or closes what it registers.                          *)
OpenSocket(t) ==
  /\ pc[t] = "idle" /\ WithinFloor
  /\ \E s \in fresh, e \in Endpoints :
       /\ Make(s, e)
       /\ \/ open' = open \cup {s} /\ Enter(t, "open", s, "filter")
          \/ open' = open \cup {s} /\ UNCHANGED <<pc, frame>>
          \/ e = Nowhere /\ Enter(t, "open", s, "filter") /\ UNCHANGED open
  /\ UNCHANGED <<count, pool, tracked, mutex, wild>>

(* DetourRecv and DetourSend, once accept or connect has returned: the       *)
(* section comes first.                                                      *)
UseSocket(t) ==
  /\ pc[t] = "idle" /\ WithinFloor
  /\ \E s \in open :
       /\ \A u \in Threads : Sock(u) = s => frame[u].hook = "io"
       /\ Enter(t, "io", s, "lock")
  /\ UNCHANGED <<count, pool, open, fresh, ends, tracked, mutex, past>>

(* DetourCloseSocket: the entry goes and its CSocket is deleted; the rules   *)
(* are not told.                                                             *)
Discard(S) == /\ open' = open \ S
              /\ tracked' = tracked \ S
              /\ fresh' = fresh \cup (S \cap tracked)

InFlight(s) == \E t \in Threads : Sock(t) = s

CloseSocket(t) ==
  /\ pc[t] = "idle" /\ mutex = None
  /\ \E s \in open : ~InFlight(s) /\ Discard({s})
  /\ UNCHANGED <<count, pool, mutex, pc, frame, ends, past>>

-----------------------------------------------------------------------------
(* CNetworkFilter::Filter, and the same loop at the start of Register: every *)
(* rule is asked, none is skipped.                                           *)
AskRule(t) ==
  /\ pc[t] \in {"filter", "prefilter"} /\ Rule(t) <= NRules
  /\ \E v \in Verdicts(Rule(t), Sock(t)) :
       frame' = [frame EXCEPT ![t] =
                   FrameOf(@.hook, @.sock, @.rule + 1, @.flagged \/ v)]
  /\ UNCHANGED <<count, pool, open, fresh, ends, tracked, mutex, pc, past>>

(* The hook's decision on the verdict. *)
Decide(t) ==
  /\ pc[t] = "filter" /\ Rule(t) > NRules
  /\ \/ frame[t].flagged /\ Start(t, "break")
     \/ ~frame[t].flagged /\ frame[t].hook = "open" /\ Start(t, "lock")
     \/ ~frame[t].flagged /\ frame[t].hook = "io" /\ Return(t)
  /\ UNCHANGED <<count, pool, open, fresh, ends, tracked, mutex, past>>

-----------------------------------------------------------------------------
(* register_socket, under the framework's lock *)

(* The framework's lock; the slip forgets to wait for it. *)
AcquireUnguarded(t) == mutex' = t
Acquire(t) == mutex = None /\ mutex' = t

(* recv and send find their socket in the table ... *)
FindTracked(t) ==
  /\ pc[t] = "lock" /\ mutex = None
  /\ frame[t].hook = "io" /\ Sock(t) \in tracked
  /\ Start(t, "filter")
  /\ UNCHANGED <<count, pool, open, fresh, ends, tracked, mutex, past>>

(* ... or register it, as accept and connect do. *)
Lock(t) ==
  /\ pc[t] = "lock"
  /\ frame[t].hook = "io" => Sock(t) \notin tracked
  /\ Acquire(t)
  /\ Start(t, "prefilter")
  /\ UNCHANGED <<count, pool, open, fresh, ends, tracked, past>>

(* CNetworkFilter::Register goes on only when no rule objected. *)
Prefiltered(t) ==
  /\ pc[t] = "prefilter" /\ Rule(t) > NRules
  /\ IF frame[t].flagged THEN Goto(t, "unlock") /\ UNCHANGED frame
                         ELSE Start(t, "ensure")
  /\ UNCHANGED <<count, pool, open, fresh, ends, tracked, mutex, past>>

(* First section of CMaxConnectionsRule::Register and                        *)
(* CNewConnectionRule::Register: the address gets an entry.                  *)
EnsureEntry(t) ==
  /\ pc[t] = "ensure" /\ Rule(t) <= NRules
  /\ LET r == Rule(t) IN
       IF ~Matches(r, Sock(t))
       THEN NextRule(t, "ensure") /\ UNCHANGED <<count, wild, first>>
       ELSE /\ Goto(t, "check") /\ UNCHANGED frame
            /\ IF Kind[r] = "max-speed" \/ count[r][Address(t)] # None
               THEN UNCHANGED <<count, wild, first>>
               ELSE \E n \in FirstValues(r) :
                      /\ count' = [count EXCEPT ![r][Address(t)] = n]
                      /\ first' = [first EXCEPT ![r][Address(t)] = n]
                      /\ wild' = IF AtLimit(n, r) THEN wild \cup {r} ELSE wild
  /\ UNCHANGED <<pool, open, fresh, ends, tracked, mutex>>

(* CNetworkFilterRule::Register asks the rule's own Filter once more ... *)
CheckAgain(t) ==
  /\ pc[t] = "check"
  /\ \E v \in Verdicts(Rule(t), Sock(t)) :
       IF v THEN NextRule(t, "ensure") ELSE Goto(t, "push") /\ UNCHANGED frame
  /\ UNCHANGED <<count, pool, open, fresh, ends, tracked, mutex, past>>

(* ... and adds the socket to the pool unless it is there. *)
PushSocket(t) ==
  /\ pc[t] = "push"
  /\ LET r == Rule(t) IN
       IF Sock(t) \in pool[r]
       THEN NextRule(t, "ensure") /\ UNCHANGED pool
       ELSE /\ pool' = [pool EXCEPT ![r] = @ \cup {Sock(t)}]
            /\ IF Kind[r] = "max-speed"
               THEN NextRule(t, "ensure")
               ELSE Goto(t, "bump") /\ UNCHANGED frame
  /\ UNCHANGED <<count, open, fresh, ends, tracked, mutex, past>>

(* Last section of CMaxConnectionsRule::Register: one more, if the entry is  *)
(* still there.  The statistics of a new-connection rule are not followed.   *)
BumpCounter(t) ==
  /\ pc[t] = "bump"
  /\ LET r == Rule(t) IN
       count' = IF Kind[r] = "max-connections" /\ count[r][Address(t)] # None
                THEN [count EXCEPT ![r][Address(t)] = @ + 1]
                ELSE count
  /\ NextRule(t, "ensure")
  /\ UNCHANGED <<pool, open, fresh, ends, tracked, mutex, past>>

RulesDone(t) ==
  /\ pc[t] = "ensure" /\ Rule(t) > NRules
  /\ Goto(t, "unlock")
  /\ UNCHANGED <<count, pool, open, fresh, ends, tracked, mutex, frame, past>>

(* The socket is in the table whatever Register answered; recv and send go   *)
(* on to ask for a verdict.                                                  *)
Unlock(t) ==
  /\ pc[t] = "unlock"
  /\ mutex' = None
  /\ tracked' = tracked \cup {Sock(t)}
  /\ IF frame[t].hook = "open" THEN Return(t) ELSE Start(t, "filter")
  /\ wild' = {}
  /\ UNCHANGED <<count, pool, open, fresh, ends, first>>

-----------------------------------------------------------------------------
(* break_connection, without the framework's lock around the rules.  The     *)
(* closesocket in it is given Identifier() instead of the socket: it closes  *)
(* nothing, or the connection whose handle has that value.                   *)
BreakConnection(t) ==
  /\ pc[t] = "break" /\ mutex = None
  /\ \E S \in {{}} \cup {{s} : s \in open \cap IdSockets} :
       (\A s \in S : ~InFlight(s)) /\ Discard(S)
  /\ Goto(t, "unregister")
  /\ UNCHANGED <<count, pool, mutex, frame, ends, past>>

(* CMaxConnectionsRule::Unregister: one less for the address of the socket,  *)
(* matching or not, registered or not; an entry that reaches 0 is dropped.   *)
(* The slip is to leave the counter alone. *)
LessOneForgotten(n) == n
LessOne(n) == IF n = None THEN None ELSE IF n = 1 THEN None ELSE n - 1
Decrement(t) ==
  /\ pc[t] = "unregister" /\ Rule(t) <= NRules
  /\ LET r == Rule(t) IN
       IF Kind[r] = "max-connections"
       THEN /\ count' = [count EXCEPT ![r][Address(t)] = LessOne(@)]
            /\ first' = [first EXCEPT ![r][Address(t)] =
                           IF LessOne(count[r][Address(t)]) = None THEN None ELSE @]
       ELSE UNCHANGED <<count, first>>
  /\ Goto(t, "remove")
  /\ UNCHANGED <<pool, open, fresh, ends, tracked, mutex, frame, wild>>

(* CNetworkFilterRule::Unregister *)
RemoveSocket(t) ==
  /\ pc[t] = "remove"
  /\ LET r == Rule(t) IN
       pool' = [pool EXCEPT ![r] = IF Matches(r, Sock(t))
                                   THEN @ \ {Sock(t)} ELSE @]
  /\ NextRule(t, "unregister")
  /\ UNCHANGED <<count, open, fresh, ends, tracked, mutex, past>>

BreakDone(t) ==
  /\ pc[t] = "unregister" /\ Rule(t) > NRules
  /\ Return(t)
  /\ UNCHANGED <<count, pool, open, fresh, ends, tracked, mutex, past>>

-----------------------------------------------------------------------------
Host(t)     == OpenSocket(t) \/ UseSocket(t) \/ CloseSocket(t)
Admit(t)    == \/ Prefiltered(t) \/ EnsureEntry(t) \/ CheckAgain(t)
               \/ PushSocket(t) \/ BumpCounter(t) \/ RulesDone(t) \/ Unlock(t)
Dismiss(t)  == BreakConnection(t) \/ Decrement(t) \/ RemoveSocket(t) \/ BreakDone(t)
Step(t)     == \/ AskRule(t) \/ Decide(t) \/ FindTracked(t) \/ Lock(t)
               \/ Admit(t) \/ Dismiss(t)

(* The host makes no more calls. *)
HostDone == (\A t \in Threads : pc[t] = "idle") /\ UNCHANGED vars

Next == HostDone \/ \E t \in Threads : Host(t) \/ Step(t)

Spec == Init /\ [][Next]_vars

-----------------------------------------------------------------------------
(* Properties *)

Counters == {r \in Rules : Kind[r] = "max-connections"}
At(S, a) == {s \in S : AddressOf[ends[s]] = a}

(* Every variable keeps the shape the code gives it. *)
TypeOK ==
  /\ count \in [Rules -> [Addresses -> Int \cup {None}]]
  /\ pool \in [Rules -> SUBSET Sockets]
  /\ open \subseteq Sockets /\ fresh \subseteq Sockets /\ tracked \subseteq Sockets
  /\ ends \in [Sockets -> Endpoints]
  /\ mutex \in Threads \cup {None}
  /\ pc \in [Threads -> Labels]
  /\ frame \in [Threads -> Frames]
  /\ wild \subseteq Rules
  /\ first \in [Rules -> [Addresses -> Int \cup {None}]]

(* A max-connections counter is only raised while it is below the configured *)
(* amount, although the answer it is raised on was read in an earlier        *)
(* section of the rule's mutex and other threads may change it in between.   *)
(* A counter that starts at the amount or above is never raised at all.      *)
RaisedOnlyBelowLimit ==
  [][\A r \in Counters, a \in Addresses :
       count[r][a] # None /\ count'[r][a] # None /\ count'[r][a] > count[r][a]
         => count[r][a] < Amount[r]]_vars

(* "Returns true if the socket was registered (it was not pre-filtered)"     *)
(* (CNetworkFilter.h:23): Register asks every rule and then lets each rule   *)
(* ask itself again, while other threads subtract from the counters.  The    *)
(* second answer differs from the first for one reason only: the rule made   *)
(* a counter in between, of an uninitialised value at its amount or above.   *)
(* Otherwise a socket that was not pre-filtered is in the pool of every      *)
(* max-connections rule that matches it.                                     *)
RegisteredUnlessWild ==
  \A t \in Threads : pc[t] = "unlock" /\ ~frame[t].flagged =>
    \A r \in Counters : Matches(r, Sock(t)) => Sock(t) \in pool[r] \/ r \in wild

(* However Register and Unregister calls interleave they lose counts and     *)
(* never invent one: what was added to the uninitialised value a counter was *)
(* made of never exceeds the sockets of its address in the rule's pool.  A   *)
(* pool keeps the CSockets that DetourCloseSocket frees; only when the heap  *)
(* makes one of them again for another peer does the first peer's counter    *)
(* stand above its pool, so from then on that counter is left out.           *)
NeverOvercounts ==
  \A r \in Counters, a \in Addresses :
    count[r][a] # None /\ first[r][a] # None =>
      count[r][a] - first[r][a] <= Cardinality(At(pool[r], a))

(* "max-connections <local> <remote> <amount>" (network-filter.cfg:6): no    *)
(* more than amount of the connections a rule admitted are open at a time.   *)
(* A refused connection, which was never counted, is subtracted all the same *)
(* by Unregister, and its place is given to another one.                     *)
AdmittedWithinAmount ==
  \A r \in Counters, a \in Addresses :
    Cardinality(At(pool[r] \cap open, a)) <= Amount[r]

(* The same line: a connection that was admitted is not broken while there   *)
(* are no more than amount of them.  Filter compares with >= and is asked    *)
(* again on every recv and send, so the last one admitted breaks them.       *)
AdmittedNotBroken ==
  \A t \in Threads : pc[t] = "break" /\ frame[t].hook = "io" =>
    \E r \in Counters : Cardinality(At(pool[r], Address(t))) > Amount[r]

(* The same line: a connection is refused only when amount others are open.  *)
(* DetourCloseSocket does not tell the rules, so closed ones still count.    *)
RefusedOnlyAtLimit ==
  \A t \in Threads : pc[t] = "break" /\ frame[t].hook = "open" /\ Sock(t) \in open =>
    \E r \in Counters :
      Cardinality(At(open \ {Sock(t)}, Address(t))) >= Amount[r]
=============================================================================
