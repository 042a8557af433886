------------------------------ MODULE Statistics ------------------------------
(***************************************************************************)
(* The speed of a socket (CNanoStatistics, CStatistics, the speeds of      *)
(* CSocket and the verdict of CMaxRecvRule and CMaxSendRule).              *)
(*                                                                         *)
(* A CStatistics is a ring of samples, one of which runs.  Add gives a     *)
(* value to the current sample and, when the clock has left its bucket,    *)
(* stops it and starts another.  The caller holds a lock around Add, so    *)
(* nobody sees the ring half-way; the clock, however, is read three times  *)
(* and moves between the readings, by any number of buckets if the thread  *)
(* is preempted or the socket is idle.                                     *)
(*                                                                         *)
(* Time is counted in ticks from _start.                                   *)
(***************************************************************************)
EXTENDS Integers, Functions

CONSTANTS
  SampleCount, \* _sampleCount
  Duration,    \* _duration of a bucket, in ticks
  Second,      \* _second of a CSocket, in ticks
  Limit,       \* _amountLimit of the speed rule
  Results,     \* what recv or send may return: bytes, or SOCKET_ERROR
  Chunk,       \* the most bytes one call moves; one call a tick (a bound)
  Horizon      \* the last tick (a bound)

Ring == 0..(SampleCount - 1)

ASSUME StatisticsAssumption ==
  /\ SampleCount \in Nat \ {0} /\ Duration \in Nat \ {0} /\ Second \in Nat \ {0}
  /\ Limit \in Nat /\ Chunk \in Nat
  /\ Horizon \in Nat /\ Horizon >= Duration
  /\ Results \subseteq Int /\ \A v \in Results : v <= Chunk

VARIABLES
  now,     \* CLOCK::now()
  samples, \* _samples
  index,   \* _index
  pc,      \* where Add is
  next,    \* newIndex of the Add in progress
  heard,   \* a call has returned in this tick
  total    \* bytes moved since the socket is monitored

ring == <<samples, index, pc, next>>
vars == <<now, samples, index, pc, next, heard, total>>

(* The constructor leaves both time points at the epoch of the clock; only   *)
(* the difference of two time points of a sample is used, with the value 0   *)
(* as long as it has not been started, so the epoch is tick 0 here.          *)
Sample == [running: BOOLEAN, value: Int, since: Nat, until: Nat]
SampleOf(on, v, s, u) == [running |-> on, value |-> v, since |-> s, until |-> u]
Unused == SampleOf(FALSE, 0, 0, 0)

-----------------------------------------------------------------------------
(* CNanoStatistics *)

(* Slips: Start leaves the old value, or counts from the edge of the bucket; *)
(* Stop leaves the sample running; the index does not wrap round.            *)
StartedKeepsValue(s) == SampleOf(TRUE, s.value, now, s.until)
StartedAtEdge(s) == SampleOf(TRUE, 0, (now \div Duration) * Duration, s.until)
StoppedNot(s) == SampleOf(s.running, s.value, s.since, now)
BucketUnwrapped(t) == t \div Duration

Started(s) == SampleOf(TRUE, 0, now, s.until)
Stopped(s) == SampleOf(FALSE, s.value, s.since, now)
Added(s, v) == IF s.running THEN SampleOf(TRUE, s.value + v, s.since, s.until) ELSE s

End(i)  == IF samples[i].running THEN now ELSE samples[i].until
Span(i) == End(i) - samples[i].since

(* computeIndex *)
Bucket(t) == (t \div Duration) % SampleCount

-----------------------------------------------------------------------------
(* CStatistics *)

(* The clock may have moved when the constructor computes the first index.   *)
(* No sample is started there.                                               *)
Init ==
  /\ now \in 0..Duration
  /\ samples = [i \in Ring |-> Unused]
  /\ index = Bucket(now)
  /\ pc = "idle"
  /\ next = index
  /\ heard = FALSE
  /\ total = 0

Tick ==
  /\ now < Horizon
  /\ now' = now + 1
  /\ heard' = FALSE
  /\ UNCHANGED <<ring, total>>

(* Add, up to the switch. *)
Add(v) ==
  /\ pc = "idle" /\ ~heard
  /\ next' = Bucket(now)
  /\ samples' = [samples EXCEPT ![index] = Added(@, v)]
  /\ pc' = IF next' # index THEN "stop" ELSE "idle"
  /\ heard' = TRUE
  /\ total' = IF v > 0 THEN total + v ELSE total
  /\ UNCHANGED <<now, index>>

(* current.Stop(); *)
StopCurrent ==
  /\ pc = "stop"
  /\ samples' = [samples EXCEPT ![index] = Stopped(@)]
  /\ pc' = "start"
  /\ UNCHANGED <<now, index, next, heard, total>>

(* next.Start(); this->_index = newIndex; *)
StartNext ==
  /\ pc = "start"
  /\ samples' = [samples EXCEPT ![next] = Started(@)]
  /\ index' = next
  /\ pc' = "idle"
  /\ UNCHANGED <<now, next, heard, total>>

(* ProcessReceive or ProcessSend, with whatever the real call returned. *)
ProcessBytes == \E v \in Results : Add(v)

(* Time is up. *)
Over == now = Horizon /\ pc = "idle" /\ UNCHANGED vars

Next == Tick \/ ProcessBytes \/ StopCurrent \/ StartNext \/ Over

Spec == Init /\ [][Next]_vars

-----------------------------------------------------------------------------
(* Compute: the average, over all samples, of value per tick; a sample whose *)
(* span is empty counts as 0.  AverageDownloadSpeed multiplies it by the     *)
(* ticks of a second, and the rule compares it with its limit.  As fractions *)
(* over the product of the spans.                                            *)
Measured == {i \in Ring : Span(i) # 0}
Spans(S) == FoldFunctionOnSet(LAMBDA x, y : x * y, 1, [i \in Ring |-> Span(i)], S)

ComputeTimesSpans ==
  SumFunctionOnSet([i \in Ring |-> samples[i].value * Spans(Measured \ {i})], Measured)

AverageTimesSpans == ComputeTimesSpans * Second

Filter == AverageTimesSpans > Limit * SampleCount * Spans(Measured)

-----------------------------------------------------------------------------
(* Properties *)

(* Every variable keeps the shape the code gives it. *)
TypeOK ==
  /\ now \in 0..Horizon
  /\ samples \in [Ring -> Sample]
  /\ index \in Ring /\ next \in Ring
  /\ pc \in {"idle", "stop", "start"}
  /\ heard \in BOOLEAN
  /\ total \in Nat

(* Only the current sample ever runs, and once a first one has been started  *)
(* the current one runs whenever Add is not switching: from then on no value *)
(* is lost and none is added to two samples.                                 *)
CurrentRuns ==
  /\ \A i \in Ring : samples[i].running => i = index /\ pc # "start"
  /\ pc # "start" => samples[index].running \/ \A i \in Ring : samples[i] = Unused

(* The spans of two samples do not overlap, whatever the clock does between  *)
(* Stop and Start and however many buckets it jumps over: no stretch of time *)
(* is averaged twice.                                                        *)
SpansDisjoint ==
  \A i, j \in Ring :
    i # j => End(i) <= samples[j].since \/ End(j) <= samples[i].since

(* At a throughput of at most Chunk a tick, no sample claims more than its   *)
(* span can have carried, one tick more at the edge: a sample starts from    *)
(* nothing each time the ring comes round to it.                             *)
NoSampleOverstates ==
  \A i \in Ring : samples[i].value <= Chunk * (Span(i) + 1)

(* "max-recv-avg <local> <remote> <amount:speed>/s" (network-filter.cfg:7):  *)
(* a socket that has not moved, in all, the bytes the limit allows for one   *)
(* second is not over the limit.  Compute weighs a sample that was open for  *)
(* a moment as much as one that was open for its whole bucket.               *)
SpeedNotOverstated == pc = "idle" /\ Filter => total > Limit
=============================================================================
