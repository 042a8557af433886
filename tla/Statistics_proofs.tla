-------------------------- MODULE Statistics_proofs --------------------------
(***************************************************************************)
(* What TLAPS proves of Statistics, for rings of any size, buckets of any  *)
(* length and results of any sign: the shape of the state, which sample    *)
(* runs, that spans do not overlap, and what a sample can claim.           *)
(***************************************************************************)
EXTENDS Statistics, TLAPS

(* No sample lies in the future, and one that does not run has ended.        *)
PastOnly ==
  \A i \in Ring :
    /\ samples[i].since <= now /\ samples[i].until <= now
    /\ ~samples[i].running => samples[i].since <= samples[i].until

(* The running sample began when all others had ended: a clock that goes on  *)
(* cannot make it overlap one of them.                                       *)
RunningIsLast ==
  \A i, j \in Ring :
    samples[i].running /\ i # j => samples[j].until <= samples[i].since

(* The switch is between two samples. *)
Switching == pc # "idle" => next # index

(* Claimed bytes, without the tick at the edge while it has carried nothing. *)
Carried(i) ==
  samples[i].value <= Chunk * (Span(i) + IF samples[i].running /\ ~heard THEN 0 ELSE 1)
CarriedAll == \A i \in Ring : Carried(i)

(* The inductive invariant *)
IInv == /\ TypeOK /\ CurrentRuns /\ SpansDisjoint
        /\ PastOnly /\ RunningIsLast /\ Switching /\ CarriedAll

-----------------------------------------------------------------------------
(* Helpers *)

(* computeIndex stays within the ring. *)
LEMMA BucketInRing == \A t \in Nat : Bucket(t) \in Ring
<1> SUFFICES ASSUME NEW t \in Nat PROVE Bucket(t) \in Ring
  OBVIOUS
<1>1. t \div Duration \in Int
  BY StatisticsAssumption
<1>2. \A n \in Int, m \in Nat \ {0} : n % m \in 0..(m - 1)
  BY SMT
<1> QED
  BY <1>1, <1>2, StatisticsAssumption DEF Bucket, Ring

(* Chunk bytes more in one tick more. *)
LEMMA OneTickMore ==
  \A n \in Int : /\ Chunk * (n + 1) = Chunk * n + Chunk
                 /\ n \in Nat => Chunk * n >= 0 /\ Chunk * n \in Nat
                 /\ Chunk * n \in Int
  BY StatisticsAssumption

-----------------------------------------------------------------------------
LEMMA InitInvariant == Init => IInv
<1> SUFFICES ASSUME Init PROVE IInv
  OBVIOUS
<1> USE StatisticsAssumption DEF Init, Unused, SampleOf
<1>1. TypeOK
  <2>1. now \in 0..Horizon /\ index \in Ring /\ next \in Ring /\ total \in Nat
    BY BucketInRing
  <2>2. samples \in [Ring -> Sample]
    BY DEF Sample
  <2> QED
    BY <2>1, <2>2, Zenon DEF TypeOK
<1>2. CurrentRuns /\ SpansDisjoint /\ PastOnly /\ RunningIsLast /\ Switching
  BY DEF CurrentRuns, SpansDisjoint, PastOnly, RunningIsLast, Switching, End
<1>3. CarriedAll
  BY OneTickMore DEF CarriedAll, Carried, Span, End
<1> QED
  BY <1>1, <1>2, <1>3 DEF IInv

-----------------------------------------------------------------------------
(* The clock moves. *)
LEMMA TickStep == IInv /\ Tick => IInv'
<1> SUFFICES ASSUME IInv, Tick PROVE IInv'
  OBVIOUS
<1> USE StatisticsAssumption DEF IInv, Tick, ring
<1>1. TypeOK'
  <2>1. now' \in 0..Horizon
    BY DEF TypeOK
  <2> QED
    BY <2>1, Zenon DEF TypeOK
<1>2. CurrentRuns' /\ Switching' /\ RunningIsLast'
  BY DEF CurrentRuns, Switching, RunningIsLast
<1>3. PastOnly'
  BY DEF PastOnly, TypeOK, Sample
<1>4. SpansDisjoint'
  BY DEF SpansDisjoint, RunningIsLast, CurrentRuns, End, TypeOK, Sample
<1>5. CarriedAll'
  <2> SUFFICES ASSUME NEW i \in Ring PROVE Carried(i)'
    BY DEF CarriedAll
  <2>1. Carried(i) /\ samples[i] \in Sample /\ samples' = samples /\ now' = now + 1
    BY DEF CarriedAll, TypeOK
  <2>2. CASE samples[i].running
    <3>1. Span(i) \in Nat /\ Span(i)' = Span(i) + 1 /\ heard' = FALSE
      BY <2>1, <2>2 DEF Span, End, PastOnly, TypeOK, Sample
    <3>2. samples[i].value <= Chunk * (Span(i) + 1)
      BY <2>1, <3>1, OneTickMore DEF Carried, Sample
    <3> QED
      BY <2>1, <2>2, <3>1, <3>2 DEF Carried, Sample
  <2>3. CASE ~samples[i].running
    BY <2>1, <2>3 DEF Carried, Span, End
  <2> QED
    BY <2>2, <2>3
<1> QED
  BY <1>1, <1>2, <1>3, <1>4, <1>5

-----------------------------------------------------------------------------
(* A value reaches the current sample, if that runs. *)
LEMMA AddStep == ASSUME IInv, NEW v \in Results, Add(v) PROVE IInv'
<1> USE StatisticsAssumption DEF IInv
<1>1. v \in Int /\ v <= Chunk /\ index \in Ring /\ now \in Nat
  BY DEF TypeOK
<1>2. /\ samples' = [samples EXCEPT ![index] = Added(@, v)]
      /\ now' = now /\ index' = index /\ pc = "idle" /\ heard = FALSE /\ heard' = TRUE
      /\ pc' = IF next' # index THEN "stop" ELSE "idle"
      /\ next' = Bucket(now)
  BY DEF Add
<1>3. ASSUME NEW i \in Ring
      PROVE  /\ samples'[i] \in Sample
             /\ samples'[i].running = samples[i].running
             /\ samples'[i].since = samples[i].since
             /\ samples'[i].until = samples[i].until
             /\ ~samples[i].running => samples'[i] = samples[i]
             /\ \/ samples'[i].value = samples[i].value
                \/ samples[i].running /\ samples'[i].value = samples[i].value + v
  <2>1. samples[i] \in Sample /\ samples[index] \in Sample
    BY <1>1 DEF TypeOK
  <2>2. samples'[i] = IF i = index THEN Added(samples[i], v) ELSE samples[i]
    BY <1>1, <1>2 DEF TypeOK
  <2>3. CASE samples'[i] = samples[i]
    BY <2>1, <2>3, Zenon
  <2>4. CASE samples[i].running
             /\ samples'[i] = SampleOf(TRUE, samples[i].value + v, samples[i].since,
                                      samples[i].until)
    BY <1>1, <2>1, <2>4 DEF SampleOf, Sample
  <2> QED
    BY <2>2, <2>3, <2>4 DEF Added
<1>4. ASSUME NEW i \in Ring PROVE End(i)' = End(i) /\ Span(i)' = Span(i)
  BY <1>2, <1>3 DEF End, Span
<1>5. TypeOK'
  <2>1. next' \in Ring
    BY <1>1, <1>2, BucketInRing
  <2>2. samples' \in [Ring -> Sample]
    BY <1>2, <1>3 DEF TypeOK
  <2>3. total' \in Nat
    BY <1>1 DEF Add, TypeOK
  <2> QED
    BY <1>2, <2>1, <2>2, <2>3, Zenon DEF TypeOK
<1>6. CurrentRuns'
  BY <1>1, <1>2, <1>3 DEF CurrentRuns, Unused
<1>7. SpansDisjoint' /\ PastOnly' /\ RunningIsLast'
  BY <1>2, <1>3, <1>4 DEF SpansDisjoint, PastOnly, RunningIsLast
<1>8. Switching'
  BY <1>2 DEF Switching
<1>9. CarriedAll'
  <2> SUFFICES ASSUME NEW i \in Ring PROVE Carried(i)'
    BY DEF CarriedAll
  <2>1. Span(i) \in Nat /\ samples[i].value \in Int /\ samples'[i].value \in Int
    BY <1>3 DEF Span, End, PastOnly, TypeOK, Sample
  <2>2. samples[i].value <= Chunk * (Span(i) + IF samples[i].running THEN 0 ELSE 1)
    BY <1>2 DEF CarriedAll, Carried
  <2>3. samples'[i].value <= Chunk * (Span(i) + 1)
    <3>1. CASE samples[i].running
      BY <1>1, <1>3, <2>1, <2>2, <3>1, OneTickMore
    <3>2. CASE ~samples[i].running
      BY <1>3, <2>2, <3>2
    <3> QED
      BY <3>1, <3>2
  <2> QED
    BY <1>2, <1>4, <2>3 DEF Carried
<1> QED
  BY <1>5, <1>6, <1>7, <1>8, <1>9

-----------------------------------------------------------------------------
(* The current sample stops now, or was never started.  In the latter case   *)
(* no other was, and all of them are empty.                                  *)
LEMMA StopStep == IInv /\ StopCurrent => IInv'
<1> SUFFICES ASSUME IInv, StopCurrent PROVE IInv'
  OBVIOUS
<1> USE StatisticsAssumption DEF IInv
<1>1. /\ samples' = [samples EXCEPT ![index] = Stopped(@)]
      /\ now' = now /\ index' = index /\ next' = next /\ heard' = heard
      /\ pc = "stop" /\ pc' = "start" /\ total' = total
  BY DEF StopCurrent
<1>2. now \in Nat /\ index \in Ring /\ samples \in [Ring -> Sample]
  BY DEF TypeOK
<1>3. /\ samples'[index].running = FALSE
      /\ samples'[index].value = samples[index].value
      /\ samples'[index].since = samples[index].since
      /\ samples'[index].until = now
      /\ samples'[index] \in Sample
  BY <1>1, <1>2 DEF Stopped, SampleOf, Sample
<1>4. \A i \in Ring \ {index} : samples'[i] = samples[i] /\ ~samples[i].running
  BY <1>1, <1>2 DEF CurrentRuns
<1>5. /\ End(index)' = now
      /\ \A i \in Ring \ {index} : End(i)' = End(i)
  BY <1>1, <1>2, <1>3, <1>4 DEF End
<1>6. samples[index].running \/ \A i \in Ring : samples[i] = Unused
  BY <1>1 DEF CurrentRuns
<1>7. TypeOK'
  <2>1. samples' \in [Ring -> Sample]
    BY <1>1, <1>2, <1>3
  <2> QED
    BY <1>1, <2>1, Zenon DEF TypeOK
<1>8. CurrentRuns' /\ Switching'
  BY <1>1, <1>3, <1>4 DEF CurrentRuns, Switching
<1>9. PastOnly' /\ RunningIsLast'
  BY <1>1, <1>2, <1>3, <1>4 DEF PastOnly, RunningIsLast, Sample
<1>10. SpansDisjoint'
  <2>1. CASE samples[index].running
    <3>1. End(index) = now
      BY <2>1 DEF End
    <3>2. ASSUME NEW i \in Ring
          PROVE  End(i)' = End(i) /\ samples'[i].since = samples[i].since
      <4>1. CASE i = index
        BY <1>1, <1>3, <1>5, <3>1, <4>1
      <4>2. CASE i # index
        BY <1>4, <1>5, <4>2
      <4> QED
        BY <4>1, <4>2
    <3> QED
      BY <3>2 DEF SpansDisjoint
  <2>2. CASE \A i \in Ring : samples[i] = Unused
    <3>1. /\ samples'[index].since = 0
          /\ \A i \in Ring \ {index} : End(i)' = 0 /\ samples'[i].since = 0
      BY <1>2, <1>3, <1>4, <1>5, <2>2 DEF Unused, SampleOf, End
    <3> QED
      BY <1>2, <3>1 DEF SpansDisjoint
  <2> QED
    BY <1>6, <2>1, <2>2
<1>11. CarriedAll'
  <2> SUFFICES ASSUME NEW i \in Ring PROVE Carried(i)'
    BY DEF CarriedAll
  <2>1. CASE i # index
    BY <1>1, <1>4, <1>5, <2>1 DEF CarriedAll, Carried, Span
  <2>2. CASE i = index
    <3>1. Span(i)' = now - samples[i].since /\ now - samples[i].since \in Nat
      <4>1. samples[i] \in Sample /\ samples[i].since <= now
        BY <1>2, <2>2 DEF PastOnly
      <4>2. Span(i)' = End(i)' - samples'[i].since
        BY DEF Span
      <4>3. End(i)' = now /\ samples'[i].since = samples[i].since
        BY <1>1, <1>3, <1>5, <2>2
      <4> QED
        BY <1>2, <4>1, <4>2, <4>3 DEF Sample
    <3>2. samples[i].value <= Chunk * (now - samples[i].since + 1)
      <4>1. CASE samples[i].running
        <5>1. Span(i) = now - samples[i].since
          BY <4>1 DEF Span, End
        <5>2. \/ samples[i].value <= Chunk * (now - samples[i].since)
              \/ samples[i].value <= Chunk * (now - samples[i].since + 1)
          BY <3>1, <4>1, <5>1 DEF CarriedAll, Carried
        <5> QED
          BY <1>2, <3>1, <5>2, OneTickMore DEF Sample
      <4>2. CASE \A j \in Ring : samples[j] = Unused
        <5>1. samples[i].value = 0
          BY <4>2 DEF Unused, SampleOf
        <5> QED
          BY <3>1, <5>1, OneTickMore
      <4> QED
        BY <1>6, <2>2, <4>1, <4>2
    <3> QED
      BY <1>3, <2>2, <3>1, <3>2 DEF Carried
  <2> QED
    BY <2>1, <2>2
<1> QED
  BY <1>7, <1>8, <1>9, <1>10, <1>11

-----------------------------------------------------------------------------
(* Another sample starts now, when all have ended. *)
LEMMA StartStep == IInv /\ StartNext => IInv'
<1> SUFFICES ASSUME IInv, StartNext PROVE IInv'
  OBVIOUS
<1> USE StatisticsAssumption DEF IInv
<1>1. /\ samples' = [samples EXCEPT ![next] = Started(@)]
      /\ now' = now /\ index' = next /\ next' = next /\ heard' = heard
      /\ pc = "start" /\ pc' = "idle" /\ total' = total
  BY DEF StartNext
<1>2. now \in Nat /\ next \in Ring /\ samples \in [Ring -> Sample]
  BY DEF TypeOK
<1>3. /\ samples'[next].running = TRUE
      /\ samples'[next].value = 0
      /\ samples'[next].since = now
      /\ samples'[next].until = samples[next].until
      /\ samples'[next] \in Sample
  BY <1>1, <1>2 DEF Started, SampleOf, Sample
<1>4. \A i \in Ring : ~samples[i].running
  BY <1>1 DEF CurrentRuns
<1>5. \A i \in Ring \ {next} : samples'[i] = samples[i]
  BY <1>1, <1>2
<1>6. ASSUME NEW i \in Ring, i # next
      PROVE  /\ ~samples'[i].running /\ samples'[i].since = samples[i].since
             /\ End(i)' = samples[i].until /\ End(i) = samples[i].until
  BY <1>4, <1>5, <1>6 DEF End
<1>7. ASSUME NEW i \in Ring, i = next
      PROVE  End(i)' = now
  BY <1>1, <1>3, <1>7 DEF End
<1>8. TypeOK'
  <2>1. samples' \in [Ring -> Sample]
    BY <1>1, <1>2, <1>3
  <2> QED
    BY <1>1, <1>2, <2>1, Zenon DEF TypeOK
<1>9. CurrentRuns' /\ Switching'
  BY <1>1, <1>3, <1>6 DEF CurrentRuns, Switching
<1>10. PastOnly'
  <2> SUFFICES ASSUME NEW i \in Ring
               PROVE  /\ samples'[i].since <= now /\ samples'[i].until <= now
                      /\ ~samples'[i].running => samples'[i].since <= samples'[i].until
    BY <1>1 DEF PastOnly
  <2>1. CASE i = next
    BY <1>2, <1>3, <2>1 DEF PastOnly, Sample
  <2>2. CASE i # next
    BY <1>4, <1>5, <2>2 DEF PastOnly
  <2> QED
    BY <2>1, <2>2
<1>11. RunningIsLast'
  <2> SUFFICES ASSUME NEW i \in Ring, NEW j \in Ring, samples'[i].running, i # j
               PROVE  samples'[j].until <= samples'[i].since
    BY DEF RunningIsLast
  <2>1. i = next /\ samples'[j] = samples[j]
    BY <1>5, <1>6
  <2> QED
    BY <1>3, <2>1 DEF PastOnly
<1>12. SpansDisjoint'
  <2> SUFFICES ASSUME NEW i \in Ring, NEW j \in Ring, i # j
               PROVE  End(i)' <= samples'[j].since \/ End(j)' <= samples'[i].since
    BY DEF SpansDisjoint
  <2>1. CASE i = next
    BY <1>3, <1>6, <2>1 DEF PastOnly
  <2>2. CASE j = next
    BY <1>3, <1>6, <2>2 DEF PastOnly
  <2>3. CASE i # next /\ j # next
    BY <1>6, <2>3 DEF SpansDisjoint
  <2> QED
    BY <2>1, <2>2, <2>3
<1>13. CarriedAll'
  <2> SUFFICES ASSUME NEW i \in Ring PROVE Carried(i)'
    BY DEF CarriedAll
  <2>1. CASE i # next
    BY <1>1, <1>4, <1>5, <1>6, <2>1 DEF CarriedAll, Carried, Span
  <2>2. CASE i = next
    <3>1. Span(i)' = 0 /\ samples'[i].value = 0
      BY <1>2, <1>3, <1>7, <2>2 DEF Span
    <3> QED
      BY <3>1, OneTickMore DEF Carried
  <2> QED
    BY <2>1, <2>2
<1> QED
  BY <1>8, <1>9, <1>10, <1>11, <1>12, <1>13

-----------------------------------------------------------------------------
LEMMA Invariance == Spec => []IInv
<1>1. IInv /\ UNCHANGED vars => IInv'
  BY DEF IInv, vars, TypeOK, CurrentRuns, SpansDisjoint, PastOnly, RunningIsLast,
     Switching, CarriedAll, Carried, Span, End
<1>2. IInv /\ [Next]_vars => IInv'
  BY <1>1, TickStep, AddStep, StopStep, StartStep DEF Next, ProcessBytes, Over
<1> QED
  BY <1>2, InitInvariant, PTL DEF Spec

(* The state keeps its shape: TypeOK of the runs, for all constants. *)
THEOREM TypeCorrect == Spec => []TypeOK
<1>1. IInv => TypeOK
  BY DEF IInv
<1> QED
  BY <1>1, Invariance, PTL

(* CStatistics::Add never leaves two samples running, nor, once one has been *)
(* started, none.                                                            *)
THEOREM OneSampleRuns == Spec => []CurrentRuns
<1>1. IInv => CurrentRuns
  BY DEF IInv
<1> QED
  BY <1>1, Invariance, PTL

(* The samples of the ring never cover the same time twice, though the clock *)
(* is read anew by computeIndex, Stop and Start.                             *)
THEOREM NoTimeTwice == Spec => []SpansDisjoint
<1>1. IInv => SpansDisjoint
  BY DEF IInv
<1> QED
  BY <1>1, Invariance, PTL

(* A sample claims no more than one tick beyond its span can carry. *)
THEOREM SamplesBounded == Spec => []NoSampleOverstates
<1>1. ASSUME IInv PROVE NoSampleOverstates
  <2> SUFFICES ASSUME NEW i \in Ring
               PROVE  samples[i].value <= Chunk * (Span(i) + 1)
    BY DEF NoSampleOverstates
  <2>1. Span(i) \in Nat /\ samples[i].value \in Int
    BY <1>1 DEF IInv, Span, End, PastOnly, TypeOK, Sample
  <2>2. \/ samples[i].value <= Chunk * Span(i)
        \/ samples[i].value <= Chunk * (Span(i) + 1)
    BY <1>1, <2>1 DEF IInv, CarriedAll, Carried
  <2> QED
    BY <2>1, <2>2, OneTickMore, StatisticsAssumption
<1> QED
  BY <1>1, Invariance, PTL

=============================================================================
