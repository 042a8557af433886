--------------------------- MODULE LogFiles_proofs ---------------------------
(***************************************************************************)
(* What TLAPS proves of LogFiles for any number of threads: whatever a     *)
(* process does with its two files by way of CFile, the state keeps its    *)
(* shape and the log is made of whole lines.  Library_proofs shows that    *)
(* every step of Library is such a step, or a new start of the process.    *)
(***************************************************************************)
EXTENDS LogFiles, SequenceTheorems, FiniteSetTheorems, TLAPS

(* A thread that is in no AppendLine calls it; the log gets its own name.    *)
Call(t, o, x) ==
  /\ Quiet(t) /\ AppendLine(t, o, x)
  /\ IF o = "log" THEN x = t ELSE x \in Rows

(* What a step of the process may do to the files. *)
FileStep ==
  \/ EnsureFolder /\ UNCHANGED <<disk, streams, latch, line, said>>
  \/ (OpenLog \/ OpenReport) /\ UNCHANGED <<folder, latch, line, said>>
  \/ Close("report") /\ (\E t \in Threads : Call(t, "log", t)) /\ UNCHANGED <<folder, latch, said>>
  \/ (\E t \in Threads, o \in Objects, x \in Threads \cup Rows : Call(t, o, x))
       /\ UNCHANGED <<folder, disk, streams, latch, said>>
  \/ \E t \in Threads : WriteLine(t)
  \/ StreamsLost
  \/ UNCHANGED files

-----------------------------------------------------------------------------
(* The inductive invariant *)

(* A line of the log is the name of its thread. *)
LogTexts ==
  \A t \in Threads : line[t].step # "none" =>
    IF line[t].object = "log" THEN line[t].text = t ELSE line[t].text \in Rows

(* A good stream has a file. *)
GoodIsThere == \A o \in Objects : good[o] => disk[o] # Absent

(* Whoever is between the lock and the end of the section owns the mutex. *)
Holding(t, o) == line[t].step \in {"text", "endl"} /\ line[t].object = o
Exclusive == \A t \in Threads, o \in Objects : Holding(t, o) => latch[o] = t

(* The log's buffer is empty but for the text of a thread that has still to  *)
(* add the newline.                                                          *)
Ending(t) == line[t].step = "endl" /\ line[t].object = "log"
Buffered ==
  /\ \A t \in Threads : Ending(t) => buffer["log"] = IF good["log"] THEN <<t>> ELSE <<>>
  /\ (\A t \in Threads : ~Ending(t)) => buffer["log"] = <<>>

(* Text and newline in turn, up to a newline. *)
Paired(s) == /\ Len(s) % 2 = 0
             /\ \A i \in 1..Len(s) : (s[i] = Newline) <=> (i % 2 = 0)
LogPaired == disk["log"] # Absent => Paired(disk["log"])

FInv == FilesOK /\ LogTexts /\ GoodIsThere /\ Exclusive /\ Buffered /\ LogPaired

-----------------------------------------------------------------------------
(* Helpers *)

LEMMA EmptyPaired == Paired(<<>>)
  BY DEF Paired

(* One line more. *)
LEMMA PairedLine ==
  ASSUME NEW s \in Seq(Pieces), Paired(s), NEW t \in Threads
  PROVE  /\ s \o Append(<<t>>, Newline) \in Seq(Pieces)
         /\ Paired(s \o Append(<<t>>, Newline))
<1> DEFINE new == Append(<<t>>, Newline)
<1>1. /\ new \in Seq(Pieces) /\ Len(new) = 2 /\ new[1] = t /\ new[2] = Newline
  BY DEF Pieces
<1>2. /\ s \o new \in Seq(Pieces) /\ Len(s \o new) = Len(s) + 2
      /\ \A i \in 1..Len(s) : (s \o new)[i] = s[i]
      /\ (s \o new)[Len(s) + 1] = t /\ (s \o new)[Len(s) + 2] = Newline
  <2> HIDE DEF new
  <2>1. /\ s \o new \in Seq(Pieces) /\ Len(s \o new) = Len(s) + 2
        /\ \A i \in 1..(Len(s) + 2) :
             (s \o new)[i] = IF i <= Len(s) THEN s[i] ELSE new[i - Len(s)]
    <3>1. /\ s \o new \in Seq(Pieces) /\ Len(s \o new) = Len(s) + Len(new)
          /\ \A i \in 1..Len(s) + Len(new) :
               (s \o new)[i] = IF i <= Len(s) THEN s[i] ELSE new[i - Len(s)]
      BY <1>1, ConcatProperties
    <3> QED
      BY <1>1, <3>1
  <2>2. Len(s) \in Nat
    OBVIOUS
  <2>3. /\ \A i \in 1..Len(s) : (s \o new)[i] = s[i]
        /\ (s \o new)[Len(s) + 1] = new[1] /\ (s \o new)[Len(s) + 2] = new[2]
    BY <2>1, <2>2
  <2> QED
    BY <2>1, <2>3, <1>1
<1>3. t # Newline
  BY LogAssumption
<1>4. Len(s) \in Nat
  OBVIOUS
<1> HIDE DEF new
<1>5. Len(s \o new) % 2 = 0
  BY <1>2, <1>4 DEF Paired
<1>6. ASSUME NEW i \in 1..Len(s \o new) PROVE ((s \o new)[i] = Newline) <=> (i % 2 = 0)
  <2>1. CASE i \in 1..Len(s)
    BY <2>1, <1>2 DEF Paired
  <2>2. CASE i = Len(s) + 1
    <3>1. (Len(s) + 1) % 2 # 0
      BY <1>4 DEF Paired
    <3> QED
      BY <2>2, <3>1, <1>2, <1>3
  <2>3. CASE i = Len(s) + 2
    <3>1. (Len(s) + 2) % 2 = 0
      BY <1>4 DEF Paired
    <3> QED
      BY <2>3, <3>1, <1>2
  <2> QED
    BY <2>1, <2>2, <2>3, <1>2, <1>4
<1> QED
  BY <1>2, <1>5, <1>6 DEF Paired, new

(* Whatever is concatenated to it, a sequence stays a prefix. *)
LEMMA ConcatPrefix ==
  ASSUME NEW s \in Seq(Pieces), NEW r \in Seq(Pieces)
  PROVE  IsPrefix(s, s \o r)
<1>1. /\ s \o r \in Seq(Pieces) /\ Len(s \o r) = Len(s) + Len(r)
      /\ Len(s) \in Nat /\ Len(r) \in Nat
  OBVIOUS
<1>2. CASE s = <<>>
  BY <1>1, <1>2, SubSeqEmpty DEF IsPrefix
<1>3. CASE s # <<>>
  <2>1. Len(s) \in 1..Len(s)
    BY <1>1, <1>3, EmptySeq
  <2>2. SubSeq(s \o r, 1, Len(s)) = SubSeq(s, 1, Len(s))
    BY <1>1, <2>1, SubSeqOfConcat1, 1 \in 1..Len(s)
  <2> QED
    BY <1>1, <2>2 DEF IsPrefix
<1> QED
  BY <1>2, <1>3

LEMMA WholeSoFar == FInv => WholeLines
<1> SUFFICES ASSUME FInv, disk["log"] # Absent, NEW i \in DOMAIN disk["log"]
             PROVE  (disk["log"][i] = Newline) = (i % 2 = 0)
  BY DEF WholeLines
<1>1. disk["log"] \in Seq(Pieces)
  BY DEF FInv, FilesOK, Objects
<1>2. i \in 1..Len(disk["log"])
  BY <1>1
<1>3. (disk["log"][i] = Newline) <=> (i % 2 = 0)
  BY <1>2 DEF FInv, LogPaired, Paired
<1> QED
  BY <1>3

-----------------------------------------------------------------------------
LEMMA FilesInitInvariant == FilesInit => FInv
<1> SUFFICES ASSUME FilesInit PROVE FInv
  OBVIOUS
<1> USE DEF FilesInit, Closed, Unbuffered, Unlatched, NoLines, NoLine, LineOf
<1>1. FilesOK
  <2>1. NoLine \in [step: Steps, object: Objects, text: Threads \cup Rows \cup {NoText}]
    BY DEF Steps, Objects
  <2>2. line \in [Threads -> [step: Steps, object: Objects, text: Threads \cup Rows \cup {NoText}]]
    BY <2>1
  <2>3. <<>> \in Seq(Pieces)
    OBVIOUS
  <2> QED
    BY <2>2, <2>3 DEF FilesOK
<1>2. \A t \in Threads : line[t].step = "none"
  OBVIOUS
<1>3. LogTexts /\ GoodIsThere /\ Exclusive
  BY <1>2 DEF LogTexts, GoodIsThere, Exclusive, Holding
<1>4. Buffered /\ LogPaired
  BY <1>2 DEF Buffered, Ending, LogPaired, Objects
<1> QED
  BY <1>1, <1>3, <1>4 DEF FInv

-----------------------------------------------------------------------------
(* One lemma for each kind of step. *)

LEMMA KeepsEnsure ==
  FInv /\ EnsureFolder /\ UNCHANGED <<disk, streams, latch, line, said>> => FInv'
<1> SUFFICES ASSUME FInv, EnsureFolder, UNCHANGED <<disk, streams, latch, line, said>>
             PROVE  FInv'
  OBVIOUS
<1>1. FilesOK'
  BY DEF FInv, FilesOK, EnsureFolder, streams
<1>2. (LogTexts /\ GoodIsThere /\ Exclusive /\ Buffered /\ LogPaired)'
  BY DEF FInv, LogTexts, GoodIsThere, Exclusive, Holding, Buffered, Ending, LogPaired, Paired, streams
<1> QED
  BY <1>1, <1>2 DEF FInv

(* A file is opened while nobody is in a section of its CFile.               *)
LEMMA KeepsOpen ==
  ASSUME FInv, NEW o \in Objects,
         NEW contents \in Seq(Pieces),
         Open(o, contents), UNCHANGED <<folder, latch, line, said>>,
         o = "log" => contents = <<>> \/ contents = disk["log"]
  PROVE  FInv'
<1>1. CASE opened[o]
  <2>1. UNCHANGED <<disk, opened, good, buffer>>
    BY <1>1 DEF Open, streams
  <2> QED
    BY <2>1 DEF FInv, FilesOK, LogTexts, GoodIsThere, Exclusive, Holding, Buffered,
                Ending, LogPaired, Paired
<1>2. CASE ~opened[o]
  <2>1. PICK opens \in BOOLEAN :
          /\ latch[o] = Nobody
          /\ opened' = [opened EXCEPT ![o] = TRUE]
          /\ buffer' = [buffer EXCEPT ![o] = <<>>]
          /\ good' = [good EXCEPT ![o] = opens]
          /\ disk' = IF opens THEN [disk EXCEPT ![o] = contents] ELSE disk
    BY <1>2 DEF Open
  <2>2. <<>> \in Seq(Pieces)
    OBVIOUS
  <2>3. FilesOK'
    <3>1. disk' \in [Objects -> Seq(Pieces) \cup {Absent}]
      BY <2>1 DEF FInv, FilesOK
    <3>2. opened' \in [Objects -> BOOLEAN] /\ good' \in [Objects -> BOOLEAN]
      BY <2>1 DEF FInv, FilesOK
    <3>3. buffer' \in [Objects -> Seq(Pieces)]
      BY <2>1, <2>2 DEF FInv, FilesOK
    <3> QED
      BY <3>1, <3>2, <3>3 DEF FInv, FilesOK
  <2>4. LogTexts'
    BY DEF FInv, LogTexts
  <2>5. GoodIsThere'
    <3> SUFFICES ASSUME NEW p \in Objects, good'[p] PROVE disk'[p] # Absent
      BY DEF GoodIsThere
    <3>1. CASE p = o
      <4>1. disk'[p] = contents
        BY <3>1, <2>1 DEF FInv, FilesOK
      <4> QED
        BY <4>1, LogAssumption
    <3>2. CASE p # o
      BY <3>2, <2>1 DEF FInv, FilesOK, GoodIsThere
    <3> QED
      BY <3>1, <3>2
  <2>6. Exclusive'
    BY DEF FInv, Exclusive, Holding
  <2>7. Buffered'
    <3>1. CASE o = "log"
      <4>1. \A t \in Threads : ~Ending(t)
        BY <3>1, <2>1, LogAssumption DEF FInv, Exclusive, Holding, Ending
      <4>2. \A t \in Threads : ~Ending(t)'
        BY <4>1 DEF Ending
      <4>3. buffer'["log"] = <<>>
        BY <3>1, <2>1 DEF FInv, FilesOK
      <4> QED
        BY <4>2, <4>3 DEF Buffered
    <3>2. CASE o # "log"
      <4>1. buffer'["log"] = buffer["log"] /\ good'["log"] = good["log"]
        BY <3>2, <2>1 DEF FInv, FilesOK, Objects
      <4>2. \A t \in Threads : Ending(t)' <=> Ending(t)
        BY DEF Ending
      <4> QED
        BY <4>1, <4>2 DEF FInv, Buffered
    <3> QED
      BY <3>1, <3>2
  <2>8. LogPaired'
    <3> SUFFICES ASSUME disk'["log"] # Absent PROVE Paired(disk'["log"])
      BY DEF LogPaired, Paired
    <3>1. \/ disk'["log"] = disk["log"]
          \/ disk'["log"] = <<>>
      BY <2>1 DEF FInv, FilesOK, Objects
    <3> QED
      BY <3>1, EmptyPaired DEF FInv, LogPaired
  <2> QED
    BY <2>3, <2>4, <2>5, <2>6, <2>7, <2>8 DEF FInv
<1> QED
  BY <1>1, <1>2

(* A call to AppendLine, alone or after a Close.                             *)
LEMMA CalledLine ==
  ASSUME FInv, NEW t \in Threads, NEW o \in Objects, NEW x \in Threads \cup Rows,
         Call(t, o, x)
  PROVE  /\ line' \in [Threads -> [step: Steps, object: Objects, text: Threads \cup Rows \cup {NoText}]]
         /\ LogTexts'
         /\ \A u \in Threads, p \in Objects : Holding(u, p)' <=> Holding(u, p)
         /\ \A u \in Threads : Ending(u)' <=> Ending(u)
<1>1. /\ line' = [line EXCEPT ![t] = LineOf("lock", o, x)]
      /\ line[t].step = "none"
      /\ IF o = "log" THEN x = t ELSE x \in Rows
  BY DEF Call, AppendLine, Quiet
<1>2. LineOf("lock", o, x) \in [step: Steps, object: Objects, text: Threads \cup Rows \cup {NoText}]
  BY DEF LineOf, Steps
<1>3. line' \in [Threads -> [step: Steps, object: Objects, text: Threads \cup Rows \cup {NoText}]]
  BY <1>1, <1>2 DEF FInv, FilesOK
<1>4. /\ line'[t].step = "lock" /\ line'[t].object = o /\ line'[t].text = x
      /\ \A u \in Threads \ {t} : line'[u] = line[u]
  BY <1>1 DEF FInv, FilesOK, LineOf
<1>5. LogTexts'
  BY <1>1, <1>4 DEF FInv, LogTexts
<1>6. /\ \A u \in Threads, p \in Objects : Holding(u, p)' <=> Holding(u, p)
      /\ \A u \in Threads : Ending(u)' <=> Ending(u)
  BY <1>1, <1>4 DEF Holding, Ending
<1> QED
  BY <1>3, <1>5, <1>6

LEMMA KeepsCall ==
  ASSUME FInv, NEW t \in Threads, NEW o \in Objects, NEW x \in Threads \cup Rows,
         Call(t, o, x), UNCHANGED <<folder, disk, streams, latch, said>>
  PROVE  FInv'
<1> USE DEF streams
<1>1. FilesOK'
  BY CalledLine DEF FInv, FilesOK
<1>2. LogTexts'
  BY CalledLine
<1>3. GoodIsThere' /\ LogPaired'
  BY DEF FInv, GoodIsThere, LogPaired, Paired
<1>4. Exclusive'
  BY CalledLine DEF FInv, Exclusive
<1>5. Buffered'
  BY CalledLine DEF FInv, Buffered
<1> QED
  BY <1>1, <1>2, <1>3, <1>4, <1>5 DEF FInv

(* The report is closed and the log written to.                              *)
LEMMA KeepsClose ==
  ASSUME FInv, NEW t \in Threads, Call(t, "log", t), Close("report"),
         UNCHANGED <<folder, latch, said>>
  PROVE  FInv'
<1>1. /\ opened' = [opened EXCEPT !["report"] = FALSE]
      /\ disk' = IF good["report"] THEN [disk EXCEPT !["report"] = disk["report"] \o buffer["report"]] ELSE disk
      /\ buffer' = [buffer EXCEPT !["report"] = <<>>]
      /\ good' = good
  BY DEF Close, Flushed
<1>2. "log" \in Objects /\ "report" \in Objects /\ "log" # "report" /\ t \in Threads \cup Rows
  BY DEF Objects
<1>3. good["report"] => disk["report"] \in Seq(Pieces) /\ disk["report"] \o buffer["report"] \in Seq(Pieces)
  <2>1. good["report"] => disk["report"] \in Seq(Pieces)
    BY <1>2 DEF FInv, FilesOK, GoodIsThere
  <2>2. buffer["report"] \in Seq(Pieces)
    BY <1>2 DEF FInv, FilesOK
  <2> QED
    BY <2>1, <2>2, ConcatProperties
<1>4. disk' \in [Objects -> Seq(Pieces) \cup {Absent}]
  BY <1>1, <1>2, <1>3 DEF FInv, FilesOK
<1>5. /\ disk'["log"] = disk["log"] /\ buffer'["log"] = buffer["log"] /\ good'["log"] = good["log"]
  BY <1>1, <1>2 DEF FInv, FilesOK
<1>6. buffer' \in [Objects -> Seq(Pieces)]
  <2>1. <<>> \in Seq(Pieces)
    OBVIOUS
  <2> QED
    BY <1>1, <1>2, <2>1 DEF FInv, FilesOK
<1>7. opened' \in [Objects -> BOOLEAN]
  BY <1>1 DEF FInv, FilesOK
<1>8. FilesOK'
  BY <1>1, <1>2, <1>4, <1>6, <1>7, CalledLine DEF FInv, FilesOK
<1>9. LogTexts'
  BY <1>2, CalledLine
<1>10. GoodIsThere'
  <2>1. \A s \in Seq(Pieces) : s # Absent
    BY LogAssumption
  <2>2. Objects = {"log", "report"}
    BY DEF Objects
  <2>3. good["report"] => disk'["report"] # Absent
    BY <1>1, <1>2, <1>3, <2>1 DEF FInv, FilesOK
  <2> QED
    BY <1>1, <1>5, <2>2, <2>3 DEF FInv, GoodIsThere
<1>11. Exclusive'
  BY <1>2, CalledLine DEF FInv, Exclusive
<1>12. Buffered'
  BY <1>2, <1>5, CalledLine DEF FInv, Buffered
<1>13. LogPaired'
  BY <1>5 DEF FInv, LogPaired, Paired
<1> QED
  BY <1>8, <1>9, <1>10, <1>11, <1>12, <1>13 DEF FInv

(* The process ends.                                                         *)
LEMMA KeepsLost == FInv /\ StreamsLost => FInv'
<1> SUFFICES ASSUME FInv, StreamsLost PROVE FInv'
  OBVIOUS
<1> USE DEF StreamsLost, Closed, Unbuffered, Unlatched, NoLines, NoLine, LineOf
<1>1. line' \in [Threads -> [step: Steps, object: Objects, text: Threads \cup Rows \cup {NoText}]]
  <2>1. NoLine \in [step: Steps, object: Objects, text: Threads \cup Rows \cup {NoText}]
    BY DEF Steps, Objects
  <2> QED
    BY <2>1
<1>2. \A t \in Threads : line'[t].step = "none"
  OBVIOUS
<1>3. FilesOK'
  <2>1. <<>> \in Seq(Pieces)
    OBVIOUS
  <2> QED
    BY <1>1, <2>1 DEF FInv, FilesOK
<1>4. (LogTexts /\ GoodIsThere /\ Exclusive)'
  BY <1>2 DEF LogTexts, GoodIsThere, Exclusive, Holding
<1>5. Buffered'
  BY <1>2 DEF Buffered, Ending, Objects
<1>6. LogPaired'
  BY DEF FInv, LogPaired, Paired
<1> QED
  BY <1>3, <1>4, <1>5, <1>6 DEF FInv

(* The lock is taken, or the AppendLine of a file that is not open returns.  *)
LEMMA KeepsLockFile ==
  ASSUME FInv, NEW t \in Threads, LockFile(t)
  PROVE  FInv'
<1> DEFINE o == line[t].object
<1>1. o \in Objects /\ line[t].text \in Threads \cup Rows \cup {NoText}
  BY DEF FInv, FilesOK
<1>2. /\ line[t].step = "lock" /\ latch[o] = Nobody
      /\ UNCHANGED <<folder, disk, opened, good, buffer, said>>
  BY DEF LockFile, Latch, streams
<1>3. \/ /\ latch' = [latch EXCEPT ![o] = t]
         /\ line' = [line EXCEPT ![t] = LineOf("text", line[t].object, line[t].text)]
      \/ latch' = latch /\ line' = [line EXCEPT ![t] = NoLine]
  BY DEF LockFile, Latch, GoOn
<1> HIDE DEF o
<1>4. /\ latch' \in [Objects -> Threads \cup {Nobody}]
      /\ \A p \in Objects : p # o => latch'[p] = latch[p]
  <2>1. latch \in [Objects -> Threads \cup {Nobody}]
    BY DEF FInv, FilesOK
  <2>2. CASE latch' = latch
    BY <2>1, <2>2
  <2>3. CASE latch' = [latch EXCEPT ![o] = t]
    BY <2>1, <2>3
  <2> QED
    BY <1>3, <2>2, <2>3
<1>5. /\ \A u \in Threads : u # t => line'[u] = line[u]
      /\ \/ /\ line'[t] = LineOf("text", line[t].object, line[t].text)
            /\ latch'[o] = t
         \/ line'[t] = NoLine /\ latch' = latch
  BY <1>1, <1>3 DEF FInv, FilesOK
<1>6. line' \in [Threads -> [step: Steps, object: Objects, text: Threads \cup Rows \cup {NoText}]]
  <2>1. /\ NoLine \in [step: Steps, object: Objects, text: Threads \cup Rows \cup {NoText}]
        /\ LineOf("text", line[t].object, line[t].text) \in [step: Steps, object: Objects, text: Threads \cup Rows \cup {NoText}]
    BY <1>1 DEF NoLine, LineOf, Steps, Objects, o
  <2> QED
    BY <1>3, <2>1 DEF FInv, FilesOK
<1>7. FilesOK'
  BY <1>2, <1>4, <1>6 DEF FInv, FilesOK
<1>8. LogTexts'
  <2>1. \/ line'[t].step = "none"
        \/ line'[t].object = line[t].object /\ line'[t].text = line[t].text
    BY <1>5 DEF NoLine, LineOf
  <2> QED
    BY <1>2, <1>5, <2>1 DEF FInv, LogTexts
<1>9. GoodIsThere' /\ LogPaired'
  BY <1>2 DEF FInv, GoodIsThere, LogPaired, Paired
<1>10. Exclusive'
  <2> SUFFICES ASSUME NEW u \in Threads, NEW p \in Objects, Holding(u, p)' PROVE latch'[p] = u
    BY DEF Exclusive
  <2>1. CASE u = t
    <3>1. line'[t] = LineOf("text", line[t].object, line[t].text) /\ latch'[o] = t
      BY <1>5, <2>1 DEF Holding, NoLine, LineOf
    <3>2. p = o
      BY <2>1, <3>1 DEF Holding, LineOf, o
    <3> QED
      BY <2>1, <3>1, <3>2
  <2>2. CASE u # t
    <3>1. Holding(u, p)
      BY <1>5, <2>2 DEF Holding
    <3>2. latch[p] = u
      BY <3>1 DEF FInv, Exclusive
    <3>3. p # o
      BY <3>2, <1>2, LogAssumption
    <3> QED
      BY <1>4, <3>2, <3>3
  <2> QED
    BY <2>1, <2>2
<1>11. Buffered'
  <2>1. \A u \in Threads : Ending(u)' <=> Ending(u)
    BY <1>2, <1>5 DEF Ending, NoLine, LineOf
  <2> QED
    BY <1>2, <2>1 DEF FInv, Buffered
<1> QED
  BY <1>7, <1>8, <1>9, <1>10, <1>11 DEF FInv

(* What all the actions between the lock and its release do to line[t].      *)
LEMMA MovedOn ==
  ASSUME FInv, NEW t \in Threads, line[t].step # "none", GoOn(t, "endl")
  PROVE  /\ line' \in [Threads -> [step: Steps, object: Objects, text: Threads \cup Rows \cup {NoText}]]
         /\ LogTexts'
         /\ \A u \in Threads : u # t => line'[u] = line[u]
         /\ line'[t].step = "endl" /\ line'[t].object = line[t].object
<1>1. line[t].object \in Objects /\ line[t].text \in Threads \cup Rows \cup {NoText}
  BY DEF FInv, FilesOK
<1>2. LineOf("endl", line[t].object, line[t].text) \in [step: Steps, object: Objects, text: Threads \cup Rows \cup {NoText}]
  BY <1>1 DEF LineOf, Steps
<1>3. /\ line' \in [Threads -> [step: Steps, object: Objects, text: Threads \cup Rows \cup {NoText}]]
      /\ \A u \in Threads : u # t => line'[u] = line[u]
      /\ line'[t] = LineOf("endl", line[t].object, line[t].text)
  BY <1>2 DEF FInv, FilesOK, GoOn
<1>4. line'[t].step = "endl" /\ line'[t].object = line[t].object /\ line'[t].text = line[t].text
  BY <1>3 DEF LineOf
<1>5. LogTexts'
  BY <1>3, <1>4 DEF FInv, LogTexts
<1> QED
  BY <1>3, <1>4, <1>5

(* The text is put in the stream, by the owner of the mutex.                 *)
LEMMA KeepsPutText ==
  ASSUME FInv, NEW t \in Threads, PutText(t)
  PROVE  FInv'
<1> DEFINE o == line[t].object
<1>1. /\ line[t].step = "text" /\ GoOn(t, "endl")
      /\ UNCHANGED <<folder, disk, opened, good, latch, said>>
      /\ buffer' = IF good[o] THEN [buffer EXCEPT ![o] = Append(buffer[o], line[t].text)] ELSE buffer
  BY DEF PutText
<1>2. o \in Objects /\ buffer[o] \in Seq(Pieces)
  BY DEF FInv, FilesOK
<1>3. line[t].text \in Pieces
  BY <1>1 DEF FInv, LogTexts, Pieces
<1>4. Append(buffer[o], line[t].text) \in Seq(Pieces)
  BY <1>2, <1>3
<1>5. buffer' \in [Objects -> Seq(Pieces)]
  BY <1>1, <1>2, <1>4 DEF FInv, FilesOK
<1>6. /\ line' \in [Threads -> [step: Steps, object: Objects, text: Threads \cup Rows \cup {NoText}]]
      /\ LogTexts'
      /\ \A u \in Threads : u # t => line'[u] = line[u]
      /\ line'[t].step = "endl" /\ line'[t].object = o
  BY <1>1, MovedOn
<1>7. FilesOK'
  BY <1>1, <1>5, <1>6 DEF FInv, FilesOK
<1>8. GoodIsThere' /\ LogPaired'
  BY <1>1 DEF FInv, GoodIsThere, LogPaired, Paired
<1>9. Exclusive'
  <2>1. \A u \in Threads, p \in Objects : Holding(u, p)' <=> Holding(u, p)
    BY <1>1, <1>6 DEF Holding
  <2> QED
    BY <1>1, <2>1 DEF FInv, Exclusive
<1>10. Buffered'
  <2>1. CASE o = "log"
    <3>1. latch["log"] = t
      BY <1>1, <1>2, <2>1 DEF FInv, Exclusive, Holding
    <3>2. \A u \in Threads : ~Ending(u)
      BY <1>1, <1>2, <2>1, <3>1 DEF FInv, Exclusive, Holding, Ending
    <3>3. buffer["log"] = <<>>
      BY <3>2 DEF FInv, Buffered
    <3>4. line[t].text = t
      BY <1>1, <2>1 DEF FInv, LogTexts
    <3>5. buffer'["log"] = IF good["log"] THEN <<t>> ELSE <<>>
      <4>1. Append(<<>>, t) = <<t>>
        OBVIOUS
      <4> HIDE DEF o
      <4>2. CASE good["log"]
        <5>1. buffer'["log"] = Append(buffer["log"], line[t].text)
          BY <1>1, <1>2, <2>1, <4>2 DEF FInv, FilesOK
        <5> QED
          BY <4>1, <4>2, <5>1, <3>3, <3>4
      <4>3. CASE ~good["log"]
        BY <1>1, <2>1, <3>3, <4>3
      <4> QED
        BY <4>2, <4>3
    <3>6. \A u \in Threads : Ending(u)' <=> u = t
      BY <1>6, <2>1, <3>2 DEF Ending
    <3>7. good'["log"] = good["log"]
      BY <1>1
    <3> QED
      BY <3>5, <3>6, <3>7 DEF Buffered
  <2>2. CASE o # "log"
    <3>1. \A u \in Threads : Ending(u)' <=> Ending(u)
      BY <1>1, <1>6, <2>2 DEF Ending
    <3>2. buffer'["log"] = buffer["log"] /\ good' = good
      BY <1>1, <1>2, <2>2 DEF FInv, FilesOK, Objects
    <3> QED
      BY <3>1, <3>2 DEF FInv, Buffered
  <2> QED
    BY <2>1, <2>2
<1> QED
  BY <1>6, <1>7, <1>8, <1>9, <1>10 DEF FInv

(* What is written to the file by the end of a line.                         *)
LEMMA LineEnded ==
  ASSUME FInv, NEW t \in Threads, EndLine(t)
  PROVE  LET o == line[t].object IN
         /\ o \in Objects /\ latch[o] = t
         /\ disk' = IF good[o] THEN [disk EXCEPT ![o] = disk[o] \o Append(buffer[o], Newline)] ELSE disk
         /\ buffer' = [buffer EXCEPT ![o] = <<>>]
         /\ latch' = [latch EXCEPT ![o] = Nobody]
         /\ line' = [line EXCEPT ![t] = NoLine]
         /\ good[o] => /\ disk[o] \in Seq(Pieces) /\ Append(buffer[o], Newline) \in Seq(Pieces)
                       /\ disk[o] \o Append(buffer[o], Newline) \in Seq(Pieces)
         /\ o = "log" /\ good[o] => buffer[o] = <<t>>
<1> DEFINE o == line[t].object
<1>1. /\ line[t].step = "endl" /\ Endl(o) /\ Unlatch(o)
      /\ line' = [line EXCEPT ![t] = NoLine]
  BY DEF EndLine
<1>2. o \in Objects
  BY DEF FInv, FilesOK
<1>3. latch[o] = t
  BY <1>1, <1>2 DEF FInv, Exclusive, Holding
<1>4. good[o] => disk[o] \in Seq(Pieces)
  BY <1>2 DEF FInv, FilesOK, GoodIsThere
<1>5. buffer[o] \in Seq(Pieces) /\ Newline \in Pieces
  BY <1>2 DEF FInv, FilesOK, Pieces
<1>6. Append(buffer[o], Newline) \in Seq(Pieces)
  BY <1>5, AppendProperties
<1>7. good[o] => disk[o] \o Append(buffer[o], Newline) \in Seq(Pieces)
  BY <1>4, <1>6, ConcatProperties
<1>8. o = "log" /\ good[o] => buffer[o] = <<t>>
  BY <1>1 DEF FInv, Buffered, Ending
<1> QED
  BY <1>1, <1>2, <1>3, <1>4, <1>6, <1>7, <1>8 DEF Endl, Unlatch

LEMMA KeepsEndLine ==
  ASSUME FInv, NEW t \in Threads, EndLine(t)
  PROVE  FInv'
<1> DEFINE o == line[t].object
           new == disk[o] \o Append(buffer[o], Newline)
<1>1. /\ o \in Objects /\ latch[o] = t
      /\ disk' = IF good[o] THEN [disk EXCEPT ![o] = new] ELSE disk
      /\ buffer' = [buffer EXCEPT ![o] = <<>>]
      /\ latch' = [latch EXCEPT ![o] = Nobody]
      /\ line' = [line EXCEPT ![t] = NoLine]
      /\ good[o] => disk[o] \in Seq(Pieces) /\ new \in Seq(Pieces)
      /\ o = "log" /\ good[o] => buffer[o] = <<t>>
  BY LineEnded
<1>2. UNCHANGED <<folder, opened, good>>
  BY DEF EndLine
<1>3. said' = said \/ said' = [said EXCEPT ![t] = said[t] + 1]
  BY DEF EndLine
<1>4. o = "log" /\ good[o] => new = disk[o] \o Append(<<t>>, Newline)
  BY <1>1
<1> HIDE DEF o, new
<1>5. /\ line' \in [Threads -> [step: Steps, object: Objects, text: Threads \cup Rows \cup {NoText}]]
      /\ \A u \in Threads : u # t => line'[u] = line[u]
      /\ line'[t].step = "none"
  <2>1. NoLine \in [step: Steps, object: Objects, text: Threads \cup Rows \cup {NoText}]
    BY DEF NoLine, LineOf, Steps, Objects
  <2>2. NoLine.step = "none"
    BY DEF NoLine, LineOf
  <2> QED
    BY <1>1, <2>1, <2>2 DEF FInv, FilesOK
<1>6. disk' \in [Objects -> Seq(Pieces) \cup {Absent}]
  BY <1>1 DEF FInv, FilesOK
<1>7. buffer' \in [Objects -> Seq(Pieces)] /\ latch' \in [Objects -> Threads \cup {Nobody}]
  <2>1. <<>> \in Seq(Pieces)
    OBVIOUS
  <2> QED
    BY <1>1, <2>1 DEF FInv, FilesOK
<1>8. said' \in [Threads -> Nat]
  <2>1. said \in [Threads -> Nat]
    BY DEF FInv, FilesOK
  <2>2. CASE said' = said
    BY <2>1, <2>2
  <2>3. CASE said' = [said EXCEPT ![t] = said[t] + 1]
    BY <2>1, <2>3
  <2> QED
    BY <1>3, <2>2, <2>3
<1>9. FilesOK'
  BY <1>2, <1>5, <1>6, <1>7, <1>8 DEF FInv, FilesOK
<1>10. LogTexts'
  BY <1>5 DEF FInv, LogTexts
<1>11. GoodIsThere'
  <2> SUFFICES ASSUME NEW p \in Objects, good[p] PROVE disk'[p] # Absent
    BY <1>2 DEF GoodIsThere
  <2>1. CASE p = o
    <3>1. disk'[p] \in Seq(Pieces)
      BY <1>1, <2>1 DEF FInv, FilesOK
    <3> QED
      BY <3>1, LogAssumption
  <2>2. CASE p # o
    <3>1. disk'[p] = disk[p]
      BY <1>1, <2>2 DEF FInv, FilesOK
    <3> QED
      BY <3>1 DEF FInv, GoodIsThere
  <2> QED
    BY <2>1, <2>2
<1>12. Exclusive'
  <2> SUFFICES ASSUME NEW u \in Threads, NEW p \in Objects, Holding(u, p)' PROVE latch'[p] = u
    BY DEF Exclusive
  <2>1. u # t
    BY <1>5 DEF Holding
  <2>2. Holding(u, p)
    BY <1>5, <2>1 DEF Holding
  <2>3. latch[p] = u
    BY <2>2 DEF FInv, Exclusive
  <2>4. p # o
    BY <1>1, <2>1, <2>3
  <2> QED
    BY <1>1, <2>3, <2>4 DEF FInv, FilesOK
<1>13. Buffered'
  <2>1. ~Ending(t)' /\ \A u \in Threads : u # t => (Ending(u)' <=> Ending(u))
    BY <1>5 DEF Ending
  <2>2. CASE o = "log"
    <3>1. \A u \in Threads : u # t => ~Ending(u)
      BY <1>1, <2>2 DEF FInv, Exclusive, Holding, Ending
    <3>2. buffer'["log"] = <<>>
      BY <1>1, <2>2 DEF FInv, FilesOK
    <3> QED
      BY <2>1, <3>1, <3>2 DEF Buffered
  <2>3. CASE o # "log"
    <3>1. ~Ending(t)
      BY <2>3 DEF Ending, o
    <3>2. buffer'["log"] = buffer["log"] /\ good' = good
      BY <1>1, <1>2, <2>3 DEF FInv, FilesOK, Objects
    <3> QED
      BY <2>1, <3>1, <3>2 DEF FInv, Buffered
  <2> QED
    BY <2>2, <2>3
<1>14. LogPaired'
  <2>1. CASE o = "log" /\ good[o]
    <3>1. disk["log"] \in Seq(Pieces) /\ disk'["log"] = disk["log"] \o Append(<<t>>, Newline)
      BY <1>1, <1>4, <2>1 DEF FInv, FilesOK
    <3>2. disk["log"] # Absent
      BY <3>1, LogAssumption
    <3>3. Paired(disk["log"])
      BY <3>2 DEF FInv, LogPaired
    <3>4. Paired(disk["log"] \o Append(<<t>>, Newline))
      BY <3>1, <3>3, PairedLine
    <3>5. Paired(disk'["log"])
      BY <3>1, <3>4
    <3> QED
      BY <3>5 DEF LogPaired, Paired
  <2>2. CASE ~(o = "log" /\ good[o])
    <3>1. disk'["log"] = disk["log"]
      BY <1>1, <2>2 DEF FInv, FilesOK, Objects
    <3> QED
      BY <3>1 DEF FInv, LogPaired, Paired
  <2> QED
    BY <2>1, <2>2
<1> QED
  BY <1>9, <1>10, <1>11, <1>12, <1>13, <1>14 DEF FInv

-----------------------------------------------------------------------------
(* How OpenLog and OpenReport open.                                          *)
LEMMA HowOpened ==
  ASSUME FInv, OpenLog \/ OpenReport
  PROVE  \E o \in Objects, contents \in Seq(Pieces) :
           /\ Open(o, contents)
           /\ o = "log" => \/ contents = <<>> /\ disk["log"] = Absent
                           \/ contents = disk["log"]
<1>1. "log" \in Objects /\ "report" \in Objects /\ <<>> \in Seq(Pieces)
  BY DEF Objects
<1>2. disk["log"] \in Seq(Pieces) \cup {Absent}
  BY <1>1 DEF FInv, FilesOK
<1>3. CASE OpenLog
  <2>1. CASE disk["log"] = Absent
    BY <1>1, <1>3, <2>1 DEF OpenLog, Continued
  <2>2. CASE disk["log"] # Absent
    BY <1>1, <1>2, <1>3, <2>2 DEF OpenLog, Continued
  <2> QED
    BY <2>1, <2>2
<1>4. CASE OpenReport
  <2>1. Open("report", <<>>) /\ "report" # "log"
    BY <1>4 DEF OpenReport, Truncated
  <2> QED
    BY <1>1, <2>1
<1> QED
  BY <1>3, <1>4

LEMMA FilesStepInvariant == FInv /\ FileStep => FInv'
<1> SUFFICES ASSUME FInv, FileStep PROVE FInv'
  OBVIOUS
<1>1. CASE EnsureFolder /\ UNCHANGED <<disk, streams, latch, line, said>>
  BY <1>1, KeepsEnsure
<1>2. CASE (OpenLog \/ OpenReport) /\ UNCHANGED <<folder, latch, line, said>>
  <2>1. PICK o \in Objects, contents \in Seq(Pieces) :
          /\ Open(o, contents)
          /\ o = "log" => \/ contents = <<>> /\ disk["log"] = Absent
                          \/ contents = disk["log"]
    BY <1>2, HowOpened
  <2> QED
    BY <1>2, <2>1, KeepsOpen
<1>3. CASE Close("report") /\ (\E t \in Threads : Call(t, "log", t)) /\ UNCHANGED <<folder, latch, said>>
  BY <1>3, KeepsClose
<1>4. CASE (\E t \in Threads, o \in Objects, x \in Threads \cup Rows : Call(t, o, x))
             /\ UNCHANGED <<folder, disk, streams, latch, said>>
  BY <1>4, KeepsCall
<1>5. CASE \E t \in Threads : WriteLine(t)
  BY <1>5, KeepsLockFile, KeepsPutText, KeepsEndLine DEF WriteLine
<1>6. CASE StreamsLost
  BY <1>6, KeepsLost
<1>7. CASE UNCHANGED files
  BY <1>7 DEF FInv, FilesOK, LogTexts, GoodIsThere, Exclusive, Holding, Buffered,
              Ending, LogPaired, Paired, files
<1> QED
  BY <1>1, <1>2, <1>3, <1>4, <1>5, <1>6, <1>7 DEF FileStep

(* The log changes when it is created and when a line ends, and only a line  *)
(* that ends in it is counted.                                               *)
LogKept    == disk'["log"] = disk["log"] /\ said' = said
LogCreated == disk["log"] = Absent /\ disk'["log"] = <<>> /\ said' = said
LineLogged(t) ==
  /\ disk["log"] \in Seq(Pieces)
  /\ disk'["log"] = disk["log"] \o Append(<<t>>, Newline)
  /\ said' = [said EXCEPT ![t] = said[t] + 1]

LEMMA StepOfLog ==
  ASSUME FInv, FileStep
  PROVE  LogKept \/ LogCreated \/ \E t \in Threads : LineLogged(t)
<1>1. "log" \in Objects
  BY DEF Objects
<1>2. CASE EnsureFolder /\ UNCHANGED <<disk, streams, latch, line, said>>
  BY <1>2 DEF LogKept
<1>3. CASE (OpenLog \/ OpenReport) /\ UNCHANGED <<folder, latch, line, said>>
  <2>1. PICK o \in Objects, contents \in Seq(Pieces) :
          /\ Open(o, contents)
          /\ o = "log" => \/ contents = <<>> /\ disk["log"] = Absent
                          \/ contents = disk["log"]
    BY <1>3, HowOpened
  <2>2. disk' = disk \/ disk' = [disk EXCEPT ![o] = contents]
    BY <2>1 DEF Open
  <2>3. disk'["log"] = disk["log"] \/ (disk["log"] = Absent /\ disk'["log"] = <<>>)
    BY <1>1, <2>1, <2>2 DEF FInv, FilesOK
  <2> QED
    BY <1>3, <2>3 DEF LogKept, LogCreated
<1>4. CASE Close("report") /\ (\E t \in Threads : Call(t, "log", t)) /\ UNCHANGED <<folder, latch, said>>
  <2>1. disk'["log"] = disk["log"]
    BY <1>1, <1>4 DEF Close, Flushed, FInv, FilesOK
  <2> QED
    BY <1>4, <2>1 DEF LogKept
<1>5. CASE (\E t \in Threads, o \in Objects, x \in Threads \cup Rows : Call(t, o, x))
             /\ UNCHANGED <<folder, disk, streams, latch, said>>
  BY <1>5 DEF LogKept
<1>6. ASSUME NEW t \in Threads, WriteLine(t) PROVE LogKept \/ LineLogged(t)
  <2>1. CASE LockFile(t) \/ PutText(t)
    BY <2>1 DEF LockFile, PutText, LogKept
  <2>2. CASE EndLine(t)
    <3> DEFINE o == line[t].object
               new == Append(buffer[o], Newline)
    <3>1. /\ o \in Objects
          /\ disk' = IF good[o] THEN [disk EXCEPT ![o] = disk[o] \o new] ELSE disk
          /\ good[o] => disk[o] \in Seq(Pieces)
          /\ o = "log" /\ good[o] => new = Append(<<t>>, Newline)
      BY <2>2, LineEnded
    <3>2. said' = IF o = "log" /\ good[o] THEN [said EXCEPT ![t] = said[t] + 1] ELSE said
      BY <2>2 DEF EndLine
    <3> HIDE DEF o, new
    <3>3. CASE o = "log" /\ good[o]
      <4>1. disk'["log"] = disk["log"] \o new
        BY <1>1, <3>1, <3>3 DEF FInv, FilesOK
      <4> QED
        BY <3>1, <3>2, <3>3, <4>1 DEF LineLogged
    <3>4. CASE ~(o = "log" /\ good[o])
      <4>1. disk'["log"] = disk["log"]
        BY <1>1, <3>1, <3>4 DEF FInv, FilesOK
      <4> QED
        BY <3>2, <3>4, <4>1 DEF LogKept
    <3> QED
      BY <3>3, <3>4
  <2> QED
    BY <1>6, <2>1, <2>2 DEF WriteLine
<1>7. CASE StreamsLost
  BY <1>7 DEF StreamsLost, LogKept
<1>8. CASE UNCHANGED files
  BY <1>8 DEF files, LogKept
<1> QED
  BY <1>2, <1>3, <1>4, <1>5, <1>6, <1>7, <1>8 DEF FileStep

(* A step that does not find the log absent leaves what is in it.            *)
LEMMA StepKeepsLog ==
  FInv /\ FileStep => disk["log"] = Absent \/ IsPrefix(disk["log"], disk["log"]')
<1> SUFFICES ASSUME FInv, FileStep, disk["log"] # Absent
             PROVE  IsPrefix(disk["log"], disk'["log"])
  OBVIOUS
<1>1. disk["log"] \in Seq(Pieces)
  BY DEF FInv, FilesOK, Objects
<1>2. CASE LogKept
  <2>1. disk["log"] \o <<>> = disk["log"] /\ <<>> \in Seq(Pieces)
    BY <1>1
  <2> QED
    BY <1>1, <1>2, <2>1, ConcatPrefix DEF LogKept
<1>3. ASSUME NEW t \in Threads, LineLogged(t) PROVE IsPrefix(disk["log"], disk'["log"])
  <2>1. Append(<<t>>, Newline) \in Seq(Pieces)
    BY DEF Pieces
  <2> QED
    BY <1>1, <1>3, <2>1, ConcatPrefix DEF LineLogged
<1> QED
  BY <1>2, <1>3, StepOfLog DEF LogCreated

-----------------------------------------------------------------------------
(* The lines in the log are those that have been counted.                    *)

Counted ==
  IF disk["log"] = Absent THEN \A t \in Threads : said[t] = 0
  ELSE \A t \in Threads : /\ IsFiniteSet(LinesBy(t, disk["log"]))
                          /\ Cardinality(LinesBy(t, disk["log"])) = said[t]

(* One line more, of one of the threads. *)
LEMMA LinesOfOneMore ==
  ASSUME NEW s \in Seq(Pieces), NEW t \in Threads, NEW u \in Threads
  PROVE  /\ LinesBy(u, s \o Append(<<t>>, Newline)) =
              IF u = t THEN LinesBy(u, s) \cup {Len(s) + 1} ELSE LinesBy(u, s)
         /\ Len(s) + 1 \notin LinesBy(u, s)
<1> DEFINE new == Append(<<t>>, Newline)
           c == s \o new
<1>1. /\ new \in Seq(Pieces) /\ Len(new) = 2 /\ new[1] = t /\ new[2] = Newline
  BY DEF Pieces
<1>2. Len(s) \in Nat /\ DOMAIN s = 1..Len(s)
  BY LenProperties
<1>3. /\ c \in Seq(Pieces) /\ Len(c) = Len(s) + Len(new)
      /\ \A i \in 1..Len(s) + Len(new) : c[i] = IF i <= Len(s) THEN s[i] ELSE new[i - Len(s)]
  BY <1>1, ConcatProperties
<1> HIDE DEF new, c
<1>4. /\ DOMAIN c = 1..(Len(s) + 2) /\ \A i \in 1..Len(s) : c[i] = s[i]
      /\ c[Len(s) + 1] = t /\ c[Len(s) + 2] = Newline
  BY <1>1, <1>2, <1>3
<1>5. u # Newline
  BY LogAssumption
<1>6. \A i \in 1..(Len(s) + 2) : i \in 1..Len(s) \/ i = Len(s) + 1 \/ i = Len(s) + 2
  BY <1>2
<1>7. 1..Len(s) \subseteq 1..(Len(s) + 2) /\ Len(s) + 1 \in 1..(Len(s) + 2) /\ Len(s) + 1 \notin 1..Len(s)
  BY <1>2
<1>8. LinesBy(u, c) = IF u = t THEN LinesBy(u, s) \cup {Len(s) + 1} ELSE LinesBy(u, s)
  BY <1>2, <1>4, <1>5, <1>6, <1>7 DEF LinesBy
<1>9. Len(s) + 1 \notin LinesBy(u, s)
  BY <1>2, <1>7 DEF LinesBy
<1> QED
  BY <1>8, <1>9 DEF c, new

LEMMA StepCounts ==
  ASSUME FInv, FileStep, Counted
  PROVE  Counted'
<1>0. said \in [Threads -> Nat]
  BY DEF FInv, FilesOK
<1>1. CASE LogKept
  BY <1>1 DEF LogKept, Counted
<1>2. CASE LogCreated
  <2>1. DOMAIN <<>> = {} /\ <<>> \in Seq(Pieces)
    OBVIOUS
  <2>2. \A t \in Threads : LinesBy(t, <<>>) = {}
    BY <2>1 DEF LinesBy
  <2>3. <<>> # Absent
    BY <2>1, LogAssumption
  <2> QED
    BY <1>2, <2>2, <2>3, FS_EmptySet DEF LogCreated, Counted
<1>3. ASSUME NEW t \in Threads, LineLogged(t) PROVE Counted'
  <2>1. /\ disk["log"] \in Seq(Pieces) /\ disk["log"] # Absent
        /\ disk'["log"] = disk["log"] \o Append(<<t>>, Newline)
        /\ said' = [said EXCEPT ![t] = said[t] + 1]
    BY <1>3, LogAssumption DEF LineLogged
  <2>2. disk'["log"] # Absent
    <3>1. disk["log"] \o Append(<<t>>, Newline) \in Seq(Pieces)
      BY <2>1, ConcatProperties, Append(<<t>>, Newline) \in Seq(Pieces) DEF Pieces
    <3> QED
      BY <2>1, <3>1, LogAssumption
  <2>3. ASSUME NEW u \in Threads
        PROVE  /\ IsFiniteSet(LinesBy(u, disk'["log"]))
               /\ Cardinality(LinesBy(u, disk'["log"])) = said'[u]
    <3>1. IsFiniteSet(LinesBy(u, disk["log"])) /\ Cardinality(LinesBy(u, disk["log"])) = said[u]
      BY <2>1 DEF Counted
    <3> DEFINE c == disk["log"] \o Append(<<t>>, Newline)
    <3>0. /\ LinesBy(u, c) =
               IF u = t THEN LinesBy(u, disk["log"]) \cup {Len(disk["log"]) + 1}
                        ELSE LinesBy(u, disk["log"])
          /\ Len(disk["log"]) + 1 \notin LinesBy(u, disk["log"])
      BY <2>1, LinesOfOneMore, Zenon
    <3>4. disk'["log"] = c
      BY <2>1
    <3> HIDE DEF c
    <3>2. CASE u = t
      <4>1. /\ LinesBy(u, disk'["log"]) = LinesBy(u, disk["log"]) \cup {Len(disk["log"]) + 1}
            /\ Len(disk["log"]) + 1 \notin LinesBy(u, disk["log"])
        BY <3>0, <3>2, <3>4
      <4>2. /\ IsFiniteSet(LinesBy(u, disk'["log"]))
            /\ Cardinality(LinesBy(u, disk'["log"])) = Cardinality(LinesBy(u, disk["log"])) + 1
        BY <3>1, <4>1, FS_AddElement
      <4> QED
        BY <1>0, <2>1, <3>1, <3>2, <4>2
    <3>3. CASE u # t
      <4>1. LinesBy(u, disk'["log"]) = LinesBy(u, disk["log"])
        BY <3>0, <3>3, <3>4
      <4> QED
        BY <1>0, <2>1, <3>1, <3>3, <4>1
    <3> QED
      BY <3>2, <3>3
  <2> QED
    BY <2>2, <2>3 DEF Counted
<1> QED
  BY <1>1, <1>2, <1>3, StepOfLog
=============================================================================
