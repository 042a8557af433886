------------------------- MODULE FilterConfig_proofs -------------------------
(***************************************************************************)
(* What TLAPS proves of FilterConfig for any file, any text an address or  *)
(* a port may be, and whatever the stack holds: a line of the documented   *)
(* format becomes the one rule it means, an hour counting as a second;     *)
(* that rule matches the sockets it should, and the parser loses no line   *)
(* and changes no order.  Library_proofs shows that Library parses by      *)
(* these steps alone.                                                      *)
(***************************************************************************)
EXTENDS FilterConfig, SequenceTheorems, TLAPS

-----------------------------------------------------------------------------
(* Sequences of a few elements *)

LEMMA OneElement ==
  ASSUME NEW S, NEW s \in Seq(S), Len(s) = 1
  PROVE  s[1] \in S /\ s = <<s[1]>>
<1>1. s[1] \in S
  BY ElementOfSeq, 1 \in 1..Len(s)
<1>2. <<s[1]>> \in Seq(S) /\ Len(<<s[1]>>) = 1 /\ <<s[1]>>[1] = s[1]
  BY <1>1
<1>3. \A i \in 1..Len(s) : s[i] = <<s[1]>>[i]
  BY <1>2
<1> QED
  BY <1>1, <1>2, <1>3, SeqEqual

LEMMA TailOf ==
  ASSUME NEW S, NEW s \in Seq(S), NEW k \in Nat, Len(s) = k + 1
  PROVE  /\ s # <<>> /\ Head(s) = s[1] /\ Head(s) \in S
         /\ Tail(s) \in Seq(S) /\ Len(Tail(s)) = k
         /\ \A i \in 1..k : Tail(s)[i] = s[i + 1]
<1>1. s # <<>>
  BY EmptySeq
<1> QED
  BY <1>1, HeadTailProperties

LEMMA NoElements ==
  ASSUME NEW S, NEW s \in Seq(S), Len(s) = 0
  PROVE  s = <<>>
  BY EmptySeq

-----------------------------------------------------------------------------
(* Endpoints.  nil is the part of a text between two colons.                 *)

nil == ""

LEMMA TextsOfNil ==
  /\ Empty = <<nil>> /\ Empty # Wildcard
  /\ computeEndPoint(Unknown) = <<nil, nil, "0">>
  BY DEF nil, Empty, Wildcard, computeEndPoint

LEMMA EndpointParse ==
  ASSUME NEW e
  PROVE  endpoint_parse(e) =
           IF Len(e) = 1 THEN [address |-> e, port |-> e]
           ELSE IF Len(e) = 2 /\ e[1] = nil THEN [address |-> Wildcard, port |-> Wildcard]
           ELSE [address |-> Front(e), port |-> <<Last(e)>>]
  BY DEF endpoint_parse, nil

LEMMA ParsedEnd ==
  ASSUME NEW ip \in Seq(STRING), NEW port \in STRING, ip # <<>>, ip # Empty
  PROVE  /\ endpoint_parse(Append(ip, port)) = [address |-> ip, port |-> <<port>>]
         /\ TargetParse(Append(ip, port)) = [address |-> ip, port |-> <<port>>]
<1> DEFINE e == Append(ip, port)
<1>0. Len(ip) \in Nat /\ Len(ip) > 0
  BY EmptySeq
<1>1. /\ e \in Seq(STRING) /\ e # <<>> /\ Len(e) = Len(ip) + 1
      /\ \A i \in 1..Len(ip) : e[i] = ip[i]
      /\ e[Len(ip) + 1] = port
  <2>1. /\ Append(ip, port) \in Seq(STRING)
        /\ Append(ip, port) # <<>>
        /\ Len(Append(ip, port)) = Len(ip) + 1
        /\ \A i \in 1..Len(ip) : Append(ip, port)[i] = ip[i]
        /\ Append(ip, port)[Len(ip) + 1] = port
    BY AppendProperties, Zenon
  <2> QED
    BY <2>1
<1> HIDE DEF e
<1>2. Len(e) # 1
  BY <1>0, <1>1
<1>3. ~(Len(e) = 2 /\ e[1] = nil)
  <2> SUFFICES ASSUME Len(e) = 2, e[1] = nil PROVE FALSE
    OBVIOUS
  <2>1. Len(ip) = 1
    <3>1. \A n \in Nat : 2 = n + 1 => n = 1
      OBVIOUS
    <3>2. 2 = Len(ip) + 1
      BY <1>1, Zenon
    <3> QED
      BY <1>0, <3>1, <3>2, Zenon
  <2>a. ip[1] = nil
    BY <1>1, <2>1, 1 \in 1..Len(ip)
  <2>2. ip = <<nil>>
    BY <2>1, <2>a, OneElement
  <2> QED
    BY <2>2, TextsOfNil
<1>4. Front(e) = ip
  <2>1. \A i \in 1..Len(ip) : e[i] \in STRING
    BY <1>0, <1>1, ElementOfSeq
  <2>2. /\ SubSeq(e, 1, Len(ip)) \in Seq(STRING) /\ Len(SubSeq(e, 1, Len(ip))) = Len(ip)
        /\ \A i \in 1..Len(ip) : SubSeq(e, 1, Len(ip))[i] = e[i]
    <3>1. /\ SubSeq(e, 1, Len(ip)) \in Seq(STRING)
          /\ Len(SubSeq(e, 1, Len(ip))) = IF 1 <= Len(ip) THEN Len(ip) - 1 + 1 ELSE 0
          /\ \A i \in 1..(Len(ip) - 1 + 1) : SubSeq(e, 1, Len(ip))[i] = e[1 + i - 1]
      BY <1>0, <2>1, SubSeqProperties
    <3> QED
      BY <1>0, <3>1
  <2>3. SubSeq(e, 1, Len(ip)) = ip
    BY <1>1, <2>2, SeqEqual
  <2>4. Len(e) - 1 = Len(ip)
    BY <1>0, <1>1
  <2> QED
    BY <2>3, <2>4 DEF Front
<1>5. Last(e) = port
  BY <1>1 DEF Last
<1>6. endpoint_parse(e) = [address |-> ip, port |-> <<port>>]
  BY <1>2, <1>3, <1>4, <1>5, EndpointParse
<1> QED
  BY <1>6, TextsOfNil DEF TargetParse, e

LEMMA ParsedUnknown ==
  endpoint_parse(computeEndPoint(Unknown)) = [address |-> <<nil, nil>>, port |-> <<"0">>]
<1> DEFINE e == <<nil, nil, "0">>
           S == {nil, "0"}
<1>1. e \in Seq(S) /\ Len(e) = 3 /\ e[1] = nil /\ e[2] = nil /\ e[3] = "0"
  OBVIOUS
<1>2. computeEndPoint(Unknown) = e
  BY TextsOfNil
<1> HIDE DEF e
<1>3. SubSeq(e, 1, 2) = <<nil, nil>>
  <2>1. \A i \in 1..2 : e[i] \in S
    BY <1>1
  <2>2. /\ SubSeq(e, 1, 2) \in Seq(S) /\ Len(SubSeq(e, 1, 2)) = IF 1 <= 2 THEN 2 - 1 + 1 ELSE 0
        /\ \A i \in 1..(2 - 1 + 1) : SubSeq(e, 1, 2)[i] = e[1 + i - 1]
    BY <2>1, SubSeqProperties
  <2>3. <<nil, nil>> \in Seq(S) /\ Len(<<nil, nil>>) = 2 /\ <<nil, nil>>[1] = nil /\ <<nil, nil>>[2] = nil
    OBVIOUS
  <2>4. \A i \in 1..2 : SubSeq(e, 1, 2)[i] = <<nil, nil>>[i]
    BY <1>1, <2>2, <2>3
  <2>5. Len(SubSeq(e, 1, 2)) = 2
    BY <2>2
  <2> QED
    BY <2>2, <2>3, <2>4, <2>5, SeqEqual
<1>4. Front(e) = <<nil, nil>> /\ Last(e) = "0"
  BY <1>1, <1>3 DEF Front, Last
<1>5. endpoint_parse(e) = [address |-> <<nil, nil>>, port |-> <<"0">>]
  <2>1. Len(e) # 1 /\ Len(e) # 2
    BY <1>1
  <2> QED
    BY <1>4, <2>1, EndpointParse
<1> QED
  BY <1>2, <1>5

(* What CNetworkFilterTarget makes of a documented endpoint matches the      *)
(* sockets that the endpoint covers.                                         *)
LEMMA TargetCovers ==
  ASSUME NEW end, IsEnd(end), NEW peer \in Peers \cup {Unknown}
  PROVE  TargetMatch([address |-> end.ip, port |-> <<end.port>>], computeEndPoint(peer))
           <=> Covers(end, peer)
<1> DEFINE target == [address |-> end.ip, port |-> <<end.port>>]
           ep == endpoint_parse(computeEndPoint(peer))
<1>1. /\ end.ip # <<nil, nil>> /\ end.port # "0"
      /\ (<<end.port>> = Wildcard <=> end.port = "*")
  BY DEF IsEnd, Wildcard, nil
<1>2. TargetMatch(target, computeEndPoint(peer)) <=>
        /\ end.ip = Wildcard \/ end.ip = ep.address
        /\ <<end.port>> = Wildcard \/ <<end.port>> = ep.port
  BY DEF TargetMatch
<1>3. CASE peer = Unknown
  <2>1. ep.address = <<nil, nil>> /\ ep.port = <<"0">>
    BY <1>3, ParsedUnknown
  <2>2. <<end.port>> # <<"0">>
    BY <1>1
  <2> HIDE DEF ep
  <2> QED
    BY <1>1, <1>2, <1>3, <2>1, <2>2 DEF Covers
<1>4. CASE peer \in Peers
  <2>1. peer # Unknown
    BY <1>4, ConfigAssumption
  <2>2. peer.ip \in Seq(STRING) /\ peer.ip # <<>> /\ peer.ip # Empty /\ peer.port \in STRING
    BY <1>4, FormatAssumption
  <2>3. ep = [address |-> peer.ip, port |-> <<peer.port>>]
    BY <2>1, <2>2, ParsedEnd DEF computeEndPoint
  <2>4. ep.address = peer.ip /\ ep.port = <<peer.port>>
    BY <2>3
  <2>5. <<end.port>> = <<peer.port>> <=> end.port = peer.port
    OBVIOUS
  <2> HIDE DEF ep
  <2> QED
    BY <1>1, <1>2, <2>1, <2>4, <2>5 DEF Covers
<1> QED
  BY <1>3, <1>4

(* What becomes of a documented line: what it means, with an hour a second.  *)
AsRead(meaning) == Written(meaning, HourIsASecond)

(* A rule that is what its line means matches the sockets it should. *)
LEMMA WrittenMatches ==
  ASSUME NEW meaning, IsEnd(meaning.local), IsEnd(meaning.remote),
         NEW local \in Peers \cup {Unknown}, NEW remote \in Peers \cup {Unknown}
  PROVE  Match(AsRead(meaning), local, remote)
           <=> Covers(meaning.local, local) /\ Covers(meaning.remote, remote)
<1>1. /\ AsRead(meaning).source = [address |-> meaning.local.ip, port |-> <<meaning.local.port>>]
      /\ AsRead(meaning).target = [address |-> meaning.remote.ip, port |-> <<meaning.remote.port>>]
  BY DEF AsRead, Written
<1>2. TargetMatch([address |-> meaning.local.ip, port |-> <<meaning.local.port>>], computeEndPoint(local))
        <=> Covers(meaning.local, local)
  BY TargetCovers
<1>3. TargetMatch([address |-> meaning.remote.ip, port |-> <<meaning.remote.port>>], computeEndPoint(remote))
        <=> Covers(meaning.remote, remote)
  BY TargetCovers
<1> QED
  BY <1>1, <1>2, <1>3 DEF Match

-----------------------------------------------------------------------------
(* Reading a line.  What is left of a word when its first lexemes are read.  *)

Stream(words) == [words |-> words, good |-> TRUE]
Rest(q) == IF q = <<>> THEN <<>> ELSE <<[text |-> q, lexemes |-> q]>>

LEMMA StringRead ==
  ASSUME NEW words, words # <<>>, NEW old
  PROVE  /\ ReadString(Stream(words), old).value = Head(words).text
         /\ ReadString(Stream(words), old).then = Stream(Tail(words))
  BY DEF ReadString, Exhausted, Got, Stream

LEMMA WordRead ==
  ASSUME NEW w \in Seq(Words), Len(w) = 1, NEW q, q = w[1].lexemes,
         q # <<>>, NEW old
  PROVE  /\ ReadChar(Stream(w), old).value = q[1]
         /\ ReadChar(Stream(w), old).then = Stream(Rest(Tail(q)))
         /\ q[1] \in DOMAIN ValueOf =>
              /\ ReadNumber(Stream(w), old).value = ValueOf[q[1]]
              /\ ReadNumber(Stream(w), old).then = Stream(Rest(Tail(q)))
<1>1. w # <<>> /\ Head(w) = w[1] /\ w[1] \in Words /\ Tail(w) = <<>>
  <2>1. /\ w # <<>> /\ Head(w) = w[1] /\ Head(w) \in Words
        /\ Tail(w) \in Seq(Words) /\ Len(Tail(w)) = 0
    BY TailOf, Len(w) = 0 + 1
  <2> QED
    BY <2>1, NoElements
<1>2. q \in Seq(STRING)
  BY <1>1 DEF Words
<1>3. Head(q) = q[1] /\ Tail(q) \in Seq(STRING)
  <2>1. Tail(q) \in Seq(STRING)
    BY <1>2, HeadTailProperties
  <2> QED
    BY <1>2, <2>1
<1>4. AfterLexeme(w) = Rest(Tail(q))
  <2>1. CASE Tail(q) = <<>>
    BY <1>1, <2>1 DEF AfterLexeme, Rest
  <2>2. CASE Tail(q) # <<>>
    <3> DEFINE x == [text |-> Tail(q), lexemes |-> Tail(q)]
    <3>1. x \in Words
      BY <1>3 DEF Words
    <3>2. <<x>> \in Seq(Words)
      BY <3>1
    <3>3. <<x>> \o <<>> = <<x>>
      BY <3>2, ConcatEmptySeq
    <3>4. AfterLexeme(w) = <<x>> \o <<>>
      BY <1>1, <2>2 DEF AfterLexeme
    <3> QED
      BY <2>2, <3>3, <3>4 DEF Rest
  <2> QED
    BY <2>1, <2>2
<1>5. Lexeme(Stream(w)) = q[1] /\ ~Exhausted(Stream(w)) /\ Stream(w).words = w
  BY <1>1, <1>3 DEF Lexeme, Exhausted, Stream
<1>6. ReadChar(Stream(w), old) = [value |-> q[1], then |-> Stream(Rest(Tail(q)))]
  BY <1>4, <1>5 DEF ReadChar, Got, Stream
<1>7. ASSUME q[1] \in DOMAIN ValueOf
      PROVE  ReadNumber(Stream(w), old) = [value |-> ValueOf[q[1]], then |-> Stream(Rest(Tail(q)))]
  BY <1>4, <1>5, <1>7 DEF ReadNumber, Got, Stream
<1> QED
  BY <1>6, <1>7

(* The rest of a word is read on in the same way. *)
LEMMA RestOfWord ==
  ASSUME NEW q \in Seq(STRING), q # <<>>
  PROVE  /\ Rest(q) \in Seq(Words) /\ Len(Rest(q)) = 1
         /\ Rest(q)[1].lexemes = q
<1>2. [text |-> q, lexemes |-> q] \in Words
  BY DEF Words
<1> HIDE DEF Words
<1>3. <<[text |-> q, lexemes |-> q]>> \in Seq(Words)
  BY <1>2
<1> QED
  BY <1>3 DEF Rest

(* Its second lexeme is the first of the rest. *)
LEMMA NextLexeme ==
  ASSUME NEW q \in Seq(STRING), Len(q) > 1
  PROVE  /\ q # <<>> /\ Tail(q) \in Seq(STRING) /\ Tail(q) # <<>>
         /\ Len(Tail(q)) = Len(q) - 1 /\ Tail(q)[1] = q[2]
         /\ Len(q) > 2 => Tail(q)[2] = q[3]
         /\ Len(q) > 3 => Tail(q)[3] = q[4]
<1>1. Len(q) \in Nat /\ q # <<>> /\ Len(<<>>) = 0
  BY EmptySeq
<1>2. /\ Head(q) \in STRING /\ Tail(q) \in Seq(STRING) /\ Len(Tail(q)) = Len(q) - 1
      /\ \A i \in 1..Len(Tail(q)) : Tail(q)[i] = q[i + 1]
  BY <1>1, HeadTailProperties
<1> DEFINE r == Tail(q)
<1> HIDE DEF r
<1>4. /\ Len(r) = Len(q) - 1 /\ Len(q) \in Nat
      /\ \A i \in 1..Len(r) : r[i] = q[i + 1]
  BY <1>1, <1>2 DEF r
<1>3. r # <<>>
  <2>1. Len(r) # 0
    BY <1>4
  <2> QED
    BY <1>1, <2>1
<1>5. r[1] = q[2] /\ (Len(q) > 2 => r[2] = q[3]) /\ (Len(q) > 3 => r[3] = q[4])
  BY <1>4
<1> QED
  BY <1>1, <1>2, <1>3, <1>5 DEF r

(* The first three words of a documented line. *)
LEMMA EndsRead ==
  ASSUME NEW line, InFormat(line)
  PROVE  LET type == ReadString(Stream(line.words), Empty)
             ends == Ends(type.then)
             w    == Tail(Tail(Tail(line.words)))
         IN /\ type.value = <<line.meaning.type>>
            /\ ends.source = AsRead(line.meaning).source
            /\ ends.target = AsRead(line.meaning).target
            /\ ends.then = Stream(w)
            /\ w \in Seq(Words) /\ Len(w) = 1 /\ w[1] = line.words[4]
<1> DEFINE w1 == line.words
           w2 == Tail(w1)
           w3 == Tail(w2)
           w4 == Tail(w3)
           m  == line.meaning
           type == ReadString(Stream(w1), Empty)
           source == ReadString(Stream(w2), Empty)
           target == ReadString(Stream(w3), source.value)
<1>1. w1 \in Seq(Words) /\ Len(w1) = 3 + 1
  BY DEF InFormat
<1>2. /\ w1 # <<>> /\ Head(w1) = w1[1]
      /\ w2 \in Seq(Words) /\ Len(w2) = 2 + 1
      /\ \A i \in 1..3 : w2[i] = w1[i + 1]
  <2>1. /\ w1 # <<>> /\ Head(w1) = w1[1] /\ Head(w1) \in Words
        /\ w2 \in Seq(Words) /\ Len(w2) = 3
        /\ \A i \in 1..3 : w2[i] = w1[i + 1]
    BY <1>1, TailOf
  <2> HIDE DEF w1, w2
  <2> QED
    BY <2>1
<1>3. /\ w2 # <<>> /\ Head(w2) = w2[1]
      /\ w3 \in Seq(Words) /\ Len(w3) = 1 + 1
      /\ \A i \in 1..2 : w3[i] = w2[i + 1]
  <2>1. /\ w2 # <<>> /\ Head(w2) = w2[1] /\ Head(w2) \in Words
        /\ w3 \in Seq(Words) /\ Len(w3) = 2
        /\ \A i \in 1..2 : w3[i] = w2[i + 1]
    BY <1>2, TailOf
  <2> HIDE DEF w1, w2, w3
  <2> QED
    BY <2>1
<1>4. /\ w3 # <<>> /\ Head(w3) = w3[1]
      /\ w4 \in Seq(Words) /\ Len(w4) = 1
      /\ \A i \in 1..1 : w4[i] = w3[i + 1]
  BY <1>3, TailOf
<1>5. /\ w1[1].text = <<m.type>>
      /\ w1[2].text = Append(m.local.ip, m.local.port)
      /\ w1[3].text = Append(m.remote.ip, m.remote.port)
      /\ IsEnd(m.local) /\ IsEnd(m.remote)
  BY DEF InFormat
<1>6. /\ type.value = <<m.type>> /\ type.then = Stream(w2)
      /\ source.value = Append(m.local.ip, m.local.port) /\ source.then = Stream(w3)
      /\ target.value = Append(m.remote.ip, m.remote.port) /\ target.then = Stream(w4)
  <2>1. type.value = Head(w1).text /\ type.then = Stream(w2)
    BY <1>2, StringRead
  <2>2. source.value = Head(w2).text /\ source.then = Stream(w3)
    BY <1>3, StringRead
  <2>3. target.value = Head(w3).text /\ target.then = Stream(w4)
    BY <1>4, StringRead
  <2>4. Head(w2) = w1[2] /\ Head(w3) = w1[3]
    <3> HIDE DEF w1, w2, w3, w4
    <3>1. w2[1] = w1[1 + 1] /\ w3[1] = w2[1 + 1] /\ w2[2] = w1[2 + 1]
      BY <1>2, <1>3
    <3> QED
      BY <1>2, <1>3, <3>1
  <2> HIDE DEF w1, w2, w3, w4, type, source, target
  <2> QED
    BY <1>2, <1>5, <2>1, <2>2, <2>3, <2>4
<1>7. Ends(Stream(w2)) = [source |-> TargetParse(source.value),
                          target |-> TargetParse(target.value), then |-> Stream(w4)]
  BY <1>6 DEF Ends
<1>8. /\ TargetParse(source.value) = [address |-> m.local.ip, port |-> <<m.local.port>>]
      /\ TargetParse(target.value) = [address |-> m.remote.ip, port |-> <<m.remote.port>>]
  BY <1>5, <1>6, ParsedEnd DEF IsEnd
<1>9. /\ AsRead(m).source = [address |-> m.local.ip, port |-> <<m.local.port>>]
      /\ AsRead(m).target = [address |-> m.remote.ip, port |-> <<m.remote.port>>]
  BY DEF AsRead, Written
<1>10. w4[1] = line.words[4]
  <2> HIDE DEF w2, w3, w4
  <2>1. w4[1] = w3[1 + 1] /\ w3[2] = w2[2 + 1] /\ w2[3] = w1[3 + 1]
    BY <1>2, <1>3, <1>4
  <2> QED
    BY <2>1
<1> DEFINE ends == Ends(type.then)
<1>11. /\ ends.source = AsRead(m).source
       /\ ends.target = AsRead(m).target
       /\ ends.then = Stream(w4)
  <2>1. ends = Ends(Stream(w2))
    BY <1>6
  <2> HIDE DEF ends, source, target
  <2> QED
    BY <1>7, <1>8, <1>9, <2>1
<1>12. type.value = <<m.type>> /\ w4 \in Seq(Words) /\ Len(w4) = 1
  BY <1>4, <1>6
<1> QED
  BY <1>10, <1>11, <1>12, Zenon

-----------------------------------------------------------------------------
(* The rule of a documented line *)

LEMMA RuleIsWritten ==
  ASSUME NEW m, NEW ends, ends.source = AsRead(m).source, ends.target = AsRead(m).target
  PROVE  RuleOf(m.type, ends, m.amount, AsRead(m).duration) = AsRead(m)
  BY DEF RuleOf, AsRead, Written

LEMMA NoDuration ==
  ASSUME NEW m, m.duration = 0, m.unit = "s"
  PROVE  AsRead(m).duration = 0
<1>1. HourIsASecond["s"] = 1
  BY DEF HourIsASecond, SecondsIn
<1>2. AsRead(m).duration = HourIsASecond[m.unit] * m.duration
  BY DEF AsRead, Written
<1> QED
  BY <1>1, <1>2

LEMMA ConnectionsRead ==
  ASSUME NEW m, NEW st, Ends(st).source = AsRead(m).source, Ends(st).target = AsRead(m).target,
         NEW w \in Seq(Words), Len(w) = 1, Ends(st).then = Stream(w),
         NEW q, q = w[1].lexemes, Len(q) = 1, q[1] \in DOMAIN ValueOf,
         m.type = "max-connections", m.amount = ValueOf[q[1]], m.duration = 0, m.unit = "s"
  PROVE  MaxConnectionsRule(st) = {<<AsRead(m)>>}
<1> DEFINE ends == Ends(st)
<1>1. ReadNumber(ends.then, 0).value = m.amount
  BY WordRead, EmptySeq
<1>2. RuleOf(m.type, ends, m.amount, AsRead(m).duration) = AsRead(m)
  BY RuleIsWritten
<1> QED
  BY <1>1, <1>2, NoDuration DEF MaxConnectionsRule

LEMMA SpeedRead ==
  ASSUME NEW m, NEW st, Ends(st).source = AsRead(m).source, Ends(st).target = AsRead(m).target,
         NEW w \in Seq(Words), Len(w) = 1, Ends(st).then = Stream(w),
         NEW q \in Seq(STRING), q = w[1].lexemes, Len(q) = 5, q[1] \in DOMAIN ValueOf,
         q[2] \in DOMAIN Factor, q[3] = "B",
         m.amount = ValueOf[q[1]] * Factor[q[2]], m.duration = 0, m.unit = "s"
  PROVE  MaxSpeedRule(m.type, st) = {<<AsRead(m)>>}
<1> DEFINE ends  == Ends(st)
           limit == ReadNumber(ends.then, 0)
           q2 == Tail(q)
           q3 == Tail(q2)
           Quantifier(c) == ReadChar(limit.then, c)
           Unit(c, u) == ReadChar(Quantifier(c).then, u)
<1>1. /\ q # <<>> /\ q2 \in Seq(STRING) /\ q2 # <<>>
      /\ Len(q2) = 4 /\ q2[1] = q[2] /\ q2[2] = q[3]
  <2>1. /\ q # <<>> /\ q2 \in Seq(STRING) /\ q2 # <<>>
        /\ Len(q2) = Len(q) - 1 /\ q2[1] = q[2]
        /\ Len(q) > 2 => q2[2] = q[3]
    BY NextLexeme, Len(q) > 1
  <2> HIDE DEF q2
  <2> QED
    BY <2>1
<1> HIDE DEF q2
<1>2. q3 \in Seq(STRING) /\ q3 # <<>> /\ q3[1] = q[3]
  BY <1>1, NextLexeme, Len(q2) > 1
<1>3. limit.value = ValueOf[q[1]] /\ limit.then = Stream(Rest(q2))
  <2>1. q # <<>>
    BY <1>1
  <2>2. /\ ReadNumber(Stream(w), 0).value = ValueOf[q[1]]
        /\ ReadNumber(Stream(w), 0).then = Stream(Rest(Tail(q)))
    BY <2>1, WordRead
  <2> HIDE DEF q3
  <2> QED
    BY <2>2 DEF q2
<1> HIDE DEF q3
<1> HIDE DEF limit, ends
<1>5. ASSUME NEW c
      PROVE  Quantifier(c).value = q[2] /\ Quantifier(c).then = Stream(Rest(q3))
  <2>1. Rest(q2) \in Seq(Words) /\ Len(Rest(q2)) = 1 /\ Rest(q2)[1].lexemes = q2
    BY <1>1, RestOfWord
  <2>2. /\ ReadChar(Stream(Rest(q2)), c).value = q2[1]
        /\ ReadChar(Stream(Rest(q2)), c).then = Stream(Rest(Tail(q2)))
    BY <1>1, <2>1, WordRead
  <2> QED
    BY <1>1, <1>3, <2>2 DEF q3
<1>6. ASSUME NEW c, NEW u
      PROVE  Unit(c, u).value = "B"
  <2>1. Rest(q3) \in Seq(Words) /\ Len(Rest(q3)) = 1 /\ Rest(q3)[1].lexemes = q3
    BY <1>2, RestOfWord
  <2>2. /\ ReadChar(Stream(Rest(q3)), u).value = q3[1]
        /\ ReadChar(Stream(Rest(q3)), u).then = Stream(Rest(Tail(q3)))
    BY <1>2, <2>1, WordRead
  <2> QED
    BY <1>2, <1>5, <2>2
<1>7. RuleOf(m.type, ends, m.amount, AsRead(m).duration) = AsRead(m)
  BY RuleIsWritten DEF ends
<1>8. ASSUME NEW c, NEW u
      PROVE  (IF Unit(c, u).value # "B" \/ Quantifier(c).value \notin DOMAIN Factor THEN <<>>
              ELSE <<RuleOf(m.type, ends, limit.value * Factor[Quantifier(c).value], 0)>>)
               = <<AsRead(m)>>
  <2>1. Unit(c, u).value = "B" /\ Quantifier(c).value = q[2]
    BY <1>5, <1>6
  <2>2. limit.value * Factor[Quantifier(c).value] = m.amount
    BY <1>3, <2>1
  <2> HIDE DEF Unit, Quantifier
  <2>3. RuleOf(m.type, ends, limit.value * Factor[Quantifier(c).value], 0) = AsRead(m)
    BY <1>7, <2>2, NoDuration
  <2> QED
    BY <2>1, <2>3
<1>9. MaxSpeedRule(m.type, st) =
        {IF Unit(c, u).value # "B" \/ Quantifier(c).value \notin DOMAIN Factor THEN <<>>
         ELSE <<RuleOf(m.type, ends, limit.value * Factor[Quantifier(c).value], 0)>>
           : c, u \in StackChars}
  BY DEF MaxSpeedRule, ends, limit
<1> DEFINE Limits(c, u) ==
             IF Unit(c, u).value # "B" \/ Quantifier(c).value \notin DOMAIN Factor THEN <<>>
             ELSE <<RuleOf(m.type, ends, limit.value * Factor[Quantifier(c).value], 0)>>
<1>10. \A c, u \in StackChars : Limits(c, u) = <<AsRead(m)>>
  BY <1>8
<1>11. MaxSpeedRule(m.type, st) = {Limits(c, u) : c, u \in StackChars}
  BY <1>9
<1>12. StackChars # {}
  BY ConfigAssumption
<1> HIDE DEF Limits
<1> QED
  BY <1>10, <1>11, <1>12

LEMMA RateRead ==
  ASSUME NEW m, NEW st, Ends(st).source = AsRead(m).source, Ends(st).target = AsRead(m).target,
         NEW w \in Seq(Words), Len(w) = 1, Ends(st).then = Stream(w),
         NEW q \in Seq(STRING), q = w[1].lexemes, Len(q) = 4, q[1] \in DOMAIN ValueOf,
         q[3] \in DOMAIN ValueOf, q[4] \in DOMAIN SecondsIn, m.type = "new-connection",
         m.amount = ValueOf[q[1]], m.duration = ValueOf[q[3]], m.unit = q[4]
  PROVE  NewConnectionRule(st) = {<<AsRead(m)>>}
<1> DEFINE ends   == Ends(st)
           amount == ReadNumber(ends.then, 0)
           slash  == ReadChar(amount.then, "/")
           q2 == Tail(q)
           q3 == Tail(q2)
           q4 == Tail(q3)
           Time(g) == ReadNumber(slash.then, g)
           Unit(g, u) == ReadChar(Time(g).then, u)
<1>1. /\ q # <<>> /\ q2 \in Seq(STRING) /\ q2 # <<>>
      /\ Len(q2) = 3 /\ q2[2] = q[3] /\ q2[3] = q[4]
  <2>1. /\ q # <<>> /\ q2 \in Seq(STRING) /\ q2 # <<>>
        /\ Len(q2) = Len(q) - 1 /\ q2[1] = q[2]
        /\ Len(q) > 2 => q2[2] = q[3]
        /\ Len(q) > 3 => q2[3] = q[4]
    BY NextLexeme, Len(q) > 1
  <2> HIDE DEF q2
  <2> QED
    BY <2>1
<1> HIDE DEF q2
<1>2. /\ q3 \in Seq(STRING) /\ q3 # <<>>
      /\ Len(q3) = 2 /\ q3[1] = q[3] /\ q3[2] = q[4]
  <2>1. /\ q2 # <<>> /\ q3 \in Seq(STRING) /\ q3 # <<>>
        /\ Len(q3) = Len(q2) - 1 /\ q3[1] = q2[2]
        /\ Len(q2) > 2 => q3[2] = q2[3]
    BY <1>1, NextLexeme, Len(q2) > 1
  <2> HIDE DEF q3
  <2> QED
    BY <1>1, <2>1
<1> HIDE DEF q3
<1>3. q4 \in Seq(STRING) /\ q4 # <<>> /\ q4[1] = q[4]
  BY <1>2, NextLexeme, Len(q3) > 1
<1> HIDE DEF q4
<1>4. amount.value = m.amount /\ amount.then = Stream(Rest(q2))
  BY <1>1, WordRead DEF q2
<1> HIDE DEF amount, ends
<1>5. slash.then = Stream(Rest(q3))
  <2>1. Rest(q2) \in Seq(Words) /\ Len(Rest(q2)) = 1 /\ Rest(q2)[1].lexemes = q2
    BY <1>1, RestOfWord
  <2>2. /\ ReadChar(Stream(Rest(q2)), "/").value = q2[1]
        /\ ReadChar(Stream(Rest(q2)), "/").then = Stream(Rest(Tail(q2)))
    BY <1>1, <2>1, WordRead
  <2> QED
    BY <1>4, <2>2 DEF q3
<1> HIDE DEF slash
<1>6. ASSUME NEW g
      PROVE  Time(g).value = ValueOf[q[3]] /\ Time(g).then = Stream(Rest(q4))
  <2>1. Rest(q3) \in Seq(Words) /\ Len(Rest(q3)) = 1 /\ Rest(q3)[1].lexemes = q3
    BY <1>2, RestOfWord
  <2>2. q3[1] \in DOMAIN ValueOf =>
          /\ ReadNumber(Stream(Rest(q3)), g).value = ValueOf[q3[1]]
          /\ ReadNumber(Stream(Rest(q3)), g).then = Stream(Rest(Tail(q3)))
    BY <1>2, <2>1, WordRead
  <2> QED
    BY <1>2, <1>5, <2>2 DEF q4
<1>7. ASSUME NEW g, NEW u
      PROVE  Unit(g, u).value = q[4]
  <2>1. Rest(q4) \in Seq(Words) /\ Len(Rest(q4)) = 1 /\ Rest(q4)[1].lexemes = q4
    BY <1>3, RestOfWord
  <2>2. /\ ReadChar(Stream(Rest(q4)), u).value = q4[1]
        /\ ReadChar(Stream(Rest(q4)), u).then = Stream(Rest(Tail(q4)))
    BY <1>3, <2>1, WordRead
  <2> QED
    BY <1>3, <1>6, <2>2
<1>8. PerAcceptDuration(q[4]) = HourIsASecond[q[4]]
  BY DEF PerAcceptDuration, HourIsASecond, SecondsIn
<1>9. RuleOf(m.type, ends, m.amount, AsRead(m).duration) = AsRead(m)
  BY RuleIsWritten DEF ends
<1> DEFINE Rates(g, u) == <<RuleOf("new-connection", ends, amount.value,
                                   PerAcceptDuration(Unit(g, u).value) * Time(g).value)>>
<1>10. ASSUME NEW g \in StackTimes, NEW u \in StackChars
       PROVE  Rates(g, u) = <<AsRead(m)>>
  <2>1. Unit(g, u).value = q[4] /\ Time(g).value = ValueOf[q[3]]
    BY <1>6, <1>7
  <2> HIDE DEF Unit, Time
  <2>2. PerAcceptDuration(Unit(g, u).value) * Time(g).value = AsRead(m).duration
    BY <1>8, <2>1 DEF AsRead, Written
  <2> QED
    BY <1>4, <1>9, <2>2
<1>11. NewConnectionRule(st) = {Rates(g, u) : g \in StackTimes, u \in StackChars}
  BY DEF NewConnectionRule, ends, amount, slash
<1>12. StackChars # {} /\ StackTimes # {}
  BY ConfigAssumption
<1> HIDE DEF Rates
<1> QED
  BY <1>10, <1>11, <1>12

(* A line of the documented format becomes the rule it means (an hour being  *)
(* a second), whatever the stack held.                                       *)
LEMMA DocumentedParse ==
  ASSUME NEW line, InFormat(line)
  PROVE  RulesOf(line) = {<<AsRead(line.meaning)>>}
<1> DEFINE m == line.meaning
           q == line.words[4].lexemes
           type == ReadString(Stream(line.words), Empty)
           w == Tail(Tail(Tail(line.words)))
<1>1. /\ type.value = <<m.type>>
      /\ Ends(type.then).source = AsRead(m).source
      /\ Ends(type.then).target = AsRead(m).target
      /\ Ends(type.then).then = Stream(w)
      /\ w \in Seq(Words) /\ Len(w) = 1 /\ w[1] = line.words[4]
  BY EndsRead, Zenon
<1>2. q \in Seq(STRING)
  <2>1. w[1] \in Words
    BY <1>1, OneElement
  <2> QED
    BY <1>1, <2>1 DEF Words
<1>3. ~line.comment
  BY DEF InFormat
<1>4. RulesOf(line) =
        CASE line.comment -> {<<>>}
          [] type.value = <<"new-connection">>  -> NewConnectionRule(type.then)
          [] type.value = <<"max-connections">> -> MaxConnectionsRule(type.then)
          [] type.value = <<"max-recv-avg">>    -> MaxRecvRule(type.then)
          [] type.value = <<"max-send-avg">>    -> MaxSendRule(type.then)
          [] OTHER -> {<<>>}
  BY DEF RulesOf, Stream
<1> DEFINE Format ==
             /\ Len(q) > 0 /\ q[1] \in DOMAIN ValueOf
             /\ \/ /\ m.type = "new-connection" /\ Len(q) = 4 /\ q[2] = "/"
                   /\ q[3] \in DOMAIN ValueOf /\ q[4] \in DOMAIN SecondsIn
                   /\ m.amount = ValueOf[q[1]] /\ m.duration = ValueOf[q[3]] /\ m.unit = q[4]
                \/ /\ m.type = "max-connections" /\ Len(q) = 1
                   /\ m.amount = ValueOf[q[1]] /\ m.duration = 0 /\ m.unit = "s"
                \/ /\ m.type \in {"max-recv-avg", "max-send-avg"}
                   /\ Len(q) = 5 /\ q[2] \in DOMAIN Factor /\ q[3] = "B"
                   /\ m.amount = ValueOf[q[1]] * Factor[q[2]] /\ m.duration = 0 /\ m.unit = "s"
<1>5. Format
  BY DEF InFormat
<1>6. q = w[1].lexemes
  BY <1>1
<1> HIDE DEF type, w, m, q
<1>7. CASE m.type = "new-connection"
  <2>1. NewConnectionRule(type.then) = {<<AsRead(m)>>}
    BY <1>1, <1>2, <1>5, <1>6, <1>7, RateRead
  <2> HIDE DEF Format
  <2> QED
    BY <1>1, <1>3, <1>4, <1>7, <2>1 DEF m
<1>8. CASE m.type = "max-connections"
  <2>1. MaxConnectionsRule(type.then) = {<<AsRead(m)>>}
    BY <1>1, <1>2, <1>5, <1>6, <1>8, ConnectionsRead
  <2> HIDE DEF Format
  <2> QED
    BY <1>1, <1>3, <1>4, <1>8, <2>1 DEF m
<1>9. CASE m.type \in {"max-recv-avg", "max-send-avg"}
  <2>1. MaxSpeedRule(m.type, type.then) = {<<AsRead(m)>>}
    BY <1>1, <1>2, <1>5, <1>6, <1>9, SpeedRead
  <2> HIDE DEF Format
  <2>2. CASE m.type = "max-recv-avg"
    BY <1>1, <1>3, <1>4, <2>1, <2>2 DEF m, MaxRecvRule
  <2>3. CASE m.type = "max-send-avg"
    BY <1>1, <1>3, <1>4, <2>1, <2>3 DEF m, MaxSendRule
  <2> QED
    BY <1>9, <2>2, <2>3
<1> QED
  BY <1>5, <1>7, <1>8, <1>9

(* Any other line becomes one rule or none. *)
LEMMA OneRuleAtMost ==
  ASSUME NEW line, NEW p \in RulesOf(line)
  PROVE  p = <<>> \/ \E r : p = <<r>>
<1>1. ASSUME NEW st, NEW x \in MaxConnectionsRule(st) PROVE \E r : x = <<r>>
  BY <1>1 DEF MaxConnectionsRule
<1>2. ASSUME NEW st, NEW x \in NewConnectionRule(st) PROVE \E r : x = <<r>>
  BY <1>2 DEF NewConnectionRule
<1>3. ASSUME NEW type, NEW st, NEW x \in MaxSpeedRule(type, st)
      PROVE  x = <<>> \/ \E r : x = <<r>>
  BY <1>3 DEF MaxSpeedRule
<1> DEFINE type == ReadString([words |-> line.words, good |-> TRUE], Empty)
<1>4. \/ p \in {<<>>} \/ p \in NewConnectionRule(type.then) \/ p \in MaxConnectionsRule(type.then)
      \/ p \in MaxSpeedRule("max-recv-avg", type.then) \/ p \in MaxSpeedRule("max-send-avg", type.then)
  BY DEF RulesOf, MaxRecvRule, MaxSendRule
<1> HIDE DEF type
<1> QED
  BY <1>1, <1>2, <1>3, <1>4

-----------------------------------------------------------------------------
(* CNetworkFilter::Parse: what is left is the end of the file, the rules so  *)
(* far stem from its lines in their order, and no documented line is         *)
(* missing.  _rules is empty or all of it.                                   *)

Entries == [rule: {p[1] : p \in UNION {RulesOf(line) : line \in Lines}}, at: Nat]

LeftIsTheEnd ==
  /\ left \in Seq(Lines) /\ Len(left) \in 0..Len(file)
  /\ \A i \in 1..Len(left) : left[i] = file[Len(file) - Len(left) + i]

StemsFrom(s, k) ==
  /\ InOrder(s)
  /\ \A i \in DOMAIN s : /\ s[i].at \in 1..k
                         /\ Documented(s[i].at) => s[i].rule = AsRead(file[s[i].at].meaning)
  /\ \A n \in 1..k : Documented(n) => Kept(s, n, HourIsASecond)

ConfigInv ==
  /\ file \in Files \cup {NoFile}
  /\ vector \in Seq(Entries)
  /\ IF file = NoFile THEN left = <<>> /\ vector = <<>>
     ELSE LeftIsTheEnd /\ StemsFrom(vector, Len(file) - Len(left))
  /\ rules = <<>> \/ (left = <<>> /\ rules = vector)

LEMMA NothingParsed ==
  ASSUME NEW f \in Files
  PROVE  /\ f \in Seq(Lines) /\ Len(f) \in Nat /\ Len(f) - Len(f) = 0
         /\ \A i \in 1..Len(f) : f[i] = f[Len(f) - Len(f) + i]
<1>1. f \in Seq(Lines)
  BY FormatAssumption
<1>2. Len(f) \in Nat
  BY <1>1, LenProperties
<1> QED
  BY <1>1, <1>2

(* The rules of a process that has just begun, be it the first or another.   *)
LEMMA ConfigBegins == ConfigInit => ConfigInv
<1> SUFFICES ASSUME file \in Files \cup {NoFile}, left = IF file = NoFile THEN <<>> ELSE file,
                    vector = <<>>, rules = <<>>
             PROVE  ConfigInv
  BY DEF ConfigInit
<1>1. <<>> \in Seq(Entries) /\ DOMAIN <<>> = {}
  BY EmptySeq
<1>2. CASE file = NoFile
  BY <1>1, <1>2 DEF ConfigInv
<1>3. CASE file # NoFile
  <2>1. file \in Files /\ left = file
    BY <1>3
  <2>2. LeftIsTheEnd
    <3>1. /\ file \in Seq(Lines) /\ Len(file) \in Nat
          /\ \A i \in 1..Len(file) : file[i] = file[Len(file) - Len(file) + i]
      BY <2>1, NothingParsed
    <3>2. Len(file) \in 0..Len(file)
      BY <3>1
    <3> QED
      BY <2>1, <3>1, <3>2, Zenon DEF LeftIsTheEnd
  <2>3. StemsFrom(<<>>, 0)
    BY <1>1 DEF StemsFrom, InOrder
  <2> QED
    BY <1>1, <1>3, <2>1, <2>2, <2>3, NothingParsed DEF ConfigInv
<1> QED
  BY <1>2, <1>3

LEMMA LineParsed ==
  ASSUME ConfigInv, NEW p, ParseLine(p)
  PROVE  ConfigInv'
<1> DEFINE k == Len(file) - Len(left)
           n == k + 1
           new == [i \in DOMAIN p |-> [rule |-> p[i], at |-> Len(file) - Len(left) + 1]]
<1>1. /\ left # <<>> /\ p \in RulesOf(Head(left)) /\ left' = Tail(left)
      /\ vector' = vector \o new /\ file' = file /\ rules' = rules
  BY DEF ParseLine
<1>2. file # NoFile /\ file \in Files /\ LeftIsTheEnd /\ StemsFrom(vector, k) /\ rules = <<>>
  BY <1>1 DEF ConfigInv
<1>3. file \in Seq(Lines) /\ Len(file) \in Nat
  BY <1>2, NothingParsed
<1>4. left \in Seq(Lines) /\ Len(left) \in 0..Len(file)
  BY <1>2 DEF LeftIsTheEnd
<1>5. /\ Head(left) \in Lines /\ Tail(left) \in Seq(Lines) /\ Len(Tail(left)) = Len(left) - 1
      /\ \A i \in 1..Len(Tail(left)) : Tail(left)[i] = left[i + 1]
  BY <1>1, <1>4, HeadTailProperties
<1>6. Len(left) # 0
  BY <1>1, <1>4, NoElements
<1>7. /\ k \in Nat /\ n \in 1..Len(file) /\ Len(left') = Len(left) - 1
      /\ Len(file) - Len(left') = n
  BY <1>1, <1>3, <1>4, <1>5, <1>6
<1>8. Head(left) = file[n]
  <2>1. Head(left) = left[1] /\ 1 \in 1..Len(left)
    BY <1>4, <1>6
  <2> QED
    BY <1>2, <2>1 DEF LeftIsTheEnd
<1>9. LeftIsTheEnd'
  <2>1. left' \in Seq(Lines) /\ Len(left') \in 0..Len(file)
    BY <1>1, <1>3, <1>4, <1>5, <1>6
  <2>2. ASSUME NEW i \in 1..Len(left') PROVE left'[i] = file[Len(file) - Len(left') + i]
    <3>1. i + 1 \in 1..Len(left) /\ Len(file) - Len(left) + (i + 1) = Len(file) - Len(left') + i
      BY <1>3, <1>4, <1>7, <2>1
    <3>2. left'[i] = left[i + 1]
      BY <1>1, <1>5
    <3>3. left[i + 1] = file[Len(file) - Len(left) + (i + 1)]
      BY <1>2, <3>1 DEF LeftIsTheEnd
    <3> QED
      BY <3>1, <3>2, <3>3
  <2> QED
    BY <1>1, <2>1, <2>2 DEF LeftIsTheEnd
<1>10. vector \in Seq(Entries)
  BY DEF ConfigInv
<1> HIDE DEF k
<1>11. CASE p = <<>>
  <2>1. new = <<>>
    BY <1>11
  <2>2. vector' = vector
    BY <1>1, <1>10, <2>1, ConcatEmptySeq
  <2>3. ~Documented(n)
    <3> SUFFICES ASSUME Documented(n) PROVE FALSE
      OBVIOUS
    <3>1. InFormat(file[n])
      BY <1>5, <1>8, FormatAssumption DEF Documented
    <3>2. p = <<AsRead(file[n].meaning)>>
      BY <1>1, <1>8, <3>1, DocumentedParse
    <3> QED
      BY <1>11, <3>2
  <2>4. StemsFrom(vector, n)
    BY <1>2, <1>7, <2>3 DEF StemsFrom
  <2>5. StemsFrom(vector, Len(file) - Len(left))'
    BY <1>1, <1>7, <2>2, <2>4 DEF StemsFrom, InOrder, Kept, Documented, AsRead
  <2> QED
    BY <1>1, <1>2, <1>7, <1>9, <1>10, <2>2, <2>5 DEF ConfigInv
<1>12. ASSUME NEW r, p = <<r>> PROVE ConfigInv'
  <2> DEFINE x == [rule |-> r, at |-> n]
  <2>1. new = <<x>>
    BY <1>12 DEF k
  <2>2. x \in Entries
    <3>1. p[1] = r
      BY <1>12
    <3>2. p \in UNION {RulesOf(line) : line \in Lines}
      BY <1>1, <1>5
    <3> QED
      BY <1>7, <3>1, <3>2 DEF Entries
  <2> HIDE DEF x
  <2>3. <<x>> \in Seq(Entries) /\ Len(<<x>>) = 1 /\ <<x>>[1] = x
    BY <2>2
  <2>4. /\ vector' \in Seq(Entries) /\ Len(vector') = Len(vector) + 1 /\ Len(vector) \in Nat
        /\ \A i \in 1..Len(vector) : vector'[i] = vector[i]
        /\ vector'[Len(vector) + 1] = x
    <3>1. /\ vector \o <<x>> \in Seq(Entries)
          /\ Len(vector \o <<x>>) = Len(vector) + Len(<<x>>)
          /\ \A i \in 1..Len(vector) + Len(<<x>>) : (vector \o <<x>>)[i] =
               IF i <= Len(vector) THEN vector[i] ELSE <<x>>[i - Len(vector)]
      BY <1>10, <2>3, ConcatProperties
    <3>2. Len(vector) \in Nat
      BY <1>10, LenProperties
    <3> DEFINE c == vector \o <<x>>
    <3>3. vector' = c
      BY <1>1, <2>1
    <3> HIDE DEF c, new
    <3> QED
      BY <2>3, <3>1, <3>2, <3>3 DEF c
  <2>5. DOMAIN vector = 1..Len(vector) /\ DOMAIN vector' = 1..(Len(vector) + 1)
    BY <1>10, <2>4, LenProperties
  <2>6. \A i \in DOMAIN vector : vector[i].at \in 1..k
    BY <1>2 DEF StemsFrom
  <2>7. x.rule = r /\ x.at = n
    BY DEF x
  <2>8. \A i \in DOMAIN vector' : i \in DOMAIN vector \/ i = Len(vector) + 1
    BY <2>4, <2>5
  <2>9. InOrder(vector')
    <3>1. InOrder(vector)
      BY <1>2 DEF StemsFrom
    <3>2. ASSUME NEW i \in DOMAIN vector', NEW j \in DOMAIN vector', i < j
          PROVE  vector'[i].at < vector'[j].at
      <4>1. i \in DOMAIN vector
        BY <2>4, <2>5, <3>2
      <4>2. vector'[i].at = vector[i].at /\ vector[i].at \in 1..k
        BY <2>4, <2>5, <2>6, <4>1
      <4>3. CASE j \in DOMAIN vector
        <5>1. vector'[j].at = vector[j].at
          BY <2>4, <2>5, <4>3
        <5> QED
          BY <3>1, <3>2, <4>1, <4>2, <4>3, <5>1 DEF InOrder
      <4>4. CASE j = Len(vector) + 1
        <5>1. vector'[j].at = n
          BY <2>4, <2>7, <4>4
        <5> QED
          BY <1>7, <4>2, <5>1
      <4> QED
        BY <2>8, <4>3, <4>4
    <3> QED
      BY <3>2 DEF InOrder
  <2>10. Documented(n) => r = AsRead(file[n].meaning)
    <3> SUFFICES ASSUME Documented(n) PROVE r = AsRead(file[n].meaning)
      OBVIOUS
    <3>1. InFormat(file[n])
      BY <1>5, <1>8, FormatAssumption DEF Documented
    <3>2. p = <<AsRead(file[n].meaning)>>
      BY <1>1, <1>8, <3>1, DocumentedParse
    <3> QED
      BY <1>12, <3>2
  <2>11. ASSUME NEW i \in DOMAIN vector'
         PROVE  /\ vector'[i].at \in 1..n
                /\ Documented(vector'[i].at) => vector'[i].rule = AsRead(file[vector'[i].at].meaning)
    <3>1. CASE i \in DOMAIN vector
      <4>1. vector'[i] = vector[i] /\ vector[i].at \in 1..k
        BY <2>4, <2>5, <2>6, <3>1
      <4>2. vector[i].at \in 1..n
        BY <1>7, <4>1
      <4> QED
        BY <1>2, <3>1, <4>1, <4>2 DEF StemsFrom
    <3>2. CASE i = Len(vector) + 1
      <4>1. vector'[i].at = n /\ vector'[i].rule = r
        BY <2>4, <2>7, <3>2
      <4> QED
        BY <1>7, <2>10, <4>1
    <3> QED
      BY <2>8, <3>1, <3>2
  <2>12. ASSUME NEW l \in 1..n, Documented(l) PROVE Kept(vector', l, HourIsASecond)
    <3>1. CASE l = n
      <4>1. x = [rule |-> AsRead(file[l].meaning), at |-> l]
        BY <2>10, <2>12, <3>1 DEF x
      <4>2. Len(vector) + 1 \in DOMAIN vector'
        BY <2>4, <2>5
      <4> QED
        BY <2>4, <4>1, <4>2 DEF Kept, AsRead
    <3>2. CASE l # n
      <4>1. l \in 1..k
        BY <1>7, <3>2
      <4>2. PICK i \in DOMAIN vector : vector[i] = [rule |-> AsRead(file[l].meaning), at |-> l]
        BY <1>2, <2>12, <4>1 DEF StemsFrom, Kept, AsRead
      <4>3. i \in DOMAIN vector' /\ vector'[i] = vector[i]
        BY <2>4, <2>5
      <4> QED
        BY <4>2, <4>3 DEF Kept, AsRead
    <3> QED
      BY <3>1, <3>2
  <2>13. StemsFrom(vector', n)
    BY <2>9, <2>11, <2>12 DEF StemsFrom
  <2>14. StemsFrom(vector, Len(file) - Len(left))'
    BY <1>1, <1>7, <2>13 DEF StemsFrom, InOrder, Kept, Documented, AsRead
  <2> QED
    BY <1>1, <1>2, <1>9, <2>4, <2>14 DEF ConfigInv
<1> QED
  BY <1>1, <1>11, <1>12, OneRuleAtMost

LEMMA RulesInstalled ==
  ASSUME ConfigInv, InstallRules
  PROVE  ConfigInv'
  BY DEF ConfigInv, InstallRules, LeftIsTheEnd, StemsFrom, InOrder, Kept, Documented, AsRead

LEMMA ConfigUntouched ==
  ASSUME ConfigInv, UNCHANGED config
  PROVE  ConfigInv'
  BY DEF ConfigInv, config, LeftIsTheEnd, StemsFrom, InOrder, Kept, Documented, AsRead

LEMMA ConfigIsAsRead ==
  ASSUME ConfigInv
  PROVE  RulesAsRead /\ MatchAsWritten
<1>1. ASSUME left = <<>>, rules = vector, file # NoFile
      PROVE  /\ InOrder(rules)
             /\ \A i \in DOMAIN rules : rules[i].at \in DOMAIN file
             /\ \A n \in DOMAIN file : Documented(n) => Kept(rules, n, HourIsASecond)
  <2>1. file \in Seq(Lines) /\ Len(file) \in Nat /\ DOMAIN file = 1..Len(file)
    BY <1>1, FormatAssumption, LenProperties DEF ConfigInv
  <2>2. Len(file) - Len(left) = Len(file)
    BY <1>1, <2>1, EmptySeq
  <2>3. StemsFrom(rules, Len(file))
    BY <1>1, <2>2 DEF ConfigInv
  <2> QED
    BY <2>1, <2>3 DEF StemsFrom
<1>2. ASSUME NEW i \in DOMAIN rules, Documented(rules[i].at),
             NEW local \in Peers \cup {Unknown}, NEW remote \in Peers \cup {Unknown}
      PROVE  LET meaning == file[rules[i].at].meaning IN
             Match(rules[i].rule, local, remote)
               <=> Covers(meaning.local, local) /\ Covers(meaning.remote, remote)
  <2>1. DOMAIN <<>> = {}
    OBVIOUS
  <2>2. rules = vector /\ left = <<>> /\ file # NoFile
    BY <1>2, <2>1 DEF ConfigInv
  <2>3. file \in Seq(Lines) /\ Len(file) \in Nat
    BY <2>2, FormatAssumption, LenProperties DEF ConfigInv
  <2>4. Len(file) - Len(left) = Len(file)
    BY <2>2, <2>3, EmptySeq
  <2>5. StemsFrom(rules, Len(file))
    BY <2>2, <2>4 DEF ConfigInv
  <2> DEFINE n == rules[i].at
             meaning == file[n].meaning
  <2>6. n \in 1..Len(file) /\ rules[i].rule = AsRead(meaning)
    BY <1>2, <2>5 DEF StemsFrom
  <2>7. file[n] \in Lines
    BY <2>3, <2>6, ElementOfSeq
  <2>8. InFormat(file[n])
    BY <1>2, <2>7, FormatAssumption DEF Documented
  <2>9. IsEnd(meaning.local) /\ IsEnd(meaning.remote)
    BY <2>8 DEF InFormat
  <2> HIDE DEF meaning
  <2>10. Match(AsRead(meaning), local, remote)
           <=> Covers(meaning.local, local) /\ Covers(meaning.remote, remote)
    BY <2>9, WrittenMatches
  <2> QED
    BY <2>6, <2>10 DEF meaning
<1> QED
  BY <1>1, <1>2 DEF RulesAsRead, LinesKept, MatchAsWritten
=============================================================================
