---------------------------- MODULE FilterConfig ----------------------------
(***************************************************************************)
(* The rules of network-filter.cfg: how a line becomes a rule              *)
(* (CNetworkFilter::Parse and the Parse of each class of rule), how an     *)
(* endpoint is taken apart (endpoint_parse) and which sockets a rule       *)
(* matches (CNetworkFilterRule::Match, CNetworkFilterTarget).              *)
(*                                                                         *)
(* An endpoint is the sequence of its parts between colons: "*:443" is     *)
(* <<"*", "443">>, "::1:443" is <<"", "", "1", "443">>, and a text without *)
(* a colon is its only part.  A word of a line has a text, when it is read *)
(* as a string, and lexemes, when it is read number by number and          *)
(* character by character: "10MB/s" is <<"10", "M", "B", "/", "s">>.       *)
(* The locals that Parse leaves uninitialised hold any value.              *)
(***************************************************************************)
EXTENDS Integers, Sequences, SequencesExt

CONSTANTS
  Files,       \* what network-filter.cfg may hold: sequences of lines
  NoFile,      \* there is no such file
  ValueOf,     \* the number each numeral stands for; one that a line has in
               \* place of a character has one digit (a bound)
  StackChars,  \* values an uninitialised CHAR may hold
  StackTimes,  \* values an uninitialised UINT64 may hold
  Peers,       \* what getsockname and getpeername report
  Unknown,     \* they fail, or the family is not an internet one
  Undocumented \* the meaning of a line that is not of the documented format

(* A line: whether '#' is its first character, its words, and what the       *)
(* format of network-filter.cfg:1-8 makes it mean (for the properties only). *)
Lines == UNION {{file[i] : i \in DOMAIN file} : file \in Files}

ASSUME ConfigAssumption ==
  /\ NoFile \notin Files
  /\ StackChars # {} /\ StackTimes # {} /\ StackTimes \subseteq Nat
  /\ Unknown \notin Peers
  /\ \A line \in Lines : DOMAIN line = {"comment", "words", "meaning"}

Empty    == <<"">>
Wildcard == <<"*">>
Factor   == [K |-> 1024, M |-> 1024 * 1024]

(* The documented format (network-filter.cfg:1-8).  An address is some text; *)
(* ":" is none, and 0 is no port.  Only new-connection has a duration.       *)
IsEnd(end) ==
  /\ end.ip \in Seq(STRING) \ {<<>>, Empty, <<"", "">>}
  /\ end.port \in STRING \ {"0"}
Words == [text: Seq(STRING), lexemes: Seq(STRING)]
SecondsIn == [s |-> 1, m |-> 60, h |-> 3600]
InFormat(line) ==
  LET m == line.meaning
      q == line.words[4].lexemes
  IN
  /\ ~line.comment
  /\ line.words \in Seq(Words) /\ Len(line.words) = 4
  /\ line.words[1].text = <<m.type>>
  /\ IsEnd(m.local) /\ line.words[2].text = Append(m.local.ip, m.local.port)
  /\ IsEnd(m.remote) /\ line.words[3].text = Append(m.remote.ip, m.remote.port)
  /\ Len(q) > 0 /\ q[1] \in DOMAIN ValueOf
  /\ \/ /\ m.type = "new-connection" /\ Len(q) = 4 /\ q[2] = "/"
        /\ q[3] \in DOMAIN ValueOf /\ q[4] \in DOMAIN SecondsIn
        /\ m.amount = ValueOf[q[1]] /\ m.duration = ValueOf[q[3]] /\ m.unit = q[4]
     \/ /\ m.type = "max-connections" /\ Len(q) = 1
        /\ m.amount = ValueOf[q[1]] /\ m.duration = 0 /\ m.unit = "s"
     \/ /\ m.type \in {"max-recv-avg", "max-send-avg"}
        /\ Len(q) = 5 /\ q[2] \in DOMAIN Factor /\ q[3] = "B"
        /\ m.amount = ValueOf[q[1]] * Factor[q[2]] /\ m.duration = 0 /\ m.unit = "s"

ASSUME FormatAssumption ==
  /\ \A f \in Files : f \in Seq(Lines)
  /\ \A line \in Lines : line.meaning # Undocumented => InFormat(line)
  /\ \A peer \in Peers : /\ peer.ip \in Seq(STRING) \ {<<>>, Empty}
                         /\ peer.port \in STRING

VARIABLES
  file,   \* network-filter.cfg
  left,   \* its lines that std::getline has still to return
  vector, \* the rules parsed so far, each with the number of its line
  rules   \* _rules

config == <<file, left, vector, rules>>

-----------------------------------------------------------------------------
(* Endpoints *)

(* A slip: split at the first colon. *)
endpoint_parse_first(e) ==
  [address |-> <<Head(e)>>, port |-> IF Len(e) = 1 THEN e ELSE Tail(e)]

(* Split at the last colon.  Without a colon the index is npos and both      *)
(* halves are the whole text; with the only colon at index 0 both are "*".   *)
endpoint_parse(e) ==
  IF Len(e) = 1 THEN [address |-> e, port |-> e]
  ELSE IF Len(e) = 2 /\ e[1] = "" THEN [address |-> Wildcard, port |-> Wildcard]
  ELSE [address |-> Front(e), port |-> <<Last(e)>>]

(* CNetworkFilterTarget *)
AnyTarget == [address |-> Wildcard, port |-> Wildcard]
TargetParse(e) ==
  LET ep == endpoint_parse(e) IN IF ep.address = Empty THEN AnyTarget ELSE ep
TargetMatch(target, e) ==
  LET ep == endpoint_parse(e) IN
    /\ target.address = Wildcard \/ target.address = ep.address
    /\ target.port = Wildcard \/ target.port = ep.port

(* The endpoint computeAddress gives one side of a socket. *)
computeEndPoint(peer) ==
  IF peer = Unknown THEN <<"", "", "0">> ELSE Append(peer.ip, peer.port)

Match(rule, local, remote) ==
  /\ TargetMatch(rule.source, computeEndPoint(local))
  /\ TargetMatch(rule.target, computeEndPoint(remote))

-----------------------------------------------------------------------------
(* std::stringstream: the words left, and whether no read has failed yet.    *)
(* A read gives the new value of its variable and the stream after it.       *)

Got(value, words, good) == [value |-> value, then |-> [words |-> words, good |-> good]]

(* Nothing left, or an earlier failure: the variable keeps its old value. *)
Exhausted(st)   == ~st.good \/ st.words = <<>>
Unread(st, old) == Got(old, st.words, FALSE)
Lexeme(st)      == Head(Head(st.words).lexemes)

AfterLexeme(words) ==
  LET rest == Tail(Head(words).lexemes) IN
  IF rest = <<>> THEN Tail(words)
                 ELSE <<[text |-> rest, lexemes |-> rest]>> \o Tail(words)

ReadString(st, old) ==
  IF Exhausted(st) THEN Unread(st, old)
                   ELSE Got(Head(st.words).text, Tail(st.words), TRUE)

ReadChar(st, old) ==
  IF Exhausted(st) THEN Unread(st, old)
                   ELSE Got(Lexeme(st), AfterLexeme(st.words), TRUE)

(* What is not a number becomes 0, and the stream fails. *)
ReadNumber(st, old) ==
  IF Exhausted(st) THEN Unread(st, old)
  ELSE IF Lexeme(st) \in DOMAIN ValueOf
       THEN Got(ValueOf[Lexeme(st)], AfterLexeme(st.words), TRUE)
       ELSE Got(0, st.words, FALSE)

-----------------------------------------------------------------------------
(* Parse of each class of rule: the rules it may give, <<>> for FALSE *)

(* stream >> str; _source.Parse(str); stream >> str; _target.Parse(str);     *)
(* the slip takes the remote endpoint first.                                 *)
EndsSwapped(st) ==
  LET target == ReadString(st, Empty)
      source == ReadString(target.then, target.value)
  IN [source |-> TargetParse(source.value), target |-> TargetParse(target.value),
      then |-> source.then]
Ends(st) ==
  LET source == ReadString(st, Empty)
      target == ReadString(source.then, source.value)
  IN [source |-> TargetParse(source.value), target |-> TargetParse(target.value),
      then |-> target.then]

RuleOf(type, ends, amount, duration) ==
  [type |-> type, source |-> ends.source, target |-> ends.target,
   amount |-> amount, duration |-> duration]

MaxConnectionsRule(st) ==
  LET ends == Ends(st) IN
  {<<RuleOf("max-connections", ends, ReadNumber(ends.then, 0).value, 0)>>}

(* quantifier and unit are what the stack held when they cannot be read. *)
MaxSpeedRule(type, st) ==
  LET ends  == Ends(st)
      limit == ReadNumber(ends.then, 0)
      Limits(q, u) ==
        LET quantifier == ReadChar(limit.then, q)
            unit       == ReadChar(quantifier.then, u)
        IN IF unit.value # "B" \/ quantifier.value \notin DOMAIN Factor THEN <<>>
           ELSE <<RuleOf(type, ends, limit.value * Factor[quantifier.value], 0)>>
  IN {Limits(q, u) : q, u \in StackChars}
MaxRecvRule(st) == MaxSpeedRule("max-recv-avg", st)
MaxSendRule(st) == MaxSpeedRule("max-send-avg", st)

(* Seconds in a unit; HOURS is a typedef of std::chrono::seconds. *)
PerAcceptDuration(unit) == IF unit \in {"m", "M"} THEN 60 ELSE 1
NewConnectionRule(st) ==
  LET ends   == Ends(st)
      amount == ReadNumber(ends.then, 0)
      slash  == ReadChar(amount.then, "/")
      Rates(g, u) ==
        LET time == ReadNumber(slash.then, g)
            unit == ReadChar(time.then, u)
        IN <<RuleOf("new-connection", ends, amount.value,
                    PerAcceptDuration(unit.value) * time.value)>>
  IN {Rates(g, u) : g \in StackTimes, u \in StackChars}

(* A line with any other first word, or none, becomes a CNetworkFilterRule,  *)
(* whose Parse is FALSE.                                                     *)
RulesOf(line) ==
  LET type == ReadString([words |-> line.words, good |-> TRUE], Empty) IN
  CASE line.comment -> {<<>>}
    [] type.value = <<"new-connection">>  -> NewConnectionRule(type.then)
    [] type.value = <<"max-connections">> -> MaxConnectionsRule(type.then)
    [] type.value = <<"max-recv-avg">>    -> MaxRecvRule(type.then)
    [] type.value = <<"max-send-avg">>    -> MaxSendRule(type.then)
    [] OTHER -> {<<>>}

-----------------------------------------------------------------------------
(* CNetworkFilter::Parse *)

ConfigInit ==
  /\ file \in Files \cup {NoFile}
  /\ left = IF file = NoFile THEN <<>> ELSE file
  /\ vector = <<>>
  /\ rules = <<>>

(* One turn of the loop; parsed is the rule it keeps, or <<>>. *)
ParseLine(parsed) ==
  /\ left # <<>>
  /\ parsed \in RulesOf(Head(left))
  /\ left' = Tail(left)
  /\ vector' = vector \o [i \in DOMAIN parsed |->
                            [rule |-> parsed[i], at |-> Len(file) - Len(left) + 1]]
  /\ UNCHANGED <<file, rules>>

(* this->_rules = vector; *)
InstallRules ==
  /\ left = <<>>
  /\ rules' = vector
  /\ UNCHANGED <<file, left, vector>>

-----------------------------------------------------------------------------
(* Properties *)

(* What a documented line means, as a rule, when a unit is so many seconds.  *)
Written(meaning, seconds) ==
  LET TargetOf(end) == [address |-> end.ip, port |-> <<end.port>>] IN
  [type |-> meaning.type, source |-> TargetOf(meaning.local),
   target |-> TargetOf(meaning.remote), amount |-> meaning.amount,
   duration |-> seconds[meaning.unit] * meaning.duration]
Documented(n) == file[n].meaning # Undocumented

InOrder(s) == \A i, j \in DOMAIN s : i < j => s[i].at < s[j].at
Kept(s, n, seconds) ==
  \E i \in DOMAIN s : s[i] = [rule |-> Written(file[n].meaning, seconds), at |-> n]
LinesKept(seconds) ==
  left = <<>> /\ rules = vector /\ file # NoFile =>
    /\ InOrder(rules)
    /\ \A i \in DOMAIN rules : rules[i].at \in DOMAIN file
    /\ \A n \in DOMAIN file : Documented(n) => Kept(rules, n, seconds)

(* "duration format: <number>s/m/h; s - second; m - minute; h - hour"        *)
(* (network-filter.cfg:2): each line of the documented format becomes one    *)
(* rule with exactly the meaning written.  The code does not keep to it for  *)
(* an hour.                                                                  *)
RulesAsWritten == LinesKept(SecondsIn)

HourIsASecond == [SecondsIn EXCEPT !["h"] = 1]

(* The documented format (network-filter.cfg:1-8) but for its hours: each    *)
(* line of it becomes one rule with the meaning written, in the order of the *)
(* file, whatever comments, unknown words and broken lines stand in between, *)
(* only that "h" counts like "s" (HOURS is a typedef of seconds).            *)
RulesAsRead == LinesKept(HourIsASecond)

Covers(end, peer) ==
  /\ end.ip = Wildcard \/ (peer # Unknown /\ peer.ip = end.ip)
  /\ end.port = "*" \/ (peer # Unknown /\ peer.port = end.port)

(* "endpoint format: <ip>:<port>", wildcards accepted (network-filter.cfg:1): *)
(* an installed rule matches a socket just when each end has the address and *)
(* the port written, also if the address has colons or the end is unknown.   *)
MatchAsWritten ==
  \A i \in DOMAIN rules : Documented(rules[i].at) =>
    LET meaning == file[rules[i].at].meaning IN
    \A local, remote \in Peers \cup {Unknown} :
      Match(rules[i].rule, local, remote)
        <=> Covers(meaning.local, local) /\ Covers(meaning.remote, remote)
=============================================================================
