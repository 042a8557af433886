----------------------------- MODULE MCLibrary -----------------------------
(* Constant values for the runs of Library: files, peers, threads. *)
EXTENDS Library

CONSTANTS loader, background, host

AllThreads == {loader, background, host}
ValueOfNumeral == [n \in {"0", "1", "2", "4", "10"} |->
                     CASE n = "0" -> 0 [] n = "1" -> 1 [] n = "2" -> 2
                       [] n = "4" -> 4 [] n = "10" -> 10]
SomeChars == {"B", "K"}
SomeTimes == {7}

V4(port)  == [ip |-> <<"10.0.0.1">>, port |-> port]
V6(port)  == [ip |-> <<"", "", "1">>, port |-> port]
AnyPeer   == {V4("443"), V6("443"), V6("80")}

(* Words: an endpoint, and text that is read by numbers and characters. *)
AnyAt(port)   == [ip |-> Wildcard, port |-> port]
EndWord(e)  == [text |-> Append(e.ip, e.port), lexemes |-> Append(e.ip, e.port)]
Word(chars) == [text |-> chars, lexemes |-> chars]

LineWith(words, meaning) == [comment |-> FALSE, words |-> words, meaning |-> meaning]
Meaning(type, local, remote, amount, duration, unit) ==
  [type |-> type, local |-> local, remote |-> remote,
   amount |-> amount, duration |-> duration, unit |-> unit]
Full(type, local, remote, chars, amount, duration, unit) ==
  LineWith(<<Word(<<type>>), EndWord(local), EndWord(remote), Word(chars)>>,
           Meaning(type, local, remote, amount, duration, unit))
Broken(words) == LineWith(words, Undocumented)

(* Every rule of the documented format, with every kind of endpoint. *)
NewLine   == Full("new-connection", AnyAt("*"), AnyAt("443"), <<"2", "/", "1", "s">>, 2, 1, "s")
NewMinute == Full("new-connection", V6("80"), AnyAt("*"), <<"4", "/", "2", "m">>, 4, 2, "m")
NewHour   == Full("new-connection", V4("*"), V6("*"), <<"10", "/", "1", "h">>, 10, 1, "h")
MaxLine   == Full("max-connections", V4("*"), V6("443"), <<"4">>, 4, 0, "s")
RecvLine  == Full("max-recv-avg", AnyAt("80"), V4("443"), <<"10", "M", "B", "/", "s">>, 10 * 1048576, 0, "s")
SendLine  == Full("max-send-avg", V6("*"), V6("*"), <<"1", "K", "B", "/", "s">>, 1024, 0, "s")

(* Lines that are none of it. *)
Comment  == [comment |-> TRUE, words |-> MaxLine.words, meaning |-> Undocumented]
Blank    == Broken(<<>>)
Unnamed  == Broken(<<Word(<<"max-speed">>), EndWord(AnyAt("*"))>>)
NoRemote == Broken(<<Word(<<"max-connections">>), EndWord(V4("80"))>>)
Bare     == Broken(<<Word(<<"max-connections">>)>>)
NoSpeed  == Broken(<<Word(<<"max-recv-avg">>), EndWord(AnyAt("*")), EndWord(AnyAt("*"))>>)
NoTime   == Broken(<<Word(<<"new-connection">>), EndWord(AnyAt("*")), EndWord(AnyAt("*")), Word(<<"2">>)>>)
NoSlash  == Broken(<<Word(<<"new-connection">>), EndWord(AnyAt("*")), EndWord(AnyAt("*")),
                     Word(<<"2">>), Word(<<"1", "s">>)>>)
NoColon  == Broken(<<Word(<<"max-connections">>), Word(<<"10.0.0.1">>), Word(<<"", "443">>), Word(<<"x">>)>>)

SomeFiles == {<<Comment, NewLine, MaxLine, Blank, NoColon, NoTime, RecvLine>>,
              <<Unnamed, SendLine, Bare, NoSlash, NoRemote, NewHour, NewMinute>>,
              <<NoSpeed, RecvLine>>}
=============================================================================
