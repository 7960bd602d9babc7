----------------------------- MODULE TorReplies -----------------------------
(***************************************************************************)
(* What Vidalia sends to Tor and how it reads the answers: commands        *)
(* (ControlCommand.cpp), replies (ControlSocket.cpp, ReplyLine.cpp), and   *)
(* the wrappers of TorControl.cpp that ask for, and set, configuration     *)
(* and information.                                                        *)
(*                                                                         *)
(* Lines and values are strings in the sense of ControlText; the fields of *)
(* a line whose keywords matter are a record.                              *)
(***************************************************************************)
EXTENDS ControlText

CRLF == <<CR, NL>>
Plus == 43
Minus == 45

------------------------------------------------------------------------------
(* Commands *)

\* ControlCommand::escape() and toString(): a command with data is marked, and its data
\* end in a line with a dot.
EscapedLine(data) ==
    (IF Starts(data, <<Dot>>) THEN <<Dot>> ELSE <<>>) \o data
    \o (IF EndsWith(data, <<CR>>) THEN <<NL>> ELSE CRLF)
CommandText(keyword, args, data) ==
    (IF data = <<>> THEN <<>> ELSE <<Plus>>) \o keyword \o <<Space>> \o Joined(args, <<Space>>)
    \o (IF data = <<>> THEN <<>>
        ELSE CRLF \o FlattenSeq([i \in DOMAIN data |-> EscapedLine(data[i])]) \o <<Dot>>)
    \o CRLF

\* ControlSocket::sendCommand() reports failure when the bytes it has written are not as
\* many as the characters.
Written(text) == Len(Local8Bit(text)) = Len(text)

\* The arguments of setConf(): those of each key are in the order of its values.
SetConfArgument(key, value) ==
    IF value = <<>> THEN key ELSE key \o <<Equals>> \o StringEscape(value)
SetConf(values) ==
    [key \in DOMAIN values |->
        [i \in DOMAIN values[key] |-> SetConfArgument(key, values[key][i])]]

------------------------------------------------------------------------------
(* Replies *)

\* ReplyLine::unescape()
UnescapedLine(text) == Trimmed(IF Starts(text, <<Dot, Dot>>) THEN Tail(text) ELSE text)

\* readReply(): the lines up to one with a space after its status, and what is left to
\* read.  A reply that is cut off is not read.  (The malformed 250+PROTOCOLINFO of an old
\* Tor, which has no data, is left out.)
RECURSIVE ReadReply(_)
ReadReply(input) ==
    LET line == Head(input)
        hasData == line[4] = Plus
        dots == {j \in 2 .. Len(input) : Trimmed(input[j]) = <<Dot>>}
        end == IF hasData THEN Min(dots) ELSE 1
        read == [status |-> SubSeq(line, 1, 3), message |-> UnescapedLine(Mid(line, 5)),
                 data |-> [j \in 1 .. end - 2 |-> UnescapedLine(input[j + 1])]]
        rest == ReadReply(Mid(input, end + 1))
    IN  IF input = <<>> \/ Len(line) < 4 \/ (hasData /\ dots = {}) THEN Bad
        ELSE IF line[4] = Space
        THEN [ok |-> TRUE, lines |-> <<read>>, left |-> Mid(input, end + 1)]
        ELSE IF rest.ok THEN [rest EXCEPT !.lines = <<read>> \o @] ELSE Bad

\* TorControl::send(): the first line says 250.
Accepts(reply) == reply.ok /\ reply.lines[1].status = <<Digit(2), Digit(5), Digit(0)>>

\* How Tor writes a reply.
TorWrites(lines) ==
    LET Separator(i) ==
            IF lines[i].data # <<>> THEN Plus ELSE IF i = Len(lines) THEN Space ELSE Minus
        Stuffed(d) == EscapedLine(d)
        Line(i) ==
            <<lines[i].status \o <<Separator(i)>> \o lines[i].message \o CRLF>>
            \o (IF lines[i].data = <<>> THEN <<>>
                ELSE [j \in DOMAIN lines[i].data |-> Stuffed(lines[i].data[j])]
                     \o <<<<Dot>> \o CRLF>>)
    IN  FlattenSeq([i \in DOMAIN lines |-> Line(i)])

------------------------------------------------------------------------------
(* Configuration and information *)

\* getConf(QHash of lists): lines with more than one "=" are left out, and a key that was
\* not asked for goes on with the values of the line before it.
ConfLists(messages, keys) ==
    LET Read(acc, m) ==
            LET parts == Split(m, {Equals})
                key == parts[1]
                value == (IF key \in DOMAIN acc.map THEN acc.map[key] ELSE acc.value)
                         \o <<parts[2]>>
            IN  IF Len(parts) # 2 THEN acc
                ELSE [map |-> (key :> value) @@ acc.map, value |-> value]
    IN  FoldLeft(Read, [map |-> [k \in keys |-> <<>>], value |-> <<>>], messages).map
ConfList(messages, key) == ConfLists(messages, {key})[key]
ConfString(messages, key) == Joined(ConfList(messages, key), <<NL>>)

\* The key of a line, and its value, unquoted.
IndexOf(s, c) == FirstPlace(s, 1, LAMBDA x : x = c)
KeyOf(m) == SubSeq(m, 1, IndexOf(m, Equals) - 1)
ValueOf(m) ==
    LET i == IndexOf(m, Equals)
        v == IF i > 1 /\ i < Len(m) THEN Mid(m, i + 1) ELSE <<>>
    IN  IF Starts(v, <<Quote>>) /\ EndsWith(v, <<Quote>>) THEN StringUnescape(v) ELSE Good(v)
Collected(map, key, values) == (key :> IF key \in DOMAIN map THEN map[key] \o values ELSE values) @@ map

\* getConf(QStringList), a QVariantMap of strings or lists
ConfVariants(messages) ==
    LET Read(map, m) == IF ValueOf(m).ok THEN Collected(map, KeyOf(m), <<ValueOf(m).out>>) ELSE map
    IN  FoldLeft(Read, <<>>, messages)

\* getInfo(QStringList), a QVariantMap of lists: no value is none, and data follow it.
InfoVariants(lines) ==
    LET Read(map, line) ==
            LET v == ValueOf(line.message)
                i == IndexOf(line.message, Equals)
                value == IF i > 1 /\ i < Len(line.message) THEN <<v.out>> ELSE <<>>
            IN  IF v.ok THEN Collected(map, KeyOf(line.message), value \o line.data) ELSE map
    IN  FoldLeft(Read, <<>>, lines)

\* getInfo(QHash)
InfoStrings(messages, keys) ==
    LET Read(map, m) ==
            IF Len(Split(m, {Equals})) # 2 \/ ~ValueOf(m).ok THEN map
            ELSE (KeyOf(m) :> ValueOf(m).out) @@ map
    IN  FoldLeft(Read, [k \in keys |-> <<>>], messages)

\* What Tor makes of arguments of SETCONF, by key, and how it answers GETCONF: a key
\* without values has its name alone.
TorTakes(arg, key) ==
    LET quoted == Mid(arg, Len(key) + 2)
    IN  IF arg = key THEN <<>> ELSE StringUnescape(quoted).out
TorTells(key, values) ==
    IF values = <<>> THEN <<key>> ELSE [i \in DOMAIN values |-> key \o <<Equals>> \o values[i]]
\* Its answer as it is read: as lines of their own.
TorAnswers(values) ==
    LET taken == [k \in DOMAIN values |->
                     LET args == SetConf(values)[k]
                     IN  SelectSeq([i \in DOMAIN args |-> TorTakes(args[i], k)],
                                   LAMBDA v : v # <<>>)]
        keys == SetToSeq(DOMAIN values)
    IN  FlattenSeq([i \in DOMAIN keys |->
            LET told == TorTells(keys[i], taken[keys[i]])
            IN  [j \in DOMAIN told |-> UnescapedLine(told[j])]])

------------------------------------------------------------------------------
(* Checks, over strings of a few characters that cover each case of the code *)

Letters == {97, Space, Quote, Backslash, Equals}
Values == BoundedSeq(Letters, 3)

\* A string that is quoted is read back, whatever it holds: quotes, backslashes, line
\* ends, and DEL, whose number has three digits.  (Other control characters are not: their
\* octal numbers are too short.)
ASSUME EscapeIsUndone ==
    \A s \in BoundedSeq({97, Digit(1), Space, Quote, Backslash, NL, Tab, Delete, 233}, 3) :
        StringUnescape(StringEscape(s)) = Good(s)

\* Keys with quoted values are told apart, however much the values look like keys.
ASSUME KeyvalsAreRead ==
    \A v, w \in BoundedSeq(Letters, 2) :
        ParseKeyvals(<<97, Equals>> \o StringEscape(v) \o <<Space, 98, Equals>> \o StringEscape(w))
            = Good((<<97>> :> v) @@ (<<98>> :> w))

\* The arguments that the crash reporter is given are those that Vidalia was started with,
\* if each is in quotes or has neither blanks nor is empty: an empty one is lost.
ASSUME ArgumentsAreRead ==
    \A args \in BoundedSeq(BoundedSeq({97, Space, Quote, Backslash, Tab}, 2), 2) :
        ParseArguments(FormatArguments(args)) = Good(args) <=>
            \A i \in DOMAIN args :
                NeedsQuotes(args[i]) \/ (args[i] # <<>> /\ \A j \in DOMAIN args[i] : ~IsSpace(args[i][j]))

\* A reply is read as Tor wrote it, to its end and no further, with lines of data that
\* begin with dots, or are a dot.
ASSUME RepliesAreRead ==
    LET texts == {<<>>, <<97>>, <<Dot>>, <<Dot, Dot>>, <<Dot, 97>>}
        line == [status : {<<50, 53, 48>>}, message : {<<97>>, <<97, Equals>>},
                 data : {<<>>} \cup {<<t>> : t \in texts} \cup {<<t, u>> : t, u \in texts}]
        last == [status : {<<50, 53, 48>>, <<53, 53, 48>>}, message : {<<97>>}, data : {<<>>}]
        next == <<<<54, 53, 48, Space>> \o CRLF>>
    IN  \A l \in line, m \in last :
            ReadReply(TorWrites(<<l, m>>) \o next) =
                [ok |-> TRUE, lines |-> <<l, m>>, left |-> next]

\* What was set is what is read: by the list and the string reader if it has no "=", by the
\* variant one if it is not in quotes itself, and by neither if it ends in a blank, as
\* replies are trimmed.
ASSUME SettingsAreRead ==
    \A v \in Values \ {<<>>} :
        LET answer == TorAnswers(<<97>> :> <<v>>)
            blank == v[Len(v)] = Space
            quoted == v[1] = Quote /\ v[Len(v)] = Quote
        IN  /\ ConfList(answer, <<97>>) = <<v>> <=> Equals \notin ToSet(v) /\ ~blank
            /\ ConfVariants(answer) = (<<97>> :> <<v>>) <=> ~quoted /\ ~blank

\* Keys with several values keep their order and their own values.
ASSUME SettingsKeepOrder ==
    \A v, w, x \in {<<97>>, <<98>>, <<Quote>>} :
        LET values == (<<97>> :> <<v, w>>) @@ (<<98>> :> <<x>>)
            answer == TorAnswers(values)
        IN  ConfLists(answer, DOMAIN values) = values

\* A command in plain characters is written whole; one with others is reported as failed.
ASSUME PlainIsWritten ==
    \A v \in BoundedSeq({97, Quote, 233}, 2) :
        Written(CommandText(<<97>>, <<SetConfArgument(<<98>>, v)>>, <<>>)) <=> 233 \notin ToSet(v)
=============================================================================
