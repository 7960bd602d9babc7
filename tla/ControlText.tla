---------------------------- MODULE ControlText ----------------------------
(***************************************************************************)
(* Text as Vidalia writes and reads it: quoting and splitting              *)
(* (common/stringutil.cpp), commands (ControlCommand.cpp), and replies     *)
(* with their lines and data (ControlSocket.cpp, ReplyLine.cpp).           *)
(*                                                                         *)
(* A string is the sequence of its character codes.  The local 8-bit       *)
(* encoding is UTF-8, and characters are below 2048.                       *)
(***************************************************************************)
EXTENDS Integers, Sequences, SequencesExt, FiniteSetsExt

Tab == 9   NL == 10   CR == 13   Space == 32   Quote == 34   Comma == 44   Dot == 46
Equals == 61   Backslash == 92   Delete == 127
Digit(d) == 48 + d

IsSpace(c) == c \in 9 .. 13 \cup {Space, 133, 160}
IsDigit(c) == c \in Digit(0) .. Digit(9)
Named == [c \in {Quote, Backslash, NL, CR, Tab} |->
              CASE c = NL -> 110 [] c = CR -> 114 [] c = Tab -> 116 [] OTHER -> c]

\* The first of s's places from i on whose character is in P, or the place after the end.
FirstPlace(s, i, P(_)) == Min({j \in i .. Len(s) : P(s[j])} \cup {Len(s) + 1})
Starts(s, prefix) == IsPrefix(prefix, s)
EndsWith(s, suffix) == IsSuffix(suffix, s)
Mid(s, i) == SubSeq(s, i, Len(s))
NotSpace(c) == ~IsSpace(c)
Trimmed(s) ==
    LET shown == {i \in DOMAIN s : NotSpace(s[i])}
    IN  IF shown = {} THEN <<>> ELSE SubSeq(s, Min(shown), Max(shown))
Joined(strs, sep) ==
    FoldLeftDomain(LAMBDA acc, i : IF i = 1 THEN strs[1] ELSE acc \o sep \o strs[i], <<>>, strs)

\* QString::split(): the parts between the characters in seps.
RECURSIVE Split(_, _)
Split(s, seps) ==
    LET i == FirstPlace(s, 1, LAMBDA c : c \in seps)
    IN  IF i > Len(s) THEN <<s>> ELSE <<SubSeq(s, 1, i - 1)>> \o Split(Mid(s, i + 1), seps)

------------------------------------------------------------------------------
(* Quoting *)

Utf8(c) == IF c < 128 THEN <<c>> ELSE <<192 + (c \div 64), 128 + (c % 64)>>
Local8Bit(s) == FlattenSeq([i \in DOMAIN s |-> Utf8(s[i])])
RECURSIVE FromLocal8Bit(_)
FromLocal8Bit(b) ==
    IF b = <<>> THEN <<>>
    ELSE IF b[1] \in 194 .. 223 /\ Len(b) > 1 /\ b[2] \in 128 .. 191
    THEN <<(b[1] - 192) * 64 + b[2] - 128>> \o FromLocal8Bit(Mid(b, 3))
    ELSE <<b[1]>> \o FromLocal8Bit(Tail(b))

RECURSIVE Octal(_)
Octal(n) == IF n < 8 THEN <<Digit(n)>> ELSE Append(Octal(n \div 8), Digit(n % 8))

\* QString::number(c, 8) of a char: one from 128 on is negative, and its number is that of
\* a qlonglong, of 22 digits.
CharNumber(b) ==
    IF b < 128 THEN Octal(b)
    ELSE <<Digit(1)>> \o [i \in 1 .. 18 |-> Digit(7)] \o Octal(256 + b)
IsPrint(b) == b \in 32 .. 126 \/ b \in 160 .. 255

\* string_escape(): c < 127 is true of a negative char.
EscapedByte(b) ==
    IF b \in DOMAIN Named THEN <<Backslash, Named[b]>>
    ELSE IF IsPrint(b) THEN <<b>> ELSE <<Backslash>> \o CharNumber(b)
StringEscape(s) ==
    LET in == Local8Bit(s)
    IN  <<Quote>> \o FlattenSeq([i \in DOMAIN in |-> EscapedByte(in[i])]) \o <<Quote>>

Bad == [ok |-> FALSE]
Good(out) == [ok |-> TRUE, out |-> out]

\* toUInt() of the n digits from place i on, in that base; 256 if they are not digits.
Hex == [c \in 48 .. 57 \cup 65 .. 70 \cup 97 .. 102 |->
            IF c < 58 THEN c - 48 ELSE IF c < 71 THEN c - 55 ELSE c - 87]
NumberAt(s, i, n, base) ==
    IF \A j \in i .. i + n - 1 : s[j] \in DOMAIN Hex /\ Hex[s[j]] < base
    THEN FoldLeft(LAMBDA acc, c : acc * base + Hex[c], 0, SubSeq(s, i, i + n - 1))
    ELSE 256

\* The body of string_unescape() from place i on.
RECURSIVE Unescaped(_, _)
Unescaped(s, i) ==
    LET Then(b, next) ==
            LET rest == Unescaped(s, next)
            IN  IF rest.ok THEN Good(<<b>> \o rest.out) ELSE Bad
        CodeAt(at, n, base, next) ==
            IF i + 3 >= Len(s) \/ NumberAt(s, at, n, base) > 255 THEN Bad
            ELSE Then(NumberAt(s, at, n, base), next)
        c == s[i + 1]
    IN  CASE i >= Len(s) -> Good(<<>>)
          [] i < Len(s) /\ s[i] = Quote -> Bad
          [] i < Len(s) /\ s[i] = Backslash ->
                (CASE c = 110 -> Then(NL, i + 2)
                   [] c = 114 -> Then(CR, i + 2)
                   [] c = 116 -> Then(Tab, i + 2)
                   [] c = 120 -> CodeAt(i + 2, 2, 16, i + 4)
                   [] IsDigit(c) -> CodeAt(i + 1, 3, 8, i + 4)
                   [] OTHER -> Then(c, i + 2))
          [] OTHER -> Then(s[i], i + 1)

StringUnescape(s) ==
    LET quoted == Len(s) >= 2 /\ s[1] = Quote /\ s[Len(s)] = Quote
        open == EndsWith(s, <<Backslash, Quote>>) /\ ~EndsWith(s, <<Backslash, Backslash, Quote>>)
        body == Unescaped(s, 2)
    IN  IF quoted /\ ~open /\ body.ok THEN Good(FromLocal8Bit(body.out)) ELSE Bad

------------------------------------------------------------------------------
(* Splitting *)

\* The place after the quoted text that begins before i, or 0: it ends in a backslash.
RECURSIVE Closing(_, _)
Closing(s, i) ==
    CASE i > Len(s) -> i
      [] i <= Len(s) /\ s[i] = Backslash -> IF i = Len(s) THEN 0 ELSE Closing(s, i + 2)
      [] i <= Len(s) /\ s[i] = Quote -> i + 1
      [] OTHER -> Closing(s, i + 1)

\* A value that begins at place i, quoted or up to a space, and the place after it.
ValueAt(s, i) ==
    IF i <= Len(s) /\ s[i] = Quote
    THEN LET end == Closing(s, i + 1)
             v == StringUnescape(SubSeq(s, i, end - 1))
         IN  IF end # 0 /\ v.ok THEN [ok |-> TRUE, out |-> v.out, next |-> end] ELSE Bad
    ELSE LET end == FirstPlace(s, i, IsSpace)
         IN  [ok |-> TRUE, out |-> SubSeq(s, i, end - 1), next |-> end]

\* string_parse_keyvals(): a later value for a key replaces the earlier one.
RECURSIVE KeyvalsFrom(_, _)
KeyvalsFrom(s, start) ==
    LET i == FirstPlace(s, start, NotSpace)
        end == FirstPlace(s, i, LAMBDA c : IsSpace(c) \/ c = Equals)
        key == SubSeq(s, i, end - 1)
        v == IF end <= Len(s) /\ s[end] = Equals THEN ValueAt(s, end + 1)
             ELSE [ok |-> TRUE, out |-> <<>>, next |-> end]
        rest == KeyvalsFrom(s, v.next)
    IN  IF i > Len(s) THEN Good(<<>>)
        ELSE IF v.ok /\ rest.ok THEN Good(rest.out @@ (key :> v.out)) ELSE Bad
ParseKeyvals(s) == KeyvalsFrom(s, 1)

\* string_parse_arguments()
RECURSIVE ArgumentsFrom(_, _)
ArgumentsFrom(s, start) ==
    LET i == FirstPlace(s, start, NotSpace)
        v == ValueAt(s, i)
        rest == ArgumentsFrom(s, v.next)
    IN  IF i > Len(s) THEN Good(<<>>)
        ELSE IF v.ok /\ rest.ok THEN Good(<<v.out>> \o rest.out) ELSE Bad
ParseArguments(s) == ArgumentsFrom(s, 1)

\* string_format_arguments()
NeedsQuotes(arg) == ToSet(arg) \cap {Quote, Backslash, Space} # {}
FormatArguments(args) ==
    Joined([i \in DOMAIN args |-> IF NeedsQuotes(args[i]) THEN StringEscape(args[i]) ELSE args[i]],
           <<Space>>)

\* ensure_valid_chars(), string_is_hex(), base16_encode() and scrub_email_addr()
EnsureValidChars(s, valid) == SelectSeq(s, LAMBDA c : c \in valid)
IsHex(s) == ToSet(s) \subseteq DOMAIN Hex
HexDigit(n) == IF n < 10 THEN Digit(n) ELSE 55 + n
Base16(bytes) ==
    FlattenSeq([i \in DOMAIN bytes |-> <<HexDigit(bytes[i] \div 16), HexDigit(bytes[i] % 16)>>])
ScrubEmail(s) ==
    FlattenSeq([i \in DOMAIN s |-> CASE s[i] = 64 -> <<32, 97, 116, 32>>
                                      [] s[i] = Dot -> <<32, 100, 111, 116, 32>>
                                      [] OTHER -> <<s[i]>>])

\* string_format_uptime(): the numbers of days, hours, minutes and seconds.
Uptime(seconds) ==
    <<seconds \div 86400, (seconds \div 3600) % 24, (seconds \div 60) % 60, seconds % 60>>

\* string_wrap(): n characters are left on the line.
RECURSIVE WrapFrom(_, _, _, _)
WrapFrom(s, pos, n, width) ==
    LET sep == FirstPlace(s, pos, LAMBDA c : c = Space)
        length == sep - pos
        left == (IF length > n THEN width ELSE n) - length - 1
    IN  IF pos > Len(s) THEN <<>>
        ELSE (IF length > n THEN <<NL>> ELSE <<>>) \o SubSeq(s, pos, Min({sep, Len(s)}))
             \o WrapFrom(s, sep + 1, left, width)
Wrap(s, width) == IF Len(s) < width THEN s ELSE Trimmed(WrapFrom(s, 1, width, width))
=============================================================================
