---------------------------- MODULE Translations ----------------------------
(***************************************************************************)
(* The programs that carry translations between Qt (.ts), gettext (.po),   *)
(* NSIS (.nsh) and WiX (.wxl): ts2po, po2ts, nsh2po, po2nsh, po2wxl.       *)
(*                                                                         *)
(* A text is the sequence of its character codes, and a file the sequence  *)
(* of its lines.  A line of a .po file has a kind, which its first word    *)
(* says, and the text after it: "blank", "comment" (#), "ref" (#:),        *)
(* "ctxt", "id", "str", "more" (it begins with a quote) or "other".        *)
(***************************************************************************)
EXTENDS ControlText

Hash == 35   Dollar == 36   LeftBrace == 123   RightBrace == 125   LeftBracket == 91
RightBracket == 93   LowerN == 110   LowerR == 114
EscapedNL == <<Backslash, LowerN>>
EscapedCR == <<Backslash, LowerR>>
Broken == <<Quote, NL, Quote>>
Absent == <<0>>     \* no text at all

PoLine(kind, text) == [kind |-> kind, text |-> text]
Blank == PoLine("blank", <<>>)

\* QString::replace(), which goes on behind what it has put in.
RECURSIVE Replaced(_, _, _)
Replaced(s, from, to) ==
    IF s = <<>> THEN <<>>
    ELSE IF Starts(s, from) THEN to \o Replaced(Mid(s, Len(from) + 1), from, to)
    ELSE <<s[1]>> \o Replaced(Tail(s), from, to)
Unquoted(s) ==
    LET tail == IF Starts(s, <<Quote>>) THEN Tail(s) ELSE s
    IN  IF EndsWith(tail, <<Quote>>) THEN Front(tail) ELSE tail
Quoted(s) == <<Quote>> \o s \o <<Quote>>

------------------------------------------------------------------------------
(* Reading a .po file *)

\* parse_message_context() and parse_message_context_lame()
ContextName(text) == SelectSeq(Trimmed(text), LAMBDA c : c # Quote)
ContextOfRef(text) ==
    IF Hash \in ToSet(text) THEN SubSeq(text, 1, FirstPlace(text, 1, LAMBDA c : c = Hash) - 1)
    ELSE <<>>

\* read_next_line(): skips white space; at the end it reads an empty line.
NextLine(lines) ==
    LET shown == {i \in DOMAIN lines : lines[i] # Blank}
    IN  IF shown = {} THEN [line |-> Blank, rest |-> <<>>]
        ELSE [line |-> lines[Min(shown)], rest |-> Mid(lines, Min(shown) + 1)]

\* skip_po_header() and skip_pot_header(): up to the first empty line.
AfterHeader(po) ==
    LET lines == Mid(po, Min({i \in DOMAIN po : po[i] # Blank} \cup {Len(po) + 1}))
    IN  Mid(lines, Min({i \in DOMAIN lines : lines[i] = Blank} \cup {Len(lines)}) + 1)

\* A string that may go on on the next lines, joined by break, and what follows it.
RECURSIVE Gathered(_, _, _)
Gathered(text, lines, break) ==
    LET n == NextLine(lines)
    IN  IF n.line.kind = "more" THEN Gathered(text \o break \o n.line.text, n.rest, break)
        ELSE [text |-> text, next |-> n]

RECURSIVE Commented(_, _)
Commented(n, ctxt) ==
    IF n.line.kind \notin {"comment", "ref"} THEN [next |-> n, ctxt |-> ctxt]
    ELSE Commented(NextLine(n.rest),
                   IF n.line.kind = "ref" THEN ContextOfRef(n.line.text) ELSE ctxt)

\* The loop of po2ts(), po2nsh() and po2wxl(), with n read: what they make of an entry is
\* applied to its texts later.  msgctxt is that of the entry before, if no line says it.
RECURSIVE EntriesFrom(_, _)
EntriesFrom(n, ctxt) ==
    LET c == Commented(n, ctxt)
        named == c.next.line.kind = "ctxt"
        here == IF named THEN ContextName(c.next.line.text) ELSE c.ctxt
        m == IF named THEN NextLine(c.next.rest) ELSE c.next
        id == Gathered(m.line.text, m.rest, <<NL>>)
        str == Gathered(id.next.line.text, id.next.rest, <<NL>>)
        more == EntriesFrom(str.next, here)
    IN  IF n.rest = <<>> THEN Good(<<>>)
        ELSE IF m.line.kind # "id" \/ id.next.line.kind # "str" \/ ~more.ok THEN Bad
        ELSE Good(<<[ctxt |-> here, id |-> id.text, str |-> str.text]>> \o more.out)
Entries(po) == EntriesFrom(NextLine(AfterHeader(po)), <<>>)

------------------------------------------------------------------------------
(* .ts: a sequence of contexts, each with its messages *)

\* convert_context(): a string as the lines of its kind; location as the text of a ref.
Escaped(s) ==
    LET plain == SelectSeq(Trimmed(s), LAMBDA c : c # CR)
    IN  Replaced(Replaced(plain, <<Quote>>, <<Backslash, Quote>>), <<NL>>, EscapedNL \o Broken)
PoLines(kind, s) ==
    LET parts == Split(Quoted(Escaped(s)), {NL})
    IN  [i \in DOMAIN parts |-> PoLine(IF i = 1 THEN kind ELSE "more", parts[i])]
PoEntry(ctxt, m) ==
    (IF m.location # <<>> THEN <<PoLine("ref", m.location)>> ELSE <<>>)
    \o <<PoLine("ctxt", Quoted(ctxt))>>
    \o PoLines("id", m.source) \o PoLines("str", m.translation) \o <<Blank>>

PoHeader == <<PoLine("id", Quoted(<<>>)), PoLine("str", Quoted(<<>>)),
              PoLine("more", Quoted(<<LowerN>>)), Blank>>

\* ts2po(): contexts without a name, and messages without a source, are errors.
Ts2Po(ts) ==
    IF \E i \in DOMAIN ts : \/ ts[i].name = Absent
                            \/ \E j \in DOMAIN ts[i].messages : ts[i].messages[j].source = Absent
    THEN Bad
    ELSE Good(PoHeader \o FlattenSeq([i \in DOMAIN ts |->
                  FlattenSeq([j \in DOMAIN ts[i].messages |->
                      PoEntry(ts[i].name, ts[i].messages[j])])]))

\* parse_message_string() of po2ts.cpp
TsString(text) ==
    Replaced(Unquoted(Replaced(Trimmed(text), Broken, <<>>)), <<Backslash, Quote>>, <<Quote>>)

\* new_message_element(); what has no translation is marked unfinished.
TsMessage(e) ==
    [source |-> TsString(e.id), translation |-> TsString(e.str), location |-> <<>>,
     finished |-> TsString(e.str) # <<>>]

\* po2ts(): messages are put into the context of that name, wherever it is.
AddMessage(ts, e) ==
    LET at == {i \in DOMAIN ts : ts[i].name = e.ctxt}
        new == [name |-> e.ctxt, messages |-> <<TsMessage(e)>>]
    IN  IF at = {} THEN Append(ts, new)
        ELSE [ts EXCEPT ![Min(at)].messages = Append(@, TsMessage(e))]
Po2Ts(po) ==
    LET read == Entries(po)
    IN  IF read.ok THEN Good(FoldLeft(AddMessage, <<>>, read.out)) ELSE Bad

------------------------------------------------------------------------------
(* .nsh: a sequence of LangString lines, a name and a quoted text or Absent *)

\* parse_message_string() of po2nsh.cpp and parse_nsh_langstring()
NshString(text) ==
    Replaced(Replaced(TsString(text), EscapedNL, EscapedCR \o EscapedNL),
             <<Dollar>> \o EscapedCR \o EscapedNL,
             <<Dollar>> \o EscapedCR \o <<Dollar>> \o EscapedNL)
FromLangString(text) ==
    Replaced(Replaced(Replaced(Unquoted(Trimmed(text)), <<Dollar>> \o EscapedNL, EscapedNL),
                      <<Dollar>> \o EscapedCR, <<>>), EscapedCR, <<>>)

Po2Nsh(po) ==
    LET read == Entries(po)
        Shown(e) == IF NshString(e.str) = <<>> THEN NshString(e.id) ELSE NshString(e.str)
    IN  IF ~read.ok THEN Bad
        ELSE Good([i \in DOMAIN read.out |->
                      [name |-> read.out[i].ctxt, text |-> Quoted(Shown(read.out[i]))]])

\* parse_message_string() of nsh2po.cpp
TemplateString(text) ==
    Replaced(Replaced(Unquoted(Trimmed(text)), <<Backslash, Quote>>, <<Quote>>),
             EscapedCR \o EscapedNL, EscapedNL)

\* parse_po_template(): the pairs of name and source.  The name that a ref has is replaced
\* by a msgctxt, or skipped with the msgid that follows it.
RECURSIVE TemplateFrom(_)
TemplateFrom(n) ==
    LET m == NextLine(n.rest)
        id == Gathered(m.line.text, m.rest, <<>>)
        more == TemplateFrom(id.next)
    IN  IF n.rest = <<>> THEN Good(<<>>)
        ELSE IF n.line.kind # "ctxt" THEN TemplateFrom(m)
        ELSE IF m.line.kind # "id" \/ ~more.ok THEN Bad
        ELSE Good(<<[name |-> ContextName(n.line.text), id |-> TemplateString(id.text)]>>
                  \o more.out)
Template(pot) == TemplateFrom(NextLine(AfterHeader(pot)))

\* nsh2po(): msgstr is that of the line before, if a line has no quote.
LangStrings(nsh) ==
    FoldLeft(LAMBDA acc, l :
                 LET s == IF l.text = Absent THEN acc.last ELSE FromLangString(l.text)
                 IN  [last |-> s, known |-> (l.name :> s) @@ acc.known],
             [last |-> <<>>, known |-> <<>>], nsh).known
\* The entries it writes, which are not escaped.
Nsh2Po(nsh, pot) ==
    LET known == LangStrings(nsh)
        ids == FoldLeft(LAMBDA acc, e : (e.name :> e.id) @@ acc, <<>>, Template(pot).out)
    IN  IF ~Template(pot).ok THEN Bad
        ELSE Good({[ctxt |-> n, id |-> Quoted(ids[n]),
                    str |-> Quoted(IF n \in DOMAIN known THEN known[n] ELSE ids[n])] :
                       n \in DOMAIN ids})

------------------------------------------------------------------------------
(* .wxl: a sequence of identifiers and texts, the first for the language *)

\* parse_message_string() of po2wxl.cpp
RECURSIVE Bracketed(_)
Bracketed(s) ==
    LET left == Min({i \in 1 .. Len(s) - 1 : s[i] = Dollar /\ s[i + 1] = LeftBrace} \cup {Len(s) + 1})
        right == FirstPlace(s, left, LAMBDA c : c = RightBrace)
    IN  IF right > Len(s) THEN s
        ELSE Bracketed(SubSeq(s, 1, left - 1) \o <<LeftBracket>> \o SubSeq(s, left + 2, right - 1)
                       \o <<RightBracket>> \o Mid(s, right + 1))
WxlString(text) ==
    Bracketed(Replaced(Unquoted(Replaced(Trimmed(text), Broken, <<NL>>)),
                       <<Backslash, Quote>>, <<Quote>>))

\* culture_lcid(): 0 if it is none of these.
Lcid == [en |-> 1033, cs |-> 1029, de |-> 1031, es |-> 1034, fa |-> 1065, fi |-> 1035,
         fr |-> 1036, he |-> 1037, it |-> 1040, nl |-> 1043, pl |-> 1045, pt |-> 1046,
         ro |-> 1048, ru |-> 1049, sv |-> 1053]
CultureLcid(culture) == IF culture \in DOMAIN Lcid THEN Lcid[culture] ELSE 0

Po2Wxl(culture, po) ==
    LET read == Entries(po)
        Shown(e) == IF WxlString(e.str) = <<>> THEN WxlString(e.id) ELSE WxlString(e.str)
    IN  IF ~read.ok THEN Bad
        ELSE Good(<<[id |-> "LCID", text |-> CultureLcid(culture)]>>
                  \o [i \in DOMAIN read.out |-> [id |-> read.out[i].ctxt, text |-> Shown(read.out[i])]])

------------------------------------------------------------------------------
(* Arguments: main() counts them, and never asks which there were *)

Takes == [ts2po |-> {"i", "o", "c"}, po2ts |-> {"i", "o", "c"}, nsh2po |-> {"t", "i", "o", "c"},
          po2nsh |-> {"i", "o", "l", "f", "t"}, po2wxl |-> {"n", "i", "o", "c"}]
Counts == [ts2po |-> 5 .. 8, po2ts |-> 5 .. 8, nsh2po |-> 7 .. 10, po2nsh |-> 7 .. 12,
           po2wxl |-> 5 .. 9]
Needed == [ts2po |-> {"i", "o"}, po2ts |-> {"i", "o"}, nsh2po |-> {"t", "i", "o"},
           po2nsh |-> {"i", "o", "l"}, po2wxl |-> {"n", "i", "o"}]
\* Each option of given once, with its value.
Runs(program, given, quiet) ==
    1 + 2 * Cardinality(given) + (IF quiet THEN 1 ELSE 0) \in Counts[program]

------------------------------------------------------------------------------
(* What is checked *)

Texts(chars, n) == UNION {[1 .. k -> chars] : k \in 0 .. n}
Ctxt == <<65>>
Letter == 97
OneMessage(source, translation) ==
    <<[name |-> Ctxt, messages |-> <<[source |-> source, translation |-> translation,
                                      location |-> <<Letter, 58, 49>>, finished |-> TRUE]>>]>>

\* A text survives the way from .ts to .po and back, but for the space around it and its
\* line breaks, which come back as the two characters that stand for them.
ASSUME BreaksAreLost ==
    \A t \in Texts({Letter, Quote, Backslash, NL, Space}, 4) :
        LET back == Po2Ts(Ts2Po(OneMessage(t, t)).out).out[1].messages[1]
            kept == Replaced(Trimmed(t), <<NL>>, EscapedNL)
        IN  back.source = kept /\ back.translation = kept /\ back.finished = (kept # <<>>)

Message(t) == [source |-> t, translation |-> t, location |-> <<>>, finished |-> t # <<>>]
\* So do whole files, contexts with one name becoming one.
ASSUME FilesComeBack ==
    \A a, b, c \in {<<Letter>>, <<Letter, Letter>>} : \A x, y, z \in {<<Letter>>, <<Quote>>} :
        LET back == Po2Ts(Ts2Po(<<[name |-> a, messages |-> <<Message(x)>>],
                                  [name |-> b, messages |-> <<Message(y)>>],
                                  [name |-> c, messages |-> <<Message(z)>>]>>).out)
        IN  /\ back.ok
            /\ {ts.name : ts \in ToSet(back.out)} = {a, b, c} /\ Len(back.out) = Cardinality({a, b, c})
            /\ back.out[1].messages[1] = Message(x)
            /\ a = c => z \in {m.source : m \in ToSet(back.out[1].messages)}

EntryOf(s) == <<PoLine("id", Quoted(s)), PoLine("str", Quoted(s))>>
\* An entry without a context gets that of the entry before it, not the empty one.
ASSUME ContextGoesOn ==
    LET po == PoHeader \o <<PoLine("ctxt", Quoted(Ctxt))>> \o EntryOf(<<Letter>>)
              \o EntryOf(<<Letter>>)
    IN  [i \in 1 .. 2 |-> Entries(po).out[i].ctxt] = <<Ctxt, Ctxt>>
\* One comment at the end of a file is skipped; two refuse the whole file, although comments
\* are ignored, and so does one with an empty line behind it.
ASSUME TrailingComments ==
    LET po == PoHeader \o EntryOf(<<Letter>>)
        note == PoLine("comment", <<>>)
    IN  Entries(po \o <<note>>).ok /\ ~Entries(po \o <<note, note>>).ok
        /\ ~Entries(po \o <<note, Blank>>).ok
\* Contexts given by #: are read by the other programs, but never by nsh2po.
ASSUME RefsAreLost ==
    LET po == PoHeader \o <<PoLine("ref", Ctxt \o <<Hash, Letter>>)>> \o EntryOf(<<Letter>>)
    IN  Entries(po).out[1].ctxt = Ctxt /\ Template(po).out = <<>>
\* A source that goes on on a second line keeps the quotes between the lines in nsh2po.
ASSUME QuotesAreKept ==
    LET pot == PoHeader \o <<PoLine("ctxt", Quoted(Ctxt)), PoLine("id", Quoted(<<Letter>>)),
                             PoLine("more", Quoted(<<Letter>>)), PoLine("str", Quoted(<<>>))>>
    IN  Template(pot).out[1].id = <<Letter, Quote, Quote, Letter>>
        /\ TsString(Entries(pot).out[1].id) = <<Letter, Letter>>
\* A text comes back from .nsh, but for a dollar before a line break, and for \r.
ASSUME NshComesBack ==
    \A t \in Texts({Letter, Dollar, Backslash, LowerN, LowerR}, 5) :
        (\A i \in 1 .. Len(t) - 1 : <<t[i], t[i + 1]>> \notin {EscapedCR, <<Dollar, Backslash>>})
        => FromLangString(Quoted(NshString(Quoted(t)))) = t
\* A line without a quote is given the translation of the line before.
ASSUME StaleTranslation ==
    \A s \in Texts({Letter, Quote}, 2) :
        LangStrings(<<[name |-> Ctxt, text |-> Quoted(s)], [name |-> <<66>>, text |-> Absent]>>)[<<66>>]
        = s
\* No variable is left in a .wxl text, and nothing else is changed.
ASSUME VariablesAreBracketed ==
    \A t \in Texts({Letter, Dollar, LeftBrace, RightBrace}, 5) :
        LET out == Bracketed(t)
        IN  /\ \A i, j \in DOMAIN out :
                   i + 1 < j => ~(out[i] = Dollar /\ out[i + 1] = LeftBrace /\ out[j] = RightBrace)
            /\ SelectSeq(out, LAMBDA c : c = Letter) = SelectSeq(t, LAMBDA c : c = Letter)
            /\ (\A i \in 1 .. Len(t) - 1 : ~(t[i] = Dollar /\ t[i + 1] = LeftBrace)) => out = t
\* Every program runs with all that it needs, whatever else is given - but po2wxl refuses to
\* run with everything -, and each runs without something that it needs, too.
ASSUME ArgumentsAreCounted ==
    \A p \in DOMAIN Takes :
        /\ \A given \in SUBSET Takes[p], quiet \in BOOLEAN :
               (Needed[p] \subseteq given /\ ~Runs(p, given, quiet))
               <=> p = "po2wxl" /\ given = Takes[p] /\ quiet
        /\ \E given \in SUBSET Takes[p] : Runs(p, given, FALSE) /\ ~(Needed[p] \subseteq given)
=============================================================================
