---------------------------- MODULE Application ----------------------------
(***************************************************************************)
(* Starting Vidalia: command line, settings file, language and style, the  *)
(* pid file that several Vidalias share, Vidalia's own log, and what is    *)
(* left for the program that reports a crash and starts Vidalia again.     *)
(*                                                                         *)
(* A value is a string; Lower says which ones toLower() changes.  Styles    *)
(* are the keys of QStyleFactory.                                          *)
(***************************************************************************)
EXTENDS ControlText

None == "none"
Lower(v) == CASE v = "pt_BR" -> "pt_br" [] v = "hr_HR" -> "hr_hr" [] v = "zh_CN" -> "zh_cn"
              [] v = "Info" -> "info" [] v = "Off" -> "off" [] v = "My.log" -> "my.log"
              [] v = "Cleanlooks" -> "cleanlooks" [] v = "Motif" -> "motif" [] OTHER -> v
Lowers(vs) == {Lower(v) : v \in vs}

------------------------------------------------------------------------------
(* Command line.  A token is its text as a value, and, without dashes and in lower case, *)
(* the name before a possible "=" with what follows that, or None.                       *)

Token(text, name, follows) == [text |-> text, name |-> name, follows |-> follows]
Flag(name) == Token("-" \o name, name, None)
With(name, value) == Token(name \o "=" \o value, name, Lower(value))
Word(value) == Token(value, Lower(value), None)

ArgNeedsValue == {"style", "lang", "datadir", "pidfile", "logfile", "loglevel"}
\* parseArguments(): a later value replaces an earlier one.
RECURSIVE ParsedFrom(_, _, _)
ParsedFrom(tokens, i, args) ==
    LET t == tokens[i]
        takes == t.follows = None /\ i < Len(tokens) /\ t.name \in ArgNeedsValue
        value == IF t.follows # None THEN t.follows ELSE IF takes THEN tokens[i + 1].text ELSE ""
    IN  IF i > Len(tokens) THEN args
        ELSE ParsedFrom(tokens, i + (IF takes THEN 2 ELSE 1), (t.name :> value) @@ args)
Parsed(tokens) == ParsedFrom(tokens, 1, <<>>)
Has(args, name) == name \in DOMAIN args
ValueOf(args, name) == IF Has(args, name) THEN args[name] ELSE ""

Codes == {"en", "ar", "bg", "my", "cs", "ca", "da", "de", "es", "el", "eu", "fa", "fi", "fr", "he",
          "hu", "hr_HR", "it", "id", "ko", "nb", "nl", "pl", "pt", "pt_BR", "ro", "ru", "sv", "sr",
          "tr", "zh_CN"}
LogLevels == <<"debug", "info", "notice", "warn", "error">>
Off == 6     Unknown == 7
StringToLogLevel(v) ==
    IF Lower(v) = "off" THEN Off
    ELSE Min({i \in 1 .. 5 : LogLevels[i] = Lower(v)} \cup {Unknown})

\* validateArguments(): "" if all is well, or else the first thing that is not.
Refusal(args, styles, logIsOpen) ==
    LET checks == <<
            <<"value", \E n \in DOMAIN args : n \in ArgNeedsValue /\ args[n] = "">>,
            <<"lang", Has(args, "lang") /\ args["lang"] \notin Codes>>,
            <<"style", Has(args, "style") /\ Lower(args["style"]) \notin Lowers(styles)>>,
            <<"loglevel", Has(args, "loglevel") /\ args["loglevel"] \notin ToSet(LogLevels)>>,
            <<"logfile", Has(args, "logfile") /\ ~logIsOpen>>>>
        wrong == {i \in DOMAIN checks : checks[i][2]}
    IN  IF wrong = {} THEN "" ELSE checks[Min(wrong)][1]

------------------------------------------------------------------------------
(* Vidalia's log: its level and what it is written to *)

NoLog == [level |-> 3, file |-> None]     \* Log::Log()
SetLogLevel(log, level) ==
    [level |-> IF level # Unknown THEN level ELSE log.level,
     file |-> IF level = Off THEN None ELSE log.file]
\* The constructor's part; opens says whether the file can be opened.
LogOf(args, opens) ==
    LET named == IF Has(args, "logfile") /\ opens
                 THEN [NoLog EXCEPT !.file = args["logfile"]] ELSE NoLog
        set == SetLogLevel(named, StringToLogLevel(ValueOf(args, "loglevel")))
    IN  CASE Has(args, "loglevel") /\ ~Has(args, "logfile") -> [set EXCEPT !.file = "stdout"]
          [] Has(args, "loglevel") /\ Has(args, "logfile") -> set
          [] Has(args, "logfile") /\ ~Has(args, "loglevel") -> named
          [] OTHER -> SetLogLevel(NoLog, Off)
Writes(log, level) == log.file # None /\ level >= log.level

------------------------------------------------------------------------------
(* Settings: the file maps keys to values; what is not there has its default *)

ValueIn(file, defaults, key) == IF key \in DOMAIN file THEN file[key] ELSE defaults[key]
SetValueIn(file, defaults, key, val) ==
    IF val = defaults[key] THEN [k \in DOMAIN file \ {key} |-> file[k]]
    ELSE IF val # ValueIn(file, defaults, key) THEN (key :> val) @@ file
    ELSE file
Reset(file) == <<>>
AllSettings(file, defaults) == [k \in DOMAIN file |-> ValueIn(file, defaults, k)]

\* defaultLanguageCode(): from the locale's language and country.
DefaultLanguageCode(language, country) ==
    LET name == language \o "_" \o country
        short == IF name \in {"zh_CN", "zh_TW"} THEN name ELSE language
    IN  IF short \in Codes THEN short ELSE "en"
\* VidaliaSettings::VidaliaSettings()
Defaults(locale, styles) ==
    [LanguageCode |-> DefaultLanguageCode(locale[1], locale[2]),
     InterfaceStyle |-> IF "cleanlooks" \in Lowers(styles) THEN "cleanlooks" ELSE "plastique",
     RunTorAtStart |-> "true", RunProxyAtStart |-> "false", ProxyExecutable |-> "", ProxyExecutableArguments |-> ""]

------------------------------------------------------------------------------
(* Language and style: the interface has those of ui, the settings those they store *)

\* retranslateUi(): loads says whether the translation could be loaded.
RetranslateUi(ui, code, loads) ==
    CASE code \notin Codes -> Bad
      [] code = "en" -> Good([ui EXCEPT !.language = code, !.translators = "none"])
      [] code \in Codes \ {"en"} ->
            IF loads THEN Good([ui EXCEPT !.language = code, !.translators = code]) ELSE Bad
SetLanguage(ui, arg, file, defaults, loads) ==
    LET new == RetranslateUi(ui, IF arg = "" THEN ValueIn(file, defaults, "LanguageCode") ELSE arg,
                             loads)
    IN  IF new.ok THEN new.out ELSE ui
SetStyle(ui, arg, file, defaults, styles) ==
    LET style == IF arg = "" THEN ValueIn(file, defaults, "InterfaceStyle") ELSE arg
    IN  IF Lower(style) \in Lowers(styles) THEN [ui EXCEPT !.style = style] ELSE ui

\* AppearancePage::load(): a box shows "" if it has no such entry.
LoadAppearance(ui, file, defaults, styles) ==
    LET code == ValueIn(file, defaults, "LanguageCode")
    IN  [language |-> IF code \in Codes THEN code ELSE "",
         style |-> IF Lower(ui.style) \in Lowers(styles)
                   THEN CHOOSE style \in styles : Lower(style) = Lower(ui.style) ELSE ""]
\* AppearancePage::save(): refused with nothing stored, or the interface and the file after it.
SaveAppearance(ui, shown, file, defaults, styles, loads) ==
    LET code == shown.language
        changed == ValueIn(file, defaults, "LanguageCode") # code
        new == IF changed THEN RetranslateUi(ui, code, loads) ELSE Good(ui)
        stored == IF changed THEN SetValueIn(file, defaults, "LanguageCode", code) ELSE file
    IN  IF ~new.ok THEN Bad
        ELSE Good([ui |-> SetStyle(new.out, shown.style, stored, defaults, styles),
                   file |-> SetValueIn(stored, defaults, "InterfaceStyle", shown.style)])

\* GeneralPage::save() and load(): the proxy is stored only while it is to be run.
SaveGeneral(page, file, defaults) ==
    LET Set(f, key, val) == SetValueIn(f, defaults, key, val)
        proxy == IF page.runProxy = "false" THEN file
                 ELSE Set(Set(file, "ProxyExecutable", page.proxy),
                          "ProxyExecutableArguments", page.arguments)
    IN  IF page.tor = "" THEN Bad
        ELSE Good([tor |-> page.tor,
                   file |-> Set(Set(proxy, "RunTorAtStart", page.runTor),
                                "RunProxyAtStart", page.runProxy)])
LoadGeneral(tor, file, defaults) ==
    [tor |-> tor, runTor |-> ValueIn(file, defaults, "RunTorAtStart"),
     runProxy |-> ValueIn(file, defaults, "RunProxyAtStart"),
     proxy |-> ValueIn(file, defaults, "ProxyExecutable"),
     arguments |-> ValueIn(file, defaults, "ProxyExecutableArguments")]

------------------------------------------------------------------------------
(* Message boxes: buttons are [text, default, escape], as they are ORed; no button is NoButton *)

NoButton == [text |-> "", default |-> FALSE, escape |-> FALSE]
DefaultButton(b) == Min({i \in {1, 2} : b[i + 1].default} \cup {3}) % 3
EscapeButton(b) == ((Min({i \in 0 .. 2 : b[i + 1].escape} \cup {3}) + 1) % 4) - 1
Selected(ret, b) == IF ret \in {0, 1} THEN b[ret + 1].text ELSE b[3].text

------------------------------------------------------------------------------
(* The pid file: missing, empty (or not a number) or the process, from 1 on, that wrote it *)

Missing == -1     Empty == 0
\* main() of each process: looks at the file, is asked if another seems to run and goes on,
\* opens the file, writes its pid, and removes the file when it ends - or crashes.
FirstState(procs) ==
    [file |-> Missing, alive |-> procs, asked |-> {}]
ReadPidfile(s) == IF s.file \in {Missing, Empty} THEN 0 ELSE s.file
IsProcessRunning(s, pid) == pid \in s.alive
IsVidaliaRunning(s) == ReadPidfile(s) > 0 /\ IsProcessRunning(s, ReadPidfile(s))
\* write_pidfile() truncates the file first.
OpenPidfile(s) == [s EXCEPT !.file = Empty]
WritePidfile(s, pid) == [s EXCEPT !.file = pid]
Happens(s, e) ==
    CASE e[2] = "check" -> [s EXCEPT !.asked = IF IsVidaliaRunning(s) THEN @ \cup {e[1]} ELSE @]
      [] e[2] = "open" -> OpenPidfile(s)
      [] e[2] = "write" -> WritePidfile(s, e[1])
      [] e[2] = "remove" -> [s EXCEPT !.file = Missing, !.alive = @ \ {e[1]}]
      [] e[2] = "crash" -> [s EXCEPT !.alive = @ \ {e[1]}]
After(procs, events) == FoldLeft(Happens, FirstState(procs), events)

\* What main() does before its event loop runs.
Outcome(args, styles, logIsOpen, running, goesOn) ==
    CASE Has(args, "help") -> "usage"
      [] ~Has(args, "help") /\ Refusal(args, styles, logIsOpen) # "" -> "refused"
      [] OTHER -> IF running /\ ~goesOn THEN "duplicate" ELSE "runs"
\* The constructor comes before that.
FileAfterStart(args, file) == IF Has(args, "reset") THEN Reset(file) ELSE file

------------------------------------------------------------------------------
(* Crashes *)

\* append_string(), of lengths: the length that dst has then, and what is returned.
AppendString(dst, src, siz) ==
    [dst |-> IF dst >= siz THEN dst ELSE Min({dst + src, siz - 1}),
     ret |-> Min({dst, siz}) + src]
\* The path of a dump, an id and an extension, in a buffer of size siz.
Composed(path, id, extension, siz) ==
    LET whole == FoldLeft(LAMBDA d, n : AppendString(d, n, siz).dst, 0, <<path, 1, id>>)
    IN  AppendString(whole, extension, siz)

\* setup_crash_reporter(), with what each of its parts finds.
SetRestartOptions(old, exe, args, limit) ==
    IF exe.length > limit \/ args.length > limit THEN old ELSE [exe |-> exe, args |-> args]
Setup(reporterRuns, reporterLength, maxPath, dumpDir) ==
    LET shown == reporterRuns /\ reporterLength <= maxPath
    IN  [shown |-> shown, handler |-> shown /\ dumpDir]
\* minidump_callback()
Reported(setup, written, path, id, maxCmd) ==
    setup.handler /\ written /\ setup.shown /\ Composed(path, id, 4, maxCmd).ret < maxCmd
\* write_extra_dump_info() fails by itself; the reporter then has no file to read.
ExtraInfo(path, id, maxPath) == Composed(path, id, 9, maxPath).ret < maxPath

\* read_annotations_file(): a pair is read from a line with a key and a value.
Annotation(line) ==
    LET t == Trimmed(line)
        i == FirstPlace(t, 1, LAMBDA c : c = Equals)
    IN  IF i > 1 /\ i < Len(t) THEN Trimmed(Mid(t, i + 1)) ELSE <<>>
\* The arguments that accept() starts Vidalia with, of those it had: one line of the file that
\* write_keyval_to_file() makes of string_format_arguments().
RestartedWith(args) ==
    ParseArguments(Annotation(Split(<<65, Equals>> \o FormatArguments(args), {NL})[1]))
Report(argc, dump, info, annotations) ==
    CASE argc < 2 -> "no dump" [] argc >= 2 /\ ~dump -> "unreadable dump"
      [] argc >= 2 /\ dump /\ ~info -> "unreadable annotations"
      [] OTHER -> IF annotations = {} THEN "no annotations" ELSE "dialog"

------------------------------------------------------------------------------
(* What is checked *)

LOCAL Styles == {"Cleanlooks", "Windows"}
LOCAL American == Defaults(<<"en", "US">>, Styles)
LOCAL Tokens == {Flag("reset"), Flag("help"), Flag("lang"), Flag("datadir"), Flag("loglevel"),
                 With("lang", "pt_BR"), With("loglevel", "Info"), Word("pt_BR"), Word("Info"),
                 Word("info"), Word("/tmp")}
LOCAL CommandLines == UNION {[1 .. n -> Tokens] : n \in 0 .. 3}

\* A value after "=" is in lower case by the time it is looked at, so a language with a country
\* can be asked for only as an argument of its own, and a log level in capitals only with "=".
ASSUME CaseDependsOnForm ==
    /\ \A code \in Codes :
          LET joined == Parsed(<<With("lang", code)>>)
              apart == Parsed(<<Flag("lang"), Word(code)>>)
          IN  /\ Refusal(apart, Styles, FALSE) = ""
              /\ (Refusal(joined, Styles, FALSE) = "") <=> (Lower(code) = code)
    /\ Refusal(Parsed(<<With("loglevel", "Info")>>), Styles, FALSE) = ""
    /\ Refusal(Parsed(<<Flag("loglevel"), Word("Info")>>), Styles, FALSE) = "loglevel"

\* Whatever is given, an argument that needs a value never runs Vidalia without one, but it takes
\* the argument after it, so that "-datadir -reset" resets nothing.
ASSUME ValuesAreTaken ==
    \A tokens \in CommandLines :
       LET args == Parsed(tokens)
       IN  /\ Refusal(args, Styles, TRUE) = "" => \A n \in DOMAIN args \cap ArgNeedsValue : args[n] # ""
           /\ tokens = <<Flag("datadir"), Flag("reset")>> => FileAfterStart(args, <<1>>) = <<1>>

\* The settings are gone although the arguments are refused, or only the usage is shown: the file
\* is cleared by the constructor, the arguments are validated by main() after it.
ASSUME ResetComesFirst ==
    /\ \A tokens \in CommandLines :
          LET args == Parsed(<<Flag("reset")>> \o tokens)
          IN  FileAfterStart(args, "saved" :> "true") = <<>>
    /\ {Outcome(Parsed(<<Flag("reset")>> \o tokens), Styles, TRUE, FALSE, TRUE) : tokens \in CommandLines}
          = {"runs", "refused", "usage"}

\* A command line that is not refused sets the log level it names; with neither argument nothing is
\* written; "off", which the settings know, cannot be asked for on the command line.
ASSUME LogIsAsAsked ==
    /\ \A level \in ToSet(LogLevels), opens \in BOOLEAN :
          LET args == Parsed(<<Flag("loglevel"), Word(level), Flag("logfile"), Word("My.log")>>)
          IN  Refusal(args, Styles, opens) = ""
                => \A l \in 1 .. 5 : Writes(LogOf(args, opens), l) <=> l >= StringToLogLevel(level)
    /\ \A l \in 1 .. 5 : ~Writes(LogOf(Parsed(<<Flag("reset")>>), TRUE), l)
    /\ Refusal(Parsed(<<Flag("loglevel"), Word("Off")>>), Styles, TRUE) = "loglevel"

\* What is set is what is read, whatever was stored; but a value that equals the default is not
\* stored, and is another one when the default, the locale's language, is another.
ASSUME SetIsRead ==
    LET files == UNION {[d -> {"en", "de", "fr"}] : d \in SUBSET {"LanguageCode"}}
        german == Defaults(<<"de", "DE">>, Styles)
    IN  /\ \A f \in files, v \in {"en", "de", "fr"} :
              LET set == SetValueIn(f, American, "LanguageCode", v)
              IN  /\ ValueIn(set, American, "LanguageCode") = v
                  /\ ValueIn(set, german, "LanguageCode") = (IF v = "en" THEN "de" ELSE v)
                  /\ AllSettings(set, American) = set
        /\ \A f \in files : ValueIn(f, german, "LanguageCode") \in Codes

\* Every locale has a default that can be loaded, but Brazilian and Croatian are nobody's.
ASSUME DefaultsAreLanguages ==
    LET languages == {"en", "de", "pt", "hr", "zh", "eo", "C"}
        Of == {DefaultLanguageCode(l, c) : l \in languages, c \in {"US", "BR", "HR", "CN", "TW"}}
    IN  Of \subseteq Codes /\ "zh_CN" \in Of /\ Of \cap {"pt_BR", "hr_HR"} = {}

\* If the Appearance page cannot change the language nothing is stored and the interface stays.  If
\* it saves, the interface and the settings agree, and the page shows what they are.
ASSUME AppearanceAgrees ==
    \A stored \in Codes \cup {"eo"}, code \in {"en", "de", "pt_BR", ""}, arg \in {"", "Motif", "Windows"},
       loads \in BOOLEAN :
       LET file == "LanguageCode" :> stored
           first == [language |-> "", translators |-> "none", style |-> ""]
           ui == SetStyle(SetLanguage(first, "", file, American, TRUE), arg, file, American, Styles)
           shown == [LoadAppearance(ui, file, American, Styles) EXCEPT !.language = code]
           saved == SaveAppearance(ui, shown, file, American, Styles, loads)
       IN  /\ saved.ok <=> code = stored \/ code = "en" \/ (code # "" /\ loads)
           /\ saved.ok => /\ LoadAppearance(saved.out.ui, saved.out.file, American, Styles) = shown
                           /\ code # stored => saved.out.ui.language = code
                           /\ saved.out.ui.translators \in {"none", saved.out.ui.language}

\* A style given on the command line is stored by the next OK, whatever page it was for; so is the
\* default style, in the capitals of the box.  A language given there is not.
ASSUME StyleIsPinned ==
    \A arg \in {"", "Windows"}, lang \in {"", "de"} :
       LET first == [language |-> "", translators |-> "none", style |-> ""]
           ui == SetStyle(SetLanguage(first, lang, <<>>, American, TRUE), arg, <<>>, American, Styles)
           saved == SaveAppearance(ui, LoadAppearance(ui, <<>>, American, Styles), <<>>, American,
                                   Styles, TRUE)
       IN  /\ saved.ok
           /\ saved.out.file = "InterfaceStyle" :> (IF arg = "" THEN "Cleanlooks" ELSE arg)
           /\ saved.out.ui.language = ui.language

\* A stored language that Vidalia no longer has refuses every OK until one is chosen.
ASSUME UnknownLanguageBlocks ==
    LET file == "LanguageCode" :> "eo"
        ui == [language |-> "", translators |-> "none", style |-> "Windows"]
        shown == LoadAppearance(ui, file, American, Styles)
    IN  /\ ~SaveAppearance(ui, shown, file, American, Styles, TRUE).ok
        /\ \A code \in Codes :
              SaveAppearance(ui, [shown EXCEPT !.language = code], file, American, Styles, TRUE).ok

\* The General page shows again what it stored, but a proxy that is not to be run is forgotten.
ASSUME GeneralComesBack ==
    \A tor \in {"", "tor"}, runTor \in {"true", "false"}, runProxy \in {"true", "false"},
       proxy \in {"", "privoxy", "polipo"}, args \in {"", "-c"} :
       LET page == [tor |-> tor, runTor |-> runTor, runProxy |-> runProxy, proxy |-> proxy,
                    arguments |-> args]
           old == "ProxyExecutable" :> "polipo"
           saved == SaveGeneral(page, old, American)
           back == LoadGeneral(saved.out.tor, saved.out.file, American)
       IN  /\ saved.ok <=> tor # ""
           /\ saved.ok => back = IF runProxy = "true" THEN page
                                  ELSE [page EXCEPT !.proxy = "polipo", !.arguments = ""]

\* However its buttons are flagged, a box has one default and at most one escape, the first that is
\* flagged, except that the first button is the default if no other is; and no
\* return but that of its own button is taken for an answer to continue beside another Vidalia.
ASSUME ButtonsAreAsFlagged ==
    /\ \A b \in [1 .. 3 -> [text : {"a"}, default : BOOLEAN, escape : BOOLEAN]] :
          /\ DefaultButton(b) = 0 \/ b[DefaultButton(b) + 1].default
          /\ b[2].default => DefaultButton(b) = 1
          /\ IF \E i \in 1 .. 3 : b[i].escape
             THEN /\ b[EscapeButton(b) + 1].escape
                  /\ \A i \in 1 .. EscapeButton(b) : ~b[i].escape
             ELSE EscapeButton(b) = -1
    /\ LET b == <<[NoButton EXCEPT !.text = "Continue"],
                  [NoButton EXCEPT !.text = "Quit", !.default = TRUE], NoButton>>
       IN  /\ Selected(DefaultButton(b), b) = "Quit"
           /\ Selected(EscapeButton(b), b) # "Continue"

\* Every order of the steps of two processes.
RECURSIVE Orders(_, _)
Orders(s, t) ==
    IF s = <<>> \/ t = <<>> THEN {s \o t}
    ELSE {<<s[1]>> \o o : o \in Orders(Tail(s), t)} \cup {<<t[1]>> \o o : o \in Orders(s, Tail(t))}
LOCAL Steps(p, end) == <<<<p, "check">>, <<p, "open">>, <<p, "write">>, <<p, end>>>>
LOCAL At(order, step) == CHOOSE i \in DOMAIN order : order[i] = step

\* A user is asked about another Vidalia exactly if it has written the file and not yet removed it.
\* Two that look before either writes are both not asked; one that is asked and goes on takes the
\* file over, and whichever of them ends first removes it, so that a third is not asked about the
\* other.  A process that crashed is not taken for one that runs.
ASSUME PidFileIsAdvisory ==
    /\ \A order \in Orders(Steps(1, "remove"), Steps(2, "remove")) :
          2 \in After({1, 2}, order).asked
             <=> /\ At(order, <<1, "write">>) < At(order, <<2, "check">>)
                 /\ At(order, <<2, "check">>) < At(order, <<1, "remove">>)
    /\ \E order \in Orders(Steps(1, "remove"), Steps(2, "remove")) :
          /\ At(order, <<2, "check">>) < At(order, <<1, "remove">>)
          /\ At(order, <<1, "check">>) < At(order, <<2, "remove">>)
          /\ After({1, 2}, order).asked = {}
    /\ \A end \in {"remove", "crash"}, p \in {1, 2} :
          LET both == SubSeq(Steps(1, end), 1, 3) \o SubSeq(Steps(2, end), 1, 3)
              then == After({1, 2, 3}, both \o <<<<p, end>>, <<3, "check">>>>)
          IN  3 \in then.asked <=> end = "crash" /\ p = 1
    /\ \A order \in Orders(Steps(1, "crash"), Steps(2, "remove")) :
          2 \in After({1, 2}, order).asked
             => At(order, <<2, "check">>) < At(order, <<1, "crash">>)

\* A path never leaves its buffer, and what is returned says whether it is whole.
ASSUME PathsFit ==
    \A path \in 0 .. 12, id \in 0 .. 4, siz \in 1 .. 14 :
       LET all == Composed(path, id, 4, siz)
       IN  /\ all.dst < siz
           /\ (all.ret < siz) <=> (all.dst = path + 1 + id + 4)

\* The reporter is started for a dump without its annotations, and can only say so: their path is
\* longer, and has the smaller buffer.
ASSUME AnnotationsMayBeMissing ==
    /\ \E path \in 1 .. 12 :
          Reported(Setup(TRUE, 5, 12, TRUE), TRUE, path, 2, 20) /\ ~ExtraInfo(path, 2, 12)
    /\ Report(2, TRUE, FALSE, {}) = "unreadable annotations"
    /\ \A path \in 1 .. 12, written \in BOOLEAN, length \in 11 .. 13 :
          Reported(Setup(TRUE, length, 12, TRUE), written, path, 2, 20) => written /\ length <= 12

\* Vidalia starts again with the arguments it had, unless one of them is empty or holds white
\* space other than spaces without anything that would have it quoted: a line break then ends the
\* line that the reporter reads, and a tab splits the argument.
ASSUME ArgumentsComeBack ==
    LET words == UNION {[1 .. n -> {97, Equals, Space, Tab, NL, Quote, Backslash}] : n \in 0 .. 3}
        Plain(w) == w # <<>> /\ (NeedsQuotes(w) \/ ToSet(w) \cap {Tab, NL} = {})
    IN  /\ \A w \in words : RestartedWith(<<w>>) = Good(<<w>>) <=> Plain(w)
        /\ \A w \in {x \in words : Plain(x) /\ Len(x) = 2} :
              RestartedWith(<<<<97>>, w>>) = Good(<<<<97>>, w>>)
        /\ RestartedWith(<<<<97, NL, 97>>, <<98>>>>) = Good(<<<<97>>>>)
        /\ SetRestartOptions("none", [length |-> 3], [length |-> 5], 4) = "none"
=============================================================================
