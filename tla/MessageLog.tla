----------------------------- MODULE MessageLog -----------------------------
(***************************************************************************)
(* The message log (vidalia/log/MessageLog.cpp, LogTreeWidget, LogFile):   *)
(* what Tor logs reaches it over Tor's standard output (TorProcess.cpp)    *)
(* until Tor has accepted a SETEVENTS, and as events from then on.  It     *)
(* lists the newest messages that pass a filter, may write them to a file, *)
(* and keeps its settings.                                                 *)
(*                                                                         *)
(* One thread.  A message box, or a slot of authenticated() that runs an   *)
(* event loop, waits on the stack while signals are handled.               *)
(***************************************************************************)
EXTENDS Naturals, Sequences, SequencesExt, Lists

CONSTANTS
    Severities,   \* of messages
    Printed,      \* the severities that Tor prints to its standard output
    Filters,      \* sets of severities that a user may choose
    MaxCounts,    \* lengths of the list that a user may choose
    Files,        \* names of log files
    MaxTors,      \* bound: Tors that are started
    MaxMessages,  \* bound: messages of one Tor
    MaxDepth      \* bound: slots that wait for a nested event loop

None == "none"    \* no file is open, or no name is given

ASSUME LogAssumption ==
    /\ Printed \subseteq Severities /\ Filters \subseteq SUBSET Severities
    /\ MaxCounts \subseteq Nat \ {0}   \* the minimum of spnbxMaxCount is 1
    /\ None \notin Files
    /\ MaxTors \in Nat /\ MaxMessages \in Nat /\ MaxDepth \in Nat

VARIABLES
    \* Tor
    tor,        \* which Tor it is, does it run, and how many messages it has logged
    link,       \* the connection is Down, Up or Authed
    wired,      \* the severities of the last SETEVENTS that it accepted
    \* on their way
    stdout,     \* is the standard output read
    pipe,       \* messages in it
    queue,      \* events on their way to the GUI thread
    \* the window
    stored,     \* the settings file; _filter and _maxItemCount follow it
    enable,     \* _enableLogging
    file,       \* the log file that is open
    listed,     \* the items of listMessages, oldest first
    stack,      \* slots inside a nested event loop, innermost last
    \* history
    refused,    \* has the last SETEVENTS on this connection failed
    overlap     \* Tors that were asked for log events while their output was read

torside == <<tor, link, wired>>
channels == <<stdout, pipe, queue>>
logging == <<enable, file>>
history == <<refused, overlap>>
vars == <<torside, channels, stored, logging, listed, stack, history>>

Settings == [filter : Filters, max : MaxCounts, enable : BOOLEAN, file : Files \cup {None}]
Messages == [tor : 1 .. MaxTors, n : 1 .. MaxMessages, sev : Severities]
Boxes == {"name", "file", "load", "events"}

\* A log file that is to be opened: it is, or it cannot be and the old one stays.
OldFile(old, name) == {name, old}
Opens(old, name) == IF old = name THEN {name} ELSE OldFile(old, name)

\* The constructor: loadSettings() before there is a connection.
Loaded ==
    /\ enable = stored.enable
    /\ file \in IF stored.enable THEN Opens(None, stored.file) ELSE {None}

Init ==
    /\ tor = [id |-> 0, runs |-> FALSE, said |-> 0]
    /\ link = "Down" /\ wired = {}
    /\ stdout = FALSE /\ pipe = <<>> /\ queue = <<>>
    /\ stored \in {s \in Settings : s.enable => s.file # None}
    /\ Loaded
    /\ listed = <<>> /\ stack = <<>>
    /\ refused = FALSE /\ overlap = {}

------------------------------------------------------------------------------
(* Tor *)

\* start(): QProcess opens the channel anew, after it has read all of the last one.  A
\* Tor that is not Vidalia's has no channel.
TorStarts ==
    /\ ~tor.runs /\ tor.id < MaxTors /\ pipe = <<>>
    /\ tor' = [id |-> tor.id + 1, runs |-> TRUE, said |-> 0]
    /\ stdout' \in BOOLEAN
    /\ UNCHANGED <<link, wired, pipe, queue, stored, logging, listed, stack, history>>

TorExits ==
    /\ tor.runs
    /\ tor' = [tor EXCEPT !.runs = FALSE]
    /\ link' = "Down" /\ wired' = {} /\ refused' = FALSE
    /\ UNCHANGED <<channels, stored, logging, listed, stack, overlap>>

TorLogs(s) ==
    LET m == [tor |-> tor.id, n |-> tor.said + 1, sev |-> s]
    IN  /\ tor.runs /\ tor.said < MaxMessages
        /\ tor' = [tor EXCEPT !.said = @ + 1]
        /\ pipe' = IF stdout /\ s \in Printed THEN Append(pipe, m) ELSE pipe
        /\ queue' = IF s \in wired THEN Append(queue, m) ELSE queue
        /\ UNCHANGED <<link, wired, stdout, stored, logging, listed, stack, history>>

LinkGoesUp ==
    /\ tor.runs /\ link = "Down" /\ link' = "Up"
    /\ UNCHANGED <<tor, wired, channels, stored, logging, listed, stack, history>>

LinkGoesDown ==
    /\ link # "Down" /\ link' = "Down" /\ wired' = {} /\ refused' = FALSE
    /\ UNCHANGED <<tor, channels, stored, logging, listed, stack, overlap>>

TorStep ==
    \/ TorStarts \/ TorExits
    \/ \E s \in Severities : TorLogs(s)
    \/ LinkGoesUp \/ LinkGoesDown

------------------------------------------------------------------------------
(* The list *)

\* LogTreeWidget::log() makes room for one.
MakeRoom(items) ==
    IF Len(items) >= stored.max /\ items # <<>> THEN Tail(items) ELSE items

\* setMaximumMessageCount()
CutToSize(items, max) ==
    IF Len(items) <= max THEN items ELSE SubSeq(items, Len(items) - max + 1, Len(items))

\* filter() keeps the newest that pass, as many as there may be.
Passing(items, filter) == Kept(items, {i \in DOMAIN items : items[i].sev \in filter})
Filtered(items, filter, max) == CutToSize(Passing(items, filter), max)

\* MessageLog::log()
Log(m) ==
    listed' = IF m.sev \in stored.filter THEN Append(MakeRoom(listed), m) ELSE listed

\* TorProcess::onReadyRead(), TorControl::onLogStdout()
ReadPipe ==
    /\ stdout /\ pipe # <<>>
    /\ Log(Head(pipe)) /\ pipe' = Tail(pipe)
    /\ UNCHANGED <<torside, stdout, queue, stored, logging, stack, history>>

\* TorEvents::handleLogMessage()
HandleEvent ==
    /\ queue # <<>>
    /\ Log(Head(queue)) /\ queue' = Tail(queue)
    /\ UNCHANGED <<torside, stdout, pipe, stored, logging, stack, history>>

\* clear()
ClearMessages ==
    /\ listed # <<>> /\ listed' = <<>>
    /\ UNCHANGED <<torside, channels, stored, logging, stack, history>>

------------------------------------------------------------------------------
(* Registration *)

Top == Last(stack)
Beneath == Front(stack)
Frame(at) == [at |-> at]
FileBox(form) == [at |-> "file", form |-> form]
BoxIsOpen == \E i \in DOMAIN stack : stack[i].at \in Boxes

\* setEvent() adds the event of a severity or removes it.
NeverRemoved(filter) == stored.filter \cup filter
Asked(filter) == filter

\* setEvents(): Tor accepts it or not.  It closes the connection on a command that
\* comes before AUTHENTICATE.
Accepted(filter) ==
    /\ link = "Authed" /\ wired' = Asked(filter) /\ refused' = FALSE
    /\ UNCHANGED link
Refused ==
    /\ link # "Down" /\ refused' = (link = "Authed")
    /\ link' = (IF link = "Authed" THEN link ELSE "Down")
    /\ UNCHANGED wired

\* TorProcess::closeStdout(): what QProcess has not read is lost.
LeaveStdout == UNCHANGED <<stdout, pipe>>
CloseStdout == stdout' = FALSE /\ pipe' = <<>>

\* MainWindow::connected() authenticates; the first slots of authenticated() follow.
Authenticate ==
    /\ link = "Up" /\ link' = "Authed"
    /\ Len(stack) < MaxDepth /\ stack' = Append(stack, Frame("auth"))
    /\ UNCHANGED <<tor, wired, channels, stored, logging, listed, history>>

\* MainWindow::authenticated() is the last one.
RegisterAll ==
    /\ stack # <<>> /\ Top.at = "auth" /\ stack' = Beneath
    /\ \/ Accepted(stored.filter) /\ CloseStdout
       \/ Refused /\ LeaveStdout
       \/ link = "Down" /\ UNCHANGED <<link, wired, refused, stdout, pipe>>
    /\ UNCHANGED <<tor, queue, stored, logging, listed, overlap>>

\* MessageLog::registerLogEvents(), and filter() unless a message box comes first.
\* rest is what waits already.
Register(filter, max, items, rest) ==
    \/ /\ \/ Accepted(filter) /\ overlap' = IF stdout THEN overlap \cup {tor.id} ELSE overlap
          \/ link = "Down" /\ UNCHANGED <<link, wired, history>>
       /\ listed' = Filtered(items, filter, max) /\ stack' = rest
    \/ /\ Refused /\ UNCHANGED overlap
       /\ listed' = items /\ stack' = Append(rest, Frame("events"))

------------------------------------------------------------------------------
(* Settings.  A message box is modal, so that the form stays as it is while it is open. *)

\* rotateLogFile(): the file that is open then
Rotated(form) == IF form.enable THEN Opens(file, form.file) ELSE {None}
Succeeds(form) == file' = IF form.enable THEN form.file ELSE None

\* saveSettings() after rotateLogFile()
StoreAnyway(form) == form
StoreForm(form) ==
    IF Succeeds(form) THEN form
                      ELSE [form EXCEPT !.enable = stored.enable, !.file = stored.file]
SaveRest(form, rest) ==
    /\ stored' = StoreForm(form)
    /\ Register(form.filter, form.max, CutToSize(listed, form.max), rest)

Save(form) ==
    /\ ~BoxIsOpen /\ enable' = form.enable
    /\ \/ /\ form.enable /\ form.file = None
          /\ stack' = Append(stack, Frame("name"))
          /\ UNCHANGED <<file, stored, link, wired, listed, history>>
       \/ /\ form.enable => form.file # None
          /\ file' \in Rotated(form)
          /\ IF Succeeds(form)
             THEN SaveRest(form, stack)
             ELSE /\ stack' = Append(stack, FileBox(form))
                  /\ UNCHANGED <<stored, link, wired, listed, history>>
    /\ UNCHANGED <<tor, channels>>

\* cancelChanges(): loadSettings()
Cancel ==
    /\ ~BoxIsOpen /\ enable' = stored.enable
    /\ file' \in Rotated(stored)
    /\ UNCHANGED stored
    /\ IF Succeeds(stored)
       THEN Register(stored.filter, stored.max, CutToSize(listed, stored.max), stack)
       ELSE /\ stack' = Append(stack, Frame("load"))
            /\ listed' = CutToSize(listed, stored.max)
            /\ UNCHANGED <<link, wired, history>>
    /\ UNCHANGED <<tor, channels>>

\* What follows a message box.  The name box ends saveSettings().
BoxAnswered ==
    /\ stack # <<>> /\ Top.at \in Boxes
    /\ UNCHANGED <<tor, channels, logging>>
    /\ \/ /\ Top.at = "name" /\ stack' = Beneath
          /\ UNCHANGED <<stored, link, wired, listed, history>>
       \/ Top.at = "file" /\ SaveRest(Top.form, Beneath)
       \/ /\ Top.at = "load" /\ UNCHANGED stored
          /\ Register(stored.filter, stored.max, listed, Beneath)
       \/ /\ Top.at = "events" /\ stack' = Beneath
          /\ listed' = Filtered(listed, stored.filter, stored.max)
          /\ UNCHANGED <<stored, link, wired, history>>

\* Vidalia ends, with the Tor it runs, and is started again.
VidaliaRestarts ==
    /\ tor' = [tor EXCEPT !.runs = FALSE]
    /\ link' = "Down" /\ wired' = {} /\ refused' = FALSE
    /\ stdout' = FALSE /\ pipe' = <<>> /\ queue' = <<>>
    /\ enable' = stored.enable
    /\ file' \in IF stored.enable THEN Opens(None, stored.file) ELSE {None}
    /\ listed' = <<>> /\ stack' = <<>>
    /\ UNCHANGED <<stored, overlap>>

------------------------------------------------------------------------------
Next ==
    \/ TorStep
    \/ ReadPipe \/ HandleEvent
    \/ ~BoxIsOpen /\ ClearMessages
    \/ (Len(stack) < MaxDepth /\ \E form \in Settings : Save(form))
    \/ (Len(stack) < MaxDepth /\ Cancel)
    \/ Authenticate \/ RegisterAll \/ BoxAnswered
    \/ VidaliaRestarts

Spec == Init /\ [][Next]_vars
------------------------------------------------------------------------------
(* Properties *)

\* The messages of a Tor are listed in the order in which it logged them, and none
\* twice, although they come on two ways: "Stop reading from Tor's stdout immediately,
\* since we successfully registered for Tor events" (MainWindow.cpp:1582).  A Tor that
\* the settings of the log registered for its events before that is excepted.  There are
\* never more than the user allows, whatever was filtered or trimmed below a message box.
InOrder ==
    /\ Len(listed) <= stored.max
    /\ \A i, j \in DOMAIN listed :
        (i < j /\ listed[i].tor = listed[j].tor /\ listed[i].tor \notin overlap)
           => listed[i].n < listed[j].n

\* Once the window has been told of a connection, Tor reports what the filter lets
\* through, however the filter was changed meanwhile, unless it refused a SETEVENTS.
AuthWaits == \E i \in DOMAIN stack : stack[i].at = "auth"
RegisteredAsFiltered ==
    (link = "Authed" /\ ~AuthWaits /\ ~refused) => wired = stored.filter

\* Messages are written to the file that the settings name, or to none if it could not be
\* opened when they were loaded; and to none if the settings say so: a file that cannot be
\* opened leaves the old one and the old settings, also while the message box that says so
\* is open.
LogsAsStored == file \in IF stored.enable THEN {stored.file, None} ELSE {None}
=============================================================================
