---------------------------- MODULE TorLifecycle ----------------------------
(***************************************************************************)
(* How Vidalia starts, stops, connects to and loses Tor: the slots of      *)
(* MainWindow on top of TorControl, TorProcess and the control connection. *)
(*                                                                         *)
(* Every slot runs in the GUI thread.  A message box spins an event loop   *)
(* of its own, so that other slots run while the slot that opened it is    *)
(* suspended: stack holds the suspended slots, the innermost first.  A     *)
(* frame that is not a dialog is code that runs before any other event.    *)
(* The settings a slot reads may have changed since they were last read,   *)
(* and so are chosen afresh each time.                                     *)
(***************************************************************************)
EXTENDS Naturals, Sequences, SequencesExt

CONSTANTS
    MaxQueue,   \* bound: signals queued for the GUI thread
    MaxDialogs, \* bound: message boxes open at once
    MaxTimers   \* bound: pending singleShot()s of the New Identity button

ASSUME LifecycleAssumption ==
    MaxQueue \in Nat \ {0} /\ MaxDialogs \in Nat \ {0} /\ MaxTimers \in Nat \ {0}

VARIABLES
    ui,         \* _status, and the slot and state of the Start/Stop button
    flags,      \* _isIntentionalExit, _delayedShutdownStarted, _isVidaliaRunningTor
    identity,   \* is the New Identity button enabled
    idTimers,   \* pending enableNewIdentity() timers
    app,        \* "Running", "Quitting" after quit(), "Gone" after aboutToQuit()
    quitOnStop, \* is stopped() connected to quit()
    proc,       \* the Tor process; "Exited": QProcess has not noticed yet
    ext,        \* does a Tor that Vidalia did not start listen
    conn,       \* the ControlConnection
    queue,      \* signals of the control thread queued for the GUI thread
    stack,      \* the suspended slots of the GUI thread
    asked       \* history: has this Tor process been asked to stop

guiVars == <<ui, flags, identity, idTimers, app, quitOnStop, stack, asked>>
vars == <<guiVars, proc, ext, conn, queue>>

Dialogs == {"askStop", "stopFailed", "connectFailed", "authFailed", "cookie"}

Frame(at) == [at |-> at, prev |-> "Unset", close |-> FALSE]

\* late is history: some connection succeeded after cancelConnect().
Quiet == [status |-> "Unset", thread |-> "Off", link |-> "None", late |-> FALSE]

Init ==
    /\ ui = [status |-> "Stopped", slot |-> "start", enabled |-> TRUE, restored |-> FALSE]
    /\ flags \in [intentional : BOOLEAN, delayed : BOOLEAN, ours : {FALSE}]
    /\ identity = FALSE /\ idTimers = 0
    /\ app = "Running" /\ quitOnStop = FALSE
    /\ proc = "NotRunning" /\ ext \in BOOLEAN
    /\ conn = Quiet /\ queue = <<>> /\ stack = <<>> /\ asked = FALSE

\* An event loop is running: the application's, or that of the top message box.
AtLoop == app = "Running" /\ (stack # <<>> => Head(stack).at \in Dialogs)

\* No message box blocks the main window and its menus.
Idle == app = "Running" /\ stack = <<>>

At(f) == app = "Running" /\ stack # <<>> /\ Head(stack).at = f

Open(f, rest) ==
    /\ Len(SelectSeq(rest, LAMBDA g : g.at \in Dialogs)) < MaxDialogs
    /\ stack' = <<f>> \o rest

------------------------------------------------------------------------------
(* ControlConnection and TorControl, as functions of the connection *)

\* ControlConnection::connect(): ignored, but for an error in the log, while the
\* control thread of an earlier connection is running.
Connecting(c) ==
    IF c.thread = "Off"
    THEN [c EXCEPT !.status = "Connecting", !.thread = "Running", !.link = "Dialing"]
    ELSE c

\* ControlConnection::cancelConnect(), called if status() is Connecting.
Cancelled(c) ==
    IF c.status = "Connecting"
    THEN [c EXCEPT !.status = "Disconnected", !.thread = "Exiting"]
    ELSE c

\* TorControl::disconnect()
Disconnecting(c) ==
    IF c.status = "Connected"
    THEN [c EXCEPT !.status = "Disconnecting", !.link = IF @ = "None" THEN @ ELSE "Closing"]
    ELSE c

\* A command can be written to the socket.
CanSend == conn.link \in {"ours", "ext", "Lost"}

IsVidaliaRunningTor == proc # "NotRunning"
IsRunning == IsVidaliaRunningTor \/ conn.status = "Connected"

------------------------------------------------------------------------------
(* MainWindow's updateTorStatus() and the slots that others call *)

\* updateTorStatus(): only Stopped, Started and Starting touch the button.
\* restored is history: the button is as a failed stop() put it back, although
\* slots that ran while its message box was open had changed it.
ShownUnbound(s) ==
    IF s = "Stopped"
    THEN [status |-> s, slot |-> "start", enabled |-> TRUE, restored |-> FALSE]
    ELSE [ui EXCEPT !.status = s, !.enabled = s # "Starting"]
ShownDisabled(s) ==
    [ui EXCEPT !.status = s, !.enabled = s = "Started" \/ (@ /\ s # "Starting"),
               !.slot = CASE s = "Stopped" -> "start" [] s = "Started" -> "stop" [] OTHER -> @]
Shown(s) ==
    CASE s = "Stopped"  -> [status |-> s, slot |-> "start", enabled |-> TRUE, restored |-> FALSE]
      [] s = "Started"  -> [status |-> s, slot |-> "stop", enabled |-> TRUE, restored |-> FALSE]
      [] s = "Starting" -> [ui EXCEPT !.status = s, !.enabled = FALSE]
      [] OTHER          -> [ui EXCEPT !.status = s]

Show(s) == ui' = Shown(s)

\* started(), up to the test of autoControlPort.
KeepIntent == flags.intentional
ResetIntent == FALSE
ShowStarted(process) ==
    /\ Show("Started")
    /\ flags' = [intentional |-> ResetIntent, delayed |-> FALSE, ours |-> process # "NotRunning"]
    /\ proc' = process

\* started() connects to the control port.  With autoControlPort, the port.conf
\* that Tor should have written may be missing (connectFailed()), or not
\* understood (return).
Started(process, rest) ==
    /\ ShowStarted(process)
    /\ \/ conn' = Connecting(conn) /\ stack' = rest
       \/ UNCHANGED conn /\ Open(Frame("connectFailed"), rest)
       \/ UNCHANGED conn /\ stack' = rest

\* TorControl::onStopped() and MainWindow::stopped(), whose warning about an
\* unexpected exit changes nothing.
OnStopped(c) == proc' = "NotRunning" /\ conn' = Cancelled(c) /\ Show("Stopped")

\* quit(), the other slot of TorControl's stopped(), once close() has connected
\* it.  What the message boxes still open do as they close is not followed.
QuitOnStopped == app' = IF quitOnStop THEN "Quitting" ELSE app

\* A Tor answers on the control port.
Listening == ext \/ proc = "Running"

\* start(): a Tor that answers on the control port is taken as started, and so
\* is one that TorControl::start() finds running; otherwise the process is
\* launched.  With autoControlPort the port is not probed.
Start(rest) ==
    \/ (Listening \/ IsRunning) /\ Started(proc, rest) /\ UNCHANGED asked
    \/ /\ ~IsRunning
       /\ Show("Starting")
       /\ flags' = [flags EXCEPT !.intentional = TRUE]
       /\ proc' = "Starting" /\ asked' = FALSE
       /\ stack' = rest
       /\ UNCHANGED conn

\* TorControl::stop() returns true at once: SIGNAL HALT is written, or there is no
\* process to stop.
StopsAtOnce == (conn.status = "Connected" /\ CanSend) \/ proc = "NotRunning"

\* TorProcess::stop(): terminate() and waitForFinished(), which reports what
\* happens to the process in the meantime: first that it has started, if that
\* was not known yet, and that it finished.  flagsBefore: as the caller left them.
StopProcess(flagsBefore) ==
    /\ proc # "NotRunning"
    /\ OnStopped(IF proc = "Starting" THEN Connecting(conn) ELSE conn)
    /\ flags' = IF proc = "Starting"
                THEN [intentional |-> FALSE, delayed |-> FALSE, ours |-> TRUE]
                ELSE flagsBefore

------------------------------------------------------------------------------
(* stop() *)

\* The user clicks Stop, or another slot calls stop().
ClickStop ==
    /\ Idle /\ ui.enabled /\ ui.slot = "stop"
    /\ stack' = <<Frame("stop")>>
    /\ UNCHANGED <<ui, flags, identity, idTimers, app, quitOnStop, asked, proc,
                   ext, conn, queue>>

\* A relay is running and no delayed shutdown was started: ask how to stop it.
AskStop ==
    /\ At("stop")
    /\ \/ ~flags.delayed /\ Open([Head(stack) EXCEPT !.at = "askStop"], Tail(stack))
       \/ stack' = <<[Head(stack) EXCEPT !.at = "stopNow"]>> \o Tail(stack)
    /\ UNCHANGED <<ui, flags, identity, idTimers, app, quitOnStop, asked, proc,
                   ext, conn, queue>>

\* What close() does when stop() returns false.
KeepRunning == quitOnStop' = IF Head(stack).close THEN FALSE ELSE quitOnStop

\* The answers Yes, No and Cancel.
StopAnswered ==
    /\ At("askStop")
    /\ \/ /\ \E nicely \in BOOLEAN :
                flags' = [flags EXCEPT !.delayed = nicely \/ @]
          /\ stack' = <<[Head(stack) EXCEPT !.at = "stopNow"]>> \o Tail(stack)
          /\ UNCHANGED quitOnStop
       \/ stack' = Tail(stack) /\ KeepRunning /\ UNCHANGED flags
    /\ UNCHANGED <<ui, identity, idTimers, app, asked, proc, ext, conn, queue>>

\* stop() could not tell Tor to stop, and says so in a message box; it has kept
\* the status it found.
KeepStatus == [Head(stack) EXCEPT !.at = "stopFailed", !.prev = ui.status]

StopFails ==
    /\ Show("Stopping")
    /\ Open(KeepStatus, Tail(stack))
    /\ UNCHANGED <<app, proc, conn>>

\* A delayed shutdown: SIGNAL SHUTDOWN.
ShutdownNow ==
    /\ At("stopNow") /\ flags.delayed
    /\ asked' = TRUE
    /\ \/ /\ CanSend
          /\ Show("Stopping") /\ stack' = Tail(stack)
          /\ UNCHANGED <<app, proc, conn>>
       \/ StopFails
    /\ UNCHANGED <<flags, identity, idTimers, quitOnStop, ext, queue>>

StopNow ==
    /\ At("stopNow") /\ ~flags.delayed
    /\ asked' = TRUE
    /\ LET meant == [flags EXCEPT !.intentional = TRUE] IN
          \/ /\ StopsAtOnce
             /\ Show("Stopping") /\ stack' = Tail(stack)
             /\ flags' = meant
             /\ UNCHANGED <<app, proc, conn>>
          \/ StopProcess(meant) /\ QuitOnStopped /\ stack' = Tail(stack)
          \/ proc # "NotRunning" /\ StopFails /\ flags' = meant
    /\ UNCHANGED <<identity, idTimers, quitOnStop, ext, queue>>

\* The message box is closed, and the status from before stop() shown again,
\* whatever has been shown in the meantime.
StopFailedAnswered ==
    /\ At("stopFailed")
    /\ flags' = [flags EXCEPT !.intentional = FALSE, !.delayed = FALSE]
    /\ LET u == Shown(Head(stack).prev) IN
          ui' = [u EXCEPT !.restored = ui.restored \/ u.slot # ui.slot \/ u.enabled # ui.enabled]
    /\ KeepRunning
    /\ stack' = Tail(stack) /\ asked' = FALSE
    /\ UNCHANGED <<identity, idTimers, app, proc, ext, conn, queue>>

Stopping == AskStop \/ StopAnswered \/ ShutdownNow \/ StopNow \/ StopFailedAnswered

------------------------------------------------------------------------------
(* start(), restart(), close() and the Tor process *)

ClickStart ==
    /\ Idle /\ ui.enabled /\ ui.slot = "start"
    /\ Start(<<>>)
    /\ UNCHANGED <<identity, idTimers, app, quitOnStop, ext, queue>>

\* restart() stops Tor, and if that succeeds goes on to start().
Restart ==
    /\ Idle /\ asked' = TRUE
    /\ \/ StopsAtOnce /\ stack' = <<Frame("start")>> /\ UNCHANGED <<ui, flags, app, proc, conn>>
       \/ StopProcess(flags) /\ QuitOnStopped /\ stack' = <<Frame("start")>>
       \/ proc # "NotRunning" /\ UNCHANGED <<ui, flags, app, proc, conn, stack>>
    /\ UNCHANGED <<identity, idTimers, quitOnStop, ext, queue>>

\* The start() at the end of restart() and of authenticationFailed().
StartAgain ==
    /\ At("start")
    /\ Start(Tail(stack))
    /\ UNCHANGED <<identity, idTimers, app, quitOnStop, ext, queue>>

ProcStarted ==
    /\ AtLoop /\ proc = "Starting"
    /\ Started("Running", stack)
    /\ UNCHANGED <<identity, idTimers, app, quitOnStop, asked, ext, queue>>

ProcFailsToStart ==
    /\ AtLoop /\ proc = "Starting"
    /\ proc' = "NotRunning" /\ Show("Stopped")
    /\ UNCHANGED <<flags, identity, idTimers, app, quitOnStop, stack, asked, ext,
                   conn, queue>>

ProcFinished ==
    /\ AtLoop /\ proc = "Exited"
    /\ OnStopped(conn) /\ QuitOnStopped
    /\ UNCHANGED <<flags, identity, idTimers, quitOnStop, stack, asked, ext, queue>>

\* close(): with a relay to stop, quit when it has stopped; otherwise at once.
Close ==
    /\ Idle
    /\ \/ /\ IsVidaliaRunningTor /\ conn.status = "Connected"
          /\ quitOnStop' = TRUE
          /\ stack' = <<[Frame("stop") EXCEPT !.close = TRUE]>>
          /\ UNCHANGED app
       \/ app' = "Quitting" /\ UNCHANGED <<quitOnStop, stack>>
    /\ UNCHANGED <<ui, flags, identity, idTimers, asked, proc, ext, conn, queue>>

\* aboutToQuit(), when the event loops have ended: stop our Tor, then disconnect
\* all signals.
AboutToQuit ==
    /\ app = "Quitting" /\ app' = "Gone"
    /\ stack' = <<>> /\ queue' = <<>> /\ idTimers' = 0
    /\ StopProcess(flags) \/ UNCHANGED <<ui, flags, proc, conn>>
    /\ UNCHANGED <<identity, quitOnStop, asked, ext>>

------------------------------------------------------------------------------
(* The signals of the control connection *)

\* The end of authenticate(), from the slots below it: accepted by Tor, which
\* may have a circuit; refused or not sent; no cookie found; or cancelled.
GiveUp(rest) ==
    IF flags.ours
    THEN stack' = <<Frame("stop")>> \o rest /\ UNCHANGED conn
    ELSE stack' = rest /\ conn' = Disconnecting(conn)

Authenticate(shown, rest) ==
    \/ /\ conn.link \in {"ours", "ext"}
       /\ \E s \in {"Authenticated", "CircuitEstablished"} : Show(s)
       /\ identity' = TRUE /\ stack' = rest
       /\ UNCHANGED conn
    \/ /\ \E f \in {"authFailed", "cookie"} : Open(Frame(f), rest)
       /\ ui' = shown
       /\ UNCHANGED <<identity, conn>>
    \/ GiveUp(rest) /\ ui' = shown /\ UNCHANGED identity

Connected ==
    /\ AtLoop /\ queue # <<>> /\ Head(queue) = "connected"
    /\ queue' = Tail(queue)
    /\ Authenticate(Shown("Authenticating"), stack)
    /\ UNCHANGED <<flags, idTimers, app, quitOnStop, asked, proc, ext>>

\* The user finds the cookie, or cancels; the status is not shown again.
CookieAnswered ==
    /\ At("cookie")
    /\ Authenticate(ui, Tail(stack))
    /\ UNCHANGED <<flags, idTimers, app, quitOnStop, asked, proc, ext, queue>>

\* authenticationFailed(): after the dialog, stop or disconnect, then start().
AuthFailedAnswered ==
    /\ At("authFailed")
    /\ \E retry \in BOOLEAN :
          LET rest == IF retry THEN <<Frame("start")>> \o Tail(stack) ELSE Tail(stack)
          IN  IF IsRunning THEN GiveUp(rest) ELSE stack' = rest /\ UNCHANGED conn
    /\ UNCHANGED <<ui, flags, identity, idTimers, app, quitOnStop, asked, proc,
                   ext, queue>>

\* TorEvents saw that Tor has a circuit.
CircuitEstablished ==
    /\ AtLoop /\ queue # <<>> /\ Head(queue) = "circuit"
    /\ queue' = Tail(queue)
    /\ Show("CircuitEstablished")
    /\ UNCHANGED <<flags, identity, idTimers, app, quitOnStop, stack, asked,
                   proc, ext, conn>>

\* disconnected(): a Tor that is not ours is then taken as stopped.
Disconnected ==
    /\ AtLoop /\ queue # <<>> /\ Head(queue) = "disconnected"
    /\ queue' = Tail(queue)
    /\ IF flags.ours THEN UNCHANGED ui ELSE Show("Stopped")
    /\ identity' = FALSE
    /\ flags' = [flags EXCEPT !.ours = FALSE]
    /\ UNCHANGED <<idTimers, app, quitOnStop, stack, asked, proc, ext, conn>>

ConnectFailed ==
    /\ AtLoop /\ queue # <<>> /\ Head(queue) = "connectFailed"
    /\ queue' = Tail(queue)
    /\ Open(Frame("connectFailed"), stack)
    /\ UNCHANGED <<ui, flags, identity, idTimers, app, quitOnStop, asked, proc,
                   ext, conn>>

\* connectFailed(): Retry connects again, anything else stops Tor.
ConnectFailedAnswered ==
    /\ At("connectFailed") /\ stack' = Tail(stack)
    /\ \/ conn' = Connecting(conn) /\ UNCHANGED <<ui, flags, app, proc, asked>>
       \/ UNCHANGED <<ui, flags, app, proc, conn>> /\ asked' = TRUE
       \/ StopProcess(flags) /\ QuitOnStopped /\ asked' = TRUE
    /\ UNCHANGED <<identity, idTimers, quitOnStop, ext, queue>>

ConnectionSignals ==
    Connected \/ CircuitEstablished \/ Disconnected \/ ConnectFailed

------------------------------------------------------------------------------
(* New Identity *)

\* newIdentity(): disabled for MIN_NEWIDENTITY_INTERVAL once NEWNYM is sent.
NewIdentity ==
    /\ Idle /\ identity /\ conn.link \in {"ours", "ext"} /\ idTimers < MaxTimers
    /\ identity' = FALSE /\ idTimers' = idTimers + 1
    /\ UNCHANGED <<ui, flags, app, quitOnStop, stack, asked, proc, ext, conn, queue>>

\* enableNewIdentity(): if (_torControl->isConnected())
Always == TRUE
MayEnableIdentity == conn.status = "Connected"

EnableNewIdentity ==
    /\ AtLoop /\ idTimers > 0
    /\ idTimers' = idTimers - 1
    /\ identity' = (identity \/ MayEnableIdentity)
    /\ UNCHANGED <<ui, flags, app, quitOnStop, stack, asked, proc, ext, conn, queue>>

------------------------------------------------------------------------------
(* The control thread, and the Tors it may talk to *)

Queue(signal) == Len(queue) < MaxQueue /\ queue' = Append(queue, signal)

DialSucceeds ==
    /\ conn.link = "Dialing"
    /\ \E peer \in (IF proc = "Running" THEN {"ours"} ELSE {}) \cup (IF ext THEN {"ext"} ELSE {}) :
          conn' = [conn EXCEPT !.status = "Connected", !.link = peer,
                               !.late = @ \/ conn.thread = "Exiting"]
    /\ Queue("connected")
    /\ UNCHANGED <<guiVars, proc, ext>>

\* The last attempt fails.  The control thread keeps running.
DialFails ==
    /\ conn.link = "Dialing"
    /\ IF conn.status = "Connecting"
       THEN /\ conn' = [conn EXCEPT !.status = "Disconnected", !.link = "Failed"]
            /\ Queue("connectFailed")
       ELSE conn' = [conn EXCEPT !.link = "Failed"] /\ UNCHANGED queue
    /\ UNCHANGED <<guiVars, proc, ext>>

LinkDown ==
    /\ conn.link \in {"Lost", "Closing"} /\ conn.thread = "Running"
    /\ conn' = [conn EXCEPT !.status = "Disconnected", !.link = "Failed", !.thread = "Exiting"]
    /\ Queue("disconnected")
    /\ UNCHANGED <<guiVars, proc, ext>>

ThreadEnds ==
    /\ conn.thread = "Exiting"
    /\ conn' = [conn EXCEPT !.thread = "Off", !.link = "None"]
    /\ UNCHANGED <<guiVars, proc, ext, queue>>

\* Bound: one such report is queued at a time.
ReportCircuit ==
    /\ "circuit" \notin ToSet(queue)
    /\ conn.link \in {"ours", "ext", "Lost"} /\ conn.status = "Connected"
    /\ Queue("circuit")
    /\ UNCHANGED <<guiVars, proc, ext, conn>>

ControlThread ==
    DialSucceeds \/ DialFails \/ LinkDown \/ ThreadEnds \/ ReportCircuit

\* A Tor exits, or closes the connection.
Lose(peer) == conn' = [conn EXCEPT !.link = IF @ = peer THEN "Lost" ELSE @]

TorExits ==
    /\ proc = "Running" /\ proc' = "Exited"
    /\ Lose("ours")
    /\ UNCHANGED <<guiVars, ext, queue>>

TorCloses ==
    /\ \E peer \in {"ours", "ext"} : conn.link = peer /\ Lose(peer)
    /\ UNCHANGED <<guiVars, proc, ext, queue>>

ExternalStarts ==
    /\ ~ext /\ ext' = TRUE
    /\ UNCHANGED <<guiVars, proc, conn, queue>>

ExternalStops ==
    /\ ext /\ ext' = FALSE
    /\ Lose("ext")
    /\ UNCHANGED <<guiVars, proc, queue>>

Tors == TorExits \/ TorCloses \/ ExternalStarts \/ ExternalStops

------------------------------------------------------------------------------
User == ClickStart \/ ClickStop \/ Restart \/ Close \/ NewIdentity
Answers == CookieAnswered \/ AuthFailedAnswered \/ ConnectFailedAnswered
Process == ProcStarted \/ ProcFailsToStart \/ ProcFinished

Next ==
    \/ User
    \/ Answers
    \/ Stopping
    \/ StartAgain
    \/ Process
    \/ ConnectionSignals
    \/ EnableNewIdentity
    \/ AboutToQuit
    \/ app = "Running" /\ ControlThread
    \/ app = "Running" /\ Tors
    \/ app = "Gone" /\ UNCHANGED vars

Spec == Init /\ [][Next]_vars

------------------------------------------------------------------------------
(* Properties *)

\* Some slot on the stack is on its way to stop Tor.
BeingStopped ==
    \E i \in 1 .. Len(stack) : stack[i].at \in {"stop", "askStop", "stopNow", "stopFailed"}

\* _isIntentionalExit and _delayedShutdownStarted say of a Tor process that has
\* started only what was asked of that process: an exit nobody asked for is
\* reported, and stop() asks a relay's owner how to stop it.
FlagsAreFresh ==
    proc \in {"Running", "Exited"} /\ ~asked =>
        ~flags.intentional /\ (flags.delayed => BeingStopped)

\* While Vidalia knows that it runs Tor itself, the button stops Tor.
OursOffersStop == flags.ours /\ proc = "Running" /\ ~ui.restored => ui.slot = "stop"

\* The button is disabled only while the process is starting, whose signal will
\* enable it again.
ButtonIsPending == app = "Running" /\ ~ui.enabled /\ ~ui.restored => proc = "Starting"

\* New Identity is offered only while there is a connection to send NEWNYM on,
\* or while the news of its loss is on its way; unless the connection succeeded
\* when it had been cancelled, whose end is never signalled.
IdentityNeedsConnection ==
    identity /\ app # "Gone" =>
        \/ conn.status \in {"Connected", "Disconnecting"}
        \/ "disconnected" \in ToSet(queue)
        \/ conn.late

==============================================================================
