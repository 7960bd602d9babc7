--------------------------- MODULE HelperProcesses ---------------------------
(***************************************************************************)
(* The programs that Vidalia starts besides Tor (vidalia/MainWindow.cpp,   *)
(* HelperProcess.cpp, UpdateProcess.cpp, UpdateProgressDialog.cpp): the    *)
(* browser and the IM client, which it starts once a circuit is            *)
(* established and with which it ends, and the updater, which checks for   *)
(* new packages and installs them while Tor is stopped.                    *)
(*                                                                         *)
(* As built with USE_AUTOUPDATE, for Windows.  One thread; message boxes   *)
(* and the dialog of available updates run event loops of their own.       *)
(***************************************************************************)
EXTENDS Naturals, Sequences, SequencesExt

CONSTANTS
    BrowserDirectory,  \* is the browser started out of a directory
    HasIM,             \* is there an IM client
    MaxPackages,       \* bound: packages that the updater names in one run
    MaxChecks,         \* bound: checks for updates
    MaxDepth           \* bound: dialogs open at once

ASSUME HelperAssumption ==
    /\ BrowserDirectory \in BOOLEAN /\ HasIM \in BOOLEAN
    /\ MaxPackages \in Nat /\ MaxChecks \in Nat /\ MaxDepth \in Nat

VARIABLES
    \* the updater
    job,        \* what it has been started for and does: "none", "check" or "install"
    command,    \* _currentCommand
    packages,   \* how many _packageList has
    \* the window
    progress,   \* the progress dialog: is it visible, its status, can it be cancelled
    boxes,      \* dialogs that slots wait for, innermost last
    timer,      \* does _updateTimer run
    tor,        \* the Tor that Vidalia runs: "none", "runs", or "halting" once it was told to
    restart,    \* _restartTorAfterUpgrade
    \* browser and IM client
    browser, im,  \* the state of the QProcess
    forked,       \* does the browser run on after its launcher has ended
    watched,      \* is there a browserWatcher
    quit,         \* has the application been told to quit
    \* history
    checks,
    overlap,    \* was a check begun while available updates were shown
    silent,     \* the commands whose last run ended without a signal that is connected; an
                \* installation stays until the Tor that was stopped for it runs
    installed,  \* have updates been installed
    owed,       \* has Tor been stopped for an upgrade and not been started again
    hasty,      \* was it to be started again while the one that was stopped still ran
    left,       \* has the browser or the IM client exited
    relaunched, \* was a circuit established while there is a browserWatcher
    unstarted   \* has one of them failed to start

updater == <<job, command, packages>>
window == <<progress, boxes, timer>>
torside == <<tor, restart, owed, hasty>>
helpers == <<browser, im, forked, watched, quit, left, relaunched, unstarted>>
checking == <<checks, overlap>>
outcome == <<silent, installed>>
helperVars == <<updater, window, torside, helpers, checking, outcome>>

Statuses == {"Checking", "Downloading", "Installing", "Installed"}

HelpersInit ==
    /\ job = "none" /\ command = "none" /\ packages = 0
    /\ progress = [visible |-> FALSE, status |-> "Checking", cancel |-> TRUE]
    /\ boxes = <<>> /\ timer \in BOOLEAN
    /\ tor \in {"none", "runs"} /\ restart = FALSE /\ owed = FALSE /\ hasty = FALSE
    /\ browser = "NotRunning" /\ im = "NotRunning"
    /\ forked = FALSE /\ watched = FALSE /\ quit = FALSE
    /\ left = FALSE /\ relaunched = FALSE /\ unstarted = FALSE
    /\ checks = 0 /\ overlap = FALSE /\ silent = {} /\ installed = FALSE

------------------------------------------------------------------------------
(* The progress dialog.  It is modal, and so are the others. *)

\* setStatus()
WithStatus(p, status) ==
    [p EXCEPT !.status = status,
              !.cancel = CASE status = "Checking" -> TRUE
                           [] status \in {"Installing", "Installed"} -> FALSE
                           [] OTHER -> p.cancel]
MadeVisible(p) == [p EXCEPT !.visible = TRUE]
Hidden(p) == [p EXCEPT !.visible = FALSE]

Free == boxes = <<>> /\ ~progress.visible /\ ~quit
Opens(box) == Len(boxes) < MaxDepth /\ boxes' = Append(boxes, box)
Top == Last(boxes)
Beneath == Front(boxes)

\* onHide() and onCancel(): cancel() ends the process if it checks for updates.  A check that
\* is cancelled ends as a crash does, of which nobody is told.
Hide ==
    /\ boxes = <<>> /\ progress.visible /\ progress' = Hidden(progress)
    /\ UNCHANGED <<updater, boxes, timer, torside, helpers, checking, outcome>>
Cancel ==
    /\ boxes = <<>> /\ progress.visible /\ progress.cancel /\ progress' = Hidden(progress)
    /\ IF command = "check" /\ job # "none" THEN job' = "none" /\ packages' = 0
                                            ELSE UNCHANGED <<job, packages>>
    /\ UNCHANGED <<command, boxes, timer, torside, helpers, checking, outcome>>

------------------------------------------------------------------------------
(* Checking for updates *)

\* QProcess::start() does nothing while the process runs, and the updater may not start;
\* onError() is connected to nothing.
Starts(what) ==
    /\ command' = what
    /\ \/ job # "none" /\ UNCHANGED <<job, silent>>
       \/ /\ job = "none" /\ job' = what
          /\ silent' = IF owed /\ what = "install" THEN silent ELSE silent \ {what}
       \/ job = "none" /\ UNCHANGED job /\ silent' = silent \cup {what}

\* MainWindow::checkForUpdates(showProgress)
UpdaterIsRunning == job # "none"
CheckForUpdates(showProgress) ==
    IF UpdaterIsRunning
    THEN /\ progress' = IF showProgress THEN MadeVisible(progress) ELSE progress
         /\ UNCHANGED <<job, command, silent, checks, overlap>>
    ELSE /\ checks < MaxChecks /\ checks' = checks + 1
         /\ LET p == WithStatus(progress, "Checking") IN
               progress' = IF showProgress THEN MadeVisible(p) ELSE p
         /\ Starts("check")
         /\ overlap' = (overlap \/ Contains(boxes, "available"))

CheckNow ==
    /\ Free /\ CheckForUpdates(TRUE) /\ timer' = (timer \/ ~UpdaterIsRunning)
    /\ UNCHANGED <<packages, boxes, torside, helpers, installed>>

TimerFires ==
    /\ timer /\ ~quit /\ CheckForUpdates(FALSE)
    /\ UNCHANGED <<packages, boxes, timer, torside, helpers, installed>>

\* readStandardError(): a package, the progress of a download, or a failure
NamesPackage ==
    /\ job # "none" /\ packages < MaxPackages /\ packages' = packages + 1
    /\ UNCHANGED <<job, command, window, torside, helpers, checking, outcome>>
DownloadProgress ==
    /\ job = "check" /\ command = "check"
    /\ progress' = WithStatus(progress, "Downloading")
    /\ UNCHANGED <<updater, boxes, timer, torside, helpers, checking, outcome>>
InstallFails ==
    /\ job = "install"
    /\ progress' = Hidden(progress) /\ Opens("failed")
    /\ UNCHANGED <<updater, timer, torside, helpers, checking, outcome>>

------------------------------------------------------------------------------
(* The updater ends *)

\* updatesAvailable(): the dialog if there are packages, or a message box if the progress
\* dialog is visible.  The list of packages is cleared after that.
UpdatesAvailable ==
    \/ packages > 0 /\ Opens("available") /\ UNCHANGED <<progress, packages>>
    \/ /\ packages = 0 /\ progress.visible
       /\ progress' = Hidden(progress) /\ Opens("upToDate") /\ UNCHANGED packages
    \/ packages = 0 /\ ~progress.visible /\ UNCHANGED <<progress, boxes, packages>>

\* start() of the main window, if Tor was stopped for the upgrade: a Tor that still halts is
\* taken for one that runs already, or QProcess does not start another.
LeaveTor == UNCHANGED <<tor, owed, hasty>>
StartTor ==
    CASE ~restart -> LeaveTor
      [] restart /\ tor = "halting" -> hasty' = TRUE /\ UNCHANGED <<tor, owed>>
      [] OTHER -> tor' = "runs" /\ owed' = FALSE /\ UNCHANGED hasty

\* What onFinished() takes for an installation that succeeded
NormalExit(exit) == exit # "crash"
Succeeded(exit) == exit = "0"

\* onFinished(): exit is "0", "1" or a crash.
Finished(exit) ==
    /\ job # "none" /\ job' = "none"
    /\ installed' = (installed \/ (job = "install" /\ exit = "0"))
    /\ \/ /\ command = "check" /\ exit # "crash" /\ UpdatesAvailable
          /\ UNCHANGED <<torside, silent>>
       \/ /\ command = "install" /\ Succeeded(exit)
          /\ progress' = MadeVisible(WithStatus(progress, "Installed")) /\ packages' = 0
          /\ StartTor
          /\ UNCHANGED <<restart, boxes, silent>>
       \/ /\ (command = "check" /\ exit = "crash") \/ (command = "install" /\ ~Succeeded(exit))
          /\ silent' = silent \cup {command} /\ packages' = 0
          /\ UNCHANGED <<progress, boxes, torside>>
    /\ UNCHANGED <<command, timer, helpers, checking>>

\* installUpdates(): Tor is stopped first, told to halt, or neither succeeds.
StopTor ==
    /\ restart' = (tor # "none") /\ UNCHANGED hasty
    /\ IF tor = "none" THEN UNCHANGED <<tor, owed>>
                       ELSE tor' \in {"none", "halting", tor} /\ owed' = (owed \/ tor' # "runs")
InstallUpdates ==
    /\ progress' = MadeVisible(WithStatus(progress, "Installing"))
    /\ StopTor
    /\ Starts("install")

\* The answer to the dialog of available updates, and the end of onFinished()
Available ==
    /\ boxes # <<>> /\ Top = "available" /\ boxes' = Beneath /\ packages' = 0
    /\ \/ InstallUpdates
       \/ progress' = Hidden(progress) /\ UNCHANGED <<job, command, torside, silent>>
    /\ UNCHANGED <<timer, helpers, checking, installed>>

\* "Your software is up to date" and "Installation Failed", and what follows them
BoxAnswered ==
    /\ boxes # <<>> /\ Top # "available" /\ boxes' = Beneath
    /\ packages' = IF Top = "upToDate" THEN 0 ELSE packages
    /\ IF Top = "failed" THEN StartTor ELSE UNCHANGED <<tor, owed, hasty>>
    /\ UNCHANGED <<job, command, progress, timer, restart, helpers, checking, outcome>>

------------------------------------------------------------------------------
(* Tor, the browser and the IM client *)

TorChanges ==
    /\ Free /\ tor # "halting" /\ tor' = (IF tor = "none" THEN "runs" ELSE "none")
    /\ owed' = FALSE
    /\ UNCHANGED <<updater, window, restart, hasty, helpers, checking, outcome>>

Halts ==
    /\ tor = "halting" /\ tor' = "none"
    /\ UNCHANGED <<updater, window, restart, owed, hasty, helpers, checking, outcome>>

\* QProcess::start() of one that does not run
StartedIfNot(state) == IF state = "NotRunning" THEN "Starting" ELSE state

\* circuitEstablished(): a circuit may be established again at any time.
CircuitComesUp ==
    /\ tor # "none" /\ ~quit
    /\ browser' = StartedIfNot(browser) /\ im' = IF HasIM THEN StartedIfNot(im) ELSE im
    /\ left' = FALSE /\ unstarted' = FALSE /\ relaunched' = (relaunched \/ watched)
    /\ \/ timer' = ~UpdaterIsRunning /\ CheckForUpdates(FALSE)
       \/ UNCHANGED <<timer, progress, job, command, silent, checks, overlap>>
    /\ UNCHANGED <<packages, boxes, torside, forked, watched, quit, installed>>

\* A message box is opened for the one that fails, which nothing waits for.
Runs ==
    /\ \/ browser = "Starting" /\ browser' \in {"Running", "NotRunning"} /\ UNCHANGED im
       \/ im = "Starting" /\ im' \in {"Running", "NotRunning"} /\ UNCHANGED browser
    /\ unstarted' = (unstarted \/ "NotRunning" \in ({browser'} \ {browser}) \cup ({im'} \ {im}))
    /\ UNCHANGED <<updater, window, torside, forked, watched, quit, left, relaunched,
                   checking, outcome>>

\* onSubprocessFinished()
AnyDone(b, i) == b = "NotRunning" \/ i = "NotRunning"
NeverDone(b, i) == b = "NotRunning" /\ ~HasIM
BothDone(b, i) == b = "NotRunning" /\ (~HasIM \/ i = "NotRunning")
SubprocessFinished(b, i) ==
    /\ left' = TRUE
    /\ quit' = (quit \/ (BothDone(b, i) /\ ~BrowserDirectory))
    /\ watched' = (watched \/ (BothDone(b, i) /\ BrowserDirectory))

BrowserExits ==
    /\ browser = "Running" /\ browser' = "NotRunning" /\ UNCHANGED im
    /\ forked' \in IF BrowserDirectory THEN BOOLEAN ELSE {FALSE}
    /\ SubprocessFinished(browser', im)
    /\ UNCHANGED <<updater, window, torside, relaunched, unstarted, checking, outcome>>
IMExits ==
    /\ im = "Running" /\ im' = "NotRunning" /\ UNCHANGED <<browser, forked>>
    /\ SubprocessFinished(browser, im')
    /\ UNCHANGED <<updater, window, torside, relaunched, unstarted, checking, outcome>>
ForkedExits ==
    /\ forked /\ forked' = FALSE
    /\ UNCHANGED <<updater, window, torside, browser, im, watched, quit, left, relaunched,
                   unstarted, checking, outcome>>

\* onCheckForBrowser(), every two seconds from then on: is there a process of the browser's name
CheckForBrowser ==
    /\ watched /\ ~forked /\ browser # "Running" /\ quit' = TRUE
    /\ UNCHANGED <<updater, window, torside, browser, im, forked, watched, left, relaunched,
                   unstarted, checking, outcome>>

------------------------------------------------------------------------------
HelpersNext ==
    \/ CheckNow \/ TimerFires \/ Hide \/ Cancel
    \/ NamesPackage \/ DownloadProgress \/ InstallFails
    \/ \E exit \in {"0", "1", "crash"} : Finished(exit)
    \/ Available \/ BoxAnswered
    \/ TorChanges \/ Halts \/ CircuitComesUp
    \/ Runs \/ BrowserExits \/ IMExits \/ ForkedExits \/ CheckForBrowser

\* The browser watcher is a timer.
HelpersSpec == HelpersInit /\ [][HelpersNext]_helperVars /\ WF_helperVars(CheckForBrowser)
------------------------------------------------------------------------------
(* Properties *)

\* "Done! Your software is now up to date." is said only if updates have been installed,
\* unless a check was begun while available updates were shown: the end of the check is then
\* taken for that of an installation which never began (UpdateProcess.cpp:77).  A dialog that
\* says it checks or installs belongs to an updater that runs or a dialog that is open, unless
\* the updater ended without a word.
ProgressIsTrue ==
    /\ progress.status = "Installed" => installed \/ overlap
    /\ progress.visible /\ progress.status # "Installed" =>
          job # "none" \/ boxes # <<>> \/ silent # {}

\* "restarts Tor (if necessary)" (MainWindow.cpp:2126): a Tor that was stopped for an
\* upgrade is started again once the updater has ended, unless it ended without a word, the
\* updater was quicker than Tor, or two dialogs of available updates were answered, the second
\* of which finds no Tor to restart (MainWindow.cpp:2139).
TorComesBack ==
    owed => job # "none" \/ boxes # <<>> \/ "install" \in silent \/ hasty \/ overlap

\* "Exit if both subprocesses are finished" (MainWindow.cpp:724): once one has exited and
\* none runs, Vidalia comes to quit, if both could be started and until a new circuit starts
\* them again.
BothGone == left /\ ~unstarted /\ browser = "NotRunning" /\ im = "NotRunning" /\ ~forked
QuitsWithThem == BothGone ~> quit \/ ~BothGone

\* And it quits only when neither runs, unless a circuit started them again while the browser
\* was watched: the watcher is not stopped and asks for the browser alone (MainWindow.cpp:742).
QuitsOnlyThen ==
    [][quit' /\ ~quit /\ ~relaunched =>
          browser' = "NotRunning" /\ ~forked' /\ im' = "NotRunning"]_helperVars
=============================================================================
