# Vidalia in TLA+

Vidalia is the Qt controller of Tor: it starts a Tor process, connects to its
control port, sends commands and shows what Tor reports. Two kinds of modules are
here. State machines model the parts whose behaviour depends on the order of
events: threads, nested event loops, timers, processes, and settings that the
file, a dialog and Tor each have their own idea of. Operators model the parts that
compute: replies, pages, translations, graphs; they are compared with what they
should compute over all inputs up to a bound. Paths are relative to the
repository; `CC` is `src/torcontrol/ControlConnection.cpp` and `MW` is
`src/vidalia/MainWindow.cpp`; other files are given by their name.

## 1. The system

| part | state | operations | talks to |
| --- | --- | --- | --- |
| `ControlConnection`, `ControlSocket`, `SendCommandEvent` | `_status`, `_connectAttempt`, `_sock`, one `_sendWaiter`, a queue of `ReceiveWaiter`s, `_connMutex`, `_recvMutex`, the control thread | `connect`, `disconnect`, `cancelConnect`, `send(cmd)`, `send(cmd, reply)`, the destructor; in the thread `run`, `onConnected`, `onError`, `onDisconnected`, `onReadyRead`, `customEvent` | Tor over a socket; `TorControl` by calls and queued signals |
| `TorControl`, `TorEvents` and the classes of values | `_method`, `_events`, `_torVersion`, the process, the connection | `start`, `stop`, `connect`, `disconnect`, `signal`, GETINFO/GETCONF/SETCONF wrappers, `setEvents`, `onStopped`, one handler per event | connection, process, every window |
| `TorProcess` | the QProcess, whether stdout is still read | `start`, `stop`, `started`, `finished`, `startFailed` | the operating system |
| `MainWindow` | `_status`, the Start/Stop action, `_isIntentionalExit`, `_delayedShutdownStarted`, `_isVidaliaRunningTor`, New Identity and its timer | `start`, `stop`, `connected`, `authenticate`, `disconnected`, `restart`, `close`, `newIdentity`, `circuitEstablished` ... | `TorControl`, the user through message boxes |
| helper processes and updates | browser, IM client and updater; two dialogs; `_restartTorAfterUpgrade`, timers | `startSubprocesses`, `onSubprocessFinished`, `checkForUpdates`, `installUpdates` ... | the operating system, `TorControl` |
| `UPNPControl`, `UPNPControlThread`, test dialog | desired and configured ports, `_keepRunning`, `_upnpInitialized`, `_state` | `setDesiredState`, `wakeup`, `cleanup`, `stop`; the thread's `run`, `configurePorts`, `updatePort` | the router; the GUI |
| settings and configuration dialog | the settings file with a "changed" mark for each group, a backup in each settings object, the widgets of six pages | `value`, `setValue`, `apply`, `revert`, `saveChanges`, `applyChanges`, `saveConf`; `load` and `save` of each page | settings file, `TorControl`, the user |
| hidden services | the table of the Services page, a map beside it, the settings, Tor | add, remove, edit, browse, save | `TorControl` |
| network window | lists of relays, circuits and streams, removal lists and timers, the map with its zoom, descriptors and locations | event handlers, refresh, selection, zoom | `TorEvents`, `TorControl`, a GeoIP file |
| message log | list, filter, limit, log file | `log`, save and cancel of the settings, `setEvent` | Tor's stdout and its events |
| status notifications | the list of notifications, what is squelched | one slot per event | `TorEvents` |
| bandwidth graph, help browser | points and scale; topics, pages and searches | what a user clicks | events, files |
| application | arguments, settings, language, style, pid file | start, reset, load of a language | files, another Vidalia |
| crash reporter | annotations, minidump, arguments to restart with | `main`, upload, restart | Vidalia, by files |
| tools | a document or a table of strings | `ts2po`, `po2ts`, `nsh2po`, `po2nsh`, `po2wxl`, `wixtool` | files |

**What is hard.** The GUI thread and the control thread share two mutexes, a
queue and one `SendWaiter`; the socket belongs to the control thread and dies
with it while the GUI thread may be about to use it. Replies carry no name of the
command they answer. Signals of the control thread are queued, so a slot sees a
connection that may have changed since. A message box, or the `processEvents()` of
the network window, runs a nested event loop, so other slots run in the middle of
a slot that goes on with what it had read. A process or a connection may end at
any time. Tor's messages come on two ways, and what happens between two requests
for a snapshot and for events is told by neither. The UPnP thread decides to
sleep on a condition that is not the desired state, and remembers what it asked a
router that may have forgotten it.

**What makes each part correct.** Connection: every caller of `send` returns,
with the reply to its own command; nothing that has been deleted is used; every
connection attempt ends; the destructor returns. Main window: the button offers
what can be done, the flags about the current Tor speak of this process, New
Identity needs a connection. Helpers: the update dialog says what is so, a Tor
that was stopped for an upgrade comes back. UPnP: in the end the desired ports are
forwarded, what is reported as done is done, and no mapping is left behind.
Settings: what is not marked as changed is what Tor has, since `value()` and
`applyChanges()` rely on it; a mark is not lost; what is pending is applied; what a
page shows is what was chosen. Services: a row stands for its entry of the map.
Lists: a closed circuit disappears, and none that is open does. Log: in order, once,
and in the file that was named. Notifications: the last word is Tor's.

The hazards with the lines where they bite are in `PROJECT.json`; those that have
no room there are in section 5.

## 2. Modules

| module | models | kind |
| --- | --- | --- |
| `ControlConnection` | both threads of the control connection, and Tor as its peer | state machine |
| `RequestReply`, `ControlConnectionRefinement` | what `send(cmd, reply)` promises to its callers, and the mapping to it | abstract specification |
| `ControlConnection_proofs` | inductive invariants of both, and the mapping of steps | proofs |
| `TorLifecycle`, `TorLifecycle_proofs` | the slots of the main window over TorControl, TorProcess and a coarse connection; proofs, those of `HelperProcesses` too | state machine, proofs |
| `HelperProcesses` | browser, IM client and updater, of the build with `USE_AUTOUPDATE` | state machine |
| `UPNPControl`, `UPNPControl_proofs` | GUI thread, UPnP thread, router; proofs, those of `RelayPage` too | state machine, proofs |
| `Settings`, `Settings_proofs` | settings file, configuration dialog, a Tor with its torrc; proofs | state machine, proofs |
| `RelayPage`, `ExitPolicies` | the Sharing page, its settings, Tor's configuration, the ports to forward, the test dialog; policies as operators | state machine |
| `Services`, `Services_proofs` | the page of hidden services | state machine, proofs |
| `Network`, `Network_proofs` | lists of circuits, streams and relays, and refreshes | state machine, proofs |
| `MessageLog`, `MessageLog_proofs` | the log, its file, Tor's stdout and events; proofs, those of `StatusEvents` too | state machine, proofs |
| `Lists`, `Lists_proofs` | copying part of a list, used by the two above and by `Network`; its theory | operator, proofs |
| `StatusEvents` | notifications and warnings | state machine |
| `ControlText`, `TorReplies`, `ControlValues` | text, commands and replies; values read from them | operators |
| `TorPages` | the Network and Advanced pages and their settings, key by key | operators |
| `RelayViews` | locations, lines, map, zoom and selections of the network window | operators |
| `BandwidthGraph`, `HelpBrowser` | the two windows | operators |
| `Application` | start, settings, languages, two pages, message boxes, pid file, crash reporter | operators |
| `Translations`, `WixTool` | the tools | operators |

The operator modules state what they check as named `ASSUME`s, which TLC evaluates
when a run's module extends theirs: `network` evaluates `TorReplies`,
`ControlValues` and `RelayViews`; `relay` `TorPages`; `log` `Translations`;
`helpers` `WixTool`; `services` `Application`; `status` `BandwidthGraph` and
`HelpBrowser`. The `..._MC` modules bring the two together and hold
definitions for a `.cfg`. The comment above each `ASSUME` says what it states; where
the code does not do what one would expect, the statement is what the code does.

### ControlConnection

Two program counters: `gpc` for the GUI thread and `cpc` for the control thread.
A step is what a thread does between two points where the other can interfere:
taking or giving up a mutex, sleeping on or waking a condition, returning to the
event loop. The accesses to `_status` and `_connectAttempt`, which the code
guards with `_statusMutex` or not at all, are single reads and writes. Two reads
of a shared variable without a lock are two steps (`BeginDisconnect`,
`DisconnectStatus`, `DisconnectSock`).

* `LockRecv`, `LockConn`, `Post`, `SendSleep`, `SendReturns`, `RecvSleep`,
  `RecvReturns` are the two `send()`s, in the order of `CC:237-283`. The kind
  `"signal"` is a call of `send(cmd)` alone; `"wide"` is a command whose
  `toLocal8Bit()` is longer than the QString, for which `write()` returns another
  number than `sendCommand()` expects (`ControlSocket.cpp:173`).
* `Setup`, `Dial`, `TimerFires`, the `Loop` actions and the `Clean*` actions are
  `run()` (`CC:320-374`) and the slots its event loop calls. `exit()` only sets
  `exited`; the event loop may handle what is pending before it ends.
* `sendWaiter` is the single `_sendWaiter` and is set once, as in the code:
  nothing sets it back to `Waiting`, so that a later `send` may return the result
  of an earlier one. This is a property of the code, not an abstraction.
* `DisconnectSock` reaches `"Crashed"` where the code dereferences a null `_sock`.
* `inbox` holds what Tor sent: whole replies, a last one of which only some lines
  have arrived, and 650 events. `ReadReplyFails` is the disconnection that is
  noticed inside `readLine()`'s wait.

The object's owner is any sequence of the calls that the GUI makes. `said`, `sent`,
`kind`, `got` are history for the properties. Abstracted: bytes and line parsing,
error texts and the log.

### RequestReply and the refinement

`RequestReply` has one call at a time, commands received in the order of calls and
at most once, and every call answered with its own reply or failed. The mapping is
`calls <- cur`, `open <-` the GUI thread is inside `send`, `received <-` the
set of commands that were written (each later than those before it, so that the set says
the order too), `replies <-` for each finished call what its ReceiveWaiter was given.
Safety (`AbsSafety`) and liveness (`WF(Answered \/ Failed)`) hold for plain commands over
one connection (`Plain`): `conn_clean` checks both, and `CallsAreAnswered` proves the
first for every number of commands. With signals or wide commands, or after a
reconnect, the code does not implement this: `MismatchIsExplained` says which
event must have come first.

### TorLifecycle

One thread, many suspended slots. `stack` holds the slots that are inside a message
box (innermost first); an action is a slot up to its next message box, or the
rest of one after the answer. Frames `stop`, `stopNow` and `start` are code that
runs before any other event. `queue` holds signals of the control thread in
transit to the GUI thread. `conn` is a coarse view of the connection: status,
thread, and what the socket talks to (our Tor, an external Tor, a lost peer).
`proc = "Exited"` is a process that is dead while QProcess has not noticed.
`_isIntentionalExit` and `_delayedShutdownStarted` start with either value: the
constructor does not initialise them. Settings that a slot reads (autoControlPort,
relay or not, authentication method) are chosen afresh each time, since the user
may change them in between. `TorProcess::stop()` is that of Unix (`terminate`, then
`waitForFinished`); what message boxes do after `quit()` is not followed.

Two histories restrict properties where the code is known to behave otherwise and
say so in their comments: `ui.restored` (a failed `stop()` showed the old status
again although slots that ran in between had changed it, `MW:1403`) and `conn.late`
(the socket connected after `cancelConnect()`, `CC:138`).

### UPNPControl

`gpc` and `tpc` are the GUI and the UPnP thread. `Read`, `UpdateDir`, `UpdateOr` are
`configurePorts()`; `Sleep`, `TimeOut`, `Awake`, `RemoveMapping` are `run()`. A wake-up
(`Woken`) has an effect only on a thread that sleeps. `UpdatePort` is `updatePort()`
with discovery; the router may refuse any request, or do what it was asked and
report otherwise (`GetPortMappingFailed`), or forget everything (`Reboot`).
States that are set and overwritten within one step are left out.

### Settings

A slot of the GUI thread up to its next message box is one action; `boxes` holds the
slots that wait for one, innermost first (a page's name is the "Unable to apply"
box of that page, `"restart"` the question of `AdvancedPage::save()`). `file` is the
settings file, `form` the widgets, `tor` the running configuration and `torrc` what
a restart reads. The pages are `"Network"`, `"Server"` and `"Tor"` (the Advanced
page); all settings of a page are one value, since they share one mark and are sent
in one SETCONF. A page that is saved in part is saved or not (`PageInvalid`,
`AskRestart`).

* `Stored`, `Displayed`, `Reverted` are `setValue()`, `value()` and `revert()`.
  `opened` is the `_backupSettings` of the objects that `ServerPage` and
  `AdvancedPage` keep; `NetworkPage` makes a new object for each call, so that its
  backup is what is stored at that moment.
* `ApplyChanges` is the slot `applyChanges()`, called at the end of `SaveChanges` and,
  on `authenticated()`, by `Authenticate`, possibly below an open message box. A
  page whose SETCONF fails leaves the pages before it applied; a command whose reply
  is lost may have been obeyed. The SETCONF that follows a failed SAVECONF changes
  no setting of a page.
* `ServicesSaved` is the SAVECONF that the Services page sends between two others.
* `SavePassword`, `IgnorePort` and `EditTorrc` are slots elsewhere that store a setting
  or send one to Tor; `TorRestarts`, `OtherTorrc` and `VidaliaRestarts` may come at any
  time.
* `astray` is a history: groups that a Cancel reverted, that the torrc editor changed,
  or that came with another torrc, and that have not been saved since. Of these the
  mark says nothing, in the code as well.

### RelayPage and ExitPolicies

`page` is the widgets, `stored` the keys of the Server group, `tor` what Tor runs
with, `ports` what the UPnP thread was asked for, `test` the ports that an open
test dialog will ask for again. Saving stores the page, asks for the ports and
sends the settings to Tor, which may refuse; showing prefers Tor's value to the
stored one unless the group is marked. `ExitPolicies` has policies as sequences of
items and what Tor makes of one, so that the two ways in which boxes become a
policy are compared with what they let out.

### Services

`rows` is the table of the page and `services` the QMap beside it, by number of a
row; different code shifts the one and the other. `cell` is the current cell, on
which the buttons, the toggling of a box and `save()` depend. A directory with a `#`
is read back from the settings as another one, since `Service::toString()` joins with
`#`. Text that a user leaves invalid is replaced by the last valid one, as in the code; a
directory that was erased comes back that way too, without being compared with the others
again, which the history `erased` remembers.

### Network

`circ` and `strm` are what Tor has, which changes at any time; an event is sent only
if Tor was asked for it (`subscribed`). `shown`, `under` and `plotted` are what the
window has of it, `circRemovals` and `strmRemovals` the lists of items to be removed,
of which a timer takes the first, whichever it was started for. `stack` holds the
slots that are inside an event loop: a refresh between two descriptors, and
`authenticated()`. Selection and drawing are in `RelayViews`.

### MessageLog and StatusEvents

Tor writes numbered messages to its stdout, if it prints that severity, and reports
them as events if they were asked for; `pipe` and `queue` are on their way. An action
of `MessageLog` is a slot up to its next message box. `StatusEvents` has what
`TorEvents` makes of each status event, as sets of events, and the slots of the
widget and of the main window that handle them.

### HelperProcesses

`browser` and `im` are QProcesses and `job` what the updater does; `forked` says that
the browser was a launcher whose child a timer (`watched`) looks for. `boxes` holds the
dialogs that run an event loop. The main window's Tor is one of three: none, one
that runs, or one that was told to halt. `silent`, `overlap` and `hasty` are histories of
what `ProgressIsTrue` and `TorComesBack` except.

### The operators

* `ControlText`: a string is a sequence of character codes; quoting, escaping, splitting,
  `key=value` lists. `TorReplies`: from a command to its bytes and from Tor's lines to
  values; the module also has what Tor answers. `ControlValues`: a line is a record of
  its words.
* `TorPages`: a page is the record of its widgets and a group of settings the record of
  its values; `save`, `load` and `apply` are functions between them, for each version of Tor
  that the code tells apart and for no, Vidalia's and another's Tor.
* `RelayViews`: a relay's descriptor is folded into list, map and countries as the events
  come; the zoom is integral (thousandths), as the view is of pixels.
* `BandwidthGraph`, `HelpBrowser`: a window is a record, a click a function on it, and an
  `ASSUME` speaks of every sequence of clicks up to a length.
* `Application`: arguments, settings as functions from keys to values, and two or three
  processes that share a pid file in every order of their steps.
* `Translations`, `WixTool`: a program is a function from files and options to files and an
  exit code. In `WixTool` a list of nodes is live, as in QtXml.

## 3. Runs

All bounds are CONSTANTS of the modules and named `Max...`.

| run | bounds | shows |
| --- | --- | --- |
| `conn_clean` | 3 plain commands, 1 connection, 2 attempts, 1 event; disconnect and cancel | the channel of `RequestReply` is implemented, liveness included; nothing deleted is used; connection attempts are resolved and the destructor returns |
| `conn_full` | 3 commands of all kinds, 2 connections, 1 attempt, 1 event | the inductive invariant `Consistent`, no orphaned caller, and what must precede a mismatch or a deadlock |
| `main` | 2 queued signals, 1 message box, 1 timer | the button, the flags and New Identity agree with Tor |
| `upnp` | 1 DirPort, 2 ORPorts, 2 changes, 1 reboot, 1 refusal | the properties of port forwarding |
| `settings` | Network and Tor pages, 2 values each, 1 message box, 1 refusal | the properties of the changed mark |
| `relay` | 1 DirPort besides the default, 3 sets of boxes, 2 entries, 3 rates, 4 edits | the exit policy, the page and the forwarded ports agree |
| `services` | 2 directories, one with a `#`, 2 options, 2 rows, 3 edits, 2 openings of the dialog | table, map and Tor agree |
| `network` | 2 circuits, 1 stream, 1 relay to fetch, 1 queued signal, 2 suspended slots, 2 connections | the lists come to agree with Tor, and hold no dangling removal |
| `log` | 2 severities, 2 filters, lengths 1 and 2, 2 files, 1 Tor, 2 messages, 2 suspended slots | the log is in order, once, and in the named file |
| `status` | 10 events (`OneOfEach`), lengths 1 and 2, 2 queued signals, 2 suspended slots, 2 connections | the last word on Tor is right |
| `helpers` | browser in a directory, IM client, 1 package, 3 checks, 2 dialogs | the update dialog, the stopped Tor, and quitting |
| `conn_circular_wait` | 3 commands, 1 connection | see section 5 |

Why the bounds are enough: three commands are one without a waiter, one that is
answered wrongly because of it, and one after that; two connections are needed for
results that outlive a connection; two attempts (`conn_clean`) for a retry and a
last failure. In the window, one message box is the one that other slots
interrupt, and two queued signals may overtake its answer; two nested boxes (with
one queued signal) were checked once as well and take twice as long. For UPnP a
mapping is lost by one change between two passes of the loop and the second change
shows the state after it; two ORPorts are needed to change from one to the other.
For the settings, two pages are one that is applied before another is refused, one
of the kind that keeps its object and one of the other kind. For the page for
relays, the sets of boxes are one that becomes a policy of what is open, one
("Misc") of what is closed, and all, the entries one with a rate of its own and
"Custom", and the rates none, one below the minimum and one above; four edits are
a mode, a box, a rate and a save again. Two rows are the least in which a removal
moves another row, three edits of it one that creates, one that breaks and one that
shows it. Two circuits are one that goes while the other's timer runs; one queued
signal and two suspended slots are a disconnect that is handled inside a refresh
that runs inside `authenticated()`. Two messages are needed to be out of order, two
lengths to shorten a list, two connections for flags that outlive one, and three
checks for one that begins while the packages of another are shown.

Deadlock is checked in `conn_clean`, `main`, `upnp` and `settings`, whose programs end
in `Terminated` or go on for ever. It is off in `conn_full`, where the deadlock of the
two mutexes can happen: `DeadlockIsExplained` takes its place and says which circular
wait is possible and after what; and in `conn_circular_wait`. It is off in `relay`,
`services`, `network`, `log`, `status` and `helpers`, where a user may stop clicking and
Tor may be silent, so that a bound is a state without a step: nothing in these parts
waits for something else of the program.

**Fairness.** `ControlConnection`: weak fairness of the GUI thread inside a call, of
the control thread, and of Tor's answers (Tor may close instead); the GUI need not
make any call, and Tor need not send events. The operating system schedules both
threads; a mutex is held only for a bounded section, so weak fairness is enough.
`UPNPControl`: weak fairness of the UPnP thread, whose waits are timed (one minute),
of the five-minute expiry, and of the GUI thread inside `setDesiredState()` and
`cleanup()`. `Settings`: weak fairness of `Authenticate`, since
`MainWindow::connected()` authenticates at once; a connection may still be lost
first, which `PendingIsApplied` allows for. `Network`: single-shot timers fire when
the event loop is reached, and a refresh goes on. `HelperProcesses`: the timer of the
browser watcher, which repeats, fires. The others have safety properties only: a user
may leave any box open for ever.

**What each property says.**

* `ImplementsRequestReply`: every call of `send(cmd, reply)` is answered with the reply to
  its own command, or fails, and comes to an end.
* `NoOrphanedCaller`: when the thread has ended nobody waits for it.
* `NoDeletedWaiterQueued`: the queue refers to no `ReceiveWaiter` whose caller has
  returned.
* `PostsToLiveSocket`: no event is posted to a deleted socket.
* `MismatchIsExplained`: a caller gets the reply to another command only after a
  command was written with nobody waiting; `DeadlockIsExplained`: so for a circular wait
  of the two mutexes.
* `DestructorReturns`, `ConnectResolves`: waits end.
* `FlagsAreFresh`: an exit that nobody asked for is reported as such, and a relay's
  owner is asked how to stop it, whatever happened to the Tor before.
* `OursOffersStop`, `ButtonIsPending`: the button stops a Tor we run, and is disabled
  only as long as a signal will come.
* `IdentityNeedsConnection`: New Identity is offered only with a connection, although
  it is enabled by a timer.
* `CompleteIsMapped`: "forwarding complete" is true of the router.
* `LeavesNoMapping`: replacing a mapping leaves none behind, unless by the five-minute
  reset or a failure.
* `Forwards`: in the end the desired ports are forwarded, in spite of lost wake-ups.
* `StopReturns`: `cleanup()`, which blocks the GUI, comes to an end.
* `UnmarkedIsInForce`: an unmarked group has the stored value in Tor and in its torrc,
  unless it went astray.
* `MarkedUntilSaved`: a mark is taken away only when Tor's torrc has the value, or by a
  Cancel.
* `PendingIsApplied`: what is marked when Vidalia connects is applied, unless Tor
  refuses or the connection goes.
* `ExitAsTicked`: the policy Tor runs with lets out what is ticked and nothing else.
* `ForwardsAsTor`: with nothing pending, the ports to be forwarded are Tor's, but for
  those that a test dialog brings back.
* `ShownAsChosen`: the page shows what was chosen, read from Tor or from the file.
* `BoxesAreTrue`: what is ticked in a row is what the map holds for it.
* `DuplicatesExplained`: two rows have one directory only if it was browsed for while
  another column was current, was erased from a cell before and put back, or comes from a
  directory with a `#`. (A directory that is erased, typed elsewhere and put back takes six
  edits, more than the run has; the theorem speaks of any number.)
* `UnpublishedKnowingly`: saving takes no service from Tor that the user has not.
* `RemovalsExist`: what is scheduled for removal exists, and list and map hold the same
  circuits.
* `BlankWhenDisconnected`: nothing is listed without a connection, whatever refresh was
  suspended when it was lost.
* `SettledIsTrue`: with nothing on its way, the open circuits of the list are Tor's, but
  for those that changed while Tor was not asked for events.
* `ClosedDisappears`: a closed circuit disappears from the list.
* `InOrder`: Tor's messages are listed in order and once, although they come on two ways.
* `RegisteredAsFiltered`: Tor reports what the filter lets through, unless it refused.
* `LogsAsStored`: messages go to the file that the settings name, or to none, also while
  a message box says that another file did not open.
* `LastWordIsRight`: the newest notification on whether Tor runs is right.
* `EstablishedIsNoticed`: a circuit that Tor had before it was asked for events is noticed.
* `OnlineOnce`: a relay is announced once for a connection.
* `ProgressIsTrue`: the update dialog says what is so.
* `TorComesBack`: a Tor stopped for an upgrade is started again.
* `QuitsWithThem`, `QuitsOnlyThen`: Vidalia quits when browser and IM client have gone, and
  not before.

The exceptions in these ("unless", "but for") are behaviours of the code; section 5
lists them.

## 4. Proofs

A theorem speaks of every value of the constants: any bounds, ports, pages, circuits,
directories. It rests on the named assumption of its module, which says that bounds are
naturals (for some at least one), that sets of kinds are drawn from what the code knows and
that the value for "none" is not one of the others, and on nothing else, but for the two
conditions `Plain` and `Apart`, which are named below, and the fact `RightPolicies`. Three
modules have their theorems in the proofs of the part that they work beside, which extends
both; this is why their specifications are called `HelpersSpec`, `RelaySpec` and
`StatusSpec`. Each argument is of the same form: an inductive invariant, a lemma
that the initial states have it, one that each step keeps it, split by action and by
conjunct (`Init...`, `Step...`), and one that it implies the property; the last step of a
theorem combines them. Lemmas that are named for an operator (`RegisterIs`, `StartIs`,
`LoadedExplained`) say what it does to the state, so that a step is about that and not about
its definition.

**ControlConnection** (`ControlConnection_proofs`). `TypeCorrect` (so `attempt <=
MaxConnectAttempts`), `ThreadsAgree`, `NoCallerOrphaned`, `NoDeletedWaiter`,
`SocketLivesWhenPosted`, `MismatchExplained`, `DeadlockExplained` and `CallsAreAnswered`. The
first five rest on `TypeOK /\ Consistent`:

* `LocksOK` says where each thread is when it holds a mutex, so that a step of one
  thread that needs a mutex excludes the places of the other that hold it;
* `SockOK`: the socket exists exactly from `Setup` to `CleanSock`; with `LocksOK` this
  gives `PostsToLiveSocket`, because `CleanSock` needs `_connMutex` and `Post` has it;
* `AttemptOK`: a running timer has an attempt left, which bounds `attempt`;
* `SendWaitOK`: while the GUI thread waits for a result that is not set, the control
  thread has not passed the test of `_sendWaiter` in its clean-up; once it is set,
  the wake-up is still to come. A caller of `send(cmd, reply)` holds `_recvMutex` up
  to the enqueueing, so that the clean-up cannot have passed `CleanLock`;
* `RecvWaitOK`: the queue is empty or holds the waiter of the current call only.

`MismatchIsExplained` is not inductive: the wrong reply is prepared long before it is
delivered. `Matched` follows each command on its way (`Way`: posted, written, answered, in
the control thread's hand). The way is in the order of the calls (`InTurn`); what is on it
was posted by a call that came so far (`OnTheWay`, `Untouched`); nobody who was given his own
reply, or told that the thread ends, has anything on it (`Met`); and what is on it for a call
that has ended is `Stray`: that call was written without a waiter, or an earlier one was.
When a reply is delivered to another caller it is stray, which is the property; when the
thread waits for `_recvMutex` with a reply in its hand that the caller of the next command
holds, the reply is stray too, which gives `DeadlockIsExplained`.

`CallsAreAnswered` is the safety part of the refinement, under `Plain` (commands with
replies, one connection), without which it is false. `Single` adds what one connection
makes true: after it is made, or given up, there is no other (`OneConnection`), so that the
only `_sendWaiter`, which is never reset, tells a caller nothing untrue of its command
although it may tell of an earlier one (`WaiterIsTrue`), and what `send()` has returned is
what became of the command (`OutcomeIsTrue`). `StepImplements` maps each action to `Call`,
`Receive`, `Answered`, `Failed` or a stutter.

**Settings** (`Settings_proofs`). `SettingsTypeCorrect`, `UnmarkedInForce`, `MarkKept`. The
invariant `TypeOK /\ UnmarkedIsInForce` is inductive as it stands, because a page is marked in
the same step that stores it. `Applying` is the lemma the rest is built on:
`applyChanges()` on a file in which each group is marked or untouched (`StoredFrom`)
keeps the invariant, whichever page fails and whatever Tor made of it; `Saving` adds
the end of `saveChanges()`. `DialogStep` and `OutsideStep` go through the actions; each also
says which marks a step may take away (`Kept`), from which `MarkKept` follows.

**UPNPControl** (`UPNPControl_proofs`). `UPNPTypeCorrect`, `CompleteMapped`, `NoMappingLeft`.
`CompleteIsMapped` needs that what the thread believes to be mapped is mapped, but for the
ports that a `force_init` has yet to map anew (`BelievedIsMapped`), and how far
`configurePorts()` has come (`WorkDone`). The theorem has the condition `Apart`, that no port
is both a DirPort and an ORPort: with a common port TLC shows `CompleteIsMapped` violated, since
the update of one port removes the mapping that the update of the other has just made
(section 5). `NoMappingLeft` needs no such condition: it is the types and the step itself.

**Lists** (`Lists_proofs`). The loops of the program that copy a part of a list are
`Kept(s, I)`, a recursive function. `KeptIsSubsequence`: its result has the elements of `s` at
`I`, in order, each once, all of them. The proof needs an induction on the length. It is
done with sets: a set of naturals has a smallest element (`Least`, from the well-foundedness of
`<`), so that one that has 0 and is closed under successors is `Nat` (`SetInduction`).

**Services** (`Services_proofs`). `ServicesTypeCorrect`, `BoxesTrue`, `DuplicateDirectories`,
`NothingUnpublished`. `Typed` is `TypeOK /\ BoxesAreTrue`, which are inductive together;
`Selecting`, `RowRemoved` and `KeysShifted` say how the table and the keys of the map move.
`Explained` extends `DuplicatesExplained` to where a directory may come from: Tor, the
settings file, and the last valid text of a row (`TorExplained`, `StoredExplained`,
`KeptExplained`). The proof of `KeptExplained` failed at first for a reason: a directory that
is erased from a cell remains the row's last valid one and may meanwhile be given to another,
which `erased` now tells (section 5). `NothingUnpublished` is an action property and needs
`Offered`: while the page is shown, what Tor has is ticked in a row or was dropped by the user.

**Network** (`Network_proofs`). `NetworkTypeCorrect`, `RemovalsAreSafe`, `BlankOnceNoticed`,
`SettledListIsTrue`. `Exist` has the paths of the map, the place of streams and the two lists of
removals. `Faithful` is about the signals on their way:

* `LossIsTold`: without a connection nothing is listed, or the signal of the loss is on its
  way and no event comes after it;
* `NextIsTold`: a loss that another connection follows is followed by its signal;
* `WordsAreTrue`: the last word about a circuit on its way is true, and that it has gone is
  true even if it is not the last; `RemovalsAreDue`: so what waits to be removed has gone;
* `ListIsTrue`: with neither a connection nor a loss on its way, a circuit that nothing on
  its way is about is listed as Tor has it, or a suspended slot is going to load it.

**TorLifecycle** (`TorLifecycle_proofs`). `LifecycleTypeCorrect`, `OursIsStopped`,
`DisabledIsPending`, `FlagsOfThisProcess`, `IdentityIsOffered`. The two properties of the button
are inductive together (`Button`). `Fresh` adds to `FlagsAreFresh` that a delayed shutdown that was
chosen is carried out before any other slot runs, and that when the application is about to
quit no slot is suspended or no Tor runs. `Identity` is `Sound`, of which status, thread and link
of the connection go together, and `Offered`: New Identity is enabled only with a live
connection or with the news of its loss in the queue. For any number of message boxes, a slot
is only known by its frame; what `StartTor`, `StopProcess`, `Authenticate` and so on do is
stated once each.

**MessageLog** (`MessageLog_proofs`). `LogTypeCorrect`, `LogFileAsStored`, `FilterIsRegistered`,
`LogInOrder`. `Base` has the types, that a connection needs a Tor (`Linked`), that the list is not too
long (`Fits`) and the log file. `Changes` is all that a change of the settings does, whichever of
the slots does it, with whatever boxes between. For `InOrder`, `OneWay` says that stdout and events
are not used at once, but for a Tor that accepted the events too early (`overlap`), and `Arrived`
that what is listed was logged before what is on its way, by either channel.

**HelperProcesses** (in `TorLifecycle_proofs`). `HelpersTypeCorrect`, `UpdateDialogIsTrue`,
`StoppedTorComesBack`, `QuitsOnlyWithThem`. What the updater does shows in the process and in the
stack of dialogs, any of which may have been opened above any other. `Alone` says that no
available updates wait for an answer while an updater runs, and only one list of them, unless
another check was begun over them; `Explained` that what the progress dialog shows has its
cause there; and `Owing` that an installation runs which will restart a Tor that was
stopped for it. `Leaving` has what the timer that looks for a browser behind its launcher may
assume: as long as it runs and no circuit started the programs again, there is no other of
them to wait for. `QuitsOnlyThen` is an action property and
follows from `QuitsRightly` of the step.

**StatusEvents** (in `MessageLog_proofs`). `StatusTypeCorrect`, `NewestWordIsRight`,
`CircuitsAreNoticed`, `RelaysAreOnlineOnce`. All three depend on the order of what is in
the queue: `QueuedIn` says that while Tor is not connected, the end of a connection comes after
each beginning that is queued, and while it is, a beginning comes after each end, and last of
the two. `Told` is then about the newest word in the list, which adding keeps whatever it drops of
the oldest and clearing takes away; `Heard` about an established circuit: a notification, a signal
or the slot that will ask for it, unless it was established in the gap that `EstablishedIsNoticed`
excepts; `Counted` about the flag for the relay and the number of its announcements, counted
from when the beginning of the connection is handled.

**RelayPage** (in `UPNPControl_proofs`). `RelayTypeCorrect`, `PortsFollowTor`, `ExitsAsTicked`,
`PageAsChosen`. `Running` says that Tor runs with what is stored when nothing is marked and the
ports are to be forwarded (giving up brings back settings without forwarding), and
`BroughtBack` that the ports that are forwarded, or that an open test dialog will bring
back, are then those that Tor listens on, whether applying, authenticating or the end of a
test has asked for them. `ChoiceHolds` says that what is stored is what `save()` makes of the page
that was chosen, and that Tor runs with it unless it is marked or was given up. The rest is about what becomes of a
policy: `ExitsAsTicked` and `PageAsChosen` rest on the module's assumption `EveryChoice`, which is
`RightPolicies`: any choice of boxes is read back from its policy, which lets out what is
ticked. It has no parameters and is about the 64 choices of six boxes only; the folds over ports that
compute a policy are outside the provers' reach, and TLC evaluates it, completely, when
`relay` runs.

**Only model-checked.** Liveness is out of the prover's reach: `DestructorReturns`,
`ConnectResolves`, `Forwards`, `StopReturns`, `PendingIsApplied`, `ClosedDisappears`,
`QuitsWithThem` and the liveness of `ImplementsRequestReply`. Every other property of a passing run
has its theorem. The operators of section 2 are checked over bounded inputs: they are recursions
over data, of which the library's theorems of induction take a predicate that no installed
prover instantiates; what `Lists_proofs` does instead is possible where the recursion is a
function on numbers.

## 5. Findings

One run refutes what a comment says: `conn_circular_wait`, the opposite lock orders of
`send` and `onReadyRead`. The comment it contradicts is quoted in `PROJECT.json`.

The models also have the following behaviours of the code. No comment or document says
otherwise in so many words, so they are the exceptions in properties, or are stated as
they are by the `ASSUME`s of the operators.

**Control connection.** `send(cmd)` returns the result of an earlier command
(`SendCommandEvent.cpp:46`). Over a local socket a refused connection is not noticed
(`ControlSocket.cpp:46`). `setResult()` wakes a waiter that may be deleted already
(`CC:410`). `disconnect()` may use a socket that is gone (`CC:127`). A command with
characters that take two bytes is written and reported as failed
(`ControlSocket.cpp:173`).

**Main window.** Retry after the last failed attempt is ignored (`CC:171`). `restart()`
starts while the old Tor still halts (`MW:1213`). `close()` connects `stopped()` to
`quit()`, so that a later exit of Tor quits Vidalia if this stop failed (`MW:420`). A
second warning of the same version opens a second box (`MW:1817`).

**UPnP.** Every five minutes the thread forgets what it has mapped; the mapping of a port
that was changed since stays. Swapping the two ports removes the new DirPort's mapping
(`UPNPControlThread.cpp:65`). With the box unticked nothing is asked, and an earlier
mapping stays.

**Settings and pages.** Cancel after a page was refused does not bring back the settings
that Tor has: the Network page reverts nothing, and the others go back to the start of
the session (`AbstractTorSettings.cpp:41`). An authentication during an edit closes the
dialog (`ConfigDialog.cpp:248`). A password saved by `authenticationFailed()` is
overwritten by the open form (`MW:1639`). A burst below the average may be stored
(`ServerPage.cpp:571`). Saving gives every service the options of the current row
(`ServicePage.cpp:95`). A directory that is erased from its cell (`ServicePage.cpp:534`)
may be given to another service; the warning about a third one puts it back in the first, and
two services share it (`ServicePage.cpp:603`). Bridges that are listed and not used are lost once the page is
read back from Tor. `TunnelDirConns` is sent from 0.2.0.33 on, where the comment names
0.2.0.22-rc. Without a Tor the Advanced page hides automatic ports, and the next OK
clears them; when it is refused it has already stored two keys. A stored language that
Vidalia no longer has refuses every OK. The style that was given on the command line is
stored by any OK, a language is not. A proxy that is not to be run is forgotten.

**Replies.** Control characters are escaped with too few octal digits, bytes 0x80 to 0x9F
with 22, and printable Latin-1 bytes not at all. Empty arguments and such with tabs are
lost between `format_arguments` and `parse_arguments`. Values with `=` are not read by the
list and string forms of `getConf`, quoted ones not by the variant one, and trailing
blanks are trimmed; the hash form returns false always. `CONNECTRESET` is taken for a
refused connection. The character test of `isValidCircuitId` is never true. A Tor whose
only circuit is on the first line of the reply has none (`TorControl.cpp:1047`).

**Network window.** `RouterListItem`'s location is never assigned, so that the dialog of
the map shows an empty location for each listed relay, and each descriptor is resolved
again although a comment speaks of "information learned from a previous GeoIP request"
(`NetViewer.cpp:350`). A local GeoIP file that does not open still disables asking Tor.
A relay whose new address cannot be located keeps the old point, flag and country. Items
without a country are at the bottom in ascending order only. Places west of the map's
left edge (Wallis and Futuna, the US minor islands) are drawn beside it. Zooming to
circuits wider than two thirds of the map cuts them off in a narrow window. The header
gives 5 % for the zoom and the code 10. A click on the circuit that is still its list's
current one does nothing. Changing the language while a stream is selected and no relay
dereferences a null circuit.

**Log and notifications.** Messages in the pipe when stdout is closed are lost. A log file
that does not open leaves the old one open. A circuit that is established between the
question and SETEVENTS is noticed by nobody.

**Helpers.** `checkForUpdatesFailed()` is connected to nothing. An installation that ends
with a code and no message leaves Tor stopped (`UpdateProcess.cpp:198`). A check that a
timer begins while packages are shown ends as an installation (`UpdateProcess.cpp:77`).
The timer for updates is stopped by a check on a circuit and not started again (`MW:1745`).

**Application and crash reporter.** `-lang=pt_BR` is lower-cased and refused where `-lang
pt_BR` works; `-loglevel Info` is refused where `-loglevel=Info` works; `-datadir -reset`
takes the flag for the directory; `-reset` beside a wrong argument resets. A value equal to
its default is not stored, so that it changes with the locale. Two Vidalias that start
together are both told that they are alone. The crash reporter may be started without
annotations, as their path is longer and has the smaller buffer.

**Bandwidth graph and help.** A full graph that is made smaller keeps every later point
until it is reset. A click on the topic that is still the tree's current one after a search
result was opened does nothing. A search lists each page once more for every change of the
language. "Text not found" is said of a phrase that is behind the cursor.

**Tools.** Line breaks come back from `.po` as the two characters `\n`. An entry without a
context inherits that of the one before. Two comments at the end refuse the whole file.
`nsh2po` ignores the contexts the others read, keeps quotes between lines, and gives a line
without a quote the translation before it. `po2wxl` refuses all options together, and
each program runs without one that it needs. `wixtool` skips the sibling of what it
deletes, keeps a property it is told to delete, does not end when a document is spliced
into itself, and removes its output file before it has parsed anything.

## 6. Not modelled, and the plan

Not modelled: the Windows service (`TorService`), calls into a service manager; the map of
the build with Marble, which is a library's; the about dialog, static text; the SOCKS socket,
compression, and the place of windows on the screen; in the main window the
bootstrap progress, the icons and the start of the proxy; miniupnpc, vendored, of which
`UPNPControl` has what the code relies on. The reasons are in `PROJECT.json`, component by
component.

Next, proofs:

1. `RightPolicies` from the definitions, with the folds over groups and ports as functions on
   numbers, as `Lists` has its own; the exits of `RelayPage` then rest on nothing evaluated.
2. What `TorReplies` and `ControlValues` read of the replies in any order, in the same way.
3. The steps of `ImplementsRequestReply` for commands without a reply.
