------------------------------ MODULE Network ------------------------------
(***************************************************************************)
(* The network window (vidalia/network/NetViewer.cpp, CircuitListWidget,   *)
(* RouterListWidget, TorMapImageView): lists of relays, circuits and       *)
(* streams and a map of them, filled by a refresh and kept up to date by   *)
(* the events that Tor is asked for once the window has been filled.       *)
(*                                                                         *)
(* One thread.  A slot that runs an event loop (the processEvents() of     *)
(* loadNetworkStatus(), a message box) waits on the stack while other      *)
(* slots run.                                                              *)
(***************************************************************************)
EXTENDS Naturals, Sequences, FiniteSets, SequencesExt

CONSTANTS
    Circuits,    \* the ids of circuits a Tor may use
    Streams,     \* the ids of streams a Tor may use
    MaxRelays,   \* bound: relays of which refresh() fetches the descriptor
    MaxQueue,    \* bound: signals on their way to the GUI thread
    MaxDepth,    \* bound: slots that wait for a nested event loop
    MaxConnects  \* bound: connections to Tor

NoCircuit == "0"

ASSUME NetworkAssumption ==
    /\ NoCircuit \notin Circuits
    /\ MaxRelays \in Nat /\ MaxQueue \in Nat /\ MaxDepth \in Nat /\ MaxConnects \in Nat

VARIABLES
    \* Tor
    link,        \* TorControl::isConnected()
    authed,      \* has Tor authenticated this connection
    subscribed,  \* did it accept SETEVENTS
    circ,        \* the status of each circuit
    strm,        \* the status of each stream and its circuit
    \* the GUI thread
    queue,       \* signals of the control thread, oldest first
    stack,       \* slots inside a nested event loop, innermost last
    relays,      \* are relays listed and plotted
    shown,       \* the status of each circuit that is in the list
    under,       \* each stream's status and the circuit whose item it is below
    plotted,     \* the circuits on the map
    circRemovals, strmRemovals, \* _circuitRemovalList and _streamRemovalList
    circTimers, strmTimers,     \* single-shot timers that are still to fire
    timer,       \* is _refreshTimer active
    action,      \* is the action Refresh enabled
    \* history and bound
    missed,      \* circuits that Tor changed and told nobody since clear()
    connects

tor == <<link, authed, subscribed, circ, strm, missed, connects>>
circuitList == <<shown, under, circRemovals, strmRemovals>>
timers == <<circTimers, strmTimers>>
lists == <<relays, circuitList, plotted, timers>>
window == <<timer, action>>
vars == <<tor, queue, stack, lists, window>>

Gone == "Closed"   \* Closed and Failed differ in the delay of their removal only
Statuses == {"Absent", "Open", Gone}
Absent == [status |-> "Absent", on |-> NoCircuit]
StreamStates == [status : Statuses, on : Circuits \cup {NoCircuit}]
Deleted == "0"     \* the null pointer in _streamRemovalList

CircMsg(c) == [kind |-> "circ", id |-> c, status |-> circ'[c]]
StrmMsg(s) == [kind |-> "strm", id |-> s, status |-> strm'[s].status, on |-> strm'[s].on]
Note(k) == [kind |-> k]

Init ==
    /\ link = FALSE /\ authed = FALSE /\ subscribed = FALSE
    /\ circ = [c \in Circuits |-> "Absent"] /\ strm = [s \in Streams |-> Absent]
    /\ queue = <<>> /\ stack = <<>>
    /\ relays = FALSE
    /\ shown = [c \in Circuits |-> "Absent"] /\ under = [s \in Streams |-> Absent]
    /\ plotted = {} /\ circRemovals = <<>> /\ strmRemovals = <<>>
    /\ circTimers = 0 /\ strmTimers = 0
    /\ timer = FALSE /\ action = FALSE
    /\ missed = {} /\ connects = 0

------------------------------------------------------------------------------
(* Tor and the control thread *)

\* An event reaches the GUI thread only if it was asked for.
Tell(msg) ==
    IF subscribed THEN Len(queue) < MaxQueue /\ queue' = Append(queue, msg)
                  ELSE UNCHANGED queue

\* Tor launches or closes a circuit.  An id is used once.  (What happens without a
\* connection might as well happen at the start of the next one.)
CircuitChanges(c, from, to) ==
    /\ link /\ circ[c] = from /\ circ' = [circ EXCEPT ![c] = to]
    /\ Tell(CircMsg(c))
    /\ missed' = IF subscribed THEN missed ELSE missed \cup {c}
    /\ UNCHANGED <<link, authed, subscribed, strm, connects, stack, lists, window>>

\* A stream is attached to a circuit, moved to another one, or ends.  A new stream is on
\* no circuit, so that it is never listed, and is left out.
StreamChanges(s, to) ==
    /\ link
    /\ \/ /\ strm[s].status # Gone /\ to.status = "Open"
          /\ to.on \in Circuits /\ circ[to.on] = "Open" /\ to # strm[s]
       \/ strm[s].status = "Open" /\ to = [strm[s] EXCEPT !.status = Gone]
    /\ strm' = [strm EXCEPT ![s] = to]
    /\ Tell(StrmMsg(s))
    /\ UNCHANGED <<link, authed, subscribed, circ, missed, connects, stack, lists, window>>

LinkGoesUp ==
    /\ ~link /\ connects < MaxConnects /\ Len(queue) < MaxQueue
    /\ link' = TRUE /\ connects' = connects + 1
    /\ queue' = Append(queue, Note("connected"))
    /\ UNCHANGED <<authed, subscribed, circ, strm, missed, stack, lists, window>>

\* The connection is lost; the next one may be to a Tor that has just started.
LinkGoesDown ==
    /\ link /\ Len(queue) < MaxQueue
    /\ link' = FALSE /\ authed' = FALSE /\ subscribed' = FALSE
    /\ queue' = Append(queue, Note("disconnected"))
    /\ \/ UNCHANGED <<circ, strm>>
       \/ circ' = [c \in Circuits |-> "Absent"] /\ strm' = [s \in Streams |-> Absent]
    /\ missed' = {c \in Circuits : c \in missed \/ circ'[c] # circ[c]}
    /\ UNCHANGED <<connects, stack, lists, window>>

TorStep ==
    \/ \E c \in Circuits : CircuitChanges(c, "Absent", "Open") \/ CircuitChanges(c, "Open", Gone)
    \/ \E s \in Streams, to \in StreamStates : StreamChanges(s, to)
    \/ LinkGoesUp \/ LinkGoesDown

------------------------------------------------------------------------------
(* The lists *)

\* scheduleCircuitRemoval(), scheduleStreamRemoval(): once for each item.
NotYet(seq, x) == ~Contains(seq, x)
Scheduled(seq, x) == IF NotYet(seq, x) THEN Append(seq, x) ELSE seq
Unstarted(n, seq, x) == n
Started(n, seq, x) == IF NotYet(seq, x) THEN n + 1 ELSE n

\* findCircuitItem() and findStreamItem()
ListedCircuit(c) == shown[c] # "Absent"
ListedStream(s) == under[s].status # "Absent"

\* TorMapImageView::addCircuit(): a new path, or another one for the same circuit.
Plotted(S) == plotted \cup S
ClearMap == plotted' = {}

\* addCircuit() of the list and of the map
AddCircuit(c, status) ==
    /\ shown' = [shown EXCEPT ![c] = status]
    /\ plotted' = Plotted({c})
    /\ circRemovals' = IF status = Gone THEN Scheduled(circRemovals, c) ELSE circRemovals
    /\ circTimers' = IF status = Gone THEN Started(circTimers, circRemovals, c) ELSE circTimers

\* What addStream() makes of the streams below the circuits.  One that is listed stays
\* where it is; one that is not is listed if its circuit is.
StreamListed(s, state) ==
    IF ListedStream(s) THEN [under EXCEPT ![s].status = state.status]
    ELSE IF state.on \in Circuits /\ shown'[state.on] # "Absent" THEN [under EXCEPT ![s] = state]
    ELSE under

\* CircuitListWidget::addStream(): the end of a stream removes an item that was there
\* before.
AddStream(s, state) ==
    LET ends == state.status = Gone /\ ListedStream(s)
    IN  /\ under' = StreamListed(s, state)
        /\ strmRemovals' = IF ends THEN Scheduled(strmRemovals, s) ELSE strmRemovals
        /\ strmTimers' = IF ends THEN Started(strmTimers, strmRemovals, s) ELSE strmTimers

\* clear()
DropLists == circRemovals' = <<>> /\ strmRemovals' = <<>>
KeepCircuits == UNCHANGED shown
DropCircuits == shown' = [c \in Circuits |-> "Absent"]
Clear ==
    /\ relays' = FALSE /\ ClearMap
    /\ DropCircuits /\ under' = [s \in Streams |-> Absent]
    /\ DropLists
    /\ UNCHANGED timers
    /\ missed' = {}

\* The streams whose items are below that of circuit c.
StreamsOf(c) == {s \in Streams : ListedStream(s) /\ under[s].on = c}

\* removeCircuit(): the oldest entry, whichever timer it was.
KeepPointers(seq, gone) == seq
NullPointers(seq, gone) == [i \in DOMAIN seq |-> IF seq[i] \in gone THEN Deleted ELSE seq[i]]
Unplotted(c) == plotted \ {c}
RemoveCircuit ==
    /\ circTimers > 0 /\ circTimers' = circTimers - 1
    /\ IF circRemovals = <<>>
       THEN UNCHANGED <<circuitList, plotted>>
       ELSE LET c == Head(circRemovals)
                gone == StreamsOf(c)
            IN  /\ circRemovals' = Tail(circRemovals)
                /\ shown' = [shown EXCEPT ![c] = "Absent"]
                /\ under' = [s \in Streams |-> IF s \in gone THEN Absent ELSE under[s]]
                /\ strmRemovals' = NullPointers(strmRemovals, gone)
                /\ plotted' = Unplotted(c)
    /\ UNCHANGED <<tor, queue, stack, relays, strmTimers, window>>

\* removeStream()
RemoveStream ==
    /\ strmTimers > 0 /\ strmTimers' = strmTimers - 1
    /\ IF strmRemovals = <<>>
       THEN UNCHANGED <<strmRemovals, under>>
       ELSE LET s == Head(strmRemovals)
            IN  /\ strmRemovals' = Tail(strmRemovals)
                /\ under' = IF s = Deleted THEN under ELSE [under EXCEPT ![s] = Absent]
    /\ UNCHANGED <<tor, queue, stack, relays, shown, plotted, circRemovals, circTimers, window>>

------------------------------------------------------------------------------
(* Refresh *)

\* loadNetworkStatus() asks for the relays: none without an authenticated connection.
RefreshFrame(kind, answered) ==
    [kind |-> kind, at |-> "relays", turns |-> IF answered THEN MaxRelays ELSE 0]

\* refresh() up to the first processEvents()
BeginRefresh ==
    /\ Len(stack) < MaxDepth
    /\ action' = FALSE
    /\ Clear
    /\ stack' = Append(stack, RefreshFrame("refresh", authed))
    /\ UNCHANGED <<link, subscribed, circ, strm, connects, timer>>

Top == Last(stack)
Beneath == Front(stack)
Goto(frame) == stack' = Append(Beneath, frame)

\* A stage between two requests to Tor, where no other slot runs.
InEventLoop == stack # <<>> => Top.at # "streams"

\* One relay: nothing more if the connection is lost.
NextRelay ==
    /\ stack # <<>> /\ Top.at = "relays" /\ Top.turns > 0
    /\ Goto([Top EXCEPT !.turns = IF link THEN Top.turns - 1 ELSE 0])
    /\ relays' = (relays \/ authed)
    /\ UNCHANGED <<tor, queue, circuitList, plotted, timers, window>>

\* What GETINFO lists.  getCircuits() does not read the first line of the reply,
\* where a Tor may put a circuit that is the only one.
CircuitsTold == {c \in Circuits : circ[c] = "Open"}
Answered(S) == {S}
Replies(S) == IF ~authed THEN {{}} ELSE {S} \cup (IF Cardinality(S) = 1 THEN {{}} ELSE {})

\* loadConnections(): the circuits
LoadCircuits ==
    /\ stack # <<>> /\ Top.at = "relays" /\ Top.turns = 0
    /\ Goto([Top EXCEPT !.at = "streams"])
    /\ \E told \in Replies(CircuitsTold) :
          /\ shown' = [c \in Circuits |-> IF c \in told THEN "Open" ELSE shown[c]]
          /\ plotted' = Plotted(told)
          /\ missed' = missed \cup (CircuitsTold \ told)
    /\ UNCHANGED <<link, authed, subscribed, circ, strm, connects, queue, relays, under,
                   circRemovals, strmRemovals, timers, window>>

\* and the streams.  refresh() enables its action;
\* after authenticated() the timer is started, and ConfigDialog::applyChanges() follows.
StreamsTold == {s \in Streams : authed /\ strm[s].status = "Open"}
LoadStreams ==
    /\ stack # <<>> /\ Top.at = "streams"
    /\ under' = [s \in Streams |->
                   IF s \in StreamsTold
                   THEN IF ListedStream(s) THEN [under[s] EXCEPT !.status = "Open"]
                        ELSE IF ListedCircuit(strm[s].on) THEN strm[s] ELSE Absent
                   ELSE under[s]]
    /\ action' = TRUE
    /\ IF Top.kind = "authenticated"
       THEN timer' = TRUE /\ Goto([Top EXCEPT !.at = "box"])
       ELSE UNCHANGED timer /\ stack' = Beneath
    /\ UNCHANGED <<tor, queue, relays, shown, plotted, circRemovals, strmRemovals, timers>>

\* MainWindow::authenticated() comes last: setEvents().
Subscribe ==
    /\ stack # <<>> /\ Top.kind = "authenticated" /\ Top.at = "box"
    /\ stack' = Beneath
    /\ subscribed' = authed
    /\ UNCHANGED <<link, authed, circ, strm, missed, connects, queue, lists, window>>

RefreshClicked == action /\ BeginRefresh /\ UNCHANGED <<authed, queue>>
RefreshTimeout == timer /\ BeginRefresh /\ UNCHANGED <<authed, queue>>

------------------------------------------------------------------------------
(* Signals of the control thread *)

Delivered(k) == queue # <<>> /\ Head(queue).kind = k /\ queue' = Tail(queue)

HandleCircuit ==
    /\ Delivered("circ")
    /\ AddCircuit(Head(queue).id, Head(queue).status)
    /\ UNCHANGED <<tor, stack, relays, under, strmRemovals, strmTimers, window>>

HandleStream ==
    /\ Delivered("strm") /\ UNCHANGED shown
    /\ AddStream(Head(queue).id, [status |-> Head(queue).status, on |-> Head(queue).on])
    /\ UNCHANGED <<tor, stack, relays, plotted, circRemovals, circTimers, window>>

\* MainWindow::connected() authenticates, and authenticated() fills the window first.
HandleConnected ==
    /\ Delivered("connected")
    /\ authed' = link
    /\ IF link
       THEN /\ Len(stack) < MaxDepth
            /\ action' = FALSE
            /\ Clear
            /\ stack' = Append(stack, RefreshFrame("authenticated", link))
       ELSE UNCHANGED <<missed, stack, lists, action>>
    /\ UNCHANGED <<link, subscribed, circ, strm, connects, timer>>

\* onDisconnected()
HandleDisconnected ==
    /\ Delivered("disconnected")
    /\ Clear
    /\ timer' = FALSE /\ action' = FALSE
    /\ UNCHANGED <<link, authed, subscribed, circ, strm, connects, stack>>

Signal == HandleCircuit \/ HandleStream \/ HandleConnected \/ HandleDisconnected

------------------------------------------------------------------------------
TimerStep == InEventLoop /\ (RemoveCircuit \/ RemoveStream)
LoadStep == NextRelay \/ LoadCircuits \/ LoadStreams
Refresh == InEventLoop /\ (RefreshClicked \/ RefreshTimeout)

Next ==
    \/ TorStep
    \/ TimerStep \/ LoadStep \/ Subscribe \/ Refresh
    \/ InEventLoop /\ Signal

\* Timers fire, and a slot that runs is not suspended for ever, except by a user who
\* leaves a box open.
Fairness == WF_vars(InEventLoop /\ RemoveCircuit) /\ WF_vars(LoadStep)

Spec == Init /\ [][Next]_vars /\ Fairness
------------------------------------------------------------------------------
(* Properties *)

Listed == {c \in Circuits : ListedCircuit(c)}
Below == {s \in Streams : ListedStream(s)}

\* The lists of scheduled removals name items that exist, once each: an item that is
\* deleted in another way (with its circuit, by clear(), by an earlier timer) has left
\* its list, since removeCircuit() and removeStream() use the pointers they take from it.
\* So do what they lead to: the path of a circuit on the map, which is removed without a
\* test for null (TorMapImageView.cpp:139), and the circuit of a stream.
RemovalsExist ==
    /\ plotted = Listed /\ \A s \in Below : under[s].on \in Listed
    /\ ToSet(circRemovals) \subseteq Listed
    /\ ToSet(strmRemovals) \ {Deleted} \subseteq Below
    /\ \A i, j \in DOMAIN circRemovals : i # j => circRemovals[i] # circRemovals[j]
    /\ \A i, j \in DOMAIN strmRemovals :
          i # j /\ strmRemovals[i] # Deleted => strmRemovals[i] # strmRemovals[j]

\* After a lost connection has been noticed nothing is listed, whatever slot was inside
\* its event loop when it was, until the next connection.
BlankWhenDisconnected ==
    (~link /\ queue = <<>> /\ stack = <<>>) =>
       ~relays /\ Listed = {} /\ Below = {}

\* Once every signal has been handled and no refresh runs, the open circuits of the list
\* are Tor's: those that changed while Tor was not asked to report them excepted.
Settled == link /\ authed /\ subscribed /\ queue = <<>> /\ stack = <<>>
SettledIsTrue ==
    Settled => \A c \in Circuits \ missed : (shown[c] = "Open") = (circ[c] = "Open")

\* A circuit that is listed as closed disappears from the list.
ClosedDisappears ==
    \A c \in Circuits : (shown[c] = Gone) ~> (shown[c] # Gone)

=============================================================================
