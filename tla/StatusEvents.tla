---------------------------- MODULE StatusEvents ----------------------------
(***************************************************************************)
(* Tor's status events: what TorEvents.cpp makes of them, the list of      *)
(* notifications (vidalia/log/StatusEventWidget.cpp) and the warnings that *)
(* the main window opens a message box for.                                *)
(*                                                                         *)
(* One thread.  authenticated() calls StatusEventWidget first and          *)
(* MainWindow, which asks Tor for its events, last; event loops run in     *)
(* between and inside of the message boxes.                                *)
(***************************************************************************)
EXTENDS Naturals, Sequences, SequencesExt

CONSTANTS
    Reported,     \* the events that a Tor may report, out of Events
    Limits,       \* lengths of the list that a user may choose
    MaxQueue,     \* bound: signals on their way to the GUI thread
    MaxSlots,     \* bound: slots that wait for a nested event loop
    MaxConnects   \* bound: connections to Tor

------------------------------------------------------------------------------
(* TorEvents: an event is <<action, what its arguments say>>, and is turned into a   *)
(* signal with an argument, or into none.                                            *)

\* handleGeneralStatusEvent().  A skew of neither SKEW nor MIN_SKEW is not reported.
General == {
    <<"DANGEROUS_TOR_VERSION", "NEW", "dangerousTorVersion", "New">>,
    <<"DANGEROUS_TOR_VERSION", "UNRECOMMENDED", "dangerousTorVersion", "Unrecommended">>,
    <<"DANGEROUS_TOR_VERSION", "OBSOLETE", "dangerousTorVersion", "Obsolete">>,
    <<"DANGEROUS_TOR_VERSION", "OLD", "dangerousTorVersion", "Obsolete">>,
    <<"CLOCK_SKEW", "skewOfRelay", "clockSkewed", "OR">>,
    <<"CLOCK_SKEW", "minSkewOfRelay", "clockSkewed", "OR">>,
    <<"CLOCK_SKEW", "skewOfOther", "clockSkewed", "another">>,
    <<"BUG", "none", "bug", "none">>}

\* handleClientStatusEvent()
Client == {
    <<"CIRCUIT_ESTABLISHED", "none", "circuitEstablished", "none">>,
    <<"DANGEROUS_PORT", "REJECT", "dangerousPort", "rejected">>,
    <<"DANGEROUS_PORT", "WARN", "dangerousPort", "accepted">>,
    <<"DANGEROUS_SOCKS", "none", "socksError", "DangerousSocksType">>,
    <<"SOCKS_UNKNOWN_PROTOCOL", "none", "socksError", "UnknownSocksProtocol">>,
    <<"SOCKS_BAD_HOSTNAME", "none", "socksError", "BadSocksHostname">>,
    <<"BOOTSTRAP", "none", "bootstrapStatusChanged", "none">>}

\* handleServerStatusEvent() and splitAddress(): nothing without a valid address.
Server == {
    <<"EXTERNAL_ADDRESS", "none", "externalAddressChanged", "none">>,
    <<"CHECKING_REACHABILITY", "ORADDRESS", "checkingOrPortReachability", "none">>,
    <<"CHECKING_REACHABILITY", "DIRADDRESS", "checkingDirPortReachability", "none">>,
    <<"REACHABILITY_SUCCEEDED", "ORADDRESS", "orPortReachabilityFinished", "true">>,
    <<"REACHABILITY_SUCCEEDED", "DIRADDRESS", "dirPortReachabilityFinished", "true">>,
    <<"REACHABILITY_FAILED", "ORADDRESS", "orPortReachabilityFinished", "false">>,
    <<"REACHABILITY_FAILED", "DIRADDRESS", "dirPortReachabilityFinished", "false">>,
    <<"GOOD_SERVER_DESCRIPTOR", "none", "serverDescriptorAccepted", "none">>,
    <<"ACCEPTED_SERVER_DESCRIPTOR", "DIRAUTH", "serverDescriptorAccepted", "address">>,
    <<"BAD_SERVER_DESCRIPTOR", "DIRAUTH", "serverDescriptorRejected", "address">>,
    <<"DNS_HIJACKED", "none", "dnsHijacked", "none">>,
    <<"DNS_USELESS", "none", "dnsUseless", "none">>}

Parsed == General \cup Client \cup Server
Unparsed == {<<"CIRCUIT_NOT_ESTABLISHED", "none">>, <<"ACCEPTED_SERVER_DESCRIPTOR", "noAddress">>,
             <<"DANGEROUS_TOR_VERSION", "noReason">>, <<"CLOCK_SKEW", "noNumber">>}
Events == {<<p[1], p[2]>> : p \in Parsed} \cup Unparsed

\* handleStatusEvent(): at most one signal.
Signals(e) == {<<p[3], p[4]>> : p \in {q \in Parsed : <<q[1], q[2]>> = e}}
AtMostOne(S) == IF S = {} THEN <<>> ELSE <<CHOOSE x \in S : TRUE>>

ASSUME StatusAssumption ==
    /\ Reported \subseteq Events
    /\ Limits \subseteq Nat \ {0}
    /\ MaxQueue \in Nat /\ MaxSlots \in Nat /\ MaxConnects \in Nat

------------------------------------------------------------------------------
(* The notification that a signal adds, if any *)

SocksTitles == [DangerousSocksType |-> "DangerousConnection",
                UnknownSocksProtocol |-> "UnknownSocks",
                BadSocksHostname |-> "InvalidHostname"]
PortTitles == [true |-> "TestSuccessful", false |-> "TestFailed"]

\* clockSkewed() ignores what some versions of Tor report too liberally.
SkewTitles(source, liberal) ==
    IF source = "OR" /\ liberal THEN {} ELSE {"ClockIncorrect"}

\* The slots about the relay; the signal serverDescriptorAccepted() is connected to none,
\* and the one with an address is squelched after the first.
SquelchNone(arg, squelch) == arg = "address"
Announces(arg, squelch) == arg = "address" /\ ~squelch
RelayTitles(name, arg, squelch) ==
    CASE name = "serverDescriptorAccepted" ->
             IF Announces(arg, squelch) THEN {"RelayOnline"} ELSE {}
      [] name = "serverDescriptorRejected" -> {"DescriptorRejected"}
      [] name = "externalAddressChanged" -> {"AddressChanged"}
      [] name = "checkingOrPortReachability" -> {"CheckingServerPort"}
      [] name = "checkingDirPortReachability" -> {"CheckingDirectoryPort"}
      [] name \in {"orPortReachabilityFinished", "dirPortReachabilityFinished"} -> {PortTitles[arg]}
      [] name \in {"dnsHijacked", "dnsUseless"} -> {"DNSHijacking"}
      [] OTHER -> {}

Titles(signal, squelch, liberal) ==
    LET name == signal[1]
        arg == signal[2]
    IN  CASE name = "dangerousTorVersion" -> {"TorOutOfDate"}
          [] name = "circuitEstablished" -> {"Connected"}
          [] name = "bug" -> {"TorError"}
          [] name = "clockSkewed" -> SkewTitles(arg, liberal)
          [] name = "dangerousPort" -> {"DangerousConnection"}
          [] name = "socksError" -> {SocksTitles[arg]}
          [] OTHER -> RelayTitles(name, arg, squelch)

Running == "Running"
NotRunning == "NotRunning"

------------------------------------------------------------------------------
VARIABLES
    \* Tor
    torLink,      \* the connection is Down, Up or Authed
    subscribed,   \* did Tor accept SETEVENTS
    established,  \* status/circuit-established
    peer,         \* status/version/current, and is it a version that is liberal with skews
    \* the GUI thread
    signals,      \* signals on their way, oldest first
    slots,        \* slots inside a nested event loop, innermost last
    limit,        \* _maximumItemCount
    items,        \* the notifications, oldest first: Running, NotRunning or another
    squelch,      \* _squelchDescriptorAcceptedEvent
    warned,       \* alreadyWarned of displayTorVersionWarning()
    \* history
    connects,
    noticed,      \* was "Connected" added since the last Running
    gap,          \* was a circuit established when Tor told nobody
    online,       \* how often a relay was said to be online since the last NotRunning
    accepted,     \* was a descriptor reported to be accepted since then
    initialised   \* has squelch been assigned

torStatus == <<torLink, subscribed, established, peer, connects, gap>>
list == <<limit, items>>
said == <<noticed, online, accepted>>
statusVars == <<torStatus, signals, slots, list, squelch, warned, said, initialised>>

Versions == {"recommended", "new", "old", "obsolete", "unrecommended"}

\* The constructor assigns neither squelch nor anything else of these.
StatusInit ==
    /\ torLink = "Down" /\ subscribed = FALSE /\ established = FALSE
    /\ peer = [version |-> "recommended", liberal |-> FALSE]
    /\ signals = <<>> /\ slots = <<>>
    /\ limit \in Limits /\ items = <<>>
    /\ squelch \in BOOLEAN /\ warned = FALSE
    /\ connects = 0 /\ noticed = FALSE /\ gap = FALSE
    /\ online = 0 /\ accepted = FALSE /\ initialised = FALSE

------------------------------------------------------------------------------
(* Tor *)

\* An event is sent if it was asked for; the signal is posted to the GUI thread.
Post(e) ==
    signals' = IF subscribed THEN signals \o AtMostOne(Signals(e)) ELSE signals

Reports(e) ==
    /\ torLink # "Down" /\ Len(signals) < MaxQueue
    /\ Post(e)
    /\ established' = CASE e[1] = "CIRCUIT_ESTABLISHED" -> TRUE
                        [] e[1] = "CIRCUIT_NOT_ESTABLISHED" -> FALSE
                        [] OTHER -> established
    /\ gap' = (gap \/ (established' /\ ~established /\ ~subscribed))
    /\ UNCHANGED <<torLink, subscribed, peer, connects, slots, list, squelch, warned, said,
                   initialised>>

ConnectionMade ==
    /\ torLink = "Down" /\ connects < MaxConnects /\ Len(signals) < MaxQueue
    /\ torLink' = "Up" /\ connects' = connects + 1
    /\ \E v \in Versions, l \in BOOLEAN : peer' = [version |-> v, liberal |-> l]
    /\ established' \in BOOLEAN
    /\ signals' = Append(signals, <<"connected", "none">>)
    /\ UNCHANGED <<subscribed, gap, slots, list, squelch, warned, said, initialised>>

ConnectionLost ==
    /\ torLink # "Down" /\ Len(signals) < MaxQueue
    /\ torLink' = "Down" /\ subscribed' = FALSE
    /\ signals' = Append(signals, <<"disconnected", "none">>)
    /\ UNCHANGED <<established, peer, connects, gap, slots, list, squelch, warned, said,
                   initialised>>

------------------------------------------------------------------------------
(* The list *)

\* addNotification() removes the oldest item of a full list.  Whether the list is shown in
\* ascending order or not makes no difference to which one that is.
TitleKept(title) == IF title \in {Running, NotRunning} THEN title ELSE "another"
Added(seq, title) == Append(IF Len(seq) = limit THEN Tail(seq) ELSE seq, TitleKept(title))
AddedIfAny(seq, titles) ==
    IF titles = {} THEN seq ELSE Added(seq, CHOOSE title \in titles : TRUE)

\* setMaximumItemCount(), when the settings of the log are saved, which no box is open at
Oldest(n) == SubSeq(items, 1, n)
Newest(n) == SubSeq(items, Len(items) - n + 1, Len(items))
NoBox == \A i \in DOMAIN slots : slots[i] = "auth"
SetLimit(n) ==
    /\ NoBox /\ n # limit /\ limit' = n
    /\ items' = IF Len(items) > n THEN Newest(n) ELSE items
    /\ UNCHANGED <<torStatus, signals, slots, squelch, warned, said, initialised>>

\* MessageLog::clear()
ClearList ==
    /\ NoBox /\ items # <<>> /\ items' = <<>>
    /\ UNCHANGED <<torStatus, signals, slots, limit, squelch, warned, said, initialised>>

------------------------------------------------------------------------------
(* Connected and authenticated *)

\* StatusEventWidget::authenticated(): "in case we missed that event"
MissNothing == {}
Missed == IF established THEN {"Connected"} ELSE {}
OutOfDate ==
    IF peer.version \in {"old", "obsolete", "unrecommended"}
    THEN {"TorOutOfDate"} ELSE {}
Authenticated ==
    /\ items' = AddedIfAny(AddedIfAny(Added(items, Running), Missed), OutOfDate)
    /\ noticed' = (Missed # {})
    /\ gap' = FALSE

Delivered(name) == signals # <<>> /\ Head(signals)[1] = name /\ signals' = Tail(signals)
TopSlot == Last(slots)
SlotsBeneath == Front(slots)

\* MainWindow::connected(): nothing if the connection has gone.
HandleConnected ==
    /\ Delivered("connected")
    /\ IF torLink = "Down"
       THEN UNCHANGED <<torLink, gap, slots, items, noticed>>
       ELSE /\ Len(slots) < MaxSlots
            /\ torLink' = "Authed" /\ Authenticated /\ slots' = Append(slots, "auth")
    /\ UNCHANGED <<subscribed, established, peer, connects, limit, squelch, warned, online,
                   accepted, initialised>>

\* displayTorVersionWarning() remembers that it has warned when the box is closed.
Warn(rest) ==
    IF warned THEN slots' = rest
              ELSE Len(rest) < MaxSlots /\ slots' = Append(rest, "version")

\* MainWindow::authenticated(): SETEVENTS, and checkTorVersion() unless the user has
\* switched it off.
Subscribe ==
    /\ slots # <<>> /\ TopSlot = "auth"
    /\ subscribed' = (torLink = "Authed")
    /\ \/ torLink = "Authed" /\ peer.version \in {"old", "obsolete", "unrecommended"} /\ Warn(SlotsBeneath)
       \/ slots' = SlotsBeneath
    /\ UNCHANGED <<torLink, established, peer, connects, gap, signals, list, squelch, warned, said,
                   initialised>>

\* StatusEventWidget::disconnected()
ResetSquelch == squelch' = FALSE
HandleDisconnected ==
    /\ Delivered("disconnected")
    /\ items' = Added(items, NotRunning)
    /\ ResetSquelch
    /\ noticed' = FALSE /\ online' = 0 /\ accepted' = FALSE
    /\ initialised' = TRUE
    /\ UNCHANGED <<torStatus, slots, limit, warned>>

------------------------------------------------------------------------------
(* Signals that Tor's events were turned into *)

HandleSignal ==
    /\ signals # <<>> /\ Head(signals)[1] \notin {"connected", "disconnected"}
    /\ signals' = Tail(signals)
    /\ LET signal == Head(signals)
           titles == Titles(signal, squelch, peer.liberal)
       IN  /\ items' = AddedIfAny(items, titles)
           /\ noticed' = (noticed \/ signal[1] = "circuitEstablished")
           /\ accepted' = (accepted \/ signal = <<"serverDescriptorAccepted", "address">>)
           /\ squelch' = (squelch \/ signal = <<"serverDescriptorAccepted", "address">>)
           /\ online' = online + (IF "RelayOnline" \in titles THEN 1 ELSE 0)
           /\ CASE signal[1] = "dangerousTorVersion" /\ signal[2] # "New" -> Warn(slots)
                [] signal[1] = "dangerousPort" /\ ~Contains(slots, "port") ->
                       Len(slots) < MaxSlots /\ slots' = Append(slots, "port")
                [] OTHER -> UNCHANGED slots
    /\ UNCHANGED <<torStatus, limit, warned, initialised>>

WarningAnswered ==
    /\ slots # <<>> /\ TopSlot \in {"port", "version"} /\ slots' = SlotsBeneath
    /\ warned' = (warned \/ TopSlot = "version")
    /\ UNCHANGED <<torStatus, signals, list, squelch, said, initialised>>

StatusNext ==
    \/ \E e \in Reported : Reports(e)
    \/ ConnectionMade \/ ConnectionLost
    \/ (\E n \in Limits : SetLimit(n)) \/ ClearList
    \/ HandleConnected \/ Subscribe \/ HandleDisconnected \/ HandleSignal \/ WarningAnswered

StatusSpec == StatusInit /\ [][StatusNext]_statusVars
------------------------------------------------------------------------------
(* Properties *)

Settled == signals = <<>>

\* Once all has been handled, the newest notification on whether Tor runs is right,
\* in whatever slot a connection was lost or came back, and however the list was cleared,
\* shortened and filled, which takes the oldest away (StatusEventWidget.cpp:102, :206).
LastWord(i) ==
    /\ items[i] \in {Running, NotRunning}
    /\ \A j \in DOMAIN items : j > i => items[j] = "another"
LastWordIsRight ==
    /\ Len(items) <= limit
    /\ Settled => \A i \in DOMAIN items : LastWord(i) => (items[i] = Running <=> torLink = "Authed")

\* A user who is connected has been told that a circuit is established: "in which case we
\* missed the CIRCUIT_ESTABLISHED event. So fake it." (StatusEventWidget.cpp:272), unless it
\* was established between that and SETEVENTS.
EstablishedIsNoticed ==
    (Settled /\ torLink = "Authed" /\ established /\ ~gap) => noticed

\* A relay is said to be online once for a connection that reports its descriptor as
\* accepted, however often it does: never twice, and not at all only before squelch has
\* been assigned.
OnlineOnce ==
    /\ online <= 1
    /\ (accepted /\ initialised) => online = 1
=============================================================================
