----------------------------- MODULE RelayPage -----------------------------
(***************************************************************************)
(* The page of the configuration dialog for relays                         *)
(* (vidalia/config/ServerPage.cpp), the settings it loads and stores       *)
(* (ServerSettings.cpp), what of them Tor is told, the ports that are to   *)
(* be forwarded to it, and the dialog that tests forwarding                *)
(* (UPNPTestDialog.cpp).                                                   *)
(*                                                                         *)
(* Rates are in KB/s.  The nickname, the contact and the relay's own port  *)
(* are there, and never change; module Settings has the other pages, and   *)
(* the message boxes that may be open on top of each other.                *)
(***************************************************************************)
EXTENDS ExitPolicies, Integers

CONSTANTS
    DirLines,   \* texts that the user may enter as the directory port
    BoxSets,    \* the boxes of the Exit Policies tab that the user may tick
    Entries,    \* entries of the list of rates that the user may choose
    Rates,      \* texts that the user may enter as a rate; 0 is the empty one
    MaxEdits    \* bound: changes of the user in all

PortNumbers == 0 .. 65535
ASSUME RelayAssumption ==
    DirLines \subseteq PortNumbers \ {0} /\ BoxSets \subseteq SUBSET Boxes
    /\ Entries \subseteq 1 .. 6 /\ Rates \subseteq Nat /\ MaxEdits \in Nat

\* A policy lets out the groups of ports in open, and nothing else.
Elsewhere == 9999
LetsOut(policy, open) ==
    /\ \A g \in ToSet(Groups) : \A r \in ToSet(Ports[g]) : \A end \in {r[1], r[2]} :
          Allows(policy, end) <=> g \in open
    /\ Allows(policy, Elsewhere) <=> "Misc" \in open

\* Any choice of boxes is read back from its policy, which lets out what is ticked, and is
\* that of a relay without exits if nothing is.  (The runs tick those in BoxSets.)
RightPolicies ==
    /\ \A boxes \in SUBSET Boxes :
          /\ BoxesOf(Parsed(PolicyOf(boxes))) = boxes
          /\ Parsed(PolicyOf(boxes)) = Middleman <=> boxes = {}
          /\ LetsOut(PolicyOf(boxes), boxes)
    /\ Parsed(Middleman) = Middleman /\ LetsOut(Middleman, {})
ASSUME EveryChoice == RightPolicies

Modes == {"client", "server", "nonexit", "bridge"}
Empty == -1       \* the empty text of lineDirPort
None == [none |-> TRUE]

Number(line) == IF line = Empty THEN 0 ELSE line

MinRate == 20
MaxRate == 2097151
Presets == <<<<32, 64>>, <<64, 128>>, <<96, 192>>, <<192, 384>>, <<5120, 10240>>>>
Custom == Len(Presets) + 1

VARIABLES
    link,       \* is the control connection Down or Authed
    tor,        \* what Tor runs with; 0 and <<>> are its defaults
    stored,     \* the settings of the group Server
    changed,    \* SETTING_CHANGED
    shown,      \* is the dialog shown
    page,       \* the widgets
    tmp,        \* _tmpDirPort and _tmpMirror
    ports,      \* UPNPControl: the ports that are to be forwarded
    test,       \* the old ports of the UPNPTestDialog that is open, or None
    edits,
    chosen,     \* history: the page when it was last saved, or None
    astray,     \* history: settings were brought back that Tor was not told of
    stale       \* history: has a test dialog brought back ports that were out of date

dialogVars == <<shown, page, tmp, edits>>
relayVars == <<link, tor, stored, changed, dialogVars, ports, test, chosen, astray, stale>>

TorDefault == [server |-> FALSE, bridge |-> FALSE, dirport |-> 0, policy |-> <<>>,
               avg |-> 0, burst |-> 0]
Defaults == [enabled |-> FALSE, nonexit |-> FALSE, bridge |-> FALSE, dirport |-> 9030,
             mirror |-> TRUE, policy |-> Middleman, avg |-> 5120, burst |-> 10240,
             upnp |-> FALSE]
NoPorts == [or |-> FALSE, dir |-> 0]

RelayInit ==
    /\ link = "Down" /\ tor = TorDefault /\ stored = Defaults /\ changed = FALSE
    /\ shown = FALSE /\ edits = 0
    /\ page = [mode |-> "client", line |-> Empty, mirror |-> FALSE, boxes |-> {},
               rate |-> 1, avg |-> 0, burst |-> 0, upnp |-> FALSE]
    /\ tmp = [line |-> 9030, mirror |-> TRUE]
    /\ ports = NoPorts /\ test = None /\ chosen = None
    /\ astray = FALSE /\ stale = FALSE

------------------------------------------------------------------------------
(* ServerSettings *)

AskTor == link = "Authed" /\ ~changed

\* value(): what Tor runs with, or what is stored if that is empty; isServerEnabled(),
\* isBridgeEnabled() and isNonExitEnabled().
TorsAlone(key) == IF AskTor THEN tor[key] ELSE stored[key]
Value(key) == IF AskTor /\ tor[key] # TorDefault[key] THEN tor[key] ELSE stored[key]
ServerEnabled == IF AskTor THEN tor.server ELSE stored.enabled
BridgeEnabled == ServerEnabled /\ IF AskTor THEN tor.bridge ELSE stored.bridge

\* confValues() of settings S that are marked as changed.
PolicyAsStored(S) ==
    [server |-> TRUE, bridge |-> S.bridge, dirport |-> IF S.mirror THEN S.dirport ELSE 0,
     policy |-> S.policy, avg |-> S.avg, burst |-> S.burst]
ConfValues(S) ==
    [server |-> TRUE, bridge |-> S.bridge,
     dirport |-> IF S.mirror THEN S.dirport ELSE 0,
     policy |-> IF S.bridge \/ S.nonexit THEN Middleman ELSE S.policy,
     avg |-> S.avg, burst |-> S.burst]
Wanted(S) == IF S.enabled THEN ConfValues(S) ELSE TorDefault

\* configurePortForwarding(): the ports of a relay that is enabled, with directory port d.
LeavePorts(old, S, enabled, d) == old
Forwarded(old, S, enabled, d) ==
    IF S.upnp THEN [or |-> enabled, dir |-> IF enabled /\ S.mirror THEN d ELSE 0] ELSE old

\* What Tor insists on.
Acceptable(conf) == conf.avg <= conf.burst

------------------------------------------------------------------------------
(* The widgets *)

\* serverModeChanged()
ForBridge(p) == [p EXCEPT !.line = Empty, !.mirror = FALSE]
Switched(p, t, mode) ==
    IF mode = "bridge" THEN ForBridge([p EXCEPT !.mode = mode])
    ELSE [p EXCEPT !.mode = mode, !.line = t.line, !.mirror = t.mirror]
Remembered(p, t, mode) ==
    IF mode = "bridge" /\ p.line # Empty THEN [line |-> p.line, mirror |-> p.mirror] ELSE t

\* customRateChanged(): the average that the burst is compared to is the text as it was.
RatesFixed(p) ==
    LET low == IF p.avg > p.burst THEN p.avg ELSE p.burst
    IN  [p EXCEPT !.avg = IF @ < MinRate THEN MinRate ELSE IF @ > MaxRate THEN MaxRate ELSE @,
                  !.burst = IF @ > MaxRate THEN MaxRate ELSE low]

\* load() and what it loads from: whether it is a relay, its mode is told from its policy.
ModeOf(enabled, bridge, policy) ==
    CASE ~enabled -> "client"
      [] enabled /\ bridge -> "bridge"
      [] enabled /\ ~bridge /\ policy = Middleman -> "nonexit"
      [] OTHER -> "server"
RateOf(avg, burst) ==
    LET known == {i \in DOMAIN Presets : Presets[i] = <<avg, burst>>}
    IN  IF known = {} THEN Custom ELSE CHOOSE i \in known : TRUE
Loads(enabled, bridge, dirport, conf, avg, burst, S) ==
    LET policy == Parsed(conf)
        mode == ModeOf(enabled, bridge, policy)
    IN
    /\ page' = [mode |-> mode, line |-> dirport, mirror |-> S.mirror, boxes |-> BoxesOf(policy),
                rate |-> RateOf(avg, burst), avg |-> avg, burst |-> burst, upnp |-> S.upnp]
    /\ tmp' = IF mode = page.mode THEN tmp ELSE Remembered(page, tmp, mode)
LoadStored(S) ==
    Loads(S.enabled, S.enabled /\ S.bridge, S.dirport, S.policy, S.avg, S.burst, S)

\* save(), once the rates are right and not empty.
RatesComplete(p) ==
    LET q == RatesFixed(p)
    IN  IF q.mode # "client" /\ q.burst = 0 THEN [q EXCEPT !.burst = 5120] ELSE q
RateSaved(p) == IF p.rate = Custom THEN <<p.avg, p.burst>> ELSE Presets[p.rate]
Saved(p, S) ==
    [enabled |-> p.mode # "client", nonexit |-> p.mode = "nonexit",
     bridge |-> p.mode = "bridge",
     dirport |-> IF p.mode = "bridge" THEN S.dirport ELSE Number(p.line),
     mirror |-> p.mode # "bridge" /\ p.mirror,
     policy |-> IF p.mode = "nonexit" THEN Middleman ELSE PolicyOf(p.boxes),
     avg |-> RateSaved(p)[1], burst |-> RateSaved(p)[2], upnp |-> p.upnp]

------------------------------------------------------------------------------
(* The dialog *)

\* showWindow()
ShowWindow ==
    /\ test = None /\ shown' = TRUE
    /\ Loads(ServerEnabled, BridgeEnabled, Value("dirport"), Value("policy"), Value("avg"),
             Value("burst"), stored)
    /\ UNCHANGED <<link, tor, stored, changed, ports, test, edits, chosen, astray, stale>>

Editing ==
    /\ shown /\ test = None /\ edits < MaxEdits /\ edits' = edits + 1
    /\ UNCHANGED <<link, tor, stored, changed, shown, ports, test, chosen, astray, stale>>

ChooseMode ==
    /\ \E mode \in Modes \ {page.mode} :
          page' = Switched(page, tmp, mode) /\ tmp' = Remembered(page, tmp, mode)
    /\ Editing

\* The tabs are visible to relays only, the policy to exits only, and the widgets of the
\* directory to all but bridges.
EditPage ==
    /\ page.mode # "client"
    /\ \/ /\ page.mode # "bridge"
          /\ \/ page' = [page EXCEPT !.mirror = ~@]
             \/ page.mirror /\ \E d \in DirLines \cup {Empty} : page' = [page EXCEPT !.line = d]
       \/ /\ page.mode = "server"
          /\ \E b \in BoxSets : page' = [page EXCEPT !.boxes = b]
       \/ \E i \in Entries : page' = [page EXCEPT !.rate = i]
       \/ page' = [page EXCEPT !.upnp = ~@]
    /\ UNCHANGED tmp /\ Editing

\* A rate that the validator does not accept is looked at when it is saved.
EditRate ==
    /\ page.mode # "client" /\ page.rate = Custom
    /\ \E r \in Rates, k \in {"avg", "burst"} :
          LET p == [page EXCEPT ![k] = r]
          IN  page' = IF r < MinRate THEN p ELSE RatesFixed(p)
    /\ UNCHANGED tmp /\ Editing

Close ==
    /\ shown /\ test = None /\ shown' = FALSE
    /\ UNCHANGED <<link, tor, stored, changed, page, tmp, ports, test, edits, chosen, astray, stale>>

\* applyChanges() on settings S that are marked: ports first, then SETCONF or RESETCONF,
\* and SAVECONF, after which nothing is marked.
Accepted(S) ==
    /\ Acceptable(Wanted(S)) /\ tor' = Wanted(S) /\ stored' = S
    /\ changed' \in BOOLEAN /\ shown' = FALSE
    /\ UNCHANGED <<page, tmp>>

\* Tor does not accept them, and the user has the page shown, or gives up, which brings
\* back the settings of when Vidalia was started.
ShowsAgain(S) ==
    /\ stored' = S /\ changed' = TRUE /\ shown' = TRUE
    /\ LoadStored(S) /\ UNCHANGED tor
GivesUp ==
    /\ stored' = Defaults /\ changed' = FALSE /\ shown' = FALSE
    /\ UNCHANGED <<tor, page, tmp>>

Applies(S, choice) ==
    \/ Accepted(S) /\ chosen' = choice /\ astray' = FALSE
    \/ ShowsAgain(S) /\ chosen' = choice /\ UNCHANGED astray
    \/ GivesUp /\ chosen' = None /\ astray' = TRUE

SaveChanges ==
    LET p == RatesComplete(page)
        S == Saved(p, stored)
        marked == changed \/ S # stored
    IN
    /\ shown /\ test = None
    /\ \/ /\ link = "Authed" /\ marked /\ Applies(S, p)
          /\ ports' = Forwarded(ports, S, S.enabled, S.dirport)
          /\ stale' = (stale /\ ~S.upnp)
       \/ /\ link = "Down" \/ ~marked
          /\ stored' = S /\ changed' = marked /\ shown' = FALSE
          /\ chosen' = IF astray /\ ~marked THEN None ELSE p
          /\ UNCHANGED <<tor, page, tmp, ports, astray, stale>>
    /\ UNCHANGED <<link, test, edits>>

\* Another field is empty: the rates have been looked at, and nothing is stored.
SaveRefused ==
    /\ shown /\ test = None /\ page.mode # "client" /\ page' = RatesFixed(page)
    /\ UNCHANGED <<link, tor, stored, changed, shown, tmp, ports, test, edits, chosen, astray, stale>>

\* testUpnp(), and the end of the test.
TestUpnp ==
    /\ shown /\ test = None /\ page.mode # "client"
    /\ test' = ports /\ ports' = [or |-> TRUE, dir |-> Number(page.line)]
    /\ UNCHANGED <<link, tor, stored, changed, dialogVars, chosen, astray, stale>>
EndTest ==
    /\ test # None /\ test' = None /\ ports' = test
    /\ UNCHANGED <<link, tor, stored, changed, dialogVars, chosen, astray, stale>>

------------------------------------------------------------------------------
(* The connection *)

\* authenticated(): of ConfigDialog, and then of MainWindow, which has the ports forwarded
\* of what runs by then.  A dialog that tests other ports does not notice.
ForwardRunning(old) ==
    LET asks == ~changed'
    IN  Forwarded(old, stored', IF asks THEN tor'.server ELSE stored'.enabled,
                  IF asks /\ tor'.dirport # 0 THEN tor'.dirport ELSE stored'.dirport)
Authenticated ==
    /\ link = "Down" /\ link' = "Authed"
    /\ \/ /\ changed /\ Applies(stored, chosen)
          /\ ports' = ForwardRunning(Forwarded(ports, stored, stored.enabled, stored.dirport))
       \/ /\ ~changed /\ shown' = FALSE
          /\ UNCHANGED <<tor, stored, changed, page, tmp, chosen, astray>>
          /\ ports' = ForwardRunning(ports)
    /\ stale' = IF test = None THEN stale /\ ~stored'.upnp ELSE ports' # test
    /\ UNCHANGED <<test, edits>>

Disconnected ==
    /\ link = "Authed" /\ link' = "Down"
    /\ UNCHANGED <<tor, stored, changed, dialogVars, ports, test, chosen, astray, stale>>

RelayNext ==
    \/ ShowWindow \/ ChooseMode \/ EditPage \/ EditRate \/ Close
    \/ SaveChanges \/ SaveRefused \/ TestUpnp \/ EndTest
    \/ Authenticated \/ Disconnected

RelaySpec == RelayInit /\ [][RelayNext]_relayVars

------------------------------------------------------------------------------
(* Properties *)

\* The policy of an exit that Tor runs with lets out what is ticked, and nothing else, and
\* that of other relays nothing: saveExitPolicies() builds it from the ticked groups, with
\* or without a rule for all the rest.
ExitAsTicked ==
    tor.server /\ ~changed /\ chosen # None =>
        LetsOut(tor.policy, IF chosen.mode = "server" THEN chosen.boxes ELSE {})

\* Whenever the page is loaded, from Tor or from the settings file, it shows what was
\* chosen when it was last saved: the mode, though a policy without exits is a mode of its
\* own, the boxes of an exit, the rates, and the directory port, which Tor is not told of
\* unless it is mirrored.
ShowsTheSame(p, c) ==
    /\ p.mode = IF c.mode = "server" /\ c.boxes = {} THEN "nonexit" ELSE c.mode
    /\ p.mode = "server" => p.boxes = c.boxes
    /\ RateSaved(p) = RateSaved(c) /\ p.upnp = c.upnp
    /\ c.mode # "bridge" => Number(p.line) = Number(c.line) /\ p.mirror = c.mirror
ShownAsChosen ==
    [][ShowWindow /\ chosen # None => ShowsTheSame(page', chosen)]_relayVars

\* When nothing waits to be applied, the ports that are to be forwarded are those that Tor
\* listens on, however often it was applied, refused or connected since the box was
\* ticked; but for the ports that a test dialog brings back after others were wanted.
ForwardsAsTor ==
    link = "Authed" /\ stored.upnp /\ ~changed /\ test = None /\ ~stale =>
        ports = [or |-> tor.server, dir |-> tor.dirport]
=============================================================================
