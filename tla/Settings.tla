------------------------------ MODULE Settings ------------------------------
(***************************************************************************)
(* The settings that Vidalia keeps for Tor: the settings file, in which a  *)
(* group of settings is marked as changed until Tor has accepted and saved *)
(* it, the configuration dialog that edits, applies and reverts them, and  *)
(* a Tor that may refuse them, restart, or be configured by other means.   *)
(*                                                                         *)
(* The settings of a page are one value; those that Tor does not know (its *)
(* executable, the path of its torrc) are left out of it.  Every slot runs *)
(* in the GUI thread, but a message box spins an event loop in which other *)
(* slots run, among them the one that applies all changes once Vidalia has *)
(* authenticated itself.                                                   *)
(***************************************************************************)
EXTENDS Naturals, Sequences

CONSTANTS
    Groups,      \* the pages that configure Tor
    Values,      \* what the settings of a page can be
    Default,     \* what they are when nothing is stored
    MaxBoxes,    \* bound: message boxes open at once
    MaxRefusals  \* bound: commands that an authenticated Tor refuses, or whose reply is lost

ASSUME SettingsAssumption ==
    /\ Groups \subseteq {"Network", "Server", "Tor"}
    /\ Default \in Values
    /\ MaxBoxes \in Nat \ {0} /\ MaxRefusals \in Nat

VARIABLES
    file,    \* the settings file: the value of each group, and SETTING_CHANGED
    opened,  \* _backupSettings of the pages that keep one: the file when they were made
    tor,     \* the configuration of the running Tor, or else of the next one
    torrc,   \* what Tor has written to its torrc
    link,    \* "Down", "Open" (isConnected()) or "Authenticated"
    shown,   \* is the dialog shown
    form,    \* what its widgets show
    boxes,   \* the message boxes that slots of the dialog wait for, innermost first
    astray,  \* history: groups reverted, or set in Tor by other means, and not saved since
    refusals \* how often Tor has refused

dialogVars == <<shown, form, boxes>>
vars == <<file, opened, tor, torrc, link, dialogVars, astray, refusals>>

Entry == [value : Values, changed : BOOLEAN]

\* The order of the pages in the dialog.
Rank == [Network |-> 1, Server |-> 2, Tor |-> 3]
Before(g) == {h \in Groups : Rank[h] < Rank[g]}

\* The pages that keep one settings object; NetworkPage makes a new one each time.
Keeping == Groups \ {"Network"}

Opened(F) == [g \in Keeping |-> F[g]]

Init ==
    /\ file = [g \in Groups |-> [value |-> Default, changed |-> FALSE]]
    /\ opened = Opened(file)
    /\ tor = [g \in Groups |-> Default] /\ torrc = tor
    /\ link = "Down"
    /\ shown = FALSE /\ form = tor /\ boxes = <<>>
    /\ astray = {} /\ refusals = 0

------------------------------------------------------------------------------
(* AbstractTorSettings *)

\* setValue(): marked as changed if it differs from the stored value.
StoredUnmarked(e, v) == [e EXCEPT !.value = v]
Stored(e, v) == IF v = e.value THEN e ELSE [value |-> v, changed |-> TRUE]

\* value(): what Tor says if it can be asked and nothing is marked, or what is
\* stored.  Tor's default may be an empty value, for which torValue() takes the
\* stored one.
Displayed(g) ==
    IF link = "Authenticated" /\ ~file[g].changed
    THEN {tor[g]} \cup (IF tor[g] = Default THEN {file[g].value} ELSE {})
    ELSE {file[g].value}

Load == {f \in [Groups -> Values] : \A g \in Groups : f[g] \in Displayed(g)}

\* revert() of the page's object: the group is removed, and the keys of its backup
\* are stored again.  The backup of a new object is what is stored now.
Backup(g) == IF g \in Keeping THEN opened[g] ELSE file[g]

Reverted(b) == [value |-> b.value, changed |-> b.value # Default \/ b.changed]

------------------------------------------------------------------------------
(* ConfigDialog *)

\* saveConf(): SAVECONF, and if it succeeds nothing is marked any more.
StillMarked(F) == F
Unmarked(F) == [g \in Groups |-> [F[g] EXCEPT !.changed = FALSE]]

\* The running Tor once it has accepted the groups in G.
AcceptedNothing(F, G) == tor
Accepted(F, G) == [g \in Groups |-> IF g \in G THEN F[g].value ELSE tor[g]]

Refused == refusals < MaxRefusals /\ refusals' = refusals + 1

\* applyChanges() on a file F: SETCONF for each changed page, in order, then
\* SAVECONF and close().  The first page to fail opens a message box, and leaves
\* the pages before it applied and not saved.  A command that was not answered may
\* have been obeyed.  T is the torrc so far, rest the boxes below.
PagesApplied(F, T) ==
    LET C == {g \in Groups : F[g].changed} IN
    /\ tor' = Accepted(F, C)
    /\ \/ C = {} /\ file' = F /\ torrc' = T /\ UNCHANGED <<astray, refusals>>
       \/ /\ C # {} /\ file' = Unmarked(F) /\ torrc' = tor'
          /\ astray' = astray \ C /\ UNCHANGED refusals
       \/ /\ C # {} /\ Refused /\ file' = F /\ torrc' \in {T, tor'}
          /\ UNCHANGED astray

PageFails(F, T, rest) ==
    \E g \in {h \in Groups : F[h].changed} :
        /\ LET B == {h \in Before(g) : F[h].changed} IN
              \E G \in {B, B \cup {g}} : tor' = Accepted(F, G)
        /\ Refused
        /\ file' = F /\ torrc' = T
        /\ Len(rest) < MaxBoxes /\ boxes' = <<g>> \o rest
        /\ UNCHANGED <<shown, astray>>

ApplyChanges(F, T, rest) ==
    \/ PagesApplied(F, T) /\ shown' = FALSE /\ boxes' = rest
    \/ PageFails(F, T, rest)

\* Before it has authenticated Vidalia, Tor refuses every command.
ApplyTooEarly(F, rest) ==
    LET C == {g \in Groups : F[g].changed} IN
    /\ file' = F
    /\ \/ C = {} /\ shown' = FALSE /\ boxes' = rest
       \/ \E g \in C : /\ Before(g) \cap C = {}
                       /\ Len(rest) < MaxBoxes /\ boxes' = <<g>> \o rest
                       /\ UNCHANGED shown
    /\ UNCHANGED <<tor, torrc, astray, refusals>>

\* The end of saveChanges().
SavedPages(F, T, rest) ==
    \/ link = "Authenticated" /\ ApplyChanges(F, T, rest)
    \/ link = "Open" /\ ApplyTooEarly(F, rest)
    \/ /\ link = "Down" /\ file' = F /\ shown' = FALSE /\ boxes' = rest
       /\ UNCHANGED <<tor, torrc, astray, refusals>>

\* Between Server and Advanced, ServicePage::save() sends a SAVECONF of its own.
ServicesSaved == IF link = "Authenticated" THEN {torrc, tor} ELSE {torrc}

StoreForm(G) == [g \in Groups |-> IF g \in G THEN Stored(file[g], form[g]) ELSE file[g]]

\* showWindow(), called by the main window.
ShowWindow ==
    /\ shown' = TRUE /\ form' \in Load
    /\ UNCHANGED <<file, opened, tor, torrc, link, boxes, astray, refusals>>

\* The user changes a widget.  A message box blocks the dialog.
Edit ==
    /\ shown /\ boxes = <<>>
    /\ \E g \in Groups, v \in Values : v # form[g] /\ form' = [form EXCEPT ![g] = v]
    /\ UNCHANGED <<file, opened, tor, torrc, link, shown, boxes, astray, refusals>>

Close ==
    /\ shown /\ boxes = <<>> /\ shown' = FALSE
    /\ UNCHANGED <<file, opened, tor, torrc, link, form, boxes, astray, refusals>>

\* saveChanges(): every page stores what it shows.
SaveChanges ==
    /\ shown /\ boxes = <<>>
    /\ \E T \in ServicesSaved : SavedPages(StoreForm(Groups), T, <<>>)
    /\ UNCHANGED <<opened, link, form>>

\* A page does not accept its input: the pages before it are stored, and some of
\* its own settings may be.
PageInvalid ==
    /\ shown /\ boxes = <<>>
    /\ \E g \in Groups :
          /\ \E G \in {Before(g), Before(g) \cup {g}} : file' = StoreForm(G)
          /\ torrc' \in IF g = "Tor" THEN ServicesSaved ELSE {torrc}
    /\ UNCHANGED <<opened, tor, link, dialogVars, astray, refusals>>

\* AdvancedPage::save() asks in the middle whether to restart a Tor of ours, if the
\* user has chosen another torrc.
AskRestart ==
    /\ shown /\ boxes = <<>> /\ link # "Down" /\ "Tor" \in Groups
    /\ \E G \in {Groups, Groups \ {"Tor"}} : file' = StoreForm(G)
    /\ torrc' \in ServicesSaved
    /\ boxes' = <<"restart">>
    /\ UNCHANGED <<opened, tor, link, shown, form, astray, refusals>>

\* The rest of save(), and of saveChanges().  (A restart is TorRestarts.)
RestartAnswered ==
    /\ boxes # <<>> /\ Head(boxes) = "restart"
    /\ SavedPages(StoreForm({"Tor"}), torrc, Tail(boxes))
    /\ UNCHANGED <<opened, link, form>>

\* "Unable to apply your settings": the user chooses to see the settings,
ShowSettings ==
    /\ boxes # <<>> /\ Head(boxes) \in Groups
    /\ boxes' = Tail(boxes) /\ shown' = TRUE /\ form' \in Load
    /\ UNCHANGED <<file, opened, tor, torrc, link, astray, refusals>>

\* or cancels, and the page is reverted.
Cancel(g) ==
    /\ boxes # <<>> /\ Head(boxes) = g
    /\ boxes' = Tail(boxes) /\ shown' = FALSE
    /\ file' = [file EXCEPT ![g] = Reverted(Backup(g))]
    /\ astray' = astray \cup {g}
    /\ UNCHANGED <<opened, tor, torrc, link, form, refusals>>

Answers == RestartAnswered \/ ShowSettings \/ \E g \in Groups : Cancel(g)

Dialog ==
    ShowWindow \/ Edit \/ Close \/ SaveChanges \/ PageInvalid \/ AskRestart \/ Answers

------------------------------------------------------------------------------
(* The connection, Tor, and other slots that change its settings *)

Connect ==
    /\ link = "Down" /\ link' = "Open"
    /\ UNCHANGED <<file, opened, tor, torrc, dialogVars, astray, refusals>>

\* authenticated(), to which applyChanges() is connected.
Authenticate ==
    /\ link = "Open" /\ link' = "Authenticated"
    /\ ApplyChanges(file, torrc, boxes)
    /\ UNCHANGED <<opened, form>>

Disconnected ==
    /\ link # "Down" /\ link' = "Down"
    /\ UNCHANGED <<file, opened, tor, torrc, dialogVars, astray, refusals>>

\* authenticationFailed(): the user enters a password, and has it saved, whatever
\* has become of the connection by then.
SavePassword ==
    /\ "Tor" \in Groups
    /\ \E v \in Values : file' = [file EXCEPT !["Tor"] = Stored(@, v)]
    /\ UNCHANGED <<opened, tor, torrc, link, dialogVars, astray, refusals>>

\* warnDangerousPort(): a port is no longer to be warned of.  It is stored, and set
\* in Tor at once; Tor's other settings of the group are as they were.  No widget
\* shows the ports, so that the dialog will store the group with this change.
IgnorePort ==
    /\ "Tor" \in Groups
    /\ \E v \in Values :
          /\ v # file["Tor"].value
          /\ file' = [file EXCEPT !["Tor"] = Stored(@, v)]
          /\ \/ UNCHANGED tor
             \/ /\ link = "Authenticated"
                /\ \E w \in (IF tor["Tor"] = file["Tor"].value THEN {v} ELSE Values) :
                      tor' = [tor EXCEPT !["Tor"] = w]
          /\ form' = [form EXCEPT !["Tor"] = IF @ = file["Tor"].value THEN v ELSE @]
    /\ UNCHANGED <<opened, torrc, link, shown, boxes, astray, refusals>>

\* TorrcDialog: SETCONF of any setting, and SAVECONF if the user wants that.
EditTorrc ==
    /\ link = "Authenticated"
    /\ \E g \in Groups, v \in Values :
          tor' = [tor EXCEPT ![g] = v] /\ astray' = astray \cup {g}
    /\ torrc' \in {torrc, tor'}
    /\ UNCHANGED <<file, opened, link, dialogVars, refusals>>

\* Tor reads its torrc when it starts.
TorRestarts ==
    /\ link' = "Down" /\ tor' = torrc
    /\ UNCHANGED <<file, opened, torrc, dialogVars, astray, refusals>>

\* It may be started with another torrc.
OtherTorrc ==
    /\ link' = "Down"
    /\ tor' \in [Groups -> Values] /\ torrc' = tor' /\ astray' = Groups
    /\ UNCHANGED <<file, opened, dialogVars, refusals>>

\* The settings file outlives Vidalia; the pages are made anew.
VidaliaRestarts ==
    /\ opened' = Opened(file)
    /\ link' = "Down" /\ shown' = FALSE /\ boxes' = <<>>
    /\ form' = [g \in Groups |-> Default]
    /\ UNCHANGED <<file, tor, torrc, astray, refusals>>

Outside ==
    Connect \/ Authenticate \/ Disconnected \/ SavePassword \/ IgnorePort \/ EditTorrc
    \/ TorRestarts \/ OtherTorrc \/ VidaliaRestarts

------------------------------------------------------------------------------
Next == Dialog \/ Outside

Spec == Init /\ [][Next]_vars

\* Vidalia authenticates itself on every connection that lasts.
FairSpec == Spec /\ WF_vars(Authenticate)

------------------------------------------------------------------------------
(* Properties *)

\* Every variable has its type; no more message boxes than MaxBoxes are open.
TypeOK ==
    /\ file \in [Groups -> Entry] /\ opened \in [Keeping -> Entry]
    /\ tor \in [Groups -> Values] /\ torrc \in [Groups -> Values]
    /\ link \in {"Down", "Open", "Authenticated"}
    /\ shown \in BOOLEAN /\ form \in [Groups -> Values]
    /\ boxes \in Seq(Groups \cup {"restart"}) /\ Len(boxes) <= MaxBoxes
    /\ astray \subseteq Groups
    /\ refusals \in 0 .. MaxRefusals

\* What is not marked as changed is what Tor runs with, and what it will run with
\* after a restart, whatever was refused, lost or interrupted on the way; but for
\* settings that a Cancel has reverted or that came into Tor by other means.
UnmarkedIsInForce ==
    \A g \in Groups \ astray :
        file[g].changed \/ (tor[g] = file[g].value /\ torrc[g] = file[g].value)

\* A change is never forgotten: a group that is marked stays so until Tor has saved
\* its value, or a Cancel takes the change back.
MarkedUntilSaved ==
    [][\A g \in Groups :
         file[g].changed /\ ~file'[g].changed =>
            torrc'[g] = file'[g].value \/ Cancel(g)]_vars

\* "Called after Vidalia has authenticated to Tor and applies any changes made
\* since the last time they were applied": a change that is pending when Vidalia
\* connects is applied, unless Tor refuses or the connection is lost again.
PendingIsApplied ==
    \A g \in Groups :
        link = "Open" /\ file[g].changed /\ refusals = MaxRefusals
            ~> ~file[g].changed \/ link = "Down"

=============================================================================
