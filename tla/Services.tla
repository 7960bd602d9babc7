------------------------------ MODULE Services ------------------------------
(***************************************************************************)
(* The page of the configuration dialog for hidden services                *)
(* (vidalia/config/ServicePage.cpp, ServiceSettings.cpp, Service.cpp).     *)
(* A service may be known to Tor, to the settings file and to the table of *)
(* the page; what the table does not show of it is kept in a map, by the   *)
(* number of its row.                                                      *)
(*                                                                         *)
(* Rows are numbered from 1.  The port and the target of a service are     *)
(* left out: they are valid, or replaced by the last valid text, as the    *)
(* directory is.  So is its address, which is read from a file of Tor's.   *)
(***************************************************************************)
EXTENDS Naturals, Sequences, SequencesExt, Lists

CONSTANTS
    Names,        \* of directories
    HashNames,    \* those among them that there is also a directory "name#rest" for
    Options,      \* what Tor may know of a service and Vidalia does not show; "" is nothing
    MaxRows,      \* bound: rows of the table
    MaxEdits,     \* bound: what a user does before the table is loaded anew
    MaxShows      \* bound: how often the dialog is shown

ASSUME ServicesAssumption ==
    /\ HashNames \subseteq Names /\ "" \in Options
    /\ MaxRows \in Nat /\ MaxEdits \in Nat /\ MaxShows \in Nat

\* A directory is the sequence of what is between its "#"s; <<>> is the empty string.
Dirs == {<<n>> : n \in Names} \cup {<<n, "rest">> : n \in HashNames}
NoDir == <<>>

Columns == {"another", "dir", "enabled"}

Published == [dir : Dirs, opts : Options]

VARIABLES
    link,         \* is the control connection Down or Authed
    tor,          \* the services that Tor publishes
    stored,       \* SETTING_TOR_SERVICES: a list of lists of strings
    shown,        \* is the dialog shown
    rows,         \* serviceWidget: for each row the directory, its data of role 32, is the box
                  \* ticked, and is the directory a cell that cannot be edited
    services,     \* _services, of which this much matters: is it enabled, its directory, options
    torServices,  \* the keys of _torServices
    cell,         \* current row (or 0) and column
    buttons,      \* which of Remove and Browse is enabled
    shows,        \* how often the dialog has been shown
    edits,        \* how much has been done since the table was loaded
    dropped,      \* history: directories removed, renamed or unticked since
    blind,        \* history: has Tor not answered, or has it been configured otherwise since
    browsed,      \* history: was a directory ever browsed for while another column was current
    erased        \* history: directories that a user has ever erased from a cell

table == <<rows, services, torServices, cell, buttons>>
history == <<dropped, blind, browsed, erased>>
vars == <<link, tor, stored, shown, shows, table, edits, history>>

NoCell == [row |-> 0, column |-> "none"]

Init ==
    /\ link = "Down" /\ tor \in {<<>>} \cup {<<s>> : s \in Published} /\ stored = <<>> /\ shown = FALSE /\ shows = 0
    /\ rows = <<>> /\ services = <<>> /\ torServices = {}
    /\ cell = NoCell /\ buttons = {} /\ edits = 0
    /\ dropped = {} /\ blind = FALSE /\ browsed = FALSE /\ erased = {}

\* What a hidden dialog holds does not matter, since showing it loads it anew.
HideTable ==
    /\ shown' = FALSE
    /\ rows' = <<>> /\ services' = <<>> /\ torServices' = {}
    /\ cell' = NoCell /\ buttons' = {} /\ edits' = 0
    /\ dropped' = {} /\ blind' = FALSE /\ UNCHANGED <<browsed, erased>>

------------------------------------------------------------------------------
(* Service and ServiceSettings *)

\* toString() and the split("#") of getServices().  A bool that is appended to a string
\* is a character, and never the "x1" that is expected.
Encoded(s) ==
    s.dir \o <<IF s.enabled THEN "\\x1" ELSE "\\0", s.opts>>
Decoded(parts, enabled) ==
    [dir |-> <<parts[1]>>, enabled |-> enabled, opts |-> parts[3]]

\* getServices(): enabled is declared outside of the loop.
EverEnabled(i) == \E j \in 1 .. i : stored[j][2] = "x1"
GetServices == [i \in DOMAIN stored |-> Decoded(stored[i], EverEnabled(i))]

------------------------------------------------------------------------------
(* Loading *)

\* generateService() for each service of the reply; none without a connection.
NothingFromTor == <<>>
FromTor ==
    IF link = "Authed"
    THEN [i \in DOMAIN tor |-> [dir |-> tor[i].dir, enabled |-> TRUE, opts |-> tor[i].opts]]
    ELSE <<>>

IsServicePublished(s, list) == \E i \in DOMAIN list : list[i].dir = s.dir
CompleteList ==
    FromTor \o Kept(GetServices, {i \in DOMAIN stored : ~IsServicePublished(GetServices[i], FromTor)})

\* initServiceTable()
LoadedRow(s) ==
    [dir |-> s.dir, kept |-> s.dir, box |-> s.enabled, fixed |-> s.enabled]

\* load(), whenever the dialog is shown
ShowWindow ==
    /\ shows < MaxShows /\ shows' = shows + 1
    /\ shown' = TRUE /\ Len(CompleteList) <= MaxRows
    /\ rows' = [i \in DOMAIN CompleteList |-> LoadedRow(CompleteList[i])]
    /\ services' = CompleteList
    /\ torServices' = {FromTor[i].dir : i \in DOMAIN FromTor}
    /\ cell' = NoCell /\ buttons' = {} /\ edits' = 0
    /\ dropped' = {} /\ blind' = (link = "Down")
    /\ UNCHANGED <<link, tor, stored, browsed, erased>>

Close ==
    /\ shown /\ HideTable
    /\ UNCHANGED <<link, tor, stored, shows>>

------------------------------------------------------------------------------
(* Editing *)

Acts == shown /\ edits < MaxEdits /\ edits' = edits + 1 /\ UNCHANGED <<link, tor, stored, shown, shows>>

Cells(n) == [row : 1 .. n, column : Columns]
WithKey(f, i, s) == [j \in DOMAIN f \cup {i} |-> IF j = i THEN s ELSE f[j]]

Lost(dir) == {dir} \ {NoDir}

\* serviceSelectionChanged(): if the current cell is in the last column, its box is ticked
\* or unticked.  R and S are the table and the map, c the current cell, D what is dropped.
SelectionChanged(R, S, c, D) ==
    LET known == c.row \in DOMAIN S /\ S[c.row].dir \in torServices
        ticks == c.column = "enabled"
    IN  /\ buttons' = IF R = <<>> THEN {} ELSE IF known THEN {"remove"} ELSE {"remove", "browse"}
        /\ rows' = IF ticks THEN [R EXCEPT ![c.row].box = ~S[c.row].enabled] ELSE R
        /\ services' = IF ticks THEN [S EXCEPT ![c.row].enabled = ~@] ELSE S
        /\ dropped' = IF ticks /\ S[c.row].enabled THEN D \cup Lost(R[c.row].dir) ELSE D

Click ==
    /\ Acts
    /\ \E c \in Cells(Len(rows)) : cell' = c /\ SelectionChanged(rows, services, c, dropped)
    /\ UNCHANGED <<torServices, blind, browsed, erased>>

\* The arrow keys make another cell the current one and tell nobody.
MoveByKey ==
    /\ Acts
    /\ \E c \in Cells(Len(rows)) : c # cell /\ cell' = c
    /\ UNCHANGED <<rows, services, torServices, buttons, history>>

AddService ==
    LET n == Len(rows) + 1 IN
    /\ Acts /\ n <= MaxRows
    /\ rows' = Append(rows, [dir |-> NoDir, kept |-> NoDir, box |-> TRUE, fixed |-> FALSE])
    /\ services' = WithKey(services, n, [enabled |-> TRUE, dir |-> NoDir, opts |-> ""])
    /\ UNCHANGED <<torServices, cell, buttons, history>>

\* removeService(): the keys above that of the row are decreased; the last row leaves its
\* key in the map.  Which cell becomes the current one is up to Qt.
Unshifted(k) == services
Shifted(k) ==
    LET n == Len(rows) IN
    [j \in DOMAIN services \ (IF k = n THEN {} ELSE {n}) |->
        IF k <= j /\ j < n THEN services[j + 1] ELSE services[j]]
RemoveService ==
    /\ Acts /\ "remove" \in buttons /\ cell.row # 0
    /\ \E c \in IF Len(rows) = 1 THEN {NoCell} ELSE Cells(Len(rows) - 1) :
          /\ cell' = c
          /\ SelectionChanged(RemoveAt(rows, cell.row), Shifted(cell.row), c,
                              dropped \cup Lost(rows[cell.row].dir))
    /\ UNCHANGED <<torServices, blind, browsed, erased>>

\* valueChanged(): it is called for every item that changes, and validates the current one.
\* What is not valid is replaced by the last valid text, and an empty one is left alone.
NotInUse(R, i) == FALSE
InUse(R, i) == R[i].dir # NoDir /\ \E j \in DOMAIN R \ {i} : R[j].dir = R[i].dir
Validated(r, used) ==
    CASE r.dir = NoDir -> r
      [] r.dir # NoDir /\ used -> [r EXCEPT !.dir = r.kept]
      [] OTHER -> [r EXCEPT !.kept = r.dir]
ValueChanged(R) ==
    IF cell.column = "dir" THEN [R EXCEPT ![cell.row] = Validated(@, InUse(R, cell.row))]
                           ELSE R

Renamed == IF rows'[cell.row].dir = rows[cell.row].dir THEN {} ELSE Lost(rows[cell.row].dir)

\* A cell that is empty still has the last valid text, which another row may now take.
Erased(r) == IF r.dir = NoDir THEN Lost(r.kept) ELSE {}

\* The user types a directory into the current cell.
EditCell ==
    /\ Acts /\ cell.column = "dir" /\ ~rows[cell.row].fixed
    /\ \E d \in Dirs \cup {NoDir} : rows' = ValueChanged([rows EXCEPT ![cell.row].dir = d])
    /\ dropped' = dropped \cup Renamed
    /\ erased' = erased \cup Erased(rows'[cell.row])
    /\ UNCHANGED <<services, torServices, cell, buttons, blind, browsed>>

BrowseDirectory ==
    /\ Acts /\ "browse" \in buttons /\ cell.row # 0
    /\ \E d \in Dirs :
          /\ rows' = ValueChanged([rows EXCEPT ![cell.row].dir = d])
          /\ services' = [services EXCEPT ![cell.row].dir = d]
    /\ dropped' = dropped \cup Renamed
    /\ browsed' = (browsed \/ cell.column # "dir")
    /\ UNCHANGED <<torServices, cell, buttons, blind, erased>>

------------------------------------------------------------------------------
(* Saving *)

\* save() gives every service the options of the one in the current row.
OptionsOf(i) ==
    IF cell.row \in DOMAIN services THEN services[cell.row].opts ELSE ""
ServiceList ==
    [i \in DOMAIN rows |->
        [dir |-> rows[i].dir, enabled |-> services[i].enabled, opts |-> OptionsOf(i)]]

CheckBeforeSaving(list) == \A i \in DOMAIN list : list[i].dir # NoDir

\* startServicesInTor() and unpublishAllServices(): Tor has the published services or, if it
\* refuses or cannot be asked, what it had.  It refuses options that are none.
ToPublish(list) == Kept(list, {i \in DOMAIN list : list[i].enabled})
ConfOf(list) ==
    [i \in DOMAIN list |-> [dir |-> list[i].dir, opts |-> list[i].opts]]
Publish(list) ==
    \/ UNCHANGED tor
    \/ /\ link = "Authed"
       /\ tor' = ConfOf(ToPublish(list)) /\ \A i \in DOMAIN tor' : tor'[i].opts \in Options

\* Nobody is told whether Tor has accepted the services.  The dialog stays if a later page
\* cannot be saved.
Save ==
    /\ shown /\ CheckBeforeSaving(ServiceList)
    /\ stored' = [i \in DOMAIN ServiceList |-> Encoded(ServiceList[i])]
    /\ Publish(ServiceList)
    /\ \/ HideTable
       \/ /\ services' = IF rows = <<>> THEN <<>> ELSE services
          /\ UNCHANGED <<shown, rows, torServices, cell, buttons, edits, history>>
    /\ UNCHANGED <<link, shows>>

------------------------------------------------------------------------------
(* The connection and Tor.  (A restart of Vidalia only hides the dialog.) *)

LinkChanges ==
    /\ link' = IF link = "Down" THEN "Authed" ELSE "Down"
    /\ UNCHANGED <<tor, stored, shown, shows, table, edits, history>>

\* Somebody else configures Tor, or it starts with another torrc: once while the dialog is
\* shown, which is enough to make the page blind.
OtherConf ==
    /\ shown /\ ~blind /\ blind' = TRUE
    /\ \E s \in Published : tor' \in {<<>>, <<s>>}
    /\ UNCHANGED <<link, stored, shown, shows, table, edits, dropped, browsed, erased>>

------------------------------------------------------------------------------
Next ==
    \/ ShowWindow \/ Close
    \/ Click \/ MoveByKey \/ AddService \/ RemoveService \/ EditCell \/ BrowseDirectory
    \/ Save
    \/ LinkChanges \/ OtherConf

Spec == Init /\ [][Next]_vars
------------------------------------------------------------------------------
(* Properties *)

\* What is ticked in the table is what the map holds for the row, so that save() publishes
\* what the user sees, however rows were added and removed: "A QMap, mapping from the row
\* number to the Entity" (ServicePage.cpp:35).
BoxesAreTrue ==
    \A i \in DOMAIN rows : i \in DOMAIN services /\ services[i].enabled = rows[i].box

\* "Directory already in use by another service." (ServicePage.cpp:600): two services of the
\* table do not have the same directory, unless it was browsed for while another column was
\* the current one, which is then validated in its place; or it was erased from a row and
\* given to another one, and the warning gives it back to the first, unchecked; or it is
\* what getServices() makes of a directory with a "#" in its name.
Unchecked(dir) == browsed \/ dir \in {NoDir} \cup {<<n>> : n \in HashNames} \cup erased
DuplicatesExplained ==
    \A i, j \in DOMAIN rows :
        i # j /\ rows[i].dir = rows[j].dir
            => Unchecked(rows[i].dir)

\* Saving does not take a service away from Tor that the user has not removed, renamed or
\* unticked, if Tor told the page of its services and was configured by nobody else since.
UnpublishedKnowingly ==
    [][Save => \A i \in DOMAIN tor :
         \/ blind \/ tor[i].dir \in dropped
         \/ \E j \in DOMAIN tor' : tor'[j].dir = tor[i].dir]_vars
=============================================================================
