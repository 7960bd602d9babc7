-------------------------- MODULE Settings_proofs --------------------------
(***************************************************************************)
(* Proofs about Settings: what is not marked as changed is in force, for   *)
(* any set of pages and of values, and however often Tor refuses, restarts *)
(* or is configured by other means while message boxes are open.           *)
(***************************************************************************)
EXTENDS Settings, SequenceTheorems, TLAPS

\* What a page stores keeps its type, and is marked or what was stored before.
LEMMA StoredEntry ==
    ASSUME NEW STATE e, e \in Entry, NEW STATE v, v \in Values
    PROVE  /\ Stored(e, v) \in Entry
           /\ e.changed => Stored(e, v).changed
           /\ Stored(e, v).changed \/ Stored(e, v) = e
BY DEF Stored, Entry

\* The same for a file of which some pages were stored.
LEMMA StoredForm ==
    ASSUME TypeOK, NEW STATE G
    PROVE  /\ StoreForm(G) \in [Groups -> Entry]
           /\ \A g \in Groups : /\ file[g].changed => StoreForm(G)[g].changed
                                /\ StoreForm(G)[g].changed \/ StoreForm(G)[g] = file[g]
BY StoredEntry DEF StoreForm, TypeOK

\* What Tor runs with keeps its type, and is what it was where nothing was sent.
LEMMA AcceptedValues ==
    ASSUME TypeOK, NEW STATE F, F \in [Groups -> Entry], NEW STATE G
    PROVE  /\ Accepted(F, G) \in [Groups -> Values]
           /\ \A g \in Groups : g \in G => Accepted(F, G)[g] = F[g].value
           /\ \A g \in Groups : g \notin G => Accepted(F, G)[g] = tor[g]
BY DEF Accepted, TypeOK, Entry

\* A message box more, or one less.
LEMMA BoxOpened ==
    ASSUME NEW STATE rest, rest \in Seq(Groups \cup {"restart"}), Len(rest) < MaxBoxes,
           NEW STATE g, g \in Groups, SettingsAssumption
    PROVE  /\ <<g>> \o rest \in Seq(Groups \cup {"restart"})
           /\ Len(<<g>> \o rest) <= MaxBoxes
BY DEF SettingsAssumption

LEMMA BoxClosed ==
    ASSUME TypeOK, boxes # <<>>, SettingsAssumption
    PROVE  /\ Tail(boxes) \in Seq(Groups \cup {"restart"})
           /\ Len(Tail(boxes)) <= MaxBoxes
           /\ Head(boxes) \in Groups \cup {"restart"}
BY DEF TypeOK, SettingsAssumption

LEMMA Unmarking ==
    ASSUME NEW STATE F, F \in [Groups -> Entry]
    PROVE  /\ Unmarked(F) \in [Groups -> Entry]
           /\ \A g \in Groups : Unmarked(F)[g].value = F[g].value
BY DEF Unmarked, Entry

------------------------------------------------------------------------------
(* Saving and applying *)

\* F is a file as the pages left it: unmarked groups are untouched.
StoredFrom(F) ==
    /\ F \in [Groups -> Entry]
    /\ \A g \in Groups : /\ file[g].changed => F[g].changed
                         /\ F[g].changed \/ F[g] = file[g]

\* What the properties say of one step.
Kept == \A g \in Groups : file[g].changed /\ ~file'[g].changed =>
            torrc'[g] = file'[g].value

StepTypes ==
    /\ file' \in [Groups -> Entry]
    /\ tor' \in [Groups -> Values] /\ torrc' \in [Groups -> Values]
    /\ shown' \in BOOLEAN
    /\ boxes' \in Seq(Groups \cup {"restart"}) /\ Len(boxes') <= MaxBoxes
    /\ astray' \subseteq Groups
    /\ refusals' \in 0 .. MaxRefusals

\* applyChanges(), from any file that the pages have left and with any boxes open.
LEMMA Applying ==
    ASSUME TypeOK, UnmarkedIsInForce, SettingsAssumption,
           NEW STATE F, StoredFrom(F), NEW STATE T, T \in {torrc, tor},
           NEW STATE rest, rest \in Seq(Groups \cup {"restart"}), Len(rest) <= MaxBoxes,
           ApplyChanges(F, T, rest)
    PROVE  StepTypes /\ UnmarkedIsInForce' /\ Kept
<1> DEFINE C == {g \in Groups : F[g].changed}
<1>1. CASE PagesApplied(F, T) /\ shown' = FALSE /\ boxes' = rest
  <2>1. tor' = Accepted(F, C)
    BY <1>1 DEF PagesApplied
  <2>2. /\ tor' \in [Groups -> Values]
        /\ \A g \in C : tor'[g] = F[g].value
        /\ \A g \in Groups \ C : tor'[g] = tor[g]
    <3> HIDE DEF C
    <3>1. /\ Accepted(F, C) \in [Groups -> Values]
          /\ \A g \in Groups : g \in C => Accepted(F, C)[g] = F[g].value
          /\ \A g \in Groups : g \notin C => Accepted(F, C)[g] = tor[g]
      BY AcceptedValues DEF StoredFrom
    <3>2. C \subseteq Groups
      BY DEF C
    <3> QED BY <2>1, <3>1, <3>2
  <2>3. CASE C = {} /\ file' = F /\ torrc' = T /\ UNCHANGED <<astray, refusals>>
    BY <1>1, <2>2, <2>3 DEF StepTypes, UnmarkedIsInForce, Kept, StoredFrom, TypeOK
  <2>4. CASE /\ C # {} /\ file' = Unmarked(F) /\ torrc' = tor'
             /\ astray' = astray \ C /\ UNCHANGED refusals
    <3>1. /\ file' \in [Groups -> Entry]
          /\ \A g \in Groups : file'[g].value = F[g].value
      BY <2>4, Unmarking DEF StoredFrom
    <3>2. StepTypes
      BY <1>1, <2>2, <2>4, <3>1 DEF StepTypes, TypeOK
    <3>3. ASSUME NEW g \in Groups
          PROVE  g \in C \/ g \in astray' \/ (tor'[g] = F[g].value /\ torrc'[g] = F[g].value)
      BY <2>2, <2>4 DEF UnmarkedIsInForce, StoredFrom
    <3> QED
      BY <2>2, <2>4, <3>1, <3>2, <3>3 DEF UnmarkedIsInForce, Kept, StoredFrom
  <2>5. CASE /\ C # {} /\ Refused /\ file' = F /\ torrc' \in {T, tor'}
             /\ UNCHANGED astray
    <3>1. /\ file' = F /\ torrc' \in {torrc, tor, tor'} /\ astray' = astray
          /\ refusals' \in 0 .. MaxRefusals
      BY <2>5 DEF Refused, TypeOK, SettingsAssumption
    <3>2. StepTypes
      BY <1>1, <2>2, <3>1 DEF StepTypes, StoredFrom, TypeOK
    <3> QED
      BY <2>2, <3>1, <3>2 DEF UnmarkedIsInForce, Kept, StoredFrom
  <2> QED BY <1>1, <2>3, <2>4, <2>5 DEF PagesApplied
<1>2. CASE PageFails(F, T, rest)
  <2>1. PICK g \in C, G \in SUBSET C :
           /\ tor' = Accepted(F, G)
           /\ Refused
           /\ file' = F /\ torrc' = T
           /\ Len(rest) < MaxBoxes /\ boxes' = <<g>> \o rest
           /\ UNCHANGED <<shown, astray>>
    BY <1>2 DEF PageFails, Before
  <2>2. /\ tor' \in [Groups -> Values]
        /\ \A h \in Groups \ C : tor'[h] = tor[h]
    BY <2>1, AcceptedValues DEF StoredFrom
  <2>3. boxes' \in Seq(Groups \cup {"restart"}) /\ Len(boxes') <= MaxBoxes
    BY <2>1, BoxOpened
  <2>4. StepTypes
    BY <2>1, <2>2, <2>3 DEF StepTypes, StoredFrom, Refused, TypeOK, SettingsAssumption
  <2> QED BY <2>1, <2>2, <2>4 DEF UnmarkedIsInForce, Kept, StoredFrom
<1> QED BY <1>1, <1>2 DEF ApplyChanges

\* The end of saveChanges().
LEMMA Saving ==
    ASSUME TypeOK, UnmarkedIsInForce, SettingsAssumption,
           NEW STATE F, StoredFrom(F), NEW STATE T, T \in {torrc, tor},
           link # "Authenticated" => T = torrc,
           NEW STATE rest, rest \in Seq(Groups \cup {"restart"}), Len(rest) <= MaxBoxes,
           SavedPages(F, T, rest)
    PROVE  StepTypes /\ UnmarkedIsInForce' /\ Kept
<1>1. CASE link = "Authenticated" /\ ApplyChanges(F, T, rest)
  BY <1>1, Applying
<1>2. CASE link = "Open" /\ ApplyTooEarly(F, rest)
  <2>1. file' = F /\ UNCHANGED <<tor, torrc, astray, refusals>>
    BY <1>2 DEF ApplyTooEarly
  <2>2. shown' \in BOOLEAN /\ boxes' \in Seq(Groups \cup {"restart"}) /\ Len(boxes') <= MaxBoxes
    <3>1. CASE shown' = FALSE /\ boxes' = rest
      BY <3>1
    <3>2. CASE \E g \in Groups : /\ Len(rest) < MaxBoxes /\ boxes' = <<g>> \o rest
                                /\ UNCHANGED shown
      BY <3>2, BoxOpened DEF TypeOK
    <3> QED BY <1>2, <3>1, <3>2 DEF ApplyTooEarly
  <2> QED BY <2>1, <2>2 DEF StepTypes, UnmarkedIsInForce, Kept, StoredFrom, TypeOK
<1>3. CASE /\ link = "Down" /\ file' = F /\ shown' = FALSE /\ boxes' = rest
           /\ UNCHANGED <<tor, torrc, astray, refusals>>
  BY <1>3 DEF StepTypes, UnmarkedIsInForce, Kept, StoredFrom, TypeOK
<1> QED BY <1>1, <1>2, <1>3 DEF SavedPages

------------------------------------------------------------------------------
(* The invariants and the action property *)

LEMMA InitInForce ==
    ASSUME SettingsAssumption, Init
    PROVE  TypeOK /\ UnmarkedIsInForce
<1>1. /\ file = [g \in Groups |-> [value |-> Default, changed |-> FALSE]]
      /\ tor = [g \in Groups |-> Default] /\ torrc = tor /\ form = tor
      /\ opened = [g \in Keeping |-> file[g]]
      /\ link = "Down" /\ shown = FALSE /\ boxes = <<>> /\ astray = {} /\ refusals = 0
  BY DEF Init, Opened
<1>2. file \in [Groups -> Entry] /\ Keeping \subseteq Groups
  BY <1>1 DEF Entry, Keeping, SettingsAssumption
<1>3. opened \in [Keeping -> Entry] /\ tor \in [Groups -> Values]
  BY <1>1, <1>2 DEF SettingsAssumption
<1>4. boxes \in Seq(Groups \cup {"restart"}) /\ Len(boxes) <= MaxBoxes
      /\ refusals \in 0 .. MaxRefusals
  BY <1>1 DEF SettingsAssumption
<1>5. TypeOK
  BY <1>1, <1>2, <1>3, <1>4 DEF TypeOK
<1> QED BY <1>1, <1>5 DEF UnmarkedIsInForce

\* What the forms, the link and the pages' objects are after a step.
OtherTypes ==
    /\ opened' \in [Keeping -> Entry]
    /\ link' \in {"Down", "Open", "Authenticated"}
    /\ form' \in [Groups -> Values]

LEMMA DialogStep ==
    ASSUME TypeOK, UnmarkedIsInForce, SettingsAssumption, Dialog
    PROVE  /\ StepTypes /\ OtherTypes /\ UnmarkedIsInForce'
           /\ Kept \/ \E g \in Groups : Cancel(g) /\ \A h \in Groups \ {g} : file'[h] = file[h]
<1>1. CASE ShowWindow
  BY <1>1 DEF ShowWindow, Load, StepTypes, OtherTypes, TypeOK, UnmarkedIsInForce, Kept
<1>2. CASE Edit
  BY <1>2 DEF Edit, StepTypes, OtherTypes, TypeOK, UnmarkedIsInForce, Kept
<1>3. CASE Close
  BY <1>3 DEF Close, StepTypes, OtherTypes, TypeOK, UnmarkedIsInForce, Kept
<1>4. CASE SaveChanges
  <2>1. PICK T \in ServicesSaved : SavedPages(StoreForm(Groups), T, <<>>)
    BY <1>4 DEF SaveChanges
  <2>2. StoredFrom(StoreForm(Groups))
    BY StoredForm DEF StoredFrom
  <2>3. /\ T \in {torrc, tor} /\ (link # "Authenticated" => T = torrc)
        /\ <<>> \in Seq(Groups \cup {"restart"}) /\ Len(<<>>) <= MaxBoxes
    BY DEF ServicesSaved, SettingsAssumption
  <2>4. StepTypes /\ UnmarkedIsInForce' /\ Kept
    BY <2>1, <2>2, <2>3, Saving
  <2> QED BY <1>4, <2>4 DEF SaveChanges, OtherTypes, TypeOK
<1>5. CASE PageInvalid
  <2>1. PICK G \in SUBSET Groups : file' = StoreForm(G)
    BY <1>5 DEF PageInvalid, Before
  <2>2. StoredFrom(file')
    BY <2>1, StoredForm DEF StoredFrom
  <2>3. torrc' \in {torrc, tor} /\ UNCHANGED <<opened, tor, link, dialogVars, astray, refusals>>
    BY <1>5 DEF PageInvalid, ServicesSaved
  <2> QED
    BY <2>2, <2>3 DEF StoredFrom, dialogVars, StepTypes, OtherTypes, TypeOK, UnmarkedIsInForce, Kept
<1>6. CASE AskRestart
  <2>1. PICK G \in SUBSET Groups : file' = StoreForm(G)
    BY <1>6 DEF AskRestart
  <2>2. StoredFrom(file')
    BY <2>1, StoredForm DEF StoredFrom
  <2>3. /\ torrc' \in {torrc, tor} /\ boxes' = <<"restart">>
        /\ UNCHANGED <<opened, tor, link, shown, form, astray, refusals>>
    BY <1>6 DEF AskRestart, ServicesSaved
  <2>4. boxes' \in Seq(Groups \cup {"restart"}) /\ Len(boxes') <= MaxBoxes
    BY <2>3 DEF SettingsAssumption
  <2> QED
    BY <2>2, <2>3, <2>4 DEF StoredFrom, StepTypes, OtherTypes, TypeOK, UnmarkedIsInForce, Kept
<1>7. CASE RestartAnswered
  <2>1. boxes # <<>> /\ SavedPages(StoreForm({"Tor"}), torrc, Tail(boxes))
    BY <1>7 DEF RestartAnswered
  <2>2. StoredFrom(StoreForm({"Tor"}))
    BY StoredForm DEF StoredFrom
  <2>3. StepTypes /\ UnmarkedIsInForce' /\ Kept
    BY <2>1, <2>2, BoxClosed, Saving
  <2> QED BY <1>7, <2>3 DEF RestartAnswered, OtherTypes, TypeOK
<1>8. CASE ShowSettings
  BY <1>8, BoxClosed
     DEF ShowSettings, Load, StepTypes, OtherTypes, TypeOK, UnmarkedIsInForce, Kept
<1>9. CASE \E g \in Groups : Cancel(g)
  <2>1. PICK g \in Groups : Cancel(g)
    BY <1>9
  <2>2. Reverted(Backup(g)) \in Entry
    BY DEF Reverted, Backup, Keeping, Entry, TypeOK
  <2>3. /\ file' = [file EXCEPT ![g] = Reverted(Backup(g))]
        /\ astray' = astray \cup {g}
        /\ boxes # <<>> /\ boxes' = Tail(boxes) /\ shown' = FALSE
        /\ UNCHANGED <<opened, tor, torrc, link, form, refusals>>
    BY <2>1 DEF Cancel
  <2>4. StepTypes /\ OtherTypes
    BY <2>2, <2>3, BoxClosed DEF StepTypes, OtherTypes, TypeOK
  <2> QED BY <2>1, <2>3, <2>4 DEF UnmarkedIsInForce, TypeOK
<1> QED
  BY <1>1, <1>2, <1>3, <1>4, <1>5, <1>6, <1>7, <1>8, <1>9 DEF Dialog, Answers

LEMMA OutsideStep ==
    ASSUME TypeOK, UnmarkedIsInForce, SettingsAssumption, Outside
    PROVE  StepTypes /\ OtherTypes /\ UnmarkedIsInForce' /\ Kept
<1>1. CASE Connect
  BY <1>1 DEF Connect, dialogVars, StepTypes, OtherTypes, TypeOK, UnmarkedIsInForce, Kept
<1>2. CASE Authenticate
  <2>1. StoredFrom(file)
    BY DEF StoredFrom, TypeOK
  <2>2. boxes \in Seq(Groups \cup {"restart"}) /\ Len(boxes) <= MaxBoxes
    BY DEF TypeOK
  <2>3. StepTypes /\ UnmarkedIsInForce' /\ Kept
    BY <1>2, <2>1, <2>2, Applying DEF Authenticate
  <2> QED BY <1>2, <2>3 DEF Authenticate, OtherTypes, TypeOK
<1>3. CASE Disconnected
  BY <1>3 DEF Disconnected, dialogVars, StepTypes, OtherTypes, TypeOK, UnmarkedIsInForce, Kept
<1>4. CASE SavePassword
  <2>1. PICK v \in Values : file' = [file EXCEPT !["Tor"] = Stored(@, v)]
    BY <1>4 DEF SavePassword
  <2>2. StoredFrom(file')
    BY <2>1, StoredEntry DEF StoredFrom, TypeOK
  <2> QED
    BY <1>4, <2>2 DEF SavePassword, StoredFrom, dialogVars, StepTypes, OtherTypes, TypeOK,
                      UnmarkedIsInForce, Kept
<1>5. CASE IgnorePort
  <2>0. tor["Tor"] \in Values /\ tor = [tor EXCEPT !["Tor"] = tor["Tor"]]
    BY <1>5 DEF IgnorePort, TypeOK
  <2>1. PICK v \in Values, w \in Values :
           /\ v # file["Tor"].value /\ "Tor" \in Groups
           /\ file' = [file EXCEPT !["Tor"] = Stored(@, v)]
           /\ tor' = [tor EXCEPT !["Tor"] = w]
           /\ form' = [form EXCEPT !["Tor"] = IF @ = file["Tor"].value THEN v ELSE @]
           /\ UNCHANGED <<opened, torrc, link, shown, boxes, astray, refusals>>
    BY <1>5, <2>0 DEF IgnorePort
  <2>2. StoredFrom(file') /\ file'["Tor"].changed
    BY <2>1, StoredEntry DEF StoredFrom, Stored, TypeOK
  <2> QED
    BY <2>1, <2>2 DEF StoredFrom, StepTypes, OtherTypes, TypeOK, UnmarkedIsInForce, Kept
<1>6. CASE EditTorrc
  BY <1>6 DEF EditTorrc, dialogVars, StepTypes, OtherTypes, TypeOK, UnmarkedIsInForce, Kept
<1>7. CASE TorRestarts
  BY <1>7 DEF TorRestarts, dialogVars, StepTypes, OtherTypes, TypeOK, UnmarkedIsInForce, Kept
<1>8. CASE OtherTorrc
  BY <1>8 DEF OtherTorrc, dialogVars, StepTypes, OtherTypes, TypeOK, UnmarkedIsInForce, Kept
<1>9. CASE VidaliaRestarts
  <2>1. opened' \in [Keeping -> Entry]
    BY <1>9 DEF VidaliaRestarts, Opened, Keeping, TypeOK
  <2>2. form' \in [Groups -> Values]
    BY <1>9 DEF VidaliaRestarts, SettingsAssumption
  <2>3. boxes' \in Seq(Groups \cup {"restart"}) /\ Len(boxes') <= MaxBoxes
    BY <1>9 DEF VidaliaRestarts, SettingsAssumption
  <2> QED
    BY <1>9, <2>1, <2>2, <2>3
       DEF VidaliaRestarts, StepTypes, OtherTypes, TypeOK, UnmarkedIsInForce, Kept
<1> QED
  BY <1>1, <1>2, <1>3, <1>4, <1>5, <1>6, <1>7, <1>8, <1>9 DEF Outside

\* One step, whatever it is.
LEMMA Step ==
    ASSUME TypeOK, UnmarkedIsInForce, SettingsAssumption, [Next]_vars
    PROVE  /\ TypeOK' /\ UnmarkedIsInForce'
           /\ Kept \/ \E g \in Groups : Cancel(g) /\ \A h \in Groups \ {g} : file'[h] = file[h]
<1>1. CASE Dialog
  BY <1>1, DialogStep DEF StepTypes, OtherTypes, TypeOK
<1>2. CASE Outside
  BY <1>2, OutsideStep DEF StepTypes, OtherTypes, TypeOK
<1>3. CASE UNCHANGED vars
  BY <1>3 DEF vars, dialogVars, TypeOK, UnmarkedIsInForce, Kept
<1> QED BY <1>1, <1>2, <1>3 DEF Next

LEMMA Invariance == Spec => [](TypeOK /\ UnmarkedIsInForce)
<1>1. Init => TypeOK /\ UnmarkedIsInForce
  BY InitInForce, SettingsAssumption
<1>2. TypeOK /\ UnmarkedIsInForce /\ [Next]_vars => TypeOK' /\ UnmarkedIsInForce'
  BY Step, SettingsAssumption
<1> QED BY <1>1, <1>2, PTL DEF Spec

\* Every variable of the settings and of their dialog keeps its type.
THEOREM SettingsTypeCorrect == Spec => []TypeOK
BY Invariance, PTL

\* What is not marked as changed is what Tor runs with and what it has saved: the
\* mark of AbstractTorSettings is never missing.
THEOREM UnmarkedInForce == Spec => []UnmarkedIsInForce
BY Invariance, PTL

\* The mark of a change is taken away only when Tor has saved the value, or by a
\* Cancel of the page.
THEOREM MarkKept == Spec => MarkedUntilSaved
<1>1. TypeOK /\ UnmarkedIsInForce /\ [Next]_vars =>
         [\A g \in Groups :
            file[g].changed /\ ~file'[g].changed =>
               torrc'[g] = file'[g].value \/ Cancel(g)]_vars
  BY Step, SettingsAssumption DEF Kept
<1> QED BY <1>1, Invariance, PTL DEF Spec, MarkedUntilSaved
=============================================================================
