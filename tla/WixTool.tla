------------------------------ MODULE WixTool ------------------------------
(***************************************************************************)
(* wixtool: commands that walk a WiX document and change the elements they *)
(* match.  An element is a record of its tag, its attributes and its       *)
(* children; attributes are pairs of a name and a value in the order in    *)
(* which Qt's hash happens to hold them.  Lists of nodes are live: what a  *)
(* callback adds or removes is there, or gone, at the walk's next index.   *)
(***************************************************************************)
EXTENDS Integers, Sequences, SequencesExt, FiniteSetsExt

Element(tag, attrs, kids) == [tag |-> tag, attrs |-> attrs, kids |-> kids]
None == "none"              \* a null QString

------------------------------------------------------------------------------
(* Attributes *)

Names(e) == {a[1] : a \in ToSet(e.attrs)}
Attribute(e, name) ==
    IF name \in Names(e) THEN (CHOOSE a \in ToSet(e.attrs) : a[1] = name)[2] ELSE ""
SetAttribute(e, name, value) ==
    IF name \in Names(e)
    THEN [e EXCEPT !.attrs = [i \in DOMAIN @ |-> IF @[i][1] = name THEN <<name, value>> ELSE @[i]]]
    ELSE [e EXCEPT !.attrs = Append(@, <<name, value>>)]
RemoveAttribute(e, name) == [e EXCEPT !.attrs = SelectSeq(@, LAMBDA a : a[1] # name)]
Add(e, kid) == [e EXCEPT !.kids = Append(@, kid)]

RECURSIVE Descendants(_)
Descendants(e) ==
    FlattenSeq([i \in DOMAIN e.kids |-> <<e.kids[i]>> \o Descendants(e.kids[i])])
\* elementsByTagName(), in document order.
ByTag(e, tag) == SelectSeq(Descendants(e), LAMBDA d : d.tag = tag)

\* An empty id matches every element of the tag.
Matches(e, tag, id) == e.tag = tag /\ (id = "" \/ Attribute(e, "Id") = id)

------------------------------------------------------------------------------
(* Callbacks: what becomes of the element, whether it stays in its parent, *)
(* and the components that userlocal has made so far                       *)

Kept(e, comps) == [e |-> e, stays |-> TRUE, comps |-> comps]

\* splicefunc(): the children of the splice, or the splice if it has none, or nothing.
Graft(c) ==
    IF c.splice = <<>> THEN <<>>
    ELSE IF c.splice[1].kids # <<>> THEN c.splice[1].kids ELSE c.splice
SpliceFunc(c, e, comps) ==
    Kept(IF Matches(e, c.dtag, c.did) THEN [e EXCEPT !.kids = @ \o Graft(c)] ELSE e, comps)

\* replacefunc() clears attributes at increasing places of a list that shrinks.
RECURSIVE ClearedFrom(_, _)
ClearedFrom(e, i) ==
    IF i > Len(e.attrs) THEN e
    ELSE IF e.attrs[i][1] = "Id" THEN ClearedFrom(e, i + 1)
    ELSE ClearedFrom(RemoveAttribute(e, e.attrs[i][1]), i + 1)
Changed(c, e) ==
    LET renamed == [e EXCEPT !.tag = c.newtag]
    IN  IF c.newprop = None THEN ClearedFrom(renamed, 1)
        ELSE IF c.newprop \in Names(e) THEN SetAttribute(renamed, c.newprop, c.newval)
        ELSE renamed
ReplaceFunc(c, e, comps) ==
    IF ~Matches(e, c.dtag, c.did) THEN Kept(e, comps)
    ELSE IF c.newtag = None THEN [Kept(e, comps) EXCEPT !.stays = FALSE]
    ELSE Kept(Changed(c, e), comps)

\* addfunc(): an element of the tag that is matched is not added, so that the walk ends;
\* createElement() makes none without a tag.  (An attribute without a name is left out.)
AddFunc(c, e, comps) ==
    LET plain == Element(c.newtag, <<>>, <<>>)
        new == IF c.newprop = None THEN plain ELSE SetAttribute(plain, c.newprop, c.newval)
    IN  Kept(IF ~Matches(e, c.dtag, c.did) \/ c.newtag = None THEN e
             ELSE IF c.newtag = c.dtag
             THEN (IF c.newprop = None THEN e ELSE SetAttribute(e, c.newprop, c.newval))
             ELSE Add(e, new), comps)

------------------------------------------------------------------------------
(* userlocal *)

\* createRegLocalComponent() and createDirMgmtComponent()
RegistryValue(name) ==
    Element("RegistryValue", <<<<"Type", "integer">>, <<"Name", name>>, <<"Value", "1">>,
                               <<"KeyPath", "yes">>>>, <<>>)
WithRegistryKey(e, name, keypath) ==
    Add(e, Element("RegistryKey", <<<<"Root", "HKCU">>, <<"Action", "createAndRemoveOnUninstall">>,
                                    <<"Key", keypath>>>>, <<RegistryValue(name)>>))
WithDirectory(e, name) ==
    LET made == IF ByTag(e, "CreateFolder") = <<>> THEN Add(e, Element("CreateFolder", <<>>, <<>>))
                ELSE e
    IN  Add(made, Element("RemoveFolder", <<<<"On", "uninstall">>, <<"Id", "Remove" \o name>>>>, <<>>))

SystemFolders ==
    {"LocalAppDataFolder", "AppDataFolder", "CommonAppDataFolder", "CommonFilesFolder",
     "DesktopFolder", "PersonalFolder", "ProgramFilesFolder", "ProgramMenuFolder",
     "StartMenuFolder", "StartupFolder", "SystemFolder", "TempFolder", "WindowsFolder"}

\* The first component of a directory: a default name is changed, and it is to manage the
\* directory; every component gets a registry key unless one of its children is one.
Managed(dir, k) ==
    LET named == IF Attribute(k, "Id") = "Component"
                 THEN SetAttribute(k, "Id", "DCOMP" \o Attribute(dir, "Name")) ELSE k
    IN  IF ByTag(named, "RemoveFolder") # <<>> THEN named
        ELSE WithDirectory(named, Attribute(named, "Id"))
Keyed(k, keypath) ==
    IF \E i \in DOMAIN k.kids : k.kids[i].tag = "RegistryKey" THEN k
    ELSE WithRegistryKey(k, "RK" \o Attribute(k, "Id"), keypath)
Components(e) == {i \in DOMAIN e.kids : e.kids[i].tag = "Component"}

DirectoryFunc(c, e, comps) ==
    LET first == Min(Components(e))
        renamed == Attribute(e.kids[first], "Id") = "Component"
        name == Attribute(e, "Name")
        id == "ULDirComp_" \o name
        new == WithRegistryKey(WithDirectory(
                   Element("Component", <<<<"Guid", "*">>, <<"Id", id>>>>, <<>>), name),
                   "DRK" \o name, c.keypath)
    IN  CASE e.kids = <<>> -> Kept(e, comps)
          [] e.kids # <<>> /\ Components(e) # {} ->
                Kept([e EXCEPT !.kids = [i \in DOMAIN @ |->
                         IF i \notin Components(e) THEN @[i]
                         ELSE Keyed(IF i = first THEN Managed(e, @[i]) ELSE @[i], c.keypath)]],
                     IF renamed THEN Append(comps, "DCOMP" \o name) ELSE comps)
          [] OTHER -> IF Attribute(e, "Id") \in SystemFolders THEN Kept(e, comps)
                      ELSE Kept(Add(e, new), Append(comps, id))

\* References to components of the default name are removed, at increasing places of the
\* list of all those below, from the feature whose children they are.
Unreferred(e, r) ==
    LET at == {i \in DOMAIN e.kids : e.kids[i] = r}
    IN  IF Attribute(r, "Id") = "Component" /\ at # {} THEN [e EXCEPT !.kids = RemoveAt(@, Min(at))]
        ELSE e
RECURSIVE UnreferredFrom(_, _)
UnreferredFrom(e, i) ==
    LET refs == ByTag(e, "ComponentRef")
    IN  IF i > Len(refs) THEN e ELSE UnreferredFrom(Unreferred(e, refs[i]), i + 1)
FeatureFunc(c, e, comps) ==
    LET rest == UnreferredFrom(e, 1)
        refs == [i \in DOMAIN comps |-> Element("ComponentRef", <<<<"Id", comps[i]>>>>, <<>>)]
    IN  Kept(IF Attribute(e, "Id") = c.featureid THEN [rest EXCEPT !.kids = @ \o refs] ELSE rest,
             comps)

UserLocalFunc(c, e, comps) ==
    CASE e.tag \in {"File", "Component"} -> Kept(RemoveAttribute(e, "KeyPath"), comps)
      [] e.tag = "Feature" -> FeatureFunc(c, e, comps)
      [] e.tag = "Directory" -> DirectoryFunc(c, e, comps)
      [] OTHER -> Kept(e, comps)

------------------------------------------------------------------------------
(* The walk *)

Callback(c, e, comps) ==
    CASE c.op = "splice" -> SpliceFunc(c, e, comps)
      [] c.op = "replace" -> ReplaceFunc(c, e, comps)
      [] c.op = "add" -> AddFunc(c, e, comps)
      [] c.op = "userlocal" -> UserLocalFunc(c, e, comps)

\* do_walkdoc(): the place after a child that has removed itself is that of the next but one.
RECURSIVE Walk(_, _, _)
RECURSIVE WalkKids(_, _, _)
WalkKids(c, r, i) ==
    IF i > Len(r.e.kids) THEN r
    ELSE LET k == Walk(c, r.e.kids[i], r.comps)
         IN  WalkKids(c, [r EXCEPT !.comps = k.comps,
                                   !.e.kids = IF k.stays THEN [@ EXCEPT ![i] = k.e] ELSE RemoveAt(@, i)],
                      i + 1)
Walk(c, e, comps) == WalkKids(c, Callback(c, e, comps), 1)

\* A splice that holds what it is put into is put into itself for ever.
Nodes(e) == <<e>> \o Descendants(e)
Endless(c, root) ==
    /\ c.op = "splice"
    /\ \E d \in ToSet(Nodes(root)) : Matches(d, c.dtag, c.did)
    /\ \E g \in ToSet(Graft(c)) : \E d \in ToSet(Nodes(g)) : Matches(d, c.dtag, c.did)

------------------------------------------------------------------------------
(* Arguments, already split at = and at : *)

Field(fields, i) == IF Len(fields) >= i THEN fields[i] ELSE ""
Optional(fields, i) == IF Field(fields, i) = "" THEN None ELSE fields[i]
\* docreplace() and docadd() differ in what they then do.
Command(op, dest, src) ==
    [op |-> op, dtag |-> dest[1], did |-> Field(dest, 2), newtag |-> Optional(src, 1),
     newprop |-> Optional(src, 2), newval |-> Field(src, 3)]

\* docsplice(): of the elements of the tag in the other document, the last with the id, which
\* may be none of them, or the first.
SpliceCommand(dest, src, other) ==
    LET all == SelectSeq(Nodes(other), LAMBDA d : d.tag = src[2])
        with == SelectSeq(all, LAMBDA d : Attribute(d, "Id") = src[3] /\ src[3] # "")
    IN  IF Len(src) < 2 \/ all = <<>> THEN [ok |-> FALSE]
        ELSE [ok |-> TRUE, op |-> "splice", dtag |-> dest[1], did |-> Field(dest, 2),
              splice |-> IF Len(src) = 3 THEN SubSeq(with, Len(with), Len(with))
                         ELSE <<all[1]>>]
UserLocalCommand(fields) ==
    IF Len(fields) < 2 THEN [ok |-> FALSE]
    ELSE [ok |-> TRUE, op |-> "userlocal", keypath |-> fields[1], featureid |-> fields[2]]

\* main(): what exists of the output file when the program ends, given what goes wrong.
Exits == {"usage", "input", "remove", "parse", "command", "output", "none"}
OutputFile(wrong, existed) ==
    CASE wrong \in {"usage", "input", "remove"} -> IF existed THEN "old" ELSE "missing"
      [] wrong \in {"parse", "command", "output"} -> "missing"
      [] wrong = "none" -> "new"

------------------------------------------------------------------------------
(* What is checked *)

Leaf(tag, attrs) == Element(tag, attrs, <<>>)
Rows(kinds, n) == UNION {[1 .. k -> kinds] : k \in 0 .. n}

\* replace without a new tag deletes what it matches, but for one that follows another.
ASSUME NeighboursSurvive ==
    \A row \in Rows({"File", "Icon"}, 5) :
        LET root == Element("Product", <<>>, [i \in DOMAIN row |-> Leaf(row[i], <<>>)])
            out == Walk(Command("replace", <<"File">>, <<>>), root, <<>>).e
        IN  ByTag(out, "File") = <<>>
            <=> \A i \in 1 .. Len(row) - 1 : ~(row[i] = "File" /\ row[i + 1] = "File")

\* replace without a property clears all attributes but the Id, but for those that follow one
\* that is cleared: of three in four places, one always does.
ASSUME AttributesSurvive ==
    \A order \in {p \in [1 .. 4 -> {"Id", "Name", "Guid", "Value"}] : IsInjective(p)} :
        LET e == Leaf("File", [i \in 1 .. 4 |-> <<order[i], "x">>])
            out == Walk(Command("replace", <<"File">>, <<"File">>), e, <<>>).e
        IN  /\ "Id" \in Names(out)
            /\ Names(out) # {"Id"}
\* A property is changed only where it is, and never deleted.
ASSUME PropertiesAreKept ==
    \A has \in BOOLEAN, val \in {"", "y"} :
        LET e == Leaf("File", IF has THEN <<<<"Name", "x">>>> ELSE <<>>)
            out == Walk(Command("replace", <<"File">>, <<"File", "Name", val>>), e, <<>>).e
        IN  Names(out) = Names(e) /\ (has /\ val = "y" => Attribute(out, "Name") = "y")

\* add never adds what it matches, so every walk of it ends, and each match gets one.
ASSUME AddedOnce ==
    \A row \in Rows({"File", "Icon"}, 3), new \in {"File", "Icon"} :
        LET root == Element("Product", <<>>, [i \in DOMAIN row |-> Leaf(row[i], <<>>)])
            out == Walk(Command("add", <<"File">>, <<new, "Name", "x">>), root, <<>>).e
            files == Len(SelectSeq(row, LAMBDA t : t = "File"))
        IN  /\ Len(ByTag(out, "File")) = files
            /\ Len(ByTag(out, "Icon")) = Len(row) - files + (IF new = "Icon" THEN files ELSE 0)
            /\ new = "File" => \A f \in ToSet(ByTag(out, "File")) : Attribute(f, "Name") = "x"

\* Without a new tag add does nothing, although its usage says that the property is added.
ASSUME NothingAdded ==
    \A prop \in {"", "Name"} :
        LET e == Leaf("File", <<>>)
        IN  Walk(Command("add", <<"File">>, <<"", prop, "x">>), e, <<>>).e = e

\* splice grafts the children of the source under each match, and what comes of it is the
\* same for a source without children as for one that holds a copy of it; unless it is endless.
ASSUME Grafted ==
    \A row \in Rows({"Directory", "Icon"}, 2), kids \in Rows({"File", "Directory"}, 2) :
        LET root == Element("Product", <<>>, [i \in DOMAIN row |-> Leaf(row[i], <<>>)])
            src == Element("Fragment", <<>>, [i \in DOMAIN kids |-> Leaf(kids[i], <<>>)])
            c == SpliceCommand(<<"Directory">>, <<"file", "Fragment">>, src)
            n == Len(SelectSeq(row, LAMBDA t : t = "Directory"))
            out == Walk(c, root, <<>>).e
        IN  /\ Endless(c, root) <=> n > 0 /\ "Directory" \in ToSet(kids)
            /\ ~Endless(c, root) =>
                   Len(Descendants(out)) = Len(row) + n * (IF kids = <<>> THEN 1 ELSE Len(kids))

\* Documents for userlocal: a product with a feature before or after a directory of files.
File == Leaf("File", <<<<"KeyPath", "yes">>>>)
Component(id) == Element("Component", <<<<"Id", id>>, <<"KeyPath", "yes">>>>, <<File>>)
Directory(id, kids) == Element("Directory", <<<<"Id", id>>, <<"Name", id>>>>, kids)
Ref(id) == Leaf("ComponentRef", <<<<"Id", id>>>>)
Feature == Element("Feature", <<<<"Id", "Main">>>>, <<Ref("Component"), Ref("c2")>>)
Products ==
    LET inner == {Leaf("File", <<>>), Component("Component"), Component("c2"),
                  Directory("Empty", <<>>), Directory("Sub", <<Component("c3")>>),
                  Directory("SystemFolder", <<Directory("Empty", <<>>)>>)}
    IN  {Element("Product", <<>>, IF last THEN <<Directory("Top", row), Feature>>
                                  ELSE <<Feature, Directory("Top", row)>>) :
             row \in Rows(inner, 3), last \in BOOLEAN}
Made(root) == Walk(UserLocalCommand(<<"key", "Main">>), root, <<>>)

\* After userlocal every component has one registry key, no file or component is a key path,
\* and each directory with anything in it, but for the system's, has one component that
\* removes it; doing it again changes nothing.
ASSUME UserLocalIsComplete ==
    \A root \in Products :
        LET out == Made(root).e
        IN  /\ \A k \in ToSet(ByTag(out, "Component")) :
                   Len(ByTag(k, "RegistryKey")) = 1 /\ "KeyPath" \notin Names(k)
            /\ \A f \in ToSet(ByTag(out, "File")) : "KeyPath" \notin Names(f)
            /\ \A d \in ToSet(ByTag(out, "Directory")) :
                   Cardinality({i \in Components(d) : ByTag(d.kids[i], "RemoveFolder") # <<>>})
                   = IF d.kids = <<>> \/ Attribute(d, "Id") \in SystemFolders THEN 0 ELSE 1
            /\ Made(out).e = out
\* The components it makes or names are referred to only by a feature that comes after them,
\* and only one of several components of the default name is given another.
ASSUME ReferredIfLater ==
    \A root \in Products :
        LET out == Made(root)
            refs == {Attribute(r, "Id") : r \in ToSet(ByTag(out.e, "ComponentRef"))}
        IN  /\ "Component" \notin refs
            /\ root.kids[2].tag = "Feature" => ToSet(out.comps) \subseteq refs
            /\ root.kids[1].tag = "Feature" => ToSet(out.comps) \cap refs = {}

\* An output file that was there is lost whenever the document or a command is wrong.
ASSUME OldIsLost ==
    \A wrong \in Exits : OutputFile(wrong, TRUE) = "missing" <=> wrong \in {"parse", "command", "output"}
=============================================================================
