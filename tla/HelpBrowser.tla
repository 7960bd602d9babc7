---------------------------- MODULE HelpBrowser ----------------------------
(***************************************************************************)
(* The help browser: the tree of topics read from contents.xml, finding a  *)
(* topic by its id, the two lists in which a page is chosen, and finding   *)
(* text in the page and in all pages (HelpBrowser.cpp,                     *)
(* HelpTextBrowser.cpp).                                                   *)
(*                                                                         *)
(* A topic is [id, page, valid, kids]; an item of the tree is the sequence *)
(* of the places that lead to it from the home item, which is <<>>.        *)
(***************************************************************************)
EXTENDS Integers, Sequences, SequencesExt, FiniteSetsExt

Topic(id, page, kids) == [id |-> id, page |-> page, valid |-> TRUE, kids |-> kids]
Invalid(topic) == [topic EXCEPT !.valid = FALSE]

------------------------------------------------------------------------------
(* The topics *)

\* loadContents() and parseHelpTopic(): the items in the order of the document.  A topic that lacks
\* an attribute is left out with all below it; the places count the others.
RECURSIVE Items(_)
Items(topic) ==
    LET kids == SelectSeq(topic.kids, LAMBDA k : k.valid)
    IN  <<<<>>>> \o FlattenSeq([i \in DOMAIN kids |->
                        LET below == Items(kids[i]) IN [j \in DOMAIN below |-> <<i>> \o below[j]]])
Kids(topic) == SelectSeq(topic.kids, LAMBDA k : k.valid)
RECURSIVE TopicAt(_, _)
TopicAt(topic, item) ==
    IF item = <<>> THEN topic ELSE TopicAt(Kids(topic)[item[1]], Tail(item))

NotFound == <<0>>
\* findTopicItem(): the first child with the id, and no other.
RECURSIVE FindTopicItem(_, _)
FindTopicItem(topic, ids) ==
    LET same == {i \in DOMAIN Kids(topic) : Kids(topic)[i].id = ids[1]}
        i == Min(same)
        below == FindTopicItem(Kids(topic)[i], Tail(ids))
    IN  IF same = {} THEN NotFound
        ELSE IF Len(ids) = 1 THEN <<i>>
        ELSE IF below = NotFound THEN NotFound ELSE <<i>> \o below

------------------------------------------------------------------------------
(* The browser *)

\* language(): English if there is no help in the language of the interface.
Language(lang, translated) == IF lang \in translated THEN lang ELSE "en"
ResourcePath(lang, topic) == <<lang, topic.page>>
\* HelpTextBrowser::loadResource(): a page named without a directory is that of the language.
LoadResource(path, lang, translated, exists) ==
    LET file == IF Len(path) = 1 THEN <<Language(lang, translated)>> \o path ELSE path
    IN  IF file \in exists THEN file ELSE "error"
\* HelpTextBrowser::setSource(): of a link, with the answer to its question.
SetSource(page, link, answer) ==
    IF link.external THEN [page |-> page, opened |-> answer = "Yes"]
    ELSE [page |-> link.target, opened |-> FALSE]

Nothing == <<-1>>
\* currentItemChanged()
Opened(b, path) == [b EXCEPT !.page = path, !.foundBefore = FALSE]
ContentsItemChanged(b, item) ==
    Opened([b EXCEPT !.searchSelected = 0], ResourcePath(b.lang, TopicAt(b.root, item)))
\* The tree tells of a click only if it makes another item the current one.
ClickContents(b, item) ==
    LET clicked == [b EXCEPT !.current = item, !.selected = item]
    IN  IF item = b.current THEN clicked ELSE ContentsItemChanged(clicked, item)
SearchItemChanged(b, k) == Opened([b EXCEPT !.selected = Nothing], b.results[k])
ClickResult(b, k) ==
    LET clicked == [b EXCEPT !.searchCurrent = k, !.searchSelected = k]
    IN  IF k = b.searchCurrent THEN clicked ELSE SearchItemChanged(clicked, k)
\* showTopic() selects the item and opens it, but the current item stays.
ShowTopic(b, ids) ==
    LET item == FindTopicItem(b.root, ids)
    IN  IF item = NotFound THEN b
        ELSE Opened([b EXCEPT !.selected = item], ResourcePath(b.lang, TopicAt(b.root, item)))

\* loadContentsFromXml() appends to the list of elements; the search list is not made anew.
LoadContents(b, lang, root) ==
    ClickContents([b EXCEPT !.lang = lang, !.root = root, !.current = Nothing,
                            !.elements = @ \o [i \in DOMAIN Items(root) |-> TopicAt(root, Items(root)[i])]],
                  <<>>)
\* The constructor.
FirstBrowser(lang, root) ==
    LoadContents([lang |-> lang, root |-> root, elements |-> <<>>, current |-> Nothing,
                  selected |-> Nothing, page |-> <<>>, results |-> <<>>, searchCurrent |-> 0,
                  searchSelected |-> 0, foundBefore |-> FALSE], lang, root)
RetranslateUi(b, lang, root) == LoadContents(b, lang, root)
\* search(): holds says whether a page holds the phrase.
Search(b, holds) ==
    LET found == SelectSeq(b.elements, LAMBDA t : ResourcePath(b.lang, t) \in holds)
    IN  [b EXCEPT !.results = [i \in DOMAIN found |-> ResourcePath(b.lang, found[i])],
                  !.searchCurrent = 0, !.searchSelected = 0]

------------------------------------------------------------------------------
(* Finding in a page: places, from 1 on, at which a phrase occurs, and the cursor, 0 if nothing *)
(* is selected                                                                                  *)

FirstFind == [cursor |-> 0, last |-> "", foundBefore |-> FALSE, message |-> ""]
Find(f, phrase, places, forward) ==
    LET before == f.foundBefore /\ phrase = f.last
        ahead == IF forward THEN {p \in places : f.cursor = 0 \/ p > f.cursor}
                 ELSE {p \in places : f.cursor = 0 \/ p < f.cursor}
        place == IF forward THEN Min(ahead) ELSE Max(ahead)
        message == IF ahead # {} THEN "" ELSE IF ~before THEN "not found"
                   ELSE IF forward THEN "end" ELSE "start"
    IN  IF phrase = "" THEN f
        ELSE [cursor |-> IF ahead = {} THEN f.cursor ELSE place, last |-> phrase,
              foundBefore |-> before \/ ahead # {}, message |-> message]

------------------------------------------------------------------------------
(* What is checked *)

\* Two topics of the same id, of which the first has nothing below it.
LOCAL Log == Topic("log", "log", <<Topic("basic", "log1", <<>>), Topic("advanced", "log2", <<>>)>>)
LOCAL Contents == Topic("", "index", <<Topic("about", "about", <<>>), Log,
                        Invalid(Topic("old", "old", <<Topic("kept", "kept", <<>>)>>)),
                        Topic("net", "net", <<>>), Topic("net", "net2", <<Topic("map", "map", <<>>)>>)>>)
LOCAL AllItems == ToSet(Items(Contents))
RECURSIVE IdsTo(_, _)
IdsTo(topic, item) ==
    IF item = <<>> THEN <<>>
    ELSE <<Kids(topic)[item[1]].id>> \o IdsTo(Kids(topic)[item[1]], Tail(item))

\* Every topic of the tree is found by its id, unless one before it has the same; one below a topic
\* that lacks an attribute is neither shown nor found.
ASSUME TopicsAreFound ==
    /\ \A item \in AllItems \ {<<>>} :
          LET found == FindTopicItem(Contents, IdsTo(Contents, item))
          IN  /\ found = item <=> item[1] # 4
              /\ item = <<4, 1>> => found = NotFound
    /\ FindTopicItem(Contents, <<"old", "kept">>) = NotFound
    /\ \A item \in AllItems : TopicAt(Contents, item).page \notin {"old", "kept"}
    /\ Cardinality(AllItems) = 8

LOCAL Does(b, step) ==
    CASE step[1] = "click" -> ClickContents(b, step[2])
      [] step[1] = "topic" -> ShowTopic(b, IdsTo(Contents, step[2]))
      [] step[1] = "search" -> Search(b, {<<b.lang, "about">>, <<b.lang, "log">>})
      [] step[1] = "result" -> IF step[2] \in DOMAIN b.results THEN ClickResult(b, step[2]) ELSE b
      [] step[1] = "language" -> RetranslateUi(b, step[2], Contents)
LOCAL TwoSteps == {<<"click", <<1>>>>, <<"click", <<2>>>>, <<"topic", <<2, 1>>>>, <<"search", 0>>,
                   <<"result", 1>>, <<"result", 2>>, <<"language", "de">>}
LOCAL After(steps) == FoldLeft(Does, FirstBrowser("en", Contents), steps)

\* In every order of clicks, topics, searches and languages, the page is that of what is selected,
\* but for a click on an item that a tree already has as its current one while the page was opened
\* from elsewhere: the item is then selected, and the page stays.
ASSUME PageIsSelected ==
    \A n \in 0 .. 4 : \A steps \in [1 .. n -> TwoSteps] :
       LET b == After(steps)
           shows == IF b.selected # Nothing THEN ResourcePath(b.lang, TopicAt(b.root, b.selected))
                    ELSE IF b.searchSelected # 0 THEN b.results[b.searchSelected] ELSE b.page
           Ignored(i) == LET a == After(SubSeq(steps, 1, i - 1))
                         IN  \/ steps[i] = <<"click", a.current>>
                             \/ steps[i] = <<"result", a.searchCurrent>>
       IN  b.page # shows => \E i \in 1 .. n : Ignored(i)
ASSUME ClickIsIgnored ==
    /\ After(<<<<"click", <<1>>>>, <<"search", 0>>, <<"result", 2>>, <<"click", <<1>>>>>>).page = <<"en", "log">>
    /\ After(<<<<"click", <<1>>>>, <<"topic", <<2, 1>>>>, <<"click", <<1>>>>>>).page = <<"en", "log1">>

\* A search finds each page as often as the language has been changed, and once more.
ASSUME FoundOncePerLanguage ==
    \A n \in 0 .. 3 :
       LET b == Search(FoldLeft(Does, FirstBrowser("en", Contents), [i \in 1 .. n |-> <<"language", "de">>]),
                       {<<"en", "about">>, <<"de", "about">>})
       IN  Len(b.results) = n + 1

\* Find Next visits every place of a phrase in their order and then says that the end is reached;
\* Find Previous does so backwards, from wherever it is.
ASSUME FindVisitsAll ==
    \A places \in SUBSET (1 .. 4), forward \in BOOLEAN :
       LET visited == FoldLeft(LAMBDA acc, i : Append(acc, Find(acc[Len(acc)], "a", places, forward)),
                               <<FirstFind>>, [i \in 1 .. 5 |-> i])
           n == Cardinality(places)
       IN  /\ {visited[i].cursor : i \in 2 .. n + 1} = places
           /\ \A i \in 2 .. n : (visited[i].cursor < visited[i + 1].cursor) <=> forward
           /\ \A i \in n + 2 .. 6 : visited[i].message =
                 (IF places = {} THEN "not found" ELSE IF forward THEN "end" ELSE "start")

\* "Not found" is said of a phrase that the page holds, if it is looked for from behind it; never
\* from the start of the page.
ASSUME NotFoundAhead ==
    \A p \in SUBSET (1 .. 3), q \in SUBSET (1 .. 3), forward \in BOOLEAN :
       LET first == Find(FirstFind, "a", p, TRUE)
           second == Find(first, "b", q, forward)
       IN  /\ first.message = "not found" <=> p = {}
           /\ second.message = "not found"
                 <=> \/ q = {}
                     \/ p # {} /\ \A place \in q : IF forward THEN place <= Min(p) ELSE place >= Min(p)

\* Pages are those of the language if it has any, and links leave the browser only with a Yes.
ASSUME PagesAreInLanguage ==
    LET exists == {<<"en", "log">>, <<"de", "log">>}
    IN  /\ LoadResource(<<"log">>, "de", {"de"}, exists) = <<"de", "log">>
        /\ \A lang \in {"en", "fr"} : LoadResource(<<"log">>, lang, {"de"}, exists) = <<"en", "log">>
        /\ LoadResource(<<"fr", "log">>, "fr", {"de"}, exists) = "error"
        /\ \A answer \in {"Yes", "Cancel"}, external \in BOOLEAN :
              LET s == SetSource("here", [external |-> external, target |-> "there"], answer)
              IN  /\ s.opened <=> external /\ answer = "Yes"
                  /\ s.page = "here" <=> external
=============================================================================
