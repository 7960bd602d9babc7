---------------------------- MODULE RelayViews ----------------------------
(***************************************************************************)
(* What the network window shows of the relays that Network fills it with: *)
(* where a relay is (GeoIpResolver, GeoIpDatabase, GeoIpRecord,            *)
(* CountryInfo), its line in the list (RouterListItem, RouterListWidget),  *)
(* its point on the map (TorMapImageView) and what part of the map is seen *)
(* (ZImageView), and what a selection shows (NetViewer, CircuitListWidget, *)
(* RouterDescriptorView, RouterInfoDialog).                                *)
(*                                                                         *)
(* A name is its place in the alphabet, whatever its case, and its initial *)
(* letter; the zoom is in thousandths; a place is <<latitude, longitude>>  *)
(* in degrees.                                                             *)
(***************************************************************************)
EXTENDS Integers, Sequences, SequencesExt, FiniteSetsExt

------------------------------------------------------------------------------
(* Where a relay is *)

LowerOf == ("DE" :> "de") @@ ("WS" :> "ws")
ToLower(code) == IF code \in DOMAIN LowerOf THEN LowerOf[code] ELSE code

NoPlace == <<-180, -180>>
NoRecord == [ip |-> "", at |-> <<0, 0>>, city |-> "", region |-> "", country |-> "", code |-> ""]
\* CountryInfo: a line is the sequence of its fields, of which the last two are to be numbers.
Number(n) == [ok |-> TRUE, is |-> n]
NoNumber == [ok |-> FALSE, is |-> 0]
CountryCoordinates(lines) ==
    LET fit == SelectSeq(lines, LAMBDA l : Len(l) >= 3 /\ l[2].ok /\ l[3].ok)
    IN  FoldLeft(LAMBDA db, l : (l[1] :> <<l[2].is, l[3].is>>) @@ db, <<>>, fit)
CountryLocation(db, code) == IF ToLower(code) \in DOMAIN db THEN db[ToLower(code)] ELSE NoPlace
CountryName(names, code) == IF ToLower(code) \in DOMAIN names THEN names[ToLower(code)] ELSE ""

IsValid(r) == r.ip # "" /\ r.at[1] \in -90 .. 90 /\ r.at[2] \in -180 .. 180
LocationText(r) ==
    SelectSeq(<<r.city, IF r.region = r.city THEN "" ELSE r.region,
                IF r.country = "" THEN r.code ELSE r.country>>, LAMBDA part : part # "")

\* The country of an address, from Tor or from a country database.
ByCountry(world, ip, code) ==
    IF code = "" THEN NoRecord
    ELSE [NoRecord EXCEPT !.ip = ip, !.at = CountryLocation(world.places, code), !.code = code,
                          !.country = CountryName(world.names, code)]
\* GeoIpDatabase: a file that cannot be opened leaves none open.
OpenDatabase(file) == IF file.opens THEN file ELSE [file EXCEPT !.type = "unknown"]
CountryCodeByAddr(db, ip) == IF db.opens /\ ip \in DOMAIN db.codes THEN db.codes[ip] ELSE ""
RecordByAddr(db, ip) == IF db.opens /\ ip \in DOMAIN db.cities THEN db.cities[ip] ELSE NoRecord
SetupGeoIpResolver(settings) ==
    [useLocal |-> settings.useLocal /\ settings.file # "", database |-> OpenDatabase(settings.data)]
ResolveUsingLocalDatabase(world, db, ip) ==
    IF db.type = "city" THEN RecordByAddr(db, ip) ELSE ByCountry(world, ip, CountryCodeByAddr(db, ip))
Resolve(world, geoip, ip) ==
    IF geoip.useLocal THEN ResolveUsingLocalDatabase(world, geoip.database, ip)
    ELSE ByCountry(world, ip, IF ip \in DOMAIN world.tor THEN world.tor[ip] ELSE "")

------------------------------------------------------------------------------
(* The list of relays *)

Rate(rd) == Min({rd.observed, rd.average, rd.burst})
StatusValue(rd) == IF rd.state = "offline" THEN -1 ELSE IF rd.state = "hibernating" THEN 0 ELSE Rate(rd)
StatusIcon(rd) ==
    IF rd.state # "online" THEN rd.state
    ELSE CASE Rate(rd) >= 400 * 1024 -> "high" [] Rate(rd) \in 60 * 1024 .. 400 * 1024 - 1 -> "med"
           [] Rate(rd) \in 20 * 1024 .. 60 * 1024 - 1 -> "low" [] OTHER -> "none"

\* update() takes the new descriptor, without the text of the location that the old one had.
UpdateItem(item, rd) ==
    [item EXCEPT !.rd = rd, !.text = <<>>, !.status = StatusValue(rd), !.icon = StatusIcon(rd)]
RouterListItem(rd) ==
    UpdateItem([rd |-> rd, text |-> <<>>, status |-> 0, icon |-> "", flag |-> "unknown", code |-> "~",
                location |-> NoRecord], rd)
\* setLocation() shows the location and does not keep the record, which location() returns.
SetLocation(item, geoip, flags) ==
    [item EXCEPT !.text = LocationText(geoip), !.code = geoip.code,
                 !.flag = IF ToLower(geoip.code) \in flags THEN ToLower(geoip.code) ELSE @]

CodeRank == [DE |-> 1, WS |-> 2] @@ ("~" :> 3)
\* operator<, and what the view makes of it in each order.
ItemLess(a, b, column, order) ==
    LET up == order = "ascending"
        byStatus == IF up THEN a.status > b.status ELSE a.status < b.status
    IN  CASE column = "status" ->
                IF a.status # b.status THEN a.status < b.status
                ELSE IF up THEN a.rd.name > b.rd.name ELSE a.rd.name < b.rd.name
          [] column = "country" -> IF a.code # b.code THEN CodeRank[a.code] < CodeRank[b.code] ELSE byStatus
          [] column = "name" -> IF a.rd.name # b.rd.name THEN a.rd.name < b.rd.name ELSE byStatus
Above(a, b, column, order) ==
    IF order = "ascending" THEN ItemLess(a, b, column, order) ELSE ItemLess(b, a, column, order)

\* The list: the items as they are shown, and the ids of the selected ones.
EmptyList == [items |-> <<>>, selected |-> {}, column |-> "status", order |-> "descending"]
SortedList(list) ==
    [list EXCEPT !.items = SortSeq(@, LAMBDA a, b : Above(a, b, list.column, list.order))]
FindRouterById(list, id) == {i \in DOMAIN list.items : list.items[i].rd.id = id}
\* addRouter(): also the place of a relay that is listed already changes with it.
ListRouter(list, rd) ==
    LET found == FindRouterById(list, rd.id)
    IN  IF rd.id = "" THEN list
        ELSE IF found = {} THEN SortedList([list EXCEPT !.items = Append(@, RouterListItem(rd))])
        ELSE SortedList([list EXCEPT !.items[Min(found)] = UpdateItem(@, rd)])
SelectedItems(list) == SelectSeq(list.items, LAMBDA item : item.rd.id \in list.selected)
\* keyPressEvent(): the next relay with this initial letter after the selected one.
KeyPressEvent(list, key) ==
    LET matches == SelectSeq(list.items, LAMBDA item : item.rd.initial = key)
        from == IF list.selected = {} THEN {}
                ELSE {i \in DOMAIN matches : matches[i] = SelectedItems(list)[1]}
        next == IF from = {} THEN 1 ELSE (Min(from) % Len(matches)) + 1
    IN  IF matches = <<>> THEN list ELSE [list EXCEPT !.selected = {matches[next].rd.id}]
\* contextMenuEvent(), copySelected...(), zoomToSelectedRelay(): what is left of the clipboard is NoText.
NoText == <<>>
ContextMenu(list) ==
    IF list.selected = {} THEN {}
    ELSE {"copy"} \cup (IF Cardinality(list.selected) = 1 THEN {"zoom"} ELSE {})
Copied(list, field) == [i \in DOMAIN SelectedItems(list) |-> SelectedItems(list)[i].rd[field]]
ZoomTarget(list) == IF Cardinality(list.selected) = 1 THEN list.selected ELSE {}

------------------------------------------------------------------------------
(* The map *)

Width == 1000
Height == 507
\* The tables of the Robinson projection, in ten-thousandths, one entry for each five degrees.
Plen == <<10000, 9986, 9954, 9900, 9822, 9730, 9600, 9427, 9216, 8962, 8679, 8350, 7986, 7597, 7186,
          6732, 6213, 5722, 5322>>
Pdfe == <<0, 620, 1240, 1860, 2480, 3100, 3720, 4340, 4958, 5571, 6176, 6769, 7346, 7903, 8435, 8936,
          9394, 9761, 10000>>
\* lerp(): five times what it returns.  At the pole it reads what lies behind the table.
Lerp(degree, table, behind) ==
    LET x == degree \div 5
        Entry(i) == IF i \in DOMAIN table THEN table[i] ELSE behind
    IN  (Entry(x + 2) - Entry(x + 1)) * (degree - 5 * x) + 5 * Entry(x + 1)
Distance(n) == IF n < 0 THEN -n ELSE n
\* toMapSpace(): the west of the map's own origin is not wrapped round.
ToMapSpace(at, behind) ==
    LET degree == Distance(at[1])
        right == ((at[2] - 10) * 11 * Lerp(degree, Plen, behind)) \div 4
        up == 503 * Lerp(degree, Pdfe, behind)
    IN  <<right \div 50000 + 500,
          (503 * 50000 + (IF at[1] < 0 THEN up ELSE -up)) \div 100000 + 2>>

EmptyMap == [routers |-> <<>>, circuits |-> <<>>]
PlotRouter(map, id, at) ==
    LET selected == id \in DOMAIN map.routers /\ map.routers[id].selected
    IN  [map EXCEPT !.routers = (id :> [at |-> ToMapSpace(at, 0), selected |-> selected]) @@ @]
\* addCircuit(): a segment for each two neighbours that are both on the map.
Segments(map, path) ==
    {<<map.routers[path[i]].at, map.routers[path[i + 1]].at>> :
        i \in {j \in 1 .. Len(path) - 1 : {path[j], path[j + 1]} \subseteq DOMAIN map.routers}}
PlotCircuit(map, c, path) ==
    LET selected == c \in DOMAIN map.circuits /\ map.circuits[c].selected
    IN  [map EXCEPT !.circuits = (c :> [path |-> Segments(map, path), selected |-> selected]) @@ @]
EraseCircuit(map, c) ==
    [map EXCEPT !.circuits = [d \in DOMAIN @ \ {c} |-> map.circuits[d]]]
DeselectAll(map) ==
    [routers |-> [r \in DOMAIN map.routers |-> [map.routers[r] EXCEPT !.selected = FALSE]],
     circuits |-> [c \in DOMAIN map.circuits |-> [map.circuits[c] EXCEPT !.selected = FALSE]]]
SelectRouter(map, id) == IF id \in DOMAIN map.routers THEN [map EXCEPT !.routers[id].selected = TRUE] ELSE map
SelectCircuit(map, c) == IF c \in DOMAIN map.circuits THEN [map EXCEPT !.circuits[c].selected = TRUE] ELSE map
\* paintImage(): what is drawn over what, and with which pen.
PaintImage(map) ==
    [routers |-> [r \in DOMAIN map.routers |-> IF map.routers[r].selected THEN "selected" ELSE "router"],
     circuits |-> [c \in DOMAIN map.circuits |-> IF map.circuits[c].selected THEN "selected" ELSE "circuit"]]

------------------------------------------------------------------------------
(* The part of the map that is seen *)

Padding == 60
Halved(n) == IF n < 0 THEN -((-n) \div 2) ELSE n \div 2
Clamped(low, n, high) == Max({low, Min({n, high})})

\* updateViewport(): the size of the view, a thousand times the height or the width of the screen
\* too large, between the larger and the smaller of screen and image, in the shape of the screen.
ViewArea(v) ==
    LET most == Max({(Max({v.sw, Width}) + Padding) * v.sh, (Max({v.sh, Height}) + Padding) * v.sw})
        least == Min({((v.sw + 1) \div 2) * v.sh, ((v.sh + 1) \div 2) * v.sw})
    IN  (1000 - v.zoom) * (most - least) + 1000 * least
\* In one direction: the view is moved to where it is wanted, and then to the edge of the image or,
\* if it is larger than the image, to its middle.
Panned(want, image, size, larger) ==
    LET from == want - (size - 1) \div 2
        to == from + size - 1
        middle == Halved(from + to)
    IN  IF larger THEN from + Halved(image - 2 * middle)
        ELSE IF from < 0 THEN 0 ELSE IF to > image THEN image - size + 1 ELSE from
\* The wanted point is rounded to whole points of the image.
UpdateViewport(v, dx, dy) ==
    LET area == ViewArea(v)
        w == area \div (1000 * v.sh)
        h == area \div (1000 * v.sw)
        wantX == Clamped(0, v.wantX + (w * dx) \div v.sw, Width)
        wantY == Clamped(0, v.wantY + (h * dy) \div v.sh, Height)
    IN  [v EXCEPT !.w = w, !.h = h, !.wantX = wantX, !.wantY = wantY,
                  !.x = Panned(wantX, Width, w, Width * 1000 * v.sh <= area),
                  !.y = Panned(wantY, Height, h, Height * 1000 * v.sw <= area)]
ResetZoomPoint(v) ==
    [v EXCEPT !.wantX = Halved(2 * v.x + v.w - 1), !.wantY = Halved(2 * v.y + v.h - 1)]
\* zoom() repaints, which updates the view.
ZoomTo(v, zoom) == UpdateViewport([v EXCEPT !.zoom = Clamped(0, zoom, 1000)], 0, 0)
ZoomAt(v, point, zoom) == ZoomTo([v EXCEPT !.wantX = point[1], !.wantY = point[2]], zoom)
ZoomIn(v) == ZoomTo(v, v.zoom + 100)
ZoomOut(v) == ZoomTo(v, v.zoom - 100)
\* mouseMoveEvent() and mouseReleaseEvent()
Drag(v, dx, dy) == UpdateViewport(v, -dx, -dy)
Release(v) == ResetZoomPoint(UpdateViewport(v, 0, 0))
DoubleClick(v, point, button) ==
    LET moved == ResetZoomPoint(UpdateViewport(v, point[1] - (v.sw - 1) \div 2, point[2] - (v.sh - 1) \div 2))
    IN  CASE button = "left" -> ZoomIn(moved) [] button = "right" -> ZoomOut(moved) [] OTHER -> moved
\* A window of a size, when it is shown for the first time.
FirstView(sw, sh) ==
    LET v == UpdateViewport([sw |-> sw, sh |-> sh, zoom |-> 0, wantX |-> 0, wantY |-> 0,
                             x |-> 0, y |-> 0, w |-> 0, h |-> 0], 0, 0)
    IN  ResetZoomPoint(v)
\* drawScaledImage(): the part of the image that is painted.
Painted(v) ==
    [left |-> Max({v.x, 0}), right |-> Min({v.x + v.w, Width}) - 1,
     top |-> Max({v.y, 0}), bottom |-> Min({v.y + v.h, Height}) - 1]

\* circuitBoundingBox(): of the circuits that take any room, or <<>> if none does.
PointsOf(path) == UNION {{s[1], s[2]} : s \in path}
Box(points) ==
    LET xs == {p[1] : p \in points}
        ys == {p[2] : p \in points}
    IN  [left |-> Min(xs), right |-> Max(xs), top |-> Min(ys), bottom |-> Max(ys)]
BoxOf(map, circuits) ==
    LET roomy == {c \in circuits \cap DOMAIN map.circuits : Cardinality(PointsOf(map.circuits[c].path)) > 1}
    IN  IF roomy = {} THEN <<>> ELSE <<Box(UNION {PointsOf(map.circuits[c].path) : c \in roomy})>>
\* The zoom that shows a box, and a fifth more.
BoxZoom(box) ==
    1200 - Max({((box.bottom - box.top) * 1000) \div 503, ((box.right - box.left) * 1000) \div 990})
ZoomToBox(v, box) ==
    ZoomAt(v, <<(box.left + box.right) \div 2, (box.top + box.bottom) \div 2>>, BoxZoom(box))
ZoomToFit(v, map) ==
    LET box == BoxOf(map, DOMAIN map.circuits)
    IN  IF box = <<>> THEN ZoomTo(ResetZoomPoint(v), 0) ELSE ZoomToBox(v, box[1])
ZoomToCircuit(v, map, c) == LET box == BoxOf(map, {c}) IN IF box = <<>> THEN v ELSE ZoomToBox(v, box[1])
ZoomToRouter(v, map, id) ==
    IF id \in DOMAIN map.routers
    THEN [view |-> ZoomAt(v, map.routers[id].at, 1000), map |-> SelectRouter(DeselectAll(map), id)]
    ELSE [view |-> v, map |-> map]

------------------------------------------------------------------------------
(* The window *)

\* NetViewer::addRouter(): the relay is located whenever its descriptor comes, for location() is
\* the empty record.
AddRouter(view, world, geoip, rd) ==
    LET list == ListRouter(view.list, rd)
        i == Min(FindRouterById(list, rd.id))
        place == Resolve(world, geoip, rd.ip)
        known == IsValid(list.items[i].location) /\ list.items[i].location.ip = rd.ip
    IN  IF rd.id = "" THEN view
        ELSE IF known \/ ~IsValid(place) THEN [view EXCEPT !.list = list]
        ELSE [view EXCEPT !.list = SortedList([list EXCEPT !.items[i] = SetLocation(@, place, world.flags)]),
                          !.map = PlotRouter(@, rd.id, place.at)]

\* CircuitListWidget: an item is a circuit, or a stream and its circuit.
IsCircuit(item) == "stream" \notin DOMAIN item
CloseOf(item) == IF IsCircuit(item) THEN <<"circuit", item.circuit>> ELSE <<"stream", item.stream>>
CloseSelectedConnections(items) == [i \in DOMAIN items |-> CloseOf(items[i])]

\* RouterDescriptorView::display(): the lines for each relay that has a descriptor.
Rows(item) ==
    SelectSeq(<<"Name", "Location", "IP Address", "Platform", "Bandwidth", "Uptime">>,
              LAMBDA row : /\ row = "Location" => item.text # <<>>
                           /\ row \in {"Bandwidth", "Uptime"} => item.rd.state # "offline")
Displayed(list, path) == SelectSeq(path, LAMBDA id : FindRouterById(list, id) # {})

\* RouterInfoDialog, and displayRouterInfo(), which a click on the map of the other build calls.
StatusLabel(rd, status) ==
    IF rd.state = "hibernating" THEN "Hibernating"
    ELSE IF status = "invalid" THEN "Unknown" ELSE IF status = "running" THEN "Online" ELSE "Offline"
DisplayRouterInfo(list, id, text) ==
    LET found == FindRouterById(list, id)
    IN  IF text = <<>> THEN <<"Relay Not Found">>
        ELSE IF found = {} THEN <<"Unknown">> ELSE LocationText(list.items[Min(found)].location)
\* toggleFullScreen()
ToggleFullScreen(map) ==
    IF map.full THEN [full |-> FALSE, in |-> "window"] ELSE [full |-> TRUE, in |-> "itself"]

\* The circuit list tells of a new current item only; the list of relays of every new selection.
CircuitSelected(view, circuit) ==
    [view EXCEPT !.list.selected = {}, !.map = SelectCircuit(DeselectAll(@), circuit.id),
                 !.info = Displayed(view.list, circuit.path)]
ClickConnection(view, item) ==
    LET clicked == [view EXCEPT !.current = <<item>>]
    IN  IF view.current = <<item>> THEN clicked ELSE CircuitSelected(clicked, view.circuits[item.circuit])
RouterSelected(view, ids) ==
    LET shown == [view EXCEPT !.map = DeselectAll(@), !.info = Copied(view.list, "id")]
    IN  IF Cardinality(ids) # 1 THEN shown
        ELSE [shown EXCEPT !.map = SelectRouter(@, CHOOSE id \in ids : TRUE)]
ClickRouters(view, ids) ==
    LET clicked == [view EXCEPT !.list.selected = ids]
    IN  IF ids = view.list.selected \/ ids = {} THEN clicked ELSE RouterSelected(clicked, ids)
\* retranslateUi() takes the selected item of the circuit list for a circuit.
RetranslateUi(view) ==
    IF view.list.selected # {} THEN [view EXCEPT !.info = Copied(view.list, "id")]
    ELSE IF view.current = <<>> THEN view
    ELSE IF IsCircuit(view.current[1])
         THEN [view EXCEPT !.info = Displayed(view.list, view.circuits[view.current[1].circuit].path)]
         ELSE [view EXCEPT !.crashed = TRUE]

------------------------------------------------------------------------------
(* What is checked *)

LOCAL World ==
    [places |-> CountryCoordinates(<<<<"ws", Number(-14), Number(-172)>>, <<"de", Number(1), Number(1)>>,
                                     <<"de", Number(51), Number(9)>>, <<"de", Number(0), NoNumber>>, <<"de">>>>),
     names |-> [de |-> "Germany"], flags |-> {"de"},
     tor |-> [a |-> "DE", b |-> "WS", c |-> "xx"]]
LOCAL Berlin == [NoRecord EXCEPT !.ip = "a", !.at = <<52, 13>>, !.city = "Berlin", !.region = "Berlin",
                                 !.code = "DE"]
LOCAL Files == [type : {"city", "country"}, opens : BOOLEAN, codes : {[b |-> "DE"]},
                cities : {[a |-> Berlin]}]
LOCAL Setups == {SetupGeoIpResolver(s) : s \in [useLocal : BOOLEAN, file : {"", "file"}, data : Files]}

\* A line that cannot be read changes nothing, and of two for a country the later one counts.
ASSUME LaterLineCounts ==
    World.places = [ws |-> <<-14, -172>>, de |-> <<51, 9>>]

\* A relay is located wherever the setup's source knows it: a country that has no coordinates, and
\* a local file that could not be opened, leave relays unlocated, which Tor is not asked about then.
ASSUME LocatedBySource ==
    \A geoip \in Setups, ip \in {"a", "b", "c", "d", ""} :
       LET r == Resolve(World, geoip, ip)
           db == geoip.database
       IN  /\ IsValid(r) <=> ip \in (IF ~geoip.useLocal THEN {"a", "b"}
                                     ELSE IF db.type = "city" THEN {"a"}
                                     ELSE IF db.type = "country" THEN {"b"} ELSE {})
           /\ IsValid(r) => LocationText(r) \in {<<"Berlin", "DE">>, <<"Germany">>, <<"WS">>}
           /\ db.type = "unknown" /\ geoip.useLocal => ~IsValid(r)

LOCAL Relay(id, ip, name, state, rate) ==
    [id |-> id, ip |-> ip, name |-> name, initial |-> IF name < 3 THEN "a" ELSE "b", state |-> state,
     observed |-> rate, average |-> 500 * 1024, burst |-> 600 * 1024]
LOCAL Relays == {Relay("1", "a", 1, "online", 20480), Relay("1", "c", 1, "online", 20480),
                 Relay("2", "b", 2, "online", 500000), Relay("2", "a", 4, "offline", 500000),
                 Relay("3", "d", 3, "online", 20480), Relay("", "a", 1, "online", 0)}
LOCAL EmptyView == [list |-> EmptyList, map |-> EmptyMap, info |-> <<>>, current |-> <<>>,
                    circuits |-> <<>>, crashed |-> FALSE]
LOCAL UsingTor == [useLocal |-> FALSE, database |-> OpenDatabase(CHOOSE f \in Files : ~f.opens)]
LOCAL Told(rds) == FoldLeft(LAMBDA v, rd : AddRouter(v, World, UsingTor, rd), EmptyView, rds)

\* Whatever the column and the order, operator< is a strict weak order, which a sort needs.
ASSUME StrictWeakOrder ==
    LET Items == {SetLocation(RouterListItem(rd), [NoRecord EXCEPT !.code = code], {}) :
                     rd \in Relays, code \in {"DE", "~"}}
    IN  \A column \in {"status", "country", "name"}, order \in {"ascending", "descending"} :
           LET Less(a, b) == ItemLess(a, b, column, order)
               Same(a, b) == ~Less(a, b) /\ ~Less(b, a)
           IN  \A a, b, c \in Items :
                  /\ ~(Less(a, b) /\ Less(b, a))
                  /\ Less(a, b) /\ Less(b, c) => Less(a, c)
                  /\ Same(a, b) /\ Same(b, c) => Same(a, c)

\* In every order in which descriptors come, each relay has one line, which is that of its last
\* descriptor, the fastest are above, and of two equally fast ones the later in the alphabet.
ASSUME OneLineEach ==
    \A n \in 0 .. 4 : \A rds \in [1 .. n -> Relays] :
       LET items == Told(rds).list.items
           Newest(id) == rds[Max({i \in 1 .. n : rds[i].id = id})]
       IN  /\ {items[i].rd : i \in DOMAIN items} = {Newest(id) : id \in {rds[i].id : i \in 1 .. n} \ {""}}
           /\ \A i, j \in DOMAIN items : i < j =>
                 \/ items[i].status > items[j].status
                 \/ items[i].status = items[j].status /\ items[i].rd.name >= items[j].rd.name

\* Each line has the country and the point of the map of the last address that could be located,
\* which need not be that of its descriptor, and the flag of the last country that has one, but it
\* says the location of the descriptor's address or none; the dialog of the map says none of any
\* relay of the list, for the item does not keep what it was told.
ASSUME LocatedLast ==
    \A n \in 0 .. 4 : \A rds \in [1 .. n -> Relays] :
       LET v == Told(rds)
       IN  \A i \in DOMAIN v.list.items :
              LET item == v.list.items[i]
                  id == item.rd.id
                  located == {j \in 1 .. n : rds[j].id = id /\ rds[j].ip \in {"a", "b"}}
                  last == Resolve(World, UsingTor, rds[Max(located)].ip)
              IN  /\ id \in DOMAIN v.map.routers <=> located # {}
                  /\ located # {} => /\ v.map.routers[id].at = ToMapSpace(last.at, 0)
                                     /\ item.code = last.code
                                     /\ item.flag = (IF \E j \in located : rds[j].ip = "a" THEN "de" ELSE "unknown")
                  /\ item.text = LocationText(LET r == Resolve(World, UsingTor, item.rd.ip)
                                              IN  IF IsValid(r) THEN r ELSE NoRecord)
                  /\ DisplayRouterInfo(v.list, id, <<"router">>) = <<>>

\* A key leads to every relay with its initial, in the order of the list, and round again.
ASSUME KeyVisitsAll ==
    \A rds \in [1 .. 3 -> Relays], key \in {"a", "b"} :
       LET list == Told(rds).list
           With(k) == FoldLeft(LAMBDA l, i : KeyPressEvent(l, key), list, [i \in 1 .. k |-> i]).selected
           ids == {list.items[i].rd.id : i \in {j \in DOMAIN list.items : list.items[j].rd.initial = key}}
           n == Cardinality(ids)
       IN  /\ n > 0 => UNION {With(k) : k \in 1 .. n} = ids /\ With(n + 1) = With(1)
           /\ n = 0 => With(1) = {}

\* Every place a record can have is drawn on the image, whatever lies behind the tables, but those
\* at the map's own left edge, of which Wallis and Futuna is one, are drawn beside it; of two
\* places the more northern one is the higher, and of two at a latitude the more eastern one is to
\* the right.  A country without coordinates has none.
LOCAL Latitudes == {-90, -89, -56, -14, 0, 4, 5, 40, 89, 90}
ASSUME OnTheImage ==
    /\ \A lat \in Latitudes, lon \in -180 .. 180, behind \in {-7, 0, 10000} :
          LET p == ToMapSpace(<<lat, lon>>, behind)
          IN  /\ p[2] \in 2 .. 505 /\ p[1] < Width
              /\ lon >= -171 => p[1] > 0
              /\ p = ToMapSpace(<<lat, lon>>, 0)
              /\ lon < 180 => p[1] < ToMapSpace(<<lat, lon + 1>>, 0)[1]
    /\ \A lat \in Latitudes, other \in Latitudes :
          lat - other > 1 => ToMapSpace(<<lat, 0>>, 0)[2] < ToMapSpace(<<other, 0>>, 0)[2]
    /\ ToMapSpace(<<-14, -177>>, 0)[1] < 0
    /\ ~IsValid([Berlin EXCEPT !.at = CountryLocation(World.places, "xx")])

LOCAL Sizes == {<<512, 256>>, <<600, 500>>, <<1200, 600>>}
LOCAL Moves == {<<"in", 0, 0>>, <<"out", 0, 0>>, <<"drag", -400, 90>>, <<"drag", 130, -300>>,
                <<"release", 0, 0>>, <<"left", 20, 200>>, <<"right", 480, 10>>}
LOCAL Moved(v, m) ==
    CASE m[1] = "in" -> ZoomIn(v) [] m[1] = "out" -> ZoomOut(v) [] m[1] = "drag" -> Drag(v, m[2], m[3])
      [] m[1] = "release" -> Release(v) [] OTHER -> DoubleClick(v, <<m[2], m[3]>>, m[1])
LOCAL Inside(from, size, image) ==
    \/ from >= 0 /\ from + size <= image + 1
    \/ size >= image /\ Distance(2 * from + size - image) <= 3

\* However it is zoomed and dragged, in each direction the view lies on the image or has it in its
\* middle, it has the shape of the window, and something is painted; zoomed out, it is the whole map.
ASSUME ViewIsOnImage ==
    \A size \in Sizes, n \in 0 .. 3 : \A moves \in [1 .. n -> Moves] :
       LET v == FoldLeft(Moved, FirstView(size[1], size[2]), moves)
           p == Painted(v)
       IN  /\ Inside(v.x, v.w, Width) /\ Inside(v.y, v.h, Height)
           /\ Distance(v.w * v.sh - v.h * v.sw) <= Max({v.sw, v.sh})
           /\ p.left <= p.right /\ p.top <= p.bottom
           /\ v.zoom \in 0 .. 1000
           /\ v.zoom = 0 => p = [left |-> 0, right |-> Width - 1, top |-> 0, bottom |-> Height - 1]
           /\ v.zoom < 1000 => ZoomIn(v).w < v.w

\* A drag beyond the edge of the map is remembered until the button is released: dragging back
\* shows nothing new at first, and at once after a release.
ASSUME ReleaseForgets ==
    LET edge == Drag(ZoomAt(FirstView(600, 500), <<500, 250>>, 500), 2000, 0)
    IN  /\ edge.x = 0 /\ Drag(edge, -50, 0).x = 0
        /\ Drag(Release(edge), -50, 0).x > 0

\* Zooming to circuits shows them all, unless the window is narrow and they take two thirds of the
\* map: then the fifth added to the zoom cuts them off.
LOCAL BoxAt(left, right) == [left |-> left, right |-> right, top |-> 200, bottom |-> 300]
ASSUME FitShowsAll ==
    \A size \in Sizes, left \in {10, 70, 130, 300, 480}, right \in {500, 600, 850, 930, 990} :
       LET box == BoxAt(left, right)
           p == Painted(ZoomToBox(FirstView(size[1], size[2]), box))
           shown == p.left <= left /\ right <= p.right /\ p.top <= 200 /\ 300 <= p.bottom
       IN  /\ right - left <= 640 => shown
           /\ size[1] = 1200 => shown
           /\ size[1] = 512 /\ left = 10 /\ right = 990 => ~shown

LOCAL Path == [one |-> [id |-> "one", path |-> <<"1", "3", "2">>],
               two |-> [id |-> "two", path |-> <<"2", "1">>]]
LOCAL Chosen(circuits) ==
    LET v == Told(<<Relay("1", "a", 1, "online", 1), Relay("2", "b", 2, "online", 1),
                    Relay("3", "d", 3, "online", 1)>>)
    IN  [v EXCEPT !.circuits = Path,
                  !.map = FoldSet(LAMBDA c, m : PlotCircuit(m, c, Path[c].path), @, circuits)]

\* Only hops between two relays of the map are drawn, when the circuit is; a circuit all of whose
\* relays are at one point, or on no map, cannot be zoomed to, and a new path keeps the selection.
ASSUME PathsAsPlotted ==
    LET map == Chosen({"one", "two"}).map
        again == PlotCircuit(SelectCircuit(map, "two"), "two", <<"3", "2">>)
        v == FirstView(600, 500)
    IN  /\ map.circuits["one"].path = {} /\ Cardinality(map.circuits["two"].path) = 1
        /\ again.circuits["two"] = [path |-> {}, selected |-> TRUE]
        /\ ZoomToCircuit(v, map, "one") = v /\ ZoomToCircuit(v, map, "two").zoom > 0
        /\ ZoomToFit(ZoomIn(v), again).zoom = 0
        /\ DOMAIN EraseCircuit(map, "one").circuits = {"two"}
        /\ ZoomToRouter(v, map, "1").view.zoom = 1000 /\ ZoomToRouter(v, map, "3").view = v

LOCAL Clickable == {<<"circuit", [circuit |-> "one"]>>, <<"circuit", [circuit |-> "two"]>>,
                  <<"circuit", [circuit |-> "two", stream |-> "s"]>>, <<"relays", {"1"}>>,
                  <<"relays", {"1", "3"}>>, <<"language", 0>>}
LOCAL Choose(v, c) ==
    CASE c[1] = "circuit" -> ClickConnection(v, c[2]) [] c[1] = "relays" -> ClickRouters(v, c[2])
      [] c[1] = "language" -> RetranslateUi(v)
LOCAL Highlighted(map) ==
    {r \in DOMAIN map.routers : PaintImage(map).routers[r] = "selected"}
    \cup {c \in DOMAIN map.circuits : PaintImage(map).circuits[c] = "selected"}

\* In every order of clicks, the relays described are those of the last circuit or relays clicked on
\* and nothing else is highlighted, but for a click on the circuit that is still the current one of
\* its list, which does nothing.  A change of the language keeps what is described, and fails if a
\* stream is what is selected.
ASSUME ShowsWhatWasChosen ==
    \A n \in 1 .. 4 : \A choices \in [1 .. n -> Clickable] :
       LET before == FoldLeft(Choose, Chosen({"one", "two"}), SubSeq(choices, 1, n - 1))
           last == choices[n]
           v == Choose(before, last)
       IN  ~before.crashed =>
              /\ v.crashed <=> /\ last[1] = "language" /\ before.list.selected = {}
                              /\ before.current # <<>> /\ ~IsCircuit(before.current[1])
              /\ last[1] = "language" => v.info = before.info /\ v.map = before.map
              /\ last[1] = "relays" => /\ ToSet(v.info) = last[2]
                                       /\ Cardinality(last[2]) = 1 => Highlighted(v.map) = last[2]
              /\ last[1] = "circuit" /\ before.current # <<last[2]>>
                    => /\ v.info = Path[last[2].circuit].path /\ v.list.selected = {}
                       /\ Highlighted(v.map) = {last[2].circuit}
              /\ last[1] = "circuit" /\ before.current = <<last[2]>> => v = before

\* A relay whose location is not known, or that is off line, has fewer lines, and each selected
\* circuit and stream is closed as what it is; the menu of the list of relays zooms to one only.
ASSUME LinesAsKnown ==
    LET item == RouterListItem(Relay("1", "a", 1, "offline", 1))
    IN  /\ Rows(item) = <<"Name", "IP Address", "Platform">>
        /\ Rows(SetLocation(UpdateItem(item, Relay("1", "a", 1, "online", 1)), Berlin, {}))[2] = "Location"
        /\ CloseSelectedConnections(<<[circuit |-> "1"], [circuit |-> "1", stream |-> "1"]>>)
              = <<<<"circuit", "1">>, <<"stream", "1">>>>
        /\ \A selected \in SUBSET {"1", "2"} :
              LET list == [Told(<<Relay("1", "a", 1, "online", 1), Relay("2", "b", 2, "online", 1)>>).list
                              EXCEPT !.selected = selected]
              IN  /\ "zoom" \in ContextMenu(list) <=> ZoomTarget(list) # {}
                  /\ ContextMenu(list) = {} <=> Copied(list, "id") = NoText
                  /\ ToSet(Copied(list, "id")) = selected
        /\ StatusLabel(item.rd, "invalid") = "Unknown" /\ StatusLabel(item.rd, "running") = "Online"
        /\ LET full == ToggleFullScreen([full |-> FALSE, in |-> "window"])
           IN  ToggleFullScreen(full) = [full |-> FALSE, in |-> "window"] /\ full.in = "itself"
=============================================================================
