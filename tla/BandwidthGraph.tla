--------------------------- MODULE BandwidthGraph ---------------------------
(***************************************************************************)
(* The bandwidth window: the points of its graph (GraphFrame.cpp) and its  *)
(* settings (BandwidthGraph.cpp).                                          *)
(*                                                                         *)
(* Rates are whole KB/s.  A point's height is its rate: y is proportional  *)
(* to it, from the bottom up to nine tenths for the scale's maximum.       *)
(***************************************************************************)
EXTENDS Integers, Sequences, SequencesExt, FiniteSetsExt

MinScale == 10
ScrollStep == 4

------------------------------------------------------------------------------
(* The graph: the newest points come first *)

EmptyGraph == [recv |-> <<0>>, send |-> <<0>>, max |-> MinScale, totalRecv |-> 0, totalSend |-> 0]
FirstGraph(width) == EmptyGraph @@ [points |-> width, position |-> 0, scaleWidth |-> 0]

Highest(g) == Max(ToSet(g.recv) \cup ToSet(g.send) \cup {MinScale})
\* addPoints(): the oldest goes first, and the scale is made anew when its maximum has scrolled out.
DropOldest(g) ==
    IF Len(g.send) = g.points THEN [g EXCEPT !.send = Front(@), !.recv = Front(@)] ELSE g
Rescaled(g) ==
    IF g.position >= g.points THEN [g EXCEPT !.max = Highest(g), !.position = 0] ELSE g
AddPoints(graph, recv, send) ==
    LET g == Rescaled(DropOldest(graph))
        rate == Max({recv, send})
    IN  [g EXCEPT !.send = <<send>> \o @, !.recv = <<recv>> \o @,
                  !.totalSend = @ + send, !.totalRecv = @ + recv,
                  !.max = Max({@, rate}), !.position = IF rate > g.max THEN 0 ELSE @ + 1]
\* resetGraph() leaves the position of the maximum, and the size.
ResetGraph(g) == EmptyGraph @@ g

\* The division of resizeEvent() truncates.
ResizeEvent(g, width) ==
    LET room == width - g.scaleWidth
    IN  [g EXCEPT !.points = IF room < 0 THEN -((-room) \div ScrollStep) ELSE room \div ScrollStep]
\* paintScale(): LabelWidth stands for the font.
RECURSIVE LabelWidth(_)
LabelWidth(rate) == IF rate < 10 THEN 2 ELSE 2 + LabelWidth(rate \div 10)
PaintScale(g) == [g EXCEPT !.scaleWidth = Max({2 + LabelWidth((g.max * i) \div 4) : i \in 1 .. 4}) + 5]

\* pointsFromData(): from the right edge to the left, and back to the base line.
RECURSIVE Plotted(_, _, _)
Plotted(data, x, scaleWidth) ==
    IF data = <<>> THEN <<>>
    ELSE IF x - ScrollStep < scaleWidth THEN <<<<scaleWidth, data[1]>>>>
    ELSE <<<<x, data[1]>>>> \o Plotted(Tail(data), x - ScrollStep, scaleWidth)
PointsFromData(g, data, width) ==
    <<<<width, 0>>>> \o Plotted(data, width, g.scaleWidth) \o <<<<g.scaleWidth, 0>>>>

\* paintData(): what is drawn, from the back to the front.
PaintData(style, shown) ==
    LET integrals == IF style = "area" THEN <<<<"integral", "recv">>, <<"integral", "send">>>> ELSE <<>>
    IN  SelectSeq(integrals \o <<<<"line", "recv">>, <<"line", "send">>>>, LAMBDA d : d[2] \in shown)
\* totalToStr()
TotalToStr(total) ==
    IF total < 1024 THEN <<total, "KB">>
    ELSE IF total < 1048576 THEN <<total \div 1024, "MB">> ELSE <<total \div 1048576, "GB">>

------------------------------------------------------------------------------
(* The window: what it stores, its boxes, and what is in force *)

Styles == <<"line", "area">>
Default == [opacity |-> 100, style |-> 2, onTop |-> FALSE, filter |-> {"recv", "send"}]
FrameHeight == 40 + 6
FirstWindow(stored) ==
    [stored |-> stored, boxes |-> Default, visible |-> FALSE, frame |-> FALSE, height |-> 200,
     onTop |-> FALSE, opacity |-> 100, style |-> "line", shown |-> {}]

\* Another flag than the window has makes it disappear.
SetWindowFlags(w, onTop) == [w EXCEPT !.onTop = onTop, !.visible = @ /\ onTop = w.onTop]
InForce(w) ==
    LET v == SetWindowFlags(w, w.boxes.onTop)
    IN  [v EXCEPT !.opacity = v.boxes.opacity, !.style = Styles[v.boxes.style], !.shown = v.boxes.filter]
LoadSettings(w) ==
    LET style == IF w.stored.style \in DOMAIN Styles THEN w.stored.style ELSE Default.style
    IN  InForce([w EXCEPT !.boxes = [w.stored EXCEPT !.style = style]])
\* showSettingsFrame(): the slot that the button calls again computes the same height.
ShowSettingsFrame(w, show) ==
    [w EXCEPT !.frame = show, !.height = IF show THEN @ + FrameHeight ELSE @ - FrameHeight]
SaveChanges(w) ==
    LET v == ShowSettingsFrame(w, FALSE)
    IN  [InForce([v EXCEPT !.stored = v.boxes]) EXCEPT !.visible = TRUE]
CancelChanges(w) == LoadSettings(ShowSettingsFrame(w, FALSE))
ShowWindow(w) == [LoadSettings(w) EXCEPT !.visible = TRUE]

\* What a user can do in the window; the buttons are in the frame, the opacity is set at once.
Can(w, click) ==
    CASE click = "show" -> TRUE [] click \in {"save", "cancel", "onTop", "opacity", "style", "line"} ->
            w.visible /\ w.frame
      [] OTHER -> w.visible
Clicked(w, click) ==
    CASE ~Can(w, click) -> w
      [] Can(w, click) /\ click = "show" -> ShowWindow(w)
      [] Can(w, click) /\ click = "close" -> [w EXCEPT !.visible = FALSE]
      [] Can(w, click) /\ click = "toggle" -> ShowSettingsFrame(w, ~w.frame)
      [] Can(w, click) /\ click = "save" -> SaveChanges(w)
      [] Can(w, click) /\ click = "cancel" -> CancelChanges(w)
      [] Can(w, click) /\ click = "onTop" -> [w EXCEPT !.boxes.onTop = ~@]
      [] Can(w, click) /\ click = "opacity" -> [w EXCEPT !.boxes.opacity = 50, !.opacity = 50]
      [] Can(w, click) /\ click = "style" -> [w EXCEPT !.boxes.style = 3 - @]
      [] Can(w, click) /\ click = "line" -> [w EXCEPT !.boxes.filter = {"recv"}]
Start(stored) == ShowWindow(ShowSettingsFrame([FirstWindow(stored) EXCEPT !.height = 200 + FrameHeight], FALSE))

------------------------------------------------------------------------------
(* What is checked *)

LOCAL Rates == {0, 20, 30}
LOCAL Sized(points) == [FirstGraph(0) EXCEPT !.points = points]
LOCAL Fed(g, rates) == FoldLeft(LAMBDA h, r : AddPoints(h, r, 0), g, rates)

\* However rates come, the scale holds every point of the graph, its maximum is that of no point
\* older than two widths of the graph, no more points are kept than have room, and the totals are
\* those of all points, also of those that have scrolled out.
ASSUME ScaleHoldsPoints ==
    \A points \in 1 .. 3, n \in 0 .. 7 : \A rates \in [1 .. n -> Rates] :
       LET g == Fed(Sized(points), rates)
           recent == {rates[i] : i \in {j \in 1 .. n : j > n - 2 * points - 1}}
       IN  /\ g.max >= Highest(g)
           /\ g.max \in recent \cup {MinScale}
           /\ Len(g.recv) = Min({n + 1, points}) /\ Len(g.send) = Len(g.recv)
           /\ g.totalRecv = FoldLeft(LAMBDA a, r : a + r, 0, rates)

\* A window made smaller while its graph is full keeps every later point, and the ones that no
\* longer have room, until it is reset: points are removed only when there are exactly as many as
\* have room.
ASSUME ShrunkenKeepsAll ==
    \A points \in 2 .. 4, less \in 1 .. 3, n \in 0 .. 5 :
       LET full == Fed(Sized(points), [i \in 1 .. points |-> 0])
           shrunk == Fed([full EXCEPT !.points = less], [i \in 1 .. n |-> 0])
           reset == Fed(ResetGraph(shrunk), [i \in 1 .. n |-> 0])
       IN  /\ Len(shrunk.recv) = (IF less < points THEN points + n ELSE Min({points + n, less}))
           /\ Len(reset.recv) = Min({n + 1, less})

\* Whatever its points and its size, the graph is drawn from the right edge to the left within the
\* frame, each point where the one before it was a moment ago, and returns to the base line.
ASSUME DrawnInFrame ==
    \A n \in 1 .. 6, width \in 8 .. 40 :
       LET g == PaintScale(Fed(Sized(9), [i \in 1 .. n |-> 10 * i]))
           p == PointsFromData(g, g.recv, width)
       IN  /\ p[1] = <<width, 0>> /\ p[Len(p)] = <<g.scaleWidth, 0>>
           /\ width >= g.scaleWidth => \A i \in DOMAIN p : p[i][1] \in g.scaleWidth .. width
           /\ \A i \in 2 .. Len(p) - 2 :
                 /\ p[i][1] > p[i + 1][1]
                 /\ p[i][1] - p[i + 1][1] = ScrollStep \/ p[i + 1][1] = g.scaleWidth
           /\ \A i \in 2 .. Len(p) - 1 : p[i][2] = g.recv[i - 1] /\ p[i][2] <= g.max
           /\ Len(p) - 2 <= Max({ResizeEvent(g, width).points, 0}) + 1

\* What is not ticked is not drawn, and no outline is hidden by an area.
ASSUME DrawnAsTicked ==
    \A style \in {"line", "area"}, shown \in SUBSET {"recv", "send"} :
       LET d == PaintData(style, shown)
       IN  /\ {d[i][2] : i \in DOMAIN d} = shown
           /\ \A i, j \in DOMAIN d : d[i][1] = "line" /\ d[j][1] = "integral" => j < i

\* A total is shown with a number of at most four digits up to a terabyte's worth of gigabytes.
ASSUME TotalsAreShort ==
    \A total \in {0, 1, 1023, 1024, 1048575, 1048576, 5242880} : TotalToStr(total)[1] \in 0 .. 1023

LOCAL Clicks == {"show", "close", "toggle", "save", "cancel", "onTop", "opacity", "style", "line"}
LOCAL Saved == {Default, [Default EXCEPT !.onTop = TRUE], [Default EXCEPT !.style = 7]}
LOCAL Runs(n) == [1 .. n -> Clicks]

\* In every order of clicks, no click but the closing one makes the window disappear, its height is
\* right for the frame, and the graph is drawn as the settings say, except that a new opacity is
\* seen before it is saved, and also when the window was closed without saving, until it is shown
\* again, which shows what is stored in every box.
ASSUME WindowIsAsStored ==
    \A stored \in Saved, n \in 0 .. 4 : \A clicks \in Runs(n) :
       LET w == FoldLeft(Clicked, Start(stored), clicks)
       IN  /\ ~w.visible => \E i \in 1 .. n : clicks[i] = "close"
           /\ w.height = 200 + (IF w.frame THEN FrameHeight ELSE 0)
           /\ w.onTop = w.stored.onTop /\ w.shown = w.stored.filter
           /\ w.style = Styles[IF w.stored.style \in 1 .. 2 THEN w.stored.style ELSE Default.style]
           /\ w.opacity # w.stored.opacity => w.boxes.opacity = w.opacity
           /\ n > 0 /\ clicks[n] = "show"
                 => w.boxes = [w.stored EXCEPT !.style = IF @ \in DOMAIN Styles THEN @ ELSE Default.style]
=============================================================================
