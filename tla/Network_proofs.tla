--------------------------- MODULE Network_proofs ---------------------------
(***************************************************************************)
(* Proofs about Network: the lists of removals name items that exist,      *)
(* nothing is listed once a lost connection has been noticed, and a list   *)
(* that has settled is Tor's, for any circuits and streams, any number of  *)
(* connections, signals on their way and slots inside their event loops.   *)
(***************************************************************************)
EXTENDS Network, Lists_proofs

\* A circuit or a stream that a Tor has told of is Open or Gone, and the stream is on a
\* circuit.
Told == {"Open", Gone}
States == {Absent} \cup [status : Told, on : Circuits]
Msg ==      [kind : {"circ"}, id : Circuits, status : Told]
       \cup [kind : {"strm"}, id : Streams, status : Told, on : Circuits]
       \cup [kind : {"connected", "disconnected"}]
FrameOf == [kind : {"refresh", "authenticated"}, at : {"relays", "streams", "box"},
            turns : 0 .. MaxRelays]

TypeOK ==
    /\ link \in BOOLEAN /\ authed \in BOOLEAN /\ subscribed \in BOOLEAN
    /\ circ \in [Circuits -> Statuses] /\ strm \in [Streams -> States]
    /\ missed \subseteq Circuits /\ connects \in 0 .. MaxConnects
    /\ queue \in Seq(Msg) /\ Len(queue) <= MaxQueue
    /\ stack \in Seq(FrameOf) /\ Len(stack) <= MaxDepth
    /\ relays \in BOOLEAN /\ timer \in BOOLEAN /\ action \in BOOLEAN
    /\ shown \in [Circuits -> Statuses] /\ under \in [Streams -> States]
    /\ plotted \subseteq Circuits
    /\ circRemovals \in Seq(Circuits) /\ strmRemovals \in Seq(Streams \cup {Deleted})
    /\ circTimers \in Nat /\ strmTimers \in Nat

------------------------------------------------------------------------------
(* What the proofs of the three properties need *)

\* The connection is lost, and the signal that says so is on its way, or is handled: then
\* no event of that connection comes after it.
Noticed(i) ==
    \A j \in DOMAIN queue : j > i => queue[j].kind \notin {"circ", "strm"}
NoneListed == ~relays /\ (\A c \in Circuits : ~ListedCircuit(c)) /\ (\A s \in Streams : ~ListedStream(s))
LossIsTold ==
    /\ subscribed => authed
    /\ authed => link
    /\ ~link => \/ NoneListed /\ Noticed(0)
                \/ \E i \in DOMAIN queue : queue[i].kind = "disconnected" /\ Noticed(i)

\* The signal i is of the connection that Tor has now, or of the last one.
Current(i) == \A j \in DOMAIN queue : j > i => queue[j].kind # "disconnected"
Says(c, i) == i \in DOMAIN queue /\ queue[i].kind = "circ" /\ queue[i].id = c
IsLastWord(c, i) == Says(c, i) /\ \A j \in DOMAIN queue : j > i => ~Says(c, j)

\* A loss that is followed by another connection is followed by the signal of that one.
NextIsTold ==
    link => \A i \in DOMAIN queue : queue[i].kind = "disconnected" =>
               \E j \in DOMAIN queue : j > i /\ queue[j].kind = "connected"

\* What is on its way is true: the end of a circuit, and the last word about one.
WordsAreTrue ==
    \A i \in DOMAIN queue, c \in Circuits : Current(i) /\ Says(c, i) =>
        /\ subscribed
        /\ queue[i].status = Gone => circ[c] = Gone
        /\ IsLastWord(c, i) => queue[i].status = circ[c]
RemovalsAreDue ==
    Current(0) => \A i \in DOMAIN circRemovals : circ[circRemovals[i]] = Gone

\* Once no connection or loss is on its way, a circuit that nothing on its way is about is
\* listed as Tor has it, or is going to be loaded.
Loading == \E i \in DOMAIN stack : stack[i].at = "relays"
Steady == link /\ \A i \in DOMAIN queue : queue[i].kind \in {"circ", "strm"}
Unsaid(c) == \A i \in DOMAIN queue : ~Says(c, i)
ListedTrue(c) ==
    /\ shown[c] = "Open" => circ[c] = "Open"
    /\ circ[c] = "Open" => shown[c] = "Open" \/ Loading
ListIsTrue ==
    Steady => \A c \in Circuits \ missed : Unsaid(c) => ListedTrue(c)

Faithful == LossIsTold /\ NextIsTold /\ WordsAreTrue /\ RemovalsAreDue /\ ListIsTrue

------------------------------------------------------------------------------
(* Types *)

LEMMA MaxRelaysInNat == MaxRelays \in Nat /\ MaxQueue \in Nat /\ MaxDepth \in Nat /\ MaxConnects \in Nat
BY NetworkAssumption DEF NetworkAssumption

\* A message that Tor's step sends is told, if it was asked for, as the last of the queue.
LEMMA Telling ==
    ASSUME TypeOK, NEW STATE m, m \in Msg, Tell(m)
    PROVE  /\ queue' \in Seq(Msg) /\ Len(queue') <= MaxQueue
           /\ \/ ~subscribed /\ UNCHANGED queue
              \/ subscribed /\ queue' = Append(queue, m)
<1>1. CASE subscribed
  <2>1. queue' = Append(queue, m) /\ Len(queue) < MaxQueue
    BY <1>1 DEF Tell
  <2> QED BY <1>1, <2>1, Pushed, MaxRelaysInNat DEF TypeOK
<1>2. CASE ~subscribed
  BY <1>2 DEF Tell, TypeOK
<1> QED BY <1>1, <1>2

\* A stage of the slot at the top of the stack follows another.
LEMMA GoingOn ==
    ASSUME TypeOK, stack # <<>>, NEW frame \in FrameOf, Goto(frame)
    PROVE  /\ stack' \in Seq(FrameOf) /\ Len(stack') = Len(stack) /\ stack'[Len(stack)] = frame
           /\ \A i \in 1 .. Len(stack) - 1 : stack'[i] = stack[i]
<1> DEFINE b == SubSeq(stack, 1, Len(stack) - 1)
<1>1. /\ b \in Seq(FrameOf) /\ Len(b) = Len(stack) - 1 /\ Len(stack) \in Nat
      /\ \A i \in 1 .. Len(stack) - 1 : b[i] = stack[i]
  BY Popped DEF TypeOK
<1>2. stack' = Append(b, frame)
  BY DEF Goto, Beneath, Front
<1> HIDE DEF b
<1> QED BY <1>1, <1>2, Pushed

LEMMA Returning ==
    ASSUME TypeOK, stack # <<>>
    PROVE  /\ Beneath \in Seq(FrameOf) /\ Len(Beneath) = Len(stack) - 1
           /\ \A i \in 1 .. Len(stack) - 1 : Beneath[i] = stack[i]
           /\ Top \in FrameOf /\ Top = stack[Len(stack)] /\ Len(stack) \in Nat /\ 1 <= Len(stack)
           /\ DOMAIN stack = 1 .. Len(stack)
BY Popped DEF TypeOK, Beneath, Front, Top, Last

LEMMA Clearing ==
    ASSUME Clear
    PROVE  /\ relays' = FALSE /\ plotted' = {} /\ missed' = {}
           /\ shown' \in [Circuits -> Statuses] /\ under' \in [Streams -> States]
           /\ \A c \in Circuits : shown'[c] = "Absent"
           /\ \A x \in Streams : under'[x].status = "Absent"
           /\ circRemovals' = <<>> /\ strmRemovals' = <<>>
           /\ UNCHANGED <<circTimers, strmTimers>>
<1>1. shown' \in [Circuits -> Statuses] /\ \A c \in Circuits : shown'[c] = "Absent"
  BY DEF Clear, DropCircuits, Statuses
<1>2. under' \in [Streams -> States] /\ \A x \in Streams : under'[x].status = "Absent"
  BY DEF Clear, States, Absent
<1> QED BY <1>1, <1>2 DEF Clear, ClearMap, DropLists, timers

\* A refresh begins: the slot is at its first stage.
LEMMA Beginning ==
    ASSUME TypeOK, Clear, Len(stack) < MaxDepth, NEW kind \in {"refresh", "authenticated"},
           NEW STATE answered, stack' = Append(stack, RefreshFrame(kind, answered))
    PROVE  /\ stack' \in Seq(FrameOf) /\ Len(stack') = Len(stack) + 1 /\ Len(stack') <= MaxDepth
           /\ Len(stack) + 1 \in DOMAIN stack' /\ stack'[Len(stack) + 1].at = "relays"
<1> DEFINE r == RefreshFrame(kind, answered)
<1>1. r \in FrameOf /\ r.at = "relays"
  BY MaxRelaysInNat DEF FrameOf, RefreshFrame
<1> HIDE DEF r
<1>2. stack' = Append(stack, r)
  BY DEF r
<1> QED BY <1>1, <1>2, Pushed, MaxRelaysInNat DEF TypeOK

\* What the head of the queue is.
LEMMA Delivering ==
    ASSUME TypeOK, NEW k, Delivered(k)
    PROVE  /\ queue # <<>> /\ queue[1] \in Msg /\ Head(queue) = queue[1] /\ queue[1].kind = k
           /\ queue' \in Seq(Msg) /\ Len(queue') = Len(queue) - 1 /\ Len(queue') <= MaxQueue
           /\ DOMAIN queue = 1 .. Len(queue) /\ DOMAIN queue' = 1 .. Len(queue) - 1
           /\ Len(queue) \in Nat /\ 1 <= Len(queue)
           /\ \A i \in 1 .. Len(queue) - 1 : queue'[i] = queue[i + 1]
BY Dequeued, MaxRelaysInNat DEF Delivered, TypeOK

LEMMA Scheduling ==
    ASSUME NEW S, NEW seq \in Seq(S), NEW x \in S
    PROVE  /\ Scheduled(seq, x) \in Seq(S) /\ ToSet(Scheduled(seq, x)) = ToSet(seq) \cup {x}
           /\ \A n \in Nat : Started(n, seq, x) \in Nat
           /\ \/ Scheduled(seq, x) = seq
              \/ /\ Scheduled(seq, x) = Append(seq, x)
                 /\ \A i \in DOMAIN seq : seq[i] # x
<1>1. DOMAIN seq = 1 .. Len(seq) /\ Len(seq) \in Nat
  OBVIOUS
<1>2. CASE NotYet(seq, x)
  <2>1. Scheduled(seq, x) = Append(seq, x)
    BY <1>2 DEF Scheduled
  <2>2. \A i \in DOMAIN seq : seq[i] # x
    BY <1>1, <1>2 DEF NotYet, Contains
  <2>3. /\ Append(seq, x) \in Seq(S) /\ DOMAIN Append(seq, x) = 1 .. Len(seq) + 1
        /\ Append(seq, x)[Len(seq) + 1] = x
        /\ \A i \in 1 .. Len(seq) : Append(seq, x)[i] = seq[i]
    BY Pushed
  <2>4. \A i \in 1 .. Len(seq) + 1 : i = Len(seq) + 1 \/ i \in 1 .. Len(seq)
    BY <1>1
  <2>5. Len(seq) + 1 \in 1 .. Len(seq) + 1 /\ 1 .. Len(seq) \subseteq 1 .. Len(seq) + 1
    BY <1>1
  <2>6. ToSet(Append(seq, x)) = ToSet(seq) \cup {x}
    BY <1>1, <2>3, <2>4, <2>5 DEF ToSet
  <2> QED BY <2>1, <2>2, <2>3, <2>6 DEF Started
<1>3. CASE ~NotYet(seq, x)
  <2>1. Scheduled(seq, x) = seq /\ \E i \in DOMAIN seq : seq[i] = x
    BY <1>1, <1>3 DEF Scheduled, NotYet, Contains
  <2> QED BY <1>3, <2>1 DEF ToSet, Started
<1> QED BY <1>2, <1>3

LEMMA InitTypeOK == Init => TypeOK
<1> SUFFICES ASSUME Init PROVE TypeOK
  OBVIOUS
<1>1. strm \in [Streams -> States] /\ under \in [Streams -> States]
  BY DEF Init, States
<1>2. circ \in [Circuits -> Statuses] /\ shown \in [Circuits -> Statuses]
  BY DEF Init, Statuses
<1>3. /\ queue \in Seq(Msg) /\ Len(queue) = 0 /\ stack \in Seq(FrameOf) /\ Len(stack) = 0
      /\ circRemovals \in Seq(Circuits) /\ strmRemovals \in Seq(Streams \cup {Deleted})
  BY DEF Init
<1>4. /\ link = FALSE /\ authed = FALSE /\ subscribed = FALSE /\ missed = {} /\ connects = 0
      /\ relays = FALSE /\ timer = FALSE /\ action = FALSE /\ plotted = {}
      /\ circTimers = 0 /\ strmTimers = 0
  BY DEF Init
<1> HIDE DEF Init
<1>5. connects \in 0 .. MaxConnects /\ Len(queue) <= MaxQueue /\ Len(stack) <= MaxDepth
  BY <1>3, <1>4, MaxRelaysInNat
<1> QED BY <1>1, <1>2, <1>3, <1>4, <1>5 DEF TypeOK

\* The types of what a step may leave as it is.
TypeTor ==
    /\ link \in BOOLEAN /\ authed \in BOOLEAN /\ subscribed \in BOOLEAN
    /\ circ \in [Circuits -> Statuses] /\ strm \in [Streams -> States]
    /\ missed \subseteq Circuits /\ connects \in 0 .. MaxConnects
TypeQueue == queue \in Seq(Msg) /\ Len(queue) <= MaxQueue
TypeStack == stack \in Seq(FrameOf) /\ Len(stack) <= MaxDepth
TypeWindow == timer \in BOOLEAN /\ action \in BOOLEAN
TypeLists ==
    /\ relays \in BOOLEAN /\ shown \in [Circuits -> Statuses] /\ under \in [Streams -> States]
    /\ plotted \subseteq Circuits
    /\ circRemovals \in Seq(Circuits) /\ strmRemovals \in Seq(Streams \cup {Deleted})
    /\ circTimers \in Nat /\ strmTimers \in Nat

LEMMA TypeParts == TypeOK <=> TypeTor /\ TypeQueue /\ TypeStack /\ TypeWindow /\ TypeLists
BY DEF TypeOK, TypeTor, TypeQueue, TypeStack, TypeWindow, TypeLists

LEMMA TypePartsNext ==
    TypeTor' /\ TypeQueue' /\ TypeStack' /\ TypeWindow' /\ TypeLists' => TypeOK'
BY DEF TypeOK, TypeTor, TypeQueue, TypeStack, TypeWindow, TypeLists

LEMMA TypesStay ==
    ASSUME TypeOK
    PROVE  /\ UNCHANGED tor => TypeTor'
           /\ UNCHANGED queue => TypeQueue'
           /\ UNCHANGED stack => TypeStack'
           /\ UNCHANGED window => TypeWindow'
           /\ UNCHANGED lists => TypeLists'
BY DEF TypeOK, TypeTor, TypeQueue, TypeStack, TypeWindow, TypeLists, tor, window, lists,
       circuitList, timers

\* A circuit or a stream that changes tells of it.
LEMMA CircuitStep ==
    ASSUME TypeOK, NEW c \in Circuits, NEW from, NEW to \in Told, CircuitChanges(c, from, to)
    PROVE  /\ TypeTor' /\ TypeQueue'
           /\ circ' = [circ EXCEPT ![c] = to] /\ circ[c] = from
           /\ UNCHANGED <<link, authed, subscribed, stack, lists, window>>
           /\ \/ ~subscribed /\ UNCHANGED queue /\ missed' = missed \cup {c}
              \/ /\ subscribed /\ UNCHANGED missed
                 /\ queue' = Append(queue, [kind |-> "circ", id |-> c, status |-> to])
<1> DEFINE m == [kind |-> "circ", id |-> c, status |-> to]
<1>1. circ' = [circ EXCEPT ![c] = to] /\ circ' \in [Circuits -> Statuses] /\ circ'[c] = to
  BY DEF CircuitChanges, TypeOK, Told, Statuses
<1>2. m \in Msg
  BY DEF Msg
<1>3. Tell(m)
  BY <1>1 DEF CircuitChanges, CircMsg
<1> HIDE DEF m
<1>4. TypeQueue' /\ ((~subscribed /\ UNCHANGED queue) \/ (subscribed /\ queue' = Append(queue, m)))
  BY <1>2, <1>3, Telling DEF TypeQueue
<1>5. missed' = IF subscribed THEN missed ELSE missed \cup {c}
  BY DEF CircuitChanges
<1>6. TypeTor'
  BY <1>1, <1>5 DEF CircuitChanges, TypeTor, TypeOK
<1> QED BY <1>1, <1>4, <1>5, <1>6 DEF CircuitChanges, m

LEMMA StreamStep ==
    ASSUME TypeOK, NEW x \in Streams, NEW to \in StreamStates, StreamChanges(x, to)
    PROVE  /\ TypeTor' /\ TypeQueue'
           /\ UNCHANGED <<link, authed, subscribed, circ, missed, stack, lists, window>>
           /\ \/ UNCHANGED queue
              \/ /\ subscribed
                 /\ \E m \in Msg : m.kind = "strm" /\ queue' = Append(queue, m)
<1>1. to.status \in Told /\ to.on \in Circuits /\ to \in States
  <2>1. strm[x] \in States
    BY DEF TypeOK
  <2>2. CASE to.status = "Open" /\ to.on \in Circuits
    BY <2>2 DEF Told, States, StreamStates
  <2>3. CASE strm[x].status = "Open" /\ to = [strm[x] EXCEPT !.status = Gone]
    <3>1. strm[x] \in [status : Told, on : Circuits]
      BY <2>1, <2>3 DEF States, Absent
    <3>2. to \in [status : Told, on : Circuits]
      BY <2>3, <3>1 DEF Told
    <3> QED BY <3>2 DEF States
  <2> QED BY <2>2, <2>3 DEF StreamChanges
<1>2. strm' = [strm EXCEPT ![x] = to] /\ strm'[x] = to /\ strm' \in [Streams -> States]
  BY <1>1 DEF StreamChanges, TypeOK
<1> DEFINE m == [kind |-> "strm", id |-> x, status |-> to.status, on |-> to.on]
<1>3. m \in Msg /\ m.kind = "strm"
  BY <1>1 DEF Msg
<1>4. Tell(m)
  BY <1>2 DEF StreamChanges, StrmMsg
<1> HIDE DEF m
<1>5. TypeQueue' /\ (UNCHANGED queue \/ (subscribed /\ queue' = Append(queue, m)))
  BY <1>3, <1>4, Telling DEF TypeQueue
<1>6. TypeTor'
  BY <1>2 DEF StreamChanges, TypeTor, TypeOK
<1> QED BY <1>3, <1>5, <1>6 DEF StreamChanges

LEMMA LinkStep ==
    ASSUME TypeOK, LinkGoesUp \/ LinkGoesDown
    PROVE  /\ TypeTor' /\ TypeQueue'
           /\ UNCHANGED <<stack, lists, window>>
           /\ \E m \in Msg : m.kind = (IF link THEN "disconnected" ELSE "connected")
                             /\ queue' = Append(queue, m)
<1> DEFINE k == IF link THEN "disconnected" ELSE "connected"
           m == [kind |-> k]
<1>1. m \in Msg /\ m.kind = k
  BY DEF Msg
<1>2. queue' = Append(queue, m) /\ Len(queue) < MaxQueue
  BY DEF LinkGoesUp, LinkGoesDown, Note
<1>3. UNCHANGED <<stack, lists, window>>
  BY DEF LinkGoesUp, LinkGoesDown
<1>4. ASSUME LinkGoesUp PROVE TypeTor'
  BY <1>4, MaxRelaysInNat DEF LinkGoesUp, TypeTor, TypeOK
<1>5. ASSUME LinkGoesDown PROVE TypeTor'
  <2>1. circ' \in [Circuits -> Statuses] /\ strm' \in [Streams -> States]
    BY <1>5 DEF LinkGoesDown, TypeOK, Statuses, States
  <2> QED BY <1>5, <2>1 DEF LinkGoesDown, TypeTor, TypeOK
<1> HIDE DEF m
<1>6. TypeQueue'
  BY <1>1, <1>2, Pushed, MaxRelaysInNat DEF TypeQueue, TypeOK
<1> QED BY <1>1, <1>2, <1>3, <1>4, <1>5, <1>6 DEF k

\* The stages of a slot.
LEMMA LoadStepTypes ==
    ASSUME TypeOK, LoadStep \/ Subscribe
    PROVE  TypeOK'
<1>1. CASE NextRelay
  <2> DEFINE n == IF link THEN Top.turns - 1 ELSE 0
  <2>1. stack # <<>> /\ Top \in FrameOf /\ Top.turns > 0 /\ Goto([Top EXCEPT !.turns = n])
    BY <1>1, Returning DEF NextRelay
  <2>2. n \in 0 .. MaxRelays
    BY <2>1, MaxRelaysInNat DEF FrameOf
  <2> HIDE DEF n
  <2>3. [Top EXCEPT !.turns = n] \in FrameOf
    BY <2>1, <2>2 DEF FrameOf
  <2>4. TypeStack'
    BY <2>1, <2>3, GoingOn DEF TypeStack, TypeOK
  <2>5. TypeLists'
    BY <1>1 DEF NextRelay, circuitList, timers, TypeLists, TypeOK
  <2> QED BY <1>1, <2>4, <2>5, TypesStay, TypePartsNext DEF NextRelay
<1>2. CASE LoadCircuits
  <2>1. PICK told \in Replies(CircuitsTold) :
           /\ shown' = [c \in Circuits |-> IF c \in told THEN "Open" ELSE shown[c]]
           /\ plotted' = Plotted(told) /\ missed' = missed \cup (CircuitsTold \ told)
    BY <1>2 DEF LoadCircuits
  <2>2. told \subseteq CircuitsTold /\ CircuitsTold \subseteq Circuits
    BY <2>1 DEF Replies, CircuitsTold
  <2>3. TypeLists'
    BY <1>2, <2>1, <2>2 DEF LoadCircuits, timers, TypeLists, TypeOK, Plotted, Statuses
  <2>4. TypeTor'
    BY <1>2, <2>1, <2>2 DEF LoadCircuits, TypeTor, TypeOK
  <2>5. stack # <<>> /\ Top \in FrameOf /\ Goto([Top EXCEPT !.at = "streams"])
    BY <1>2, Returning DEF LoadCircuits
  <2>6. [Top EXCEPT !.at = "streams"] \in FrameOf
    BY <2>5 DEF FrameOf
  <2>7. TypeStack'
    BY <2>5, <2>6, GoingOn DEF TypeStack, TypeOK
  <2> QED BY <1>2, <2>3, <2>4, <2>7, TypesStay, TypePartsNext DEF LoadCircuits
<1>3. CASE LoadStreams
  <2>1. ASSUME NEW x \in Streams PROVE under'[x] \in States
    <3>1. under[x] \in States /\ strm[x] \in States
      BY DEF TypeOK
    <3>2. CASE x \in StreamsTold /\ ListedStream(x)
      <4>1. under'[x] = [under[x] EXCEPT !.status = "Open"]
        BY <1>3, <3>2 DEF LoadStreams
      <4>2. under[x] \in [status : Told, on : Circuits]
        BY <3>1, <3>2 DEF ListedStream, States, Absent
      <4>3. under'[x] \in [status : Told, on : Circuits]
        BY <4>1, <4>2 DEF Told
      <4> QED BY <4>3 DEF States
    <3>3. CASE ~(x \in StreamsTold /\ ListedStream(x))
      BY <1>3, <3>1, <3>3 DEF LoadStreams, States
    <3> QED BY <3>2, <3>3
  <2>2. DOMAIN under' = Streams /\ under' = [x \in Streams |-> under'[x]]
    BY <1>3 DEF LoadStreams
  <2>3. TypeLists'
    BY <1>3, <2>1, <2>2 DEF LoadStreams, timers, TypeLists, TypeOK
  <2>4. TypeStack'
    <3>1. stack # <<>> /\ Top \in FrameOf /\ (Goto([Top EXCEPT !.at = "box"]) \/ stack' = Beneath)
      BY <1>3, Returning DEF LoadStreams
    <3>2. [Top EXCEPT !.at = "box"] \in FrameOf
      BY <3>1 DEF FrameOf
    <3>3. CASE Goto([Top EXCEPT !.at = "box"])
      BY <3>1, <3>2, <3>3, GoingOn DEF TypeStack, TypeOK
    <3>4. CASE stack' = Beneath
      BY <3>1, <3>4, Returning, MaxRelaysInNat DEF TypeStack, TypeOK
    <3> QED BY <3>1, <3>3, <3>4
  <2>5. TypeWindow'
    BY <1>3 DEF LoadStreams, TypeWindow, TypeOK
  <2> QED BY <1>3, <2>3, <2>4, <2>5, TypesStay, TypePartsNext DEF LoadStreams
<1>4. CASE Subscribe
  <2>1. TypeStack'
    BY <1>4, Returning, MaxRelaysInNat DEF Subscribe, TypeStack, TypeOK
  <2>2. TypeTor'
    BY <1>4 DEF Subscribe, TypeTor, TypeOK
  <2> QED BY <1>4, <2>1, <2>2, TypesStay, TypePartsNext DEF Subscribe
<1> QED BY <1>1, <1>2, <1>3, <1>4 DEF LoadStep

\* The timers.
LEMMA TimerStepTypes ==
    ASSUME TypeOK, RemoveCircuit \/ RemoveStream
    PROVE  TypeOK'
<1>1. CASE RemoveCircuit
  <2>1. circTimers' \in Nat
    BY <1>1 DEF RemoveCircuit, TypeOK
  <2>2. CASE circRemovals = <<>>
    BY <1>1, <2>1, <2>2, TypesStay, TypePartsNext DEF RemoveCircuit, circuitList, TypeLists, TypeOK
  <2>3. CASE circRemovals # <<>>
    <3> DEFINE c == Head(circRemovals)
               gone == StreamsOf(c)
    <3>1. /\ circRemovals' = Tail(circRemovals) /\ shown' = [shown EXCEPT ![c] = "Absent"]
          /\ under' = [x \in Streams |-> IF x \in gone THEN Absent ELSE under[x]]
          /\ strmRemovals' = NullPointers(strmRemovals, gone) /\ plotted' = Unplotted(c)
      BY <1>1, <2>3 DEF RemoveCircuit
    <3>2. circRemovals' \in Seq(Circuits) /\ c \in Circuits
      BY <2>3, <3>1, Dequeued DEF TypeOK
    <3> HIDE DEF c, gone
    <3>3. shown' \in [Circuits -> Statuses] /\ under' \in [Streams -> States]
          /\ plotted' \subseteq Circuits
      BY <3>1, <3>2 DEF TypeOK, Statuses, States, Unplotted
    <3>4. strmRemovals' \in Seq(Streams \cup {Deleted})
      <4>1. /\ Len(strmRemovals) \in Nat /\ DOMAIN strmRemovals = 1 .. Len(strmRemovals)
            /\ \A i \in 1 .. Len(strmRemovals) : strmRemovals[i] \in Streams \cup {Deleted}
        BY ElementOfSeq DEF TypeOK
      <4>2. strmRemovals' = [i \in 1 .. Len(strmRemovals) |->
                                IF strmRemovals[i] \in gone THEN Deleted ELSE strmRemovals[i]]
        BY <3>1, <4>1 DEF NullPointers
      <4> QED BY <4>1, <4>2
    <3>5. TypeLists'
      BY <1>1, <2>1, <3>2, <3>3, <3>4 DEF RemoveCircuit, TypeLists, TypeOK
    <3> QED BY <1>1, <3>5, TypesStay, TypePartsNext DEF RemoveCircuit
  <2> QED BY <2>2, <2>3
<1>2. CASE RemoveStream
  <2>1. strmTimers' \in Nat
    BY <1>2 DEF RemoveStream, TypeOK
  <2>2. CASE strmRemovals = <<>>
    BY <1>2, <2>1, <2>2, TypesStay, TypePartsNext DEF RemoveStream, TypeLists, TypeOK
  <2>3. CASE strmRemovals # <<>>
    <3>1. strmRemovals' \in Seq(Streams \cup {Deleted})
      <4>1. strmRemovals \in Seq(Streams \cup {Deleted})
        BY DEF TypeOK
      <4>2. Tail(strmRemovals) \in Seq(Streams \cup {Deleted})
        BY <2>3, <4>1, Dequeued
      <4>3. strmRemovals' = Tail(strmRemovals)
        BY <1>2, <2>3 DEF RemoveStream
      <4> QED BY <4>2, <4>3
    <3>2. under' \in [Streams -> States]
      BY <1>2, <2>3 DEF RemoveStream, TypeOK, States
    <3>3. TypeLists'
      BY <1>2, <2>1, <3>1, <3>2 DEF RemoveStream, TypeLists, TypeOK
    <3> QED BY <1>2, <3>3, TypesStay, TypePartsNext DEF RemoveStream
  <2> QED BY <2>2, <2>3
<1> QED BY <1>1, <1>2

\* A refresh, by the user or the timer, or of a new connection.
LEMMA RefreshTypes ==
    ASSUME TypeOK, RefreshClicked \/ RefreshTimeout
    PROVE  TypeOK' /\ Clear /\ UNCHANGED <<queue, link, authed, subscribed, circ, strm>>
           /\ Len(stack') = Len(stack) + 1
           /\ Len(stack) + 1 \in DOMAIN stack' /\ stack'[Len(stack) + 1].at = "relays"
<1>1. /\ BeginRefresh /\ UNCHANGED <<authed, queue>> /\ Clear /\ Len(stack) < MaxDepth
      /\ stack' = Append(stack, RefreshFrame("refresh", authed))
  BY DEF RefreshClicked, RefreshTimeout, BeginRefresh
<1>2. TypeStack'
  BY <1>1, Beginning DEF TypeStack
<1>3. TypeLists'
  BY <1>1, Clearing DEF TypeLists, TypeOK
<1>4. TypeTor'
  BY <1>1, Clearing DEF BeginRefresh, TypeTor, TypeOK
<1>5. TypeWindow'
  BY <1>1 DEF BeginRefresh, TypeWindow, TypeOK
<1>6. TypeOK'
  BY <1>1, <1>2, <1>3, <1>4, <1>5, TypesStay, TypePartsNext
<1> QED BY <1>1, <1>6, Beginning DEF BeginRefresh

LEMMA SignalTypes ==
    ASSUME TypeOK, Signal
    PROVE  TypeOK'
<1>1. CASE HandleCircuit
  <2> DEFINE c == Head(queue).id
             st == Head(queue).status
  <2>1. c \in Circuits /\ st \in Told /\ TypeQueue'
    BY <1>1, Delivering DEF HandleCircuit, Msg, TypeQueue
  <2>2. /\ shown' = [shown EXCEPT ![c] = st] /\ plotted' = Plotted({c})
        /\ circRemovals' = IF st = Gone THEN Scheduled(circRemovals, c) ELSE circRemovals
        /\ circTimers' = IF st = Gone THEN Started(circTimers, circRemovals, c) ELSE circTimers
    BY <1>1 DEF HandleCircuit, AddCircuit
  <2> HIDE DEF c, st
  <2>3. shown' \in [Circuits -> Statuses] /\ plotted' \subseteq Circuits
    BY <2>1, <2>2 DEF TypeOK, Told, Statuses, Plotted
  <2>4. circRemovals' \in Seq(Circuits) /\ circTimers' \in Nat
    BY <2>1, <2>2, Scheduling DEF TypeOK
  <2>5. TypeLists'
    BY <1>1, <2>3, <2>4 DEF HandleCircuit, TypeLists, TypeOK
  <2> QED BY <1>1, <2>1, <2>5, TypesStay, TypePartsNext DEF HandleCircuit
<1>2. CASE HandleStream
  <2> DEFINE x == Head(queue).id
             v == [status |-> Head(queue).status, on |-> Head(queue).on]
  <2>1. x \in Streams /\ v \in States /\ v.status \in Told /\ TypeQueue'
    BY <1>2, Delivering DEF HandleStream, Msg, TypeQueue, States
  <2>2. AddStream(x, v)
    BY <1>2 DEF HandleStream
  <2> HIDE DEF x, v
  <2>3. under' \in [Streams -> States]
    <3>1. CASE ListedStream(x)
      <4>1. under[x] \in [status : Told, on : Circuits]
        BY <2>1, <3>1 DEF ListedStream, States, Absent, TypeOK
      <4>2. [under[x] EXCEPT !.status = v.status] \in States
        BY <2>1, <4>1 DEF States
      <4>3. under' = [under EXCEPT ![x] = [under[x] EXCEPT !.status = v.status]]
        BY <2>2, <3>1 DEF AddStream, StreamListed
      <4> QED BY <2>1, <4>2, <4>3 DEF TypeOK
    <3>2. CASE ~ListedStream(x)
      <4>1. under' = under \/ under' = [under EXCEPT ![x] = v]
        BY <2>2, <3>2 DEF AddStream, StreamListed
      <4> QED BY <2>1, <4>1 DEF TypeOK
    <3> QED BY <3>1, <3>2
  <2>4. strmRemovals' \in Seq(Streams \cup {Deleted}) /\ strmTimers' \in Nat
    <3>1. x \in Streams \cup {Deleted} /\ strmRemovals \in Seq(Streams \cup {Deleted})
          /\ strmTimers \in Nat
      BY <2>1 DEF TypeOK
    <3>2. Scheduled(strmRemovals, x) \in Seq(Streams \cup {Deleted})
          /\ Started(strmTimers, strmRemovals, x) \in Nat
      BY <3>1, Scheduling
    <3> QED BY <2>2, <3>1, <3>2 DEF AddStream
  <2>5. TypeLists'
    BY <1>2, <2>3, <2>4 DEF HandleStream, TypeLists, TypeOK
  <2> QED BY <1>2, <2>1, <2>5, TypesStay, TypePartsNext DEF HandleStream
<1>3. CASE HandleConnected
  <2>1. TypeQueue'
    BY <1>3, Delivering DEF HandleConnected, TypeQueue
  <2>2. CASE link
    <3>1. /\ Clear /\ Len(stack) < MaxDepth
          /\ stack' = Append(stack, RefreshFrame("authenticated", link))
      BY <1>3, <2>2 DEF HandleConnected
    <3>2. TypeStack'
      BY <3>1, Beginning DEF TypeStack
    <3>3. TypeLists'
      BY <3>1, Clearing DEF TypeLists, TypeOK
    <3>4. TypeTor'
      BY <1>3, <3>1, Clearing DEF HandleConnected, TypeTor, TypeOK
    <3>5. TypeWindow'
      BY <1>3, <2>2 DEF HandleConnected, TypeWindow, TypeOK
    <3> QED BY <2>1, <3>2, <3>3, <3>4, <3>5, TypePartsNext
  <2>3. CASE ~link
    <3>1. TypeTor' /\ TypeWindow'
      BY <1>3, <2>3 DEF HandleConnected, TypeTor, TypeWindow, TypeOK
    <3> QED BY <1>3, <2>1, <2>3, <3>1, TypesStay, TypePartsNext DEF HandleConnected
  <2> QED BY <2>2, <2>3
<1>4. CASE HandleDisconnected
  <2>1. TypeQueue'
    BY <1>4, Delivering DEF HandleDisconnected, TypeQueue
  <2>2. TypeLists'
    BY <1>4, Clearing DEF HandleDisconnected, TypeLists, TypeOK
  <2>3. TypeTor'
    BY <1>4, Clearing DEF HandleDisconnected, TypeTor, TypeOK
  <2>4. TypeWindow'
    BY <1>4 DEF HandleDisconnected, TypeWindow
  <2> QED BY <1>4, <2>1, <2>2, <2>3, <2>4, TypesStay, TypePartsNext DEF HandleDisconnected
<1> QED BY <1>1, <1>2, <1>3, <1>4 DEF Signal

LEMMA StepTypeOK == TypeOK /\ [Next]_vars => TypeOK'
<1> SUFFICES ASSUME TypeOK, [Next]_vars PROVE TypeOK'
  OBVIOUS
<1>1. CASE TorStep
  <2>1. CASE \E c \in Circuits : CircuitChanges(c, "Absent", "Open") \/ CircuitChanges(c, "Open", Gone)
    <3>1. PICK c \in Circuits : CircuitChanges(c, "Absent", "Open") \/ CircuitChanges(c, "Open", Gone)
      BY <2>1
    <3>2. "Open" \in Told /\ Gone \in Told
      BY DEF Told
    <3>3. TypeTor' /\ TypeQueue' /\ UNCHANGED <<stack, lists, window>>
      BY <3>1, <3>2, CircuitStep
    <3> QED BY <3>3, TypesStay, TypePartsNext
  <2>2. CASE \E x \in Streams, to \in StreamStates : StreamChanges(x, to)
    BY <2>2, StreamStep, TypesStay, TypePartsNext
  <2>3. CASE LinkGoesUp \/ LinkGoesDown
    BY <2>3, LinkStep, TypesStay, TypePartsNext
  <2> QED BY <1>1, <2>1, <2>2, <2>3 DEF TorStep
<1>2. CASE UNCHANGED vars
  BY <1>2, TypesStay, TypePartsNext DEF vars
<1> QED
  BY <1>1, <1>2, LoadStepTypes, TimerStepTypes, RefreshTypes, SignalTypes
     DEF Next, TimerStep, Refresh

------------------------------------------------------------------------------
(* The lists of removals *)

\* RemovalsExist without sets: what is listed where, and that an entry is the only one.
Paths == \A c \in Circuits : c \in plotted <=> ListedCircuit(c)
Placed == \A x \in Streams : ListedStream(x) => under[x].on \in Circuits /\ ListedCircuit(under[x].on)
CircuitsDue ==
    /\ \A i \in DOMAIN circRemovals : ListedCircuit(circRemovals[i])
    /\ \A i, j \in DOMAIN circRemovals : i # j => circRemovals[i] # circRemovals[j]
StreamsDue ==
    /\ \A i \in DOMAIN strmRemovals :
          strmRemovals[i] # Deleted => strmRemovals[i] \in Streams /\ ListedStream(strmRemovals[i])
    /\ \A i, j \in DOMAIN strmRemovals :
          i # j /\ strmRemovals[i] # Deleted => strmRemovals[i] # strmRemovals[j]
Exist == Paths /\ Placed /\ CircuitsDue /\ StreamsDue

LEMMA ExistMeans == TypeOK /\ Exist => RemovalsExist
<1> SUFFICES ASSUME TypeOK, Exist PROVE RemovalsExist
  OBVIOUS
<1>1. plotted = Listed
  BY DEF TypeOK, Exist, Paths, Listed
<1>2. \A x \in Below : under[x].on \in Listed
  BY DEF Exist, Placed, Below, Listed
<1>3. ToSet(circRemovals) \subseteq Listed
  BY ElementOfSeq DEF ToSet, TypeOK, Exist, CircuitsDue, Listed
<1>4. ToSet(strmRemovals) \ {Deleted} \subseteq Below
  BY DEF ToSet, Exist, StreamsDue, Below
<1> QED BY <1>1, <1>2, <1>3, <1>4 DEF RemovalsExist, Exist, CircuitsDue, StreamsDue

\* An item that is scheduled joins a list of others, or is in it.
LEMMA ScheduledOnce ==
    ASSUME NEW S, NEW seq \in Seq(S), NEW x \in S,
           \A i, j \in DOMAIN seq : i # j => seq[i] # seq[j]
    PROVE  \A i, j \in DOMAIN Scheduled(seq, x) :
              i # j => Scheduled(seq, x)[i] # Scheduled(seq, x)[j]
<1>1. CASE Scheduled(seq, x) = seq
  BY <1>1
<1>2. CASE Scheduled(seq, x) = Append(seq, x) /\ \A i \in DOMAIN seq : seq[i] # x
  <2> DEFINE t == Append(seq, x)
             n == Len(seq)
  <2>1. /\ DOMAIN t = 1 .. n + 1 /\ t[n + 1] = x /\ n \in Nat /\ DOMAIN seq = 1 .. n
        /\ \A i \in 1 .. n : t[i] = seq[i]
    BY Pushed
  <2> HIDE DEF t, n
  <2>2. \A i \in 1 .. n + 1 : i = n + 1 \/ i \in 1 .. n
    BY <2>1
  <2> QED BY <1>2, <2>1, <2>2 DEF t
<1>3. \/ Scheduled(seq, x) = seq
      \/ Scheduled(seq, x) = Append(seq, x) /\ \A i \in DOMAIN seq : seq[i] # x
  BY Scheduling
<1> QED BY <1>1, <1>2, <1>3

\* Among others, entries that are Deleted.
LEMMA ScheduledOnceButDeleted ==
    ASSUME NEW S, NEW seq \in Seq(S), NEW x \in S,
           \A i, j \in DOMAIN seq : i # j /\ seq[i] # Deleted => seq[i] # seq[j]
    PROVE  \A i, j \in DOMAIN Scheduled(seq, x) :
              i # j /\ Scheduled(seq, x)[i] # Deleted => Scheduled(seq, x)[i] # Scheduled(seq, x)[j]
<1>1. CASE Scheduled(seq, x) = seq
  BY <1>1
<1>2. CASE Scheduled(seq, x) = Append(seq, x) /\ \A i \in DOMAIN seq : seq[i] # x
  <2> DEFINE t == Append(seq, x)
             n == Len(seq)
  <2>1. /\ DOMAIN t = 1 .. n + 1 /\ t[n + 1] = x /\ n \in Nat /\ DOMAIN seq = 1 .. n
        /\ \A i \in 1 .. n : t[i] = seq[i]
    BY Pushed
  <2> HIDE DEF t, n
  <2>2. \A i \in 1 .. n + 1 : i = n + 1 \/ i \in 1 .. n
    BY <2>1
  <2> QED BY <1>2, <2>1, <2>2 DEF t
<1>3. \/ Scheduled(seq, x) = seq
      \/ Scheduled(seq, x) = Append(seq, x) /\ \A i \in DOMAIN seq : seq[i] # x
  BY Scheduling
<1> QED BY <1>1, <1>2, <1>3

LEMMA ClearedExist == Clear => Exist'
<1> SUFFICES ASSUME Clear PROVE Exist'
  OBVIOUS
<1> QED
  BY Clearing DEF Exist, Paths, Placed, CircuitsDue, StreamsDue, ListedCircuit, ListedStream

LEMMA RemoveCircuitExist == TypeOK /\ Exist /\ RemoveCircuit => Exist'
<1> SUFFICES ASSUME TypeOK, Exist, RemoveCircuit PROVE Exist'
  OBVIOUS
<1>1. CASE circRemovals = <<>>
  <2>1. UNCHANGED <<circuitList, plotted>>
    BY <1>1 DEF RemoveCircuit
  <2> QED
    BY <2>1 DEF circuitList, Exist, Paths, Placed, CircuitsDue, StreamsDue, ListedCircuit, ListedStream
<1>2. CASE circRemovals # <<>>
  <2> DEFINE c == Head(circRemovals)
             gone == StreamsOf(c)
  <2>1. /\ circRemovals' = Tail(circRemovals) /\ shown' = [shown EXCEPT ![c] = "Absent"]
        /\ under' = [x \in Streams |-> IF x \in gone THEN Absent ELSE under[x]]
        /\ strmRemovals' = [i \in DOMAIN strmRemovals |->
                              IF strmRemovals[i] \in gone THEN Deleted ELSE strmRemovals[i]]
        /\ plotted' = plotted \ {c}
    BY <1>2 DEF RemoveCircuit, Unplotted, NullPointers
  <2>2. /\ c = circRemovals[1] /\ c \in Circuits
        /\ 1 \in DOMAIN circRemovals
        /\ \A i \in DOMAIN circRemovals' :
              i + 1 \in DOMAIN circRemovals /\ i + 1 # 1 /\ circRemovals'[i] = circRemovals[i + 1]
        /\ DOMAIN circRemovals' \subseteq Nat
    BY <1>2, <2>1, Dequeued DEF TypeOK
  <2>3. \A x \in Streams : x \in gone <=> ListedStream(x) /\ under[x].on = c
    BY DEF StreamsOf
  <2> HIDE DEF c, gone
  <2>4. \A d \in Circuits : shown'[d] = IF d = c THEN "Absent" ELSE shown[d]
    BY <2>1 DEF TypeOK
  <2>5. Paths'
    BY <2>1, <2>4 DEF Exist, Paths, ListedCircuit
  <2>6. Placed'
    <3>1. ASSUME NEW x \in Streams, under'[x].status # "Absent"
          PROVE  under'[x].on \in Circuits /\ shown'[under'[x].on] # "Absent"
      <4>1. x \notin gone /\ under'[x] = under[x]
        BY <2>1, <3>1 DEF Absent
      <4>2. ListedStream(x) /\ under[x].on # c
        BY <2>3, <3>1, <4>1 DEF ListedStream
      <4> QED BY <2>4, <4>1, <4>2 DEF Exist, Placed, ListedCircuit
    <3> QED BY <3>1 DEF Placed, ListedStream, ListedCircuit
  <2>7. CircuitsDue'
    <3>1. ASSUME NEW i \in DOMAIN circRemovals' PROVE shown'[circRemovals'[i]] # "Absent"
      <4>1. circRemovals'[i] = circRemovals[i + 1] /\ circRemovals[i + 1] # c
        BY <2>2 DEF Exist, CircuitsDue
      <4>2. circRemovals[i + 1] \in Circuits
        BY <2>2, ElementOfSeq DEF TypeOK
      <4> QED BY <2>2, <2>4, <4>1, <4>2 DEF Exist, CircuitsDue, ListedCircuit
    <3>2. ASSUME NEW i \in DOMAIN circRemovals', NEW j \in DOMAIN circRemovals', i # j
          PROVE  circRemovals'[i] # circRemovals'[j]
      <4>1. i + 1 # j + 1 /\ i + 1 \in DOMAIN circRemovals /\ j + 1 \in DOMAIN circRemovals
        BY <2>2, <3>2
      <4> QED BY <2>2, <4>1 DEF Exist, CircuitsDue
    <3> QED BY <3>1, <3>2 DEF CircuitsDue, ListedCircuit
  <2>8. StreamsDue'
    <3>1. ASSUME NEW i \in DOMAIN strmRemovals, strmRemovals'[i] # Deleted
          PROVE  strmRemovals'[i] = strmRemovals[i] /\ strmRemovals[i] \notin gone
      BY <2>1, <3>1
    <3>2. ASSUME NEW i \in DOMAIN strmRemovals, strmRemovals'[i] # Deleted
          PROVE  strmRemovals'[i] \in Streams /\ under'[strmRemovals'[i]].status # "Absent"
      <4>1. strmRemovals[i] \in Streams /\ ListedStream(strmRemovals[i])
        BY <3>1, <3>2 DEF Exist, StreamsDue
      <4> QED BY <2>1, <3>1, <3>2, <4>1 DEF ListedStream
    <3>3. DOMAIN strmRemovals' = DOMAIN strmRemovals
      BY <2>1
    <3>4. ASSUME NEW i \in DOMAIN strmRemovals, NEW j \in DOMAIN strmRemovals, i # j,
                 strmRemovals'[i] # Deleted
          PROVE  strmRemovals'[i] # strmRemovals'[j]
      <4>1. strmRemovals'[i] = strmRemovals[i] /\ strmRemovals[i] # strmRemovals[j]
        BY <3>1, <3>4 DEF Exist, StreamsDue
      <4>2. strmRemovals'[j] = strmRemovals[j] \/ strmRemovals'[j] = Deleted
        BY <2>1
      <4> QED BY <3>4, <4>1, <4>2
    <3> QED BY <3>2, <3>3, <3>4 DEF StreamsDue, ListedStream
  <2> QED BY <2>5, <2>6, <2>7, <2>8 DEF Exist
<1> QED BY <1>1, <1>2

LEMMA RemoveStreamExist == TypeOK /\ Exist /\ RemoveStream => Exist'
<1> SUFFICES ASSUME TypeOK, Exist, RemoveStream PROVE Exist'
  OBVIOUS
<1>1. UNCHANGED <<shown, plotted, circRemovals>>
  BY DEF RemoveStream
<1>2. Paths' /\ CircuitsDue'
  BY <1>1 DEF Exist, Paths, CircuitsDue, ListedCircuit
<1>3. CASE strmRemovals = <<>>
  <2>1. UNCHANGED <<strmRemovals, under>>
    BY <1>3 DEF RemoveStream
  <2> QED BY <1>1, <1>2, <2>1 DEF Exist, Placed, StreamsDue, ListedCircuit, ListedStream
<1>4. CASE strmRemovals # <<>>
  <2> DEFINE x == Head(strmRemovals)
  <2>1. /\ strmRemovals' = Tail(strmRemovals)
        /\ under' = IF x = Deleted THEN under ELSE [under EXCEPT ![x] = Absent]
    BY <1>4 DEF RemoveStream
  <2>2. strmRemovals \in Seq(Streams \cup {Deleted})
    BY DEF TypeOK
  <2>3. /\ x = strmRemovals[1] /\ 1 \in DOMAIN strmRemovals /\ DOMAIN strmRemovals' \subseteq Nat
        /\ \A i \in DOMAIN strmRemovals' : /\ i + 1 \in DOMAIN strmRemovals /\ i + 1 # 1
                                           /\ strmRemovals'[i] = strmRemovals[i + 1]
    BY <1>4, <2>1, <2>2, Dequeued
  <2> HIDE DEF x
  <2>4. \A y \in Streams : under'[y] = IF y = x /\ x # Deleted THEN Absent ELSE under[y]
    BY <2>1 DEF TypeOK
  <2>5. Placed'
    BY <1>1, <2>4 DEF Exist, Placed, ListedStream, ListedCircuit, Absent
  <2>6. StreamsDue'
    <3>1. ASSUME NEW i \in DOMAIN strmRemovals', strmRemovals'[i] # Deleted
          PROVE  strmRemovals'[i] \in Streams /\ under'[strmRemovals'[i]].status # "Absent"
      <4>1. strmRemovals'[i] = strmRemovals[i + 1] /\ strmRemovals[i + 1] # x
        BY <2>3, <3>1 DEF Exist, StreamsDue
      <4>2. strmRemovals[i + 1] \in Streams /\ ListedStream(strmRemovals[i + 1])
        BY <2>3, <3>1, <4>1 DEF Exist, StreamsDue
      <4> QED BY <2>4, <4>1, <4>2 DEF ListedStream
    <3>2. ASSUME NEW i \in DOMAIN strmRemovals', NEW j \in DOMAIN strmRemovals', i # j,
                 strmRemovals'[i] # Deleted
          PROVE  strmRemovals'[i] # strmRemovals'[j]
      <4>1. /\ i + 1 # j + 1 /\ i + 1 \in DOMAIN strmRemovals /\ j + 1 \in DOMAIN strmRemovals
            /\ strmRemovals'[i] = strmRemovals[i + 1] /\ strmRemovals'[j] = strmRemovals[j + 1]
        BY <2>3, <3>2
      <4> QED BY <3>2, <4>1 DEF Exist, StreamsDue
    <3> QED BY <3>1, <3>2 DEF StreamsDue, ListedStream
  <2> QED BY <1>2, <2>5, <2>6 DEF Exist
<1> QED BY <1>3, <1>4

LEMMA HandleCircuitExist == TypeOK /\ Exist /\ HandleCircuit => Exist'
<1> SUFFICES ASSUME TypeOK, Exist, HandleCircuit PROVE Exist'
  OBVIOUS
<1> DEFINE c == Head(queue).id
           st == Head(queue).status
<1>1. c \in Circuits /\ st \in Told /\ UNCHANGED <<under, strmRemovals>>
  BY Delivering DEF HandleCircuit, Msg
<1>2. /\ shown' = [shown EXCEPT ![c] = st] /\ plotted' = plotted \cup {c}
      /\ circRemovals' = IF st = Gone THEN Scheduled(circRemovals, c) ELSE circRemovals
  BY DEF HandleCircuit, AddCircuit, Plotted
<1> HIDE DEF c, st
<1>3. \A d \in Circuits : shown'[d] = IF d = c THEN st ELSE shown[d]
  BY <1>2 DEF TypeOK
<1>4. st # "Absent"
  BY <1>1 DEF Told, Gone
<1>5. Paths'
  BY <1>2, <1>3, <1>4 DEF Exist, Paths, ListedCircuit
<1>6. Placed'
  BY <1>1, <1>3, <1>4 DEF Exist, Placed, ListedCircuit, ListedStream
<1>7. StreamsDue'
  BY <1>1 DEF Exist, StreamsDue, ListedStream
<1>8. CircuitsDue'
  <2>1. \A i \in DOMAIN circRemovals' : circRemovals'[i] \in ToSet(circRemovals) \cup {c}
    <3>1. ToSet(Scheduled(circRemovals, c)) = ToSet(circRemovals) \cup {c}
      BY <1>1, Scheduling DEF TypeOK
    <3>2. ToSet(circRemovals') \subseteq ToSet(circRemovals) \cup {c}
      BY <1>2, <3>1
    <3> QED BY <3>2 DEF ToSet
  <2>2. \A d \in ToSet(circRemovals) \cup {c} : d \in Circuits /\ (d = c \/ ListedCircuit(d))
    <3>1. \A i \in DOMAIN circRemovals : circRemovals[i] \in Circuits
      BY ElementOfSeq DEF TypeOK
    <3> QED BY <1>1, <3>1 DEF ToSet, Exist, CircuitsDue
  <2>3. \A i \in DOMAIN circRemovals' : shown'[circRemovals'[i]] # "Absent"
    BY <1>3, <1>4, <2>1, <2>2 DEF ListedCircuit
  <2>4. \A i, j \in DOMAIN circRemovals' : i # j => circRemovals'[i] # circRemovals'[j]
    BY <1>1, <1>2, ScheduledOnce DEF Exist, CircuitsDue, TypeOK
  <2> QED BY <2>3, <2>4 DEF CircuitsDue, ListedCircuit
<1> QED BY <1>5, <1>6, <1>7, <1>8 DEF Exist

LEMMA HandleStreamExist == TypeOK /\ Exist /\ HandleStream => Exist'
<1> SUFFICES ASSUME TypeOK, Exist, HandleStream PROVE Exist'
  OBVIOUS
<1> DEFINE x == Head(queue).id
           v == [status |-> Head(queue).status, on |-> Head(queue).on]
<1>1. x \in Streams /\ v.status \in Told /\ v.on \in Circuits
  BY Delivering DEF HandleStream, Msg
<1>2. AddStream(x, v) /\ UNCHANGED <<shown, plotted, circRemovals>>
  BY DEF HandleStream
<1> HIDE DEF x, v
<1>3. Paths' /\ CircuitsDue'
  BY <1>2 DEF Exist, Paths, CircuitsDue, ListedCircuit
<1>4. v.status # "Absent"
  BY <1>1 DEF Told, Gone
<1>5. /\ \A y \in Streams : y # x => under'[y] = under[y]
      /\ ListedStream(x) => under'[x].status = v.status /\ under'[x].on = under[x].on
      /\ ~ListedStream(x) => \/ under'[x] = under[x]
                             \/ under'[x] = v /\ ListedCircuit(v.on)
  <2>1. under' = StreamListed(x, v) /\ under[x] \in States
    BY <1>1, <1>2 DEF AddStream, TypeOK
  <2>2. CASE ListedStream(x)
    <3>1. under[x] \in [status : Told, on : Circuits]
      BY <2>1, <2>2 DEF ListedStream, States, Absent
    <3>2. under' = [under EXCEPT ![x] = [under[x] EXCEPT !.status = v.status]]
      BY <2>1, <2>2 DEF StreamListed
    <3>3. under'[x] = [under[x] EXCEPT !.status = v.status]
      BY <1>1, <3>2 DEF TypeOK
    <3>4. \A y \in Streams : y # x => under'[y] = under[y]
      BY <1>1, <3>2 DEF TypeOK
    <3> QED BY <2>2, <3>1, <3>3, <3>4
  <2>3. CASE ~ListedStream(x)
    BY <1>1, <1>2, <2>1, <2>3 DEF StreamListed, TypeOK, ListedCircuit
  <2> QED BY <2>2, <2>3
<1>6. \A y \in Streams : ListedStream(y) => under'[y].status # "Absent" /\ under'[y].on = under[y].on
  BY <1>4, <1>5 DEF ListedStream
<1>7. Placed'
  <2>1. ASSUME NEW y \in Streams, under'[y].status # "Absent"
        PROVE  under'[y].on \in Circuits /\ ListedCircuit(under'[y].on)
    BY <1>1, <1>5, <2>1 DEF Exist, Placed, ListedStream
  <2> QED BY <1>2, <2>1 DEF Placed, ListedStream, ListedCircuit
<1>8. StreamsDue'
  <2>1. CASE strmRemovals' = strmRemovals
    BY <1>6, <2>1 DEF Exist, StreamsDue, ListedStream
  <2>2. CASE strmRemovals' = Scheduled(strmRemovals, x) /\ ListedStream(x)
    <3>1. strmRemovals \in Seq(Streams \cup {Deleted}) /\ x \in Streams \cup {Deleted}
      BY <1>1 DEF TypeOK
    <3>2. ToSet(Scheduled(strmRemovals, x)) = ToSet(strmRemovals) \cup {x}
      BY <3>1, Scheduling
    <3>3. \A i \in DOMAIN strmRemovals' : strmRemovals'[i] \in ToSet(strmRemovals) \cup {x}
      BY <2>2, <3>2 DEF ToSet
    <3>4. \A y \in ToSet(strmRemovals) \cup {x} :
             y # Deleted => y \in Streams /\ ListedStream(y)
      BY <1>1, <2>2 DEF ToSet, Exist, StreamsDue
    <3>5. \A i \in DOMAIN strmRemovals' : strmRemovals'[i] # Deleted =>
             strmRemovals'[i] \in Streams /\ under'[strmRemovals'[i]].status # "Absent"
      BY <1>6, <3>3, <3>4
    <3>6. \A i, j \in DOMAIN strmRemovals' :
             i # j /\ strmRemovals'[i] # Deleted => strmRemovals'[i] # strmRemovals'[j]
      BY <2>2, <3>1, ScheduledOnceButDeleted DEF Exist, StreamsDue
    <3> QED BY <3>5, <3>6 DEF StreamsDue, ListedStream
  <2> QED BY <1>2, <2>1, <2>2 DEF AddStream
<1> QED BY <1>3, <1>7, <1>8 DEF Exist

LEMMA LoadExist == TypeOK /\ Exist /\ LoadStep => Exist'
<1> SUFFICES ASSUME TypeOK, Exist, LoadStep PROVE Exist'
  OBVIOUS
<1>1. CASE NextRelay
  BY <1>1 DEF NextRelay, circuitList, Exist, Paths, Placed, CircuitsDue, StreamsDue,
              ListedCircuit, ListedStream
<1>2. CASE LoadCircuits
  <2>1. PICK told \in Replies(CircuitsTold) :
           /\ shown' = [c \in Circuits |-> IF c \in told THEN "Open" ELSE shown[c]]
           /\ plotted' = plotted \cup told
    BY <1>2 DEF LoadCircuits, Plotted
  <2>2. told \subseteq Circuits
    BY <2>1 DEF Replies, CircuitsTold
  <2>3. UNCHANGED <<under, circRemovals, strmRemovals>>
    BY <1>2 DEF LoadCircuits
  <2>4. \A c \in Circuits : shown'[c] = IF c \in told THEN "Open" ELSE shown[c]
    BY <2>1
  <2>5. Paths'
    BY <2>1, <2>2, <2>4 DEF Exist, Paths, ListedCircuit
  <2>6. Placed'
    BY <2>3, <2>4 DEF Exist, Placed, ListedCircuit, ListedStream
  <2>7. CircuitsDue'
    <3>1. \A i \in DOMAIN circRemovals : circRemovals[i] \in Circuits
      BY ElementOfSeq DEF TypeOK
    <3> QED BY <2>3, <2>4, <3>1 DEF Exist, CircuitsDue, ListedCircuit
  <2>8. StreamsDue'
    BY <2>3 DEF Exist, StreamsDue, ListedStream
  <2> QED BY <2>5, <2>6, <2>7, <2>8 DEF Exist
<1>3. CASE LoadStreams
  <2>1. UNCHANGED <<shown, plotted, circRemovals, strmRemovals>>
    BY <1>3 DEF LoadStreams
  <2>2. ASSUME NEW x \in Streams
        PROVE  \/ under'[x] = under[x]
               \/ /\ ListedStream(x) /\ under'[x].status = "Open" /\ under'[x].on = under[x].on
               \/ /\ ~ListedStream(x)
                  /\ \/ under'[x].status = "Absent"
                     \/ under'[x].on \in Circuits /\ ListedCircuit(under'[x].on)
    <3>1. under'[x] = IF x \in StreamsTold
                      THEN IF ListedStream(x) THEN [under[x] EXCEPT !.status = "Open"]
                           ELSE IF ListedCircuit(strm[x].on) THEN strm[x] ELSE Absent
                      ELSE under[x]
      BY <1>3 DEF LoadStreams
    <3>2. under[x] \in States /\ strm[x] \in States
      BY DEF TypeOK
    <3>3. CASE x \in StreamsTold /\ ListedStream(x)
      <4>1. under[x] \in [status : Told, on : Circuits]
        BY <3>2, <3>3 DEF ListedStream, States, Absent
      <4> QED BY <3>1, <3>3, <4>1
    <3>4. CASE x \in StreamsTold /\ ~ListedStream(x)
      <4>1. strm[x] \in [status : Told, on : Circuits]
        BY <3>2, <3>4 DEF StreamsTold, States, Absent
      <4> QED BY <3>1, <3>4, <4>1 DEF Absent
    <3>5. CASE x \notin StreamsTold
      BY <3>1, <3>5
    <3> QED BY <3>3, <3>4, <3>5
  <2>3. Paths' /\ CircuitsDue'
    BY <2>1 DEF Exist, Paths, CircuitsDue, ListedCircuit
  <2>4. Placed'
    <3>1. ASSUME NEW x \in Streams, under'[x].status # "Absent"
          PROVE  under'[x].on \in Circuits /\ ListedCircuit(under'[x].on)
      BY <2>2, <3>1 DEF Exist, Placed, ListedStream
    <3> QED BY <2>1, <3>1 DEF Placed, ListedStream, ListedCircuit
  <2>5. StreamsDue'
    <3>1. \A x \in Streams : ListedStream(x) => under'[x].status # "Absent"
      BY <2>2 DEF ListedStream
    <3> QED BY <2>1, <3>1 DEF Exist, StreamsDue, ListedStream
  <2> QED BY <2>3, <2>4, <2>5 DEF Exist
<1> QED BY <1>1, <1>2, <1>3 DEF LoadStep

LEMMA StepExist == TypeOK /\ Exist /\ [Next]_vars => Exist'
<1> SUFFICES ASSUME TypeOK, Exist, [Next]_vars PROVE Exist'
  OBVIOUS
<1>1. ASSUME UNCHANGED lists PROVE Exist'
  BY <1>1 DEF lists, circuitList, Exist, Paths, Placed, CircuitsDue, StreamsDue,
              ListedCircuit, ListedStream
<1>2. CASE TorStep
  <2>1. ASSUME NEW c, NEW from, NEW to, CircuitChanges(c, from, to) PROVE UNCHANGED lists
    BY <2>1 DEF CircuitChanges
  <2>2. ASSUME NEW x, NEW to, StreamChanges(x, to) PROVE UNCHANGED lists
    BY <2>2 DEF StreamChanges
  <2>3. LinkGoesUp \/ LinkGoesDown => UNCHANGED lists
    BY DEF LinkGoesUp, LinkGoesDown
  <2>4. UNCHANGED lists
    BY <1>2, <2>1, <2>2, <2>3 DEF TorStep
  <2> QED BY <1>1, <2>4
<1>3. CASE Subscribe
  BY <1>1, <1>3 DEF Subscribe
<1>4. CASE RefreshClicked \/ RefreshTimeout
  BY <1>4, RefreshTypes, ClearedExist
<1>5. CASE HandleConnected
  <2>1. CASE link
    BY <1>5, <2>1, ClearedExist DEF HandleConnected
  <2>2. CASE ~link
    BY <1>1, <1>5, <2>2 DEF HandleConnected
  <2> QED BY <2>1, <2>2
<1>6. CASE HandleDisconnected
  BY <1>6, ClearedExist DEF HandleDisconnected
<1>7. CASE UNCHANGED vars
  BY <1>1, <1>7 DEF vars
<1> QED
  BY <1>2, <1>3, <1>4, <1>5, <1>6, <1>7, LoadExist, RemoveCircuitExist, RemoveStreamExist,
     HandleCircuitExist, HandleStreamExist
     DEF Next, TimerStep, Refresh, Signal

LEMMA InitExist == Init => Exist
BY DEF Init, Exist, Paths, Placed, CircuitsDue, StreamsDue, ListedCircuit, ListedStream, Absent

\* The state has its types: a message, a suspended slot and an item are what the handlers take
\* them for.
THEOREM NetworkTypeCorrect == Spec => []TypeOK
BY InitTypeOK, StepTypeOK, PTL DEF Spec

\* removeCircuit() and removeStream() take pointers from their lists that are still good,
\* whatever has been cleared, deleted with its circuit or refreshed since they were put
\* there, and the paths of the map are those of the circuits in the list.
THEOREM RemovalsAreSafe == Spec => []RemovalsExist
BY InitTypeOK, StepTypeOK, InitExist, StepExist, ExistMeans, PTL DEF Spec

------------------------------------------------------------------------------
(* What is on its way *)

LEMMA Appending ==
    ASSUME TypeOK, NEW m \in Msg, queue' = Append(queue, m), NEW n, n = Len(queue)
    PROVE  /\ n \in Nat /\ DOMAIN queue = 1 .. n /\ DOMAIN queue' = 1 .. n + 1
           /\ queue'[n + 1] = m /\ n + 1 \in 1 .. n + 1
           /\ \A i \in 1 .. n : queue'[i] = queue[i] /\ i \in 1 .. n + 1 /\ i < n + 1
           /\ \A i \in 1 .. n + 1 : i = n + 1 \/ i \in 1 .. n
<1>1. /\ n \in Nat /\ DOMAIN queue = 1 .. n /\ DOMAIN queue' = 1 .. n + 1 /\ queue'[n + 1] = m
      /\ \A i \in 1 .. n : queue'[i] = queue[i]
  BY Pushed DEF TypeOK
<1> QED BY <1>1

LEMMA AppendedSignal ==
    ASSUME TypeOK, NEW m \in Msg, queue' = Append(queue, m), NEW n, n = Len(queue)
    PROVE  /\ \A i \in Nat : Current(i)' => Current(i)
           /\ m.kind = "disconnected" => \A i \in 0 .. n : ~Current(i)'
           /\ \A c, i : Says(c, i)' => i = n + 1 \/ (i \in 1 .. n /\ Says(c, i))
           /\ \A c : Says(c, n + 1)' <=> m.kind = "circ" /\ m.id = c
           /\ \A c, i : Says(c, i) => Says(c, i)'
           /\ \A c, i : IsLastWord(c, i)' /\ Says(c, i) => IsLastWord(c, i) /\ ~Says(c, n + 1)'
<1>1. /\ n \in Nat /\ DOMAIN queue = 1 .. n /\ DOMAIN queue' = 1 .. n + 1
      /\ queue'[n + 1] = m /\ n + 1 \in 1 .. n + 1
      /\ \A i \in 1 .. n : queue'[i] = queue[i] /\ i \in 1 .. n + 1 /\ i < n + 1
      /\ \A i \in 1 .. n + 1 : i = n + 1 \/ i \in 1 .. n
  BY Appending
<1>2. \A i \in Nat : Current(i)' => Current(i)
  BY <1>1 DEF Current
<1>3. m.kind = "disconnected" => \A i \in 0 .. n : ~Current(i)'
  BY <1>1 DEF Current
<1>4. \A c, i : Says(c, i)' => i = n + 1 \/ (i \in 1 .. n /\ Says(c, i))
  BY <1>1 DEF Says
<1>5. \A c : Says(c, n + 1)' <=> m.kind = "circ" /\ m.id = c
  BY <1>1 DEF Says
<1>6. \A c, i : Says(c, i) => Says(c, i)'
  BY <1>1 DEF Says
<1>7. ASSUME NEW c, NEW i, IsLastWord(c, i)', Says(c, i)
      PROVE  IsLastWord(c, i) /\ ~Says(c, n + 1)'
  <2>1. i \in 1 .. n
    BY <1>1, <1>7 DEF Says
  <2>2. ~Says(c, n + 1)'
    BY <1>1, <1>7, <2>1 DEF IsLastWord
  <2>3. ASSUME NEW j \in DOMAIN queue, j > i PROVE ~Says(c, j)
    BY <1>1, <1>6, <1>7, <2>3 DEF IsLastWord
  <2> QED BY <1>7, <2>2, <2>3 DEF IsLastWord
<1> QED BY <1>2, <1>3, <1>4, <1>5, <1>6, <1>7

LEMMA DeliveredSignal ==
    ASSUME TypeOK, NEW k, Delivered(k)
    PROVE  /\ \A i \in Nat : Current(i)' => Current(i + 1)
           /\ k # "disconnected" /\ Current(0)' => Current(0)
           /\ \A c, i : Says(c, i)' => i \in Nat /\ i # 0 /\ Says(c, i + 1)
                                       /\ queue'[i] = queue[i + 1]
           /\ \A c, i : Says(c, i) /\ i # 1 => Says(c, i - 1)'
           /\ \A c, i : IsLastWord(c, i)' => IsLastWord(c, i + 1)
<1> DEFINE n == Len(queue)
<1>1. /\ n \in Nat /\ 1 <= n /\ DOMAIN queue = 1 .. n /\ DOMAIN queue' = 1 .. n - 1
      /\ queue[1].kind = k /\ \A i \in 1 .. n - 1 : queue'[i] = queue[i + 1]
  BY Delivering
<1> HIDE DEF n
<1>2. \A j \in 1 .. n : j = 1 \/ (j - 1 \in 1 .. n - 1 /\ queue'[j - 1] = queue[j])
  BY <1>1
<1>3. \A j \in 1 .. n - 1 : j + 1 \in 1 .. n /\ j + 1 # 1
  BY <1>1
<1>4. \A i \in Nat : Current(i)' => Current(i + 1)
  <2> SUFFICES ASSUME NEW i \in Nat, Current(i)', NEW j \in 1 .. n, j > i + 1
               PROVE  queue[j].kind # "disconnected"
    BY <1>1 DEF Current
  <2>1. j # 1 /\ j - 1 > i
    BY <1>1
  <2> QED BY <1>1, <1>2, <2>1 DEF Current
<1>5. k # "disconnected" /\ Current(0)' => Current(0)
  <2> SUFFICES ASSUME k # "disconnected", Current(0)', NEW j \in 1 .. n
               PROVE  queue[j].kind # "disconnected"
    BY <1>1 DEF Current
  <2>1. CASE j = 1
    BY <1>1, <2>1
  <2>2. CASE j # 1
    <3>1. j - 1 \in 1 .. n - 1 /\ j - 1 > 0 /\ queue'[j - 1] = queue[j]
      BY <1>1, <1>2, <2>2
    <3> QED BY <1>1, <3>1 DEF Current
  <2> QED BY <2>1, <2>2
<1>6. \A c, i : Says(c, i)' => i \in Nat /\ i # 0 /\ Says(c, i + 1) /\ queue'[i] = queue[i + 1]
  BY <1>1, <1>3 DEF Says
<1>7. \A c, i : Says(c, i) /\ i # 1 => Says(c, i - 1)'
  BY <1>1, <1>2 DEF Says
<1>8. ASSUME NEW c, NEW i, IsLastWord(c, i)' PROVE IsLastWord(c, i + 1)
  <2>1. i \in Nat /\ Says(c, i + 1)
    BY <1>6, <1>8 DEF IsLastWord
  <2>2. ASSUME NEW j \in 1 .. n, j > i + 1, Says(c, j) PROVE FALSE
    <3>1. j # 1 /\ j - 1 > i /\ j - 1 \in 1 .. n - 1
      BY <1>1, <2>1, <2>2
    <3>2. Says(c, j - 1)'
      BY <1>7, <2>2, <3>1
    <3> QED BY <1>1, <1>8, <3>1, <3>2 DEF IsLastWord
  <2> QED BY <1>1, <2>1, <2>2 DEF IsLastWord
<1> QED BY <1>4, <1>5, <1>6, <1>7, <1>8

\* Tor's steps, of which all but the loss of a connection are told as they are.
LEMMA TorStepIs ==
    ASSUME TypeOK, TorStep
    PROVE  /\ UNCHANGED <<stack, lists, window>>
           /\ \/ /\ UNCHANGED <<link, authed, subscribed>>
                 /\ \E c \in Circuits, to \in Told :
                       /\ circ[c] # Gone /\ circ' = [circ EXCEPT ![c] = to]
                       /\ \/ ~subscribed /\ UNCHANGED queue /\ missed' = missed \cup {c}
                          \/ /\ subscribed /\ UNCHANGED missed
                             /\ queue' = Append(queue, [kind |-> "circ", id |-> c, status |-> to])
              \/ /\ UNCHANGED <<link, authed, subscribed, circ, missed>>
                 /\ \/ UNCHANGED queue
                    \/ subscribed /\ \E m \in Msg : m.kind = "strm" /\ queue' = Append(queue, m)
              \/ /\ ~link /\ link' /\ UNCHANGED <<authed, subscribed, circ, missed>>
                 /\ \E m \in Msg : m.kind = "connected" /\ queue' = Append(queue, m)
              \/ /\ link /\ ~link' /\ ~authed' /\ ~subscribed'
                 /\ \E m \in Msg : m.kind = "disconnected" /\ queue' = Append(queue, m)
<1>1. CASE \E c \in Circuits : CircuitChanges(c, "Absent", "Open") \/ CircuitChanges(c, "Open", Gone)
  <2>1. PICK c \in Circuits : CircuitChanges(c, "Absent", "Open") \/ CircuitChanges(c, "Open", Gone)
    BY <1>1
  <2>2. PICK to \in Told, from \in {"Absent", "Open"} : CircuitChanges(c, from, to)
    BY <2>1 DEF Told
  <2>3. circ[c] # Gone
    BY <2>2, CircuitStep DEF Gone
  <2> QED BY <2>2, <2>3, CircuitStep
<1>2. CASE \E x \in Streams, to \in StreamStates : StreamChanges(x, to)
  BY <1>2, StreamStep
<1>3. CASE LinkGoesUp
  <2>1. ~link /\ link' /\ UNCHANGED <<authed, subscribed, circ, missed>>
    BY <1>3 DEF LinkGoesUp
  <2> QED BY <1>3, <2>1, LinkStep
<1>4. CASE LinkGoesDown
  <2>1. link /\ ~link' /\ ~authed' /\ ~subscribed'
    BY <1>4 DEF LinkGoesDown
  <2> QED BY <1>4, <2>1, LinkStep
<1> QED BY <1>1, <1>2, <1>3, <1>4 DEF TorStep

\* The steps of the window other than the handling of a signal: they send none, and change
\* neither Tor nor its connection.
Local == LoadStep \/ Subscribe \/ RemoveCircuit \/ RemoveStream \/ RefreshClicked \/ RefreshTimeout

LEMMA LocalIs ==
    ASSUME TypeOK, Local
    PROVE  /\ UNCHANGED <<queue, link, authed, circ>>
           /\ UNCHANGED subscribed \/ subscribed' = authed
<1>1. CASE LoadStep
  BY <1>1 DEF LoadStep, NextRelay, LoadCircuits, LoadStreams, tor
<1>2. CASE Subscribe
  BY <1>2 DEF Subscribe
<1>3. CASE RemoveCircuit \/ RemoveStream
  BY <1>3 DEF RemoveCircuit, RemoveStream, tor
<1>4. CASE RefreshClicked \/ RefreshTimeout
  BY <1>4, RefreshTypes
<1> QED BY <1>1, <1>2, <1>3, <1>4 DEF Local

LEMMA SignalIs ==
    ASSUME TypeOK, Signal
    PROVE  /\ \E k : Delivered(k)
           /\ UNCHANGED <<link, subscribed, circ>>
           /\ UNCHANGED authed \/ authed' = link
<1>1. CASE HandleCircuit
  BY <1>1 DEF HandleCircuit, tor
<1>2. CASE HandleStream
  BY <1>2 DEF HandleStream, tor
<1>3. CASE HandleConnected
  BY <1>3 DEF HandleConnected
<1>4. CASE HandleDisconnected
  BY <1>4 DEF HandleDisconnected
<1> QED BY <1>1, <1>2, <1>3, <1>4 DEF Signal

LEMMA NextIs == Next <=> TorStep \/ Subscribe \/ (InEventLoop /\ (RemoveCircuit \/ RemoveStream))
                           \/ LoadStep \/ (InEventLoop /\ (RefreshClicked \/ RefreshTimeout))
                           \/ (InEventLoop /\ Signal)
BY DEF Next, TimerStep, Refresh

LEMMA NextCases == [Next]_vars => TorStep \/ Local \/ Signal \/ UNCHANGED vars
BY NextIs DEF Local

\* A loss that is followed by another connection.
LEMMA StepNextIsTold == TypeOK /\ NextIsTold /\ [Next]_vars => NextIsTold'
<1> SUFFICES ASSUME TypeOK, NextIsTold, [Next]_vars PROVE NextIsTold'
  OBVIOUS
<1>1. ASSUME UNCHANGED <<queue, link>> PROVE NextIsTold'
  BY <1>1 DEF NextIsTold
<1>2. CASE TorStep
  <2>1. ASSUME NEW m \in Msg, queue' = Append(queue, m), link' => m.kind = "connected" \/ link,
               link' => m.kind # "disconnected"
        PROVE  NextIsTold'
    <3>1. PICK n : n = Len(queue)
      OBVIOUS
    <3>2. /\ n \in Nat /\ DOMAIN queue = 1 .. n /\ DOMAIN queue' = 1 .. n + 1
          /\ queue'[n + 1] = m /\ n + 1 \in 1 .. n + 1
          /\ \A i \in 1 .. n : queue'[i] = queue[i] /\ i \in 1 .. n + 1 /\ i < n + 1
          /\ \A i \in 1 .. n + 1 : i = n + 1 \/ i \in 1 .. n
      BY <2>1, <3>1, Appending
    <3>3. ASSUME link', NEW i \in 1 .. n + 1, queue'[i].kind = "disconnected"
          PROVE  \E j \in 1 .. n + 1 : j > i /\ queue'[j].kind = "connected"
      <4>1. i \in 1 .. n /\ queue[i].kind = "disconnected"
        BY <2>1, <3>2, <3>3
      <4>2. CASE m.kind = "connected"
        BY <3>2, <4>1, <4>2
      <4>3. CASE link
        <5>1. PICK j \in 1 .. n : j > i /\ queue[j].kind = "connected"
          BY <3>2, <4>1, <4>3 DEF NextIsTold
        <5> QED BY <3>2, <5>1
      <4> QED BY <2>1, <3>3, <4>2, <4>3
    <3> QED BY <3>2, <3>3 DEF NextIsTold
  <2>2. ASSUME NEW c \in Circuits, NEW to \in Told, UNCHANGED link,
               queue' = Append(queue, [kind |-> "circ", id |-> c, status |-> to])
        PROVE  NextIsTold'
    <3> DEFINE m == [kind |-> "circ", id |-> c, status |-> to]
    <3>1. m \in Msg /\ m.kind = "circ" /\ queue' = Append(queue, m)
      BY <2>2 DEF Msg
    <3> HIDE DEF m
    <3> QED BY <2>1, <2>2, <3>1
  <2>3. CASE UNCHANGED <<queue, link>>
    BY <1>1, <2>3
  <2>4. ASSUME NEW m \in Msg, queue' = Append(queue, m),
               \/ m.kind = "strm" /\ UNCHANGED link
               \/ m.kind = "connected"
               \/ m.kind = "disconnected" /\ ~link'
        PROVE  NextIsTold'
    BY <2>1, <2>4
  <2> QED BY <1>2, <2>2, <2>3, <2>4, TorStepIs
<1>3. CASE Local
  BY <1>1, <1>3, LocalIs
<1>4. CASE Signal
  <2>1. PICK k : Delivered(k) /\ UNCHANGED link
    BY <1>4, SignalIs
  <2> DEFINE n == Len(queue)
  <2>2. /\ n \in Nat /\ 1 <= n /\ DOMAIN queue = 1 .. n /\ DOMAIN queue' = 1 .. n - 1
        /\ \A i \in 1 .. n - 1 : queue'[i] = queue[i + 1]
    BY <2>1, Delivering
  <2> HIDE DEF n
  <2>3. ASSUME link, NEW i \in 1 .. n - 1, queue'[i].kind = "disconnected"
        PROVE  \E j \in 1 .. n - 1 : j > i /\ queue'[j].kind = "connected"
    <3>1. i + 1 \in 1 .. n /\ queue[i + 1].kind = "disconnected"
      BY <2>2, <2>3
    <3>2. PICK j \in 1 .. n : j > i + 1 /\ queue[j].kind = "connected"
      BY <2>2, <2>3, <3>1 DEF NextIsTold
    <3>3. j - 1 \in 1 .. n - 1 /\ j - 1 > i /\ (j - 1) + 1 = j
      BY <2>2, <3>2
    <3> QED BY <2>2, <3>2, <3>3
  <2> QED BY <2>1, <2>2, <2>3 DEF NextIsTold
<1>5. CASE UNCHANGED vars
  BY <1>1, <1>5 DEF vars, tor
<1> QED BY <1>2, <1>3, <1>4, <1>5, NextCases

LEMMA StepWordsAreTrue == TypeOK /\ LossIsTold /\ WordsAreTrue /\ [Next]_vars => WordsAreTrue'
<1> SUFFICES ASSUME TypeOK, LossIsTold, WordsAreTrue, [Next]_vars PROVE WordsAreTrue'
  OBVIOUS
<1>1. ASSUME UNCHANGED <<queue, circ>>, subscribed => subscribed' PROVE WordsAreTrue'
  BY <1>1 DEF WordsAreTrue, Current, IsLastWord, Says
<1>2. CASE TorStep
  <2>1. ASSUME NEW c \in Circuits, NEW to \in Told, circ[c] # Gone,
               circ' = [circ EXCEPT ![c] = to], UNCHANGED subscribed,
               \/ ~subscribed /\ UNCHANGED queue
               \/ /\ subscribed
                  /\ queue' = Append(queue, [kind |-> "circ", id |-> c, status |-> to])
        PROVE  WordsAreTrue'
    <3>0. \A d \in Circuits : circ'[d] = IF d = c THEN to ELSE circ[d]
      BY <2>1 DEF TypeOK
    <3>1. CASE ~subscribed
      <4>1. UNCHANGED queue
        BY <2>1, <3>1
      <4> QED BY <3>1, <4>1 DEF WordsAreTrue, Current, Says
    <3>2. CASE subscribed
      <4> DEFINE m == [kind |-> "circ", id |-> c, status |-> to]
      <4>1. m \in Msg /\ m.kind = "circ" /\ m.id = c /\ m.status = to /\ queue' = Append(queue, m)
        BY <2>1, <3>2 DEF Msg
      <4> HIDE DEF m
      <4>2. PICK n : n = Len(queue)
        OBVIOUS
      <4>3. /\ n \in Nat /\ DOMAIN queue = 1 .. n /\ DOMAIN queue' = 1 .. n + 1 /\ queue'[n + 1] = m
            /\ \A i \in 1 .. n : queue'[i] = queue[i]
        BY <4>1, <4>2, Appending
      <4>4. /\ \A i \in Nat : Current(i)' => Current(i)
            /\ \A d, i : Says(d, i)' => i = n + 1 \/ (i \in 1 .. n /\ Says(d, i))
            /\ \A d : Says(d, n + 1)' <=> d = c
            /\ \A d, i : IsLastWord(d, i)' /\ Says(d, i) => IsLastWord(d, i) /\ ~Says(d, n + 1)'
        BY <4>1, <4>2, AppendedSignal
      <4>5. ASSUME NEW i \in 1 .. n + 1, NEW d \in Circuits, Current(i)', Says(d, i)'
            PROVE  /\ queue'[i].status = Gone => circ'[d] = Gone
                   /\ IsLastWord(d, i)' => queue'[i].status = circ'[d]
        <5>1. CASE i = n + 1
          BY <3>0, <4>1, <4>3, <4>4, <4>5, <5>1
        <5>2. CASE i \in 1 .. n /\ Says(d, i)
          <6>1. Current(i) /\ queue'[i] = queue[i] /\ i \in Nat
            BY <4>3, <4>4, <4>5, <5>2
          <6>2. /\ queue[i].status = Gone => circ[d] = Gone
                /\ IsLastWord(d, i) => queue[i].status = circ[d]
            BY <4>3, <5>2, <6>1 DEF WordsAreTrue
          <6>3. queue'[i].status = Gone => circ'[d] = Gone
            BY <2>1, <3>0, <6>1, <6>2
          <6>4. IsLastWord(d, i)' => queue'[i].status = circ'[d]
            BY <3>0, <4>4, <5>2, <6>1, <6>2
          <6> QED BY <6>3, <6>4
        <5> QED BY <4>4, <4>5, <5>1, <5>2
      <4> QED BY <2>1, <3>2, <4>3, <4>5 DEF WordsAreTrue
    <3> QED BY <3>1, <3>2
  <2>2. ASSUME NEW m \in Msg, queue' = Append(queue, m), m.kind # "circ",
               m.kind = "disconnected" \/ UNCHANGED <<circ, subscribed>>
        PROVE  WordsAreTrue'
    <3>1. PICK n : n = Len(queue)
      OBVIOUS
    <3>2. /\ n \in Nat /\ DOMAIN queue = 1 .. n /\ DOMAIN queue' = 1 .. n + 1
          /\ \A i \in 1 .. n : queue'[i] = queue[i]
      BY <2>2, <3>1, Appending
    <3>3. /\ \A i \in Nat : Current(i)' => Current(i)
          /\ m.kind = "disconnected" => \A i \in 0 .. n : ~Current(i)'
          /\ \A c, i : Says(c, i)' => i \in 1 .. n /\ Says(c, i)
          /\ \A c, i : IsLastWord(c, i)' /\ Says(c, i) => IsLastWord(c, i)
      <4>1. \A c : ~Says(c, n + 1)'
        BY <2>2, <3>1, AppendedSignal
      <4> QED BY <2>2, <3>1, <4>1, AppendedSignal
    <3>4. ASSUME NEW i \in 1 .. n + 1, NEW c \in Circuits, Current(i)', Says(c, i)'
          PROVE  /\ subscribed'
                 /\ queue'[i].status = Gone => circ'[c] = Gone
                 /\ IsLastWord(c, i)' => queue'[i].status = circ'[c]
      <4>1. i \in 1 .. n /\ i \in 0 .. n /\ i \in Nat /\ Says(c, i) /\ Current(i)
        BY <3>2, <3>3, <3>4
      <4>2. UNCHANGED <<circ, subscribed>> /\ queue'[i] = queue[i]
        BY <2>2, <3>2, <3>3, <3>4, <4>1
      <4>3. /\ subscribed /\ queue[i].status = Gone => circ[c] = Gone
            /\ IsLastWord(c, i) => queue[i].status = circ[c]
        BY <3>2, <4>1 DEF WordsAreTrue
      <4>4. subscribed
        BY <3>2, <4>1 DEF WordsAreTrue
      <4> QED BY <3>3, <4>1, <4>2, <4>3, <4>4
    <3> QED BY <3>2, <3>4 DEF WordsAreTrue
  <2>3. UNCHANGED <<queue, circ, subscribed>> => WordsAreTrue'
    BY <1>1
  <2> QED BY <1>2, <2>1, <2>2, <2>3, TorStepIs
<1>3. CASE Local
  BY <1>1, <1>3, LocalIs DEF LossIsTold
<1>4. CASE Signal
  <2>1. PICK k : Delivered(k) /\ UNCHANGED <<subscribed, circ>>
    BY <1>4, SignalIs
  <2>2. /\ \A i \in Nat : Current(i)' => Current(i + 1)
        /\ \A c, i : Says(c, i)' => i \in Nat /\ i # 0 /\ Says(c, i + 1)
                                    /\ queue'[i] = queue[i + 1]
        /\ \A c, i : IsLastWord(c, i)' => IsLastWord(c, i + 1)
    BY <2>1, DeliveredSignal
  <2>3. ASSUME NEW i, NEW c \in Circuits, Current(i)', Says(c, i)'
        PROVE  /\ subscribed'
               /\ queue'[i].status = Gone => circ'[c] = Gone
               /\ IsLastWord(c, i)' => queue'[i].status = circ'[c]
    <3>1. Says(c, i + 1) /\ Current(i + 1) /\ queue'[i] = queue[i + 1] /\ i + 1 \in DOMAIN queue
      BY <2>2, <2>3 DEF Says
    <3>2. /\ subscribed
          /\ queue[i + 1].status = Gone => circ[c] = Gone
          /\ IsLastWord(c, i + 1) => queue[i + 1].status = circ[c]
      BY <3>1 DEF WordsAreTrue
    <3> QED BY <2>1, <2>2, <3>1, <3>2
  <2> QED BY <2>3 DEF WordsAreTrue
<1>5. CASE UNCHANGED vars
  BY <1>1, <1>5 DEF vars, tor
<1> QED BY <1>2, <1>3, <1>4, <1>5, NextCases

\* Without an authenticated connection nothing is loaded into empty lists.
LEMMA NothingLoaded ==
    ASSUME TypeOK, ~authed, NoneListed, Local
    PROVE  NoneListed'
<1>1. CASE NextRelay
  BY <1>1 DEF NextRelay, circuitList, NoneListed, ListedCircuit, ListedStream
<1>2. CASE LoadCircuits
  <2>1. shown' = [c \in Circuits |-> IF c \in {} THEN "Open" ELSE shown[c]]
    BY <1>2 DEF LoadCircuits, Replies
  <2> QED BY <1>2, <2>1 DEF LoadCircuits, NoneListed, ListedCircuit, ListedStream
<1>3. CASE LoadStreams
  <2>1. StreamsTold = {}
    BY DEF StreamsTold
  <2>2. \A x \in Streams : under'[x] = under[x]
    BY <1>3, <2>1 DEF LoadStreams
  <2> QED BY <1>3, <2>2 DEF LoadStreams, NoneListed, ListedCircuit, ListedStream
<1>4. CASE Subscribe
  BY <1>4 DEF Subscribe, lists, circuitList, NoneListed, ListedCircuit, ListedStream
<1>5. CASE RemoveCircuit
  <2>1. relays' = relays
    BY <1>5 DEF RemoveCircuit
  <2>2. CASE circRemovals = <<>>
    BY <1>5, <2>1, <2>2 DEF RemoveCircuit, circuitList, NoneListed, ListedCircuit, ListedStream
  <2>3. CASE circRemovals # <<>>
    <3>1. \A c \in Circuits : shown'[c] = shown[c] \/ shown'[c] = "Absent"
      BY <1>5, <2>3 DEF RemoveCircuit, TypeOK
    <3>2. \A x \in Streams : under'[x] = under[x] \/ under'[x] = Absent
      BY <1>5, <2>3 DEF RemoveCircuit
    <3> QED BY <2>1, <3>1, <3>2 DEF NoneListed, ListedCircuit, ListedStream, Absent
  <2> QED BY <2>2, <2>3
<1>6. CASE RemoveStream
  <2>1. UNCHANGED <<relays, shown>>
    BY <1>6 DEF RemoveStream
  <2>2. \A x \in Streams : under'[x] = under[x] \/ under'[x] = Absent
    BY <1>6 DEF RemoveStream, TypeOK
  <2> QED BY <2>1, <2>2 DEF NoneListed, ListedCircuit, ListedStream, Absent
<1>7. CASE RefreshClicked \/ RefreshTimeout
  BY <1>7, RefreshTypes, Clearing DEF NoneListed, ListedCircuit, ListedStream
<1> QED BY <1>1, <1>2, <1>3, <1>4, <1>5, <1>6, <1>7 DEF Local, LoadStep

LEMMA StepLossIsTold == TypeOK /\ LossIsTold /\ [Next]_vars => LossIsTold'
<1> SUFFICES ASSUME TypeOK, LossIsTold, [Next]_vars PROVE LossIsTold'
  OBVIOUS
<1>1. CASE TorStep
  <2>1. CASE link'
    <3>1. UNCHANGED <<authed, subscribed>> /\ (authed => link)
      BY <1>1, <2>1, TorStepIs DEF LossIsTold
    <3> QED BY <2>1, <3>1 DEF LossIsTold
  <2>2. CASE ~link'
    <3>1. CASE link
      <4>1. PICK m \in Msg : m.kind = "disconnected" /\ queue' = Append(queue, m)
                             /\ ~authed' /\ ~subscribed'
        BY <1>1, <2>2, <3>1, TorStepIs
      <4>2. PICK n : n = Len(queue)
        OBVIOUS
      <4>3. n \in Nat /\ DOMAIN queue' = 1 .. n + 1 /\ queue'[n + 1].kind = "disconnected"
        BY <4>1, <4>2, Appending
      <4>4. Noticed(n + 1)'
        BY <4>3 DEF Noticed
      <4> QED BY <4>1, <4>3, <4>4 DEF LossIsTold
    <3>2. CASE ~link
      <4>1. \A c, from, to : ~CircuitChanges(c, from, to)
        BY <3>2 DEF CircuitChanges
      <4>2. \A x, to : ~StreamChanges(x, to)
        BY <3>2 DEF StreamChanges
      <4>3. ~LinkGoesUp /\ ~LinkGoesDown
        BY <2>2, <3>2 DEF LinkGoesUp, LinkGoesDown
      <4> QED BY <1>1, <4>1, <4>2, <4>3 DEF TorStep
    <3> QED BY <3>1, <3>2
  <2> QED BY <2>1, <2>2
<1>2. CASE Local
  <2>1. UNCHANGED <<queue, link, authed>> /\ (UNCHANGED subscribed \/ subscribed' = authed)
    BY <1>2, LocalIs
  <2>2. \A i : Noticed(i) => Noticed(i)'
    BY <2>1 DEF Noticed
  <2>3. ~link /\ NoneListed => NoneListed'
    BY <1>2, NothingLoaded DEF LossIsTold
  <2> QED BY <2>1, <2>2, <2>3 DEF LossIsTold
<1>3. CASE Signal
  <2>1. PICK k : Delivered(k)
    BY <1>3, SignalIs
  <2>2. UNCHANGED <<link, subscribed>> /\ (UNCHANGED authed \/ authed' = link)
    BY <1>3, SignalIs
  <2>3. CASE link
    BY <2>2, <2>3 DEF LossIsTold
  <2>4. CASE ~link
    <3> DEFINE n == Len(queue)
    <3>1. /\ n \in Nat /\ 1 <= n /\ DOMAIN queue = 1 .. n /\ DOMAIN queue' = 1 .. n - 1
          /\ queue[1].kind = k /\ \A i \in 1 .. n - 1 : queue'[i] = queue[i + 1]
      BY <2>1, Delivering
    <3> HIDE DEF n
    <3>2. \A i \in Nat : Noticed(i + 1) => Noticed(i)'
      <4> SUFFICES ASSUME NEW i \in Nat, Noticed(i + 1), NEW j \in 1 .. n - 1, j > i
                   PROVE  queue'[j].kind \notin {"circ", "strm"}
        BY <3>1 DEF Noticed
      <4>1. j + 1 \in 1 .. n /\ j + 1 > i + 1
        BY <3>1
      <4> QED BY <3>1, <4>1 DEF Noticed
    <3>3. CASE NoneListed /\ Noticed(0)
      <4>1. k \notin {"circ", "strm"} /\ Noticed(0)'
        <5>1. Noticed(1)
          BY <3>1, <3>3 DEF Noticed
        <5>2. 0 + 1 = 1 /\ 0 \in Nat
          OBVIOUS
        <5>3. k \notin {"circ", "strm"}
          BY <3>1, <3>3 DEF Noticed
        <5> QED BY <3>2, <5>1, <5>2, <5>3
      <4>2. HandleConnected \/ HandleDisconnected
        BY <1>3, <2>1, <4>1 DEF Signal, HandleCircuit, HandleStream, Delivered
      <4>3. NoneListed'
        <5>1. CASE HandleConnected
          BY <2>4, <3>3, <5>1 DEF HandleConnected, lists, circuitList, NoneListed,
                                  ListedCircuit, ListedStream
        <5>2. CASE HandleDisconnected
          BY <5>2, Clearing DEF HandleDisconnected, NoneListed, ListedCircuit, ListedStream
        <5> QED BY <4>2, <5>1, <5>2
      <4> QED BY <2>2, <2>4, <4>1, <4>3 DEF LossIsTold
    <3>4. CASE \E i \in DOMAIN queue : queue[i].kind = "disconnected" /\ Noticed(i)
      <4>1. PICK i \in 1 .. n : queue[i].kind = "disconnected" /\ Noticed(i)
        BY <3>1, <3>4
      <4>2. CASE i = 1
        <5>1. HandleDisconnected
          BY <1>3, <2>1, <3>1, <4>1, <4>2
             DEF Signal, HandleCircuit, HandleStream, HandleConnected, Delivered
        <5>2. NoneListed'
          BY <5>1, Clearing DEF HandleDisconnected, NoneListed, ListedCircuit, ListedStream
        <5>3. Noticed(0)'
          <6>1. 0 + 1 = 1 /\ 0 \in Nat
            OBVIOUS
          <6> QED BY <3>2, <4>1, <4>2, <6>1
        <5> QED BY <2>2, <2>4, <5>2, <5>3 DEF LossIsTold
      <4>3. CASE i # 1
        <5>1. i - 1 \in 1 .. n - 1 /\ i - 1 \in Nat /\ (i - 1) + 1 = i
          BY <3>1, <4>3
        <5>2. queue'[i - 1].kind = "disconnected" /\ Noticed(i - 1)'
          BY <3>1, <3>2, <4>1, <5>1
        <5> QED BY <2>2, <2>4, <3>1, <5>1, <5>2 DEF LossIsTold
      <4> QED BY <4>2, <4>3
    <3> QED BY <2>4, <3>3, <3>4 DEF LossIsTold
  <2> QED BY <2>3, <2>4
<1>4. CASE UNCHANGED vars
  BY <1>4 DEF vars, tor, lists, circuitList, LossIsTold, NoneListed, Noticed, ListedCircuit, ListedStream
<1> QED BY <1>1, <1>2, <1>3, <1>4, NextCases

LEMMA StepRemovalsAreDue ==
    TypeOK /\ WordsAreTrue /\ RemovalsAreDue /\ [Next]_vars => RemovalsAreDue'
<1> SUFFICES ASSUME TypeOK, WordsAreTrue, RemovalsAreDue, [Next]_vars, Current(0)'
             PROVE  \A i \in DOMAIN circRemovals' : circ'[circRemovals'[i]] = Gone
  BY DEF RemovalsAreDue
<1>1. ASSUME Current(0), UNCHANGED <<circRemovals, circ>>
      PROVE  \A i \in DOMAIN circRemovals' : circ'[circRemovals'[i]] = Gone
  BY <1>1 DEF RemovalsAreDue
<1>2. Clear => \A i \in DOMAIN circRemovals' : circ'[circRemovals'[i]] = Gone
  BY Clearing
<1>3. \A i \in DOMAIN circRemovals : circRemovals[i] \in Circuits
  BY ElementOfSeq DEF TypeOK
<1>4. CASE TorStep
  <2>1. UNCHANGED circRemovals
    BY <1>4, TorStepIs DEF lists, circuitList
  <2>2. ASSUME NEW c \in Circuits, NEW to \in Told, circ[c] # Gone,
               circ' = [circ EXCEPT ![c] = to],
               \/ UNCHANGED queue
               \/ queue' = Append(queue, [kind |-> "circ", id |-> c, status |-> to])
        PROVE  \A i \in DOMAIN circRemovals' : circ'[circRemovals'[i]] = Gone
    <3> DEFINE m == [kind |-> "circ", id |-> c, status |-> to]
    <3>1. m \in Msg
      BY DEF Msg
    <3>2. UNCHANGED queue \/ queue' = Append(queue, m)
      BY <2>2
    <3> HIDE DEF m
    <3>3. Current(0)
      <4>1. CASE UNCHANGED queue
        BY <4>1 DEF Current
      <4>2. CASE queue' = Append(queue, m)
        BY <3>1, <4>2, AppendedSignal
      <4> QED BY <3>2, <4>1, <4>2
    <3>4. \A d \in Circuits : circ[d] = Gone => circ'[d] = Gone
      BY <2>2 DEF TypeOK
    <3> QED BY <1>3, <2>1, <3>3, <3>4 DEF RemovalsAreDue
  <2>3. ASSUME NEW m \in Msg, queue' = Append(queue, m),
               m.kind = "disconnected" \/ UNCHANGED circ
        PROVE  \A i \in DOMAIN circRemovals' : circ'[circRemovals'[i]] = Gone
    <3>1. PICK n : n = Len(queue)
      OBVIOUS
    <3>2. n \in Nat
      BY <2>3, <3>1, Appending
    <3>3. Current(0) /\ m.kind # "disconnected"
      <4>1. 0 \in 0 .. n /\ 0 \in Nat
        BY <3>2
      <4> QED BY <2>3, <3>1, <4>1, AppendedSignal
    <3> QED BY <1>1, <2>1, <2>3, <3>3
  <2>4. CASE UNCHANGED <<queue, circ>>
    BY <1>1, <2>1, <2>4 DEF Current
  <2> QED BY <1>4, <2>2, <2>3, <2>4, TorStepIs
<1>5. CASE Local
  <2>1. UNCHANGED <<queue, circ>> /\ Current(0)
    BY <1>5, LocalIs DEF Current
  <2>2. CASE RemoveCircuit
    <3>1. CASE circRemovals = <<>>
      BY <1>1, <2>1, <2>2, <3>1 DEF RemoveCircuit, circuitList
    <3>2. CASE circRemovals # <<>>
      <4>1. circRemovals' = Tail(circRemovals)
        BY <2>2, <3>2 DEF RemoveCircuit
      <4>2. \A i \in DOMAIN circRemovals' :
               i + 1 \in DOMAIN circRemovals /\ circRemovals'[i] = circRemovals[i + 1]
        BY <3>2, <4>1, Dequeued DEF TypeOK
      <4> QED BY <2>1, <4>2 DEF RemovalsAreDue
    <3> QED BY <3>1, <3>2
  <2>3. CASE RefreshClicked \/ RefreshTimeout
    BY <1>2, <2>3, RefreshTypes
  <2>4. CASE LoadStep \/ Subscribe \/ RemoveStream
    <3>1. UNCHANGED circRemovals
      BY <2>4 DEF LoadStep, NextRelay, LoadCircuits, LoadStreams, Subscribe, RemoveStream,
                  lists, circuitList
    <3> QED BY <1>1, <2>1, <3>1
  <2> QED BY <1>5, <2>2, <2>3, <2>4 DEF Local
<1>6. CASE Signal
  <2>1. UNCHANGED circ
    BY <1>6, SignalIs
  <2>2. CASE HandleCircuit
    <3> DEFINE c == Head(queue).id
               st == Head(queue).status
    <3>1. Delivered("circ") /\ Current(0)
      BY <2>2, DeliveredSignal DEF HandleCircuit
    <3>2. /\ queue[1].id = c /\ queue[1].status = st /\ queue[1].kind = "circ" /\ c \in Circuits
          /\ 1 \in DOMAIN queue
      BY <3>1, Delivering DEF Msg
    <3>3. circRemovals' = IF st = Gone THEN Scheduled(circRemovals, c) ELSE circRemovals
      BY <2>2 DEF HandleCircuit, AddCircuit
    <3> HIDE DEF c, st
    <3>4. CASE st # Gone
      BY <1>1, <2>1, <3>1, <3>3, <3>4
    <3>5. CASE st = Gone
      <4>1. Current(1) /\ Says(c, 1)
        BY <3>1, <3>2, Delivering DEF Current, Says
      <4>2. circ[c] = Gone
        BY <3>2, <3>5, <4>1 DEF WordsAreTrue
      <4>3. ToSet(circRemovals') = ToSet(circRemovals) \cup {c}
        <5>1. circRemovals \in Seq(Circuits)
          BY DEF TypeOK
        <5>2. ToSet(Scheduled(circRemovals, c)) = ToSet(circRemovals) \cup {c}
          BY <3>2, <5>1, Scheduling
        <5> QED BY <3>3, <3>5, <5>2
      <4>4. \A d \in ToSet(circRemovals) : circ[d] = Gone
        BY <3>1 DEF ToSet, RemovalsAreDue
      <4>5. \A i \in DOMAIN circRemovals' : circRemovals'[i] \in ToSet(circRemovals) \cup {c}
        BY <4>3 DEF ToSet
      <4> QED BY <2>1, <4>2, <4>4, <4>5
    <3> QED BY <3>4, <3>5
  <2>3. CASE HandleStream
    <3>1. Current(0) /\ UNCHANGED circRemovals
      BY <2>3, DeliveredSignal DEF HandleStream
    <3> QED BY <1>1, <2>1, <3>1
  <2>4. CASE HandleConnected
    <3>1. Current(0)
      BY <2>4, DeliveredSignal DEF HandleConnected
    <3>2. Clear \/ UNCHANGED circRemovals
      BY <2>4 DEF HandleConnected, lists, circuitList
    <3> QED BY <1>1, <1>2, <2>1, <3>1, <3>2
  <2>5. CASE HandleDisconnected
    BY <1>2, <2>5 DEF HandleDisconnected
  <2> QED BY <1>6, <2>2, <2>3, <2>4, <2>5 DEF Signal
<1>7. CASE UNCHANGED vars
  BY <1>1, <1>7 DEF vars, tor, lists, circuitList, Current
<1> QED BY <1>4, <1>5, <1>6, <1>7, NextCases

\* What is on its way after a signal of the head, or after one more, was or is so too.
LEMMA SteadyBefore ==
    ASSUME TypeOK, Steady', UNCHANGED link,
           \/ UNCHANGED queue
           \/ \E m \in Msg : queue' = Append(queue, m)
           \/ Delivered("circ") \/ Delivered("strm")
    PROVE  Steady
<1>1. CASE UNCHANGED queue
  BY <1>1 DEF Steady
<1>2. CASE \E m \in Msg : queue' = Append(queue, m)
  <2>1. PICK m \in Msg : queue' = Append(queue, m)
    BY <1>2
  <2>2. PICK n : n = Len(queue)
    OBVIOUS
  <2>3. DOMAIN queue = 1 .. n /\ DOMAIN queue' = 1 .. n + 1
        /\ \A i \in 1 .. n : queue'[i] = queue[i] /\ i \in 1 .. n + 1
    BY <2>1, <2>2, Appending
  <2> QED BY <2>3 DEF Steady
<1>3. ASSUME NEW k \in {"circ", "strm"}, Delivered(k) PROVE Steady
  <2>1. PICK n : n = Len(queue)
    OBVIOUS
  <2>2. /\ n \in Nat /\ DOMAIN queue = 1 .. n /\ DOMAIN queue' = 1 .. n - 1 /\ queue[1].kind = k
        /\ \A i \in 1 .. n - 1 : queue'[i] = queue[i + 1]
    BY <1>3, <2>1, Delivering
  <2>3. ASSUME NEW i \in 1 .. n PROVE queue[i].kind \in {"circ", "strm"}
    <3>1. CASE i = 1
      BY <1>3, <2>2, <3>1
    <3>2. CASE i # 1
      <4>1. i - 1 \in 1 .. n - 1 /\ (i - 1) + 1 = i
        BY <2>2, <3>2
      <4> QED BY <2>2, <4>1 DEF Steady
    <3> QED BY <3>1, <3>2
  <2> QED BY <2>2, <2>3 DEF Steady
<1> QED BY <1>1, <1>2, <1>3

\* A slot that is going to load circuits still is, whatever becomes of the slot above it.
LEMMA LoadingStays ==
    ASSUME TypeOK, stack # <<>>, Top.at # "relays", Loading,
           stack' = Beneath \/ \E frame \in FrameOf : Goto(frame)
    PROVE  Loading'
<1>1. PICK i \in DOMAIN stack : stack[i].at = "relays"
  BY DEF Loading
<1>2. i \in 1 .. Len(stack) - 1
  BY <1>1, Returning
<1>3. CASE stack' = Beneath
  <2>1. PICK b : b = Beneath
    OBVIOUS
  <2>2. b \in Seq(FrameOf) /\ Len(b) = Len(stack) - 1 /\ b[i] = stack[i]
    BY <1>2, <2>1, Returning
  <2>3. i \in DOMAIN b
    BY <1>2, <2>2
  <2>4. stack' = b
    BY <1>3, <2>1
  <2> QED BY <1>1, <2>2, <2>3, <2>4 DEF Loading
<1>4. CASE \E frame \in FrameOf : Goto(frame)
  <2>1. stack' \in Seq(FrameOf) /\ Len(stack') = Len(stack) /\ stack'[i] = stack[i]
    BY <1>2, <1>4, GoingOn
  <2>2. i \in DOMAIN stack'
    BY <1>1, <2>1, Returning
  <2> QED BY <1>1, <2>1, <2>2 DEF Loading
<1> QED BY <1>3, <1>4

LEMMA StepListIsTrue ==
    TypeOK /\ NextIsTold /\ WordsAreTrue /\ RemovalsAreDue /\ ListIsTrue /\ [Next]_vars => ListIsTrue'
<1> SUFFICES ASSUME TypeOK, NextIsTold, WordsAreTrue, RemovalsAreDue, ListIsTrue, [Next]_vars,
                    Steady', NEW c \in Circuits, c \notin missed', Unsaid(c)'
             PROVE  ListedTrue(c)'
  BY DEF ListIsTrue
<1>1. Steady /\ c \notin missed /\ Unsaid(c) => ListedTrue(c)
  BY DEF ListIsTrue
<1>2. ASSUME Steady, c \notin missed, Unsaid(c), shown'[c] = shown[c], circ'[c] = circ[c],
             Loading => Loading'
      PROVE  ListedTrue(c)'
  BY <1>1, <1>2 DEF ListedTrue
<1>3. ASSUME Clear, Loading' PROVE ListedTrue(c)'
  BY <1>3, Clearing DEF ListedTrue
<1>4. CASE TorStep
  <2>1. UNCHANGED <<stack, shown>> /\ (Loading => Loading')
    BY <1>4, TorStepIs DEF lists, circuitList, Loading
  <2>2. ASSUME UNCHANGED <<link, queue>>, c \notin missed, circ'[c] = circ[c]
        PROVE  ListedTrue(c)'
    BY <1>2, <2>1, <2>2, SteadyBefore DEF Unsaid, Says
  <2>3. ASSUME NEW m \in Msg, queue' = Append(queue, m), UNCHANGED <<link, missed>>,
               ~(m.kind = "circ" /\ m.id = c) => circ'[c] = circ[c]
        PROVE  ListedTrue(c)'
    <3>1. PICK n : n = Len(queue)
      OBVIOUS
    <3>2. Steady /\ n + 1 \in DOMAIN queue'
      BY <2>3, <3>1, SteadyBefore, Appending
    <3>3. Unsaid(c) /\ ~Says(c, n + 1)'
      <4>1. \A i : Says(c, i) => Says(c, i)'
        BY <2>3, <3>1, AppendedSignal
      <4>2. \A i : Says(c, i)' => i \in DOMAIN queue'
        BY DEF Says
      <4> QED BY <3>2, <4>1, <4>2 DEF Unsaid
    <3>4. ~(m.kind = "circ" /\ m.id = c)
      BY <2>3, <3>1, <3>3, AppendedSignal
    <3> QED BY <1>2, <2>1, <2>3, <3>2, <3>3, <3>4
  <2>4. ASSUME NEW m \in Msg, queue' = Append(queue, m), m.kind = "connected" PROVE FALSE
    <3>1. PICK n : n = Len(queue)
      OBVIOUS
    <3>2. n + 1 \in DOMAIN queue' /\ queue'[n + 1].kind = "connected"
      BY <2>4, <3>1, Appending
    <3> QED BY <3>2 DEF Steady
  <2>5. link'
    BY DEF Steady
  <2>6. ASSUME UNCHANGED link, NEW d \in Circuits, NEW to \in Told, circ' = [circ EXCEPT ![d] = to],
               \/ UNCHANGED queue /\ missed' = missed \cup {d}
               \/ UNCHANGED missed /\ queue' = Append(queue, [kind |-> "circ", id |-> d, status |-> to])
        PROVE  ListedTrue(c)'
    <3>1. c # d => circ'[c] = circ[c]
      BY <2>6 DEF TypeOK
    <3>2. CASE UNCHANGED queue /\ missed' = missed \cup {d}
      BY <2>2, <2>6, <3>1, <3>2
    <3>3. CASE UNCHANGED missed /\ queue' = Append(queue, [kind |-> "circ", id |-> d, status |-> to])
      <4>1. PICK m : m = [kind |-> "circ", id |-> d, status |-> to]
        OBVIOUS
      <4>2. m \in Msg /\ m.id = d /\ m.kind = "circ"
        BY <4>1 DEF Msg
      <4> QED BY <2>3, <2>6, <3>1, <3>3, <4>1, <4>2
    <3> QED BY <2>6, <3>2, <3>3
  <2>7. ASSUME UNCHANGED <<link, circ, missed>>,
               UNCHANGED queue \/ \E m \in Msg : m.kind = "strm" /\ queue' = Append(queue, m)
        PROVE  ListedTrue(c)'
    BY <2>2, <2>3, <2>7
  <2> QED BY <1>4, <2>4, <2>5, <2>6, <2>7, TorStepIs
<1>5. CASE Local
  <2>1. UNCHANGED <<queue, link, circ>> /\ Steady /\ Unsaid(c)
    BY <1>5, LocalIs, SteadyBefore DEF Unsaid, Says
  <2>2. CASE NextRelay
    <3>1. PICK t : t = IF link THEN Top.turns - 1 ELSE 0
      OBVIOUS
    <3>2. stack # <<>> /\ Top \in FrameOf /\ Top.at = "relays" /\ Top.turns > 0
          /\ Goto([Top EXCEPT !.turns = t]) /\ UNCHANGED <<shown, missed>>
      BY <2>2, <3>1, Returning DEF NextRelay, tor, circuitList
    <3>3. t \in 0 .. MaxRelays
      BY <3>1, <3>2, MaxRelaysInNat DEF FrameOf
    <3>4. [Top EXCEPT !.turns = t] \in FrameOf /\ [Top EXCEPT !.turns = t].at = "relays"
      BY <3>2, <3>3 DEF FrameOf
    <3>5. stack' \in Seq(FrameOf) /\ Len(stack') = Len(stack) /\ stack'[Len(stack)].at = "relays"
      BY <3>2, <3>4, GoingOn
    <3>6. Len(stack) \in DOMAIN stack'
      BY <3>2, <3>5, Returning
    <3> QED BY <1>2, <2>1, <3>2, <3>5, <3>6 DEF Loading
  <2>3. CASE LoadCircuits
    <3>1. PICK told \in Replies(CircuitsTold) :
             /\ shown' = [d \in Circuits |-> IF d \in told THEN "Open" ELSE shown[d]]
             /\ missed' = missed \cup (CircuitsTold \ told)
      BY <2>3 DEF LoadCircuits
    <3>2. told \subseteq CircuitsTold
      BY <3>1 DEF Replies
    <3>3. c \notin missed /\ ListedTrue(c) /\ (c \in CircuitsTold => c \in told)
      BY <1>1, <2>1, <3>1
    <3>4. c \in CircuitsTold <=> circ[c] = "Open"
      BY DEF CircuitsTold
    <3> QED BY <2>1, <3>1, <3>2, <3>3, <3>4 DEF ListedTrue
  <2>4. CASE LoadStreams
    <3>1. stack # <<>> /\ Top \in FrameOf /\ Top.at = "streams" /\ UNCHANGED <<shown, missed>>
      BY <2>4, Returning DEF LoadStreams, tor
    <3>2. [Top EXCEPT !.at = "box"] \in FrameOf
      BY <3>1 DEF FrameOf
    <3>3. stack' = Beneath \/ Goto([Top EXCEPT !.at = "box"])
      BY <2>4 DEF LoadStreams
    <3>4. Loading => Loading'
      BY <3>1, <3>2, <3>3, LoadingStays
    <3> QED BY <1>2, <2>1, <3>1, <3>4
  <2>5. CASE Subscribe
    <3>1. stack # <<>> /\ Top.at = "box" /\ UNCHANGED <<shown, missed>> /\ stack' = Beneath
      BY <2>5 DEF Subscribe, lists, circuitList
    <3> QED BY <1>2, <2>1, <3>1, LoadingStays
  <2>6. CASE RemoveCircuit
    <3>1. UNCHANGED <<missed, stack>> /\ (Loading => Loading')
      BY <2>6 DEF RemoveCircuit, tor, Loading
    <3>2. CASE circRemovals = <<>>
      BY <1>2, <2>1, <2>6, <3>1, <3>2 DEF RemoveCircuit, circuitList
    <3>3. CASE circRemovals # <<>>
      <4>1. shown' = [shown EXCEPT ![circRemovals[1]] = "Absent"] /\ 1 \in DOMAIN circRemovals
        BY <2>6, <3>3, Dequeued DEF RemoveCircuit, TypeOK
      <4>2. CASE c = circRemovals[1]
        <5>1. Current(0)
          BY <2>1 DEF Current, Steady
        <5>2. circ[c] = Gone /\ shown'[c] = "Absent"
          BY <4>1, <4>2, <5>1 DEF RemovalsAreDue, TypeOK
        <5> QED BY <2>1, <5>2 DEF ListedTrue, Gone
      <4>3. CASE c # circRemovals[1]
        <5>1. shown'[c] = shown[c]
          BY <4>1, <4>3 DEF TypeOK
        <5> QED BY <1>2, <2>1, <3>1, <5>1
      <4> QED BY <4>2, <4>3
    <3> QED BY <3>2, <3>3
  <2>7. CASE RemoveStream
    BY <1>2, <2>1, <2>7 DEF RemoveStream, tor, Loading
  <2>8. CASE RefreshClicked \/ RefreshTimeout
    BY <1>3, <2>8, RefreshTypes DEF Loading
  <2> QED BY <1>5, <2>2, <2>3, <2>4, <2>5, <2>6, <2>7, <2>8 DEF Local, LoadStep
<1>6. CASE Signal
  <2>1. UNCHANGED <<link, circ>> /\ link'
    BY <1>6, SignalIs DEF Steady
  <2>2. ASSUME NEW k, Delivered(k), NEW i, Says(c, i), i # 1 PROVE FALSE
    <3>1. Says(c, i - 1)'
      BY <2>2, DeliveredSignal
    <3> QED BY <3>1 DEF Unsaid, Says
  <2>3. CASE HandleCircuit
    <3> DEFINE d == Head(queue).id
               st == Head(queue).status
    <3>1. Delivered("circ") /\ Steady /\ UNCHANGED <<missed, stack>>
      BY <2>1, <2>3, SteadyBefore DEF HandleCircuit, tor
    <3>2. /\ queue[1].id = d /\ queue[1].status = st /\ queue[1].kind = "circ" /\ d \in Circuits
          /\ 1 \in DOMAIN queue
      BY <3>1, Delivering DEF Msg
    <3>3. shown' = [shown EXCEPT ![d] = st]
      BY <2>3 DEF HandleCircuit, AddCircuit
    <3> HIDE DEF d, st
    <3>4. CASE c = d
      <4>1. Current(1) /\ IsLastWord(c, 1) /\ Says(c, 1)
        <5>1. Says(c, 1)
          BY <3>2, <3>4 DEF Says
        <5>2. Current(1)
          BY <3>1 DEF Current, Steady
        <5>3. ASSUME NEW j \in DOMAIN queue, j > 1, Says(c, j) PROVE FALSE
          BY <2>2, <3>1, <5>3
        <5> QED BY <5>1, <5>2, <5>3 DEF IsLastWord
      <4>2. st = circ[c]
        BY <3>2, <4>1 DEF WordsAreTrue
      <4>3. shown'[c] = st
        BY <3>3, <3>4 DEF TypeOK
      <4> QED BY <2>1, <4>2, <4>3 DEF ListedTrue
    <3>5. CASE c # d
      <4>1. Unsaid(c)
        BY <2>2, <3>1, <3>2, <3>5 DEF Unsaid, Says
      <4>2. shown'[c] = shown[c] /\ (Loading => Loading')
        BY <3>1, <3>3, <3>5 DEF TypeOK, Loading
      <4> QED BY <1>2, <2>1, <3>1, <4>1, <4>2
    <3> QED BY <3>4, <3>5
  <2>4. CASE HandleStream
    <3>1. Delivered("strm") /\ Steady /\ UNCHANGED <<missed, stack, shown>>
      BY <2>1, <2>4, SteadyBefore DEF HandleStream, tor
    <3>2. queue[1].kind = "strm"
      BY <3>1, Delivering
    <3>3. Unsaid(c)
      BY <2>2, <3>1, <3>2 DEF Unsaid, Says
    <3> QED BY <1>2, <2>1, <3>1, <3>3 DEF Loading
  <2>5. CASE HandleConnected
    <3>1. Clear /\ Len(stack) < MaxDepth /\ stack' = Append(stack, RefreshFrame("authenticated", link))
      BY <2>1, <2>5 DEF HandleConnected
    <3>2. Loading'
      BY <3>1, Beginning DEF Loading
    <3> QED BY <1>3, <3>1, <3>2
  <2>6. CASE HandleDisconnected
    <3>1. PICK n : n = Len(queue)
      OBVIOUS
    <3>2. /\ n \in Nat /\ 1 <= n /\ DOMAIN queue = 1 .. n /\ DOMAIN queue' = 1 .. n - 1
          /\ queue[1].kind = "disconnected" /\ \A i \in 1 .. n - 1 : queue'[i] = queue[i + 1]
      BY <2>6, <3>1, Delivering DEF HandleDisconnected
    <3>3. PICK j \in 1 .. n : j > 1 /\ queue[j].kind = "connected"
      BY <2>1, <3>2 DEF NextIsTold
    <3>4. j - 1 \in 1 .. n - 1 /\ (j - 1) + 1 = j
      BY <3>2, <3>3
    <3>5. queue'[j - 1].kind = "connected" /\ j - 1 \in DOMAIN queue'
      BY <3>2, <3>3, <3>4
    <3> QED BY <3>5 DEF Steady
  <2> QED BY <1>6, <2>3, <2>4, <2>5, <2>6 DEF Signal
<1>7. CASE UNCHANGED vars
  <2>1. UNCHANGED <<link, queue, missed, shown, circ, stack>>
    BY <1>7 DEF vars, tor, lists, circuitList
  <2> QED BY <1>2, <2>1, SteadyBefore DEF Unsaid, Says, Loading
<1> QED BY <1>4, <1>5, <1>6, <1>7, NextCases

------------------------------------------------------------------------------
LEMMA InitFaithful == Init => Faithful
<1> SUFFICES ASSUME Init PROVE Faithful
  OBVIOUS
<1>1. /\ DOMAIN queue = {} /\ DOMAIN circRemovals = {} /\ ~link /\ ~authed /\ ~subscribed /\ ~relays
      /\ \A c \in Circuits : shown[c] = "Absent"
      /\ \A x \in Streams : under[x].status = "Absent"
  BY DEF Init, Absent
<1> HIDE DEF Init
<1> QED BY <1>1 DEF Faithful, LossIsTold, NoneListed, Noticed, ListedCircuit, ListedStream,
                    NextIsTold, WordsAreTrue, RemovalsAreDue, ListIsTrue, Steady

LEMMA StepFaithful == TypeOK /\ Faithful /\ [Next]_vars => Faithful'
BY StepLossIsTold, StepNextIsTold, StepWordsAreTrue, StepRemovalsAreDue, StepListIsTrue DEF Faithful

\* What the window shows when nothing is on its way and no refresh runs.
LEMMA FaithfulMeans == TypeOK /\ Faithful => BlankWhenDisconnected /\ SettledIsTrue
<1> SUFFICES ASSUME TypeOK, Faithful, queue = <<>>, stack = <<>>
             PROVE  BlankWhenDisconnected /\ SettledIsTrue
  BY DEF BlankWhenDisconnected, SettledIsTrue, Settled
<1>1. DOMAIN queue = {} /\ DOMAIN stack = {}
  OBVIOUS
<1>2. ~link => NoneListed
  BY <1>1 DEF Faithful, LossIsTold
<1>3. BlankWhenDisconnected
  BY <1>2 DEF BlankWhenDisconnected, NoneListed, Listed, Below
<1>4. ASSUME link, NEW c \in Circuits \ missed PROVE (shown[c] = "Open") = (circ[c] = "Open")
  <2>1. Steady /\ Unsaid(c) /\ ~Loading
    BY <1>1, <1>4 DEF Steady, Unsaid, Loading
  <2>2. ListedTrue(c)
    BY <2>1 DEF Faithful, ListIsTrue
  <2> QED BY <2>1, <2>2 DEF ListedTrue
<1>5. SettledIsTrue
  BY <1>4 DEF SettledIsTrue, Settled
<1> QED BY <1>3, <1>5

\* Nothing is listed once the loss of the connection has been noticed, whatever slot was in
\* its event loop when it was: no event of a lost connection follows the signal of its
\* loss, and a slot that goes on without a connection loads nothing.
THEOREM BlankOnceNoticed == Spec => []BlankWhenDisconnected
BY InitTypeOK, StepTypeOK, InitFaithful, StepFaithful, FaithfulMeans, PTL DEF Spec

\* A list that has settled names the circuits that Tor has: what is on its way is true, what
\* is scheduled for removal is closed, and the list differs from Tor only in circuits that
\* something on its way is about, or that a slot is going to load.
THEOREM SettledListIsTrue == Spec => []SettledIsTrue
BY InitTypeOK, StepTypeOK, InitFaithful, StepFaithful, FaithfulMeans, PTL DEF Spec

==============================================================================
