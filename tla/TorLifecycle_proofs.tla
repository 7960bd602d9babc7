------------------------ MODULE TorLifecycle_proofs ------------------------
(***************************************************************************)
(* Proofs about TorLifecycle: for any number of message boxes open at      *)
(* once, of signals on their way and of pending timers, the flags of       *)
(* MainWindow say only what was asked of the Tor that runs, the button     *)
(* stops a Tor that is Vidalia's own, and New Identity is offered only     *)
(* while there is, or was until now, a connection.                         *)
(*                                                                         *)
(* And about HelperProcesses, the main window's other programs: the update *)
(* dialog tells the truth, a Tor that an upgrade stopped comes back, and   *)
(* Vidalia quits only once browser and messenger have.                     *)
(***************************************************************************)
EXTENDS TorLifecycle, HelperProcesses, Lists_proofs

TorStatuses == {"Unset", "Stopped", "Starting", "Started", "Authenticating", "Authenticated",
                "CircuitEstablished", "Stopping"}
Buttons == [status : TorStatuses, slot : {"start", "stop"}, enabled : BOOLEAN, restored : BOOLEAN]
FlagsType == [intentional : BOOLEAN, delayed : BOOLEAN, ours : BOOLEAN]
Frames == [at : Dialogs \cup {"stop", "stopNow", "start"}, prev : TorStatuses, close : BOOLEAN]
Connections == [status : {"Unset", "Connecting", "Connected", "Disconnecting", "Disconnected"},
                thread : {"Off", "Running", "Exiting"},
                link : {"None", "Dialing", "ours", "ext", "Lost", "Closing", "Failed"},
                late : BOOLEAN]
Signals == {"connected", "disconnected", "connectFailed", "circuit"}

TypeOK ==
    /\ ui \in Buttons
    /\ flags \in FlagsType
    /\ identity \in BOOLEAN /\ idTimers \in 0 .. MaxTimers
    /\ app \in {"Running", "Quitting", "Gone"} /\ quitOnStop \in BOOLEAN /\ asked \in BOOLEAN
    /\ proc \in {"NotRunning", "Starting", "Running", "Exited"} /\ ext \in BOOLEAN
    /\ conn \in Connections
    /\ queue \in Seq(Signals) /\ Len(queue) <= MaxQueue
    /\ stack \in Seq(Frames)

------------------------------------------------------------------------------
(* The operators *)

\* A slot above others.
LEMMA Above ==
    ASSUME NEW S, NEW f \in S, NEW rest \in Seq(S)
    PROVE  /\ <<f>> \o rest \in Seq(S) /\ <<f>> \o rest # <<>> /\ Head(<<f>> \o rest) = f
<1>1. <<f>> \in Seq(S) /\ Len(<<f>>) = 1 /\ <<f>>[1] = f
  OBVIOUS
<1>2. PICK t : t = <<f>> \o rest
  OBVIOUS
<1>3. Len(rest) \in Nat
  OBVIOUS
<1>4. /\ t \in Seq(S) /\ Len(t) = 1 + Len(rest)
      /\ \A i \in 1 .. 1 + Len(rest) : t[i] = IF i <= 1 THEN f ELSE rest[i - 1]
  BY <1>1, <1>2, ConcatProperties
<1>5. t # <<>> /\ t[1] = f
  BY <1>3, <1>4
<1>6. Head(t) = t[1]
  BY <1>4, <1>5, HeadTailProperties
<1> QED BY <1>2, <1>4, <1>5, <1>6

\* The slots below the innermost one.
LEMMA Below ==
    ASSUME TypeOK, stack # <<>>
    PROVE  Head(stack) \in Frames /\ Tail(stack) \in Seq(Frames)
BY Dequeued DEF TypeOK

LEMMA FramesAre ==
    /\ \A at \in Dialogs \cup {"stop", "stopNow", "start"} : Frame(at) \in Frames
    /\ \A f \in Frames, at \in Dialogs \cup {"stop", "stopNow", "start"}, s \in TorStatuses :
          /\ [f EXCEPT !.at = at] \in Frames /\ [f EXCEPT !.at = at, !.prev = s] \in Frames
          /\ [f EXCEPT !.at = at].at = at
    /\ [Frame("stop") EXCEPT !.close = TRUE] \in Frames
BY DEF Frame, Frames, TorStatuses

\* What updateTorStatus() makes of the button.
LEMMA Showing ==
    ASSUME TypeOK, NEW s \in TorStatuses
    PROVE  /\ Shown(s) \in Buttons
           /\ s \in {"Stopped", "Started"} => Shown(s).enabled /\ ~Shown(s).restored
           /\ s \notin {"Stopped", "Started"} => Shown(s).slot = ui.slot /\ Shown(s).restored = ui.restored
           /\ s \notin {"Stopped", "Started", "Starting"} => Shown(s).enabled = ui.enabled
           /\ s = "Started" => Shown(s).slot = "stop"
           /\ s = "Stopped" => Shown(s).slot = "start"
BY DEF Shown, TypeOK, Buttons, TorStatuses

\* There is a connection, or there was when connecting had been given up.
Live(c) == c.status \in {"Connected", "Disconnecting"} \/ c.late

\* A connection on which bytes travel has not ended, and one that has not ended has
\* its thread, unless it succeeded after cancelConnect().  Only a thread dials.
Sound(c) ==
    /\ c.link \in {"ours", "ext", "Lost", "Closing"} => c.status \in {"Connected", "Disconnecting"}
    /\ c.status \in {"Connected", "Disconnecting"} /\ c.thread # "Running" => c.late
    /\ c.link = "Dialing" => c.thread # "Off"

LEMMA ConnectingIs ==
    ASSUME NEW c \in Connections
    PROVE  Connecting(c) \in Connections /\ (Sound(c) => Sound(Connecting(c)) /\ (Live(c) => Live(Connecting(c))))
BY DEF Connections, Connecting, Sound, Live

LEMMA CancelledIs ==
    ASSUME NEW c \in Connections
    PROVE  Cancelled(c) \in Connections /\ (Sound(c) => Sound(Cancelled(c)) /\ (Live(c) => Live(Cancelled(c))))
BY DEF Connections, Cancelled, Sound, Live

LEMMA DisconnectingIs ==
    ASSUME NEW c \in Connections
    PROVE  Disconnecting(c) \in Connections
           /\ (Sound(c) => Sound(Disconnecting(c)) /\ (Live(c) => Live(Disconnecting(c))))
BY DEF Connections, Disconnecting, Sound, Live

\* What a slot makes of the connection keeps it sound, and as long as it was there.
Keeps(c, d) == d \in Connections /\ (Sound(c) => Sound(d) /\ (Live(c) => Live(d)))

LEMMA KeepsAre ==
    ASSUME NEW c \in Connections
    PROVE  /\ Keeps(c, c) /\ Keeps(c, Connecting(c)) /\ Keeps(c, Cancelled(c))
           /\ Keeps(c, Disconnecting(c)) /\ Keeps(c, Cancelled(Connecting(c)))
BY ConnectingIs, CancelledIs, DisconnectingIs DEF Keeps

LEMMA OpenIs ==
    ASSUME NEW f \in Frames, NEW rest \in Seq(Frames), Open(f, rest)
    PROVE  stack' \in Seq(Frames) /\ stack' # <<>> /\ Head(stack') = f
BY Above DEF Open

LEMMA StartedIs ==
    ASSUME TypeOK, NEW rest \in Seq(Frames), NEW process, Started(process, rest)
    PROVE  /\ ui' = Shown("Started") /\ ui' \in Buttons /\ proc' = process
           /\ flags' \in FlagsType /\ ~flags'.intentional /\ ~flags'.delayed
           /\ stack' \in Seq(Frames) /\ Keeps(conn, conn')
<1>1. ui' = Shown("Started") /\ proc' = process
      /\ flags' = [intentional |-> FALSE, delayed |-> FALSE, ours |-> process # "NotRunning"]
  BY DEF Started, ShowStarted, Show, ResetIntent
<1>2. ui' \in Buttons
  BY <1>1, Showing DEF TorStatuses
<1>3. stack' \in Seq(Frames)
  <2>1. Frame("connectFailed") \in Frames
    BY FramesAre DEF Dialogs
  <2> QED BY <2>1, OpenIs DEF Started
<1>4. Keeps(conn, conn')
  BY KeepsAre DEF Started, TypeOK
<1> QED BY <1>1, <1>2, <1>3, <1>4 DEF FlagsType

LEMMA StartIs ==
    ASSUME TypeOK, NEW rest \in Seq(Frames), Start(rest)
    PROVE  /\ ui' \in Buttons /\ flags' \in FlagsType /\ stack' \in Seq(Frames)
           /\ Keeps(conn, conn')
           /\ \/ ui' = Shown("Started") /\ UNCHANGED <<proc, asked>>
                 /\ ~flags'.intentional /\ ~flags'.delayed
              \/ ui' = Shown("Starting") /\ proc' = "Starting" /\ ~asked' /\ asked' \in BOOLEAN
<1>1. CASE Started(proc, rest) /\ UNCHANGED asked
  BY <1>1, StartedIs
<1>2. CASE /\ Show("Starting") /\ flags' = [flags EXCEPT !.intentional = TRUE]
           /\ proc' = "Starting" /\ asked' = FALSE /\ stack' = rest /\ UNCHANGED conn
  <2>1. ui' = Shown("Starting") /\ Shown("Starting") \in Buttons
    BY <1>2, Showing DEF Show, TorStatuses
  <2>2. flags' \in FlagsType
    BY <1>2 DEF TypeOK, FlagsType
  <2> QED BY <1>2, <2>1, <2>2, KeepsAre DEF TypeOK
<1> QED BY <1>1, <1>2 DEF Start

LEMMA OnStoppedIs ==
    ASSUME TypeOK, NEW c, c = conn \/ c = Connecting(conn), OnStopped(c)
    PROVE  /\ proc' = "NotRunning" /\ ui' = Shown("Stopped") /\ ui' \in Buttons
           /\ Keeps(conn, conn')
<1>1. Shown("Stopped") \in Buttons
  BY Showing DEF TorStatuses
<1> QED BY <1>1, KeepsAre DEF OnStopped, Show, TypeOK

LEMMA StopProcessIs ==
    ASSUME TypeOK, NEW f \in FlagsType, StopProcess(f)
    PROVE  /\ proc' = "NotRunning" /\ ui' = Shown("Stopped") /\ ui' \in Buttons
           /\ Keeps(conn, conn') /\ flags' \in FlagsType
<1>1. OnStopped(IF proc = "Starting" THEN Connecting(conn) ELSE conn)
  BY DEF StopProcess
<1>2. flags' \in FlagsType
  BY DEF StopProcess, FlagsType
<1> QED BY <1>1, <1>2, OnStoppedIs

LEMMA GiveUpIs ==
    ASSUME TypeOK, NEW rest \in Seq(Frames), GiveUp(rest)
    PROVE  stack' \in Seq(Frames) /\ Keeps(conn, conn')
<1>1. PICK f : f = Frame("stop")
  OBVIOUS
<1>2. f \in Frames /\ <<f>> \o rest \in Seq(Frames)
  BY <1>1, FramesAre, Above
<1>3. Keeps(conn, conn) /\ Keeps(conn, Disconnecting(conn))
  BY KeepsAre DEF TypeOK
<1> QED BY <1>1, <1>2, <1>3 DEF GiveUp

LEMMA AuthenticateIs ==
    ASSUME TypeOK, NEW rest \in Seq(Frames), NEW shown \in Buttons, Authenticate(shown, rest)
    PROVE  /\ ui' \in Buttons /\ stack' \in Seq(Frames) /\ Keeps(conn, conn')
           /\ \/ ui' = shown \/ ui' = Shown("Authenticated") \/ ui' = Shown("CircuitEstablished")
           /\ \/ identity' = identity
              \/ identity' = TRUE /\ UNCHANGED conn /\ conn.link \in {"ours", "ext"}
<1>1. Shown("Authenticated") \in Buttons /\ Shown("CircuitEstablished") \in Buttons
  BY Showing DEF TorStatuses
<1>2. CASE /\ conn.link \in {"ours", "ext"}
           /\ \E s \in {"Authenticated", "CircuitEstablished"} : Show(s)
           /\ identity' = TRUE /\ stack' = rest
           /\ UNCHANGED conn
  <2>1. ui' = Shown("Authenticated") \/ ui' = Shown("CircuitEstablished")
    BY <1>2 DEF Show
  <2> QED BY <1>1, <1>2, <2>1, KeepsAre DEF TypeOK
<1>3. CASE /\ \E f \in {"authFailed", "cookie"} : Open(Frame(f), rest)
           /\ ui' = shown /\ UNCHANGED <<identity, conn>>
  <2>1. Frame("authFailed") \in Frames /\ Frame("cookie") \in Frames
    BY FramesAre DEF Dialogs
  <2>2. stack' \in Seq(Frames)
    BY <1>3, <2>1, OpenIs
  <2> QED BY <1>3, <2>2, KeepsAre DEF TypeOK
<1>4. CASE GiveUp(rest) /\ ui' = shown /\ UNCHANGED identity
  BY <1>4, GiveUpIs
<1> QED BY <1>2, <1>3, <1>4 DEF Authenticate

\* A signal for the GUI thread.
LEMMA QueueIs ==
    ASSUME TypeOK, NEW x \in Signals, Queue(x)
    PROVE  /\ queue' \in Seq(Signals) /\ Len(queue') <= MaxQueue
           /\ ToSet(queue') = ToSet(queue) \cup {x}
<1>1. PICK n : n = Len(queue)
  OBVIOUS
<1>2. PICK q : q = Append(queue, x)
  OBVIOUS
<1>3. /\ q \in Seq(Signals) /\ Len(q) = n + 1 /\ DOMAIN q = 1 .. n + 1 /\ q[n + 1] = x
      /\ \A i \in 1 .. n : q[i] = queue[i]
      /\ DOMAIN queue = 1 .. n /\ n \in Nat
  BY <1>1, <1>2, Pushed DEF TypeOK
<1>4. n < MaxQueue /\ queue' = q /\ MaxQueue \in Nat
  BY <1>1, <1>2, LifecycleAssumption DEF Queue, LifecycleAssumption
<1>5. \A i : i \in 1 .. n + 1 <=> i = n + 1 \/ i \in 1 .. n
  BY <1>3
<1>6. ToSet(q) = ToSet(queue) \cup {x}
  BY <1>3, <1>5 DEF ToSet
<1> QED BY <1>3, <1>4, <1>6

LEMMA UnqueueIs ==
    ASSUME TypeOK, queue # <<>>, queue' = Tail(queue)
    PROVE  /\ queue' \in Seq(Signals) /\ Len(queue') <= MaxQueue
           /\ ToSet(queue) = {Head(queue)} \cup ToSet(queue')
<1>1. PICK n : n = Len(queue)
  OBVIOUS
<1>2. PICK q : q = Tail(queue)
  OBVIOUS
<1>3. /\ q \in Seq(Signals) /\ Len(q) = n - 1 /\ DOMAIN q = 1 .. n - 1 /\ Head(queue) = queue[1]
      /\ \A i \in 1 .. n - 1 : q[i] = queue[i + 1]
      /\ DOMAIN queue = 1 .. n /\ n \in Nat /\ 1 <= n
  BY <1>1, <1>2, Dequeued DEF TypeOK
<1>4. n <= MaxQueue /\ MaxQueue \in Nat
  BY <1>1, LifecycleAssumption DEF TypeOK, LifecycleAssumption
<1>5. \A i \in 1 .. n : i = 1 \/ (i - 1 \in 1 .. n - 1 /\ (i - 1) + 1 = i)
  BY <1>3
<1>6. \A i \in 1 .. n - 1 : i + 1 \in 1 .. n
  BY <1>3
<1>7. ToSet(queue) \subseteq {Head(queue)} \cup ToSet(q)
  <2> SUFFICES ASSUME NEW i \in 1 .. n PROVE queue[i] \in {Head(queue)} \cup ToSet(q)
    BY <1>3 DEF ToSet
  <2>1. CASE i = 1
    BY <1>3, <2>1
  <2>2. CASE i # 1
    <3>1. i - 1 \in DOMAIN q /\ q[i - 1] = queue[i]
      BY <1>3, <1>5, <2>2
    <3> QED BY <3>1 DEF ToSet
  <2> QED BY <2>1, <2>2
<1>8. {Head(queue)} \cup ToSet(q) \subseteq ToSet(queue)
  BY <1>3, <1>6 DEF ToSet
<1> QED BY <1>2, <1>3, <1>4, <1>7, <1>8

------------------------------------------------------------------------------
(* Types *)

LEMMA InitTypeOK == Init => TypeOK
<1> SUFFICES ASSUME Init PROVE TypeOK
  OBVIOUS
<1>1. ui \in Buttons /\ flags \in FlagsType /\ conn \in Connections
  BY DEF Init, Buttons, FlagsType, TorStatuses, Connections, Quiet
<1>2. queue \in Seq(Signals) /\ Len(queue) <= MaxQueue /\ stack \in Seq(Frames)
  BY LifecycleAssumption DEF Init, LifecycleAssumption
<1>3. idTimers \in 0 .. MaxTimers
  BY LifecycleAssumption DEF Init, LifecycleAssumption
<1> QED BY <1>1, <1>2, <1>3 DEF Init, TypeOK, FlagsType

\* The innermost slot goes on, or returns.
LEMMA GoesOn ==
    ASSUME TypeOK, stack # <<>>, NEW at \in Dialogs \cup {"stop", "stopNow", "start"}
    PROVE  LET f == [Head(stack) EXCEPT !.at = at]
           IN  f \in Frames /\ f.at = at /\ <<f>> \o Tail(stack) \in Seq(Frames)
               /\ <<f>> \o Tail(stack) # <<>> /\ Head(<<f>> \o Tail(stack)) = f
<1>1. Head(stack) \in Frames /\ Tail(stack) \in Seq(Frames)
  BY Below
<1>2. PICK f : f = [Head(stack) EXCEPT !.at = at]
  OBVIOUS
<1>3. f \in Frames /\ f.at = at
  BY <1>1, <1>2 DEF Frames
<1> QED BY <1>1, <1>2, <1>3, Above

LEMMA StopFailsIs ==
    ASSUME TypeOK, stack # <<>>, StopFails
    PROVE  /\ ui' = Shown("Stopping") /\ ui' \in Buttons /\ UNCHANGED <<app, proc, conn>>
           /\ stack' \in Seq(Frames) /\ stack' # <<>> /\ Head(stack').at = "stopFailed"
<1>1. Head(stack) \in Frames /\ Tail(stack) \in Seq(Frames) /\ ui.status \in TorStatuses
  BY Below DEF TypeOK, Buttons
<1>2. KeepStatus \in Frames /\ KeepStatus.at = "stopFailed"
  BY <1>1 DEF KeepStatus, Frames, Dialogs
<1>3. Shown("Stopping") \in Buttons
  BY Showing DEF TorStatuses
<1> QED BY <1>1, <1>2, <1>3, OpenIs DEF StopFails, Show

LEMMA StopTypes == TypeOK /\ (ClickStop \/ AskStop \/ StopAnswered \/ ShutdownNow \/ StopNow
                              \/ StopFailedAnswered) => TypeOK'
<1> SUFFICES ASSUME TypeOK,
                    ClickStop \/ AskStop \/ StopAnswered \/ ShutdownNow \/ StopNow \/ StopFailedAnswered
             PROVE  TypeOK'
  OBVIOUS
<1>1. CASE ClickStop
  <2>1. stack' = <<Frame("stop")>> /\ Frame("stop") \in Frames
    BY <1>1, FramesAre DEF ClickStop
  <2>2. stack' \in Seq(Frames)
    BY <2>1
  <2> QED BY <1>1, <2>2 DEF ClickStop, TypeOK
<1>2. CASE AskStop
  <2>1. stack # <<>> /\ Tail(stack) \in Seq(Frames)
    BY <1>2, Below DEF AskStop, At
  <2>2. stack' \in Seq(Frames)
    <3>1. CASE Open([Head(stack) EXCEPT !.at = "askStop"], Tail(stack))
      BY <2>1, <3>1, GoesOn, OpenIs DEF Dialogs
    <3>2. CASE stack' = <<[Head(stack) EXCEPT !.at = "stopNow"]>> \o Tail(stack)
      BY <2>1, <3>2, GoesOn
    <3> QED BY <1>2, <3>1, <3>2 DEF AskStop
  <2> QED BY <1>2, <2>2 DEF AskStop, TypeOK
<1>3. CASE StopAnswered
  <2>1. stack # <<>>
    BY <1>3 DEF StopAnswered, At
  <2>2. stack' \in Seq(Frames)
    BY <1>3, <2>1, Below, GoesOn DEF StopAnswered
  <2>3. flags' \in FlagsType
    BY <1>3 DEF StopAnswered, TypeOK, FlagsType
  <2>4. quitOnStop' \in BOOLEAN
    BY <1>3 DEF StopAnswered, KeepRunning, TypeOK
  <2> QED BY <1>3, <2>2, <2>3, <2>4 DEF StopAnswered, TypeOK, FlagsType
<1>4. CASE ShutdownNow
  <2>1. stack # <<>> /\ Shown("Stopping") \in Buttons
    BY <1>4, Showing DEF ShutdownNow, At, TorStatuses
  <2>2. ui' \in Buttons /\ stack' \in Seq(Frames) /\ UNCHANGED <<app, proc, conn>>
    BY <1>4, <2>1, Below, StopFailsIs DEF ShutdownNow, Show
  <2> QED BY <1>4, <2>2 DEF ShutdownNow, TypeOK
<1>5. CASE StopNow
  <2>1. stack # <<>> /\ Shown("Stopping") \in Buttons /\ Tail(stack) \in Seq(Frames)
    BY <1>5, Below, Showing DEF StopNow, At, TorStatuses
  <2>2. PICK meant : meant = [flags EXCEPT !.intentional = TRUE]
    OBVIOUS
  <2>3. meant \in FlagsType
    BY <2>2 DEF TypeOK, FlagsType
  <2>4. CASE /\ Show("Stopping") /\ stack' = Tail(stack) /\ flags' = meant
             /\ UNCHANGED <<app, proc, conn>>
    BY <1>5, <2>1, <2>3, <2>4 DEF StopNow, Show, TypeOK, FlagsType
  <2>5. CASE StopProcess(meant) /\ QuitOnStopped /\ stack' = Tail(stack)
    <3>1. app' \in {"Running", "Quitting", "Gone"}
      BY <2>5 DEF QuitOnStopped, TypeOK
    <3> QED BY <1>5, <2>1, <2>3, <2>5, <3>1, StopProcessIs DEF StopNow, Keeps, TypeOK, FlagsType
  <2>6. CASE StopFails /\ flags' = meant
    BY <1>5, <2>1, <2>3, <2>6, StopFailsIs DEF StopNow, TypeOK, FlagsType
  <2> QED BY <1>5, <2>2, <2>4, <2>5, <2>6 DEF StopNow
<1>6. CASE StopFailedAnswered
  <2>1. stack # <<>> /\ Head(stack).prev \in TorStatuses /\ Tail(stack) \in Seq(Frames)
    BY <1>6, Below DEF StopFailedAnswered, At, Frames
  <2>2. PICK u : u = Shown(Head(stack).prev)
    OBVIOUS
  <2>3. u \in Buttons
    BY <2>1, <2>2, Showing
  <2>4. ui' = [u EXCEPT !.restored = ui.restored \/ u.slot # ui.slot \/ u.enabled # ui.enabled]
    BY <1>6, <2>2 DEF StopFailedAnswered
  <2>5. ui' \in Buttons
    BY <2>3, <2>4 DEF TypeOK, Buttons
  <2>6. flags' \in FlagsType
    BY <1>6 DEF StopFailedAnswered, TypeOK, FlagsType
  <2>7. quitOnStop' \in BOOLEAN
    BY <1>6 DEF StopFailedAnswered, KeepRunning, TypeOK
  <2> QED BY <1>6, <2>1, <2>5, <2>6, <2>7 DEF StopFailedAnswered, TypeOK, FlagsType
<1> QED BY <1>1, <1>2, <1>3, <1>4, <1>5, <1>6

\* The signals of the control thread.
LEMMA SignalTypes == TypeOK /\ ConnectionSignals => TypeOK'
<1> SUFFICES ASSUME TypeOK, ConnectionSignals PROVE TypeOK'
  OBVIOUS
<1>1. queue # <<>> /\ queue' = Tail(queue)
  BY DEF ConnectionSignals, Connected, CircuitEstablished, Disconnected, ConnectFailed
<1>2. queue' \in Seq(Signals) /\ Len(queue') <= MaxQueue
  BY <1>1, UnqueueIs
<1>3. stack \in Seq(Frames)
  BY DEF TypeOK
<1>4. /\ Shown("Authenticating") \in Buttons /\ Shown("CircuitEstablished") \in Buttons
      /\ Shown("Stopped") \in Buttons
  BY Showing DEF TorStatuses
<1>5. CASE Connected
  <2>1. ui' \in Buttons /\ stack' \in Seq(Frames) /\ Keeps(conn, conn') /\ identity' \in BOOLEAN
    BY <1>3, <1>4, <1>5, AuthenticateIs DEF Connected, TypeOK
  <2> QED BY <1>2, <1>5, <2>1 DEF Connected, Keeps, TypeOK
<1>6. CASE CircuitEstablished
  BY <1>2, <1>4, <1>6 DEF CircuitEstablished, Show, TypeOK
<1>7. CASE Disconnected
  <2>1. ui' \in Buttons
    BY <1>4, <1>7 DEF Disconnected, Show, TypeOK
  <2>2. flags' \in FlagsType
    BY <1>7 DEF Disconnected, TypeOK, FlagsType
  <2> QED BY <1>2, <1>7, <2>1, <2>2 DEF Disconnected, TypeOK
<1>8. CASE ConnectFailed
  <2>1. Frame("connectFailed") \in Frames
    BY FramesAre DEF Dialogs
  <2>2. stack' \in Seq(Frames)
    BY <1>3, <1>8, <2>1, OpenIs DEF ConnectFailed
  <2> QED BY <1>2, <1>8, <2>2 DEF ConnectFailed, TypeOK
<1> QED BY <1>5, <1>6, <1>7, <1>8 DEF ConnectionSignals

\* The answers to message boxes that do not stop Tor.
LEMMA AnswerTypes == TypeOK /\ Answers => TypeOK'
<1> SUFFICES ASSUME TypeOK, Answers PROVE TypeOK'
  OBVIOUS
<1>1. stack # <<>>
  BY DEF Answers, CookieAnswered, AuthFailedAnswered, ConnectFailedAnswered, At
<1>2. Tail(stack) \in Seq(Frames) /\ ui \in Buttons /\ flags \in FlagsType
  BY <1>1, Below DEF TypeOK
<1>3. CASE CookieAnswered
  <2>1. ui' \in Buttons /\ stack' \in Seq(Frames) /\ Keeps(conn, conn') /\ identity' \in BOOLEAN
    BY <1>2, <1>3, AuthenticateIs DEF CookieAnswered, TypeOK
  <2> QED BY <1>3, <2>1 DEF CookieAnswered, Keeps, TypeOK
<1>4. CASE AuthFailedAnswered
  <2>1. PICK rest : /\ rest = Tail(stack) \/ rest = <<Frame("start")>> \o Tail(stack)
                    /\ IF IsRunning THEN GiveUp(rest) ELSE stack' = rest /\ UNCHANGED conn
    BY <1>4 DEF AuthFailedAnswered
  <2>2. PICK f : f = Frame("start")
    OBVIOUS
  <2>3. rest \in Seq(Frames)
    <3>1. f \in Frames
      BY <2>2, FramesAre
    <3>2. <<f>> \o Tail(stack) \in Seq(Frames)
      BY <1>2, <3>1, Above
    <3> QED BY <1>2, <2>1, <2>2, <3>2
  <2>4. stack' \in Seq(Frames) /\ Keeps(conn, conn')
    BY <2>1, <2>3, GiveUpIs, KeepsAre DEF TypeOK
  <2> QED BY <1>4, <2>4 DEF AuthFailedAnswered, Keeps, TypeOK
<1>5. CASE ConnectFailedAnswered
  <2>1. CASE conn' = Connecting(conn) /\ UNCHANGED <<ui, flags, app, proc, asked>>
    BY <1>2, <1>5, <2>1, KeepsAre DEF ConnectFailedAnswered, Keeps, TypeOK
  <2>2. CASE UNCHANGED <<ui, flags, app, proc, conn>> /\ asked' = TRUE
    BY <1>2, <1>5, <2>2 DEF ConnectFailedAnswered, TypeOK
  <2>3. CASE StopProcess(flags) /\ QuitOnStopped /\ asked' = TRUE
    <3>1. ui' \in Buttons /\ flags' \in FlagsType /\ proc' = "NotRunning" /\ conn' \in Connections
      BY <1>2, <2>3, StopProcessIs DEF Keeps
    <3>2. app' \in {"Running", "Quitting", "Gone"}
      BY <2>3 DEF QuitOnStopped, TypeOK
    <3> QED BY <1>2, <1>5, <2>3, <3>1, <3>2 DEF ConnectFailedAnswered, TypeOK
  <2> QED BY <1>5, <2>1, <2>2, <2>3 DEF ConnectFailedAnswered
<1> QED BY <1>3, <1>4, <1>5 DEF Answers

\* What the user does, the process reports and the application ends with.
LEMMA OtherTypes ==
    ASSUME TypeOK, ClickStart \/ Restart \/ Close \/ NewIdentity \/ StartAgain \/ Process
                   \/ EnableNewIdentity \/ AboutToQuit
    PROVE  TypeOK'
<1>1. /\ flags \in FlagsType /\ <<>> \in Seq(Frames) /\ stack \in Seq(Frames)
      /\ Shown("Stopped") \in Buttons
  BY Showing DEF TypeOK, TorStatuses
<1>2. CASE ClickStart
  BY <1>1, <1>2, StartIs DEF ClickStart, Keeps, TypeOK
<1>3. CASE Restart
  <2>1. <<Frame("start")>> \in Seq(Frames)
    <3>1. Frame("start") \in Frames
      BY FramesAre
    <3> QED BY <3>1
  <2>2. CASE StopsAtOnce /\ stack' = <<Frame("start")>> /\ UNCHANGED <<ui, flags, app, proc, conn>>
    BY <1>3, <2>1, <2>2 DEF Restart, TypeOK
  <2>3. CASE StopProcess(flags) /\ QuitOnStopped /\ stack' = <<Frame("start")>>
    <3>1. ui' \in Buttons /\ flags' \in FlagsType /\ proc' = "NotRunning" /\ conn' \in Connections
      BY <1>1, <2>3, StopProcessIs DEF Keeps
    <3>2. app' \in {"Running", "Quitting", "Gone"}
      BY <2>3 DEF QuitOnStopped, TypeOK
    <3> QED BY <1>3, <2>1, <2>3, <3>1, <3>2 DEF Restart, TypeOK
  <2>4. CASE UNCHANGED <<ui, flags, app, proc, conn, stack>>
    BY <1>3, <2>4 DEF Restart, TypeOK
  <2> QED BY <1>3, <2>2, <2>3, <2>4 DEF Restart
<1>4. CASE Close
  <2>1. [Frame("stop") EXCEPT !.close = TRUE] \in Frames
    BY FramesAre
  <2>2. stack' \in Seq(Frames)
    <3>1. PICK f : f = [Frame("stop") EXCEPT !.close = TRUE]
      OBVIOUS
    <3>2. <<f>> \in Seq(Frames)
      BY <2>1, <3>1
    <3>3. stack' = <<f>> \/ stack' = stack
      BY <1>4, <3>1 DEF Close
    <3> QED BY <1>1, <3>2, <3>3
  <2> QED BY <1>4, <2>2 DEF Close, TypeOK
<1>5. CASE NewIdentity
  <2>1. idTimers' \in 0 .. MaxTimers
    BY <1>5, LifecycleAssumption DEF NewIdentity, TypeOK, LifecycleAssumption
  <2> QED BY <1>5, <2>1 DEF NewIdentity, TypeOK
<1>6. CASE StartAgain
  <2>1. Tail(stack) \in Seq(Frames)
    BY <1>6, Below DEF StartAgain, At
  <2> QED BY <1>6, <2>1, StartIs DEF StartAgain, Keeps, TypeOK
<1>7. CASE ProcStarted
  BY <1>1, <1>7, StartedIs DEF ProcStarted, Keeps, TypeOK
<1>8. CASE ProcFailsToStart
  BY <1>1, <1>8 DEF ProcFailsToStart, Show, TypeOK
<1>9. CASE ProcFinished
  <2>1. ui' \in Buttons /\ proc' = "NotRunning" /\ conn' \in Connections
    BY <1>9, OnStoppedIs DEF ProcFinished, Keeps
  <2>2. app' \in {"Running", "Quitting", "Gone"}
    BY <1>9 DEF ProcFinished, QuitOnStopped, TypeOK
  <2> QED BY <1>9, <2>1, <2>2 DEF ProcFinished, TypeOK
<1>10. CASE EnableNewIdentity
  <2>1. identity' \in BOOLEAN
    BY <1>10 DEF EnableNewIdentity, MayEnableIdentity, TypeOK
  <2>2. idTimers' \in 0 .. MaxTimers
    BY <1>10, LifecycleAssumption DEF EnableNewIdentity, TypeOK, LifecycleAssumption
  <2> QED BY <1>10, <2>1, <2>2 DEF EnableNewIdentity, TypeOK
<1>11. CASE AboutToQuit
  <2>1. /\ ui' \in Buttons /\ flags' \in FlagsType /\ conn' \in Connections
        /\ proc' \in {"NotRunning", "Starting", "Running", "Exited"}
    BY <1>1, <1>11, StopProcessIs DEF AboutToQuit, Keeps, TypeOK
  <2>2. queue' \in Seq(Signals) /\ Len(queue') <= MaxQueue /\ idTimers' \in 0 .. MaxTimers
    BY <1>11, LifecycleAssumption DEF AboutToQuit, LifecycleAssumption
  <2> QED BY <1>1, <1>11, <2>1, <2>2 DEF AboutToQuit, TypeOK
<1> QED BY <1>2, <1>3, <1>4, <1>5, <1>6, <1>7, <1>8, <1>9, <1>10, <1>11 DEF Process

\* The control thread, and the Tors.
LEMMA ThreadTypes == TypeOK /\ (ControlThread \/ Tors) => TypeOK'
<1> SUFFICES ASSUME TypeOK, ControlThread \/ Tors PROVE TypeOK'
  OBVIOUS
<1>1. ASSUME UNCHANGED <<guiVars, ext>>, proc' = proc \/ proc' = "Exited", conn' \in Connections,
             queue' \in Seq(Signals), Len(queue') <= MaxQueue
      PROVE  TypeOK'
  BY <1>1 DEF guiVars, TypeOK
<1>2. CASE DialSucceeds
  <2>1. PICK peer \in {"ours", "ext"} :
           conn' = [conn EXCEPT !.status = "Connected", !.link = peer,
                                !.late = @ \/ conn.thread = "Exiting"]
    BY <1>2 DEF DialSucceeds
  <2>2. conn' \in Connections
    BY <2>1 DEF TypeOK, Connections
  <2>3. queue' \in Seq(Signals) /\ Len(queue') <= MaxQueue
    BY <1>2, QueueIs DEF DialSucceeds, Signals
  <2> QED BY <1>1, <1>2, <2>2, <2>3 DEF DialSucceeds
<1>3. CASE DialFails
  <2>1. conn' \in Connections
    BY <1>3 DEF DialFails, TypeOK, Connections
  <2>2. queue' \in Seq(Signals) /\ Len(queue') <= MaxQueue
    BY <1>3, QueueIs DEF DialFails, Signals, TypeOK
  <2> QED BY <1>1, <1>3, <2>1, <2>2 DEF DialFails
<1>4. CASE LinkDown
  <2>1. conn' \in Connections
    BY <1>4 DEF LinkDown, TypeOK, Connections
  <2>2. queue' \in Seq(Signals) /\ Len(queue') <= MaxQueue
    BY <1>4, QueueIs DEF LinkDown, Signals
  <2> QED BY <1>1, <1>4, <2>1, <2>2 DEF LinkDown
<1>5. CASE ThreadEnds
  <2>1. conn' \in Connections
    BY <1>5 DEF ThreadEnds, TypeOK, Connections
  <2> QED BY <1>1, <1>5, <2>1 DEF ThreadEnds, TypeOK
<1>6. CASE ReportCircuit
  <2>1. queue' \in Seq(Signals) /\ Len(queue') <= MaxQueue
    BY <1>6, QueueIs DEF ReportCircuit, Signals
  <2> QED BY <1>1, <1>6, <2>1 DEF ReportCircuit, TypeOK
<1>7. \A peer : Lose(peer) => conn' \in Connections
  BY DEF Lose, TypeOK, Connections
<1>8. CASE TorExits
  BY <1>1, <1>7, <1>8 DEF TorExits, TypeOK
<1>9. CASE TorCloses
  BY <1>1, <1>7, <1>9 DEF TorCloses, TypeOK
<1>10. CASE ExternalStarts \/ ExternalStops
  <2>1. ext' \in BOOLEAN /\ UNCHANGED <<guiVars, proc, queue>> /\ conn' \in Connections
    BY <1>7, <1>10 DEF ExternalStarts, ExternalStops, TypeOK
  <2> QED BY <2>1 DEF guiVars, TypeOK
<1> QED BY <1>2, <1>3, <1>4, <1>5, <1>6, <1>8, <1>9, <1>10 DEF ControlThread, Tors

LEMMA StepTypeOK == TypeOK /\ [Next]_vars => TypeOK'
<1> SUFFICES ASSUME TypeOK, [Next]_vars PROVE TypeOK'
  OBVIOUS
<1>1. UNCHANGED vars => TypeOK'
  BY DEF vars, guiVars, TypeOK
<1> QED BY <1>1, StopTypes, SignalTypes, AnswerTypes, OtherTypes, ThreadTypes
       DEF Next, User, Stopping, Process

\* The variables have their types.
THEOREM LifecycleTypeCorrect == Spec => []TypeOK
BY InitTypeOK, StepTypeOK, PTL DEF Spec

------------------------------------------------------------------------------
(* The button *)

Button == OursOffersStop /\ ButtonIsPending

\* What a step may make of the button and of what it is about.
LEMMA ButtonKept ==
    ASSUME Button, ui' = ui \/ (\E s \in TorStatuses \ {"Stopped", "Started", "Starting"} : ui' = Shown(s)),
           TypeOK, proc' = proc \/ (proc = "Running" /\ proc' = "Exited"),
           flags'.ours = flags.ours \/ flags'.ours = FALSE, app' = "Running" => app = "Running"
    PROVE  Button'
<1>1. ui'.slot = ui.slot /\ ui'.restored = ui.restored /\ ui'.enabled = ui.enabled
  BY Showing
<1> QED BY <1>1 DEF Button, OursOffersStop, ButtonIsPending

LEMMA ButtonSet ==
    ASSUME TypeOK,
           \/ ui' = Shown("Stopped") /\ (proc' = "NotRunning" \/ flags'.ours = FALSE)
           \/ ui' = Shown("Started")
           \/ ui' = Shown("Starting") /\ proc' = "Starting"
    PROVE  Button'
<1>1. ASSUME NEW s \in {"Stopped", "Started"}, ui' = Shown(s)
      PROVE  ui'.enabled /\ (s = "Started" => ui'.slot = "stop")
  BY <1>1, Showing DEF TorStatuses
<1> QED BY <1>1 DEF Button, OursOffersStop, ButtonIsPending

LEMMA StepButton == TypeOK /\ Button /\ [Next]_vars => Button'
<1> SUFFICES ASSUME TypeOK, Button, [Next]_vars PROVE Button'
  OBVIOUS
<1> DEFINE Other == TorStatuses \ {"Stopped", "Started", "Starting"}
<1>1. /\ "Stopping" \in Other /\ "Authenticating" \in Other /\ "Authenticated" \in Other
      /\ "CircuitEstablished" \in Other
  BY DEF TorStatuses
<1> HIDE DEF Other
<1>2. ASSUME ui' = ui \/ (\E s \in Other : ui' = Shown(s)),
             proc' = proc \/ (proc = "Running" /\ proc' = "Exited"),
             flags'.ours = flags.ours \/ flags'.ours = FALSE, app' = "Running" => app = "Running"
      PROVE  Button'
  BY <1>2, ButtonKept DEF Other
<1>3. stack \in Seq(Frames) /\ flags \in FlagsType
  BY DEF TypeOK
<1>4. stack # <<>> => Tail(stack) \in Seq(Frames)
  BY Below
<1>5. CASE ClickStop \/ AskStop \/ NewIdentity \/ EnableNewIdentity \/ ConnectFailed
  BY <1>2, <1>5 DEF ClickStop, AskStop, NewIdentity, EnableNewIdentity, ConnectFailed
<1>6. CASE StopAnswered
  <2>1. flags'.ours = flags.ours /\ UNCHANGED <<ui, proc, app>>
    BY <1>3, <1>6 DEF StopAnswered, FlagsType
  <2> QED BY <1>2, <2>1
<1>7. CASE ShutdownNow
  BY <1>1, <1>2, <1>7 DEF ShutdownNow, StopFails, Show
<1>8. CASE StopNow
  <2>1. PICK meant : meant = [flags EXCEPT !.intentional = TRUE]
    OBVIOUS
  <2>2. meant \in FlagsType /\ meant.ours = flags.ours
    BY <1>3, <2>1 DEF FlagsType
  <2>3. CASE flags' = meant /\ ui' = Shown("Stopping") /\ UNCHANGED <<app, proc>>
    BY <1>1, <1>2, <2>2, <2>3
  <2>4. CASE StopProcess(meant)
    BY <2>2, <2>4, StopProcessIs, ButtonSet
  <2> QED BY <1>8, <2>1, <2>3, <2>4 DEF StopNow, StopFails, Show
<1>9. CASE StopFailedAnswered
  <2>1. stack # <<>> /\ Head(stack).prev \in TorStatuses
    BY <1>9, Below DEF StopFailedAnswered, At, Frames
  <2>2. PICK u : u = Shown(Head(stack).prev)
    OBVIOUS
  <2>3. u \in Buttons
    BY <2>1, <2>2, Showing
  <2>4. ui' = [u EXCEPT !.restored = ui.restored \/ u.slot # ui.slot \/ u.enabled # ui.enabled]
        /\ UNCHANGED <<app, proc>>
    BY <1>9, <2>2 DEF StopFailedAnswered
  <2>5. flags'.ours = flags.ours
    BY <1>3, <1>9 DEF StopFailedAnswered, FlagsType
  <2>6. CASE ui'.restored
    BY <2>6 DEF Button, OursOffersStop, ButtonIsPending
  <2>7. CASE ~ui'.restored
    <3>1. ui'.slot = ui.slot /\ ui'.enabled = ui.enabled /\ ~ui.restored
      BY <2>3, <2>4, <2>7 DEF Buttons
    <3> QED BY <2>4, <2>5, <3>1 DEF Button, OursOffersStop, ButtonIsPending
  <2> QED BY <2>6, <2>7
<1>10. CASE ClickStart \/ StartAgain
  <2>1. \E rest \in Seq(Frames) : Start(rest)
    <3>1. <<>> \in Seq(Frames)
      OBVIOUS
    <3>2. ClickStart => Start(<<>>)
      BY DEF ClickStart
    <3>3. StartAgain => stack # <<>> /\ Start(Tail(stack))
      BY DEF StartAgain, At
    <3> QED BY <1>4, <1>10, <3>1, <3>2, <3>3
  <2> QED BY <2>1, StartIs, ButtonSet
<1>11. CASE Restart \/ ConnectFailedAnswered
  <2>1. StopProcess(flags) \/ UNCHANGED <<ui, flags, app, proc>>
    BY <1>11 DEF Restart, ConnectFailedAnswered
  <2> QED BY <1>2, <1>3, <2>1, StopProcessIs, ButtonSet
<1>12. CASE Close
  BY <1>2, <1>12 DEF Close, Idle
<1>13. CASE ProcStarted
  BY <1>3, <1>13, StartedIs, ButtonSet DEF ProcStarted
<1>14. CASE ProcFailsToStart
  BY <1>14, ButtonSet DEF ProcFailsToStart, Show
<1>15. CASE ProcFinished
  BY <1>15, OnStoppedIs, ButtonSet DEF ProcFinished
<1>16. CASE AboutToQuit
  <2>1. CASE StopProcess(flags)
    BY <1>3, <2>1, StopProcessIs, ButtonSet
  <2>2. CASE UNCHANGED <<ui, flags, proc, conn>>
    BY <1>2, <1>16, <2>2 DEF AboutToQuit
  <2> QED BY <1>16, <2>1, <2>2 DEF AboutToQuit
<1>17. CASE Connected \/ CookieAnswered
  <2>1. /\ Shown("Authenticating") \in Buttons /\ ui \in Buttons
        /\ (stack # <<>> => Tail(stack) \in Seq(Frames))
    BY <1>4, Showing DEF TypeOK, TorStatuses
  <2>2. UNCHANGED <<flags, app, proc>>
    BY <1>17 DEF Connected, CookieAnswered
  <2>3. \/ ui' = Shown("Authenticating") \/ ui' = ui \/ ui' = Shown("Authenticated")
        \/ ui' = Shown("CircuitEstablished")
    <3>1. CASE Connected
      BY <1>3, <2>1, <3>1, AuthenticateIs DEF Connected
    <3>2. CASE CookieAnswered
      BY <2>1, <3>2, AuthenticateIs DEF CookieAnswered, At
    <3> QED BY <1>17, <3>1, <3>2
  <2> QED BY <1>1, <1>2, <2>2, <2>3
<1>18. CASE AuthFailedAnswered
  BY <1>2, <1>18 DEF AuthFailedAnswered
<1>19. CASE CircuitEstablished
  BY <1>1, <1>2, <1>19 DEF CircuitEstablished, Show
<1>20. CASE Disconnected
  <2>1. flags'.ours = FALSE /\ UNCHANGED <<app, proc>>
    BY <1>3, <1>20 DEF Disconnected, FlagsType
  <2> QED BY <1>2, <1>20, <2>1, ButtonSet DEF Disconnected, Show
<1>21. CASE ControlThread
  BY <1>2, <1>21 DEF ControlThread, DialSucceeds, DialFails, LinkDown, ThreadEnds, ReportCircuit, guiVars
<1>22. CASE Tors
  BY <1>2, <1>22 DEF Tors, TorExits, TorCloses, ExternalStarts, ExternalStops, guiVars
<1>23. CASE UNCHANGED vars
  BY <1>2, <1>23 DEF vars, guiVars
<1> QED BY <1>5, <1>6, <1>7, <1>8, <1>9, <1>10, <1>11, <1>12, <1>13, <1>14, <1>15, <1>16, <1>17,
           <1>18, <1>19, <1>20, <1>21, <1>22, <1>23
        DEF Next, User, Answers, Stopping, Process, ConnectionSignals

LEMMA InitButton == Init => Button
BY DEF Init, Button, OursOffersStop, ButtonIsPending

\* The button stops a Tor that is Vidalia's own.  A slot that shows another status while that
\* Tor runs leaves the button alone, unless a failed stop() puts back what it found.
THEOREM OursIsStopped == Spec => []OursOffersStop
<1>1. TypeOK /\ Button => OursOffersStop
  BY DEF Button
<1> QED BY <1>1, InitTypeOK, StepTypeOK, InitButton, StepButton, PTL DEF Spec

\* A button that is disabled waits for a process that is starting: each of the slots that may
\* end that wait enables the button.
THEOREM DisabledIsPending == Spec => []ButtonIsPending
<1>1. TypeOK /\ Button => ButtonIsPending
  BY DEF Button
<1> QED BY <1>1, InitTypeOK, StepTypeOK, InitButton, StepButton, PTL DEF Spec

------------------------------------------------------------------------------
(* The flags *)

InnermostAt(f) == stack # <<>> /\ Head(stack).at = f

\* What the flags say of a process that has started.  A delayed shutdown that was chosen is
\* carried out before any other slot runs; and if the application is about to quit while a
\* process runs, no slot is suspended.
Fresh ==
    /\ proc \in {"Running", "Exited"} /\ ~asked =>
          ~flags.intentional /\ (flags.delayed => InnermostAt("stopNow"))
    /\ app = "Quitting" => proc = "NotRunning" \/ stack = <<>>

LEMMA FreshKept ==
    ASSUME Fresh, UNCHANGED flags, proc' = proc \/ (proc = "Running" /\ proc' = "Exited"),
           asked' \/ asked' = asked,
           ~InnermostAt("stopNow") \/ UNCHANGED stack,
           app' = "Quitting" => app = "Quitting" /\ UNCHANGED stack
    PROVE  Fresh'
BY DEF Fresh, InnermostAt

LEMMA StepFresh == TypeOK /\ Fresh /\ [Next]_vars => Fresh'
<1> SUFFICES ASSUME TypeOK, Fresh, [Next]_vars PROVE Fresh'
  OBVIOUS
<1>1. AtLoop \/ Idle => app = "Running" /\ ~InnermostAt("stopNow")
  BY DEF AtLoop, Idle, InnermostAt, Dialogs
<1>2. \A f : At(f) => app = "Running" /\ stack # <<>> /\ (InnermostAt("stopNow") => f = "stopNow")
  BY DEF At, InnermostAt
<1>3. stack \in Seq(Frames) /\ flags \in FlagsType
  BY DEF TypeOK
<1>4. stack # <<>> => Tail(stack) \in Seq(Frames)
  BY Below
<1>5. proc' = "NotRunning" => Fresh'
  BY DEF Fresh
<1>6. ASSUME app' = "Running", ~flags'.intentional, ~flags'.delayed PROVE Fresh'
  BY <1>6 DEF Fresh
<1>7. ASSUME app' = "Running", asked' PROVE Fresh'
  BY <1>7 DEF Fresh
<1>8. CASE ClickStop \/ AskStop
  BY <1>1, <1>2, <1>8, FreshKept DEF ClickStop, AskStop
<1>9. CASE StopAnswered
  <2>1. app' = "Running" /\ stack # <<>> /\ UNCHANGED <<proc, asked>> /\ ~InnermostAt("stopNow")
    BY <1>2, <1>9 DEF StopAnswered
  <2>2. CASE stack' = Tail(stack) /\ UNCHANGED flags
    BY <2>1, <2>2, FreshKept
  <2>3. CASE /\ \E nicely \in BOOLEAN : flags' = [flags EXCEPT !.delayed = nicely \/ @]
             /\ stack' = <<[Head(stack) EXCEPT !.at = "stopNow"]>> \o Tail(stack)
    <3>1. flags'.intentional = flags.intentional
      BY <1>3, <2>3 DEF FlagsType
    <3>2. PICK f : f = [Head(stack) EXCEPT !.at = "stopNow"]
      OBVIOUS
    <3>3. f.at = "stopNow" /\ <<f>> \o Tail(stack) # <<>> /\ Head(<<f>> \o Tail(stack)) = f
      BY <2>1, <3>2, GoesOn
    <3>4. InnermostAt("stopNow")'
      BY <2>3, <3>2, <3>3 DEF InnermostAt
    <3> QED BY <2>1, <3>1, <3>4 DEF Fresh
  <2> QED BY <1>9, <2>2, <2>3 DEF StopAnswered
<1>10. CASE ShutdownNow
  <2>1. app' = "Running" /\ asked'
    BY <1>2, <1>10 DEF ShutdownNow, StopFails
  <2> QED BY <1>7, <2>1
<1>11. CASE StopNow
  <2>1. (app' = "Running" /\ asked') \/ proc' = "NotRunning"
    BY <1>2, <1>11 DEF StopNow, StopFails, StopProcess, OnStopped
  <2> QED BY <1>5, <1>7, <2>1
<1>12. CASE StopFailedAnswered
  <2>1. ~flags'.intentional /\ ~flags'.delayed /\ app' = "Running"
    BY <1>2, <1>3, <1>12 DEF StopFailedAnswered, FlagsType
  <2> QED BY <1>6, <2>1
<1>13. CASE ClickStart \/ StartAgain
  <2>1. PICK rest \in Seq(Frames) : Start(rest)
    <3>1. <<>> \in Seq(Frames)
      OBVIOUS
    <3>2. ClickStart => Start(<<>>)
      BY DEF ClickStart
    <3>3. StartAgain => stack # <<>> /\ Start(Tail(stack))
      BY DEF StartAgain, At
    <3> QED BY <1>4, <1>13, <3>1, <3>2, <3>3
  <2>2. app' = "Running"
    BY <1>1, <1>2, <1>13 DEF ClickStart, StartAgain
  <2>3. (~flags'.intentional /\ ~flags'.delayed) \/ proc' = "Starting"
    BY <2>1, StartIs
  <2> QED BY <1>6, <2>2, <2>3 DEF Fresh
<1>14. CASE Restart \/ ConnectFailedAnswered
  <2>1. app = "Running" /\ ~InnermostAt("stopNow")
    BY <1>1, <1>2, <1>14 DEF Restart, ConnectFailedAnswered
  <2>2. CASE StopProcess(flags)
    BY <1>5, <2>2 DEF StopProcess, OnStopped
  <2>3. CASE UNCHANGED <<flags, app, proc>> /\ (asked' \/ asked' = asked)
    BY <2>1, <2>3, FreshKept
  <2> QED BY <1>14, <2>2, <2>3 DEF Restart, ConnectFailedAnswered
<1>15. CASE Close
  <2>1. Idle /\ UNCHANGED <<flags, proc, asked>> /\ (stack' = stack \/ app' = app)
    BY <1>15 DEF Close
  <2> QED BY <1>1, <2>1 DEF Fresh, Idle, InnermostAt
<1>16. CASE ProcStarted
  <2>1. app' = "Running"
    BY <1>1, <1>16 DEF ProcStarted
  <2>2. ~flags'.intentional /\ ~flags'.delayed
    BY <1>3, <1>16, StartedIs DEF ProcStarted
  <2> QED BY <1>6, <2>1, <2>2
<1>17. CASE ProcFailsToStart \/ ProcFinished
  BY <1>5, <1>17 DEF ProcFailsToStart, ProcFinished, OnStopped
<1>18. CASE AboutToQuit
  <2>1. CASE StopProcess(flags)
    BY <1>5, <2>1 DEF StopProcess, OnStopped
  <2>2. CASE UNCHANGED <<ui, flags, proc, conn>>
    BY <1>18, <2>2 DEF AboutToQuit, Fresh, InnermostAt
  <2> QED BY <1>18, <2>1, <2>2 DEF AboutToQuit
<1>19. CASE CookieAnswered \/ AuthFailedAnswered
  BY <1>2, <1>19, FreshKept DEF CookieAnswered, AuthFailedAnswered
<1>20. CASE NewIdentity \/ EnableNewIdentity \/ Connected \/ CircuitEstablished \/ ConnectFailed
  BY <1>1, <1>20, FreshKept
     DEF NewIdentity, EnableNewIdentity, Connected, CircuitEstablished, ConnectFailed
<1>21. CASE Disconnected
  <2>1. /\ flags'.intentional = flags.intentional /\ flags'.delayed = flags.delayed
        /\ UNCHANGED <<proc, asked, app, stack>> /\ app = "Running"
    BY <1>1, <1>3, <1>21 DEF Disconnected, FlagsType
  <2> QED BY <2>1 DEF Fresh, InnermostAt
<1>22. CASE ControlThread
  BY <1>22, FreshKept DEF ControlThread, DialSucceeds, DialFails, LinkDown, ThreadEnds, ReportCircuit,
                          guiVars
<1>23. CASE Tors
  BY <1>23, FreshKept DEF Tors, TorExits, TorCloses, ExternalStarts, ExternalStops, guiVars
<1>24. CASE UNCHANGED vars
  BY <1>24, FreshKept DEF vars, guiVars
<1> QED BY <1>8, <1>9, <1>10, <1>11, <1>12, <1>13, <1>14, <1>15, <1>16, <1>17, <1>18, <1>19, <1>20,
           <1>21, <1>22, <1>23, <1>24
        DEF Next, User, Answers, Stopping, Process, ConnectionSignals

LEMMA InitFresh == Init => Fresh
BY DEF Init, Fresh

LEMMA FreshMeans == TypeOK /\ Fresh => FlagsAreFresh
<1> SUFFICES ASSUME TypeOK, Fresh, InnermostAt("stopNow") PROVE BeingStopped
  BY DEF Fresh, FlagsAreFresh
<1>1. Len(stack) \in Nat /\ 1 <= Len(stack) /\ stack[1] = Head(stack)
  BY Dequeued DEF TypeOK, InnermostAt
<1>2. 1 \in 1 .. Len(stack)
  BY <1>1
<1> QED BY <1>1, <1>2 DEF BeingStopped, InnermostAt

\* The flags say of a process that has started only what was asked of it, whatever slots
\* waited in a message box as it started: an exit that nobody asked for is reported.
THEOREM FlagsOfThisProcess == Spec => []FlagsAreFresh
BY InitTypeOK, StepTypeOK, InitFresh, StepFresh, FreshMeans, PTL DEF Spec

------------------------------------------------------------------------------
(* New Identity *)

Offered == identity /\ app # "Gone" => Live(conn) \/ "disconnected" \in ToSet(queue)
Identity == Sound(conn) /\ Offered

\* A slot that leaves the queue alone, or takes a signal other than "disconnected".
LEMMA IdentityKept ==
    ASSUME TypeOK, Identity, Keeps(conn, conn'), app = "Gone" => app' = "Gone",
           identity' \in {identity, FALSE} \/ Live(conn),
           "disconnected" \in ToSet(queue) => "disconnected" \in ToSet(queue') \/ ~identity'
    PROVE  Identity'
<1>1. Sound(conn') /\ (Live(conn) => Live(conn'))
  BY DEF Identity, Keeps
<1>2. Offered'
  BY <1>1 DEF Identity, Offered
<1> QED BY <1>1, <1>2 DEF Identity

LEMMA StepIdentity == TypeOK /\ Identity /\ [Next]_vars => Identity'
<1> SUFFICES ASSUME TypeOK, Identity, [Next]_vars PROVE Identity'
  OBVIOUS
<1>1. AtLoop \/ Idle \/ (\E f : At(f)) => app # "Gone"
  BY DEF AtLoop, Idle, At
<1>2. conn \in Connections /\ stack \in Seq(Frames) /\ flags \in FlagsType /\ ui \in Buttons
      /\ Sound(conn)
  BY DEF TypeOK, Identity
<1>3. stack # <<>> => Tail(stack) \in Seq(Frames)
  BY Below
<1>4. Keeps(conn, conn)
  BY <1>2, KeepsAre
<1>5. ASSUME Keeps(conn, conn'), app # "Gone", UNCHANGED queue,
             identity' \in {identity, FALSE} \/ Live(conn)
      PROVE  Identity'
  BY <1>5, IdentityKept
<1>6. ASSUME queue # <<>>, queue' = Tail(queue), Head(queue) # "disconnected" \/ ~identity'
      PROVE  "disconnected" \in ToSet(queue) => "disconnected" \in ToSet(queue') \/ ~identity'
  BY <1>6, UnqueueIs
<1>7. CASE ClickStop \/ AskStop \/ StopAnswered \/ ShutdownNow \/ StopFailedAnswered \/ Close
  BY <1>1, <1>4, <1>5, <1>7 DEF ClickStop, AskStop, StopAnswered, ShutdownNow, StopFails,
                                StopFailedAnswered, Close
<1>8. CASE StopNow
  <2>1. PICK meant : meant = [flags EXCEPT !.intentional = TRUE]
    OBVIOUS
  <2>2. meant \in FlagsType
    BY <1>2, <2>1 DEF FlagsType
  <2>3. StopProcess(meant) \/ UNCHANGED conn
    BY <1>8, <2>1 DEF StopNow, StopFails
  <2>4. Keeps(conn, conn')
    BY <1>4, <2>2, <2>3, StopProcessIs
  <2>5. app # "Gone" /\ UNCHANGED <<identity, queue>>
    BY <1>1, <1>8 DEF StopNow
  <2> QED BY <1>5, <2>4, <2>5
<1>9. CASE ClickStart \/ StartAgain
  <2>1. PICK rest \in Seq(Frames) : Start(rest)
    <3>1. <<>> \in Seq(Frames)
      OBVIOUS
    <3>2. ClickStart => Start(<<>>)
      BY DEF ClickStart
    <3>3. StartAgain => stack # <<>> /\ Start(Tail(stack))
      BY DEF StartAgain, At
    <3> QED BY <1>3, <1>9, <3>1, <3>2, <3>3
  <2>2. app # "Gone" /\ UNCHANGED <<identity, queue>>
    BY <1>1, <1>9 DEF ClickStart, StartAgain
  <2>3. Keeps(conn, conn')
    BY <2>1, StartIs
  <2> QED BY <1>5, <2>2, <2>3
<1>10. CASE Restart \/ ConnectFailedAnswered
  <2>1. app # "Gone" /\ UNCHANGED <<identity, queue>>
    BY <1>1, <1>10 DEF Restart, ConnectFailedAnswered
  <2>2. StopProcess(flags) \/ UNCHANGED conn \/ conn' = Connecting(conn)
    BY <1>10 DEF Restart, ConnectFailedAnswered
  <2>3. Keeps(conn, conn')
    BY <1>2, <1>4, <2>2, StopProcessIs, KeepsAre
  <2> QED BY <1>5, <2>1, <2>3
<1>11. CASE ProcStarted
  <2>1. app # "Gone" /\ UNCHANGED <<identity, queue>>
    BY <1>1, <1>11 DEF ProcStarted
  <2>2. Keeps(conn, conn')
    BY <1>2, <1>11, StartedIs DEF ProcStarted
  <2> QED BY <1>5, <2>1, <2>2
<1>12. CASE ProcFailsToStart
  BY <1>1, <1>4, <1>5, <1>12 DEF ProcFailsToStart
<1>13. CASE ProcFinished
  <2>1. app # "Gone" /\ UNCHANGED <<identity, queue>>
    BY <1>1, <1>13 DEF ProcFinished
  <2>2. Keeps(conn, conn')
    BY <1>13, OnStoppedIs DEF ProcFinished
  <2> QED BY <1>5, <2>1, <2>2
<1>14. CASE AboutToQuit
  <2>1. Keeps(conn, conn')
    BY <1>2, <1>4, <1>14, StopProcessIs DEF AboutToQuit
  <2> QED BY <1>2, <1>14, <2>1 DEF AboutToQuit, Identity, Offered, Keeps
<1>15. CASE Connected \/ CookieAnswered
  <2>1. PICK rest \in Seq(Frames), shown \in Buttons : Authenticate(shown, rest)
    <3>1. Shown("Authenticating") \in Buttons
      BY Showing DEF TorStatuses
    <3>2. CookieAnswered => stack # <<>>
      BY DEF CookieAnswered, At
    <3> QED BY <1>2, <1>3, <1>15, <3>1, <3>2 DEF Connected, CookieAnswered
  <2>2. Keeps(conn, conn') /\ (identity' = identity \/ conn.link \in {"ours", "ext"})
    BY <2>1, AuthenticateIs
  <2>3. conn.link \in {"ours", "ext"} => Live(conn)
    BY <1>2 DEF Sound, Live
  <2>4. app # "Gone" /\ UNCHANGED app
    BY <1>1, <1>15 DEF Connected, CookieAnswered
  <2>5. \/ UNCHANGED queue
        \/ queue # <<>> /\ queue' = Tail(queue) /\ Head(queue) # "disconnected"
    BY <1>15 DEF Connected, CookieAnswered
  <2> QED BY <1>6, <2>2, <2>3, <2>4, <2>5, IdentityKept
<1>16. CASE AuthFailedAnswered
  <2>1. PICK rest : /\ rest = Tail(stack) \/ rest = <<Frame("start")>> \o Tail(stack)
                    /\ IF IsRunning THEN GiveUp(rest) ELSE stack' = rest /\ UNCHANGED conn
    BY <1>16 DEF AuthFailedAnswered
  <2>2. Keeps(conn, conn')
    BY <1>2, <1>4, <2>1, KeepsAre DEF GiveUp
  <2> QED BY <1>1, <1>5, <1>16, <2>2 DEF AuthFailedAnswered
<1>17. CASE CircuitEstablished \/ Disconnected \/ ConnectFailed
  <2>1. /\ queue # <<>> /\ queue' = Tail(queue) /\ UNCHANGED <<app, conn>>
        /\ \/ Head(queue) # "disconnected" /\ UNCHANGED identity
           \/ identity' = FALSE
    BY <1>17 DEF CircuitEstablished, Disconnected, ConnectFailed
  <2> QED BY <1>4, <1>6, <2>1, IdentityKept
<1>18. CASE NewIdentity
  BY <1>1, <1>4, <1>5, <1>18 DEF NewIdentity
<1>19. CASE EnableNewIdentity
  <2>1. conn.status = "Connected" \/ identity' = identity
    BY <1>19 DEF EnableNewIdentity, MayEnableIdentity, TypeOK
  <2> QED BY <1>1, <1>4, <1>5, <1>19, <2>1 DEF EnableNewIdentity, Live
<1>20. CASE DialSucceeds
  <2>1. PICK peer \in {"ours", "ext"} :
           conn' = [conn EXCEPT !.status = "Connected", !.link = peer,
                                !.late = @ \/ conn.thread = "Exiting"]
    BY <1>20 DEF DialSucceeds
  <2>2. conn.link = "Dialing" /\ UNCHANGED guiVars
    BY <1>20 DEF DialSucceeds
  <2>3. Live(conn') /\ Sound(conn')
    BY <1>2, <2>1, <2>2 DEF Connections, Live, Sound
  <2>4. Live(conn)' /\ Sound(conn)'
    BY <2>3 DEF Live, Sound
  <2> QED BY <2>4 DEF Identity, Offered
<1>21. ASSUME UNCHANGED guiVars, Keeps(conn, conn'), UNCHANGED queue \/ \E x \in Signals : Queue(x)
       PROVE  Identity'
  <2>1. "disconnected" \in ToSet(queue) => "disconnected" \in ToSet(queue')
    BY <1>21, QueueIs
  <2>2. UNCHANGED <<app, identity>>
    BY <1>21 DEF guiVars
  <2> QED BY <1>21, <2>1, <2>2, IdentityKept
<1>22. CASE DialFails
  <2>1. Keeps(conn, conn')
    BY <1>2, <1>22 DEF DialFails, Connections, Keeps, Live, Sound
  <2> QED BY <1>21, <1>22, <2>1 DEF DialFails, Signals
<1>23. CASE LinkDown
  <2>1. conn' = [conn EXCEPT !.status = "Disconnected", !.link = "Failed", !.thread = "Exiting"]
        /\ Queue("disconnected")
    BY <1>23 DEF LinkDown
  <2>2. "disconnected" \in ToSet(queue')
    BY <2>1, QueueIs DEF Signals
  <2>3. Sound(conn)'
    BY <1>2, <2>1 DEF Connections, Sound
  <2> QED BY <2>2, <2>3 DEF Identity, Offered
<1>24. CASE ThreadEnds
  <2>1. Keeps(conn, conn')
    BY <1>2, <1>24 DEF ThreadEnds, Connections, Keeps, Live, Sound
  <2> QED BY <1>21, <1>24, <2>1 DEF ThreadEnds
<1>25. CASE ReportCircuit
  BY <1>4, <1>21, <1>25 DEF ReportCircuit, Signals
<1>26. CASE Tors
  <2>1. \A peer \in {"ours", "ext"} : Lose(peer) => Keeps(conn, conn')
    BY <1>2 DEF Lose, Connections, Keeps, Live, Sound
  <2>2. Keeps(conn, conn') /\ UNCHANGED <<guiVars, queue>>
    BY <1>4, <1>26, <2>1 DEF Tors, TorExits, TorCloses, ExternalStarts, ExternalStops
  <2> QED BY <1>21, <2>2
<1>27. CASE UNCHANGED vars
  BY <1>4, <1>21, <1>27 DEF vars
<1> QED BY <1>7, <1>8, <1>9, <1>10, <1>11, <1>12, <1>13, <1>14, <1>15, <1>16, <1>17, <1>18, <1>19,
           <1>20, <1>22, <1>23, <1>24, <1>25, <1>26, <1>27
        DEF Next, User, Answers, Stopping, Process, ConnectionSignals, ControlThread

LEMMA InitIdentity == Init => Identity
BY DEF Init, Identity, Sound, Offered, Quiet

LEMMA IdentityMeans == TypeOK /\ Identity => IdentityNeedsConnection
BY DEF Identity, Offered, Live, IdentityNeedsConnection

\* New Identity is offered only while Tor can be asked for it, or until the news of the loss
\* has been handled: a connection that bytes travel on is live, and one that dies queues the
\* news, unless its thread had been told to exit while it was still dialing.
THEOREM IdentityIsOffered == Spec => []IdentityNeedsConnection
BY InitTypeOK, StepTypeOK, InitIdentity, StepIdentity, IdentityMeans, PTL DEF Spec

------------------------------------------------------------------------------
(* The other programs that the main window starts (module HelperProcesses) *)

Kinds == {"available", "upToDate", "failed"}
Processes == {"NotRunning", "Starting", "Running"}

\* The state has its types.
UpdaterType ==
    /\ job \in {"none", "check", "install"} /\ command \in {"none", "check", "install"}
    /\ packages \in 0 .. MaxPackages
    /\ progress \in [visible : BOOLEAN, status : Statuses, cancel : BOOLEAN]
    /\ timer \in BOOLEAN
    /\ checks \in 0 .. MaxChecks /\ overlap \in BOOLEAN
    /\ silent \subseteq {"check", "install"} /\ installed \in BOOLEAN
BoxesType == boxes \in Seq(Kinds) /\ Len(boxes) <= MaxDepth
ProgramsType ==
    /\ tor \in {"none", "runs", "halting"}
    /\ restart \in BOOLEAN /\ owed \in BOOLEAN /\ hasty \in BOOLEAN
    /\ browser \in Processes /\ im \in Processes
    /\ forked \in BOOLEAN /\ watched \in BOOLEAN /\ quit \in BOOLEAN
    /\ left \in BOOLEAN /\ relaunched \in BOOLEAN /\ unstarted \in BOOLEAN
HelpersType == UpdaterType /\ BoxesType /\ ProgramsType

\* Available updates are shown while the updater works, or twice, only if a check was begun
\* while they were; and only then does _currentCommand not say what the updater does.
Asked(i) == boxes[i] = "available"
Alone ==
    /\ job = "install" => command = "install"
    /\ job = "check" /\ command # "check" => overlap
    /\ \A i \in DOMAIN boxes : Asked(i) /\ job # "none" => overlap
    /\ \A i, j \in DOMAIN boxes : Asked(i) /\ Asked(j) /\ i # j => overlap

\* A visible dialog that has not come to its end has an updater, available updates that are
\* shown above it, or an updater that ended without a word.
Explained ==
    /\ progress.status = "Installed" => installed \/ overlap
    /\ progress.visible /\ progress.status # "Installed" =>
          job # "none" \/ (\E i \in DOMAIN boxes : Asked(i)) \/ silent # {}

\* A Tor that was stopped is to be restarted at the end of the installation that runs.
Owing == owed => (job = "install" /\ restart) \/ "install" \in silent \/ hasty \/ overlap

LEMMA BoxOpened ==
    ASSUME BoxesType, NEW b \in Kinds, Opens(b)
    PROVE  /\ BoxesType'
           /\ Len(boxes) \in Nat /\ DOMAIN boxes = 1 .. Len(boxes)
           /\ DOMAIN boxes' = 1 .. Len(boxes) + 1 /\ boxes'[Len(boxes) + 1] = b
           /\ \A i \in 1 .. Len(boxes) : boxes'[i] = boxes[i]
<1>1. boxes \in Seq(Kinds) /\ boxes' = Append(boxes, b) /\ Len(boxes) < MaxDepth /\ MaxDepth \in Nat
  BY HelperAssumption DEF BoxesType, Opens
<1>2. Len(boxes') <= MaxDepth
  BY <1>1, Pushed
<1> QED BY <1>1, <1>2, Pushed DEF BoxesType

LEMMA BoxClosed ==
    ASSUME BoxesType, boxes # <<>>, boxes' = Beneath
    PROVE  /\ BoxesType'
           /\ Len(boxes) \in Nat /\ 1 <= Len(boxes) /\ DOMAIN boxes = 1 .. Len(boxes)
           /\ DOMAIN boxes' = 1 .. Len(boxes) - 1
           /\ \A i \in 1 .. Len(boxes) - 1 : boxes'[i] = boxes[i]
           /\ Top = boxes[Len(boxes)]
<1>1. boxes \in Seq(Kinds) /\ boxes' = SubSeq(boxes, 1, Len(boxes) - 1)
  BY DEF BoxesType, Beneath, Front
<1>2. Len(boxes) \in Nat /\ MaxDepth \in Nat /\ Len(boxes) <= MaxDepth
  BY <1>1, HelperAssumption DEF BoxesType
<1>3. Len(boxes') = Len(boxes) - 1
  BY <1>1, Popped
<1>4. Len(boxes') <= MaxDepth
  BY <1>2, <1>3
<1> QED BY <1>1, <1>4, Popped DEF BoxesType, Top, Last

\* What the updater is told to do, it does, or has been doing before, or does not start.
LEMMA StartsIs ==
    ASSUME UpdaterType, NEW what \in {"check", "install"}, Starts(what)
    PROVE  /\ command' = what /\ job' \in {job, what} /\ silent' \subseteq {"check", "install"}
           /\ job # "none" => job' = job /\ silent' = silent
           /\ job = "none" /\ job' = "none" => what \in silent'
           /\ \A x \in silent : x \in silent' \/ x = what
           /\ what = "install" /\ owed => silent \subseteq silent'
BY DEF UpdaterType, Starts

LEMMA StatusIs ==
    ASSUME UpdaterType, NEW status \in Statuses
    PROVE  /\ WithStatus(progress, status) \in [visible : BOOLEAN, status : Statuses, cancel : BOOLEAN]
           /\ WithStatus(progress, status).status = status
           /\ WithStatus(progress, status).visible = progress.visible
BY DEF UpdaterType, WithStatus, Statuses

LEMMA ShownIs ==
    ASSUME NEW p \in [visible : BOOLEAN, status : Statuses, cancel : BOOLEAN]
    PROVE  /\ MadeVisible(p) \in [visible : BOOLEAN, status : Statuses, cancel : BOOLEAN]
           /\ Hidden(p) \in [visible : BOOLEAN, status : Statuses, cancel : BOOLEAN]
           /\ MadeVisible(p).status = p.status /\ MadeVisible(p).visible
           /\ Hidden(p).status = p.status /\ ~Hidden(p).visible
BY DEF MadeVisible, Hidden

\* checkForUpdates() leaves a dialog that is shown to the updater that runs.
LEMMA CheckIs ==
    ASSUME UpdaterType, NEW showProgress \in BOOLEAN, CheckForUpdates(showProgress)
    PROVE  /\ job' \in {job, "check"} /\ command' \in {command, "check"}
           /\ progress' \in [visible : BOOLEAN, status : Statuses, cancel : BOOLEAN]
           /\ checks' \in 0 .. MaxChecks /\ overlap' \in BOOLEAN /\ silent' \subseteq {"check", "install"}
           /\ job # "none" => UNCHANGED <<job, command, silent, checks, overlap>> /\ progress'.status = progress.status
           /\ job = "none" => command' = "check" /\ progress'.status \in {progress.status, "Checking"}
           /\ job = "none" /\ job' = "none" => "check" \in silent'
           /\ overlap' = (overlap \/ (job = "none" /\ Contains(boxes, "available")))
           /\ \A x \in silent : x \in silent' \/ x = "check"
<1>1. CASE job # "none"
  <2>1. /\ progress' = IF showProgress THEN MadeVisible(progress) ELSE progress
        /\ UNCHANGED <<job, command, silent, checks, overlap>>
    BY <1>1 DEF CheckForUpdates, UpdaterIsRunning
  <2>2. progress' \in [visible : BOOLEAN, status : Statuses, cancel : BOOLEAN]
        /\ progress'.status = progress.status
    BY <2>1, ShownIs DEF UpdaterType
  <2>3. overlap' = (overlap \/ (job = "none" /\ Contains(boxes, "available")))
    BY <1>1, <2>1 DEF UpdaterType
  <2> QED BY <1>1, <2>1, <2>2, <2>3 DEF UpdaterType
<1>2. CASE job = "none"
  <2>1. checks < MaxChecks /\ checks' = checks + 1 /\ Starts("check")
        /\ overlap' = (overlap \/ Contains(boxes, "available"))
    BY <1>2 DEF CheckForUpdates, UpdaterIsRunning
  <2>2. checks' \in 0 .. MaxChecks
    BY <2>1, HelperAssumption DEF UpdaterType
  <2>3. "Checking" \in Statuses
    BY DEF Statuses
  <2>4. PICK p \in [visible : BOOLEAN, status : Statuses, cancel : BOOLEAN] :
           p = WithStatus(progress, "Checking") /\ p.status = "Checking"
    BY <2>3, StatusIs
  <2>5. progress' = IF showProgress THEN MadeVisible(p) ELSE p
    BY <1>2, <2>4 DEF CheckForUpdates, UpdaterIsRunning
  <2>6. progress' \in [visible : BOOLEAN, status : Statuses, cancel : BOOLEAN]
        /\ progress'.status = "Checking"
    BY <2>4, <2>5, ShownIs
  <2>7. overlap' \in BOOLEAN
    BY <2>1 DEF UpdaterType, Contains
  <2> QED BY <1>2, <2>1, <2>2, <2>6, <2>7, StartsIs
<1> QED BY <1>1, <1>2

------------------------------------------------------------------------------
LEMMA OpenedAsked ==
    ASSUME BoxesType, Alone, NEW b \in Kinds, Opens(b), job' = "none" \/ b # "available",
           overlap' \in BOOLEAN, overlap => overlap',
           job # "none" => job' \in {job, "none"} /\ command' = command, job = "none" => job' = "none",
           b = "available" => job # "none"
    PROVE  /\ Alone' /\ \E i \in DOMAIN boxes' : boxes'[i] = b
           /\ (\E i \in DOMAIN boxes : Asked(i)) => (\E i \in DOMAIN boxes' : Asked(i)')
<1>1. /\ DOMAIN boxes = 1 .. Len(boxes) /\ Len(boxes) \in Nat
      /\ DOMAIN boxes' = 1 .. Len(boxes) + 1 /\ boxes'[Len(boxes) + 1] = b
      /\ \A i \in 1 .. Len(boxes) : boxes'[i] = boxes[i]
  BY BoxOpened
<1>2. \A i \in DOMAIN boxes' : boxes'[i] = "available" =>
          (i \in DOMAIN boxes /\ Asked(i)) \/ (i = Len(boxes) + 1 /\ b = "available")
  BY <1>1 DEF Asked
<1>3. \A i \in DOMAIN boxes' : Asked(i)' <=> boxes'[i] = "available"
  BY DEF Asked
<1>4. Alone'
  <2>1. \A i \in DOMAIN boxes' : Asked(i)' /\ job' # "none" => overlap'
    BY <1>2, <1>3 DEF Alone
  <2>2. \A i, j \in DOMAIN boxes' : Asked(i)' /\ Asked(j)' /\ i # j => overlap'
    BY <1>2, <1>3 DEF Alone
  <2>3. (job' = "install" => command' = "install") /\ (job' = "check" /\ command' # "check" => overlap')
    BY DEF Alone
  <2> QED BY <2>1, <2>2, <2>3 DEF Alone
<1>5. \A i \in DOMAIN boxes : Asked(i) => i \in DOMAIN boxes' /\ Asked(i)'
  BY <1>1, <1>3 DEF Asked
<1>6. Len(boxes) + 1 \in DOMAIN boxes'
  BY <1>1
<1> QED BY <1>1, <1>4, <1>5, <1>6

LEMMA StayAlone ==
    ASSUME Alone, boxes' = boxes, overlap => overlap', job' \in {job, "none"},
           job' # "none" => command' = command
    PROVE  Alone' /\ \A i \in DOMAIN boxes : Asked(i)' <=> Asked(i)
<1>1. \A i \in DOMAIN boxes : Asked(i)' <=> Asked(i)
  BY DEF Asked
<1> QED BY <1>1 DEF Alone

LEMMA CheckAlone ==
    ASSUME UpdaterType, BoxesType, Alone, boxes' = boxes, NEW showProgress \in BOOLEAN,
           CheckForUpdates(showProgress)
    PROVE  Alone'
<1>1. \A i \in DOMAIN boxes : Asked(i)' <=> Asked(i)
  BY DEF Asked
<1>2. DOMAIN boxes = 1 .. Len(boxes)
  BY DEF BoxesType
<1>3. Contains(boxes, "available") <=> \E i \in DOMAIN boxes : Asked(i)
  BY <1>2 DEF Contains, Asked
<1>4. CASE job # "none"
  <2>1. UNCHANGED <<job, command, overlap>>
    BY <1>4, CheckIs
  <2> QED BY <2>1, StayAlone
<1>5. CASE job = "none"
  <2>1. /\ job' \in {"none", "check"} /\ command' = "check"
        /\ overlap' = (overlap \/ Contains(boxes, "available"))
    BY <1>5, CheckIs
  <2>2. overlap => overlap'
    BY <2>1
  <2>3. \A i \in DOMAIN boxes' : Asked(i)' => overlap'
    BY <1>1, <1>3, <2>1
  <2> QED BY <2>1, <2>2, <2>3 DEF Alone
<1> QED BY <1>4, <1>5

\* An answer to the dialog on top.
LEMMA ClosedAlone ==
    ASSUME BoxesType, Alone, boxes # <<>>, boxes' = Beneath, overlap' = overlap
    PROVE  /\ \A i, j \in DOMAIN boxes' : Asked(i)' /\ Asked(j)' /\ i # j => overlap'
           /\ Top # "available" => \A i \in DOMAIN boxes : Asked(i) => i \in DOMAIN boxes' /\ Asked(i)'
           /\ Top = "available" =>
                 /\ job # "none" => overlap
                 /\ \A i \in DOMAIN boxes' : Asked(i)' => overlap
           /\ \A i \in DOMAIN boxes' : i \in DOMAIN boxes /\ (Asked(i)' <=> Asked(i))
<1>1. /\ Len(boxes) \in Nat /\ 1 <= Len(boxes) /\ DOMAIN boxes = 1 .. Len(boxes)
      /\ DOMAIN boxes' = 1 .. Len(boxes) - 1
      /\ \A i \in 1 .. Len(boxes) - 1 : boxes'[i] = boxes[i]
      /\ Top = boxes[Len(boxes)]
  BY BoxClosed
<1>2. \A i \in DOMAIN boxes' : i \in DOMAIN boxes /\ i # Len(boxes) /\ (Asked(i)' <=> Asked(i))
  BY <1>1 DEF Asked
<1>3. \A i, j \in DOMAIN boxes' : Asked(i)' /\ Asked(j)' /\ i # j => overlap'
  BY <1>2 DEF Alone
<1>4. ASSUME Top # "available", NEW i \in DOMAIN boxes, Asked(i) PROVE i \in DOMAIN boxes' /\ Asked(i)'
  <2>1. i # Len(boxes)
    BY <1>1, <1>4 DEF Asked
  <2>2. i \in DOMAIN boxes'
    BY <1>1, <2>1
  <2> QED BY <1>2, <1>4, <2>2
<1>5. ASSUME Top = "available"
      PROVE  (job # "none" => overlap) /\ \A i \in DOMAIN boxes' : Asked(i)' => overlap
  <2>1. Len(boxes) \in DOMAIN boxes /\ Asked(Len(boxes))
    BY <1>1, <1>5 DEF Asked
  <2> QED BY <1>2, <2>1 DEF Alone
<1> QED BY <1>2, <1>3, <1>4, <1>5

\* The updater's part of the invariant.
Updating == UpdaterType /\ BoxesType /\ ProgramsType /\ Alone /\ Explained /\ Owing

LEMMA CheckSteps ==
    ASSUME Updating, CheckNow \/ TimerFires
    PROVE  Updating'
<1>1. /\ UNCHANGED <<packages, boxes, tor, restart, owed, hasty, browser, im, forked, watched, quit,
                     left, relaunched, unstarted, installed>>
      /\ timer' \in BOOLEAN
  BY DEF CheckNow, TimerFires, torside, helpers, UpdaterIsRunning,
         Updating, UpdaterType
<1>2. PICK showProgress \in BOOLEAN : CheckForUpdates(showProgress)
  BY DEF CheckNow, TimerFires
<1>3. Alone'
  BY <1>1, <1>2, CheckAlone DEF Updating
<1>4. UpdaterType' /\ BoxesType' /\ ProgramsType'
  BY <1>1, <1>2, CheckIs DEF Updating, UpdaterType, BoxesType, ProgramsType
<1>5. overlap => overlap'
  BY <1>2, CheckIs DEF Updating
<1>6. Explained'
  <2>1. \A i \in DOMAIN boxes : Asked(i)' <=> Asked(i)
    BY <1>1 DEF Asked
  <2>2. progress'.status = "Installed" => installed' \/ overlap'
    BY <1>1, <1>2, <1>5, CheckIs DEF Updating, Explained
  <2>3. job' # "none" \/ silent' # {} \/ (job # "none" /\ job' = job)
    BY <1>2, CheckIs DEF Updating
  <2> QED BY <1>1, <2>1, <2>2, <2>3 DEF Explained
<1>7. Owing'
  BY <1>1, <1>2, <1>5, CheckIs DEF Updating, Owing
<1> QED BY <1>3, <1>4, <1>6, <1>7 DEF Updating

LEMMA DialogSteps ==
    ASSUME Updating, Hide \/ Cancel \/ NamesPackage \/ DownloadProgress
    PROVE  Updating'
<1>1. /\ UNCHANGED <<command, boxes, timer, tor, restart, owed, hasty, browser, im, forked, watched, quit,
                     left, relaunched, unstarted, checks, overlap, silent, installed>>
      /\ job' = job \/ (job' = "none" /\ command = "check" /\ ~progress'.visible)
  BY ShownIs DEF Hide, Cancel, NamesPackage, DownloadProgress, updater,
         window, torside, helpers, checking, outcome, Updating, UpdaterType
<1>2. /\ progress' \in [visible : BOOLEAN, status : Statuses, cancel : BOOLEAN]
      /\ progress'.visible => progress.visible
      /\ progress'.status = progress.status \/ (job # "none" /\ progress'.status = "Downloading")
  <2>1. CASE Hide \/ Cancel
    BY <2>1, ShownIs DEF Hide, Cancel, Updating, UpdaterType
  <2>2. CASE NamesPackage
    BY <2>2 DEF NamesPackage, window, Updating, UpdaterType
  <2>3. CASE DownloadProgress
    BY <2>3, StatusIs DEF DownloadProgress, Statuses, Updating
  <2> QED BY <2>1, <2>2, <2>3
<1>3. packages' \in 0 .. MaxPackages
  BY HelperAssumption DEF Hide, Cancel, NamesPackage, DownloadProgress, updater, Updating, UpdaterType
<1>4. UpdaterType' /\ BoxesType' /\ ProgramsType'
  BY <1>1, <1>2, <1>3 DEF Updating, UpdaterType, BoxesType, ProgramsType
<1>5. Alone' /\ \A i \in DOMAIN boxes : Asked(i)' <=> Asked(i)
  BY <1>1, StayAlone DEF Updating
<1>6. Explained'
  BY <1>1, <1>2, <1>5 DEF Updating, Explained
<1>7. Owing'
  BY <1>1 DEF Updating, Owing, Alone
<1> QED BY <1>4, <1>5, <1>6, <1>7 DEF Updating

LEMMA InstallFailsStep ==
    ASSUME Updating, InstallFails
    PROVE  Updating'
<1>1. /\ UNCHANGED <<job, command, packages, timer, tor, restart, owed, hasty, browser, im, forked, watched, quit,
                     left, relaunched, unstarted, checks, overlap, silent, installed>>
      /\ Opens("failed") /\ "failed" \in Kinds /\ job = "install"
  BY DEF InstallFails, updater, torside, helpers, checking,
         outcome, Kinds
<1>2. /\ progress' \in [visible : BOOLEAN, status : Statuses, cancel : BOOLEAN]
      /\ progress'.status = progress.status /\ ~progress'.visible
  BY ShownIs DEF InstallFails, Updating, UpdaterType
<1>3. UpdaterType' /\ BoxesType' /\ ProgramsType'
  BY <1>1, <1>2, BoxOpened DEF Updating, UpdaterType, ProgramsType
<1>4. Alone'
  BY <1>1, OpenedAsked DEF Updating, UpdaterType
<1>5. Explained' /\ Owing'
  BY <1>1, <1>2 DEF Updating, Explained, Owing
<1> QED BY <1>3, <1>4, <1>5 DEF Updating

\* start() of the main window: a Tor that was to be restarted runs, or the one that halts is
\* taken for it.
LEMMA StartTorIs ==
    ASSUME ProgramsType, StartTor
    PROVE  /\ tor' \in {"none", "runs", "halting"} /\ owed' \in BOOLEAN /\ hasty' \in BOOLEAN
           /\ hasty => hasty'
           /\ owed' => owed /\ (restart => hasty')
BY DEF ProgramsType, StartTor, LeaveTor

LEMMA FinishedStep ==
    ASSUME Updating, NEW exit \in {"0", "1", "crash"}, Finished(exit)
    PROVE  Updating'
<1>1. /\ UNCHANGED <<command, timer, browser, im, forked, watched, quit, left, relaunched, unstarted,
                     checks, overlap>>
      /\ job # "none" /\ job' = "none" /\ installed' = (installed \/ (job = "install" /\ exit = "0"))
  BY DEF Finished, helpers, checking
<1>2. installed' \in BOOLEAN /\ (installed => installed')
  BY <1>1 DEF Updating, UpdaterType
<1>3. CASE command = "check" /\ exit # "crash" /\ UpdatesAvailable /\ UNCHANGED <<torside, silent>>
  <2>1. UNCHANGED <<tor, restart, owed, hasty, silent>>
    BY <1>3 DEF torside
  <2>2. Owing'
    BY <1>1, <1>3, <2>1 DEF Updating, Owing, Alone
  <2>3. ProgramsType'
    BY <1>1, <2>1 DEF Updating, ProgramsType
  <2>4. ASSUME Opens("available"), UNCHANGED <<progress, packages>> PROVE Updating'
    <3>1. "available" \in Kinds
      BY DEF Kinds
    <3>2. Alone' /\ \E i \in DOMAIN boxes' : boxes'[i] = "available"
      BY <1>1, <2>4, <3>1, OpenedAsked DEF Updating, UpdaterType
    <3>3. Explained'
      BY <1>1, <1>2, <2>4, <3>2 DEF Updating, Explained, Asked
    <3>4. UpdaterType' /\ BoxesType'
      BY <1>1, <1>2, <2>1, <2>4, <3>1, BoxOpened DEF Updating, UpdaterType
    <3> QED BY <2>2, <2>3, <3>2, <3>3, <3>4 DEF Updating
  <2>5. ASSUME progress' = Hidden(progress), Opens("upToDate"), UNCHANGED packages
        PROVE  Updating'
    <3>1. "upToDate" \in Kinds
      BY DEF Kinds
    <3>2. Alone'
      BY <1>1, <3>1, <2>5, OpenedAsked DEF Updating, UpdaterType
    <3>3. /\ progress' \in [visible : BOOLEAN, status : Statuses, cancel : BOOLEAN]
          /\ progress'.status = progress.status /\ ~progress'.visible
      BY <2>5, ShownIs DEF Updating, UpdaterType
    <3>4. Explained'
      BY <1>1, <1>2, <3>3 DEF Updating, Explained
    <3>5. UpdaterType' /\ BoxesType'
      BY <1>1, <1>2, <2>1, <2>5, <3>1, <3>3, BoxOpened DEF Updating, UpdaterType
    <3> QED BY <2>2, <2>3, <3>2, <3>4, <3>5 DEF Updating
  <2>6. ASSUME ~progress.visible, UNCHANGED <<progress, boxes, packages>> PROVE Updating'
    <3>1. Alone'
      BY <1>1, <2>6, StayAlone DEF Updating
    <3>2. Explained'
      BY <1>1, <1>2, <2>6 DEF Updating, Explained
    <3>3. UpdaterType' /\ BoxesType'
      BY <1>1, <1>2, <2>1, <2>6 DEF Updating, UpdaterType, BoxesType
    <3> QED BY <2>2, <2>3, <3>1, <3>2, <3>3 DEF Updating
  <2> QED BY <1>3, <2>4, <2>5, <2>6 DEF UpdatesAvailable
<1>4. CASE command = "install" /\ Succeeded(exit)
           /\ progress' = MadeVisible(WithStatus(progress, "Installed")) /\ packages' = 0
           /\ StartTor /\ UNCHANGED <<restart, boxes, silent>>
  <2>1. exit = "0"
    BY <1>4 DEF Succeeded
  <2>2. "Installed" \in Statuses
    BY DEF Statuses
  <2>3. /\ progress' \in [visible : BOOLEAN, status : Statuses, cancel : BOOLEAN]
        /\ progress'.status = "Installed"
    BY <1>4, <2>2, StatusIs, ShownIs DEF Updating
  <2>4. UpdaterType' /\ BoxesType' /\ ProgramsType'
    BY <1>1, <1>2, <1>4, <2>3, StartTorIs, HelperAssumption DEF Updating, UpdaterType, BoxesType, ProgramsType
  <2>5. Alone'
    BY <1>1, <1>4, StayAlone DEF Updating
  <2>6. Explained'
    BY <1>1, <1>4, <2>1, <2>3 DEF Updating, Explained, Alone, UpdaterType
  <2>7. Owing'
    BY <1>1, <1>4, StartTorIs DEF Updating, Owing
  <2> QED BY <2>4, <2>5, <2>6, <2>7 DEF Updating
<1>5. CASE /\ (command = "check" /\ exit = "crash") \/ (command = "install" /\ ~Succeeded(exit))
           /\ silent' = silent \cup {command} /\ packages' = 0
           /\ UNCHANGED <<progress, boxes, torside>>
  <2>1. UNCHANGED <<tor, restart, owed, hasty>> /\ command \in {"check", "install"} /\ command \in silent'
    BY <1>5 DEF torside
  <2>2. UpdaterType' /\ BoxesType' /\ ProgramsType'
    BY <1>1, <1>2, <1>5, <2>1, HelperAssumption DEF Updating, UpdaterType, BoxesType, ProgramsType
  <2>3. Alone'
    BY <1>1, <1>5, StayAlone DEF Updating
  <2>4. Explained' /\ Owing'
    BY <1>1, <1>2, <1>5, <2>1 DEF Updating, Explained, Owing, Alone
  <2> QED BY <2>2, <2>3, <2>4 DEF Updating
<1> QED BY <1>3, <1>4, <1>5 DEF Finished

LEMMA StopTorIs ==
    ASSUME ProgramsType, StopTor
    PROVE  /\ tor' \in {"none", "runs", "halting"} /\ restart' \in BOOLEAN /\ owed' \in BOOLEAN /\ hasty' = hasty
           /\ owed' => owed \/ restart'
BY DEF ProgramsType, StopTor

LEMMA AvailableStep ==
    ASSUME Updating, Available
    PROVE  Updating'
<1>1. /\ UNCHANGED <<timer, browser, im, forked, watched, quit, left, relaunched, unstarted,
                     checks, overlap, installed>>
      /\ boxes # <<>> /\ Top = "available" /\ boxes' = Beneath /\ packages' = 0
  BY DEF Available, helpers, checking
<1>2. BoxesType' /\ (job # "none" => overlap) /\ (\A i \in DOMAIN boxes' : Asked(i)' => overlap)
      /\ \A i, j \in DOMAIN boxes' : Asked(i)' /\ Asked(j)' /\ i # j => overlap'
  BY <1>1, BoxClosed, ClosedAlone DEF Updating
<1>3. CASE InstallUpdates
  <2>1. /\ progress' = MadeVisible(WithStatus(progress, "Installing"))
        /\ StopTor /\ Starts("install")
    BY <1>3 DEF InstallUpdates
  <2>2. "Installing" \in Statuses
    BY DEF Statuses
  <2>3. /\ progress' \in [visible : BOOLEAN, status : Statuses, cancel : BOOLEAN]
        /\ progress'.status = "Installing"
    BY <2>1, <2>2, StatusIs, ShownIs DEF Updating
  <2>4. /\ command' = "install" /\ job' \in {job, "install"} /\ silent' \subseteq {"check", "install"}
        /\ job # "none" => job' = job /\ silent' = silent
        /\ job = "none" /\ job' = "none" => "install" \in silent'
        /\ owed => silent \subseteq silent'
    BY <2>1, StartsIs DEF Updating
  <2>5. UpdaterType' /\ ProgramsType'
    BY <1>1, <2>1, <2>3, <2>4, StopTorIs, HelperAssumption DEF Updating, UpdaterType, ProgramsType
  <2>6. Alone'
    BY <1>1, <1>2, <2>4 DEF Alone
  <2>7. Explained'
    BY <2>3, <2>4 DEF Explained
  <2>8. Owing'
    BY <1>1, <1>2, <2>1, <2>4, StopTorIs DEF Updating, Owing, UpdaterType
  <2> QED BY <1>2, <2>5, <2>6, <2>7, <2>8 DEF Updating
<1>4. CASE progress' = Hidden(progress) /\ UNCHANGED <<job, command, torside, silent>>
  <2>1. UNCHANGED <<job, command, silent, tor, restart, owed, hasty>>
    BY <1>4 DEF torside
  <2>2. /\ progress' \in [visible : BOOLEAN, status : Statuses, cancel : BOOLEAN]
        /\ progress'.status = progress.status /\ ~progress'.visible
    BY <1>4, ShownIs DEF Updating, UpdaterType
  <2>3. UpdaterType' /\ ProgramsType'
    BY <1>1, <2>1, <2>2, HelperAssumption DEF Updating, UpdaterType, ProgramsType
  <2>4. Alone'
    BY <1>1, <1>2, <2>1 DEF Updating, Alone
  <2>5. Explained' /\ Owing'
    BY <1>1, <2>1, <2>2 DEF Updating, Explained, Owing
  <2> QED BY <1>2, <2>3, <2>4, <2>5 DEF Updating
<1> QED BY <1>3, <1>4 DEF Available

LEMMA BoxAnsweredStep ==
    ASSUME Updating, BoxAnswered
    PROVE  Updating'
<1>1. /\ UNCHANGED <<job, command, progress, timer, restart, browser, im, forked, watched, quit, left,
                     relaunched, unstarted, checks, overlap, silent, installed>>
      /\ boxes # <<>> /\ Top # "available" /\ boxes' = Beneath /\ packages' \in {0, packages}
      /\ StartTor \/ UNCHANGED <<tor, owed, hasty>>
  BY DEF BoxAnswered, helpers, checking, outcome
<1>2. /\ tor' \in {"none", "runs", "halting"} /\ owed' \in BOOLEAN /\ hasty' \in BOOLEAN
      /\ (hasty => hasty') /\ (owed' => owed)
  BY <1>1, StartTorIs DEF Updating, ProgramsType
<1>3. BoxesType' /\ (\A i \in DOMAIN boxes : Asked(i) => i \in DOMAIN boxes' /\ Asked(i)')
      /\ (\A i \in DOMAIN boxes' : i \in DOMAIN boxes /\ (Asked(i)' <=> Asked(i)))
      /\ \A i, j \in DOMAIN boxes' : Asked(i)' /\ Asked(j)' /\ i # j => overlap'
  BY <1>1, BoxClosed, ClosedAlone DEF Updating
<1>4. UpdaterType' /\ ProgramsType'
  BY <1>1, <1>2, HelperAssumption DEF Updating, UpdaterType, ProgramsType
<1>5. Alone'
  BY <1>1, <1>3 DEF Updating, Alone
<1>6. Explained' /\ Owing'
  BY <1>1, <1>2, <1>3 DEF Updating, Explained, Owing
<1> QED BY <1>3, <1>4, <1>5, <1>6 DEF Updating

------------------------------------------------------------------------------
(* The browser and the IM client *)

\* A browser that runs on was started out of a directory, there is an IM client only if there
\* is to be one, and the watcher is there once both have gone.
Leaving ==
    /\ forked => BrowserDirectory
    /\ im # "NotRunning" => HasIM
    /\ watched /\ ~relaunched => browser = "NotRunning" /\ im = "NotRunning"

HelpersInv == Updating /\ Leaving

UpdaterStays == UNCHANGED <<job, command, packages, progress, boxes, timer, checks, overlap, silent, installed>>

LEMMA UpdatingStays ==
    ASSUME Updating, UpdaterStays, ProgramsType', restart' = restart, owed' => owed, hasty' = hasty
    PROVE  Updating'
<1>1. UpdaterType' /\ BoxesType'
  BY DEF Updating, UpdaterStays, UpdaterType, BoxesType
<1>2. Alone' /\ \A i \in DOMAIN boxes : Asked(i)' <=> Asked(i)
  BY StayAlone DEF Updating, UpdaterStays
<1>3. Explained' /\ Owing'
  BY <1>2 DEF Updating, UpdaterStays, Explained, Owing
<1> QED BY <1>1, <1>2, <1>3 DEF Updating

Programs == <<browser, im, forked, watched, quit, left, relaunched, unstarted>>

LEMMA TorSteps ==
    ASSUME Updating, TorChanges \/ Halts
    PROVE  Updating' /\ UNCHANGED Programs
<1>1. UpdaterStays /\ restart' = restart /\ hasty' = hasty /\ (owed' => owed) /\ UNCHANGED Programs
  BY DEF TorChanges, Halts, UpdaterStays, Programs, updater, window,
         helpers, checking, outcome
<1>2. tor' \in {"none", "runs", "halting"} /\ owed' \in BOOLEAN
  BY DEF TorChanges, Halts, Updating, ProgramsType
<1>3. ProgramsType'
  BY <1>1, <1>2 DEF Programs, Updating, ProgramsType
<1> QED BY <1>1, <1>3, UpdatingStays

LEMMA CircuitStep ==
    ASSUME HelpersInv, CircuitComesUp
    PROVE  HelpersInv' /\ quit' = quit
<1>1. /\ UNCHANGED <<packages, boxes, tor, restart, owed, hasty, forked, watched, quit, installed>>
      /\ browser' = StartedIfNot(browser) /\ im' = IF HasIM THEN StartedIfNot(im) ELSE im
      /\ left' = FALSE /\ unstarted' = FALSE /\ relaunched' = (relaunched \/ watched)
  BY DEF CircuitComesUp, torside
<1>5. \/ timer' \in BOOLEAN /\ CheckForUpdates(FALSE)
      \/ UNCHANGED <<timer, progress, job, command, silent, checks, overlap>>
  <2>1. CASE timer' = ~UpdaterIsRunning /\ CheckForUpdates(FALSE)
    BY <2>1, Zenon DEF UpdaterIsRunning
  <2> QED BY <2>1, Zenon DEF CircuitComesUp
<1>2. ProgramsType' /\ Leaving'
  <2>1. browser' \in Processes /\ im' \in Processes /\ relaunched' \in BOOLEAN
    BY <1>1 DEF StartedIfNot, HelpersInv, Updating, ProgramsType, Processes
  <2>2. ProgramsType'
    BY <1>1, <2>1 DEF HelpersInv, Updating, ProgramsType
  <2>3. Leaving'
    BY <1>1, HelperAssumption DEF HelpersInv, Leaving, StartedIfNot, Updating, ProgramsType, Processes
  <2> QED BY <2>2, <2>3
<1>3. CASE UNCHANGED <<timer, progress, job, command, silent, checks, overlap>>
  <2>1. Updating'
    BY <1>1, <1>2, <1>3, UpdatingStays DEF UpdaterStays, HelpersInv
  <2> QED BY <1>1, <1>2, <2>1 DEF HelpersInv
<1>4. CASE timer' \in BOOLEAN /\ CheckForUpdates(FALSE)
  <2>2. Alone'
    BY <1>1, <1>4, CheckAlone DEF HelpersInv, Updating
  <2>3. UpdaterType' /\ BoxesType'
    BY <1>1, <1>4, CheckIs DEF HelpersInv, Updating, UpdaterType, BoxesType
  <2>4. overlap => overlap'
    BY <1>4, CheckIs DEF HelpersInv, Updating
  <2>5. Explained'
    <3>1. \A i \in DOMAIN boxes : Asked(i)' <=> Asked(i)
      BY <1>1 DEF Asked
    <3>2. progress'.status = "Installed" => installed' \/ overlap'
      BY <1>1, <1>4, <2>4, CheckIs DEF HelpersInv, Updating, Explained
    <3>3. job' # "none" \/ silent' # {} \/ (job # "none" /\ job' = job)
      BY <1>4, CheckIs DEF HelpersInv, Updating
    <3> QED BY <1>1, <3>1, <3>2, <3>3 DEF Explained
  <2>6. Owing'
    BY <1>1, <1>4, <2>4, CheckIs DEF HelpersInv, Updating, Owing
  <2> QED BY <1>1, <1>2, <2>2, <2>3, <2>5, <2>6 DEF HelpersInv, Updating
<1> QED BY <1>3, <1>4, <1>5

\* Vidalia is told to quit only when neither program runs.
QuitsRightly ==
    quit' /\ ~quit /\ ~relaunched => browser' = "NotRunning" /\ ~forked' /\ im' = "NotRunning"

LEMMA ProgramSteps ==
    ASSUME HelpersInv,
           Runs \/ BrowserExits \/ IMExits \/ ForkedExits \/ CheckForBrowser
    PROVE  HelpersInv' /\ QuitsRightly
<1>1. UpdaterStays /\ UNCHANGED <<tor, restart, owed, hasty>>
  BY DEF Runs, BrowserExits, IMExits, ForkedExits, CheckForBrowser,
         UpdaterStays, updater, window, torside, checking, outcome
<1>2. SUFFICES ProgramsType' /\ Leaving' /\ QuitsRightly
  BY <1>1, UpdatingStays DEF HelpersInv
<1>3. BrowserDirectory \in BOOLEAN /\ HasIM \in BOOLEAN /\ ProgramsType /\ Leaving
  BY HelperAssumption DEF HelpersInv, Updating
<1>4. CASE Runs
  BY <1>1, <1>3, <1>4 DEF Runs, ProgramsType, Leaving, QuitsRightly, Processes
<1>5. CASE BrowserExits
  BY <1>1, <1>3, <1>5 DEF BrowserExits, SubprocessFinished, BothDone, ProgramsType,
     Leaving, QuitsRightly, Processes
<1>6. CASE IMExits
  BY <1>1, <1>3, <1>6 DEF IMExits, SubprocessFinished, BothDone, ProgramsType,
     Leaving, QuitsRightly, Processes
<1>7. CASE ForkedExits
  BY <1>1, <1>3, <1>7 DEF ForkedExits, ProgramsType, Leaving, QuitsRightly
<1>8. CASE CheckForBrowser
  BY <1>1, <1>3, <1>8 DEF CheckForBrowser, ProgramsType, Leaving, QuitsRightly
<1> QED BY <1>4, <1>5, <1>6, <1>7, <1>8

LEMMA LeavingStays ==
    ASSUME Leaving, UNCHANGED Programs
    PROVE  Leaving' /\ QuitsRightly
BY DEF Leaving, Programs, QuitsRightly

LEMMA StepHelpers ==
    ASSUME HelpersInv, [HelpersNext]_helperVars
    PROVE  HelpersInv' /\ (QuitsRightly \/ UNCHANGED helperVars)
<1>1. CASE CheckNow \/ TimerFires
  <2>1. UNCHANGED Programs
    <3>1. UNCHANGED helpers
      BY <1>1, Zenon DEF CheckNow, TimerFires
    <3> QED BY <3>1 DEF helpers, Programs
  <2> QED BY <1>1, <2>1, CheckSteps, LeavingStays DEF HelpersInv
<1>2. CASE Hide \/ Cancel \/ NamesPackage \/ DownloadProgress
  <2>1. UNCHANGED Programs
    BY <1>2 DEF Hide, Cancel, NamesPackage, DownloadProgress, helpers, Programs
  <2> QED BY <1>2, <2>1, DialogSteps, LeavingStays DEF HelpersInv
<1>3. CASE InstallFails
  <2>1. UNCHANGED Programs
    BY <1>3 DEF InstallFails, helpers, Programs
  <2> QED BY <1>3, <2>1, InstallFailsStep, LeavingStays DEF HelpersInv
<1>4. CASE \E exit \in {"0", "1", "crash"} : Finished(exit)
  <2>1. PICK exit \in {"0", "1", "crash"} : Finished(exit)
    BY <1>4
  <2>2. UNCHANGED Programs
    BY <2>1 DEF Finished, helpers, Programs
  <2> QED BY <2>1, <2>2, FinishedStep, LeavingStays DEF HelpersInv
<1>5. CASE Available
  <2>1. UNCHANGED Programs
    BY <1>5 DEF Available, helpers, Programs
  <2> QED BY <1>5, <2>1, AvailableStep, LeavingStays DEF HelpersInv
<1>6. CASE BoxAnswered
  <2>1. UNCHANGED Programs
    BY <1>6 DEF BoxAnswered, helpers, Programs
  <2> QED BY <1>6, <2>1, BoxAnsweredStep, LeavingStays DEF HelpersInv
<1>7. CASE TorChanges \/ Halts
  BY <1>7, TorSteps, LeavingStays DEF HelpersInv
<1>8. CASE CircuitComesUp
  BY <1>8, CircuitStep DEF QuitsRightly
<1>9. CASE Runs \/ BrowserExits \/ IMExits \/ ForkedExits \/ CheckForBrowser
  BY <1>9, ProgramSteps
<1>10. CASE UNCHANGED helperVars
  <2>1. UNCHANGED <<updater, window, torside, helpers, checking, outcome>>
    BY <1>10 DEF helperVars
  <2>2. UpdaterStays /\ UNCHANGED <<tor, restart, owed, hasty>> /\ UNCHANGED Programs
    BY <2>1 DEF UpdaterStays, Programs, updater, window, torside, helpers,
                checking, outcome
  <2>3. ProgramsType'
    BY <2>2 DEF Programs, HelpersInv, Updating, ProgramsType
  <2> QED BY <1>10, <2>2, <2>3, UpdatingStays, LeavingStays DEF HelpersInv
<1> QED BY <1>1, <1>2, <1>3, <1>4, <1>5, <1>6, <1>7, <1>8, <1>9, <1>10 DEF HelpersNext

LEMMA InitHelpers == HelpersInit => HelpersInv
<1> SUFFICES ASSUME HelpersInit PROVE HelpersInv
  OBVIOUS
<1>1. BoxesType /\ DOMAIN boxes = {}
  BY HelperAssumption DEF HelpersInit, BoxesType
<1>2. progress \in [visible : BOOLEAN, status : Statuses, cancel : BOOLEAN]
      /\ progress.status = "Checking" /\ ~progress.visible
  BY DEF HelpersInit, Statuses
<1>3. UpdaterType
  <2>1. packages \in 0 .. MaxPackages /\ checks \in 0 .. MaxChecks
    BY HelperAssumption DEF HelpersInit
  <2> QED BY <1>2, <2>1 DEF HelpersInit, UpdaterType
<1>4. ProgramsType
  BY DEF HelpersInit, ProgramsType, Processes
<1>5. Alone /\ Explained /\ Owing /\ Leaving
  BY <1>1, <1>2 DEF HelpersInit, Alone, Explained, Owing, Leaving
<1> QED BY <1>1, <1>3, <1>4, <1>5 DEF HelpersInv, Updating

LEMMA HelpersMean ==
    ASSUME HelpersInv
    PROVE  HelpersType /\ ProgressIsTrue /\ TorComesBack
<1>1. (\E i \in DOMAIN boxes : Asked(i)) => boxes # <<>>
  OBVIOUS
<1> QED BY <1>1 DEF HelpersInv, Updating, HelpersType, Explained, Owing, ProgressIsTrue, TorComesBack

\* The variables have their types.
THEOREM HelpersTypeCorrect == HelpersSpec => []HelpersType
BY InitHelpers, StepHelpers, HelpersMean, PTL DEF HelpersSpec

\* The update dialog says that it is done only if updates have been installed, and that it is
\* at work only while the updater is, or its answer is shown, whatever else runs meanwhile.
THEOREM UpdateDialogIsTrue == HelpersSpec => []ProgressIsTrue
BY InitHelpers, StepHelpers, HelpersMean, PTL DEF HelpersSpec

\* A Tor that was stopped for an upgrade is started again once the updater has ended.
THEOREM StoppedTorComesBack == HelpersSpec => []TorComesBack
BY InitHelpers, StepHelpers, HelpersMean, PTL DEF HelpersSpec

\* onSubprocessFinished() and onCheckForBrowser() tell Vidalia to quit only when neither
\* program runs, unless a circuit started them again while the browser was watched.
THEOREM QuitsOnlyWithThem == HelpersSpec => QuitsOnlyThen
<1>1. HelpersInv /\ [HelpersNext]_helperVars => HelpersInv' /\ [QuitsRightly]_helperVars
  BY StepHelpers
<1>2. QuitsRightly => (quit' /\ ~quit /\ ~relaunched =>
          browser' = "NotRunning" /\ ~forked' /\ im' = "NotRunning")
  BY DEF QuitsRightly
<1> QED BY <1>1, <1>2, InitHelpers, PTL DEF HelpersSpec, QuitsOnlyThen

==============================================================================
