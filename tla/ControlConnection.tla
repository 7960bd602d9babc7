-------------------------- MODULE ControlConnection --------------------------
(***************************************************************************)
(* The control connection of Vidalia (torcontrol/ControlConnection.cpp):   *)
(* the GUI thread calls connect(), disconnect(), cancelConnect() and the   *)
(* two send()s; the control thread (run()) owns the ControlSocket, writes  *)
(* the commands posted to it and hands Tor's replies to the callers that   *)
(* wait for them.  The two threads share _connMutex, _recvMutex, the queue *)
(* of ReceiveWaiters and ONE SendWaiter, which lives as long as the        *)
(* connection object and is never set back to Waiting.                     *)
(*                                                                         *)
(* A command is the number of the send() call that issued it.  Steps are   *)
(* as fine as the locks: a step reads and writes what one thread reads and *)
(* writes while it holds a mutex, or between two blocking calls.           *)
(***************************************************************************)
EXTENDS Naturals, Sequences, SequencesExt

CONSTANTS
    Method,             \* _method, see Methods
    MaxConnectAttempts, \* MAX_CONNECT_ATTEMPTS, 5 in the code
    MaxSends,           \* bound: how many commands the GUI sends
    MaxConnects,        \* bound: how often the GUI calls connect()
    MaxEvents,          \* bound: how many 650 events Tor sends
    SendKinds,          \* the kinds of command the GUI sends, see Kinds
    ClientOps           \* the calls other than connect() and send() it makes

\* A "reply" command is sent by send(cmd, reply); "wide" is such a command
\* whose local 8-bit encoding is longer than its QString; "signal" is sent by
\* send(cmd), which returns without waiting for a reply.
Kinds == {"reply", "wide", "signal"}

\* ControlMethod::Method: a TCP port or a local socket.
Methods == {"Port", "Socket"}

ASSUME ConnectionAssumption ==
    /\ Method \in Methods
    /\ MaxConnectAttempts \in Nat \ {0}
    /\ MaxSends \in Nat \ {0}
    /\ MaxConnects \in Nat \ {0}
    /\ MaxEvents \in Nat
    /\ SendKinds \subseteq Kinds
    /\ ClientOps \subseteq {"disconnect", "cancel"}

Cmds == 1 .. MaxSends
Event == 0              \* what a 650 line carries in place of a command

VARIABLES
    gpc,        \* where the GUI thread is
    cpc,        \* where the control thread is; "Off": isRunning() is false
    connMutex,  \* who holds _connMutex
    recvMutex,  \* who holds _recvMutex
    status,     \* _status
    attempt,    \* _connectAttempt
    timer,      \* is _connectTimer running
    exited,     \* has exit() been called since the thread started
    sock,       \* state of *_sock; "None" is a null pointer
    posted,     \* the SendCommandEvents posted to _sock
    sendWaiter, \* _sendWaiter->_status
    recvQueue,  \* _recvQueue: the commands whose ReceiveWaiter it holds
    waiter,     \* the ReceiveWaiter's _status, for each command
    got,        \* whose reply each ReceiveWaiter was given
    hand,       \* control thread: the command whose reply was just read
    waking,     \* control thread: the waiter setResult() is about to wake
    out,        \* commands Tor has not answered yet
    inbox,      \* what Tor has sent and the control thread has not read
    cur,        \* number of send() calls so far: the current command
    kind,       \* the kind of each command
    said,       \* history: what send(cmd) returned for each command
    sent,       \* history: whether each command was written to the socket
    connects,   \* number of connect() calls so far
    events      \* number of 650 events so far

calls    == <<cur, kind, said, connects>>
guiVars  == <<gpc, calls>>
lockVars == <<connMutex, recvMutex>>
connVars == <<status, attempt, timer, exited>>
sendVars == <<posted, sendWaiter, sent>>
recvVars == <<recvQueue, waiter, got>>
torVars  == <<out, inbox, events>>
ctlVars  == <<cpc, hand, waking>>
allButGpc == <<calls, lockVars, connVars, sock, sendVars, recvVars, torVars, ctlVars>>
allButCpc == <<guiVars, lockVars, connVars, sock, sendVars, recvVars, torVars, hand, waking>>
vars == <<guiVars, lockVars, connVars, sock, sendVars, recvVars, torVars, ctlVars>>

Statuses == {"Unset", "Disconnected", "Disconnecting", "Connecting", "Connected"}

Init ==
    /\ gpc = "Idle" /\ cpc = "Off"
    /\ connMutex = "free" /\ recvMutex = "free"
    /\ status = "Unset" /\ attempt = 0 /\ timer = FALSE /\ exited = FALSE
    /\ sock = "None"
    /\ posted = <<>> /\ sendWaiter = "Waiting"
    /\ recvQueue = <<>>
    /\ waiter = [c \in Cmds |-> "None"] /\ got = [c \in Cmds |-> 0]
    /\ hand = 0 /\ waking = 0
    /\ out = <<>> /\ inbox = <<>> /\ events = 0
    /\ cur = 0 /\ kind = [c \in Cmds |-> "None"]
    /\ said = [c \in Cmds |-> "None"] /\ sent = [c \in Cmds |-> "None"]
    /\ connects = 0

\* _connMutex can be taken.  (Mutant: the lock is forgotten.)
Unlocked == TRUE
ConnFree == connMutex = "free"

\* QThread::exit(): the event loop is left when it next looks.
NoExit == UNCHANGED exited
Exit == exited' = TRUE

\* ControlSocket::isConnected(): false as soon as this end has been closed,
\* true until a close by Tor has been noticed.
SockIsConnected == sock \in {"Open", "TorClosed"}

------------------------------------------------------------------------------
(* The GUI thread *)

\* connect(addr, port) and connect(path).  When the thread is running the call
\* only logs an error, which changes nothing.
Connect ==
    /\ gpc = "Idle" /\ cpc = "Off" /\ connects < MaxConnects
    /\ connects' = connects + 1
    /\ sock' = "None" /\ attempt' = 0 /\ status' = "Connecting"
    /\ exited' = FALSE /\ cpc' = "Setup"
    /\ UNCHANGED <<gpc, cur, kind, said, lockVars, timer, sendVars, recvVars,
                   torVars, hand, waking>>

\* Entry of send(cmd, reply, errmsg), or of send(cmd, errmsg) for a signal.
BeginSend ==
    /\ gpc = "Idle" /\ cur < MaxSends
    /\ cur' = cur + 1
    /\ \E k \in SendKinds :
          /\ kind' = [kind EXCEPT ![cur'] = k]
          /\ gpc' = IF k = "signal" THEN "LockConn" ELSE "LockRecv"
    /\ UNCHANGED <<said, connects, lockVars, connVars, sock, sendVars,
                   recvVars, torVars, ctlVars>>

\* send(cmd, reply): _recvMutex.lock()
LockRecv ==
    /\ gpc = "LockRecv" /\ recvMutex = "free"
    /\ recvMutex' = "gui" /\ gpc' = "LockConn"
    /\ UNCHANGED <<calls, connMutex, connVars, sock, sendVars, recvVars,
                   torVars, ctlVars>>

\* What send(cmd, reply) does when send(cmd) returned FALSE, and what a
\* signal's caller does: go on, without a ReceiveWaiter.
ReturnUnsent ==
    /\ gpc' = "Idle"
    /\ recvMutex' = IF kind[cur] = "signal" THEN recvMutex ELSE "free"

\* send(cmd): _connMutex.lock() and the test of the socket.
LockConn ==
    /\ gpc = "LockConn" /\ ConnFree
    /\ IF SockIsConnected
       THEN /\ connMutex' = "gui" /\ gpc' = "Post"
            /\ UNCHANGED <<recvMutex, said, sent>>
       ELSE /\ ReturnUnsent
            /\ said' = [said EXCEPT ![cur] = "False"]
            /\ sent' = [sent EXCEPT ![cur] = "NotSent"]
            /\ UNCHANGED connMutex
    /\ UNCHANGED <<cur, kind, connects, connVars, sock, posted, sendWaiter,
                   recvVars, torVars, ctlVars>>

\* postEvent(_sock, new SendCommandEvent(cmd, _sendWaiter)); unlock.
Post ==
    /\ gpc = "Post"
    /\ posted' = Append(posted, cur)
    /\ connMutex' = "free" /\ gpc' = "SendCheck"
    /\ UNCHANGED <<calls, recvMutex, connVars, sock, sendWaiter, sent,
                   recvVars, torVars, ctlVars>>

\* SendWaiter::getResult() finds Waiting and sleeps on the condition.
SendSleep ==
    /\ gpc = "SendCheck" /\ sendWaiter = "Waiting" /\ gpc' = "SendSleep"
    /\ UNCHANGED allButGpc

\* send(cmd, reply) enqueues a new ReceiveWaiter and unlocks _recvMutex.
EnqueueWaiter ==
    /\ recvQueue' = Append(recvQueue, cur)
    /\ waiter' = [waiter EXCEPT ![cur] = "Waiting"]
    /\ recvMutex' = "free"
    /\ gpc' = "RecvCheck"

\* getResult() returns what _status holds, whoever set it; send(cmd) returns
\* that to send(cmd, reply) or to its own caller.
SendReturns ==
    /\ gpc = "SendCheck" /\ sendWaiter # "Waiting"
    /\ said' = [said EXCEPT ![cur] = IF sendWaiter = "Success" THEN "True" ELSE "False"]
    /\ IF sendWaiter = "Success" /\ kind[cur] # "signal"
       THEN EnqueueWaiter
       ELSE ReturnUnsent /\ UNCHANGED <<recvQueue, waiter>>
    /\ UNCHANGED <<cur, kind, connects, connMutex, connVars, sock, sendVars,
                   got, torVars, ctlVars>>

\* ReceiveWaiter::getResult()
RecvSleep ==
    /\ gpc = "RecvCheck" /\ waiter[cur] = "Waiting" /\ gpc' = "RecvSleep"
    /\ UNCHANGED allButGpc

\* getResult() returns, send(cmd, reply) deletes the waiter and returns.
RecvReturns ==
    /\ gpc = "RecvCheck" /\ waiter[cur] # "Waiting" /\ gpc' = "Idle"
    /\ UNCHANGED allButGpc

\* TorControl::disconnect() calls disconnect() only if isConnected().
BeginDisconnect ==
    /\ gpc = "Idle" /\ "disconnect" \in ClientOps /\ status = "Connected"
    /\ gpc' = "DiscStatus"
    /\ UNCHANGED allButGpc

DisconnectStatus ==
    /\ gpc = "DiscStatus"
    /\ status' = "Disconnecting" /\ gpc' = "DiscSock"
    /\ UNCHANGED <<calls, lockVars, attempt, timer, exited, sock, sendVars,
                   recvVars, torVars, ctlVars>>

\* _sock->disconnectFromHost() under _connMutex.  _sock is not compared with
\* null.  The socket's disconnected() reaches the control thread as a queued
\* event, since this is not the socket's thread: sock stays "Closed" until then.
DisconnectSock ==
    /\ gpc = "DiscSock" /\ ConnFree
    /\ gpc' = IF sock = "None" THEN "Crashed" ELSE "Idle"
    /\ sock' = IF SockIsConnected THEN "Closed" ELSE sock
    /\ UNCHANGED <<calls, lockVars, connVars, sendVars, recvVars, torVars,
                   ctlVars>>

\* TorControl::onStopped() calls cancelConnect() if status() is Connecting.
BeginCancel ==
    /\ gpc = "Idle" /\ "cancel" \in ClientOps /\ status = "Connecting"
    /\ gpc' = "CancelStatus"
    /\ UNCHANGED allButGpc

CancelStatus ==
    /\ gpc = "CancelStatus"
    /\ status' = "Disconnected" /\ gpc' = "CancelExit"
    /\ UNCHANGED <<calls, lockVars, attempt, timer, exited, sock, sendVars,
                   recvVars, torVars, ctlVars>>

CancelExit ==
    /\ gpc = "CancelExit"
    /\ Exit /\ gpc' = "Idle"
    /\ UNCHANGED <<calls, lockVars, status, attempt, timer, sock, sendVars,
                   recvVars, torVars, ctlVars>>

\* The destructor: exit(), then wait() for the thread.
BeginDestroy ==
    /\ gpc = "Idle"
    /\ Exit /\ gpc' = "Dtor"
    /\ UNCHANGED <<calls, lockVars, status, attempt, timer, sock, sendVars,
                   recvVars, torVars, ctlVars>>

EndDestroy ==
    /\ gpc = "Dtor" /\ cpc = "Off" /\ gpc' = "Gone"
    /\ UNCHANGED allButGpc

GuiBegins == Connect \/ BeginSend \/ BeginDisconnect \/ BeginCancel \/ BeginDestroy

GuiContinues ==
    \/ LockRecv \/ LockConn \/ Post \/ SendSleep \/ SendReturns
    \/ RecvSleep \/ RecvReturns
    \/ DisconnectStatus \/ DisconnectSock
    \/ CancelStatus \/ CancelExit \/ EndDestroy

------------------------------------------------------------------------------
(* The control thread *)

\* run(): create the socket and the timer under _connMutex.
Setup ==
    /\ cpc = "Setup" /\ ConnFree
    /\ sock' = "Idle" /\ timer' = FALSE /\ cpc' = "Dial"
    /\ UNCHANGED <<guiVars, lockVars, status, attempt, exited, sendVars,
                   recvVars, torVars, hand, waking>>

\* The private connect(): one more attempt.
Dial ==
    /\ cpc = "Dial" /\ ConnFree
    /\ attempt' = attempt + 1
    /\ sock' = "Dialing" /\ cpc' = "Loop"
    /\ UNCHANGED <<guiVars, lockVars, status, timer, exited, sendVars,
                   recvVars, torVars, hand, waking>>

\* _connectTimer's timeout() is connected to the private connect().
TimerFires ==
    /\ cpc = "Loop" /\ timer
    /\ timer' = FALSE /\ cpc' = "Dial"
    /\ UNCHANGED <<guiVars, lockVars, status, attempt, exited, sock, sendVars,
                   recvVars, torVars, hand, waking>>

OnConnected ==
    /\ cpc = "Loop" /\ sock = "Dialing"
    /\ sock' = "Open"
    /\ status' = "Connected"
    /\ UNCHANGED <<guiVars, lockVars, attempt, timer, exited, sendVars,
                   recvVars, torVars, ctlVars>>

\* onError(): may another attempt be made after a refusal?
MayRetry == attempt < MaxConnectAttempts

\* onError(): _connectTimer->start(CONNECT_RETRY_DELAY)
ForgetTimer == UNCHANGED timer
StartTimer == timer' = TRUE

\* Only QTcpSocket has the signal error(QAbstractSocket::SocketError) that the
\* constructor of ControlSocket relays; QLocalSocket's has another signature.
ErrorsRelayed == Method = "Port"

\* onError() for an attempt that failed.  Giving up sets the status but leaves
\* the event loop running.
OnConnectError ==
    /\ cpc = "Loop" /\ sock = "Dialing"
    /\ sock' = "Idle"
    /\ \E refused \in BOOLEAN :
          IF status # "Connecting" \/ ~ErrorsRelayed
          THEN UNCHANGED <<timer, status>>
          ELSE IF refused /\ MayRetry
               THEN StartTimer /\ UNCHANGED status
               ELSE status' = "Disconnected" /\ UNCHANGED timer
    /\ UNCHANGED <<guiVars, lockVars, attempt, exited, sendVars, recvVars,
                   torVars, ctlVars>>

\* onDisconnected(): the status, then exit(0).
Disconnected ==
    /\ status' = "Disconnected" /\ Exit
    /\ sock' = "Idle" /\ out' = <<>> /\ inbox' = <<>>

\* The socket reports that it is disconnected: by this end, or by Tor's once
\* everything Tor sent has been read (onError() only logs RemoteHostClosed).
OnDisconnected ==
    /\ cpc = "Loop"
    /\ \/ sock = "Closed"
       \/ sock = "TorClosed" /\ inbox = <<>>
    /\ Disconnected
    /\ UNCHANGED <<guiVars, lockVars, attempt, timer, sendVars, recvVars,
                   events, ctlVars>>

\* SendWaiter::setResult() up to the wakeAll().
SetSendResult(ok) == sendWaiter' = IF ok THEN "Success" ELSE "Failed"

\* ControlSocket::sendCommand(): what write() returns is compared with the
\* length of the QString, so a wide command is written and yet fails.
SendCommandResult(c) == SockIsConnected /\ kind[c] # "wide"

\* ControlSocket::customEvent()
HandleSend ==
    /\ cpc = "Loop" /\ posted # <<>>
    /\ LET c == Head(posted) IN
          /\ posted' = Tail(posted)
          /\ sent' = [sent EXCEPT ![c] = IF SockIsConnected THEN "Sent" ELSE "NotSent"]
          /\ out' = IF sock = "Open" THEN Append(out, c) ELSE out
          /\ SetSendResult(SendCommandResult(c))
    /\ cpc' = "WakeSend"
    /\ UNCHANGED <<guiVars, lockVars, connVars, sock, recvVars, inbox, events,
                   hand, waking>>

\* The wakeAll() of a SendWaiter: whoever sleeps on it looks at _status again.
WakeSender == gpc' = IF gpc = "SendSleep" THEN "SendCheck" ELSE gpc

WakeSend ==
    /\ cpc = "WakeSend"
    /\ WakeSender /\ cpc' = "Loop"
    /\ UNCHANGED <<calls, lockVars, connVars, sock, sendVars, recvVars,
                   torVars, hand, waking>>

\* onReadyRead(): QMutexLocker locker(&_connMutex), held until it returns.
ReadyRead ==
    /\ cpc = "Loop" /\ SockIsConnected /\ inbox # <<>> /\ ConnFree
    /\ connMutex' = "ctl" /\ cpc' = "Read"
    /\ UNCHANGED <<guiVars, recvMutex, connVars, sock, sendVars, recvVars,
                   torVars, hand, waking>>

\* onReadyRead(): reply.getStatus() == "650"
TakenForReply(c) == FALSE
IsEvent(c) == c = Event

\* readReply() returned a complete reply; a "650" goes to TorEvents.
ReadReply ==
    /\ cpc = "Read" /\ inbox # <<>> /\ Head(inbox).whole
    /\ inbox' = Tail(inbox)
    /\ hand' = Head(inbox).cmd
    /\ cpc' = IF IsEvent(Head(inbox).cmd) THEN "Read" ELSE "Deliver"
    /\ UNCHANGED <<guiVars, lockVars, connVars, sock, sendVars, recvVars, out,
                   events, waking>>

\* readReply() waits in waitForReadyRead() for the rest of a reply and Tor
\* closes the connection: onDisconnected() runs inside the wait, and
\* readReply() returns false.
ReadReplyFails ==
    /\ cpc = "Read" /\ inbox # <<>> /\ ~Head(inbox).whole /\ sock = "TorClosed"
    /\ Disconnected
    /\ UNCHANGED <<guiVars, lockVars, attempt, timer, sendVars, recvVars,
                   events, ctlVars>>

\* ReceiveWaiter::setResult() up to the wakeAll(), for the waiter just dequeued.
LeaveQueued(result, reply) ==
    LET w == Head(recvQueue) IN
       /\ waiter' = [waiter EXCEPT ![w] = result]
       /\ got' = [got EXCEPT ![w] = reply]
       /\ waking' = w
       /\ UNCHANGED recvQueue
SetRecvResult(result, reply) ==
    LET w == Head(recvQueue) IN
       /\ recvQueue' = Tail(recvQueue)
       /\ waiter' = [waiter EXCEPT ![w] = result]
       /\ got' = [got EXCEPT ![w] = reply]
       /\ waking' = w

\* onReadyRead() hands the reply to the first waiter, if there is one.
Deliver ==
    /\ cpc = "Deliver" /\ recvMutex = "free"
    /\ IF recvQueue = <<>>
       THEN cpc' = "Read" /\ UNCHANGED <<recvMutex, recvVars, waking>>
       ELSE /\ SetRecvResult("Success", hand)
            /\ cpc' = "WakeRecv" /\ recvMutex' = "ctl"
    /\ hand' = 0
    /\ UNCHANGED <<guiVars, connMutex, connVars, sock, sendVars, torVars>>

\* The wakeAll() of ReceiveWaiter w.
NoWakeUp(w) == UNCHANGED gpc
WakeReceiver(w) == gpc' = IF gpc = "RecvSleep" /\ cur = w THEN "RecvCheck" ELSE gpc

WakeRecv ==
    /\ cpc = "WakeRecv"
    /\ WakeReceiver(waking)
    /\ waking' = 0 /\ recvMutex' = "free" /\ cpc' = "Read"
    /\ UNCHANGED <<calls, connMutex, connVars, sock, sendVars, recvVars,
                   torVars, hand>>

\* canReadLine() is false: onReadyRead() returns and unlocks _connMutex.
ReadDone ==
    /\ cpc = "Read" /\ inbox = <<>>
    /\ connMutex' = "free" /\ cpc' = "Loop"
    /\ UNCHANGED <<guiVars, recvMutex, connVars, sock, sendVars, recvVars,
                   torVars, hand, waking>>

\* exec() returns.  Events of the iteration that called exit() may be handled
\* first, so the other Loop actions do not test exited.
LeaveLoop ==
    /\ cpc = "Loop" /\ exited /\ cpc' = "CleanSock"
    /\ UNCHANGED allButCpc

\* run(): delete the socket, with the events posted to it, and the timer.
CleanSock ==
    /\ cpc = "CleanSock" /\ ConnFree
    /\ sock' = "None" /\ timer' = FALSE
    /\ posted' = <<>>
    /\ sent' = [c \in Cmds |-> IF c \in ToSet(posted) THEN "NotSent" ELSE sent[c]]
    /\ out' = <<>> /\ inbox' = <<>>
    /\ cpc' = "CleanSend"
    /\ UNCHANGED <<guiVars, lockVars, status, attempt, exited, sendWaiter,
                   recvVars, events, hand, waking>>

\* run(): _sendWaiter->status() == Waiting
LeaveSender == FALSE
SenderWaits == sendWaiter = "Waiting"

\* run(): if _sendWaiter is Waiting, it is told that the socket is gone.
CleanSend ==
    /\ cpc = "CleanSend"
    /\ IF SenderWaits
       THEN SetSendResult(FALSE) /\ cpc' = "CleanWakeSend"
       ELSE cpc' = "CleanLock" /\ UNCHANGED sendWaiter
    /\ UNCHANGED <<guiVars, lockVars, connVars, sock, posted, sent, recvVars,
                   torVars, hand, waking>>

CleanWakeSend ==
    /\ cpc = "CleanWakeSend"
    /\ WakeSender /\ cpc' = "CleanLock"
    /\ UNCHANGED <<calls, lockVars, connVars, sock, sendVars, recvVars,
                   torVars, hand, waking>>

\* run(): _recvMutex.lock() before the waiters are cleared.
CleanLock ==
    /\ cpc = "CleanLock" /\ recvMutex = "free"
    /\ recvMutex' = "ctl" /\ cpc' = "CleanRecv"
    /\ UNCHANGED <<guiVars, connMutex, connVars, sock, sendVars, recvVars,
                   torVars, hand, waking>>

\* run(): fail the waiters in the queue one by one, unlock, and end the thread.
CleanRecv ==
    /\ cpc = "CleanRecv"
    /\ IF recvQueue # <<>>
       THEN /\ SetRecvResult("Failed", 0)
            /\ cpc' = "CleanWakeRecv" /\ UNCHANGED recvMutex
       ELSE /\ recvMutex' = "free" /\ cpc' = "Off"
            /\ UNCHANGED <<recvVars, waking>>
    /\ UNCHANGED <<guiVars, connMutex, connVars, sock, sendVars, torVars, hand>>

CleanWakeRecv ==
    /\ cpc = "CleanWakeRecv"
    /\ WakeReceiver(waking)
    /\ waking' = 0 /\ cpc' = "CleanRecv"
    /\ UNCHANGED <<calls, lockVars, connVars, sock, sendVars, recvVars,
                   torVars, hand>>

Control ==
    \/ Setup \/ Dial \/ TimerFires
    \/ OnConnected \/ OnConnectError \/ OnDisconnected
    \/ HandleSend \/ WakeSend
    \/ ReadyRead \/ ReadReply \/ ReadReplyFails \/ Deliver \/ WakeRecv \/ ReadDone
    \/ LeaveLoop \/ CleanSock \/ CleanSend \/ CleanWakeSend
    \/ CleanLock \/ CleanRecv \/ CleanWakeRecv

------------------------------------------------------------------------------
(* Tor, as the code sees it: it answers commands in order, in one piece or *)
(* line by line, sends events between replies, and may close at any time.  *)

AllWhole == \A i \in 1 .. Len(inbox) : inbox[i].whole

TorReplies ==
    /\ sock = "Open" /\ out # <<>> /\ AllWhole
    /\ \E w \in BOOLEAN : inbox' = Append(inbox, [cmd |-> Head(out), whole |-> w])
    /\ out' = Tail(out)
    /\ UNCHANGED <<guiVars, lockVars, connVars, sock, sendVars, recvVars,
                   events, ctlVars>>

TorEndsReply ==
    /\ sock = "Open" /\ ~AllWhole
    /\ inbox' = [inbox EXCEPT ![Len(inbox)].whole = TRUE]
    /\ UNCHANGED <<guiVars, lockVars, connVars, sock, sendVars, recvVars, out,
                   events, ctlVars>>

TorSendsEvent ==
    /\ sock = "Open" /\ AllWhole /\ events < MaxEvents
    /\ inbox' = Append(inbox, [cmd |-> Event, whole |-> TRUE])
    /\ events' = events + 1
    /\ UNCHANGED <<guiVars, lockVars, connVars, sock, sendVars, recvVars, out,
                   ctlVars>>

\* Tor exits or is killed; what it had written may be lost with it.
TorCloses ==
    /\ sock = "Open"
    /\ sock' = "TorClosed" /\ out' = <<>>
    /\ \E n \in 0 .. Len(inbox) : inbox' = SubSeq(inbox, 1, n)
    /\ UNCHANGED <<guiVars, lockVars, connVars, sendVars, recvVars, events,
                   ctlVars>>

TorAnswers == TorReplies \/ TorEndsReply
Tor == TorAnswers \/ TorSendsEvent \/ TorCloses

------------------------------------------------------------------------------
\* The connection object is gone, or the process crashed.
Terminated == gpc \in {"Gone", "Crashed"} /\ UNCHANGED vars

Running == gpc \notin {"Gone", "Crashed"}

Next ==
    \/ GuiBegins
    \/ GuiContinues
    \/ Running /\ Control
    \/ Running /\ Tor
    \/ Terminated

\* The two threads are scheduled by the system; Tor answers what it receives
\* unless it closes the connection; the GUI may stay idle as long as it likes.
Fairness ==
    /\ WF_vars(GuiContinues)
    /\ WF_vars(Running /\ Control)
    /\ WF_vars(Running /\ TorAnswers)

Spec == Init /\ [][Next]_vars
FairSpec == Spec /\ Fairness
------------------------------------------------------------------------------
(* Properties *)

GuiPcs == {"Idle", "LockRecv", "LockConn", "Post", "SendCheck", "SendSleep",
           "RecvCheck", "RecvSleep", "DiscStatus", "DiscSock", "CancelStatus",
           "CancelExit", "Dtor", "Gone", "Crashed"}
CtlPcs == {"Off", "Setup", "Dial", "Loop", "WakeSend", "Read", "Deliver",
           "WakeRecv", "CleanSock", "CleanSend", "CleanWakeSend", "CleanLock",
           "CleanRecv", "CleanWakeRecv"}

TypeThreads ==
    /\ gpc \in GuiPcs /\ cpc \in CtlPcs
    /\ connMutex \in {"free", "gui", "ctl"} /\ recvMutex \in {"free", "gui", "ctl"}
    /\ status \in Statuses /\ attempt \in 0 .. MaxConnectAttempts
    /\ sock \in {"None", "Idle", "Dialing", "Open", "TorClosed", "Closed"}
    /\ sendWaiter \in {"Waiting", "Success", "Failed"}
    /\ hand \in Cmds \cup {0} /\ waking \in Cmds \cup {0}

TypeFlags == timer \in BOOLEAN /\ exited \in BOOLEAN

TypeQueues ==
    /\ posted \in Seq(Cmds) /\ recvQueue \in Seq(Cmds)
    /\ out \in Seq(Cmds) /\ inbox \in Seq([cmd : Cmds \cup {Event}, whole : BOOLEAN])

TypeCalls ==
    /\ waiter \in [Cmds -> {"None", "Waiting", "Success", "Failed"}]
    /\ got \in [Cmds -> Cmds \cup {0}]
    /\ cur \in 0 .. MaxSends
    /\ kind \in [Cmds -> Kinds \cup {"None"}]
    /\ said \in [Cmds -> {"None", "True", "False"}]
    /\ sent \in [Cmds -> {"None", "Sent", "NotSent"}]
    /\ connects \in 0 .. MaxConnects /\ events \in 0 .. MaxEvents

\* Every variable has its type; in particular the attempts never exceed
\* MAX_CONNECT_ATTEMPTS.
TypeOK == TypeThreads /\ TypeFlags /\ TypeQueues /\ TypeCalls

\* Once the control thread has ended nobody is left waiting for it: run()
\* fails the SendWaiter and every ReceiveWaiter before it returns, and no
\* waiter is enqueued behind its back.
NoOrphanedCaller ==
    cpc = "Off" =>
        /\ recvQueue = <<>>
        /\ gpc \notin {"SendSleep", "RecvSleep"}
        /\ gpc = "SendCheck" => sendWaiter # "Waiting"
        /\ gpc = "RecvCheck" => waiter[cur] # "Waiting"

\* The queue holds no waiter that its caller has already deleted: every waiter
\* in it is the one the GUI thread is waiting on.
NoDeletedWaiterQueued ==
    recvQueue # <<>> =>
        /\ recvQueue = <<cur>>
        /\ gpc \in {"RecvCheck", "RecvSleep"}
        /\ waiter[cur] = "Waiting"

\* Between the test of _sock in send() and the postEvent() the control thread
\* does not delete the socket.
PostsToLiveSocket == gpc = "Post" => sock # "None"

\* A command that was written although nobody waits for its reply: a signal,
\* or a command that send(cmd) reported as failed.
Unwaited(c) == sent[c] = "Sent" /\ (kind[c] = "signal" \/ said[c] = "False")

\* A caller is handed the reply to another command only after some earlier
\* command was written without a waiter.
MismatchIsExplained ==
    \A c \in Cmds : waiter[c] = "Success" /\ got[c] # c =>
        \E d \in 1 .. (c - 1) : Unwaited(d)

\* onReadyRead() holds _connMutex and wants _recvMutex while send(cmd, reply)
\* holds _recvMutex and wants _connMutex.
CircularWait ==
    cpc = "Deliver" /\ recvMutex = "gui" /\ gpc = "LockConn" /\ connMutex = "ctl"

\* The two threads can wait for each other's mutex only after some command was
\* written without a waiter.
DeadlockIsExplained == CircularWait => \E d \in 1 .. cur : Unwaited(d)

\* The threads never wait for each other's mutex.
NoCircularWait == ~CircularWait

\* The destructor's wait() ends, so that the object can be deleted whatever the
\* control thread is doing.
DestructorReturns == gpc = "Dtor" ~> gpc = "Gone"

\* A connection attempt is resolved: connected, given up, cancelled,
\* or ended with the object.
ConnectResolves == status = "Connecting" ~> status # "Connecting" \/ ~Running
==============================================================================
