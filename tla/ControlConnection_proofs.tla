---------------------- MODULE ControlConnection_proofs ----------------------
(***************************************************************************)
(* Proofs about ControlConnection, for any number of commands, connections,*)
(* attempts and events: type correctness; that no caller of send() is left *)
(* behind when the control thread ends; that a reply goes astray, and the  *)
(* threads lock each other out, only after a command was written without a *)
(* waiter; and that plain commands on one connection are answered as       *)
(* RequestReply says.                                                      *)
(***************************************************************************)
EXTENDS ControlConnectionRefinement, SequenceTheorems, TLAPS

------------------------------------------------------------------------------
(* The inductive invariant *)

Holding == {"LockConn", "Post", "SendCheck", "SendSleep"}
AfterSock == {"CleanSend", "CleanWakeSend", "CleanLock", "CleanRecv", "CleanWakeRecv"}

\* Who is where when a mutex is held.
LocksOK ==
    /\ connMutex = "gui" <=> gpc = "Post"
    /\ connMutex = "ctl" <=> cpc \in {"Read", "Deliver", "WakeRecv"}
    /\ recvMutex = "gui" <=> gpc \in Holding /\ kind[cur] # "signal"
    /\ recvMutex = "ctl" <=> cpc \in {"WakeRecv", "CleanRecv", "CleanWakeRecv"}

\* A call of send() has a number, and only a send() with a reply locks
\* _recvMutex or waits on a ReceiveWaiter.
CallOK ==
    /\ gpc \in Holding \cup {"LockRecv", "RecvCheck", "RecvSleep"} => cur \in Cmds
    /\ gpc = "LockRecv" => kind[cur] # "signal"

\* The socket exists from Setup to CleanSock.
SockOK == sock = "None" <=> cpc \in {"Off", "Setup"} \cup AfterSock

\* The retry timer runs only in the event loop and with an attempt left.
AttemptOK ==
    /\ timer => cpc \in {"Loop", "WakeSend", "Read", "Deliver", "WakeRecv", "CleanSock"}
    /\ timer \/ cpc \in {"Setup", "Dial"} => attempt < MaxConnectAttempts

\* While the GUI waits for the result of a send, the control thread has yet to
\* look at the SendWaiter; once the result is set, it has yet to wake the GUI.
SendWaitOK ==
    /\ gpc \in {"SendCheck", "SendSleep"} /\ sendWaiter = "Waiting" =>
          cpc \notin {"Off", "Setup"} \cup (AfterSock \ {"CleanSend"})
    /\ gpc = "SendSleep" /\ sendWaiter # "Waiting" => cpc \in {"WakeSend", "CleanWakeSend"}
    /\ gpc \in {"SendCheck", "SendSleep"} /\ kind[cur] # "signal" => cpc \notin {"Off", "Setup"}

\* The queue holds exactly the waiter the GUI still waits on.
RecvWaitOK ==
    /\ NoDeletedWaiterQueued
    /\ recvQueue # <<>> => cpc \notin {"Off", "Setup"}
    /\ gpc \in {"RecvCheck", "RecvSleep"} /\ waiter[cur] = "Waiting" => recvQueue = <<cur>>
    /\ gpc = "RecvSleep" /\ waiter[cur] # "Waiting" =>
          cpc \in {"WakeRecv", "CleanWakeRecv"} /\ waking = cur

\* The inductive invariant: the callers' and the control thread's views agree
\* on locks, socket, attempts and waiters.
Consistent ==
    /\ LocksOK /\ CallOK /\ SockOK /\ AttemptOK
    /\ PostsToLiveSocket /\ SendWaitOK /\ RecvWaitOK

------------------------------------------------------------------------------
(* The proofs *)

\* A sequence of one element has that element as its head, and an empty tail.
LEMMA Singleton ==
    ASSUME NEW x
    PROVE  /\ Head(<<x>>) = x /\ Tail(<<x>>) = <<>> /\ <<x>> # <<>>
           /\ Append(<<>>, x) = <<x>>
  OBVIOUS

\* What the operators on sequences return.
LEMMA SeqFacts ==
    ASSUME NEW S, NEW s \in Seq(S)
    PROVE  /\ s # <<>> => Head(s) \in S /\ Tail(s) \in Seq(S)
           /\ \A i \in 1 .. Len(s) : s[i] \in S
  BY HeadTailProperties, ElementOfSeq

\* What Tor sends.
Item == [cmd : Cmds \cup {Event}, whole : BOOLEAN]

LEMMA InboxIsSeq == TypeOK => inbox \in Seq(Item)
  BY DEF TypeOK, TypeQueues, Item

\* Initially the threads agree: nothing runs and nobody waits.
LEMMA InitConsistent == Init => TypeOK /\ Consistent
<1> SUFFICES ASSUME Init PROVE TypeOK /\ Consistent
  OBVIOUS
<1>1. TypeOK
  <2>1. TypeThreads
    BY ConnectionAssumption DEF Init, TypeThreads, GuiPcs, CtlPcs, Statuses
  <2>2. TypeFlags
    BY Zenon DEF Init, TypeFlags
  <2>3. TypeQueues
    BY DEF Init, TypeQueues
  <2>4. TypeCalls
    BY ConnectionAssumption DEF Init, TypeCalls
  <2> QED
    BY <2>1, <2>2, <2>3, <2>4 DEF TypeOK
<1>2. Consistent
  BY ConnectionAssumption
  DEF Init, Consistent, LocksOK, CallOK, SockOK, AttemptOK, SendWaitOK,
      RecvWaitOK, NoDeletedWaiterQueued, PostsToLiveSocket, Holding, AfterSock
<1> QED
  BY <1>1, <1>2

\* Every step of the two threads and of Tor keeps their views consistent.
LEMMA StepConsistent == TypeOK /\ Consistent /\ [Next]_vars => Consistent'
<1> SUFFICES ASSUME TypeOK, Consistent, [Next]_vars PROVE Consistent'
  OBVIOUS
<1> USE ConnectionAssumption
        DEF TypeOK, TypeThreads, TypeQueues, TypeCalls, GuiPcs, CtlPcs, Kinds, Cmds,
            Consistent, LocksOK, CallOK, SockOK, AttemptOK, SendWaitOK, RecvWaitOK,
            NoDeletedWaiterQueued, PostsToLiveSocket, Holding, AfterSock,
            guiVars, calls, lockVars, connVars, sendVars, recvVars, torVars, ctlVars,
            allButGpc, allButCpc
<1>1. CASE Connect
  BY <1>1 DEF Connect
<1>2. CASE BeginSend
  BY <1>2 DEF BeginSend
<1>3. CASE BeginDisconnect
  BY <1>3 DEF BeginDisconnect
<1>4. CASE BeginCancel
  BY <1>4 DEF BeginCancel
<1>5. CASE BeginDestroy
  BY <1>5 DEF BeginDestroy, Exit
<1>6. CASE LockRecv
  BY <1>6 DEF LockRecv
<1>7. CASE LockConn
  BY <1>7 DEF LockConn, ReturnUnsent, SockIsConnected, ConnFree
<1>8. CASE Post
  BY <1>8 DEF Post
<1>9. CASE SendSleep
  BY <1>9 DEF SendSleep
<1>10. CASE SendReturns
  <2>1. recvQueue = <<>> /\ cur \in Cmds
    BY <1>10 DEF SendReturns
  <2>2. CASE sendWaiter = "Success" /\ kind[cur] # "signal"
    <3>1. recvQueue' = <<cur>> /\ waiter'[cur] = "Waiting" /\ gpc' = "RecvCheck"
          /\ recvMutex' = "free"
      BY <1>10, <2>1, <2>2, Singleton DEF SendReturns, EnqueueWaiter
    <3> QED
      BY <1>10, <2>1, <2>2, <3>1, Singleton DEF SendReturns
  <2>3. CASE ~(sendWaiter = "Success" /\ kind[cur] # "signal")
    BY <1>10, <2>1, <2>3 DEF SendReturns, ReturnUnsent
  <2> QED
    BY <2>2, <2>3
<1>11. CASE RecvSleep
  BY <1>11 DEF RecvSleep
<1>12. CASE RecvReturns
  BY <1>12 DEF RecvReturns
<1>13. CASE DisconnectStatus
  BY <1>13 DEF DisconnectStatus
<1>14. CASE DisconnectSock
  BY <1>14 DEF DisconnectSock, SockIsConnected, ConnFree
<1>15. CASE CancelStatus
  BY <1>15 DEF CancelStatus
<1>16. CASE CancelExit
  BY <1>16 DEF CancelExit, Exit
<1>17. CASE EndDestroy
  BY <1>17 DEF EndDestroy
<1>18. CASE Setup
  BY <1>18 DEF Setup, ConnFree
<1>19. CASE Dial
  BY <1>19 DEF Dial, ConnFree
<1>20. CASE TimerFires
  BY <1>20 DEF TimerFires
<1>21. CASE OnConnected
  BY <1>21 DEF OnConnected
<1>22. CASE OnConnectError
  BY <1>22 DEF OnConnectError, StartTimer, MayRetry
<1>23. CASE OnDisconnected
  BY <1>23 DEF OnDisconnected, Disconnected, Exit
<1>24. CASE HandleSend
  BY <1>24 DEF HandleSend, SetSendResult, SockIsConnected
<1>25. CASE WakeSend
  BY <1>25 DEF WakeSend, WakeSender
<1>26. CASE ReadyRead
  BY <1>26 DEF ReadyRead, ConnFree, SockIsConnected
<1>27. CASE ReadReply
  BY <1>27 DEF ReadReply
<1>28. CASE ReadReplyFails
  BY <1>28 DEF ReadReplyFails, Disconnected, Exit
<1>29. CASE Deliver
  <2>1. CASE recvQueue = <<>>
    BY <1>29, <2>1 DEF Deliver
  <2>2. CASE recvQueue # <<>>
    <3>1. recvQueue = <<cur>> /\ Head(recvQueue) = cur /\ cur \in Cmds
      BY <2>2, Singleton
    <3>2. recvQueue' = <<>> /\ waking' = cur /\ waiter'[cur] = "Success"
      BY <1>29, <2>2, <3>1, Singleton DEF Deliver, SetRecvResult
    <3> QED
      BY <1>29, <2>2, <3>1, <3>2 DEF Deliver
  <2> QED
    BY <2>1, <2>2
<1>30. CASE WakeRecv
  BY <1>30 DEF WakeRecv, WakeReceiver
<1>31. CASE ReadDone
  BY <1>31 DEF ReadDone
<1>32. CASE LeaveLoop
  BY <1>32 DEF LeaveLoop
<1>33. CASE CleanSock
  BY <1>33 DEF CleanSock, ConnFree
<1>34. CASE CleanSend
  BY <1>34 DEF CleanSend, SetSendResult, SenderWaits
<1>35. CASE CleanWakeSend
  BY <1>35 DEF CleanWakeSend, WakeSender
<1>36. CASE CleanLock
  BY <1>36 DEF CleanLock
<1>37. CASE CleanRecv
  <2>1. CASE recvQueue = <<>>
    BY <1>37, <2>1 DEF CleanRecv
  <2>2. CASE recvQueue # <<>>
    <3>1. recvQueue = <<cur>> /\ Head(recvQueue) = cur /\ cur \in Cmds
      BY <2>2, Singleton
    <3>2. recvQueue' = <<>> /\ waking' = cur /\ waiter'[cur] = "Failed"
      BY <1>37, <2>2, <3>1, Singleton DEF CleanRecv, SetRecvResult
    <3> QED
      BY <1>37, <2>2, <3>1, <3>2 DEF CleanRecv
  <2> QED
    BY <2>1, <2>2
<1>38. CASE CleanWakeRecv
  BY <1>38 DEF CleanWakeRecv, WakeReceiver
<1>39. CASE TorReplies
  BY <1>39 DEF TorReplies
<1>40. CASE TorEndsReply
  BY <1>40 DEF TorEndsReply
<1>41. CASE TorSendsEvent
  BY <1>41 DEF TorSendsEvent
<1>42. CASE TorCloses
  BY <1>42 DEF TorCloses
<1>43. CASE UNCHANGED vars
  BY <1>43 DEF vars
<1> QED
  BY <1>1, <1>2, <1>3, <1>4, <1>5, <1>6, <1>7, <1>8, <1>9, <1>10, <1>11, <1>12, <1>13, <1>14,
     <1>15, <1>16, <1>17, <1>18, <1>19, <1>20, <1>21, <1>22, <1>23, <1>24, <1>25, <1>26, <1>27, <1>28,
     <1>29, <1>30, <1>31, <1>32, <1>33, <1>34, <1>35, <1>36, <1>37, <1>38, <1>39, <1>40, <1>41, <1>42, <1>43
  DEF Next, GuiBegins, GuiContinues, Control, Tor, TorAnswers, Terminated

\* The scalars of the two threads keep their types; the retry guard bounds the
\* attempts.
LEMMA StepTypeThreads == TypeOK /\ Consistent /\ [Next]_vars => TypeThreads'
<1> SUFFICES ASSUME TypeOK, Consistent, [Next]_vars PROVE TypeThreads'
  OBVIOUS
<1> USE ConnectionAssumption
        DEF TypeOK, TypeThreads, TypeQueues, TypeCalls, GuiPcs, CtlPcs, Statuses, Kinds, Cmds,
            Event, Consistent, AttemptOK, RecvWaitOK, NoDeletedWaiterQueued, CallOK, guiVars,
            calls, lockVars, connVars, sendVars, recvVars, torVars, ctlVars, allButGpc, allButCpc
<1>1. CASE Connect
  BY <1>1 DEF Connect
<1>2. CASE BeginSend
  BY <1>2 DEF BeginSend
<1>3. CASE BeginDisconnect
  BY <1>3 DEF BeginDisconnect
<1>4. CASE BeginCancel
  BY <1>4 DEF BeginCancel
<1>5. CASE BeginDestroy
  BY <1>5 DEF BeginDestroy, Exit
<1>6. CASE LockRecv
  BY <1>6 DEF LockRecv
<1>7. CASE LockConn
  <2>1. CASE SockIsConnected
    BY <1>7, <2>1 DEF LockConn
  <2>2. CASE ~SockIsConnected
    BY <1>7, <2>2 DEF LockConn, ReturnUnsent
  <2> QED
    BY <2>1, <2>2
<1>8. CASE Post
  BY <1>8 DEF Post
<1>9. CASE SendSleep
  BY <1>9 DEF SendSleep
<1>10. CASE SendReturns
  BY <1>10 DEF SendReturns, EnqueueWaiter, ReturnUnsent
<1>11. CASE RecvSleep
  BY <1>11 DEF RecvSleep
<1>12. CASE RecvReturns
  BY <1>12 DEF RecvReturns
<1>13. CASE DisconnectStatus
  BY <1>13 DEF DisconnectStatus
<1>14. CASE DisconnectSock
  BY <1>14 DEF DisconnectSock, SockIsConnected, ConnFree
<1>15. CASE CancelStatus
  BY <1>15 DEF CancelStatus
<1>16. CASE CancelExit
  BY <1>16 DEF CancelExit, Exit
<1>17. CASE EndDestroy
  BY <1>17 DEF EndDestroy
<1>18. CASE Setup
  BY <1>18 DEF Setup
<1>19. CASE Dial
  BY <1>19 DEF Dial
<1>20. CASE TimerFires
  BY <1>20 DEF TimerFires
<1>21. CASE OnConnected
  BY <1>21 DEF OnConnected
<1>22. CASE OnConnectError
  BY <1>22 DEF OnConnectError, StartTimer, MayRetry
<1>23. CASE OnDisconnected
  BY <1>23 DEF OnDisconnected, Disconnected, Exit
<1>24. CASE HandleSend
  BY <1>24 DEF HandleSend, SetSendResult, SendCommandResult, SockIsConnected
<1>25. CASE WakeSend
  BY <1>25 DEF WakeSend, WakeSender
<1>26. CASE ReadyRead
  BY <1>26 DEF ReadyRead
<1>27. CASE ReadReply
  <2>1. Head(inbox) \in Item
    BY <1>27, InboxIsSeq, SeqFacts DEF ReadReply
  <2> QED
    BY <1>27, <2>1 DEF ReadReply, Item
<1>28. CASE ReadReplyFails
  BY <1>28 DEF ReadReplyFails, Disconnected, Exit
<1>29. CASE Deliver
  BY <1>29 DEF Deliver, SetRecvResult
<1>30. CASE WakeRecv
  BY <1>30 DEF WakeRecv, WakeReceiver
<1>31. CASE ReadDone
  BY <1>31 DEF ReadDone
<1>32. CASE LeaveLoop
  BY <1>32 DEF LeaveLoop
<1>33. CASE CleanSock
  BY <1>33 DEF CleanSock
<1>34. CASE CleanSend
  BY <1>34 DEF CleanSend, SetSendResult, SenderWaits
<1>35. CASE CleanWakeSend
  BY <1>35 DEF CleanWakeSend, WakeSender
<1>36. CASE CleanLock
  BY <1>36 DEF CleanLock
<1>37. CASE CleanRecv
  BY <1>37 DEF CleanRecv, SetRecvResult
<1>38. CASE CleanWakeRecv
  BY <1>38 DEF CleanWakeRecv, WakeReceiver
<1>39. CASE TorCloses
  BY <1>39 DEF TorCloses
<1>40. CASE UNCHANGED <<gpc, cpc, connMutex, recvMutex, status, attempt, sock, sendWaiter, hand, waking>>
  BY <1>40
<1> QED
  BY <1>1, <1>2, <1>3, <1>4, <1>5, <1>6, <1>7, <1>8, <1>9, <1>10, <1>11, <1>12,
      <1>13, <1>14, <1>15, <1>16, <1>17, <1>18, <1>19, <1>20, <1>21, <1>22,
      <1>23, <1>24, <1>25, <1>26, <1>27, <1>28, <1>29, <1>30, <1>31, <1>32,
      <1>33, <1>34, <1>35, <1>36, <1>37, <1>38, <1>39, <1>40
  DEF Next, GuiBegins, GuiContinues, Control, Tor, TorAnswers, Terminated,
      vars, TorReplies, TorEndsReply, TorSendsEvent

\* The timer and the exit flag are Boolean.
LEMMA StepTypeFlags == TypeOK /\ Consistent /\ [Next]_vars => TypeFlags'
<1> SUFFICES ASSUME TypeOK, Consistent, [Next]_vars PROVE TypeFlags'
  OBVIOUS
<1> USE DEF TypeOK, TypeFlags, guiVars, calls, lockVars, connVars, sendVars, recvVars,
            torVars, ctlVars, allButGpc, allButCpc
<1>1. CASE Connect
  BY <1>1, Zenon DEF Connect
<1>2. CASE BeginDestroy
  BY <1>2, Zenon DEF BeginDestroy, Exit
<1>3. CASE CancelExit
  BY <1>3, Zenon DEF CancelExit, Exit
<1>4. CASE Setup
  BY <1>4, Zenon DEF Setup
<1>5. CASE TimerFires
  BY <1>5, Zenon DEF TimerFires
<1>6. CASE OnConnectError
  BY <1>6, Zenon DEF OnConnectError, StartTimer, MayRetry
<1>7. CASE OnDisconnected
  BY <1>7, Zenon DEF OnDisconnected, Disconnected, Exit
<1>8. CASE ReadReplyFails
  BY <1>8, Zenon DEF ReadReplyFails, Disconnected, Exit
<1>9. CASE CleanSock
  BY <1>9, Zenon DEF CleanSock
<1>10. CASE UNCHANGED <<timer, exited>>
  BY <1>10, Zenon
<1> QED
  BY <1>1, <1>2, <1>3, <1>4, <1>5, <1>6, <1>7, <1>8, <1>9, <1>10
  DEF Next, GuiBegins, GuiContinues, Control, Tor, TorAnswers, Terminated,
      vars, BeginSend, BeginDisconnect, BeginCancel, LockRecv, LockConn, Post,
      SendSleep, SendReturns, RecvSleep, RecvReturns, DisconnectStatus,
      DisconnectSock, CancelStatus, EndDestroy, Dial, OnConnected, HandleSend,
      WakeSend, ReadyRead, ReadReply, Deliver, WakeRecv, ReadDone, LeaveLoop,
      CleanSend, CleanWakeSend, CleanLock, CleanRecv, CleanWakeRecv,
      TorReplies, TorEndsReply, TorSendsEvent, TorCloses, ConnFree,
      EnqueueWaiter, ReturnUnsent, SendCommandResult, SenderWaits,
      SetRecvResult, SetSendResult, SockIsConnected, WakeReceiver, WakeSender

\* The queues hold commands and replies.
LEMMA StepTypeQueues == TypeOK /\ Consistent /\ [Next]_vars => TypeQueues'
<1> SUFFICES ASSUME TypeOK, Consistent, [Next]_vars PROVE TypeQueues'
  OBVIOUS
<1> USE DEF TypeOK, TypeQueues, TypeThreads, TypeCalls, Consistent, CallOK, guiVars, calls,
            lockVars, connVars, sendVars, recvVars, torVars, ctlVars, allButGpc, allButCpc,
            Holding, Event
<1>1. CASE Post
  BY <1>1 DEF Post
<1>2. CASE SendReturns
  <2>1. Append(recvQueue, cur) \in Seq(Cmds)
    BY <1>2, AppendProperties DEF SendReturns
  <2> QED
    BY <1>2, <2>1 DEF SendReturns, EnqueueWaiter
<1>3. CASE OnDisconnected
  BY <1>3 DEF OnDisconnected, Disconnected, Exit
<1>4. CASE HandleSend
  BY <1>4 DEF HandleSend, SetSendResult, SendCommandResult, SockIsConnected
<1>5. CASE ReadReply
  BY <1>5 DEF ReadReply
<1>6. CASE ReadReplyFails
  BY <1>6 DEF ReadReplyFails, Disconnected, Exit
<1>7. CASE Deliver
  <2>1. CASE recvQueue = <<>>
    BY <1>7, <2>1 DEF Deliver
  <2>2. CASE recvQueue # <<>>
    <3>1. Head(recvQueue) \in Cmds /\ Tail(recvQueue) \in Seq(Cmds)
      BY <2>2, SeqFacts
    <3> QED
      BY <1>7, <2>2, <3>1 DEF Deliver, SetRecvResult
  <2> QED
    BY <2>1, <2>2
<1>8. CASE CleanSock
  BY <1>8 DEF CleanSock
<1>9. CASE CleanRecv
  <2>1. CASE recvQueue = <<>>
    BY <1>9, <2>1 DEF CleanRecv
  <2>2. CASE recvQueue # <<>>
    <3>1. Head(recvQueue) \in Cmds /\ Tail(recvQueue) \in Seq(Cmds)
      BY <2>2, SeqFacts
    <3> QED
      BY <1>9, <2>2, <3>1 DEF CleanRecv, SetRecvResult
  <2> QED
    BY <2>1, <2>2
<1>10. CASE TorReplies
  BY <1>10 DEF TorReplies
<1>11. CASE TorEndsReply
  <2> DEFINE last == [inbox[Len(inbox)] EXCEPT !.whole = TRUE]
  <2>1. Len(inbox) \in 1 .. Len(inbox)
    BY <1>11 DEF TorEndsReply, AllWhole
  <2>2. last \in Item
    <3>1. inbox[Len(inbox)] \in Item
      BY <2>1, InboxIsSeq, SeqFacts
    <3> QED
      BY <3>1 DEF Item
  <2>3. [inbox EXCEPT ![Len(inbox)] = last] \in Seq(Item)
    BY <2>1, <2>2, InboxIsSeq, ExceptSeq
  <2> QED
    BY <1>11, <2>3 DEF TorEndsReply, Item
<1>12. CASE TorSendsEvent
  BY <1>12 DEF TorSendsEvent
<1>13. CASE TorCloses
  <2>1. PICK n \in 0 .. Len(inbox) : inbox' = SubSeq(inbox, 1, n)
    BY <1>13 DEF TorCloses
  <2>2. \A i \in 1 .. n : inbox[i] \in Item
    BY <2>1, InboxIsSeq, SeqFacts
  <2>3. SubSeq(inbox, 1, n) \in Seq(Item)
    BY <2>1, <2>2, SubSeqProperties
  <2> QED
    BY <1>13, <2>1, <2>3 DEF TorCloses, Item
<1>14. CASE UNCHANGED <<posted, recvQueue, out, inbox>>
  BY <1>14
<1> QED
  BY <1>1, <1>2, <1>3, <1>4, <1>5, <1>6, <1>7, <1>8, <1>9, <1>10, <1>11, <1>12,
      <1>13, <1>14
  DEF Next, GuiBegins, GuiContinues, Control, Tor, TorAnswers, Terminated,
      vars, Connect, BeginSend, BeginDisconnect, BeginCancel, BeginDestroy,
      LockRecv, LockConn, SendSleep, RecvSleep, RecvReturns, DisconnectStatus,
      DisconnectSock, CancelStatus, CancelExit, EndDestroy, Setup, Dial,
      TimerFires, OnConnected, OnConnectError, WakeSend, ReadyRead, WakeRecv,
      ReadDone, LeaveLoop, CleanSend, CleanWakeSend, CleanLock, CleanWakeRecv,
      ConnFree, Exit, MayRetry, ReturnUnsent, SenderWaits, SetSendResult,
      SockIsConnected, StartTimer, WakeReceiver, WakeSender

\* The calls, their waiters and the history keep their types.
LEMMA StepTypeCalls == TypeOK /\ Consistent /\ [Next]_vars => TypeCalls'
<1> SUFFICES ASSUME TypeOK, Consistent, [Next]_vars PROVE TypeCalls'
  OBVIOUS
<1> USE ConnectionAssumption
        DEF TypeOK, TypeQueues, TypeThreads, TypeCalls, Kinds, Cmds, guiVars, calls, lockVars,
            connVars, sendVars, recvVars, torVars, ctlVars, allButGpc, allButCpc
<1>1. CASE Connect
  BY <1>1 DEF Connect
<1>2. CASE BeginSend
  BY <1>2 DEF BeginSend
<1>3. CASE LockConn
  BY <1>3 DEF LockConn, ReturnUnsent, SockIsConnected, ConnFree
<1>4. CASE SendReturns
  BY <1>4 DEF SendReturns, EnqueueWaiter, ReturnUnsent
<1>5. CASE HandleSend
  BY <1>5 DEF HandleSend, SetSendResult, SendCommandResult, SockIsConnected
<1>6. CASE Deliver
  <2>1. CASE recvQueue = <<>>
    BY <1>6, <2>1 DEF Deliver
  <2>2. CASE recvQueue # <<>>
    <3>1. Head(recvQueue) \in Cmds /\ Tail(recvQueue) \in Seq(Cmds)
      BY <2>2, SeqFacts
    <3> QED
      <4>1. waiter' \in [Cmds -> {"None", "Waiting", "Success", "Failed"}]
        BY <1>6, <2>2, <3>1 DEF Deliver, SetRecvResult
      <4>2. got' \in [Cmds -> Cmds \cup {0}]
        BY <1>6, <2>2, <3>1 DEF Deliver, SetRecvResult
      <4>3. UNCHANGED <<cur, kind, said, sent, connects, events>>
        BY <1>6, <2>2 DEF Deliver
      <4> QED
        BY <4>1, <4>2, <4>3
  <2> QED
    BY <2>1, <2>2
<1>7. CASE CleanSock
  BY <1>7 DEF CleanSock
<1>8. CASE CleanRecv
  BY <1>8 DEF CleanRecv, SetRecvResult
<1>9. CASE TorSendsEvent
  BY <1>9 DEF TorSendsEvent
<1>10. CASE UNCHANGED <<waiter, got, cur, kind, said, sent, connects, events>>
  BY <1>10
<1> QED
  BY <1>1, <1>2, <1>3, <1>4, <1>5, <1>6, <1>7, <1>8, <1>9, <1>10
  DEF Next, GuiBegins, GuiContinues, Control, Tor, TorAnswers, Terminated,
      vars, BeginDisconnect, BeginCancel, BeginDestroy, LockRecv, Post,
      SendSleep, RecvSleep, RecvReturns, DisconnectStatus, DisconnectSock,
      CancelStatus, CancelExit, EndDestroy, Setup, Dial, TimerFires,
      OnConnected, OnConnectError, OnDisconnected, WakeSend, ReadyRead,
      ReadReply, ReadReplyFails, WakeRecv, ReadDone, LeaveLoop, CleanSend,
      CleanWakeSend, CleanLock, CleanWakeRecv, TorReplies, TorEndsReply,
      TorCloses, ConnFree, Disconnected, Exit, MayRetry, SenderWaits,
      SetSendResult, SockIsConnected, StartTimer, WakeReceiver, WakeSender

------------------------------------------------------------------------------
(* The theorems *)

\* The invariant of the two threads: types and consistency together.
LEMMA Invariance == Spec => [](TypeOK /\ Consistent)
<1>1. TypeOK /\ Consistent /\ [Next]_vars => (TypeOK /\ Consistent)'
  BY StepConsistent, StepTypeThreads, StepTypeFlags, StepTypeQueues, StepTypeCalls
  DEF TypeOK
<1> QED
  BY InitConsistent, <1>1, PTL DEF Spec

\* Type correctness of the connection; the attempts made for one connect() never
\* exceed MAX_CONNECT_ATTEMPTS.
THEOREM TypeCorrect == Spec => []TypeOK
  BY Invariance, PTL

\* The GUI thread, the control thread and the queues agree on who holds which mutex, on the
\* socket, on the attempts left and on who waits for what.
THEOREM ThreadsAgree == Spec => []Consistent
  BY Invariance, PTL

\* When the control thread has ended, nobody waits for it any more: run() and
\* the two send()s between them leave no caller behind.
THEOREM NoCallerOrphaned == Spec => []NoOrphanedCaller
<1>1. TypeOK /\ Consistent => NoOrphanedCaller
  BY DEF Consistent, SendWaitOK, RecvWaitOK, NoOrphanedCaller, NoDeletedWaiterQueued
<1> QED
  BY Invariance, <1>1, PTL

\* The queue of ReceiveWaiters never holds one whose caller has gone on.
THEOREM NoDeletedWaiter == Spec => []NoDeletedWaiterQueued
<1>1. Consistent => NoDeletedWaiterQueued
  BY DEF Consistent, RecvWaitOK
<1> QED
  BY Invariance, <1>1, PTL

\* send() posts its event to a socket that still exists.
THEOREM SocketLivesWhenPosted == Spec => []PostsToLiveSocket
<1>1. Consistent => PostsToLiveSocket
  BY DEF Consistent
<1> QED
  BY Invariance, <1>1, PTL

------------------------------------------------------------------------------
(* Replies and the commands they answer *)

\* What is on its way between a caller and its reply: the commands that are posted, that Tor
\* has to answer, that it has answered, and the one whose reply has just been read.
Elements(s) == {s[i] : i \in DOMAIN s}
Told(s) == {s[i].cmd : i \in DOMAIN s} \ {Event}
Posted == Elements(posted)
Unanswered == Elements(out)
Answers == Told(inbox)
InHand == {hand} \ {0}
Written == Unanswered \cup Answers \cup InHand
Way == Posted \cup Written

\* It stays in the order of the calls.
Rising(s) == \A i, j \in DOMAIN s : i < j => s[i] < s[j]
RisingTold(s) == \A i, j \in DOMAIN s :
    i < j /\ s[i].cmd # Event /\ s[j].cmd # Event => s[i].cmd < s[j].cmd
Below(A, B) == \A a \in A, b \in B : a < b
InTurn ==
    /\ Rising(posted) /\ Rising(out) /\ RisingTold(inbox)
    /\ Below(InHand, Answers) /\ Below(InHand \cup Answers, Unanswered) /\ Below(Written, Posted)

Early == {"LockRecv", "LockConn", "Post"}
Asking == {"LockRecv"} \cup Holding
Waiting == {"RecvCheck", "RecvSleep"}
Ended(c) == c < cur \/ gpc \notin Asking \cup Waiting

\* It was posted by a call that has come so far, and was written, or was not yet.
OnTheWay ==
    /\ \A c \in Way : c \in Cmds /\ c <= cur /\ (c = cur => gpc \notin Early)
    /\ (\A c \in Posted : sent[c] = "None") /\ (\A c \in Written : sent[c] = "Sent")
    /\ sock = "None" => Way = {}
    /\ cpc = "Deliver" <=> hand # 0

\* A call leaves no trace before it comes to that.
Untouched ==
    /\ \A c \in Cmds : c > cur \/ (c = cur /\ gpc \in Early) => sent[c] = "None"
    /\ \A c \in Cmds : c > cur \/ (c = cur /\ gpc \in Asking) =>
           said[c] = "None" /\ waiter[c] = "None" /\ got[c] = 0
    /\ gpc \in Waiting => cur \in Cmds /\ waiter[cur] # "None"

\* A caller who was given its reply, or told that the thread ends, has nothing on its way.
Met == \A c \in Way : waiter[c] # "Failed" /\ got[c] # c

\* What is on its way for nobody shows that a command was written without a waiter, or will be.
Stray(c) ==
    \/ kind[c] = "signal" \/ said[c] = "False"
    \/ \E d \in 1 .. (c - 1) : Unwaited(d)
StraysAre == \A c \in Way : Ended(c) => Stray(c)

\* The inductive invariant: a reply finds its caller unless a command was written without one.
Matched == InTurn /\ OnTheWay /\ Untouched /\ Met /\ StraysAre /\ MismatchIsExplained

LEMMA RisingTail ==
    ASSUME NEW s \in Seq(Cmds), s # <<>>, Rising(s)
    PROVE  /\ Rising(Tail(s)) /\ Head(s) \in Cmds
           /\ Elements(s) = {Head(s)} \cup Elements(Tail(s)) /\ Below({Head(s)}, Elements(Tail(s)))
<1>1. PICK n : n = Len(s)
  OBVIOUS
<1>2. PICK q : q = Tail(s)
  OBVIOUS
<1>3. PICK h : h = Head(s)
  OBVIOUS
<1>4. /\ n \in Nat \ {0} /\ DOMAIN s = 1 .. n /\ DOMAIN q = 1 .. n - 1 /\ h = s[1] /\ h \in Cmds
      /\ \A i \in 1 .. n - 1 : q[i] = s[i + 1]
  BY <1>1, <1>2, <1>3, HeadTailProperties, ElementOfSeq
<1>5. \A i \in 1 .. n : i = 1 \/ (i - 1 \in 1 .. n - 1 /\ (i - 1) + 1 = i)
  BY <1>4
<1>6. 1 \in 1 .. n /\ \A i \in 1 .. n - 1 : i + 1 \in 1 .. n /\ 1 < i + 1
  BY <1>4
<1>7. Elements(s) = {h} \cup Elements(q)
  <2>1. ASSUME NEW x \in Elements(s) PROVE x \in {h} \cup Elements(q)
    <3>1. PICK i \in 1 .. n : x = s[i]
      BY <1>4, <2>1 DEF Elements
    <3>2. CASE i = 1
      BY <1>4, <3>1, <3>2
    <3>3. CASE i - 1 \in 1 .. n - 1 /\ (i - 1) + 1 = i
      BY <1>4, <3>1, <3>3 DEF Elements
    <3> QED BY <1>5, <3>2, <3>3
  <2>2. h \in Elements(s)
    BY <1>4, <1>6 DEF Elements
  <2>3. Elements(q) \subseteq Elements(s)
    BY <1>4, <1>6 DEF Elements
  <2> QED BY <2>1, <2>2, <2>3
<1>8. \A i \in 1 .. n - 1 : h < q[i]
  BY <1>4, <1>6 DEF Rising
<1>9. Below({h}, Elements(q))
  BY <1>4, <1>8 DEF Below, Elements
<1>10. Rising(q)
  <2> SUFFICES ASSUME NEW i \in 1 .. n - 1, NEW j \in 1 .. n - 1, i < j PROVE q[i] < q[j]
    BY <1>4 DEF Rising
  <2>1. i + 1 \in 1 .. n /\ j + 1 \in 1 .. n /\ i + 1 < j + 1
    BY <1>4
  <2> QED BY <1>4, <2>1 DEF Rising
<1> QED BY <1>2, <1>3, <1>4, <1>7, <1>9, <1>10

LEMMA RisingAppend ==
    ASSUME NEW s \in Seq(Cmds), NEW c \in Cmds, Rising(s), Below(Elements(s), {c})
    PROVE  Rising(Append(s, c)) /\ Elements(Append(s, c)) = Elements(s) \cup {c}
<1>1. PICK n : n = Len(s)
  OBVIOUS
<1>2. PICK q : q = Append(s, c)
  OBVIOUS
<1>3. /\ n \in Nat /\ DOMAIN s = 1 .. n /\ DOMAIN q = 1 .. n + 1 /\ q[n + 1] = c
      /\ \A i \in 1 .. n : q[i] = s[i]
  BY <1>1, <1>2, AppendProperties
<1>4. \A i \in 1 .. n + 1 : i = n + 1 \/ i \in 1 .. n
  BY <1>3
<1>5. n + 1 \in 1 .. n + 1 /\ \A i \in 1 .. n : i \in 1 .. n + 1
  BY <1>3
<1>6. Elements(q) = Elements(s) \cup {c}
  <2>1. Elements(q) \subseteq Elements(s) \cup {c}
    BY <1>3, <1>4 DEF Elements
  <2>2. c \in Elements(q) /\ Elements(s) \subseteq Elements(q)
    BY <1>3, <1>5 DEF Elements
  <2> QED BY <2>1, <2>2
<1>7. \A i \in 1 .. n : s[i] < c
  BY <1>3 DEF Below, Elements
<1>8. Rising(q)
  <2> SUFFICES ASSUME NEW i \in 1 .. n + 1, NEW j \in 1 .. n + 1, i < j PROVE q[i] < q[j]
    BY <1>3 DEF Rising
  <2>1. i \in 1 .. n
    BY <1>3
  <2>2. CASE j \in 1 .. n
    BY <1>3, <2>1, <2>2 DEF Rising
  <2>3. CASE j = n + 1
    BY <1>3, <1>7, <2>1, <2>3
  <2> QED BY <1>4, <2>2, <2>3
<1> QED BY <1>2, <1>6, <1>8

\* The same of what Tor sends.
LEMMA ToldTail ==
    ASSUME NEW s \in Seq(Item), s # <<>>, RisingTold(s)
    PROVE  /\ RisingTold(Tail(s)) /\ Head(s) \in Item
           /\ Told(s) = ({Head(s).cmd} \ {Event}) \cup Told(Tail(s))
           /\ Below({Head(s).cmd} \ {Event}, Told(Tail(s)))
<1>1. PICK n : n = Len(s)
  OBVIOUS
<1>2. PICK q : q = Tail(s)
  OBVIOUS
<1>3. PICK h : h = Head(s)
  OBVIOUS
<1>4. /\ n \in Nat \ {0} /\ DOMAIN s = 1 .. n /\ DOMAIN q = 1 .. n - 1 /\ h = s[1] /\ h \in Item
      /\ \A i \in 1 .. n - 1 : q[i] = s[i + 1]
  BY <1>1, <1>2, <1>3, HeadTailProperties, ElementOfSeq
<1>5. \A i \in 1 .. n : i = 1 \/ (i - 1 \in 1 .. n - 1 /\ (i - 1) + 1 = i)
  BY <1>4
<1>6. 1 \in 1 .. n /\ \A i \in 1 .. n - 1 : i + 1 \in 1 .. n /\ 1 < i + 1
  BY <1>4
<1>7. Told(s) = ({h.cmd} \ {Event}) \cup Told(q)
  <2>1. ASSUME NEW x \in Told(s) PROVE x \in ({h.cmd} \ {Event}) \cup Told(q)
    <3>1. PICK i \in 1 .. n : x = s[i].cmd
      BY <1>4, <2>1 DEF Told
    <3>2. CASE i = 1
      BY <1>4, <2>1, <3>1, <3>2 DEF Told
    <3>3. CASE i - 1 \in 1 .. n - 1 /\ (i - 1) + 1 = i
      BY <1>4, <2>1, <3>1, <3>3 DEF Told
    <3> QED BY <1>5, <3>2, <3>3
  <2>2. {h.cmd} \ {Event} \subseteq Told(s)
    BY <1>4, <1>6 DEF Told
  <2>3. Told(q) \subseteq Told(s)
    BY <1>4, <1>6 DEF Told
  <2> QED BY <2>1, <2>2, <2>3
<1>8. \A i \in 1 .. n - 1 : h.cmd # Event /\ q[i].cmd # Event => h.cmd < q[i].cmd
  BY <1>4, <1>6 DEF RisingTold
<1>9. Below({h.cmd} \ {Event}, Told(q))
  BY <1>4, <1>8 DEF Below, Told
<1>10. RisingTold(q)
  <2> SUFFICES ASSUME NEW i \in 1 .. n - 1, NEW j \in 1 .. n - 1, i < j,
                      q[i].cmd # Event, q[j].cmd # Event
               PROVE  q[i].cmd < q[j].cmd
    BY <1>4 DEF RisingTold
  <2>1. i + 1 \in 1 .. n /\ j + 1 \in 1 .. n /\ i + 1 < j + 1
    BY <1>4
  <2> QED BY <1>4, <2>1 DEF RisingTold
<1> QED BY <1>2, <1>3, <1>4, <1>7, <1>9, <1>10

LEMMA ToldAppend ==
    ASSUME NEW s \in Seq(Item), NEW m \in Item, RisingTold(s), Below(Told(s), {m.cmd} \ {Event})
    PROVE  /\ RisingTold(Append(s, m))
           /\ Told(Append(s, m)) = Told(s) \cup ({m.cmd} \ {Event})
<1>1. PICK n : n = Len(s)
  OBVIOUS
<1>2. PICK q : q = Append(s, m)
  OBVIOUS
<1>3. /\ n \in Nat /\ DOMAIN s = 1 .. n /\ DOMAIN q = 1 .. n + 1 /\ q[n + 1] = m
      /\ \A i \in 1 .. n : q[i] = s[i]
  BY <1>1, <1>2, AppendProperties
<1>4. \A i \in 1 .. n + 1 : i = n + 1 \/ i \in 1 .. n
  BY <1>3
<1>5. n + 1 \in 1 .. n + 1 /\ \A i \in 1 .. n : i \in 1 .. n + 1
  BY <1>3
<1>6. Told(q) = Told(s) \cup ({m.cmd} \ {Event})
  <2>1. Told(q) \subseteq Told(s) \cup ({m.cmd} \ {Event})
    BY <1>3, <1>4 DEF Told
  <2>2. Told(s) \subseteq Told(q) /\ {m.cmd} \ {Event} \subseteq Told(q)
    BY <1>3, <1>5 DEF Told
  <2> QED BY <2>1, <2>2
<1>7. \A i \in 1 .. n : s[i].cmd # Event /\ m.cmd # Event => s[i].cmd < m.cmd
  BY <1>3 DEF Below, Told
<1>8. RisingTold(q)
  <2> SUFFICES ASSUME NEW i \in 1 .. n + 1, NEW j \in 1 .. n + 1, i < j,
                      q[i].cmd # Event, q[j].cmd # Event
               PROVE  q[i].cmd < q[j].cmd
    BY <1>3 DEF RisingTold
  <2>1. i \in 1 .. n
    BY <1>3
  <2>2. CASE j \in 1 .. n
    BY <1>3, <2>1, <2>2 DEF RisingTold
  <2>3. CASE j = n + 1
    BY <1>3, <1>7, <2>1, <2>3
  <2> QED BY <1>4, <2>2, <2>3
<1> QED BY <1>2, <1>6, <1>8

\* What is cut off, or completed, tells nothing new.
LEMMA ToldPrefix ==
    ASSUME NEW s \in Seq(Item), NEW n \in 0 .. Len(s), RisingTold(s)
    PROVE  RisingTold(SubSeq(s, 1, n)) /\ Told(SubSeq(s, 1, n)) \subseteq Told(s)
<1>1. PICK q : q = SubSeq(s, 1, n)
  OBVIOUS
<1>2. Len(s) \in Nat /\ DOMAIN s = 1 .. Len(s) /\ \A i \in 1 .. n : i \in DOMAIN s /\ s[i] \in Item
  BY ElementOfSeq
<1>3. DOMAIN q = 1 .. n /\ \A i \in 1 .. n : q[i] = s[i]
  BY <1>1, <1>2
<1> QED BY <1>1, <1>2, <1>3 DEF RisingTold, Told

LEMMA ToldSame ==
    ASSUME NEW s \in Seq(Item), NEW k \in DOMAIN s, RisingTold(s)
    PROVE  /\ RisingTold([s EXCEPT ![k].whole = TRUE]) /\ Told([s EXCEPT ![k].whole = TRUE]) = Told(s)
<1>1. PICK q : q = [s EXCEPT ![k].whole = TRUE]
  OBVIOUS
<1>2. DOMAIN q = DOMAIN s /\ \A i \in DOMAIN s : s[i] \in Item
  BY <1>1, ElementOfSeq
<1>3. \A i \in DOMAIN s : q[i].cmd = s[i].cmd
  BY <1>1, <1>2 DEF Item
<1> QED BY <1>1, <1>2, <1>3 DEF RisingTold, Told

\* What is known of a command stays so, and a caller does not come back to an earlier place.
Grows ==
    \A c \in Cmds : /\ sent[c] = "Sent" => sent'[c] = "Sent"
                    /\ said[c] = "False" => said'[c] = "False"
                    /\ c <= cur /\ kind[c] = "signal" => kind'[c] = "signal"
SameCalls == UNCHANGED <<sent, said, kind, waiter, got, cur>>
Calm ==
    /\ gpc' \in Early => gpc \in Early
    /\ gpc' \in Asking => gpc \in Asking
    /\ gpc' \in Waiting => gpc \in Waiting
    /\ gpc \in Asking \cup Waiting => gpc' \in Asking \cup Waiting

LEMMA StrayStays ==
    ASSUME TypeOK, Untouched, Grows
    PROVE  /\ \A c \in Cmds : (\E d \in 1 .. (c - 1) : Unwaited(d)) => (\E d \in 1 .. (c - 1) : Unwaited(d)')
           /\ \A c \in Cmds : c <= cur /\ Stray(c) => Stray(c)'
<1>1. cur \in Nat /\ \A c \in Cmds : c \in Nat /\ \A d \in 1 .. (c - 1) : d \in Cmds
  BY ConnectionAssumption DEF TypeOK, TypeCalls, Cmds, ConnectionAssumption
<1>2. ASSUME NEW d \in Cmds, Unwaited(d) PROVE Unwaited(d)'
  <2>1. d <= cur
    BY <1>1, <1>2 DEF Unwaited, Untouched
  <2> QED BY <1>2, <2>1 DEF Unwaited, Grows
<1>3. \A c \in Cmds : (\E d \in 1 .. (c - 1) : Unwaited(d)) => (\E d \in 1 .. (c - 1) : Unwaited(d)')
  BY <1>1, <1>2
<1>4. ASSUME NEW c \in Cmds, c <= cur, Stray(c) PROVE Stray(c)'
  <2>1. CASE kind[c] = "signal"
    BY <1>4, <2>1 DEF Grows, Stray
  <2>2. CASE said[c] = "False"
    BY <1>4, <2>2 DEF Grows, Stray
  <2>3. CASE \E d \in 1 .. (c - 1) : Unwaited(d)
    BY <1>3, <2>3 DEF Stray
  <2> QED BY <1>4, <2>1, <2>2, <2>3 DEF Stray
<1> QED BY <1>3, <1>4

LEMMA SameGrows == SameCalls => Grows
BY DEF SameCalls, Grows

\* A step that takes something off the way, or nothing, and leaves the calls alone.
LEMMA Fewer ==
    ASSUME TypeOK, Matched, SameCalls, Calm,
           Rising(posted'), Elements(posted') \subseteq Posted,
           Rising(out'), Elements(out') \subseteq Unanswered,
           RisingTold(inbox'), Told(inbox') \subseteq Answers,
           hand' = hand \/ hand' = 0, cpc' = "Deliver" <=> hand' # 0,
           sock' = "None" => Way' = {}
    PROVE  Matched'
<1>1. /\ Posted' \subseteq Posted /\ Unanswered' \subseteq Unanswered /\ Answers' \subseteq Answers
      /\ InHand' \subseteq InHand
  BY DEF Posted, Unanswered, Answers, InHand
<1>2. Written' \subseteq Written /\ Way' \subseteq Way
  BY <1>1 DEF Written, Way
<1>3. InTurn'
  BY <1>1, <1>2 DEF Matched, InTurn, Below
<1>4. OnTheWay'
  BY <1>1, <1>2 DEF Matched, OnTheWay, SameCalls, Calm
<1>5. Untouched'
  BY DEF Matched, Untouched, SameCalls, Calm
<1>6. Met'
  BY <1>2 DEF Matched, Met, SameCalls
<1>7. StraysAre' /\ MismatchIsExplained'
  <2>1. Grows /\ Untouched
    BY SameGrows DEF Matched
  <2>2. MismatchIsExplained'
    BY <2>1, StrayStays DEF Matched, MismatchIsExplained, SameCalls
  <2>3. ASSUME NEW c \in Way', Ended(c)' PROVE Stray(c)'
    <3>1. c \in Way /\ c \in Cmds /\ c <= cur /\ Ended(c)
      BY <1>2, <2>3 DEF Matched, OnTheWay, Ended, SameCalls, Calm
    <3> QED BY <2>1, <3>1, StrayStays DEF Matched, StraysAre
  <2> QED BY <2>2, <2>3 DEF StraysAre
<1> QED BY <1>3, <1>4, <1>5, <1>6, <1>7 DEF Matched

LEMMA Quiet ==
    ASSUME TypeOK, Matched, SameCalls, Calm, UNCHANGED <<posted, out, inbox, hand>>,
           cpc' = "Deliver" <=> cpc = "Deliver", sock' = "None" => sock = "None"
    PROVE  Matched'
<1>1. /\ Rising(posted') /\ Elements(posted') \subseteq Posted
      /\ Rising(out') /\ Elements(out') \subseteq Unanswered
      /\ RisingTold(inbox') /\ Told(inbox') \subseteq Answers
  BY DEF Matched, InTurn, Posted, Unanswered, Answers
<1>2. cpc' = "Deliver" <=> hand' # 0
  BY DEF Matched, OnTheWay
<1>3. sock' = "None" => Way' = {}
  BY DEF Matched, OnTheWay, Way, Written, Posted, Unanswered, Answers, InHand
<1> QED BY <1>1, <1>2, <1>3, Fewer

LEMMA QuietSteps ==
    ASSUME TypeOK, Consistent, Matched,
           \/ Connect \/ BeginDisconnect \/ BeginCancel \/ BeginDestroy \/ LockRecv
           \/ LockConn /\ SockIsConnected
           \/ SendSleep \/ RecvSleep \/ DisconnectStatus \/ DisconnectSock
           \/ CancelStatus \/ CancelExit \/ EndDestroy \/ Setup \/ Dial \/ TimerFires
           \/ OnConnected \/ OnConnectError \/ WakeSend \/ ReadyRead \/ WakeRecv \/ ReadDone
           \/ LeaveLoop \/ CleanSend \/ CleanWakeSend \/ CleanLock \/ CleanWakeRecv
           \/ CleanRecv /\ recvQueue = <<>>
           \/ UNCHANGED vars
    PROVE  Matched'
<1> USE DEF guiVars, calls, lockVars, connVars, sendVars, recvVars, torVars, ctlVars,
            allButGpc, allButCpc, SameCalls, Calm, Early, Asking, Holding, Waiting
<1>1. CASE Connect
  <2>1. sock = "None"
    BY <1>1 DEF Connect, Consistent, SockOK
  <2> QED BY <1>1, <2>1, Quiet DEF Connect
<1>2. CASE BeginDisconnect \/ BeginCancel \/ BeginDestroy
  BY <1>2, Quiet DEF BeginDisconnect, BeginCancel, BeginDestroy
<1>3. CASE LockRecv \/ SendSleep \/ RecvSleep
  BY <1>3, Quiet DEF LockRecv, SendSleep, RecvSleep
<1>4. CASE LockConn /\ SockIsConnected
  BY <1>4, Quiet DEF LockConn
<1>5. CASE DisconnectStatus \/ CancelStatus \/ CancelExit \/ EndDestroy
  BY <1>5, Quiet DEF DisconnectStatus, CancelStatus, CancelExit, EndDestroy
<1>6. CASE DisconnectSock
  BY <1>6, Quiet DEF DisconnectSock
<1>7. CASE Setup \/ Dial \/ TimerFires \/ OnConnected \/ ReadyRead \/ ReadDone \/ LeaveLoop
  BY <1>7, Quiet DEF Setup, Dial, TimerFires, OnConnected, ReadyRead, ReadDone, LeaveLoop
<1>8. CASE OnConnectError
  BY <1>8, Quiet DEF OnConnectError
<1>9. CASE WakeSend \/ CleanWakeSend
  BY <1>9, Quiet DEF WakeSend, CleanWakeSend, WakeSender
<1>10. CASE WakeRecv \/ CleanWakeRecv
  BY <1>10, Quiet DEF WakeRecv, CleanWakeRecv, WakeReceiver
<1>11. CASE CleanSend \/ CleanLock
  BY <1>11, Quiet DEF CleanSend, CleanLock
<1>12. CASE CleanRecv /\ recvQueue = <<>>
  BY <1>12, Quiet DEF CleanRecv
<1>13. CASE UNCHANGED vars
  BY <1>13, Quiet DEF vars
<1> QED BY <1>1, <1>2, <1>3, <1>4, <1>5, <1>6, <1>7, <1>8, <1>9, <1>10, <1>11, <1>12, <1>13

LEMMA NothingRises ==
    /\ Rising(<<>>) /\ Elements(<<>>) = {} /\ RisingTold(<<>>) /\ Told(<<>>) = {}
BY DEF Rising, Elements, RisingTold, Told

LEMMA LosingSteps ==
    ASSUME TypeOK, Consistent, Matched,
           OnDisconnected \/ ReadReplyFails \/ TorEndsReply \/ TorSendsEvent \/ TorCloses
    PROVE  Matched'
<1> USE DEF guiVars, calls, lockVars, connVars, sendVars, recvVars, torVars, ctlVars,
            SameCalls, Calm
<1>1. /\ Rising(posted) /\ Elements(posted) \subseteq Posted
      /\ Rising(out) /\ Elements(out) \subseteq Unanswered
      /\ RisingTold(inbox) /\ Told(inbox) = Answers /\ inbox \in Seq(Item)
      /\ cpc = "Deliver" <=> hand # 0
  BY InboxIsSeq DEF Matched, InTurn, Posted, Unanswered, Answers, OnTheWay
<1>2. CASE OnDisconnected \/ ReadReplyFails
  <2>1. out' = <<>> /\ inbox' = <<>> /\ sock' = "Idle"
    BY <1>2 DEF OnDisconnected, ReadReplyFails, Disconnected
  <2> QED BY <1>1, <1>2, <2>1, NothingRises, Fewer DEF OnDisconnected, ReadReplyFails, Disconnected
<1>3. CASE TorEndsReply
  <2>1. Len(inbox) \in DOMAIN inbox
    BY <1>1, <1>3 DEF TorEndsReply, AllWhole
  <2>2. RisingTold(inbox') /\ Told(inbox') \subseteq Answers
    BY <1>1, <1>3, <2>1, ToldSame DEF TorEndsReply
  <2> QED BY <1>1, <1>3, <2>2, Fewer DEF TorEndsReply
<1>4. CASE TorSendsEvent
  <2>1. PICK m : m = [cmd |-> Event, whole |-> TRUE]
    OBVIOUS
  <2>2. m \in Item /\ m.cmd = Event
    BY <2>1 DEF Item
  <2>3. Below(Told(inbox), {m.cmd} \ {Event})
    BY <2>2 DEF Below
  <2>4. RisingTold(inbox') /\ Told(inbox') \subseteq Answers
    BY <1>1, <1>4, <2>1, <2>2, <2>3, ToldAppend DEF TorSendsEvent
  <2> QED BY <1>1, <1>4, <2>4, Fewer DEF TorSendsEvent
<1>5. CASE TorCloses
  <2>1. out' = <<>> /\ sock' = "TorClosed"
    BY <1>5 DEF TorCloses
  <2>2. RisingTold(inbox') /\ Told(inbox') \subseteq Answers
    BY <1>1, <1>5, ToldPrefix DEF TorCloses
  <2> QED BY <1>1, <1>5, <2>1, <2>2, NothingRises, Fewer DEF TorCloses
<1> QED BY <1>2, <1>3, <1>4, <1>5

\* A step of a call that leaves what is on its way where it is.
LEMMA CallStep ==
    ASSUME TypeOK, Matched, Grows, Untouched', UNCHANGED <<posted, out, inbox, hand, cpc, sock, got>>,
           \A c \in Way : /\ c <= cur' /\ (c = cur' => gpc' \notin Early)
                          /\ sent'[c] = sent[c] /\ waiter'[c] # "Failed"
                          /\ Ended(c)' => Ended(c) \/ Stray(c)',
           \A c \in Cmds : waiter'[c] = "Success" => waiter[c] = "Success"
    PROVE  Matched'
<1>1. Way' = Way /\ Written' = Written /\ Posted' = Posted
  BY DEF Way, Written, Posted, Unanswered, Answers, InHand
<1>2. InTurn'
  BY DEF Matched, InTurn, Written, Posted, Unanswered, Answers, InHand
<1>3. OnTheWay'
  <2>1. Posted \subseteq Way /\ Written \subseteq Way
    BY DEF Way
  <2> QED BY <1>1, <2>1 DEF Matched, OnTheWay
<1>4. Met'
  BY <1>1 DEF Matched, Met
<1>5. StraysAre'
  <2> SUFFICES ASSUME NEW c \in Way, Ended(c)' PROVE Stray(c)'
    BY <1>1 DEF StraysAre
  <2>1. c \in Cmds /\ c <= cur
    BY DEF Matched, OnTheWay
  <2>2. CASE Ended(c)
    BY <2>1, <2>2, StrayStays DEF Matched, StraysAre
  <2> QED BY <2>2
<1>6. MismatchIsExplained'
  BY StrayStays DEF Matched, MismatchIsExplained
<1> QED BY <1>2, <1>3, <1>4, <1>5, <1>6 DEF Matched

LEMMA CallSteps ==
    ASSUME TypeOK, Consistent, Matched,
           BeginSend \/ (LockConn /\ ~SockIsConnected) \/ SendReturns \/ RecvReturns
    PROVE  Matched'
<1> USE ConnectionAssumption
        DEF guiVars, calls, lockVars, connVars, sendVars, recvVars, torVars, ctlVars, allButGpc
<1>1. /\ cur \in 0 .. MaxSends /\ cur \in Nat /\ \A c \in Cmds : c \in Nat
      /\ sent \in [Cmds -> {"None", "Sent", "NotSent"}] /\ said \in [Cmds -> {"None", "True", "False"}]
      /\ kind \in [Cmds -> Kinds \cup {"None"}] /\ waiter \in [Cmds -> {"None", "Waiting", "Success", "Failed"}]
  BY DEF TypeOK, TypeCalls, Cmds
<1>2. \A c \in Way : c \in Cmds /\ c <= cur /\ (c = cur => gpc \notin Early) /\ waiter[c] # "Failed"
  BY DEF Matched, OnTheWay, Met
<1>3. CASE BeginSend
  <2>1. /\ gpc = "Idle" /\ gpc' \in {"LockRecv", "LockConn"} /\ cur' = cur + 1 /\ cur' \in Cmds
        /\ UNCHANGED <<posted, out, inbox, hand, cpc, sock, got, waiter, sent, said>>
    BY <1>1, <1>3 DEF BeginSend, Cmds
  <2>2. \A c \in Cmds : c <= cur => kind'[c] = kind[c]
    BY <1>1, <1>3 DEF BeginSend
  <2>3. Grows
    BY <2>1, <2>2 DEF Grows
  <2>4. \A c \in Cmds : c > cur \/ c > cur' \/ c = cur' => c > cur
    BY <1>1, <2>1
  <2>5. Untouched'
    BY <2>1, <2>4 DEF Matched, Untouched, Waiting
  <2>6. \A c \in Way : c <= cur' /\ c # cur'
    <3> SUFFICES ASSUME NEW c \in Way PROVE c <= cur' /\ c # cur'
      OBVIOUS
    <3>1. c \in Nat /\ cur \in Nat /\ c <= cur /\ cur' = cur + 1
      BY <1>1, <1>2, <2>1
    <3> QED BY <3>1
  <2>7. \A c \in Way : Ended(c)
    BY <2>1 DEF Ended, Asking, Holding, Waiting
  <2> QED BY <1>2, <2>1, <2>3, <2>5, <2>6, <2>7, CallStep
<1>4. CASE LockConn /\ ~SockIsConnected
  <2>1. /\ gpc = "LockConn" /\ gpc' = "Idle" /\ cur \in Cmds
        /\ UNCHANGED <<posted, out, inbox, hand, cpc, sock, got, waiter, cur, kind>>
        /\ said' = [said EXCEPT ![cur] = "False"] /\ sent' = [sent EXCEPT ![cur] = "NotSent"]
    BY <1>4 DEF LockConn, ReturnUnsent, Consistent, CallOK, Holding
  <2>2. sent[cur] = "None" /\ said[cur] = "None"
    BY <2>1 DEF Matched, Untouched, Early, Asking, Holding
  <2>3. \A c \in Cmds : c # cur => sent'[c] = sent[c] /\ said'[c] = said[c]
    BY <1>1, <2>1
  <2>4. Grows
    BY <2>1, <2>2, <2>3 DEF Grows
  <2>5. Untouched'
    BY <1>1, <2>1, <2>3 DEF Matched, Untouched, Early, Asking, Holding, Waiting
  <2>6. \A c \in Way : c # cur
    BY <1>2, <2>1 DEF Early
  <2>7. \A c \in Way : Ended(c)
    BY <1>1, <1>2, <2>6 DEF Ended
  <2> QED BY <1>2, <2>1, <2>3, <2>4, <2>5, <2>6, <2>7, CallStep
<1>5. CASE SendReturns
  <2>1. /\ gpc = "SendCheck" /\ gpc' \in {"Idle", "RecvCheck"} /\ cur \in Cmds
        /\ UNCHANGED <<posted, out, inbox, hand, cpc, sock, got, sent, cur, kind>>
    BY <1>5 DEF SendReturns, EnqueueWaiter, ReturnUnsent, Consistent, CallOK, Holding
  <2>2. said[cur] = "None" /\ waiter[cur] = "None"
    BY <2>1 DEF Matched, Untouched, Asking, Holding
  <2>3. \A c \in Cmds : c # cur => said'[c] = said[c] /\ waiter'[c] = waiter[c]
    BY <1>1, <1>5, <2>1 DEF SendReturns, EnqueueWaiter
  <2>4. waiter'[cur] \in {"None", "Waiting"} /\ (gpc' = "RecvCheck" => waiter'[cur] = "Waiting")
    BY <1>1, <1>5, <2>1, <2>2 DEF SendReturns, EnqueueWaiter, ReturnUnsent
  <2>5. Grows
    BY <2>1, <2>2, <2>3 DEF Grows
  <2>6. Untouched'
    BY <1>1, <2>1, <2>3, <2>4 DEF Matched, Untouched, Early, Asking, Holding, Waiting
  <2>7. ASSUME gpc' = "Idle" PROVE kind'[cur] = "signal" \/ said'[cur] = "False"
    BY <1>1, <1>5, <2>1, <2>7 DEF SendReturns, EnqueueWaiter
  <2>8. ASSUME NEW c \in Way, Ended(c)' PROVE Ended(c) \/ Stray(c)'
    <3>1. CASE c < cur
      BY <3>1 DEF Ended
    <3>2. CASE c = cur
      <4>1. gpc' = "Idle"
        BY <1>1, <2>1, <2>8, <3>2 DEF Ended, Waiting
      <4> QED BY <2>1, <2>7, <3>2, <4>1 DEF Stray
    <3> QED BY <1>1, <1>2, <3>1, <3>2
  <2>9. \A c \in Way : c <= cur' /\ (c = cur' => gpc' \notin Early) /\ sent'[c] = sent[c] /\ waiter'[c] # "Failed"
    BY <1>2, <2>1, <2>3, <2>4 DEF Early
  <2>10. \A c \in Cmds : waiter'[c] = "Success" => waiter[c] = "Success"
    BY <2>3, <2>4
  <2> QED BY <2>1, <2>5, <2>6, <2>8, <2>9, <2>10, CallStep
<1>6. CASE RecvReturns
  <2>1. /\ gpc = "RecvCheck" /\ gpc' = "Idle" /\ cur \in Cmds /\ waiter[cur] # "Waiting"
        /\ UNCHANGED <<posted, out, inbox, hand, cpc, sock, got, waiter, sent, said, cur, kind>>
    BY <1>6 DEF RecvReturns, Consistent, CallOK
  <2>2. Grows
    BY <2>1 DEF Grows
  <2>3. Untouched'
    BY <2>1 DEF Matched, Untouched, Early, Asking, Holding, Waiting
  <2>4. waiter[cur] \in {"Success", "Failed"}
    BY <1>1, <2>1 DEF Matched, Untouched, Waiting
  <2>5. ASSUME cur \in Way PROVE Stray(cur)'
    <3>1. waiter[cur] = "Success" /\ got[cur] # cur
      BY <2>4, <2>5 DEF Matched, Met
    <3>2. Stray(cur)
      BY <2>1, <3>1 DEF Matched, MismatchIsExplained, Stray
    <3> QED BY <1>1, <2>1, <2>2, <3>2, StrayStays DEF Matched
  <2>6. ASSUME NEW c \in Way PROVE Ended(c) \/ Stray(c)'
    <3>1. c \in Nat /\ cur \in Nat /\ c <= cur
      BY <1>1, <1>2
    <3>2. CASE c < cur
      BY <3>2 DEF Ended
    <3>3. CASE c = cur
      BY <2>1, <2>5, <3>3 DEF Stray, Unwaited
    <3> QED BY <3>1, <3>2, <3>3
  <2>7. \A c \in Way : c = cur' => gpc' \notin Early
    BY <2>1 DEF Early
  <2> QED BY <1>2, <2>1, <2>2, <2>3, <2>6, <2>7, CallStep
<1> QED BY <1>3, <1>4, <1>5, <1>6

LEMMA PostStep == ASSUME TypeOK, Consistent, Matched, Post PROVE Matched'
<1> USE ConnectionAssumption DEF guiVars, calls, lockVars, connVars, recvVars, torVars, ctlVars
<1>1. /\ gpc = "Post" /\ gpc' = "SendCheck" /\ cur \in Cmds /\ cur \in Nat /\ sock # "None"
      /\ posted' = Append(posted, cur) /\ posted \in Seq(Cmds)
      /\ UNCHANGED <<out, inbox, hand, cpc, sock, got, waiter, sent, said, cur, kind>>
  BY DEF Post, Consistent, CallOK, PostsToLiveSocket, Holding, TypeOK, TypeQueues, TypeCalls
<1>2. \A c \in Way : c \in Cmds /\ c \in Nat /\ c < cur
  BY <1>1 DEF Matched, OnTheWay, Early, Cmds
<1>3. Rising(posted') /\ Posted' = Posted \cup {cur}
  <2>1. Below(Elements(posted), {cur})
    BY <1>2 DEF Below, Way, Posted
  <2> QED BY <1>1, <2>1, RisingAppend DEF Matched, InTurn, Posted
<1>4. Unanswered' = Unanswered /\ Answers' = Answers /\ InHand' = InHand /\ Written' = Written
      /\ Way' = Way \cup {cur}
  BY <1>1, <1>3 DEF Unanswered, Answers, InHand, Written, Way
<1>5. InTurn'
  <2>1. Below(Written, Posted \cup {cur})
    BY <1>2 DEF Matched, InTurn, Below, Way
  <2> QED BY <1>1, <1>3, <1>4, <2>1 DEF Matched, InTurn
<1>6. sent[cur] = "None" /\ waiter[cur] = "None" /\ got[cur] = 0
  BY <1>1 DEF Matched, Untouched, Early, Asking, Holding
<1>7. OnTheWay'
  <2>1. \A c \in Way' : c \in Cmds /\ c <= cur
    BY <1>1, <1>2, <1>4
  <2> QED BY <1>1, <1>3, <1>4, <1>6, <2>1 DEF Matched, OnTheWay, Early
<1>8. Untouched'
  BY <1>1 DEF Matched, Untouched, Early, Asking, Holding, Waiting
<1>9. Met'
  <2>1. cur # 0
    BY <1>1 DEF Cmds
  <2> QED BY <1>1, <1>4, <1>6, <2>1 DEF Matched, Met
<1>10. StraysAre' /\ MismatchIsExplained'
  <2>1. Grows
    BY <1>1 DEF Grows
  <2>2. ASSUME NEW c \in Way', Ended(c)' PROVE Stray(c)'
    <3>1. c < cur
      BY <1>1, <2>2 DEF Ended, Asking, Holding
    <3>2. c \in Way /\ c \in Cmds /\ c <= cur /\ Ended(c)
      BY <1>1, <1>2, <1>4, <3>1 DEF Ended
    <3>3. Stray(c)
      BY <3>2 DEF Matched, StraysAre
    <3> QED BY <2>1, <3>2, <3>3, StrayStays DEF Matched
  <2> QED BY <1>1, <2>1, <2>2, StrayStays DEF Matched, StraysAre, MismatchIsExplained
<1> QED BY <1>5, <1>7, <1>8, <1>9, <1>10 DEF Matched

\* A step that moves what is on its way, and leaves the calls alone.
LEMMA FlowStep ==
    ASSUME TypeOK, Matched, UNCHANGED <<cur, kind, said, waiter, got, gpc>>,
           Way' \subseteq Way, InTurn',
           sock' = "None" => Way' = {}, cpc' = "Deliver" <=> hand' # 0,
           \A c \in Posted' : sent'[c] = "None", \A c \in Written' : sent'[c] = "Sent",
           \A c \in Cmds : sent'[c] # sent[c] => c \in Way /\ sent[c] = "None"
    PROVE  Matched'
<1>1. \A c \in Way : c \in Cmds /\ c \in Nat /\ c <= cur /\ (c = cur => gpc \notin Early)
  BY DEF Matched, OnTheWay, Cmds
<1>2. cur \in Nat /\ \A c \in Cmds : c \in Nat
  BY DEF TypeOK, TypeCalls, Cmds
<1>3. Grows
  BY DEF Grows
<1>4. OnTheWay'
  BY <1>1 DEF OnTheWay
<1>5. Untouched'
  <2>1. \A c \in Cmds : c > cur \/ (c = cur /\ gpc \in Early) => sent'[c] = sent[c]
    BY <1>1, <1>2
  <2> QED BY <2>1 DEF Matched, Untouched
<1>6. Met'
  BY DEF Matched, Met
<1>7. StraysAre'
  <2> SUFFICES ASSUME NEW c \in Way', Ended(c)' PROVE Stray(c)'
    BY DEF StraysAre
  <2>1. c \in Way /\ Ended(c)
    BY DEF Ended
  <2> QED BY <1>1, <1>3, <2>1, StrayStays DEF Matched, StraysAre
<1>8. MismatchIsExplained'
  BY <1>3, StrayStays DEF Matched, MismatchIsExplained
<1> QED BY <1>4, <1>5, <1>6, <1>7, <1>8 DEF Matched

LEMMA HandleSendStep == ASSUME TypeOK, Consistent, Matched, HandleSend PROVE Matched'
<1> USE ConnectionAssumption DEF guiVars, calls, lockVars, connVars, recvVars
<1>1. PICK c : c = Head(posted)
  OBVIOUS
<1>2. /\ UNCHANGED <<cur, kind, said, waiter, got, gpc, sock, inbox, hand>>
      /\ cpc = "Loop" /\ cpc' = "WakeSend" /\ posted # <<>> /\ posted' = Tail(posted)
      /\ out' = IF sock = "Open" THEN Append(out, c) ELSE out
      /\ sent' = [sent EXCEPT ![c] = IF SockIsConnected THEN "Sent" ELSE "NotSent"]
  BY <1>1 DEF HandleSend
<1>3. /\ posted \in Seq(Cmds) /\ out \in Seq(Cmds) /\ \A d \in Cmds : d \in Nat
      /\ sent \in [Cmds -> {"None", "Sent", "NotSent"}]
  BY DEF TypeOK, TypeQueues, TypeCalls, Cmds
<1>4. Rising(posted) /\ Rising(out) /\ sock # "None" /\ hand = 0
  BY <1>2 DEF Matched, InTurn, OnTheWay, Consistent, SockOK, AfterSock
<1>5. c \in Cmds /\ Rising(posted') /\ Posted = {c} \cup Posted' /\ Below({c}, Posted')
  BY <1>1, <1>2, <1>3, <1>4, RisingTail DEF Posted
<1>6. Below(Written, {c}) /\ Below(Written, Posted')
  BY <1>5 DEF Matched, InTurn, Below
<1>7. Answers' = Answers /\ InHand' = InHand /\ InHand = {}
  BY <1>2, <1>4 DEF Answers, InHand
<1>8. /\ Rising(out') /\ Unanswered' \subseteq Unanswered \cup {c}
      /\ sock # "Open" => Unanswered' = Unanswered
  <2>1. Below(Elements(out), {c})
    BY <1>6 DEF Below, Written, Unanswered
  <2>2. Rising(Append(out, c)) /\ Elements(Append(out, c)) = Unanswered \cup {c}
    BY <1>3, <1>4, <1>5, <2>1, RisingAppend DEF Unanswered
  <2> QED BY <1>2, <1>4, <2>2 DEF Unanswered
<1>9. Written' \subseteq Written \cup {c} /\ (sock # "Open" => Written' = Written)
  BY <1>7, <1>8 DEF Written
<1>10. Way' \subseteq Way
  BY <1>5, <1>9 DEF Way
<1>11. InTurn'
  <2>1. Below(InHand', Answers') /\ Below(InHand' \cup Answers', Unanswered')
    BY <1>6, <1>7, <1>8 DEF Matched, InTurn, Below, Written
  <2>2. Below(Written', Posted')
    BY <1>5, <1>6, <1>9 DEF Below
  <2> QED BY <1>2, <1>5, <1>8, <2>1, <2>2 DEF Matched, InTurn
<1>12. c \in Way /\ sent[c] = "None" /\ c \notin Posted' /\ c \notin Written
  <2>1. ~(c < c)
    BY <1>3, <1>5
  <2> QED BY <1>5, <1>6, <2>1 DEF Matched, OnTheWay, Way, Below
<1>13. /\ \A d \in Cmds : d # c => sent'[d] = sent[d]
       /\ sock = "Open" => sent'[c] = "Sent"
  BY <1>2, <1>3, <1>5 DEF SockIsConnected
<1>14. \A d \in Posted' : sent'[d] = "None"
  <2>1. \A d \in Posted' : d \in Posted /\ d \in Cmds /\ d # c
    BY <1>5, <1>12 DEF Matched, OnTheWay, Way
  <2> QED BY <1>13, <2>1 DEF Matched, OnTheWay
<1>15. \A d \in Written' : sent'[d] = "Sent"
  <2> SUFFICES ASSUME NEW d \in Written' PROVE sent'[d] = "Sent"
    OBVIOUS
  <2>1. CASE d \in Written
    <3>1. d # c /\ d \in Cmds
      BY <1>12, <2>1 DEF Matched, OnTheWay, Way
    <3> QED BY <1>13, <2>1, <3>1 DEF Matched, OnTheWay
  <2>2. CASE d \notin Written
    BY <1>9, <1>13, <2>2
  <2> QED BY <2>1, <2>2
<1> QED BY <1>2, <1>4, <1>10, <1>11, <1>12, <1>13, <1>14, <1>15, FlowStep

\* A reply comes nearer: Tor sends it, or the control thread reads it.
LEMMA ReplyComes ==
    ASSUME TypeOK, Matched, UNCHANGED <<cur, kind, said, waiter, got, gpc, sock, sent, posted>>,
           Written' = Written, InTurn', cpc' = "Deliver" <=> hand' # 0
    PROVE  Matched'
<1>1. Posted' = Posted /\ Way' = Way
  BY DEF Posted, Way
<1> QED BY <1>1, FlowStep DEF Matched, OnTheWay

LEMMA TorRepliesStep == ASSUME TypeOK, Consistent, Matched, TorReplies PROVE Matched'
<1> USE ConnectionAssumption DEF guiVars, calls, lockVars, connVars, recvVars, sendVars, ctlVars
<1>1. PICK w \in BOOLEAN : inbox' = Append(inbox, [cmd |-> Head(out), whole |-> w])
  BY DEF TorReplies
<1>2. PICK m : m = [cmd |-> Head(out), whole |-> w]
  OBVIOUS
<1>3. /\ UNCHANGED <<cur, kind, said, waiter, got, gpc, sock, sent, posted, hand, cpc>>
      /\ out # <<>> /\ out' = Tail(out) /\ inbox' = Append(inbox, m) /\ m.cmd = Head(out)
      /\ m.whole = w
  BY <1>1, <1>2 DEF TorReplies
<1>4. out \in Seq(Cmds) /\ inbox \in Seq(Item) /\ Rising(out) /\ RisingTold(inbox)
  BY InboxIsSeq DEF TypeOK, TypeQueues, Matched, InTurn
<1>5. /\ Rising(out') /\ m.cmd \in Cmds /\ Unanswered = {m.cmd} \cup Unanswered'
      /\ Below({m.cmd}, Unanswered')
  BY <1>3, <1>4, RisingTail DEF Unanswered
<1>6. m \in Item /\ m.cmd # Event
  BY <1>2, <1>3, <1>5 DEF Item, Cmds, Event
<1>7. Below(InHand \cup Answers, {m.cmd}) /\ Below(InHand \cup Answers, Unanswered')
  BY <1>5 DEF Matched, InTurn, Below
<1>8. RisingTold(inbox') /\ Answers' = Answers \cup {m.cmd}
  <2>1. Below(Told(inbox), {m.cmd} \ {Event})
    BY <1>7 DEF Below, Answers
  <2> QED BY <1>3, <1>4, <1>6, <2>1, ToldAppend DEF Answers
<1>9. Posted' = Posted /\ InHand' = InHand /\ Written' = Written
  BY <1>3, <1>5, <1>8 DEF Posted, InHand, Written
<1>10. InTurn'
  <2>1. Below(InHand', Answers')
    BY <1>7, <1>8, <1>9 DEF Matched, InTurn, Below
  <2>2. Below(InHand' \cup Answers', Unanswered')
    BY <1>5, <1>7, <1>8, <1>9 DEF Below
  <2>3. Below(Written', Posted')
    BY <1>9 DEF Matched, InTurn
  <2> QED BY <1>3, <1>5, <1>8, <2>1, <2>2, <2>3 DEF Matched, InTurn
<1> QED BY <1>3, <1>9, <1>10, ReplyComes DEF Matched, OnTheWay

LEMMA ReadReplyStep == ASSUME TypeOK, Consistent, Matched, ReadReply PROVE Matched'
<1> USE ConnectionAssumption DEF guiVars, calls, lockVars, connVars, recvVars, sendVars
<1>1. PICK h : h = Head(inbox)
  OBVIOUS
<1>2. /\ UNCHANGED <<cur, kind, said, waiter, got, gpc, sock, sent, posted, out>>
      /\ cpc = "Read" /\ inbox # <<>> /\ inbox' = Tail(inbox) /\ hand' = h.cmd
      /\ cpc' = IF h.cmd = Event THEN "Read" ELSE "Deliver"
  BY <1>1 DEF ReadReply, IsEvent
<1>3. inbox \in Seq(Item) /\ RisingTold(inbox) /\ hand = 0
  BY <1>2, InboxIsSeq DEF Matched, InTurn, OnTheWay
<1>4. /\ RisingTold(inbox') /\ Answers = InHand' \cup Answers' /\ Below(InHand', Answers')
  BY <1>1, <1>2, <1>3, ToldTail DEF Answers, InHand, Event
<1>5. InHand = {} /\ Unanswered' = Unanswered /\ Posted' = Posted /\ Written' = Written
  BY <1>2, <1>3, <1>4 DEF InHand, Unanswered, Posted, Written
<1>6. InTurn'
  <2>1. InHand' \cup Answers' = InHand \cup Answers
    BY <1>4, <1>5
  <2> QED BY <1>2, <1>4, <1>5, <2>1 DEF Matched, InTurn
<1>7. cpc' = "Deliver" <=> hand' # 0
  BY <1>2 DEF Event
<1> QED BY <1>2, <1>5, <1>6, <1>7, ReplyComes

LEMMA CleanSockStep == ASSUME TypeOK, Consistent, Matched, CleanSock PROVE Matched'
<1> USE ConnectionAssumption DEF guiVars, calls, lockVars, recvVars
<1>1. /\ UNCHANGED <<cur, kind, said, waiter, got, gpc, hand>>
      /\ cpc = "CleanSock" /\ cpc' = "CleanSend" /\ posted' = <<>> /\ out' = <<>> /\ inbox' = <<>>
      /\ sent' = [c \in Cmds |-> IF c \in ToSet(posted) THEN "NotSent" ELSE sent[c]]
  BY DEF CleanSock
<1>2. hand = 0
  BY <1>1 DEF Matched, OnTheWay
<1>3. Posted' = {} /\ Written' = {} /\ Way' = {}
  BY <1>1, <1>2, NothingRises DEF Posted, Written, Way, Unanswered, Answers, InHand
<1>4. InTurn'
  BY <1>1, <1>3, <1>2, NothingRises DEF InTurn, Below, InHand, Answers, Unanswered
<1>5. \A c \in Cmds : sent'[c] # sent[c] => c \in Way /\ sent[c] = "None"
  BY <1>1 DEF Matched, OnTheWay, Way, Posted, Elements, ToSet
<1>6. cpc' = "Deliver" <=> hand' # 0
  BY <1>1, <1>2
<1> QED BY <1>1, <1>3, <1>4, <1>5, <1>6, FlowStep

LEMMA DeliverStep == ASSUME TypeOK, Consistent, Matched, Deliver PROVE Matched'
<1> USE ConnectionAssumption DEF guiVars, calls, recvVars, sendVars, torVars
<1>1. /\ UNCHANGED <<cur, kind, said, gpc, sock, sent, posted, out, inbox>>
      /\ cpc = "Deliver" /\ hand' = 0 /\ cpc' # "Deliver"
  BY DEF Deliver
<1>2. /\ hand \in Cmds /\ hand \in Nat /\ cur \in Nat /\ \A c \in Cmds : c \in Nat
      /\ waiter \in [Cmds -> {"None", "Waiting", "Success", "Failed"}] /\ got \in [Cmds -> Cmds \cup {0}]
  BY <1>1 DEF Matched, OnTheWay, TypeOK, TypeThreads, TypeCalls, Cmds
<1>3. /\ Posted' = Posted /\ Unanswered' = Unanswered /\ Answers' = Answers
      /\ InHand = {hand} /\ InHand' = {}
  BY <1>1, <1>2 DEF Posted, Unanswered, Answers, InHand, Cmds
<1>4. Way' \subseteq Way /\ hand \in Written /\ hand \in Way
  BY <1>3 DEF Way, Written
<1>5. CASE recvQueue = <<>>
  <2>1. SameCalls /\ Calm
    BY <1>1, <1>5 DEF Deliver, SameCalls, Calm
  <2>2. /\ Rising(posted') /\ Elements(posted') \subseteq Posted
        /\ Rising(out') /\ Elements(out') \subseteq Unanswered
        /\ RisingTold(inbox') /\ Told(inbox') \subseteq Answers
    BY <1>1 DEF Matched, InTurn, Posted, Unanswered, Answers
  <2>3. cpc' = "Deliver" <=> hand' # 0
    BY <1>1
  <2>4. sock' = "None" => Way' = {}
    BY <1>1, <1>4 DEF Matched, OnTheWay
  <2> QED BY <1>1, <2>1, <2>2, <2>3, <2>4, Fewer
<1>6. CASE recvQueue # <<>>
  <2>1. recvQueue = <<cur>> /\ Head(recvQueue) = cur /\ gpc \in Waiting
    BY <1>6, Singleton DEF Consistent, RecvWaitOK, NoDeletedWaiterQueued, Waiting
  <2>2. cur \in Cmds
    BY <2>1 DEF Consistent, CallOK, Waiting
  <2>3. /\ waiter' = [waiter EXCEPT ![cur] = "Success"] /\ got' = [got EXCEPT ![cur] = hand]
    BY <1>6, <2>1 DEF Deliver, SetRecvResult
  <2>4. /\ waiter'[cur] = "Success" /\ got'[cur] = hand
        /\ \A c \in Cmds : c # cur => waiter'[c] = waiter[c] /\ got'[c] = got[c]
    BY <1>2, <2>2, <2>3
  <2>5. hand \notin Way'
    <3>1. ~(hand < hand)
      BY <1>2
    <3>2. hand \notin Answers /\ hand \notin Unanswered
      BY <1>3, <3>1 DEF Matched, InTurn, Below
    <3>3. hand \notin Posted
      BY <1>4, <3>1 DEF Matched, InTurn, Below
    <3> QED BY <1>3, <3>2, <3>3 DEF Way, Written
  <2>6. InTurn'
    <3>1. Below(Written', Posted')
      BY <1>3 DEF Matched, InTurn, Below, Written
    <3>2. Below(InHand', Answers') /\ Below(InHand' \cup Answers', Unanswered')
      BY <1>3 DEF Matched, InTurn, Below
    <3> QED BY <1>1, <3>1, <3>2 DEF Matched, InTurn
  <2>7. OnTheWay'
    <3>1. Written' \subseteq Written
      BY <1>3 DEF Written
    <3> QED BY <1>1, <1>3, <1>4, <3>1 DEF Matched, OnTheWay
  <2>8. Untouched'
    BY <1>1, <1>2, <2>1, <2>4 DEF Matched, Untouched, Early, Asking, Holding, Waiting
  <2>9. Met'
    <3> SUFFICES ASSUME NEW c \in Way' PROVE waiter'[c] # "Failed" /\ got'[c] # c
      BY DEF Met
    <3>1. c \in Way /\ c \in Cmds /\ c # hand
      BY <1>4, <2>5 DEF Matched, OnTheWay
    <3> QED BY <2>4, <3>1 DEF Matched, Met
  <2>10. Grows
    BY <1>1 DEF Grows
  <2>11. StraysAre'
    <3> SUFFICES ASSUME NEW c \in Way', Ended(c)' PROVE Stray(c)'
      BY DEF StraysAre
    <3>1. c \in Way /\ c \in Cmds /\ c <= cur /\ Ended(c)
      BY <1>1, <1>4 DEF Matched, OnTheWay, Ended
    <3> QED BY <2>10, <3>1, StrayStays DEF Matched, StraysAre
  <2>12. MismatchIsExplained'
    <3> SUFFICES ASSUME NEW c \in Cmds, waiter'[c] = "Success", got'[c] # c
                 PROVE  \E d \in 1 .. (c - 1) : Unwaited(d)'
      BY DEF MismatchIsExplained
    <3>1. CASE c # cur
      BY <2>4, <2>10, <3>1, StrayStays DEF Matched, MismatchIsExplained
    <3>2. CASE c = cur
      <4>1. hand < cur
        BY <1>2, <1>4, <2>4, <3>2 DEF Matched, OnTheWay
      <4>2. Stray(hand) /\ sent[hand] = "Sent"
        BY <1>4, <4>1 DEF Ended, Matched, StraysAre, OnTheWay
      <4>3. \E d \in 1 .. (cur - 1) : Unwaited(d)
        <5>1. CASE kind[hand] = "signal" \/ said[hand] = "False"
          <6>1. Unwaited(hand) /\ hand \in 1 .. (cur - 1)
            BY <1>2, <4>1, <4>2, <5>1 DEF Unwaited, Cmds
          <6> QED BY <6>1
        <5>2. CASE \E d \in 1 .. (hand - 1) : Unwaited(d)
          <6>1. \A d \in 1 .. (hand - 1) : d \in 1 .. (cur - 1)
            BY <1>2, <4>1
          <6> QED BY <5>2, <6>1
        <5> QED BY <4>2, <5>1, <5>2 DEF Stray
      <4> QED BY <2>10, <3>2, <4>3, StrayStays DEF Matched
    <3> QED BY <3>1, <3>2
  <2> QED BY <2>6, <2>7, <2>8, <2>9, <2>11, <2>12 DEF Matched
<1> QED BY <1>5, <1>6

LEMMA CleanRecvStep == ASSUME TypeOK, Consistent, Matched, CleanRecv, recvQueue # <<>> PROVE Matched'
<1> USE ConnectionAssumption DEF guiVars, calls, recvVars, sendVars, torVars
<1>1. /\ UNCHANGED <<cur, kind, said, gpc, sock, sent, posted, out, inbox, hand>>
      /\ cpc = "CleanRecv" /\ cpc' = "CleanWakeRecv"
  BY DEF CleanRecv
<1>2. /\ Way = {} /\ Way' = {} /\ Posted' = Posted /\ Written' = Written /\ hand = 0
  BY <1>1 DEF Consistent, SockOK, AfterSock, Matched, OnTheWay, Way, Posted, Written, Unanswered,
              Answers, InHand
<1>3. cur \in Nat /\ waiter \in [Cmds -> {"None", "Waiting", "Success", "Failed"}] /\ got \in [Cmds -> Cmds \cup {0}]
  BY DEF TypeOK, TypeCalls
<1>4. recvQueue = <<cur>> /\ Head(recvQueue) = cur /\ gpc \in Waiting
  BY Singleton DEF Consistent, RecvWaitOK, NoDeletedWaiterQueued, Waiting
<1>5. cur \in Cmds
  BY <1>4 DEF Consistent, CallOK, Waiting
<1>6. waiter' = [waiter EXCEPT ![cur] = "Failed"] /\ got' = [got EXCEPT ![cur] = 0]
  BY <1>4 DEF CleanRecv, SetRecvResult
<1>7. /\ waiter'[cur] = "Failed"
      /\ \A c \in Cmds : c # cur => waiter'[c] = waiter[c] /\ got'[c] = got[c]
  BY <1>3, <1>5, <1>6
<1>8. InTurn'
  BY <1>1 DEF Matched, InTurn, Posted, Written, Unanswered, Answers, InHand
<1>9. OnTheWay' /\ Met' /\ StraysAre'
  BY <1>1, <1>2 DEF OnTheWay, Met, StraysAre, Way
<1>10. Untouched'
  BY <1>1, <1>3, <1>4, <1>7 DEF Matched, Untouched, Early, Asking, Holding, Waiting
<1>11. MismatchIsExplained'
  <2>1. Grows
    BY <1>1 DEF Grows
  <2> QED BY <1>7, <2>1, StrayStays DEF Matched, MismatchIsExplained
<1> QED BY <1>8, <1>9, <1>10, <1>11 DEF Matched

LEMMA InitMatched == Init => Matched
<1> SUFFICES ASSUME Init PROVE Matched
  OBVIOUS
<1>1. /\ gpc = "Idle" /\ cpc = "Off" /\ hand = 0 /\ cur = 0
      /\ posted = <<>> /\ out = <<>> /\ inbox = <<>>
      /\ \A c \in Cmds : sent[c] = "None" /\ said[c] = "None" /\ waiter[c] = "None" /\ got[c] = 0
  BY DEF Init
<1>2. Posted = {} /\ Unanswered = {} /\ Answers = {} /\ InHand = {} /\ Written = {} /\ Way = {}
  BY <1>1, NothingRises DEF Posted, Unanswered, Answers, InHand, Written, Way
<1>3. InTurn
  BY <1>1, <1>2, NothingRises DEF InTurn, Below
<1>4. OnTheWay /\ Met /\ StraysAre
  BY <1>1, <1>2 DEF OnTheWay, Met, StraysAre
<1>5. Untouched /\ MismatchIsExplained
  BY <1>1 DEF Untouched, MismatchIsExplained, Waiting
<1> QED BY <1>3, <1>4, <1>5 DEF Matched

LEMMA StepMatched == TypeOK /\ Consistent /\ Matched /\ [Next]_vars => Matched'
<1> SUFFICES ASSUME TypeOK, Consistent, Matched, [Next]_vars PROVE Matched'
  OBVIOUS
<1>1. CASE GuiBegins
  BY <1>1, QuietSteps, CallSteps DEF GuiBegins
<1>2. CASE GuiContinues
  BY <1>2, QuietSteps, CallSteps, PostStep DEF GuiContinues
<1>3. CASE Control
  <2>1. CASE CleanRecv
    BY <2>1, QuietSteps, CleanRecvStep
  <2> QED BY <1>3, <2>1, QuietSteps, LosingSteps, HandleSendStep, ReadReplyStep, DeliverStep, CleanSockStep
          DEF Control
<1>4. CASE Tor
  BY <1>4, LosingSteps, TorRepliesStep DEF Tor, TorAnswers
<1>5. CASE UNCHANGED vars
  BY <1>5, QuietSteps
<1> QED BY <1>1, <1>2, <1>3, <1>4, <1>5 DEF Next, Terminated

LEMMA AlwaysMatched == Spec => [](TypeOK /\ Consistent /\ Matched)
<1>1. TypeOK /\ Consistent /\ Matched /\ [Next]_vars => Matched'
  BY StepMatched
<1> QED BY Invariance, InitMatched, <1>1, PTL DEF Spec

\* send(cmd, reply) is handed the reply to another command only after some earlier
\* command was written without a waiter: a signal, or one whose send(cmd) returned FALSE.
THEOREM MismatchExplained == Spec => []MismatchIsExplained
<1>1. Matched => MismatchIsExplained
  BY DEF Matched
<1> QED BY AlwaysMatched, <1>1, PTL

\* onReadyRead() and send(cmd, reply) wait for each other's mutex only after some command
\* was written without a waiter: the reply in the control thread's hand is nobody's.
THEOREM DeadlockExplained == Spec => []DeadlockIsExplained
<1>1. TypeOK /\ Consistent /\ Matched => DeadlockIsExplained
  <2> SUFFICES ASSUME TypeOK, Consistent, Matched, CircularWait
               PROVE  \E d \in 1 .. cur : Unwaited(d)
    BY DEF DeadlockIsExplained
  <2>1. cpc = "Deliver" /\ gpc = "LockConn" /\ cur \in Nat /\ \A c \in Cmds : c \in Nat
    BY ConnectionAssumption DEF CircularWait, TypeOK, TypeCalls, Cmds
  <2>2. hand \in Cmds /\ hand \in Written /\ hand \in Way
    BY <2>1 DEF Matched, OnTheWay, TypeOK, TypeThreads, Way, Written, InHand
  <2>3. hand < cur
    BY <2>1, <2>2 DEF Matched, OnTheWay, Early
  <2>4. Stray(hand) /\ sent[hand] = "Sent"
    BY <2>2, <2>3 DEF Matched, StraysAre, Ended, OnTheWay
  <2>5. CASE kind[hand] = "signal" \/ said[hand] = "False"
    <3>1. Unwaited(hand) /\ hand \in 1 .. cur
      BY <2>1, <2>2, <2>3, <2>4, <2>5 DEF Unwaited, Cmds
    <3> QED BY <3>1
  <2>6. CASE \E d \in 1 .. (hand - 1) : Unwaited(d)
    <3>1. \A d \in 1 .. (hand - 1) : d \in 1 .. cur
      BY <2>1, <2>2, <2>3
    <3> QED BY <2>6, <3>1
  <2> QED BY <2>4, <2>5, <2>6 DEF Stray
<1> QED BY AlwaysMatched, <1>1, PTL

------------------------------------------------------------------------------
(* Plain commands on one connection: the two threads implement RequestReply *)

\* The connection has been made, or given up, and there will be no other.
Over == connects = 1 /\ ~timer /\ cpc \notin {"Setup", "Dial"} /\ sock # "Dialing"

OneConnection ==
    /\ connects = 0 => cpc = "Off"
    /\ timer \/ cpc = "Dial" => sock = "Idle"
    /\ SockIsConnected \/ posted # <<>> \/ gpc = "Post" => Over

\* The only SendWaiter tells a caller who asks it nothing untrue of its command: it failed,
\* or it was written or is about to be.
Checking == {"SendCheck", "SendSleep"}
WaiterIsTrue ==
    /\ sendWaiter = "Failed" => /\ Over /\ ~SockIsConnected /\ gpc # "Post"
                                /\ gpc \in Checking => sent[cur] = "NotSent"
    /\ gpc \in Checking /\ sendWaiter = "Waiting" =>
          sent[cur] = "NotSent" \/ (sent[cur] = "None" /\ cur \in Posted)

\* What send() returned is what became of the command.
OutcomeIsTrue ==
    \A c \in Cmds : /\ kind[c] \in {"None", "reply"}
                    /\ said[c] = "False" => sent[c] = "NotSent"
                    /\ waiter[c] = "Success" => sent[c] = "Sent"

\* The inductive invariant of one connection that serves plain commands.
Single == OneConnection /\ WaiterIsTrue /\ OutcomeIsTrue

LEMMA StepOneConnection ==
    ASSUME MaxConnects = 1, TypeOK, Consistent, OneConnection, [Next]_vars
    PROVE  OneConnection' /\ (Over => Over')
<1> USE DEF TypeOK, TypeThreads, TypeFlags, TypeQueues, TypeCalls, OneConnection, Over, SockIsConnected,
            Consistent, SockOK, AttemptOK, AfterSock, PostsToLiveSocket, guiVars, calls, lockVars,
            connVars, sendVars, recvVars, torVars, ctlVars, allButGpc, allButCpc
<1>1. CASE Connect
  BY <1>1 DEF Connect
<1>2. CASE BeginSend
  BY <1>2 DEF BeginSend
<1>3. CASE BeginDisconnect
  BY <1>3 DEF BeginDisconnect
<1>4. CASE BeginCancel
  BY <1>4 DEF BeginCancel
<1>5. CASE BeginDestroy
  BY <1>5 DEF BeginDestroy, Exit
<1>6. CASE LockRecv
  BY <1>6 DEF LockRecv
<1>7. CASE LockConn
  BY <1>7 DEF LockConn, ReturnUnsent, ConnFree
<1>8. CASE Post
  BY <1>8 DEF Post
<1>9. CASE SendSleep
  BY <1>9 DEF SendSleep
<1>10. CASE SendReturns
  BY <1>10 DEF SendReturns, EnqueueWaiter, ReturnUnsent
<1>11. CASE RecvSleep
  BY <1>11 DEF RecvSleep
<1>12. CASE RecvReturns
  BY <1>12 DEF RecvReturns
<1>13. CASE DisconnectStatus
  BY <1>13 DEF DisconnectStatus
<1>14. CASE DisconnectSock
  BY <1>14 DEF DisconnectSock, ConnFree
<1>15. CASE CancelStatus
  BY <1>15 DEF CancelStatus
<1>16. CASE CancelExit
  BY <1>16 DEF CancelExit, Exit
<1>17. CASE EndDestroy
  BY <1>17 DEF EndDestroy
<1>18. CASE Setup
  BY <1>18 DEF Setup, ConnFree
<1>19. CASE Dial
  BY <1>19 DEF Dial, ConnFree
<1>20. CASE TimerFires
  BY <1>20 DEF TimerFires
<1>21. CASE OnConnected
  BY <1>21 DEF OnConnected
<1>22. CASE OnConnectError
  BY <1>22 DEF OnConnectError, StartTimer, MayRetry
<1>23. CASE OnDisconnected
  BY <1>23 DEF OnDisconnected, Disconnected, Exit
<1>24. CASE HandleSend
  BY <1>24 DEF HandleSend, SetSendResult, SendCommandResult
<1>25. CASE WakeSend
  BY <1>25 DEF WakeSend, WakeSender
<1>26. CASE ReadyRead
  BY <1>26 DEF ReadyRead, ConnFree
<1>27. CASE ReadReply
  BY <1>27 DEF ReadReply
<1>28. CASE ReadReplyFails
  BY <1>28 DEF ReadReplyFails, Disconnected, Exit
<1>29. CASE Deliver
  BY <1>29 DEF Deliver, SetRecvResult
<1>30. CASE WakeRecv
  BY <1>30 DEF WakeRecv, WakeReceiver
<1>31. CASE ReadDone
  BY <1>31 DEF ReadDone
<1>32. CASE LeaveLoop
  BY <1>32 DEF LeaveLoop
<1>33. CASE CleanSock
  BY <1>33 DEF CleanSock, ConnFree
<1>34. CASE CleanSend
  BY <1>34 DEF CleanSend, SetSendResult, SenderWaits
<1>35. CASE CleanWakeSend
  BY <1>35 DEF CleanWakeSend, WakeSender
<1>36. CASE CleanLock
  BY <1>36 DEF CleanLock
<1>37. CASE CleanRecv
  BY <1>37 DEF CleanRecv, SetRecvResult
<1>38. CASE CleanWakeRecv
  BY <1>38 DEF CleanWakeRecv, WakeReceiver
<1>39. CASE TorReplies
  BY <1>39 DEF TorReplies
<1>40. CASE TorEndsReply
  BY <1>40 DEF TorEndsReply
<1>41. CASE TorSendsEvent
  BY <1>41 DEF TorSendsEvent
<1>42. CASE TorCloses
  BY <1>42 DEF TorCloses
<1>43. CASE UNCHANGED vars
  BY <1>43 DEF vars
<1> QED BY <1>1, <1>2, <1>3, <1>4, <1>5, <1>6, <1>7, <1>8, <1>9, <1>10, <1>11, <1>12, <1>13, <1>14, <1>15, <1>16, <1>17, <1>18, <1>19, <1>20, <1>21, <1>22, <1>23, <1>24, <1>25, <1>26, <1>27, <1>28, <1>29, <1>30, <1>31, <1>32, <1>33, <1>34, <1>35, <1>36, <1>37, <1>38, <1>39, <1>40, <1>41, <1>42, <1>43
  DEF Next, GuiBegins, GuiContinues, Control, Tor, TorAnswers, Terminated

\* A command on its way is the current one, and its caller waits for its result or its reply.
LEMMA OnlyTheCurrent ==
    ASSUME TypeOK, Matched, OutcomeIsTrue
    PROVE  \A c \in Way : c \in Cmds /\ c = cur /\ gpc \in Checking \cup Waiting
<1> SUFFICES ASSUME NEW c \in Way PROVE c \in Cmds /\ c = cur /\ gpc \in Checking \cup Waiting
  OBVIOUS
<1>1. c \in Cmds /\ c \in Nat /\ cur \in Nat /\ c <= cur /\ (c = cur => gpc \notin Early)
  BY DEF Matched, OnTheWay, TypeOK, TypeCalls, Cmds
<1>2. sent[c] # "NotSent" /\ \A d \in 1 .. (c - 1) : d \in Cmds
  <2>1. sent[c] # "NotSent"
    BY DEF Matched, OnTheWay, Way
  <2> QED BY <1>1, <2>1, ConnectionAssumption DEF Cmds
<1>3. ~Stray(c)
  BY <1>1, <1>2 DEF Stray, Unwaited, OutcomeIsTrue
<1>4. ~Ended(c)
  BY <1>3 DEF Matched, StraysAre
<1> QED BY <1>1, <1>4 DEF Ended, Asking, Holding, Waiting, Early, Checking

LEMMA StepOutcomeIsTrue ==
    ASSUME Plain, TypeOK, Consistent, Matched, Single, [Next]_vars
    PROVE  OutcomeIsTrue'
<1> USE DEF guiVars, calls, lockVars, connVars, sendVars, recvVars, torVars, ctlVars, allButGpc, allButCpc
<1>1. /\ cur \in 0 .. MaxSends /\ sent \in [Cmds -> {"None", "Sent", "NotSent"}]
      /\ said \in [Cmds -> {"None", "True", "False"}] /\ kind \in [Cmds -> Kinds \cup {"None"}]
      /\ waiter \in [Cmds -> {"None", "Waiting", "Success", "Failed"}]
  BY DEF TypeOK, TypeCalls
<1>2. OutcomeIsTrue
  BY DEF Single
<1>3. CASE UNCHANGED <<kind, said, waiter, sent>>
  BY <1>2, <1>3 DEF OutcomeIsTrue
<1>4. CASE BeginSend
  <2>1. \E k \in {"reply"} : kind' = [kind EXCEPT ![cur'] = k]
    BY <1>4 DEF BeginSend, Plain
  <2>2. kind' = [kind EXCEPT ![cur'] = "reply"] /\ UNCHANGED <<said, waiter, sent>>
    BY <1>4, <2>1 DEF BeginSend
  <2> QED BY <1>1, <1>2, <2>2 DEF OutcomeIsTrue
<1>5. CASE LockConn
  <2>1. CASE SockIsConnected
    BY <1>2, <1>5, <2>1 DEF LockConn, OutcomeIsTrue
  <2>2. CASE ~SockIsConnected
    <3>1. /\ said' = [said EXCEPT ![cur] = "False"] /\ sent' = [sent EXCEPT ![cur] = "NotSent"]
          /\ UNCHANGED <<kind, waiter>> /\ cur \in Cmds /\ waiter[cur] = "None"
      BY <1>5, <2>2 DEF LockConn, Consistent, CallOK, Holding, Asking, Matched, Untouched
    <3> QED BY <1>1, <1>2, <3>1 DEF OutcomeIsTrue
  <2> QED BY <2>1, <2>2
<1>6. CASE SendReturns
  <2>1. /\ UNCHANGED <<kind, sent>> /\ cur \in Cmds
        /\ said' = [said EXCEPT ![cur] = IF sendWaiter = "Success" THEN "True" ELSE "False"]
        /\ waiter' = waiter \/ waiter' = [waiter EXCEPT ![cur] = "Waiting"]
    BY <1>6 DEF SendReturns, EnqueueWaiter, Consistent, CallOK, Holding
  <2>2. sendWaiter # "Success" => sent[cur] = "NotSent"
    BY <1>6 DEF SendReturns, Single, WaiterIsTrue, Checking, TypeOK, TypeThreads
  <2> QED BY <1>1, <1>2, <2>1, <2>2 DEF OutcomeIsTrue
<1>7. CASE HandleSend
  <2>1. PICK c : c = Head(posted)
    OBVIOUS
  <2>2. /\ UNCHANGED <<kind, said, waiter>> /\ posted # <<>> /\ posted \in Seq(Cmds)
        /\ sent' = [sent EXCEPT ![c] = IF SockIsConnected THEN "Sent" ELSE "NotSent"]
    BY <1>7, <2>1 DEF HandleSend, TypeOK, TypeQueues
  <2>3. c \in Posted /\ c \in Cmds
    BY <2>1, <2>2, RisingTail DEF Matched, InTurn, Posted
  <2>4. sent[c] = "None"
    BY <2>3 DEF Matched, OnTheWay
  <2> QED BY <1>1, <1>2, <2>2, <2>3, <2>4 DEF OutcomeIsTrue
<1>8. CASE CleanSock
  <2>1. /\ UNCHANGED <<kind, said, waiter>>
        /\ sent' = [c \in Cmds |-> IF c \in Posted THEN "NotSent" ELSE sent[c]]
    BY <1>8 DEF CleanSock, Posted, Elements, ToSet
  <2>2. \A c \in Posted : sent[c] = "None"
    BY DEF Matched, OnTheWay
  <2> QED BY <1>1, <1>2, <2>1, <2>2 DEF OutcomeIsTrue
<1>9. CASE Deliver /\ recvQueue # <<>>
  <2>1. Head(recvQueue) = cur
    BY <1>9, Singleton DEF Consistent, RecvWaitOK, NoDeletedWaiterQueued
  <2>2. UNCHANGED <<kind, said, sent>> /\ waiter' = [waiter EXCEPT ![cur] = "Success"]
    BY <1>9, <2>1 DEF Deliver, SetRecvResult
  <2>3. hand \in Written
    BY <1>9 DEF Deliver, Matched, OnTheWay, Written, InHand
  <2>4. sent[cur] = "Sent"
    BY <2>3, OnlyTheCurrent DEF Way, Matched, OnTheWay, Single
  <2> QED BY <1>1, <1>2, <2>2, <2>4 DEF OutcomeIsTrue
<1>10. CASE CleanRecv /\ recvQueue # <<>>
  <2>1. UNCHANGED <<kind, said, sent>> /\ \E w : waiter' = [waiter EXCEPT ![w] = "Failed"]
    BY <1>10 DEF CleanRecv, SetRecvResult
  <2> QED BY <1>1, <1>2, <2>1 DEF OutcomeIsTrue
<1> QED BY <1>3, <1>4, <1>5, <1>6, <1>7, <1>8, <1>9, <1>10
  DEF Next, GuiBegins, GuiContinues, Control, Tor, TorAnswers, Terminated, vars, Connect,
      BeginDisconnect, BeginCancel, BeginDestroy, LockRecv, Post, SendSleep, RecvSleep, RecvReturns,
      DisconnectStatus, DisconnectSock, CancelStatus, CancelExit, EndDestroy, Setup, Dial, TimerFires,
      OnConnected, OnConnectError, OnDisconnected, WakeSend, ReadyRead, ReadReply, ReadReplyFails,
      Deliver, WakeRecv, ReadDone, LeaveLoop, CleanSend, CleanWakeSend, CleanLock, CleanRecv,
      CleanWakeRecv, TorReplies, TorEndsReply, TorSendsEvent, TorCloses

LEMMA StepWaiterIsTrue ==
    ASSUME Plain, TypeOK, Consistent, Matched, Single, OneConnection', Over => Over', [Next]_vars
    PROVE  WaiterIsTrue'
<1> USE DEF guiVars, calls, lockVars, connVars, sendVars, recvVars, torVars, ctlVars, allButGpc, allButCpc,
            SockIsConnected, Checking
<1>1. /\ cur \in 0 .. MaxSends /\ sent \in [Cmds -> {"None", "Sent", "NotSent"}]
      /\ gpc \in Checking \cup {"Post"} => cur \in Cmds
      /\ sendWaiter \in {"Waiting", "Success", "Failed"}
  BY DEF TypeOK, TypeThreads, TypeCalls, Consistent, CallOK, Holding
<1>2. WaiterIsTrue /\ (sendWaiter = "Failed" => Over')
  BY DEF Single, WaiterIsTrue
<1>3. ASSUME UNCHANGED sendWaiter, gpc' \notin Checking, gpc' # "Post",
             SockIsConnected' => SockIsConnected
      PROVE  WaiterIsTrue'
  BY <1>2, <1>3 DEF WaiterIsTrue
<1>4. ASSUME UNCHANGED <<sendWaiter, posted, sent, cur>>,
             gpc' \in Checking => gpc \in Checking, gpc' = "Post" => gpc = "Post",
             SockIsConnected' => SockIsConnected
      PROVE  WaiterIsTrue'
  BY <1>2, <1>4 DEF WaiterIsTrue, Posted
<1>5. CASE BeginSend
  BY <1>3, <1>5 DEF BeginSend
<1>6. CASE LockConn
  <2>1. CASE SockIsConnected
    BY <1>2, <1>6, <2>1 DEF LockConn, WaiterIsTrue
  <2>2. CASE ~SockIsConnected
    BY <1>3, <1>6, <2>2 DEF LockConn, ReturnUnsent
  <2> QED BY <2>1, <2>2
<1>7. CASE Post
  <2>1. /\ gpc = "Post" /\ posted' = Append(posted, cur) /\ cur \in Cmds /\ sent[cur] = "None"
        /\ UNCHANGED <<sendWaiter, sent, cur>> /\ sendWaiter # "Failed"
    BY <1>1, <1>2, <1>7 DEF Post, WaiterIsTrue, Matched, Untouched, Early
  <2>2. cur \in Posted'
    BY <2>1, AppendProperties DEF Posted, Elements, TypeOK, TypeQueues
  <2> QED BY <2>1, <2>2 DEF WaiterIsTrue
<1>8. CASE OnConnected
  <2>1. ~Over /\ UNCHANGED <<gpc, sendWaiter, posted, sent, cur>>
    BY <1>8 DEF OnConnected, Over
  <2> QED BY <1>2, <2>1 DEF WaiterIsTrue, Posted
<1>9. CASE HandleSend
  <2>1. PICK c : c = Head(posted)
    OBVIOUS
  <2>2. /\ UNCHANGED <<gpc, cur, sock, kind>> /\ posted # <<>> /\ posted \in Seq(Cmds)
        /\ sent' = [sent EXCEPT ![c] = IF SockIsConnected THEN "Sent" ELSE "NotSent"]
        /\ sendWaiter' = IF SockIsConnected /\ kind[c] # "wide" THEN "Success" ELSE "Failed"
    BY <1>9, <2>1 DEF HandleSend, SetSendResult, SendCommandResult, TypeOK, TypeQueues
  <2>3. c \in Posted
    BY <2>1, <2>2, RisingTail DEF Matched, InTurn, Posted
  <2>4. c = cur /\ cur \in Cmds /\ gpc \in Checking \cup Waiting
    BY <2>3, OnlyTheCurrent DEF Single, Way
  <2>5. kind[c] # "wide"
    BY <2>4 DEF Single, OutcomeIsTrue
  <2>6. Over'
    BY <2>2 DEF Single, OneConnection
  <2>7. sent'[cur] = IF SockIsConnected THEN "Sent" ELSE "NotSent"
    BY <1>1, <2>2, <2>4
  <2> QED BY <2>2, <2>4, <2>5, <2>6, <2>7 DEF WaiterIsTrue, Waiting
<1>10. CASE CleanSock
  <2>1. /\ UNCHANGED <<gpc, cur, sendWaiter>> /\ sock' = "None"
        /\ sent' = [c \in Cmds |-> IF c \in Posted THEN "NotSent" ELSE sent[c]]
    BY <1>10 DEF CleanSock, Posted, Elements, ToSet
  <2>2. gpc \in Checking => sent'[cur] = IF cur \in Posted THEN "NotSent" ELSE sent[cur]
    BY <1>1, <2>1
  <2> QED BY <1>2, <2>1, <2>2 DEF WaiterIsTrue
<1>11. CASE CleanSend
  <2>1. /\ UNCHANGED <<gpc, cur, sock, posted, sent>> /\ sock = "None" /\ Posted = {}
        /\ cpc = "CleanSend" /\ gpc # "Post"
    BY <1>11 DEF CleanSend, Consistent, SockOK, AfterSock, PostsToLiveSocket, Matched, OnTheWay, Way
  <2>2. sendWaiter' = IF sendWaiter = "Waiting" THEN "Failed" ELSE sendWaiter
    BY <1>11 DEF CleanSend, SenderWaits, SetSendResult
  <2>3. Over
    <3>1. connects = 1
      BY <2>1 DEF Single, OneConnection, TypeOK, TypeCalls, Plain
    <3> QED BY <2>1, <3>1 DEF Over, Consistent, AttemptOK
  <2> QED BY <1>1, <1>2, <2>1, <2>2, <2>3 DEF WaiterIsTrue
<1>12. CASE GuiBegins /\ ~BeginSend
  BY <1>4, <1>12 DEF GuiBegins, Connect, BeginDisconnect, BeginCancel, BeginDestroy
<1>13. CASE GuiContinues /\ ~LockConn /\ ~Post
  BY <1>4, <1>13 DEF GuiContinues, LockRecv, SendSleep, SendReturns, EnqueueWaiter, ReturnUnsent, RecvSleep,
      RecvReturns, DisconnectStatus, DisconnectSock, CancelStatus, CancelExit, EndDestroy, allButGpc
<1>14. CASE Control /\ ~(OnConnected \/ HandleSend \/ CleanSock \/ CleanSend)
  BY <1>4, <1>14 DEF Control, Setup, Dial, TimerFires, OnConnectError, OnDisconnected, Disconnected, WakeSend,
      WakeSender, ReadyRead, ReadReply, ReadReplyFails, Deliver, WakeRecv, WakeReceiver, ReadDone, LeaveLoop,
      CleanWakeSend, CleanLock, CleanRecv, CleanWakeRecv
<1>15. CASE Tor
  BY <1>4, <1>15 DEF Tor, TorAnswers, TorReplies, TorEndsReply, TorSendsEvent, TorCloses
<1>16. CASE UNCHANGED vars
  BY <1>4, <1>16 DEF vars
<1> QED BY <1>5, <1>6, <1>7, <1>8, <1>9, <1>10, <1>11, <1>12, <1>13, <1>14, <1>15, <1>16
        DEF Next, GuiBegins, GuiContinues, Control, Terminated

LEMMA AlwaysSingle == ASSUME Plain PROVE Spec => [](TypeOK /\ Consistent /\ Matched /\ Single)
<1>1. Init => Single
  <2> SUFFICES ASSUME Init PROVE Single
    OBVIOUS
  <2>1. OneConnection
    BY DEF Init, OneConnection, SockIsConnected
  <2>2. WaiterIsTrue /\ OutcomeIsTrue
    BY DEF Init, WaiterIsTrue, OutcomeIsTrue, Checking
  <2> QED BY <2>1, <2>2 DEF Single
<1>2. TypeOK /\ Consistent /\ Matched /\ Single /\ [Next]_vars => Single'
  <2> SUFFICES ASSUME TypeOK, Consistent, Matched, Single, [Next]_vars PROVE Single'
    OBVIOUS
  <2>1. OneConnection' /\ (Over => Over')
    BY StepOneConnection DEF Plain, Single
  <2>2. OutcomeIsTrue'
    BY Plain, StepOutcomeIsTrue
  <2>3. WaiterIsTrue'
    BY <2>1, Plain, StepWaiterIsTrue
  <2> QED BY <2>1, <2>2, <2>3 DEF Single
<1> QED BY AlwaysMatched, <1>1, <1>2, PTL DEF Spec

\* The abstract state: what Tor has received, and what the calls that have ended returned.
Received == {c \in 1 .. cur : sent[c] = "Sent"}
Outcome(c) == IF waiter[c] = "Success" THEN got[c] ELSE 0
Finished == IF Sending THEN cur - 1 ELSE cur
Outcomes == [c \in 1 .. Finished |-> Outcome(c)]

LEMMA AbstractState ==
    /\ Channel!absVars = <<cur, Sending, Received, Outcomes>>
    /\ Channel!absVars' = <<cur', Sending', Received', Outcomes'>>
BY DEF Channel!absVars, Received, Outcomes, Outcome, Finished

LEMMA OneMore ==
    ASSUME NEW S, NEW n \in Nat, NEW f \in [1 .. n -> S], NEW x \in S, NEW g \in [1 .. (n + 1) -> S],
           \A i \in 1 .. n : g[i] = f[i], g[n + 1] = x
    PROVE  g = Append(f, x)
<1>1. f \in Seq(S) /\ Len(f) = n
  OBVIOUS
<1>2. PICK h : h = Append(f, x)
  OBVIOUS
<1>3. h \in Seq(S) /\ Len(h) = n + 1 /\ h[n + 1] = x /\ \A i \in 1 .. n : h[i] = f[i]
  BY <1>1, <1>2, AppendProperties
<1>4. \A i \in 1 .. (n + 1) : i = n + 1 \/ i \in 1 .. n
  OBVIOUS
<1>5. h \in [1 .. (n + 1) -> S]
  BY <1>3
<1>6. \A i \in 1 .. (n + 1) : h[i] = g[i]
  BY <1>3, <1>4
<1> QED BY <1>2, <1>5, <1>6

\* The current call ends, and its outcome is added to those of the calls before it.
LEMMA CallEnds ==
    ASSUME TypeOK, Sending, ~Sending', cur \in Cmds, cur' = cur, waiter \in [Cmds -> {"None", "Waiting", "Success", "Failed"}],
           \A c \in Cmds : c < cur => waiter'[c] = waiter[c] /\ got'[c] = got[c],
           NEW x \in Cmds \cup {0}, Outcome(cur)' = x
    PROVE  Outcomes' = Append(Outcomes, x)
<1>1. cur - 1 \in Nat /\ cur \in Nat /\ \A c \in 1 .. cur : c \in Cmds /\ c \in Nat
  BY ConnectionAssumption DEF TypeOK, TypeCalls, Cmds
<1>2. PICK n \in Nat : n = cur - 1
  BY <1>1
<1>3. n + 1 = cur /\ \A c \in 1 .. n : c \in Cmds /\ c < cur
  BY <1>1, <1>2
<1>4. Outcomes = [c \in 1 .. n |-> Outcome(c)]
  BY <1>2 DEF Outcomes, Finished
<1>5. Outcomes' = [c \in 1 .. (n + 1) |-> Outcome(c)']
  BY <1>3 DEF Outcomes, Finished
<1>6. \A c \in Cmds : Outcome(c) \in Cmds \cup {0}
  BY DEF Outcome, TypeOK, TypeCalls
<1>7. \A c \in 1 .. n : Outcome(c)' = Outcome(c)
  BY <1>3 DEF Outcome
<1>8. Outcomes \in [1 .. n -> Cmds \cup {0}] /\ \A c \in 1 .. n : Outcomes[c] = Outcome(c)
  BY <1>3, <1>4, <1>6
<1>9. \A c \in 1 .. (n + 1) : c = n + 1 \/ c \in 1 .. n
  BY <1>2
<1>10. Outcome(n + 1)' = x
  BY <1>3 DEF Outcome
<1>11. \A c \in 1 .. (n + 1) : Outcome(c)' \in Cmds \cup {0}
  BY <1>3, <1>6, <1>7, <1>9, <1>10
<1>12. /\ Outcomes' \in [1 .. (n + 1) -> Cmds \cup {0}]
       /\ \A c \in 1 .. (n + 1) : Outcomes'[c] = Outcome(c)'
  BY <1>5, <1>11
<1>13. n + 1 \in 1 .. (n + 1) /\ \A c \in 1 .. n : c \in 1 .. (n + 1)
  BY <1>2
<1>14. Outcomes'[n + 1] = x /\ \A c \in 1 .. n : Outcomes'[c] = Outcomes[c]
  BY <1>7, <1>8, <1>10, <1>12, <1>13
<1> QED BY <1>8, <1>12, <1>14, OneMore

\* A step in which no call begins or ends and Tor receives nothing is none of RequestReply.
LEMMA ChannelStutters ==
    ASSUME TypeOK, cur' = cur, Sending' <=> Sending,
           \A c \in Cmds : c <= cur => (sent'[c] = "Sent" <=> sent[c] = "Sent"),
           \A c \in Cmds : c <= Finished => Outcome(c)' = Outcome(c)
    PROVE  UNCHANGED Channel!absVars
<1>1. cur \in Nat /\ Finished <= cur /\ Finished' = Finished /\ \A c \in 1 .. cur : c \in Cmds /\ c <= cur
  BY ConnectionAssumption DEF TypeOK, TypeCalls, Cmds, Finished
<1>2. Finished \in Int /\ \A c \in 1 .. Finished : c \in Cmds /\ c <= Finished
  BY <1>1, ConnectionAssumption DEF Finished, TypeOK, TypeCalls, Cmds
<1>3. Received' = Received
  BY <1>1 DEF Received
<1>4. Outcomes' = Outcomes
  BY <1>1, <1>2 DEF Outcomes
<1>5. Sending' = Sending
  BY DEF Sending
<1> QED BY <1>3, <1>4, <1>5, AbstractState

\* Every step of the threads and of Tor is a step of RequestReply, or changes nothing of it.
LEMMA StepImplements ==
    ASSUME Plain, TypeOK, Consistent, Matched, Single, Single', [Next]_vars
    PROVE  [Channel!AbsNext]_(Channel!absVars)
<1> USE DEF guiVars, calls, lockVars, connVars, sendVars, recvVars, torVars, ctlVars, allButGpc, allButCpc
<1>1. /\ cur \in 0 .. MaxSends /\ cur \in Nat /\ \A c \in Cmds : c \in Nat
      /\ \A c \in 1 .. cur : c \in Cmds
      /\ sent \in [Cmds -> {"None", "Sent", "NotSent"}] /\ got \in [Cmds -> Cmds \cup {0}]
      /\ waiter \in [Cmds -> {"None", "Waiting", "Success", "Failed"}]
  BY ConnectionAssumption DEF TypeOK, TypeCalls, Cmds
<1>2. gpc \in Holding \cup {"LockRecv", "RecvCheck", "RecvSleep"} => cur \in Cmds
  BY DEF Consistent, CallOK
<1>3. ASSUME UNCHANGED <<cur, sent, waiter, got>>, Sending' <=> Sending
      PROVE  UNCHANGED Channel!absVars
  BY <1>3, ChannelStutters DEF Outcome
<1>4. CASE BeginSend
  <2>1. /\ ~Sending /\ Sending' /\ cur' = cur + 1 /\ cur < MaxSends /\ UNCHANGED <<sent, waiter, got>>
    BY <1>4 DEF BeginSend, Sending
  <2>2. cur' \in Cmds /\ cur' - 1 = cur
    BY <1>1, <2>1, ConnectionAssumption DEF Cmds
  <2>3. Received' = Received
    <3>1. sent[cur'] = "None"
      BY <1>1, <2>1, <2>2 DEF Matched, Untouched
    <3>2. \A c \in 1 .. cur' : c = cur' \/ c \in 1 .. cur
      BY <1>1, <2>1
    <3>3. \A c \in 1 .. cur : c \in 1 .. cur'
      BY <1>1, <2>1
    <3> QED BY <2>1, <3>1, <3>2, <3>3 DEF Received
  <2>4. Outcomes' = Outcomes
    BY <2>1, <2>2 DEF Outcomes, Outcome, Finished
  <2>5. Channel!Call
    BY <2>1, <2>3, <2>4 DEF Channel!Call, Received, Outcomes, Outcome, Finished
  <2> QED BY <2>5 DEF Channel!AbsNext
<1>5. ASSUME Sending, ~Sending', UNCHANGED <<cur, got>>, cur \in Cmds, Received' = Received,
             \A c \in Cmds : c # cur => waiter'[c] = waiter[c],
             waiter'[cur] # "Success"
      PROVE  Channel!AbsNext
  <2>1. Outcome(cur)' = 0
    BY <1>5 DEF Outcome
  <2>2. Outcomes' = Append(Outcomes, 0)
    BY <1>1, <1>5, <2>1, CallEnds
  <2>3. /\ Sending /\ Sending' = FALSE /\ cur' = cur /\ Received' = Received
        /\ Outcomes' = Append(Outcomes, 0)
    BY <1>5, <2>2 DEF Sending
  <2>4. Channel!Failed
    BY <2>3 DEF Channel!Failed, Received, Outcomes, Outcome, Finished
  <2> QED BY <2>4 DEF Channel!AbsNext
<1>6. CASE LockConn
  <2>1. CASE SockIsConnected
    BY <1>3, <1>6, <2>1 DEF LockConn, Sending
  <2>2. CASE ~SockIsConnected
    <3>1. /\ Sending /\ ~Sending' /\ UNCHANGED <<cur, got, waiter>> /\ cur \in Cmds
          /\ sent' = [sent EXCEPT ![cur] = "NotSent"] /\ sent[cur] = "None" /\ waiter[cur] = "None"
      BY <1>2, <1>6, <2>2 DEF LockConn, ReturnUnsent, Sending, Holding, Matched, Untouched, Early, Asking
    <3>2. Received' = Received
      BY <1>1, <3>1 DEF Received
    <3> QED BY <1>5, <3>1, <3>2
  <2> QED BY <2>1, <2>2
<1>7. CASE SendReturns
  <2>1. /\ gpc = "SendCheck" /\ Sending /\ UNCHANGED <<cur, got, sent>> /\ cur \in Cmds
        /\ waiter[cur] = "None"
    BY <1>2, <1>7 DEF SendReturns, Sending, Holding, Asking, Matched, Untouched
  <2>2. CASE sendWaiter = "Success" /\ kind[cur] # "signal"
    <3>1. Sending' /\ waiter' = [waiter EXCEPT ![cur] = "Waiting"]
      BY <1>7, <2>2 DEF SendReturns, EnqueueWaiter, Sending
    <3>2. \A c \in Cmds : c <= Finished => Outcome(c)' = Outcome(c)
      BY <1>1, <2>1, <3>1 DEF Outcome, Finished
    <3> QED BY <2>1, <3>1, <3>2, ChannelStutters
  <2>3. CASE ~(sendWaiter = "Success" /\ kind[cur] # "signal")
    <3>1. ~Sending' /\ UNCHANGED waiter
      BY <1>7, <2>3 DEF SendReturns, ReturnUnsent, Sending
    <3>2. Received' = Received
      BY <2>1 DEF Received
    <3> QED BY <1>5, <2>1, <3>1, <3>2
  <2> QED BY <2>2, <2>3
<1>8. CASE RecvReturns
  <2>1. /\ gpc = "RecvCheck" /\ Sending /\ ~Sending' /\ UNCHANGED <<cur, sent, waiter, got>>
        /\ cur \in Cmds
    BY <1>2, <1>8 DEF RecvReturns, Sending
  <2>2. Received' = Received
    BY <2>1 DEF Received
  <2>3. CASE waiter[cur] # "Success"
    BY <1>5, <2>1, <2>2, <2>3
  <2>4. CASE waiter[cur] = "Success"
    <3>1. sent[cur] = "Sent"
      BY <2>1, <2>4 DEF Single, OutcomeIsTrue
    <3>2. got[cur] = cur
      <4>1. \A d \in 1 .. (cur - 1) : d \in Cmds
        BY <1>1, <2>1
      <4>2. \A d \in 1 .. (cur - 1) : ~Unwaited(d)
        BY <4>1 DEF Unwaited, Single, OutcomeIsTrue
      <4> QED BY <2>1, <2>4, <4>2 DEF Matched, MismatchIsExplained
    <3>3. Outcome(cur)' = cur /\ cur \in Cmds \cup {0}
      BY <2>1, <2>4, <3>2 DEF Outcome
    <3>4. Outcomes' = Append(Outcomes, cur)
      BY <1>1, <2>1, <3>3, CallEnds
    <3>5. cur \in Received
      BY <1>1, <2>1, <3>1 DEF Received, Cmds
    <3>6. Channel!Answered
      BY <2>1, <2>2, <3>4, <3>5 DEF Channel!Answered, Received, Outcomes, Outcome, Finished
    <3> QED BY <3>6 DEF Channel!AbsNext
  <2> QED BY <2>3, <2>4
<1>9. CASE HandleSend
  <2>1. PICK c : c = Head(posted)
    OBVIOUS
  <2>2. /\ UNCHANGED <<gpc, cur, sock, waiter, got>> /\ posted # <<>> /\ posted \in Seq(Cmds)
        /\ sent' = [sent EXCEPT ![c] = IF SockIsConnected THEN "Sent" ELSE "NotSent"]
    BY <1>9, <2>1 DEF HandleSend, TypeOK, TypeQueues
  <2>3. c \in Posted
    BY <2>1, <2>2, RisingTail DEF Matched, InTurn, Posted
  <2>4. c = cur /\ cur \in Cmds /\ gpc \in Checking \cup Waiting /\ sent[cur] = "None"
    BY <2>3, OnlyTheCurrent DEF Single, Way, Matched, OnTheWay
  <2>5. Sending /\ Sending'
    BY <2>2, <2>4 DEF Sending, Checking, Waiting
  <2>6. CASE SockIsConnected
    <3>1. Received' = Received \cup {cur} /\ cur \notin Received
      BY <1>1, <2>2, <2>4, <2>6 DEF Received, Cmds
    <3>2. \A d \in Received : d < cur
      BY <1>1, <3>1 DEF Received
    <3>3. Outcomes' = Outcomes
      BY <2>2, <2>5 DEF Outcomes, Outcome, Finished
    <3>4. Channel!Receive
      BY <2>2, <2>5, <3>1, <3>2, <3>3 DEF Channel!Receive, Received, Outcomes, Outcome, Finished
    <3> QED BY <3>4 DEF Channel!AbsNext
  <2>7. CASE ~SockIsConnected
    <3>1. \A d \in Cmds : sent'[d] = "Sent" <=> sent[d] = "Sent"
      BY <1>1, <2>2, <2>4, <2>7
    <3> QED BY <2>2, <2>5, <3>1, ChannelStutters DEF Outcome
  <2> QED BY <2>6, <2>7
<1>10. CASE CleanSock
  <2>1. /\ UNCHANGED <<gpc, cur, waiter, got>>
        /\ sent' = [c \in Cmds |-> IF c \in Posted THEN "NotSent" ELSE sent[c]]
    BY <1>10 DEF CleanSock, Posted, Elements, ToSet
  <2>2. \A c \in Posted : sent[c] = "None"
    BY DEF Matched, OnTheWay
  <2>3. \A c \in Cmds : sent'[c] = "Sent" <=> sent[c] = "Sent"
    BY <2>1, <2>2
  <2> QED BY <2>1, <2>3, ChannelStutters DEF Outcome, Sending
<1>11. CASE (Deliver \/ CleanRecv) /\ recvQueue # <<>>
  <2>1. Head(recvQueue) = cur /\ gpc \in Waiting
    BY <1>11, Singleton DEF Consistent, RecvWaitOK, NoDeletedWaiterQueued, Waiting
  <2>2. /\ UNCHANGED <<gpc, cur, sent>>
        /\ \E r, h : waiter' = [waiter EXCEPT ![cur] = r] /\ got' = [got EXCEPT ![cur] = h]
    BY <1>11, <2>1 DEF Deliver, CleanRecv, SetRecvResult
  <2>3. Sending /\ Sending' /\ Finished = cur - 1
    BY <2>1, <2>2 DEF Sending, Waiting, Finished
  <2>4. \A c \in Cmds : c <= Finished => c # cur
    BY <1>1, <2>3
  <2>5. \A c \in Cmds : c # cur => waiter'[c] = waiter[c] /\ got'[c] = got[c]
    BY <1>1, <2>2
  <2> QED BY <2>2, <2>3, <2>4, <2>5, ChannelStutters DEF Outcome
<1>12. CASE GuiBegins /\ ~BeginSend
  BY <1>3, <1>12 DEF GuiBegins, Connect, BeginDisconnect, BeginCancel, BeginDestroy, Sending
<1>13. CASE GuiContinues /\ ~LockConn /\ ~SendReturns /\ ~RecvReturns
  BY <1>3, <1>13 DEF GuiContinues, LockRecv, Post, SendSleep, RecvSleep, DisconnectStatus, DisconnectSock,
      CancelStatus, CancelExit, EndDestroy, Sending
<1>14. CASE Control /\ ~(HandleSend \/ CleanSock) /\ ~((Deliver \/ CleanRecv) /\ recvQueue # <<>>)
  BY <1>3, <1>14 DEF Control, Setup, Dial, TimerFires, OnConnected, OnConnectError, OnDisconnected, WakeSend,
      WakeSender, ReadyRead, ReadReply, ReadReplyFails, Deliver, WakeRecv, WakeReceiver, ReadDone, LeaveLoop,
      CleanSend, CleanWakeSend, CleanLock, CleanRecv, CleanWakeRecv, Sending
<1>15. CASE Tor
  BY <1>3, <1>15 DEF Tor, TorAnswers, TorReplies, TorEndsReply, TorSendsEvent, TorCloses, Sending
<1>16. CASE UNCHANGED vars
  BY <1>3, <1>16 DEF vars, Sending
<1> QED BY <1>4, <1>6, <1>7, <1>8, <1>9, <1>10, <1>11, <1>12, <1>13, <1>14, <1>15, <1>16
        DEF Next, GuiBegins, GuiContinues, Control, Terminated

\* With plain commands and one connection, send(cmd, reply) keeps the order of RequestReply:
\* one call after another, Tor receives the commands in that order and each at most once, and
\* a call ends with the reply to its own command, which Tor has received, or with a failure.
THEOREM CallsAreAnswered == ASSUME Plain PROVE Spec => Channel!AbsSafety
<1>1. Init => Channel!AbsInit
  <2> SUFFICES ASSUME Init PROVE Channel!AbsInit
    OBVIOUS
  <2>1. cur = 0 /\ ~Sending
    BY DEF Init, Sending
  <2>2. Received = {} /\ Outcomes = <<>>
    BY <2>1 DEF Received, Outcomes, Finished
  <2> QED BY <2>1, <2>2 DEF Channel!AbsInit, Received, Outcomes, Outcome, Finished, Sending
<1>2. /\ TypeOK /\ Consistent /\ Matched /\ Single /\ Single' /\ [Next]_vars
      => [Channel!AbsNext]_(Channel!absVars)
  BY Plain, StepImplements
<1>3. Spec => [](TypeOK /\ Consistent /\ Matched /\ Single)
  BY Plain, AlwaysSingle
<1> QED BY <1>1, <1>2, <1>3, PTL DEF Spec, Channel!AbsSafety

==============================================================================
