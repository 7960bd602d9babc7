-------------------- MODULE ControlConnectionRefinement --------------------
(***************************************************************************)
(* send(cmd, reply) of ControlConnection implements RequestReply as long   *)
(* as every command is plain and the object serves one connection.         *)
(***************************************************************************)
EXTENDS ControlConnection

Sending == gpc \in {"LockRecv", "LockConn", "Post", "SendCheck", "SendSleep",
                    "RecvCheck", "RecvSleep"}

\* The case in which the promise is kept.
Plain == SendKinds = {"reply"} /\ MaxConnects = 1

Channel == INSTANCE RequestReply WITH
    MaxSends <- MaxSends,
    calls    <- cur,
    open     <- Sending,
    received <- {c \in 1 .. cur : sent[c] = "Sent"},
    replies  <- [c \in 1 .. (IF Sending THEN cur - 1 ELSE cur) |->
                    IF waiter[c] = "Success" THEN got[c] ELSE 0]

\* Calls are made one after another, Tor receives the commands in that order,
\* and each send(cmd, reply) ends with the reply to its command or a failure.
ImplementsRequestReply == Channel!AbsSpec
==============================================================================
