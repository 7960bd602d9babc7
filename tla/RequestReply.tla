---------------------------- MODULE RequestReply ----------------------------
(***************************************************************************)
(* What a control connection promises the code that sends commands on it:  *)
(* calls are made one after another, Tor takes commands in the order of    *)
(* the calls, and every call ends, with Tor's reply to that very command   *)
(* or with a failure.                                                      *)
(***************************************************************************)
EXTENDS Naturals, Sequences

CONSTANT MaxSends   \* bound: how many commands are sent

VARIABLES
    calls,      \* how many calls have been made; the last is the current one
    open,       \* is the current call still waiting
    received,   \* the commands Tor has received
    replies     \* for each call that ended: the command whose reply it
                \* returned, or 0 for a failure

absVars == <<calls, open, received, replies>>

AbsInit == calls = 0 /\ open = FALSE /\ received = {} /\ replies = <<>>

Call ==
    /\ ~open /\ calls < MaxSends
    /\ calls' = calls + 1 /\ open' = TRUE
    /\ UNCHANGED <<received, replies>>

\* A command is received at most once and never after a later one.
Receive ==
    /\ open
    /\ \A c \in received : c < calls
    /\ received' = received \cup {calls}
    /\ UNCHANGED <<calls, open, replies>>

Answered ==
    /\ open /\ calls \in received
    /\ replies' = Append(replies, calls) /\ open' = FALSE
    /\ UNCHANGED <<calls, received>>

Failed ==
    /\ open
    /\ replies' = Append(replies, 0) /\ open' = FALSE
    /\ UNCHANGED <<calls, received>>

AbsNext == Call \/ Receive \/ Answered \/ Failed

\* What may happen, in which order.
AbsSafety == AbsInit /\ [][AbsNext]_absVars

\* Every call ends; a caller may stop calling.
AbsSpec == AbsSafety /\ WF_absVars(Answered \/ Failed)
==============================================================================
