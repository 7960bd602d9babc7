----------------------------- MODULE UPNPControl -----------------------------
(***************************************************************************)
(* Port forwarding of a relay (vidalia/config/UPNPControl.cpp and          *)
(* UPNPControlThread.cpp): the GUI thread sets the desired ports and wakes *)
(* the UPnP thread, which maps them on the router, once per wake-up or per *)
(* minute, and removes them when it is stopped.                            *)
(*                                                                         *)
(* The thread remembers which ports it has mapped and asks the router for  *)
(* the difference.  Every five minutes it forgets the router, and maps the *)
(* desired ports anew without removing others.                             *)
(***************************************************************************)
EXTENDS Naturals

CONSTANTS
    DirPorts,    \* the DirPorts a user may set
    OrPorts,     \* the ORPorts a user may set
    MaxChanges,  \* bound: calls of setDesiredState()
    MaxReboots,  \* bound: how often the router loses its mappings
    MaxRefusals  \* bound: how often a device does not do what it is asked

NoPort == 0

ASSUME ForwardingAssumption ==
    /\ NoPort \notin DirPorts \cup OrPorts
    /\ MaxChanges \in Nat /\ MaxReboots \in Nat /\ MaxRefusals \in Nat

VARIABLES
    gpc,         \* where the GUI thread is
    tpc,         \* where the UPnP thread is
    desired,     \* _forwardedDirPort and _forwardedORPort
    keepRunning, \* _keepRunning
    want,        \* the desired ports that configurePorts() read
    force,       \* its force_init
    have,        \* _dirPort and _orPort: what the thread believes to be mapped
    init,        \* is _upnpInitialized not null
    expired,     \* is _upnpInitialized too old, or in the future
    state,       \* the state that setState() was last given
    mapped,      \* the ports that the router forwards to us
    changes, reboots, refusals, \* counters for the bounds
    unsure       \* history: since the last force_init the router lost its
                 \* mappings, or an update failed

control == <<desired, keepRunning>>
memory == <<want, force, have, init, expired>>
counters == <<changes, reboots, refusals>>
vars == <<gpc, tpc, control, memory, state, mapped, counters, unsure>>

Pair == [dir : DirPorts \cup {NoPort}, or : OrPorts \cup {NoPort}]
Neither == [dir |-> NoPort, or |-> NoPort]
PortsOf(p) == {p.dir, p.or} \ {NoPort}

\* instance() has just started the thread.
Init ==
    /\ gpc = "Idle" /\ tpc = "Read"
    /\ desired = Neither /\ keepRunning = TRUE
    /\ want = Neither /\ force = FALSE /\ have = Neither
    /\ init = FALSE /\ expired = FALSE
    /\ state = "Idle" /\ mapped = {}
    /\ changes = 0 /\ reboots = 0 /\ refusals = 0
    /\ unsure = FALSE

------------------------------------------------------------------------------
(* The GUI thread *)

\* setDesiredState(), under _mutex.
SetDesired ==
    /\ gpc = "Idle" /\ changes < MaxChanges
    /\ desired' \in Pair
    /\ gpc' = "Wake" /\ changes' = changes + 1
    /\ UNCHANGED <<tpc, keepRunning, memory, state, mapped, reboots, refusals, unsure>>

\* wakeAll() under _waitMutex: lost on a thread that does not sleep.
Woken == tpc' = IF tpc = "Asleep" THEN "Awake" ELSE tpc

\* wakeup()
WakeUp ==
    /\ gpc = "Wake" /\ gpc' = "Idle"
    /\ Woken
    /\ UNCHANGED <<control, memory, state, mapped, counters, unsure>>

\* cleanup() calls stop(), which asks the thread to stop, wakes it
AskToRun == TRUE
AskToStop == FALSE
Stop ==
    /\ gpc = "Idle" /\ gpc' = "Stopping"
    /\ keepRunning' = AskToStop
    /\ Woken
    /\ UNCHANGED <<desired, memory, state, mapped, counters, unsure>>

\* and waits for it to finish, before cleanup() deletes the object.
ThreadEnded == tpc = "Off"
Delete ==
    /\ gpc = "Stopping" /\ ThreadEnded
    /\ gpc' = "Deleted"
    /\ UNCHANGED <<tpc, control, memory, state, mapped, counters, unsure>>

Gui == SetDesired \/ WakeUp \/ Stop \/ Delete

------------------------------------------------------------------------------
(* The UPnP thread *)

\* What the router may make of a request to remove port o and add port n: the
\* new mappings, and whether both requests succeeded.  A port that is not mapped
\* cannot always be removed; a port that was mapped may still be reported as not
\* mapped.  (Mutants: the old port is kept; the ports are swapped.)
KeepOld(o, n) == {[ok |-> TRUE, mapped |-> (mapped \cup {n}) \ {NoPort}]}
Swapped(o, n) == {[ok |-> TRUE, mapped |-> ((mapped \ {n}) \cup {o}) \ {NoPort}]}
Done(o, n) == {[ok |-> TRUE, mapped |-> ((mapped \ {o}) \cup {n}) \ {NoPort}]}
Refused(o, n) ==
    IF (refusals < MaxRefusals /\ {o, n} # {NoPort}) \/ (o # NoPort /\ o \notin mapped)
    THEN {[ok |-> FALSE, mapped |-> m] :
             m \in {mapped} \cup
                   (IF n = NoPort \/ refusals = MaxRefusals THEN {}
                    ELSE {mapped \ {o}, (mapped \ {o}) \cup {n}})}
    ELSE {}

\* initializeUPNP() sets DiscoverState while it looks for the router.
Progress(o, n, s) == IF init \/ {o, n} = {NoPort} THEN s ELSE "Discover"

\* updatePort(o, n): find the router, if it is not known and there is something to
\* do, then ask it.  Success: what the caller does with a success.
UpdatePort(o, n, Success, Failure) ==
    \/ \E r \in Done(o, n) \cup Refused(o, n) :
          /\ mapped' = r.mapped
          /\ init' = (init \/ {o, n} # {NoPort})
          /\ expired' = (expired /\ init)
          /\ refusals' = IF r.ok \/ refusals = MaxRefusals THEN refusals ELSE refusals + 1
          /\ IF r.ok THEN Success ELSE Failure
    \/ /\ ~init /\ {o, n} # {NoPort} /\ refusals < MaxRefusals
       /\ refusals' = refusals + 1
       /\ Failure
       /\ UNCHANGED <<mapped, init, expired>>

\* configurePorts() reads the desired state and decides if to start anew.
NeverAgain == ~init
MustInit == ~init \/ expired

Read ==
    /\ tpc = "Read" /\ tpc' = "Dir"
    /\ want' = desired /\ force' = MustInit
    /\ init' = (init /\ ~MustInit) /\ expired' = (expired /\ ~MustInit)
    /\ unsure' = (unsure /\ ~MustInit)
    /\ UNCHANGED <<gpc, control, have, state, mapped, counters>>

\* err: setError() and setState(ErrorState)
Fails ==
    /\ tpc' = "Wait" /\ state' = "Error" /\ unsure' = TRUE
    /\ UNCHANGED have

\* The DirPort, and after it the ORPort, if it has changed or force_init is set.
UpdateDir ==
    /\ tpc = "Dir"
    /\ IF want.dir = have.dir /\ ~force
       THEN tpc' = "Or" /\ UNCHANGED <<have, init, expired, state, mapped, refusals, unsure>>
       ELSE UpdatePort(IF force THEN NoPort ELSE have.dir, want.dir,
                       /\ tpc' = "Or" /\ have' = [have EXCEPT !.dir = want.dir]
                       /\ state' = Progress(NoPort, want.dir, "UpdatingDirPort")
                       /\ UNCHANGED unsure,
                       Fails)
    /\ UNCHANGED <<gpc, control, want, force, changes, reboots>>

\* ForwardingCompleteState is the last thing configurePorts() sets.
Complete == tpc' = "Wait" /\ state' = "ForwardingComplete" /\ UNCHANGED unsure

UpdateOr ==
    /\ tpc = "Or"
    /\ IF want.or = have.or /\ ~force
       THEN Complete /\ UNCHANGED <<have, init, expired, mapped, refusals>>
       ELSE UpdatePort(IF force THEN NoPort ELSE have.or, want.or,
                       Complete /\ have' = [have EXCEPT !.or = want.or],
                       Fails)
    /\ UNCHANGED <<gpc, control, want, force, changes, reboots>>

\* run() decides under _waitMutex to sleep or to exit.
Sleep ==
    /\ tpc = "Wait"
    /\ IF keepRunning
       THEN tpc' = "Asleep" /\ state' = "Idle"
       ELSE tpc' = "RemoveDir" /\ UNCHANGED state
    /\ UNCHANGED <<gpc, control, memory, mapped, counters, unsure>>

\* wait() returns after UPNPCONTROL_MAX_WAIT_MSEC.
TimeOut ==
    /\ tpc = "Asleep" /\ tpc' = "Awake"
    /\ UNCHANGED <<gpc, control, memory, state, mapped, counters, unsure>>

Awake ==
    /\ tpc = "Awake"
    /\ tpc' = IF keepRunning THEN "Read" ELSE "RemoveDir"
    /\ UNCHANGED <<gpc, control, memory, state, mapped, counters, unsure>>

\* run() ends with updatePort(_dirPort, 0) and updatePort(_orPort, 0), whatever
\* they return.
RemoveMapping(pc, port, next) ==
    /\ tpc = pc /\ tpc' = next
    /\ UpdatePort(port, NoPort, UNCHANGED unsure, unsure' = TRUE)
    /\ state' = Progress(port, NoPort, state)
    /\ UNCHANGED <<gpc, control, want, force, have, changes, reboots>>

Thread ==
    \/ Read \/ UpdateDir \/ UpdateOr
    \/ Sleep \/ TimeOut \/ Awake
    \/ RemoveMapping("RemoveDir", have.dir, "RemoveOr")
    \/ RemoveMapping("RemoveOr", have.or, "Off")

------------------------------------------------------------------------------
(* Time and the router *)

\* UPNPCONTROL_REINIT_MSEC have passed, or the clock was put back.
Expire ==
    /\ init /\ ~expired /\ expired' = TRUE
    /\ UNCHANGED <<gpc, tpc, control, want, force, have, init, state, mapped,
                   counters, unsure>>

Reboot ==
    /\ reboots < MaxReboots /\ reboots' = reboots + 1
    /\ mapped' = {} /\ unsure' = TRUE
    /\ UNCHANGED <<gpc, tpc, control, memory, state, changes, refusals>>

Terminated == gpc = "Deleted" /\ UNCHANGED vars

Next ==
    \/ Gui
    \/ Thread
    \/ gpc # "Deleted" /\ (Expire \/ Reboot)
    \/ Terminated

\* The thread is scheduled, a wait of a minute and an interval of five come to an
\* end, and the GUI finishes the calls it has begun.
Fairness == WF_vars(Thread) /\ WF_vars(Expire) /\ WF_vars(WakeUp \/ Delete)

Spec == Init /\ [][Next]_vars
FairSpec == Spec /\ Fairness

------------------------------------------------------------------------------
(* Properties *)

\* ForwardingCompleteState is true: the router forwards the ports that were
\* asked for, unless since the last force_init it lost its mappings or refused
\* a request.  This holds if no port is both a DirPort and an ORPort: where the
\* user swaps the two, the ORPort's update removes the DirPort's new mapping ("TODO:
\* Check for switching OR/Dir port").
CompleteIsMapped ==
    tpc = "Wait" /\ state = "ForwardingComplete" /\ ~unsure => PortsOf(want) \subseteq mapped

\* The mappings that the thread does not know of, and will never remove.
Unknown == mapped \ PortsOf(have)

\* An update that replaces one port by another and succeeds leaves no mapping
\* behind; only force_init, and a failure, do.
LeavesNoMapping == [][Unknown' \subseteq Unknown \/ force \/ unsure']_vars

\* Although a wake-up may be lost and the router may forget or refuse, in the
\* end the router forwards the ports that are desired.
Forwards ==
    \A d \in Pair : desired = d ~> PortsOf(d) \subseteq mapped \/ desired # d \/ ~keepRunning

\* cleanup(), which blocks the GUI thread, returns.
StopReturns == gpc = "Stopping" ~> gpc = "Deleted"

==============================================================================
