------------------------ MODULE UPNPControl_proofs ------------------------
(***************************************************************************)
(* Proofs about UPNPControl: "forwarding complete" is true, and no mapping *)
(* is forgotten, for any ports and however often the router reboots or     *)
(* refuses, the desired ports change and wake-ups are lost.                *)
(*                                                                         *)
(* And about RelayPage, which asks for these ports: they are those that    *)
(* Tor listens on, and what was ticked is what Tor lets out and the page   *)
(* shows.                                                                  *)
(***************************************************************************)
EXTENDS UPNPControl, RelayPage, TLAPS

ThreadPlaces == {"Read", "Dir", "Or", "Wait", "Asleep", "Awake",
                 "RemoveDir", "RemoveOr", "Off"}

States == {"Idle", "Discover", "UpdatingDirPort", "ForwardingComplete", "Error"}

TypeOK ==
    /\ gpc \in {"Idle", "Wake", "Stopping", "Deleted"}
    /\ tpc \in ThreadPlaces
    /\ desired \in Pair /\ want \in Pair /\ have \in Pair
    /\ keepRunning \in BOOLEAN /\ force \in BOOLEAN
    /\ init \in BOOLEAN /\ expired \in BOOLEAN
    /\ state \in States
    /\ mapped \subseteq DirPorts \cup OrPorts
    /\ changes \in 0 .. MaxChanges /\ reboots \in 0 .. MaxReboots
    /\ refusals \in 0 .. MaxRefusals
    /\ unsure \in BOOLEAN

\* What the thread believes to be mapped is mapped, but for the ports that a
\* force_init has yet to map anew, until it removes them at its end.
Ending == {"RemoveDir", "RemoveOr", "Off"}
BelievedIsMapped ==
    ~unsure /\ tpc \notin Ending =>
        /\ have.dir # NoPort => have.dir \in mapped \/ (force /\ tpc = "Dir")
        /\ have.or # NoPort => have.or \in mapped \/ (force /\ tpc \in {"Dir", "Or"})

\* How far configurePorts() has come.
WorkDone ==
    /\ tpc = "Or" => have.dir = want.dir
    /\ tpc = "Wait" /\ state = "ForwardingComplete" => have = want

UPnPInv == BelievedIsMapped /\ WorkDone

------------------------------------------------------------------------------
(* Asking the router *)

UPNPPorts == DirPorts \cup OrPorts \cup {NoPort}

\* An answer to the request to replace port o by port n: the router has lost o and
\* gained n, or it refused, and has mapped nothing but what it was asked for.
LEMMA Answers ==
    ASSUME TypeOK, NEW STATE o, o \in UPNPPorts, NEW STATE n, n \in UPNPPorts,
           NEW STATE r, r \in Done(o, n) \cup Refused(o, n)
    PROVE  /\ r.ok \in BOOLEAN
           /\ r.ok => r.mapped = ((mapped \ {o}) \cup {n}) \ {NoPort}
           /\ r.mapped \subseteq DirPorts \cup OrPorts
<1>1. CASE r \in Done(o, n)
  <2>1. r = [ok |-> TRUE, mapped |-> ((mapped \ {o}) \cup {n}) \ {NoPort}]
    BY <1>1 DEF Done
  <2>2. r.ok = TRUE /\ r.mapped = ((mapped \ {o}) \cup {n}) \ {NoPort}
    BY <2>1
  <2> QED BY <2>2 DEF TypeOK, UPNPPorts
<1>2. CASE r \in Refused(o, n)
  <2>1. r.ok = FALSE /\ r.mapped \in {mapped, mapped \ {o}, (mapped \ {o}) \cup {n}}
    BY <1>2 DEF Refused
  <2>2. n = NoPort => r.mapped = mapped
    BY <1>2 DEF Refused
  <2> QED BY <2>1, <2>2 DEF TypeOK, UPNPPorts
<1> QED BY <1>1, <1>2

\* What every request, whatever its answer, leaves of the types.
StepTypes ==
    /\ mapped' \subseteq DirPorts \cup OrPorts
    /\ init' \in BOOLEAN /\ expired' \in BOOLEAN
    /\ refusals' \in 0 .. MaxRefusals

Replaced(o, n) == mapped' = ((mapped \ {o}) \cup {n}) \ {NoPort}

\* The three requests, with what their callers make of success and failure.
LEMMA DirUpdated ==
    ASSUME TypeOK, UpdateDir, ~(want.dir = have.dir /\ ~force), ForwardingAssumption
    PROVE  /\ StepTypes
           /\ \/ /\ tpc' = "Or" /\ have' = [have EXCEPT !.dir = want.dir]
                 /\ state' \in States /\ UNCHANGED unsure
                 /\ Replaced(IF force THEN NoPort ELSE have.dir, want.dir)
              \/ Fails
<1> DEFINE o == IF force THEN NoPort ELSE have.dir
<1>1. o \in UPNPPorts /\ want.dir \in UPNPPorts
  BY DEF TypeOK, Pair, UPNPPorts
<1>2. CASE \E r \in Done(o, want.dir) \cup Refused(o, want.dir) :
              /\ mapped' = r.mapped
              /\ init' = (init \/ {o, want.dir} # {NoPort})
              /\ expired' = (expired /\ init)
              /\ refusals' = IF r.ok \/ refusals = MaxRefusals THEN refusals ELSE refusals + 1
              /\ IF r.ok
                 THEN /\ tpc' = "Or" /\ have' = [have EXCEPT !.dir = want.dir]
                      /\ state' = Progress(NoPort, want.dir, "UpdatingDirPort")
                      /\ UNCHANGED unsure
                 ELSE Fails
  <2>1. PICK r \in Done(o, want.dir) \cup Refused(o, want.dir) :
              /\ mapped' = r.mapped
              /\ init' = (init \/ {o, want.dir} # {NoPort})
              /\ expired' = (expired /\ init)
              /\ refusals' = IF r.ok \/ refusals = MaxRefusals THEN refusals ELSE refusals + 1
              /\ IF r.ok
                 THEN /\ tpc' = "Or" /\ have' = [have EXCEPT !.dir = want.dir]
                      /\ state' = Progress(NoPort, want.dir, "UpdatingDirPort")
                      /\ UNCHANGED unsure
                 ELSE Fails
    BY <1>2
  <2>2. /\ r.ok => Replaced(o, want.dir)
        /\ mapped' \subseteq DirPorts \cup OrPorts
    BY <1>1, <2>1, Answers DEF Replaced
  <2>3. StepTypes
    BY <2>1, <2>2 DEF TypeOK, StepTypes, ForwardingAssumption
  <2>4. CASE r.ok
    BY <2>1, <2>2, <2>3, <2>4 DEF Progress, States
  <2>5. CASE ~r.ok
    BY <2>1, <2>3, <2>5
  <2> QED BY <2>4, <2>5
<1>3. CASE refusals < MaxRefusals /\ refusals' = refusals + 1 /\ Fails
           /\ UNCHANGED <<mapped, init, expired>>
  BY <1>3 DEF TypeOK, StepTypes, ForwardingAssumption
<1> QED BY <1>2, <1>3 DEF UpdateDir, UpdatePort

LEMMA OrUpdated ==
    ASSUME TypeOK, UpdateOr, ~(want.or = have.or /\ ~force), ForwardingAssumption
    PROVE  /\ StepTypes
           /\ \/ /\ Complete /\ have' = [have EXCEPT !.or = want.or]
                 /\ Replaced(IF force THEN NoPort ELSE have.or, want.or)
              \/ Fails
<1> DEFINE o == IF force THEN NoPort ELSE have.or
<1>1. o \in UPNPPorts /\ want.or \in UPNPPorts
  BY DEF TypeOK, Pair, UPNPPorts
<1>2. CASE \E r \in Done(o, want.or) \cup Refused(o, want.or) :
              /\ mapped' = r.mapped
              /\ init' = (init \/ {o, want.or} # {NoPort})
              /\ expired' = (expired /\ init)
              /\ refusals' = IF r.ok \/ refusals = MaxRefusals THEN refusals ELSE refusals + 1
              /\ IF r.ok
                 THEN Complete /\ have' = [have EXCEPT !.or = want.or]
                 ELSE Fails
  BY <1>1, <1>2, Answers DEF TypeOK, StepTypes, Replaced, ForwardingAssumption
<1>3. CASE refusals < MaxRefusals /\ refusals' = refusals + 1 /\ Fails
           /\ UNCHANGED <<mapped, init, expired>>
  BY <1>3 DEF TypeOK, StepTypes, ForwardingAssumption
<1> QED BY <1>2, <1>3 DEF UpdateOr, UpdatePort

LEMMA Removed ==
    ASSUME TypeOK, NEW CONSTANT pc, NEW CONSTANT next, NEW STATE port, port \in UPNPPorts,
           RemoveMapping(pc, port, next), ForwardingAssumption
    PROVE  /\ StepTypes /\ state' \in States
           /\ \/ Replaced(port, NoPort) /\ UNCHANGED unsure
              \/ unsure' = TRUE
<1>1. NoPort \in UPNPPorts
  BY DEF UPNPPorts
<1>2. state' \in States
  BY DEF RemoveMapping, Progress, TypeOK, States
<1>3. CASE \E r \in Done(port, NoPort) \cup Refused(port, NoPort) :
              /\ mapped' = r.mapped
              /\ init' = (init \/ {port, NoPort} # {NoPort})
              /\ expired' = (expired /\ init)
              /\ refusals' = IF r.ok \/ refusals = MaxRefusals THEN refusals ELSE refusals + 1
              /\ IF r.ok THEN UNCHANGED unsure ELSE unsure' = TRUE
  BY <1>1, <1>2, <1>3, Answers DEF TypeOK, StepTypes, Replaced, ForwardingAssumption
<1>4. CASE refusals < MaxRefusals /\ refusals' = refusals + 1 /\ unsure' = TRUE
           /\ UNCHANGED <<mapped, init, expired>>
  BY <1>2, <1>4 DEF TypeOK, StepTypes, ForwardingAssumption
<1> QED BY <1>3, <1>4 DEF RemoveMapping, UpdatePort

------------------------------------------------------------------------------
(* Types *)

LEMMA StepTypeOK == TypeOK /\ [Next]_vars => TypeOK'
<1> SUFFICES ASSUME TypeOK, [Next]_vars PROVE TypeOK'
  OBVIOUS
<1> USE ForwardingAssumption
<1>1. CASE SetDesired
  BY <1>1 DEF SetDesired, TypeOK, memory, States, ThreadPlaces
<1>2. CASE WakeUp \/ Stop
  BY <1>2 DEF WakeUp, Stop, Woken, AskToStop, TypeOK, control, memory, counters, States, ThreadPlaces
<1>3. CASE Delete
  BY <1>3 DEF Delete, TypeOK, control, memory, counters, States, ThreadPlaces
<1>4. CASE Read
  BY <1>4 DEF Read, MustInit, TypeOK, control, counters, States, ThreadPlaces
<1>5. CASE UpdateDir
  <2>1. CASE want.dir = have.dir /\ ~force
    BY <1>5, <2>1 DEF UpdateDir, TypeOK, control, States, ThreadPlaces
  <2>2. CASE ~(want.dir = have.dir /\ ~force)
    <3>1. [have EXCEPT !.dir = want.dir] \in Pair
      BY DEF TypeOK, Pair
    <3>2. /\ StepTypes /\ have' \in Pair
          /\ tpc' \in {"Or", "Wait"} /\ state' \in States /\ unsure' \in BOOLEAN
      BY <1>5, <2>2, <3>1, DirUpdated DEF Fails, TypeOK, States
    <3> QED BY <1>5, <3>2 DEF UpdateDir, StepTypes, TypeOK, control, ThreadPlaces
  <2> QED BY <2>1, <2>2
<1>6. CASE UpdateOr
  <2>1. CASE want.or = have.or /\ ~force
    BY <1>6, <2>1 DEF UpdateOr, Complete, TypeOK, control, States, ThreadPlaces
  <2>2. CASE ~(want.or = have.or /\ ~force)
    <3>1. [have EXCEPT !.or = want.or] \in Pair
      BY DEF TypeOK, Pair
    <3>2. /\ StepTypes /\ have' \in Pair
          /\ tpc' = "Wait" /\ state' \in States /\ unsure' \in BOOLEAN
      BY <1>6, <2>2, <3>1, OrUpdated DEF Fails, Complete, TypeOK, States
    <3> QED BY <1>6, <3>2 DEF UpdateOr, StepTypes, TypeOK, control, ThreadPlaces
  <2> QED BY <2>1, <2>2
<1>7. CASE Sleep \/ TimeOut \/ Awake
  BY <1>7 DEF Sleep, TimeOut, Awake, TypeOK, control, memory, counters, States, ThreadPlaces
<1>8. ASSUME NEW pc \in ThreadPlaces, NEW next \in ThreadPlaces,
             NEW STATE port, port \in UPNPPorts, RemoveMapping(pc, port, next)
      PROVE  TypeOK'
  <2>1. StepTypes /\ state' \in States /\ unsure' \in BOOLEAN
    BY <1>8, Removed DEF TypeOK
  <2> QED BY <1>8, <2>1 DEF RemoveMapping, StepTypes, TypeOK, control
<1>9. CASE RemoveMapping("RemoveDir", have.dir, "RemoveOr") \/ RemoveMapping("RemoveOr", have.or, "Off")
  <2>1. have.dir \in UPNPPorts /\ have.or \in UPNPPorts
    BY DEF TypeOK, Pair, UPNPPorts
  <2> QED BY <1>8, <1>9, <2>1 DEF ThreadPlaces
<1>10. CASE Expire
  BY <1>10 DEF Expire, TypeOK, control, counters
<1>11. CASE Reboot
  <2>1. reboots' \in 0 .. MaxReboots
    BY <1>11 DEF Reboot, TypeOK
  <2> QED BY <1>11, <2>1 DEF Reboot, TypeOK, control, memory
<1>12. CASE UNCHANGED vars
  BY <1>12 DEF vars, TypeOK, control, memory, counters
<1> QED
  BY <1>1, <1>2, <1>3, <1>4, <1>5, <1>6, <1>7, <1>9, <1>10, <1>11, <1>12
     DEF Next, Gui, Thread, Terminated

LEMMA InitUPnP == Init => TypeOK /\ UPnPInv
<1> SUFFICES ASSUME Init PROVE TypeOK /\ UPnPInv
  OBVIOUS
<1>1. Neither \in Pair /\ Neither.dir = NoPort /\ Neither.or = NoPort
  BY DEF Neither, Pair
<1>2. /\ changes \in 0 .. MaxChanges /\ reboots \in 0 .. MaxReboots
      /\ refusals \in 0 .. MaxRefusals
  BY ForwardingAssumption DEF Init
<1>3. TypeOK
  BY <1>1, <1>2 DEF Init, TypeOK, States, ThreadPlaces
<1> QED BY <1>1, <1>3 DEF Init, UPnPInv, BelievedIsMapped, WorkDone

\* Every variable of the forwarding keeps its type.
THEOREM UPNPTypeCorrect == Spec => []TypeOK
<1>1. Init => TypeOK
  BY InitUPnP
<1>2. TypeOK /\ [Next]_vars => TypeOK'
  BY StepTypeOK
<1> QED BY <1>1, <1>2, PTL DEF Spec

------------------------------------------------------------------------------
(* "Forwarding complete" *)

\* No port is both a DirPort and an ORPort.  Without this the update of the one
\* can remove the mapping that the update of the other has just made.
Apart == DirPorts \cap OrPorts = {}

LEMMA StepUPnPInv ==
    ASSUME Apart, TypeOK, UPnPInv, [Next]_vars
    PROVE  UPnPInv'
<1> USE ForwardingAssumption
<1> HIDE DEF Apart
<1>1. CASE SetDesired \/ WakeUp \/ Stop \/ Delete
  BY <1>1 DEF SetDesired, WakeUp, Stop, Delete, Woken, UPnPInv, BelievedIsMapped, WorkDone,
              control, memory, counters, Ending
<1>2. CASE Read
  BY <1>2 DEF Read, UPnPInv, BelievedIsMapped, WorkDone, Ending, MustInit, TypeOK
<1>3. CASE UpdateDir
  <2>1. CASE want.dir = have.dir /\ ~force
    BY <1>3, <2>1 DEF UpdateDir, UPnPInv, BelievedIsMapped, WorkDone, Ending
  <2>2. CASE ~(want.dir = have.dir /\ ~force)
    <3>1. CASE Fails
      BY <1>3, <3>1 DEF Fails, UpdateDir, UPnPInv, BelievedIsMapped, WorkDone
    <3>2. CASE /\ tpc' = "Or" /\ have' = [have EXCEPT !.dir = want.dir]
               /\ UNCHANGED unsure
               /\ Replaced(IF force THEN NoPort ELSE have.dir, want.dir)
      <4>1. have'.dir = want.dir /\ have'.or = have.or /\ want' = want /\ force' = force
            /\ tpc = "Dir"
        BY <1>3, <3>2 DEF UpdateDir, TypeOK, Pair
      <4>2. ~unsure /\ have.or # NoPort => have.or \in mapped' \/ force
        BY <3>2, <4>1 DEF Replaced, UPnPInv, BelievedIsMapped, Ending, TypeOK, Pair, Apart
      <4>3. want.dir # NoPort => want.dir \in mapped'
        BY <3>2 DEF Replaced
      <4> QED BY <3>2, <4>1, <4>2, <4>3 DEF UPnPInv, BelievedIsMapped, WorkDone
    <3> QED BY <1>3, <2>2, <3>1, <3>2, DirUpdated
  <2> QED BY <2>1, <2>2
<1>4. CASE UpdateOr
  <2>1. CASE want.or = have.or /\ ~force
    BY <1>4, <2>1 DEF UpdateOr, Complete, UPnPInv, BelievedIsMapped, WorkDone, Ending, TypeOK, Pair
  <2>2. CASE ~(want.or = have.or /\ ~force)
    <3>1. CASE Fails
      BY <1>4, <3>1 DEF Fails, UpdateOr, UPnPInv, BelievedIsMapped, WorkDone
    <3>2. CASE /\ Complete /\ have' = [have EXCEPT !.or = want.or]
               /\ Replaced(IF force THEN NoPort ELSE have.or, want.or)
      <4>1. have'.dir = have.dir /\ have'.or = want.or /\ want' = want /\ force' = force
            /\ tpc = "Or" /\ tpc' = "Wait" /\ unsure' = unsure /\ have' = want
        BY <1>4, <3>2 DEF UpdateOr, Complete, UPnPInv, WorkDone, TypeOK, Pair
      <4>2. ~unsure /\ have.dir # NoPort => have.dir \in mapped'
        BY <3>2, <4>1 DEF Replaced, UPnPInv, BelievedIsMapped, Ending, TypeOK, Pair, Apart
      <4>3. want.or # NoPort => want.or \in mapped'
        BY <3>2 DEF Replaced
      <4> QED BY <4>1, <4>2, <4>3 DEF UPnPInv, BelievedIsMapped, WorkDone
    <3> QED BY <1>4, <2>2, <3>1, <3>2, OrUpdated
  <2> QED BY <2>1, <2>2
<1>5. CASE Sleep \/ TimeOut \/ Awake
  BY <1>5 DEF Sleep, TimeOut, Awake, UPnPInv, BelievedIsMapped, WorkDone, control, memory,
              counters, Ending
<1>6. CASE RemoveMapping("RemoveDir", have.dir, "RemoveOr") \/ RemoveMapping("RemoveOr", have.or, "Off")
  BY <1>6 DEF RemoveMapping, UPnPInv, BelievedIsMapped, WorkDone, Ending
<1>7. CASE Expire \/ Reboot
  BY <1>7 DEF Expire, Reboot, UPnPInv, BelievedIsMapped, WorkDone, control, memory, counters, Ending
<1>8. CASE UNCHANGED vars
  BY <1>8 DEF vars, UPnPInv, BelievedIsMapped, WorkDone, control, memory, counters
<1> QED
  BY <1>1, <1>2, <1>3, <1>4, <1>5, <1>6, <1>7, <1>8 DEF Next, Gui, Thread, Terminated

LEMMA UPnPInvImplies == TypeOK /\ UPnPInv => CompleteIsMapped
BY DEF TypeOK, UPnPInv, BelievedIsMapped, WorkDone, Ending, CompleteIsMapped, PortsOf

\* When configurePorts() ends in ForwardingCompleteState, the router forwards the
\* ports that it was asked for, unless since the last force_init the router lost
\* its mappings or an update failed.
THEOREM CompleteMapped ==
    ASSUME Apart
    PROVE  Spec => []CompleteIsMapped
<1>1. Init => TypeOK /\ UPnPInv
  BY InitUPnP
<1>2. TypeOK /\ UPnPInv /\ [Next]_vars => (TypeOK /\ UPnPInv)'
  BY Apart, StepTypeOK, StepUPnPInv
<1>3. TypeOK /\ UPnPInv => CompleteIsMapped
  BY UPnPInvImplies
<1> QED BY <1>1, <1>2, <1>3, PTL DEF Spec

------------------------------------------------------------------------------
(* No mapping is left behind *)

LEMMA StepLeavesNothing ==
    TypeOK /\ [Next]_vars => [Unknown' \subseteq Unknown \/ force \/ unsure']_vars
<1> SUFFICES ASSUME TypeOK, Next, ~force, ~unsure'
             PROVE  Unknown' \subseteq Unknown
  BY DEF TypeOK
<1> USE ForwardingAssumption
<1>1. CASE UpdateDir /\ ~(want.dir = have.dir /\ ~force)
  <2>1. /\ have' = [have EXCEPT !.dir = want.dir]
        /\ Replaced(have.dir, want.dir)
    BY <1>1, DirUpdated DEF Fails
  <2>2. have'.dir = want.dir /\ have'.or = have.or
    BY <2>1 DEF TypeOK, Pair
  <2> QED BY <2>1, <2>2 DEF Replaced, Unknown, PortsOf
<1>2. CASE UpdateOr /\ ~(want.or = have.or /\ ~force)
  <2>1. /\ have' = [have EXCEPT !.or = want.or]
        /\ Replaced(have.or, want.or)
    BY <1>2, OrUpdated DEF Fails
  <2>2. have'.dir = have.dir /\ have'.or = want.or
    BY <2>1 DEF TypeOK, Pair
  <2> QED BY <2>1, <2>2 DEF Replaced, Unknown, PortsOf
<1>3. CASE RemoveMapping("RemoveDir", have.dir, "RemoveOr") \/ RemoveMapping("RemoveOr", have.or, "Off")
  <2>1. have.dir \in UPNPPorts /\ have.or \in UPNPPorts
    BY DEF TypeOK, Pair, UPNPPorts
  <2>2. Replaced(have.dir, NoPort) \/ Replaced(have.or, NoPort)
    BY <1>3, <2>1, Removed
  <2>3. have' = have
    BY <1>3 DEF RemoveMapping
  <2> QED BY <2>2, <2>3 DEF Replaced, Unknown, PortsOf
<1>4. CASE Reboot
  BY <1>4 DEF Reboot
<1>5. ASSUME UNCHANGED <<have, mapped>> PROVE Unknown' \subseteq Unknown
  BY <1>5 DEF Unknown, PortsOf
<1>6. CASE \/ UpdateDir /\ want.dir = have.dir /\ ~force
           \/ UpdateOr /\ want.or = have.or /\ ~force
  BY <1>5, <1>6 DEF UpdateDir, UpdateOr
<1>7. CASE SetDesired \/ WakeUp \/ Stop \/ Delete \/ Terminated
  BY <1>5, <1>7 DEF SetDesired, WakeUp, Stop, Delete, Terminated, vars, memory
<1>8. CASE Read \/ Sleep \/ TimeOut \/ Awake \/ Expire
  BY <1>5, <1>8 DEF Read, Sleep, TimeOut, Awake, Expire, memory
<1> QED
  BY <1>1, <1>2, <1>3, <1>4, <1>6, <1>7, <1>8 DEF Next, Gui, Thread

\* An update that replaces one port by another and succeeds, and the removal of the
\* ports at the thread's end, leave no mapping that the thread does not know of,
\* whatever ports the user sets, the same for both included.
THEOREM NoMappingLeft == Spec => LeavesNoMapping
<1>1. TypeOK /\ [Next]_vars => [Unknown' \subseteq Unknown \/ force \/ unsure']_vars
  BY StepLeavesNothing
<1> QED BY <1>1, UPNPTypeCorrect, PTL DEF Spec, LeavesNoMapping

------------------------------------------------------------------------------
(* The ports that the page for relays wants to have forwarded (module RelayPage) *)

Lines == PortNumbers \cup {Empty}
Pages == [mode : Modes, line : Lines, mirror : BOOLEAN, boxes : SUBSET Boxes,
          rate : 1 .. 6, avg : Nat, burst : Nat, upnp : BOOLEAN]
Memories == [line : Lines, mirror : BOOLEAN]
PortPairs == [or : BOOLEAN, dir : PortNumbers]

\* Settings, and what Tor runs with, but for the policies.
SettingsType(S) ==
    /\ S.enabled \in BOOLEAN /\ S.bridge \in BOOLEAN /\ S.mirror \in BOOLEAN /\ S.upnp \in BOOLEAN
    /\ S.dirport \in PortNumbers /\ S.avg \in Nat /\ S.burst \in Nat
ConfType(t) ==
    /\ t.server \in BOOLEAN /\ t.bridge \in BOOLEAN
    /\ t.dirport \in PortNumbers /\ t.avg \in Nat /\ t.burst \in Nat

\* The state has its types.
PageType(p, t) == p \in Pages /\ t \in Memories
RelayType ==
    /\ link \in {"Down", "Authed"} /\ changed \in BOOLEAN
    /\ SettingsType(stored) /\ ConfType(tor) /\ PageType(page, tmp)
    /\ ports \in PortPairs /\ test \in PortPairs \cup {None}
    /\ stale \in BOOLEAN

\* Settings that wait for nothing, and ask for ports, are those that Tor runs with.
Running == ~changed /\ stored.upnp => tor = Wanted(stored)

\* The ports that are forwarded, once a test dialog that is open has brought them back, are
\* those that Tor listens on.
AsTor(t) == [or |-> t.server, dir |-> t.dirport]
BroughtBack ==
    link = "Authed" /\ stored.upnp /\ ~changed /\ ~stale =>
        (IF test = None THEN ports ELSE test) = AsTor(tor)

RelayInv == RelayType /\ Running /\ BroughtBack

------------------------------------------------------------------------------
(* Settings and widgets *)

LEMMA EmptyIs == Empty \in Int /\ Empty = -1
BY DEF Empty

LEMMA NoneIsNoPorts == None \notin PortPairs
BY DEF None, PortPairs

LEMMA ZeroIs == 0 \in PortNumbers
BY DEF PortNumbers

LEMMA NumberIs == ASSUME NEW line \in Lines PROVE Number(line) \in PortNumbers
BY EmptyIs DEF Lines, Number, PortNumbers

LEMMA PresetsAre ==
    /\ Custom = 6 /\ DOMAIN Presets = 1 .. 5
    /\ \A i \in 1 .. 5 : Presets[i][1] \in Nat /\ Presets[i][2] \in Nat
BY DEF Presets, Custom

LEMMA BoxesAre == ASSUME NEW policy PROVE BoxesOf(policy) \in SUBSET Boxes
BY DEF BoxesOf, Boxes

LEMMA DefaultsType == SettingsType(Defaults) /\ ConfType(TorDefault)
BY DEF SettingsType, ConfType, Defaults, TorDefault, PortNumbers

LEMMA WantedType == ASSUME NEW S, SettingsType(S) PROVE ConfType(Wanted(S))
<1>1. CASE ~S.enabled
  BY <1>1, DefaultsType DEF Wanted
<1>2. CASE S.enabled
  <2>1. Wanted(S) = ConfValues(S)
    BY <1>2 DEF Wanted
  <2>2. PICK t : t = Wanted(S)
    OBVIOUS
  <2>3. /\ t.server = TRUE /\ t.bridge = S.bridge /\ t.avg = S.avg /\ t.burst = S.burst
        /\ t.dirport = IF S.mirror THEN S.dirport ELSE 0
    BY <2>1, <2>2 DEF ConfValues
  <2> QED BY <2>2, <2>3, ZeroIs DEF SettingsType, ConfType
<1> QED BY <1>1, <1>2

LEMMA RatesFixedType == ASSUME NEW p \in Pages PROVE RatesFixed(p) \in Pages
<1>1. p.avg \in Nat /\ p.burst \in Nat
  BY DEF Pages
<1>2. PICK a : a = IF p.avg < MinRate THEN MinRate
                   ELSE IF p.avg > MaxRate THEN MaxRate ELSE p.avg
  OBVIOUS
<1>3. PICK low : low = IF p.avg > p.burst THEN p.avg ELSE p.burst
  OBVIOUS
<1>4. PICK b : b = IF p.burst > MaxRate THEN MaxRate ELSE low
  OBVIOUS
<1>5. a \in Nat /\ b \in Nat
  BY <1>1, <1>2, <1>3, <1>4 DEF MinRate, MaxRate
<1>6. RatesFixed(p) = [p EXCEPT !.avg = a, !.burst = b]
  BY <1>2, <1>3, <1>4 DEF RatesFixed, Pages
<1> QED BY <1>5, <1>6 DEF Pages

\* save()
LEMMA SavedType ==
    ASSUME NEW p \in Pages, NEW S, SettingsType(S)
    PROVE  SettingsType(Saved(RatesComplete(p), S))
<1>1. PICK q : q = RatesFixed(p)
  OBVIOUS
<1>2. q \in Pages
  BY <1>1, RatesFixedType
<1>3. PICK r : r = RatesComplete(p)
  OBVIOUS
<1>4. r \in Pages
  BY <1>1, <1>2, <1>3 DEF RatesComplete, Pages
<1>5. PICK s : s = RateSaved(r)
  OBVIOUS
<1>6. s[1] \in Nat /\ s[2] \in Nat
  <2>1. CASE r.rate = Custom
    BY <1>4, <1>5, <2>1 DEF RateSaved, Pages
  <2>2. CASE r.rate # Custom
    <3>1. r.rate \in 1 .. 5
      BY <1>4, <2>2, PresetsAre DEF Pages
    <3> QED BY <1>5, <2>2, <3>1, PresetsAre DEF RateSaved
  <2> QED BY <2>1, <2>2
<1>7. Number(r.line) \in PortNumbers /\ r.mirror \in BOOLEAN /\ r.upnp \in BOOLEAN
  BY <1>4, NumberIs DEF Pages
<1>8. PICK d : d = IF r.mode = "bridge" THEN S.dirport ELSE Number(r.line)
  OBVIOUS
<1>9. d \in PortNumbers
  BY <1>7, <1>8 DEF SettingsType
<1>10. PICK T : T = Saved(r, S)
  OBVIOUS
<1>11. /\ T.enabled = (r.mode # "client") /\ T.bridge = (r.mode = "bridge")
       /\ T.mirror = (r.mode # "bridge" /\ r.mirror) /\ T.upnp = r.upnp
       /\ T.dirport = d /\ T.avg = s[1] /\ T.burst = s[2]
  BY <1>5, <1>8, <1>10 DEF Saved
<1>12. T.enabled \in BOOLEAN /\ T.bridge \in BOOLEAN /\ T.mirror \in BOOLEAN /\ T.upnp \in BOOLEAN
  BY <1>7, <1>11
<1>13. SettingsType(T)
  BY <1>6, <1>9, <1>11, <1>12 DEF SettingsType
<1> QED BY <1>3, <1>10, <1>13

\* load()
LEMMA LoadsType ==
    ASSUME PageType(page, tmp), NEW enabled, NEW bridge, NEW d \in PortNumbers, NEW conf,
           NEW a \in Nat, NEW b \in Nat, NEW S, S.mirror \in BOOLEAN, S.upnp \in BOOLEAN,
           Loads(enabled, bridge, d, conf, a, b, S)
    PROVE  PageType(page', tmp')
<1>1. PICK policy : policy = Parsed(conf)
  OBVIOUS
<1>2. PICK mode : mode = ModeOf(enabled, bridge, policy)
  OBVIOUS
<1>3. mode \in Modes
  BY <1>2 DEF ModeOf, Modes
<1>4. PICK rate : rate = RateOf(a, b)
  OBVIOUS
<1>5. rate \in 1 .. 6
  <2>1. PICK known : known = {i \in DOMAIN Presets : Presets[i] = <<a, b>>}
    OBVIOUS
  <2>2. rate = IF known = {} THEN Custom ELSE CHOOSE i \in known : TRUE
    BY <1>4, <2>1 DEF RateOf
  <2>3. known \subseteq 1 .. 5
    BY <2>1, PresetsAre
  <2>4. CASE known = {}
    BY <2>2, <2>4, PresetsAre
  <2>5. CASE known # {}
    <3>1. rate \in known
      BY <2>2, <2>5
    <3> QED BY <2>3, <3>1
  <2> QED BY <2>4, <2>5
<1>6. PICK boxes : boxes = BoxesOf(policy)
  OBVIOUS
<1>7. boxes \in SUBSET Boxes
  BY <1>6, BoxesAre
<1>8. /\ page' = [mode |-> mode, line |-> d, mirror |-> S.mirror, boxes |-> boxes,
                  rate |-> rate, avg |-> a, burst |-> b, upnp |-> S.upnp]
      /\ tmp' = IF mode = page.mode THEN tmp ELSE Remembered(page, tmp, mode)
  BY <1>1, <1>2, <1>4, <1>6 DEF Loads
<1>9. page' \in Pages
  BY <1>3, <1>5, <1>7, <1>8 DEF Pages, Lines
<1>10. tmp' \in Memories
  BY <1>8 DEF PageType, Remembered, Pages, Memories
<1> QED BY <1>9, <1>10 DEF PageType
------------------------------------------------------------------------------
(* Forwarding *)

LEMMA ForwardedType ==
    ASSUME NEW old \in PortPairs, NEW S, NEW enabled \in BOOLEAN, NEW d \in PortNumbers
    PROVE  Forwarded(old, S, enabled, d) \in PortPairs
<1>1. PICK e : e = IF enabled /\ S.mirror THEN d ELSE 0
  OBVIOUS
<1>2. e \in PortNumbers
  BY <1>1, ZeroIs
<1>3. Forwarded(old, S, enabled, d) = IF S.upnp THEN [or |-> enabled, dir |-> e] ELSE old
  BY <1>1 DEF Forwarded
<1> QED BY <1>2, <1>3 DEF PortPairs

\* The ports of settings that Tor is given are those that it listens on.
LEMMA ForwardedAsWanted ==
    ASSUME NEW old, NEW S, SettingsType(S), S.upnp
    PROVE  Forwarded(old, S, S.enabled, S.dirport) = AsTor(Wanted(S))
<1>1. CASE S.enabled
  <2>1. PICK t : t = Wanted(S)
    OBVIOUS
  <2>2. t.server = TRUE /\ t.dirport = IF S.mirror THEN S.dirport ELSE 0
    BY <1>1, <2>1 DEF Wanted, ConfValues
  <2>3. S.enabled = TRUE
    BY <1>1 DEF SettingsType
  <2> QED BY <2>1, <2>2, <2>3 DEF Forwarded, AsTor
<1>2. CASE ~S.enabled
  <2>1. S.enabled = FALSE /\ Wanted(S) = TorDefault
    BY <1>2 DEF SettingsType, Wanted
  <2>2. PICK t : t = Wanted(S)
    OBVIOUS
  <2>3. t.server = FALSE /\ t.dirport = 0
    BY <2>1, <2>2 DEF TorDefault
  <2>4. Forwarded(old, S, S.enabled, S.dirport) = [or |-> FALSE, dir |-> 0]
    BY <2>1 DEF Forwarded
  <2> QED BY <2>2, <2>3, <2>4 DEF AsTor
<1> QED BY <1>1, <1>2

\* MainWindow::authenticated() asks the same of a Tor that runs with the settings.
LEMMA ForwardedAsRunning ==
    ASSUME SettingsType(stored'), ConfType(tor'), changed' \in BOOLEAN, NEW old \in PortPairs
    PROVE  /\ ForwardRunning(old) \in PortPairs
           /\ stored'.upnp /\ ~changed' /\ tor' = Wanted(stored') =>
                  ForwardRunning(old) = AsTor(tor')
<1>1. PICK S : S = stored'
  OBVIOUS
<1>2. PICK t : t = tor'
  OBVIOUS
<1>3. SettingsType(S) /\ ConfType(t)
  BY <1>1, <1>2
<1>4. PICK enabled : enabled = IF ~changed' THEN t.server ELSE S.enabled
  OBVIOUS
<1>5. PICK d : d = IF ~changed' /\ t.dirport # 0 THEN t.dirport ELSE S.dirport
  OBVIOUS
<1>6. ForwardRunning(old) = Forwarded(old, S, enabled, d)
  BY <1>1, <1>2, <1>4, <1>5 DEF ForwardRunning
<1>7. enabled \in BOOLEAN /\ d \in PortNumbers
  BY <1>3, <1>4, <1>5 DEF SettingsType, ConfType
<1>8. ForwardRunning(old) \in PortPairs
  BY <1>6, <1>7, ForwardedType
<1>9. ASSUME S.upnp, ~changed', t = Wanted(S)
      PROVE  Forwarded(old, S, enabled, d) = AsTor(t)
  <2>1. enabled = t.server /\ d = IF t.dirport # 0 THEN t.dirport ELSE S.dirport
    BY <1>4, <1>5, <1>9
  <2>2. CASE S.enabled
    <3>1. t.server = TRUE /\ t.dirport = IF S.mirror THEN S.dirport ELSE 0
      BY <1>9, <2>2 DEF Wanted, ConfValues
    <3> QED BY <1>9, <2>1, <3>1 DEF Forwarded, AsTor
  <2>3. CASE ~S.enabled
    <3>1. t.server = FALSE /\ t.dirport = 0
      BY <1>9, <2>3 DEF Wanted, TorDefault
    <3> QED BY <1>9, <2>1, <3>1 DEF Forwarded, AsTor
  <2> QED BY <2>2, <2>3
<1> QED BY <1>1, <1>2, <1>6, <1>8, <1>9

------------------------------------------------------------------------------
(* Steps *)

LEMMA InitRelay == RelayInit => RelayInv
<1> SUFFICES ASSUME RelayInit PROVE RelayInv
  OBVIOUS
<1>1. /\ link = "Down" /\ tor = TorDefault /\ stored = Defaults /\ changed = FALSE
      /\ ports = NoPorts /\ test = None /\ stale = FALSE
      /\ page = [mode |-> "client", line |-> Empty, mirror |-> FALSE, boxes |-> {},
                 rate |-> 1, avg |-> 0, burst |-> 0, upnp |-> FALSE]
      /\ tmp = [line |-> 9030, mirror |-> TRUE]
  BY DEF RelayInit
<1>2. SettingsType(stored) /\ ConfType(tor)
  BY <1>1, DefaultsType
<1>3. ports \in PortPairs
  BY <1>1 DEF NoPorts, PortPairs, PortNumbers
<1>4. page \in Pages
  BY <1>1 DEF Pages, Lines, Modes
<1>5. tmp \in Memories
  BY <1>1 DEF Memories, Lines, PortNumbers
<1>6. RelayType
  <2>1. link \in {"Down", "Authed"} /\ changed \in BOOLEAN /\ stale \in BOOLEAN
        /\ test \in PortPairs \cup {None}
    <3>1. link = "Down" /\ changed = FALSE /\ stale = FALSE /\ test = None
      BY <1>1
    <3> QED BY <3>1
  <2>2. PageType(page, tmp)
    BY <1>4, <1>5 DEF PageType
  <2> QED BY <1>2, <1>3, <2>1, <2>2 DEF RelayType
<1>7. stored.upnp = FALSE
  BY <1>1 DEF Defaults
<1> QED BY <1>6, <1>7 DEF RelayInv, Running, BroughtBack

\* A step of the page alone.
LEMMA PageStays ==
    ASSUME RelayInv, PageType(page', tmp'), UNCHANGED <<link, tor, stored, changed, ports, test, stale>>
    PROVE  RelayInv'
<1>1. RelayType'
  BY DEF RelayInv, RelayType
<1>2. Running' /\ BroughtBack'
  BY DEF RelayInv, Running, BroughtBack
<1> QED BY <1>1, <1>2 DEF RelayInv

LEMMA ShowWindowStep == ASSUME RelayInv, ShowWindow PROVE RelayInv'
<1>1. UNCHANGED <<link, tor, stored, changed, ports, test, stale>>
  BY DEF ShowWindow
<1>2. SettingsType(stored) /\ ConfType(tor) /\ PageType(page, tmp)
  BY DEF RelayInv, RelayType
<1>3. PICK d : d = Value("dirport")
  OBVIOUS
<1>4. PICK a : a = Value("avg")
  OBVIOUS
<1>5. PICK b : b = Value("burst")
  OBVIOUS
<1>6. d \in PortNumbers /\ a \in Nat /\ b \in Nat
  BY <1>2, <1>3, <1>4, <1>5 DEF Value, SettingsType, ConfType
<1>7. PICK conf : conf = Value("policy")
  OBVIOUS
<1>8. Loads(ServerEnabled, BridgeEnabled, d, conf, a, b, stored)
  BY <1>3, <1>4, <1>5, <1>7 DEF ShowWindow
<1>9. stored.mirror \in BOOLEAN /\ stored.upnp \in BOOLEAN
  BY <1>2 DEF SettingsType
<1>10. PageType(page', tmp')
  BY <1>2, <1>6, <1>8, <1>9, LoadsType
<1> QED BY <1>1, <1>10, PageStays

LEMMA EditSteps ==
    ASSUME RelayInv, ChooseMode \/ EditPage \/ EditRate
    PROVE  RelayInv'
<1>1. UNCHANGED <<link, tor, stored, changed, ports, test, stale>>
  BY DEF ChooseMode, EditPage, EditRate, Editing
<1>2. page \in Pages /\ tmp \in Memories
  BY DEF RelayInv, RelayType, PageType
<1>3. CASE ChooseMode
  <2>1. PICK mode \in Modes : /\ page' = Switched(page, tmp, mode)
                                    /\ tmp' = Remembered(page, tmp, mode)
    BY <1>3 DEF ChooseMode
  <2>2. tmp' \in Memories
    BY <1>2, <2>1 DEF Remembered, Pages, Memories
  <2>3. page' \in Pages
    <3>1. PICK p : p = [page EXCEPT !.mode = mode]
      OBVIOUS
    <3>2. p \in Pages
      BY <1>2, <2>1, <3>1 DEF Pages
    <3>3. CASE mode = "bridge"
      <4>1. page' = [p EXCEPT !.line = Empty, !.mirror = FALSE]
        BY <2>1, <3>1, <3>3 DEF Switched, ForBridge
      <4> QED BY <3>2, <4>1 DEF Pages, Lines
    <3>4. CASE mode # "bridge"
      <4>1. page' = [page EXCEPT !.mode = mode, !.line = tmp.line, !.mirror = tmp.mirror]
        BY <2>1, <3>4 DEF Switched
      <4> QED BY <1>2, <2>1, <4>1 DEF Pages, Memories
    <3> QED BY <3>3, <3>4
  <2> QED BY <1>1, <2>2, <2>3, PageStays DEF PageType
<1>4. CASE EditPage
  <2>1. UNCHANGED tmp
    BY <1>4 DEF EditPage
  <2>2. \/ page' = [page EXCEPT !.mirror = ~page.mirror]
        \/ \E d \in DirLines \cup {Empty} : page' = [page EXCEPT !.line = d]
        \/ \E b \in BoxSets : page' = [page EXCEPT !.boxes = b]
        \/ \E i \in Entries : page' = [page EXCEPT !.rate = i]
        \/ page' = [page EXCEPT !.upnp = ~page.upnp]
    BY <1>4 DEF EditPage
  <2>3. page' \in Pages
    <3>1. CASE page' = [page EXCEPT !.mirror = ~page.mirror]
      BY <1>2, <3>1 DEF Pages
    <3>2. CASE \E d \in DirLines \cup {Empty} : page' = [page EXCEPT !.line = d]
      <4>1. PICK d \in DirLines \cup {Empty} : page' = [page EXCEPT !.line = d]
        BY <3>2
      <4>2. d \in Lines
        BY RelayAssumption DEF Lines
      <4> QED BY <1>2, <4>1, <4>2 DEF Pages
    <3>3. CASE \E b \in BoxSets : page' = [page EXCEPT !.boxes = b]
      <4>1. PICK b \in SUBSET Boxes : page' = [page EXCEPT !.boxes = b]
        BY <3>3, RelayAssumption
      <4> QED BY <1>2, <4>1 DEF Pages
    <3>4. CASE \E i \in Entries : page' = [page EXCEPT !.rate = i]
      BY <1>2, <3>4, RelayAssumption DEF Pages
    <3>5. CASE page' = [page EXCEPT !.upnp = ~page.upnp]
      BY <1>2, <3>5 DEF Pages
    <3> QED BY <2>2, <3>1, <3>2, <3>3, <3>4, <3>5
  <2> QED BY <1>1, <1>2, <2>1, <2>3, PageStays DEF PageType
<1>5. CASE EditRate
  <2>1. UNCHANGED tmp
    BY <1>5 DEF EditRate
  <2>2. PICK r \in Rates, k \in {"avg", "burst"} :
            page' = IF r < MinRate THEN [page EXCEPT ![k] = r]
                    ELSE RatesFixed([page EXCEPT ![k] = r])
    BY <1>5 DEF EditRate
  <2>3. PICK p : p = [page EXCEPT ![k] = r]
    OBVIOUS
  <2>4. r \in Nat
    BY RelayAssumption
  <2>5. p \in Pages
    <3>1. CASE k = "avg"
      BY <1>2, <2>3, <2>4, <3>1 DEF Pages
    <3>2. CASE k = "burst"
      BY <1>2, <2>3, <2>4, <3>2 DEF Pages
    <3> QED BY <3>1, <3>2
  <2>6. page' \in Pages
    BY <2>2, <2>3, <2>5, RatesFixedType
  <2> QED BY <1>1, <1>2, <2>1, <2>6, PageStays DEF PageType
<1> QED BY <1>3, <1>4, <1>5

\* applyChanges(): whether Tor accepts them, the page is shown again or the user gives up.
LEMMA Applying ==
    ASSUME RelayInv, NEW S, SettingsType(S), NEW choice, Applies(S, choice)
    PROVE  /\ SettingsType(stored') /\ ConfType(tor') /\ PageType(page', tmp') /\ changed' \in BOOLEAN
           /\ Running'
           /\ stored'.upnp /\ ~changed' => stored' = S
<1>1. SettingsType(stored) /\ ConfType(tor) /\ PageType(page, tmp)
  BY DEF RelayInv, RelayType
<1>2. CASE Accepted(S)
  <2>1. tor' = Wanted(S) /\ stored' = S /\ changed' \in BOOLEAN /\ UNCHANGED <<page, tmp>>
    BY <1>2 DEF Accepted
  <2>2. ConfType(Wanted(S))
    BY WantedType
  <2>3. Running'
    BY <2>1 DEF Running
  <2> QED BY <1>1, <2>1, <2>2, <2>3
<1>3. CASE ShowsAgain(S)
  <2>1. stored' = S /\ changed' = TRUE /\ tor' = tor
    BY <1>3 DEF ShowsAgain
  <2>2. Loads(S.enabled, S.enabled /\ S.bridge, S.dirport, S.policy, S.avg, S.burst, S)
    BY <1>3 DEF ShowsAgain, LoadStored
  <2>3. /\ S.dirport \in PortNumbers /\ S.avg \in Nat /\ S.burst \in Nat
        /\ S.mirror \in BOOLEAN /\ S.upnp \in BOOLEAN
    BY DEF SettingsType
  <2>4. PICK d : d = S.dirport
    OBVIOUS
  <2>5. PageType(page', tmp')
    BY <1>1, <2>2, <2>3, LoadsType
  <2> QED BY <1>1, <2>1, <2>5 DEF Running
<1>4. CASE GivesUp
  <2>1. stored' = Defaults /\ changed' = FALSE /\ UNCHANGED <<tor, page, tmp>>
    BY <1>4 DEF GivesUp
  <2>2. stored'.upnp = FALSE
    BY <2>1 DEF Defaults
  <2>3. Running'
    BY <2>2 DEF Running
  <2> QED BY <1>1, <2>1, <2>2, <2>3, DefaultsType
<1> QED BY <1>2, <1>3, <1>4 DEF Applies

LEMMA SaveStep == ASSUME RelayInv, SaveChanges PROVE RelayInv'
<1>1. RelayType
  BY DEF RelayInv
<1>2. PICK p : p = RatesComplete(page)
  OBVIOUS
<1>3. PICK S : S = Saved(p, stored)
  OBVIOUS
<1>4. SettingsType(S)
  BY <1>1, <1>2, <1>3, SavedType DEF RelayType, PageType
<1>5. test = None /\ UNCHANGED <<link, test>>
  BY DEF SaveChanges
<1>6. CASE Applies(S, p) /\ ports' = Forwarded(ports, S, S.enabled, S.dirport)
           /\ stale' = (stale /\ ~S.upnp)
  <2>1. /\ SettingsType(stored') /\ ConfType(tor') /\ PageType(page', tmp') /\ changed' \in BOOLEAN
        /\ Running' /\ (stored'.upnp /\ ~changed' => stored' = S)
    BY <1>4, <1>6, Applying
  <2>2. ports' \in PortPairs
    BY <1>1, <1>4, <1>6, ForwardedType DEF RelayType, SettingsType
  <2>3. stale' \in BOOLEAN
    BY <1>1, <1>6 DEF RelayType
  <2>4. RelayType'
    BY <1>1, <1>5, <2>1, <2>2, <2>3 DEF RelayType
  <2>5. ASSUME stored'.upnp, ~changed' PROVE ports' = AsTor(tor')
    <3>1. stored' = S /\ tor' = Wanted(S) /\ S.upnp
      BY <2>1, <2>5 DEF Running
    <3> QED BY <1>4, <1>6, <3>1, ForwardedAsWanted
  <2>6. BroughtBack'
    BY <1>5, <2>5 DEF BroughtBack
  <2> QED BY <2>1, <2>4, <2>6 DEF RelayInv
<1>7. CASE /\ link = "Down" \/ ~(changed \/ S # stored)
           /\ stored' = S /\ changed' = (changed \/ S # stored)
           /\ UNCHANGED <<tor, page, tmp, ports, stale>>
  <2>1. changed' \in BOOLEAN
    BY <1>1, <1>7 DEF RelayType
  <2>2. RelayType'
    BY <1>1, <1>4, <1>5, <1>7, <2>1 DEF RelayType
  <2>3. ASSUME ~changed' PROVE stored' = stored /\ ~changed
    <3>1. changed' = (changed \/ S # stored) /\ stored' = S
      BY <1>7
    <3>2. ASSUME changed \/ S # stored PROVE FALSE
      <4>1. (changed \/ S # stored) = TRUE
        BY <3>2
      <4>2. changed' = TRUE
        BY <3>1, <4>1, Zenon
      <4> QED BY <2>3, <4>2
    <3>3. ~(changed \/ S # stored)
      BY <3>2
    <3> QED BY <3>1, <3>3
  <2>4. Running'
    BY <1>7, <2>3 DEF RelayInv, Running
  <2>5. BroughtBack'
    BY <1>5, <1>7, <2>3 DEF RelayInv, BroughtBack
  <2> QED BY <2>2, <2>4, <2>5 DEF RelayInv
<1> QED BY <1>2, <1>3, <1>6, <1>7 DEF SaveChanges

LEMMA RefusedStep == ASSUME RelayInv, SaveRefused PROVE RelayInv'
<1>1. UNCHANGED <<link, tor, stored, changed, ports, test, stale>> /\ UNCHANGED tmp
      /\ page' = RatesFixed(page)
  BY DEF SaveRefused
<1>2. PageType(page', tmp')
  BY <1>1, RatesFixedType DEF RelayInv, RelayType, PageType
<1> QED BY <1>1, <1>2, PageStays

LEMMA TestSteps == ASSUME RelayInv, TestUpnp \/ EndTest PROVE RelayInv'
<1>1. RelayType
  BY DEF RelayInv
<1>2. UNCHANGED <<link, tor, stored, changed, page, tmp, stale>>
  BY DEF TestUpnp, EndTest, dialogVars
<1>3. Running'
  BY <1>2 DEF RelayInv, Running
<1>4. CASE TestUpnp
  <2>1. test = None /\ test' = ports /\ ports' = [or |-> TRUE, dir |-> Number(page.line)]
    BY <1>4 DEF TestUpnp
  <2>2. Number(page.line) \in PortNumbers
    BY <1>1, NumberIs DEF RelayType, PageType, Pages
  <2>3. ports' \in PortPairs /\ test' \in PortPairs /\ test' # None
    BY <1>1, <2>1, <2>2, NoneIsNoPorts DEF RelayType, PortPairs
  <2>4. RelayType'
    BY <1>1, <1>2, <2>3 DEF RelayType
  <2>5. BroughtBack'
    BY <1>2, <2>1, <2>3 DEF RelayInv, BroughtBack
  <2> QED BY <1>3, <2>4, <2>5 DEF RelayInv
<1>5. CASE EndTest
  <2>1. test # None /\ test' = None /\ ports' = test
    BY <1>5 DEF EndTest
  <2>2. RelayType'
    BY <1>1, <1>2, <2>1 DEF RelayType
  <2>3. BroughtBack'
    BY <1>2, <2>1 DEF RelayInv, BroughtBack
  <2> QED BY <1>3, <2>2, <2>3 DEF RelayInv
<1> QED BY <1>4, <1>5

LEMMA AuthenticatedStep == ASSUME RelayInv, Authenticated PROVE RelayInv'
<1>1. RelayType
  BY DEF RelayInv
<1>2. /\ link' = "Authed" /\ test' = test
      /\ stale' = IF test = None THEN stale /\ ~stored'.upnp ELSE ports' # test
  BY DEF Authenticated
<1>3. /\ SettingsType(stored') /\ ConfType(tor') /\ PageType(page', tmp') /\ changed' \in BOOLEAN
      /\ Running'
      /\ \E old \in PortPairs : ports' = ForwardRunning(old)
  <2>1. CASE changed /\ Applies(stored, chosen)
             /\ ports' = ForwardRunning(Forwarded(ports, stored, stored.enabled, stored.dirport))
    <3>1. SettingsType(stored)
      BY <1>1 DEF RelayType
    <3>2. PICK old : old = Forwarded(ports, stored, stored.enabled, stored.dirport)
      OBVIOUS
    <3>3. old \in PortPairs
      BY <1>1, <3>1, <3>2, ForwardedType DEF RelayType, SettingsType
    <3>4. ports' = ForwardRunning(old)
      BY <2>1, <3>2
    <3> QED BY <2>1, <3>1, <3>3, <3>4, Applying
  <2>2. CASE ~changed /\ UNCHANGED <<tor, stored, changed, page, tmp>>
             /\ ports' = ForwardRunning(ports)
    <3>1. Running'
      BY <2>2 DEF RelayInv, Running
    <3> QED BY <1>1, <2>2, <3>1 DEF RelayType
  <2> QED BY <2>1, <2>2 DEF Authenticated
<1>4. PICK old \in PortPairs : ports' = ForwardRunning(old)
  BY <1>3
<1>5. ports' \in PortPairs
  BY <1>3, <1>4, ForwardedAsRunning
<1>6. ASSUME stored'.upnp, ~changed' PROVE ports' = AsTor(tor')
  <2>1. tor' = Wanted(stored')
    BY <1>3, <1>6 DEF Running
  <2> QED BY <1>3, <1>4, <1>6, <2>1, ForwardedAsRunning
<1>7. stale' \in BOOLEAN
  BY <1>1, <1>2 DEF RelayType
<1>8. RelayType'
  BY <1>1, <1>2, <1>3, <1>5, <1>7 DEF RelayType
<1>9. BroughtBack'
  <2>1. CASE test = None
    BY <1>2, <1>6, <2>1 DEF BroughtBack
  <2>2. CASE test # None
    <3>1. ~stale' => ports' = test
      BY <1>2, <2>2
    <3> QED BY <1>2, <1>6, <2>2, <3>1 DEF BroughtBack
  <2> QED BY <2>1, <2>2
<1> QED BY <1>3, <1>8, <1>9 DEF RelayInv

LEMMA StepRelay == RelayInv /\ [RelayNext]_relayVars => RelayInv'
<1> SUFFICES ASSUME RelayInv, [RelayNext]_relayVars PROVE RelayInv'
  OBVIOUS
<1>1. CASE ShowWindow
  BY <1>1, ShowWindowStep
<1>2. CASE ChooseMode \/ EditPage \/ EditRate
  BY <1>2, EditSteps
<1>3. CASE Close
  <2>1. UNCHANGED <<link, tor, stored, changed, ports, test, stale>> /\ UNCHANGED <<page, tmp>>
    BY <1>3 DEF Close
  <2> QED BY <2>1, PageStays DEF RelayInv, RelayType
<1>4. CASE SaveChanges
  BY <1>4, SaveStep
<1>5. CASE SaveRefused
  BY <1>5, RefusedStep
<1>6. CASE TestUpnp \/ EndTest
  BY <1>6, TestSteps
<1>7. CASE Authenticated
  BY <1>7, AuthenticatedStep
<1>8. CASE Disconnected
  <2>1. /\ link' = "Down"
        /\ UNCHANGED <<tor, stored, changed, page, tmp, ports, test, stale>>
    BY <1>8 DEF Disconnected, dialogVars
  <2>2. RelayType'
    BY <2>1 DEF RelayInv, RelayType
  <2>3. Running' /\ BroughtBack'
    BY <2>1 DEF RelayInv, Running, BroughtBack
  <2> QED BY <2>2, <2>3 DEF RelayInv
<1>9. CASE UNCHANGED relayVars
  <2>1. UNCHANGED <<link, tor, stored, changed, ports, test, stale>> /\ UNCHANGED <<page, tmp>>
    BY <1>9 DEF relayVars, dialogVars
  <2> QED BY <2>1, PageStays DEF RelayInv, RelayType
<1> QED BY <1>1, <1>2, <1>3, <1>4, <1>5, <1>6, <1>7, <1>8, <1>9 DEF RelayNext

LEMMA RelayMeans == ASSUME RelayInv PROVE RelayType /\ ForwardsAsTor
BY DEF RelayInv, BroughtBack, AsTor, ForwardsAsTor

\* The variables have their types, but for the exit policies.
THEOREM RelayTypeCorrect == RelaySpec => []RelayType
BY InitRelay, StepRelay, RelayMeans, PTL DEF RelaySpec

\* Whatever is saved, refused, given up, tested and applied on a new connection, the ports
\* that are to be forwarded are those that Tor listens on, when nothing waits to be applied.
THEOREM PortsFollowTor == RelaySpec => []ForwardsAsTor
BY InitRelay, StepRelay, RelayMeans, PTL DEF RelaySpec
------------------------------------------------------------------------------
(* What was chosen on the page *)

\* The settings are those of a page.
Holds(S, c) ==
    /\ S.enabled = (c.mode # "client") /\ S.nonexit = (c.mode = "nonexit")
    /\ S.bridge = (c.mode = "bridge") /\ S.mirror = (c.mode # "bridge" /\ c.mirror)
    /\ c.mode # "bridge" => S.dirport = Number(c.line)
    /\ S.policy = IF c.mode = "nonexit" THEN Middleman ELSE PolicyOf(c.boxes)
    /\ S.avg = RateSaved(c)[1] /\ S.burst = RateSaved(c)[2] /\ S.upnp = c.upnp

\* The stored settings are those of the page as it was last saved, and Tor runs with them
\* when none waits, unless older settings were brought back.
Choice == Pages \cup {None}
ChoiceHolds ==
    /\ chosen \in Choice /\ astray \in BOOLEAN
    /\ chosen # None => Holds(stored, chosen) /\ (~changed => ~astray)
    /\ ~changed /\ ~astray => tor = Wanted(stored)

LEMMA RatesCompleteType == ASSUME NEW p \in Pages PROVE RatesComplete(p) \in Pages
<1>1. PICK q : q = RatesFixed(p)
  OBVIOUS
<1>2. q \in Pages
  BY <1>1, RatesFixedType
<1> QED BY <1>1, <1>2 DEF RatesComplete, Pages

LEMMA SavedHolds == ASSUME NEW p \in Pages, NEW S PROVE Holds(Saved(p, S), p)
<1>1. PICK n : n = Number(p.line)
  OBVIOUS
<1>2. PICK r : r = RateSaved(p)
  OBVIOUS
<1>3. PICK policy : policy = IF p.mode = "nonexit" THEN Middleman ELSE PolicyOf(p.boxes)
  OBVIOUS
<1>4. PICK T : T = Saved(p, S)
  OBVIOUS
<1>5. T = [enabled |-> p.mode # "client", nonexit |-> p.mode = "nonexit",
           bridge |-> p.mode = "bridge",
           dirport |-> IF p.mode = "bridge" THEN S.dirport ELSE n,
           mirror |-> p.mode # "bridge" /\ p.mirror, policy |-> policy,
           avg |-> r[1], burst |-> r[2], upnp |-> p.upnp]
  BY <1>1, <1>2, <1>3, <1>4 DEF Saved
<1>6. /\ T.enabled = (p.mode # "client") /\ T.nonexit = (p.mode = "nonexit")
      /\ T.bridge = (p.mode = "bridge") /\ T.mirror = (p.mode # "bridge" /\ p.mirror)
      /\ p.mode # "bridge" => T.dirport = n
      /\ T.policy = policy /\ T.avg = r[1] /\ T.burst = r[2] /\ T.upnp = p.upnp
  BY <1>5
<1> QED BY <1>1, <1>2, <1>3, <1>4, <1>6 DEF Holds

LEMMA InitChoice == RelayInit => ChoiceHolds
<1> SUFFICES ASSUME RelayInit PROVE ChoiceHolds
  OBVIOUS
<1>1. chosen = None /\ astray = FALSE /\ tor = TorDefault /\ stored = Defaults
  BY DEF RelayInit
<1>2. stored.enabled = FALSE
  BY <1>1 DEF Defaults
<1>3. tor = Wanted(stored)
  BY <1>1, <1>2 DEF Wanted
<1> QED BY <1>1, <1>3 DEF ChoiceHolds, Choice

LEMMA ChoiceStays ==
    ASSUME ChoiceHolds, UNCHANGED <<tor, stored, changed, chosen, astray>>
    PROVE  ChoiceHolds'
BY DEF ChoiceHolds

LEMMA ChoiceApplied ==
    ASSUME ChoiceHolds, NEW S, NEW c \in Choice, c # None => Holds(S, c), Applies(S, c)
    PROVE  ChoiceHolds'
<1>1. CASE Accepted(S) /\ chosen' = c /\ astray' = FALSE
  <2>1. tor' = Wanted(S) /\ stored' = S
    BY <1>1 DEF Accepted
  <2> QED BY <1>1, <2>1 DEF ChoiceHolds
<1>2. CASE ShowsAgain(S) /\ chosen' = c /\ UNCHANGED astray
  <2>1. stored' = S /\ changed' = TRUE
    BY <1>2 DEF ShowsAgain
  <2> QED BY <1>2, <2>1 DEF ChoiceHolds
<1>3. CASE GivesUp /\ chosen' = None /\ astray' = TRUE
  BY <1>3 DEF ChoiceHolds, Choice
<1> QED BY <1>1, <1>2, <1>3 DEF Applies

LEMMA ChoiceSaved == ASSUME RelayInv, ChoiceHolds, SaveChanges PROVE ChoiceHolds'
<1>1. PICK p : p = RatesComplete(page)
  OBVIOUS
<1>2. PICK S : S = Saved(p, stored)
  OBVIOUS
<1>3. p \in Pages
  BY <1>1, RatesCompleteType DEF RelayInv, RelayType, PageType
<1>4. p \in Choice /\ Holds(S, p)
  BY <1>2, <1>3, SavedHolds DEF Choice
<1>5. CASE Applies(S, p)
  BY <1>4, <1>5, ChoiceApplied
<1>6. CASE /\ stored' = S /\ changed' = (changed \/ S # stored)
           /\ chosen' = IF astray /\ ~(changed \/ S # stored) THEN None ELSE p
           /\ UNCHANGED <<tor, astray>>
  <2>1. CASE changed \/ S # stored
    <3>1. changed' = TRUE
      <4>1. (changed \/ S # stored) = TRUE
        BY <2>1
      <4> QED BY <1>6, <4>1, Zenon
    <3>2. chosen' = p
      BY <1>6, <2>1
    <3> QED BY <1>4, <1>6, <3>1, <3>2 DEF ChoiceHolds
  <2>2. CASE ~(changed \/ S # stored)
    <3>1. ~changed /\ stored' = stored
      BY <1>6, <2>2
    <3>2. chosen' = IF astray THEN None ELSE p
      BY <1>6, <2>2
    <3> QED BY <1>4, <1>6, <3>1, <3>2 DEF ChoiceHolds, Choice
  <2> QED BY <2>1, <2>2
<1> QED BY <1>1, <1>2, <1>5, <1>6 DEF SaveChanges

LEMMA StepChoice ==
    RelayInv /\ ChoiceHolds /\ [RelayNext]_relayVars => ChoiceHolds'
<1> SUFFICES ASSUME RelayInv, ChoiceHolds, [RelayNext]_relayVars PROVE ChoiceHolds'
  OBVIOUS
<1>1. CASE SaveChanges
  BY <1>1, ChoiceSaved
<1>2. CASE Authenticated
  <2>1. CASE Applies(stored, chosen)
    BY <2>1, ChoiceApplied DEF ChoiceHolds
  <2>2. CASE UNCHANGED <<tor, stored, changed, chosen, astray>>
    BY <2>2, ChoiceStays
  <2> QED BY <1>2, <2>1, <2>2 DEF Authenticated
<1>3. CASE ShowWindow \/ Close \/ SaveRefused
  <2>1. UNCHANGED <<tor, stored, changed, chosen, astray>>
    BY <1>3 DEF ShowWindow, Close, SaveRefused
  <2> QED BY <2>1, ChoiceStays
<1>4. CASE ChooseMode \/ EditPage \/ EditRate
  <2>1. UNCHANGED <<tor, stored, changed, chosen, astray>>
    BY <1>4 DEF ChooseMode, EditPage, EditRate, Editing
  <2> QED BY <2>1, ChoiceStays
<1>5. CASE TestUpnp \/ EndTest \/ Disconnected
  <2>1. UNCHANGED <<tor, stored, changed, chosen, astray>>
    BY <1>5 DEF TestUpnp, EndTest, Disconnected
  <2> QED BY <2>1, ChoiceStays
<1>6. CASE UNCHANGED relayVars
  BY <1>6, ChoiceStays DEF relayVars
<1> QED BY <1>1, <1>2, <1>3, <1>4, <1>5, <1>6 DEF RelayNext

\* The policy that Tor runs with.
LEMMA PolicyIsChosen ==
    ASSUME RelayInv, ChoiceHolds
    PROVE  ExitAsTicked
<1> SUFFICES ASSUME tor.server, ~changed, chosen # None
             PROVE  LetsOut(tor.policy, IF chosen.mode = "server" THEN chosen.boxes ELSE {})
  BY DEF ExitAsTicked
<1>1. chosen \in Pages /\ Holds(stored, chosen) /\ tor = Wanted(stored)
  BY DEF ChoiceHolds, Choice
<1>2. PICK m : m = chosen.mode
  OBVIOUS
<1>3. m \in {"client", "server", "nonexit", "bridge"} /\ chosen.boxes \in SUBSET Boxes
  BY <1>1, <1>2 DEF Pages, Modes
<1>4. stored.enabled
  <2>1. TorDefault.server = FALSE
    BY DEF TorDefault
  <2> QED BY <1>1, <2>1 DEF Wanted
<1>5. tor.policy = IF stored.bridge \/ stored.nonexit THEN Middleman ELSE stored.policy
  <2>1. tor = ConfValues(stored)
    BY <1>1, <1>4 DEF Wanted
  <2> QED BY <2>1 DEF ConfValues
<1>6. CASE m = "server"
  <2>1. ~stored.bridge /\ ~stored.nonexit /\ stored.policy = PolicyOf(chosen.boxes)
    BY <1>1, <1>2, <1>6 DEF Holds
  <2>2. tor.policy = PolicyOf(chosen.boxes)
    BY <1>5, <2>1
  <2> QED BY <1>2, <1>3, <1>6, <2>2, EveryChoice DEF RightPolicies
<1>7. CASE m # "server"
  <2>1. m # "client"
    BY <1>1, <1>2, <1>4 DEF Holds
  <2>2. stored.bridge \/ stored.nonexit
    BY <1>1, <1>2, <1>3, <1>7, <2>1 DEF Holds
  <2>3. tor.policy = Middleman
    BY <1>5, <2>2
  <2> QED BY <1>2, <1>7, <2>3, EveryChoice DEF RightPolicies
<1> QED BY <1>6, <1>7

\* The page that is shown.
ShowsRightly == ShowWindow /\ chosen # None => ShowsTheSame(page', chosen)

LEMMA PageIsChosen ==
    ASSUME RelayInv, ChoiceHolds
    PROVE  ShowsRightly
<1> SUFFICES ASSUME ShowWindow, chosen # None
             PROVE  ShowsTheSame(page', chosen)
  BY DEF ShowsRightly
<1>1. PICK c : c = chosen
  OBVIOUS
<1>2. c \in Pages /\ Holds(stored, c) /\ (~changed => tor = Wanted(stored))
  BY <1>1 DEF ChoiceHolds, Choice
<1>3. SettingsType(stored) /\ ConfType(tor)
  BY DEF RelayInv, RelayType
<1>4. PICK enabled : enabled = ServerEnabled
  OBVIOUS
<1>5. PICK bridge : bridge = BridgeEnabled
  OBVIOUS
<1>6. PICK d : d = Value("dirport")
  OBVIOUS
<1>7. PICK conf : conf = Value("policy")
  OBVIOUS
<1>8. PICK a : a = Value("avg")
  OBVIOUS
<1>9. PICK b : b = Value("burst")
  OBVIOUS
<1>10. /\ enabled = stored.enabled
       /\ bridge = (stored.enabled /\ stored.bridge)
       /\ a = stored.avg /\ b = stored.burst
       /\ ~stored.enabled \/ stored.mirror => d = stored.dirport
       /\ ~stored.mirror => d = stored.dirport
       /\ conf = stored.policy \/ (stored.enabled /\ conf = Middleman /\ (stored.bridge \/ stored.nonexit))
  <2>1. CASE ~AskTor
    BY <1>4, <1>5, <1>6, <1>7, <1>8, <1>9, <2>1
       DEF ServerEnabled, BridgeEnabled, Value
  <2>2. CASE AskTor
    <3>1. tor = Wanted(stored)
      BY <1>2, <2>2 DEF AskTor
    <3>2. PICK z : z = TorDefault
      OBVIOUS
    <3>3. z.dirport = 0 /\ z.policy = <<>> /\ z.avg = 0 /\ z.burst = 0 /\ z.server = FALSE
      BY <3>2 DEF TorDefault
    <3>4. /\ enabled = tor.server /\ bridge = (tor.server /\ tor.bridge)
          /\ d = IF tor.dirport # 0 THEN tor.dirport ELSE stored.dirport
          /\ conf = IF tor.policy # <<>> THEN tor.policy ELSE stored.policy
          /\ a = IF tor.avg # 0 THEN tor.avg ELSE stored.avg
          /\ b = IF tor.burst # 0 THEN tor.burst ELSE stored.burst
      BY <1>4, <1>5, <1>6, <1>7, <1>8, <1>9, <2>2, <3>2, <3>3
         DEF ServerEnabled, BridgeEnabled, Value
    <3>5. CASE stored.enabled
      <4>1. tor = ConfValues(stored)
        BY <3>1, <3>5 DEF Wanted
      <4>2. /\ tor.server = TRUE /\ tor.bridge = stored.bridge
            /\ tor.dirport = IF stored.mirror THEN stored.dirport ELSE 0
            /\ tor.policy = IF stored.bridge \/ stored.nonexit THEN Middleman ELSE stored.policy
            /\ tor.avg = stored.avg /\ tor.burst = stored.burst
        BY <4>1 DEF ConfValues
      <4>3. enabled = stored.enabled /\ bridge = (stored.enabled /\ stored.bridge)
        BY <1>3, <3>4, <3>5, <4>2 DEF SettingsType
      <4>4. a = stored.avg /\ b = stored.burst
        BY <3>4, <4>2
      <4>5. d = stored.dirport
        BY <3>4, <4>2
      <4>6. conf = stored.policy \/ (conf = Middleman /\ (stored.bridge \/ stored.nonexit))
        BY <3>4, <4>2
      <4> QED BY <3>5, <4>3, <4>4, <4>5, <4>6
    <3>6. CASE ~stored.enabled
      <4>1. tor = z
        BY <3>1, <3>2, <3>6 DEF Wanted
      <4>2. enabled = stored.enabled /\ bridge = (stored.enabled /\ stored.bridge)
        BY <1>3, <3>3, <3>4, <3>6, <4>1 DEF SettingsType
      <4>3. a = stored.avg /\ b = stored.burst /\ d = stored.dirport /\ conf = stored.policy
        BY <3>3, <3>4, <4>1
      <4> QED BY <4>2, <4>3
    <3> QED BY <3>5, <3>6
  <2> QED BY <2>1, <2>2
<1>11. d = stored.dirport
  BY <1>3, <1>10 DEF SettingsType
<1>12. PICK policy : policy = Parsed(conf)
  OBVIOUS
<1>13. PICK rate : rate = RateOf(a, b)
  OBVIOUS
<1>14. page' = [mode |-> ModeOf(enabled, bridge, policy), line |-> d, mirror |-> stored.mirror,
                boxes |-> BoxesOf(policy), rate |-> rate, avg |-> a, burst |-> b,
                upnp |-> stored.upnp]
  BY <1>4, <1>5, <1>6, <1>7, <1>8, <1>9, <1>12, <1>13 DEF ShowWindow, Loads
<1>15. PICK p : p = page'
  OBVIOUS
<1>16. /\ p.mode = ModeOf(enabled, bridge, policy) /\ p.line = d /\ p.mirror = stored.mirror
       /\ p.boxes = BoxesOf(policy) /\ p.rate = rate /\ p.avg = a /\ p.burst = b
       /\ p.upnp = stored.upnp
  BY <1>14, <1>15
<1>17. c.mode \in {"client", "server", "nonexit", "bridge"} /\ c.boxes \in SUBSET Boxes
       /\ c.mirror \in BOOLEAN /\ c.line \in Lines
  BY <1>2 DEF Pages, Modes
<1>18. /\ p.mode = IF c.mode = "server" /\ c.boxes = {} THEN "nonexit" ELSE c.mode
       /\ p.mode = "server" => p.boxes = c.boxes
  <2>1. CASE c.mode = "client"
    <3>1. ~stored.enabled
      BY <1>2, <2>1 DEF Holds
    <3>2. ~enabled /\ ~bridge
      BY <1>10, <3>1
    <3>3. p.mode = "client"
      BY <1>16, <3>2 DEF ModeOf
    <3> QED BY <2>1, <3>3
  <2>2. CASE c.mode = "bridge"
    <3>1. stored.enabled /\ stored.bridge
      BY <1>2, <2>2 DEF Holds
    <3>2. enabled /\ bridge
      BY <1>10, <3>1
    <3>3. p.mode = "bridge"
      BY <1>16, <3>2 DEF ModeOf
    <3> QED BY <2>2, <3>3
  <2>3. CASE c.mode = "nonexit"
    <3>1. stored.enabled /\ ~stored.bridge /\ stored.policy = Middleman
      BY <1>2, <2>3 DEF Holds
    <3>2. conf = Middleman
      BY <1>10, <3>1
    <3>3. policy = Middleman
      BY <1>12, <3>2, EveryChoice DEF RightPolicies
    <3>4. p.mode = "nonexit"
      BY <1>10, <1>16, <3>1, <3>3 DEF ModeOf
    <3> QED BY <2>3, <3>4
  <2>4. CASE c.mode = "server"
    <3>1. /\ stored.enabled /\ ~stored.bridge /\ ~stored.nonexit
          /\ stored.policy = PolicyOf(c.boxes)
      BY <1>2, <2>4 DEF Holds
    <3>2. conf = PolicyOf(c.boxes)
      BY <1>10, <3>1
    <3>3. (policy = Middleman <=> c.boxes = {}) /\ BoxesOf(policy) = c.boxes
      BY <1>12, <1>17, <3>2, EveryChoice DEF RightPolicies
    <3>4. p.mode = IF c.boxes = {} THEN "nonexit" ELSE "server"
      BY <1>10, <1>16, <3>1, <3>3 DEF ModeOf
    <3> QED BY <1>16, <2>4, <3>3, <3>4
  <2> QED BY <1>17, <2>1, <2>2, <2>3, <2>4
<1>19. RateSaved(p) = RateSaved(c)
  <2>1. PICK r : r = RateSaved(c)
    OBVIOUS
  <2>2. r = <<a, b>>
    <3>1. a = r[1] /\ b = r[2]
      BY <1>2, <1>10, <2>1 DEF Holds
    <3>2. r = <<c.avg, c.burst>> \/ \E i \in 1 .. 5 : r = Presets[i]
      BY <1>2, <2>1, PresetsAre DEF RateSaved, Pages
    <3>3. \A i \in 1 .. 5 : Presets[i] = <<Presets[i][1], Presets[i][2]>>
      BY DEF Presets
    <3>4. r = <<r[1], r[2]>>
      <4>1. CASE r = <<c.avg, c.burst>>
        BY <4>1
      <4>2. CASE \E i \in 1 .. 5 : r = Presets[i]
        <5>1. PICK i \in 1 .. 5 : r = Presets[i]
          BY <4>2
        <5> QED BY <3>3, <5>1
      <4> QED BY <3>2, <4>1, <4>2
    <3> QED BY <3>1, <3>4
  <2>3. RateSaved(p) = <<a, b>>
    <3>1. PICK known : known = {i \in DOMAIN Presets : Presets[i] = <<a, b>>}
      OBVIOUS
    <3>2. rate = IF known = {} THEN Custom ELSE CHOOSE i \in known : TRUE
      BY <1>13, <3>1 DEF RateOf
    <3>3. CASE known = {}
      BY <1>16, <3>2, <3>3 DEF RateSaved
    <3>4. CASE known # {}
      <4>1. rate \in known
        BY <3>2, <3>4
      <4>2. rate # Custom /\ Presets[rate] = <<a, b>>
        BY <3>1, <4>1, PresetsAre
      <4> QED BY <1>16, <4>2 DEF RateSaved
    <3> QED BY <3>3, <3>4
  <2> QED BY <2>1, <2>2, <2>3
<1>20. c.mode # "bridge" => Number(p.line) = Number(c.line) /\ p.mirror = c.mirror
  <2> SUFFICES ASSUME c.mode # "bridge"
               PROVE  Number(p.line) = Number(c.line) /\ p.mirror = c.mirror
    OBVIOUS
  <2>1. stored.dirport = Number(c.line) /\ stored.mirror = (c.mode # "bridge" /\ c.mirror)
    BY <1>2 DEF Holds
  <2>2. stored.mirror = c.mirror
    BY <1>3, <1>17, <2>1 DEF SettingsType
  <2>3. PICK n : n = stored.dirport
    OBVIOUS
  <2>4. n \in PortNumbers
    BY <1>3, <2>3 DEF SettingsType
  <2>5. n # Empty
    BY <2>4, EmptyIs DEF PortNumbers
  <2>6. Number(n) = n
    BY <2>5 DEF Number
  <2> QED BY <1>11, <1>16, <2>1, <2>2, <2>3, <2>6
<1>21. p.upnp = c.upnp
  BY <1>2, <1>16 DEF Holds
<1> QED BY <1>1, <1>15, <1>18, <1>19, <1>20, <1>21 DEF ShowsTheSame

\* Tor lets out through an exit what was ticked on the page that was last saved, and through
\* other relays nothing, when nothing waits to be applied.
THEOREM ExitsAsTicked == RelaySpec => []ExitAsTicked
BY InitRelay, StepRelay, InitChoice, StepChoice, PolicyIsChosen, PTL DEF RelaySpec

\* The page shows what was chosen, whether it is loaded from Tor or from the settings.
THEOREM PageAsChosen == RelaySpec => ShownAsChosen
<1>1. RelayInv /\ ChoiceHolds /\ [RelayNext]_relayVars => [ShowsRightly]_relayVars
  BY PageIsChosen
<1>2. ShowsRightly => (ShowWindow /\ chosen # None => ShowsTheSame(page', chosen))
  BY DEF ShowsRightly
<1> QED BY <1>1, <1>2, InitRelay, StepRelay, InitChoice, StepChoice, PTL DEF RelaySpec, ShownAsChosen

==============================================================================
