---------------------------- MODULE ExitPolicies ----------------------------
(***************************************************************************)
(* The exit policy of a relay (vidalia/config/Policy.cpp, ExitPolicy.cpp)  *)
(* and the boxes of the Exit Policies tab that stand for groups of ports   *)
(* (ServerPage.cpp).                                                       *)
(*                                                                         *)
(* An item is <<action, first port, last port>> for any address, and       *)
(* <<action, 0, 0>> is for all ports; a policy is a sequence of items.     *)
(***************************************************************************)
EXTENDS Naturals, Sequences, SequencesExt

Port(action, p) == <<action, p, p>>
AcceptAll == <<"accept", 0, 0>>
RejectAll == <<"reject", 0, 0>>

\* ExitPolicy(Middleman) and ExitPolicy(Default)
Middleman == <<RejectAll>>
Default ==
    <<Port("reject", 25), Port("reject", 119), <<"reject", 135, 139>>, Port("reject", 445),
      Port("reject", 465), Port("reject", 587), Port("reject", 1214), <<"reject", 4661, 4666>>,
      <<"reject", 6346, 6429>>, Port("reject", 6699), <<"reject", 6881, 6999>>, AcceptAll>>

\* Policy::matches(): an item for all ports matches none but itself.
Matches(p, q) == p[1] = q[1] /\ p[2] <= q[2] /\ p[3] >= q[3]

\* ExitPolicy::contains(): of the items up to the first that is for all ports, which ends
\* the policy, or else of the default policy.
Ends(p) == p \in {AcceptAll, RejectAll}
Contained(policy, q) ==
    LET Decides(p) == Matches(p, q) \/ Ends(p)
        explicit == SelectInSeq(policy, Decides)
    IN  IF explicit # 0 THEN Matches(policy[explicit], q)
        ELSE \E i \in DOMAIN Default : Matches(Default[i], q)

AllContained(policy, action, ports) ==
    \A r \in ports : Contained(policy, <<action, r[1], r[2]>>)
AcceptsPorts(policy, ports) == AllContained(policy, "accept", ports)
RejectsPorts(policy, ports) == AllContained(policy, "reject", ports)

AddPolicy(policy, q) == IF Contained(policy, q) THEN policy ELSE Append(policy, q)
AddPorts(policy, action, ports) ==
    FoldLeft(LAMBDA acc, r : AddPolicy(acc, <<action, r[1], r[2]>>), policy, ports)

\* ExitPolicy(QString) of what toString() has written: the items that add something.
Parsed(policy) == FoldLeft(AddPolicy, <<>>, policy)

------------------------------------------------------------------------------
(* The boxes *)

Groups == <<"Websites", "SecWebsites", "Mail", "IRC", "IM">>
Ports == [Websites |-> <<<<80, 80>>>>,
          SecWebsites |-> <<<<443, 443>>>>,
          Mail |-> <<<<110, 110>>, <<143, 143>>, <<993, 993>>, <<995, 995>>>>,
          IRC |-> <<<<6660, 6669>>, <<6697, 6697>>, <<7000, 7001>>>>,
          IM |-> <<<<706, 706>>, <<1863, 1863>>, <<5050, 5050>>, <<5190, 5190>>,
                   <<5222, 5222>>, <<5223, 5223>>, <<8300, 8300>>, <<8888, 8888>>>>]
Boxes == ToSet(Groups) \cup {"Misc"}

\* saveExitPolicies(): with Misc the groups that are not ticked are rejected, without it
\* only those that are ticked are accepted.
PolicyOf(boxes) ==
    LET misc == "Misc" \in boxes
        Add(policy, g) == IF (g \in boxes) = misc THEN policy
                          ELSE AddPorts(policy, IF misc THEN "reject" ELSE "accept", Ports[g])
        policy == FoldLeft(Add, <<>>, Groups)
    IN  IF misc THEN policy ELSE AddPolicy(policy, RejectAll)

\* loadExitPolicies()
BoxesOf(policy) ==
    IF Contained(policy, RejectAll)
    THEN {g \in ToSet(Groups) : AcceptsPorts(policy, ToSet(Ports[g]))}
    ELSE {g \in ToSet(Groups) : ~RejectsPorts(policy, ToSet(Ports[g]))} \cup {"Misc"}

------------------------------------------------------------------------------
(* What Tor makes of a policy: the first item that covers a port decides, and what the  *)
(* policy leaves open the default policy decides.                                       *)

Covers(p, port) == Ends(p) \/ (p[2] <= port /\ port <= p[3])
Allows(policy, port) ==
    LET all == policy \o Default
        first == SelectInSeq(all, LAMBDA p : Covers(p, port))
    IN  all[first][1] = "accept"
=============================================================================
