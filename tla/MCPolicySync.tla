---------------------------- MODULE MCPolicySync ----------------------------
(* PolicySync with a handful of configs that differ where it matters.  The   *)
(* trie holds two keys.                                                      *)
EXTENDS PolicySync, TLC

CONSTANTS lan, wan, homeNet

TwoPorts == {22, 80}
DHCPPorts == {68}
AllPorts == TwoPorts \cup DHCPPorts
TwoAddrs == {lan, wan}
LanOnly == {lan}
TwoNets == {LanOnly, TwoAddrs}
OneNetwork == {homeNet}

RuleOf(proto, ports, from, rate) == [proto |-> proto, ports |-> ports, from |-> from, rate |-> rate]
FromLan == RuleOf("tcp", {22}, LanOnly, 0)
DecoyRule == {RuleOf("tcp", {80}, LanOnly, 0)}

Base(tcp, rules) == [tcp |-> tcp, udp |-> {}, ping |-> TRUE, rules |-> rules]
NoProfiles == [n \in {} |-> n]
AtHome(tcp, rules) ==
  [n \in {1} |-> [networks |-> OneNetwork, tcp |-> tcp, udp |-> {}, ping |-> {}, rules |-> rules]]
ConfigOf(base, profiles) ==
  [enforce |-> TRUE, crowds |-> FALSE, base |-> base, profiles |-> profiles]

\* SSH for everyone, and the web at home
Open == ConfigOf(Base({22}, {}), AtHome({{22, 80}}, {}))
\* SSH from the LAN only, limited twice; at home another rule
Narrow == ConfigOf(Base({}, {FromLan, RuleOf("tcp", {22, 80}, Anyone, 3), RuleOf("tcp", {22}, LanOnly, 2)}),
                   AtHome({}, {{FromLan, RuleOf("udp", {80}, LanOnly, 0)}}))
\* More keys than the trie holds
Wide == ConfigOf(Base({}, {RuleOf("tcp", AllPorts, LanOnly, 0)}), NoProfiles)
\* A `blocked` list that may not fit, in monitor mode
Crowded == [ConfigOf(Base({}, {}), NoProfiles) EXCEPT !.crowds = TRUE, !.enforce = FALSE]

FourConfigs == {Open, Narrow, Wide, Crowded}
TwoConfigs == {Open, Narrow}
=============================================================================
