-------------------------- MODULE MCPacketFilter --------------------------
(* PacketFilter with two IPv4 hosts and two IPv6 hosts of one /64, an open, *)
(* a closed and an ephemeral port, and one packet of each kind the verdict  *)
(* knows.                                                                   *)
EXTENDS PacketFilter, TLC

CONSTANTS h1, h2, h6, h7

MCHosts == {h1, h2, h6, h7}
MCV6 == {h6, h7}
MCNet64 == [h \in MCHosts |-> IF h = h7 THEN h6 ELSE h]

\* Ports: 1 open to everyone, 2 open to h1 over TCP, 3 closed, 9 ephemeral
Pkt(kind, from, lport, flags, everyone) ==
  [kind |-> kind, from |-> from, rport |-> 5, lport |-> lport, flags |-> flags,
   everyone |-> everyone]

MCPackets ==
  {Pkt("udp", h, l, {}, FALSE) : h \in MCHosts, l \in {3, 9}}
  \cup {[Pkt("udp", h1, 9, {}, FALSE) EXCEPT !.rport = 6]}
  \cup {Pkt("udp", h1, 1, {}, FALSE), Pkt("udp", h1, 3, {}, TRUE), Pkt("echo", h1, 0, {}, FALSE),
        Pkt("icmp", h6, 0, {}, FALSE), Pkt("notip", h1, 0, {}, TRUE), Pkt("nol4", h2, 0, {}, FALSE)}
  \cup {Pkt("tcp", h1, l, {"SYN"}, FALSE) : l \in {1, 2, 3}}
  \cup {Pkt("tcp", h, 2, {"SYN"}, FALSE) : h \in {h2, h6}}
  \cup {Pkt("tcp", h1, 3, f, FALSE) : f \in {{"SYN", "ACK"}, {"ACK"}, {"RST"}, {}, {"FIN"},
                                             {"FIN", "ACK"}, {"FIN", "PSH", "URG", "ACK"}}}

MCQueries ==
  {[to |-> h, lport |-> 9, rport |-> 5, everyone |-> FALSE] : h \in {h1, h6}}
  \cup {[to |-> h1, lport |-> 3, rport |-> 5, everyone |-> TRUE]}

OpenTcp == {1}
OpenUdp == {1}
ToH1 == {<<2, h1>>}
Nobody == {}
=============================================================================
