---------------------------- MODULE PacketFilter ----------------------------
(***************************************************************************)
(* The two eBPF programs: what the XDP filter does with one packet coming  *)
(* in (`try_ai_firewall`, `icmp_verdict`, `policy`), and how the tc egress *)
(* program (`try_egress`) records the UDP flows whose answers may come in. *)
(*                                                                         *)
(* A packet is what the verdict tells apart.  Its `kind` stands for the    *)
(* headers: "notip" is a frame too short or of another protocol than IP,   *)
(* "nol4" an IP packet without a TCP or UDP header that can be read (a     *)
(* later fragment, a bad header length, an IPv6 extension, a cut packet),  *)
(* "echo" a ping and "icmp" other ICMP.  A verdict is one step: every map  *)
(* it reads is read by one atomic lookup, and no property here relates two *)
(* of them to one instant.                                                 *)
(*                                                                         *)
(* Bans and UDP flows are pinned and outlive the daemon; the settings, the *)
(* counters and the event buffer belong to one process.  The connection    *)
(* limit is the module RateLimit, here a limited port may answer "over" at *)
(* any time; the port lists are constants (PolicySync writes them).        *)
(***************************************************************************)
EXTENDS Integers, FiniteSets

CONSTANTS
  Hosts,             \* remote addresses
  V6,                \* those that are IPv6
  Net64,             \* host -> the source it is banned as: itself, or its /64
  Packets,           \* packets that may come in
  Queries,           \* UDP packets that may go out
  TCP_ALLOW, UDP_ALLOW,            \* ports open to everyone
  ALLOW_FROM_TCP, ALLOW_FROM_UDP,  \* <<port, host>> opened to some
  Limited,           \* ports with a limit on new connections
  EPHEMERAL_LOW,     \* the first port the system picks for outgoing UDP
  UDP_FLOW_TTL,      \* how long a flow waits for answers
  FlowCapacity,      \* max_entries of UDP_FLOWS, and of UDP_FLOWS6
  RingSize,          \* events the ring buffer holds
  Horizon, MaxOps    \* bounds: clock, and steps of the environment

Kinds == {"notip", "nol4", "echo", "icmp", "tcp", "udp"}
Flags == {"FIN", "SYN", "RST", "PSH", "ACK", "URG"}
Packet == [kind : Kinds, from : Hosts, rport : Nat, lport : Nat, flags : SUBSET Flags,
           everyone : BOOLEAN]
Query == [to : Hosts, lport : Nat, rport : Nat, everyone : BOOLEAN]
Stats == {"passed", "blocklist", "feed", "policy", "lost"}

BAN_FOREVER == 0
NoEntry == -1
AnyHost == "any"

\* UdpFlow, UdpFlow6; a query to a group waits for an answer from anyone
Flow == [v6 : BOOLEAN, remote_ip : Hosts \cup {AnyHost}, local_port : Nat, remote_port : Nat]
ExactFlow(h, lport, rport) ==
  [v6 |-> h \in V6, remote_ip |-> h, local_port |-> lport, remote_port |-> rport]
AnyFlow(h, lport) ==
  [v6 |-> h \in V6, remote_ip |-> AnyHost, local_port |-> lport, remote_port |-> 0]

ASSUME FilterAssumption ==
  /\ V6 \subseteq Hosts /\ AnyHost \notin Hosts
  /\ Packets \subseteq Packet /\ Queries \subseteq Query
  /\ DOMAIN Net64 = Hosts
  /\ UDP_FLOW_TTL \in Nat \ {0} /\ EPHEMERAL_LOW \in Nat
  /\ FlowCapacity \in Nat \ {0} /\ RingSize \in Nat
  /\ Horizon \in Nat /\ MaxOps \in Nat

Banned == {Net64[h] : h \in Hosts}      \* keys of BLOCKLIST and BLOCKLIST6

\* The entry a query makes and a packet finds
FlowOf(q) == IF q.everyone THEN AnyFlow(q.to, q.lport) ELSE ExactFlow(q.to, q.lport, q.rport)
Flows == {FlowOf(q) : q \in Queries}
FlowsFor(p) == {ExactFlow(p.from, p.lport, p.rport), AnyFlow(p.from, p.lport)} \cap Flows

VARIABLES
  now,        \* CLOCK_BOOTTIME
  blocklist,  \* BLOCKLIST, BLOCKLIST6: source -> expiry
  feeds,      \* FEEDS: IPv4 hosts on a blocklist feed
  flows,      \* UDP_FLOWS, UDP_FLOWS6: flow -> expiry
  enforce, strict, drop_ping,  \* CONFIG
  recorder,   \* the egress program is attached
  ring,       \* EVENTS: sources and verdicts not read yet
  stats,      \* STATS, summed over the CPUs
  ops,        \* environment steps taken (bound)
  asked,      \* ghost: flow -> when a query was last sent while it was recorded
  evicted,    \* ghost: the kernel gave a live flow's slot away
  seen        \* ghost: packets judged, events due and events read, by this process's count

settings == <<enforce, strict, drop_ping>>
vars == <<now, blocklist, feeds, flows, settings, recorder, ring, stats, ops, asked, evicted, seen>>

Zero == [s \in Stats |-> 0]
Expiry == Nat \cup {NoEntry}

TypeOK ==
  /\ now \in Nat /\ ops \in Nat /\ ring \in Nat
  /\ blocklist \in [Banned -> Expiry]
  /\ feeds \subseteq Hosts \ V6
  /\ flows \in [Flows -> Expiry]
  /\ enforce \in BOOLEAN /\ strict \in BOOLEAN /\ drop_ping \in BOOLEAN
  /\ recorder \in BOOLEAN /\ evicted \in BOOLEAN
  /\ stats \in [Stats -> Nat]
  /\ asked \in [Flows -> Expiry]
  /\ seen \in [packets : Nat, events : Nat, interesting : Nat]

Init ==
  /\ now = 0 /\ ops = 0
  /\ blocklist = [s \in Banned |-> NoEntry] /\ feeds = {}
  /\ flows = [f \in Flows |-> NoEntry]
  /\ enforce = FALSE /\ strict = FALSE /\ drop_ping = FALSE
  /\ recorder = FALSE
  /\ ring = 0 /\ stats = Zero
  /\ asked = [f \in Flows |-> NoEntry] /\ evicted = FALSE
  /\ seen = [packets |-> 0, events |-> 0, interesting |-> 0]

-----------------------------------------------------------------------------
(* The verdict on a packet *)

LiveSlip(e) == e # NoEntry /\ (e = BAN_FOREVER \/ now <= e)

Live(e) == e # NoEntry /\ (e = BAN_FOREVER \/ now < e)

InFeed(p) == p.from \notin V6 /\ p.from \in feeds

\* What is dropped before any header behind IP's is looked at
Known(p) == p.kind # "notip" /\ (Live(blocklist[Net64[p.from]]) \/ InFeed(p))

Odd(f) ==
  \/ f = {}
  \/ {"FIN", "URG", "PSH"} \subseteq f
  \/ "FIN" \in f /\ "ACK" \notin f

Opener(f) == "SYN" \in f /\ "ACK" \notin f

\* Rules for some sources are IPv4 only
AllowedFrom(trie, p) == p.from \notin V6 /\ <<p.lport, p.from>> \in trie

OpenTo(p) ==
  \/ p.kind = "tcp" /\ (p.lport \in TCP_ALLOW \/ AllowedFrom(ALLOW_FROM_TCP, p))
  \/ p.kind = "udp" /\ (p.lport \in UDP_ALLOW \/ AllowedFrom(ALLOW_FROM_UDP, p))

ReplySlip(p) == \E f \in FlowsFor(p) : f.remote_ip # AnyHost /\ Live(flows[f])

Reply(p) == \E f \in FlowsFor(p) : Live(flows[f])

LooseReply(p) == ~strict /\ p.lport >= EPHEMERAL_LOW

IsReply(p) == Reply(p) \/ LooseReply(p)

Interesting(p) ==
  \/ p.kind = "tcp" /\ (Odd(p.flags) \/ Opener(p.flags))
  \/ p.kind = "udp" /\ ~IsReply(p)

\* `over` is what over_rate answers, asked only of an opener that is let in
Allowed(p, over) ==
  \/ p.kind = "tcp" /\ ~Odd(p.flags) /\ (Opener(p.flags) => OpenTo(p) /\ ~over)
  \/ p.kind = "udp" /\ (IsReply(p) \/ OpenTo(p))

Refused(p, over) ==
  \/ p.kind = "echo" /\ drop_ping /\ enforce
  \/ p.kind \in {"tcp", "udp"} /\ ~Allowed(p, over) /\ enforce

\* The counter a packet ends in
Counter(p, over) ==
  CASE p.kind # "notip" /\ Live(blocklist[Net64[p.from]]) -> "blocklist"
    [] p.kind # "notip" /\ ~Live(blocklist[Net64[p.from]]) /\ InFeed(p) -> "feed"
    [] ~Known(p) /\ Refused(p, over) -> "policy"
    [] OTHER -> "passed"

Passes(p, over) == Counter(p, over) = "passed"

\* An event goes up unless the packet was sent to everyone on the LAN
Reported(p) == ~Known(p) /\ Interesting(p) /\ ~p.everyone

\* What over_rate may answer: only IPv4 sources are limited
RateAnswers(p) == IF p.lport \in Limited /\ p.from \notin V6 THEN BOOLEAN ELSE {FALSE}

LostSlip(p) == FALSE

Lost(p) == Reported(p) /\ ring = RingSize

Ingress(p) ==
  /\ ops < MaxOps
  /\ \E over \in RateAnswers(p) :
       stats' = [stats EXCEPT ![Counter(p, over)] = @ + 1,
                              !["lost"] = @ + (IF Lost(p) THEN 1 ELSE 0)]
  /\ ring' = IF Reported(p) /\ ring < RingSize THEN ring + 1 ELSE ring
  /\ seen' = [seen EXCEPT !.packets = @ + 1,
                          !.interesting = @ + (IF Reported(p) THEN 1 ELSE 0)]
  /\ ops' = ops + 1
  /\ UNCHANGED <<now, blocklist, feeds, flows, settings, recorder, asked, evicted>>

-----------------------------------------------------------------------------
(* The egress program *)

Used(family) == {f \in Flows : f.v6 = family /\ flows[f] # NoEntry}

\* A full LRU map gives some entry's slot to the new one
Evict(f) ==
  {gone \in SUBSET (Used(f.v6) \ {f}) :
     Cardinality(gone) = IF flows[f] = NoEntry /\ Cardinality(Used(f.v6)) >= FlowCapacity
                         THEN 1 ELSE 0}

FlowExpiry == now + UDP_FLOW_TTL

\* Every packet out renews its flow; nothing is ever dropped here
Egress(q) ==
  /\ ops < MaxOps /\ recorder
  /\ \E gone \in Evict(FlowOf(q)) :
       /\ flows' = [f \in Flows |-> CASE f = FlowOf(q) -> FlowExpiry
                                      [] f \in gone -> NoEntry
                                      [] OTHER -> flows[f]]
       /\ evicted' = (evicted \/ \E f \in gone : Live(flows[f]))
  /\ asked' = [asked EXCEPT ![FlowOf(q)] = now]
  /\ ops' = ops + 1
  /\ UNCHANGED <<now, blocklist, feeds, settings, recorder, ring, stats, seen>>

-----------------------------------------------------------------------------
(* What the daemon and the rest of the world do to the maps *)

\* The event reader takes an event out
ReadEvent ==
  /\ ring > 0
  /\ ring' = ring - 1
  /\ seen' = [seen EXCEPT !.events = @ + 1]
  /\ UNCHANGED <<now, blocklist, feeds, flows, settings, recorder, stats, ops, asked, evicted>>

\* apply_config, and the UDP mode of the loop: strict only with the recorder
SetConfig ==
  /\ ops < MaxOps
  /\ enforce' \in BOOLEAN /\ drop_ping' \in BOOLEAN
  /\ strict' \in {FALSE, recorder}
  /\ ops' = ops + 1
  /\ UNCHANGED <<now, blocklist, feeds, flows, recorder, ring, stats, asked, evicted, seen>>

\* A ban is written or lifted, the feeds are loaded (BanLifecycle, Feeds)
SetLists ==
  /\ ops < MaxOps
  /\ \/ \E s \in Banned, e \in {NoEntry, BAN_FOREVER, now + 1} :
          blocklist' = [blocklist EXCEPT ![s] = e] /\ feeds' = feeds
     \/ feeds' \in SUBSET (Hosts \ V6) /\ blocklist' = blocklist
  /\ ops' = ops + 1
  /\ UNCHANGED <<now, flows, settings, recorder, ring, stats, asked, evicted, seen>>

\* heal attaches the egress program, or fails to and strict UDP goes with it
SetRecorder ==
  /\ ops < MaxOps
  /\ recorder' = ~recorder
  /\ strict' \in {FALSE, recorder'}
  /\ ops' = ops + 1
  /\ UNCHANGED <<now, blocklist, feeds, flows, enforce, drop_ping, ring, stats, asked, evicted, seen>>

\* The maps of a new process, as it has filled them before it takes over
FreshProcess ==
  /\ feeds' \in SUBSET (Hosts \ V6)
  /\ strict' = FALSE
  /\ enforce' \in BOOLEAN /\ drop_ping' \in BOOLEAN
  /\ ring' = 0 /\ stats' = Zero
  /\ seen' = [packets |-> 0, events |-> 0, interesting |-> 0]

\* A new daemon takes the links over: its own settings, counters and buffer
Restart ==
  /\ ops < MaxOps
  /\ FreshProcess
  /\ ops' = ops + 1
  /\ UNCHANGED <<now, blocklist, flows, recorder, asked, evicted>>

\* bpffs goes: bans, flows and links with it
Reboot ==
  /\ ops < MaxOps
  /\ FreshProcess
  /\ blocklist' = [s \in Banned |-> NoEntry]
  /\ flows' = [f \in Flows |-> NoEntry]
  /\ asked' = [f \in Flows |-> NoEntry]
  /\ recorder' = FALSE /\ evicted' = FALSE
  /\ ops' = ops + 1
  /\ UNCHANGED now

Tick ==
  /\ now < Horizon
  /\ now' = now + 1
  /\ UNCHANGED <<blocklist, feeds, flows, settings, recorder, ring, stats, ops, asked, evicted, seen>>

Next ==
  \/ \E p \in Packets : Ingress(p)
  \/ \E q \in Queries : Egress(q)
  \/ ReadEvent \/ SetConfig \/ SetLists \/ SetRecorder \/ Restart \/ Reboot \/ Tick

Spec == Init /\ [][Next]_vars

-----------------------------------------------------------------------------
Wanted(p, f) == p.kind = "udp" /\ f \in FlowsFor(p)
Recent(f) == asked[f] # NoEntry /\ now - asked[f] < UDP_FLOW_TTL

\* README.md:29 "UDP is let in ... as a reply to a flow you started": an answer
\* to a query sent less than the time-out ago gets in, whatever restarts and
\* settings came in between, unless its sender is banned or on a feed.
AnswersGetIn ==
  \A p \in Packets, f \in Flows :
    Wanted(p, f) /\ Recent(f) /\ ~evicted /\ ~Known(p) => Passes(p, FALSE)

\* Under strict UDP nothing else gets in: a UDP packet to a port that is not
\* open to its sender answers a query that was really sent, to this sender or
\* to everyone, within the time-out (CFG_UDP_STRICT, ebpf main.rs:397).
OnlyAnswersGetIn ==
  enforce /\ strict =>
    \A p \in Packets :
      p.kind = "udp" /\ ~OpenTo(p) /\ Passes(p, FALSE) => \E f \in FlowsFor(p) : Recent(f)

\* No packet and no event goes missing unnoticed: every packet is in one of the
\* four counters, and every event was read, is waiting or is counted as lost.
Accounted ==
  /\ stats["passed"] + stats["blocklist"] + stats["feed"] + stats["policy"] = seen.packets
  /\ ring + seen.events + stats["lost"] = seen.interesting
=============================================================================
