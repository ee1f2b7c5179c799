------------------------- MODULE PacketFilterProofs -------------------------
(***************************************************************************)
(* Proofs about the packet filter.  The flow maps and the queries that     *)
(* were really sent are tied together by FlowsFollowQueries, from which    *)
(* both directions of the UDP rule follow.                                 *)
(***************************************************************************)
EXTENDS PacketFilter, TLAPS

LEMMA FlowOfQuery == ASSUME NEW q \in Queries PROVE FlowOf(q) \in Flows
BY DEF Flows

(* Every packet ends in one of four counters. *)
LEMMA CounterIsOneOfFour ==
  ASSUME NEW p, NEW over
  PROVE  Counter(p, over) \in {"passed", "blocklist", "feed", "policy"}
BY DEF Counter, Known

LEMMA PassesMeans ==
  ASSUME NEW p, NEW over
  PROVE  Passes(p, over) <=> ~Known(p) /\ ~Refused(p, over)
BY DEF Passes, Counter, Known

(* What a verdict does to the counters. *)
LEMMA IngressCounts ==
  ASSUME TypeOK, NEW p \in Packets, Ingress(p)
  PROVE  /\ \E c \in {"passed", "blocklist", "feed", "policy"} :
              stats' = [stats EXCEPT ![c] = @ + 1, !["lost"] = @ + (IF Lost(p) THEN 1 ELSE 0)]
         /\ stats' \in [Stats -> Nat]
<1>1. PICK over \in RateAnswers(p) :
        stats' = [stats EXCEPT ![Counter(p, over)] = @ + 1,
                               !["lost"] = @ + (IF Lost(p) THEN 1 ELSE 0)]
  BY DEF Ingress
<1>2. PICK c \in {"passed", "blocklist", "feed", "policy"} : c = Counter(p, over)
  BY CounterIsOneOfFour
<1>3. stats' = [stats EXCEPT ![c] = @ + 1, !["lost"] = @ + (IF Lost(p) THEN 1 ELSE 0)]
  BY <1>1, <1>2
<1>4. stats' \in [Stats -> Nat]
  BY <1>3 DEF TypeOK, Stats
<1> QED
  BY <1>3, <1>4

LEMMA FreshProcessTypes ==
  ASSUME FreshProcess
  PROVE  /\ feeds' \subseteq Hosts \ V6 /\ ring' \in Nat /\ stats' \in [Stats -> Nat]
         /\ enforce' \in BOOLEAN /\ strict' \in BOOLEAN /\ drop_ping' \in BOOLEAN
         /\ seen' \in [packets : Nat, events : Nat, interesting : Nat]
BY DEF FreshProcess, Zero, Stats

LEMMA EgressTypes ==
  ASSUME TypeOK, NEW q \in Queries, Egress(q)
  PROVE  flows' \in [Flows -> Expiry] /\ asked' \in [Flows -> Expiry] /\ evicted' \in BOOLEAN
<1>1. FlowOf(q) \in Flows
  BY FlowOfQuery
<1>2. now \in Nat /\ FlowExpiry \in Expiry /\ NoEntry \in Expiry
  BY FilterAssumption DEF TypeOK, FlowExpiry, Expiry, NoEntry
<1>3. PICK gone \in SUBSET Flows :
        /\ flows' = [f \in Flows |-> CASE f = FlowOf(q) -> FlowExpiry
                                       [] f \in gone -> NoEntry
                                       [] OTHER -> flows[f]]
        /\ FlowOf(q) \notin gone
        /\ evicted' = (evicted \/ \E f \in gone : Live(flows[f]))
  BY DEF Egress, Evict, Used
<1>4. \A f \in Flows : flows'[f] \in {FlowExpiry, NoEntry, flows[f]}
  <2> SUFFICES ASSUME NEW f \in Flows PROVE flows'[f] \in {FlowExpiry, NoEntry, flows[f]}
    OBVIOUS
  <2>1. flows'[f] = CASE f = FlowOf(q) -> FlowExpiry [] f \in gone -> NoEntry
                      [] OTHER -> flows[f]
    BY <1>3
  <2> QED
    BY <1>3, <2>1
<1>5. flows' \in [Flows -> Expiry]
  BY <1>2, <1>3, <1>4 DEF TypeOK
<1>6. asked' \in [Flows -> Expiry]
  BY <1>1, <1>2 DEF Egress, TypeOK, Expiry
<1>7. evicted' \in BOOLEAN
  BY <1>3 DEF TypeOK
<1> QED
  BY <1>5, <1>6, <1>7

LEMMA NextKeepsTypes == TypeOK /\ [Next]_vars => TypeOK'
<1> SUFFICES ASSUME TypeOK, [Next]_vars PROVE TypeOK'
  OBVIOUS
<1>1. ASSUME NEW p \in Packets, Ingress(p) PROVE TypeOK'
  <2>1. stats' \in [Stats -> Nat]
    BY <1>1, IngressCounts
  <2>2. seen' \in [packets : Nat, events : Nat, interesting : Nat] /\ ring' \in Nat /\ ops' \in Nat
    <3> DEFINE n == IF Reported(p) THEN 1 ELSE 0
    <3>1. n \in Nat
      OBVIOUS
    <3>2. /\ seen' = [seen EXCEPT !.packets = @ + 1, !.interesting = @ + n]
          /\ ring' \in {ring, ring + 1} /\ ops' = ops + 1
      BY <1>1 DEF Ingress
    <3> HIDE DEF n
    <3>3. seen' \in [packets : Nat, events : Nat, interesting : Nat]
      <4>1. PICK a \in Nat, b \in Nat, c \in Nat :
              seen = [packets |-> a, events |-> b, interesting |-> c]
        BY DEF TypeOK
      <4>2. seen' = [packets |-> a + 1, events |-> b, interesting |-> c + n]
        BY <3>2, <4>1
      <4>3. a + 1 \in Nat /\ c + n \in Nat
        BY <3>1
      <4> QED
        BY <4>2, <4>3
    <3>4. ring' \in Nat /\ ops' \in Nat
      BY <3>2 DEF TypeOK
    <3> QED
      BY <3>3, <3>4
  <2> QED
    BY <1>1, <2>1, <2>2 DEF Ingress, TypeOK, settings
<1>2. ASSUME NEW q \in Queries, Egress(q) PROVE TypeOK'
  <2>1. flows' \in [Flows -> Expiry] /\ asked' \in [Flows -> Expiry] /\ evicted' \in BOOLEAN
    BY <1>2, EgressTypes
  <2> QED
    BY <1>2, <2>1 DEF Egress, TypeOK, settings
<1>3. CASE ReadEvent
  <2>1. ring' \in Nat /\ seen' \in [packets : Nat, events : Nat, interesting : Nat]
    BY <1>3 DEF ReadEvent, TypeOK
  <2> QED
    BY <1>3, <2>1 DEF ReadEvent, TypeOK, settings
<1>4. CASE SetConfig
  <2>1. strict' \in BOOLEAN /\ enforce' \in BOOLEAN /\ drop_ping' \in BOOLEAN
    BY <1>4, Zenon DEF SetConfig, TypeOK
  <2> QED
    BY <1>4, <2>1 DEF SetConfig, TypeOK
<1>5. CASE SetLists
  <2>1. blocklist' \in [Banned -> Expiry]
    BY <1>5 DEF SetLists, TypeOK, Expiry, NoEntry, BAN_FOREVER
  <2> QED
    BY <1>5, <2>1 DEF SetLists, TypeOK, settings
<1>6. CASE SetRecorder
  <2>1. strict' \in BOOLEAN /\ recorder' \in BOOLEAN
    BY <1>6, Zenon DEF SetRecorder, TypeOK
  <2> QED
    BY <1>6, <2>1 DEF SetRecorder, TypeOK
<1>7. CASE Restart
  BY <1>7, FreshProcessTypes DEF Restart, TypeOK
<1>8. CASE Reboot
  <2>1. /\ blocklist' \in [Banned -> Expiry] /\ flows' \in [Flows -> Expiry]
        /\ asked' \in [Flows -> Expiry]
    BY <1>8 DEF Reboot, Expiry
  <2>2. recorder' \in BOOLEAN /\ evicted' \in BOOLEAN
    BY <1>8 DEF Reboot
  <2>3. ops' \in Nat /\ now' \in Nat
    BY <1>8 DEF Reboot, TypeOK
  <2> QED
    BY <1>8, <2>1, <2>2, <2>3, FreshProcessTypes DEF Reboot, TypeOK
<1>9. CASE Tick
  BY <1>9 DEF Tick, TypeOK, settings
<1>10. CASE UNCHANGED vars
  BY <1>10 DEF vars, TypeOK, settings
<1> QED
  BY <1>1, <1>2, <1>3, <1>4, <1>5, <1>6, <1>7, <1>8, <1>9, <1>10 DEF Next

(* The filter's state stays in its types, whatever comes in and goes out. *)
THEOREM TypeCorrect == Spec => []TypeOK
<1>1. Init => TypeOK
  <2> SUFFICES ASSUME Init PROVE TypeOK
    OBVIOUS
  <2>1. /\ blocklist \in [Banned -> Expiry] /\ flows \in [Flows -> Expiry]
        /\ asked \in [Flows -> Expiry]
    BY DEF Init, Expiry
  <2>2. stats \in [Stats -> Nat] /\ seen \in [packets : Nat, events : Nat, interesting : Nat]
    BY DEF Init, Zero
  <2> QED
    BY <2>1, <2>2 DEF Init, TypeOK
<1> QED
  BY <1>1, NextKeepsTypes, PTL DEF Spec

-----------------------------------------------------------------------------
(* UDP flows.  An entry ends one time-out after the last query for it, and   *)
(* until the kernel gives a live entry away, a recent query has its entry.   *)
FlowsFollowQueries ==
  \A f \in Flows :
    /\ flows[f] # NoEntry => asked[f] # NoEntry /\ flows[f] = asked[f] + UDP_FLOW_TTL
    /\ ~evicted /\ Recent(f) => flows[f] = asked[f] + UDP_FLOW_TTL

(* Where neither map nor query changes, time only makes queries less recent. *)
LEMMA FlowsUntouched ==
  ASSUME TypeOK, FlowsFollowQueries, UNCHANGED <<flows, asked, evicted>>, now' \in {now, now + 1}
  PROVE  FlowsFollowQueries'
<1> SUFFICES ASSUME NEW f \in Flows
             PROVE  /\ flows[f] # NoEntry => asked[f] # NoEntry /\ flows[f] = asked[f] + UDP_FLOW_TTL
                    /\ ~evicted /\ Recent(f)' => flows[f] = asked[f] + UDP_FLOW_TTL
  BY DEF FlowsFollowQueries
<1>1. now \in Nat /\ asked[f] \in Expiry /\ UDP_FLOW_TTL \in Nat
  BY FilterAssumption DEF TypeOK
<1>2. Recent(f)' => Recent(f)
  BY <1>1 DEF Recent, Expiry, NoEntry
<1> QED
  BY <1>2 DEF FlowsFollowQueries

(* The query's own entry is written, and an entry that is given away while   *)
(* its query is recent is noticed.                                           *)
LEMMA EgressRecords ==
  ASSUME TypeOK, FlowsFollowQueries, NEW q \in Queries, Egress(q)
  PROVE  FlowsFollowQueries'
<1>1. FlowOf(q) \in Flows /\ now \in Nat /\ UDP_FLOW_TTL \in Nat \ {0} /\ now' = now
  BY FlowOfQuery, FilterAssumption DEF TypeOK, Egress
<1>2. PICK gone \in SUBSET Flows :
        /\ flows' = [f \in Flows |-> CASE f = FlowOf(q) -> FlowExpiry
                                       [] f \in gone -> NoEntry
                                       [] OTHER -> flows[f]]
        /\ FlowOf(q) \notin gone
        /\ evicted' = (evicted \/ \E f \in gone : Live(flows[f]))
  BY DEF Egress, Evict, Used
<1> SUFFICES ASSUME NEW f \in Flows
             PROVE  /\ flows'[f] # NoEntry => asked'[f] # NoEntry /\ flows'[f] = asked'[f] + UDP_FLOW_TTL
                    /\ ~evicted' /\ Recent(f)' => flows'[f] = asked'[f] + UDP_FLOW_TTL
  BY DEF FlowsFollowQueries
<1>3. flows'[f] = CASE f = FlowOf(q) -> FlowExpiry [] f \in gone -> NoEntry
                    [] OTHER -> flows[f]
  BY <1>2
<1>4. CASE f = FlowOf(q)
  <2>1. flows'[f] = now + UDP_FLOW_TTL /\ asked'[f] = now
    BY <1>1, <1>2, <1>3, <1>4 DEF Egress, FlowExpiry, TypeOK
  <2> QED
    BY <1>1, <2>1 DEF NoEntry
<1>5. CASE f # FlowOf(q)
  <2>1. asked'[f] = asked[f] /\ (Recent(f)' <=> Recent(f))
    BY <1>1, <1>5 DEF Egress, TypeOK, Recent
  <2>2. /\ flows[f] # NoEntry => asked[f] # NoEntry /\ flows[f] = asked[f] + UDP_FLOW_TTL
        /\ ~evicted /\ Recent(f) => flows[f] = asked[f] + UDP_FLOW_TTL
    BY DEF FlowsFollowQueries
  <2>3. CASE f \in gone
    <3>1. flows'[f] = NoEntry
      BY <1>3, <1>5, <2>3
    <3>2. ASSUME ~evicted', Recent(f)' PROVE FALSE
      <4>1. ~evicted /\ ~Live(flows[f])
        BY <1>2, <2>3, <3>2, Zenon
      <4>2. flows[f] = asked[f] + UDP_FLOW_TTL /\ Recent(f)
        BY <2>1, <2>2, <3>2, <4>1
      <4>3. asked[f] \in Nat
        BY <4>2 DEF Recent, TypeOK, Expiry
      <4> QED
        BY <1>1, <4>1, <4>2, <4>3 DEF Live, Recent, NoEntry, BAN_FOREVER
    <3> QED
      BY <3>1, <3>2
  <2>4. CASE f \notin gone
    <3>1. flows'[f] = flows[f]
      BY <1>3, <1>5, <2>4
    <3>2. ~evicted' => ~evicted
      BY <1>2, Zenon
    <3> QED
      BY <2>1, <2>2, <3>1, <3>2
  <2> QED
    BY <2>3, <2>4
<1> QED
  BY <1>4, <1>5

LEMMA NextKeepsFlows == TypeOK /\ FlowsFollowQueries /\ [Next]_vars => FlowsFollowQueries'
<1> SUFFICES ASSUME TypeOK, FlowsFollowQueries, [Next]_vars PROVE FlowsFollowQueries'
  OBVIOUS
<1>1. ASSUME NEW p \in Packets, Ingress(p) PROVE FlowsFollowQueries'
  BY <1>1, FlowsUntouched DEF Ingress
<1>2. ASSUME NEW q \in Queries, Egress(q) PROVE FlowsFollowQueries'
  BY <1>2, EgressRecords
<1>3. CASE ReadEvent \/ SetConfig \/ SetLists \/ SetRecorder \/ Restart \/ Tick \/ UNCHANGED vars
  BY <1>3, FlowsUntouched
  DEF ReadEvent, SetConfig, SetLists, SetRecorder, Restart, Tick, vars
<1>4. CASE Reboot
  BY <1>4 DEF Reboot, FlowsFollowQueries, Recent
<1> QED
  BY <1>1, <1>2, <1>3, <1>4 DEF Next

THEOREM FlowsAlwaysFollow == Spec => []FlowsFollowQueries
<1>1. Init => FlowsFollowQueries
  BY DEF Init, FlowsFollowQueries, Recent
<1> QED
  BY <1>1, TypeCorrect, NextKeepsFlows, PTL DEF Spec

(* An entry counts exactly as long as its query is recent. *)
LEMMA LiveIsRecent ==
  ASSUME TypeOK, FlowsFollowQueries, NEW f \in Flows
  PROVE  /\ Live(flows[f]) => Recent(f)
         /\ ~evicted /\ Recent(f) => Live(flows[f])
<1>1. now \in Nat /\ asked[f] \in Expiry /\ flows[f] \in Expiry /\ UDP_FLOW_TTL \in Nat \ {0}
  BY FilterAssumption DEF TypeOK
<1> QED
  BY <1>1 DEF FlowsFollowQueries, Live, Recent, Expiry, NoEntry, BAN_FOREVER

(* README.md:29, ebpf main.rs `policy`, `try_egress`: the answer to a recent *)
(* query gets in, through restarts and changes of every setting.             *)
THEOREM AnswersAlwaysGetIn == Spec => []AnswersGetIn
<1>1. TypeOK /\ FlowsFollowQueries => AnswersGetIn
  <2> SUFFICES ASSUME TypeOK, FlowsFollowQueries, NEW p \in Packets, NEW f \in Flows,
                      Wanted(p, f), Recent(f), ~evicted, ~Known(p)
               PROVE  Passes(p, FALSE)
    BY DEF AnswersGetIn
  <2>1. p.kind = "udp" /\ Reply(p)
    BY LiveIsRecent DEF Wanted, Reply
  <2>2. ~Refused(p, FALSE)
    BY <2>1 DEF Refused, Allowed, IsReply
  <2> QED
    BY <2>2, PassesMeans
<1> QED
  BY <1>1, TypeCorrect, FlowsAlwaysFollow, PTL

(* CFG_UDP_STRICT: what gets in to a closed port answers a query that was    *)
(* really sent within the time-out.                                          *)
THEOREM OnlyAnswersEverGetIn == Spec => []OnlyAnswersGetIn
<1>1. TypeOK /\ FlowsFollowQueries => OnlyAnswersGetIn
  <2> SUFFICES ASSUME TypeOK, FlowsFollowQueries, enforce, strict, NEW p \in Packets,
                      p.kind = "udp", ~OpenTo(p), Passes(p, FALSE)
               PROVE  \E f \in FlowsFor(p) : Recent(f)
    BY DEF OnlyAnswersGetIn
  <2>1. ~Refused(p, FALSE)
    BY PassesMeans
  <2>2. IsReply(p)
    BY <2>1 DEF Refused, Allowed
  <2>3. Reply(p)
    BY <2>2 DEF IsReply, LooseReply
  <2>4. \A f \in FlowsFor(p) : f \in Flows
    BY DEF FlowsFor
  <2> QED
    BY <2>3, <2>4, LiveIsRecent DEF Reply
<1> QED
  BY <1>1, TypeCorrect, FlowsAlwaysFollow, PTL

-----------------------------------------------------------------------------
(* The books.  The buffer never holds more than fits, so an event that finds *)
(* no room is the one that is counted as lost.                               *)
Books == Accounted /\ ring <= RingSize

LEMMA BooksUntouched ==
  ASSUME Books, UNCHANGED <<stats, ring, seen>>
  PROVE  Books'
BY DEF Books, Accounted

LEMMA FreshBooks ==
  ASSUME FreshProcess
  PROVE  Books'
<1>1. /\ stats'["passed"] = 0 /\ stats'["blocklist"] = 0 /\ stats'["feed"] = 0
      /\ stats'["policy"] = 0 /\ stats'["lost"] = 0
  BY DEF FreshProcess, Zero, Stats
<1>2. ring' = 0 /\ seen'.packets = 0 /\ seen'.events = 0 /\ seen'.interesting = 0
  BY DEF FreshProcess
<1> QED
  BY <1>1, <1>2, FilterAssumption DEF Books, Accounted

LEMMA IngressKeepsBooks ==
  ASSUME TypeOK, Books, NEW p \in Packets, Ingress(p)
  PROVE  Books'
<1>1. PICK c \in {"passed", "blocklist", "feed", "policy"} :
        stats' = [stats EXCEPT ![c] = @ + 1, !["lost"] = @ + (IF Lost(p) THEN 1 ELSE 0)]
  BY IngressCounts
<1>2. /\ stats["passed"] \in Nat /\ stats["blocklist"] \in Nat /\ stats["feed"] \in Nat
      /\ stats["policy"] \in Nat /\ stats["lost"] \in Nat /\ ring \in Nat
      /\ seen.packets \in Nat /\ seen.events \in Nat /\ seen.interesting \in Nat
  BY DEF TypeOK, Stats
<1>3. /\ seen'.packets = seen.packets + 1 /\ seen'.events = seen.events
      /\ seen'.interesting = seen.interesting + (IF Reported(p) THEN 1 ELSE 0)
  BY DEF Ingress, TypeOK
<1>4. stats'["passed"] + stats'["blocklist"] + stats'["feed"] + stats'["policy"] = seen'.packets
  <2>1. /\ stats'["passed"] = stats["passed"] + (IF c = "passed" THEN 1 ELSE 0)
        /\ stats'["blocklist"] = stats["blocklist"] + (IF c = "blocklist" THEN 1 ELSE 0)
        /\ stats'["feed"] = stats["feed"] + (IF c = "feed" THEN 1 ELSE 0)
        /\ stats'["policy"] = stats["policy"] + (IF c = "policy" THEN 1 ELSE 0)
    BY <1>1, <1>2 DEF TypeOK, Stats
  <2> QED
    BY <1>1, <1>2, <1>3, <2>1 DEF Books, Accounted
<1>5. ring' + seen'.events + stats'["lost"] = seen'.interesting
  <2>1. stats'["lost"] = stats["lost"] + (IF Lost(p) THEN 1 ELSE 0)
    BY <1>1 DEF TypeOK, Stats
  <2>2. CASE ~Reported(p)
    BY <1>2, <1>3, <2>1, <2>2 DEF Ingress, Lost, Books, Accounted
  <2>3. CASE Reported(p) /\ ring < RingSize
    <3>1. ~Lost(p) /\ ring' = ring + 1
      BY <1>2, <2>3, FilterAssumption DEF Ingress, Lost
    <3> QED
      BY <1>2, <1>3, <2>1, <2>3, <3>1 DEF Books, Accounted
  <2>4. CASE Reported(p) /\ ring = RingSize
    <3>1. Lost(p) /\ ring' = ring
      BY <1>2, <2>4, FilterAssumption DEF Ingress, Lost
    <3> QED
      BY <1>2, <1>3, <2>1, <2>4, <3>1 DEF Books, Accounted
  <2> QED
    BY <1>2, <2>2, <2>3, <2>4, FilterAssumption DEF Books
<1>6. ring' <= RingSize
  BY <1>2, FilterAssumption DEF Ingress, Books
<1> QED
  BY <1>4, <1>5, <1>6 DEF Books, Accounted

LEMMA NextKeepsBooks == TypeOK /\ Books /\ [Next]_vars => Books'
<1> SUFFICES ASSUME TypeOK, Books, [Next]_vars PROVE Books'
  OBVIOUS
<1>1. ASSUME NEW p \in Packets, Ingress(p) PROVE Books'
  BY <1>1, IngressKeepsBooks
<1>2. ASSUME NEW q \in Queries, Egress(q) PROVE Books'
  BY <1>2, BooksUntouched DEF Egress
<1>3. CASE SetConfig \/ SetLists \/ SetRecorder \/ Tick \/ UNCHANGED vars
  BY <1>3, BooksUntouched DEF SetConfig, SetLists, SetRecorder, Tick, vars
<1>4. CASE ReadEvent
  <2>1. PICK a \in Nat, b \in Nat, c \in Nat :
          seen = [packets |-> a, events |-> b, interesting |-> c]
    BY DEF TypeOK
  <2>2. seen' = [packets |-> a, events |-> b + 1, interesting |-> c]
    BY <1>4, <2>1 DEF ReadEvent
  <2>3. ring \in Nat /\ stats["lost"] \in Nat /\ ring' = ring - 1 /\ stats' = stats
    BY <1>4 DEF ReadEvent, TypeOK, Stats
  <2>4. ring' + seen'.events + stats'["lost"] = seen'.interesting
    BY <2>1, <2>2, <2>3 DEF Books, Accounted
  <2>5. ring' <= RingSize
    BY <2>3, FilterAssumption DEF Books
  <2> QED
    BY <2>1, <2>2, <2>3, <2>4, <2>5 DEF Books, Accounted
<1>5. CASE Restart \/ Reboot
  BY <1>5, FreshBooks DEF Restart, Reboot
<1> QED
  BY <1>1, <1>2, <1>3, <1>4, <1>5 DEF Next

(* STATS and EVENTS, ebpf main.rs `count`, `report`: every packet is counted *)
(* once, and an event that no longer fits is counted as lost.                *)
THEOREM AlwaysAccounted == Spec => []Accounted
<1>1. Init => Books
  <2> SUFFICES ASSUME Init PROVE Books
    OBVIOUS
  <2>1. /\ stats["passed"] = 0 /\ stats["blocklist"] = 0 /\ stats["feed"] = 0
        /\ stats["policy"] = 0 /\ stats["lost"] = 0
    BY DEF Init, Zero, Stats
  <2> QED
    BY <2>1, FilterAssumption DEF Init, Books, Accounted
<1>2. Books => Accounted
  BY DEF Books
<1> QED
  BY <1>1, <1>2, TypeCorrect, NextKeepsBooks, PTL DEF Spec
=============================================================================
