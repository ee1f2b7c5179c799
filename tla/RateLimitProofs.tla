-------------------------- MODULE RateLimitProofs --------------------------
(***************************************************************************)
(* Proofs about RateLimit.                                                 *)
(*                                                                         *)
(* SilenceForgives holds however the calls interleave.  The argument       *)
(* follows the window's beginning: it is the time of an attempt of the     *)
(* source, and of one that has written it, so not of a call that is still  *)
(* to compare it with its own time.  When the comparison lets a call go on *)
(* to count, that attempt is within the window and is not the call's own.  *)
(*                                                                         *)
(* The exact counts need calls that do not overlap (`mixed` is FALSE) and  *)
(* an entry that stays with its source (`evicted` is FALSE).  Then the     *)
(* count of an entry lies between the attempts let through and the         *)
(* attempts made since the window began.                                   *)
(***************************************************************************)
EXTENDS RateLimit, FiniteSetTheorems, TLAPS

\* The calls that have still to compare their time with the window
Ahead == {"lookup", "insert", "check"}
Counting == {"read", "bump"}
Restarting == {"restart", "recount", "rewindow"}

\* The attempt the call on c is about
Own(c) == [id |-> pkt[c].id, t |-> pkt[c].t]

\* Packets are numbered as they come, and no attempt is dated after the clock
Numbered ==
  /\ now <= Horizon
  /\ \A k \in Keys : \A q \in tried[k] : q.id < packets /\ q.t <= now
  /\ \A c \in CPUs : step[c] # "idle" => Own(c) \in tried[pkt[c].key]
  /\ \A c, d \in CPUs : step[c] # "idle" /\ step[d] # "idle" /\ c # d => pkt[c].id # pkt[d].id

\* The entry a call points to belongs to its source, or to none any more
Pointers ==
  ~evicted => \A c \in CPUs : step[c] \in Pointing =>
    /\ Entry(c).key \in {NoKey, pkt[c].key}
    /\ \A d \in CPUs : step[d] \in Pointing /\ at[d] = at[c] => pkt[d].key = pkt[c].key

\* One of the attempts T was made at t, by none of the packets ids
Author(T, ids, t) == \E q \in T : q.t = t /\ q.id \notin ids

AheadIds == {pkt[c].id : c \in {d \in CPUs : step[d] \in Ahead}}

\* A window began with an attempt whose call is past the comparison
Authored ==
  ~evicted =>
    /\ \A s \in Slots : mem[s].key \in Keys =>
         Author(tried[mem[s].key], AheadIds, mem[s].window_start)
    /\ \A c \in CPUs : step[c] \in Pointing =>
         Author(tried[pkt[c].key], AheadIds, mem[at[c]].window_start)

Passed == ~evicted => \A c \in CPUs : step[c] \in Counting => TriedBefore(pkt[c])

SilenceInv == TypeOK /\ Numbered /\ Pointers /\ Authored /\ Passed /\ SilenceForgives

-----------------------------------------------------------------------------
Quiet == ~evicted /\ ~mixed

\* One call at a time, all under one limit, each later than the last
Serial ==
  ~mixed =>
    /\ \A r1, r2 \in rate : r1 = r2
    /\ \A c \in CPUs : step[c] # "idle" =>
         /\ pkt[c].limit \in rate
         /\ \A d \in CPUs : step[d] # "idle" => d = c
         /\ \A k \in Keys : \A q \in tried[k] : q.t <= pkt[c].t

\* A key has one entry
OneEntry == \A s, u \in Slots : mem[s].key \in Keys /\ mem[s].key = mem[u].key => s = u

\* What the call on c has found out about its entry
FoundBy(c) ==
  /\ step[c] \in Pointing => mem[at[c]].key = pkt[c].key
  /\ step[c] = "insert" => \A s \in Slots : mem[s].key # pkt[c].key
  /\ step[c] \in Counting => /\ mem[at[c]].window_start <= pkt[c].t
                             /\ pkt[c].t <= mem[at[c]].window_start + pkt[c].limit.window
  /\ step[c] = "bump" => reg[c] = mem[at[c]].count
  /\ step[c] = "recount" => mem[at[c]].window_start = pkt[c].t
  /\ step[c] = "rewindow" => mem[at[c]].count = 1

Found == Quiet => \A c \in CPUs : FoundBy(c)

\* The entry of slot s is not between the two stores of a new window
Settled(s) == mem[s].key \in Keys /\ \A c \in CPUs : step[c] \in Restarting => at[c] # s

BusyIds == {pkt[c].id : c \in {d \in CPUs : step[d] # "idle"}}

\* Those of the attempts T that no packet of ids makes
Judged(T, ids) == {q \in T : q.id \notin ids}

Since(S, t) == {q \in S : t <= q.t}

\* An entry counts no more than the attempts judged since its window began
Counted ==
  Quiet => \A s \in Slots : Settled(s) =>
    mem[s].count <= Cardinality(Since(Judged(tried[mem[s].key], BusyIds), mem[s].window_start))

Finite == \A k \in Keys : IsFiniteSet(tried[k]) /\ admitted[k] \subseteq tried[k]

CauseInv ==
  SilenceInv /\ Finite /\ Serial /\ OneEntry /\ Found /\ Counted /\ DroppedForCause

-----------------------------------------------------------------------------
\* A source without an entry was never let in
Unknown ==
  Quiet => \A k \in Keys : (\A s \in Slots : mem[s].key # k) => admitted[k] = {}

\* Of those let in, A: none came after the window that began at start, no more
\* than the count and the limit in it, no more than the limit in as long before it
Holds(A, start, count, r) ==
  /\ \A q \in A : q.t <= start + r.window
  /\ Cardinality(Since(A, start)) <= count
  /\ Cardinality(Since(A, start)) <= r.max
  /\ Cardinality(Within(A, start - r.window, start - 1)) <= r.max

WindowHolds ==
  Quiet => \A s \in Slots, r \in rate : Settled(s) =>
    Holds(admitted[mem[s].key], mem[s].window_start, mem[s].count, r)

\* Time t is past all of A, with no more than the limit in the window before it
After(A, t, r) ==
  /\ \A q \in A : q.t < t
  /\ Cardinality(Since(A, t - r.window)) <= r.max

RestartHolds ==
  Quiet => \A c \in CPUs : step[c] \in Restarting =>
    After(admitted[pkt[c].key], pkt[c].t, pkt[c].limit)

TwicePerWindow(A, r) ==
  \A start \in Int : Cardinality(Within(A, start, start + r.window)) <= 2 * r.max

AnyWindow == Quiet => \A k \in Keys, r \in rate : TwicePerWindow(admitted[k], r)

Bounds == Unknown /\ WindowHolds /\ RestartHolds /\ AnyWindow

BoundInv == CauseInv /\ Bounds

-----------------------------------------------------------------------------
(* Types                                                                   *)

\* An attempt let through joins those of its source
LEMMA AdmitType ==
  ASSUME TypeOK, NEW c \in CPUs, step[c] # "idle", Admit(c)
  PROVE  /\ step' = [step EXCEPT ![c] = "idle"]
         /\ admitted' \in [Keys -> SUBSET Attempt]
         /\ dropped' = {}
BY DEF Admit, Goto, TypeOK, Packet, Attempt

LEMMA TypeInit == Init => TypeOK
<1> SUFFICES ASSUME Init PROVE TypeOK
  OBVIOUS
<1>1. rate \in SUBSET Rates
  BY DEF Init
<1>2. evicted \in BOOLEAN /\ mixed \in BOOLEAN
  BY DEF Init
<1>3. /\ step \in [CPUs -> Steps] /\ mem \in [Slots -> RateState]
      /\ DOMAIN pkt = CPUs /\ \A c \in CPUs : step[c] = "idle"
  BY DEF Init, RateState, Steps
<1> QED
  BY <1>1, <1>2, <1>3 DEF Init, TypeOK

LEMMA TypeStep == TypeOK /\ [Next]_vars => TypeOK'
<1> SUFFICES ASSUME TypeOK, [Next]_vars PROVE TypeOK'
  OBVIOUS
<1>1. CASE UNCHANGED vars
  BY <1>1 DEF vars, call, TypeOK
<1>2. ASSUME NEW c \in CPUs, NEW k \in Keys, Arrive(c, k) PROVE TypeOK'
  <2>1. PICK r \in rate : pkt' = [pkt EXCEPT ![c] = [key |-> k, id |-> packets, t |-> now, limit |-> r]]
    BY <1>2 DEF Arrive
  <2>2. /\ DOMAIN pkt' = CPUs /\ \A d \in CPUs : step'[d] # "idle" => pkt'[d] \in Packet
        /\ step' \in [CPUs -> Steps]
    BY <1>2, <2>1 DEF Arrive, TypeOK, Goto, Steps, Packet
  <2>3. tried' \in [Keys -> SUBSET Attempt]
    BY <1>2 DEF Arrive, TypeOK, Attempt
  <2>4. mixed' \in BOOLEAN
    BY <1>2 DEF Arrive
  <2> QED
    BY <1>2, <2>2, <2>3, <2>4 DEF Arrive, TypeOK
<1>3. ASSUME NEW c \in CPUs, Lookup(c) PROVE TypeOK'
  BY <1>3 DEF Lookup, TypeOK, Goto, Steps
<1>4. ASSUME NEW c \in CPUs, Insert(c) PROVE TypeOK'
  <2>1. PICK s \in Slots : mem' = Placed(s, pkt[c].key, pkt[c].t)
    BY <1>4 DEF Insert
  <2>2. mem' \in [Slots -> RateState]
    BY <1>4, <2>1 DEF Insert, Placed, TypeOK, RateState, Packet
  <2>3. step[c] # "idle"
    BY <1>4 DEF Insert
  <2>4. evicted' \in BOOLEAN
    BY <1>4 DEF Insert
  <2> QED
    BY <1>4, <2>2, <2>4, <2>3, AdmitType DEF Insert, TypeOK, Steps
<1>5. ASSUME NEW c \in CPUs, Check(c) PROVE TypeOK'
  BY <1>5 DEF Check, TypeOK, Goto, Steps
<1>6. ASSUME NEW c \in CPUs, RestartWindow(c) PROVE TypeOK'
  <2>1. step[c] # "idle" /\ mem' \in [Slots -> RateState]
    BY <1>6 DEF RestartWindow, Write, Entry, TypeOK, RateState, Packet
  <2>2. CASE step[c] = "restart"
    BY <1>6, <2>1, <2>2 DEF RestartWindow, TypeOK, Goto, Steps
  <2>3. CASE step[c] # "restart"
    BY <1>6, <2>1, <2>3, AdmitType DEF RestartWindow, TypeOK, Steps
  <2> QED
    BY <2>2, <2>3
<1>7. ASSUME NEW c \in CPUs, RestartCount(c) PROVE TypeOK'
  <2>1. step[c] # "idle" /\ mem' \in [Slots -> RateState]
    BY <1>7 DEF RestartCount, Write, Entry, Recount, TypeOK, RateState
  <2>2. CASE step[c] = "restart"
    BY <1>7, <2>1, <2>2 DEF RestartCount, TypeOK, Goto, Steps
  <2>3. CASE step[c] # "restart"
    BY <1>7, <2>1, <2>3, AdmitType DEF RestartCount, TypeOK, Steps
  <2> QED
    BY <2>2, <2>3
<1>8. ASSUME NEW c \in CPUs, ReadCount(c) PROVE TypeOK'
  BY <1>8 DEF ReadCount, Entry, TypeOK, RateState, Goto, Steps
<1>9. ASSUME NEW c \in CPUs, BumpCount(c) PROVE TypeOK'
  <2>1. step[c] # "idle" /\ mem' \in [Slots -> RateState]
    BY <1>9 DEF BumpCount, Write, Entry, Bump, TypeOK, RateState
  <2>2. CASE Over(Bump(reg[c]), pkt[c].limit)
    BY <1>9, <2>1, <2>2 DEF BumpCount, Drop, TypeOK, Goto, Steps
  <2>3. CASE ~Over(Bump(reg[c]), pkt[c].limit)
    BY <1>9, <2>1, <2>3, AdmitType DEF BumpCount, TypeOK, Steps
  <2> QED
    BY <2>2, <2>3
<1>10. CASE SetRate
  BY <1>10 DEF SetRate, TypeOK, call
<1>11. CASE ClockTick
  BY <1>11 DEF ClockTick, TypeOK, call
<1> QED
  BY <1>1, <1>2, <1>3, <1>4, <1>5, <1>6, <1>7, <1>8, <1>9, <1>10, <1>11 DEF Next, OverRate

-----------------------------------------------------------------------------
(* Silence is forgiven                                                     *)

\* Only an arrival starts a call or makes an attempt
LEMMA Frame ==
  ASSUME TypeOK, [Next]_vars, ~ \E c \in CPUs, k \in Keys : Arrive(c, k)
  PROVE  /\ UNCHANGED <<pkt, tried, packets>>
         /\ \A c \in CPUs : step'[c] # "idle" => step[c] # "idle"
         /\ \A c \in CPUs : step'[c] \in Ahead => step[c] \in Ahead
<1>1. CASE UNCHANGED vars
  BY <1>1 DEF vars, call
<1>2. ASSUME NEW c \in CPUs, Lookup(c) \/ Check(c) \/ ReadCount(c)
      PROVE  /\ UNCHANGED <<pkt, tried, packets>>
             /\ \A d \in CPUs : step'[d] # "idle" => step[d] # "idle"
             /\ \A d \in CPUs : step'[d] \in Ahead => step[d] \in Ahead
  BY <1>2 DEF Lookup, Check, ReadCount, Goto, TypeOK, Ahead
<1>3. ASSUME NEW c \in CPUs, Insert(c) \/ RestartWindow(c) \/ RestartCount(c) \/ BumpCount(c)
      PROVE  /\ UNCHANGED <<pkt, tried, packets>>
             /\ \A d \in CPUs : step'[d] # "idle" => step[d] # "idle"
             /\ \A d \in CPUs : step'[d] \in Ahead => step[d] \in Ahead
  BY <1>3 DEF Insert, RestartWindow, RestartCount, BumpCount, Admit, Drop, Goto, TypeOK, Ahead
<1>4. CASE SetRate \/ ClockTick
  BY <1>4 DEF SetRate, ClockTick, call
<1> QED
  BY <1>1, <1>2, <1>3, <1>4 DEF Next, OverRate

\* What an arrival does to the calls and the attempts
LEMMA ArriveFacts ==
  ASSUME TypeOK, NEW c \in CPUs, NEW k \in Keys, Arrive(c, k)
  PROVE  /\ step[c] = "idle" /\ step' = [step EXCEPT ![c] = "lookup"]
         /\ tried' = [tried EXCEPT ![k] = tried[k] \cup {[id |-> packets, t |-> now]}]
         /\ pkt'[c].key = k /\ pkt'[c].id = packets /\ pkt'[c].t = now /\ pkt'[c].limit \in rate
         /\ \A d \in CPUs \ {c} : pkt'[d] = pkt[d]
         /\ packets' = packets + 1
         /\ dropped' = {}
         /\ UNCHANGED <<now, rate, mem, at, reg, evicted, admitted>>
BY DEF Arrive, TypeOK, Goto

LEMMA NumberedStep == TypeOK /\ Numbered /\ [Next]_vars => Numbered'
<1> SUFFICES ASSUME TypeOK, Numbered, [Next]_vars PROVE Numbered'
  OBVIOUS
<1>1. ASSUME NEW c \in CPUs, NEW k \in Keys, Arrive(c, k) PROVE Numbered'
  <2>1. \A m \in Keys : \A q \in tried'[m] : q.id < packets' /\ q.t <= now'
    BY <1>1, ArriveFacts DEF TypeOK, Numbered, Attempt
  <2>2. \A d \in CPUs : step'[d] # "idle" =>
          [id |-> pkt'[d].id, t |-> pkt'[d].t] \in tried'[pkt'[d].key]
    BY <1>1, ArriveFacts DEF TypeOK, Numbered, Own, Packet
  <2>3. ASSUME NEW d \in CPUs, step[d] # "idle" PROVE pkt[d].id < packets
    <3>1. Own(d) \in tried[pkt[d].key] /\ pkt[d].key \in Keys
      BY <2>3 DEF TypeOK, Numbered, Packet
    <3>2. Own(d).id < packets
      BY <3>1 DEF Numbered
    <3> QED
      BY <3>2 DEF Own
  <2>4. \A d, e \in CPUs : step'[d] # "idle" /\ step'[e] # "idle" /\ d # e
          => pkt'[d].id # pkt'[e].id
    BY <1>1, <2>3, ArriveFacts DEF TypeOK, Numbered, Packet
  <2>5. now' <= Horizon
    BY <1>1, ArriveFacts DEF Numbered
  <2> QED
    BY <2>1, <2>2, <2>4, <2>5 DEF Numbered, Own
<1>2. CASE ~ \E c \in CPUs, k \in Keys : Arrive(c, k)
  <2>1. now <= now' /\ now' <= Horizon /\ now' \in Nat
    <3>1. CASE ClockTick
      BY <3>1, RateAssumption DEF ClockTick, TypeOK
    <3>2. CASE ~ClockTick
      <4>1. now' = now
        BY <1>2, <3>2 DEF vars, Next, OverRate, Lookup, Insert, Check, RestartWindow, RestartCount,
           ReadCount, BumpCount, SetRate
      <4> QED
        BY <4>1 DEF TypeOK, Numbered
    <3> QED
      BY <3>1, <3>2
  <2>2. \A k \in Keys : \A q \in tried'[k] : q.id < packets' /\ q.t <= now'
    BY <1>2, <2>1, Frame DEF Numbered, TypeOK, Attempt
  <2> QED
    BY <1>2, <2>1, <2>2, Frame DEF Numbered, Own
<1> QED
  BY <1>1, <1>2

\* The attempt a window began with stays one whose call is past the comparison
LEMMA AuthorStays ==
  ASSUME TypeOK, Numbered, [Next]_vars, NEW k \in Keys, NEW t, Author(tried[k], AheadIds, t)
  PROVE  Author(tried'[k], AheadIds', t)
<1>1. PICK q \in tried[k] : q.t = t /\ q.id \notin AheadIds
  BY DEF Author
<1>2. q \in tried'[k] /\ q.id \notin AheadIds'
  <2>1. ASSUME NEW c \in CPUs, NEW m \in Keys, Arrive(c, m)
        PROVE  q \in tried'[k] /\ q.id \notin AheadIds'
    <3>1. q.id < packets /\ q.id \in Nat /\ packets \in Nat
      BY DEF Numbered, TypeOK, Attempt
    <3>2. q \in tried'[k]
      BY <2>1, ArriveFacts DEF TypeOK
    <3>3. ASSUME NEW d \in CPUs, step'[d] \in Ahead PROVE pkt'[d].id # q.id
      BY <1>1, <2>1, <3>1, <3>3, ArriveFacts DEF TypeOK, AheadIds
    <3> QED
      BY <3>2, <3>3 DEF AheadIds
  <2>2. CASE ~ \E c \in CPUs, m \in Keys : Arrive(c, m)
    BY <1>1, <2>2, Frame DEF AheadIds
  <2> QED
    BY <2>1, <2>2
<1> QED
  BY <1>1, <1>2 DEF Author

\* A call past the comparison may begin a window with its own time
LEMMA AuthorOwn ==
  ASSUME TypeOK, Numbered, [Next]_vars, ~ \E d \in CPUs, k \in Keys : Arrive(d, k),
         NEW c \in CPUs, step[c] # "idle", step'[c] \notin Ahead
  PROVE  Author(tried'[pkt[c].key], AheadIds', pkt[c].t)
<1>1. Own(c) \in tried'[pkt[c].key]
  BY Frame DEF Numbered
<1>2. ASSUME NEW d \in CPUs, step'[d] \in Ahead PROVE pkt'[d].id # pkt[c].id
  BY <1>2, Frame DEF Numbered, Ahead
<1> QED
  BY <1>1, <1>2 DEF Author, AheadIds, Own

\* What the calls that write to their entry have in common: a store keeps the
\* entry with its key, and a new beginning of the window is the call's own time.
Stores(c) ==
  /\ step[c] \in Pointing /\ step'[c] \notin Ahead
  /\ \A d \in CPUs \ {c} : step'[d] = step[d]
  /\ \A s \in Slots \ {at[c]} : mem'[s] = mem[s]
  /\ mem'[at[c]].key = mem[at[c]].key
  /\ mem'[at[c]].window_start \in {mem[at[c]].window_start, pkt[c].t}
  /\ UNCHANGED <<at, pkt, tried, evicted>>

LEMMA StoreFacts ==
  ASSUME TypeOK, NEW c \in CPUs, RestartWindow(c) \/ RestartCount(c) \/ BumpCount(c)
  PROVE  Stores(c)
<1>1. CASE RestartWindow(c)
  BY <1>1 DEF RestartWindow, Stores, Write, Entry, Admit, Goto, TypeOK, RateState, Pointing, Ahead
<1>2. CASE RestartCount(c)
  BY <1>2 DEF RestartCount, Recount, Stores, Write, Entry, Admit, Goto, TypeOK, RateState,
     Pointing, Ahead
<1>3. CASE BumpCount(c)
  BY <1>3 DEF BumpCount, Stores, Write, Entry, Admit, Drop, Goto, TypeOK, RateState, Pointing, Ahead
<1> QED
  BY <1>1, <1>2, <1>3

\* An insert leaves the entries of other keys, unless it evicts one
LEMMA InsertFacts ==
  ASSUME TypeOK, NEW c \in CPUs, Insert(c)
  PROVE  /\ step[c] = "insert" /\ step' = [step EXCEPT ![c] = "idle"]
         /\ UNCHANGED <<at, pkt, tried, mixed, rate, reg>>
         /\ \E s \in Slots :
              /\ mem'[s].key = pkt[c].key /\ mem'[s].window_start = pkt[c].t /\ mem'[s].count = 1
              /\ \A u \in Slots \ {s} :
                   /\ mem'[u].window_start = mem[u].window_start /\ mem'[u].count = mem[u].count
                   /\ mem'[u].key = IF mem[u].key = pkt[c].key THEN NoKey ELSE mem[u].key
              /\ ~evicted' => /\ ~evicted
                              /\ mem[s].key \in {NoKey, pkt[c].key}
                              /\ \A d \in CPUs : step[d] \in Pointing /\ at[d] = s
                                                 => pkt[d].key = pkt[c].key
<1>1. PICK s \in Slots :
        /\ mem' = Placed(s, pkt[c].key, pkt[c].t)
        /\ evicted' = (evicted \/ mem[s].key \notin {NoKey, pkt[c].key} \/ Stranded(s, pkt[c].key))
  BY DEF Insert
<1>2. /\ mem'[s].key = pkt[c].key /\ mem'[s].window_start = pkt[c].t /\ mem'[s].count = 1
      /\ \A u \in Slots \ {s} :
           /\ mem'[u].window_start = mem[u].window_start /\ mem'[u].count = mem[u].count
           /\ mem'[u].key = IF mem[u].key = pkt[c].key THEN NoKey ELSE mem[u].key
  BY <1>1 DEF Placed, TypeOK, RateState
<1>3. ~evicted' => /\ ~evicted
                   /\ mem[s].key \in {NoKey, pkt[c].key}
                   /\ \A d \in CPUs : step[d] \in Pointing /\ at[d] = s => pkt[d].key = pkt[c].key
  BY <1>1 DEF Stranded, TypeOK
<1>4. /\ step[c] = "insert" /\ step' = [step EXCEPT ![c] = "idle"]
      /\ UNCHANGED <<at, pkt, tried, mixed, rate, reg>>
  BY DEF Insert, Admit, Goto
<1> QED
  BY <1>2, <1>3, <1>4

\* The calls that leave RATE_STATE alone
LEMMA ReadFacts ==
  ASSUME TypeOK, NEW c \in CPUs, Check(c) \/ ReadCount(c)
  PROVE  /\ step[c] \in Pointing /\ step'[c] \notin Ahead
         /\ \A d \in CPUs \ {c} : step'[d] = step[d]
         /\ UNCHANGED <<mem, at, pkt, tried, evicted>>
BY DEF Check, ReadCount, Goto, TypeOK, Pointing, Ahead

LEMMA LookupFacts ==
  ASSUME TypeOK, NEW c \in CPUs, Lookup(c)
  PROVE  /\ step[c] = "lookup"
         /\ \A d \in CPUs \ {c} : step'[d] = step[d] /\ at'[d] = at[d]
         /\ UNCHANGED <<mem, pkt, tried, evicted>>
         /\ \/ /\ step'[c] = "insert" /\ at'[c] = at[c]
               /\ \A s \in Slots : mem[s].key # pkt[c].key
            \/ step'[c] = "check" /\ at'[c] \in Slots /\ mem[at'[c]].key = pkt[c].key
BY DEF Lookup, Goto, TypeOK

LEMMA PointersStep == TypeOK /\ Pointers /\ [Next]_vars => Pointers'
<1> SUFFICES ASSUME TypeOK, Pointers, [Next]_vars, ~evicted' PROVE Pointers'
  BY DEF Pointers
<1>1. CASE UNCHANGED vars
  BY <1>1 DEF vars, call, Pointers, Entry
<1>2. ASSUME NEW c \in CPUs, NEW k \in Keys, Arrive(c, k) PROVE Pointers'
  BY <1>2, ArriveFacts DEF Pointers, Entry, Pointing, TypeOK
<1>3. ASSUME NEW c \in CPUs, Lookup(c) PROVE Pointers'
  BY <1>3, LookupFacts, RateAssumption DEF Pointers, Entry, Pointing, TypeOK, Packet
<1>4. ASSUME NEW c \in CPUs, Insert(c) PROVE Pointers'
  BY <1>4, InsertFacts DEF Pointers, Entry, Pointing, TypeOK
<1>5. ASSUME NEW c \in CPUs, Check(c) \/ ReadCount(c) PROVE Pointers'
  BY <1>5, ReadFacts DEF Pointers, Entry
<1>6. ASSUME NEW c \in CPUs, RestartWindow(c) \/ RestartCount(c) \/ BumpCount(c) PROVE Pointers'
  BY <1>6, StoreFacts DEF Stores, Pointers, Entry, TypeOK
<1>7. CASE SetRate \/ ClockTick
  BY <1>7 DEF SetRate, ClockTick, call, Pointers, Entry
<1> QED
  BY <1>1, <1>2, <1>3, <1>4, <1>5, <1>6, <1>7 DEF Next, OverRate

LEMMA AuthoredStep == TypeOK /\ Numbered /\ Pointers /\ Authored /\ [Next]_vars => Authored'
<1> SUFFICES ASSUME TypeOK, Numbered, Pointers, Authored, [Next]_vars, ~evicted' PROVE Authored'
  BY DEF Authored
<1>0. NoKey \notin Keys
  BY RateAssumption
<1>s. ASSUME NEW k \in Keys, NEW t, Author(tried[k], AheadIds, t)
      PROVE  Author(tried'[k], AheadIds', t)
  BY <1>s, AuthorStays
<1>k. \A c \in CPUs : step[c] # "idle" => pkt[c].key \in Keys
  BY DEF TypeOK, Packet
\* The steps that leave the entries and the pointers alone
<1>u. ASSUME UNCHANGED <<mem, at, evicted>>,
             \A c \in CPUs : step'[c] \in Pointing => step[c] \in Pointing /\ pkt'[c] = pkt[c]
      PROVE  Authored'
  <2>1. \A s \in Slots : mem'[s].key \in Keys =>
          Author(tried'[mem'[s].key], AheadIds', mem'[s].window_start)
    BY <1>s, <1>u DEF Authored
  <2>2. \A c \in CPUs : step'[c] \in Pointing =>
          Author(tried'[pkt'[c].key], AheadIds', mem'[at'[c]].window_start)
    BY <1>s, <1>u, <1>k DEF Authored, Pointing
  <2> QED
    BY <2>1, <2>2 DEF Authored
<1>1. CASE UNCHANGED vars
  BY <1>1, <1>u DEF vars, call
<1>2. ASSUME NEW c \in CPUs, NEW k \in Keys, Arrive(c, k) PROVE Authored'
  <2>1. UNCHANGED <<mem, at, evicted>>
    BY <1>2, ArriveFacts
  <2>2. \A d \in CPUs : step'[d] \in Pointing => step[d] \in Pointing /\ pkt'[d] = pkt[d]
    BY <1>2, ArriveFacts DEF TypeOK, Pointing
  <2> QED
    BY <2>1, <2>2, <1>u
<1>3. ASSUME NEW c \in CPUs, Lookup(c) PROVE Authored'
  <2>1. \A s \in Slots : mem'[s].key \in Keys =>
          Author(tried'[mem'[s].key], AheadIds', mem'[s].window_start)
    BY <1>s, <1>3, LookupFacts DEF Authored
  <2>2. ASSUME NEW d \in CPUs, step'[d] \in Pointing
        PROVE  Author(tried'[pkt'[d].key], AheadIds', mem'[at'[d]].window_start)
    <3>1. CASE d # c
      BY <1>s, <1>k, <1>3, <2>2, <3>1, LookupFacts DEF Authored, Pointing
    <3>2. CASE d = c
      <4>1. at'[c] \in Slots /\ mem[at'[c]].key = pkt[c].key /\ pkt[c].key \in Keys
        BY <1>k, <1>3, <2>2, <3>2, LookupFacts DEF Pointing
      <4> QED
        BY <2>1, <1>3, <3>2, <4>1, LookupFacts
    <3> QED
      BY <3>1, <3>2
  <2> QED
    BY <2>1, <2>2 DEF Authored
<1>4. ASSUME NEW c \in CPUs, Insert(c) PROVE Authored'
  <2>1. PICK s \in Slots :
          /\ mem'[s].key = pkt[c].key /\ mem'[s].window_start = pkt[c].t
          /\ \A u \in Slots \ {s} :
               /\ mem'[u].window_start = mem[u].window_start
               /\ mem'[u].key = IF mem[u].key = pkt[c].key THEN NoKey ELSE mem[u].key
          /\ ~evicted
          /\ \A d \in CPUs : step[d] \in Pointing /\ at[d] = s => pkt[d].key = pkt[c].key
    BY <1>4, InsertFacts
  <2>2. /\ step[c] = "insert" /\ step'[c] = "idle" /\ \A d \in CPUs \ {c} : step'[d] = step[d]
        /\ UNCHANGED <<at, pkt, tried>>
    BY <1>4, InsertFacts DEF TypeOK
  <2>3. ~ \E d \in CPUs, k \in Keys : Arrive(d, k)
    BY <1>4, <2>2, ArriveFacts DEF TypeOK
  <2>4. Author(tried'[pkt[c].key], AheadIds', pkt[c].t)
    BY <2>2, <2>3, AuthorOwn DEF Ahead
  <2>5. ASSUME NEW u \in Slots, mem'[u].key \in Keys
        PROVE  Author(tried'[mem'[u].key], AheadIds', mem'[u].window_start)
    BY <1>0, <1>s, <2>1, <2>2, <2>4, <2>5 DEF Authored
  <2>6. ASSUME NEW d \in CPUs, step'[d] \in Pointing
        PROVE  Author(tried'[pkt'[d].key], AheadIds', mem'[at'[d]].window_start)
    <3>1. d # c /\ step[d] \in Pointing /\ at[d] \in Slots /\ pkt[d].key \in Keys
      BY <1>k, <2>2, <2>6 DEF Pointing, TypeOK
    <3> QED
      BY <1>s, <2>1, <2>2, <2>4, <3>1 DEF Authored
  <2> QED
    BY <2>5, <2>6 DEF Authored
<1>5. ASSUME NEW c \in CPUs, Check(c) \/ ReadCount(c) PROVE Authored'
  BY <1>5, <1>u, ReadFacts
<1>6. ASSUME NEW c \in CPUs, RestartWindow(c) \/ RestartCount(c) \/ BumpCount(c) PROVE Authored'
  <2>1. Stores(c) /\ pkt[c].key \in Keys /\ at[c] \in Slots /\ step[c] # "idle"
    BY <1>6, <1>k, StoreFacts DEF Stores, Pointing, TypeOK
  <2>2. ~ \E d \in CPUs, k \in Keys : Arrive(d, k)
    BY <2>1, ArriveFacts DEF TypeOK, Stores, Ahead
  <2>3. Author(tried'[pkt[c].key], AheadIds', pkt[c].t)
    BY <2>1, <2>2, AuthorOwn DEF Stores
  <2>4. ~evicted /\ mem[at[c]].key \in {NoKey, pkt[c].key}
    BY <2>1 DEF Stores, Pointers, Entry
  <2>5. ASSUME NEW u \in Slots, mem'[u].key \in Keys
        PROVE  Author(tried'[mem'[u].key], AheadIds', mem'[u].window_start)
    BY <1>0, <1>s, <2>1, <2>3, <2>4, <2>5 DEF Authored, Stores
  <2>6. ASSUME NEW d \in CPUs, step'[d] \in Pointing
        PROVE  Author(tried'[pkt'[d].key], AheadIds', mem'[at'[d]].window_start)
    <3>1. step[d] \in Pointing /\ pkt[d].key \in Keys /\ at[d] \in Slots
      BY <1>k, <2>1, <2>6 DEF Stores, Pointing, TypeOK
    <3>2. at[d] = at[c] => pkt[d].key = pkt[c].key
      BY <2>1, <2>4, <3>1 DEF Pointers, Stores
    <3>3. /\ UNCHANGED <<at, pkt>>
          /\ \/ mem'[at[d]].window_start = mem[at[d]].window_start
             \/ at[d] = at[c] /\ mem'[at[d]].window_start = pkt[c].t
      BY <2>1, <3>1 DEF Stores
    <3> QED
      BY <1>s, <2>3, <2>4, <3>1, <3>2, <3>3 DEF Authored
  <2> QED
    BY <2>5, <2>6 DEF Authored
<1>7. CASE SetRate \/ ClockTick
  BY <1>7, <1>u DEF SetRate, ClockTick, call
<1> QED
  BY <1>1, <1>2, <1>3, <1>4, <1>5, <1>6, <1>7 DEF Next, OverRate

-----------------------------------------------------------------------------
\* What the 64-bit difference tells: a window begun later looks older than any
LEMMA ModPositive == \A a \in Int, m \in Nat \ {0} : 0 <= a /\ a < m => a % m = a
OBVIOUS

LEMMA ModNegative == \A a \in Int, m \in Nat \ {0} : -m <= a /\ a < 0 => a % m = a + m
OBVIOUS

LEMMA ElapsedMeaning ==
  ASSUME NEW t \in Nat, NEW start \in Nat, t <= Horizon, start <= Horizon, NEW r \in Rates
  PROVE  Elapsed(t, start) > r.window <=> (start > t \/ t - start > r.window)
<1>1. /\ Modulus \in Nat \ {0} /\ Horizon \in Nat /\ Horizon < Modulus
      /\ r.window \in Nat /\ r.window < Modulus - Horizon
  BY RateAssumption DEF Rate
<1>2. CASE start <= t
  <2>1. (t - start) % Modulus = t - start
    BY <1>1, <1>2, ModPositive
  <2> QED
    BY <1>1, <1>2, <2>1 DEF Elapsed
<1>3. CASE start > t
  <2>1. (t - start) % Modulus = t - start + Modulus
    BY <1>1, <1>3, ModNegative
  <2> QED
    BY <1>1, <1>3, <2>1 DEF Elapsed
<1> QED
  BY <1>2, <1>3

LEMMA TriedGrows == ASSUME TypeOK, [Next]_vars PROVE \A k \in Keys : tried[k] \subseteq tried'[k]
<1>1. ASSUME NEW c \in CPUs, NEW k \in Keys, Arrive(c, k)
      PROVE  \A m \in Keys : tried[m] \subseteq tried'[m]
  BY <1>1, ArriveFacts DEF TypeOK
<1> QED
  BY <1>1, Frame

LEMMA BeforeStays ==
  ASSUME TypeOK, [Next]_vars, NEW p \in Packet, TriedBefore(p)
  PROVE  TriedBefore(p)'
BY TriedGrows DEF TriedBefore, Packet

\* Only the comparison sends a call on to count, and no step takes an eviction back
LEMMA CountingFacts ==
  ASSUME TypeOK, [Next]_vars, NEW c \in CPUs, step'[c] \in Counting, ~evicted'
  PROVE  ~evicted /\ pkt'[c] = pkt[c] /\ (step[c] \in Counting \/ Check(c))
<1>1. CASE UNCHANGED vars
  BY <1>1 DEF vars, call
<1>2. ASSUME NEW d \in CPUs, NEW k \in Keys, Arrive(d, k)
      PROVE  ~evicted /\ pkt'[c] = pkt[c] /\ step[c] \in Counting
  BY <1>2, ArriveFacts DEF TypeOK, Counting
<1>3. ASSUME NEW d \in CPUs, Lookup(d)
      PROVE  ~evicted /\ pkt'[c] = pkt[c] /\ step[c] \in Counting
  BY <1>3, LookupFacts DEF Counting
<1>4. ASSUME NEW d \in CPUs, Insert(d)
      PROVE  ~evicted /\ pkt'[c] = pkt[c] /\ step[c] \in Counting
  BY <1>4, InsertFacts DEF TypeOK, Counting
<1>5. ASSUME NEW d \in CPUs, Check(d)
      PROVE  ~evicted /\ pkt'[c] = pkt[c] /\ (step[c] \in Counting \/ Check(c))
  BY <1>5, ReadFacts DEF Counting
<1>6. ASSUME NEW d \in CPUs, ReadCount(d)
      PROVE  ~evicted /\ pkt'[c] = pkt[c] /\ step[c] \in Counting
  BY <1>6, ReadFacts DEF ReadCount, Counting
<1>7. ASSUME NEW d \in CPUs, RestartWindow(d) \/ RestartCount(d) \/ BumpCount(d)
      PROVE  ~evicted /\ pkt'[c] = pkt[c] /\ step[c] \in Counting
  BY <1>7 DEF RestartWindow, RestartCount, BumpCount, Admit, Drop, Goto, TypeOK, Counting
<1>8. CASE SetRate \/ ClockTick
  BY <1>8 DEF SetRate, ClockTick, call
<1> QED
  BY <1>1, <1>2, <1>3, <1>4, <1>5, <1>6, <1>7, <1>8 DEF Next, OverRate

LEMMA PassedStep == TypeOK /\ Numbered /\ Authored /\ Passed /\ [Next]_vars => Passed'
<1> SUFFICES ASSUME TypeOK, Numbered, Authored, Passed, [Next]_vars, ~evicted',
                    NEW c \in CPUs, step'[c] \in Counting
             PROVE  TriedBefore(pkt[c])'
  BY DEF Passed
<1>1. ~evicted /\ pkt'[c] = pkt[c] /\ (step[c] \in Counting \/ Check(c))
  BY CountingFacts
<1>2. pkt[c] \in Packet /\ Own(c) \in tried[pkt[c].key]
  BY <1>1 DEF TypeOK, Numbered, Counting, Check
<1>3. TriedBefore(pkt[c])
  <2>1. CASE step[c] \in Counting
    BY <1>1, <2>1 DEF Passed
  <2>2. CASE Check(c)
    <3>1. PICK q \in tried[pkt[c].key] : q.t = Entry(c).window_start /\ q.id \notin AheadIds
      BY <1>1, <2>2 DEF Authored, Author, Check, Pointing, Entry
    <3>2. q.id # pkt[c].id
      BY <2>2, <3>1 DEF AheadIds, Ahead, Check
    <3>3. q.t \in Nat /\ q.t <= now /\ now <= Horizon /\ pkt[c].t \in Nat /\ now \in Nat
      BY <1>2 DEF Numbered, TypeOK, Attempt, Packet
    <3>4. Own(c).t <= now
      BY <1>2 DEF Numbered, Packet
    <3>5. pkt[c].limit \in Rates /\ pkt[c].limit.window \in Nat /\ Horizon \in Nat
      BY <1>2, RateAssumption DEF Packet, Rate
    <3>6. pkt[c].t <= Horizon
      BY <3>3, <3>4, <3>5 DEF Own
    <3>7. ~(Elapsed(pkt[c].t, q.t) > pkt[c].limit.window)
      BY <2>2, <3>1 DEF Check, Goto, Counting, TypeOK
    <3>8. q.t <= pkt[c].t /\ pkt[c].t - q.t <= pkt[c].limit.window
      <4>1. q.t <= Horizon
        BY <3>3, <3>5
      <4>2. ~(q.t > pkt[c].t \/ pkt[c].t - q.t > pkt[c].limit.window)
        BY <3>3, <3>5, <3>6, <3>7, <4>1, ElapsedMeaning
      <4> QED
        BY <3>3, <3>5, <4>2
    <3> QED
      BY <3>2, <3>3, <3>5, <3>8 DEF TriedBefore
  <2> QED
    BY <1>1, <2>1, <2>2
<1> QED
  <2>1. \E q \in tried'[pkt[c].key] : /\ q.id # pkt[c].id
                                      /\ pkt[c].t - pkt[c].limit.window <= q.t /\ q.t <= pkt[c].t
    BY <1>2, <1>3, TriedGrows DEF TriedBefore, Packet
  <2> QED
    BY <1>1, <2>1 DEF TriedBefore

\* A refusal is the last step's own, or stands while nothing arrives
LEMMA DroppedFacts ==
  ASSUME TypeOK, [Next]_vars, NEW p \in dropped'
  PROVE  \/ UNCHANGED <<dropped, tried, evicted, mixed>>
         \/ \E c \in CPUs : BumpCount(c) /\ p = pkt[c] /\ Over(Bump(reg[c]), pkt[c].limit)
<1>1. CASE UNCHANGED vars
  BY <1>1 DEF vars
<1>2. ASSUME NEW c \in CPUs, NEW k \in Keys, Arrive(c, k) PROVE FALSE
  BY <1>2, ArriveFacts
<1>3. ASSUME NEW c \in CPUs, BumpCount(c) PROVE p = pkt[c] /\ Over(Bump(reg[c]), pkt[c].limit)
  BY <1>3 DEF BumpCount, Drop, Admit
<1>4. ASSUME NEW c \in CPUs, Insert(c) \/ RestartWindow(c) \/ RestartCount(c)
      PROVE  UNCHANGED <<dropped, tried, evicted, mixed>>
  BY <1>4 DEF Insert, RestartWindow, RestartCount, Admit
<1>5. ASSUME NEW c \in CPUs, Lookup(c) \/ Check(c) \/ ReadCount(c)
      PROVE  UNCHANGED <<dropped, tried, evicted, mixed>>
  BY <1>5 DEF Lookup, Check, ReadCount
<1>6. CASE SetRate \/ ClockTick
  BY <1>6 DEF SetRate, ClockTick
<1> QED
  BY <1>1, <1>2, <1>3, <1>4, <1>5, <1>6 DEF Next, OverRate

LEMMA SilenceStep == TypeOK /\ Passed /\ SilenceForgives /\ [Next]_vars => SilenceForgives'
<1> SUFFICES ASSUME TypeOK, Passed, SilenceForgives, [Next]_vars, ~evicted',
                    NEW p \in dropped'
             PROVE  TriedBefore(p)'
  BY DEF SilenceForgives
<1>1. p \in Packet /\ TriedBefore(p)
  <2>1. CASE UNCHANGED <<dropped, tried, evicted, mixed>>
    BY <2>1 DEF SilenceForgives, TypeOK
  <2>2. ASSUME NEW c \in CPUs, BumpCount(c), p = pkt[c] PROVE p \in Packet /\ TriedBefore(p)
    BY <2>2 DEF BumpCount, Passed, Counting, TypeOK
  <2> QED
    BY <2>1, <2>2, DroppedFacts
<1> QED
  BY <1>1, BeforeStays

LEMMA SilenceInit == Init => SilenceInv
<1> SUFFICES ASSUME Init PROVE SilenceInv
  OBVIOUS
<1>1. TypeOK
  BY TypeInit
<1>2. \A c \in CPUs : step[c] = "idle"
  BY DEF Init
<1>3. Numbered
  BY <1>2, RateAssumption DEF Init, Numbered
<1>4. \A s \in Slots : mem[s].key \notin Keys
  BY RateAssumption DEF Init
<1>5. Pointers /\ Authored /\ Passed
  BY <1>2, <1>4 DEF Pointers, Authored, Passed, Pointing, Counting
<1>6. SilenceForgives
  BY DEF Init, SilenceForgives
<1> QED
  BY <1>1, <1>3, <1>5, <1>6 DEF SilenceInv

LEMMA SilenceInvStep == SilenceInv /\ [Next]_vars => SilenceInv'
BY TypeStep, NumberedStep, PointersStep, AuthoredStep, PassedStep, SilenceStep DEF SilenceInv

\* Every call of over_rate works on entries of the types the map declares.
THEOREM TypeCorrect == Spec => []TypeOK
<1>1. Init => TypeOK
  BY TypeInit
<1>2. TypeOK /\ [Next]_vars => TypeOK'
  BY TypeStep
<1> QED
  BY <1>1, <1>2, PTL DEF Spec

\* However the CPUs interleave in over_rate, and whatever the clock does within
\* its 64 bits, a source is refused only if it made another attempt within the
\* window that ends with the refused one.
THEOREM SilenceIsForgiven == Spec => []SilenceForgives
<1>1. Init => SilenceInv
  BY SilenceInit
<1>2. SilenceInv /\ [Next]_vars => SilenceInv'
  BY SilenceInvStep
<1>3. SilenceInv => SilenceForgives
  BY DEF SilenceInv
<1> QED
  BY <1>1, <1>2, <1>3, PTL DEF Spec

-----------------------------------------------------------------------------
(* Calls that do not overlap                                               *)

LEMMA QuietBack ==
  ASSUME TypeOK, [Next]_vars
  PROVE  ~mixed' => ~mixed /\ rate' = rate
<1>1. ASSUME NEW c \in CPUs, OverRate(c) PROVE ~mixed' => ~mixed /\ rate' = rate
  BY <1>1 DEF OverRate, Arrive, Lookup, Insert, Check, RestartWindow, RestartCount, ReadCount,
     BumpCount, TypeOK
<1>2. CASE SetRate
  BY <1>2 DEF SetRate
<1>3. CASE ClockTick \/ UNCHANGED vars
  BY <1>3 DEF ClockTick, vars
<1> QED
  BY <1>1, <1>2, <1>3 DEF Next

LEMMA EvictedBack == ASSUME TypeOK, [Next]_vars PROVE ~evicted' => ~evicted
<1>1. ASSUME NEW c \in CPUs, OverRate(c) PROVE ~evicted' => ~evicted
  BY <1>1 DEF OverRate, Arrive, Lookup, Insert, Check, RestartWindow, RestartCount, ReadCount,
     BumpCount, TypeOK
<1>2. CASE SetRate \/ ClockTick \/ UNCHANGED vars
  BY <1>2 DEF SetRate, ClockTick, vars
<1> QED
  BY <1>1, <1>2 DEF Next

LEMMA SerialStep == TypeOK /\ Numbered /\ Serial /\ [Next]_vars => Serial'
<1> SUFFICES ASSUME TypeOK, Numbered, Serial, [Next]_vars, ~mixed' PROVE Serial'
  BY DEF Serial
<1>1. ~mixed /\ rate' = rate
  BY QuietBack
<1>2. ASSUME NEW c \in CPUs, NEW k \in Keys, Arrive(c, k) PROVE Serial'
  <2>1. \A d \in CPUs : step[d] = "idle"
    BY <1>2 DEF Arrive
  <2>2. /\ step'[c] = "lookup" /\ \A d \in CPUs \ {c} : step'[d] = "idle"
        /\ pkt'[c].limit \in rate /\ pkt'[c].t = now
    BY <1>2, <2>1, ArriveFacts DEF TypeOK
  <2>3. \A m \in Keys : \A q \in tried'[m] : q.t <= now
    BY <1>2, ArriveFacts DEF TypeOK, Numbered, Attempt
  <2> QED
    BY <1>1, <2>2, <2>3 DEF Serial
<1>3. CASE ~ \E c \in CPUs, k \in Keys : Arrive(c, k)
  BY <1>1, <1>3, Frame DEF Serial
<1> QED
  BY <1>2, <1>3

\* While calls do not overlap, the one on c is the only one
LEMMA Solo ==
  ASSUME TypeOK, Serial, ~mixed, NEW c \in CPUs, step[c] # "idle", NEW d \in CPUs, d # c
  PROVE  step[d] = "idle"
BY DEF Serial

LEMMA OneEntryStep == TypeOK /\ OneEntry /\ [Next]_vars => OneEntry'
<1> SUFFICES ASSUME TypeOK, OneEntry, [Next]_vars PROVE OneEntry'
  OBVIOUS
<1>0. NoKey \notin Keys
  BY RateAssumption
<1>1. CASE UNCHANGED mem
  BY <1>1 DEF OneEntry
<1>2. ASSUME NEW c \in CPUs, Insert(c) PROVE OneEntry'
  BY <1>0, <1>2, InsertFacts DEF OneEntry
<1>3. ASSUME NEW c \in CPUs, RestartWindow(c) \/ RestartCount(c) \/ BumpCount(c) PROVE OneEntry'
  BY <1>3, StoreFacts DEF Stores, OneEntry, TypeOK
<1>4. ASSUME NEW c \in CPUs, (\E k \in Keys : Arrive(c, k)) \/ Lookup(c) \/ Check(c) \/ ReadCount(c)
      PROVE  UNCHANGED mem
  BY <1>4 DEF Arrive, Lookup, Check, ReadCount
<1>5. CASE SetRate \/ ClockTick \/ UNCHANGED vars
  BY <1>1, <1>5 DEF SetRate, ClockTick, vars
<1> QED
  BY <1>1, <1>2, <1>3, <1>4, <1>5 DEF Next, OverRate

\* Only an attempt made is let through
LEMMA AdmitFacts ==
  ASSUME TypeOK, NEW c \in CPUs, step[c] # "idle", Admit(c)
  PROVE  /\ pkt[c].key \in Keys
         /\ admitted'[pkt[c].key] = admitted[pkt[c].key] \cup {Own(c)}
         /\ \A k \in Keys \ {pkt[c].key} : admitted'[k] = admitted[k]
         /\ step' = [step EXCEPT ![c] = "idle"]
BY DEF Admit, Goto, Own, TypeOK, Packet

LEMMA AdmittedFacts ==
  ASSUME TypeOK, [Next]_vars
  PROVE  UNCHANGED admitted \/ \E c \in CPUs : step[c] # "idle" /\ Admit(c)
<1>1. ASSUME NEW c \in CPUs, Insert(c) \/ RestartWindow(c) \/ RestartCount(c) \/ BumpCount(c)
      PROVE  UNCHANGED admitted \/ (step[c] # "idle" /\ Admit(c))
  BY <1>1 DEF Insert, RestartWindow, RestartCount, BumpCount, Drop
<1>2. ASSUME NEW c \in CPUs, (\E k \in Keys : Arrive(c, k)) \/ Lookup(c) \/ Check(c) \/ ReadCount(c)
      PROVE  UNCHANGED admitted
  BY <1>2 DEF Arrive, Lookup, Check, ReadCount
<1>3. CASE SetRate \/ ClockTick \/ UNCHANGED vars
  BY <1>3 DEF SetRate, ClockTick, vars
<1> QED
  BY <1>1, <1>2, <1>3 DEF Next, OverRate

LEMMA FiniteStep == TypeOK /\ Numbered /\ Finite /\ [Next]_vars => Finite'
<1> SUFFICES ASSUME TypeOK, Numbered, Finite, [Next]_vars, NEW k \in Keys
             PROVE  IsFiniteSet(tried'[k]) /\ admitted'[k] \subseteq tried'[k]
  BY DEF Finite
<1>1. IsFiniteSet(tried'[k])
  <2>1. ASSUME NEW c \in CPUs, NEW m \in Keys, Arrive(c, m) PROVE IsFiniteSet(tried'[k])
    <3>1. \/ tried'[k] = tried[k]
          \/ tried'[k] = tried[k] \cup {[id |-> packets, t |-> now]}
      BY <2>1, ArriveFacts DEF TypeOK
    <3>2. IsFiniteSet(tried[k])
      BY DEF Finite
    <3>3. IsFiniteSet(tried[k] \cup {[id |-> packets, t |-> now]})
      BY <3>2, FS_AddElement
    <3> QED
      BY <3>1, <3>2, <3>3
  <2> QED
    BY <2>1, Frame DEF Finite
<1>2. admitted'[k] \subseteq tried'[k]
  <2>1. tried[k] \subseteq tried'[k]
    BY TriedGrows
  <2>2. CASE UNCHANGED admitted
    BY <2>1, <2>2 DEF Finite
  <2>3. ASSUME NEW c \in CPUs, step[c] # "idle", Admit(c) PROVE admitted'[k] \subseteq tried'[k]
    BY <2>1, <2>3, AdmitFacts DEF Finite, Numbered
  <2> QED
    BY <2>2, <2>3, AdmittedFacts
<1> QED
  BY <1>1, <1>2

\* The comparison is exact when calls do not overlap
LEMMA CheckMeaning ==
  ASSUME SilenceInv, Serial, Quiet, NEW c \in CPUs, Check(c)
  PROVE  /\ mem[at[c]].window_start <= pkt[c].t
         /\ \/ /\ step'[c] = "restart"
               /\ pkt[c].t > mem[at[c]].window_start + pkt[c].limit.window
            \/ /\ step'[c] = "read"
               /\ pkt[c].t <= mem[at[c]].window_start + pkt[c].limit.window
<1> DEFINE start == mem[at[c]].window_start
<1>1. step[c] = "check" /\ pkt[c] \in Packet /\ at[c] \in Slots
  BY DEF Check, SilenceInv, TypeOK
<1>2. /\ start \in Nat /\ pkt[c].t \in Nat /\ pkt[c].limit \in Rates
      /\ pkt[c].limit.window \in Nat /\ Horizon \in Nat /\ now \in Nat
  BY <1>1, RateAssumption DEF SilenceInv, TypeOK, RateState, Packet, Rate
<1>3. PICK q \in tried[pkt[c].key] : q.t = start
  BY <1>1 DEF SilenceInv, Authored, Author, Quiet, Pointing
<1>4. start <= pkt[c].t
  BY <1>1, <1>3 DEF Serial, Quiet, Packet
<1>5. Own(c) \in tried[pkt[c].key] /\ now <= Horizon
  BY <1>1 DEF SilenceInv, Numbered
<1>6. Own(c).t <= now
  BY <1>1, <1>5 DEF SilenceInv, Numbered, Packet
<1>7. pkt[c].t <= Horizon /\ start <= Horizon
  BY <1>2, <1>4, <1>5, <1>6 DEF Own
<1>8. Elapsed(pkt[c].t, start) > pkt[c].limit.window
        <=> (start > pkt[c].t \/ pkt[c].t - start > pkt[c].limit.window)
  BY <1>2, <1>7, ElapsedMeaning
<1>9. \/ step'[c] = "restart" /\ Elapsed(pkt[c].t, start) > pkt[c].limit.window
      \/ step'[c] = "read" /\ ~(Elapsed(pkt[c].t, start) > pkt[c].limit.window)
  BY DEF Check, Goto, Entry, SilenceInv, TypeOK
<1> QED
  BY <1>2, <1>4, <1>8, <1>9

\* A step that is none of c's leaves what the call on c has found
LEMMA FoundKept ==
  ASSUME TypeOK, Serial, Found, [Next]_vars, Quiet, UNCHANGED <<step, pkt, at, reg, mem>>
  PROVE  \A c \in CPUs : FoundBy(c)'
BY DEF Found, FoundBy

LEMMA FoundStep ==
  SilenceInv /\ Serial /\ OneEntry /\ Found /\ [Next]_vars => Found'
<1> SUFFICES ASSUME SilenceInv, Serial, OneEntry, Found, [Next]_vars, Quiet'
             PROVE  \A c \in CPUs : FoundBy(c)'
  BY DEF Found
<1>0. TypeOK /\ Quiet
  BY QuietBack, EvictedBack DEF Quiet, SilenceInv
<1>i. ASSUME NEW c \in CPUs, step'[c] = "idle" PROVE FoundBy(c)'
  BY <1>i DEF FoundBy, Pointing, Counting
<1>t. ASSUME NEW c \in CPUs, step[c] # "idle", \A d \in CPUs \ {c} : step'[d] = step[d], FoundBy(c)'
      PROVE  \A d \in CPUs : FoundBy(d)'
  BY <1>0, <1>i, <1>t, Solo DEF Quiet
<1>1. CASE UNCHANGED vars \/ SetRate \/ ClockTick
  <2>1. UNCHANGED <<step, pkt, at, reg, mem>>
    BY <1>1 DEF vars, call, SetRate, ClockTick
  <2> QED
    BY <1>0, <2>1, FoundKept
<1>2. ASSUME NEW c \in CPUs, NEW k \in Keys, Arrive(c, k) PROVE \A d \in CPUs : FoundBy(d)'
  <2>1. \A d \in CPUs : step[d] = "idle"
    BY <1>2 DEF Arrive, Quiet
  <2>2. step'[c] = "lookup" /\ \A d \in CPUs \ {c} : step'[d] = "idle"
    BY <1>0, <1>2, <2>1, ArriveFacts DEF TypeOK
  <2>3. FoundBy(c)'
    BY <2>2 DEF FoundBy, Pointing, Counting
  <2> QED
    BY <1>i, <2>2, <2>3
<1>3. ASSUME NEW c \in CPUs, Lookup(c) PROVE \A d \in CPUs : FoundBy(d)'
  <2>1. FoundBy(c)'
    BY <1>0, <1>3, LookupFacts DEF FoundBy, Pointing, Counting
  <2> QED
    BY <1>0, <1>3, <1>t, <2>1, LookupFacts
<1>4. ASSUME NEW c \in CPUs, Insert(c) PROVE \A d \in CPUs : FoundBy(d)'
  <2>1. step'[c] = "idle" /\ step[c] # "idle" /\ \A d \in CPUs \ {c} : step'[d] = step[d]
    BY <1>0, <1>4, InsertFacts DEF TypeOK
  <2> QED
    BY <1>i, <1>t, <2>1
<1>5. ASSUME NEW c \in CPUs, Check(c) PROVE \A d \in CPUs : FoundBy(d)'
  <2>1. /\ step[c] # "idle" /\ \A d \in CPUs \ {c} : step'[d] = step[d]
        /\ UNCHANGED <<mem, at, pkt>> /\ mem[at[c]].key = pkt[c].key
    BY <1>0, <1>5, ReadFacts DEF Pointing, Found, FoundBy, Check
  <2>2. FoundBy(c)'
    BY <1>0, <1>5, <2>1, CheckMeaning DEF FoundBy, Counting
  <2> QED
    BY <1>t, <2>1, <2>2
<1>6. ASSUME NEW c \in CPUs, ReadCount(c) PROVE \A d \in CPUs : FoundBy(d)'
  <2>1. /\ step[c] = "read" /\ step'[c] = "bump" /\ \A d \in CPUs \ {c} : step'[d] = step[d]
        /\ UNCHANGED <<mem, at, pkt>> /\ reg'[c] = mem[at[c]].count
    BY <1>0, <1>6 DEF ReadCount, Goto, Entry, TypeOK
  <2>2. FoundBy(c)'
    BY <1>0, <2>1 DEF Found, FoundBy, Counting, Pointing
  <2> QED
    BY <1>t, <2>1, <2>2
<1>7. ASSUME NEW c \in CPUs, RestartWindow(c) \/ RestartCount(c) \/ BumpCount(c)
      PROVE  \A d \in CPUs : FoundBy(d)'
  <2>1. Stores(c) /\ step[c] # "idle" /\ at[c] \in Slots /\ mem[at[c]].key = pkt[c].key
    BY <1>0, <1>7, StoreFacts DEF Stores, Pointing, TypeOK, Found, FoundBy
  <2>2. \/ step'[c] = "idle"
        \/ step'[c] = "recount" /\ mem'[at[c]].window_start = pkt[c].t
        \/ step'[c] = "rewindow" /\ mem'[at[c]].count = 1
    BY <1>0, <1>7 DEF RestartWindow, RestartCount, BumpCount, Recount, Write, Entry, Admit, Drop,
       Goto, TypeOK, RateState
  <2>3. FoundBy(c)'
    BY <1>i, <2>1, <2>2 DEF FoundBy, Stores, Counting
  <2> QED
    BY <1>t, <2>1, <2>3 DEF Stores
<1> QED
  BY <1>1, <1>2, <1>3, <1>4, <1>5, <1>6, <1>7 DEF Next, OverRate

-----------------------------------------------------------------------------
(* Refused only for cause                                                  *)

LEMMA SizeMono ==
  ASSUME NEW S, NEW T, IsFiniteSet(T), S \subseteq T
  PROVE  /\ IsFiniteSet(S) /\ Cardinality(S) \in Nat /\ Cardinality(T) \in Nat
         /\ Cardinality(S) <= Cardinality(T)
BY FS_Subset, FS_CardinalityType

LEMMA SizeAdd ==
  ASSUME NEW S, NEW T, IsFiniteSet(T), S \subseteq T, NEW x \in T, x \notin S
  PROVE  /\ Cardinality(S) \in Nat /\ Cardinality(T) \in Nat
         /\ Cardinality(S) + 1 <= Cardinality(T)
<1>1. S \cup {x} \subseteq T
  OBVIOUS
<1>2. IsFiniteSet(S) /\ Cardinality(S) \in Nat /\ Cardinality(T) \in Nat
  BY SizeMono
<1>3. Cardinality(S \cup {x}) = Cardinality(S) + 1
  BY <1>2, FS_AddElement
<1>4. Cardinality(S \cup {x}) <= Cardinality(T)
  BY <1>1, SizeMono
<1> QED
  BY <1>2, <1>3, <1>4

LEMMA PartFinite ==
  ASSUME NEW T, IsFiniteSet(T), NEW ids, NEW t
  PROVE  IsFiniteSet(Since(Judged(T, ids), t))
<1>1. Since(Judged(T, ids), t) \subseteq T
  BY DEF Since, Judged
<1> QED
  BY <1>1, SizeMono

\* A verdict known stays known
LEMMA JudgedGrows ==
  ASSUME TypeOK, Numbered, [Next]_vars, NEW k \in Keys
  PROVE  Judged(tried[k], BusyIds) \subseteq Judged(tried'[k], BusyIds')
<1> SUFFICES ASSUME NEW q \in tried[k], q.id \notin BusyIds
             PROVE  q \in tried'[k] /\ q.id \notin BusyIds'
  BY DEF Judged
<1>1. ASSUME NEW c \in CPUs, NEW m \in Keys, Arrive(c, m)
      PROVE  q \in tried'[k] /\ q.id \notin BusyIds'
  <2>1. q.id < packets /\ q.id \in Nat /\ packets \in Nat
    BY DEF Numbered, TypeOK, Attempt
  <2>2. q \in tried'[k]
    BY <1>1, ArriveFacts DEF TypeOK
  <2>3. ASSUME NEW d \in CPUs, step'[d] # "idle" PROVE pkt'[d].id # q.id
    BY <1>1, <2>1, <2>3, ArriveFacts DEF TypeOK, BusyIds
  <2> QED
    BY <2>2, <2>3 DEF BusyIds
<1>2. CASE ~ \E c \in CPUs, m \in Keys : Arrive(c, m)
  BY <1>2, Frame DEF BusyIds
<1> QED
  BY <1>1, <1>2

\* The call on c, about to end alone: its own attempt is then judged, and was not before
LEMMA OwnJudged ==
  ASSUME TypeOK, Numbered, Serial, ~mixed, [Next]_vars, NEW c \in CPUs,
         step[c] # "idle", step'[c] = "idle", \A d \in CPUs \ {c} : step'[d] = step[d],
         UNCHANGED <<pkt, tried>>
  PROVE  /\ Own(c) \in Judged(tried'[pkt[c].key], BusyIds')
         /\ Own(c) \notin Judged(tried[pkt[c].key], BusyIds)
<1>1. \A d \in CPUs : step'[d] = "idle"
  BY Solo
<1>2. Own(c) \in tried'[pkt[c].key]
  BY DEF Numbered
<1>3. Own(c) \notin Judged(tried[pkt[c].key], BusyIds)
  BY DEF Own, Judged, BusyIds
<1> QED
  BY <1>1, <1>2, <1>3 DEF Judged, BusyIds

\* Slots the step does not touch
LEMMA CountKept ==
  ASSUME TypeOK, Numbered, Finite, Finite', Counted, Quiet, [Next]_vars,
         NEW s \in Slots, Settled(s),
         mem'[s].key = mem[s].key, mem'[s].count = mem[s].count,
         mem'[s].window_start = mem[s].window_start
  PROVE  mem'[s].count <=
           Cardinality(Since(Judged(tried'[mem'[s].key], BusyIds'), mem'[s].window_start))
<1> DEFINE k == mem[s].key
           w == mem[s].window_start
           J == Since(Judged(tried[k], BusyIds), w)
           K == Since(Judged(tried'[k], BusyIds'), w)
<1>1. k \in Keys /\ mem[s].count \in Nat
  BY DEF Settled, TypeOK, RateState
<1>2. J \subseteq K
  BY <1>1, JudgedGrows DEF Since
<1>3. IsFiniteSet(K)
  <2>1. IsFiniteSet(tried'[k])
    BY <1>1 DEF Finite
  <2> QED
    BY <2>1, PartFinite
<1>4. Cardinality(J) \in Nat /\ Cardinality(K) \in Nat /\ Cardinality(J) <= Cardinality(K)
  BY <1>2, <1>3, SizeMono
<1>5. mem[s].count <= Cardinality(J)
  BY DEF Counted
<1> HIDE DEF J, K
<1>6. mem[s].count <= Cardinality(K)
  BY <1>1, <1>4, <1>5
<1> QED
  BY <1>6 DEF K

\* A call that ends alone may leave an entry with a count of one
LEMMA FirstCounted ==
  ASSUME TypeOK, Numbered, Serial, Finite', ~mixed, [Next]_vars, NEW c \in CPUs,
         step[c] # "idle", step'[c] = "idle", \A d \in CPUs \ {c} : step'[d] = step[d],
         UNCHANGED <<pkt, tried>>
  PROVE  1 <= Cardinality(Since(Judged(tried'[pkt[c].key], BusyIds'), pkt[c].t))
<1> DEFINE K == Since(Judged(tried'[pkt[c].key], BusyIds'), pkt[c].t)
<1>1. pkt[c].key \in Keys /\ pkt[c].t \in Nat
  BY DEF TypeOK, Packet
<1>2. IsFiniteSet(K)
  <2>1. IsFiniteSet(tried'[pkt[c].key])
    BY <1>1 DEF Finite
  <2> QED
    BY <2>1, PartFinite
<1>3. Own(c) \in K
  BY <1>1, OwnJudged DEF Since, Own
<1> HIDE DEF K
<1>4. Cardinality({}) + 1 <= Cardinality(K) /\ Cardinality({}) = 0 /\ Cardinality(K) \in Nat
  BY <1>2, <1>3, SizeAdd, FS_EmptySet
<1>5. 1 <= Cardinality(K)
  BY <1>4
<1> QED
  BY <1>5 DEF K

\* What an attempt that is counted finds: its entry's count, and itself beside it
LEMMA BumpCounts ==
  ASSUME TypeOK, Numbered, Serial, Finite, Found, Counted, Quiet, [Next]_vars,
         NEW c \in CPUs, BumpCount(c)
  PROVE  /\ Bump(reg[c]) \in Nat
         /\ Bump(reg[c]) <=
              Cardinality(Since(Judged(tried'[pkt[c].key], BusyIds'), mem[at[c]].window_start))
         /\ mem[at[c]].window_start <= pkt[c].t
         /\ pkt[c].t <= mem[at[c]].window_start + pkt[c].limit.window
         /\ mem[at[c]].key = pkt[c].key
         /\ mem[at[c]].count = reg[c]
         /\ Settled(at[c])
<1> DEFINE k == pkt[c].key
           w == mem[at[c]].window_start
           J == Since(Judged(tried[k], BusyIds), w)
           K == Since(Judged(tried'[k], BusyIds'), w)
<1>1. /\ step[c] = "bump" /\ step'[c] = "idle" /\ \A d \in CPUs \ {c} : step'[d] = step[d]
      /\ UNCHANGED <<pkt, tried>>
  BY DEF BumpCount, Admit, Drop, Goto, TypeOK
<1>2. /\ k \in Keys /\ pkt[c].t \in Nat /\ at[c] \in Slots /\ w \in Nat
      /\ mem[at[c]].count \in Nat
  BY <1>1 DEF TypeOK, Packet, RateState
<1>3. /\ w <= pkt[c].t /\ pkt[c].t <= w + pkt[c].limit.window
      /\ reg[c] = mem[at[c]].count /\ mem[at[c]].key = k
  BY <1>1 DEF Found, FoundBy, Counting, Pointing
<1>4. Settled(at[c])
  BY <1>1, <1>2, <1>3, Solo DEF Settled, Restarting, Quiet
<1>5. mem[at[c]].count <= Cardinality(J)
  BY <1>2, <1>3, <1>4 DEF Counted
<1>6. J \subseteq K
  BY <1>2, JudgedGrows DEF Since
<1>7. Own(c) \in K /\ Own(c) \notin J
  BY <1>1, <1>3, OwnJudged DEF Since, Own, Quiet
<1>8. IsFiniteSet(K)
  <2>1. IsFiniteSet(tried'[k])
    BY <1>1, <1>2 DEF Finite
  <2> QED
    BY <2>1, PartFinite
<1> HIDE DEF J, K
<1>9. Cardinality(J) \in Nat /\ Cardinality(K) \in Nat /\ Cardinality(J) + 1 <= Cardinality(K)
  BY <1>6, <1>7, <1>8, SizeAdd
<1>10. Bump(reg[c]) \in Nat /\ Bump(reg[c]) <= Cardinality(K)
  BY <1>2, <1>3, <1>5, <1>9 DEF Bump
<1> QED
  BY <1>3, <1>4, <1>10 DEF K

\* The steps that write nothing leave every settled entry settled
LEMMA SettledBack ==
  ASSUME TypeOK, UNCHANGED mem, NEW s \in Slots, Settled(s)',
         \A c \in CPUs : step[c] \in Restarting => step'[c] = step[c] /\ at'[c] = at[c]
  PROVE  Settled(s)
BY DEF Settled

LEMMA CountedStep ==
  SilenceInv /\ Finite /\ Finite' /\ Serial /\ Found /\ Counted /\ [Next]_vars => Counted'
<1> SUFFICES ASSUME SilenceInv, Finite, Finite', Serial, Found, Counted, [Next]_vars, Quiet',
                    NEW s \in Slots, Settled(s)'
             PROVE  mem'[s].count <=
                      Cardinality(Since(Judged(tried'[mem'[s].key], BusyIds'), mem'[s].window_start))
  BY DEF Counted
<1> DEFINE Goal == mem'[s].count <=
                     Cardinality(Since(Judged(tried'[mem'[s].key], BusyIds'), mem'[s].window_start))
<1>0. TypeOK /\ Numbered /\ Quiet /\ NoKey \notin Keys
  BY QuietBack, EvictedBack, RateAssumption DEF Quiet, SilenceInv
<1>u. ASSUME UNCHANGED mem,
             \A c \in CPUs : step[c] \in Restarting => step'[c] = step[c] /\ at'[c] = at[c]
      PROVE  Goal
  BY <1>0, <1>u, SettledBack, CountKept
<1>1. CASE UNCHANGED vars \/ SetRate \/ ClockTick
  BY <1>1, <1>u DEF vars, call, SetRate, ClockTick
<1>2. ASSUME NEW c \in CPUs, NEW k \in Keys, Arrive(c, k) PROVE Goal
  <2>1. /\ UNCHANGED mem
        /\ \A d \in CPUs : step[d] \in Restarting => step'[d] = step[d] /\ at'[d] = at[d]
    BY <1>0, <1>2, ArriveFacts DEF TypeOK, Restarting
  <2> QED
    BY <1>u, <2>1
<1>3. ASSUME NEW c \in CPUs, Lookup(c) PROVE Goal
  <2>1. /\ UNCHANGED mem
        /\ \A d \in CPUs : step[d] \in Restarting => step'[d] = step[d] /\ at'[d] = at[d]
    BY <1>0, <1>3, LookupFacts DEF Restarting
  <2> QED
    BY <1>u, <2>1
<1>4. ASSUME NEW c \in CPUs, Insert(c) PROVE Goal
  <2>1. PICK u \in Slots :
          /\ mem'[u].key = pkt[c].key /\ mem'[u].window_start = pkt[c].t /\ mem'[u].count = 1
          /\ \A v \in Slots \ {u} :
               /\ mem'[v].window_start = mem[v].window_start /\ mem'[v].count = mem[v].count
               /\ mem'[v].key = IF mem[v].key = pkt[c].key THEN NoKey ELSE mem[v].key
    BY <1>0, <1>4, InsertFacts
  <2>2. /\ step[c] = "insert" /\ step'[c] = "idle" /\ \A d \in CPUs \ {c} : step'[d] = step[d]
        /\ UNCHANGED <<at, pkt, tried>>
    BY <1>0, <1>4, InsertFacts DEF TypeOK
  <2>3. CASE s = u
    BY <1>0, <2>1, <2>2, <2>3, FirstCounted DEF Quiet
  <2>4. CASE s # u
    <3>1. mem'[s].key \in Keys /\ mem'[s].key = mem[s].key
      BY <1>0, <2>1, <2>4 DEF Settled
    <3>2. Settled(s)
      BY <2>2, <3>1 DEF Settled, Restarting
    <3> QED
      BY <1>0, <2>1, <2>4, <3>1, <3>2, CountKept
  <2> QED
    BY <2>3, <2>4
<1>5. ASSUME NEW c \in CPUs, Check(c) \/ ReadCount(c) PROVE Goal
  <2>1. step[c] \notin Restarting
    BY <1>5 DEF Check, ReadCount, Restarting
  <2>2. /\ UNCHANGED mem
        /\ \A d \in CPUs : step[d] \in Restarting => step'[d] = step[d] /\ at'[d] = at[d]
    BY <1>0, <1>5, <2>1, ReadFacts
  <2> QED
    BY <1>u, <2>2
<1>6. ASSUME NEW c \in CPUs, RestartWindow(c) \/ RestartCount(c) \/ BumpCount(c), s # at[c] PROVE Goal
  <2>1. Stores(c)
    BY <1>0, <1>6, StoreFacts
  <2>2. mem'[s] = mem[s] /\ Settled(s)
    BY <1>6, <2>1 DEF Stores, Settled
  <2> QED
    BY <1>0, <2>2, CountKept
<1>7. ASSUME NEW c \in CPUs, RestartWindow(c) \/ RestartCount(c), s = at[c] PROVE Goal
  <2>1. Stores(c) /\ mem[at[c]].key = pkt[c].key /\ at[c] \in Slots
    BY <1>0, <1>7, StoreFacts DEF Stores, Found, FoundBy, TypeOK
  <2>2. step'[c] \notin Restarting
    BY <1>7, <2>1 DEF Settled, Stores
  <2>3. /\ step[c] # "idle" /\ step'[c] = "idle"
        /\ mem'[s].window_start = pkt[c].t /\ mem'[s].count = 1
    BY <1>0, <1>7, <2>1, <2>2 DEF RestartWindow, RestartCount, Recount, Write, Entry, Admit, Goto,
       Restarting, Found, FoundBy, TypeOK, RateState
  <2> QED
    BY <1>0, <1>7, <2>1, <2>3, FirstCounted DEF Stores, Quiet
<1>8. ASSUME NEW c \in CPUs, BumpCount(c), s = at[c] PROVE Goal
  <2>1. /\ mem'[s].count = Bump(reg[c]) /\ mem'[s].window_start = mem[s].window_start
        /\ mem'[s].key = mem[s].key
    BY <1>0, <1>8 DEF BumpCount, Write, Entry, TypeOK, RateState
  <2> QED
    BY <1>0, <1>8, <2>1, BumpCounts
<1> QED
  BY <1>1, <1>2, <1>3, <1>4, <1>5, <1>6, <1>7, <1>8 DEF Next, OverRate

LEMMA CauseStep ==
  SilenceInv /\ Finite /\ Finite' /\ Serial /\ Found /\ Counted /\ DroppedForCause /\ [Next]_vars
    => DroppedForCause'
<1> SUFFICES ASSUME SilenceInv, Finite, Finite', Serial, Found, Counted, DroppedForCause,
                    [Next]_vars, Quiet', NEW p \in dropped'
             PROVE  Cardinality(Within(tried'[p.key], p.t - p.limit.window, p.t)) > p.limit.max
  BY DEF DroppedForCause, Quiet
<1>0. TypeOK /\ Numbered /\ Quiet
  BY QuietBack, EvictedBack DEF Quiet, SilenceInv
<1>1. CASE UNCHANGED <<dropped, tried, evicted, mixed>>
  BY <1>0, <1>1 DEF DroppedForCause, Quiet
<1>2. ASSUME NEW c \in CPUs, BumpCount(c), p = pkt[c], Over(Bump(reg[c]), pkt[c].limit)
      PROVE  Cardinality(Within(tried'[p.key], p.t - p.limit.window, p.t)) > p.limit.max
  <2> DEFINE w == mem[at[c]].window_start
             K == Since(Judged(tried'[p.key], BusyIds'), w)
             W == Within(tried'[p.key], p.t - p.limit.window, p.t)
  <2>1. /\ Bump(reg[c]) \in Nat /\ Bump(reg[c]) <= Cardinality(K)
        /\ w <= p.t /\ p.t <= w + p.limit.window
    BY <1>0, <1>2, BumpCounts
  <2>2. /\ step[c] = "bump" /\ UNCHANGED tried /\ p \in Packet /\ at[c] \in Slots
    BY <1>0, <1>2 DEF BumpCount, TypeOK
  <2>3. /\ p.key \in Keys /\ p.t \in Nat /\ p.limit.window \in Nat /\ p.limit.max \in Nat /\ w \in Nat
    BY <1>0, <2>2, RateAssumption DEF Packet, Rate, TypeOK, RateState
  <2>4. \A q \in tried'[p.key] : q.t <= p.t /\ q.t \in Nat
    BY <1>0, <1>2, <2>2, <2>3 DEF Serial, Quiet, TypeOK, Attempt
  <2>5. K \subseteq W
    BY <2>1, <2>3, <2>4 DEF Since, Judged, Within
  <2>6. IsFiniteSet(W)
    <3>1. IsFiniteSet(tried'[p.key]) /\ W \subseteq tried'[p.key]
      BY <2>3 DEF Finite, Within
    <3> QED
      BY <3>1, SizeMono
  <2> HIDE DEF K, W
  <2>7. Cardinality(K) \in Nat /\ Cardinality(W) \in Nat /\ Cardinality(K) <= Cardinality(W)
    BY <2>5, <2>6, SizeMono
  <2>8. Cardinality(W) > p.limit.max
    BY <1>2, <2>1, <2>3, <2>7 DEF Over
  <2> QED
    BY <2>8 DEF W
<1> QED
  BY <1>0, <1>1, <1>2, DroppedFacts

LEMMA CauseInit == Init => CauseInv
<1> SUFFICES ASSUME Init PROVE CauseInv
  OBVIOUS
<1>1. SilenceInv
  BY SilenceInit
<1>2. \A c \in CPUs : step[c] = "idle"
  BY DEF Init
<1>3. \A s \in Slots : mem[s].key \notin Keys
  BY RateAssumption DEF Init
<1>4. Finite /\ OneEntry /\ DroppedForCause
  BY <1>3, FS_EmptySet DEF Init, Finite, OneEntry, DroppedForCause
<1>5. Found /\ Counted
  BY <1>2, <1>3 DEF Found, FoundBy, Pointing, Counting, Counted, Settled
<1>6. Serial
  BY <1>2 DEF Init, Serial
<1> QED
  BY <1>1, <1>4, <1>5, <1>6 DEF CauseInv

LEMMA CauseInvStep == CauseInv /\ [Next]_vars => CauseInv'
<1> SUFFICES ASSUME CauseInv, [Next]_vars PROVE CauseInv'
  OBVIOUS
<1>1. SilenceInv'
  BY SilenceInvStep DEF CauseInv
<1>2. Finite' /\ Serial' /\ OneEntry'
  BY FiniteStep, SerialStep, OneEntryStep DEF CauseInv, SilenceInv
<1>3. Found' /\ Counted' /\ DroppedForCause'
  BY <1>2, FoundStep, CountedStep, CauseStep DEF CauseInv
<1> QED
  BY <1>1, <1>2, <1>3 DEF CauseInv

\* When calls of over_rate do not overlap and no entry is evicted, a source is
\* refused only after more attempts than the limit within the window that ends
\* with the refused one.
THEOREM RefusedForCause == Spec => []DroppedForCause
<1>1. Init => CauseInv
  BY CauseInit
<1>2. CauseInv /\ [Next]_vars => CauseInv'
  BY CauseInvStep
<1>3. CauseInv => DroppedForCause
  BY DEF CauseInv
<1> QED
  BY <1>1, <1>2, <1>3, PTL DEF Spec

-----------------------------------------------------------------------------
(* How many are let in                                                     *)

\* Sets of attempts let in, as the entries count them
LEMMA SinceFinite ==
  ASSUME NEW A, IsFiniteSet(A), NEW t
  PROVE  IsFiniteSet(Since(A, t)) /\ Cardinality(Since(A, t)) \in Nat
<1>1. Since(A, t) \subseteq A
  BY DEF Since
<1> QED
  BY <1>1, SizeMono

LEMMA WithinFinite ==
  ASSUME NEW A, IsFiniteSet(A), NEW from, NEW to
  PROVE  IsFiniteSet(Within(A, from, to)) /\ Cardinality(Within(A, from, to)) \in Nat
<1>1. Within(A, from, to) \subseteq A
  BY DEF Within
<1> QED
  BY <1>1, SizeMono

LEMMA SizeUnion ==
  ASSUME NEW S, NEW T, NEW U, IsFiniteSet(S), IsFiniteSet(T), U \subseteq S \cup T
  PROVE  /\ Cardinality(U) \in Nat /\ Cardinality(S) \in Nat /\ Cardinality(T) \in Nat
         /\ Cardinality(U) <= Cardinality(S) + Cardinality(T)
<1>1. IsFiniteSet(S \cup T) /\ IsFiniteSet(S \cap T)
  BY FS_Union, FS_Intersection
<1>2. Cardinality(S \cup T) = Cardinality(S) + Cardinality(T) - Cardinality(S \cap T)
  BY FS_Union
<1>3. Cardinality(S) \in Nat /\ Cardinality(T) \in Nat /\ Cardinality(S \cap T) \in Nat
  BY <1>1, FS_CardinalityType
<1>4. Cardinality(U) \in Nat /\ Cardinality(S \cup T) \in Nat /\ Cardinality(U) <= Cardinality(S \cup T)
  BY <1>1, SizeMono
<1> QED
  BY <1>2, <1>3, <1>4

\* An attempt counted within the window and the limit
LEMMA HoldsCounted ==
  ASSUME NEW A \in SUBSET Attempt, IsFiniteSet(A), NEW start \in Nat, NEW count \in Nat, NEW r \in Rate,
         Holds(A, start, count, r), TwicePerWindow(A, r), NEW x \in Attempt,
         start <= x.t, x.t <= start + r.window, count + 1 <= r.max
  PROVE  Holds(A \cup {x}, start, count + 1, r) /\ TwicePerWindow(A \cup {x}, r)
<1> DEFINE B == A \cup {x}
           before == Within(A, start - r.window, start - 1)
<1>1. r.max \in Nat /\ r.window \in Nat /\ x.t \in Nat /\ \A q \in A : q.t \in Nat
  BY DEF Rate, Attempt
<1>2. IsFiniteSet(B) /\ IsFiniteSet({x}) /\ Cardinality({x}) = 1
  BY FS_AddElement, FS_Singleton
<1>3. /\ Cardinality(Since(A, start)) \in Nat /\ IsFiniteSet(Since(A, start))
      /\ Cardinality(Since(B, start)) \in Nat /\ IsFiniteSet(Since(B, start))
      /\ Cardinality(before) \in Nat /\ IsFiniteSet(before)
  BY <1>2, SinceFinite, WithinFinite
<1>4. Since(B, start) \subseteq Since(A, start) \cup {x}
  BY DEF Since
<1>5. Cardinality(Since(B, start)) <= Cardinality(Since(A, start)) + 1
  BY <1>2, <1>3, <1>4, SizeUnion
<1>6. Cardinality(Since(A, start)) <= count /\ Cardinality(before) <= r.max
  BY DEF Holds
<1>7. Cardinality(Since(B, start)) <= count + 1 /\ Cardinality(Since(B, start)) <= r.max
  BY <1>1, <1>3, <1>5, <1>6
<1>8. Within(B, start - r.window, start - 1) = before
  BY <1>1 DEF Within
<1>9. Holds(B, start, count + 1, r)
  BY <1>1, <1>6, <1>7, <1>8 DEF Holds
<1>10. ASSUME NEW from \in Int PROVE Cardinality(Within(B, from, from + r.window)) <= 2 * r.max
  <2>1. CASE from <= x.t /\ x.t <= from + r.window
    <3>1. Within(B, from, from + r.window) \subseteq before \cup Since(B, start)
      BY <1>1, <2>1 DEF Within, Since
    <3>2. /\ Cardinality(Within(B, from, from + r.window)) \in Nat
          /\ Cardinality(Within(B, from, from + r.window)) <= Cardinality(before) + Cardinality(Since(B, start))
      BY <1>3, <3>1, SizeUnion
    <3> QED
      BY <1>1, <1>3, <1>6, <1>7, <3>2
  <2>2. CASE ~(from <= x.t /\ x.t <= from + r.window)
    <3>1. Within(B, from, from + r.window) = Within(A, from, from + r.window)
      BY <2>2 DEF Within
    <3> QED
      BY <3>1 DEF TwicePerWindow
  <2> QED
    BY <2>1, <2>2
<1> QED
  BY <1>9, <1>10 DEF TwicePerWindow

\* An attempt that begins a new window
LEMMA HoldsAnew ==
  ASSUME NEW A \in SUBSET Attempt, IsFiniteSet(A), NEW r \in Rate, NEW x \in Attempt,
         After(A, x.t, r), TwicePerWindow(A, r)
  PROVE  Holds(A \cup {x}, x.t, 1, r) /\ TwicePerWindow(A \cup {x}, r)
<1> DEFINE B == A \cup {x}
           before == Since(A, x.t - r.window)
<1>1. /\ r.max \in Nat /\ r.max >= 1 /\ r.window \in Nat /\ r.window >= 1 /\ x.t \in Nat
      /\ \A q \in A : q.t \in Nat /\ q.t < x.t
  BY DEF Rate, Attempt, After
<1>2. IsFiniteSet(B) /\ IsFiniteSet({x}) /\ Cardinality({x}) = 1
  BY FS_AddElement, FS_Singleton
<1>3. IsFiniteSet(before) /\ Cardinality(before) \in Nat /\ Cardinality(before) <= r.max
  BY SinceFinite DEF After
<1>4. Since(B, x.t) = {x}
  BY <1>1 DEF Since
<1>5. Within(B, x.t - r.window, x.t - 1) \subseteq before
  BY <1>1 DEF Within, Since
<1>6. /\ Cardinality(Within(B, x.t - r.window, x.t - 1)) \in Nat
      /\ Cardinality(Within(B, x.t - r.window, x.t - 1)) <= Cardinality(before)
  BY <1>3, <1>5, SizeMono
<1>7. Cardinality(Within(B, x.t - r.window, x.t - 1)) <= r.max
  BY <1>1, <1>3, <1>6
<1>8. \A q \in B : q.t <= x.t + r.window
  BY <1>1
<1>9. Holds(B, x.t, 1, r)
  BY <1>1, <1>2, <1>4, <1>7, <1>8 DEF Holds
<1>10. ASSUME NEW from \in Int PROVE Cardinality(Within(B, from, from + r.window)) <= 2 * r.max
  <2>1. CASE from <= x.t /\ x.t <= from + r.window
    <3>1. Within(B, from, from + r.window) \subseteq before \cup {x}
      BY <1>1, <2>1 DEF Within, Since
    <3>2. /\ Cardinality(Within(B, from, from + r.window)) \in Nat
          /\ Cardinality(Within(B, from, from + r.window)) <= Cardinality(before) + 1
      BY <1>2, <1>3, <3>1, SizeUnion
    <3> QED
      BY <1>1, <1>3, <3>2
  <2>2. CASE ~(from <= x.t /\ x.t <= from + r.window)
    <3>1. Within(B, from, from + r.window) = Within(A, from, from + r.window)
      BY <2>2 DEF Within
    <3> QED
      BY <3>1 DEF TwicePerWindow
  <2> QED
    BY <2>1, <2>2
<1> QED
  BY <1>9, <1>10 DEF TwicePerWindow

\* A window that is over
LEMMA HoldsOver ==
  ASSUME NEW A \in SUBSET Attempt, IsFiniteSet(A), NEW start \in Nat, NEW count \in Nat, NEW r \in Rate,
         Holds(A, start, count, r), NEW t \in Nat, t > start + r.window
  PROVE  After(A, t, r)
<1>1. r.max \in Nat /\ r.window \in Nat /\ \A q \in A : q.t \in Nat /\ q.t <= start + r.window
  BY DEF Rate, Attempt, Holds
<1>2. Since(A, t - r.window) \subseteq Since(A, start)
  BY <1>1 DEF Since
<1>3. IsFiniteSet(Since(A, start)) /\ Cardinality(Since(A, start)) \in Nat
  BY SinceFinite
<1>4. /\ Cardinality(Since(A, t - r.window)) \in Nat
      /\ Cardinality(Since(A, t - r.window)) <= Cardinality(Since(A, start))
  BY <1>2, <1>3, SizeMono
<1>5. Cardinality(Since(A, start)) <= r.max
  BY DEF Holds
<1>6. Cardinality(Since(A, t - r.window)) <= r.max
  BY <1>1, <1>3, <1>4, <1>5
<1> QED
  BY <1>1, <1>6 DEF After

\* A source never let in
LEMMA AfterNone == ASSUME NEW t, NEW r \in Rate PROVE After({}, t, r) /\ TwicePerWindow({}, r)
<1>1. Since({}, t - r.window) = {} /\ \A from, to : Within({}, from, to) = {}
  BY DEF Since, Within
<1>2. Cardinality({}) = 0 /\ r.max \in Nat
  BY FS_EmptySet DEF Rate
<1>3. After({}, t, r)
  BY <1>1, <1>2 DEF After
<1>4. ASSUME NEW from \in Int PROVE Cardinality(Within({}, from, from + r.window)) <= 2 * r.max
  BY <1>1, <1>2
<1> QED
  BY <1>3, <1>4 DEF TwicePerWindow

\* The steps that let no one in and write nothing
LEMMA BoundsKept ==
  ASSUME CauseInv, Bounds, [Next]_vars, Quiet, Quiet', UNCHANGED <<mem, admitted>>,
         \A c \in CPUs : step[c] \in Restarting => step'[c] = step[c] /\ at'[c] = at[c],
         \A c \in CPUs : step'[c] \in Restarting =>
           \/ step[c] \in Restarting /\ pkt'[c] = pkt[c]
           \/ After(admitted[pkt'[c].key], pkt'[c].t, pkt'[c].limit)
  PROVE  Bounds'
<1>0. TypeOK /\ rate' = rate
  BY QuietBack DEF CauseInv, SilenceInv, Quiet
<1>1. Unknown'
  BY DEF Unknown, Bounds
<1>2. WindowHolds'
  <2> SUFFICES ASSUME NEW s \in Slots, NEW r \in rate, Settled(s)'
               PROVE  Holds(admitted'[mem'[s].key], mem'[s].window_start, mem'[s].count, r)
    BY <1>0 DEF WindowHolds
  <2>1. Settled(s)
    BY <1>0, SettledBack
  <2> QED
    BY <2>1 DEF WindowHolds, Bounds
<1>3. RestartHolds'
  <2> SUFFICES ASSUME NEW c \in CPUs, step'[c] \in Restarting
               PROVE  After(admitted'[pkt'[c].key], pkt'[c].t, pkt'[c].limit)
    BY DEF RestartHolds
  <2> QED
    BY DEF RestartHolds, Bounds
<1>4. AnyWindow'
  BY <1>0 DEF AnyWindow, Bounds
<1> QED
  BY <1>1, <1>2, <1>3, <1>4 DEF Bounds

\* The steps that end the call on c by letting it in, with its entry in slot s
LEMMA BoundsAdmitted ==
  ASSUME CauseInv, Bounds, [Next]_vars, Quiet, Quiet',
         NEW c \in CPUs, step[c] # "idle", Admit(c), NEW s \in Slots,
         mem'[s].key = pkt[c].key,
         \A u \in Slots \ {s} : mem'[u].key \in Keys => mem'[u] = mem[u] /\ mem[u].key # pkt[c].key,
         UNCHANGED at,
         \A k \in Keys : (\A u \in Slots : mem'[u].key # k) => (\A u \in Slots : mem[u].key # k),
         \A r \in rate : /\ Holds(admitted[pkt[c].key] \cup {Own(c)}, mem'[s].window_start, mem'[s].count, r)
                         /\ TwicePerWindow(admitted[pkt[c].key] \cup {Own(c)}, r),
         step[c] \in Restarting => at[c] = s
  PROVE  Bounds'
<1>0. TypeOK /\ Serial /\ ~mixed /\ rate' = rate
  BY QuietBack DEF CauseInv, SilenceInv, Quiet
<1>1. /\ pkt[c].key \in Keys
      /\ admitted'[pkt[c].key] = admitted[pkt[c].key] \cup {Own(c)}
      /\ \A k \in Keys \ {pkt[c].key} : admitted'[k] = admitted[k]
      /\ step' = [step EXCEPT ![c] = "idle"]
  BY <1>0, AdmitFacts
<1>2. \A d \in CPUs : step'[d] = "idle" /\ (d # c => step[d] = "idle")
  BY <1>0, <1>1, Solo DEF TypeOK
<1>3. Unknown'
  <2> SUFFICES ASSUME NEW k \in Keys, \A u \in Slots : mem'[u].key # k PROVE admitted'[k] = {}
    BY DEF Unknown
  <2>1. k # pkt[c].key /\ admitted[k] = {}
    BY DEF Unknown, Bounds
  <2> QED
    BY <1>1, <2>1
<1>4. WindowHolds'
  <2> SUFFICES ASSUME NEW u \in Slots, NEW r \in rate, Settled(u)'
               PROVE  Holds(admitted'[mem'[u].key], mem'[u].window_start, mem'[u].count, r)
    BY <1>0 DEF WindowHolds
  <2>1. CASE u = s
    <3>1. Holds(admitted[pkt[c].key] \cup {Own(c)}, mem'[s].window_start, mem'[s].count, r)
      OBVIOUS
    <3>2. Holds(admitted'[pkt[c].key], mem'[s].window_start, mem'[s].count, r)
      BY <1>1, <3>1
    <3>3. mem'[u].key = pkt[c].key
      BY <2>1
    <3> QED
      BY <2>1, <3>2, <3>3
  <2>2. CASE u # s
    <3>1. mem'[u] = mem[u] /\ mem[u].key \in Keys /\ mem[u].key # pkt[c].key
      BY <2>2 DEF Settled
    <3>2. Settled(u)
      BY <1>2, <2>2, <3>1 DEF Settled, Restarting
    <3>3. Holds(admitted[mem[u].key], mem[u].window_start, mem[u].count, r)
      BY <3>2 DEF WindowHolds, Bounds
    <3> QED
      BY <1>1, <3>1, <3>3
  <2> QED
    BY <2>1, <2>2
<1>5. RestartHolds'
  BY <1>2 DEF RestartHolds, Restarting
<1>6. AnyWindow'
  <2> SUFFICES ASSUME NEW k \in Keys, NEW r \in rate PROVE TwicePerWindow(admitted'[k], r)
    BY <1>0 DEF AnyWindow
  <2>1. TwicePerWindow(admitted[pkt[c].key] \cup {Own(c)}, r)
    OBVIOUS
  <2>2. k # pkt[c].key => TwicePerWindow(admitted[k], r)
    BY DEF AnyWindow, Bounds
  <2> QED
    BY <1>1, <2>1, <2>2
<1> QED
  BY <1>3, <1>4, <1>5, <1>6 DEF Bounds

\* A count that only grew
LEMMA HoldsMore ==
  ASSUME NEW A, IsFiniteSet(A), NEW start, NEW count \in Nat, NEW more \in Nat, count <= more, NEW r,
         Holds(A, start, count, r)
  PROVE  Holds(A, start, more, r)
<1>1. Cardinality(Since(A, start)) \in Nat /\ Cardinality(Since(A, start)) <= count
  BY SinceFinite DEF Holds
<1>2. Cardinality(Since(A, start)) <= more
  BY <1>1
<1> QED
  BY <1>2 DEF Holds

\* The steps that write to an entry and let no one in
LEMMA BoundsStored ==
  ASSUME CauseInv, Bounds, [Next]_vars, Quiet, Quiet', NEW c \in CPUs, Stores(c), UNCHANGED admitted,
         \A u \in Slots : Settled(u)' =>
           /\ Settled(u) /\ mem'[u].window_start = mem[u].window_start
           /\ mem'[u].count \in Nat /\ mem[u].count <= mem'[u].count,
         \A d \in CPUs : step'[d] \in Restarting => step[d] \in Restarting
  PROVE  Bounds'
<1>0. TypeOK /\ Finite /\ rate' = rate
  BY QuietBack DEF CauseInv, SilenceInv, Quiet
<1>1. \A u \in Slots : mem'[u].key = mem[u].key
  BY DEF Stores
<1>2. Unknown'
  BY <1>1 DEF Unknown, Bounds
<1>3. WindowHolds'
  <2> SUFFICES ASSUME NEW u \in Slots, NEW r \in rate, Settled(u)'
               PROVE  Holds(admitted'[mem'[u].key], mem'[u].window_start, mem'[u].count, r)
    BY <1>0 DEF WindowHolds
  <2>1. /\ Settled(u) /\ mem'[u].window_start = mem[u].window_start
        /\ mem'[u].count \in Nat /\ mem[u].count <= mem'[u].count
    OBVIOUS
  <2>2. mem[u].count \in Nat /\ mem[u].key \in Keys
    BY <1>0, <2>1 DEF Settled, TypeOK, RateState
  <2>3. Holds(admitted[mem[u].key], mem[u].window_start, mem[u].count, r)
    BY <2>1 DEF WindowHolds, Bounds
  <2>4. IsFiniteSet(admitted[mem[u].key])
    <3>1. IsFiniteSet(tried[mem[u].key]) /\ admitted[mem[u].key] \subseteq tried[mem[u].key]
      BY <1>0, <2>2 DEF Finite
    <3> QED
      BY <3>1, SizeMono
  <2>5. Holds(admitted[mem[u].key], mem[u].window_start, mem'[u].count, r)
    BY <2>1, <2>2, <2>3, <2>4, HoldsMore
  <2> QED
    BY <1>1, <2>1, <2>5
<1>4. RestartHolds'
  <2> SUFFICES ASSUME NEW d \in CPUs, step'[d] \in Restarting
               PROVE  After(admitted'[pkt'[d].key], pkt'[d].t, pkt'[d].limit)
    BY DEF RestartHolds
  <2> QED
    BY DEF RestartHolds, Bounds, Stores
<1>5. AnyWindow'
  BY <1>0 DEF AnyWindow, Bounds
<1> QED
  BY <1>2, <1>3, <1>4, <1>5 DEF Bounds

\* The types of what a call on c works with
LEMMA CallTypes ==
  ASSUME CauseInv, NEW c \in CPUs, step[c] # "idle"
  PROVE  /\ pkt[c].key \in Keys /\ pkt[c].t \in Nat /\ pkt[c].limit \in Rate /\ at[c] \in Slots
         /\ mem[at[c]].window_start \in Nat /\ mem[at[c]].count \in Nat
         /\ Own(c) \in Attempt /\ Own(c).t = pkt[c].t
         /\ admitted[pkt[c].key] \in SUBSET Attempt /\ IsFiniteSet(admitted[pkt[c].key])
<1>1. TypeOK
  BY DEF CauseInv, SilenceInv
<1>2. /\ pkt[c].key \in Keys /\ pkt[c].t \in Nat /\ pkt[c].id \in Nat /\ pkt[c].limit \in Rate
  BY <1>1, RateAssumption DEF TypeOK, Packet
<1>3. /\ at[c] \in Slots /\ mem[at[c]].window_start \in Nat /\ mem[at[c]].count \in Nat
  BY <1>1 DEF TypeOK, RateState
<1>4. admitted[pkt[c].key] \in SUBSET Attempt
  BY <1>1, <1>2 DEF TypeOK
<1>5. IsFiniteSet(admitted[pkt[c].key])
  <2>1. IsFiniteSet(tried[pkt[c].key]) /\ admitted[pkt[c].key] \subseteq tried[pkt[c].key]
    BY <1>2 DEF CauseInv, Finite
  <2> QED
    BY <2>1, SizeMono
<1> QED
  BY <1>2, <1>3, <1>4, <1>5 DEF Own, Attempt

LEMMA BoundsStep == CauseInv /\ Bounds /\ [Next]_vars => Bounds'
<1> SUFFICES ASSUME CauseInv, Bounds, [Next]_vars PROVE Bounds'
  OBVIOUS
<1>q. CASE ~Quiet'
  BY <1>q DEF Bounds, Unknown, WindowHolds, RestartHolds, AnyWindow
<1> SUFFICES ASSUME Quiet' PROVE Bounds'
  BY <1>q
<1>0. TypeOK /\ SilenceInv /\ Serial /\ Found /\ OneEntry /\ Quiet /\ ~mixed /\ NoKey \notin Keys
  BY QuietBack, EvictedBack, RateAssumption DEF Quiet, CauseInv, SilenceInv
<1>r. \A c \in CPUs : step[c] # "idle" => pkt[c].limit \in rate /\ \A r \in rate : r = pkt[c].limit
  BY <1>0 DEF Serial
<1>1. CASE UNCHANGED vars \/ ClockTick
  BY <1>0, <1>1, BoundsKept DEF vars, call, ClockTick
<1>2. ASSUME NEW c \in CPUs, NEW k \in Keys, Arrive(c, k) PROVE Bounds'
  <2>1. /\ UNCHANGED <<mem, admitted>>
        /\ \A d \in CPUs : step[d] \in Restarting => step'[d] = step[d] /\ at'[d] = at[d]
        /\ \A d \in CPUs : step'[d] \in Restarting => step[d] \in Restarting /\ pkt'[d] = pkt[d]
    BY <1>0, <1>2, ArriveFacts DEF TypeOK, Restarting
  <2> QED
    BY <1>0, <2>1, BoundsKept
<1>3. ASSUME NEW c \in CPUs, Lookup(c) \/ ReadCount(c) PROVE Bounds'
  <2>1. /\ UNCHANGED <<mem, admitted>>
        /\ \A d \in CPUs : step[d] \in Restarting => step'[d] = step[d] /\ at'[d] = at[d]
        /\ \A d \in CPUs : step'[d] \in Restarting => step[d] \in Restarting /\ pkt'[d] = pkt[d]
    BY <1>0, <1>3 DEF Lookup, ReadCount, Goto, TypeOK, Restarting
  <2> QED
    BY <1>0, <2>1, BoundsKept
<1>4. ASSUME NEW c \in CPUs, Check(c) PROVE Bounds'
  <2>1. /\ step[c] = "check" /\ UNCHANGED <<mem, admitted, at, pkt>>
        /\ \A d \in CPUs \ {c} : step'[d] = step[d]
    BY <1>0, <1>4 DEF Check, Goto, TypeOK
  <2>2. ASSUME step'[c] \in Restarting
        PROVE  After(admitted[pkt[c].key], pkt[c].t, pkt[c].limit)
    <3>1. pkt[c].t > mem[at[c]].window_start + pkt[c].limit.window
      BY <1>0, <1>4, <2>2, CheckMeaning DEF Restarting
    <3>2. mem[at[c]].key = pkt[c].key
      BY <1>0, <2>1 DEF Found, FoundBy, Pointing
    <3>3. Settled(at[c])
      BY <1>0, <2>1, <3>2, CallTypes, Solo DEF Settled, Restarting
    <3>4. Holds(admitted[pkt[c].key], mem[at[c]].window_start, mem[at[c]].count, pkt[c].limit)
      BY <1>0, <1>r, <2>1, <3>2, <3>3, CallTypes DEF Bounds, WindowHolds
    <3> QED
      BY <2>1, <3>1, <3>4, CallTypes, HoldsOver
  <2>3. \A d \in CPUs : step'[d] \in Restarting =>
          \/ step[d] \in Restarting /\ pkt'[d] = pkt[d]
          \/ After(admitted[pkt'[d].key], pkt'[d].t, pkt'[d].limit)
    BY <2>1, <2>2
  <2>4. \A d \in CPUs : step[d] \in Restarting => step'[d] = step[d] /\ at'[d] = at[d]
    BY <2>1 DEF Restarting
  <2> QED
    BY <1>0, <2>1, <2>3, <2>4, BoundsKept
<1>5. ASSUME NEW c \in CPUs, Insert(c) PROVE Bounds'
  <2>1. step[c] = "insert" /\ UNCHANGED <<at, pkt>> /\ Admit(c)
    BY <1>0, <1>5, InsertFacts DEF Insert
  <2>2. \A u \in Slots : mem[u].key # pkt[c].key
    BY <1>0, <2>1 DEF Found, FoundBy
  <2>3. PICK s \in Slots :
          /\ mem' = Placed(s, pkt[c].key, pkt[c].t)
          /\ evicted' = (evicted \/ mem[s].key \notin {NoKey, pkt[c].key} \/ Stranded(s, pkt[c].key))
    BY <1>5 DEF Insert
  <2>4. mem[s].key = NoKey
    BY <2>2, <2>3 DEF Quiet
  <2>5. /\ mem'[s].key = pkt[c].key /\ mem'[s].window_start = pkt[c].t /\ mem'[s].count = 1
        /\ \A u \in Slots \ {s} : mem'[u] = mem[u]
    BY <2>2, <2>3 DEF Placed
  <2>6. \A k \in Keys : (\A u \in Slots : mem'[u].key # k) => (\A u \in Slots : mem[u].key # k)
    BY <1>0, <2>4, <2>5
  <2>7. admitted[pkt[c].key] = {}
    BY <1>0, <2>1, <2>2, CallTypes DEF Bounds, Unknown
  <2>8. ASSUME NEW r \in rate
        PROVE  /\ Holds(admitted[pkt[c].key] \cup {Own(c)}, mem'[s].window_start, mem'[s].count, r)
               /\ TwicePerWindow(admitted[pkt[c].key] \cup {Own(c)}, r)
    <3>1. r \in Rate
      BY <1>r, <2>1, <2>8, CallTypes
    <3>2. /\ After(admitted[pkt[c].key], Own(c).t, r) /\ TwicePerWindow(admitted[pkt[c].key], r)
      BY <2>7, <3>1, AfterNone
    <3>3. /\ Holds(admitted[pkt[c].key] \cup {Own(c)}, Own(c).t, 1, r)
          /\ TwicePerWindow(admitted[pkt[c].key] \cup {Own(c)}, r)
      BY <2>1, <3>1, <3>2, CallTypes, HoldsAnew
    <3>4. mem'[s].window_start = Own(c).t /\ mem'[s].count = 1
      BY <2>5 DEF Own
    <3> QED
      BY <3>3, <3>4
  <2>9. step[c] # "idle" /\ step[c] \notin Restarting
    BY <2>1 DEF Restarting
  <2> QED
    BY <1>0, <2>1, <2>2, <2>5, <2>6, <2>8, <2>9, BoundsAdmitted
<1>6. ASSUME NEW c \in CPUs, RestartWindow(c) \/ RestartCount(c), step[c] = "restart" PROVE Bounds'
  <2>1. Stores(c) /\ UNCHANGED admitted /\ step'[c] \in Restarting
    BY <1>0, <1>6, StoreFacts DEF RestartWindow, RestartCount, Goto, TypeOK, Restarting
  <2>2. ASSUME NEW u \in Slots, Settled(u)'
        PROVE  Settled(u) /\ mem'[u].window_start = mem[u].window_start /\ mem'[u].count \in Nat
               /\ mem[u].count <= mem'[u].count
    <3>1. Settled(u) /\ mem'[u] = mem[u]
      BY <1>0, <1>6, <2>1, <2>2 DEF Settled, Stores
    <3> QED
      BY <1>0, <3>1 DEF TypeOK, RateState
  <2>3. \A d \in CPUs : step'[d] \in Restarting => step[d] \in Restarting
    BY <1>6, <2>1 DEF Stores, Restarting
  <2> QED
    BY <1>0, <2>1, <2>2, <2>3, BoundsStored
<1>7. ASSUME NEW c \in CPUs, RestartWindow(c) \/ RestartCount(c), step[c] # "restart" PROVE Bounds'
  <2>1. Stores(c) /\ Admit(c) /\ step[c] \in Restarting /\ step[c] # "idle" /\ UNCHANGED at
    BY <1>0, <1>7, StoreFacts DEF RestartWindow, RestartCount, Restarting, Stores
  <2>2. mem[at[c]].key = pkt[c].key /\ mem'[at[c]].key = pkt[c].key /\ at[c] \in Slots
    BY <1>0, <2>1, CallTypes DEF Found, FoundBy, Stores
  <2>3. mem'[at[c]].window_start = pkt[c].t /\ mem'[at[c]].count = 1
    BY <1>0, <1>7, <2>2 DEF RestartWindow, RestartCount, Recount, Write, Entry, Found, FoundBy,
       TypeOK, RateState
  <2>4. \A u \in Slots \ {at[c]} : mem'[u] = mem[u]
    BY <2>1 DEF Stores
  <2>5. \A u \in Slots \ {at[c]} : mem[u].key # pkt[c].key
    BY <1>0, <2>1, <2>2, CallTypes DEF OneEntry
  <2>6. \A k \in Keys : (\A u \in Slots : mem'[u].key # k) => (\A u \in Slots : mem[u].key # k)
    BY <2>2, <2>4
  <2>7. ASSUME NEW r \in rate
        PROVE  /\ Holds(admitted[pkt[c].key] \cup {Own(c)}, mem'[at[c]].window_start, mem'[at[c]].count, r)
               /\ TwicePerWindow(admitted[pkt[c].key] \cup {Own(c)}, r)
    <3>1. r \in Rate /\ r = pkt[c].limit
      BY <1>r, <2>1, <2>7, CallTypes
    <3>2. After(admitted[pkt[c].key], Own(c).t, r) /\ TwicePerWindow(admitted[pkt[c].key], r)
      BY <1>0, <2>1, <2>7, <3>1, CallTypes DEF Bounds, RestartHolds, AnyWindow
    <3>3. /\ Holds(admitted[pkt[c].key] \cup {Own(c)}, Own(c).t, 1, r)
          /\ TwicePerWindow(admitted[pkt[c].key] \cup {Own(c)}, r)
      BY <2>1, <3>1, <3>2, CallTypes, HoldsAnew
    <3>4. mem'[at[c]].window_start = Own(c).t /\ mem'[at[c]].count = 1
      BY <2>3 DEF Own
    <3> QED
      BY <3>3, <3>4
  <2> QED
    BY <1>0, <2>1, <2>2, <2>4, <2>5, <2>6, <2>7, BoundsAdmitted
<1>8. ASSUME NEW c \in CPUs, BumpCount(c) PROVE Bounds'
  <2>1. /\ mem[at[c]].window_start <= pkt[c].t
        /\ pkt[c].t <= mem[at[c]].window_start + pkt[c].limit.window
        /\ mem[at[c]].key = pkt[c].key /\ mem[at[c]].count = reg[c] /\ Settled(at[c])
    BY <1>0, <1>8, BumpCounts DEF CauseInv, SilenceInv
  <2>2. Stores(c) /\ step[c] = "bump" /\ step[c] # "idle" /\ UNCHANGED at
    BY <1>0, <1>8, StoreFacts DEF BumpCount, Stores
  <2>3. /\ at[c] \in Slots /\ mem'[at[c]].key = pkt[c].key
        /\ mem'[at[c]].window_start = mem[at[c]].window_start
        /\ mem'[at[c]].count = mem[at[c]].count + 1
    BY <1>0, <1>8, <2>1 DEF BumpCount, Bump, Write, Entry, TypeOK, RateState
  <2>4. CASE Over(Bump(reg[c]), pkt[c].limit)
    <3>1. UNCHANGED admitted /\ step'[c] = "idle"
      BY <1>0, <1>8, <2>4 DEF BumpCount, Drop, Goto, TypeOK
    <3>2. \A d \in CPUs : step'[d] \in Restarting => step[d] \in Restarting
      BY <2>2, <3>1 DEF Stores, Restarting
    <3>3. ASSUME NEW u \in Slots, Settled(u)'
          PROVE  Settled(u) /\ mem'[u].window_start = mem[u].window_start /\ mem'[u].count \in Nat
                 /\ mem[u].count <= mem'[u].count
      <4>1. CASE u = at[c]
        BY <2>1, <2>2, <2>3, <4>1, CallTypes
      <4>2. CASE u # at[c]
        BY <1>0, <2>2, <3>3, <4>2 DEF Settled, Stores, Restarting, TypeOK, RateState
      <4> QED
        BY <4>1, <4>2
    <3> QED
      BY <1>0, <2>2, <3>1, <3>2, <3>3, BoundsStored
  <2>5. CASE ~Over(Bump(reg[c]), pkt[c].limit)
    <3>1. Admit(c)
      BY <1>8, <2>5 DEF BumpCount
    <3>2. \A u \in Slots \ {at[c]} : mem'[u] = mem[u]
      BY <2>2 DEF Stores
    <3>3. \A u \in Slots \ {at[c]} : mem[u].key # pkt[c].key
      BY <1>0, <2>1, <2>2, CallTypes DEF OneEntry
    <3>4. \A k \in Keys : (\A u \in Slots : mem'[u].key # k) => (\A u \in Slots : mem[u].key # k)
      BY <2>1, <2>3, <3>2
    <3>5. ASSUME NEW r \in rate
          PROVE  /\ Holds(admitted[pkt[c].key] \cup {Own(c)}, mem'[at[c]].window_start,
                           mem'[at[c]].count, r)
                 /\ TwicePerWindow(admitted[pkt[c].key] \cup {Own(c)}, r)
      <4>1. r \in Rate /\ r = pkt[c].limit
        BY <1>r, <2>2, <3>5, CallTypes
      <4>2. /\ Holds(admitted[pkt[c].key], mem[at[c]].window_start, mem[at[c]].count, r)
            /\ TwicePerWindow(admitted[pkt[c].key], r)
        BY <1>0, <2>1, <2>2, <2>3, <3>5, CallTypes DEF Bounds, WindowHolds, AnyWindow
      <4>3. mem[at[c]].count + 1 <= r.max
        BY <2>1, <2>2, <2>5, <4>1, CallTypes DEF Over, Bump, Rate
      <4>4. /\ Holds(admitted[pkt[c].key] \cup {Own(c)}, mem[at[c]].window_start, mem[at[c]].count + 1, r)
            /\ TwicePerWindow(admitted[pkt[c].key] \cup {Own(c)}, r)
        BY <2>1, <2>2, <4>1, <4>2, <4>3, CallTypes, HoldsCounted
      <4> QED
        BY <2>3, <4>4
    <3>6. step[c] \notin Restarting
      BY <2>2 DEF Restarting
    <3> QED
      BY <1>0, <2>2, <2>3, <3>1, <3>2, <3>3, <3>4, <3>5, <3>6, BoundsAdmitted
  <2> QED
    BY <2>4, <2>5
<1>9. CASE SetRate
  BY <1>9 DEF SetRate, Quiet
<1> QED
  BY <1>1, <1>2, <1>3, <1>4, <1>5, <1>6, <1>7, <1>8, <1>9 DEF Next, OverRate

LEMMA BoundInit == Init => BoundInv
<1> SUFFICES ASSUME Init PROVE BoundInv
  OBVIOUS
<1>1. CauseInv
  BY CauseInit
<1>2. \A k \in Keys : admitted[k] = {}
  BY DEF Init
<1>3. \A c \in CPUs : step[c] = "idle"
  BY DEF Init
<1>4. \A s \in Slots : mem[s].key \notin Keys
  BY RateAssumption DEF Init
<1>5. \A r \in rate : r \in Rate
  BY RateAssumption DEF Init
<1>6. Unknown /\ WindowHolds /\ RestartHolds
  BY <1>2, <1>3, <1>4 DEF Unknown, WindowHolds, Settled, RestartHolds, Restarting
<1>7. AnyWindow
  BY <1>2, <1>5, AfterNone DEF AnyWindow
<1> QED
  BY <1>1, <1>6, <1>7 DEF BoundInv, Bounds

\* When calls of over_rate do not overlap and no entry is evicted, no stretch of
\* time as long as the window lets in more than twice the limit of one source.
THEOREM AdmissionIsBounded == Spec => []AdmittedBounded
<1>1. Init => BoundInv
  BY BoundInit
<1>2. BoundInv /\ [Next]_vars => BoundInv'
  BY CauseInvStep, BoundsStep DEF BoundInv
<1>3. BoundInv => AdmittedBounded
  <2> SUFFICES ASSUME BoundInv, NEW r \in rate, NEW k \in Keys, NEW start \in 0..now,
                      ~evicted, ~mixed
               PROVE  Cardinality(Within(admitted[k], start, start + r.window)) <= 2 * r.max
    BY DEF AdmittedBounded
  <2>1. start \in Int
    BY DEF BoundInv, CauseInv, SilenceInv, TypeOK
  <2> QED
    BY <2>1 DEF BoundInv, Bounds, AnyWindow, TwicePerWindow, Quiet
<1> QED
  BY <1>1, <1>2, <1>3, PTL DEF Spec
=============================================================================
