----------------------------- MODULE RateLimit -----------------------------
(***************************************************************************)
(* The per-port limit on new TCP connections from one source (`over_rate`  *)
(* in the packet filter), as the CPUs of the machine run it side by side.  *)
(*                                                                         *)
(* The window of a source and port is an entry of the RATE_STATE map, read *)
(* and written through a plain pointer: nothing is atomic, so a call is    *)
(* cut here at every access to shared memory.  The map is an LRU hash: an  *)
(* insert takes any slot, and a CPU may still hold a pointer to a slot     *)
(* that meanwhile belongs to another key.                                  *)
(*                                                                         *)
(* A packet keeps the CPU until its verdict (XDP runs to completion), so   *)
(* the clock moves at most MaxLag while one is being looked at.  IPv6      *)
(* sources and ports without a limit are let through before any of this;   *)
(* in monitor mode a verdict to drop is only counted.                      *)
(***************************************************************************)
EXTENDS Integers, FiniteSets

CONSTANTS
  Keys,        \* (source, port) pairs
  CPUs,
  Slots,       \* the elements of RATE_STATE
  Rates,       \* limits the config may set: [max, window]
  Modulus,     \* 2^64, the width of the clock's arithmetic
  MaxLag,      \* clock ticks a call may last
  Horizon,     \* bound: last value of the clock
  MaxPackets,  \* bound: packets
  MaxChanges   \* bound: changes of the limit

Rate == [max : Nat \ {0}, window : Nat \ {0}]
NoKey == "none"
RateState == [key : Keys \cup {NoKey}, window_start : Nat, count : Nat]

ASSUME RateAssumption ==
  /\ IsFiniteSet(CPUs) /\ IsFiniteSet(Keys)
  /\ NoKey \notin Keys
  /\ Slots # {}
  /\ Rates \subseteq Rate
  /\ Modulus \in Nat \ {0} /\ Horizon < Modulus
  /\ \A r \in Rates : r.window < Modulus - Horizon
  /\ MaxLag \in Nat /\ Horizon \in Nat /\ MaxPackets \in Nat /\ MaxChanges \in Nat

VARIABLES
  now,       \* bpf_ktime_get_boot_ns
  rate,      \* TCP_RATE of the port: {} or one limit
  mem,       \* RATE_STATE: slot -> RateState
  step,      \* cpu -> where in over_rate it is
  pkt,       \* cpu -> the packet: its key, its time and the limit it read
  at,        \* cpu -> the slot its pointer is for
  reg,       \* cpu -> the count it has read
  packets, changes,
  evicted,   \* ghost: a slot went to another key while it was in use
  mixed,     \* ghost: two calls ran side by side, or the limit changed
  tried,     \* ghost: key -> the packets the limit applied to, by time
  admitted,  \* ghost: key -> those let through
  dropped    \* ghost: the last packet dropped, {} if the last was let through

call == <<step, pkt, at, reg>>
vars == <<now, rate, mem, call, packets, changes, evicted, mixed, tried, admitted, dropped>>

Steps == {"idle", "lookup", "insert", "check", "restart", "recount", "rewindow", "read", "bump"}
Packet == [key : Keys, id : Nat, t : Nat, limit : Rates]
Attempt == [id : Nat, t : Nat]

\* Where a call holds a pointer into RATE_STATE
Pointing == {"check", "restart", "recount", "rewindow", "read", "bump"}

TypeOK ==
  /\ now \in Nat /\ packets \in Nat /\ changes \in Nat
  /\ rate \in SUBSET Rates
  /\ mem \in [Slots -> RateState]
  /\ step \in [CPUs -> Steps]
  /\ at \in [CPUs -> Slots]
  /\ reg \in [CPUs -> Nat]
  /\ DOMAIN pkt = CPUs /\ \A c \in CPUs : step[c] # "idle" => pkt[c] \in Packet
  /\ tried \in [Keys -> SUBSET Attempt] /\ admitted \in [Keys -> SUBSET Attempt]
  /\ dropped \in SUBSET Packet
  /\ evicted \in BOOLEAN /\ mixed \in BOOLEAN

-----------------------------------------------------------------------------
Goto(c, s) == step' = [step EXCEPT ![c] = s]

\* The entry a pointer of c refers to
Entry(c) == mem[at[c]]

Write(c, e) == mem' = [mem EXCEPT ![at[c]] = e]

Admit(c) ==
  /\ Goto(c, "idle")
  /\ admitted' = [admitted EXCEPT ![pkt[c].key] = @ \cup {[id |-> pkt[c].id, t |-> pkt[c].t]}]
  /\ dropped' = {}

Drop(c) ==
  /\ Goto(c, "idle")
  /\ dropped' = {pkt[c]}
  /\ UNCHANGED admitted

Init ==
  /\ now = 0 /\ packets = 0 /\ changes = 0
  /\ rate \in {{r} : r \in Rates}
  /\ mem = [s \in Slots |-> [key |-> NoKey, window_start |-> 0, count |-> 0]]
  /\ step = [c \in CPUs |-> "idle"]
  /\ pkt = [c \in CPUs |-> NoKey]
  /\ at \in [CPUs -> Slots]
  /\ \A c, d \in CPUs : at[c] = at[d]
  /\ reg = [c \in CPUs |-> 0]
  /\ evicted = FALSE /\ mixed = FALSE
  /\ tried = [k \in Keys |-> {}] /\ admitted = [k \in Keys |-> {}]
  /\ dropped = {}

\* A connection opener for an open port: its limit is read, then the clock
Arrive(c, k) ==
  /\ step[c] = "idle" /\ packets < MaxPackets
  /\ \E r \in rate :
       pkt' = [pkt EXCEPT ![c] = [key |-> k, id |-> packets, t |-> now, limit |-> r]]
  /\ Goto(c, "lookup")
  /\ tried' = [tried EXCEPT ![k] = @ \cup {[id |-> packets, t |-> now]}]
  /\ packets' = packets + 1
  /\ mixed' = (mixed \/ \E d \in CPUs : step[d] # "idle")
  /\ dropped' = {}
  /\ UNCHANGED <<now, rate, mem, at, reg, changes, evicted, admitted>>

Lookup(c) ==
  /\ step[c] = "lookup"
  /\ \/ \E s \in Slots : /\ mem[s].key = pkt[c].key
                         /\ at' = [at EXCEPT ![c] = s]
                         /\ Goto(c, "check")
     \/ /\ \A s \in Slots : mem[s].key # pkt[c].key
        /\ Goto(c, "insert")
        /\ UNCHANGED at
  /\ UNCHANGED <<now, rate, mem, pkt, reg, packets, changes, evicted, mixed, tried, admitted, dropped>>

\* A call for another key still holds a pointer to slot s
Stranded(s, k) ==
  \E d \in CPUs : step[d] \in Pointing /\ at[d] = s /\ pkt[d].key # k

\* RATE_STATE with a first window of k in slot s, and nowhere else
Placed(s, k, t) ==
  [q \in Slots |-> CASE q = s                    -> [key |-> k, window_start |-> t, count |-> 1]
                     [] q # s /\ mem[q].key = k -> [mem[q] EXCEPT !.key = NoKey]
                     [] OTHER                    -> mem[q]]

\* BPF_ANY: another CPU's entry for the key is replaced, some other key's may be
Insert(c) ==
  /\ step[c] = "insert"
  /\ \E s \in Slots :
       /\ mem' = Placed(s, pkt[c].key, pkt[c].t)
       /\ evicted' = (evicted \/ mem[s].key \notin {NoKey, pkt[c].key} \/ Stranded(s, pkt[c].key))
  /\ Admit(c)
  /\ UNCHANGED <<now, rate, pkt, at, reg, packets, changes, mixed, tried>>

\* The window's seconds compared with coarser units than nanoseconds
ElapsedCoarse(t, start) == ((t - start) % Modulus) \div 4

\* u64 subtraction: a window that another CPU started later looks very old
Elapsed(t, start) == (t - start) % Modulus

Check(c) ==
  /\ step[c] = "check"
  /\ Goto(c, IF Elapsed(pkt[c].t, Entry(c).window_start) > pkt[c].limit.window
             THEN "restart" ELSE "read")
  /\ UNCHANGED <<now, rate, mem, pkt, at, reg, packets, changes, evicted, mixed, tried, admitted,
                 dropped>>

\* A new window begins with two plain stores, which the build may put in either
\* order; the packet passes after the second.
RestartWindow(c) ==
  /\ step[c] \in {"restart", "rewindow"}
  /\ Write(c, [Entry(c) EXCEPT !.window_start = pkt[c].t])
  /\ IF step[c] = "restart" THEN Goto(c, "recount") /\ UNCHANGED <<admitted, dropped>>
                             ELSE Admit(c)
  /\ UNCHANGED <<now, rate, pkt, at, reg, packets, changes, evicted, mixed, tried>>

RecountSlip(e) == e

Recount(e) == [e EXCEPT !.count = 1]

RestartCount(c) ==
  /\ step[c] \in {"restart", "recount"}
  /\ Write(c, Recount(Entry(c)))
  /\ IF step[c] = "restart" THEN Goto(c, "rewindow") /\ UNCHANGED <<admitted, dropped>>
                             ELSE Admit(c)
  /\ UNCHANGED <<now, rate, pkt, at, reg, packets, changes, evicted, mixed, tried>>

ReadCount(c) ==
  /\ step[c] = "read"
  /\ reg' = [reg EXCEPT ![c] = Entry(c).count]
  /\ Goto(c, "bump")
  /\ UNCHANGED <<now, rate, mem, pkt, at, packets, changes, evicted, mixed, tried, admitted, dropped>>

Bump(count) == count + 1

OverSlip(count, limit) == count > limit.max + 1

Over(count, limit) == count > limit.max

\* The comparison uses the value just stored, not one another CPU may have stored since
BumpCount(c) ==
  /\ step[c] = "bump"
  /\ Write(c, [Entry(c) EXCEPT !.count = Bump(reg[c])])
  /\ IF Over(Bump(reg[c]), pkt[c].limit) THEN Drop(c) ELSE Admit(c)
  /\ UNCHANGED <<now, rate, pkt, at, reg, packets, changes, evicted, mixed, tried>>

\* The daemon applies another config; without a limit no packet comes this far
SetRate ==
  /\ changes < MaxChanges
  /\ rate' \in ({{}} \cup {{r} : r \in Rates}) \ {rate}
  /\ changes' = changes + 1
  /\ mixed' = TRUE
  /\ dropped' = {}
  /\ UNCHANGED <<now, mem, call, packets, evicted, tried, admitted>>

ClockTick ==
  /\ now < Horizon
  /\ \A c \in CPUs : step[c] # "idle" => now + 1 - pkt[c].t <= MaxLag
  /\ now' = now + 1
  /\ dropped' = {}
  /\ UNCHANGED <<rate, mem, call, packets, changes, evicted, mixed, tried, admitted>>

OverRate(c) ==
  \/ \E k \in Keys : Arrive(c, k)
  \/ Lookup(c) \/ Insert(c) \/ Check(c) \/ RestartWindow(c) \/ RestartCount(c)
  \/ ReadCount(c) \/ BumpCount(c)

Next == (\E c \in CPUs : OverRate(c)) \/ SetRate \/ ClockTick

Spec == Init /\ [][Next]_vars

-----------------------------------------------------------------------------
(* Properties                                                              *)

Within(S, from, to) == {p \in S : from <= p.t /\ p.t <= to}

\* Another attempt of p's source, within the window that ends with p
TriedBefore(p) ==
  \E q \in tried[p.key] : q.id # p.id /\ p.t - p.limit.window <= q.t /\ q.t <= p.t

\* A source that was silent for a window is let in again, however the CPUs
\* interleave: no leftover count of over_rate outlives the next window.  (An
\* eviction hands the slot, and the pointers to it, to another source.)
SilenceForgives == \A p \in dropped : ~evicted => TriedBefore(p)

\* When calls do not overlap, only a source that tried more often than the limit
\* within one window is refused.
DroppedForCause ==
  \A p \in dropped : ~evicted /\ ~mixed =>
    Cardinality(Within(tried[p.key], p.t - p.limit.window, p.t)) > p.limit.max

\* When calls do not overlap, any stretch as long as the window touches two
\* windows of over_rate at most, and lets in the limit of each.
AdmittedBounded ==
  \A r \in rate, k \in Keys, start \in 0..now : ~evicted /\ ~mixed =>
    Cardinality(Within(admitted[k], start, start + r.window)) <= 2 * r.max
=============================================================================
