--------------------------- MODULE DetectorProofs ---------------------------
(***************************************************************************)
(* What holds of the detector for every set of sources, every limit, every *)
(* table size and every sequence of events.                                *)
(***************************************************************************)
EXTENDS Detector, TLAPS, FiniteSetTheorems

(* Partial functions stay partial functions when an entry is set or dropped. *)
LEMMA WithTyped ==
  ASSUME NEW S, NEW T, NEW f, IsPartialFn(f, S, T), NEW s \in S, NEW v \in T
  PROVE  IsPartialFn(With(f, s, v), S, T) /\ DOMAIN With(f, s, v) = DOMAIN f \cup {s}
BY DEF IsPartialFn, With

LEMMA WithoutTyped ==
  ASSUME NEW S, NEW T, NEW f, IsPartialFn(f, S, T), NEW D
  PROVE  IsPartialFn(Without(f, D), S, T) /\ DOMAIN Without(f, D) = DOMAIN f \ D
BY DEF IsPartialFn, Without

LEMMA EmptyTyped ==
  ASSUME NEW S, NEW T
  PROVE  IsPartialFn(Empty, S, T) /\ DOMAIN Empty = {}
BY DEF IsPartialFn, Empty

(* Counting one event leaves a track a track. *)
LEMMA CountedTyped ==
  ASSUME NEW t \in Track, NEW e \in Event
  PROVE  Counted(t, e) \in Track
BY DEF Counted, Track, Event

LEMMA FreshTrackTyped == ASSUME NEW n \in Nat PROVE FreshTrack(n) \in Track
BY DEF FreshTrack, Track

(* What prune leaves. *)
LEMMA PrunedTyped ==
  ASSUME TypeOK
  PROVE  /\ IsPartialFn(OpenTracks, Sources, Track) /\ DOMAIN OpenTracks \subseteq DOMAIN tracks
         /\ IsPartialFn(KeptOffenders, Sources, Offender)
<1> DEFINE D == {s \in DOMAIN tracks : WindowOver(tracks[s])}
           E == {s \in DOMAIN offenders : SatSub(boot, offenders[s].last_ban) > KeptSecs}
<1>1. IsPartialFn(tracks, Sources, Track) /\ IsPartialFn(offenders, Sources, Offender)
  BY DEF TypeOK
<1> HIDE DEF D, E
<1>2. IsPartialFn(Without(tracks, D), Sources, Track) /\ DOMAIN Without(tracks, D) = DOMAIN tracks \ D
  BY <1>1, WithoutTyped
<1>3. IsPartialFn(Without(offenders, E), Sources, Offender)
  BY <1>1, WithoutTyped
<1> QED
  BY <1>2, <1>3 DEF OpenTracks, KeptOffenders, D, E

(* One call of observe, seen from outside: it starts from the table as it is *)
(* or as prune leaves it; it adds at most the source of the event, which is  *)
(* not protected, and that only where there is room.                         *)
LEMMA ScoredStep ==
  ASSUME TypeOK, NEW s \in Sources, NEW e \in Event, Scored(s, e)
  PROVE  /\ s \notin protected
         /\ IsPartialFn(tracks', Sources, Track)
         /\ IsPartialFn(offenders', Sources, Offender)
         /\ \E D \in SUBSET DOMAIN tracks :
              /\ s \in D \/ ~(Cardinality(D) >= MAX_TRACKED)
              /\ DOMAIN tracks' = D \cup {s} \/ DOMAIN tracks' = D \ {s}
<1> DEFINE crowded == s \notin DOMAIN tracks /\ Full(tracks)
           ts == IF crowded THEN OpenTracks ELSE tracks
           offs == IF crowded THEN KeptOffenders ELSE offenders
           old == IF s \in DOMAIN ts THEN ts[s] ELSE FreshTrack(0)
           new == Counted(IF WindowOver(old) THEN FreshTrack(boot) ELSE old, e)
           strikes == Strikes(offs, s)
<1>1. /\ IsPartialFn(ts, Sources, Track) /\ DOMAIN ts \subseteq DOMAIN tracks
      /\ IsPartialFn(offs, Sources, Offender)
  BY PrunedTyped DEF TypeOK
<1>2. s \notin protected /\ (crowded => ~Full(ts))
  BY DEF Scored
<1>3. new \in Track
  <2>1. old \in Track
    BY <1>1, FreshTrackTyped DEF IsPartialFn
  <2>2. FreshTrack(boot) \in Track
    BY FreshTrackTyped DEF TypeOK
  <2> QED
    BY <2>1, <2>2, CountedTyped
<1>4. [strikes |-> strikes, last_ban |-> boot] \in Offender
  <2>1. strikes \in Nat
    BY <1>1 DEF Strikes, IsPartialFn, Offender
  <2> QED
    BY <2>1 DEF Offender, TypeOK
<1>5. s \in DOMAIN ts \/ ~(Cardinality(DOMAIN ts) >= MAX_TRACKED)
  BY <1>2 DEF Full
<1> HIDE DEF new, ts, offs, strikes
<1>6. CASE tracks' = With(ts, s, new) /\ offenders' = offs
  <2>1. IsPartialFn(With(ts, s, new), Sources, Track) /\ DOMAIN With(ts, s, new) = DOMAIN ts \cup {s}
    BY <1>1, <1>3, WithTyped
  <2> QED
    BY <1>1, <1>2, <1>5, <1>6, <2>1
<1>7. CASE /\ tracks' = Without(ts, {s})
           /\ offenders' = With(offs, s, [strikes |-> strikes, last_ban |-> boot])
  <2>1. IsPartialFn(Without(ts, {s}), Sources, Track) /\ DOMAIN Without(ts, {s}) = DOMAIN ts \ {s}
    BY <1>1, WithoutTyped
  <2>2. IsPartialFn(With(offs, s, [strikes |-> strikes, last_ban |-> boot]), Sources, Offender)
    BY <1>1, <1>4, WithTyped
  <2> QED
    BY <1>1, <1>2, <1>5, <1>7, <2>1, <2>2
<1>8. \/ tracks' = With(ts, s, new) /\ offenders' = offs
      \/ /\ tracks' = Without(ts, {s})
         /\ offenders' = With(offs, s, [strikes |-> strikes, last_ban |-> boot])
  BY DEF Scored, new, ts, offs, strikes
<1> QED
  BY <1>6, <1>7, <1>8

(* Ages carried across a restart are natural numbers: no subtraction of     *)
(* clocks goes below zero (saturating_sub in capture and restore).          *)
LEMMA AgesTyped ==
  ASSUME TypeOK, NEW offs, IsPartialFn(offs, Sources, Offender)
  PROVE  /\ IsPartialFn(Captured(offs), Sources, Offender)
         /\ IsPartialFn(Restored(offs), Sources, Offender)
BY DEF IsPartialFn, Captured, Restored, SatSub, Offender, TypeOK

(* A step of the specification keeps every variable within its type. *)
LEMMA NextKeepsTypes == TypeOK /\ [Next]_vars => TypeOK'
<1> SUFFICES ASSUME TypeOK, [Next]_vars PROVE TypeOK'
  OBVIOUS
<1> USE DetectorAssumption
<1>1. ASSUME NEW s \in Sources, NEW e \in Events, Observe(s, e) PROVE TypeOK'
  <2>1. IsPartialFn(tracks', Sources, Track) /\ IsPartialFn(offenders', Sources, Offender)
    <3>1. CASE Scored(s, e)
      BY <3>1, ScoredStep
    <3>2. CASE Ignored(s)
      BY <3>2, PrunedTyped DEF Ignored, TypeOK
    <3> QED
      BY <1>1, <3>1, <3>2 DEF Observe
  <2> QED
    BY <1>1, <2>1 DEF Observe, TypeOK
<1>2. CASE SetProtected
  <2>1. IsPartialFn(Without(tracks, protected'), Sources, Track)
    BY WithoutTyped DEF TypeOK
  <2> QED
    BY <1>2, <2>1 DEF SetProtected, Spared, TypeOK
<1>3. CASE Reconfigure
  BY <1>3 DEF Reconfigure, TypeOK
<1>4. CASE EndOfTick
  BY <1>4, PrunedTyped, AgesTyped DEF EndOfTick, TypeOK
<1>5. CASE Start
  BY <1>5, EmptyTyped, AgesTyped DEF Start, TypeOK
<1>6. CASE Crash \/ Reboot
  <2>1. IsPartialFn(Empty, Sources, Track) /\ IsPartialFn(Empty, Sources, Offender)
    BY EmptyTyped
  <2>2. up' \in BOOLEAN /\ protected' \in SUBSET Sources /\ tracks' = Empty /\ offenders' = Empty
    BY <1>6 DEF Crash, Reboot, Forget
  <2>3. /\ boot' \in Nat /\ ops' \in Nat /\ reboots' \in Nat
        /\ UNCHANGED <<cfg, bans, wall, saved>>
    BY <1>6 DEF Crash, Reboot, TypeOK
  <2> QED
    BY <2>1, <2>2, <2>3 DEF TypeOK
<1>7. CASE ClockTick
  BY <1>7 DEF ClockTick, memory, TypeOK
<1>8. CASE UNCHANGED vars
  BY <1>8 DEF vars, TypeOK
<1> QED
  BY <1>1, <1>2, <1>3, <1>4, <1>5, <1>6, <1>7, <1>8 DEF Next

(* Every variable of the detector keeps its type in every behaviour; the    *)
(* ages of the strikes never wrap around, on any boot (state.rs:183).       *)
THEOREM TypeCorrect == Spec => []TypeOK
<1>1. ASSUME Init PROVE TypeOK
  <2>1. IsPartialFn(Empty, Sources, Track) /\ IsPartialFn(Empty, Sources, Offender)
    BY EmptyTyped
  <2> QED
    BY <1>1, <2>1, DetectorAssumption DEF Init, TypeOK
<1> QED
  BY <1>1, NextKeepsTypes, PTL DEF Spec

-----------------------------------------------------------------------------
(* The two facts about the table that a flood or an address change could    *)
(* break; each step that changes the table or the protected set is a case.  *)
TableInv == TracksSpareProtected /\ TracksBounded

(* A table with fewer sources is no fuller. *)
LEMMA SmallerTable ==
  ASSUME TypeOK, TracksBounded, NEW D \in SUBSET DOMAIN tracks
  PROVE  Cardinality(D) <= MAX_TRACKED
<1>1. IsFiniteSet(DOMAIN tracks)
  BY DetectorAssumption, FS_Subset DEF TypeOK, IsPartialFn
<1>2. IsFiniteSet(D) /\ Cardinality(D) <= Cardinality(DOMAIN tracks)
  BY <1>1, FS_Subset
<1>3. Cardinality(D) \in Nat /\ Cardinality(DOMAIN tracks) \in Nat /\ MAX_TRACKED \in Nat
  BY <1>1, <1>2, FS_CardinalityType, DetectorAssumption
<1> QED
  BY <1>2, <1>3 DEF TracksBounded

(* One step keeps both facts. *)
LEMMA NextKeepsTable == TypeOK /\ TableInv /\ [Next]_vars => TableInv'
<1> SUFFICES ASSUME TypeOK, TracksSpareProtected, TracksBounded, [Next]_vars PROVE TableInv'
  BY DEF TableInv
<1>0. ASSUME DOMAIN tracks' \subseteq DOMAIN tracks, DOMAIN tracks' \cap protected' = {}
      PROVE  TableInv'
  BY <1>0, SmallerTable DEF TableInv, TracksSpareProtected, TracksBounded
<1>1. ASSUME NEW s \in Sources, NEW e \in Events, Scored(s, e), UNCHANGED protected
      PROVE  TableInv'
  <2>1. e \in Event
    BY DetectorAssumption
  <2>2. PICK D \in SUBSET DOMAIN tracks :
              /\ s \in D \/ ~(Cardinality(D) >= MAX_TRACKED)
              /\ DOMAIN tracks' = D \cup {s} \/ DOMAIN tracks' = D \ {s}
    BY <1>1, <2>1, ScoredStep
  <2>3. s \notin protected
    BY <1>1, <2>1, ScoredStep
  <2>4. CASE DOMAIN tracks' \subseteq D
    BY <1>0, <1>1, <2>4 DEF TracksSpareProtected
  <2>5. CASE DOMAIN tracks' = D \cup {s} /\ s \notin D
    <3>1. IsFiniteSet(D)
      BY DetectorAssumption, FS_Subset DEF TypeOK, IsPartialFn
    <3>2. Cardinality(D \cup {s}) = Cardinality(D) + 1 /\ Cardinality(D) \in Nat
      BY <2>5, <3>1, FS_AddElement, FS_CardinalityType
    <3>3. Cardinality(D \cup {s}) <= MAX_TRACKED
      BY <2>2, <2>5, <3>2, DetectorAssumption
    <3> QED
      BY <1>1, <2>3, <2>5, <3>3 DEF TableInv, TracksSpareProtected, TracksBounded
  <2> QED
    BY <2>2, <2>4, <2>5
<1>2. ASSUME NEW s \in Sources, Ignored(s), UNCHANGED protected PROVE TableInv'
  BY <1>0, <1>2, PrunedTyped DEF Ignored, TracksSpareProtected
<1>3. CASE SetProtected
  <2>1. DOMAIN tracks' = DOMAIN tracks \ protected'
    <3>1. DOMAIN Without(tracks, protected') = DOMAIN tracks \ protected'
      BY WithoutTyped DEF TypeOK
    <3> QED
      BY <1>3, <3>1 DEF SetProtected, Spared
  <2> QED
    BY <1>0, <2>1
<1>4. CASE EndOfTick
  BY <1>0, <1>4, PrunedTyped DEF EndOfTick, TracksSpareProtected
<1>5. CASE Start \/ Crash \/ Reboot
  <2>1. DOMAIN tracks' = {}
    BY <1>5, EmptyTyped DEF Start, Crash, Reboot, Forget
  <2> QED
    BY <1>0, <2>1
<1>6. CASE Reconfigure \/ ClockTick \/ UNCHANGED vars
  BY <1>0, <1>6 DEF Reconfigure, ClockTick, memory, vars, TracksSpareProtected
<1> QED
  BY <1>1, <1>2, <1>3, <1>4, <1>5, <1>6 DEF Next, Observe

LEMMA TableStart == Init => TableInv
<1>1. ASSUME Init PROVE DOMAIN tracks = {}
  BY <1>1, EmptyTyped DEF Init
<1> QED
  BY <1>1, FS_EmptySet, DetectorAssumption DEF TableInv, TracksSpareProtected, TracksBounded

(* detector.rs:17 "so a spoofed flood can't grow memory forever": whatever  *)
(* arrives, the table stays within its bound.                               *)
THEOREM TableIsBounded == Spec => []TracksBounded
<1>1. TableInv => TracksBounded
  BY DEF TableInv
<1> QED
  BY <1>1, TableStart, TypeCorrect, NextKeepsTable, PTL DEF Spec

(* A protected source has nothing counted against it, however the protected *)
(* set changes between its events (detector.rs `set_protected`).            *)
THEOREM ProtectedUntracked == Spec => []TracksSpareProtected
<1>1. TableInv => TracksSpareProtected
  BY DEF TableInv
<1> QED
  BY <1>1, TableStart, TypeCorrect, NextKeepsTable, PTL DEF Spec

-----------------------------------------------------------------------------
(* The two clocks and the three places that date a ban: the memory, the     *)
(* file and what really happened.                                           *)

\* Nothing is dated in the future, on either clock
Clocks ==
  /\ boot <= wall
  /\ \A s \in DOMAIN offenders : offenders[s].last_ban <= boot
  /\ \A s \in DOMAIN saved : saved[s].last_ban <= wall

\* Strikes were earned by a ban, and a date is never later than that ban, but for
\* a ban before this boot, which counts as made when the machine came up
Dates ==
  /\ DOMAIN lastBan = Sources
  /\ \A s \in DOMAIN offenders : \E l \in lastBan[s] :
       /\ l.at \in Nat
       /\ offenders[s].last_ban = 0 \/ offenders[s].last_ban + wall <= boot + l.at
  /\ \A s \in DOMAIN saved : \E l \in lastBan[s] :
       /\ l.at \in Nat
       /\ saved[s].last_ban <= l.at \/ saved[s].last_ban + boot <= wall

\* What the file says of a source and is not forgiven yet, the daemon knows, and
\* as something at least as recent
FileKnown ==
  up => \A s \in DOMAIN saved : wall - saved[s].last_ban <= bans.forgive_secs =>
          /\ s \in DOMAIN offenders /\ offenders[s].strikes >= saved[s].strikes
          /\ boot - offenders[s].last_ban <= wall - saved[s].last_ban

\* The track of a source counts events of its window, each once per signal
Since(H, t) == {h \in H : h.at >= t}

CountsAt(t, n) == t.syn + t.udp + t.odd <= n /\ t.drops <= n /\ Cardinality(t.ports) <= n

Tally ==
  /\ DOMAIN heard = Sources
  /\ \A s \in Sources : /\ IsFiniteSet(heard[s])
                        /\ \A h \in heard[s] : h.at \in Nat /\ h.n \in Nat /\ h.n < ops
  /\ \A s \in DOMAIN tracks :
       /\ tracks[s].window_start <= boot /\ IsFiniteSet(tracks[s].ports)
       /\ CountsAt(tracks[s], Cardinality(Since(heard[s], tracks[s].window_start)))

-----------------------------------------------------------------------------
(* What prune leaves is as it was. *)
LEMMA KeptAre ==
  /\ DOMAIN KeptOffenders = {s \in DOMAIN offenders :
                               ~(SatSub(boot, offenders[s].last_ban) > KeptSecs)}
  /\ \A s \in DOMAIN KeptOffenders : KeptOffenders[s] = offenders[s]
BY DEF KeptOffenders, Without

(* An event leaves the strikes as they are, or as prune leaves them, or adds *)
(* those of one ban to that.                                                 *)
LEMMA ObserveStrikes ==
  ASSUME TypeOK, NEW s \in Sources, NEW e \in Events, Observe(s, e)
  PROVE  \E offs \in {offenders, KeptOffenders} :
           \/ offenders' = offs /\ ban' = {} /\ lastBan' = lastBan
           \/ LET n == Strikes(offs, s) IN
              /\ offenders' = With(offs, s, [strikes |-> n, last_ban |-> boot])
              /\ ban' = {[ip |-> s, secs |-> BanSecs(n), strikes |-> n]}
              /\ lastBan' = [lastBan EXCEPT ![s] = {[at |-> wall, secs |-> BanSecs(n)]}]
<1>1. CASE Ignored(s) /\ ban' = {} /\ UNCHANGED lastBan
  BY <1>1 DEF Ignored
<1>2. CASE Scored(s, e)
  <2> DEFINE offs == IF s \notin DOMAIN tracks /\ Full(tracks) THEN KeptOffenders ELSE offenders
             n == Strikes(offs, s)
             b == [ip |-> s, secs |-> BanSecs(n), strikes |-> n]
  <2>1. \/ offenders' = offs /\ ban' = {} /\ lastBan' = lastBan
        \/ offenders' = With(offs, s, [strikes |-> n, last_ban |-> boot]) /\ Banned(b)
    BY <1>2 DEF Scored
  <2>2. b.ip = s /\ b.secs = BanSecs(n)
    OBVIOUS
  <2>3. Banned(b) => /\ ban' = {b}
                     /\ lastBan' = [lastBan EXCEPT ![s] = {[at |-> wall, secs |-> BanSecs(n)]}]
    BY <2>2 DEF Banned
  <2>4. offs \in {offenders, KeptOffenders}
    OBVIOUS
  <2> QED
    BY <2>1, <2>3, <2>4
<1> QED
  BY <1>1, <1>2 DEF Observe

(* The strikes a call starts from, dated as they were. *)
LEMMA OffsAre ==
  ASSUME TypeOK, NEW offs \in {offenders, KeptOffenders}
  PROVE  /\ IsPartialFn(offs, Sources, Offender) /\ DOMAIN offs \subseteq DOMAIN offenders
         /\ \A s \in DOMAIN offs : offs[s] = offenders[s]
BY KeptAre, PrunedTyped DEF TypeOK

LEMMA OffenderTyped ==
  ASSUME NEW f, IsPartialFn(f, Sources, Offender), NEW s \in DOMAIN f
  PROVE  f[s].strikes \in Nat /\ f[s].last_ban \in Nat
BY DEF IsPartialFn, Offender

(* How the file dates a ban from memory, and memory one from the file. *)
LEMMA CapturedDate ==
  ASSUME TypeOK, Clocks, NEW offs, IsPartialFn(offs, Sources, Offender),
         NEW s \in DOMAIN offs, offs[s].last_ban <= boot
  PROVE  /\ DOMAIN Captured(offs) = DOMAIN offs
         /\ Captured(offs)[s].strikes = offs[s].strikes
         /\ Captured(offs)[s].last_ban = wall - (boot - offs[s].last_ban)
<1>1. offs[s].last_ban \in Nat /\ boot \in Nat /\ wall \in Nat /\ boot <= wall
  BY OffenderTyped DEF TypeOK, Clocks
<1>2. SatSub(wall, SatSub(boot, offs[s].last_ban)) = wall - (boot - offs[s].last_ban)
  BY <1>1 DEF SatSub
<1> QED
  BY <1>2 DEF Captured

LEMMA RestoredDate ==
  ASSUME TypeOK, Clocks, NEW s \in DOMAIN saved
  PROVE  /\ DOMAIN Restored(saved) = DOMAIN saved
         /\ Restored(saved)[s].strikes = saved[s].strikes
         /\ Restored(saved)[s].last_ban = IF boot < wall - saved[s].last_ban THEN 0
                                          ELSE boot - (wall - saved[s].last_ban)
<1>1. saved[s].last_ban \in Nat /\ boot \in Nat /\ wall \in Nat /\ saved[s].last_ban <= wall
  BY OffenderTyped DEF TypeOK, Clocks
<1>2. SatSub(wall, saved[s].last_ban) = wall - saved[s].last_ban
  BY <1>1 DEF SatSub
<1>3. SatSub(boot, wall - saved[s].last_ban) = IF boot < wall - saved[s].last_ban THEN 0
                                               ELSE boot - (wall - saved[s].last_ban)
  BY DEF SatSub
<1> QED
  BY <1>2, <1>3 DEF Restored

(* Clocks and Dates together: the date of each ban on either clock. *)
LEMMA DatesStart == Init => Clocks /\ Dates
<1> SUFFICES ASSUME Init PROVE Clocks /\ Dates
  OBVIOUS
<1>1. DOMAIN offenders = {} /\ DOMAIN saved = {}
  BY EmptyTyped DEF Init
<1>2. boot <= wall /\ DOMAIN lastBan = Sources
  BY DEF Init
<1> QED
  BY <1>1, <1>2 DEF Clocks, Dates

LEMMA ObserveDates ==
  ASSUME TypeOK, Clocks, Dates, NEW s \in Sources, NEW e \in Events, Observe(s, e)
  PROVE  Clocks' /\ Dates'
<1>1. PICK offs \in {offenders, KeptOffenders} :
           \/ offenders' = offs /\ ban' = {} /\ lastBan' = lastBan
           \/ LET n == Strikes(offs, s) IN
              /\ offenders' = With(offs, s, [strikes |-> n, last_ban |-> boot])
              /\ ban' = {[ip |-> s, secs |-> BanSecs(n), strikes |-> n]}
              /\ lastBan' = [lastBan EXCEPT ![s] = {[at |-> wall, secs |-> BanSecs(n)]}]
  BY ObserveStrikes
<1>2. /\ DOMAIN offs \subseteq DOMAIN offenders /\ \A q \in DOMAIN offs : offs[q] = offenders[q]
  BY OffsAre
<1>3. boot' = boot /\ wall' = wall /\ saved' = saved
  BY DEF Observe
<1>4. CASE offenders' = offs /\ lastBan' = lastBan
  BY <1>2, <1>3, <1>4 DEF Clocks, Dates
<1>5. CASE LET n == Strikes(offs, s) IN
           /\ offenders' = With(offs, s, [strikes |-> n, last_ban |-> boot])
           /\ lastBan' = [lastBan EXCEPT ![s] = {[at |-> wall, secs |-> BanSecs(n)]}]
  <2> DEFINE n == Strikes(offs, s)
             l == [at |-> wall, secs |-> BanSecs(n)]
  <2>1. /\ DOMAIN offenders' = DOMAIN offs \cup {s} /\ offenders'[s].last_ban = boot
        /\ \A q \in DOMAIN offs : q # s => offenders'[q] = offs[q]
    <3> DEFINE v == [strikes |-> n, last_ban |-> boot]
    <3>1. v.last_ban = boot /\ offenders' = With(offs, s, v)
      BY <1>5
    <3> HIDE DEF v, n, l
    <3>2. /\ DOMAIN With(offs, s, v) = DOMAIN offs \cup {s} /\ With(offs, s, v)[s] = v
          /\ \A q \in DOMAIN offs : q # s => With(offs, s, v)[q] = offs[q]
      BY DEF With
    <3> QED
      BY <3>1, <3>2
  <2>2. /\ DOMAIN lastBan' = Sources /\ lastBan'[s] = {l}
        /\ \A q \in Sources : q # s => lastBan'[q] = lastBan[q]
    BY <1>5 DEF Dates
  <2>3. l.at = wall /\ wall \in Nat /\ boot \in Nat
    BY DEF TypeOK
  <2> HIDE DEF l
  <2>4. Clocks'
    BY <1>2, <1>3, <2>1, <2>3 DEF Clocks
  <2>5. ASSUME NEW q \in DOMAIN offenders'
        PROVE  \E k \in lastBan'[q] :
                 /\ k.at \in Nat
                 /\ offenders'[q].last_ban = 0 \/ offenders'[q].last_ban + wall <= boot + k.at
    <3>1. CASE q = s
      BY <2>1, <2>2, <2>3, <3>1
    <3>2. CASE q # s
      <4>1. q \in DOMAIN offenders /\ offenders'[q] = offenders[q] /\ q \in Sources
        BY <1>2, <2>1, <2>5, <3>2 DEF TypeOK, IsPartialFn
      <4> QED
        BY <2>2, <3>2, <4>1 DEF Dates
    <3> QED
      BY <3>1, <3>2
  <2>6. ASSUME NEW q \in DOMAIN saved
        PROVE  \E k \in lastBan'[q] :
                 /\ k.at \in Nat
                 /\ saved[q].last_ban <= k.at \/ saved[q].last_ban + boot <= wall
    <3>1. CASE q = s
      BY <2>2, <2>3, <3>1 DEF Clocks
    <3>2. CASE q # s
      BY <2>2, <3>2 DEF Dates, TypeOK, IsPartialFn
    <3> QED
      BY <3>1, <3>2
  <2> QED
    BY <1>3, <2>2, <2>4, <2>5, <2>6 DEF Dates
<1> QED
  BY <1>1, <1>4, <1>5

LEMMA EndOfTickDates ==
  ASSUME TypeOK, Clocks, Dates, EndOfTick
  PROVE  Clocks' /\ Dates'
<1>1. /\ offenders' = KeptOffenders /\ saved' \in {saved, Captured(KeptOffenders)}
      /\ boot' = boot /\ wall' = wall /\ lastBan' = lastBan /\ boot \in Nat /\ wall \in Nat
  BY DEF EndOfTick, TypeOK
<1>2. /\ IsPartialFn(KeptOffenders, Sources, Offender)
      /\ DOMAIN KeptOffenders \subseteq DOMAIN offenders
      /\ \A s \in DOMAIN KeptOffenders : KeptOffenders[s] = offenders[s]
  BY OffsAre
<1>3. ASSUME NEW s \in DOMAIN KeptOffenders
      PROVE  /\ DOMAIN Captured(KeptOffenders) = DOMAIN KeptOffenders
             /\ Captured(KeptOffenders)[s].last_ban = wall - (boot - offenders[s].last_ban)
             /\ offenders[s].last_ban \in Nat /\ offenders[s].last_ban <= boot /\ boot <= wall
  <2>1. KeptOffenders[s].last_ban <= boot
    BY <1>2 DEF Clocks
  <2> QED
    BY <1>2, <2>1, CapturedDate, OffenderTyped DEF Clocks
<1>4. DOMAIN Captured(KeptOffenders) = DOMAIN KeptOffenders
  BY DEF Captured
<1>5. CASE saved' = saved
  BY <1>1, <1>2, <1>5 DEF Clocks, Dates
<1>6. CASE saved' = Captured(KeptOffenders)
  <2>1. Clocks'
    BY <1>1, <1>2, <1>3, <1>4, <1>6 DEF Clocks
  <2>2. ASSUME NEW s \in DOMAIN saved'
        PROVE  \E l \in lastBan[s] :
                 /\ l.at \in Nat
                 /\ saved'[s].last_ban <= l.at \/ saved'[s].last_ban + boot <= wall
    <3>1. s \in DOMAIN offenders /\ s \in DOMAIN KeptOffenders
      BY <1>2, <1>4, <1>6, <2>2
    <3>2. PICK l \in lastBan[s] :
            /\ l.at \in Nat
            /\ offenders[s].last_ban = 0 \/ offenders[s].last_ban + wall <= boot + l.at
      BY <3>1 DEF Dates
    <3>3. saved'[s].last_ban <= l.at \/ saved'[s].last_ban + boot <= wall
      BY <1>1, <1>3, <1>6, <3>1, <3>2
    <3> QED
      BY <3>2, <3>3
  <2>3. Dates'
    BY <1>1, <1>2, <2>2 DEF Dates
  <2> QED
    BY <2>1, <2>3
<1> QED
  BY <1>1, <1>5, <1>6

LEMMA StartDates ==
  ASSUME TypeOK, Clocks, Dates, Start
  PROVE  Clocks' /\ Dates'
<1>1. /\ offenders' = Restored(saved) /\ saved' = saved
      /\ boot' = boot /\ wall' = wall /\ lastBan' = lastBan /\ boot \in Nat /\ wall \in Nat
  BY DEF Start, TypeOK
<1>2. DOMAIN offenders' = DOMAIN saved
  BY <1>1 DEF Restored
<1>3. ASSUME NEW s \in DOMAIN saved
      PROVE  /\ offenders'[s].last_ban = IF boot < wall - saved[s].last_ban THEN 0
                                         ELSE boot - (wall - saved[s].last_ban)
             /\ saved[s].last_ban \in Nat /\ saved[s].last_ban <= wall
  BY <1>1, RestoredDate, OffenderTyped DEF TypeOK, Clocks
<1>4. Clocks'
  BY <1>1, <1>2, <1>3 DEF Clocks
<1>5. ASSUME NEW s \in DOMAIN saved
      PROVE  \E l \in lastBan[s] :
               /\ l.at \in Nat
               /\ offenders'[s].last_ban = 0 \/ offenders'[s].last_ban + wall <= boot + l.at
  <2>1. PICK l \in lastBan[s] :
               /\ l.at \in Nat
               /\ saved[s].last_ban <= l.at \/ saved[s].last_ban + boot <= wall
    BY DEF Dates
  <2>2. offenders'[s].last_ban = 0 \/ offenders'[s].last_ban + wall <= boot + l.at
    BY <1>1, <1>3, <2>1
  <2> QED
    BY <2>1, <2>2
<1>6. Dates'
  BY <1>1, <1>2, <1>5 DEF Dates
<1> QED
  BY <1>4, <1>6

LEMMA NextKeepsDates == TypeOK /\ Clocks /\ Dates /\ [Next]_vars => Clocks' /\ Dates'
<1> SUFFICES ASSUME TypeOK, Clocks, Dates, [Next]_vars PROVE Clocks' /\ Dates'
  OBVIOUS
<1>0. boot \in Nat /\ wall \in Nat
  BY DEF TypeOK
<1>1. CASE SetProtected \/ Reconfigure \/ UNCHANGED vars
  <2>1. UNCHANGED <<offenders, saved, boot, wall, lastBan>>
    BY <1>1 DEF SetProtected, Reconfigure, vars
  <2> QED
    BY <2>1 DEF Clocks, Dates
<1>2. CASE Crash \/ Reboot
  <2>1. /\ DOMAIN offenders' = {} /\ saved' = saved /\ wall' = wall /\ lastBan' = lastBan
        /\ boot' = boot \/ boot' = 0
    BY <1>2, EmptyTyped DEF Crash, Reboot, Forget
  <2>2. \A s \in DOMAIN saved : saved[s].last_ban \in Nat
    BY OffenderTyped DEF TypeOK
  <2>3. Clocks'
    BY <1>0, <2>1 DEF Clocks
  <2>4. CASE boot' = boot
    BY <2>1, <2>3, <2>4 DEF Dates
  <2>5. CASE boot' = 0
    BY <1>0, <2>1, <2>2, <2>3, <2>5 DEF Clocks, Dates
  <2> QED
    BY <2>1, <2>3, <2>4, <2>5
<1>3. CASE ClockTick
  <2>1. /\ UNCHANGED <<offenders, saved, lastBan>>
        /\ boot' = boot + 1 /\ wall' = wall + 1
    BY <1>3 DEF ClockTick, memory
  <2>2. /\ \A s \in DOMAIN saved : saved[s].last_ban \in Nat
        /\ \A s \in DOMAIN offenders : offenders[s].last_ban \in Nat
    BY OffenderTyped DEF TypeOK
  <2>3. Clocks'
    BY <1>0, <2>1, <2>2 DEF Clocks
  <2>4. \A s \in DOMAIN offenders : \E l \in lastBan[s] :
          /\ l.at \in Nat
          /\ offenders[s].last_ban = 0 \/ offenders[s].last_ban + (wall + 1) <= (boot + 1) + l.at
    BY <1>0, <2>2 DEF Dates
  <2>5. \A s \in DOMAIN saved : \E l \in lastBan[s] :
          /\ l.at \in Nat
          /\ saved[s].last_ban <= l.at \/ saved[s].last_ban + (boot + 1) <= wall + 1
    BY <1>0, <2>2 DEF Dates
  <2> QED
    BY <2>1, <2>3, <2>4, <2>5 DEF Dates
<1> QED
  BY <1>1, <1>2, <1>3, ObserveDates, EndOfTickDates, StartDates DEF Next

(* README.md:42 "the strikes are forgotten after 6 quiet hours", whatever    *)
(* was saved, pruned or restored in between and however often the daemon or  *)
(* the machine restarted (detector.rs `escalate`, state.rs `capture`,        *)
(* daemon.rs `restore`): on a machine up for forgive_secs, for any config.   *)
THEOREM QuietIsForgotten == Spec => ForgottenWhenQuiet
<1>1. ASSUME TypeOK, Clocks, Dates, [Next]_vars PROVE StartsOver
  <2>1. SUFFICES ASSUME NEW b \in ban', ops' # ops, boot > bans.forgive_secs,
                        \A l \in lastBan[b.ip] : wall - l.at > bans.forgive_secs
                 PROVE  b.strikes = 1
    BY DEF StartsOver
  <2>2. PICK s \in Sources, e \in Events : Observe(s, e)
    BY <1>1, <2>1 DEF Next, SetProtected, Reconfigure, EndOfTick, Start, Crash, Reboot, Forget,
                      ClockTick, vars
  <2>3. PICK offs \in {offenders, KeptOffenders} :
           b = [ip |-> s, secs |-> BanSecs(Strikes(offs, s)), strikes |-> Strikes(offs, s)]
    BY <1>1, <2>1, <2>2, ObserveStrikes
  <2>4. b.ip = s /\ b.strikes = Strikes(offs, s)
    BY <2>3
  <2>5. CASE s \notin DOMAIN offs
    BY <2>4, <2>5 DEF Strikes
  <2>6. CASE s \in DOMAIN offs
    <3>1. s \in DOMAIN offenders /\ offs[s] = offenders[s]
      BY <1>1, <2>6, OffsAre
    <3>2. PICK l \in lastBan[s] :
            /\ l.at \in Nat
            /\ offenders[s].last_ban = 0 \/ offenders[s].last_ban + wall <= boot + l.at
      BY <1>1, <3>1 DEF Dates
    <3>3. /\ boot \in Nat /\ wall \in Nat /\ offenders[s].last_ban \in Nat
          /\ offenders[s].last_ban <= boot /\ bans.forgive_secs \in Nat
      BY <1>1, <3>1, OffenderTyped DEF TypeOK, Clocks, BanConfig
    <3>4. wall - l.at > bans.forgive_secs
      BY <2>1, <2>4, <3>2
    <3>5. SatSub(boot, offenders[s].last_ban) > bans.forgive_secs
      BY <2>1, <3>2, <3>3, <3>4 DEF SatSub
    <3> QED
      BY <2>4, <3>1, <3>5 DEF Strikes, Forgiven
  <2> QED
    BY <2>5, <2>6
<1> QED
  BY <1>1, TypeCorrect, DatesStart, NextKeepsDates, PTL DEF Spec, ForgottenWhenQuiet

-----------------------------------------------------------------------------
(* The strikes on file.  What the file remembers is lost if forgive_secs is *)
(* raised after the daemon forgot it, so the fact is about a forgive_secs   *)
(* that is not edited.                                                      *)
SameForgiveness == \A x, y \in Bans : x.forgive_secs = y.forgive_secs

KnownInv == SameForgiveness /\ bans \in Bans /\ FileKnown

\* A strike that matters is not pruned, and not forgiven either
LEMMA YoungStaysKnown ==
  ASSUME TypeOK, Clocks, NEW s \in DOMAIN offenders, NEW offs \in {offenders, KeptOffenders},
         boot - offenders[s].last_ban <= bans.forgive_secs
  PROVE  s \in DOMAIN offs /\ offs[s] = offenders[s] /\ ~Forgiven(offs[s])
<1>1. /\ offenders[s].last_ban \in Nat /\ offenders[s].last_ban <= boot /\ boot \in Nat
      /\ bans.forgive_secs \in Nat /\ bans.max_secs \in Nat
  BY OffenderTyped DEF TypeOK, Clocks, BanConfig
<1>2. SatSub(boot, offenders[s].last_ban) = boot - offenders[s].last_ban
  BY <1>1 DEF SatSub
<1>3. ~(SatSub(boot, offenders[s].last_ban) > KeptSecs)
  BY <1>1, <1>2 DEF KeptSecs
<1>4. ~(SatSub(boot, offenders[s].last_ban) > bans.forgive_secs)
  BY <1>1, <1>2
<1>5. s \in DOMAIN KeptOffenders /\ KeptOffenders[s] = offenders[s]
  BY <1>3, KeptAre
<1> QED
  BY <1>4, <1>5 DEF Forgiven

LEMMA ObserveKnown ==
  ASSUME TypeOK, Clocks, FileKnown, NEW s \in Sources, NEW e \in Events, Observe(s, e)
  PROVE  FileKnown'
<1>1. PICK offs \in {offenders, KeptOffenders} :
           \/ offenders' = offs
           \/ offenders' = With(offs, s, [strikes |-> Strikes(offs, s), last_ban |-> boot])
  BY ObserveStrikes
<1>2. /\ up /\ up' = up /\ boot' = boot /\ wall' = wall /\ saved' = saved /\ bans' = bans
      /\ boot \in Nat /\ wall \in Nat
  BY DEF Observe, TypeOK
<1>3. SUFFICES ASSUME NEW q \in DOMAIN saved, wall - saved[q].last_ban <= bans.forgive_secs
               PROVE  /\ q \in DOMAIN offenders' /\ offenders'[q].strikes >= saved[q].strikes
                      /\ boot - offenders'[q].last_ban <= wall - saved[q].last_ban
  BY <1>2 DEF FileKnown
<1>4. /\ q \in DOMAIN offenders /\ offenders[q].strikes >= saved[q].strikes
      /\ boot - offenders[q].last_ban <= wall - saved[q].last_ban
  BY <1>2, <1>3 DEF FileKnown
<1>5. /\ offenders[q].last_ban \in Nat /\ offenders[q].strikes \in Nat
      /\ saved[q].strikes \in Nat /\ saved[q].last_ban \in Nat /\ saved[q].last_ban <= wall
      /\ bans.forgive_secs \in Nat
  BY <1>4, OffenderTyped DEF TypeOK, Clocks, BanConfig
<1>6. boot - offenders[q].last_ban <= bans.forgive_secs
  BY <1>2, <1>3, <1>4, <1>5
<1>7. q \in DOMAIN offs /\ offs[q] = offenders[q] /\ ~Forgiven(offs[q])
  BY <1>4, <1>6, YoungStaysKnown
<1>8. CASE offenders' = offs
  BY <1>4, <1>7, <1>8
<1>9. CASE offenders' = With(offs, s, [strikes |-> Strikes(offs, s), last_ban |-> boot])
  <2>1. CASE q = s
    <3>1. Strikes(offs, s) = offenders[q].strikes + 1
      BY <1>7, <2>1 DEF Strikes
    <3>2. q \in DOMAIN offenders' /\ offenders'[q] = [strikes |-> Strikes(offs, s), last_ban |-> boot]
      BY <1>9, <2>1 DEF With
    <3>3. offenders'[q].strikes = offenders[q].strikes + 1 /\ offenders'[q].last_ban = boot
      BY <3>1, <3>2
    <3> QED
      BY <1>2, <1>4, <1>5, <3>2, <3>3
  <2>2. CASE q # s
    <3>1. q \in DOMAIN offenders' /\ offenders'[q] = offs[q]
      BY <1>7, <1>9, <2>2 DEF With
    <3> QED
      BY <1>4, <1>7, <3>1
  <2> QED
    BY <2>1, <2>2
<1> QED
  BY <1>1, <1>8, <1>9

LEMMA EndOfTickKnown ==
  ASSUME TypeOK, Clocks, FileKnown, EndOfTick
  PROVE  FileKnown'
<1>1. /\ offenders' = KeptOffenders /\ saved' \in {saved, Captured(KeptOffenders)}
      /\ up /\ up' = up /\ boot' = boot /\ wall' = wall /\ bans' = bans
      /\ boot \in Nat /\ wall \in Nat /\ bans.forgive_secs \in Nat
  BY DEF EndOfTick, TypeOK, BanConfig
<1>2. CASE saved' = saved
  <2>1. SUFFICES ASSUME NEW q \in DOMAIN saved, wall - saved[q].last_ban <= bans.forgive_secs
                 PROVE  /\ q \in DOMAIN offenders' /\ offenders'[q].strikes >= saved[q].strikes
                        /\ boot - offenders'[q].last_ban <= wall - saved[q].last_ban
    BY <1>1, <1>2 DEF FileKnown
  <2>2. /\ q \in DOMAIN offenders /\ offenders[q].strikes >= saved[q].strikes
        /\ boot - offenders[q].last_ban <= wall - saved[q].last_ban
    BY <1>1, <2>1 DEF FileKnown
  <2>3. offenders[q].last_ban \in Nat /\ saved[q].last_ban \in Nat
    BY <2>2, OffenderTyped DEF TypeOK
  <2>4. boot - offenders[q].last_ban <= bans.forgive_secs
    BY <1>1, <2>1, <2>2, <2>3
  <2>5. q \in DOMAIN KeptOffenders /\ KeptOffenders[q] = offenders[q]
    BY <2>2, <2>4, YoungStaysKnown
  <2> QED
    BY <1>1, <2>2, <2>5
<1>3. CASE saved' = Captured(KeptOffenders)
  <2>1. DOMAIN saved' = DOMAIN KeptOffenders
    BY <1>3 DEF Captured
  <2>2. ASSUME NEW q \in DOMAIN KeptOffenders
        PROVE  /\ KeptOffenders[q].strikes >= saved'[q].strikes
               /\ boot - KeptOffenders[q].last_ban <= wall - saved'[q].last_ban
    <3>1. /\ IsPartialFn(KeptOffenders, Sources, Offender) /\ KeptOffenders[q] = offenders[q]
          /\ q \in DOMAIN offenders
      BY OffsAre
    <3>2. KeptOffenders[q].last_ban <= boot
      BY <3>1 DEF Clocks
    <3>3. /\ saved'[q].strikes = KeptOffenders[q].strikes
          /\ saved'[q].last_ban = wall - (boot - KeptOffenders[q].last_ban)
      BY <1>3, <3>1, <3>2, CapturedDate
    <3>4. KeptOffenders[q].last_ban \in Nat /\ KeptOffenders[q].strikes \in Nat
      BY <3>1, OffenderTyped
    <3> QED
      BY <1>1, <3>3, <3>4
  <2> QED
    BY <1>1, <2>1, <2>2 DEF FileKnown
<1> QED
  BY <1>1, <1>2, <1>3

LEMMA StartKnown ==
  ASSUME TypeOK, Clocks, Start
  PROVE  FileKnown'
<1>1. /\ offenders' = Restored(saved) /\ saved' = saved /\ boot' = boot /\ wall' = wall
      /\ boot \in Nat /\ wall \in Nat
  BY DEF Start, TypeOK
<1>2. DOMAIN offenders' = DOMAIN saved
  BY <1>1 DEF Restored
<1>3. ASSUME NEW q \in DOMAIN saved
      PROVE  /\ offenders'[q].strikes >= saved[q].strikes
             /\ boot - offenders'[q].last_ban <= wall - saved[q].last_ban
  <2>1. /\ offenders'[q].strikes = saved[q].strikes
        /\ offenders'[q].last_ban = IF boot < wall - saved[q].last_ban THEN 0
                                    ELSE boot - (wall - saved[q].last_ban)
    BY <1>1, RestoredDate
  <2>2. saved[q].strikes \in Nat /\ saved[q].last_ban \in Nat
    BY OffenderTyped DEF TypeOK
  <2> QED
    BY <1>1, <2>1, <2>2
<1> QED
  BY <1>1, <1>2, <1>3 DEF FileKnown

LEMMA NextKeepsKnown ==
  ASSUME SameForgiveness, TypeOK, Clocks, bans \in Bans, FileKnown, [Next]_vars
  PROVE  bans' \in Bans /\ FileKnown'
<1>0. bans' \in Bans
  BY DEF Next, Observe, SetProtected, Reconfigure, EndOfTick, Start, Crash, Reboot, ClockTick,
         memory, vars
<1>1. boot \in Nat /\ wall \in Nat /\ bans'.forgive_secs = bans.forgive_secs
      /\ bans.forgive_secs \in Nat
  BY <1>0 DEF TypeOK, SameForgiveness, BanConfig
<1>2. CASE SetProtected \/ Reconfigure \/ UNCHANGED vars
  <2>1. UNCHANGED <<up, offenders, saved, boot, wall>>
    BY <1>2 DEF SetProtected, Reconfigure, vars
  <2> QED
    BY <1>0, <1>1, <2>1 DEF FileKnown
<1>3. CASE Crash \/ Reboot
  <2>1. ~up'
    BY <1>3 DEF Crash, Reboot, Forget
  <2> QED
    BY <1>0, <2>1 DEF FileKnown
<1>4. CASE ClockTick
  <2>1. /\ UNCHANGED <<up, offenders, saved>> /\ boot' = boot + 1 /\ wall' = wall + 1
    BY <1>4 DEF ClockTick, memory
  <2>2. SUFFICES ASSUME up, NEW q \in DOMAIN saved,
                        (wall + 1) - saved[q].last_ban <= bans.forgive_secs
                 PROVE  /\ q \in DOMAIN offenders /\ offenders[q].strikes >= saved[q].strikes
                        /\ (boot + 1) - offenders[q].last_ban <= (wall + 1) - saved[q].last_ban
    BY <1>0, <1>1, <2>1 DEF FileKnown
  <2>3. saved[q].last_ban \in Nat
    BY OffenderTyped DEF TypeOK
  <2>4. wall - saved[q].last_ban <= bans.forgive_secs
    BY <1>1, <2>2, <2>3
  <2>5. /\ q \in DOMAIN offenders /\ offenders[q].strikes >= saved[q].strikes
        /\ boot - offenders[q].last_ban <= wall - saved[q].last_ban
    BY <2>2, <2>4 DEF FileKnown
  <2>6. offenders[q].last_ban \in Nat
    BY <2>5, OffenderTyped DEF TypeOK
  <2> QED
    BY <1>1, <2>3, <2>5, <2>6
<1> QED
  BY <1>0, <1>2, <1>3, <1>4, ObserveKnown, EndOfTickKnown, StartKnown DEF Next

(* A source banned again while its last ban on file is within forgive_secs   *)
(* gets more strikes than the file says (detector.rs `escalate` and `prune`, *)
(* state.rs `capture`, daemon.rs `restore`), whatever crashed, restarted or  *)
(* was pruned in between, as long as nobody edits forgive_secs.              *)
THEOREM StrikesAreKept == SameForgiveness /\ Spec => StrikesSurviveRestart
<1>1. SameForgiveness /\ Init => KnownInv
  BY DEF Init, FileKnown, KnownInv
<1>2. ASSUME TypeOK, Clocks, KnownInv, [Next]_vars PROVE CountsTheFile
  <2>1. SUFFICES ASSUME NEW b \in ban', ops' # ops, b.ip \in DOMAIN saved,
                        wall - saved[b.ip].last_ban <= bans.forgive_secs
                 PROVE  b.strikes > saved[b.ip].strikes
    BY DEF CountsTheFile
  <2>2. PICK s \in Sources, e \in Events : Observe(s, e)
    BY <1>2, <2>1 DEF Next, SetProtected, Reconfigure, EndOfTick, Start, Crash, Reboot, Forget,
                      ClockTick, vars
  <2>3. PICK offs \in {offenders, KeptOffenders} :
           b = [ip |-> s, secs |-> BanSecs(Strikes(offs, s)), strikes |-> Strikes(offs, s)]
    BY <1>2, <2>1, <2>2, ObserveStrikes
  <2>4. b.ip = s /\ b.strikes = Strikes(offs, s)
    BY <2>3
  <2>5. /\ s \in DOMAIN offenders /\ offenders[s].strikes >= saved[s].strikes
        /\ boot - offenders[s].last_ban <= wall - saved[s].last_ban /\ s \in DOMAIN saved
    BY <1>2, <2>1, <2>2, <2>4 DEF KnownInv, FileKnown, Observe
  <2>6. /\ offenders[s].strikes \in Nat /\ offenders[s].last_ban \in Nat
        /\ saved[s].strikes \in Nat /\ saved[s].last_ban \in Nat
        /\ boot \in Nat /\ wall \in Nat /\ bans.forgive_secs \in Nat
    BY <1>2, <2>5, OffenderTyped DEF TypeOK, BanConfig
  <2>7. boot - offenders[s].last_ban <= bans.forgive_secs
    BY <2>1, <2>4, <2>5, <2>6
  <2>8. s \in DOMAIN offs /\ offs[s] = offenders[s] /\ ~Forgiven(offs[s])
    BY <1>2, <2>5, <2>7, YoungStaysKnown
  <2>9. b.strikes = offenders[s].strikes + 1
    BY <2>4, <2>8 DEF Strikes
  <2> QED
    BY <2>4, <2>5, <2>6, <2>9
<1>3. TypeOK /\ Clocks /\ KnownInv /\ [Next]_vars => KnownInv'
  BY NextKeepsKnown DEF KnownInv
<1> QED
  BY <1>1, <1>2, <1>3, TypeCorrect, DatesStart, NextKeepsDates, PTL
     DEF Spec, StrikesSurviveRestart

-----------------------------------------------------------------------------
(* The score.  A few facts of arithmetic, because the limits are unknowns. *)

LEMMA TimesNat == ASSUME NEW x \in Nat, NEW y \in Nat PROVE x * y \in Nat
OBVIOUS

LEMMA TimesMonoLeft ==
  ASSUME NEW x \in Nat, NEW y \in Nat, NEW k \in Nat, x <= y PROVE x * k <= y * k
OBVIOUS

LEMMA TimesMonoRight ==
  ASSUME NEW x \in Nat, NEW k \in Nat, NEW m \in Nat, k <= m PROVE x * k <= x * m
OBVIOUS

LEMMA TimesThree ==
  ASSUME NEW x \in Nat, NEW y \in Nat, NEW z \in Nat, NEW k \in Nat
  PROVE  (x + y + z) * k = x * k + y * k + z * k /\ k * (x + y + z) = k * x + k * y + k * z
OBVIOUS

LEMMA WeightsNat ==
  ASSUME TypeOK
  PROVE  /\ One \in Nat /\ PerPort \in Nat /\ PerSyn \in Nat /\ PerUdp \in Nat /\ PerDrop \in Nat
         /\ PerOdd \in Nat
<1>1. /\ cfg.syn_limit \in Nat /\ cfg.port_limit \in Nat /\ cfg.udp_limit \in Nat
      /\ cfg.drop_limit \in Nat /\ ODD_LIMIT \in Nat
  BY DetectorAssumption DEF TypeOK, DetectorConfig
<1>2. /\ cfg.syn_limit * cfg.port_limit \in Nat /\ cfg.syn_limit * cfg.udp_limit \in Nat
      /\ cfg.port_limit * cfg.udp_limit \in Nat
  BY <1>1, TimesNat
<1>3. /\ cfg.syn_limit * cfg.port_limit * cfg.udp_limit \in Nat
      /\ cfg.syn_limit * cfg.udp_limit * cfg.drop_limit \in Nat
      /\ cfg.port_limit * cfg.udp_limit * cfg.drop_limit \in Nat
      /\ cfg.syn_limit * cfg.port_limit * cfg.drop_limit \in Nat
  BY <1>1, <1>2, TimesNat
<1>4. cfg.syn_limit * cfg.port_limit * cfg.udp_limit * cfg.drop_limit \in Nat
  BY <1>1, <1>3, TimesNat
<1> QED
  BY <1>1, <1>3, <1>4, TimesNat DEF One, PerPort, PerSyn, PerUdp, PerDrop, PerOdd

\* The heaviest of the three kinds of event
LEMMA HeaviestKind ==
  ASSUME NEW x \in Nat, NEW y \in Nat, NEW z \in Nat
  PROVE  LET m == Heaviest({x, y, z}) IN m \in Nat /\ x <= m /\ y <= m /\ z <= m
<1>1. \E k \in {x, y, z} : \A q \in {x, y, z} : q <= k
  <2>1. CASE y <= x /\ z <= x
    BY <2>1
  <2>2. CASE x <= y /\ z <= y
    BY <2>2
  <2>3. CASE x <= z /\ y <= z
    BY <2>3
  <2> QED
    BY <2>1, <2>2, <2>3
<1> QED
  BY <1>1 DEF Heaviest

(* A score is at most what as many of the heaviest events would make. *)
LEMMA ScoreBound ==
  ASSUME TypeOK, NEW t \in Track, IsFiniteSet(t.ports), NEW n \in Nat, CountsAt(t, n),
         Score(t) >= One
  PROVE  MostPerEvent \in Nat /\ n * MostPerEvent >= One + PerPort
<1> DEFINE m == Heaviest({PerSyn, PerUdp, PerOdd})
           ports == Cardinality(t.ports)
<1>1. /\ One \in Nat /\ PerPort \in Nat /\ PerSyn \in Nat /\ PerUdp \in Nat /\ PerDrop \in Nat
      /\ PerOdd \in Nat
  BY WeightsNat
<1>2. m \in Nat /\ PerSyn <= m /\ PerUdp <= m /\ PerOdd <= m
  BY <1>1, HeaviestKind
<1>3. MostPerEvent = PerPort + PerDrop + m
  BY DEF MostPerEvent
<1>4. /\ t.syn \in Nat /\ t.udp \in Nat /\ t.odd \in Nat /\ t.drops \in Nat /\ ports \in Nat
      /\ t.syn + t.udp + t.odd <= n /\ t.drops <= n /\ ports <= n
  BY FS_CardinalityType DEF Track, CountsAt
<1>5. Score(t) = t.syn * PerSyn + ports * PerPort + t.udp * PerUdp + t.drops * PerDrop
                   + t.odd * PerOdd - PerPort
  BY DEF Score
<1> HIDE DEF m, ports
<1>6. t.syn * PerSyn <= t.syn * m /\ t.udp * PerUdp <= t.udp * m /\ t.odd * PerOdd <= t.odd * m
  BY <1>1, <1>2, <1>4, TimesMonoRight
<1>7. t.syn * m + t.udp * m + t.odd * m <= n * m
  <2>1. (t.syn + t.udp + t.odd) * m <= n * m
    BY <1>2, <1>4, TimesMonoLeft
  <2> QED
    BY <1>2, <1>4, <2>1, TimesThree
<1>8. ports * PerPort <= n * PerPort /\ t.drops * PerDrop <= n * PerDrop
  BY <1>1, <1>4, TimesMonoLeft
<1>9. n * (PerPort + PerDrop + m) = n * PerPort + n * PerDrop + n * m
  BY <1>1, <1>2, TimesThree
<1>10. /\ t.syn * PerSyn \in Nat /\ ports * PerPort \in Nat /\ t.udp * PerUdp \in Nat
       /\ t.drops * PerDrop \in Nat /\ t.odd * PerOdd \in Nat
       /\ t.syn * m \in Nat /\ t.udp * m \in Nat /\ t.odd * m \in Nat
       /\ n * PerPort \in Nat /\ n * PerDrop \in Nat /\ n * m \in Nat
  BY <1>1, <1>2, <1>4, TimesNat
<1> QED
  BY <1>1, <1>2, <1>3, <1>5, <1>6, <1>7, <1>8, <1>9, <1>10

-----------------------------------------------------------------------------
(* The windows: what a track counts was heard since its window started. *)

LEMMA TallyStart == Init => Tally /\ BannedOnRecentEvents
<1> SUFFICES ASSUME Init PROVE Tally /\ BannedOnRecentEvents
  OBVIOUS
<1>1. DOMAIN tracks = {} /\ ban = {} /\ heard = [s \in Sources |-> {}]
  BY EmptyTyped DEF Init
<1>2. IsFiniteSet({})
  BY FS_EmptySet
<1> QED
  BY <1>1, <1>2 DEF Tally, BannedOnRecentEvents

LEMMA SinceFinite ==
  ASSUME Tally, NEW s \in Sources, NEW t
  PROVE  IsFiniteSet(Since(heard[s], t)) /\ Cardinality(Since(heard[s], t)) \in Nat
<1>1. IsFiniteSet(heard[s]) /\ Since(heard[s], t) \subseteq heard[s]
  BY DEF Tally, Since
<1> QED
  BY <1>1, FS_Subset, FS_CardinalityType

(* A track that counted right still does when one more event is counted. *)
LEMMA CountedOnce ==
  ASSUME NEW t \in Track, NEW e \in Event, IsFiniteSet(t.ports), NEW n \in Nat, CountsAt(t, n)
  PROVE  /\ IsFiniteSet(Counted(t, e).ports) /\ CountsAt(Counted(t, e), n + 1)
         /\ Counted(t, e).window_start = t.window_start
<1> DEFINE c == Counted(t, e)
<1>1. /\ c.window_start = t.window_start
      /\ c.syn = t.syn + (IF e.kind = "syn" THEN 1 ELSE 0)
      /\ c.udp = t.udp + (IF e.kind = "udp" THEN 1 ELSE 0)
      /\ c.odd = t.odd + (IF e.kind = "odd" THEN 1 ELSE 0)
      /\ c.drops = t.drops + (IF e.dropped THEN 1 ELSE 0)
      /\ c.ports = t.ports \cup {e.port} \/ c.ports = t.ports
  BY DEF Counted
<1> HIDE DEF c
<1>2. t.syn \in Nat /\ t.udp \in Nat /\ t.odd \in Nat /\ t.drops \in Nat
  BY DEF Track
<1>3. /\ IsFiniteSet(t.ports \cup {e.port}) /\ Cardinality(t.ports) \in Nat
      /\ Cardinality(t.ports \cup {e.port}) \in Nat
      /\ Cardinality(t.ports \cup {e.port}) <= Cardinality(t.ports) + 1
  <2>1. Cardinality(t.ports) \in Nat
    BY FS_CardinalityType
  <2>2. /\ IsFiniteSet(t.ports \cup {e.port})
        /\ Cardinality(t.ports \cup {e.port}) =
             IF e.port \in t.ports THEN Cardinality(t.ports) ELSE Cardinality(t.ports) + 1
    BY FS_AddElement
  <2> QED
    BY <2>1, <2>2
<1>4. IsFiniteSet(c.ports) /\ Cardinality(c.ports) <= n + 1
  <2>1. Cardinality(t.ports) <= n
    BY DEF CountsAt
  <2>2. Cardinality(t.ports) <= n + 1 /\ Cardinality(t.ports \cup {e.port}) <= n + 1
    BY <1>3, <2>1
  <2>3. CASE c.ports = t.ports
    BY <2>2, <2>3
  <2>4. CASE c.ports = t.ports \cup {e.port}
    BY <1>3, <2>2, <2>4
  <2> QED
    BY <1>1, <2>3, <2>4
<1>5. c.drops <= n + 1
  BY <1>1, <1>2 DEF CountsAt
<1>6. c.syn + c.udp + c.odd <= n + 1
  BY <1>1, <1>2 DEF CountsAt
<1> QED
  BY <1>1, <1>4, <1>5, <1>6 DEF CountsAt, c

(* Hearing an event adds it to every window of its source that is not over. *)
LEMMA HeardOnce ==
  ASSUME TypeOK, Tally, NEW s \in Sources, Heard(s)
  PROVE  /\ DOMAIN heard' = Sources /\ \A q \in Sources : q # s => heard'[q] = heard[q]
         /\ \A q \in Sources : IsFiniteSet(heard'[q])
         /\ \A q \in Sources : \A h \in heard'[q] : h.at \in Nat /\ h.n \in Nat /\ h.n < ops + 1
         /\ \A t \in Nat : t <= boot =>
              Cardinality(Since(heard'[s], t)) = Cardinality(Since(heard[s], t)) + 1
<1> DEFINE new == [at |-> boot, n |-> ops]
<1>1. /\ DOMAIN heard' = Sources /\ heard'[s] = heard[s] \cup {new}
      /\ \A q \in Sources : q # s => heard'[q] = heard[q]
  BY DEF Heard, Tally
<1>2. new.at = boot /\ new.n = ops /\ boot \in Nat /\ ops \in Nat
  BY DEF TypeOK
<1> HIDE DEF new
<1>3. new \notin heard[s]
  BY <1>2 DEF Tally
<1>4. \A q \in Sources : IsFiniteSet(heard'[q])
  <2>1. IsFiniteSet(heard[s] \cup {new})
    BY FS_AddElement DEF Tally
  <2> QED
    BY <1>1, <2>1 DEF Tally
<1>5. \A q \in Sources : \A h \in heard'[q] : h.at \in Nat /\ h.n \in Nat /\ h.n < ops + 1
  BY <1>1, <1>2 DEF Tally
<1>6. ASSUME NEW t \in Nat, t <= boot
      PROVE  Cardinality(Since(heard'[s], t)) = Cardinality(Since(heard[s], t)) + 1
  <2>1. Since(heard'[s], t) = Since(heard[s], t) \cup {new}
    BY <1>1, <1>2, <1>6 DEF Since
  <2>2. new \notin Since(heard[s], t)
    BY <1>3 DEF Since
  <2>3. IsFiniteSet(Since(heard[s], t))
    BY SinceFinite
  <2> QED
    BY <2>1, <2>2, <2>3, FS_AddElement
<1> QED
  BY <1>1, <1>4, <1>5, <1>6

(* A window that an event may be counted in: it started no later than now,  *)
(* not longer than window_secs ago, and counted right so far.               *)
LEMMA WindowCounted ==
  ASSUME TypeOK, Tally, NEW s \in Sources, NEW ts \in {tracks, OpenTracks}
  PROVE  LET old == IF s \in DOMAIN ts THEN ts[s] ELSE FreshTrack(0)
             t == IF WindowOver(old) THEN FreshTrack(boot) ELSE old IN
         /\ t \in Track /\ IsFiniteSet(t.ports) /\ t.window_start <= boot
         /\ t.window_start > boot - cfg.window_secs
         /\ CountsAt(t, Cardinality(Since(heard[s], t.window_start)))
<1> DEFINE old == IF s \in DOMAIN ts THEN ts[s] ELSE FreshTrack(0)
           t == IF WindowOver(old) THEN FreshTrack(boot) ELSE old
<1>1. boot \in Nat /\ cfg.window_secs \in Nat /\ cfg.window_secs > 0
  BY DEF TypeOK, DetectorConfig
<1>2. ASSUME NEW n \in Nat, n <= boot
      PROVE  /\ FreshTrack(n) \in Track /\ IsFiniteSet(FreshTrack(n).ports)
             /\ FreshTrack(n).window_start = n
             /\ CountsAt(FreshTrack(n), Cardinality(Since(heard[s], FreshTrack(n).window_start)))
  <2>1. /\ FreshTrack(n) \in Track /\ FreshTrack(n).window_start = n /\ FreshTrack(n).ports = {}
        /\ FreshTrack(n).syn = 0 /\ FreshTrack(n).udp = 0 /\ FreshTrack(n).odd = 0
        /\ FreshTrack(n).drops = 0
    BY FreshTrackTyped DEF FreshTrack
  <2>2. IsFiniteSet({}) /\ Cardinality({}) = 0
    BY FS_EmptySet
  <2>3. Cardinality(Since(heard[s], n)) \in Nat
    BY SinceFinite
  <2> QED
    BY <2>1, <2>2, <2>3 DEF CountsAt
<1>3. s \in DOMAIN ts => s \in DOMAIN tracks /\ ts[s] = tracks[s]
  BY DEF OpenTracks, Without
<1>4. /\ old \in Track /\ IsFiniteSet(old.ports) /\ old.window_start <= boot
      /\ CountsAt(old, Cardinality(Since(heard[s], old.window_start)))
  <2>1. CASE s \in DOMAIN ts
    BY <1>3, <2>1 DEF Tally, TypeOK, IsPartialFn
  <2>2. CASE s \notin DOMAIN ts
    BY <1>1, <1>2, <2>2
  <2> QED
    BY <2>1, <2>2
<1> HIDE DEF old
<1>5. CASE WindowOver(old)
  BY <1>1, <1>2, <1>5 DEF old
<1>6. CASE ~WindowOver(old)
  <2>1. old.window_start \in Nat
    BY <1>4 DEF Track
  <2>2. old.window_start > boot - cfg.window_secs
    BY <1>1, <1>4, <1>6, <2>1 DEF WindowOver, SatSub
  <2> QED
    BY <1>4, <1>6, <2>2 DEF old
<1> QED
  BY <1>5, <1>6

LEMMA ScoredTally ==
  ASSUME TypeOK, Tally, NEW s \in Sources, NEW e \in Event, Scored(s, e), Heard(s),
         ops' = ops + 1, UNCHANGED <<cfg, boot>>
  PROVE  Tally' /\ BannedOnRecentEvents'
<1> DEFINE crowded == s \notin DOMAIN tracks /\ Full(tracks)
           ts == IF crowded THEN OpenTracks ELSE tracks
           old == IF s \in DOMAIN ts THEN ts[s] ELSE FreshTrack(0)
           t == IF WindowOver(old) THEN FreshTrack(boot) ELSE old
           new == Counted(t, e)
           n == Cardinality(Since(heard[s], t.window_start))
<1>1. /\ t \in Track /\ IsFiniteSet(t.ports) /\ t.window_start <= boot
      /\ t.window_start > boot - cfg.window_secs /\ CountsAt(t, n)
  BY WindowCounted
<1>2. \/ tracks' = With(ts, s, new) /\ ban' = {}
      \/ /\ Score(new) >= One /\ tracks' = Without(ts, {s})
         /\ \E b : ban' = {b} /\ b.ip = s
  BY DEF Scored, Banned
<1>3. DOMAIN ts \subseteq DOMAIN tracks /\ \A q \in DOMAIN ts : ts[q] = tracks[q]
  BY DEF OpenTracks, Without
<1> HIDE DEF ts, t, new, n
<1>4. t.window_start \in Nat /\ n \in Nat /\ boot \in Nat /\ ops \in Nat
  BY <1>1, SinceFinite DEF Track, n, TypeOK
<1>5. /\ IsFiniteSet(new.ports) /\ CountsAt(new, n + 1) /\ new.window_start = t.window_start
      /\ new \in Track
  BY <1>1, <1>4, CountedOnce, CountedTyped DEF new
<1>6. /\ DOMAIN heard' = Sources /\ \A q \in Sources : q # s => heard'[q] = heard[q]
      /\ \A q \in Sources : IsFiniteSet(heard'[q])
      /\ \A q \in Sources : \A h \in heard'[q] : h.at \in Nat /\ h.n \in Nat /\ h.n < ops + 1
      /\ Cardinality(Since(heard'[s], t.window_start)) = n + 1
  BY <1>1, <1>4, HeardOnce DEF n
<1>7. ASSUME NEW q \in DOMAIN tracks', q # s
      PROVE  /\ tracks'[q].window_start <= boot /\ IsFiniteSet(tracks'[q].ports)
             /\ CountsAt(tracks'[q], Cardinality(Since(heard'[q], tracks'[q].window_start)))
  <2>1. q \in DOMAIN tracks /\ tracks'[q] = tracks[q] /\ q \in Sources
    BY <1>2, <1>3, <1>7 DEF With, Without, TypeOK, IsPartialFn
  <2>2. heard'[q] = heard[q]
    BY <1>6, <1>7, <2>1
  <2> QED
    BY <2>1, <2>2 DEF Tally
<1>8. s \in DOMAIN tracks' => tracks'[s] = new
  BY <1>2 DEF With, Without
<1>9. s \in DOMAIN tracks' =>
        /\ tracks'[s].window_start <= boot /\ IsFiniteSet(tracks'[s].ports)
        /\ CountsAt(tracks'[s], Cardinality(Since(heard'[s], tracks'[s].window_start)))
  BY <1>1, <1>5, <1>6, <1>8
<1>10. Tally'
  BY <1>6, <1>7, <1>9 DEF Tally
<1>11. BannedOnRecentEvents'
  <2>1. CASE ban' = {}
    BY <2>1 DEF BannedOnRecentEvents
  <2>2. ASSUME Score(new) >= One, NEW b, ban' = {b}, b.ip = s
        PROVE  BannedOnRecentEvents'
    <3>1. MostPerEvent \in Nat /\ (n + 1) * MostPerEvent >= One + PerPort
      BY <1>4, <1>5, <2>2, ScoreBound
    <3>2. /\ MostPerEvent' = MostPerEvent /\ One' = One /\ PerPort' = PerPort
      BY DEF MostPerEvent, One, PerPort, PerSyn, PerUdp, PerDrop, PerOdd
    <3>3. /\ Since(heard'[s], t.window_start) \subseteq RecentEvents(s)'
          /\ RecentEvents(s)' \subseteq heard'[s]
      <4>1. cfg.window_secs \in Nat
        BY DEF TypeOK, DetectorConfig
      <4> QED
        BY <1>1, <1>4, <1>6, <4>1 DEF Since, RecentEvents
    <3>4. IsFiniteSet(RecentEvents(s)')
      BY <1>6, <3>3, FS_Subset
    <3>5. Cardinality(RecentEvents(s)') \in Nat /\ n + 1 <= Cardinality(RecentEvents(s)')
      BY <1>6, <3>3, <3>4, FS_Subset, FS_CardinalityType
    <3>6. (n + 1) * MostPerEvent <= Cardinality(RecentEvents(s)') * MostPerEvent
      <4>1. n + 1 \in Nat
        BY <1>4
      <4> QED
        BY <3>1, <3>5, <4>1, TimesMonoLeft
    <3>7. /\ (n + 1) * MostPerEvent \in Nat /\ Cardinality(RecentEvents(s)') * MostPerEvent \in Nat
          /\ One + PerPort \in Nat
      BY <1>4, <3>1, <3>5, TimesNat, WeightsNat
    <3>8. Cardinality(RecentEvents(s)') * MostPerEvent' >= One' + PerPort'
      BY <3>1, <3>2, <3>6, <3>7
    <3> QED
      BY <2>2, <3>8 DEF BannedOnRecentEvents
  <2> QED
    BY <1>2, <2>1, <2>2
<1> QED
  BY <1>10, <1>11

LEMMA NextKeepsTally ==
  TypeOK /\ TableInv /\ Tally /\ BannedOnRecentEvents /\ [Next]_vars
    => Tally' /\ BannedOnRecentEvents'
<1> SUFFICES ASSUME TypeOK, TableInv, Tally, BannedOnRecentEvents, [Next]_vars
             PROVE  Tally' /\ BannedOnRecentEvents'
  OBVIOUS
<1>0. boot \in Nat /\ ops \in Nat
  BY DEF TypeOK
<1>1. ASSUME heard' = heard, boot' >= boot, boot' \in Nat, ops' \in {ops, ops + 1},
             DOMAIN tracks' \subseteq DOMAIN tracks,
             \A q \in DOMAIN tracks' : tracks'[q] = tracks[q]
      PROVE  Tally'
  <2>1. \A s \in Sources : /\ IsFiniteSet(heard[s])
                           /\ \A h \in heard[s] : h.at \in Nat /\ h.n \in Nat /\ h.n < ops'
    BY <1>0, <1>1 DEF Tally
  <2>2. \A q \in DOMAIN tracks' : tracks[q].window_start \in Nat
    BY <1>1 DEF TypeOK, IsPartialFn, Track
  <2>3. \A q \in DOMAIN tracks' :
          /\ tracks'[q].window_start <= boot' /\ IsFiniteSet(tracks'[q].ports)
          /\ CountsAt(tracks'[q], Cardinality(Since(heard'[q], tracks'[q].window_start)))
    BY <1>0, <1>1, <2>2 DEF Tally
  <2> QED
    BY <1>1, <2>1, <2>3 DEF Tally
<1>2. DOMAIN OpenTracks \subseteq DOMAIN tracks /\ \A q \in DOMAIN OpenTracks : OpenTracks[q] = tracks[q]
  BY DEF OpenTracks, Without
<1>3. ASSUME NEW s \in Sources, NEW e \in Events, Observe(s, e)
      PROVE  Tally' /\ BannedOnRecentEvents'
  <2>1. CASE Scored(s, e)
    <3>1. e \in Event
      BY DetectorAssumption
    <3> QED
      BY <1>3, <2>1, <3>1, ScoredTally DEF Observe
  <2>2. CASE Ignored(s) /\ ban' = {}
    <3>1. Heard(s) /\ ops' = ops + 1 /\ boot' = boot
      BY <1>3 DEF Observe
    <3>2. DOMAIN tracks' \subseteq DOMAIN tracks /\ \A q \in DOMAIN tracks' : tracks'[q] = tracks[q]
      BY <1>2, <2>2 DEF Ignored
    <3>3. s \notin DOMAIN tracks
      BY <2>2 DEF Ignored, TableInv, TracksSpareProtected
    <3>4. /\ DOMAIN heard' = Sources /\ \A q \in Sources : q # s => heard'[q] = heard[q]
          /\ \A q \in Sources : IsFiniteSet(heard'[q])
          /\ \A q \in Sources : \A h \in heard'[q] : h.at \in Nat /\ h.n \in Nat /\ h.n < ops + 1
      BY <3>1, HeardOnce
    <3>5. ASSUME NEW q \in DOMAIN tracks'
          PROVE  /\ tracks'[q].window_start <= boot /\ IsFiniteSet(tracks'[q].ports)
                 /\ CountsAt(tracks'[q], Cardinality(Since(heard'[q], tracks'[q].window_start)))
      <4>1. q \in DOMAIN tracks /\ q # s /\ tracks'[q] = tracks[q]
        BY <3>2, <3>3
      <4>2. heard'[q] = heard[q]
        BY <3>4, <4>1 DEF TypeOK, IsPartialFn
      <4> QED
        BY <4>1, <4>2 DEF Tally
    <3>6. Tally'
      BY <3>1, <3>4, <3>5 DEF Tally
    <3> QED
      BY <2>2, <3>6 DEF BannedOnRecentEvents
  <2> QED
    BY <1>3, <2>1, <2>2 DEF Observe
<1>4. CASE SetProtected \/ Reconfigure \/ EndOfTick \/ Crash
  <2>1. /\ heard' = heard /\ boot' = boot /\ ops' \in {ops, ops + 1} /\ ban' = {}
    BY <1>4 DEF SetProtected, Reconfigure, EndOfTick, Crash, Forget
  <2>2. DOMAIN tracks' \subseteq DOMAIN tracks /\ \A q \in DOMAIN tracks' : tracks'[q] = tracks[q]
    <3>1. CASE SetProtected
      BY <3>1 DEF SetProtected, Spared, Without
    <3>2. CASE Reconfigure
      BY <3>2 DEF Reconfigure
    <3>3. CASE EndOfTick
      BY <1>2, <3>3 DEF EndOfTick
    <3>4. CASE Crash
      BY <3>4, EmptyTyped DEF Crash, Forget
    <3> QED
      BY <1>4, <3>1, <3>2, <3>3, <3>4
  <2> QED
    BY <1>0, <1>1, <2>1, <2>2 DEF BannedOnRecentEvents
<1>5. CASE Start \/ ClockTick
  <2>1. /\ heard' = heard /\ ops' = ops /\ ban' = {} /\ boot' \in {boot, boot + 1}
        /\ tracks' = Empty \/ tracks' = tracks
    BY <1>5 DEF Start, ClockTick, memory
  <2>2. DOMAIN tracks' \subseteq DOMAIN tracks /\ \A q \in DOMAIN tracks' : tracks'[q] = tracks[q]
    BY <2>1, EmptyTyped
  <2>3. boot' >= boot /\ boot' \in Nat
    BY <1>0, <2>1
  <2> QED
    BY <1>1, <2>1, <2>2, <2>3 DEF BannedOnRecentEvents
<1>6. CASE Reboot
  <2>1. heard' = [s \in Sources |-> {}] /\ ban' = {} /\ DOMAIN tracks' = {}
    BY <1>6, EmptyTyped DEF Reboot, Forget
  <2>2. IsFiniteSet({})
    BY FS_EmptySet
  <2> QED
    BY <2>1, <2>2 DEF Tally, BannedOnRecentEvents
<1>7. CASE UNCHANGED vars
  <2>1. /\ heard' = heard /\ boot' = boot /\ ops' = ops /\ tracks' = tracks /\ ban' = ban
        /\ cfg' = cfg
    BY <1>7 DEF vars
  <2>2. Tally'
    BY <1>0, <1>1, <2>1
  <2>3. BannedOnRecentEvents'
    BY <2>1 DEF BannedOnRecentEvents, RecentEvents, MostPerEvent, One, PerPort, PerSyn, PerUdp,
                PerDrop, PerOdd
  <2> QED
    BY <2>2, <2>3
<1> QED
  BY <1>3, <1>4, <1>5, <1>6, <1>7 DEF Next

(* A ban rests on what the source did within the last window_secs alone      *)
(* (detector.rs `observe`, the window's reset), for every source, limit and  *)
(* window and whatever else arrives, is pruned or is reconfigured: so many   *)
(* events that recent that they could make up a full score.                  *)
THEOREM BansRestOnRecentEvents == Spec => []BannedOnRecentEvents
BY TallyStart, TableStart, TypeCorrect, NextKeepsTable, NextKeepsTally, PTL DEF Spec
=============================================================================
