------------------------------ MODULE Detector ------------------------------
(***************************************************************************)
(* The threat detector (detector.rs): per-source scores over a short       *)
(* window, strikes that double the ban of a repeat offender, the bound on  *)
(* the sources tracked at once, and what becomes of the strikes when the   *)
(* daemon or the machine restarts (state.rs `capture`, daemon.rs           *)
(* `restore`).                                                             *)
(*                                                                         *)
(* `observe` runs for one event at a time under the daemon's mutex, so one *)
(* call is one action.  A score is a sum of fractions with the limits as   *)
(* denominators; it is kept here over their common denominator, exactly,   *)
(* where the code rounds to f32.  An event is a kind ("syn", "udp", "odd"  *)
(* for null, Xmas and FIN scans, "other"), a port and whether the kernel   *)
(* dropped it.                                                             *)
(***************************************************************************)
EXTENDS Integers, FiniteSets

CONSTANTS
  Sources, Ports,
  Limits,        \* [detector] sections the config may hold
  Bans,          \* [bans] sections the config may hold
  Events,        \* events the kernel may report
  Protections,   \* sets of sources that may be protected
  MAX_TRACKED, ODD_LIMIT,
  MAX_SHIFT,     \* doublings after which a ban stops growing (20)
  Horizon,       \* bound: last value of the wall clock
  MaxOps,        \* bound: events and restarts
  MaxReboots     \* bound: reboots

Event == [kind : {"syn", "udp", "odd", "other"}, port : Ports, dropped : BOOLEAN]
DetectorConfig == [window_secs : Nat \ {0}, syn_limit : Nat \ {0}, port_limit : Nat \ {0},
                   udp_limit : Nat \ {0}, drop_limit : Nat \ {0}]
BanConfig == [base_secs : Nat \ {0}, max_secs : Nat \ {0}, forgive_secs : Nat]

Track == [window_start : Nat, syn : Nat, udp : Nat, drops : Nat, odd : Nat,
          ports : SUBSET Ports]
Offender == [strikes : Nat, last_ban : Nat]

ASSUME DetectorAssumption ==
  /\ IsFiniteSet(Sources)
  /\ Events \subseteq Event
  /\ Limits \subseteq DetectorConfig /\ Limits # {}
  /\ Bans \subseteq BanConfig /\ Bans # {}
  /\ \A b \in Bans : b.base_secs <= b.max_secs
  /\ Protections \subseteq SUBSET Sources
  /\ MAX_TRACKED \in Nat \ {0} /\ ODD_LIMIT \in Nat \ {0} /\ MAX_SHIFT \in Nat
  /\ Horizon \in Nat /\ MaxOps \in Nat /\ MaxReboots \in Nat

VARIABLES
  up,         \* the daemon runs
  cfg, bans,  \* the detector's two config sections
  protected,
  tracks,     \* source -> Track, for the sources tracked
  offenders,  \* source -> Offender, for the sources with strikes
  ban,        \* what the last call of observe returned, {} for None
  boot,       \* net::boot_secs()
  wall,       \* net::unix_secs()
  saved,      \* the offenders of state.json
  ops, reboots,
  heard,      \* ghost: source -> the events it sent since the boot, each with its time
  lastBan     \* ghost: source -> the wall-clock end and length of its last ban

memory == <<cfg, bans, protected, tracks, offenders>>
vars == <<up, cfg, bans, protected, tracks, offenders, ban, boot, wall, saved, ops, reboots,
          heard, lastBan>>

IsPartialFn(f, S, T) == DOMAIN f \subseteq S /\ f \in [DOMAIN f -> T]
Empty == [s \in {} |-> 0]
Without(f, S) == [s \in DOMAIN f \ S |-> f[s]]
With(f, s, v) == [q \in DOMAIN f \cup {s} |-> IF q = s THEN v ELSE f[q]]

TypeOK ==
  /\ up \in BOOLEAN
  /\ cfg \in DetectorConfig /\ bans \in BanConfig
  /\ protected \in SUBSET Sources
  /\ IsPartialFn(tracks, Sources, Track)
  /\ IsPartialFn(offenders, Sources, Offender)
  /\ IsPartialFn(saved, Sources, Offender)
  /\ boot \in Nat /\ wall \in Nat /\ ops \in Nat /\ reboots \in Nat

-----------------------------------------------------------------------------
(* Operators whose name ends in Slip are what a slip in the code would make *)
(* of the definition that follows them; no action uses one.                *)

Least(a, b) == IF a < b THEN a ELSE b

\* u64::saturating_sub
SatSub(a, b) == IF a < b THEN 0 ELSE a - b

\* `or_default`: a window that started at 0
FreshTrack(start) ==
  [window_start |-> start, syn |-> 0, udp |-> 0, drops |-> 0, odd |-> 0, ports |-> {}]

WindowOverSlip(t) == SatSub(boot, t.window_start) > cfg.window_secs

WindowOver(t) == SatSub(boot, t.window_start) >= cfg.window_secs

KeptSecsSlip == bans.max_secs

KeptSecs == bans.forgive_secs + bans.max_secs

\* prune: finished windows, and offenders whose strikes no longer matter
OpenTracks == Without(tracks, {s \in DOMAIN tracks : WindowOver(tracks[s])})
KeptOffenders ==
  Without(offenders, {s \in DOMAIN offenders : SatSub(boot, offenders[s].last_ban) > KeptSecs})

\* The track of one more event; the port list stops growing past its limit
Counted(t, e) ==
  [window_start |-> t.window_start,
   syn |-> t.syn + (IF e.kind = "syn" THEN 1 ELSE 0),
   udp |-> t.udp + (IF e.kind = "udp" THEN 1 ELSE 0),
   odd |-> t.odd + (IF e.kind = "odd" THEN 1 ELSE 0),
   drops |-> t.drops + (IF e.dropped THEN 1 ELSE 0),
   ports |-> IF Cardinality(t.ports) <= cfg.port_limit
             THEN t.ports \cup {e.port} ELSE t.ports]

\* 1.0, and the weight of one unit of each signal, over the common denominator
One == cfg.syn_limit * cfg.port_limit * cfg.udp_limit * cfg.drop_limit * ODD_LIMIT
PerPort == cfg.syn_limit * cfg.udp_limit * cfg.drop_limit * ODD_LIMIT
PerSyn == cfg.port_limit * cfg.udp_limit * cfg.drop_limit * ODD_LIMIT
PerUdp == cfg.syn_limit * cfg.port_limit * cfg.drop_limit * ODD_LIMIT
PerDrop == cfg.syn_limit * cfg.port_limit * cfg.udp_limit * ODD_LIMIT
PerOdd == cfg.syn_limit * cfg.port_limit * cfg.udp_limit * cfg.drop_limit

\* One port is normal traffic, not a scan signal
Score(t) ==
  t.syn * PerSyn + Cardinality(t.ports) * PerPort + t.udp * PerUdp + t.drops * PerDrop
    + t.odd * PerOdd - PerPort

\* escalate: base, 2x, 4x ... up to max.  saturating_mul cannot show, since the
\* result is cut to max_secs.
BanSecs(strikes) ==
  Least(bans.base_secs * 2 ^ Least(strikes - 1, MAX_SHIFT), bans.max_secs)

ForgivenSlip(o) == SatSub(boot, o.last_ban) > KeptSecs

Forgiven(o) == SatSub(boot, o.last_ban) > bans.forgive_secs

Strikes(offs, s) ==
  IF s \in DOMAIN offs /\ ~Forgiven(offs[s]) THEN offs[s].strikes + 1 ELSE 1

-----------------------------------------------------------------------------
Init ==
  /\ up = FALSE
  /\ cfg \in Limits /\ bans \in Bans
  /\ protected = {} /\ tracks = Empty /\ offenders = Empty /\ saved = Empty
  /\ ban = {}
  /\ boot = 0 /\ wall = 0 /\ ops = 0 /\ reboots = 0
  /\ heard = [s \in Sources |-> {}]
  /\ lastBan = [s \in Sources |-> {}]

FullSlip(ts) == Cardinality(DOMAIN ts) > MAX_TRACKED

Full(ts) == Cardinality(DOMAIN ts) >= MAX_TRACKED

\* The ghosts of one event, and of the ban it may have led to
Heard(s) == heard' = [heard EXCEPT ![s] = @ \cup {[at |-> boot, n |-> ops]}]
Banned(b) ==
  /\ ban' = {b}
  /\ lastBan' = [lastBan EXCEPT ![b.ip] = {[at |-> wall, secs |-> b.secs]}]

\* Protected sources are left alone; so are new ones when the table is full
\* even of open windows
Ignored(s) ==
  \/ s \in protected /\ UNCHANGED <<tracks, offenders>>
  \/ /\ s \notin protected
     /\ s \notin DOMAIN tracks /\ Full(tracks)
     /\ Full(OpenTracks)
     /\ tracks' = OpenTracks /\ offenders' = KeptOffenders

\* The event is counted in its source's window, and a full score is a ban
Scored(s, e) ==
  LET crowded == s \notin DOMAIN tracks /\ Full(tracks)
      ts == IF crowded THEN OpenTracks ELSE tracks
      offs == IF crowded THEN KeptOffenders ELSE offenders
      old == IF s \in DOMAIN ts THEN ts[s] ELSE FreshTrack(0)
      new == Counted(IF WindowOver(old) THEN FreshTrack(boot) ELSE old, e)
      strikes == Strikes(offs, s)
  IN /\ s \notin protected
     /\ crowded => ~Full(ts)
     /\ \/ /\ Score(new) < One
           /\ tracks' = With(ts, s, new)
           /\ offenders' = offs
           /\ ban' = {} /\ UNCHANGED lastBan
        \/ /\ Score(new) >= One
           /\ tracks' = Without(ts, {s})
           /\ offenders' = With(offs, s, [strikes |-> strikes, last_ban |-> boot])
           /\ Banned([ip |-> s, secs |-> BanSecs(strikes), strikes |-> strikes])

Observe(s, e) ==
  /\ up /\ ops < MaxOps
  /\ Scored(s, e) \/ (Ignored(s) /\ ban' = {} /\ UNCHANGED lastBan)
  /\ Heard(s)
  /\ ops' = ops + 1
  /\ UNCHANGED <<up, cfg, bans, protected, boot, wall, saved, reboots>>

SparedSlip(prot) == tracks

Spared(prot) == Without(tracks, prot)

SetProtected ==
  /\ up /\ ops < MaxOps
  /\ protected' \in Protections
  /\ tracks' = Spared(protected')
  /\ ban' = {}
  /\ ops' = ops + 1
  /\ UNCHANGED <<up, cfg, bans, offenders, boot, wall, saved, reboots, heard, lastBan>>

\* apply_config: new limits, with the counts of the running windows kept
Reconfigure ==
  /\ up /\ ops < MaxOps
  /\ cfg' \in Limits /\ bans' \in Bans
  /\ ban' = {}
  /\ ops' = ops + 1
  /\ UNCHANGED <<up, protected, tracks, offenders, boot, wall, saved, reboots, heard, lastBan>>

\* Every tick prunes, and saves when the state is dirty or the tick says so
Captured(offs) ==
  [s \in DOMAIN offs |-> [strikes |-> offs[s].strikes,
                          last_ban |-> SatSub(wall, SatSub(boot, offs[s].last_ban))]]

EndOfTick ==
  /\ up
  /\ tracks' = OpenTracks /\ offenders' = KeptOffenders
  /\ saved' \in {saved, Captured(KeptOffenders)}
  /\ ban' = {}
  /\ UNCHANGED <<up, cfg, bans, protected, boot, wall, ops, reboots, heard, lastBan>>

\* The strikes come back with their age on this boot's clock
Restored(offs) ==
  [s \in DOMAIN offs |-> [strikes |-> offs[s].strikes,
                          last_ban |-> SatSub(boot, SatSub(wall, offs[s].last_ban))]]

Start ==
  /\ ~up /\ up' = TRUE
  /\ cfg' \in Limits /\ bans' \in Bans
  /\ protected' \in Protections
  /\ tracks' = Empty
  /\ offenders' = Restored(saved)
  /\ ban' = {}
  /\ UNCHANGED <<boot, wall, saved, ops, reboots, heard, lastBan>>

Forget == up' = FALSE /\ protected' = {} /\ tracks' = Empty /\ offenders' = Empty /\ ban' = {}

Crash ==
  /\ up /\ ops < MaxOps
  /\ Forget
  /\ ops' = ops + 1
  /\ UNCHANGED <<cfg, bans, boot, wall, saved, reboots, heard, lastBan>>

\* The boot clock starts again, and with it the times of events; the file and the
\* wall clock do not
Reboot ==
  /\ reboots < MaxReboots
  /\ reboots' = reboots + 1
  /\ Forget
  /\ boot' = 0 /\ heard' = [s \in Sources |-> {}]
  /\ UNCHANGED <<cfg, bans, wall, saved, ops, lastBan>>

ClockTick ==
  /\ wall < Horizon
  /\ boot' = boot + 1 /\ wall' = wall + 1
  /\ ban' = {}
  /\ UNCHANGED <<up, memory, saved, ops, reboots, heard, lastBan>>

Next ==
  \/ \E s \in Sources, e \in Events : Observe(s, e)
  \/ SetProtected \/ Reconfigure \/ EndOfTick \/ Start \/ Crash \/ Reboot \/ ClockTick

Spec == Init /\ [][Next]_vars

-----------------------------------------------------------------------------
(* Properties *)

\* A protected source has no track, so nothing it did before it was protected
\* can count when it stops being so (set_protected, detector.rs:78).
TracksSpareProtected == DOMAIN tracks \cap protected = {}

\* A flood of new sources never grows the table past its bound (detector.rs:18).
TracksBounded == Cardinality(DOMAIN tracks) <= MAX_TRACKED

RecentEvents(s) == {e \in heard[s] : e.at > boot - cfg.window_secs}

Heaviest(kinds) == CHOOSE k \in kinds : \A q \in kinds : q <= k

MostPerEvent == PerPort + PerDrop + Heaviest({PerSyn, PerUdp, PerOdd})

\* A ban rests on what the source did within the last window_secs alone: the
\* events that recent could make up a full score, at the most each can add
\* (observe's window reset, detector.rs:123).
BannedOnRecentEvents ==
  \A b \in ban : Cardinality(RecentEvents(b.ip)) * MostPerEvent >= One + PerPort

CountsTheFile ==
  \A b \in ban' :
    (/\ ops' # ops
     /\ b.ip \in DOMAIN saved
     /\ wall - saved[b.ip].last_ban <= bans.forgive_secs)
      => b.strikes > saved[b.ip].strikes

\* A source banned again while its last ban on file is within forgive_secs gets
\* more strikes than the file says, whatever crashed, restarted or was pruned in
\* between (escalate, prune, capture, restore_offender).  Raising forgive_secs
\* does not bring back strikes pruned under the shorter one.
StrikesSurviveRestart == [][CountsTheFile]_vars

StartsOver ==
  \A b \in ban' :
    (/\ ops' # ops
     /\ boot > bans.forgive_secs
     /\ \A l \in lastBan[b.ip] : wall - l.at > bans.forgive_secs)
      => b.strikes = 1

\* README.md:42 "the strikes are forgotten after 6 quiet hours": a source whose
\* last ban is more than forgive_secs ago starts over at one strike, whatever
\* was saved, restored or pruned in between.  The machine must have been up for
\* forgive_secs: restore cannot date a ban before this boot (daemon.rs:855).
ForgottenWhenQuiet == [][StartsOver]_vars

\* README.md:41 "A repeat offender's ban doubles each time, up to 24 h, and the
\* strikes are forgotten after 6 quiet hours": a source that offends again after
\* its ban ran out, within forgive_secs of that, is banned twice as long.
RepeatOffenceDoubles ==
  [][\A b \in ban' : \A l \in lastBan[b.ip] :
       (/\ ops' # ops
        /\ wall >= l.at + l.secs
        /\ wall <= l.at + l.secs + bans.forgive_secs)
         => b.secs >= Least(2 * l.secs, bans.max_secs)]_vars
=============================================================================
