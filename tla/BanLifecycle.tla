---------------------------- MODULE BanLifecycle ----------------------------
(***************************************************************************)
(* The life of a ban: who writes the pinned kernel blocklist, who          *)
(* remembers why, and what a crash, a reboot or the command line do to it. *)
(*                                                                         *)
(* Four actors touch the same bans:                                        *)
(*   - the daemon's main loop (daemon.rs `run`): reload, sweep, protection *)
(*     refresh, profile switch, save, in that order on every tick;         *)
(*   - the event reader task (`spawn_event_reader`, `enact`), which shares *)
(*     the mutex `Shared` with the main loop;                              *)
(*   - the command line (`ban`, `unban`), which writes the pinned map      *)
(*     without the daemon, and so without its mutex;                       *)
(*   - the administrator and the network: config edits, route changes,     *)
(*     crashes, reboots.                                                   *)
(*                                                                         *)
(* A ban lives in three places that these actors keep apart: the kernel    *)
(* map (`blocklist`), the daemon's memory (`records`) and the state file   *)
(* (`saved`).  The ghosts `writer` and `due` record what was decided, so   *)
(* that the properties can compare it with what is in force.               *)
(*                                                                         *)
(* Time is one clock.  The kernel keeps expiries on CLOCK_BOOTTIME and the *)
(* file keeps them as wall-clock seconds; both are written here as points  *)
(* of `now`, so the boot-to-wall translation of `capture` and `restore` is *)
(* the identity between reboots and across them, up to its rounding of at  *)
(* most two seconds.                                                       *)
(***************************************************************************)
EXTENDS Integers, FiniteSets

CONSTANTS
  Sources,                \* addresses a ban can name (addr.rs Src)
  Configs,                \* config files the administrator may write
  Routes,                 \* sets of sources the network may protect: router, DNS, own addresses
  Capacity,               \* max_entries of the kernel ban map
  AutoSecs,               \* durations the detector may hand out (see Detector)
  CliSecs,                \* durations given to `ai-firewall ban`, 0 = until unbanned
  PROTECT_REFRESH_TICKS,  \* ticks between refreshes of the protected addresses
  SAVE_TICKS,             \* ticks between saves of a state that did not change
  Horizon,                \* bound: last value of the clock
  MaxOps                  \* bound: environment steps (edits, CLI calls, crashes, events ...)

BAN_FOREVER == 0          \* the kernel value of a ban without an end
NoBan == -1               \* no entry in the map

Reasons == {"none", "auto", "manual", "config"}   \* BanRecord.source, "none" = no record
Writers == Reasons \cup {"lifted"}                  \* "lifted" = taken off by hand or by the config
Config == [blocked : SUBSET Sources, trusted : SUBSET Sources, enforce : BOOLEAN]
Expiry == Nat \cup {NoBan}
SavedBan == [until : Expiry, source : Reasons]

ASSUME SourcesAssumption == IsFiniteSet(Sources)
ASSUME ConfigsAssumption == Configs \subseteq Config /\ Configs # {}
ASSUME RoutesAssumption == Routes \subseteq SUBSET Sources
ASSUME BoundsAssumption ==
  /\ Capacity \in Nat /\ Horizon \in Nat /\ MaxOps \in Nat
  /\ AutoSecs \subseteq Nat \ {0}
  /\ CliSecs \subseteq Nat
  /\ PROTECT_REFRESH_TICKS \in Nat \ {0}
  /\ SAVE_TICKS \in Nat \ {0}

VARIABLES
  now,        \* the clock
  blocklist,  \* kernel: source -> expiry (pinned, outlives the daemon)
  pinned,     \* kernel: the map exists (`run` has started once since boot)
  records,    \* daemon: source -> why it is banned
  saved,      \* /var/lib/ai-firewall/state.json
  file,       \* config.toml as it is on disk
  changed,    \* the file's mtime differs from the one the daemon remembers
  cfg,        \* daemon: the config in use
  enforce,    \* daemon: `Shared.enforce`
  route,      \* the addresses that ought to be protected now
  protected,  \* daemon: the detector's copy of them
  queued,     \* sources whose unread events are enough for a ban
  dirty,      \* daemon: the state file is out of date
  pc,         \* daemon: where the main loop is
  seen,       \* daemon: the entries `sweep` has read
  tick,       \* daemon: tick counter, modulo PROTECT_REFRESH_TICKS
  ops,        \* environment steps taken (bound)
  writer,     \* ghost: whose decision each kernel entry is
  due         \* ghost: the latest expiry decided and not durably lifted

kernel == <<blocklist, pinned, writer, due>>
admin == <<file, changed, route>>
daemon == <<records, cfg, enforce, protected, queued, dirty, seen, tick>>
vars == <<now, blocklist, pinned, records, saved, file, changed, cfg, enforce,
          route, protected, queued, dirty, pc, seen, tick, ops, writer, due>>

InLoop == {"wait", "reprotect", "sweep", "sweeping", "refresh", "tail", "save"}
Starting == {"mtime", "apply", "restore", "protect"}
Locked == {"sweeping", "refresh"}   \* the main loop holds the `Shared` mutex

TypeOK ==
  /\ now \in Nat /\ ops \in Nat /\ tick \in Nat
  /\ blocklist \in [Sources -> Expiry]
  /\ seen \in [Sources -> Expiry]
  /\ due \in [Sources -> Expiry]
  /\ records \in [Sources -> Reasons]
  /\ writer \in [Sources -> Writers]
  /\ saved \in [Sources -> SavedBan]
  /\ file \in Config /\ cfg \in Config
  /\ pinned \in BOOLEAN /\ changed \in BOOLEAN /\ enforce \in BOOLEAN /\ dirty \in BOOLEAN
  /\ route \in SUBSET Sources
  /\ protected \in SUBSET Sources
  /\ queued \in SUBSET Sources
  /\ pc \in InLoop \cup Starting \cup {"down"}

-----------------------------------------------------------------------------
(* Expiries *)

(* Operators whose name ends in Slip are what a slip in the code would make *)
(* of the definition that follows them; no action uses one.                *)
ExpirySlip(secs) == IF secs = 0 THEN BAN_FOREVER ELSE now - secs

ExpiryFor(secs) == IF secs = 0 THEN BAN_FOREVER ELSE now + secs

\* Whether the kernel still drops a source with this map value
Live(e) == e = BAN_FOREVER \/ e > now

\* e ends no later than d
AtMost(e, d) == e = NoBan \/ d = BAN_FOREVER \/ (e # BAN_FOREVER /\ e <= d)

Later(e, d) == IF AtMost(e, d) THEN d ELSE e

Banned(map) == {s \in Sources : map[s] # NoBan}

Expired(s) == blocklist[s] # NoBan /\ ~Live(blocklist[s])

NoBans == [s \in Sources |-> NoBan]
NoRecords == [s \in Sources |-> "none"]
NotSaved == [until |-> NoBan, source |-> "none"]

\* The ghosts and the map for a set of sources whose ban `by` decides to last until `e`
Put(S, e, by) ==
  /\ blocklist' = [s \in Sources |-> IF s \in S THEN e ELSE blocklist[s]]
  /\ writer' = [s \in Sources |-> IF s \in S THEN by ELSE writer[s]]
  /\ due' = [s \in Sources |-> IF s \in S THEN Later(e, due[s]) ELSE due[s]]

\* The same for a set of sources taken off the map
Take(S, by) ==
  /\ blocklist' = [s \in Sources |-> IF s \in S THEN NoBan ELSE blocklist[s]]
  /\ writer' = [s \in Sources |-> IF s \in S THEN by ELSE writer[s]]
  /\ UNCHANGED due

Room(s) == Cardinality(Banned(blocklist) \cup {s}) <= Capacity

-----------------------------------------------------------------------------
Init ==
  /\ now = 0 /\ ops = 0 /\ tick = 0
  /\ blocklist = NoBans /\ seen = NoBans /\ due = NoBans
  /\ records = NoRecords /\ writer = NoRecords
  /\ saved = [s \in Sources |-> NotSaved]
  /\ file \in Configs /\ cfg = file /\ enforce = file.enforce
  /\ pinned = FALSE /\ changed = FALSE /\ dirty = FALSE
  /\ route \in Routes
  /\ protected = {} /\ queued = {}
  /\ pc = "down"

-----------------------------------------------------------------------------
(* apply_config, as far as bans go: the mode is set, records of the kind    *)
(* "config" that the file no longer lists are lifted, then every listed     *)
(* source is banned forever.  An insert that does not fit returns early.    *)

Stale(c) == {s \in Sources : records[s] = "config" /\ s \notin c.blocked}

Kept(c) == Banned(blocklist) \ Stale(c)

\* The map and records once the sources `done` of c.blocked are in
BlockListed(c, done) ==
  /\ blocklist' = [s \in Sources |-> CASE s \in done -> ExpiryFor(0)
                                       [] s \in Stale(c) -> NoBan
                                       [] OTHER -> blocklist[s]]
  /\ writer' = [s \in Sources |-> CASE s \in done -> "config"
                                    [] s \in Stale(c) -> "lifted"
                                    [] OTHER -> writer[s]]
  /\ records' = [s \in Sources |-> CASE s \in done -> "config"
                                     [] s \in Stale(c) -> "none"
                                     [] OTHER -> records[s]]
  /\ due' = [s \in Sources |-> IF s \in done THEN BAN_FOREVER ELSE due[s]]
  /\ enforce' = c.enforce
  /\ UNCHANGED pinned

ApplyConfig(c) ==
  /\ Cardinality(Kept(c) \cup c.blocked) <= Capacity
  /\ BlockListed(c, c.blocked)
  /\ dirty' = TRUE

\* The insert that finds the map full ends apply_config before `dirty` is set
ApplyFails(c) ==
  \E done \in SUBSET c.blocked :
    /\ Cardinality(Kept(c) \cup done) = Capacity
    /\ ~ c.blocked \subseteq Kept(c) \cup done
    /\ BlockListed(c, done)
    /\ dirty' = dirty

-----------------------------------------------------------------------------
(* Start: `run` up to the loop *)

\* Everything the process keeps in memory is gone, and the ring buffer with it
ProcessEnds ==
  /\ pc' = "down"
  /\ records' = NoRecords
  /\ protected' = {} /\ queued' = {}
  /\ dirty' = FALSE
  /\ seen' = NoBans
  /\ tick' = 0

LoadAtStart ==
  /\ pc = "down"
  /\ pc' = "mtime"
  /\ cfg' = file
  /\ UNCHANGED <<now, kernel, records, saved, admin, enforce, protected, queued, dirty,
                 seen, tick, ops>>

\* The mtime is read after the file: an edit made in between is not noticed.
\* Then the programs and maps are loaded, which pins the ban map.
ReadMtime ==
  /\ pc = "mtime"
  /\ pc' = "apply"
  /\ changed' = FALSE
  /\ pinned' = TRUE
  /\ enforce' = cfg.enforce
  /\ UNCHANGED <<now, blocklist, writer, due, records, saved, file, route, cfg, protected,
                 queued, dirty, seen, tick, ops>>

ApplyAtStart ==
  /\ pc = "apply"
  /\ ApplyConfig(cfg)
  /\ pc' = "restore"
  /\ UNCHANGED <<now, saved, admin, cfg, protected, queued, seen, tick, ops>>

\* `run` returns the error and the process exits; systemd starts it again
ApplyAtStartFails ==
  /\ pc = "apply"
  /\ \E done \in SUBSET cfg.blocked :
       /\ Cardinality(Banned(blocklist) \cup done) = Capacity
       /\ ~ cfg.blocked \subseteq Banned(blocklist) \cup done
       /\ Put(done, BAN_FOREVER, "config")
  /\ ProcessEnds
  /\ UNCHANGED <<now, pinned, saved, admin, cfg, enforce, ops>>

UnexpiredSlip(b) == b.until = BAN_FOREVER \/ b.until >= now

Unexpired(b) == b.until = BAN_FOREVER \/ b.until > now

\* Seconds a saved ban still has, as restore computes them
SecsLeft(b) == IF b.until = BAN_FOREVER THEN 0 ELSE b.until - now

MissingSlip(running) == running

Missing(running) == {s \in running : blocklist[s] = NoBan}

\* Saved bans that are still running come back unless the kernel kept an entry;
\* their records come back even if the map has no room for them
Restore ==
  /\ pc = "restore"
  /\ LET running == {s \in Sources : saved[s].until # NoBan /\ Unexpired(saved[s])}
         missing == Missing(running)
     IN \E in \in SUBSET missing :
          /\ Cardinality(Banned(blocklist) \cup in) <= Capacity
          /\ in = missing \/ Cardinality(Banned(blocklist) \cup in) = Capacity
          /\ blocklist' = [s \in Sources |->
                             IF s \in in THEN ExpiryFor(SecsLeft(saved[s])) ELSE blocklist[s]]
          /\ writer' = [s \in Sources |-> IF s \in in THEN saved[s].source ELSE writer[s]]
          /\ records' = [s \in Sources |->
                           IF s \in running /\ records[s] = "none"
                           THEN saved[s].source ELSE records[s]]
  /\ pc' = "protect"
  /\ UNCHANGED <<now, pinned, due, saved, admin, cfg, enforce, protected, queued, dirty,
                 seen, tick, ops>>

AfterRefresh == [protect |-> "wait", reprotect |-> "sweep", refresh |-> "tail"]

ToLiftSlip(prot) == {s \in protected : records[s] = "auto"}

ToLift(prot) == {s \in prot : records[s] = "auto"}

\* The protected addresses are looked up again; auto bans on them are lifted
RefreshProtection ==
  /\ pc \in DOMAIN AfterRefresh
  /\ protected' = route \cup cfg.trusted
  /\ LET lift == ToLift(protected')
     IN /\ Take(lift, "none")
        /\ records' = [s \in Sources |-> IF s \in lift THEN "none" ELSE records[s]]
        /\ dirty' = (dirty \/ lift # {})
  /\ pc' = AfterRefresh[pc]
  /\ UNCHANGED <<now, pinned, saved, admin, cfg, enforce, queued, seen, tick, ops>>

-----------------------------------------------------------------------------
(* The loop *)

NextTickSlip == tick' = 1 + (tick % (PROTECT_REFRESH_TICKS - 1))

NextTick == tick' = (tick + 1) % PROTECT_REFRESH_TICKS

FileAsBeforeSlip == TRUE

FileAsBefore == ~changed

TimerTick ==
  /\ pc = "wait" /\ FileAsBefore
  /\ NextTick
  /\ pc' = "sweep"
  /\ UNCHANGED <<now, kernel, records, saved, admin, cfg, enforce, protected, queued,
                 dirty, seen, ops>>

\* A tick after an edit, or SIGHUP at any time
Reload ==
  /\ pc = "wait"
  /\ NextTick
  /\ changed' = FALSE
  /\ ApplyConfig(file)
  /\ cfg' = file
  /\ pc' = "reprotect"
  /\ UNCHANGED <<now, saved, file, route, protected, queued, seen, ops>>

\* The config in use stays the old one, and the edit counts as seen
ReloadFails ==
  /\ pc = "wait"
  /\ NextTick
  /\ changed' = FALSE
  /\ ApplyFails(file)
  /\ pc' = "sweep"
  /\ UNCHANGED <<now, saved, file, route, cfg, protected, queued, seen, ops>>

SweepRead ==
  /\ pc = "sweep"
  /\ seen' = blocklist
  /\ pc' = "sweeping"
  /\ UNCHANGED <<now, kernel, records, saved, admin, cfg, enforce, protected, queued,
                 dirty, tick, ops>>

GoneSlip == {s \in Banned(seen) : ~Live(seen[s]) /\ records[s] = "auto"}

Gone == {s \in Banned(seen) : ~Live(seen[s])}

\* Expired entries leave the map, entries nobody recorded become "manual",
\* records without an entry are dropped: all judged by the entries read before
SweepApply ==
  /\ pc = "sweeping"
  /\ LET gone == Gone
         kept == Banned(seen) \ gone
     IN /\ Take(gone, "none")
        /\ records' = [s \in Sources |->
                         CASE s \in kept /\ records[s] = "none" -> "manual"
                           [] s \in kept -> records[s]
                           [] OTHER -> "none"]
        /\ dirty' = (dirty \/ gone # {} \/ records' # records)
  /\ seen' = NoBans
  /\ pc' = IF tick = 0 THEN "refresh" ELSE "tail"
  /\ UNCHANGED <<now, pinned, saved, admin, cfg, enforce, protected, queued, tick, ops>>

\* The network profile changed: the same config is applied again
SwitchProfile ==
  /\ pc = "tail" /\ ops < MaxOps
  /\ ApplyConfig(cfg) \/ ApplyFails(cfg)
  /\ pc' = "save"
  /\ ops' = ops + 1
  /\ UNCHANGED <<now, saved, admin, cfg, protected, queued, seen, tick>>

\* What `Saved::capture` writes
Capture ==
  [s \in Sources |->
     IF blocklist[s] # NoBan /\ Live(blocklist[s])
     THEN [until |-> blocklist[s],
           source |-> IF records[s] = "none" THEN "manual" ELSE records[s]]
     ELSE NotSaved]

\* Once the file is written without a source that has no entry, its lift is durable
Store ==
  /\ saved' = Capture
  /\ due' = [s \in Sources |-> IF blocklist[s] = NoBan THEN NoBan ELSE due[s]]
  /\ UNCHANGED <<blocklist, pinned, writer>>

SaveDue == dirty \/ tick % SAVE_TICKS = 0

Save ==
  /\ pc \in {"tail", "save"} /\ SaveDue
  /\ Store
  /\ dirty' = FALSE
  /\ pc' = "wait"
  /\ UNCHANGED <<now, records, admin, cfg, enforce, protected, queued, seen, tick, ops>>

SaveFailsSlip ==
  /\ pc \in {"tail", "save"} /\ SaveDue /\ ops < MaxOps
  /\ pc' = "wait"
  /\ dirty' = FALSE
  /\ ops' = ops + 1
  /\ UNCHANGED <<now, kernel, records, saved, admin, cfg, enforce, protected, queued, seen, tick>>

\* The write fails: only a warning, and `dirty` stays for the next tick
SaveFails ==
  /\ pc \in {"tail", "save"} /\ SaveDue /\ ops < MaxOps
  /\ pc' = "wait"
  /\ ops' = ops + 1
  /\ UNCHANGED <<now, kernel, saved, admin, daemon>>

NoSave ==
  /\ pc \in {"tail", "save"} /\ ~SaveDue
  /\ pc' = "wait"
  /\ UNCHANGED <<now, kernel, saved, admin, daemon, ops>>

\* SIGTERM is seen at the top of the loop: a last save, and out
Stop ==
  /\ pc = "wait" /\ ops < MaxOps
  /\ Store \/ (UNCHANGED <<kernel, saved>>)
  /\ ProcessEnds
  /\ ops' = ops + 1
  /\ UNCHANGED <<now, admin, cfg, enforce>>

-----------------------------------------------------------------------------
(* The event reader task *)

Reading == pc \in InLoop \ Locked

\* The kernel reports enough packets of a source it does not drop yet
Offend(s) ==
  /\ pc \in InLoop /\ ops < MaxOps
  /\ s \notin queued
  /\ blocklist[s] = NoBan \/ ~Live(blocklist[s])
  /\ queued' = queued \cup {s}
  /\ ops' = ops + 1
  /\ UNCHANGED <<now, kernel, saved, admin, records, cfg, enforce, protected, dirty, pc,
                 seen, tick>>

\* observe reaches a score of 1.0 and enact writes the ban, whatever entry is there
AutoBan(s) ==
  /\ Reading /\ s \in queued
  /\ s \notin protected
  /\ enforce /\ Room(s)
  /\ \E secs \in AutoSecs : Put({s}, ExpiryFor(secs), "auto")
  /\ records' = [records EXCEPT ![s] = "auto"]
  /\ dirty' = TRUE
  /\ queued' = queued \ {s}
  /\ UNCHANGED <<now, pinned, saved, admin, cfg, enforce, protected, pc, seen, tick, ops>>

\* A protected source, monitor mode, or a full map: the events are consumed
EventsDropped(s) ==
  /\ Reading /\ s \in queued
  /\ s \in protected \/ ~enforce \/ ~Room(s)
  /\ queued' = queued \ {s}
  /\ UNCHANGED <<now, kernel, saved, admin, records, cfg, enforce, protected, dirty, pc,
                 seen, tick, ops>>

-----------------------------------------------------------------------------
(* The command line and the rest of the world *)

CliBan(s) ==
  /\ pinned /\ ops < MaxOps /\ Room(s)
  /\ \E secs \in CliSecs : Put({s}, ExpiryFor(secs), "manual")
  /\ ops' = ops + 1
  /\ UNCHANGED <<now, pinned, saved, admin, daemon, pc>>

\* The entry goes; state.json is not touched
CliUnban(s) ==
  /\ pinned /\ ops < MaxOps
  /\ blocklist[s] # NoBan
  /\ Take({s}, "lifted")
  /\ ops' = ops + 1
  /\ UNCHANGED <<now, pinned, saved, admin, daemon, pc>>

EditConfig(c) ==
  /\ ops < MaxOps /\ c # file
  /\ file' = c
  /\ changed' = TRUE
  /\ ops' = ops + 1
  /\ UNCHANGED <<now, kernel, saved, route, daemon, pc>>

NetworkMoves ==
  /\ ops < MaxOps
  /\ route' \in Routes \ {route}
  /\ ops' = ops + 1
  /\ UNCHANGED <<now, kernel, saved, file, changed, daemon, pc>>

Crash ==
  /\ pc # "down" /\ ops < MaxOps
  /\ ProcessEnds
  /\ ops' = ops + 1
  /\ UNCHANGED <<now, kernel, saved, admin, cfg, enforce>>

\* bpffs does not survive: the pinned map is gone, the files are not
Reboot ==
  /\ ops < MaxOps
  /\ blocklist' = NoBans
  /\ writer' = [s \in Sources |-> IF writer[s] = "lifted" THEN "lifted" ELSE "none"]
  /\ pinned' = FALSE
  /\ ProcessEnds
  /\ ops' = ops + 1
  /\ UNCHANGED <<now, due, saved, admin, cfg, enforce>>

ClockTick ==
  /\ now < Horizon
  /\ now' = now + 1
  /\ UNCHANGED <<kernel, saved, admin, daemon, pc, ops>>

-----------------------------------------------------------------------------
MainLoop ==
  \/ LoadAtStart \/ ReadMtime \/ ApplyAtStart \/ ApplyAtStartFails \/ Restore
  \/ RefreshProtection
  \/ TimerTick \/ Reload \/ ReloadFails
  \/ SweepRead \/ SweepApply \/ SwitchProfile
  \/ Save \/ SaveFails \/ NoSave \/ Stop

EventReader == \E s \in Sources : AutoBan(s) \/ EventsDropped(s)

Environment ==
  \/ \E s \in Sources : Offend(s) \/ CliBan(s) \/ CliUnban(s)
  \/ \E c \in Configs : EditConfig(c)
  \/ NetworkMoves \/ Crash \/ Reboot \/ ClockTick

Next == MainLoop \/ EventReader \/ Environment

Spec == Init /\ [][Next]_vars

\* What always runs: the loop is driven by a timer, systemd restarts the daemon
\* whenever it exits, the reader task is woken by the ring buffer.  Reload and
\* TimerTick share one wake-up, so they are fair together; failures never are.
LoopProceeds ==
  \/ LoadAtStart \/ ReadMtime \/ ApplyAtStart \/ ApplyAtStartFails \/ Restore
  \/ RefreshProtection \/ TimerTick \/ Reload \/ ReloadFails
  \/ SweepRead \/ SweepApply \/ Save \/ NoSave

FairSpec == Spec /\ WF_vars(LoopProceeds) /\ WF_vars(EventReader)

-----------------------------------------------------------------------------
(* Safety *)

\* No address the detector protects is held by an auto ban on record: observe
\* ignores it (detector.rs:111) and refresh_protection lifts what an address
\* change makes protected (daemon.rs:818).
AutoBanNeverProtected ==
  \A s \in Sources : records[s] = "auto" /\ pc \in InLoop => s \notin protected

\* Neither the kernel nor the state file ever holds a ban longer than somebody
\* decided, across saves, crashes, reboots and restores (state.rs:159 capture,
\* daemon.rs:832 restore): an expired ban does not come back, a timed one does
\* not become permanent, and a lift that has been saved is never undone.
NothingOutlivesItsDecision ==
  \A s \in Sources : /\ AtMost(blocklist[s], due[s])
                     /\ AtMost(saved[s].until, due[s])

\* Whenever the daemon believes its state file is current, every running ban
\* the detector decided is in it, to its exact end (enact sets `dirty`, save
\* clears it only once the file is written, daemon.rs:869).
AutoBansDurable ==
  \A s \in Sources :
    pc \in InLoop /\ ~dirty /\ writer[s] = "auto" /\ Live(blocklist[s])
      => saved[s].until = blocklist[s]

\* Starting the daemon leaves every running kernel ban as it is, save that a
\* listed source is banned forever and an auto ban on a protected one is lifted
\* (README.md:51 "they survive a daemon restart", restore's `contains` guard).
KeptOrOverruled(s) ==
  \/ blocklist'[s] = blocklist[s]
  \/ s \in cfg.blocked /\ blocklist'[s] = BAN_FOREVER
  \/ s \in protected' /\ records[s] = "auto"

RestartKeepsBans ==
  [][pc' \notin {pc, "down"} /\ pc \in Starting =>
       \A s \in Banned(blocklist) : Live(blocklist[s]) => KeptOrOverruled(s)]_vars

\* The kernel map, the daemon, its state file, the command line and everything
\* that crashes between them behave as one book of bans: a ban is decided, ends,
\* comes back within what was decided and only where none is in force, or is
\* forgotten, and nothing else ever happens to it.
Promise == INSTANCE BanPromise WITH force <- blocklist

KeepsPromise == Promise!Spec

-----------------------------------------------------------------------------
(* Liveness *)

\* An entry that has run out is taken off the map: sweep, on whichever tick,
\* after whichever restarts (daemon.rs:878).
ExpiredBansLeave == \A s \in Sources : Expired(s) ~> ~Expired(s)

\* An edit made while the loop runs is in use in the end, unless the file
\* changes again (daemon.rs:280, where the map has room for what it lists).
EditTakesEffect ==
  \A c \in Configs :
    (pc \in InLoop /\ changed /\ file = c) ~> (cfg = c \/ file # c)

\* An auto ban on an address that becomes protected is lifted in the end, or
\* the daemon forgot that it made it (refresh_protection every 20 ticks).
ProtectedIsReleased ==
  \A s \in Sources :
    (records[s] = "auto" /\ s \in route) ~> (records[s] # "auto" \/ s \notin route)
=============================================================================
