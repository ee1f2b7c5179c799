----------------------------- MODULE PolicySync -----------------------------
(***************************************************************************)
(* How a config file becomes the rules the kernel enforces, and what is in *)
(* force while it does: load_at_start, the reload after an edit or SIGHUP, *)
(* the profile switch, `apply_config` with its diffs against what the      *)
(* daemon believes the kernel holds, the posture laid over the config, and *)
(* the hand-over from the filter of the process before.                    *)
(*                                                                         *)
(* The rule maps belong to one process: a new one starts with empty maps,  *)
(* fills them, and only then swaps its program in (`heal`).  The pinned    *)
(* link keeps the program of a process that is gone running on its own     *)
(* maps, which nobody can change any more (`frozen`).                      *)
(*                                                                         *)
(* apply_config is cut at every write to the kernel, since the filter sees *)
(* each of them, and since it returns at the first write that fails.       *)
(*                                                                         *)
(* Left to other modules: the bans themselves (BanLifecycle; here a config *)
(* only says whether its `blocked` list may fail to fit) and interfaces    *)
(* that come and go (here `heal` always attaches).  A rate is one number,  *)
(* smaller is stricter.  The rate array never fails and nothing here reads *)
(* it half-written, so it changes in one step.                             *)
(***************************************************************************)
EXTENDS Integers, FiniteSets, FiniteSetsExt

CONSTANTS
  Ports, Addrs,    \* IPv4 sources of packets
  Nets,            \* networks a rule may name: sets of addresses
  Networks,        \* NetworkManager connections
  Configs,         \* configs the administrator may write
  Default,         \* the config of a new installation
  DHCP_CLIENT_PORTS,
  Decoys,          \* stealth's rules: the honeypot's ports for the local networks
  TrieCapacity,    \* max_entries of ALLOW_FROM_TCP and of ALLOW_FROM_UDP
  PROFILE_TICKS,   \* ticks between looks at the active connections
  MaxOps           \* bound: environment steps

Anyone == {}             \* a rule without `from`
NoProfile == 0
Broken == [broken |-> TRUE]  \* a file that does not parse or validate
Protos == {"tcp", "udp"}

Rule == [proto : Protos, ports : SUBSET Ports, from : Nets \cup {Anyone}, rate : Nat]
Policy == [tcp : SUBSET Ports, udp : SUBSET Ports, ping : BOOLEAN, rules : SUBSET Rule]
\* {} stands for a setting the profile leaves to the base
Profile == [networks : SUBSET Networks, tcp : SUBSET SUBSET Ports, udp : SUBSET SUBSET Ports,
            ping : SUBSET BOOLEAN, rules : SUBSET SUBSET Rule]
IsConfig(c) ==
  /\ DOMAIN c = {"enforce", "crowds", "base", "profiles"}
  /\ c.enforce \in BOOLEAN /\ c.crowds \in BOOLEAN
  /\ c.base \in Policy
  /\ IsFiniteSet(DOMAIN c.profiles) /\ DOMAIN c.profiles \subseteq Nat \ {NoProfile}
  /\ \A n \in DOMAIN c.profiles : c.profiles[n] \in Profile

\* "none" stands for secure and relaxed too, which change no port
Postures == {"none", "lockdown", "stealth", "broken"}

ASSUME PolicyAssumption ==
  /\ IsFiniteSet(Ports) /\ IsFiniteSet(Nets)
  /\ Nets \subseteq SUBSET Addrs /\ Anyone \notin Nets
  /\ DHCP_CLIENT_PORTS \subseteq Ports
  /\ Decoys \subseteq Rule
  /\ Default \in Configs /\ \A c \in Configs : IsConfig(c)
  /\ TrieCapacity \in Nat /\ PROFILE_TICKS \in Nat \ {0} /\ MaxOps \in Nat

VARIABLES
  file,       \* config.toml
  posture,    \* posture.toml, "none" = no file
  stale,      \* which of the two has another mtime than the daemon remembers
  lastGood,   \* last-good.toml
  active,     \* the active connections
  pc,         \* where `run` is
  cfg,        \* daemon: the config in use, posture included
  profile,    \* daemon: the profile in use
  error,      \* daemon: config_error is set
  tick,       \* daemon: tick counter, modulo PROFILE_TICKS
  job,        \* the call of apply_config that is running
  kernel,     \* the rule maps of this process
  copy,       \* daemon: what it believes the lists among them hold
  attached,   \* whose program filters: "no", "own", "frozen"
  frozen,     \* the rule maps of the process before
  ops,        \* environment steps taken (bound)
  torn,       \* ghost: the last apply_config of this process failed
  overflowed  \* ghost: a trie of this process has been full

files == <<file, posture, stale>>
memory == <<cfg, profile, error, tick>>
maps == <<kernel, copy, overflowed>>
link == <<attached, frozen>>
vars == <<files, lastGood, active, pc, memory, job, maps, link, ops, torn>>

ListNames == {"tcp", "udp", "from_tcp", "from_udp"}
Stages == {"settings"} \cup ListNames \cup {"rate", "bans"}
After == [settings |-> "tcp", tcp |-> "udp", udp |-> "from_tcp", from_tcp |-> "from_udp",
          from_udp |-> "rate", rate |-> "bans"]

-----------------------------------------------------------------------------
(* From a config to what the kernel maps should hold *)

EmptyPolicy == [tcp |-> {}, udp |-> {}, ping |-> FALSE, rules |-> {}]

\* The config with a posture laid over it
Laid(c, p) ==
  CASE p = "lockdown" ->
         [c EXCEPT !.enforce = TRUE,
                   !.base = EmptyPolicy,
                   !.profiles = [n \in DOMAIN c.profiles |->
                                   [networks |-> c.profiles[n].networks, tcp |-> {{}},
                                    udp |-> {{}}, ping |-> {FALSE}, rules |-> {{}}]]]
    [] p = "stealth" ->
         [c EXCEPT !.base = [c.base EXCEPT !.ping = FALSE, !.rules = c.base.rules \cup Decoys],
                   !.profiles = [n \in DOMAIN c.profiles |->
                                   [c.profiles[n] EXCEPT
                                      !.ping = {FALSE},
                                      !.rules = {R \cup Decoys : R \in c.profiles[n].rules}]]]
    [] OTHER -> c

\* The first profile, in the order of names, for a network that is up
ProfileFor(c) ==
  LET here == {n \in DOMAIN c.profiles : c.profiles[n].networks \cap active # {}}
  IN IF here = {} THEN NoProfile ELSE Min(here)

\* What a profile sets, or else the base
Setting(option, base) == IF option = {} THEN base ELSE CHOOSE v \in option : TRUE

PolicyOf(c, n) ==
  IF n \notin DOMAIN c.profiles THEN c.base
  ELSE LET p == c.profiles[n]
       IN [tcp |-> Setting(p.tcp, c.base.tcp), udp |-> Setting(p.udp, c.base.udp),
           ping |-> Setting(p.ping, c.base.ping), rules |-> Setting(p.rules, c.base.rules)]

\* A rule for some networks that is open to everyone as well
OpenToAllSlip(r) == TRUE

OpenToAll(r) == r.from = Anyone

\* The ports a protocol's rules open to everyone, and the keys of its trie
OpenBy(rules, proto) == UNION {r.ports : r \in {q \in rules : q.proto = proto /\ OpenToAll(q)}}
KeysOf(rules, proto) ==
  UNION {r.ports \X {r.from} : r \in {q \in rules : q.proto = proto /\ q.from # Anyone}}

\* The limits that a policy's rules set on port q
LimitsOn(p, q) == {r.rate : r \in {s \in p.rules : q \in s.ports /\ s.rate # 0}}

RateSlip(limits) == Max(limits)

\* Two rules that limit one port: the lower rate wins
RateOf(limits) == Min(limits)

Compile(p) ==
  [tcp |-> p.tcp \cup OpenBy(p.rules, "tcp"),
   udp |-> p.udp \cup OpenBy(p.rules, "udp") \cup DHCP_CLIENT_PORTS,
   from_tcp |-> KeysOf(p.rules, "tcp"),
   from_udp |-> KeysOf(p.rules, "udp"),
   rate |-> [q \in Ports |->
               IF LimitsOn(p, q) = {} THEN 0 ELSE RateOf(LimitsOn(p, q))]]

-----------------------------------------------------------------------------
(* What the filter makes of its maps *)

TrieOf == [tcp |-> "from_tcp", udp |-> "from_udp"]

Admits(k, proto, a, q) ==
  \/ ~k.enforce
  \/ q \in k[proto]
  \/ \E key \in k[TrieOf[proto]] : key[1] = q /\ a \in key[2]

\* Written without the maps: what the administrator asked for
Asked(c, n, proto, a, q) ==
  LET p == PolicyOf(c, n)
  IN \/ ~c.enforce
     \/ q \in p[proto]
     \/ proto = "udp" /\ q \in DHCP_CLIENT_PORTS
     \/ \E r \in p.rules : r.proto = proto /\ q \in r.ports /\ (r.from = Anyone \/ a \in r.from)

-----------------------------------------------------------------------------
RuleMaps == [enforce : BOOLEAN, ping : BOOLEAN, tcp : SUBSET Ports, udp : SUBSET Ports,
             from_tcp : SUBSET (Ports \X Nets), from_udp : SUBSET (Ports \X Nets),
             rate : [Ports -> Nat]]

TypeOK ==
  /\ file \in Configs \cup {Broken} /\ lastGood \in Configs \cup {Broken}
  /\ posture \in Postures /\ stale \in SUBSET {"config", "posture"}
  /\ active \in SUBSET Networks
  /\ pc \in {"down", "remember", "prepare", "apply", "wait", "heal", "profile"}
  /\ IsConfig(cfg) /\ profile \in Nat
  /\ error \in BOOLEAN /\ torn \in BOOLEAN /\ overflowed \in BOOLEAN
  /\ tick \in 0..(PROFILE_TICKS - 1) /\ ops \in Nat
  /\ pc = "apply" =>
       /\ job.why \in {"start", "reload", "switch"} /\ job.stage \in Stages
       /\ IsConfig(job.cfg) /\ job.profile \in Nat
  /\ kernel \in RuleMaps /\ frozen \in RuleMaps
  /\ DOMAIN copy = ListNames
  /\ \A m \in ListNames : copy[m] \subseteq IF m \in {"tcp", "udp"} THEN Ports ELSE Ports \X Nets
  /\ attached \in {"no", "own", "frozen"}

-----------------------------------------------------------------------------
NoMaps == [enforce |-> FALSE, ping |-> TRUE, tcp |-> {}, udp |-> {}, from_tcp |-> {},
           from_udp |-> {}, rate |-> [q \in Ports |-> 0]]
NoCopy == [m \in ListNames |-> {}]
NoJob == [why |-> "none"]

Init ==
  /\ file \in Configs /\ posture = "none" /\ stale = {} /\ lastGood = Broken
  /\ active = {}
  /\ pc = "down" /\ cfg = file /\ profile = NoProfile /\ error = FALSE /\ tick = 0
  /\ job = NoJob
  /\ kernel = NoMaps /\ copy = NoCopy /\ overflowed = FALSE
  /\ attached = "no" /\ frozen = NoMaps
  /\ ops = 0 /\ torn = FALSE

\* The process is gone: its maps live on only under a program that is attached
ProcessEnds ==
  /\ pc' = "down"
  /\ job' = NoJob
  /\ kernel' = NoMaps /\ copy' = NoCopy /\ overflowed' = FALSE
  /\ error' = FALSE /\ torn' = FALSE /\ tick' = 0

-----------------------------------------------------------------------------
(* Start *)

\* A broken file: the last config that worked, or the defaults, with the error kept
LoadAtStart ==
  /\ pc = "down"
  /\ \E c \in IF file # Broken THEN {file}
              ELSE IF lastGood # Broken THEN {lastGood} ELSE {Default} :
       cfg' = Laid(c, posture)
  /\ error' = (file = Broken)
  /\ stale' = stale \ {"posture"}
  /\ pc' = "remember"
  /\ UNCHANGED <<file, posture, lastGood, active, profile, tick, job, maps, link, ops, torn>>

\* The file is copied without knowing whether it applies, and its mtime read
Remember ==
  /\ pc = "remember"
  /\ lastGood' = IF error THEN lastGood ELSE file
  /\ stale' = stale \ {"config"}
  /\ pc' = "prepare"
  /\ UNCHANGED <<file, posture, active, memory, job, maps, link, ops, torn>>

Begin(why, c) ==
  /\ pc' = "apply"
  /\ job' = [why |-> why, cfg |-> c, profile |-> ProfileFor(c), stage |-> "settings"]

ApplyAtStart ==
  /\ pc = "prepare"
  /\ Begin("start", cfg)
  /\ UNCHANGED <<files, lastGood, active, memory, maps, link, ops, torn>>

-----------------------------------------------------------------------------
(* apply_config *)

Wanted == Compile(PolicyOf(job.cfg, job.profile))

At(stage) == pc = "apply" /\ job.stage = stage

NextStage == job' = [job EXCEPT !.stage = After[@]]

ApplySettings ==
  /\ At("settings")
  /\ kernel' = [kernel EXCEPT !.enforce = job.cfg.enforce,
                              !.ping = PolicyOf(job.cfg, job.profile).ping]
  /\ NextStage
  /\ UNCHANGED <<files, lastGood, active, pc, memory, copy, overflowed, link, ops, torn>>

\* Entries to take out and entries to put in, by the daemon's copy
Gone(m) == copy[m] \ Wanted[m]
New(m) == Wanted[m] \ copy[m]

FullSlip(m) == m \in {"from_tcp", "from_udp"} /\ Cardinality(kernel[m]) + 1 >= TrieCapacity

Full(m) == m \in {"from_tcp", "from_udp"} /\ Cardinality(kernel[m]) >= TrieCapacity

SyncRemove(m) ==
  /\ At(m)
  /\ \E x \in Gone(m) \cap kernel[m] : kernel' = [kernel EXCEPT ![m] = @ \ {x}]
  /\ UNCHANGED <<files, lastGood, active, pc, memory, job, copy, overflowed, link, ops, torn>>

Removed(m) == Gone(m) \cap kernel[m] = {}

SyncInsert(m) ==
  /\ At(m) /\ Removed(m) /\ ~Full(m)
  /\ \E x \in New(m) \ kernel[m] : kernel' = [kernel EXCEPT ![m] = @ \cup {x}]
  /\ UNCHANGED <<files, lastGood, active, pc, memory, job, copy, overflowed, link, ops, torn>>

SyncDone(m) ==
  /\ At(m) /\ Removed(m) /\ New(m) \subseteq kernel[m]
  /\ copy' = [copy EXCEPT ![m] = Wanted[m]]
  /\ NextStage
  /\ UNCHANGED <<files, lastGood, active, pc, memory, kernel, overflowed, link, ops, torn>>

ApplyRates ==
  /\ At("rate")
  /\ kernel' = [kernel EXCEPT !.rate = Wanted.rate]
  /\ NextStage
  /\ UNCHANGED <<files, lastGood, active, pc, memory, copy, overflowed, link, ops, torn>>

\* What the caller does when apply_config returns an error
Rejected ==
  \/ /\ job.why = "start"
     /\ ProcessEnds
     /\ UNCHANGED <<cfg, profile>>
  \/ /\ job.why \in {"reload", "switch"}
     /\ pc' = IF job.why = "reload" THEN "heal" ELSE "wait"
     /\ error' = (error \/ job.why = "reload")
     /\ torn' = TRUE
     /\ job' = NoJob
     /\ UNCHANGED <<cfg, profile, tick>>

\* The copy of the list stays as it was, whatever has been written
SyncFails(m) ==
  /\ At(m) /\ Removed(m) /\ Full(m) /\ ~ New(m) \subseteq kernel[m]
  /\ Rejected
  /\ IF job.why = "start" THEN TRUE ELSE overflowed' = TRUE /\ UNCHANGED <<kernel, copy>>
  /\ UNCHANGED <<files, lastGood, active, link, ops>>

BansFail ==
  /\ At("bans") /\ job.cfg.crowds
  /\ Rejected
  /\ IF job.why = "start" THEN TRUE ELSE UNCHANGED maps
  /\ UNCHANGED <<files, lastGood, active, link, ops>>

\* What the caller does when it succeeds.  A reload copies the file as it is now.
Applied ==
  /\ At("bans")
  /\ cfg' = job.cfg /\ profile' = job.profile
  /\ IF job.why = "reload" THEN lastGood' = file /\ error' = FALSE
                           ELSE UNCHANGED <<lastGood, error>>
  /\ pc' = IF job.why = "reload" THEN "heal" ELSE "wait"
  /\ torn' = FALSE
  /\ job' = NoJob
  /\ UNCHANGED <<files, active, tick, maps, link, ops>>

ApplyConfig ==
  \/ ApplySettings \/ ApplyRates \/ Applied \/ BansFail
  \/ \E m \in ListNames : SyncRemove(m) \/ SyncInsert(m) \/ SyncDone(m) \/ SyncFails(m)

-----------------------------------------------------------------------------
(* The loop *)

NextTick == tick' = (tick + 1) % PROFILE_TICKS

NoticedSlip == "posture" \in stale

Noticed == stale # {}

TimerTick ==
  /\ pc = "wait" /\ ~Noticed
  /\ NextTick
  /\ pc' = "heal"
  /\ UNCHANGED <<files, lastGood, active, cfg, profile, error, job, maps, link, ops, torn>>

\* Both files are read again; a config.toml that does not load ends the reload,
\* and with it any change of the posture
Load ==
  /\ pc = "wait"
  /\ NextTick
  /\ stale' = {}
  /\ \/ /\ file # Broken
        /\ Begin("reload", Laid(file, posture))
        /\ UNCHANGED error
     \/ /\ file = Broken
        /\ pc' = "heal" /\ error' = TRUE
        /\ UNCHANGED job
  /\ UNCHANGED <<file, posture, lastGood, active, cfg, profile, maps, link, torn>>

Reload == Noticed /\ Load /\ UNCHANGED ops

HealPlaceSlip == {"heal", "prepare"}

HealPlace == {"heal"}

\* The program of this process takes over the link, or gets one of its own
Heal ==
  /\ pc \in HealPlace
  /\ attached' = "own"
  /\ frozen' = NoMaps
  /\ pc' = IF pc = "heal" /\ (tick = 0 \/ attached # "own") THEN "profile"
           ELSE IF pc = "heal" THEN "wait" ELSE pc
  /\ UNCHANGED <<files, lastGood, active, memory, job, maps, ops, torn>>

DueSlip == FALSE

Due == ProfileFor(cfg) # profile

SwitchProfile ==
  /\ pc = "profile" /\ Due
  /\ Begin("switch", cfg)
  /\ UNCHANGED <<files, lastGood, active, memory, maps, link, ops, torn>>

KeepProfile ==
  /\ pc = "profile" /\ ~Due
  /\ pc' = "wait"
  /\ UNCHANGED <<files, lastGood, active, memory, job, maps, link, ops, torn>>

Daemon ==
  \/ LoadAtStart \/ Remember \/ ApplyAtStart \/ ApplyConfig
  \/ TimerTick \/ Reload \/ Heal \/ SwitchProfile \/ KeepProfile

-----------------------------------------------------------------------------
(* The environment *)

Step == ops < MaxOps /\ ops' = ops + 1

EditConfig ==
  /\ Step
  /\ file' \in (Configs \cup {Broken}) \ {file}
  /\ stale' = stale \cup {"config"}
  /\ UNCHANGED <<posture, lastGood, active, pc, memory, job, maps, link, torn>>

SetPosture ==
  /\ Step
  /\ posture' \in Postures \ {posture}
  /\ stale' = stale \cup {"posture"}
  /\ UNCHANGED <<file, lastGood, active, pc, memory, job, maps, link, torn>>

Sighup == Step /\ Load

NetworkMoves ==
  /\ Step
  /\ active' \in (SUBSET Networks) \ {active}
  /\ UNCHANGED <<files, lastGood, pc, memory, job, maps, link, torn>>

Crash ==
  /\ Step
  /\ pc # "down"
  /\ ProcessEnds
  /\ IF attached = "own" THEN attached' = "frozen" /\ frozen' = kernel ELSE UNCHANGED link
  /\ UNCHANGED <<files, lastGood, active, cfg, profile>>

Reboot ==
  /\ Step
  /\ ProcessEnds
  /\ attached' = "no" /\ frozen' = NoMaps
  /\ UNCHANGED <<files, lastGood, active, cfg, profile>>

Environment == EditConfig \/ SetPosture \/ Sighup \/ NetworkMoves \/ Crash \/ Reboot

Next == Daemon \/ Environment

\* The loop ticks and systemd restarts the process, so the daemon's next step comes
Spec == Init /\ [][Next]_vars /\ WF_vars(Daemon)

-----------------------------------------------------------------------------
(* Properties *)

AccessIs(k, c, n) ==
  /\ k.ping = PolicyOf(c, n).ping
  /\ \A proto \in Protos, a \in Addrs, q \in Ports : Admits(k, proto, a, q) <=> Asked(c, n, proto, a, q)

\* Unless an apply_config of this process failed, the filter admits exactly what
\* the config in use asks for whenever none is running: a process that starts does
\* not attach before its maps are full, and the diffs of sync_ports and sync_trie
\* leave nothing behind.
AccessInForce ==
  attached = "own" /\ pc # "apply" /\ ~torn /\ ~overflowed => AccessIs(kernel, cfg, profile)

\* Likewise for the limits: each limited port has the strictest of its limits.
LimitsInForce ==
  attached = "own" /\ pc # "apply" /\ ~torn =>
    \A q \in Ports :
      LET limits == LimitsOn(PolicyOf(cfg, profile), q)
      IN IF limits = {} THEN kernel.rate[q] = 0
         ELSE kernel.rate[q] \in limits /\ \A l \in limits : kernel.rate[q] <= l

\* While apply_config moves the filter from one config to the next, write by write,
\* it admits nothing that neither of the two admits.
NeverOpensMore ==
  attached = "own" /\ pc = "apply" /\ ~torn /\ ~overflowed =>
    \A proto \in Protos, a \in Addrs, q \in Ports :
      Admits(kernel, proto, a, q) =>
        \/ Asked(cfg, profile, proto, a, q)
        \/ Asked(job.cfg, job.profile, proto, a, q)

\* A config that every posture and profile can be applied from
Appliable(c) ==
  /\ ~c.crowds
  /\ \A p \in Postures : LET d == Laid(c, p) IN
       \A n \in DOMAIN d.profiles \cup {NoProfile}, m \in {"from_tcp", "from_udp"} :
         Cardinality(Compile(PolicyOf(d, n))[m]) <= TrieCapacity

\* An edit that the loop can notice is in use some ticks later, with the posture laid
\* over it, unless another edit overtakes it or a trie was full before.
EditTakesEffect ==
  \A c \in {d \in Configs : Appliable(d)} :
    ((pc = "wait" /\ "config" \in stale /\ file = c) ~>
       (file # c \/ overflowed \/ (pc = "wait" /\ cfg = Laid(c, posture))))

\* The profile follows the network, unless a switch fails.
ProfileFollowsNetwork ==
  (pc = "wait" /\ ProfileFor(cfg) # profile) ~>
    (profile = ProfileFor(cfg) \/ torn \/ pc = "down")

\* After a crash or a reboot this process filters again, if the file can be applied.
ComesUp ==
  \A c \in {d \in Configs : Appliable(d)} :
    ((pc = "down" /\ file = c) ~> (attached = "own" \/ file # c))

\* posture.rs says "The daemon reloads within a tick when the file changes": lockdown
\* closes every port soon after it was set.
LockdownTakesEffect ==
  (pc = "wait" /\ posture = "lockdown" /\ "posture" \in stale) ~>
    \/ posture # "lockdown"
    \/ /\ kernel.enforce /\ kernel.tcp = {} /\ kernel.udp \subseteq DHCP_CLIENT_PORTS
       /\ kernel.from_tcp = {} /\ kernel.from_udp = {}
=============================================================================
