------------------------------- MODULE Feeds -------------------------------
(***************************************************************************)
(* Blocklist feeds: from the urls in the config to the kernel's trie of    *)
(* known-bad networks (feeds.rs; daemon.rs `spawn_feed_refresh`,           *)
(* `apply_feeds`; `ai-firewall feeds --refresh`).                          *)
(*                                                                         *)
(* A refresh downloads one source after the other into `<name>.part` and   *)
(* renames it over `<name>.txt`.  The daemon's runs in a blocking task     *)
(* next to its loop, the command line's in a process of its own, on the    *)
(* same files.  curl writes to the file it has open wherever that has been *)
(* renamed to; `where` keeps track of it.  Sources the user adds are named *)
(* by their position in the config, so a cache says nothing about the url  *)
(* it came from.                                                           *)
(*                                                                         *)
(* A list is a set of networks; `protected` and Reserved are given as the  *)
(* networks that overlap a protected or reserved one.  Cutting a list into *)
(* networks is `parse`: what a truncated list loses is any part of it.     *)
(* The trie belongs to the process; a new one fills its own before it      *)
(* attaches (see PolicySync for the hand-over).                            *)
(***************************************************************************)
EXTENDS Integers, FiniteSets, Sequences, Functions

CONSTANTS
  Nets,         \* IPv4 networks
  Reserved,     \* those that touch private, LAN or reserved space
  Urls,
  Known,        \* the built-in lists: name -> url
  Lists,        \* what a url may publish: sets of networks
  Configs,      \* [feeds] sections: names of built-in lists and own urls
  Capacity,     \* max_entries of FEEDS
  MaxOps        \* bound: environment steps and failures

ListName(n) == <<"list", n>>
Custom(i) == <<"custom", i>>
FeedConfig == [lists : Seq(DOMAIN Known), urls : Seq(Urls)]
Workers == {"daemon", "cli"}

ASSUME FeedsAssumption ==
  /\ IsFiniteSet(Nets) /\ Reserved \subseteq Nets
  /\ \A n \in DOMAIN Known : Known[n] \in Urls
  /\ Lists \subseteq SUBSET Nets /\ Lists # {}
  /\ Configs \subseteq FeedConfig /\ Configs # {}
  /\ Capacity \in Nat /\ MaxOps \in Nat

\* (name, url) of everything a config asks for, own urls named by position
Sources(c) ==
  [i \in DOMAIN c.lists |-> [name |-> ListName(c.lists[i]), url |-> Known[c.lists[i]]]]
  \o [i \in DOMAIN c.urls |-> [name |-> Custom(i), url |-> c.urls[i]]]

Source == UNION {Range(Sources(c)) : c \in Configs}
Names == {s.name : s \in Source}

NoFile == [nets |-> {}, whole |-> FALSE, exists |-> FALSE]
File == [nets : SUBSET Nets, whole : BOOLEAN, exists : BOOLEAN]
Worker == [st : {"idle", "pick", "curl", "rename", "done"}, left : Seq(Source),
           force : BOOLEAN, where : {"part", "cache", "gone"}]
Idle == [st |-> "idle", left |-> <<>>, force |-> FALSE, where |-> "gone"]

VARIABLES
  published,   \* url -> the list it serves now
  file,        \* the [feeds] section of config.toml
  protected,   \* networks the router, DNS servers, own or trusted addresses are in
  cache,       \* name -> <name>.txt
  part,        \* name -> <name>.part
  fresh,       \* names whose cache is younger than refresh_hours
  worker,      \* who refreshes -> where it is: idle, pick, curl, rename, done
  up,          \* the daemon runs
  cfg,         \* daemon: the config in use
  hup,         \* daemon: a SIGHUP is pending
  feed_nets,   \* daemon: what it believes it has loaded
  trie,        \* FEEDS
  ops,         \* environment steps (bound)
  overflowed,  \* ghost: an insert into this process's trie failed
  overlapped   \* ghost: two refreshes ran at once

world == <<published, file, protected>>
disk == <<cache, part, fresh>>
daemon == <<up, cfg, hup, feed_nets, trie, overflowed>>
vars == <<world, disk, worker, daemon, ops, overlapped>>

TypeOK ==
  /\ published \in [Urls -> Lists]
  /\ file \in Configs /\ cfg \in Configs
  /\ protected \subseteq Nets /\ feed_nets \subseteq Nets /\ trie \subseteq Nets
  /\ cache \in [Names -> File] /\ part \in [Names -> File] /\ fresh \subseteq Names
  /\ worker \in [Workers -> Worker]
  /\ \A w \in Workers : worker[w].st \in {"curl", "rename"} => worker[w].left # <<>>
  /\ up \in BOOLEAN /\ hup \in BOOLEAN /\ overflowed \in BOOLEAN /\ overlapped \in BOOLEAN
  /\ ops \in Nat

Init ==
  /\ published \in [Urls -> Lists]
  /\ file \in Configs /\ cfg = file
  /\ protected = {}
  /\ cache = [n \in Names |-> NoFile] /\ part = [n \in Names |-> NoFile] /\ fresh = {}
  /\ worker = [w \in Workers |-> Idle]
  /\ up = FALSE /\ hup = FALSE
  /\ feed_nets = {} /\ trie = {}
  /\ ops = 0 /\ overflowed = FALSE /\ overlapped = FALSE

-----------------------------------------------------------------------------
(* refresh *)

Job(c, force) == [st |-> "pick", left |-> Sources(c), force |-> force, where |-> "gone"]

Busy(w) == worker[w].st \notin {"idle", "done"}

Spawn(w, c, force) ==
  /\ worker' = [worker EXCEPT ![w] = Job(c, force)]
  /\ overlapped' = (overlapped \/ \E v \in Workers \ {w} : Busy(v))

\* The source a worker is at
At(w) == Head(worker[w].left)

\* Other workers whose curl has the same file open
Sharing(w) ==
  {v \in Workers \ {w} : /\ worker[v].st = "curl"
                         /\ At(v).name = At(w).name
                         /\ worker[v].where = worker[w].where}

Ended(w) ==
  /\ worker[w].st = "pick" /\ worker[w].left = <<>>
  /\ worker' = [worker EXCEPT ![w].st = "done"]
  /\ UNCHANGED <<world, disk, daemon, ops, overlapped>>

YoungSlip(w) == At(w).name \in fresh \/ cache[At(w).name].exists

Young(w) == At(w).name \in fresh

Skip(w) ==
  /\ worker[w].st = "pick" /\ worker[w].left # <<>>
  /\ ~worker[w].force /\ Young(w)
  /\ worker' = [worker EXCEPT ![w].left = Tail(@)]
  /\ UNCHANGED <<world, disk, daemon, ops, overlapped>>

\* curl opens the file, a new one or the one it finds, and empties it; what it
\* has written when somebody looks is any part of the list
Download(w) ==
  /\ worker[w].st = "pick" /\ worker[w].left # <<>>
  /\ worker[w].force \/ ~Young(w)
  /\ \E some \in SUBSET published[At(w).url] :
       part' = [part EXCEPT ![At(w).name] = [nets |-> some, whole |-> FALSE, exists |-> TRUE]]
  /\ worker' = [worker EXCEPT ![w] = [@ EXCEPT !.st = "curl", !.where = "part"]]
  /\ UNCHANGED <<world, cache, fresh, daemon, ops, overlapped>>

\* The whole list is in the file, unless another curl is writing there too
Written(w) ==
  IF Sharing(w) = {}
  THEN {[nets |-> published[At(w).url], whole |-> TRUE, exists |-> TRUE]}
  ELSE {[nets |-> some, whole |-> FALSE, exists |-> TRUE] : some \in SUBSET published[At(w).url]}

CurlEnds(w) ==
  /\ worker[w].st = "curl"
  /\ worker' = [worker EXCEPT ![w].st = "rename"]
  /\ \E f \in Written(w) :
       CASE worker[w].where = "part" ->
              part' = [part EXCEPT ![At(w).name] = f] /\ UNCHANGED <<cache, fresh>>
         [] worker[w].where = "cache" ->
              /\ cache' = [cache EXCEPT ![At(w).name] = f]
              /\ fresh' = fresh \cup {At(w).name}
              /\ UNCHANGED part
         [] OTHER -> UNCHANGED disk
  /\ UNCHANGED <<world, daemon, ops, overlapped>>

\* Where the files that curls on this name have open are after a rename, a removal
Moved(w, to) ==
  [v \in Workers |->
     IF v = w THEN [worker[w] EXCEPT !.st = "pick", !.left = Tail(@), !.where = "gone"]
     ELSE IF worker[v].left # <<>> /\ At(v).name = At(w).name /\ worker[v].where \in DOMAIN to
     THEN [worker[v] EXCEPT !.where = to[worker[v].where]]
     ELSE worker[v]]

Removed == [part |-> "gone"]
Renamed == [part |-> "cache", cache |-> "gone"]

\* `rename` is atomic, and finds whatever file has the name by now
Rename(w) ==
  /\ worker[w].st = "rename" /\ part[At(w).name].exists
  /\ cache' = [cache EXCEPT ![At(w).name] = part[At(w).name]]
  /\ fresh' = fresh \cup {At(w).name}
  /\ part' = [part EXCEPT ![At(w).name] = NoFile]
  /\ worker' = Moved(w, Renamed)
  /\ UNCHANGED <<world, daemon, ops, overlapped>>

\* The file is gone: another refresh has renamed or removed it
RenameFails(w) ==
  /\ worker[w].st = "rename" /\ ~part[At(w).name].exists
  /\ worker' = Moved(w, Removed)
  /\ UNCHANGED <<world, disk, daemon, ops, overlapped>>

CurlFailsSlip(w) ==
  /\ worker[w].st = "curl" /\ ops < MaxOps
  /\ worker' = [worker EXCEPT ![w].st = "rename"]
  /\ ops' = ops + 1
  /\ UNCHANGED <<world, disk, daemon, overlapped>>

\* No network, an error page, 60 seconds: the partial file is removed
CurlFails(w) ==
  /\ worker[w].st = "curl" /\ ops < MaxOps
  /\ part' = [part EXCEPT ![At(w).name] = NoFile]
  /\ worker' = Moved(w, Removed)
  /\ ops' = ops + 1
  /\ UNCHANGED <<world, cache, fresh, daemon, overlapped>>

Refresh(w) ==
  Ended(w) \/ Skip(w) \/ Download(w) \/ CurlEnds(w) \/ Rename(w) \/ RenameFails(w)

-----------------------------------------------------------------------------
(* The daemon *)

\* What the caches of a config's sources say, without what must stay reachable
Load(c) ==
  UNION {cache[s.name].nets : s \in Range(Sources(c))} \ (Reserved \cup protected)

GoneSlip(wanted) == feed_nets \ Load(cfg)

Gone(wanted) == feed_nets \ wanted

New(wanted) == wanted \ feed_nets

\* apply_feeds: differences to what is believed to be loaded; what does not fit
\* counts as loaded all the same
ApplyFeeds(c) ==
  LET wanted == Load(c)
  IN \E new \in SUBSET New(wanted) :
       /\ trie' = (trie \ Gone(wanted)) \cup new
       /\ Cardinality(trie') <= Capacity
       /\ new = New(wanted) \/ Cardinality(trie') = Capacity
       /\ feed_nets' = wanted
       /\ overflowed' = (overflowed \/ new # New(wanted))

\* The cached copies right away, fresh ones in the background
Start ==
  /\ ~up
  /\ up' = TRUE /\ hup' = FALSE
  /\ cfg' = file
  /\ ApplyFeeds(file)
  /\ Spawn("daemon", file, FALSE)
  /\ UNCHANGED <<world, disk, ops>>

Changed == Sources(file) # Sources(cfg)

\* A refresh is started for new sources, unless one is running for the old ones
Reload ==
  /\ up /\ (hup \/ file # cfg)
  /\ hup' = FALSE /\ cfg' = file
  /\ IF Changed /\ worker["daemon"].st = "idle"
     THEN Spawn("daemon", file, FALSE)
     ELSE UNCHANGED <<worker, overlapped>>
  /\ ApplyFeeds(file)
  /\ UNCHANGED <<world, disk, up, ops>>

\* Every FEED_CHECK_TICKS
CheckFeeds ==
  /\ up /\ worker["daemon"].st = "idle"
  /\ Spawn("daemon", cfg, FALSE)
  /\ UNCHANGED <<world, disk, daemon, ops>>

\* The tick that finds the job finished loads what it left
TakeResults ==
  /\ up /\ worker["daemon"].st = "done"
  /\ worker' = [worker EXCEPT !["daemon"] = Idle]
  /\ ApplyFeeds(cfg)
  /\ UNCHANGED <<world, disk, up, cfg, hup, ops, overlapped>>

-----------------------------------------------------------------------------
(* The command line and the world *)

\* `feeds --refresh`, by the config as it is now
CliRefresh ==
  /\ worker["cli"].st = "idle" /\ ops < MaxOps
  /\ Spawn("cli", file, TRUE)
  /\ ops' = ops + 1
  /\ UNCHANGED <<world, disk, daemon>>

\* ... ends with systemctl reload
CliReload ==
  /\ worker["cli"].st = "done"
  /\ worker' = [worker EXCEPT !["cli"] = Idle]
  /\ hup' = up
  /\ UNCHANGED <<world, disk, up, cfg, feed_nets, trie, ops, overflowed, overlapped>>

Edit(c) ==
  /\ ops < MaxOps /\ c # file
  /\ file' = c
  /\ ops' = ops + 1
  /\ UNCHANGED <<published, protected, disk, worker, daemon, overlapped>>

Publish(u) ==
  /\ ops < MaxOps
  /\ \E l \in Lists : l # published[u] /\ published' = [published EXCEPT ![u] = l]
  /\ ops' = ops + 1
  /\ UNCHANGED <<file, protected, disk, worker, daemon, overlapped>>

NetworkMoves ==
  /\ ops < MaxOps
  /\ \E n \in Nets : protected' = IF n \in protected THEN protected \ {n} ELSE protected \cup {n}
  /\ ops' = ops + 1
  /\ UNCHANGED <<published, file, disk, worker, daemon, overlapped>>

\* A cache gets older than refresh_hours
Age(n) ==
  /\ n \in fresh
  /\ fresh' = fresh \ {n}
  /\ UNCHANGED <<world, cache, part, worker, daemon, ops, overlapped>>

\* The daemon goes, with its curl and its trie; the files stay as they are
Crash ==
  /\ up /\ ops < MaxOps
  /\ up' = FALSE /\ hup' = FALSE
  /\ worker' = [worker EXCEPT !["daemon"] = Idle]
  /\ feed_nets' = {} /\ trie' = {} /\ overflowed' = FALSE
  /\ ops' = ops + 1
  /\ UNCHANGED <<world, disk, cfg, overlapped>>

Loop == Start \/ Reload \/ CheckFeeds \/ TakeResults

Next ==
  \/ Loop \/ CliRefresh \/ CliReload \/ NetworkMoves \/ Crash
  \/ \E w \in Workers : Refresh(w) \/ CurlFails(w)
  \/ \E c \in Configs : Edit(c)
  \/ \E u \in Urls : Publish(u)
  \/ \E n \in Names : Age(n)

\* The loop ticks, curl ends within its time-out, caches grow old
Fairness ==
  /\ WF_vars(Start) /\ WF_vars(Reload) /\ WF_vars(CheckFeeds \/ TakeResults)
  /\ \A w \in Workers : WF_vars(Refresh(w))
  /\ WF_vars(CliReload)
  /\ \A n \in Names : WF_vars(Age(n))

Spec == Init /\ [][Next]_vars /\ Fairness

-----------------------------------------------------------------------------
\* The kernel blocks nothing but what the daemon believes it has loaded, and all
\* of it unless the trie was full: the diffs of apply_feeds (daemon.rs:752) never
\* lose or leave a network, whatever config, protection and download they follow.
KernelIsLoaded == trie \subseteq feed_nets /\ (~overflowed => trie = feed_nets)

\* "keeping the cached copy" (feeds.rs:157): a list in use is complete, whatever
\* fails or dies half-way, as long as no two refreshes overlap.
CacheIsWhole == \A n \in Names : cache[n].exists /\ ~overlapped => cache[n].whole

\* What the configured urls publish is what the kernel blocks in the end, less
\* what must stay reachable, once nothing changes any more: after failed, racing
\* and late downloads, reordered urls, a new router or DNS server, restarts.
Target ==
  UNION {published[s.url] : s \in Range(Sources(file))} \ (Reserved \cup protected)

ListsInForce == <>[](trie = Target \/ overflowed)
=============================================================================
