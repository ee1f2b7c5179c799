----------------------------- MODULE FeedsProofs -----------------------------
(***************************************************************************)
(* Proofs about the feeds.  The trie follows what the daemon believes it   *)
(* has loaded by set algebra alone.  That caches are whole needs to know   *)
(* what a refresh that has the files to itself leaves in its .part file at *)
(* each of its steps (Undisturbed).                                        *)
(***************************************************************************)
EXTENDS Feeds, TLAPS

(* Every diff of apply_feeds starts and ends in step with the kernel. *)
LEMMA ApplyKeepsLoaded ==
  ASSUME KernelIsLoaded, NEW c, ApplyFeeds(c)
  PROVE  KernelIsLoaded'
<1>1. PICK new \in SUBSET New(Load(c)) :
        /\ trie' = (trie \ Gone(Load(c))) \cup new
        /\ feed_nets' = Load(c)
        /\ overflowed' = (overflowed \/ new # New(Load(c)))
  BY DEF ApplyFeeds
<1> HIDE DEF Load
<1>2. trie' \subseteq feed_nets'
  BY <1>1 DEF KernelIsLoaded, Gone, New
<1>3. ASSUME ~overflowed' PROVE trie' = feed_nets'
  <2>1. ~overflowed /\ new = New(Load(c))
    BY <1>1, <1>3
  <2> QED
    BY <1>1, <2>1 DEF KernelIsLoaded, Gone, New
<1> QED
  BY <1>2, <1>3 DEF KernelIsLoaded

LEMMA NextKeepsLoaded ==
  ASSUME KernelIsLoaded, [Next]_vars
  PROVE  KernelIsLoaded'
<1>1. CASE Start
  BY <1>1, ApplyKeepsLoaded DEF Start
<1>2. CASE Reload
  BY <1>2, ApplyKeepsLoaded DEF Reload
<1>3. CASE TakeResults
  BY <1>3, ApplyKeepsLoaded DEF TakeResults
<1>4. CASE Crash
  BY <1>4 DEF Crash, KernelIsLoaded
<1>5. CASE UNCHANGED <<trie, feed_nets, overflowed>>
  BY <1>5 DEF KernelIsLoaded
<1>6. ASSUME NEW w \in Workers, Refresh(w) \/ CurlFails(w) PROVE UNCHANGED <<trie, feed_nets, overflowed>>
  BY <1>6 DEF Refresh, Ended, Skip, Download, CurlEnds, Rename, RenameFails, CurlFails, daemon
<1>7. CheckFeeds \/ CliRefresh \/ CliReload \/ NetworkMoves \/ UNCHANGED vars
        => UNCHANGED <<trie, feed_nets, overflowed>>
  BY DEF CheckFeeds, CliRefresh, CliReload, NetworkMoves, daemon, vars
<1>8. /\ \A c \in Configs : Edit(c) => UNCHANGED <<trie, feed_nets, overflowed>>
      /\ \A u \in Urls : Publish(u) => UNCHANGED <<trie, feed_nets, overflowed>>
      /\ \A n \in Names : Age(n) => UNCHANGED <<trie, feed_nets, overflowed>>
  BY DEF Edit, Publish, Age, daemon
<1> QED
  BY <1>1, <1>2, <1>3, <1>4, <1>5, <1>6, <1>7, <1>8 DEF Next, Loop

(* The kernel's trie is what the daemon believes it has loaded, less what   *)
(* did not fit (daemon.rs apply_feeds), over reloads, downloads, restarts.  *)
THEOREM TrieIsLoaded == Spec => []KernelIsLoaded
<1>1. Init => KernelIsLoaded
  BY DEF Init, KernelIsLoaded
<1> QED
  BY <1>1, NextKeepsLoaded, PTL DEF Spec

-----------------------------------------------------------------------------
(* The sources of a config, as `sources` lists them, are a sequence. *)
LEMMA SourcesAreSources ==
  ASSUME NEW c \in Configs
  PROVE  Sources(c) \in Seq(Source)
<1> DEFINE f == [i \in DOMAIN c.lists |-> [name |-> ListName(c.lists[i]), url |-> Known[c.lists[i]]]]
           g == [i \in DOMAIN c.urls |-> [name |-> Custom(i), url |-> c.urls[i]]]
           X == {f[i] : i \in DOMAIN c.lists} \cup {g[i] : i \in DOMAIN c.urls}
<1>1. c \in FeedConfig
  BY FeedsAssumption
<1>2. PICK m \in Nat : DOMAIN c.lists = 1 .. m
  BY <1>1 DEF FeedConfig
<1>3. PICK n \in Nat : DOMAIN c.urls = 1 .. n
  BY <1>1 DEF FeedConfig
<1>4. f \in Seq(X)
  <2>1. f \in [1 .. m -> X]
    BY <1>2
  <2> QED
    BY <2>1
<1>5. g \in Seq(X)
  <2>1. g \in [1 .. n -> X]
    BY <1>3
  <2> QED
    BY <2>1
<1>6. Sources(c) = f \o g
  BY DEF Sources
<1> HIDE DEF f, g
<1>7. Sources(c) \in Seq(X)
  BY <1>4, <1>5, <1>6
<1> HIDE DEF X
<1>8. Sources(c) \in Seq(Range(Sources(c)))
  BY <1>7 DEF Range
<1>9. Range(Sources(c)) \subseteq Source
  BY DEF Source
<1> QED
  BY <1>8, <1>9

LEMMA SourceHasName == ASSUME NEW s \in Source PROVE s.name \in Names
BY DEF Names

LEMMA SourceHasUrl == ASSUME NEW s \in Source PROVE s.url \in Urls
<1>1. PICK c \in Configs : s \in Range(Sources(c))
  BY DEF Source
<1>2. c \in FeedConfig
  BY FeedsAssumption
<1> DEFINE f == [i \in DOMAIN c.lists |-> [name |-> ListName(c.lists[i]), url |-> Known[c.lists[i]]]]
           g == [i \in DOMAIN c.urls |-> [name |-> Custom(i), url |-> c.urls[i]]]
           X == {f[i] : i \in DOMAIN c.lists} \cup {g[i] : i \in DOMAIN c.urls}
<1>3. \A i \in DOMAIN c.lists : c.lists[i] \in DOMAIN Known
  BY <1>2 DEF FeedConfig
<1>4. \A i \in DOMAIN c.urls : c.urls[i] \in Urls
  BY <1>2 DEF FeedConfig
<1>5. \A x \in X : x.url \in Urls
  <2>1. ASSUME NEW i \in DOMAIN c.lists PROVE f[i].url \in Urls
    <3>1. Known[c.lists[i]] \in Urls
      BY <1>3, FeedsAssumption
    <3>2. f[i].url = Known[c.lists[i]]
      OBVIOUS
    <3> QED
      BY <3>1, <3>2
  <2>2. ASSUME NEW i \in DOMAIN c.urls PROVE g[i].url \in Urls
    <3>1. g[i].url = c.urls[i]
      OBVIOUS
    <3> QED
      BY <3>1, <1>4
  <2> HIDE DEF f, g
  <2> QED
    BY <2>1, <2>2
<1>6. PICK m \in Nat : DOMAIN c.lists = 1 .. m
  BY <1>2 DEF FeedConfig
<1>7. PICK n \in Nat : DOMAIN c.urls = 1 .. n
  BY <1>2 DEF FeedConfig
<1>8. f \in Seq(X)
  <2>1. f \in [1 .. m -> X]
    BY <1>6
  <2> QED
    BY <2>1
<1>9. g \in Seq(X)
  <2>1. g \in [1 .. n -> X]
    BY <1>7
  <2> QED
    BY <2>1
<1>10. Sources(c) = f \o g
  BY DEF Sources
<1> HIDE DEF f, g, X
<1>11. Sources(c) \in Seq(X)
  BY <1>8, <1>9, <1>10
<1> QED
  BY <1>1, <1>5, <1>11 DEF Range

(* The source a worker is at has a name and a url. *)
LEMMA AtIsSource ==
  ASSUME TypeOK, NEW w \in Workers, worker[w].left # <<>>
  PROVE  /\ At(w) \in Source /\ At(w).name \in Names
         /\ published[At(w).url] \subseteq Nets
         /\ Tail(worker[w].left) \in Seq(Source)
<1>1. worker[w].left \in Seq(Source)
  BY DEF TypeOK, Worker
<1>2. At(w) \in Source
  BY <1>1 DEF At
<1>3. published[At(w).url] \in Lists
  BY <1>2, SourceHasUrl DEF TypeOK
<1> QED
  BY <1>1, <1>2, <1>3, SourceHasName, FeedsAssumption

LEMMA MovedIsWorkers ==
  ASSUME TypeOK, NEW w \in Workers, worker[w].left # <<>>, NEW to \in {Removed, Renamed},
         worker' = Moved(w, to)
  PROVE  /\ worker' \in [Workers -> Worker]
         /\ worker'[w].st = "pick"
         /\ \A v \in Workers : worker'[v].st \in {worker[v].st, "pick"}
         /\ \A v \in Workers \ {w} : worker'[v].st = worker[v].st /\ worker'[v].left = worker[v].left
<1>1. Tail(worker[w].left) \in Seq(Source)
  BY AtIsSource
<1>2. \A x \in DOMAIN to : to[x] \in {"part", "cache", "gone"}
  BY DEF Removed, Renamed
<1>3. [worker[w] EXCEPT !.st = "pick", !.left = Tail(@), !.where = "gone"] \in Worker
  BY <1>1 DEF TypeOK, Worker
<1>4. \A v \in Workers : worker[v].where \in DOMAIN to
        => [worker[v] EXCEPT !.where = to[worker[v].where]] \in Worker
  BY <1>2 DEF TypeOK, Worker
<1>5. \A v \in Workers : worker'[v] \in Worker
  BY <1>3, <1>4 DEF Moved, TypeOK
<1>6. \A v \in Workers \ {w} : worker'[v].st = worker[v].st /\ worker'[v].left = worker[v].left
  BY DEF Moved, TypeOK, Worker
<1>7. worker'[w].st = "pick"
  BY DEF Moved, TypeOK, Worker
<1>8. worker' = [v \in Workers |-> worker'[v]]
  BY DEF Moved
<1>9. worker' \in [Workers -> Worker]
  BY <1>5, <1>8
<1> QED
  BY <1>6, <1>7, <1>9

LEMMA LoadedAreNets == ASSUME TypeOK, NEW c \in Configs PROVE Load(c) \subseteq Nets
<1>1. \A s \in Range(Sources(c)) : cache[s.name].nets \subseteq Nets
  BY SourceHasName DEF TypeOK, File, Source
<1> QED
  BY <1>1 DEF Load

LEMMA ApplyTypes ==
  ASSUME TypeOK, NEW c \in Configs, ApplyFeeds(c)
  PROVE  feed_nets' \subseteq Nets /\ trie' \subseteq Nets /\ overflowed' \in BOOLEAN
<1>1. PICK new \in SUBSET New(Load(c)) :
        /\ trie' = (trie \ Gone(Load(c))) \cup new
        /\ feed_nets' = Load(c)
        /\ overflowed' = (overflowed \/ new # New(Load(c)))
  BY DEF ApplyFeeds
<1>2. Load(c) \subseteq Nets
  BY LoadedAreNets
<1> HIDE DEF Load
<1>3. feed_nets' \subseteq Nets /\ trie' \subseteq Nets
  BY <1>1, <1>2 DEF TypeOK, Gone, New
<1>4. overflowed' \in BOOLEAN
  BY <1>1 DEF TypeOK
<1> QED
  BY <1>3, <1>4

LEMMA SpawnTypes ==
  ASSUME TypeOK, NEW w \in Workers, NEW c \in Configs, NEW force \in BOOLEAN, Spawn(w, c, force)
  PROVE  /\ worker' \in [Workers -> Worker] /\ overlapped' \in BOOLEAN
         /\ \A v \in Workers : worker'[v].st \in {"curl", "rename"} => worker'[v].left # <<>>
<1>1. Job(c, force) \in Worker
  BY SourcesAreSources DEF Job, Worker
<1>2. worker' = [worker EXCEPT ![w] = Job(c, force)]
  BY DEF Spawn
<1>3. Job(c, force).st = "pick"
  BY DEF Job
<1>4. worker' \in [Workers -> Worker]
  BY <1>1, <1>2 DEF TypeOK
<1>5. \A v \in Workers : worker'[v].st \in {"curl", "rename"} => worker'[v].left # <<>>
  BY <1>2, <1>3 DEF TypeOK
<1>6. overlapped' \in BOOLEAN
  BY DEF Spawn, TypeOK
<1> QED
  BY <1>4, <1>5, <1>6

LEMMA IdleIsWorker == Idle \in Worker /\ Idle.st = "idle"
<1>1. <<>> \in Seq(Source)
  OBVIOUS
<1> QED
  BY <1>1 DEF Idle, Worker

(* What a step of a refresh does to its worker. *)
LEMMA RefreshWorker ==
  ASSUME TypeOK, NEW w \in Workers, Refresh(w) \/ CurlFails(w)
  PROVE  /\ worker' \in [Workers -> Worker]
         /\ \A v \in Workers : worker'[v].st \in {"curl", "rename"} => worker'[v].left # <<>>
<1>1. CASE Ended(w)
  BY <1>1 DEF Ended, TypeOK, Worker
<1>2. CASE Skip(w)
  <2>1. Tail(worker[w].left) \in Seq(Source)
    BY <1>2, AtIsSource DEF Skip
  <2> QED
    BY <1>2, <2>1 DEF Skip, TypeOK, Worker
<1>3. CASE Download(w)
  <2>1. worker' = [worker EXCEPT ![w] = [@ EXCEPT !.st = "curl", !.where = "part"]]
    BY <1>3 DEF Download
  <2>2. worker[w].left # <<>>
    BY <1>3 DEF Download
  <2>3. [worker[w] EXCEPT !.st = "curl", !.where = "part"] \in Worker
    BY DEF TypeOK, Worker
  <2>4. [worker[w] EXCEPT !.st = "curl", !.where = "part"].left = worker[w].left
    BY DEF TypeOK, Worker
  <2> QED
    BY <2>1, <2>2, <2>3, <2>4 DEF TypeOK
<1>4. CASE CurlEnds(w)
  <2>1. worker' = [worker EXCEPT ![w].st = "rename"] /\ worker[w].st = "curl"
    BY <1>4 DEF CurlEnds
  <2> QED
    BY <2>1 DEF TypeOK, Worker
<1>5. CASE \/ worker[w].left # <<>> /\ worker' = Moved(w, Removed)
           \/ worker[w].left # <<>> /\ worker' = Moved(w, Renamed)
  <2>1. /\ worker' \in [Workers -> Worker]
        /\ worker'[w].st = "pick"
        /\ \A v \in Workers \ {w} : worker'[v].st = worker[v].st /\ worker'[v].left = worker[v].left
    BY <1>5, MovedIsWorkers
  <2> QED
    BY <2>1 DEF TypeOK
<1>6. CASE Rename(w) \/ RenameFails(w) \/ CurlFails(w)
  <2>1. worker[w].left # <<>>
    BY <1>6 DEF Rename, RenameFails, CurlFails, TypeOK
  <2>2. worker' = Moved(w, Removed) \/ worker' = Moved(w, Renamed)
    BY <1>6 DEF Rename, RenameFails, CurlFails
  <2> HIDE DEF Moved
  <2> QED
    BY <1>5, <2>1, <2>2
<1> QED
  BY <1>1, <1>2, <1>3, <1>4, <1>6 DEF Refresh

(* What it does to the files. *)
LEMMA RefreshDisk ==
  ASSUME TypeOK, NEW w \in Workers, Refresh(w) \/ CurlFails(w)
  PROVE  cache' \in [Names -> File] /\ part' \in [Names -> File] /\ fresh' \subseteq Names
<1>1. CASE Ended(w) \/ Skip(w) \/ RenameFails(w)
  BY <1>1 DEF Ended, Skip, RenameFails, disk, TypeOK
<1>2. NoFile \in File
  BY DEF NoFile, File
<1>3. CASE Download(w)
  <2>1. PICK some \in SUBSET published[At(w).url] :
          part' = [part EXCEPT ![At(w).name] = [nets |-> some, whole |-> FALSE, exists |-> TRUE]]
    BY <1>3 DEF Download
  <2>2. [nets |-> some, whole |-> FALSE, exists |-> TRUE] \in File
    BY <1>3, AtIsSource DEF Download, File
  <2>3. UNCHANGED <<cache, fresh>>
    BY <1>3 DEF Download
  <2> QED
    BY <2>1, <2>2, <2>3 DEF TypeOK
<1>4. CASE CurlEnds(w)
  <2>1. worker[w].left # <<>>
    BY <1>4 DEF CurlEnds, TypeOK
  <2>2. ASSUME NEW f \in Written(w) PROVE f \in File
    <3>1. published[At(w).url] \subseteq Nets
      BY <2>1, AtIsSource
    <3>2. \A some \in SUBSET published[At(w).url], b \in BOOLEAN :
            [nets |-> some, whole |-> b, exists |-> TRUE] \in File
      BY <3>1 DEF File
    <3> QED
      BY <3>2 DEF Written
  <2>3. PICK f \in Written(w) :
          \/ part' = [part EXCEPT ![At(w).name] = f] /\ UNCHANGED <<cache, fresh>>
          \/ /\ cache' = [cache EXCEPT ![At(w).name] = f]
             /\ fresh' = fresh \cup {At(w).name}
             /\ UNCHANGED part
          \/ UNCHANGED <<cache, part, fresh>>
    BY <1>4 DEF CurlEnds, disk
  <2>4. f \in File /\ At(w).name \in Names
    BY <2>1, <2>2, <2>3, AtIsSource
  <2> QED
    BY <2>3, <2>4 DEF TypeOK
<1>5. CASE Rename(w)
  <2>1. At(w).name \in Names
    BY <1>5, AtIsSource DEF Rename, TypeOK
  <2> QED
    BY <1>2, <1>5, <2>1 DEF Rename, TypeOK
<1>6. CASE CurlFails(w)
  BY <1>2, <1>6 DEF CurlFails, TypeOK
<1> QED
  BY <1>1, <1>3, <1>4, <1>5, <1>6 DEF Refresh

LEMMA NextKeepsType ==
  ASSUME TypeOK, [Next]_vars
  PROVE  TypeOK'
<1>1. CASE Start
  <2>1. feed_nets' \subseteq Nets /\ trie' \subseteq Nets /\ overflowed' \in BOOLEAN
    BY <1>1, ApplyTypes DEF Start, TypeOK
  <2>2. /\ worker' \in [Workers -> Worker] /\ overlapped' \in BOOLEAN
        /\ \A v \in Workers : worker'[v].st \in {"curl", "rename"} => worker'[v].left # <<>>
    BY <1>1, SpawnTypes DEF Start, Workers, TypeOK
  <2> QED
    BY <1>1, <2>1, <2>2 DEF Start, TypeOK, world, disk
<1>2. CASE Reload
  <2>1. feed_nets' \subseteq Nets /\ trie' \subseteq Nets /\ overflowed' \in BOOLEAN
    BY <1>2, ApplyTypes DEF Reload, TypeOK
  <2>2. CASE Spawn("daemon", file, FALSE)
    <3>1. /\ worker' \in [Workers -> Worker] /\ overlapped' \in BOOLEAN
          /\ \A v \in Workers : worker'[v].st \in {"curl", "rename"} => worker'[v].left # <<>>
      BY <2>2, SpawnTypes DEF Workers, TypeOK
    <3> QED
      BY <1>2, <2>1, <3>1 DEF Reload, TypeOK, world, disk
  <2>3. CASE UNCHANGED <<worker, overlapped>>
    BY <1>2, <2>1, <2>3 DEF Reload, TypeOK, world, disk
  <2> QED
    BY <1>2, <2>2, <2>3 DEF Reload
<1>3. CASE CheckFeeds
  <2>1. /\ worker' \in [Workers -> Worker] /\ overlapped' \in BOOLEAN
        /\ \A v \in Workers : worker'[v].st \in {"curl", "rename"} => worker'[v].left # <<>>
    BY <1>3, SpawnTypes DEF CheckFeeds, Workers, TypeOK
  <2> QED
    BY <1>3, <2>1 DEF CheckFeeds, TypeOK, world, disk, daemon
<1>4. CASE TakeResults
  <2>1. feed_nets' \subseteq Nets /\ trie' \subseteq Nets /\ overflowed' \in BOOLEAN
    BY <1>4, ApplyTypes DEF TakeResults, TypeOK
  <2> QED
    BY <1>4, <2>1, IdleIsWorker DEF TakeResults, TypeOK, world, disk, Workers
<1>5. CASE CliRefresh
  <2>1. /\ worker' \in [Workers -> Worker] /\ overlapped' \in BOOLEAN
        /\ \A v \in Workers : worker'[v].st \in {"curl", "rename"} => worker'[v].left # <<>>
    BY <1>5, SpawnTypes DEF CliRefresh, Workers, TypeOK
  <2> QED
    BY <1>5, <2>1 DEF CliRefresh, TypeOK, world, disk, daemon
<1>6. CASE CliReload
  BY <1>6, IdleIsWorker DEF CliReload, TypeOK, world, disk, Workers
<1>7. CASE NetworkMoves
  BY <1>7 DEF NetworkMoves, TypeOK, disk, daemon
<1>8. CASE Crash
  <2>1. /\ worker' \in [Workers -> Worker]
        /\ \A v \in Workers : worker'[v].st \in {"curl", "rename"} => worker'[v].left # <<>>
    BY <1>8, IdleIsWorker DEF Crash, TypeOK, Workers
  <2>2. ops' \in Nat
    BY <1>8 DEF Crash, TypeOK
  <2>3. /\ up' = FALSE /\ hup' = FALSE /\ overflowed' = FALSE /\ feed_nets' = {} /\ trie' = {}
        /\ UNCHANGED <<world, disk, cfg, overlapped>>
    BY <1>8 DEF Crash
  <2> QED
    BY <2>1, <2>2, <2>3 DEF TypeOK, world, disk
<1>9. ASSUME NEW w \in Workers, Refresh(w) \/ CurlFails(w) PROVE TypeOK'
  <2>1. /\ worker' \in [Workers -> Worker]
        /\ \A v \in Workers : worker'[v].st \in {"curl", "rename"} => worker'[v].left # <<>>
    BY <1>9, RefreshWorker
  <2>2. cache' \in [Names -> File] /\ part' \in [Names -> File] /\ fresh' \subseteq Names
    BY <1>9, RefreshDisk
  <2>3. UNCHANGED <<world, daemon, overlapped>> /\ ops' \in Nat
    BY <1>9 DEF Refresh, Ended, Skip, Download, CurlEnds, Rename, RenameFails, CurlFails, TypeOK
  <2> QED
    BY <2>1, <2>2, <2>3 DEF TypeOK, world, daemon
<1>10. ASSUME NEW c \in Configs, Edit(c) PROVE TypeOK'
  BY <1>10 DEF Edit, TypeOK, disk, daemon
<1>11. ASSUME NEW u \in Urls, Publish(u) PROVE TypeOK'
  BY <1>11 DEF Publish, TypeOK, disk, daemon
<1>12. ASSUME NEW n \in Names, Age(n) PROVE TypeOK'
  BY <1>12 DEF Age, TypeOK, world, daemon
<1>13. CASE UNCHANGED vars
  BY <1>13 DEF vars, TypeOK, world, disk, daemon
<1> QED
  BY <1>1, <1>2, <1>3, <1>4, <1>5, <1>6, <1>7, <1>8, <1>9, <1>10, <1>11, <1>12, <1>13
  DEF Next, Loop

(* Every file, worker and list is what its type says; in particular a       *)
(* refresh that is downloading or renaming has a source it is at, so `At`   *)
(* is never taken of an exhausted list (feeds.rs refresh).                  *)
THEOREM TypeCorrect == Spec => []TypeOK
<1>1. Init => TypeOK
  <2>1. NoFile \in File
    BY DEF NoFile, File
  <2>2. SUFFICES ASSUME Init PROVE TypeOK
    OBVIOUS
  <2>3. cache \in [Names -> File] /\ part \in [Names -> File] /\ fresh \subseteq Names
    BY <2>1, <2>2 DEF Init
  <2>4. worker \in [Workers -> Worker]
    BY <2>2, IdleIsWorker DEF Init
  <2>5. \A w \in Workers : worker[w].st \notin {"curl", "rename"}
    BY <2>2, IdleIsWorker DEF Init
  <2>6. file \in Configs /\ cfg \in Configs /\ published \in [Urls -> Lists]
    BY <2>2 DEF Init
  <2>7. /\ protected \subseteq Nets /\ feed_nets \subseteq Nets /\ trie \subseteq Nets
        /\ up \in BOOLEAN /\ hup \in BOOLEAN /\ overflowed \in BOOLEAN /\ overlapped \in BOOLEAN
        /\ ops \in Nat
    BY <2>2 DEF Init
  <2> QED
    BY <2>3, <2>4, <2>5, <2>6, <2>7 DEF TypeOK
<1> QED
  BY <1>1, NextKeepsType, PTL DEF Spec

-----------------------------------------------------------------------------
(* As long as no two refreshes have overlapped, one worker at most is busy, *)
(* its curl has <name>.part open, and what it is about to rename is whole.  *)
Undisturbed ==
  ~overlapped =>
    /\ \A v, w \in Workers : Busy(v) /\ Busy(w) => v = w
    /\ \A w \in Workers : worker[w].st = "curl" => worker[w].where = "part"
    /\ \A w \in Workers : worker[w].st = "rename" /\ part[At(w).name].exists
                            => part[At(w).name].whole
    /\ \A n \in Names : cache[n].exists => cache[n].whole

(* A step that changes no file and leaves every worker as it is, or not busy. *)
LEMMA QuietStep ==
  ASSUME TypeOK, Undisturbed, UNCHANGED <<cache, part, overlapped>>,
         \A v \in Workers : worker'[v] = worker[v] \/ worker'[v].st \in {"idle", "done"}
  PROVE  Undisturbed'
<1>1. SUFFICES ASSUME ~overlapped' PROVE Undisturbed'
  BY DEF Undisturbed
<1>2. \A v \in Workers : Busy(v)' => worker'[v] = worker[v] /\ Busy(v)
  BY DEF Busy
<1>3. \A v \in Workers : worker'[v].st \in {"curl", "rename"} => worker'[v] = worker[v] /\ At(v)' = At(v)
  BY DEF At
<1> QED
  BY <1>1, <1>2, <1>3 DEF Undisturbed

(* A refresh starts. *)
LEMMA SpawnStep ==
  ASSUME TypeOK, Undisturbed, NEW w \in Workers, NEW c \in Configs, NEW force \in BOOLEAN,
         Spawn(w, c, force), UNCHANGED <<cache, part>>
  PROVE  Undisturbed'
<1>1. SUFFICES ASSUME ~overlapped' PROVE Undisturbed'
  BY DEF Undisturbed
<1>2. ~overlapped /\ \A v \in Workers \ {w} : ~Busy(v)
  BY <1>1 DEF Spawn, TypeOK
<1>3. worker'[w].st = "pick" /\ \A v \in Workers \ {w} : worker'[v] = worker[v]
  BY DEF Spawn, Job, TypeOK
<1>4. \A v \in Workers \ {w} : ~Busy(v)'
  BY <1>2, <1>3 DEF Busy
<1>5. \A v \in Workers : worker'[v].st \notin {"curl", "rename"}
  BY <1>3, <1>4 DEF Busy
<1> QED
  BY <1>2, <1>4, <1>5 DEF Undisturbed

(* A refresh that has the files to itself takes a step. *)
LEMMA RefreshStep ==
  ASSUME TypeOK, Undisturbed, NEW w \in Workers, Refresh(w) \/ CurlFails(w)
  PROVE  Undisturbed'
<1>1. SUFFICES ASSUME ~overlapped' PROVE Undisturbed'
  BY DEF Undisturbed
<1>2. ~overlapped /\ Busy(w)
  BY <1>1 DEF Refresh, Ended, Skip, Download, CurlEnds, Rename, RenameFails, CurlFails, Busy
<1>3. \A v \in Workers \ {w} : ~Busy(v)
  BY <1>2 DEF Undisturbed
<1>4. \A v \in Workers \ {w} : worker'[v].st = worker[v].st
  <2>1. CASE Rename(w) \/ RenameFails(w) \/ CurlFails(w)
    <3>1. worker[w].left # <<>>
      BY <2>1 DEF Rename, RenameFails, CurlFails, TypeOK
    <3>2. worker' = Moved(w, Removed) \/ worker' = Moved(w, Renamed)
      BY <2>1 DEF Rename, RenameFails, CurlFails
    <3> HIDE DEF Moved
    <3> QED
      BY <3>1, <3>2, MovedIsWorkers
  <2>2. CASE Ended(w) \/ Skip(w) \/ Download(w) \/ CurlEnds(w)
    BY <2>2 DEF Ended, Skip, Download, CurlEnds, TypeOK
  <2> QED
    BY <2>1, <2>2 DEF Refresh
<1>5. \A v \in Workers \ {w} : ~Busy(v)' /\ worker'[v].st \notin {"curl", "rename"}
  BY <1>3, <1>4 DEF Busy
<1>6. \A u, v \in Workers : Busy(u)' /\ Busy(v)' => u = v
  BY <1>5
<1>7. /\ worker'[w].st = "curl" => worker'[w].where = "part"
      /\ worker'[w].st = "rename" /\ part'[At(w)'.name].exists => part'[At(w)'.name].whole
      /\ \A n \in Names : cache'[n].exists => cache'[n].whole
  <2>1. CASE Ended(w) \/ Skip(w)
    <3>1. UNCHANGED disk /\ worker'[w].st \in {"pick", "done"}
      BY <2>1 DEF Ended, Skip, TypeOK, Worker
    <3> QED
      BY <1>2, <3>1 DEF Undisturbed, disk
  <2>2. CASE Download(w)
    <3>1. worker'[w].st = "curl" /\ worker'[w].where = "part"
      <4>1. worker' = [worker EXCEPT ![w] = [@ EXCEPT !.st = "curl", !.where = "part"]]
        BY <2>2 DEF Download
      <4>2. worker'[w] = [worker[w] EXCEPT !.st = "curl", !.where = "part"]
        BY <4>1 DEF TypeOK
      <4> QED
        BY <4>2 DEF TypeOK, Worker
    <3> QED
      BY <1>2, <2>2, <3>1 DEF Undisturbed, Download
  <2>3. CASE CurlEnds(w)
    <3>1. worker[w].where = "part" /\ worker[w].left # <<>> /\ worker[w].st = "curl"
      BY <1>2, <2>3 DEF CurlEnds, Undisturbed, TypeOK
    <3>2. Sharing(w) = {}
      BY <1>3 DEF Sharing, Busy
    <3>3. \A f \in Written(w) : f.whole
      BY <3>2 DEF Written
    <3>4. PICK f \in Written(w) : part' = [part EXCEPT ![At(w).name] = f] /\ UNCHANGED <<cache, fresh>>
      BY <2>3, <3>1 DEF CurlEnds
    <3>5. worker' = [worker EXCEPT ![w].st = "rename"]
      BY <2>3 DEF CurlEnds
    <3>6. worker'[w].st = "rename" /\ worker'[w].left = worker[w].left
      BY <3>5 DEF TypeOK, Worker
    <3>7. At(w)' = At(w) /\ At(w).name \in Names
      BY <3>1, <3>6, AtIsSource DEF At
    <3>8. part'[At(w).name] = f
      BY <3>4, <3>7 DEF TypeOK
    <3> HIDE DEF Written
    <3> QED
      BY <1>2, <3>3, <3>4, <3>6, <3>7, <3>8 DEF Undisturbed
  <2>4. CASE Rename(w)
    <3>1. worker[w].left # <<>>
      BY <2>4 DEF Rename, TypeOK
    <3>2. worker'[w].st = "pick"
      BY <2>4, <3>1, MovedIsWorkers DEF Rename
    <3>3. part[At(w).name].whole
      BY <1>2, <2>4 DEF Undisturbed, Rename
    <3>4. cache' = [cache EXCEPT ![At(w).name] = part[At(w).name]]
      BY <2>4 DEF Rename
    <3>5. \A n \in Names : cache'[n].exists => cache'[n].whole
      BY <1>2, <3>3, <3>4 DEF Undisturbed, TypeOK
    <3> QED
      BY <3>2, <3>5
  <2>5. CASE RenameFails(w) \/ CurlFails(w)
    <3>1. worker[w].left # <<>>
      BY <2>5 DEF RenameFails, CurlFails, TypeOK
    <3>2. worker'[w].st = "pick" /\ UNCHANGED cache
      BY <2>5, <3>1, MovedIsWorkers DEF RenameFails, CurlFails, disk
    <3> QED
      BY <1>2, <3>2 DEF Undisturbed
  <2> QED
    BY <2>1, <2>2, <2>3, <2>4, <2>5 DEF Refresh
<1>8. /\ \A v \in Workers : worker'[v].st = "curl" => worker'[v].where = "part"
      /\ \A v \in Workers : worker'[v].st = "rename" /\ part'[At(v)'.name].exists
                              => part'[At(v)'.name].whole
  BY <1>5, <1>7
<1> QED
  BY <1>6, <1>7, <1>8 DEF Undisturbed

LEMMA NextKeepsUndisturbed ==
  ASSUME TypeOK, Undisturbed, [Next]_vars
  PROVE  Undisturbed'
<1>1. CASE Start \/ CheckFeeds \/ CliRefresh
  <2>1. \E w \in Workers, c \in Configs, force \in BOOLEAN : Spawn(w, c, force)
    BY <1>1 DEF Start, CheckFeeds, CliRefresh, Workers, TypeOK
  <2>2. UNCHANGED <<cache, part>>
    BY <1>1 DEF Start, CheckFeeds, CliRefresh, disk
  <2> QED
    BY <2>1, <2>2, SpawnStep
<1>2. CASE Reload
  <2>1. UNCHANGED <<cache, part>>
    BY <1>2 DEF Reload, disk
  <2>2. \/ Spawn("daemon", file, FALSE)
        \/ UNCHANGED <<worker, overlapped>>
    BY <1>2 DEF Reload
  <2>3. file \in Configs /\ "daemon" \in Workers /\ FALSE \in BOOLEAN
    BY DEF TypeOK, Workers
  <2> QED
    BY <2>1, <2>2, <2>3, SpawnStep, QuietStep
<1>3. CASE TakeResults \/ CliReload \/ Crash
  <2>1. \A v \in Workers : worker'[v] = worker[v] \/ worker'[v].st \in {"idle", "done"}
    BY <1>3, IdleIsWorker DEF TakeResults, CliReload, Crash, TypeOK
  <2>2. UNCHANGED <<cache, part, overlapped>>
    BY <1>3 DEF TakeResults, CliReload, Crash, disk
  <2> QED
    BY <2>1, <2>2, QuietStep
<1>4. CASE UNCHANGED <<cache, part, overlapped, worker>>
  BY <1>4, QuietStep
<1>5. NetworkMoves \/ UNCHANGED vars => UNCHANGED <<cache, part, overlapped, worker>>
  BY DEF NetworkMoves, vars, disk
<1>6. /\ \A c \in Configs : Edit(c) => UNCHANGED <<cache, part, overlapped, worker>>
      /\ \A u \in Urls : Publish(u) => UNCHANGED <<cache, part, overlapped, worker>>
      /\ \A n \in Names : Age(n) => UNCHANGED <<cache, part, overlapped, worker>>
  BY DEF Edit, Publish, Age, disk
<1>7. ASSUME NEW w \in Workers, Refresh(w) \/ CurlFails(w) PROVE Undisturbed'
  BY <1>7, RefreshStep
<1> QED
  BY <1>1, <1>2, <1>3, <1>4, <1>5, <1>6, <1>7 DEF Next, Loop

(* A cached list is complete whatever fails or dies half-way, as long as no *)
(* two refreshes overlap (feeds.rs refresh, download, "keeping the cached   *)
(* copy"): for any lists, any number of sources, crashes and failures.      *)
THEOREM CachesAreWhole == Spec => []CacheIsWhole
<1>1. Init => Undisturbed
  <2>1. SUFFICES ASSUME Init PROVE Undisturbed
    OBVIOUS
  <2>2. \A w \in Workers : worker[w].st = "idle"
    BY <2>1, IdleIsWorker DEF Init
  <2>3. \A n \in Names : ~cache[n].exists
    BY <2>1 DEF Init, NoFile
  <2> QED
    BY <2>2, <2>3 DEF Undisturbed, Busy
<1>2. Undisturbed => CacheIsWhole
  BY DEF Undisturbed, CacheIsWhole
<1> QED
  BY <1>1, <1>2, NextKeepsUndisturbed, TypeCorrect, PTL DEF Spec
=============================================================================
