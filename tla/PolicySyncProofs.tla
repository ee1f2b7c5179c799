-------------------------- MODULE PolicySyncProofs --------------------------
(***************************************************************************)
(* What the filter admits, for every set of configs, ports, networks and   *)
(* every capacity of the tries.                                            *)
(*                                                                         *)
(* The argument: outside the list that is being written, the daemon's copy *)
(* says what the kernel holds; inside it, the kernel holds at least what   *)
(* the old and the new list share and at most what one of them has.  A     *)
(* trie that overflowed breaks exactly this, so the ghost `overflowed`     *)
(* stands in front of everything.                                          *)
(***************************************************************************)
EXTENDS PolicySync, WellFoundedInduction, TLAPS

Fields == {"enforce", "ping", "rate"} \cup ListNames

\* The lists a call of apply_config has finished with at each stage
Before == [settings |-> {}, tcp |-> {}, udp |-> {"tcp"}, from_tcp |-> {"tcp", "udp"},
           from_udp |-> {"tcp", "udp", "from_tcp"}, rate |-> ListNames, bans |-> ListNames]

\* The lists of the config in use
InUse == Compile(PolicyOf(cfg, profile))

Shaped ==
  /\ kernel = [f \in Fields |-> kernel[f]]
  /\ copy = [m \in ListNames |-> copy[m]]
  /\ pc \in {"down", "remember", "prepare", "apply", "wait", "heal", "profile"}
  /\ pc = "apply" =>
       /\ job = [why |-> job.why, cfg |-> job.cfg, profile |-> job.profile, stage |-> job.stage]
       /\ job.why \in {"start", "reload", "switch"}
       /\ job.stage \in Stages

\* A process attaches only after its first apply_config
StartsUnattached ==
  pc \in {"down", "remember", "prepare"} \/ (pc = "apply" /\ job.why = "start") =>
    attached # "own"

CopyIsKernel == \A m \in ListNames : At(m) \/ kernel[m] = copy[m]

WrittenBetween ==
  \A m \in ListNames : At(m) =>
    kernel[m] \subseteq copy[m] \cup Wanted[m] /\ copy[m] \cap Wanted[m] \subseteq kernel[m]

\* During a call: finished lists are the new ones, the others still the old ones
Progress ==
  pc = "apply" =>
    /\ \A m \in Before[job.stage] : copy[m] = Wanted[m]
    /\ job.why # "start" /\ ~torn =>
         \A m \in ListNames \ Before[job.stage] : copy[m] = InUse[m]

SettingsNew ==
  kernel.enforce = job.cfg.enforce /\ kernel.ping = PolicyOf(job.cfg, job.profile).ping

SettingsInUse == kernel.enforce = cfg.enforce /\ kernel.ping = PolicyOf(cfg, profile).ping

Resting == pc \in {"wait", "heal", "profile"} /\ ~torn

SettingsProgress ==
  /\ pc = "apply" /\ job.stage # "settings" => SettingsNew
  /\ Resting => SettingsInUse
  /\ pc = "apply" /\ job.stage = "settings" /\ job.why # "start" /\ ~torn => SettingsInUse

AtRest == Resting => \A m \in ListNames : copy[m] = InUse[m]

Synced == CopyIsKernel /\ WrittenBetween /\ Progress /\ AtRest

IInv == Shaped /\ StartsUnattached /\ SettingsProgress /\ (~overflowed => Synced)

-----------------------------------------------------------------------------
(* From lists to what is asked for *)

(* The filter's reading of a compiled config is what the config asks for.    *)
LEMMA CompiledAsAsked ==
  ASSUME NEW c, NEW n, NEW proto \in Protos, NEW a, NEW q
  PROVE  Asked(c, n, proto, a, q) <=>
           \/ ~c.enforce
           \/ q \in Compile(PolicyOf(c, n))[proto]
           \/ \E key \in Compile(PolicyOf(c, n))[TrieOf[proto]] : key[1] = q /\ a \in key[2]
<1> DEFINE p == PolicyOf(c, n)
           Named == \E r \in p.rules : r.proto = proto /\ q \in r.ports /\ a \in r.from
           Opened == \E r \in p.rules : r.proto = proto /\ q \in r.ports /\ r.from = Anyone
<1>1. q \in OpenBy(p.rules, proto) <=> Opened
  BY DEF OpenBy, OpenToAll
<1>2. (\E key \in KeysOf(p.rules, proto) : key[1] = q /\ a \in key[2]) <=> Named
  <2>1. ASSUME NEW key \in KeysOf(p.rules, proto), key[1] = q, a \in key[2]
        PROVE  Named
    <3>1. PICK r \in p.rules : r.proto = proto /\ key \in r.ports \X {r.from}
      BY <2>1 DEF KeysOf
    <3> QED
      BY <3>1, <2>1
  <2>2. ASSUME NEW r \in p.rules, r.proto = proto, q \in r.ports, a \in r.from
        PROVE  \E key \in KeysOf(p.rules, proto) : key[1] = q /\ a \in key[2]
    <3>1. r.from # Anyone
      BY <2>2 DEF Anyone
    <3>2. <<q, r.from>> \in KeysOf(p.rules, proto)
      BY <2>2, <3>1 DEF KeysOf
    <3> QED
      BY <3>2, <2>2
  <2> QED
    BY <2>1, <2>2
<1>3. Asked(c, n, proto, a, q) <=>
        \/ ~c.enforce \/ q \in p[proto] \/ Opened \/ Named
        \/ proto = "udp" /\ q \in DHCP_CLIENT_PORTS
  BY DEF Asked
<1> HIDE DEF p, Named, Opened
<1>4. CASE proto = "tcp"
  <2>1. Compile(p)["tcp"] = p["tcp"] \cup OpenBy(p.rules, "tcp") /\ Compile(p)["from_tcp"] = KeysOf(p.rules, "tcp")
    BY DEF Compile
  <2> QED
    BY <2>1, <1>1, <1>2, <1>3, <1>4 DEF TrieOf, p
<1>5. CASE proto = "udp"
  <2>1. /\ Compile(p)["udp"] = p["udp"] \cup OpenBy(p.rules, "udp") \cup DHCP_CLIENT_PORTS
        /\ Compile(p)["from_udp"] = KeysOf(p.rules, "udp")
    BY DEF Compile
  <2> QED
    BY <2>1, <1>1, <1>2, <1>3, <1>5 DEF TrieOf, p
<1> QED
  BY <1>4, <1>5 DEF Protos

(* The order of the stages. *)
LEMMA StageOrder ==
  /\ After["settings"] = "tcp" /\ Before["tcp"] = {} /\ Before["settings"] = {}
  /\ After["rate"] = "bans" /\ Before["rate"] = ListNames /\ Before["bans"] = ListNames
  /\ \A m \in ListNames :
       /\ After[m] \in Stages /\ After[m] # m /\ After[m] # "settings"
       /\ Before[After[m]] = Before[m] \cup {m} /\ m \notin Before[m]
       /\ Before[m] \subseteq ListNames
BY DEF After, Before, Stages, ListNames

-----------------------------------------------------------------------------
(* The steps *)

\* What the invariant reads of the state
relevant == <<pc, cfg, profile, job, kernel, copy, attached, torn, overflowed>>

LEMMA InitHolds == Init => IInv
<1> SUFFICES ASSUME Init PROVE IInv
  OBVIOUS
<1>1. Shaped
  BY DEF Init, Shaped, NoMaps, NoCopy, Fields, ListNames
<1>2. StartsUnattached /\ SettingsProgress /\ WrittenBetween /\ Progress /\ AtRest
  BY DEF Init, StartsUnattached, SettingsProgress, Resting, WrittenBetween, Progress, AtRest, At
<1>3. CopyIsKernel
  BY DEF Init, CopyIsKernel, NoMaps, NoCopy, ListNames
<1> QED
  BY <1>1, <1>2, <1>3 DEF IInv, Synced

(* Steps that touch nothing the invariant reads. *)
LEMMA Elsewhere == ASSUME IInv, UNCHANGED relevant PROVE IInv'
BY DEF IInv, relevant, Synced, Shaped, StartsUnattached, Resting, SettingsInUse, SettingsNew,
       SettingsProgress, CopyIsKernel, WrittenBetween, Progress, AtRest, At, Wanted, InUse

(* A process ends: the next one starts from empty maps. *)
LEMMA EndedHolds ==
  ASSUME ProcessEnds, attached' # "own"
  PROVE  IInv'
<1>1. Shaped'
  BY DEF ProcessEnds, Shaped, NoMaps, NoCopy, Fields, ListNames
<1>2. (StartsUnattached /\ SettingsProgress /\ WrittenBetween /\ Progress /\ AtRest)'
  BY DEF ProcessEnds, StartsUnattached, SettingsProgress, Resting, WrittenBetween, Progress, AtRest, At
<1>3. CopyIsKernel'
  BY DEF ProcessEnds, CopyIsKernel, NoMaps, NoCopy, ListNames
<1> QED
  BY <1>1, <1>2, <1>3 DEF IInv, Synced

(* A call of apply_config begins, at start or from the rest. *)
LEMMA BeginHolds ==
  ASSUME IInv, NEW why, NEW c, Begin(why, c),
         UNCHANGED <<cfg, profile, kernel, copy, attached, torn, overflowed>>,
         \/ why = "start" /\ pc = "prepare"
         \/ why \in {"reload", "switch"} /\ pc \in {"wait", "heal", "profile"}
  PROVE  IInv'
<1>1. Shaped'
  BY DEF IInv, Shaped, Begin, Stages
<1>2. StartsUnattached'
  BY DEF IInv, StartsUnattached, Begin
<1>3. SettingsProgress'
  BY DEF IInv, SettingsProgress, Resting, SettingsInUse, SettingsNew, Begin
<1>4. ASSUME ~overflowed PROVE Synced'
  <2>1. Synced
    BY <1>4 DEF IInv
  <2>2. \A m \in ListNames : ~At(m)'
    BY DEF Begin, At, ListNames
  <2>3. CopyIsKernel' /\ WrittenBetween'
    BY <2>1, <2>2 DEF Synced, CopyIsKernel, WrittenBetween, At, Begin
  <2>4. Progress'
    BY <2>1, StageOrder DEF Synced, Progress, AtRest, Resting, Begin, InUse
  <2>5. AtRest'
    BY DEF AtRest, Resting, Begin
  <2> QED
    BY <2>3, <2>4, <2>5 DEF Synced
<1> QED
  BY <1>1, <1>2, <1>3, <1>4 DEF IInv

LEMMA SettingsHold == ASSUME IInv, ApplySettings PROVE IInv'
<1> USE DEF ApplySettings, memory, link
<1>1. Shaped /\ At("settings") /\ job' = [job EXCEPT !.stage = "tcp"]
  BY StageOrder DEF IInv, NextStage, At
<1>2. /\ job'.why = job.why /\ job'.cfg = job.cfg /\ job'.profile = job.profile /\ job'.stage = "tcp"
      /\ job' = [why |-> job'.why, cfg |-> job'.cfg, profile |-> job'.profile, stage |-> job'.stage]
  BY <1>1 DEF Shaped, At
<1>3. /\ kernel' = [f \in Fields |-> kernel'[f]]
      /\ SettingsNew'
      /\ \A m \in ListNames : kernel'[m] = kernel[m]
  BY <1>1, <1>2 DEF Shaped, Fields, ListNames, SettingsNew
<1>4. Shaped'
  BY <1>1, <1>2, <1>3 DEF Shaped, Stages, ListNames, At
<1>5. StartsUnattached' /\ SettingsProgress'
  BY <1>1, <1>2, <1>3 DEF IInv, StartsUnattached, SettingsProgress, Resting, At
<1>6. ASSUME ~overflowed PROVE Synced'
  <2>1. Synced
    BY <1>6 DEF IInv
  <2>2. /\ \A m \in ListNames : kernel[m] = copy[m]
        /\ Wanted' = Wanted /\ InUse' = InUse
    BY <1>1, <1>2, <2>1 DEF Synced, CopyIsKernel, At, ListNames, Wanted, InUse
  <2>3. CopyIsKernel' /\ WrittenBetween'
    BY <2>2, <1>3 DEF CopyIsKernel, WrittenBetween
  <2>4. Progress' /\ AtRest'
    BY <1>1, <1>2, <2>1, <2>2, StageOrder DEF Synced, Progress, AtRest, Resting, At
  <2> QED
    BY <2>3, <2>4 DEF Synced
<1> QED
  BY <1>4, <1>5, <1>6 DEF IInv

(* Writing one entry of the list m. *)
LEMMA WriteHolds ==
  ASSUME IInv, NEW m \in ListNames, At(m), NEW v,
         kernel' = [kernel EXCEPT ![m] = v],
         kernel[m] \subseteq copy[m] \cup Wanted[m] /\ copy[m] \cap Wanted[m] \subseteq kernel[m] =>
           v \subseteq copy[m] \cup Wanted[m] /\ copy[m] \cap Wanted[m] \subseteq v,
         UNCHANGED <<pc, cfg, profile, job, copy, attached, torn, overflowed>>
  PROVE  IInv'
<1>1. /\ kernel' = [f \in Fields |-> kernel'[f]]
      /\ kernel'[m] = v
      /\ \A l \in ListNames \ {m} : kernel'[l] = kernel[l]
      /\ kernel'.enforce = kernel.enforce /\ kernel'.ping = kernel.ping
  BY DEF IInv, Shaped, Fields, ListNames
<1>2. Shaped'
  BY <1>1 DEF IInv, Shaped
<1>3. StartsUnattached' /\ SettingsProgress'
  BY <1>1 DEF IInv, StartsUnattached, SettingsProgress, Resting, SettingsNew, SettingsInUse
<1>4. ASSUME ~overflowed PROVE Synced'
  <2>1. Synced
    BY <1>4 DEF IInv
  <2>2. Wanted' = Wanted /\ InUse' = InUse /\ \A l \in ListNames : At(l)' <=> At(l)
    BY DEF Wanted, InUse, At
  <2>3. CopyIsKernel' /\ WrittenBetween'
    BY <1>1, <2>1, <2>2 DEF Synced, CopyIsKernel, WrittenBetween, At
  <2>4. Progress' /\ AtRest'
    BY <2>1, <2>2 DEF Synced, Progress, AtRest, Resting
  <2> QED
    BY <2>3, <2>4 DEF Synced
<1> QED
  BY <1>2, <1>3, <1>4 DEF IInv

LEMMA RemoveHolds == ASSUME IInv, NEW m \in ListNames, SyncRemove(m) PROVE IInv'
<1>1. PICK x \in Gone(m) \cap kernel[m] : kernel' = [kernel EXCEPT ![m] = kernel[m] \ {x}]
  BY DEF SyncRemove, IInv, Shaped, Fields, ListNames
<1>2. x \notin Wanted[m]
  BY <1>1 DEF Gone
<1> QED
  BY <1>1, <1>2, WriteHolds DEF SyncRemove, memory, link

LEMMA InsertHolds == ASSUME IInv, NEW m \in ListNames, SyncInsert(m) PROVE IInv'
<1>1. PICK x \in New(m) \ kernel[m] : kernel' = [kernel EXCEPT ![m] = kernel[m] \cup {x}]
  BY DEF SyncInsert, IInv, Shaped, Fields, ListNames
<1>2. x \in Wanted[m]
  BY <1>1 DEF New
<1> QED
  BY <1>1, <1>2, WriteHolds DEF SyncInsert, memory, link

(* A list is done: the daemon's copy becomes the list it wanted. *)
LEMMA DoneHolds == ASSUME IInv, NEW m \in ListNames, SyncDone(m) PROVE IInv'
<1> USE DEF SyncDone, memory, link
<1>1. Shaped /\ At(m) /\ job' = [job EXCEPT !.stage = After[m]]
  BY DEF IInv, NextStage, At
<1>2. /\ job'.why = job.why /\ job'.cfg = job.cfg /\ job'.profile = job.profile
      /\ job'.stage = After[m]
      /\ job' = [why |-> job'.why, cfg |-> job'.cfg, profile |-> job'.profile, stage |-> job'.stage]
  BY <1>1 DEF Shaped, At
<1>3. /\ copy' = [l \in ListNames |-> copy'[l]]
      /\ copy'[m] = Wanted[m]
      /\ \A l \in ListNames \ {m} : copy'[l] = copy[l]
  BY <1>1 DEF Shaped
<1>4. Shaped'
  BY <1>1, <1>2, <1>3, StageOrder DEF Shaped, At
<1>5. StartsUnattached' /\ SettingsProgress'
  <2>1. job.stage # "settings" /\ job'.stage # "settings"
    BY <1>1, <1>2, StageOrder DEF At, ListNames
  <2> QED
    BY <1>1, <1>2, <2>1 DEF IInv, StartsUnattached, SettingsProgress, SettingsNew, SettingsInUse, Resting, At
<1>6. ASSUME ~overflowed PROVE Synced'
  <2>1. Synced /\ Wanted' = Wanted /\ InUse' = InUse
    BY <1>2, <1>6 DEF IInv, Wanted, InUse
  <2>2. kernel[m] = Wanted[m]
    BY <1>1, <2>1 DEF Synced, WrittenBetween, Removed, Gone, New
  <2>3. \A l \in ListNames : kernel'[l] = copy'[l]
    BY <1>1, <1>3, <2>1, <2>2 DEF Synced, CopyIsKernel, At
  <2>4. CopyIsKernel' /\ WrittenBetween'
    BY <2>3 DEF CopyIsKernel, WrittenBetween
  <2>5. Progress'
    <3>1. Before[job'.stage] = Before[job.stage] \cup {m} /\ Before[job.stage] \subseteq ListNames
      BY <1>1, <1>2, StageOrder DEF At
    <3> QED
      BY <1>1, <1>2, <1>3, <2>1, <3>1 DEF Synced, Progress
  <2>6. AtRest'
    BY <1>1 DEF AtRest, Resting, At
  <2> QED
    BY <2>4, <2>5, <2>6 DEF Synced
<1> QED
  BY <1>4, <1>5, <1>6 DEF IInv

LEMMA RatesHold == ASSUME IInv, ApplyRates PROVE IInv'
<1> USE DEF ApplyRates, memory, link
<1>1. Shaped /\ At("rate") /\ job' = [job EXCEPT !.stage = "bans"]
  BY StageOrder DEF IInv, NextStage, At
<1>2. /\ job'.why = job.why /\ job'.cfg = job.cfg /\ job'.profile = job.profile /\ job'.stage = "bans"
      /\ job' = [why |-> job'.why, cfg |-> job'.cfg, profile |-> job'.profile, stage |-> job'.stage]
  BY <1>1 DEF Shaped, At
<1>3. /\ kernel' = [f \in Fields |-> kernel'[f]]
      /\ kernel'.enforce = kernel.enforce /\ kernel'.ping = kernel.ping
      /\ \A m \in ListNames : kernel'[m] = kernel[m]
  BY <1>1 DEF Shaped, Fields, ListNames
<1>4. Shaped'
  BY <1>1, <1>2, <1>3 DEF Shaped, Stages, ListNames, At
<1>5. StartsUnattached' /\ SettingsProgress'
  BY <1>1, <1>2, <1>3 DEF IInv, StartsUnattached, SettingsProgress, SettingsNew, Resting, At
<1>6. ASSUME ~overflowed PROVE Synced'
  <2>1. Synced /\ Wanted' = Wanted /\ InUse' = InUse
    BY <1>2, <1>6 DEF IInv, Wanted, InUse
  <2>2. \A m \in ListNames : kernel'[m] = copy'[m]
    BY <1>1, <1>3, <2>1 DEF Synced, CopyIsKernel, At, ListNames
  <2>3. CopyIsKernel' /\ WrittenBetween'
    BY <2>2 DEF CopyIsKernel, WrittenBetween
  <2>4. Progress' /\ AtRest'
    BY <1>1, <1>2, <2>1, StageOrder DEF Synced, Progress, AtRest, Resting, At
  <2> QED
    BY <2>3, <2>4 DEF Synced
<1> QED
  BY <1>4, <1>5, <1>6 DEF IInv

(* A reload or a switch fails: the loop goes on with what has been written. *)
LEMMA RejectedHolds ==
  ASSUME IInv, pc = "apply", Rejected, job.why # "start",
         UNCHANGED <<kernel, copy, attached>>,
         overflowed' \/ (job.stage = "bans" /\ overflowed' = overflowed)
  PROVE  IInv'
<1>1. pc' \in {"heal", "wait"} /\ torn' = TRUE
  BY DEF Rejected
<1>2. Shaped' /\ StartsUnattached' /\ SettingsProgress'
  BY <1>1 DEF IInv, Shaped, StartsUnattached, SettingsProgress, Resting
<1>3. ASSUME ~overflowed' PROVE Synced'
  <2>1. CopyIsKernel'
    BY <1>1, <1>3 DEF IInv, Synced, CopyIsKernel, At, ListNames
  <2>2. WrittenBetween' /\ Progress' /\ AtRest'
    BY <1>1 DEF WrittenBetween, Progress, AtRest, Resting, At
  <2> QED
    BY <2>1, <2>2 DEF Synced
<1> QED
  BY <1>2, <1>3 DEF IInv

LEMMA FailsHold ==
  ASSUME IInv, BansFail \/ \E m \in ListNames : SyncFails(m)
  PROVE  IInv'
<1>1. pc = "apply" /\ Rejected /\ attached' = attached
  BY DEF BansFail, SyncFails, At, link
<1>2. CASE job.why = "start"
  <2>1. ProcessEnds /\ attached # "own"
    BY <1>1, <1>2 DEF Rejected, IInv, StartsUnattached
  <2> QED
    BY <1>1, <2>1, EndedHolds
<1>3. CASE job.why # "start"
  <2>1. /\ UNCHANGED <<kernel, copy>>
        /\ overflowed' = TRUE \/ (job.stage = "bans" /\ overflowed' = overflowed)
    BY <1>3 DEF BansFail, SyncFails, At, maps
  <2> QED
    BY <1>1, <1>3, <2>1, RejectedHolds
<1> QED
  BY <1>2, <1>3

(* A call succeeds: its config is in use. *)
LEMMA AppliedHolds == ASSUME IInv, Applied PROVE IInv'
<1> USE DEF Applied, maps, link
<1>1. pc = "apply" /\ job.stage = "bans" /\ pc' \in {"heal", "wait"}
  BY DEF At
<1>2. Shaped'
  BY <1>1 DEF IInv, Shaped
<1>3. StartsUnattached' /\ SettingsProgress'
  BY <1>1 DEF IInv, StartsUnattached, SettingsProgress, SettingsNew, SettingsInUse
<1>4. ASSUME ~overflowed PROVE Synced'
  <2>1. Synced /\ InUse' = Wanted
    BY <1>4 DEF IInv, InUse, Wanted
  <2>2. CopyIsKernel' /\ WrittenBetween' /\ Progress'
    BY <1>1, <2>1 DEF Synced, CopyIsKernel, WrittenBetween, Progress, At, ListNames
  <2>3. AtRest'
    BY <1>1, <2>1, StageOrder DEF Synced, Progress, AtRest
  <2> QED
    BY <2>2, <2>3 DEF Synced
<1> QED
  BY <1>2, <1>3, <1>4 DEF IInv

(* Before the first call of apply_config. *)
LEMMA StartingHolds ==
  ASSUME IInv, pc \in {"down", "remember"}, pc' \in {"remember", "prepare"},
         UNCHANGED <<kernel, copy, attached, overflowed>>
  PROVE  IInv'
<1>1. Shaped' /\ StartsUnattached' /\ SettingsProgress'
  BY DEF IInv, Shaped, StartsUnattached, SettingsProgress, Resting
<1>2. ASSUME ~overflowed PROVE Synced'
  BY <1>2 DEF IInv, Synced, CopyIsKernel, WrittenBetween, Progress, AtRest, Resting, At
<1> QED
  BY <1>1, <1>2 DEF IInv

(* Steps of the loop that call apply_config for nothing. *)
LEMMA LoopHolds ==
  ASSUME IInv, pc \in {"wait", "heal", "profile"}, pc' \in {"wait", "heal", "profile"},
         UNCHANGED <<cfg, profile, kernel, copy, torn, overflowed>>
  PROVE  IInv'
<1>1. Shaped' /\ StartsUnattached' /\ SettingsProgress'
  BY DEF IInv, Shaped, StartsUnattached, SettingsProgress, Resting, SettingsInUse
<1>2. ASSUME ~overflowed PROVE Synced'
  BY <1>2 DEF IInv, Synced, CopyIsKernel, WrittenBetween, Progress, AtRest, Resting, InUse, At
<1> QED
  BY <1>1, <1>2 DEF IInv

LEMMA LoadHolds == ASSUME IInv, Load PROVE IInv'
<1>1. CASE Begin("reload", Laid(file, posture))
  BY <1>1, BeginHolds DEF Load, maps, link
<1>2. CASE pc' = "heal"
  BY <1>2, LoopHolds DEF Load, maps
<1> QED
  BY <1>1, <1>2 DEF Load

LEMMA DaemonHolds == ASSUME IInv, Daemon PROVE IInv'
<1> USE DEF memory, maps, link
<1>1. CASE LoadAtStart
  BY <1>1, StartingHolds DEF LoadAtStart
<1>2. CASE Remember
  BY <1>2, StartingHolds DEF Remember
<1>3. CASE ApplyAtStart
  BY <1>3, BeginHolds DEF ApplyAtStart
<1>4. CASE ApplyConfig
  BY <1>4, SettingsHold, RatesHold, AppliedHolds, FailsHold, RemoveHolds, InsertHolds, DoneHolds
     DEF ApplyConfig
<1>5. CASE TimerTick
  BY <1>5, LoopHolds DEF TimerTick
<1>6. CASE Reload
  BY <1>6, LoadHolds DEF Reload
<1>7. CASE Heal
  BY <1>7, LoopHolds DEF Heal, HealPlace
<1>8. CASE SwitchProfile
  BY <1>8, BeginHolds DEF SwitchProfile
<1>9. CASE KeepProfile
  BY <1>9, LoopHolds DEF KeepProfile
<1> QED
  BY <1>1, <1>2, <1>3, <1>4, <1>5, <1>6, <1>7, <1>8, <1>9 DEF Daemon

LEMMA EnvironmentHolds == ASSUME IInv, Environment PROVE IInv'
<1> USE DEF memory, maps, link
<1>1. CASE EditConfig
  BY <1>1, Elsewhere DEF EditConfig, relevant
<1>2. CASE SetPosture
  BY <1>2, Elsewhere DEF SetPosture, relevant
<1>3. CASE Sighup
  BY <1>3, LoadHolds DEF Sighup
<1>4. CASE NetworkMoves
  BY <1>4, Elsewhere DEF NetworkMoves, relevant
<1>5. CASE Crash
  BY <1>5, EndedHolds DEF Crash
<1>6. CASE Reboot
  BY <1>6, EndedHolds DEF Reboot
<1> QED
  BY <1>1, <1>2, <1>3, <1>4, <1>5, <1>6 DEF Environment

(* The diffs keep the daemon's copy true, through every edit, switch and crash. *)
THEOREM Invariant == Spec => []IInv
<1>1. IInv /\ [Next]_vars => IInv'
  <2> SUFFICES ASSUME IInv, [Next]_vars PROVE IInv'
    OBVIOUS
  <2>1. CASE UNCHANGED vars
    BY <2>1, Elsewhere DEF vars, relevant, memory, maps, link
  <2> QED
    BY <2>1, DaemonHolds, EnvironmentHolds DEF Next
<1> QED
  BY <1>1, InitHolds, PTL DEF Spec

-----------------------------------------------------------------------------
(* What the filter admits *)

LEMMA AccessFollows == IInv => AccessInForce
<1> SUFFICES ASSUME IInv, attached = "own", pc # "apply", ~torn, ~overflowed
             PROVE  AccessIs(kernel, cfg, profile)
  BY DEF AccessInForce
<1>1. Synced /\ Resting /\ SettingsInUse
  BY DEF IInv, Shaped, StartsUnattached, SettingsProgress, Resting
<1>2. \A m \in ListNames : kernel[m] = InUse[m]
  BY <1>1 DEF Synced, CopyIsKernel, AtRest, At
<1>3. ASSUME NEW proto \in Protos, NEW a \in Addrs, NEW q \in Ports
      PROVE  Admits(kernel, proto, a, q) <=> Asked(cfg, profile, proto, a, q)
  <2>1. kernel[proto] = InUse[proto] /\ kernel[TrieOf[proto]] = InUse[TrieOf[proto]]
    BY <1>2 DEF Protos, TrieOf, ListNames
  <2> QED
    BY <2>1, <1>1, CompiledAsAsked DEF Admits, InUse, SettingsInUse
<1> QED
  BY <1>1, <1>3 DEF AccessIs, SettingsInUse

LEMMA OpeningFollows == IInv => NeverOpensMore
<1> SUFFICES ASSUME IInv, attached = "own", pc = "apply", ~torn, ~overflowed,
                    NEW proto \in Protos, NEW a \in Addrs, NEW q \in Ports,
                    Admits(kernel, proto, a, q)
             PROVE  \/ Asked(cfg, profile, proto, a, q)
                    \/ Asked(job.cfg, job.profile, proto, a, q)
  BY DEF NeverOpensMore
<1>1. Synced /\ job.why # "start"
  BY DEF IInv, StartsUnattached
<1>2. kernel.enforce \in {cfg.enforce, job.cfg.enforce}
  BY <1>1 DEF IInv, SettingsProgress, SettingsNew, SettingsInUse
<1>3. \A m \in ListNames : kernel[m] \subseteq InUse[m] \cup Wanted[m]
  <2>1. \A m \in ListNames : kernel[m] \subseteq copy[m] \cup Wanted[m]
    BY <1>1 DEF Synced, CopyIsKernel, WrittenBetween
  <2>2. \A m \in ListNames : copy[m] = Wanted[m] \/ copy[m] = InUse[m]
    BY <1>1 DEF Synced, Progress
  <2> QED
    BY <2>1, <2>2
<1>4. /\ kernel[proto] \subseteq InUse[proto] \cup Wanted[proto]
      /\ kernel[TrieOf[proto]] \subseteq InUse[TrieOf[proto]] \cup Wanted[TrieOf[proto]]
  BY <1>3 DEF Protos, TrieOf, ListNames
<1>5. CASE ~kernel.enforce
  BY <1>5, <1>2, CompiledAsAsked
<1>6. CASE q \in kernel[proto]
  BY <1>6, <1>4, CompiledAsAsked DEF InUse, Wanted
<1>7. CASE \E key \in kernel[TrieOf[proto]] : key[1] = q /\ a \in key[2]
  BY <1>7, <1>4, CompiledAsAsked DEF InUse, Wanted
<1> QED
  BY <1>5, <1>6, <1>7 DEF Admits

(* With nothing being applied, the filter admits exactly what the config asks for: *)
(* AccessInForce, for every set of configs and every size of the tries.            *)
THEOREM AccessAlwaysInForce == Spec => []AccessInForce
<1> QED
  BY Invariant, AccessFollows, PTL

(* In the middle of a reload or a profile switch, the filter admits nothing that   *)
(* neither the old config nor the new one admits: NeverOpensMore, at every write.  *)
THEOREM NeverOpensTooMuch == Spec => []NeverOpensMore
<1> QED
  BY Invariant, OpeningFollows, PTL

-----------------------------------------------------------------------------
(* Types of the configs and of what is compiled from them *)

(* A set of naturals has a least member, which Min picks. *)
LEMMA LeastIn ==
  ASSUME NEW S \in SUBSET Nat, S # {}
  PROVE  Min(S) \in S /\ \A y \in S : Min(S) <= y
<1>1. \E x \in S : \A y \in S : ~(<<y, x>> \in OpToRel(<, Nat))
  BY NatLessThanWellFounded, WFMin
<1>2. PICK x \in S : \A y \in S : ~(<<y, x>> \in OpToRel(<, Nat))
  BY <1>1
<1>3. ASSUME NEW y \in S PROVE x <= y
  <2>1. x \in Nat /\ y \in Nat /\ <<y, x>> \in Nat \X Nat
    OBVIOUS
  <2>2. y < x => <<y, x>> \in OpToRel(<, Nat)
    BY <2>1 DEF OpToRel
  <2>3. ~(y < x)
    BY <1>2, <2>2
  <2> QED
    BY <2>1, <2>3
<1> QED
  BY <1>3 DEF Min

LEMMA SettingIn ==
  ASSUME NEW S, NEW base \in S, NEW option, option \subseteq S
  PROVE  Setting(option, base) \in S
BY DEF Setting

LEMMA SettingWithin ==
  ASSUME NEW S, NEW base, base \subseteq S, NEW option, \A v \in option : v \subseteq S
  PROVE  Setting(option, base) \subseteq S
BY DEF Setting

LEMMA PolicyIsPolicy == ASSUME NEW c, IsConfig(c), NEW n PROVE PolicyOf(c, n) \in Policy
<1>1. CASE n \notin DOMAIN c.profiles
  BY <1>1 DEF PolicyOf, IsConfig
<1>2. CASE n \in DOMAIN c.profiles
  <2> DEFINE p == c.profiles[n]
  <2>1. p \in Profile /\ c.base \in Policy
    BY <1>2 DEF IsConfig
  <2>2. /\ c.base.tcp \in SUBSET Ports /\ c.base.udp \in SUBSET Ports
        /\ c.base.ping \in BOOLEAN /\ c.base.rules \in SUBSET Rule
        /\ p.tcp \in SUBSET SUBSET Ports /\ p.udp \in SUBSET SUBSET Ports
        /\ p.ping \in SUBSET BOOLEAN /\ p.rules \in SUBSET SUBSET Rule
    BY <2>1 DEF Policy, Profile
  <2>3. /\ Setting(p.tcp, c.base.tcp) \in SUBSET Ports
        /\ Setting(p.udp, c.base.udp) \in SUBSET Ports
        /\ Setting(p.ping, c.base.ping) \in BOOLEAN
        /\ Setting(p.rules, c.base.rules) \in SUBSET Rule
    <3>1. Setting(p.tcp, c.base.tcp) \in SUBSET Ports
      BY <2>2, SettingWithin
    <3>2. Setting(p.udp, c.base.udp) \in SUBSET Ports
      BY <2>2, SettingWithin
    <3>3. Setting(p.ping, c.base.ping) \in BOOLEAN
      BY <2>2, SettingIn
    <3>4. Setting(p.rules, c.base.rules) \in SUBSET Rule
      BY <2>2, SettingWithin
    <3> QED
      BY <3>1, <3>2, <3>3, <3>4
  <2>4. PolicyOf(c, n) = [tcp |-> Setting(p.tcp, c.base.tcp), udp |-> Setting(p.udp, c.base.udp),
                          ping |-> Setting(p.ping, c.base.ping),
                          rules |-> Setting(p.rules, c.base.rules)]
    BY <1>2 DEF PolicyOf
  <2> HIDE DEF p
  <2> QED
    BY <2>3, <2>4 DEF Policy
<1> QED
  BY <1>1, <1>2

(* A posture makes a config of a config. *)
LEMMA LaidIsConfig == ASSUME NEW c, IsConfig(c), NEW p PROVE IsConfig(Laid(c, p))
<1>1. CASE p = "lockdown"
  <2> DEFINE P == [n \in DOMAIN c.profiles |->
                     [networks |-> c.profiles[n].networks, tcp |-> {{}}, udp |-> {{}},
                      ping |-> {FALSE}, rules |-> {{}}]]
             d == [c EXCEPT !.enforce = TRUE, !.base = EmptyPolicy, !.profiles = P]
  <2>1. EmptyPolicy \in Policy
    BY DEF EmptyPolicy, Policy
  <2>2. DOMAIN P = DOMAIN c.profiles /\ \A n \in DOMAIN P : P[n] \in Profile
    BY DEF IsConfig, Profile
  <2> HIDE DEF P
  <2>3. /\ DOMAIN d = DOMAIN c /\ d.enforce = TRUE /\ d.crowds = c.crowds
        /\ d.base = EmptyPolicy /\ d.profiles = P
    BY DEF IsConfig
  <2>4. Laid(c, p) = d
    BY <1>1 DEF Laid, P
  <2> HIDE DEF d
  <2> QED
    BY <2>1, <2>2, <2>3, <2>4 DEF IsConfig
<1>2. CASE p = "stealth"
  <2> DEFINE P == [n \in DOMAIN c.profiles |->
                     [c.profiles[n] EXCEPT !.ping = {FALSE},
                                           !.rules = {R \cup Decoys : R \in c.profiles[n].rules}]]
             b == [c.base EXCEPT !.ping = FALSE, !.rules = c.base.rules \cup Decoys]
             d == [c EXCEPT !.base = b, !.profiles = P]
  <2>1. b \in Policy
    BY PolicyAssumption DEF IsConfig, Policy
  <2>2. DOMAIN P = DOMAIN c.profiles /\ \A n \in DOMAIN P : P[n] \in Profile
    <3>1. ASSUME NEW n \in DOMAIN c.profiles
          PROVE  [c.profiles[n] EXCEPT !.ping = {FALSE},
                                       !.rules = {R \cup Decoys : R \in c.profiles[n].rules}] \in Profile
      <4>1. c.profiles[n] \in Profile
        BY <3>1 DEF IsConfig
      <4>2. {R \cup Decoys : R \in c.profiles[n].rules} \in SUBSET SUBSET Rule
        BY <4>1, PolicyAssumption DEF Profile
      <4>3. {FALSE} \in SUBSET BOOLEAN
        OBVIOUS
      <4> QED
        BY <4>1, <4>2, <4>3 DEF Profile
    <3> QED
      BY <3>1
  <2> HIDE DEF P, b
  <2>3. /\ DOMAIN d = DOMAIN c /\ d.enforce = c.enforce /\ d.crowds = c.crowds
        /\ d.base = b /\ d.profiles = P
    BY DEF IsConfig
  <2>4. Laid(c, p) = d
    BY <1>2 DEF Laid, P, b
  <2> HIDE DEF d
  <2> QED
    BY <2>1, <2>2, <2>3, <2>4 DEF IsConfig
<1>3. CASE p \notin {"lockdown", "stealth"}
  BY <1>3 DEF Laid
<1> QED
  BY <1>1, <1>2, <1>3

LEMMA ProfileForType == ASSUME NEW c, IsConfig(c) PROVE ProfileFor(c) \in Nat
<1> DEFINE here == {n \in DOMAIN c.profiles : c.profiles[n].networks \cap active # {}}
<1>1. here \in SUBSET Nat
  BY DEF IsConfig
<1>2. here # {} => Min(here) \in Nat
  BY <1>1, LeastIn
<1>3. ProfileFor(c) = IF here = {} THEN NoProfile ELSE Min(here)
  BY DEF ProfileFor
<1> HIDE DEF here
<1> QED
  BY <1>2, <1>3 DEF NoProfile

(* A port's compiled rate is the strictest of its limits, or 0 without any. *)
LEMMA StrictestWins ==
  ASSUME NEW p \in Policy, NEW q \in Ports
  PROVE  /\ LimitsOn(p, q) = {} => Compile(p).rate[q] = 0
         /\ LimitsOn(p, q) # {} => /\ Compile(p).rate[q] \in LimitsOn(p, q)
                                   /\ \A l \in LimitsOn(p, q) : Compile(p).rate[q] <= l
         /\ Compile(p).rate[q] \in Nat
<1>1. LimitsOn(p, q) \in SUBSET Nat
  BY DEF LimitsOn, Policy, Rule
<1>2. Compile(p).rate[q] = IF LimitsOn(p, q) = {} THEN 0 ELSE Min(LimitsOn(p, q))
  BY DEF Compile, RateOf
<1>3. CASE LimitsOn(p, q) = {}
  BY <1>2, <1>3
<1>4. CASE LimitsOn(p, q) # {}
  BY <1>1, <1>2, <1>4, LeastIn
<1> QED
  BY <1>3, <1>4

(* The lists compiled from a policy name ports, and networks that a rule names. *)
LEMMA CompileType ==
  ASSUME NEW p \in Policy
  PROVE  /\ \A m \in ListNames :
              Compile(p)[m] \subseteq IF m \in {"tcp", "udp"} THEN Ports ELSE Ports \X Nets
         /\ Compile(p).rate \in [Ports -> Nat]
<1>1. p.tcp \subseteq Ports /\ p.udp \subseteq Ports /\ p.rules \subseteq Rule
  BY DEF Policy
<1>2. \A proto \in Protos : OpenBy(p.rules, proto) \subseteq Ports
  BY <1>1 DEF OpenBy, Rule
<1>3. \A proto \in Protos : KeysOf(p.rules, proto) \subseteq Ports \X Nets
  <2> SUFFICES ASSUME NEW proto \in Protos, NEW r \in p.rules, r.from # Anyone,
                      NEW key \in r.ports \X {r.from}
               PROVE  key \in Ports \X Nets
    BY DEF KeysOf
  <2>1. r.ports \subseteq Ports /\ r.from \in Nets
    BY <1>1 DEF Rule
  <2> QED
    BY <2>1
<1>4. /\ Compile(p).tcp \subseteq Ports /\ Compile(p).udp \subseteq Ports
      /\ Compile(p).from_tcp \subseteq Ports \X Nets /\ Compile(p).from_udp \subseteq Ports \X Nets
  BY <1>1, <1>2, <1>3, PolicyAssumption DEF Compile, Protos
<1>5. Compile(p).rate \in [Ports -> Nat]
  <2>1. \A q \in Ports : Compile(p).rate[q] \in Nat
    BY StrictestWins
  <2>2. Compile(p).rate = [q \in Ports |-> Compile(p).rate[q]]
    BY DEF Compile
  <2> QED
    BY <2>1, <2>2
<1> QED
  BY <1>4, <1>5 DEF ListNames

-----------------------------------------------------------------------------
(* Type correctness *)

Room(m) == IF m \in {"tcp", "udp"} THEN Ports ELSE Ports \X Nets

LEMMA EmptyMaps == NoMaps \in RuleMaps /\ \A m \in ListNames : NoCopy[m] = {}
BY DEF NoMaps, RuleMaps, NoCopy

LEMMA WriteType ==
  ASSUME kernel \in RuleMaps, NEW m \in ListNames, NEW v, v \subseteq Room(m)
  PROVE  [kernel EXCEPT ![m] = v] \in RuleMaps
<1>1. CASE m = "tcp"
  BY <1>1 DEF RuleMaps, Room
<1>2. CASE m = "udp"
  BY <1>2 DEF RuleMaps, Room
<1>3. CASE m = "from_tcp"
  BY <1>3 DEF RuleMaps, Room
<1>4. CASE m = "from_udp"
  BY <1>4 DEF RuleMaps, Room
<1> QED
  BY <1>1, <1>2, <1>3, <1>4 DEF ListNames

LEMMA KernelList ==
  ASSUME kernel \in RuleMaps, NEW m \in ListNames PROVE kernel[m] \subseteq Room(m)
BY DEF RuleMaps, Room, ListNames

LEMMA WantedType ==
  ASSUME TypeOK, pc = "apply"
  PROVE  /\ \A m \in ListNames : Wanted[m] \subseteq Room(m)
         /\ Wanted.rate \in [Ports -> Nat]
         /\ PolicyOf(job.cfg, job.profile).ping \in BOOLEAN /\ job.cfg.enforce \in BOOLEAN
<1>1. IsConfig(job.cfg)
  BY DEF TypeOK
<1>2. PolicyOf(job.cfg, job.profile) \in Policy
  BY <1>1, PolicyIsPolicy
<1>3. /\ \A m \in ListNames : Wanted[m] \subseteq Room(m)
      /\ Wanted.rate \in [Ports -> Nat]
  BY <1>2, CompileType DEF Wanted, Room
<1>4. PolicyOf(job.cfg, job.profile).ping \in BOOLEAN
  BY <1>2 DEF Policy
<1>5. job.cfg.enforce \in BOOLEAN
  BY <1>1 DEF IsConfig
<1> QED
  BY <1>3, <1>4, <1>5

LEMMA TypeInit == Init => TypeOK
<1> SUFFICES ASSUME Init PROVE TypeOK
  OBVIOUS
<1>1. IsConfig(cfg)
  BY PolicyAssumption DEF Init
<1>2. tick \in 0..(PROFILE_TICKS - 1)
  BY PolicyAssumption DEF Init
<1>3. error \in BOOLEAN /\ torn \in BOOLEAN /\ overflowed \in BOOLEAN
  BY DEF Init
<1>4. DOMAIN copy = ListNames /\ \A m \in ListNames : copy[m] = {}
  BY DEF Init, NoCopy
<1> QED
  BY <1>1, <1>2, <1>3, <1>4, EmptyMaps DEF Init, TypeOK, Postures, NoProfile

(* The process ends, by a failed start, a crash or a reboot. *)
LEMMA EndedType ==
  ASSUME TypeOK, ProcessEnds, UNCHANGED <<files, lastGood, active, cfg, profile>>,
         ops' \in Nat, frozen' \in RuleMaps, attached' \in {"no", "own", "frozen"}
  PROVE  TypeOK'
<1>1. tick' \in 0..(PROFILE_TICKS - 1)
  BY PolicyAssumption DEF ProcessEnds
<1>2. error' \in BOOLEAN /\ torn' \in BOOLEAN /\ overflowed' \in BOOLEAN
  BY DEF ProcessEnds
<1>3. DOMAIN copy' = ListNames /\ \A m \in ListNames : copy'[m] = {}
  BY DEF ProcessEnds, NoCopy
<1>4. kernel' \in RuleMaps /\ pc' = "down"
  BY EmptyMaps DEF ProcessEnds
<1> QED
  BY <1>1, <1>2, <1>3, <1>4 DEF TypeOK, files

(* A call begins. *)
LEMMA BeginType ==
  ASSUME NEW why \in {"start", "reload", "switch"}, NEW c, IsConfig(c), Begin(why, c)
  PROVE  /\ pc' = "apply" /\ job'.why \in {"start", "reload", "switch"} /\ job'.stage \in Stages
         /\ IsConfig(job'.cfg) /\ job'.profile \in Nat
BY ProfileForType DEF Begin, Stages

(* A call goes on. *)
LEMMA StageType ==
  ASSUME TypeOK, Shaped, pc = "apply", job.stage # "bans", NextStage
  PROVE  /\ job'.why = job.why /\ job'.stage \in Stages /\ job'.stage = After[job.stage]
         /\ job'.cfg = job.cfg /\ job'.profile = job.profile
<1>1. job' = [job EXCEPT !.stage = After[job.stage]]
  BY DEF NextStage
<1>2. After[job.stage] \in Stages
  BY DEF TypeOK, Stages, After, ListNames
<1> QED
  BY <1>1, <1>2 DEF Shaped

LEMMA ApplyType == ASSUME TypeOK, Shaped, ApplyConfig PROVE TypeOK'
<1> USE DEF files, memory, link, maps
<1>1. CASE ApplySettings
  <2>1. pc = "apply" /\ job.stage # "bans" /\ NextStage
    BY <1>1 DEF ApplySettings, At
  <2>2. kernel' \in RuleMaps
    BY <1>1, <2>1, WantedType DEF ApplySettings, TypeOK, RuleMaps
  <2> QED
    BY <1>1, <2>1, <2>2, StageType DEF ApplySettings, TypeOK
<1>2. CASE ApplyRates
  <2>1. pc = "apply" /\ job.stage # "bans" /\ NextStage
    BY <1>2 DEF ApplyRates, At
  <2>2. kernel' \in RuleMaps
    BY <1>2, <2>1, WantedType DEF ApplyRates, TypeOK, RuleMaps
  <2> QED
    BY <1>2, <2>1, <2>2, StageType DEF ApplyRates, TypeOK
<1>3. CASE Applied
  <2>1. error' \in BOOLEAN /\ torn' \in BOOLEAN
    BY <1>3 DEF Applied, TypeOK
  <2>2. pc' \in {"heal", "wait"} /\ IsConfig(cfg') /\ profile' \in Nat /\ lastGood' \in {lastGood, file}
    BY <1>3 DEF Applied, TypeOK, At
  <2> QED
    BY <1>3, <2>1, <2>2 DEF Applied, TypeOK
<1>4. ASSUME NEW m \in ListNames, SyncRemove(m) \/ SyncInsert(m) PROVE TypeOK'
  <2>1. pc = "apply" /\ kernel \in RuleMaps
    BY <1>4 DEF SyncRemove, SyncInsert, At, TypeOK
  <2>2. PICK v : v \subseteq Room(m) /\ kernel' = [kernel EXCEPT ![m] = v]
    <3>1. CASE SyncRemove(m)
      <4>1. PICK x : kernel' = [kernel EXCEPT ![m] = kernel[m] \ {x}]
        BY <2>1, <3>1 DEF SyncRemove, RuleMaps, ListNames
      <4> QED
        BY <2>1, <4>1, KernelList
    <3>2. CASE SyncInsert(m)
      <4>1. PICK x \in New(m) : kernel' = [kernel EXCEPT ![m] = kernel[m] \cup {x}]
        BY <2>1, <3>2 DEF SyncInsert, RuleMaps, ListNames
      <4>2. x \in Room(m)
        BY <2>1, <4>1, WantedType DEF New
      <4> QED
        BY <2>1, <4>1, <4>2, KernelList
    <3> QED
      BY <1>4, <3>1, <3>2
  <2>3. kernel' \in RuleMaps
    BY <2>1, <2>2, WriteType
  <2> QED
    BY <1>4, <2>3 DEF SyncRemove, SyncInsert, TypeOK
<1>5. ASSUME NEW m \in ListNames, SyncDone(m) PROVE TypeOK'
  <2>1. pc = "apply" /\ job.stage # "bans" /\ NextStage
    BY <1>5 DEF SyncDone, At, ListNames
  <2>2. DOMAIN copy' = ListNames /\ \A l \in ListNames : copy'[l] \subseteq Room(l)
    BY <1>5, <2>1, WantedType DEF SyncDone, TypeOK, Room
  <2> QED
    BY <1>5, <2>1, <2>2, StageType DEF SyncDone, TypeOK, Room
<1>6. ASSUME BansFail \/ \E m \in ListNames : SyncFails(m) PROVE TypeOK'
  <2>1. /\ pc = "apply" /\ Rejected /\ UNCHANGED <<files, lastGood, active, link, ops>>
        /\ job.why # "start" => UNCHANGED <<kernel, copy>> /\ (overflowed' = TRUE \/ overflowed' = overflowed)
    BY <1>6 DEF BansFail, SyncFails, At
  <2>2. CASE job.why = "start"
    BY <2>1, <2>2, EndedType DEF Rejected, TypeOK
  <2>3. CASE job.why # "start"
    <3>1. error' \in BOOLEAN /\ torn' \in BOOLEAN /\ overflowed' \in BOOLEAN
      BY <2>1, <2>3 DEF Rejected, TypeOK
    <3>2. pc' \in {"heal", "wait"} /\ UNCHANGED <<cfg, profile, tick>>
      BY <2>1, <2>3 DEF Rejected
    <3> QED
      BY <2>1, <2>3, <3>1, <3>2 DEF TypeOK
  <2> QED
    BY <2>2, <2>3
<1> QED
  BY <1>1, <1>2, <1>3, <1>4, <1>5, <1>6 DEF ApplyConfig

LEMMA TickType == ASSUME TypeOK, NextTick PROVE tick' \in 0..(PROFILE_TICKS - 1)
<1>1. tick \in Nat /\ PROFILE_TICKS \in Nat \ {0}
  BY PolicyAssumption DEF TypeOK
<1> QED
  BY <1>1 DEF NextTick

LEMMA LoadType == ASSUME TypeOK, Load, ops' \in Nat PROVE TypeOK'
<1> USE DEF maps, link
<1>1. tick' \in 0..(PROFILE_TICKS - 1)
  BY TickType DEF Load
<1>2. CASE file # Broken /\ Begin("reload", Laid(file, posture)) /\ UNCHANGED error
  <2>1. IsConfig(Laid(file, posture))
    BY <1>2, PolicyAssumption, LaidIsConfig DEF TypeOK
  <2> QED
    BY <1>1, <1>2, <2>1, BeginType DEF Load, TypeOK
<1>3. CASE pc' = "heal" /\ error' = TRUE /\ UNCHANGED job
  BY <1>1, <1>3 DEF Load, TypeOK
<1> QED
  BY <1>2, <1>3 DEF Load

LEMMA DaemonType == ASSUME TypeOK, Shaped, Daemon PROVE TypeOK'
<1> USE DEF files, memory, maps, link
<1>1. CASE LoadAtStart
  <2>1. PICK c \in Configs : cfg' = Laid(c, posture)
    BY <1>1, PolicyAssumption DEF LoadAtStart, TypeOK
  <2>2. IsConfig(cfg')
    BY <2>1, PolicyAssumption, LaidIsConfig
  <2>3. error' \in BOOLEAN
    BY <1>1 DEF LoadAtStart
  <2> QED
    BY <1>1, <2>2, <2>3 DEF LoadAtStart, TypeOK
<1>2. CASE Remember
  BY <1>2 DEF Remember, TypeOK
<1>3. CASE ApplyAtStart
  BY <1>3, BeginType DEF ApplyAtStart, TypeOK
<1>4. CASE ApplyConfig
  BY <1>4, ApplyType
<1>5. CASE TimerTick
  BY <1>5, TickType DEF TimerTick, TypeOK
<1>6. CASE Reload
  BY <1>6, LoadType DEF Reload, TypeOK
<1>7. CASE Heal
  BY <1>7, EmptyMaps DEF Heal, HealPlace, TypeOK
<1>8. CASE SwitchProfile
  BY <1>8, BeginType DEF SwitchProfile, TypeOK
<1>9. CASE KeepProfile
  BY <1>9 DEF KeepProfile, TypeOK
<1> QED
  BY <1>1, <1>2, <1>3, <1>4, <1>5, <1>6, <1>7, <1>8, <1>9 DEF Daemon

LEMMA EnvironmentType == ASSUME TypeOK, Environment PROVE TypeOK'
<1> USE DEF files, memory, maps, link
<1>0. ops' \in Nat
  BY DEF Environment, EditConfig, SetPosture, Sighup, NetworkMoves, Crash, Reboot, Step, TypeOK
<1>1. CASE EditConfig
  BY <1>0, <1>1 DEF EditConfig, TypeOK
<1>2. CASE SetPosture
  BY <1>0, <1>2 DEF SetPosture, TypeOK
<1>3. CASE Sighup
  BY <1>0, <1>3, LoadType DEF Sighup
<1>4. CASE NetworkMoves
  BY <1>0, <1>4 DEF NetworkMoves, TypeOK
<1>5. CASE Crash
  BY <1>0, <1>5, EndedType DEF Crash, TypeOK
<1>6. CASE Reboot
  BY <1>0, <1>6, EmptyMaps, EndedType DEF Reboot, TypeOK
<1> QED
  BY <1>1, <1>2, <1>3, <1>4, <1>5, <1>6 DEF Environment

LEMMA TypeStep == TypeOK /\ IInv /\ [Next]_vars => TypeOK'
<1> SUFFICES ASSUME TypeOK, IInv, [Next]_vars PROVE TypeOK'
  OBVIOUS
<1>1. CASE UNCHANGED vars
  BY <1>1 DEF vars, files, memory, maps, link, TypeOK
<1> QED
  BY <1>1, DaemonType, EnvironmentType DEF Next, IInv

(* Every config in use, posture and profile laid over it, is a config, and the     *)
(* rule maps hold only ports and the networks that some rule names.                *)
THEOREM TypeCorrect == Spec => []TypeOK
<1>1. Init => TypeOK
  BY TypeInit
<1>2. TypeOK /\ IInv /\ [Next]_vars => TypeOK'
  BY TypeStep
<1> QED
  BY <1>1, <1>2, Invariant, PTL DEF Spec

-----------------------------------------------------------------------------
(* The limits in force *)

\* The rates written are those of the call that is ending, then of the config in use
Rates ==
  /\ At("bans") => kernel.rate = Wanted.rate
  /\ Resting => kernel.rate = InUse.rate

LEMMA RatesInit == Init => Rates
BY DEF Init, Rates, At, Resting

LEMMA RatesStep == TypeOK /\ IInv /\ Rates /\ [Next]_vars => Rates'
<1> SUFFICES ASSUME TypeOK, IInv, Rates, [Next]_vars PROVE Rates'
  OBVIOUS
<1> USE DEF memory, maps, link
<1>0. Shaped
  BY DEF IInv
\* Steps from one stage before the last to another, and out of the loop into a call
<1>a. ASSUME pc' = "apply", job'.stage # "bans" PROVE Rates'
  BY <1>a DEF Rates, At, Resting
\* Steps within the loop
<1>w. ASSUME pc \in {"wait", "heal", "profile"}, pc' \in {"wait", "heal", "profile"},
             UNCHANGED <<cfg, profile, kernel, torn>>
      PROVE  Rates'
  BY <1>w DEF Rates, At, Resting, InUse
\* Steps that end a call or a process without its config
<1>t. ASSUME pc' \in {"down", "remember", "prepare"} \/ (pc' # "apply" /\ torn') PROVE Rates'
  BY <1>t DEF Rates, At, Resting
<1>b. ASSUME NEW why, NEW c, Begin(why, c) PROVE Rates'
  BY <1>a, <1>b DEF Begin
<1>l. ASSUME Load PROVE Rates'
  BY <1>b, <1>w, <1>l DEF Load
<1>1. CASE UNCHANGED <<pc, cfg, profile, job, kernel, torn>>
  BY <1>1 DEF Rates, At, Resting, Wanted, InUse
<1>2. CASE LoadAtStart \/ Remember \/ Crash \/ Reboot
  BY <1>2, <1>t DEF LoadAtStart, Remember, Crash, Reboot, ProcessEnds
<1>3. CASE ApplyAtStart \/ SwitchProfile
  BY <1>3, <1>b DEF ApplyAtStart, SwitchProfile
<1>4. CASE TimerTick \/ Heal \/ KeepProfile
  BY <1>4, <1>w DEF TimerTick, Heal, HealPlace, KeepProfile
<1>5. CASE Reload \/ Sighup
  BY <1>5, <1>l DEF Reload, Sighup
<1>6. CASE EditConfig \/ SetPosture \/ NetworkMoves
  BY <1>1, <1>6 DEF EditConfig, SetPosture, NetworkMoves
<1>7. CASE ApplySettings
  <2>1. pc' = "apply" /\ job'.stage = "tcp"
    BY <1>0, <1>7, StageType, StageOrder DEF ApplySettings, At
  <2> QED
    BY <1>a, <2>1
<1>8. ASSUME NEW m \in ListNames, SyncRemove(m) \/ SyncInsert(m) PROVE Rates'
  <2>1. pc' = "apply" /\ job' = job /\ job.stage = m
    BY <1>8 DEF SyncRemove, SyncInsert, At
  <2> QED
    BY <1>a, <2>1 DEF ListNames
<1>9. ASSUME NEW m \in ListNames, SyncDone(m) PROVE Rates'
  <2>1. pc = "apply" /\ job.stage = m /\ m # "bans" /\ NextStage /\ pc' = "apply"
    BY <1>9 DEF SyncDone, At, ListNames
  <2>2. pc' = "apply" /\ job'.stage = After[m]
    BY <1>0, <2>1, StageType
  <2>3. After[m] # "bans"
    BY DEF After, ListNames
  <2> QED
    BY <1>a, <2>2, <2>3
<1>10. CASE ApplyRates
  <2>1. pc = "apply" /\ job.stage = "rate" /\ NextStage /\ pc' = "apply"
    BY <1>10 DEF ApplyRates, At
  <2>2. job'.cfg = job.cfg /\ job'.profile = job.profile
    BY <1>0, <2>1, StageType
  <2>3. kernel'.rate = Wanted.rate
    BY <1>10 DEF ApplyRates, TypeOK, RuleMaps
  <2> QED
    BY <2>1, <2>2, <2>3 DEF Rates, Resting, Wanted
<1>11. CASE Applied
  BY <1>11 DEF Applied, Rates, At, Resting, Wanted, InUse
<1>12. CASE BansFail \/ \E m \in ListNames : SyncFails(m)
  <2>1. Rejected
    BY <1>12 DEF BansFail, SyncFails
  <2>2. pc' = "down" \/ (pc' # "apply" /\ torn')
    BY <2>1 DEF Rejected, ProcessEnds
  <2> QED
    BY <1>t, <2>2
<1> QED
  BY <1>1, <1>2, <1>3, <1>4, <1>5, <1>6, <1>7, <1>8, <1>9, <1>10, <1>11, <1>12
     DEF Next, Daemon, ApplyConfig, Environment, vars

LEMMA LimitsFollow == TypeOK /\ IInv /\ Rates => LimitsInForce
<1> SUFFICES ASSUME TypeOK, IInv, Rates, attached = "own", pc # "apply", ~torn, NEW q \in Ports
             PROVE  LET limits == LimitsOn(PolicyOf(cfg, profile), q)
                    IN IF limits = {} THEN kernel.rate[q] = 0
                       ELSE kernel.rate[q] \in limits /\ \A l \in limits : kernel.rate[q] <= l
  BY DEF LimitsInForce
<1>1. kernel.rate = InUse.rate
  BY DEF IInv, Shaped, StartsUnattached, Rates, Resting
<1>2. PolicyOf(cfg, profile) \in Policy
  BY PolicyIsPolicy DEF TypeOK
<1> QED
  BY <1>1, <1>2, StrictestWins DEF InUse

(* Unless an apply_config of this process failed, every port that the config in use *)
(* limits has the strictest of its limits in the kernel, and no other port has one: *)
(* LimitsInForce, whatever the rules, also after a trie was full.                   *)
THEOREM LimitsAlwaysInForce == Spec => []LimitsInForce
<1>1. Init => Rates
  BY RatesInit
<1>2. TypeOK /\ IInv /\ Rates /\ [Next]_vars => Rates'
  BY RatesStep
<1>3. TypeOK /\ IInv /\ Rates => LimitsInForce
  BY LimitsFollow
<1> QED
  BY <1>1, <1>2, <1>3, TypeCorrect, Invariant, PTL DEF Spec
=============================================================================
