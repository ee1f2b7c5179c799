------------------------- MODULE BanLifecycleProofs -------------------------
(***************************************************************************)
(* What holds of BanLifecycle for every set of sources, every config file, *)
(* every capacity of the kernel map and every number of environment steps. *)
(***************************************************************************)
EXTENDS BanLifecycle, TLAPS

(* What the process loses when it ends is typed. *)
LEMMA ProcessEndsTypes ==
  ASSUME ProcessEnds
  PROVE  /\ pc' = "down" /\ dirty' \in BOOLEAN /\ tick' \in Nat
         /\ records' \in [Sources -> Reasons]
         /\ seen' \in [Sources -> Expiry]
         /\ protected' \in SUBSET Sources /\ queued' \in SUBSET Sources
<1>1. NoRecords \in [Sources -> Reasons]
  BY DEF NoRecords, Reasons
<1>2. NoBans \in [Sources -> Expiry]
  BY DEF NoBans, Expiry
<1> QED
  BY <1>1, <1>2 DEF ProcessEnds

(* Applying a config to the map and the records keeps them typed, however far it gets. *)
LEMMA BlockListedTypes ==
  ASSUME TypeOK, NEW c \in Config, NEW done, BlockListed(c, done)
  PROVE  /\ blocklist' \in [Sources -> Expiry]
         /\ writer' \in [Sources -> Writers]
         /\ records' \in [Sources -> Reasons]
         /\ due' \in [Sources -> Expiry]
         /\ enforce' \in BOOLEAN /\ pinned' \in BOOLEAN
<1>1. blocklist' \in [Sources -> Expiry]
  BY DEF BlockListed, TypeOK, ExpiryFor, BAN_FOREVER, Expiry
<1>2. writer' \in [Sources -> Writers]
  BY DEF BlockListed, TypeOK, Writers, Reasons
<1>3. records' \in [Sources -> Reasons]
  BY DEF BlockListed, TypeOK, Reasons
<1>4. due' \in [Sources -> Expiry]
  BY DEF BlockListed, TypeOK, BAN_FOREVER, Expiry
<1>5. enforce' \in BOOLEAN
  BY DEF BlockListed, Config
<1>6. pinned' \in BOOLEAN
  BY DEF BlockListed, TypeOK
<1> QED
  BY <1>1, <1>2, <1>3, <1>4, <1>5, <1>6

(* A step of the specification keeps every variable within its type. *)
LEMMA NextKeepsTypes == TypeOK /\ [Next]_vars => TypeOK'
<1> SUFFICES ASSUME TypeOK, [Next]_vars PROVE TypeOK'
  OBVIOUS
<1> USE ConfigsAssumption, RoutesAssumption, BoundsAssumption
    DEF TypeOK, Config, Expiry, SavedBan, Reasons, Writers, InLoop, Starting
<1>1. ASSUME LoadAtStart \/ ReadMtime PROVE TypeOK'
  BY <1>1 DEF LoadAtStart, ReadMtime, kernel, admin
<1>2. CASE ApplyAtStart
  BY <1>2, BlockListedTypes DEF ApplyAtStart, ApplyConfig, admin
<1>3. CASE ApplyAtStartFails
  <2>1. PICK done \in SUBSET cfg.blocked : Put(done, BAN_FOREVER, "config")
    BY <1>3 DEF ApplyAtStartFails
  <2>2. /\ blocklist' \in [Sources -> Expiry] /\ writer' \in [Sources -> Writers]
        /\ due' \in [Sources -> Expiry]
    BY <2>1 DEF Put, Later, BAN_FOREVER
  <2> QED
    BY <1>3, <2>2, ProcessEndsTypes DEF ApplyAtStartFails, admin
<1>4. CASE Restore
  BY <1>4 DEF Restore, Missing, Unexpired, SecsLeft, ExpiryFor, BAN_FOREVER, NoBan, admin
<1>5. CASE RefreshProtection
  BY <1>5 DEF RefreshProtection, ToLift, Take, AfterRefresh, admin
<1>6. CASE TimerTick
  BY <1>6 DEF TimerTick, NextTick, kernel, admin
<1>7. CASE Reload
  <2>1. tick' \in Nat
    BY <1>7 DEF Reload, NextTick
  <2> QED
    BY <1>7, <2>1, BlockListedTypes DEF Reload, ApplyConfig
<1>8. CASE ReloadFails
  <2>1. PICK done \in SUBSET file.blocked : BlockListed(file, done) /\ dirty' = dirty
    BY <1>8 DEF ReloadFails, ApplyFails
  <2>2. tick' \in Nat
    BY <1>8 DEF ReloadFails, NextTick
  <2> QED
    BY <1>8, <2>1, <2>2, BlockListedTypes DEF ReloadFails
<1>9. CASE SweepRead
  BY <1>9 DEF SweepRead, kernel, admin
<1>10. CASE SweepApply
  BY <1>10 DEF SweepApply, Gone, Take, NoBans, admin
<1>11. CASE SwitchProfile
  <2>1. PICK done \in SUBSET cfg.blocked : BlockListed(cfg, done) /\ dirty' \in BOOLEAN
    BY <1>11 DEF SwitchProfile, ApplyConfig, ApplyFails
  <2> QED
    BY <1>11, <2>1, BlockListedTypes DEF SwitchProfile, admin
<1>12. CASE Save
  BY <1>12 DEF Save, Store, Capture, NotSaved, admin
<1>13. CASE SaveFails \/ NoSave
  BY <1>13 DEF SaveFails, NoSave, kernel, admin, daemon
<1>14. CASE Stop
  BY <1>14, ProcessEndsTypes DEF Stop, Store, Capture, NotSaved, kernel, admin
<1>15. ASSUME NEW s \in Sources, AutoBan(s) PROVE TypeOK'
  BY <1>15 DEF AutoBan, Put, Later, ExpiryFor, BAN_FOREVER, admin
<1>16. ASSUME NEW s \in Sources, EventsDropped(s) \/ Offend(s) PROVE TypeOK'
  BY <1>16 DEF EventsDropped, Offend, kernel, admin
<1>17. ASSUME NEW s \in Sources, CliBan(s) \/ CliUnban(s) PROVE TypeOK'
  BY <1>17 DEF CliBan, CliUnban, Put, Take, Later, ExpiryFor, BAN_FOREVER, admin, daemon
<1>18. ASSUME NEW c \in Configs, EditConfig(c) PROVE TypeOK'
  BY <1>18 DEF EditConfig, kernel, daemon
<1>19. CASE NetworkMoves
  BY <1>19 DEF NetworkMoves, kernel, daemon
<1>20. CASE Crash
  BY <1>20, ProcessEndsTypes DEF Crash, kernel, admin
<1>21. CASE Reboot
  <2>1. blocklist' \in [Sources -> Expiry] /\ writer' \in [Sources -> Writers]
    BY <1>21 DEF Reboot, NoBans
  <2>2. ProcessEnds
    BY <1>21 DEF Reboot
  <2>3. pinned' \in BOOLEAN
    BY <1>21 DEF Reboot
  <2>4. ops' \in Nat
    BY <1>21 DEF Reboot
  <2>5. UNCHANGED <<now, due, saved, cfg, enforce>>
    BY <1>21 DEF Reboot
  <2>6. UNCHANGED <<file, changed, route>>
    BY <1>21 DEF Reboot, admin
  <2> QED
    BY <2>1, <2>2, <2>3, <2>4, <2>5, <2>6, ProcessEndsTypes
<1>22. CASE ClockTick
  BY <1>22 DEF ClockTick, kernel, admin, daemon
<1>23. CASE UNCHANGED vars
  BY <1>23 DEF vars
<1> QED
  BY <1>1, <1>2, <1>3, <1>4, <1>5, <1>6, <1>7, <1>8, <1>9, <1>10, <1>11, <1>12, <1>13,
     <1>14, <1>15, <1>16, <1>17, <1>18, <1>19, <1>20, <1>21, <1>22, <1>23
  DEF Next, MainLoop, EventReader, Environment

(* Every variable of the model keeps its type in every behaviour. *)
THEOREM TypeCorrect == Spec => []TypeOK
<1>1. ASSUME Init PROVE TypeOK
  <2>1. /\ NoBans \in [Sources -> Expiry]
        /\ NoRecords \in [Sources -> Reasons] /\ NoRecords \in [Sources -> Writers]
    BY DEF NoBans, NoRecords, Expiry, Reasons, Writers
  <2>2. saved \in [Sources -> SavedBan]
    BY <1>1 DEF Init, NotSaved, SavedBan, Expiry, Reasons
  <2>3. file \in Config /\ cfg \in Config /\ enforce \in BOOLEAN
    BY <1>1, ConfigsAssumption DEF Init, Config
  <2> QED
    BY <1>1, <2>1, <2>2, <2>3, RoutesAssumption DEF Init, TypeOK
<1> QED
  BY <1>1, NextKeepsTypes, PTL DEF Spec

-----------------------------------------------------------------------------
(* A step that touches neither the records nor the detector's protected     *)
(* addresses, or only adds records of another kind, keeps the protected     *)
(* addresses free of auto bans.                                             *)
LEMMA RecordsUntouched ==
  ASSUME AutoBanNeverProtected, protected' = protected,
         \A s \in Sources : records'[s] = "auto" => records[s] = "auto",
         pc' \in InLoop => pc \in InLoop
  PROVE  AutoBanNeverProtected'
BY DEF AutoBanNeverProtected

(* apply_config writes no auto record. *)
LEMMA BlockListedRecords ==
  ASSUME NEW c, NEW done, BlockListed(c, done)
  PROVE  \A s \in Sources : records'[s] = "auto" => records[s] = "auto"
BY DEF BlockListed

(* One step keeps the protected addresses free of auto bans: refresh lifts  *)
(* what it makes protected, enact bans only what observe let through.       *)
LEMMA NextKeepsProtected ==
  TypeOK /\ AutoBanNeverProtected /\ [Next]_vars => AutoBanNeverProtected'
<1> SUFFICES ASSUME TypeOK, AutoBanNeverProtected, [Next]_vars PROVE AutoBanNeverProtected'
  OBVIOUS
<1>1. CASE LoadAtStart \/ ReadMtime \/ ApplyAtStart \/ Restore
  BY <1>1 DEF LoadAtStart, ReadMtime, ApplyAtStart, Restore, AutoBanNeverProtected, InLoop
<1>2. CASE ApplyAtStartFails \/ Stop \/ Crash \/ Reboot
  BY <1>2 DEF ApplyAtStartFails, Stop, Crash, Reboot, ProcessEnds, AutoBanNeverProtected, InLoop
<1>3. CASE RefreshProtection
  BY <1>3 DEF RefreshProtection, ToLift, AutoBanNeverProtected
<1>4. CASE TimerTick \/ SweepRead \/ SaveFails \/ NoSave \/ Save
  BY <1>4, RecordsUntouched DEF TimerTick, SweepRead, SaveFails, NoSave, Save, daemon, InLoop
<1>5. CASE Reload
  BY <1>5, RecordsUntouched, BlockListedRecords DEF Reload, ApplyConfig, InLoop
<1>6. CASE ReloadFails
  BY <1>6, RecordsUntouched, BlockListedRecords DEF ReloadFails, ApplyFails, InLoop
<1>7. CASE SwitchProfile
  BY <1>7, RecordsUntouched, BlockListedRecords
  DEF SwitchProfile, ApplyConfig, ApplyFails, InLoop
<1>8. CASE SweepApply
  BY <1>8, RecordsUntouched DEF SweepApply, InLoop
<1>9. ASSUME NEW s \in Sources, AutoBan(s) PROVE AutoBanNeverProtected'
  BY <1>9 DEF AutoBan, AutoBanNeverProtected, TypeOK
<1>10. ASSUME NEW s \in Sources, EventsDropped(s) \/ Offend(s) \/ CliBan(s) \/ CliUnban(s)
       PROVE AutoBanNeverProtected'
  BY <1>10, RecordsUntouched DEF EventsDropped, Offend, CliBan, CliUnban, daemon
<1>11. ASSUME NEW c \in Configs, EditConfig(c) PROVE AutoBanNeverProtected'
  BY <1>11, RecordsUntouched DEF EditConfig, daemon
<1>12. CASE NetworkMoves \/ ClockTick
  BY <1>12, RecordsUntouched DEF NetworkMoves, ClockTick, daemon
<1>13. CASE UNCHANGED vars
  BY <1>13, RecordsUntouched DEF vars
<1> QED
  BY <1>1, <1>2, <1>3, <1>4, <1>5, <1>6, <1>7, <1>8, <1>9, <1>10, <1>11, <1>12, <1>13
  DEF Next, MainLoop, EventReader, Environment

(* daemon.rs:9 "so they can never be banned", as the daemon knows them: no  *)
(* address the detector protects is held by an auto ban on record.          *)
THEOREM ProtectedStayFree == Spec => []AutoBanNeverProtected
<1>1. Init => AutoBanNeverProtected
  BY DEF Init, AutoBanNeverProtected, InLoop
<1> QED
  BY <1>1, TypeCorrect, NextKeepsProtected, PTL DEF Spec

-----------------------------------------------------------------------------
(* AtMost orders expiries, a permanent ban last. *)
LEMMA AtMostTransitive ==
  ASSUME NEW e \in Expiry, NEW f \in Expiry, NEW g \in Expiry, AtMost(e, f), AtMost(f, g)
  PROVE  AtMost(e, g)
BY DEF AtMost, Expiry, NoBan, BAN_FOREVER

LEMMA LaterBoundsBoth ==
  ASSUME NEW e \in Expiry, NEW d \in Expiry
  PROVE  /\ Later(e, d) \in Expiry
         /\ AtMost(e, Later(e, d)) /\ AtMost(d, Later(e, d))
BY DEF AtMost, Later, Expiry, NoBan, BAN_FOREVER

(* A decision put on the map raises what is due at least as far. *)
LEMMA PutIsDue ==
  ASSUME TypeOK, NothingOutlivesItsDecision, NEW S, NEW e \in Expiry, NEW by,
         Put(S, e, by), UNCHANGED saved
  PROVE  NothingOutlivesItsDecision'
<1> SUFFICES ASSUME NEW s \in Sources
             PROVE AtMost(blocklist'[s], due'[s]) /\ AtMost(saved[s].until, due'[s])
  BY DEF NothingOutlivesItsDecision
<1> DEFINE d == due[s]
<1>1. /\ blocklist[s] \in Expiry /\ d \in Expiry /\ saved[s].until \in Expiry
      /\ AtMost(blocklist[s], d) /\ AtMost(saved[s].until, d)
  BY DEF TypeOK, SavedBan, NothingOutlivesItsDecision
<1>2. CASE s \in S
  <2>1. blocklist'[s] = e /\ due'[s] = Later(e, d)
    BY <1>2 DEF Put
  <2> QED
    BY <1>1, <2>1, LaterBoundsBoth, AtMostTransitive
<1>3. CASE s \notin S
  BY <1>1, <1>3 DEF Put
<1> QED
  BY <1>2, <1>3

(* Entries that only leave the map leave nothing due too late. *)
LEMMA FewerBansAreDue ==
  ASSUME NothingOutlivesItsDecision, UNCHANGED <<saved, due>>,
         \A s \in Sources : blocklist'[s] \in {blocklist[s], NoBan}
  PROVE  NothingOutlivesItsDecision'
BY DEF NothingOutlivesItsDecision, AtMost

(* apply_config decides that every listed source is banned forever. *)
LEMMA BlockListedIsDue ==
  ASSUME NothingOutlivesItsDecision, UNCHANGED saved, NEW c, NEW done, BlockListed(c, done)
  PROVE  NothingOutlivesItsDecision'
BY DEF NothingOutlivesItsDecision, BlockListed, AtMost

(* What save writes is on the map, so it is due. *)
LEMMA StoreIsDue ==
  ASSUME NothingOutlivesItsDecision, Store
  PROVE  NothingOutlivesItsDecision'
BY DEF NothingOutlivesItsDecision, Store, Capture, NotSaved, AtMost

(* restore gives a ban the end the file holds, neither later nor forever. *)
LEMMA RestoreIsDue ==
  ASSUME TypeOK, NothingOutlivesItsDecision, Restore
  PROVE  NothingOutlivesItsDecision'
<1>1. ASSUME NEW s \in Sources, saved[s].until # NoBan, Unexpired(saved[s])
      PROVE  ExpiryFor(SecsLeft(saved[s])) = saved[s].until
  <2>1. saved[s].until \in Nat /\ now \in Nat
    BY <1>1 DEF TypeOK, SavedBan, Expiry
  <2> QED
    BY <1>1, <2>1 DEF Unexpired, SecsLeft, ExpiryFor, BAN_FOREVER
<1>2. \A s \in Sources : blocklist'[s] \in {blocklist[s], saved[s].until}
  BY <1>1 DEF Restore, Missing
<1>3. UNCHANGED <<saved, due>>
  BY DEF Restore
<1> QED
  BY <1>2, <1>3 DEF NothingOutlivesItsDecision

(* One step never makes a ban outlive what was decided. *)
LEMMA NextKeepsDue ==
  TypeOK /\ NothingOutlivesItsDecision /\ [Next]_vars => NothingOutlivesItsDecision'
<1> SUFFICES ASSUME TypeOK, NothingOutlivesItsDecision, [Next]_vars
             PROVE NothingOutlivesItsDecision'
  OBVIOUS
<1>0. ASSUME UNCHANGED <<blocklist, saved, due>> PROVE NothingOutlivesItsDecision'
  BY <1>0 DEF NothingOutlivesItsDecision
<1>1. CASE LoadAtStart \/ ReadMtime \/ TimerTick \/ SweepRead \/ SaveFails \/ NoSave
  BY <1>0, <1>1 DEF LoadAtStart, ReadMtime, TimerTick, SweepRead, SaveFails, NoSave, kernel
<1>2. CASE ApplyAtStart \/ Reload \/ ReloadFails \/ SwitchProfile
  BY <1>2, BlockListedIsDue
  DEF ApplyAtStart, Reload, ReloadFails, SwitchProfile, ApplyConfig, ApplyFails
<1>3. CASE ApplyAtStartFails
  <2>1. PICK done \in SUBSET cfg.blocked : Put(done, BAN_FOREVER, "config")
    BY <1>3 DEF ApplyAtStartFails
  <2>2. BAN_FOREVER \in Expiry
    BY DEF BAN_FOREVER, Expiry
  <2> QED
    BY <1>3, <2>1, <2>2, PutIsDue DEF ApplyAtStartFails
<1>4. CASE Restore
  BY <1>4, RestoreIsDue
<1>5. CASE RefreshProtection \/ SweepApply
  BY <1>5, FewerBansAreDue DEF RefreshProtection, SweepApply, Take
<1>6. CASE Save \/ Stop
  BY <1>0, <1>6, StoreIsDue DEF Save, Stop, kernel
<1>7. ASSUME NEW s \in Sources, AutoBan(s) \/ CliBan(s) PROVE NothingOutlivesItsDecision'
  <2>1. PICK secs \in Nat, by \in Reasons : Put({s}, ExpiryFor(secs), by)
    BY <1>7, BoundsAssumption DEF AutoBan, CliBan, Reasons
  <2>2. ExpiryFor(secs) \in Expiry
    BY DEF ExpiryFor, BAN_FOREVER, Expiry, TypeOK
  <2> QED
    BY <1>7, <2>1, <2>2, PutIsDue DEF AutoBan, CliBan
<1>8. ASSUME NEW s \in Sources, EventsDropped(s) \/ Offend(s) PROVE NothingOutlivesItsDecision'
  BY <1>0, <1>8 DEF EventsDropped, Offend, kernel
<1>9. ASSUME NEW s \in Sources, CliUnban(s) PROVE NothingOutlivesItsDecision'
  BY <1>9, FewerBansAreDue DEF CliUnban, Take
<1>10. ASSUME NEW c \in Configs, EditConfig(c) PROVE NothingOutlivesItsDecision'
  BY <1>0, <1>10 DEF EditConfig, kernel
<1>11. CASE NetworkMoves \/ Crash \/ ClockTick
  BY <1>0, <1>11 DEF NetworkMoves, Crash, ClockTick, kernel
<1>12. CASE Reboot
  BY <1>12, FewerBansAreDue DEF Reboot, NoBans
<1>13. CASE UNCHANGED vars
  BY <1>0, <1>13 DEF vars
<1> QED
  BY <1>1, <1>2, <1>3, <1>4, <1>5, <1>6, <1>7, <1>8, <1>9, <1>10, <1>11, <1>12, <1>13
  DEF Next, MainLoop, EventReader, Environment

(* README.md:51 and state.rs: across saves, crashes, reboots and restores,  *)
(* neither the kernel nor the state file holds a ban longer than decided.   *)
THEOREM BansEndAsDecided == Spec => []NothingOutlivesItsDecision
<1>1. Init => NothingOutlivesItsDecision
  BY DEF Init, NothingOutlivesItsDecision, NoBans, NotSaved, AtMost
<1> QED
  BY <1>1, TypeCorrect, NextKeepsDue, PTL DEF Spec

-----------------------------------------------------------------------------
(* What the start of the daemon can count on: no record before apply_config *)
(* has run, and a save due from then until the loop is reached.             *)
StartIsFresh ==
  /\ pc \in {"down", "mtime", "apply"} => records = NoRecords
  /\ pc \in {"restore", "protect"} => dirty

(* Steps of the other actors leave the start as it is. *)
LEMMA StartUntouched ==
  ASSUME StartIsFresh, UNCHANGED <<pc, records, dirty>>
  PROVE  StartIsFresh'
BY DEF StartIsFresh

(* One step keeps it so. *)
LEMMA NextKeepsStart == TypeOK /\ StartIsFresh /\ [Next]_vars => StartIsFresh'
<1> SUFFICES ASSUME TypeOK, StartIsFresh, [Next]_vars PROVE StartIsFresh'
  OBVIOUS
<1>1. CASE LoadAtStart \/ ReadMtime \/ ApplyAtStart \/ Restore
  BY <1>1 DEF LoadAtStart, ReadMtime, ApplyAtStart, ApplyConfig, Restore, StartIsFresh
<1>2. CASE ApplyAtStartFails \/ Stop \/ Crash \/ Reboot
  BY <1>2 DEF ApplyAtStartFails, Stop, Crash, Reboot, ProcessEnds, StartIsFresh
<1>3. CASE RefreshProtection
  BY <1>3 DEF RefreshProtection, AfterRefresh, StartIsFresh
<1>4. CASE TimerTick \/ Reload \/ ReloadFails \/ SweepRead \/ SwitchProfile
           \/ Save \/ SaveFails \/ NoSave
  BY <1>4 DEF TimerTick, Reload, ReloadFails, SweepRead, SwitchProfile, Save, SaveFails,
              NoSave, StartIsFresh
<1>5. CASE SweepApply
  BY <1>5 DEF SweepApply, StartIsFresh
<1>6. ASSUME NEW s \in Sources, AutoBan(s) PROVE StartIsFresh'
  BY <1>6 DEF AutoBan, Reading, InLoop, Locked, StartIsFresh
<1>7. ASSUME NEW s \in Sources, EventsDropped(s) \/ Offend(s) \/ CliBan(s) \/ CliUnban(s)
      PROVE  StartIsFresh'
  BY <1>7, StartUntouched DEF EventsDropped, Offend, CliBan, CliUnban, daemon
<1>8. ASSUME NEW c \in Configs, EditConfig(c) PROVE StartIsFresh'
  BY <1>8, StartUntouched DEF EditConfig, daemon
<1>9. CASE NetworkMoves \/ ClockTick
  BY <1>9, StartUntouched DEF NetworkMoves, ClockTick, daemon
<1>10. CASE UNCHANGED vars
  BY <1>10, StartUntouched DEF vars
<1> QED
  BY <1>1, <1>2, <1>3, <1>4, <1>5, <1>6, <1>7, <1>8, <1>9, <1>10
  DEF Next, MainLoop, EventReader, Environment

(* The start of the daemon is fresh in every behaviour. *)
THEOREM StartStaysFresh == Spec => []StartIsFresh
<1>1. Init => StartIsFresh
  BY DEF Init, StartIsFresh
<1> QED
  BY <1>1, TypeCorrect, NextKeepsStart, PTL DEF Spec

-----------------------------------------------------------------------------
(* A step after which every running auto ban is an old one with its entry   *)
(* and its saved line untouched keeps the file current.                     *)
LEMMA OldAutoBansDurable ==
  ASSUME AutoBansDurable,
         pc' \in InLoop => pc \in InLoop, ~dirty' => ~dirty, UNCHANGED saved,
         \A s \in Sources : writer'[s] = "auto" /\ Live(blocklist[s])'
           => writer[s] = "auto" /\ Live(blocklist[s]) /\ blocklist'[s] = blocklist[s]
  PROVE  AutoBansDurable'
BY DEF AutoBansDurable

(* apply_config leaves no new auto ban behind, and the old ones as they were. *)
LEMMA BlockListedAuto ==
  ASSUME NEW c, NEW done, BlockListed(c, done), UNCHANGED now
  PROVE  \A s \in Sources : writer'[s] = "auto" /\ Live(blocklist[s])'
           => writer[s] = "auto" /\ Live(blocklist[s]) /\ blocklist'[s] = blocklist[s]
BY DEF BlockListed, Live

(* Nor does taking sources off the map. *)
LEMMA TakeAuto ==
  ASSUME NEW S, NEW by \in {"none", "lifted"}, Take(S, by), UNCHANGED now
  PROVE  \A s \in Sources : writer'[s] = "auto" /\ Live(blocklist[s])'
           => writer[s] = "auto" /\ Live(blocklist[s]) /\ blocklist'[s] = blocklist[s]
BY DEF Take, Live

(* One step keeps the state file current whenever the daemon says it is. *)
LEMMA NextKeepsDurable ==
  TypeOK /\ StartIsFresh /\ AutoBansDurable /\ [Next]_vars => AutoBansDurable'
<1> SUFFICES ASSUME TypeOK, StartIsFresh, AutoBansDurable, [Next]_vars PROVE AutoBansDurable'
  OBVIOUS
<1>0. ASSUME pc' \in InLoop => pc \in InLoop, ~dirty' => ~dirty,
             UNCHANGED <<now, saved, writer, blocklist>>
      PROVE  AutoBansDurable'
  BY <1>0 DEF AutoBansDurable, Live
<1>1. CASE LoadAtStart \/ ReadMtime \/ ApplyAtStart \/ Restore
  BY <1>1 DEF LoadAtStart, ReadMtime, ApplyAtStart, Restore, AutoBansDurable, InLoop
<1>2. CASE ApplyAtStartFails \/ Stop \/ Crash \/ Reboot
  BY <1>2 DEF ApplyAtStartFails, Stop, Crash, Reboot, ProcessEnds, AutoBansDurable, InLoop
<1>3. CASE RefreshProtection
  <2>1. CASE pc = "protect"
    BY <1>3, <2>1 DEF RefreshProtection, StartIsFresh, AutoBansDurable
  <2>2. CASE pc # "protect"
    <3>1. pc \in InLoop
      BY <1>3, <2>2 DEF RefreshProtection, AfterRefresh, InLoop
    <3>2. ~dirty' => ~dirty
      BY <1>3 DEF RefreshProtection
    <3> QED
      BY <1>3, <3>1, <3>2, TakeAuto, OldAutoBansDurable DEF RefreshProtection
  <2> QED
    BY <2>1, <2>2
<1>4. CASE TimerTick \/ SweepRead \/ SaveFails \/ NoSave
  BY <1>0, <1>4 DEF TimerTick, SweepRead, SaveFails, NoSave, kernel, daemon, InLoop
<1>5. CASE Reload
  BY <1>5 DEF Reload, ApplyConfig, AutoBansDurable
<1>6. CASE ReloadFails
  BY <1>6, BlockListedAuto, OldAutoBansDurable DEF ReloadFails, ApplyFails, InLoop
<1>7. CASE SwitchProfile
  <2>1. PICK done \in SUBSET cfg.blocked :
          BlockListed(cfg, done) /\ (dirty' = TRUE \/ dirty' = dirty)
    BY <1>7 DEF SwitchProfile, ApplyConfig, ApplyFails, TypeOK, Config
  <2>2. pc \in InLoop /\ (~dirty' => ~dirty) /\ UNCHANGED <<now, saved>>
    BY <1>7, <2>1 DEF SwitchProfile, InLoop
  <2> QED
    BY <2>1, <2>2, BlockListedAuto, OldAutoBansDurable
<1>8. CASE SweepApply
  <2>1. pc \in InLoop /\ (~dirty' => ~dirty) /\ Take(Gone, "none") /\ UNCHANGED <<now, saved>>
    BY <1>8 DEF SweepApply, InLoop
  <2> QED
    BY <2>1, TakeAuto, OldAutoBansDurable
<1>9. CASE Save
  BY <1>9 DEF Save, Store, Capture, Live, NoBan, BAN_FOREVER, AutoBansDurable, TypeOK
<1>10. ASSUME NEW s \in Sources, AutoBan(s) PROVE AutoBansDurable'
  BY <1>10 DEF AutoBan, AutoBansDurable
<1>11. ASSUME NEW s \in Sources, EventsDropped(s) \/ Offend(s) PROVE AutoBansDurable'
  BY <1>0, <1>11 DEF EventsDropped, Offend, kernel
<1>12. ASSUME NEW s \in Sources, CliBan(s) PROVE AutoBansDurable'
  BY <1>12, OldAutoBansDurable DEF CliBan, Put, Live, daemon
<1>13. ASSUME NEW s \in Sources, CliUnban(s) PROVE AutoBansDurable'
  BY <1>13, TakeAuto, OldAutoBansDurable DEF CliUnban, daemon
<1>14. ASSUME NEW c \in Configs, EditConfig(c) PROVE AutoBansDurable'
  BY <1>0, <1>14 DEF EditConfig, kernel, daemon
<1>15. CASE NetworkMoves
  BY <1>0, <1>15 DEF NetworkMoves, kernel, daemon
<1>16. CASE ClockTick
  <2>1. \A s \in Sources : Live(blocklist[s])' => Live(blocklist[s])
    BY <1>16 DEF ClockTick, kernel, Live, TypeOK, Expiry, NoBan
  <2> QED
    BY <1>16, <2>1, OldAutoBansDurable DEF ClockTick, kernel, daemon
<1>17. CASE UNCHANGED vars
  BY <1>0, <1>17 DEF vars
<1> QED
  BY <1>1, <1>2, <1>3, <1>4, <1>5, <1>6, <1>7, <1>8, <1>9, <1>10, <1>11, <1>12, <1>13,
     <1>14, <1>15, <1>16, <1>17
  DEF Next, MainLoop, EventReader, Environment

(* README.md:51 "bans are also saved ... so they survive a reboot": when    *)
(* the daemon has nothing to save, every running auto ban is in the file.   *)
THEOREM AutoBansAreSaved == Spec => []AutoBansDurable
<1>1. Init => AutoBansDurable
  BY DEF Init, AutoBansDurable, InLoop
<1> QED
  BY <1>1, TypeCorrect, StartStaysFresh, NextKeepsDurable, PTL DEF Spec

-----------------------------------------------------------------------------
(* README.md:51 "bans ... live in pinned BPF maps, so they survive a daemon *)
(* restart": no step of the start changes a running ban of the kernel map,  *)
(* other than to make a listed one permanent or to lift a protected one.    *)
THEOREM RestartIsHarmless == Spec => RestartKeepsBans
<1>1. ASSUME TypeOK, StartIsFresh, [Next]_vars, pc' \notin {pc, "down"}, pc \in Starting,
             NEW s \in Banned(blocklist), Live(blocklist[s])
      PROVE  KeptOrOverruled(s)
  <2>1. ReadMtime \/ ApplyAtStart \/ Restore \/ RefreshProtection
    <3>1. ~(\E q \in Sources : AutoBan(q) \/ EventsDropped(q))
      BY <1>1 DEF AutoBan, EventsDropped, Reading, InLoop, Starting
    <3>2. ~(\E q \in Sources : Offend(q) \/ CliBan(q) \/ CliUnban(q))
      BY <1>1 DEF Offend, CliBan, CliUnban
    <3>3. ~(\E c \in Configs : EditConfig(c)) /\ ~NetworkMoves /\ ~ClockTick
      BY <1>1 DEF EditConfig, NetworkMoves, ClockTick
    <3>4. ~Crash /\ ~Reboot /\ ~Stop /\ ~ApplyAtStartFails
      BY <1>1 DEF Crash, Reboot, Stop, ApplyAtStartFails, ProcessEnds
    <3>5. ~LoadAtStart /\ ~TimerTick /\ ~Reload /\ ~ReloadFails /\ ~SweepRead /\ ~SweepApply
          /\ ~SwitchProfile /\ ~Save /\ ~SaveFails /\ ~NoSave
      BY <1>1 DEF LoadAtStart, TimerTick, Reload, ReloadFails, SweepRead, SweepApply,
                  SwitchProfile, Save, SaveFails, NoSave, Starting
    <3>6. ~UNCHANGED vars
      BY <1>1 DEF vars
    <3> QED
      BY <1>1, <3>1, <3>2, <3>3, <3>4, <3>5, <3>6 DEF Next, MainLoop, EventReader, Environment
  <2>2. s \in Sources /\ blocklist[s] # NoBan
    BY <1>1 DEF Banned
  <2>3. CASE ReadMtime
    BY <2>3 DEF ReadMtime, KeptOrOverruled
  <2>4. CASE ApplyAtStart
    <3>1. s \notin Stale(cfg)
      BY <1>1, <2>2, <2>4 DEF ApplyAtStart, StartIsFresh, NoRecords, Stale
    <3> QED
      BY <2>2, <2>4, <3>1 DEF ApplyAtStart, ApplyConfig, BlockListed, ExpiryFor, KeptOrOverruled
  <2>5. CASE Restore
    BY <2>2, <2>5 DEF Restore, Missing, KeptOrOverruled
  <2>6. CASE RefreshProtection
    BY <2>2, <2>6 DEF RefreshProtection, ToLift, Take, KeptOrOverruled
  <2> QED
    BY <2>1, <2>3, <2>4, <2>5, <2>6
<1>2. TypeOK /\ StartIsFresh /\ [Next]_vars =>
        [pc' \notin {pc, "down"} /\ pc \in Starting =>
           \A s \in Banned(blocklist) : Live(blocklist[s]) => KeptOrOverruled(s)]_vars
  BY <1>1
<1> QED
  BY <1>2, TypeCorrect, StartStaysFresh, PTL DEF Spec, RestartKeepsBans

-----------------------------------------------------------------------------
(* The refinement: what each kind of write does to the book of bans. *)

LEMMA PutIsDecided ==
  ASSUME TypeOK, NEW S, NEW secs \in Nat, NEW by, Put(S, ExpiryFor(secs), by), UNCHANGED now
  PROVE  Promise!Write
<1> SUFFICES ASSUME NEW s \in Sources PROVE Promise!Decide(s) \/ Promise!Keep(s)
  BY DEF Promise!Write
<1>1. now \in Nat
  BY DEF TypeOK
<1>2. CASE s \in S
  BY <1>1, <1>2 DEF Put, ExpiryFor, BAN_FOREVER, Later, AtMost, NoBan, Promise!Decide,
                    Promise!Within, Promise!FOREVER, Promise!None
<1>3. CASE s \notin S
  BY <1>3 DEF Put, Promise!Keep
<1> QED
  BY <1>2, <1>3

LEMMA TakeIsReleased ==
  ASSUME NEW S, NEW by, Take(S, by), UNCHANGED now
  PROVE  Promise!Write
BY DEF Take, NoBan, Promise!Write, Promise!Release, Promise!Keep, Promise!None

LEMMA BlockListedIsDecided ==
  ASSUME NEW c, NEW done \in SUBSET c.blocked, BlockListed(c, done), UNCHANGED now
  PROVE  Promise!Write
<1> SUFFICES ASSUME NEW s \in Sources
             PROVE Promise!Decide(s) \/ Promise!Release(s) \/ Promise!Keep(s)
  BY DEF Promise!Write
<1>1. CASE s \in done
  <2>1. blocklist'[s] = 0 /\ due'[s] = 0
    BY <1>1 DEF BlockListed, ExpiryFor, BAN_FOREVER, Stale
  <2> QED
    BY <2>1 DEF Promise!Decide, Promise!Within, Promise!FOREVER, Promise!None
<1>2. CASE s \notin done
  BY <1>2 DEF BlockListed, NoBan, Promise!Release, Promise!Keep, Promise!None
<1> QED
  BY <1>1, <1>2

(* What comes back from the file is still running and within what is due. *)
LEMMA RestoreReturns ==
  ASSUME TypeOK, NothingOutlivesItsDecision, Restore
  PROVE  Promise!Write
<1> SUFFICES ASSUME NEW s \in Sources PROVE Promise!Return(s) \/ Promise!Keep(s)
  BY DEF Restore, Promise!Write
<1>1. CASE blocklist'[s] = blocklist[s]
  BY <1>1 DEF Restore, Promise!Keep
<1>2. CASE blocklist'[s] # blocklist[s]
  <2>1. /\ blocklist[s] = NoBan /\ saved[s].until # NoBan /\ Unexpired(saved[s])
        /\ blocklist'[s] = ExpiryFor(SecsLeft(saved[s]))
    BY <1>2 DEF Restore, Missing
  <2>2. saved[s].until \in Nat /\ now \in Nat /\ AtMost(saved[s].until, due[s])
    BY <2>1 DEF TypeOK, SavedBan, Expiry, NothingOutlivesItsDecision
  <2>3. blocklist'[s] = saved[s].until /\ (saved[s].until = 0 \/ saved[s].until > now)
    BY <2>1, <2>2 DEF Unexpired, SecsLeft, ExpiryFor, BAN_FOREVER
  <2>4. due'[s] = due[s]
    BY DEF Restore
  <2> QED
    BY <2>1, <2>2, <2>3, <2>4 DEF AtMost, NoBan, BAN_FOREVER, Promise!Return, Promise!Within,
                                  Promise!FOREVER, Promise!None
<1> QED
  BY <1>1, <1>2

LEMMA StoreForgets ==
  ASSUME Store, UNCHANGED now
  PROVE  Promise!Write
BY DEF Store, NoBan, Promise!Write, Promise!Forget, Promise!Keep, Promise!None

(* Every step of the implementation is a step of the book, or none. *)
LEMMA NextKeepsPromise ==
  TypeOK /\ NothingOutlivesItsDecision /\ [Next]_vars => [Promise!Next]_(Promise!book)
<1> SUFFICES ASSUME TypeOK, NothingOutlivesItsDecision, [Next]_vars
             PROVE Promise!Write \/ Promise!Tick \/ UNCHANGED <<now, blocklist, due>>
  BY DEF Promise!Next, Promise!book
<1>1. CASE LoadAtStart \/ ReadMtime \/ TimerTick \/ SweepRead \/ SaveFails \/ NoSave
  BY <1>1 DEF LoadAtStart, ReadMtime, TimerTick, SweepRead, SaveFails, NoSave, kernel
<1>2. CASE ApplyAtStart \/ Reload \/ ReloadFails \/ SwitchProfile
  BY <1>2, BlockListedIsDecided
  DEF ApplyAtStart, Reload, ReloadFails, SwitchProfile, ApplyConfig, ApplyFails
<1>3. CASE ApplyAtStartFails
  <2>1. PICK done \in SUBSET cfg.blocked : Put(done, BAN_FOREVER, "config")
    BY <1>3 DEF ApplyAtStartFails
  <2>2. ExpiryFor(0) = BAN_FOREVER
    BY DEF ExpiryFor
  <2>3. Put(done, ExpiryFor(0), "config")
    BY <2>1, <2>2
  <2> QED
    BY <1>3, <2>3, PutIsDecided DEF ApplyAtStartFails
<1>4. CASE Restore
  BY <1>4, RestoreReturns
<1>5. CASE RefreshProtection \/ SweepApply
  BY <1>5, TakeIsReleased DEF RefreshProtection, SweepApply
<1>6. CASE Save \/ Stop
  BY <1>6, StoreForgets DEF Save, Stop, kernel
<1>7. ASSUME NEW s \in Sources, AutoBan(s) \/ CliBan(s) PROVE Promise!Write
  <2>1. PICK secs \in Nat, by \in Reasons : Put({s}, ExpiryFor(secs), by)
    BY <1>7, BoundsAssumption DEF AutoBan, CliBan, Reasons
  <2> QED
    BY <1>7, <2>1, PutIsDecided DEF AutoBan, CliBan
<1>8. ASSUME NEW s \in Sources, EventsDropped(s) \/ Offend(s)
      PROVE  UNCHANGED <<now, blocklist, due>>
  BY <1>8 DEF EventsDropped, Offend, kernel
<1>9. ASSUME NEW s \in Sources, CliUnban(s) PROVE Promise!Write
  BY <1>9, TakeIsReleased DEF CliUnban
<1>10. ASSUME NEW c \in Configs, EditConfig(c) PROVE UNCHANGED <<now, blocklist, due>>
  BY <1>10 DEF EditConfig, kernel
<1>11. CASE NetworkMoves \/ Crash
  BY <1>11 DEF NetworkMoves, Crash, kernel
<1>12. CASE Reboot
  BY <1>12 DEF Reboot, NoBans, NoBan, Promise!Write, Promise!Release, Promise!None
<1>13. CASE ClockTick
  BY <1>13 DEF ClockTick, kernel, Promise!Tick
<1>14. CASE UNCHANGED vars
  BY <1>14 DEF vars
<1> QED
  BY <1>1, <1>2, <1>3, <1>4, <1>5, <1>6, <1>7, <1>8, <1>9, <1>10, <1>11, <1>12, <1>13, <1>14
  DEF Next, MainLoop, EventReader, Environment

(* The kernel map, the daemon's memory, the state file and the command line *)
(* (state.rs, daemon.rs, main.rs) together implement one book of bans.      *)
THEOREM BansAreOneBook == Spec => KeepsPromise
<1>1. Init => Promise!Init
  BY DEF Init, NoBans, NoBan, Promise!Init, Promise!None
<1> QED
  BY <1>1, TypeCorrect, BansEndAsDecided, NextKeepsPromise, PTL
  DEF Spec, KeepsPromise, Promise!Spec
=============================================================================
