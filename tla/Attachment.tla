----------------------------- MODULE Attachment -----------------------------
(***************************************************************************)
(* How the two programs get onto a network interface and stay there: the   *)
(* daemon's `heal`, once a tick, the pinned links of links.rs with the     *)
(* metadata beside them, and `ai-firewall off`.                            *)
(*                                                                         *)
(* A program stays attached while the pin of its link exists, whether or   *)
(* not the process that loaded it is alive: it then filters by the maps    *)
(* that process left.  The pins are in bpffs and go with a reboot, the     *)
(* metadata is in /var/lib and stays.  Interfaces come, go and come back   *)
(* under the same name with another index, in which case the link is dead. *)
(*                                                                         *)
(* `heal` is cut wherever a process may die with different files left      *)
(* behind, since every later start decides by those files.  Attaching and  *)
(* pinning are one step: a link that is not pinned goes with the process.  *)
(* The retries on EBUSY, and native or generic mode, are inside that step. *)
(***************************************************************************)
EXTENDS Integers, FiniteSets, Sequences

CONSTANTS
  Ifaces,       \* interface names
  MaxIndex,     \* bound: interface indexes handed out per boot
  MaxOps        \* bound: environment steps and failures

Kinds == {"tc", "xdp"}
NoIface == "none"
AutoIface == "auto"
None == 0           \* no index: no interface, no pin, no metadata
Config == [interface : Ifaces \cup {AutoIface}, udp_strict : BOOLEAN]

ASSUME IfaceAssumption ==
  /\ IsFiniteSet(Ifaces) /\ Ifaces # {}
  /\ NoIface \notin Ifaces /\ AutoIface \notin Ifaces
  /\ MaxIndex \in Nat /\ MaxOps \in Nat

VARIABLES
  ifindex,     \* interface -> its index now
  lastIndex,   \* the last index the kernel handed out
  route,       \* the default route's interface
  cfg,         \* the config in use, as far as it matters here
  pin,         \* kind, interface -> index of the interface the pinned link was made for
  mine,        \* kind, interface -> the link runs this process's program
  meta,        \* kind, interface -> index in the metadata file
  attachment,  \* daemon: {} or one [iface, ifindex, egress]
  strict,      \* CFG_UDP_STRICT of this process's maps
  frozen,      \* CFG_UDP_STRICT of the maps of the process before
  applied,     \* daemon: strict_applied, {} before the first set
  pc,          \* daemon: where heal is
  todo,        \* daemon: files to remove, in this order, before pc goes on
  job,         \* daemon: the interface to attach to, its index, and whether tc is attached
  off,         \* `ai-firewall off` was the last word
  ops,         \* environment steps (bound)
  refused      \* ghost: in this heal the kernel refused to swap a program into a link

host == <<ifindex, lastIndex, route>>
links == <<pin, mine, meta>>
udp == <<strict, frozen, applied>>
vars == <<host, cfg, links, attachment, udp, pc, todo, job, off, ops, refused>>

Pcs == {"down", "wait", "clean", "tc", "tcattach", "tcmeta", "xdp", "xdpattach", "xdpmeta", "mode"}
Working == Pcs \ {"down", "wait", "clean", "mode"}
Files == {"pin", "meta"} \X Kinds \X Ifaces
Place == [Kinds -> [Ifaces -> Nat]]
Nowhere == [k \in Kinds |-> [i \in Ifaces |-> None]]
NotMine == [k \in Kinds |-> [i \in Ifaces |-> FALSE]]
NoJob == [iface |-> NoIface, ifindex |-> None, egress |-> FALSE]

TypeOK ==
  /\ ifindex \in [Ifaces -> Nat] /\ lastIndex \in Nat
  /\ route \in Ifaces \cup {NoIface}
  /\ cfg \in Config
  /\ pin \in Place /\ meta \in Place
  /\ mine \in [Kinds -> [Ifaces -> BOOLEAN]]
  /\ attachment \in SUBSET [iface : Ifaces, ifindex : Nat, egress : BOOLEAN]
  /\ \A a, b \in attachment : a = b
  /\ strict \in BOOLEAN /\ frozen \in BOOLEAN /\ applied \in SUBSET BOOLEAN
  /\ pc \in Pcs
  /\ todo \in Seq(Files)
  /\ job \in [iface : Ifaces \cup {NoIface}, ifindex : Nat, egress : BOOLEAN]
  /\ pc \in Working => job.iface \in Ifaces
  /\ off \in BOOLEAN /\ refused \in BOOLEAN /\ ops \in Nat

\* The pinned link still has its interface
Live(k, i) == pin[k][i] # None /\ pin[k][i] = ifindex[i]

Init ==
  /\ ifindex \in [Ifaces -> 0 .. Cardinality(Ifaces)]
  /\ \A i, j \in Ifaces : ifindex[i] = ifindex[j] => i = j \/ ifindex[i] = None
  /\ lastIndex = Cardinality(Ifaces)
  /\ route = NoIface
  /\ cfg \in Config
  /\ pin = Nowhere /\ mine = NotMine /\ meta = Nowhere
  /\ attachment = {}
  /\ strict = FALSE /\ frozen = FALSE /\ applied = {}
  /\ pc = "down" /\ todo = <<>> /\ job = NoJob
  /\ off = FALSE /\ ops = 0 /\ refused = FALSE

-----------------------------------------------------------------------------
(* heal *)

Start ==
  /\ pc = "down" /\ ~off
  /\ pc' = "wait"
  /\ UNCHANGED <<host, cfg, links, attachment, udp, todo, job, off, ops, refused>>

\* The interface to guard: the configured one, the default route's, or the
\* guarded one while there is no route
Wanted ==
  IF cfg.interface # AutoIface THEN cfg.interface
  ELSE IF route # NoIface \/ attachment = {} THEN route
  ELSE (CHOOSE a \in attachment : TRUE).iface

Unpin(k, i) == <<<<"pin", k, i>>, <<"meta", k, i>>>>

InPlaceSlip(a) == a.iface = Wanted

InPlace(a) == a.iface = Wanted /\ a.ifindex = ifindex[a.iface]

\* A tick: nothing to do, or the attachment is given up first
Look ==
  /\ pc = "wait"
  /\ refused' = FALSE
  /\ IF \E a \in attachment : InPlace(a)
     THEN /\ pc' = "mode"
          /\ UNCHANGED <<attachment, todo, job>>
     ELSE /\ pc' = "clean"
          /\ job' = [NoJob EXCEPT !.iface = Wanted]
          /\ attachment' = {}
          /\ todo' = IF attachment = {} THEN <<>>
                     ELSE LET a == CHOOSE a \in attachment : TRUE
                          IN Unpin("xdp", a.iface) \o Unpin("tc", a.iface)
  /\ UNCHANGED <<host, cfg, links, udp, off, ops>>

\* One file goes; when the pin goes, so does the program
Remove ==
  /\ todo # <<>>
  /\ LET file == Head(todo)[1]
         k == Head(todo)[2]
         i == Head(todo)[3]
     IN IF file = "pin"
        THEN /\ pin' = [pin EXCEPT ![k][i] = None]
             /\ mine' = [mine EXCEPT ![k][i] = FALSE]
             /\ meta' = meta
        ELSE /\ meta' = [meta EXCEPT ![k][i] = None]
             /\ UNCHANGED <<pin, mine>>
  /\ todo' = Tail(todo)
  /\ UNCHANGED <<host, cfg, attachment, udp, pc, job, off, ops, refused>>

\* Every interface that has a pinned XDP link
PinnedIfaces == {i \in Ifaces : pin["xdp"][i] # None}

OthersSlip == {}

\* Links left on interfaces that are no longer guarded; a tc link alone is not seen
Others == PinnedIfaces \ {job.iface}

Clean ==
  /\ pc = "clean" /\ todo = <<>>
  /\ IF job.iface = NoIface
     THEN pc' = "mode" /\ UNCHANGED <<todo, job>>
     ELSE IF ifindex[job.iface] = None
     THEN pc' = "mode" /\ UNCHANGED <<todo, job>>
     ELSE IF Others # {}
     THEN /\ \E i \in Others : todo' = Unpin("xdp", i) \o Unpin("tc", i)
          /\ UNCHANGED <<pc, job>>
     ELSE /\ pc' = "tc"
          /\ job' = [job EXCEPT !.ifindex = ifindex[job.iface]]
          /\ UNCHANGED todo
  /\ UNCHANGED <<host, cfg, links, attachment, udp, off, ops, refused>>

Attaching == [tc |-> "tcattach", xdp |-> "xdpattach"]
Recording == [tc |-> "tcmeta", xdp |-> "xdpmeta"]

\* What follows when the program of kind k is attached, or cannot be
Attached(k) ==
  /\ pc' = IF k = "tc" THEN "xdp" ELSE "mode"
  /\ IF k = "tc"
     THEN /\ job' = [job EXCEPT !.egress = TRUE]
          /\ UNCHANGED attachment
     ELSE /\ attachment' = {job}
          /\ job' = NoJob

NotAttached(k) ==
  /\ pc' = IF k = "tc" THEN "xdp" ELSE "mode"
  /\ job' = IF k = "tc" THEN job ELSE NoJob
  /\ UNCHANGED attachment

RecordedSlip(k) == FALSE

Recorded(k) == meta[k][job.iface] = job.ifindex

\* The running link of an earlier process gets this one's program, without a gap
TakeOver(k) ==
  /\ pc = k /\ todo = <<>>
  /\ pin[k][job.iface] # None /\ Recorded(k)
  /\ Live(k, job.iface)
  /\ mine' = [mine EXCEPT ![k][job.iface] = TRUE]
  /\ Attached(k)
  /\ UNCHANGED <<host, cfg, pin, meta, udp, todo, off, ops, refused>>

\* The metadata says another index, or nothing: the pin is not trusted
Distrust(k) ==
  /\ pc = k /\ todo = <<>>
  /\ pin[k][job.iface] # None => ~Recorded(k)
  /\ todo' = IF pin[k][job.iface] # None THEN Unpin(k, job.iface) ELSE <<>>
  /\ pc' = Attaching[k]
  /\ UNCHANGED <<host, cfg, links, attachment, udp, job, off, ops, refused>>

\* The swap is refused (always, when the link is dead): re-attach
Refuse(k) ==
  /\ pc = k /\ todo = <<>>
  /\ pin[k][job.iface] # None /\ Recorded(k)
  /\ \/ ~Live(k, job.iface) /\ ops' = ops
     \/ ops < MaxOps /\ ops' = ops + 1
  /\ refused' = TRUE
  /\ todo' = Unpin(k, job.iface)
  /\ pc' = Attaching[k]
  /\ UNCHANGED <<host, cfg, links, attachment, udp, job, off>>

\* Attached by name, so to whatever interface has that name now, and pinned
Attach(k) ==
  /\ pc = Attaching[k] /\ todo = <<>>
  /\ ifindex[job.iface] # None
  /\ pin' = [pin EXCEPT ![k][job.iface] = ifindex[job.iface]]
  /\ mine' = [mine EXCEPT ![k][job.iface] = TRUE]
  /\ pc' = Recording[k]
  /\ UNCHANGED <<host, cfg, meta, attachment, udp, todo, job, off, ops, refused>>

AttachFails(k) ==
  /\ pc = Attaching[k] /\ todo = <<>>
  /\ \/ ifindex[job.iface] = None /\ ops' = ops
     \/ ops < MaxOps /\ ops' = ops + 1
  /\ NotAttached(k)
  /\ UNCHANGED <<host, cfg, links, udp, todo, off, refused>>

\* A failure is only a warning, and leaves the old file or an empty one
WriteMeta(k) ==
  /\ pc = Recording[k]
  /\ \/ meta' = [meta EXCEPT ![k][job.iface] = job.ifindex] /\ ops' = ops
     \/ /\ meta' \in {meta, [meta EXCEPT ![k][job.iface] = None]}
        /\ ops < MaxOps /\ ops' = ops + 1
  /\ Attached(k)
  /\ UNCHANGED <<host, cfg, pin, mine, udp, todo, off, refused>>

StrictNowSlip == cfg.udp_strict

StrictNow == cfg.udp_strict /\ \E a \in attachment : a.egress

\* Strict UDP follows the recorder; a set that fails is tried again next tick
SetMode ==
  /\ pc = "mode"
  /\ pc' = "wait"
  /\ \/ /\ strict' = StrictNow
        /\ applied' = {StrictNow}
        /\ ops' = ops
     \/ /\ applied # {StrictNow} /\ ops < MaxOps
        /\ ops' = ops + 1
        /\ UNCHANGED <<strict, applied>>
  /\ UNCHANGED <<host, cfg, links, attachment, frozen, todo, job, off, refused>>

Heal(k) ==
  \/ TakeOver(k) \/ Distrust(k) \/ Refuse(k) \/ Attach(k) \/ AttachFails(k) \/ WriteMeta(k)

Daemon == Start \/ Look \/ Remove \/ Clean \/ (\E k \in Kinds : Heal(k)) \/ SetMode

-----------------------------------------------------------------------------
(* The command line, the kernel and the machine *)

\* The maps stay with the programs that are attached, the rest is gone
ProcessEnds ==
  /\ pc' = "down" /\ todo' = <<>> /\ job' = NoJob
  /\ attachment' = {}
  /\ frozen' = IF \E i \in Ifaces : mine["xdp"][i] THEN strict ELSE frozen
  /\ strict' = FALSE /\ applied' = {}
  /\ refused' = FALSE

Crash ==
  /\ pc # "down" /\ ops < MaxOps
  /\ ProcessEnds
  /\ mine' = NotMine
  /\ ops' = ops + 1
  /\ UNCHANGED <<host, cfg, pin, meta, off>>

\* `off`: systemctl stop, whether or not it stops anything, then unpin_all
Off ==
  /\ pc \in {"down", "wait"} /\ ops < MaxOps
  /\ ProcessEnds \/ UNCHANGED <<pc, todo, job, attachment, udp, refused>>
  /\ LET free(f, none) == [k \in Kinds |-> [i \in Ifaces |->
                             IF i \in PinnedIfaces THEN none ELSE f[k][i]]]
     IN /\ pin' = free(pin, None)
        /\ meta' = free(meta, None)
        /\ mine' = IF pc' = "down" THEN NotMine ELSE free(mine, FALSE)
  /\ off' = TRUE
  /\ ops' = ops + 1
  /\ UNCHANGED <<host, cfg>>

SwitchOn ==
  /\ off /\ pc = "down"
  /\ off' = FALSE
  /\ UNCHANGED <<host, cfg, links, attachment, udp, pc, todo, job, ops, refused>>

\* A config reload of the daemon, or an edit while it is down
Reconfigure ==
  /\ pc \in {"down", "wait"} /\ ops < MaxOps
  /\ cfg' \in Config \ {cfg}
  /\ ops' = ops + 1
  /\ UNCHANGED <<host, links, attachment, udp, pc, todo, job, off, refused>>

IfaceGoes(i) ==
  /\ ifindex[i] # None /\ ops < MaxOps
  /\ ifindex' = [ifindex EXCEPT ![i] = None]
  /\ route' = IF route = i THEN NoIface ELSE route
  /\ ops' = ops + 1
  /\ UNCHANGED <<lastIndex, cfg, links, attachment, udp, pc, todo, job, off, refused>>

IfaceComes(i) ==
  /\ ifindex[i] = None /\ lastIndex < MaxIndex
  /\ ifindex' = [ifindex EXCEPT ![i] = lastIndex + 1]
  /\ lastIndex' = lastIndex + 1
  /\ UNCHANGED <<route, cfg, links, attachment, udp, pc, todo, job, off, ops, refused>>

RouteMoves ==
  /\ ops < MaxOps
  /\ \E i \in {j \in Ifaces : ifindex[j] # None} \cup {NoIface} : i # route /\ route' = i
  /\ ops' = ops + 1
  /\ UNCHANGED <<ifindex, lastIndex, cfg, links, attachment, udp, pc, todo, job, off, refused>>

\* The pins go, the metadata stays, indexes are handed out anew
Reboot ==
  /\ ops < MaxOps
  /\ ProcessEnds
  /\ pin' = Nowhere /\ mine' = NotMine
  /\ ifindex' \in [Ifaces -> 0 .. Cardinality(Ifaces)]
  /\ \A i, j \in Ifaces : ifindex'[i] = ifindex'[j] => i = j \/ ifindex'[i] = None
  /\ lastIndex' = Cardinality(Ifaces)
  /\ route' = NoIface
  /\ ops' = ops + 1
  /\ UNCHANGED <<cfg, meta, off>>

Environment ==
  \/ Crash \/ Off \/ SwitchOn \/ Reconfigure \/ RouteMoves \/ Reboot
  \/ \E i \in Ifaces : IfaceGoes(i) \/ IfaceComes(i)

Next == Daemon \/ Environment

Spec == Init /\ [][Next]_vars

\* The loop is driven by a 3 s timer, and systemd restarts the daemon
FairSpec == Spec /\ WF_vars(Daemon)

-----------------------------------------------------------------------------
FilterOn(i) == Live("xdp", i)
StrictOn(i) == FilterOn(i) /\ IF mine["xdp"][i] THEN strict ELSE frozen
Asked(i) == cfg.interface = i \/ (cfg.interface = AutoIface /\ route = i)

\* "Links left on interfaces we no longer guard" (daemon.rs:532): whatever
\* crashes, moves and restarts, two interfaces are never filtered at once, so
\* no filter with rules nobody updates is left behind on one of them.
OneFilter == Cardinality(PinnedIfaces) <= 1

TakenOffForCause ==
  \A i \in Ifaces :
    FilterOn(i) /\ ~mine["xdp"][i] /\ pin'["xdp"][i] = None /\ Daemon
      => \/ job.iface # i
         \/ meta["xdp"][i] # ifindex[i]
         \/ refused

\* "a restarted (or upgraded) daemon atomically swaps its freshly loaded programs
\* into the existing links, so there is no moment without a filter" (links.rs:6):
\* a daemon takes the filter an earlier one left off an interface only to guard
\* another one, because its link is not on record, or after a refused swap.
NoGap == [][TakenOffForCause]_vars

\* "Strict UDP without the egress program would drop every reply, DNS included"
\* (daemon.rs:339): on an interface that is to be guarded this may happen for a
\* moment, when it is replaced under heal's hands or heal dies, and ends by itself.
RepliesComeBack ==
  \A i \in Ifaces :
    (StrictOn(i) /\ ~Live("tc", i) /\ Asked(i))
      ~> (~StrictOn(i) \/ Live("tc", i) \/ ~Asked(i) \/ off)

\* An interface that is to be guarded and exists is guarded in the end, by the
\* running daemon's own program, however often attaching failed before.
GuardedInTheEnd ==
  \A i \in Ifaces :
    (Asked(i) /\ ifindex[i] # None)
      ~> ((FilterOn(i) /\ mine["xdp"][i]) \/ ~Asked(i) \/ ifindex[i] = None \/ off)
=============================================================================
