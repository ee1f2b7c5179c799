------------------------------- MODULE Doctor -------------------------------
(***************************************************************************)
(* The doctor: what it checks, the fixes it may apply, and the exception   *)
(* for VM bridges that the daemon keeps in place (doctor.rs, `doctor` and  *)
(* `fix` of main.rs, the daemon's loop).                                   *)
(*                                                                         *)
(* `ensure_vm_forwarding` looks at the VM bridges, lists the nft ruleset   *)
(* once, and then inserts two rules, one nft call each, into every forward *)
(* chain that drops by default and does not let the bridge out.  The       *)
(* daemon does so in its loop and `fix allow-vm-forwarding` in a process   *)
(* of its own, while Docker, ufw and the administrator change the same     *)
(* chains.                                                                 *)
(*                                                                         *)
(* A chain is its policy and how many of our rules it has for a bridge:    *)
(* they are inserted at the top, and all of them accept.  `other` are the  *)
(* bridges for which somebody else's rule accepts some of what they send,  *)
(* but not all.  Container bridges, whose managers make their own          *)
(* exceptions, are left out, and so are wording, severities and the time a *)
(* diagnosis takes; a finding is the fix it offers.                        *)
(***************************************************************************)
EXTENDS Integers, FiniteSets, Sequences, SequencesExt

CONSTANTS
  Chains,      \* base chains at the forward hook
  UfwChains,   \* those ufw made
  Bridges,     \* virbr*, lxdbr*, vmnet*
  Libvirt,     \* virbr*: libvirt masquerades them
  MaxRules,    \* bound: our rules of one kind for one bridge in a chain
  MaxOps       \* bound: environment steps, failures and commands

ASSUME DoctorAssumption ==
  /\ IsFiniteSet(Chains) /\ IsFiniteSet(Bridges)
  /\ UfwChains \subseteq Chains /\ Libvirt \subseteq Bridges
  /\ MaxRules \in Nat /\ MaxOps \in Nat

FIXES == {"start-firewall", "disable-ufw", "disable-firewalld", "enable-forwarding",
          "allow-vm-forwarding", "restart-libvirt-network", "restart-resolved",
          "unban-protected"}

Workers == {"daemon", "cli"}
NoPair == <<>>
IdleWorker == [st |-> "idle", bridges |-> {}, pairs |-> {}, at |-> NoPair, todo |-> <<>>]

RulesSlip == <<"out", "reply">>

\* What is inserted for a bridge, in this order: answers get in, the bridge gets out
Rules == <<"reply", "out">>

Worker == [st : {"idle", "fix", "list", "next", "insert"}, bridges : SUBSET Bridges,
           pairs : SUBSET (Chains \X Bridges), at : (Chains \X Bridges) \cup {NoPair},
           todo : {<<>>, <<"out">>, Rules}]

Host == [fw : {"alive", "stale", "frozen", "down", "absent"},  \* the status file says
         ufw : BOOLEAN, firewalld : BOOLEAN, resolved : BOOLEAN,
         route : BOOLEAN, internet : BOOLEAN, dns : BOOLEAN,
         ip_forward : BOOLEAN, banned : BOOLEAN]  \* a ban hit a protected address

Chain == [there : BOOLEAN, drop : BOOLEAN, out : [Bridges -> 0 .. MaxRules],
          reply : [Bridges -> 0 .. MaxRules], other : SUBSET Bridges]

VARIABLES
  host,      \* the rest of the machine
  chain,     \* the forward chains
  bridges,   \* VM bridges that exist
  nat,       \* bridges with a masquerade rule
  keep,      \* keep_vm_forwarding
  worker,    \* who runs -> where it is
  pending,   \* fixes the doctor has still to apply
  ops,       \* environment steps (bound)
  torn,      \* ghost: (chain, bridge) flushed between the two inserts
  doubled,   \* ghost: (chain, bridge) that two checks found blocking at the same time
  quiet,     \* ghost: nothing else happened since the doctor looked
  left       \* ghost: what a doctor that looks again after its fixes would still fix

net == <<host, bridges, nat, keep>>
ghosts == <<torn, doubled>>
vars == <<net, chain, worker, pending, ops, ghosts, quiet, left>>

TypeOK ==
  /\ host \in Host /\ chain \in [Chains -> Chain]
  /\ bridges \subseteq Bridges /\ nat \subseteq Libvirt /\ keep \in BOOLEAN
  /\ worker \in [Workers -> Worker] /\ pending \in Seq(FIXES)
  /\ torn \subseteq Chains \X Bridges /\ doubled \subseteq Chains \X Bridges

\* A chain without rules of ours
Bare(there, drop) == [there |-> there, drop |-> drop, out |-> [b \in Bridges |-> 0],
                      reply |-> [b \in Bridges |-> 0], other |-> {}]
Healthy == [fw |-> "alive", ufw |-> FALSE, firewalld |-> FALSE, resolved |-> TRUE,
            route |-> TRUE, internet |-> TRUE, dns |-> TRUE, ip_forward |-> TRUE,
            banned |-> FALSE]

Init ==
  /\ host = Healthy
  /\ chain = [c \in Chains |-> Bare(TRUE, TRUE)]
  /\ bridges \in SUBSET Bridges /\ nat = Libvirt
  /\ keep \in BOOLEAN
  /\ worker = [w \in Workers |-> IdleWorker] /\ pending = <<>>
  /\ ops = 0 /\ torn = {} /\ doubled = {} /\ quiet = FALSE /\ left = {}

-----------------------------------------------------------------------------
(* What the ruleset says *)

BlockingSlip(b) ==
  {c \in Chains : chain[c].there /\ chain[c].drop /\ chain[c].reply[b] = 0 /\ b \notin chain[c].other}

\* Forward chains that drop by default and have no accepting line that names the
\* bridge as where the packet comes from
Blocking(b) ==
  {c \in Chains : chain[c].there /\ chain[c].drop /\ chain[c].out[b] = 0 /\ b \notin chain[c].other}

\* What the packets meet: a VM is on line when it gets out and is answered
Online(b) ==
  \A c \in Chains : chain[c].there /\ chain[c].drop => chain[c].out[b] > 0 /\ chain[c].reply[b] > 0

-----------------------------------------------------------------------------
(* The checks, in order; each gives the fixes it offers *)

Offer(cond, fix) == IF cond THEN <<fix>> ELSE <<>>

CheckFirewall ==
  Offer(host.fw \in {"stale", "frozen", "down"}, "start-firewall")
  \o Offer(host.ufw, "disable-ufw") \o Offer(host.firewalld, "disable-firewalld")

CheckConnectivity ==
  Offer(host.route /\ host.internet /\ ~host.dns /\ host.resolved, "restart-resolved")

CheckBridge(b) ==
  Offer(Blocking(b) # {}, "allow-vm-forwarding")
  \o Offer(b \in Libvirt \ nat, "restart-libvirt-network")

\* What is found on the bridges one after the other, up to the n-th
CheckBridges[n \in 0 .. Cardinality(bridges)] ==
  IF n = 0 THEN <<>> ELSE CheckBridges[n - 1] \o CheckBridge(SetToSeq(bridges)[n])

CheckVms(root) ==
  Offer(bridges # {} /\ ~host.ip_forward, "enable-forwarding")
  \o IF root THEN CheckBridges[Cardinality(bridges)] ELSE <<>>

CheckBans(root) == Offer(root /\ host.banned, "unban-protected")

Diagnose(root) == CheckFirewall \o CheckConnectivity \o CheckVms(root) \o CheckBans(root)

-----------------------------------------------------------------------------
(* ensure_vm_forwarding *)

Set(w, rec) == worker' = [worker EXCEPT ![w] = rec]
Rest == UNCHANGED <<net, pending, ops, quiet, left>>

\* Where a worker goes when its check is over, or failed
Over(w) == [worker[w] EXCEPT !.st = IF w = "cli" THEN "fix" ELSE "idle", !.bridges = {},
                             !.pairs = {}, !.at = NoPair, !.todo = <<>>]

LookAtBridges(w) ==
  Set(w, IF bridges = {} THEN Over(w)
         ELSE [worker[w] EXCEPT !.st = "list", !.bridges = bridges])

TodoSlip(w) ==
  LET all == {p \in Chains \X worker[w].bridges : p[1] \in Blocking(p[2])} IN
  IF all = {} THEN {} ELSE {CHOOSE p \in all : TRUE}

Todo(w) == {p \in Chains \X worker[w].bridges : p[1] \in Blocking(p[2])}

\* One listing serves for all the inserts
List(w) ==
  /\ worker[w].st = "list"
  /\ Set(w, [worker[w] EXCEPT !.st = "next", !.pairs = Todo(w)])
  /\ doubled' = doubled \cup {p \in Todo(w) : \E v \in Workers \ {w} :
                                p \in worker[v].pairs \/ p = worker[v].at}
  /\ UNCHANGED <<chain, torn>> /\ Rest

NextPair(w) ==
  /\ worker[w].st = "next"
  /\ \/ worker[w].pairs = {} /\ Set(w, Over(w))
     \/ \E p \in worker[w].pairs :
          Set(w, [worker[w] EXCEPT !.st = "insert", !.at = p, !.pairs = @ \ {p}, !.todo = Rules])
  /\ UNCHANGED <<chain, ghosts>> /\ Rest

\* One nft call; it fails when the chain is gone
Insert(w) ==
  /\ worker[w].st = "insert"
  /\ LET c == worker[w].at[1]  b == worker[w].at[2]  rule == Head(worker[w].todo) IN
     IF chain[c].there
     THEN /\ chain[c][rule][b] < MaxRules
          /\ chain' = [chain EXCEPT ![c][rule][b] = @ + 1]
          /\ Set(w, IF Len(worker[w].todo) = 1
                    THEN [worker[w] EXCEPT !.st = "next", !.at = NoPair, !.todo = <<>>]
                    ELSE [worker[w] EXCEPT !.todo = Tail(@)])
     ELSE UNCHANGED chain /\ Set(w, Over(w))
  /\ UNCHANGED ghosts /\ Rest

\* nft does not run, or refuses: the check ends there, with what it has done
NftFails(w) ==
  /\ worker[w].st \in {"list", "insert"}
  /\ ops < MaxOps /\ ops' = ops + 1 /\ quiet' = FALSE
  /\ Set(w, Over(w))
  /\ UNCHANGED <<net, chain, pending, ghosts, left>>

Check(w) == List(w) \/ NextPair(w) \/ Insert(w)

\* Every PROTECT_REFRESH_TICKS ticks of the daemon's loop
DaemonChecks ==
  /\ host.fw = "alive" /\ keep /\ worker["daemon"].st = "idle"
  /\ LookAtBridges("daemon")
  /\ UNCHANGED <<chain, ghosts>> /\ Rest

-----------------------------------------------------------------------------
(* `doctor --fix` and `fix <id>` *)

\* The findings are made once, before the first fix; fixing needs root
RunDoctor ==
  /\ worker["cli"].st = "idle" /\ ops < MaxOps /\ ops' = ops + 1
  /\ \/ Set("cli", [IdleWorker EXCEPT !.st = "fix"]) /\ pending' = Diagnose(TRUE)
     \/ UNCHANGED <<worker, pending>>   \* not root
  /\ quiet' = TRUE /\ left' = {}
  /\ UNCHANGED <<net, chain, ghosts>>

\* An id that is not on the list is refused
RunFix ==
  /\ worker["cli"].st = "idle" /\ ops < MaxOps /\ ops' = ops + 1
  /\ Set("cli", [IdleWorker EXCEPT !.st = "fix"]) /\ \E id \in FIXES : pending' = <<id>>
  /\ quiet' = FALSE /\ left' = {}
  /\ UNCHANGED <<net, chain, ghosts>>

\* The answer to "[y/N]" was not y
Declined ==
  /\ worker["cli"].st = "fix" /\ pending # <<>>
  /\ pending' = Tail(pending)
  /\ quiet' = FALSE
  /\ UNCHANGED <<net, chain, worker, ghosts, ops, left>>

\* The commands of a fix, as far as the machine shows them; names that still do
\* not resolve are the servers' fault
Fixed(id) ==
  CASE id = "start-firewall" -> {[host EXCEPT !.fw = "alive"]}
    [] id = "disable-ufw" -> {[host EXCEPT !.ufw = FALSE]}
    [] id = "disable-firewalld" -> {[host EXCEPT !.firewalld = FALSE]}
    [] id = "enable-forwarding" -> {[host EXCEPT !.ip_forward = TRUE]}
    [] id = "restart-resolved" -> {[host EXCEPT !.dns = d] : d \in BOOLEAN}
    [] id = "unban-protected" -> {[host EXCEPT !.banned = FALSE]}
    [] id \in {"restart-libvirt-network", "allow-vm-forwarding"} -> {host}

\* Nothing but the listed commands; allow-vm-forwarding becomes a check
Apply ==
  /\ worker["cli"].st = "fix" /\ pending # <<>>
  /\ LET id == Head(pending) IN
     /\ host' \in Fixed(id)
     /\ nat' = IF id = "restart-libvirt-network" THEN Libvirt ELSE nat
     /\ chain' = [c \in Chains |-> IF id = "disable-ufw" /\ c \in UfwChains
                                   THEN [chain[c] EXCEPT !.drop = FALSE] ELSE chain[c]]
     /\ IF id = "allow-vm-forwarding" THEN LookAtBridges("cli") ELSE UNCHANGED worker
  /\ pending' = Tail(pending)
  /\ UNCHANGED <<bridges, keep, ops, ghosts, quiet, left>>

\* One that fails, perhaps after its first command, is reported; the next follows
ApplyFails ==
  /\ worker["cli"].st = "fix" /\ pending # <<>>
  /\ ops < MaxOps /\ ops' = ops + 1 /\ quiet' = FALSE
  /\ pending' = Tail(pending)
  /\ host' \in Fixed(Head(pending)) \cup {host}
  /\ UNCHANGED <<bridges, nat, keep, chain, worker, ghosts, left>>

DoctorEnds ==
  /\ worker["cli"].st = "fix" /\ pending = <<>>
  /\ Set("cli", IdleWorker)
  /\ left' = IF quiet THEN ToSet(Diagnose(TRUE)) ELSE {}
  /\ UNCHANGED <<net, chain, pending, ops, ghosts, quiet>>

Cli == RunDoctor \/ RunFix \/ Declined \/ Apply \/ ApplyFails \/ DoctorEnds

-----------------------------------------------------------------------------
(* The machine around it *)

Outside == ops < MaxOps /\ ops' = ops + 1 /\ quiet' = FALSE /\ UNCHANGED <<left, doubled>>

\* Docker or another firewall builds a chain anew or takes it away, with the
\* rules others had put there
Rebuild(c) ==
  /\ \E there, drop \in BOOLEAN : chain' = [chain EXCEPT ![c] = Bare(there, drop)]
  /\ torn' = {p \in torn : p[1] # c}
              \cup {worker[w].at : w \in {v \in Workers :
                       /\ worker[v].st = "insert" /\ worker[v].at[1] = c
                       /\ worker[v].todo # Rules}}
  /\ Outside /\ UNCHANGED <<net, worker, pending>>

\* A policy is changed, or a rule added that lets the bridge reach some place
Retouch(c) ==
  /\ chain[c].there
  /\ \/ chain' = [chain EXCEPT ![c].drop = ~@]
     \/ \E b \in Bridges : chain' = [chain EXCEPT ![c].other = @ \cup {b}]
  /\ Outside /\ UNCHANGED <<net, worker, pending, torn>>

\* VM networks come and go, NAT rules get lost, the config is edited
NetworkChanges ==
  /\ \/ \E b \in Bridges : bridges' = (bridges \ {b}) \cup ({b} \ bridges)
        /\ UNCHANGED <<nat, keep>>
     \/ nat' = {} /\ UNCHANGED <<bridges, keep>>
     \/ keep' = ~keep /\ UNCHANGED <<bridges, nat>>
  /\ Outside /\ UNCHANGED <<host, chain, worker, pending, torn>>

\* Something on the machine changes; with the daemon its check ends
HostChanges ==
  /\ \/ \E x \in BOOLEAN, f \in {"ufw", "firewalld", "resolved", "route", "internet", "dns",
                                   "ip_forward", "banned"} : host' = [host EXCEPT ![f] = x]
        /\ UNCHANGED worker
     \/ \E x \in {"stale", "frozen", "down", "absent", "alive"} :
          /\ host' = [host EXCEPT !.fw = x]
          /\ Set("daemon", IdleWorker)
  /\ Outside /\ UNCHANGED <<chain, bridges, nat, keep, pending, torn>>

\* The command is interrupted
Interrupted ==
  /\ worker["cli"].st # "idle" /\ Set("cli", IdleWorker) /\ pending' = <<>>
  /\ Outside /\ UNCHANGED <<net, chain, torn>>

Environment ==
  \/ NetworkChanges \/ HostChanges \/ Interrupted
  \/ \E c \in Chains : Rebuild(c) \/ Retouch(c)

-----------------------------------------------------------------------------
\* No check, no bridge: nothing is left to do
Nothing == ops = MaxOps /\ (~keep \/ host.fw # "alive") /\ UNCHANGED vars

Next ==
  \/ DaemonChecks \/ Cli \/ Environment \/ Nothing
  \/ \E w \in Workers : Check(w) \/ NftFails(w)

\* The daemon's loop goes on and nft answers; whether the user runs the doctor is open
Spec ==
  /\ Init /\ [][Next]_vars
  /\ WF_vars(DaemonChecks) /\ WF_vars(Check("daemon"))

-----------------------------------------------------------------------------
(* Properties *)

\* A hole in a chain is one way out and the way back for the answers: a check
\* that fails, dies or meets another one halfway never leaves the first without
\* the second, and never adds a second one, unless two checks found the same
\* chain blocking or the chain was rebuilt between the two calls
\* (doctor.rs `ensure_vm_forwarding`).
HolesArePairs ==
  \A c \in Chains, b \in Bridges : <<c, b>> \notin torn \cup doubled =>
    /\ chain[c].out[b] <= 1
    /\ chain[c].out[b] = 1 => chain[c].reply[b] >= 1

\* The daemon puts the VM exception back: however the chains change, a VM bridge
\* is on line again in the end while the daemon keeps it so, but for chains with
\* a narrower rule that names the bridge and for a torn pair, which both count
\* as a way out (doctor.rs `blocking_forward_chains`; README.md:90).
HealsVms ==
  \A b \in Bridges :
    b \in bridges ~>
      \/ b \notin bridges \/ ~keep \/ host.fw # "alive" \/ Online(b)
      \/ \E c \in Chains : b \in chain[c].other \/ <<c, b>> \in torn

\* A doctor whose fixes were all applied, with nothing else going on, has nothing
\* left to fix when it looks again, except names that do not resolve
\* (doctor.rs `diagnose`, `apply`; main.rs `doctor`).
FixesClear == left \subseteq {"restart-resolved"}
=============================================================================
