-------------------------- MODULE AttachmentProofs --------------------------
(***************************************************************************)
(* Proofs about attaching: at most one interface is filtered, and a filter *)
(* an earlier process left is only taken off for one of the three reasons  *)
(* the code knows.  Both depend on what heal knows at each of its steps.   *)
(***************************************************************************)
EXTENDS Attachment, FiniteSetTheorems, SequenceTheorems, TLAPS

LEMMA KindIs == ASSUME NEW k \in Kinds PROVE k = "tc" \/ k = "xdp"
BY DEF Kinds

LEMMA SetOneKeepsType ==
  ASSUME NEW S, NEW f \in [Kinds -> [Ifaces -> S]], NEW k \in Kinds, NEW i \in Ifaces, NEW x \in S
  PROVE  [f EXCEPT ![k][i] = x] \in [Kinds -> [Ifaces -> S]]
<1>1. [f[k] EXCEPT ![i] = x] \in [Ifaces -> S]
  OBVIOUS
<1> QED
  BY <1>1

(* One entry of one of the maps of links is set. *)
SetAt(f, k, i, x) == [f EXCEPT ![k][i] = x]

LEMMA SetOneAt ==
  ASSUME NEW S, NEW f \in [Kinds -> [Ifaces -> S]], NEW k \in Kinds, NEW i \in Ifaces, NEW x,
         NEW m \in Kinds, NEW j \in Ifaces
  PROVE  SetAt(f, k, i, x)[m][j] = IF m = k /\ j = i THEN x ELSE f[m][j]
<1>1. CASE m = k
  BY <1>1 DEF SetAt
<1>2. CASE m # k
  BY <1>2 DEF SetAt
<1> QED
  BY <1>1, <1>2

LEMMA PinAt ==
  ASSUME TypeOK, NEW k \in Kinds, NEW i \in Ifaces, NEW x, pin' = SetAt(pin, k, i, x)
  PROVE  \A j \in Ifaces : pin'["xdp"][j] = IF "xdp" = k /\ j = i THEN x ELSE pin["xdp"][j]
<1>0. pin \in [Kinds -> [Ifaces -> Nat]]
  BY DEF TypeOK, Place
<1>1. ASSUME NEW m \in Kinds, NEW j \in Ifaces
      PROVE  SetAt(pin, k, i, x)[m][j] = IF m = k /\ j = i THEN x ELSE pin[m][j]
  <2>1. CASE m = k
    BY <1>0, <2>1 DEF SetAt
  <2>2. CASE m # k
    BY <1>0, <2>2 DEF SetAt
  <2> QED
    BY <2>1, <2>2
<1>2. "xdp" \in Kinds
  BY DEF Kinds
<1>3. ASSUME NEW j \in Ifaces
      PROVE  SetAt(pin, k, i, x)["xdp"][j] = IF "xdp" = k /\ j = i THEN x ELSE pin["xdp"][j]
  BY <1>1, <1>2, Zenon
<1> QED
  BY <1>3, Zenon

LEMMA MetaAt ==
  ASSUME TypeOK, NEW k \in Kinds, NEW i \in Ifaces, NEW x, meta' = SetAt(meta, k, i, x)
  PROVE  \A j \in Ifaces : meta'["xdp"][j] = IF "xdp" = k /\ j = i THEN x ELSE meta["xdp"][j]
<1>0. meta \in [Kinds -> [Ifaces -> Nat]]
  BY DEF TypeOK, Place
<1>1. ASSUME NEW m \in Kinds, NEW j \in Ifaces
      PROVE  SetAt(meta, k, i, x)[m][j] = IF m = k /\ j = i THEN x ELSE meta[m][j]
  <2>1. CASE m = k
    BY <1>0, <2>1 DEF SetAt
  <2>2. CASE m # k
    BY <1>0, <2>2 DEF SetAt
  <2> QED
    BY <2>1, <2>2
<1>2. "xdp" \in Kinds
  BY DEF Kinds
<1>3. ASSUME NEW j \in Ifaces
      PROVE  SetAt(meta, k, i, x)["xdp"][j] = IF "xdp" = k /\ j = i THEN x ELSE meta["xdp"][j]
  BY <1>1, <1>2, Zenon
<1> QED
  BY <1>3, Zenon

LEMMA MineAt ==
  ASSUME TypeOK, NEW k \in Kinds, NEW i \in Ifaces, NEW x, mine' = SetAt(mine, k, i, x)
  PROVE  \A j \in Ifaces : mine'["xdp"][j] = IF "xdp" = k /\ j = i THEN x ELSE mine["xdp"][j]
<1>0. mine \in [Kinds -> [Ifaces -> BOOLEAN]]
  BY DEF TypeOK
<1>1. ASSUME NEW m \in Kinds, NEW j \in Ifaces
      PROVE  SetAt(mine, k, i, x)[m][j] = IF m = k /\ j = i THEN x ELSE mine[m][j]
  <2>1. CASE m = k
    BY <1>0, <2>1 DEF SetAt
  <2>2. CASE m # k
    BY <1>0, <2>2 DEF SetAt
  <2> QED
    BY <2>1, <2>2
<1>2. "xdp" \in Kinds
  BY DEF Kinds
<1>3. ASSUME NEW j \in Ifaces
      PROVE  SetAt(mine, k, i, x)["xdp"][j] = IF "xdp" = k /\ j = i THEN x ELSE mine["xdp"][j]
  BY <1>1, <1>2, Zenon
<1> QED
  BY <1>3, Zenon

LEMMA UnpinIsFiles ==
  ASSUME NEW k \in Kinds, NEW i \in Ifaces
  PROVE  Unpin(k, i) \in Seq(Files)
<1>1. <<"pin", k, i>> \in Files /\ <<"meta", k, i>> \in Files
  BY DEF Files
<1> HIDE DEF Files
<1> QED
  BY <1>1 DEF Unpin

LEMMA UnpinBothIsFiles ==
  ASSUME NEW i \in Ifaces
  PROVE  Unpin("xdp", i) \o Unpin("tc", i) \in Seq(Files)
<1>1. Unpin("xdp", i) \in Seq(Files) /\ Unpin("tc", i) \in Seq(Files)
  BY UnpinIsFiles DEF Kinds
<1> QED
  BY <1>1

LEMMA HeadIsFile ==
  ASSUME TypeOK, todo # <<>>
  PROVE  /\ Head(todo)[1] \in {"pin", "meta"} /\ Head(todo)[2] \in Kinds /\ Head(todo)[3] \in Ifaces
         /\ Tail(todo) \in Seq(Files)
<1>1. todo \in Seq(Files)
  BY DEF TypeOK
<1>2. Head(todo) \in Files /\ Tail(todo) \in Seq(Files)
  BY <1>1
<1> QED
  BY <1>2 DEF Files

LEMMA WantedIs ==
  ASSUME TypeOK
  PROVE  Wanted \in Ifaces \cup {NoIface}
<1>1. attachment # {} => (CHOOSE a \in attachment : TRUE) \in attachment
  OBVIOUS
<1> QED
  BY <1>1 DEF Wanted, TypeOK, Config

LEMMA NothingIsTyped == /\ Nowhere \in Place /\ NotMine \in [Kinds -> [Ifaces -> BOOLEAN]]
                        /\ NoJob \in [iface : Ifaces \cup {NoIface}, ifindex : Nat, egress : BOOLEAN]
                        /\ <<>> \in Seq(Files)
BY DEF Nowhere, NotMine, NoJob, Place, None

-----------------------------------------------------------------------------
(* The end of a process keeps every type it touches. *)
LEMMA EndTypes ==
  ASSUME TypeOK, ProcessEnds
  PROVE  /\ pc' = "down" /\ todo' = <<>> /\ job' = NoJob /\ attachment' = {}
         /\ strict' \in BOOLEAN /\ frozen' \in BOOLEAN /\ applied' \in SUBSET BOOLEAN
         /\ refused' = FALSE
BY DEF ProcessEnds, TypeOK

(* The two ways out of a program's part of heal. *)
LEMMA OutcomeTypes ==
  ASSUME TypeOK, NEW k \in Kinds, pc \in Working, Attached(k) \/ NotAttached(k)
  PROVE  /\ pc' \in {"xdp", "mode"}
         /\ attachment' \in SUBSET [iface : Ifaces, ifindex : Nat, egress : BOOLEAN]
         /\ \A a, b \in attachment' : a = b
         /\ job' \in [iface : Ifaces \cup {NoIface}, ifindex : Nat, egress : BOOLEAN]
         /\ pc' \in Working => job'.iface \in Ifaces
         /\ pc' = "xdp" => job'.iface = job.iface /\ job'.ifindex = job.ifindex
<1>1. job.iface \in Ifaces /\ job \in [iface : Ifaces, ifindex : Nat, egress : BOOLEAN]
  BY DEF TypeOK
<1>2. CASE k = "tc"
  <2>1. job' = [job EXCEPT !.egress = TRUE] \/ job' = job
    BY <1>2 DEF Attached, NotAttached
  <2>2. pc' = "xdp" /\ attachment' = attachment
    BY <1>2 DEF Attached, NotAttached
  <2>3. job' \in [iface : Ifaces, ifindex : Nat, egress : BOOLEAN]
        /\ job'.iface = job.iface /\ job'.ifindex = job.ifindex
    BY <1>1, <2>1
  <2> QED
    BY <2>2, <2>3 DEF TypeOK
<1>3. CASE k = "xdp"
  <2>1. pc' = "mode" /\ job' = NoJob /\ (attachment' = {job} \/ attachment' = attachment)
    BY <1>3 DEF Attached, NotAttached
  <2> QED
    BY <1>1, <2>1, NothingIsTyped DEF TypeOK, Working
<1> QED
  BY <1>2, <1>3, KindIs

LEMMA DaemonKeepsType ==
  ASSUME TypeOK, Daemon
  PROVE  TypeOK'
<1>1. CASE Start
  BY <1>1 DEF Start, TypeOK, host, links, udp, Pcs, Working
<1>2. CASE Look
  <2>1. CASE \E a \in attachment : InPlace(a)
    BY <1>2, <2>1 DEF Look, TypeOK, host, links, udp, Pcs, Working
  <2>2. CASE ~\E a \in attachment : InPlace(a)
    <3>1. /\ job' = [NoJob EXCEPT !.iface = Wanted] /\ attachment' = {} /\ pc' = "clean"
          /\ refused' = FALSE /\ UNCHANGED <<host, cfg, links, udp, off, ops>>
      BY <1>2, <2>2 DEF Look
    <3>2. job' \in [iface : Ifaces \cup {NoIface}, ifindex : Nat, egress : BOOLEAN]
      BY <3>1, WantedIs DEF NoJob, None
    <3>3. todo' \in Seq(Files)
      <4>1. CASE attachment = {}
        BY <1>2, <2>2, <4>1 DEF Look
      <4>2. CASE attachment # {}
        <5>1. PICK a \in attachment : a = CHOOSE b \in attachment : TRUE
          BY <4>2
        <5>2. todo' = Unpin("xdp", a.iface) \o Unpin("tc", a.iface)
          BY <1>2, <2>2, <4>2, <5>1 DEF Look
        <5>3. a.iface \in Ifaces
          BY DEF TypeOK
        <5> QED
          BY <5>2, <5>3, UnpinBothIsFiles
      <4> QED
        BY <4>1, <4>2
    <3> QED
      BY <3>1, <3>2, <3>3 DEF TypeOK, host, links, udp, Pcs, Working
  <2> QED
    BY <2>1, <2>2
<1>3. CASE Remove
  <2>1. todo # <<>>
    BY <1>3 DEF Remove
  <2>2. /\ Head(todo)[1] \in {"pin", "meta"} /\ Head(todo)[2] \in Kinds /\ Head(todo)[3] \in Ifaces
        /\ Tail(todo) \in Seq(Files)
    BY <2>1, HeadIsFile
  <2>3. /\ pin' \in Place /\ meta' \in Place /\ mine' \in [Kinds -> [Ifaces -> BOOLEAN]]
    <3> DEFINE k == Head(todo)[2]
               i == Head(todo)[3]
    <3>1. \/ /\ pin' = [pin EXCEPT ![k][i] = None] /\ mine' = [mine EXCEPT ![k][i] = FALSE]
             /\ meta' = meta
          \/ meta' = [meta EXCEPT ![k][i] = None] /\ UNCHANGED <<pin, mine>>
      BY <1>3 DEF Remove
    <3>2. k \in Kinds /\ i \in Ifaces /\ None \in Nat
      BY <2>2 DEF None
    <3> HIDE DEF k, i
    <3>3. /\ [pin EXCEPT ![k][i] = None] \in Place /\ [meta EXCEPT ![k][i] = None] \in Place
          /\ [mine EXCEPT ![k][i] = FALSE] \in [Kinds -> [Ifaces -> BOOLEAN]]
      BY <3>2, SetOneKeepsType DEF TypeOK, Place
    <3> QED
      BY <3>1, <3>3 DEF TypeOK
  <2> QED
    BY <1>3, <2>2, <2>3 DEF Remove, TypeOK, host, udp
<1>4. CASE Clean
  <2>1. /\ todo' \in Seq(Files)
    <3>1. CASE todo' = todo
      BY <3>1 DEF TypeOK
    <3>2. CASE \E i \in Others : todo' = Unpin("xdp", i) \o Unpin("tc", i)
      <4>1. PICK i \in Ifaces : todo' = Unpin("xdp", i) \o Unpin("tc", i)
        BY <3>2 DEF Others, PinnedIfaces
      <4> QED
        BY <4>1, UnpinBothIsFiles
    <3> QED
      BY <1>4, <3>1, <3>2 DEF Clean
  <2>2. /\ pc' \in Pcs /\ job' \in [iface : Ifaces \cup {NoIface}, ifindex : Nat, egress : BOOLEAN]
        /\ pc' \in Working => job'.iface \in Ifaces
    <3>1. CASE UNCHANGED job
      BY <1>4, <3>1 DEF Clean, TypeOK, Pcs, Working
    <3>2. CASE job.iface # NoIface /\ job' = [job EXCEPT !.ifindex = ifindex[job.iface]]
      <4>1. job.iface \in Ifaces
        BY <3>2 DEF TypeOK
      <4> QED
        BY <1>4, <3>2, <4>1 DEF Clean, TypeOK, Pcs, Working
    <3> QED
      BY <1>4, <3>1, <3>2 DEF Clean
  <2> QED
    BY <1>4, <2>1, <2>2 DEF Clean, TypeOK, host, links, udp
<1>5. ASSUME NEW k \in Kinds, Heal(k) PROVE TypeOK'
  <2>1. pc \in Working
    BY <1>5, KindIs DEF Heal, TakeOver, Distrust, Refuse, Attach, AttachFails, WriteMeta, Attaching, Recording, Working, Pcs
  <2>2. job.iface \in Ifaces /\ job.ifindex \in Nat
    BY <2>1 DEF TypeOK
  <2>3. CASE TakeOver(k)
    <3>1. mine' \in [Kinds -> [Ifaces -> BOOLEAN]]
      BY <2>2, <2>3 DEF TakeOver, TypeOK
    <3>2. UNCHANGED <<host, cfg, pin, meta, udp, todo, off, ops, refused>> /\ Attached(k)
      BY <2>3 DEF TakeOver
    <3> QED
      BY <2>1, <3>1, <3>2, OutcomeTypes DEF TypeOK, host, udp, Pcs
  <2>4. CASE Distrust(k) \/ Refuse(k)
    <3>1. pc' \in Pcs
      BY <2>4, KindIs DEF Distrust, Refuse, Attaching, Pcs
    <3>2. todo' \in Seq(Files)
      <4>1. todo' = Unpin(k, job.iface) \/ todo' = <<>>
        BY <2>4 DEF Distrust, Refuse
      <4> QED
        BY <2>2, <4>1, UnpinIsFiles, NothingIsTyped, Zenon
    <3>3. UNCHANGED <<host, cfg, links, attachment, udp, job, off>> 
      BY <2>4 DEF Distrust, Refuse
    <3>4. /\ refused' = refused \/ refused' = TRUE
          /\ ops' = ops \/ ops' = ops + 1
      BY <2>4 DEF Distrust, Refuse
    <3>5. ops' \in Nat
      BY <3>4 DEF TypeOK
    <3>6. refused' \in BOOLEAN
      BY <3>4, Zenon DEF TypeOK
    <3> QED
      BY <2>2, <3>1, <3>2, <3>3, <3>5, <3>6 DEF TypeOK, host, links, udp
  <2>5. CASE Attach(k)
    <3>1. pc' \in Pcs
      BY <2>5, KindIs DEF Attach, Recording, Pcs
    <3>2. pin' \in Place /\ mine' \in [Kinds -> [Ifaces -> BOOLEAN]]
      BY <2>2, <2>5 DEF Attach, TypeOK, Place
    <3> QED
      BY <2>2, <2>5, <3>1, <3>2 DEF Attach, TypeOK, host, udp
  <2>6. CASE AttachFails(k)
    <3>1. UNCHANGED <<host, cfg, links, udp, todo, off, refused>> /\ NotAttached(k) /\ ops' \in Nat
      BY <2>6 DEF AttachFails, TypeOK
    <3> QED
      BY <2>1, <3>1, OutcomeTypes DEF TypeOK, host, links, udp, Pcs
  <2>7. CASE WriteMeta(k)
    <3>1. meta' \in Place
      <4>1. \/ meta' = [meta EXCEPT ![k][job.iface] = job.ifindex]
            \/ meta' = [meta EXCEPT ![k][job.iface] = None] \/ meta' = meta
        BY <2>7 DEF WriteMeta
      <4>2. /\ [meta EXCEPT ![k][job.iface] = job.ifindex] \in Place
            /\ [meta EXCEPT ![k][job.iface] = None] \in Place
        BY <2>2, SetOneKeepsType DEF TypeOK, Place, None
      <4> QED
        BY <4>1, <4>2 DEF TypeOK
    <3>2. UNCHANGED <<host, cfg, pin, mine, udp, todo, off, refused>> /\ Attached(k) /\ ops' \in Nat
      BY <2>7 DEF WriteMeta, TypeOK
    <3> QED
      BY <2>1, <3>1, <3>2, OutcomeTypes DEF TypeOK, host, udp, Pcs
  <2> QED
    BY <1>5, <2>3, <2>4, <2>5, <2>6, <2>7 DEF Heal
<1>6. CASE SetMode
  <2>1. StrictNow \in BOOLEAN
    BY DEF StrictNow, TypeOK, Config
  <2> HIDE DEF StrictNow
  <2>2. strict' \in BOOLEAN /\ applied' \in SUBSET BOOLEAN /\ ops' \in Nat /\ pc' = "wait"
    BY <1>6, <2>1 DEF SetMode, TypeOK
  <2> QED
    BY <1>6, <2>2 DEF SetMode, TypeOK, host, links, Pcs, Working
<1> QED
  BY <1>1, <1>2, <1>3, <1>4, <1>5, <1>6 DEF Daemon

LEMMA EnvironmentKeepsType ==
  ASSUME TypeOK, Environment
  PROVE  TypeOK'
<1>1. CASE Crash
  <2>1. mine' \in [Kinds -> [Ifaces -> BOOLEAN]] /\ ops' \in Nat
    BY <1>1, NothingIsTyped DEF Crash, TypeOK
  <2>2. UNCHANGED <<host, cfg, pin, meta, off>> /\ ProcessEnds
    BY <1>1 DEF Crash
  <2> QED
    BY <2>1, <2>2, EndTypes, NothingIsTyped DEF TypeOK, host, Pcs, Working
<1>2. CASE Off
  <2>1. /\ pin' = [k \in Kinds |-> [i \in Ifaces |-> IF i \in PinnedIfaces THEN None ELSE pin[k][i]]]
        /\ meta' = [k \in Kinds |-> [i \in Ifaces |-> IF i \in PinnedIfaces THEN None ELSE meta[k][i]]]
        /\ \/ mine' = NotMine
           \/ mine' = [k \in Kinds |-> [i \in Ifaces |-> IF i \in PinnedIfaces THEN FALSE ELSE mine[k][i]]]
    BY <1>2 DEF Off
  <2>2. pin' \in Place /\ meta' \in Place
    BY <2>1 DEF TypeOK, Place, None
  <2>3. mine' \in [Kinds -> [Ifaces -> BOOLEAN]]
    <3>1. ASSUME NEW k \in Kinds, NEW i \in Ifaces
          PROVE  (IF i \in PinnedIfaces THEN FALSE ELSE mine[k][i]) \in BOOLEAN
      <4>1. mine[k][i] \in BOOLEAN
        BY DEF TypeOK
      <4> QED
        BY <4>1, Zenon
    <3>2. [k \in Kinds |-> [i \in Ifaces |-> IF i \in PinnedIfaces THEN FALSE ELSE mine[k][i]]]
            \in [Kinds -> [Ifaces -> BOOLEAN]]
      BY <3>1
    <3> QED
      BY <2>1, <3>2, NothingIsTyped
  <2>4. UNCHANGED <<host, cfg>> /\ off' = TRUE /\ ops' \in Nat
    BY <1>2 DEF Off, TypeOK
  <2>5. CASE ProcessEnds
    BY <2>2, <2>3, <2>4, <2>5, EndTypes, NothingIsTyped DEF TypeOK, host, Pcs, Working
  <2>6. CASE UNCHANGED <<pc, todo, job, attachment, udp, refused>>
    BY <2>2, <2>3, <2>4, <2>6 DEF TypeOK, host, udp
  <2> QED
    BY <1>2, <2>5, <2>6 DEF Off
<1>3. CASE SwitchOn
  BY <1>3 DEF SwitchOn, TypeOK, host, links, udp
<1>4. CASE Reconfigure
  BY <1>4 DEF Reconfigure, TypeOK, host, links, udp
<1>5. CASE RouteMoves
  BY <1>5 DEF RouteMoves, TypeOK, links, udp
<1>6. CASE Reboot
  <2>1. /\ pin' = Nowhere /\ mine' = NotMine /\ UNCHANGED <<cfg, meta, off>> /\ ProcessEnds
        /\ route' = NoIface /\ lastIndex' = Cardinality(Ifaces)
        /\ ifindex' \in [Ifaces -> 0 .. Cardinality(Ifaces)] /\ ops' \in Nat
    BY <1>6 DEF Reboot, TypeOK
  <2>2. Cardinality(Ifaces) \in Nat
    BY IfaceAssumption, FS_CardinalityType
  <2>3. ifindex' \in [Ifaces -> Nat]
    BY <2>1, <2>2
  <2> QED
    BY <2>1, <2>2, <2>3, EndTypes, NothingIsTyped DEF TypeOK, Pcs, Working
<1>7. ASSUME NEW i \in Ifaces, IfaceGoes(i) PROVE TypeOK'
  BY <1>7 DEF IfaceGoes, TypeOK, links, udp, None
<1>8. ASSUME NEW i \in Ifaces, IfaceComes(i) PROVE TypeOK'
  BY <1>8 DEF IfaceComes, TypeOK, links, udp
<1> QED
  BY <1>1, <1>2, <1>3, <1>4, <1>5, <1>6, <1>7, <1>8 DEF Environment

(* Every pin, record and attachment is what its type says; in particular    *)
(* heal never attaches to, or records, "no interface" (daemon.rs heal).     *)
THEOREM TypeCorrect == Spec => []TypeOK
<1>1. Init => TypeOK
  <2>1. Cardinality(Ifaces) \in Nat
    BY IfaceAssumption, FS_CardinalityType
  <2>2. Init => ifindex \in [Ifaces -> Nat]
    BY <2>1 DEF Init
  <2>3. SUFFICES ASSUME Init PROVE TypeOK
    OBVIOUS
  <2>4. /\ ifindex \in [Ifaces -> Nat] /\ lastIndex \in Nat /\ route \in Ifaces \cup {NoIface}
        /\ cfg \in Config /\ attachment = {} /\ pc = "down" /\ todo = <<>> /\ job = NoJob
        /\ pin \in Place /\ meta \in Place /\ mine \in [Kinds -> [Ifaces -> BOOLEAN]]
    BY <2>1, <2>2, <2>3, NothingIsTyped DEF Init
  <2>5. /\ strict \in BOOLEAN /\ frozen \in BOOLEAN /\ applied \in SUBSET BOOLEAN
        /\ off \in BOOLEAN /\ refused \in BOOLEAN /\ ops \in Nat
    BY <2>3 DEF Init
  <2>6. pc \in Pcs /\ pc \notin Working
    BY <2>4 DEF Pcs, Working
  <2> QED
    BY <2>4, <2>5, <2>6, NothingIsTyped DEF TypeOK
<1>2. TypeOK /\ UNCHANGED vars => TypeOK'
  BY DEF TypeOK, vars, host, links, udp
<1>3. TypeOK /\ [Next]_vars => TypeOK'
  BY <1>2, DaemonKeepsType, EnvironmentKeepsType DEF Next
<1> QED
  BY <1>1, <1>3, PTL DEF Spec

-----------------------------------------------------------------------------
(* What heal knows at its steps: files are only due for removal before an   *)
(* attach; past the cleaning the one interface with a filter is its own.    *)
Pending == todo # <<>> => pc \in {"clean", "tcattach", "xdpattach"}
Single == \A i, j \in PinnedIfaces : i = j
Cleaned == pc \in Working => \A i \in PinnedIfaces : i = job.iface

LEMMA OutcomePc ==
  ASSUME NEW k \in Kinds, Attached(k) \/ NotAttached(k)
  PROVE  pc' = "mode" \/ (pc' = "xdp" /\ k = "tc")
BY KindIs DEF Attached, NotAttached

LEMMA WorkingAt ==
  ASSUME NEW k \in Kinds, Heal(k)
  PROVE  pc \in Working
BY KindIs DEF Heal, TakeOver, Distrust, Refuse, Attach, AttachFails, WriteMeta, Attaching,
              Recording, Working, Pcs

LEMMA PendingStep ==
  ASSUME Pending, [Next]_vars
  PROVE  Pending'
<1>1. ASSUME NEW k \in Kinds, Heal(k) PROVE Pending'
  <2>1. CASE TakeOver(k) \/ AttachFails(k)
    BY <2>1 DEF TakeOver, AttachFails, Pending
  <2>2. CASE Distrust(k) \/ Refuse(k)
    BY <2>2, KindIs DEF Distrust, Refuse, Attaching, Pending
  <2>3. CASE Attach(k)
    BY <2>3 DEF Attach, Pending
  <2>4. CASE WriteMeta(k)
    <3>1. todo = <<>>
      BY <2>4, KindIs DEF WriteMeta, Recording, Pending
    <3> QED
      BY <2>4, <3>1 DEF WriteMeta, Pending
  <2> QED
    BY <1>1, <2>1, <2>2, <2>3, <2>4 DEF Heal
<1>2. CASE Start \/ Look \/ Remove \/ Clean \/ SetMode
  BY <1>2 DEF Start, Look, Remove, Clean, SetMode, Pending
<1>3. CASE Crash \/ Off \/ Reboot
  BY <1>3 DEF Crash, Off, Reboot, ProcessEnds, Pending
<1>4. CASE SwitchOn \/ Reconfigure \/ RouteMoves \/ UNCHANGED vars
  BY <1>4 DEF SwitchOn, Reconfigure, RouteMoves, vars, Pending
<1>5. ASSUME NEW i \in Ifaces, IfaceGoes(i) \/ IfaceComes(i) PROVE Pending'
  BY <1>5 DEF IfaceGoes, IfaceComes, Pending
<1> QED
  BY <1>1, <1>2, <1>3, <1>4, <1>5 DEF Next, Daemon, Environment

(* Pins disappear, except where the daemon attaches. *)
LEMMA PinsOnlyGo ==
  ASSUME TypeOK, [Next]_vars, \A k \in Kinds : ~Attach(k)
  PROVE  \A i \in Ifaces : pin'["xdp"][i] = pin["xdp"][i] \/ pin'["xdp"][i] = None
<1>0. "xdp" \in Kinds
  BY DEF Kinds
<1>1. CASE UNCHANGED pin
  BY <1>1
<1>2. ASSUME NEW k \in Kinds, Heal(k) PROVE UNCHANGED pin
  BY <1>2 DEF Heal, TakeOver, Distrust, Refuse, AttachFails, WriteMeta, links
<1>3. Start \/ Look \/ Clean \/ SetMode => UNCHANGED pin
  BY DEF Start, Look, Clean, SetMode, links
<1>4. Crash \/ SwitchOn \/ Reconfigure \/ RouteMoves \/ UNCHANGED vars => UNCHANGED pin
  BY DEF Crash, SwitchOn, Reconfigure, RouteMoves, vars, links
<1>5. ASSUME NEW i \in Ifaces, IfaceGoes(i) \/ IfaceComes(i) PROVE UNCHANGED pin
  BY <1>5 DEF IfaceGoes, IfaceComes, links
<1>6. CASE Remove
  <2> DEFINE k == Head(todo)[2]
             i == Head(todo)[3]
  <2>1. pin' = [pin EXCEPT ![k][i] = None] \/ pin' = pin
    BY <1>6 DEF Remove
  <2>2. k \in Kinds /\ i \in Ifaces
    BY <1>6, HeadIsFile DEF Remove
  <2> HIDE DEF k, i
  <2>4. CASE pin' = [pin EXCEPT ![k][i] = None]
    <3>1. pin' = SetAt(pin, k, i, None)
      BY <2>4 DEF SetAt
    <3>2. \A j \in Ifaces : pin'["xdp"][j] = IF "xdp" = k /\ j = i THEN None ELSE pin["xdp"][j]
      BY <2>2, <3>1, PinAt, Zenon
    <3> QED
      BY <3>2
  <2> QED
    BY <2>1, <2>4
<1>7. CASE Off
  <2>1. pin' = [k \in Kinds |-> [i \in Ifaces |-> IF i \in PinnedIfaces THEN None ELSE pin[k][i]]]
    BY <1>7 DEF Off
  <2> QED
    BY <2>1, <1>0
<1>8. CASE Reboot
  BY <1>8, <1>0 DEF Reboot, Nowhere
<1> QED
  BY <1>1, <1>2, <1>3, <1>4, <1>5, <1>6, <1>7, <1>8 DEF Next, Daemon, Environment

LEMMA AttachPins ==
  ASSUME TypeOK, NEW k \in Kinds, Attach(k)
  PROVE  /\ pc \in Working /\ pc' \in Working /\ UNCHANGED job
         /\ \A i \in Ifaces : pin'["xdp"][i] = pin["xdp"][i]
                              \/ (k = "xdp" /\ i = job.iface /\ pin'["xdp"][i] = ifindex[i])
<1>1. pc \in Working /\ pc' \in Working
  BY KindIs DEF Attach, Attaching, Recording, Working, Pcs
<1>2. UNCHANGED job /\ pin' = [pin EXCEPT ![k][job.iface] = ifindex[job.iface]]
  BY DEF Attach
<1>3. "xdp" \in Kinds
  BY DEF Kinds
<1> QED
  BY <1>1, <1>2, <1>3 DEF TypeOK, Place

(* How a step gets to, or stays in, the part of heal past the cleaning. *)
LEMMA StaysWorking ==
  ASSUME TypeOK, [Next]_vars, pc' \in Working
  PROVE  \/ pc \in Working /\ job'.iface = job.iface
         \/ Clean /\ Others = {} /\ job'.iface = job.iface
<1>1. ASSUME NEW k \in Kinds, Heal(k) PROVE pc \in Working /\ job'.iface = job.iface
  <2>1. pc \in Working
    BY <1>1, WorkingAt
  <2>2. CASE UNCHANGED job
    BY <2>1, <2>2
  <2>3. CASE Attached(k) \/ NotAttached(k)
    <3>1. pc' = "xdp"
      BY <2>3, OutcomePc DEF Working
    <3> QED
      BY <2>1, <2>3, <3>1, OutcomeTypes
  <2> QED
    BY <1>1, <2>2, <2>3 DEF Heal, TakeOver, Distrust, Refuse, Attach, AttachFails, WriteMeta
<1>2. CASE Clean
  <2>1. pc' = "tc" /\ job' = [job EXCEPT !.ifindex = ifindex[job.iface]] /\ Others = {}
    BY <1>2 DEF Clean, Working
  <2> QED
    BY <1>2, <2>1 DEF TypeOK
<1>3. CASE Remove
  BY <1>3 DEF Remove
<1>4. ~(Start \/ Look \/ SetMode \/ Crash \/ Reboot)
  BY DEF Start, Look, SetMode, Crash, Reboot, ProcessEnds, Working
<1>5. CASE Off
  BY <1>5 DEF Off, ProcessEnds, Working
<1>6. CASE SwitchOn \/ Reconfigure \/ RouteMoves \/ UNCHANGED vars
  BY <1>6 DEF SwitchOn, Reconfigure, RouteMoves, vars
<1>7. ASSUME NEW i \in Ifaces, IfaceGoes(i) \/ IfaceComes(i) PROVE UNCHANGED <<pc, job>>
  BY <1>7 DEF IfaceGoes, IfaceComes
<1> QED
  BY <1>1, <1>2, <1>3, <1>4, <1>5, <1>6, <1>7 DEF Next, Daemon, Environment

LEMMA SingleStep ==
  ASSUME TypeOK, Single, Cleaned, [Next]_vars
  PROVE  Single' /\ Cleaned'
<1>1. CASE \A k \in Kinds : ~Attach(k)
  <2>1. PinnedIfaces' \subseteq PinnedIfaces
    BY <1>1, PinsOnlyGo DEF PinnedIfaces
  <2>2. Single'
    BY <2>1 DEF Single
  <2>3. Cleaned'
    <3>1. SUFFICES ASSUME pc' \in Working PROVE \A i \in PinnedIfaces' : i = job'.iface
      BY DEF Cleaned
    <3>2. CASE pc \in Working /\ job'.iface = job.iface
      BY <2>1, <3>2 DEF Cleaned
    <3>3. CASE Others = {} /\ job'.iface = job.iface
      BY <2>1, <3>3 DEF Others
    <3> QED
      BY <3>1, <3>2, <3>3, StaysWorking
  <2> QED
    BY <2>2, <2>3
<1>2. ASSUME NEW k \in Kinds, Attach(k) PROVE Single' /\ Cleaned'
  <2>1. PinnedIfaces' \subseteq PinnedIfaces \cup {job.iface}
    BY <1>2, AttachPins DEF PinnedIfaces
  <2>2. \A i \in PinnedIfaces' : i = job.iface
    BY <1>2, <2>1, AttachPins DEF Cleaned
  <2> QED
    BY <1>2, <2>2, AttachPins DEF Single, Cleaned
<1> QED
  BY <1>1, <1>2

(* Two interfaces are never filtered at once, whatever crashes, moves, is   *)
(* edited and restarts (daemon.rs heal, links.rs unpin): for any set of     *)
(* interfaces.                                                              *)
THEOREM NeverTwoFilters == Spec => []OneFilter
<1>1. Init => Single /\ Cleaned
  BY DEF Init, Single, Cleaned, PinnedIfaces, Nowhere, Kinds, Working
<1>2. TypeOK /\ Single => OneFilter
  <2>1. SUFFICES ASSUME TypeOK, Single PROVE OneFilter
    OBVIOUS
  <2>2. CASE PinnedIfaces = {}
    BY <2>2, FS_EmptySet DEF OneFilter
  <2>3. CASE PinnedIfaces # {}
    <3>1. PICK i \in PinnedIfaces : PinnedIfaces = {i}
      BY <2>1, <2>3 DEF Single
    <3>2. Cardinality({i}) = 1
      BY FS_Singleton
    <3> QED
      BY <3>1, <3>2 DEF OneFilter
  <2> QED
    BY <2>2, <2>3
<1> QED
  BY <1>1, <1>2, SingleStep, TypeCorrect, PTL DEF Spec

-----------------------------------------------------------------------------
(* Indexes only grow while the machine is up, so a filter is never younger  *)
(* than its interface; heal's index is that of its interface when it looked. *)
Ages ==
  /\ \A i \in Ifaces : ifindex[i] <= lastIndex /\ pin["xdp"][i] <= lastIndex
  /\ \A i \in Ifaces : ifindex[i] # None => pin["xdp"][i] <= ifindex[i]
  /\ pc \in Working \ {"xdpmeta"} =>
       /\ job.ifindex <= lastIndex /\ pin["xdp"][job.iface] <= job.ifindex
       /\ ifindex[job.iface] # None => job.ifindex <= ifindex[job.iface]

(* What the daemon believes attached runs its own program, or is gone. *)
Own ==
  /\ \A a \in attachment : mine["xdp"][a.iface] \/ pin["xdp"][a.iface] = None
  /\ pc = "xdpmeta" => mine["xdp"][job.iface]

(* Why a link may be unpinned. *)
Reason(i) ==
  \/ job.iface # i \/ mine["xdp"][i] \/ refused
  \/ ~FilterOn(i) \/ meta["xdp"][i] # ifindex[i]

Justified == \A n \in DOMAIN todo, i \in Ifaces : todo[n] = <<"pin", "xdp", i>> => Reason(i)

(* The machine's side of a step: indexes move only when interfaces come, go *)
(* or all start anew.                                                       *)
LEMMA HostSteps ==
  ASSUME [Next]_vars
  PROVE  UNCHANGED <<ifindex, lastIndex>> \/ Reboot \/ \E i \in Ifaces : IfaceGoes(i) \/ IfaceComes(i)
<1>1. ASSUME NEW k \in Kinds, Heal(k) PROVE UNCHANGED <<ifindex, lastIndex>>
  BY <1>1 DEF Heal, TakeOver, Distrust, Refuse, Attach, AttachFails, WriteMeta, host
<1>2. Start \/ Look \/ Remove \/ Clean \/ SetMode => UNCHANGED <<ifindex, lastIndex>>
  BY DEF Start, Look, Remove, Clean, SetMode, host
<1>3. Crash \/ Off \/ SwitchOn \/ Reconfigure \/ RouteMoves \/ UNCHANGED vars
        => UNCHANGED <<ifindex, lastIndex>>
  BY DEF Crash, Off, SwitchOn, Reconfigure, RouteMoves, vars, host
<1> QED
  BY <1>1, <1>2, <1>3 DEF Next, Daemon, Environment

LEMMA AgesStep ==
  ASSUME TypeOK, TypeOK', Ages, [Next]_vars
  PROVE  Ages'
<1>0. "xdp" \in Kinds /\ \A i \in Ifaces : /\ pin["xdp"][i] \in Nat /\ ifindex[i] \in Nat
                                          /\ pin'["xdp"][i] \in Nat /\ ifindex'[i] \in Nat
  BY DEF Kinds, TypeOK, Place
<1>1. CASE Reboot
  <2>1. pc' = "down" /\ lastIndex' = Cardinality(Ifaces)
        /\ ifindex' \in [Ifaces -> 0 .. Cardinality(Ifaces)] /\ pin' = Nowhere
    BY <1>1 DEF Reboot, ProcessEnds
  <2>2. \A i \in Ifaces : pin'["xdp"][i] = 0
    BY <1>0, <2>1 DEF Nowhere, None
  <2>3. Cardinality(Ifaces) \in Nat
    BY IfaceAssumption, FS_CardinalityType
  <2> QED
    BY <1>0, <2>1, <2>2, <2>3 DEF Ages, Working
<1>2. ASSUME NEW i \in Ifaces, IfaceGoes(i) PROVE Ages'
  <2>1. /\ ifindex' = [ifindex EXCEPT ![i] = None] /\ UNCHANGED <<lastIndex, pin, pc, job>>
    BY <1>2 DEF IfaceGoes, links
  <2> QED
    BY <2>1, <1>0 DEF Ages, TypeOK, None
<1>3. ASSUME NEW i \in Ifaces, IfaceComes(i) PROVE Ages'
  <2>1. /\ ifindex' = [ifindex EXCEPT ![i] = lastIndex + 1] /\ lastIndex' = lastIndex + 1
        /\ UNCHANGED <<pin, pc, job>>
    BY <1>3 DEF IfaceComes, links
  <2>2. lastIndex \in Nat /\ job.ifindex \in Nat
    BY DEF TypeOK
  <2>3. \A j \in Ifaces : ifindex'[j] = IF j = i THEN lastIndex + 1 ELSE ifindex[j]
    BY <2>1 DEF TypeOK
  <2>4. pc \in Working => job.iface \in Ifaces
    BY DEF TypeOK
  <2> QED
    BY <2>1, <2>2, <2>3, <2>4, <1>0 DEF Ages
<1>4. CASE UNCHANGED <<ifindex, lastIndex>> /\ \A k \in Kinds : ~Attach(k)
  <2>1. \A i \in Ifaces : pin'["xdp"][i] = pin["xdp"][i] \/ pin'["xdp"][i] = 0
    BY <1>4, PinsOnlyGo DEF None
  <2>2. ASSUME pc' \in Working \ {"xdpmeta"}
        PROVE  /\ job'.ifindex <= lastIndex /\ pin'["xdp"][job'.iface] <= job'.ifindex
               /\ ifindex[job'.iface] # None => job'.ifindex <= ifindex[job'.iface]
    <3>1. job.ifindex \in Nat /\ job'.iface \in Ifaces /\ job'.ifindex \in Nat
      BY <2>2 DEF TypeOK
    <3>2. CASE Clean
      <4>1. job' = [job EXCEPT !.ifindex = ifindex[job.iface]] /\ ifindex[job.iface] # None
        BY <2>2, <3>2 DEF Clean, Working
      <4>2. job'.iface = job.iface /\ job'.ifindex = ifindex[job.iface]
        BY <4>1 DEF TypeOK
      <4> QED
        BY <2>1, <3>1, <4>1, <4>2, <1>0 DEF Ages
    <3>3. CASE pc \in Working \ {"xdpmeta"} /\ job'.iface = job.iface /\ job'.ifindex = job.ifindex
      BY <2>1, <3>1, <3>3, <1>0 DEF Ages
    <3>4. ~Clean => pc \in Working \ {"xdpmeta"} /\ job'.iface = job.iface /\ job'.ifindex = job.ifindex
      <4>1. SUFFICES ASSUME ~Clean PROVE pc # "xdpmeta" /\ job'.ifindex = job.ifindex
        BY <2>2, StaysWorking
      <4>2. ASSUME NEW k \in Kinds, Heal(k) PROVE pc # "xdpmeta" /\ job'.ifindex = job.ifindex
        <5>1. pc \in Working
          BY <4>2, WorkingAt
        <5>2. CASE Attached(k) \/ NotAttached(k)
          <6>1. pc' = "xdp" /\ k = "tc"
            BY <2>2, <5>2, OutcomePc DEF Working
          <6>2. pc # "xdpmeta"
            BY <4>2, <6>1 DEF Heal, TakeOver, Distrust, Refuse, Attach, AttachFails, WriteMeta, Attaching, Recording
          <6> QED
            BY <5>1, <5>2, <6>1, <6>2, OutcomeTypes
        <5>3. CASE Distrust(k) \/ Refuse(k)
          BY <5>3, KindIs DEF Distrust, Refuse
        <5> QED
          BY <1>4, <4>2, <5>2, <5>3 DEF Heal, TakeOver, AttachFails, WriteMeta
      <4>3. ~(Start \/ Look \/ SetMode \/ Crash \/ Reboot)
        BY <2>2 DEF Start, Look, SetMode, Crash, Reboot, ProcessEnds, Working
      <4>4. Remove \/ SwitchOn \/ Reconfigure \/ RouteMoves \/ UNCHANGED vars => UNCHANGED <<pc, job>>
        BY DEF Remove, SwitchOn, Reconfigure, RouteMoves, vars
      <4>5. Off => UNCHANGED <<pc, job>>
        BY <2>2 DEF Off, ProcessEnds, Working
      <4>6. \A i \in Ifaces : IfaceGoes(i) \/ IfaceComes(i) => UNCHANGED <<pc, job>>
        BY DEF IfaceGoes, IfaceComes
      <4>7. UNCHANGED <<pc, job>> => pc # "xdpmeta" /\ job'.ifindex = job.ifindex
        BY <2>2
      <4> QED
        BY <4>1, <4>2, <4>3, <4>4, <4>5, <4>6, <4>7 DEF Next, Daemon, Environment
    <3> QED
      BY <3>2, <3>3, <3>4
  <2>3. lastIndex \in Nat
    BY DEF TypeOK
  <2>4. \A i \in Ifaces : pin'["xdp"][i] <= lastIndex /\ (ifindex[i] # None => pin'["xdp"][i] <= ifindex[i])
    BY <2>1, <2>3, <1>0 DEF Ages
  <2>6. ifindex' = ifindex /\ lastIndex' = lastIndex
    BY <1>4
  <2>7. \A i \in Ifaces : ifindex[i] <= lastIndex
    BY DEF Ages
  <2> QED
    BY <2>2, <2>4, <2>6, <2>7 DEF Ages
<1>5. ASSUME NEW k \in Kinds, Attach(k) PROVE Ages'
  <2>1. UNCHANGED <<ifindex, lastIndex, job>> /\ pc \in Working /\ job.iface \in Ifaces
    BY <1>5, AttachPins DEF Attach, host, TypeOK
  <2>2. \A i \in Ifaces : pin'["xdp"][i] = pin["xdp"][i]
                         \/ (k = "xdp" /\ i = job.iface /\ pin'["xdp"][i] = ifindex[i])
    BY <1>5, AttachPins
  <2>3. pc # "xdpmeta" /\ (k = "xdp" => pc' = "xdpmeta")
    BY <1>5, KindIs DEF Attach, Attaching, Recording
  <2>4. lastIndex \in Nat /\ job.ifindex \in Nat
    BY DEF TypeOK
  <2>5. \A i \in Ifaces : pin'["xdp"][i] <= lastIndex /\ (ifindex[i] # None => pin'["xdp"][i] <= ifindex[i])
    BY <2>2, <2>4, <1>0 DEF Ages
  <2>6. pc' # "xdpmeta" => pin'["xdp"][job.iface] = pin["xdp"][job.iface]
    BY <2>1, <2>2, <2>3
  <2> QED
    BY <2>1, <2>3, <2>5, <2>6 DEF Ages
<1> QED
  BY <1>1, <1>2, <1>3, <1>4, <1>5, HostSteps

LEMMA OwnStep ==
  ASSUME TypeOK, TypeOK', Pending, Own, [Next]_vars
  PROVE  Own'
<1>0. "xdp" \in Kinds /\ "tc" \in Kinds /\ \A a \in attachment : a.iface \in Ifaces
  BY DEF Kinds, TypeOK
<1>1. ASSUME NEW k \in Kinds, Heal(k) PROVE Own'
  <2>1. pc \in Working /\ job.iface \in Ifaces
    BY <1>1, WorkingAt DEF TypeOK
  <2>2. CASE TakeOver(k)
    <3>1. mine' = [mine EXCEPT ![k][job.iface] = TRUE] /\ UNCHANGED pin /\ Attached(k)
      BY <2>2 DEF TakeOver
    <3>0. mine' = SetAt(mine, k, job.iface, TRUE)
      BY <3>1 DEF SetAt
    <3>2. \A i \in Ifaces : mine'["xdp"][i] = IF "xdp" = k /\ i = job.iface THEN TRUE ELSE mine["xdp"][i]
      BY <3>0, <2>1, MineAt, Zenon
    <3>3. CASE k = "tc"
      BY <3>1, <3>2, <3>3, <1>0 DEF Attached, Own
    <3>4. CASE k = "xdp"
      BY <3>1, <3>2, <3>4, <2>1 DEF Attached, Own
    <3> QED
      BY <3>3, <3>4, KindIs
  <2>3. CASE Distrust(k) \/ Refuse(k)
    <3>1. UNCHANGED <<attachment, pin, mine>>
      BY <2>3 DEF Distrust, Refuse, links
    <3>2. pc' # "xdpmeta"
      BY <2>3, KindIs DEF Distrust, Refuse, Attaching
    <3> QED
      BY <3>1, <3>2 DEF Own
  <2>4. CASE Attach(k)
    <3>1. mine' = [mine EXCEPT ![k][job.iface] = TRUE] /\ UNCHANGED <<attachment, job>>
          /\ pc' = Recording[k]
      BY <2>4 DEF Attach
    <3>0. mine' = SetAt(mine, k, job.iface, TRUE)
      BY <3>1 DEF SetAt
    <3>2. \A i \in Ifaces : mine'["xdp"][i] = IF "xdp" = k /\ i = job.iface THEN TRUE ELSE mine["xdp"][i]
      BY <3>0, <2>1, MineAt, Zenon
    <3>3. \A i \in Ifaces : pin'["xdp"][i] = pin["xdp"][i] \/ (k = "xdp" /\ i = job.iface)
      BY <2>4, AttachPins
    <3>4. \A i \in Ifaces : mine["xdp"][i] => mine'["xdp"][i]
      BY <3>2
    <3>5. k = "xdp" => mine'["xdp"][job.iface]
      BY <3>2, <2>1
    <3>6. \A a \in attachment : mine'["xdp"][a.iface] \/ pin'["xdp"][a.iface] = None
      BY <3>3, <3>4, <3>5, <1>0 DEF Own
    <3>7. pc' = "xdpmeta" => k = "xdp"
      BY <3>1, KindIs DEF Recording
    <3> QED
      BY <3>1, <3>5, <3>6, <3>7 DEF Own
  <2>5. CASE AttachFails(k)
    <3>1. UNCHANGED <<attachment, pin, mine>>
      BY <2>5 DEF AttachFails, NotAttached, links
    <3>2. pc' # "xdpmeta"
      BY <2>5, OutcomePc DEF AttachFails
    <3> QED
      BY <3>1, <3>2 DEF Own
  <2>6. CASE WriteMeta(k)
    <3>1. UNCHANGED <<pin, mine>> /\ Attached(k)
      BY <2>6 DEF WriteMeta
    <3>2. pc' # "xdpmeta"
      BY <3>1, OutcomePc
    <3>3. CASE k = "tc"
      BY <3>1, <3>2, <3>3 DEF Attached, Own
    <3>4. CASE k = "xdp"
      <4>1. mine["xdp"][job.iface] /\ attachment' = {job}
        BY <2>6, <3>1, <3>4 DEF WriteMeta, Recording, Own, Attached
      <4> QED
        BY <3>1, <3>2, <4>1 DEF Own
    <3> QED
      BY <3>3, <3>4, KindIs
  <2> QED
    BY <1>1, <2>2, <2>3, <2>4, <2>5, <2>6 DEF Heal
<1>2. CASE Look
  <2>1. UNCHANGED <<pin, mine>> /\ (attachment' = attachment \/ attachment' = {}) /\ pc' # "xdpmeta"
    BY <1>2 DEF Look, links
  <2> QED
    BY <2>1 DEF Own
<1>3. CASE Remove
  <2> DEFINE k == Head(todo)[2]
             i == Head(todo)[3]
  <2>1. /\ UNCHANGED <<attachment, pc, job>>
        /\ \/ /\ pin' = [pin EXCEPT ![k][i] = None] /\ mine' = [mine EXCEPT ![k][i] = FALSE]
           \/ UNCHANGED <<pin, mine>>
    BY <1>3 DEF Remove
  <2>2. k \in Kinds /\ i \in Ifaces
    BY <1>3, HeadIsFile DEF Remove
  <2>3. todo # <<>>
    BY <1>3 DEF Remove
  <2> HIDE DEF k, i
  <2>4. CASE UNCHANGED <<pin, mine>>
    BY <2>1, <2>4 DEF Own
  <2>5. CASE pin' = [pin EXCEPT ![k][i] = None] /\ mine' = [mine EXCEPT ![k][i] = FALSE]
    <3>1. \A j \in Ifaces : \/ pin'["xdp"][j] = None
                            \/ pin'["xdp"][j] = pin["xdp"][j] /\ mine'["xdp"][j] = mine["xdp"][j]
      <4>0. pin' = SetAt(pin, k, i, None) /\ mine' = SetAt(mine, k, i, FALSE)
        BY <2>5 DEF SetAt
      <4>1. /\ \A j \in Ifaces : pin'["xdp"][j] = IF "xdp" = k /\ j = i THEN None ELSE pin["xdp"][j]
            /\ \A j \in Ifaces : mine'["xdp"][j] = IF "xdp" = k /\ j = i THEN FALSE ELSE mine["xdp"][j]
        <5>1. \A j \in Ifaces : pin'["xdp"][j] = IF "xdp" = k /\ j = i THEN None ELSE pin["xdp"][j]
          BY <2>2, <4>0, PinAt
        <5>2. \A j \in Ifaces : mine'["xdp"][j] = IF "xdp" = k /\ j = i THEN FALSE ELSE mine["xdp"][j]
          BY <2>2, <4>0, MineAt, Zenon
        <5> QED
          BY <5>1, <5>2
      <4> QED
        BY <4>1, Zenon
    <3>2. \A a \in attachment : mine'["xdp"][a.iface] \/ pin'["xdp"][a.iface] = None
      BY <3>1, <1>0 DEF Own
    <3>3. pc # "xdpmeta"
      BY <2>3 DEF Pending
    <3> QED
      BY <2>1, <3>2, <3>3 DEF Own
  <2> QED
    BY <2>1, <2>4, <2>5
<1>4. CASE Start \/ SetMode \/ Clean
  BY <1>4 DEF Start, SetMode, Clean, Own, links
<1>5. CASE Crash \/ Reboot
  BY <1>5 DEF Crash, Reboot, ProcessEnds, Own
<1>6. CASE Off
  <2>1. CASE ProcessEnds
    BY <2>1 DEF ProcessEnds, Own
  <2>2. CASE UNCHANGED <<pc, todo, job, attachment, udp, refused>>
    <3>1. pin' = [k \in Kinds |-> [i \in Ifaces |-> IF i \in PinnedIfaces THEN None ELSE pin[k][i]]]
      BY <1>6 DEF Off
    <3>2. \A i \in Ifaces : pin'["xdp"][i] = None
      BY <3>1, <1>0 DEF PinnedIfaces
    <3>3. pc # "xdpmeta"
      BY <1>6 DEF Off
    <3> QED
      BY <2>2, <3>2, <3>3, <1>0 DEF Own
  <2> QED
    BY <1>6, <2>1, <2>2 DEF Off
<1>7. CASE SwitchOn \/ Reconfigure \/ RouteMoves \/ UNCHANGED vars
  BY <1>7 DEF SwitchOn, Reconfigure, RouteMoves, vars, links, Own
<1>8. ASSUME NEW i \in Ifaces, IfaceGoes(i) \/ IfaceComes(i) PROVE Own'
  BY <1>8 DEF IfaceGoes, IfaceComes, links, Own
<1> QED
  BY <1>1, <1>2, <1>3, <1>4, <1>5, <1>6, <1>7, <1>8 DEF Next, Daemon, Environment

-----------------------------------------------------------------------------
LEMMA TwoAndTwo ==
  ASSUME NEW s \in Seq(Files), NEW t \in Seq(Files), Len(s) = 2, Len(t) = 2, NEW n \in DOMAIN (s \o t)
  PROVE  (s \o t)[n] \in {s[1], s[2], t[1], t[2]}
<1>0. Len(s \o t) = Len(s) + Len(t) /\ s \o t \in Seq(Files)
  BY ConcatProperties, Zenon
<1>1. Len(s \o t) = 4 /\ s \o t \in Seq(Files)
  BY <1>0
<1>2. n \in 1 .. 4
  BY <1>1
<1>3. (s \o t)[n] = IF n <= 2 THEN s[n] ELSE t[n - 2]
  BY <1>1, <1>2, ConcatProperties
<1>4. n = 1 \/ n = 2 \/ n = 3 \/ n = 4
  BY <1>2
<1> QED
  BY <1>3, <1>4

(* The files of one interface: its XDP link is the only one among them. *)
LEMMA UnpinBothHolds ==
  ASSUME NEW i \in Ifaces, NEW j \in Ifaces,
         NEW n \in DOMAIN (Unpin("xdp", i) \o Unpin("tc", i)),
         (Unpin("xdp", i) \o Unpin("tc", i))[n] = <<"pin", "xdp", j>>
  PROVE  j = i
<1> DEFINE s == Unpin("xdp", i)
           t == Unpin("tc", i)
<1>1. s \in Seq(Files) /\ t \in Seq(Files) /\ Len(s) = 2 /\ Len(t) = 2
  BY UnpinIsFiles DEF Unpin, Kinds
<1>2. s[1] = <<"pin", "xdp", i>> /\ s[2] = <<"meta", "xdp", i>>
  BY DEF Unpin
<1>3. t[1] = <<"pin", "tc", i>> /\ t[2] = <<"meta", "tc", i>>
  BY DEF Unpin
<1> HIDE DEF s, t
<1>4. n \in DOMAIN (s \o t)
  BY DEF s, t
<1>5. (s \o t)[n] = <<"pin", "xdp", j>>
  BY DEF s, t
<1>6. (s \o t)[n] \in {<<"pin", "xdp", i>>, <<"meta", "xdp", i>>, <<"pin", "tc", i>>, <<"meta", "tc", i>>}
  BY <1>1, <1>2, <1>3, <1>4, TwoAndTwo
<1> QED
  BY <1>5, <1>6

LEMMA UnpinHolds ==
  ASSUME NEW k \in Kinds, NEW i \in Ifaces, NEW j \in Ifaces, NEW n \in DOMAIN Unpin(k, i),
         Unpin(k, i)[n] = <<"pin", "xdp", j>>
  PROVE  k = "xdp" /\ j = i
BY DEF Unpin

LEMMA JustifiedStep ==
  ASSUME TypeOK, TypeOK', Pending, Ages, Own, Justified, [Next]_vars
  PROVE  Justified'
<1>0. "xdp" \in Kinds /\ \A i \in Ifaces : pin["xdp"][i] \in Nat /\ ifindex[i] \in Nat
  BY DEF Kinds, TypeOK, Place
<1>1. CASE todo' = <<>>
  BY <1>1 DEF Justified
<1>2. CASE todo' = todo /\ \A i \in Ifaces : Reason(i) => Reason(i)'
  BY <1>2 DEF Justified
<1>3. CASE UNCHANGED <<todo, job, mine, refused, pin, meta, ifindex>>
  BY <1>2, <1>3 DEF Reason, FilterOn, Live
<1>4. ASSUME NEW k \in Kinds, Heal(k) PROVE Justified'
  <2>1. CASE TakeOver(k) \/ Attach(k) \/ AttachFails(k)
    BY <1>1, <2>1 DEF TakeOver, Attach, AttachFails
  <2>2. CASE WriteMeta(k)
    <3>1. todo = <<>>
      BY <2>2, KindIs DEF WriteMeta, Recording, Pending
    <3> QED
      BY <1>1, <2>2, <3>1 DEF WriteMeta
  <2>3. pc \in Working /\ job.iface \in Ifaces
    BY <1>4, WorkingAt DEF TypeOK
  <2>4. CASE Refuse(k)
    <3>1. refused'
      BY <2>4 DEF Refuse
    <3> QED
      BY <3>1 DEF Justified, Reason
  <2>5. CASE Distrust(k)
    <3>1. CASE todo' = Unpin(k, job.iface) /\ ~Recorded(k)
      <4>1. SUFFICES ASSUME NEW n \in DOMAIN todo', NEW i \in Ifaces, todo'[n] = <<"pin", "xdp", i>>
                     PROVE  Reason(i)'
        BY DEF Justified
      <4>2. k = "xdp" /\ i = job.iface
        BY <2>3, <3>1, <4>1, UnpinHolds
      <4>3. pc # "xdpmeta" /\ UNCHANGED <<pin, meta, ifindex>>
        BY <2>5, <4>2 DEF Distrust, host, links
      <4>4. pin["xdp"][i] <= job.ifindex /\ (ifindex[i] # None => job.ifindex <= ifindex[i])
        BY <2>3, <4>2, <4>3 DEF Ages
      <4>5. meta["xdp"][i] # job.ifindex /\ job.ifindex \in Nat
        BY <3>1, <4>2 DEF Recorded, TypeOK
      <4>6. ~FilterOn(i) \/ meta["xdp"][i] # ifindex[i]
        BY <4>4, <4>5, <1>0 DEF FilterOn, Live
      <4> QED
        BY <4>3, <4>6 DEF Reason, FilterOn, Live
    <3> QED
      BY <1>1, <2>5, <3>1 DEF Distrust
  <2> QED
    BY <1>4, <2>1, <2>2, <2>4, <2>5 DEF Heal
<1>5. CASE Look
  <2>1. todo = <<>>
    BY <1>5 DEF Look, Pending
  <2>2. CASE attachment # {} /\ ~\E a \in attachment : InPlace(a)
    <3>1. PICK a \in attachment : a = CHOOSE b \in attachment : TRUE
      BY <2>2
    <3>2. todo' = Unpin("xdp", a.iface) \o Unpin("tc", a.iface) /\ UNCHANGED <<pin, mine>>
      BY <1>5, <2>2, <3>1 DEF Look, links
    <3>3. mine["xdp"][a.iface] \/ pin["xdp"][a.iface] = None
      BY DEF Own
    <3>4. a.iface \in Ifaces
      BY DEF TypeOK
    <3>5. Reason(a.iface)'
      BY <3>2, <3>3 DEF Reason, FilterOn, Live
    <3>6. ASSUME NEW n \in DOMAIN todo', NEW i \in Ifaces, todo'[n] = <<"pin", "xdp", i>>
          PROVE  i = a.iface
      BY <3>2, <3>4, <3>6, UnpinBothHolds
    <3> QED
      BY <3>5, <3>6 DEF Justified
  <2> QED
    BY <1>1, <1>5, <2>1, <2>2 DEF Look
<1>6. CASE Clean
  <2>1. ASSUME NEW j \in Others, todo' = Unpin("xdp", j) \o Unpin("tc", j), UNCHANGED job PROVE Justified'
    <3>1. j \in Ifaces /\ j # job.iface
      BY DEF Others, PinnedIfaces
    <3>2. ASSUME NEW n \in DOMAIN todo', NEW i \in Ifaces, todo'[n] = <<"pin", "xdp", i>>
          PROVE  i = j
      BY <2>1, <3>1, <3>2, UnpinBothHolds
    <3> QED
      BY <2>1, <3>1, <3>2 DEF Justified, Reason
  <2> QED
    BY <1>1, <1>6, <2>1 DEF Clean
<1>7. CASE Remove
  <2> DEFINE k == Head(todo)[2]
             j == Head(todo)[3]
  <2>1. /\ UNCHANGED <<job, refused, ifindex>> /\ todo' = Tail(todo)
        /\ \/ /\ pin' = [pin EXCEPT ![k][j] = None] /\ mine' = [mine EXCEPT ![k][j] = FALSE]
              /\ meta' = meta
           \/ meta' = [meta EXCEPT ![k][j] = None] /\ UNCHANGED <<pin, mine>>
    BY <1>7 DEF Remove, host
  <2>2. k \in Kinds /\ j \in Ifaces
    BY <1>7, HeadIsFile DEF Remove
  <2>3. todo # <<>> /\ todo \in Seq(Files)
    BY <1>7 DEF Remove, TypeOK
  <2> HIDE DEF k, j
  <2>4. ASSUME NEW i \in Ifaces, Reason(i) PROVE Reason(i)'
    <3>1. CASE pin' = [pin EXCEPT ![k][j] = None] /\ mine' = [mine EXCEPT ![k][j] = FALSE] /\ meta' = meta
      <4>1. /\ pin'["xdp"][i] = IF "xdp" = k /\ i = j THEN None ELSE pin["xdp"][i]
            /\ mine'["xdp"][i] = IF "xdp" = k /\ i = j THEN FALSE ELSE mine["xdp"][i]
        <5>1. pin' = SetAt(pin, k, j, None) /\ mine' = SetAt(mine, k, j, FALSE)
          BY <3>1 DEF SetAt
        <5> QED
          <6>1. pin'["xdp"][i] = IF "xdp" = k /\ i = j THEN None ELSE pin["xdp"][i]
            BY <2>2, <2>4, <5>1, PinAt
          <6>2. mine'["xdp"][i] = IF "xdp" = k /\ i = j THEN FALSE ELSE mine["xdp"][i]
            BY <2>2, <2>4, <5>1, MineAt, Zenon
          <6> QED
            BY <6>1, <6>2
      <4>2. CASE "xdp" = k /\ i = j
        BY <4>1, <4>2 DEF Reason, FilterOn, Live
      <4>3. CASE ~("xdp" = k /\ i = j)
        <5>1. pin'["xdp"][i] = pin["xdp"][i] /\ mine'["xdp"][i] = mine["xdp"][i]
          BY <4>1, <4>3, Zenon
        <5> QED
          BY <2>1, <2>4, <3>1, <5>1, Zenon DEF Reason, FilterOn, Live
      <4> QED
        BY <4>2, <4>3
    <3>2. CASE meta' = [meta EXCEPT ![k][j] = None] /\ UNCHANGED <<pin, mine>>
      <4>1. meta'["xdp"][i] = IF "xdp" = k /\ i = j THEN None ELSE meta["xdp"][i]
        <5>1. meta' = SetAt(meta, k, j, None)
          BY <3>2 DEF SetAt
        <5> QED
          BY <2>2, <2>4, <5>1, MetaAt, Zenon
      <4> QED
        BY <2>1, <2>4, <3>2, <4>1 DEF Reason, FilterOn, Live
    <3> QED
      BY <2>1, <3>1, <3>2
  <2>5. \A n \in DOMAIN todo' : n + 1 \in DOMAIN todo /\ todo'[n] = todo[n + 1]
    BY <2>1, <2>3
  <2> QED
    BY <2>4, <2>5 DEF Justified
<1>8. CASE Start \/ SetMode \/ SwitchOn \/ Reconfigure \/ RouteMoves \/ UNCHANGED vars
  BY <1>3, <1>8 DEF Start, SetMode, SwitchOn, Reconfigure, RouteMoves, vars, host, links
<1>9. CASE Crash \/ Reboot
  BY <1>1, <1>9 DEF Crash, Reboot, ProcessEnds
<1>10. CASE Off
  <2>1. todo = <<>>
    BY <1>10 DEF Off, Pending
  <2> QED
    BY <1>1, <1>10, <2>1 DEF Off, ProcessEnds
<1>11. ASSUME NEW j \in Ifaces, IfaceGoes(j) \/ IfaceComes(j) PROVE Justified'
  <2>1. UNCHANGED <<todo, job, mine, refused, pin, meta>>
    BY <1>11 DEF IfaceGoes, IfaceComes, links
  <2>2. \A i \in Ifaces : ifindex'[i] = ifindex[i] \/ ifindex'[i] = None \/ ifindex'[i] = lastIndex + 1
    BY <1>11 DEF IfaceGoes, IfaceComes, TypeOK
  <2>3. ASSUME NEW i \in Ifaces, Reason(i) PROVE Reason(i)'
    <3>1. CASE ifindex'[i] = ifindex[i]
      BY <2>1, <2>3, <3>1 DEF Reason, FilterOn, Live
    <3>2. CASE ifindex'[i] = None
      BY <2>1, <3>2 DEF Reason, FilterOn, Live
    <3>3. CASE ifindex'[i] = lastIndex + 1
      <4>1. pin["xdp"][i] <= lastIndex /\ lastIndex \in Nat
        BY DEF Ages, TypeOK
      <4>2. pin'["xdp"][i] # ifindex'[i]
        BY <2>1, <3>3, <4>1, <1>0
      <4> QED
        BY <4>2 DEF Reason, FilterOn, Live
    <3> QED
      BY <2>2, <3>1, <3>2, <3>3
  <2> QED
    BY <1>2, <2>1, <2>3
<1> QED
  BY <1>4, <1>5, <1>6, <1>7, <1>8, <1>9, <1>10, <1>11 DEF Next, Daemon, Environment

(* A daemon takes an earlier one's filter off an interface only to guard    *)
(* another, because the link is not on record, or after a refused swap      *)
(* (links.rs "there is no moment without a filter"): however often it was   *)
(* restarted or killed between two files, and however interfaces come and   *)
(* go.                                                                      *)
THEOREM TakenOverWithoutGap == Spec => NoGap
<1>1. Init => Pending /\ Own /\ Justified
  BY DEF Init, Pending, Own, Justified
<1>2. Init => Ages
  <2>1. SUFFICES ASSUME Init PROVE Ages
    OBVIOUS
  <2>2. \A i \in Ifaces : pin["xdp"][i] = 0
    BY <2>1 DEF Init, Nowhere, Kinds, None
  <2>3. Cardinality(Ifaces) \in Nat
    BY IfaceAssumption, FS_CardinalityType
  <2>4. \A i \in Ifaces : ifindex[i] \in 0 .. lastIndex
    BY <2>1 DEF Init
  <2>5. lastIndex \in Nat /\ pc = "down"
    BY <2>1, <2>3 DEF Init
  <2> QED
    BY <2>2, <2>4, <2>5 DEF Ages, Working
<1>3. ASSUME TypeOK, Justified, [Next]_vars PROVE TakenOffForCause
  <2>1. SUFFICES ASSUME NEW i \in Ifaces, FilterOn(i), ~mine["xdp"][i], pin'["xdp"][i] = None, Daemon
                 PROVE  job.iface # i \/ meta["xdp"][i] # ifindex[i] \/ refused
    BY DEF TakenOffForCause
  <2>2. pin["xdp"][i] # None /\ "xdp" \in Kinds
    BY <2>1 DEF FilterOn, Live, Kinds
  <2>3. Remove
    <3>1. ASSUME NEW k \in Kinds, Heal(k) PROVE FALSE
      <4>1. CASE Attach(k)
        <5>1. pin' = [pin EXCEPT ![k][job.iface] = ifindex[job.iface]] /\ ifindex[job.iface] # None
          BY <4>1 DEF Attach
        <5>2. job.iface \in Ifaces
          BY <1>3, <3>1, WorkingAt DEF TypeOK
        <5>3. pin'["xdp"][i] # None
          <6>1. pin' = SetAt(pin, k, job.iface, ifindex[job.iface])
            BY <5>1 DEF SetAt
          <6>2. \A j \in Ifaces : pin'["xdp"][j] = IF "xdp" = k /\ j = job.iface
                                                THEN ifindex[job.iface] ELSE pin["xdp"][j]
            BY <1>3, <5>2, <6>1, PinAt
          <6>3. pin'["xdp"][i] = IF "xdp" = k /\ i = job.iface THEN ifindex[job.iface] ELSE pin["xdp"][i]
            BY <2>1, <6>2, Zenon
          <6> QED
            BY <2>2, <5>1, <6>3
        <5> QED
          BY <2>1, <5>3
      <4>2. CASE UNCHANGED pin
        BY <2>1, <2>2, <4>2
      <4> QED
        BY <3>1, <4>1, <4>2 DEF Heal, TakeOver, Distrust, Refuse, AttachFails, WriteMeta, links
    <3>2. ~(Start \/ Look \/ Clean \/ SetMode)
      BY <2>1, <2>2 DEF Start, Look, Clean, SetMode, links
    <3> QED
      BY <2>1, <3>1, <3>2 DEF Daemon
  <2>4. todo # <<>> /\ todo \in Seq(Files)
    BY <1>3, <2>3 DEF Remove, TypeOK
  <2>5. Head(todo) \in Files /\ 1 \in DOMAIN todo /\ Head(todo) = todo[1]
    BY <2>4
  <2>6. Head(todo) = <<"pin", "xdp", i>>
    <3> DEFINE f == Head(todo)[1]
               k == Head(todo)[2]
               j == Head(todo)[3]
    <3>1. Head(todo) = <<f, k, j>> /\ f \in {"pin", "meta"} /\ k \in Kinds /\ j \in Ifaces
      BY <2>5 DEF Files
    <3>2. IF f = "pin" THEN pin' = [pin EXCEPT ![k][j] = None] ELSE pin' = pin
      BY <2>3 DEF Remove
    <3> HIDE DEF f, k, j
    <3>3. f = "pin" /\ pin' = [pin EXCEPT ![k][j] = None]
      BY <2>1, <2>2, <3>2
    <3>4. k = "xdp" /\ j = i
      <4>1. pin' = SetAt(pin, k, j, None)
        BY <3>3 DEF SetAt
      <4>2. pin'["xdp"][i] = IF "xdp" = k /\ i = j THEN None ELSE pin["xdp"][i]
        BY <1>3, <2>1, <3>1, <4>1, PinAt
      <4> QED
        BY <2>1, <2>2, <4>2
    <3> QED
      BY <3>1, <3>3, <3>4
  <2>7. Reason(i)
    BY <1>3, <2>1, <2>5, <2>6 DEF Justified
  <2> QED
    BY <2>1, <2>7 DEF Reason
<1>4. TypeOK /\ [Next]_vars => TypeOK'
  <2>1. TypeOK /\ UNCHANGED vars => TypeOK'
    BY DEF TypeOK, vars, host, links, udp
  <2> QED
    BY <2>1, DaemonKeepsType, EnvironmentKeepsType DEF Next
<1>5. ASSUME TypeOK, Pending, Ages, Own, Justified, [Next]_vars
      PROVE  Pending' /\ Ages' /\ Own' /\ Justified'
  BY <1>4, <1>5, PendingStep, AgesStep, OwnStep, JustifiedStep
<1> QED
  BY <1>1, <1>2, <1>3, <1>5, TypeCorrect, PTL DEF Spec, NoGap
=============================================================================
