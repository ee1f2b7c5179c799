---------------------------- MODULE ToolsProofs ----------------------------
(***************************************************************************)
(* Proofs about the two tools around the filter, Doctor and Dashboard.     *)
(* The modules share no state; they share this one for the facts about     *)
(* sequences that both need.                                               *)
(*                                                                         *)
(* HolesArePairs.  The argument is about who holds a pair (a chain and a   *)
(* bridge): a worker that has it on its list or is at it.  A pair nobody   *)
(* else found blocking has one holder, and while it is held its chain has  *)
(* no way out yet.                                                         *)
(*                                                                         *)
(* FixesClear.  What the machine needs is read off its state (Needed), and *)
(* until the doctor is done all of it is ahead of it: among the pending    *)
(* fixes, or in the hands of its own check.                                *)
(*                                                                         *)
(* OneConversation.  The panel and its thread hold two copies of the       *)
(* conversation, equal once the results still on their way are added.      *)
(***************************************************************************)
EXTENDS Doctor, Dashboard, FiniteSetTheorems, SequenceTheorems, TLAPS

-----------------------------------------------------------------------------
(* Sequences.  Induction is by the least counterexample: the rules of the   *)
(* library take a predicate as a parameter, which the provers cannot use.   *)

LEMMA LeastOf ==
  ASSUME NEW S \in SUBSET Nat, S # {}
  PROVE  \E x \in S : \A y \in S : x <= y
<1> DEFINE less == OpToRel(<, Nat)
<1>1. PICK x \in S : \A y \in S : ~(<<y, x>> \in less)
  BY NatLessThanWellFounded, WFMin
<1>2. \A m, n \in Nat : n < m => <<n, m>> \in less
  BY DEF OpToRel
<1> HIDE DEF less
<1>3. ASSUME NEW y \in S PROVE x <= y
  <2>1. x \in Nat /\ y \in Nat /\ ~(y < x)
    BY <1>1, <1>2
  <2> QED
    BY <2>1
<1> QED
  BY <1>3

LEMMA Joined ==
  ASSUME NEW S, NEW s \in Seq(S), NEW t \in Seq(S)
  PROVE  s \o t \in Seq(S) /\ ToSet(s \o t) = ToSet(s) \cup ToSet(t)
<1>1. s \o t \in Seq(S) /\ Range(s \o t) = Range(s) \cup Range(t)
  BY ConcatProperties, RangeConcatenation
<1> QED
  BY <1>1 DEF ToSet, Range

(* The pieces e[1], e[2], ... one after the other: the equation has a solution. *)
LEMMA PiecesExist ==
  ASSUME NEW S, NEW N \in Nat, NEW e \in [1 .. N -> Seq(S)]
  PROVE  \E f : f = [n \in 0 .. N |-> IF n = 0 THEN <<>> ELSE f[n - 1] \o e[n]]
<1> DEFINE Solves(g, m) == /\ g \in [0 .. m -> Seq(S)] /\ g[0] = <<>>
                           /\ \A k \in 1 .. m : g[k] = g[k - 1] \o e[k]
           Bad == {m \in 0 .. N : ~\E g : Solves(g, m)}
<1> HIDE DEF Solves
<1>1. Bad \in SUBSET Nat /\ \A m \in 0 .. N : m \notin Bad => \E g : Solves(g, m)
  OBVIOUS
<1>2. \A m \in Bad : m \in 0 .. N /\ \A g : ~Solves(g, m)
  OBVIOUS
<1> HIDE DEF Bad
<1>3. ASSUME Bad # {} PROVE FALSE
  <2>1. PICK m \in Bad : \A y \in Bad : m <= y
    BY <1>1, <1>3, LeastOf
  <2>2. m \in 0 .. N /\ \A g : ~Solves(g, m)
    BY <1>2
  <2>3. CASE m = 0
    <3>1. Solves([n \in 0 .. 0 |-> <<>>], 0)
      BY DEF Solves
    <3> QED
      BY <2>2, <2>3, <3>1
  <2>4. CASE m # 0
    <3>1. m - 1 \in 0 .. N /\ m \in 1 .. N /\ m - 1 \notin Bad
      BY <2>1, <2>2, <2>4
    <3>2. PICK g : Solves(g, m - 1)
      BY <1>1, <3>1
    <3> DEFINE last == g[m - 1] \o e[m]
               h == [n \in 0 .. m |-> IF n = m THEN last ELSE g[n]]
    <3>3. g \in [0 .. m - 1 -> Seq(S)] /\ e[m] \in Seq(S) /\ g[m - 1] \in Seq(S)
      BY <3>1, <3>2 DEF Solves
    <3>4. last \in Seq(S)
      BY <3>3, ConcatProperties
    <3>5. h[m] = last /\ \A n \in 0 .. m - 1 : h[n] = g[n]
      BY <3>1
    <3>6. h \in [0 .. m -> Seq(S)]
      <4> HIDE DEF last
      <4> QED
        BY <3>1, <3>3, <3>4
    <3> HIDE DEF h
    <3>7. ASSUME NEW k \in 1 .. m PROVE h[k] = h[k - 1] \o e[k]
      <4>0. m \in Nat /\ k - 1 \in 0 .. m - 1
        BY <3>1
      <4>1. CASE k = m
        <5>1. h[k - 1] = g[m - 1]
          BY <3>5, <4>0, <4>1
        <5> QED
          BY <3>5, <4>1, <5>1
      <4>2. CASE k # m
        <5>1. k \in 0 .. m - 1 /\ k \in 1 .. m - 1
          BY <4>0, <4>2
        <5>2. h[k - 1] = g[k - 1] /\ h[k] = g[k]
          BY <3>5, <4>0, <5>1
        <5>3. g[k] = g[k - 1] \o e[k]
          BY <3>2, <5>1 DEF Solves
        <5> QED
          BY <5>2, <5>3
      <4> QED
        BY <4>1, <4>2
    <3>8. h[0] = <<>>
      BY <3>1, <3>2, <3>5 DEF Solves
    <3>9. Solves(h, m)
      BY <3>6, <3>7, <3>8 DEF Solves
    <3> QED
      BY <2>2, <3>9
  <2> QED
    BY <2>3, <2>4
<1>4. PICK g : Solves(g, N)
  BY <1>1, <1>3
<1> DEFINE G == [n \in 0 .. N |-> IF n = 0 THEN <<>> ELSE g[n - 1] \o e[n]]
<1>5. ASSUME NEW n \in 0 .. N PROVE g[n] = G[n]
  <2>1. CASE n = 0
    BY <1>4, <2>1 DEF Solves
  <2>2. CASE n # 0
    <3>1. n \in 1 .. N
      BY <2>2
    <3>2. g[n] = g[n - 1] \o e[n]
      BY <1>4, <3>1 DEF Solves
    <3> QED
      BY <2>2, <3>2
  <2> QED
    BY <2>1, <2>2
<1>6. g \in [0 .. N -> Seq(S)] /\ DOMAIN G = 0 .. N /\ G = [n \in DOMAIN G |-> G[n]]
  BY <1>4 DEF Solves
<1>7. g = G
  <2> HIDE DEF G
  <2> QED
    BY <1>5, <1>6
<1> QED
  BY <1>7

(* What is in them is what is in one of the pieces. *)
Pieces(f, e, N, S) ==
  /\ e \in [1 .. N -> Seq(S)]
  /\ f[0] = <<>> /\ \A n \in 1 .. N : f[n] = f[n - 1] \o e[n]
InPieces(e, N) == UNION {ToSet(e[k]) : k \in 1 .. N}

LEMMA PiecesHold ==
  ASSUME NEW S, NEW N \in Nat, NEW e, NEW f, Pieces(f, e, N, S)
  PROVE  f[N] \in Seq(S) /\ ToSet(f[N]) = InPieces(e, N)
<1> DEFINE Good(m) == f[m] \in Seq(S) /\ ToSet(f[m]) = InPieces(e, m)
           Bad == {m \in 0 .. N : ~Good(m)}
<1> HIDE DEF Good
<1>1. Bad \in SUBSET Nat /\ \A m \in 0 .. N : m \notin Bad => Good(m)
  OBVIOUS
<1>2. \A m \in Bad : m \in 0 .. N /\ ~Good(m)
  OBVIOUS
<1> HIDE DEF Bad
<1>3. ASSUME Bad # {} PROVE FALSE
  <2>1. PICK m \in Bad : \A y \in Bad : m <= y
    BY <1>1, <1>3, LeastOf
  <2>2. m \in 0 .. N /\ ~Good(m)
    BY <1>2
  <2>3. CASE m = 0
    <3>1. <<>> \in Seq(S) /\ ToSet(<<>>) = {}
      BY DEF ToSet
    <3>2. InPieces(e, 0) = {}
      BY DEF InPieces
    <3> QED
      BY <2>2, <2>3, <3>1, <3>2 DEF Good, Pieces
  <2>4. CASE m # 0
    <3>1. m - 1 \in 0 .. N /\ m \in 1 .. N /\ m - 1 \notin Bad
      BY <2>1, <2>2, <2>4
    <3>2. f[m] = f[m - 1] \o e[m] /\ Good(m - 1) /\ e[m] \in Seq(S)
      BY <1>1, <3>1 DEF Pieces
    <3>3. f[m - 1] \in Seq(S) /\ ToSet(f[m - 1]) = InPieces(e, m - 1)
      BY <3>2 DEF Good
    <3>4. f[m] \in Seq(S) /\ ToSet(f[m]) = ToSet(f[m - 1]) \cup ToSet(e[m])
      BY <3>2, <3>3, Joined
    <3>5. InPieces(e, m) = InPieces(e, m - 1) \cup ToSet(e[m])
      <4>1. 1 .. m = (1 .. m - 1) \cup {m}
        BY <3>1
      <4> QED
        BY <4>1 DEF InPieces
    <3> QED
      BY <2>2, <3>3, <3>4, <3>5 DEF Good
  <2> QED
    BY <2>3, <2>4
<1>4. Good(N)
  BY <1>1, <1>3
<1> QED
  BY <1>4 DEF Good

(* A finite set of positions has its enumeration in order. *)
LEMMA InOrder ==
  ASSUME NEW P \in SUBSET Nat, IsFiniteSet(P)
  PROVE  \E f \in [1 .. Cardinality(P) -> P] : \A i, j \in DOMAIN f : i < j => f[i] < f[j]
<1> DEFINE Ordered(Q, n) ==
             \E f \in [1 .. n -> Q] : \A i, j \in 1 .. n : i < j => f[i] < f[j]
           Bad == {n \in Nat : \E Q \in SUBSET Nat : IsFiniteSet(Q) /\ Cardinality(Q) = n
                                                     /\ ~Ordered(Q, n)}
<1>1. ASSUME Bad # {} PROVE FALSE
  <2>1. PICK n \in Bad : \A y \in Bad : n <= y
    BY <1>1, LeastOf
  <2>2. PICK Q \in SUBSET Nat : IsFiniteSet(Q) /\ Cardinality(Q) = n /\ ~Ordered(Q, n)
    BY <2>1
  <2>3. CASE n = 0
    <3>1. 1 .. 0 = {} /\ [i \in 1 .. 0 |-> 0] \in [1 .. 0 -> Q]
      OBVIOUS
    <3>2. Ordered(Q, 0)
      BY <3>1
    <3> QED
      BY <2>2, <2>3, <3>2
  <2>4. CASE n # 0
    <3>1. Q # {}
      BY <2>2, <2>4, FS_EmptySet
    <3>2. PICK x \in Q : \A y \in Q : x <= y
      BY <3>1, LeastOf
    <3>3. IsFiniteSet(Q \ {x}) /\ Cardinality(Q \ {x}) = n - 1
      BY <2>2, FS_RemoveElement
    <3>4. n - 1 \in Nat /\ n - 1 \notin Bad
      BY <2>1, <2>4
    <3>5. PICK g \in [1 .. n - 1 -> Q \ {x}] :
            \A i, j \in 1 .. n - 1 : i < j => g[i] < g[j]
      BY <3>3, <3>4
    <3> DEFINE f == [i \in 1 .. n |-> IF i = 1 THEN x ELSE g[i - 1]]
    <3>6. \A i \in 1 .. n : i # 1 => i - 1 \in 1 .. n - 1 /\ g[i - 1] \in Q \ {x}
      BY <3>4, <3>5
    <3>7. f \in [1 .. n -> Q]
      BY <3>6
    <3>8. ASSUME NEW i \in 1 .. n, NEW j \in 1 .. n, i < j PROVE f[i] < f[j]
      <4>1. CASE i = 1
        <5>1. f[i] = x /\ f[j] = g[j - 1] /\ g[j - 1] \in Q \ {x}
          BY <3>6, <3>8, <4>1
        <5>2. \A y \in Q \ {x} : x < y
          BY <3>2
        <5> QED
          BY <5>1, <5>2
      <4>2. CASE i # 1
        <5>1. f[i] = g[i - 1] /\ f[j] = g[j - 1] /\ i - 1 \in 1 .. n - 1 /\ j - 1 \in 1 .. n - 1
          BY <3>6, <3>8, <4>2
        <5> QED
          BY <3>5, <3>8, <5>1
      <4> QED
        BY <4>1, <4>2
    <3> QED
      BY <2>2, <3>7, <3>8
  <2> QED
    BY <2>3, <2>4
<1>2. Cardinality(P) \in Nat
  BY FS_CardinalityType
<1>3. Ordered(P, Cardinality(P))
  BY <1>1, <1>2
<1> QED
  BY <1>3

-----------------------------------------------------------------------------
(* Doctor: who holds a pair.                                                *)
Holds(w, p) == p \in worker[w].pairs \/ worker[w].at = p

\* The answers get in already, the bridge does not get out yet
HalfDone(w, p) == worker[w].at = p /\ worker[w].todo = <<"out">>

Shape ==
  /\ chain \in [Chains -> Chain] /\ bridges \in SUBSET Bridges
  /\ worker \in [Workers -> Worker]

\* A list is kept while its pairs are done, and the pair a worker is at has left it
Steps ==
  \A w \in Workers :
    /\ worker[w].st = "insert" => worker[w].at # NoPair /\ worker[w].todo \in {Rules, <<"out">>}
    /\ worker[w].st # "insert" => worker[w].at = NoPair
    /\ worker[w].st \notin {"next", "insert"} => worker[w].pairs = {}
    /\ worker[w].at \notin worker[w].pairs

\* Two hold the same pair only if the second found it blocking while the first held it
OneHolder ==
  \A p \in Chains \X Bridges, v, w \in Workers :
    p \notin doubled /\ Holds(v, p) /\ Holds(w, p) => v = w

\* While a pair is held, the way out is not there; half-way the answers get in
HeldPairs ==
  \A c \in Chains, b \in Bridges, w \in Workers : <<c, b>> \notin torn \cup doubled =>
    /\ Holds(w, <<c, b>>) => chain[c].out[b] = 0
    /\ HalfDone(w, <<c, b>>) => chain[c].reply[b] >= 1

IInv == Shape /\ Steps /\ OneHolder /\ HeldPairs /\ HolesArePairs

-----------------------------------------------------------------------------
LEMMA SetWorker ==
  ASSUME Shape, NEW w \in Workers, NEW rec \in Worker, Set(w, rec)
  PROVE  /\ worker' \in [Workers -> Worker] /\ worker'[w] = rec
         /\ \A v \in Workers : v # w => worker'[v] = worker[v]
BY DEF Shape, Set

LEMMA WorkerTyped ==
  ASSUME Shape, NEW w \in Workers
  PROVE  /\ worker[w] \in Worker
         /\ worker[w].bridges \in SUBSET Bridges /\ worker[w].pairs \in SUBSET (Chains \X Bridges)
         /\ worker[w].at \in (Chains \X Bridges) \cup {NoPair}
BY DEF Shape, Worker

LEMMA NoPairIsNone == ASSUME NEW c, NEW b PROVE <<c, b>> # NoPair
BY DEF NoPair

LEMMA SomePair == \A p \in Chains \X Bridges : p # NoPair
BY DEF NoPair

LEMMA IdleTyped ==
  /\ IdleWorker \in Worker /\ IdleWorker.pairs = {} /\ IdleWorker.at = NoPair
  /\ IdleWorker.st = "idle"
BY DEF IdleWorker, Worker

LEMMA FixTyped ==
  LET rec == [IdleWorker EXCEPT !.st = "fix"] IN
  rec \in Worker /\ rec.pairs = {} /\ rec.at = NoPair /\ rec.st = "fix"
BY DEF IdleWorker, Worker

\* A check that is over holds nothing
LEMMA OverTyped ==
  ASSUME Shape, NEW w \in Workers
  PROVE  /\ Over(w) \in Worker /\ Over(w).pairs = {} /\ Over(w).at = NoPair
         /\ Over(w).st # "insert"
BY WorkerTyped DEF Over, Worker

-----------------------------------------------------------------------------
(* Steps that touch no rule and take no pair *)

\* The counts of rules are the same and each worker holds what it held
LEMMA HoldsLess ==
  ASSUME OneHolder, HeldPairs, HolesArePairs,
         \A c \in Chains : chain'[c].out = chain[c].out /\ chain'[c].reply = chain[c].reply,
         torn' = torn, doubled' = doubled,
         \A v \in Workers, p \in Chains \X Bridges :
           /\ Holds(v, p)' => Holds(v, p)
           /\ HalfDone(v, p)' => HalfDone(v, p)
  PROVE  OneHolder' /\ HeldPairs' /\ HolesArePairs'
<1>1. OneHolder'
  BY DEF OneHolder
<1>2. HeldPairs'
  <2>1. SUFFICES ASSUME NEW c \in Chains, NEW b \in Bridges, NEW w \in Workers,
                        <<c, b>> \notin torn \cup doubled
                 PROVE  /\ Holds(w, <<c, b>>)' => chain'[c].out[b] = 0
                        /\ HalfDone(w, <<c, b>>)' => chain'[c].reply[b] >= 1
    BY DEF HeldPairs
  <2> QED
    BY <2>1 DEF HeldPairs
<1>3. HolesArePairs'
  BY DEF HolesArePairs
<1> QED
  BY <1>1, <1>2, <1>3

LEMMA Still ==
  ASSUME IInv, UNCHANGED worker, chain' \in [Chains -> Chain], bridges' \in SUBSET Bridges,
         \A c \in Chains : chain'[c].out = chain[c].out /\ chain'[c].reply = chain[c].reply,
         torn' = torn, doubled' = doubled
  PROVE  IInv'
<1>1. Shape' /\ Steps'
  BY DEF IInv, Shape, Steps
<1>2. \A v \in Workers, p \in Chains \X Bridges :
        (Holds(v, p)' => Holds(v, p)) /\ (HalfDone(v, p)' => HalfDone(v, p))
  BY DEF Holds, HalfDone
<1> QED
  BY <1>1, <1>2, HoldsLess DEF IInv

LEMMA LetsGo ==
  ASSUME IInv, NEW w \in Workers, NEW rec \in Worker, Set(w, rec),
         rec.pairs = {}, rec.at = NoPair, rec.st # "insert",
         chain' \in [Chains -> Chain], bridges' \in SUBSET Bridges,
         \A c \in Chains : chain'[c].out = chain[c].out /\ chain'[c].reply = chain[c].reply,
         torn' = torn, doubled' = doubled
  PROVE  IInv'
<1>1. /\ worker' \in [Workers -> Worker] /\ worker'[w] = rec
      /\ \A v \in Workers : v # w => worker'[v] = worker[v]
  BY SetWorker DEF IInv
<1>2. Shape'
  BY <1>1 DEF Shape
<1>3. Steps'
  BY <1>1 DEF IInv, Steps
<1>4. ASSUME NEW v \in Workers, NEW p \in Chains \X Bridges
      PROVE  (Holds(v, p)' => Holds(v, p)) /\ (HalfDone(v, p)' => HalfDone(v, p))
  <2>1. p # NoPair
    BY DEF NoPair
  <2> QED
    BY <1>1, <2>1 DEF Holds, HalfDone
<1> QED
  BY <1>2, <1>3, <1>4, HoldsLess DEF IInv

LEMMA LookTyped ==
  ASSUME Shape, NEW w \in Workers, worker[w].st \in {"idle", "fix"}, Steps
  PROVE  LET rec == [worker[w] EXCEPT !.st = "list", !.bridges = bridges] IN
         rec \in Worker /\ rec.pairs = {} /\ rec.at = NoPair /\ rec.st = "list"
<1>1. worker[w].pairs = {} /\ worker[w].at = NoPair
  BY DEF Steps
<1> QED
  BY <1>1, WorkerTyped DEF Shape, Worker

LEMMA Looks ==
  ASSUME IInv, NEW w \in Workers, worker[w].st \in {"idle", "fix"}, LookAtBridges(w),
         chain' \in [Chains -> Chain], bridges' \in SUBSET Bridges,
         \A c \in Chains : chain'[c].out = chain[c].out /\ chain'[c].reply = chain[c].reply,
         torn' = torn, doubled' = doubled
  PROVE  IInv'
<1>1. CASE bridges = {}
  BY <1>1, OverTyped, LetsGo DEF LookAtBridges, IInv
<1>2. CASE bridges # {}
  <2>1. Set(w, [worker[w] EXCEPT !.st = "list", !.bridges = bridges])
    BY <1>2 DEF LookAtBridges
  <2> QED
    BY <2>1, LookTyped, LetsGo DEF IInv
<1> QED
  BY <1>1, <1>2

LEMMA DaemonStep == ASSUME IInv, DaemonChecks PROVE IInv'
<1>1. "daemon" \in Workers
  BY DEF Workers
<1>2. chain' \in [Chains -> Chain] /\ bridges' \in SUBSET Bridges
  BY DEF DaemonChecks, IInv, Shape, Rest, net
<1>3. chain' = chain /\ torn' = torn /\ doubled' = doubled
  BY DEF DaemonChecks, ghosts
<1>4. worker["daemon"].st = "idle" /\ LookAtBridges("daemon")
  BY DEF DaemonChecks
<1> QED
  BY <1>1, <1>2, <1>3, <1>4, Looks

LEMMA FailStep == ASSUME IInv, NEW w \in Workers, NftFails(w) PROVE IInv'
<1>1. /\ Set(w, Over(w)) /\ chain' = chain /\ bridges' = bridges
      /\ torn' = torn /\ doubled' = doubled
  BY DEF NftFails, net, ghosts
<1>2. chain' \in [Chains -> Chain] /\ bridges' \in SUBSET Bridges
  BY <1>1 DEF IInv, Shape
<1> QED
  BY <1>1, <1>2, OverTyped, LetsGo DEF IInv

LEMMA CliStep == ASSUME IInv, Cli PROVE IInv'
<1>1. "cli" \in Workers
  BY DEF Workers
<1>2. chain \in [Chains -> Chain] /\ bridges \in SUBSET Bridges /\ Shape /\ Steps
  BY DEF IInv, Shape
<1>3. CASE RunDoctor \/ RunFix
  <2>1. chain' = chain /\ bridges' = bridges /\ torn' = torn /\ doubled' = doubled
    BY <1>3 DEF RunDoctor, RunFix, net, ghosts
  <2>2. Set("cli", [IdleWorker EXCEPT !.st = "fix"]) \/ UNCHANGED worker
    BY <1>3 DEF RunDoctor, RunFix
  <2>3. CASE Set("cli", [IdleWorker EXCEPT !.st = "fix"])
    BY <1>1, <1>2, <2>1, <2>3, FixTyped, LetsGo
  <2>4. CASE UNCHANGED worker
    BY <1>2, <2>1, <2>4, Still
  <2> QED
    BY <2>2, <2>3, <2>4
<1>4. CASE Declined \/ ApplyFails
  <2>1. /\ chain' = chain /\ bridges' = bridges /\ torn' = torn /\ doubled' = doubled
        /\ UNCHANGED worker
    BY <1>4 DEF Declined, ApplyFails, net, ghosts
  <2> QED
    BY <1>2, <2>1, Still
<1>5. CASE Apply
  <2>1. bridges' = bridges /\ torn' = torn /\ doubled' = doubled
    BY <1>5 DEF Apply, ghosts
  <2>2. chain' = [c \in Chains |-> IF Head(pending) = "disable-ufw" /\ c \in UfwChains
                                   THEN [chain[c] EXCEPT !.drop = FALSE] ELSE chain[c]]
    BY <1>5 DEF Apply
  <2>3. ASSUME NEW c \in Chains
        PROVE  /\ [chain[c] EXCEPT !.drop = FALSE] \in Chain
               /\ [chain[c] EXCEPT !.drop = FALSE].out = chain[c].out
               /\ [chain[c] EXCEPT !.drop = FALSE].reply = chain[c].reply
    BY <1>2 DEF Chain
  <2>4. /\ chain' \in [Chains -> Chain]
        /\ \A c \in Chains : chain'[c].out = chain[c].out /\ chain'[c].reply = chain[c].reply
    BY <1>2, <2>2, <2>3
  <2>5. UNCHANGED worker \/ (LookAtBridges("cli") /\ worker["cli"].st = "fix")
    BY <1>5 DEF Apply
  <2>6. CASE UNCHANGED worker
    BY <1>2, <2>1, <2>4, <2>6, Still
  <2>7. CASE LookAtBridges("cli") /\ worker["cli"].st = "fix"
    BY <1>1, <1>2, <2>1, <2>4, <2>7, Looks
  <2> QED
    BY <2>5, <2>6, <2>7
<1>6. CASE DoctorEnds
  <2>1. /\ chain' = chain /\ bridges' = bridges /\ torn' = torn /\ doubled' = doubled
        /\ Set("cli", IdleWorker)
    BY <1>6 DEF DoctorEnds, net, ghosts
  <2> QED
    BY <1>1, <1>2, <2>1, IdleTyped, LetsGo
<1> QED
  BY <1>3, <1>4, <1>5, <1>6 DEF Cli

-----------------------------------------------------------------------------
(* The three steps of a check *)

LEMMA BlockingHasNoWayOut ==
  ASSUME NEW w \in Workers, Shape
  PROVE  /\ Todo(w) \in SUBSET (Chains \X Bridges)
         /\ \A c \in Chains, b \in Bridges : <<c, b>> \in Todo(w) => chain[c].out[b] = 0
<1>1. worker[w].bridges \in SUBSET Bridges
  BY WorkerTyped
<1>2. Todo(w) \in SUBSET (Chains \X Bridges)
  BY <1>1 DEF Todo
<1>3. ASSUME NEW c \in Chains, NEW b \in Bridges, <<c, b>> \in Todo(w)
      PROVE  chain[c].out[b] = 0
  <2>1. c \in Blocking(b)
    BY <1>3 DEF Todo
  <2> QED
    BY <2>1 DEF Blocking
<1> QED
  BY <1>2, <1>3

LEMMA ListStep == ASSUME IInv, NEW w \in Workers, List(w) PROVE IInv'
<1> DEFINE rec == [worker[w] EXCEPT !.st = "next", !.pairs = Todo(w)]
<1>1. /\ Shape /\ Steps /\ OneHolder /\ HeldPairs /\ HolesArePairs
      /\ Set(w, rec) /\ chain' = chain /\ bridges' = bridges /\ torn' = torn
      /\ worker[w].st = "list"
      /\ doubled' = doubled \cup {p \in Todo(w) : \E v \in Workers \ {w} :
                                     p \in worker[v].pairs \/ p = worker[v].at}
  BY DEF IInv, List, Rest, net
<1>2. /\ Todo(w) \in SUBSET (Chains \X Bridges)
      /\ \A c \in Chains, b \in Bridges : <<c, b>> \in Todo(w) => chain[c].out[b] = 0
  BY <1>1, BlockingHasNoWayOut
<1>3. worker[w].at = NoPair /\ worker[w].pairs = {}
  BY <1>1 DEF Steps
<1>4. rec \in Worker /\ rec.st = "next" /\ rec.pairs = Todo(w) /\ rec.at = NoPair
  BY <1>1, <1>2, <1>3, WorkerTyped DEF Worker
<1> HIDE DEF rec
<1>5. /\ worker' \in [Workers -> Worker] /\ worker'[w] = rec
      /\ \A v \in Workers : v # w => worker'[v] = worker[v]
  BY <1>1, <1>4, SetWorker
<1>6. Shape'
  BY <1>1, <1>5 DEF Shape
<1>7. NoPair \notin Todo(w)
  BY <1>2 DEF NoPair
<1>8. Steps'
  BY <1>1, <1>4, <1>5, <1>7 DEF Steps
<1>9. ASSUME NEW p \in Chains \X Bridges
      PROVE  /\ Holds(w, p)' <=> p \in Todo(w)
             /\ ~HalfDone(w, p)'
             /\ \A v \in Workers : v # w => /\ Holds(v, p)' <=> Holds(v, p)
                                            /\ HalfDone(v, p)' <=> HalfDone(v, p)
  <2>1. p # NoPair
    BY DEF NoPair
  <2> QED
    BY <1>4, <1>5, <2>1 DEF Holds, HalfDone
<1>10. ASSUME NEW p \in Chains \X Bridges, p \in Todo(w), p \notin doubled',
             NEW v \in Workers, v # w
       PROVE ~Holds(v, p)
  BY <1>1, <1>10 DEF Holds
<1>11. OneHolder'
  <2>1. SUFFICES ASSUME NEW p \in Chains \X Bridges, NEW u \in Workers, NEW v \in Workers,
                        p \notin doubled', Holds(u, p)', Holds(v, p)'
                 PROVE  u = v
    BY DEF OneHolder
  <2>2. p \notin doubled
    BY <1>1, <2>1
  <2> QED
    BY <1>1, <1>9, <1>10, <2>1, <2>2 DEF OneHolder
<1>12. HeldPairs'
  <2>1. SUFFICES ASSUME NEW c \in Chains, NEW b \in Bridges, NEW v \in Workers,
                        <<c, b>> \notin torn' \cup doubled'
                 PROVE  /\ Holds(v, <<c, b>>)' => chain'[c].out[b] = 0
                        /\ HalfDone(v, <<c, b>>)' => chain'[c].reply[b] >= 1
    BY DEF HeldPairs
  <2>2. <<c, b>> \notin torn \cup doubled /\ <<c, b>> \in Chains \X Bridges
    BY <1>1, <2>1
  <2> QED
    BY <1>1, <1>2, <1>9, <2>1, <2>2 DEF HeldPairs
<1>13. HolesArePairs'
  BY <1>1 DEF HolesArePairs
<1> QED
  BY <1>6, <1>8, <1>11, <1>12, <1>13 DEF IInv

LEMMA NextStep == ASSUME IInv, NEW w \in Workers, NextPair(w) PROVE IInv'
<1>1. /\ Shape /\ Steps /\ OneHolder /\ HeldPairs /\ HolesArePairs
      /\ chain' = chain /\ bridges' = bridges /\ torn' = torn /\ doubled' = doubled
      /\ worker[w].st = "next"
  BY DEF IInv, NextPair, Rest, net, ghosts
<1>2. chain \in [Chains -> Chain] /\ bridges \in SUBSET Bridges
  BY <1>1 DEF Shape
<1>3. CASE Set(w, Over(w))
  BY <1>1, <1>2, <1>3, OverTyped, LetsGo
<1>4. ASSUME NEW p \in worker[w].pairs,
             Set(w, [worker[w] EXCEPT !.st = "insert", !.at = p, !.pairs = @ \ {p}, !.todo = Rules])
      PROVE  IInv'
  <2> DEFINE rec == [worker[w] EXCEPT !.st = "insert", !.at = p, !.pairs = @ \ {p}, !.todo = Rules]
  <2>1. p \in Chains \X Bridges /\ p # NoPair
    BY <1>1, <1>4, WorkerTyped DEF NoPair
  <2>2. /\ rec \in Worker /\ rec.st = "insert" /\ rec.at = p /\ rec.pairs = worker[w].pairs \ {p}
        /\ rec.todo = Rules
    BY <1>1, <1>4, <2>1, WorkerTyped DEF Worker
  <2> HIDE DEF rec
  <2>3. /\ worker' \in [Workers -> Worker] /\ worker'[w] = rec
        /\ \A v \in Workers : v # w => worker'[v] = worker[v]
    BY <1>1, <1>4, <2>2, SetWorker DEF rec
  <2>4. Shape'
    BY <1>1, <1>2, <2>3 DEF Shape
  <2>5. Steps'
    BY <1>1, <2>1, <2>2, <2>3 DEF Steps
  <2>6. Rules # <<"out">>
    BY DEF Rules
  <2>7. \A v \in Workers, q \in Chains \X Bridges :
          (Holds(v, q)' => Holds(v, q)) /\ (HalfDone(v, q)' => HalfDone(v, q))
    BY <1>4, <2>2, <2>3, <2>6 DEF Holds, HalfDone
  <2> QED
    BY <1>1, <2>4, <2>5, <2>7, HoldsLess DEF IInv
<1> QED
  BY <1>3, <1>4 DEF NextPair

\* What one more rule changes: one count of one chain
LEMMA OneMoreReply ==
  ASSUME chain \in [Chains -> Chain], NEW c \in Chains, NEW b \in Bridges,
         chain[c].reply[b] < MaxRules,
         chain' = [chain EXCEPT ![c]["reply"][b] = @ + 1]
  PROVE  /\ chain' \in [Chains -> Chain]
         /\ \A d \in Chains, e \in Bridges :
              /\ chain'[d].out[e] = chain[d].out[e]
              /\ chain'[d].reply[e] = IF d = c /\ e = b THEN chain[d].reply[e] + 1
                                                       ELSE chain[d].reply[e]
<1> DEFINE new == [chain[c] EXCEPT !.reply = [chain[c].reply EXCEPT ![b] = chain[c].reply[b] + 1]]
<1>1. chain[c] \in Chain /\ chain[c].reply \in [Bridges -> 0 .. MaxRules]
  BY DEF Chain
<1>2. [chain[c].reply EXCEPT ![b] = @ + 1] \in [Bridges -> 0 .. MaxRules]
  BY <1>1, DoctorAssumption
<1>3. /\ new \in Chain /\ new.out = chain[c].out
      /\ \A e \in Bridges : new.reply[e] = IF e = b THEN chain[c].reply[e] + 1 ELSE chain[c].reply[e]
  BY <1>1, <1>2 DEF Chain
<1>4. chain' = [chain EXCEPT ![c] = new]
  OBVIOUS
<1> HIDE DEF new
<1>5. chain' \in [Chains -> Chain] /\ chain'[c] = new
  BY <1>3, <1>4
<1>6. \A d \in Chains : d # c => chain'[d] = chain[d]
  BY <1>4
<1> QED
  BY <1>3, <1>5, <1>6

LEMMA OneMoreOut ==
  ASSUME chain \in [Chains -> Chain], NEW c \in Chains, NEW b \in Bridges,
         chain[c].out[b] < MaxRules,
         chain' = [chain EXCEPT ![c]["out"][b] = @ + 1]
  PROVE  /\ chain' \in [Chains -> Chain]
         /\ \A d \in Chains, e \in Bridges :
              /\ chain'[d].reply[e] = chain[d].reply[e]
              /\ chain'[d].out[e] = IF d = c /\ e = b THEN chain[d].out[e] + 1
                                                     ELSE chain[d].out[e]
<1> DEFINE new == [chain[c] EXCEPT !.out = [chain[c].out EXCEPT ![b] = chain[c].out[b] + 1]]
<1>1. chain[c] \in Chain /\ chain[c].out \in [Bridges -> 0 .. MaxRules]
  BY DEF Chain
<1>2. [chain[c].out EXCEPT ![b] = @ + 1] \in [Bridges -> 0 .. MaxRules]
  BY <1>1, DoctorAssumption
<1>3. /\ new \in Chain /\ new.reply = chain[c].reply
      /\ \A e \in Bridges : new.out[e] = IF e = b THEN chain[c].out[e] + 1 ELSE chain[c].out[e]
  BY <1>1, <1>2 DEF Chain
<1>4. chain' = [chain EXCEPT ![c] = new]
  OBVIOUS
<1> HIDE DEF new
<1>5. chain' \in [Chains -> Chain] /\ chain'[c] = new
  BY <1>3, <1>4
<1>6. \A d \in Chains : d # c => chain'[d] = chain[d]
  BY <1>4
<1> QED
  BY <1>3, <1>5, <1>6

LEMMA RulesAre ==
  /\ Head(Rules) = "reply" /\ Tail(Rules) = <<"out">> /\ Len(Rules) = 2
  /\ Head(<<"out">>) = "out" /\ Len(<<"out">>) = 1 /\ Rules # <<"out">> /\ Rules # <<>>
BY DEF Rules

LEMMA InsertStep == ASSUME IInv, NEW w \in Workers, Insert(w) PROVE IInv'
<1>1. /\ Shape /\ Steps /\ OneHolder /\ HeldPairs /\ HolesArePairs
      /\ bridges' = bridges /\ torn' = torn /\ doubled' = doubled
      /\ worker[w].st = "insert"
  BY DEF IInv, Insert, Rest, net, ghosts
<1>2. chain \in [Chains -> Chain] /\ bridges \in SUBSET Bridges
  BY <1>1 DEF Shape
<1>3. /\ worker[w].at \in Chains \X Bridges /\ worker[w].todo \in {Rules, <<"out">>}
      /\ worker[w].at \notin worker[w].pairs
  BY <1>1, WorkerTyped DEF Steps
<1>4. PICK c \in Chains, b \in Bridges : worker[w].at = <<c, b>>
  BY <1>3
<1>5. worker[w].at[1] = c /\ worker[w].at[2] = b
  BY <1>4
<1>6. CASE ~chain[c].there
  <2>1. chain' = chain /\ Set(w, Over(w))
    BY <1>5, <1>6 DEF Insert
  <2> QED
    BY <1>1, <1>2, <2>1, OverTyped, LetsGo
<1>7. CASE chain[c].there /\ worker[w].todo = Rules
  <2> DEFINE rec == [worker[w] EXCEPT !.todo = Tail(@)]
  <2>1. /\ chain[c]["reply"][b] < MaxRules /\ chain' = [chain EXCEPT ![c]["reply"][b] = @ + 1]
        /\ Set(w, rec)
    BY <1>5, <1>7, RulesAre DEF Insert
  <2>2. /\ chain' \in [Chains -> Chain]
        /\ \A d \in Chains, e \in Bridges :
              /\ chain'[d].out[e] = chain[d].out[e]
              /\ chain'[d].reply[e] = IF d = c /\ e = b THEN chain[d].reply[e] + 1
                                                       ELSE chain[d].reply[e]
    BY <1>2, <2>1, OneMoreReply
  <2>3. /\ rec \in Worker /\ rec.st = "insert" /\ rec.at = <<c, b>>
        /\ rec.pairs = worker[w].pairs /\ rec.todo = <<"out">>
    <3>1. Tail(worker[w].todo) = <<"out">>
      BY <1>7, RulesAre
    <3>2. rec = [worker[w] EXCEPT !.todo = <<"out">>] /\ worker[w] \in Worker
      BY <1>1, <3>1, WorkerTyped
    <3> HIDE DEF rec
    <3> QED
      BY <1>1, <1>4, <3>2 DEF Worker
  <2> HIDE DEF rec
  <2>4. /\ worker' \in [Workers -> Worker] /\ worker'[w] = rec
        /\ \A v \in Workers : v # w => worker'[v] = worker[v]
    BY <1>1, <2>1, <2>3, SetWorker
  <2>5. Shape'
    BY <1>1, <1>2, <2>2, <2>4 DEF Shape
  <2>6. Steps'
    <3>1. <<c, b>> # NoPair
      BY DEF NoPair
    <3> QED
      BY <1>1, <1>3, <1>4, <2>3, <2>4, <3>1 DEF Steps
  <2>7. \A v \in Workers, p \in Chains \X Bridges :
          /\ Holds(v, p)' <=> Holds(v, p)
          /\ HalfDone(v, p)' => HalfDone(v, p) \/ p = <<c, b>>
    BY <1>4, <2>3, <2>4 DEF Holds, HalfDone
  <2>8. OneHolder'
    BY <1>1, <2>7 DEF OneHolder
  <2>9. \A d \in Chains, e \in Bridges : chain[d].reply[e] \in Nat
    BY <1>2 DEF Chain
  <2>10. HeldPairs'
    <3>1. SUFFICES ASSUME NEW d \in Chains, NEW e \in Bridges, NEW v \in Workers,
                          <<d, e>> \notin torn \cup doubled
                   PROVE  /\ Holds(v, <<d, e>>)' => chain'[d].out[e] = 0
                          /\ HalfDone(v, <<d, e>>)' => chain'[d].reply[e] >= 1
      BY <1>1 DEF HeldPairs
    <3>2. Holds(v, <<d, e>>)' => chain'[d].out[e] = 0
      BY <1>1, <2>2, <2>7, <3>1 DEF HeldPairs
    <3>3. CASE d = c /\ e = b
      BY <2>2, <2>9, <3>2, <3>3
    <3>4. CASE <<d, e>> # <<c, b>>
      <4>1. HalfDone(v, <<d, e>>)' => HalfDone(v, <<d, e>>)
        BY <2>7, <3>4
      <4>2. chain'[d].reply[e] = chain[d].reply[e]
        BY <2>2, <3>4
      <4> QED
        BY <1>1, <3>1, <3>2, <4>1, <4>2 DEF HeldPairs
    <3> QED
      BY <3>3, <3>4
  <2>11. HolesArePairs'
    <3>1. SUFFICES ASSUME NEW d \in Chains, NEW e \in Bridges, <<d, e>> \notin torn \cup doubled
                   PROVE  /\ chain'[d].out[e] <= 1
                          /\ chain'[d].out[e] = 1 => chain'[d].reply[e] >= 1
      BY <1>1 DEF HolesArePairs
    <3> QED
      BY <1>1, <2>2, <2>9, <3>1 DEF HolesArePairs
  <2> QED
    BY <2>5, <2>6, <2>8, <2>10, <2>11 DEF IInv
<1>8. CASE chain[c].there /\ worker[w].todo = <<"out">>
  <2> DEFINE rec == [worker[w] EXCEPT !.st = "next", !.at = NoPair, !.todo = <<>>]
  <2>1. /\ chain[c]["out"][b] < MaxRules /\ chain' = [chain EXCEPT ![c]["out"][b] = @ + 1]
        /\ Set(w, rec)
    BY <1>5, <1>8, RulesAre DEF Insert
  <2>2. /\ chain' \in [Chains -> Chain]
        /\ \A d \in Chains, e \in Bridges :
              /\ chain'[d].reply[e] = chain[d].reply[e]
              /\ chain'[d].out[e] = IF d = c /\ e = b THEN chain[d].out[e] + 1
                                                     ELSE chain[d].out[e]
    BY <1>2, <2>1, OneMoreOut
  <2>3. /\ rec \in Worker /\ rec.st = "next" /\ rec.at = NoPair
        /\ rec.pairs = worker[w].pairs /\ rec.todo = <<>>
    BY <1>1, WorkerTyped DEF Worker
  <2> HIDE DEF rec
  <2>4. /\ worker' \in [Workers -> Worker] /\ worker'[w] = rec
        /\ \A v \in Workers : v # w => worker'[v] = worker[v]
    BY <1>1, <2>1, <2>3, SetWorker
  <2>5. Shape'
    BY <1>1, <1>2, <2>2, <2>4 DEF Shape
  <2>6. Steps'
    <3>1. NoPair \notin worker[w].pairs
      BY <1>1, WorkerTyped DEF NoPair
    <3> QED
      BY <1>1, <2>3, <2>4, <3>1 DEF Steps
  <2>7. ASSUME NEW v \in Workers, NEW p \in Chains \X Bridges
        PROVE  /\ Holds(v, p)' => Holds(v, p)
               /\ HalfDone(v, p)' => HalfDone(v, p)
               /\ ~Holds(w, <<c, b>>)'
    <3>1. p # NoPair /\ <<c, b>> # NoPair
      BY DEF NoPair
    <3>2. (Holds(v, p)' => Holds(v, p)) /\ (HalfDone(v, p)' => HalfDone(v, p))
      BY <2>3, <2>4, <3>1 DEF Holds, HalfDone
    <3>3. ~Holds(w, <<c, b>>)'
      BY <1>3, <1>4, <2>3, <2>4, <3>1 DEF Holds
    <3> QED
      BY <3>2, <3>3
  <2>8. OneHolder'
    BY <1>1, <2>7 DEF OneHolder
  <2>9. Holds(w, <<c, b>>) /\ HalfDone(w, <<c, b>>)
    BY <1>4, <1>8 DEF Holds, HalfDone
  <2>10. <<c, b>> \notin torn \cup doubled => /\ chain[c].out[b] = 0 /\ chain[c].reply[b] >= 1
                                             /\ \A v \in Workers : ~Holds(v, <<c, b>>)'
    BY <1>1, <2>7, <2>9 DEF HeldPairs, OneHolder
  <2>11. HeldPairs'
    <3>1. SUFFICES ASSUME NEW d \in Chains, NEW e \in Bridges, NEW v \in Workers,
                          <<d, e>> \notin torn \cup doubled
                   PROVE  /\ Holds(v, <<d, e>>)' => chain'[d].out[e] = 0
                          /\ HalfDone(v, <<d, e>>)' => chain'[d].reply[e] >= 1
      BY <1>1 DEF HeldPairs
    <3>2. HalfDone(v, <<d, e>>)' => chain'[d].reply[e] >= 1
      BY <1>1, <2>2, <2>7, <3>1 DEF HeldPairs
    <3>3. CASE d = c /\ e = b
      BY <2>10, <3>1, <3>2, <3>3
    <3>4. CASE ~(d = c /\ e = b)
      <4>1. chain'[d].out[e] = chain[d].out[e]
        BY <2>2, <3>4
      <4> QED
        BY <1>1, <2>7, <3>1, <3>2, <4>1 DEF HeldPairs
    <3> QED
      BY <3>3, <3>4
  <2>12. HolesArePairs'
    <3>1. SUFFICES ASSUME NEW d \in Chains, NEW e \in Bridges, <<d, e>> \notin torn \cup doubled
                   PROVE  /\ chain'[d].out[e] <= 1
                          /\ chain'[d].out[e] = 1 => chain'[d].reply[e] >= 1
      BY <1>1 DEF HolesArePairs
    <3>2. CASE d = c /\ e = b
      BY <2>2, <2>10, <3>1, <3>2
    <3>3. CASE ~(d = c /\ e = b)
      BY <1>1, <2>2, <3>1, <3>3 DEF HolesArePairs
    <3> QED
      BY <3>2, <3>3
  <2> QED
    BY <2>5, <2>6, <2>8, <2>11, <2>12 DEF IInv
<1> QED
  BY <1>3, <1>6, <1>7, <1>8

-----------------------------------------------------------------------------
(* The machine around the checks *)

LEMMA BareTyped ==
  ASSUME NEW there \in BOOLEAN, NEW drop \in BOOLEAN
  PROVE  /\ Bare(there, drop) \in Chain
         /\ Bare(there, drop).out = [b \in Bridges |-> 0]
         /\ Bare(there, drop).reply = [b \in Bridges |-> 0]
<1>1. 0 \in 0 .. MaxRules
  BY DoctorAssumption
<1> QED
  BY <1>1 DEF Bare, Chain

\* A chain made anew has none of our rules: who was half-way at one of its pairs
\* tears it, and everybody else finds what it would have found at the start
LEMMA RebuildStep == ASSUME IInv, NEW c \in Chains, Rebuild(c) PROVE IInv'
<1>1. /\ Shape /\ Steps /\ OneHolder /\ HeldPairs /\ HolesArePairs
      /\ bridges' = bridges /\ doubled' = doubled /\ worker' = worker
      /\ torn' = {p \in torn : p[1] # c}
              \cup {worker[w].at : w \in {v \in Workers :
                       /\ worker[v].st = "insert" /\ worker[v].at[1] = c
                       /\ worker[v].todo # Rules}}
  BY DEF IInv, Rebuild, Outside, net
<1>2. chain \in [Chains -> Chain] /\ bridges \in SUBSET Bridges /\ worker \in [Workers -> Worker]
  BY <1>1 DEF Shape
<1>3. PICK there \in BOOLEAN, drop \in BOOLEAN :
        chain' = [chain EXCEPT ![c] = Bare(there, drop)]
  BY DEF Rebuild
<1> DEFINE new == Bare(there, drop)
<1>4. /\ new \in Chain /\ new.out = [b \in Bridges |-> 0] /\ new.reply = [b \in Bridges |-> 0]
  BY BareTyped
<1> HIDE DEF new
<1>5. /\ chain' \in [Chains -> Chain] /\ chain'[c] = new
      /\ \A d \in Chains : d # c => chain'[d] = chain[d]
  BY <1>2, <1>3, <1>4 DEF new
<1>6. Shape' /\ Steps'
  BY <1>1, <1>2, <1>5 DEF Shape, Steps
<1>7. \A v \in Workers : \A p :
        (Holds(v, p)' <=> Holds(v, p)) /\ (HalfDone(v, p)' <=> HalfDone(v, p))
  BY <1>1 DEF Holds, HalfDone
<1>8. OneHolder'
  BY <1>1, <1>7 DEF OneHolder
<1>9. ASSUME NEW d \in Chains, NEW b \in Bridges, d # c
      PROVE  <<d, b>> \in torn => <<d, b>> \in torn'
  BY <1>1, <1>9
<1>10. ASSUME NEW v \in Workers, NEW b \in Bridges, HalfDone(v, <<c, b>>)
       PROVE  <<c, b>> \in torn'
  <2>1. worker[v].at = <<c, b>> /\ worker[v].todo = <<"out">>
    BY <1>10 DEF HalfDone
  <2>2. <<c, b>> # NoPair
    BY DEF NoPair
  <2>3. worker[v].st = "insert"
    BY <1>1, <2>1, <2>2 DEF Steps
  <2> QED
    BY <1>1, <2>1, <2>3, RulesAre
<1>11. HeldPairs'
  <2>1. SUFFICES ASSUME NEW d \in Chains, NEW b \in Bridges, NEW v \in Workers,
                        <<d, b>> \notin torn' \cup doubled
                 PROVE  /\ Holds(v, <<d, b>>) => chain'[d].out[b] = 0
                        /\ HalfDone(v, <<d, b>>) => chain'[d].reply[b] >= 1
    BY <1>1, <1>7 DEF HeldPairs
  <2>2. CASE d = c
    BY <1>4, <1>5, <1>10, <2>1, <2>2
  <2>3. CASE d # c
    BY <1>1, <1>5, <1>9, <2>1, <2>3 DEF HeldPairs
  <2> QED
    BY <2>2, <2>3
<1>12. HolesArePairs'
  <2>1. SUFFICES ASSUME NEW d \in Chains, NEW b \in Bridges, <<d, b>> \notin torn' \cup doubled
                 PROVE  /\ chain'[d].out[b] <= 1
                        /\ chain'[d].out[b] = 1 => chain'[d].reply[b] >= 1
    BY <1>1 DEF HolesArePairs
  <2>2. CASE d = c
    BY <1>4, <1>5, <2>2
  <2>3. CASE d # c
    BY <1>1, <1>5, <1>9, <2>1, <2>3 DEF HolesArePairs
  <2> QED
    BY <2>2, <2>3
<1> QED
  BY <1>6, <1>8, <1>11, <1>12 DEF IInv

LEMMA RetouchStep == ASSUME IInv, NEW c \in Chains, Retouch(c) PROVE IInv'
<1>1. chain \in [Chains -> Chain] /\ bridges \in SUBSET Bridges
  BY DEF IInv, Shape
<1>2. bridges' = bridges /\ worker' = worker /\ torn' = torn /\ doubled' = doubled
  BY DEF Retouch, Outside, net
<1>3. \/ chain' = [chain EXCEPT ![c].drop = ~@]
      \/ \E b \in Bridges : chain' = [chain EXCEPT ![c].other = @ \cup {b}]
  BY DEF Retouch
<1>4. CASE chain' = [chain EXCEPT ![c].drop = ~@]
  <2>1. LET new == [chain[c] EXCEPT !.drop = ~@] IN
        new \in Chain /\ new.out = chain[c].out /\ new.reply = chain[c].reply
    BY <1>1 DEF Chain
  <2>2. /\ chain' \in [Chains -> Chain]
        /\ \A d \in Chains : chain'[d].out = chain[d].out /\ chain'[d].reply = chain[d].reply
    BY <1>1, <1>4, <2>1
  <2> QED
    BY <1>1, <1>2, <2>2, Still
<1>5. ASSUME NEW b \in Bridges, chain' = [chain EXCEPT ![c].other = @ \cup {b}]
      PROVE  IInv'
  <2>1. LET new == [chain[c] EXCEPT !.other = @ \cup {b}] IN
        new \in Chain /\ new.out = chain[c].out /\ new.reply = chain[c].reply
    BY <1>1 DEF Chain
  <2>2. /\ chain' \in [Chains -> Chain]
        /\ \A d \in Chains : chain'[d].out = chain[d].out /\ chain'[d].reply = chain[d].reply
    BY <1>1, <1>5, <2>1
  <2> QED
    BY <1>1, <1>2, <2>2, Still
<1> QED
  BY <1>3, <1>4, <1>5

LEMMA EnvironmentStep == ASSUME IInv, Environment PROVE IInv'
<1>1. chain \in [Chains -> Chain] /\ bridges \in SUBSET Bridges /\ Shape
  BY DEF IInv, Shape
<1>2. "daemon" \in Workers /\ "cli" \in Workers
  BY DEF Workers
<1>3. CASE NetworkChanges
  <2>1. chain' = chain /\ worker' = worker /\ torn' = torn /\ doubled' = doubled
    BY <1>3 DEF NetworkChanges, Outside
  <2>2. bridges' \in SUBSET Bridges
    BY <1>1, <1>3 DEF NetworkChanges
  <2> QED
    BY <1>1, <2>1, <2>2, Still
<1>4. CASE HostChanges
  <2>1. chain' = chain /\ bridges' = bridges /\ torn' = torn /\ doubled' = doubled
    BY <1>4 DEF HostChanges, Outside
  <2>2. worker' = worker \/ Set("daemon", IdleWorker)
    BY <1>4 DEF HostChanges
  <2>3. CASE worker' = worker
    BY <1>1, <2>1, <2>3, Still
  <2>4. CASE Set("daemon", IdleWorker)
    BY <1>1, <1>2, <2>1, <2>4, IdleTyped, LetsGo
  <2> QED
    BY <2>2, <2>3, <2>4
<1>5. CASE Interrupted
  <2>1. /\ chain' = chain /\ bridges' = bridges /\ torn' = torn /\ doubled' = doubled
        /\ Set("cli", IdleWorker)
    BY <1>5 DEF Interrupted, Outside, net
  <2> QED
    BY <1>1, <1>2, <2>1, IdleTyped, LetsGo
<1> QED
  BY <1>3, <1>4, <1>5, RebuildStep, RetouchStep DEF Environment

-----------------------------------------------------------------------------
LEMMA Start == Init => IInv
<1>1. SUFFICES ASSUME Init PROVE IInv
  OBVIOUS
<1>2. LET new == Bare(TRUE, TRUE) IN
      new \in Chain /\ new.out = [b \in Bridges |-> 0] /\ new.reply = [b \in Bridges |-> 0]
  BY BareTyped
<1>3. /\ \A c \in Chains : chain[c] = Bare(TRUE, TRUE)
      /\ \A w \in Workers : worker[w] = IdleWorker
      /\ chain = [c \in Chains |-> Bare(TRUE, TRUE)] /\ worker = [w \in Workers |-> IdleWorker]
      /\ bridges \in SUBSET Bridges
  BY <1>1 DEF Init
<1>4. Shape
  BY <1>2, <1>3, IdleTyped DEF Shape
<1>5. Steps
  BY <1>3, IdleTyped DEF Steps
<1>6. \A w \in Workers, p \in Chains \X Bridges : ~Holds(w, p) /\ ~HalfDone(w, p)
  <2>1. \A p \in Chains \X Bridges : p # NoPair
    BY DEF NoPair
  <2> QED
    BY <1>3, <2>1, IdleTyped DEF Holds, HalfDone
<1>7. OneHolder /\ HeldPairs
  BY <1>6 DEF OneHolder, HeldPairs
<1>8. HolesArePairs
  <2>1. \A c \in Chains, b \in Bridges : chain[c].out[b] = 0
    BY <1>2, <1>3
  <2> QED
    BY <2>1 DEF HolesArePairs
<1> QED
  BY <1>4, <1>5, <1>7, <1>8 DEF IInv

LEMMA PairsKept == IInv /\ [Next]_vars => IInv'
<1>1. SUFFICES ASSUME IInv, [Next]_vars PROVE IInv'
  OBVIOUS
<1>2. CASE UNCHANGED vars
  <2>1. /\ chain' = chain /\ bridges' = bridges /\ torn' = torn /\ doubled' = doubled
        /\ worker' = worker
    BY <1>2 DEF vars, net, ghosts
  <2> QED
    BY <1>1, <2>1, Still DEF IInv, Shape
<1>3. CASE \E w \in Workers : Check(w) \/ NftFails(w)
  BY <1>1, <1>3, ListStep, NextStep, InsertStep, FailStep DEF Check
<1> QED
  BY <1>1, <1>2, <1>3, DaemonStep, CliStep, EnvironmentStep DEF Next, Nothing

(* The two rules of a hole stay together and there is one hole per bridge, *)
(* unless two checks found the same chain blocking or the chain was made   *)
(* anew between the two nft calls (doctor.rs `ensure_vm_forwarding`): for  *)
(* any number of chains and bridges, however the daemon's check and the    *)
(* doctor's interleave, fail or die, and whatever others do to the chains. *)
THEOREM HolesStayPairs == Spec => []HolesArePairs
<1>1. IInv => HolesArePairs
  BY DEF IInv
<1> QED
  BY <1>1, Start, PairsKept, PTL DEF Spec

-----------------------------------------------------------------------------
(* What the doctor finds, as a set: one finding per condition. *)
Needed ==
  {id \in FIXES :
     \/ id = "start-firewall" /\ host.fw \in {"stale", "frozen", "down"}
     \/ id = "disable-ufw" /\ host.ufw
     \/ id = "disable-firewalld" /\ host.firewalld
     \/ id = "restart-resolved" /\ host.route /\ host.internet /\ ~host.dns /\ host.resolved
     \/ id = "enable-forwarding" /\ bridges # {} /\ ~host.ip_forward
     \/ id = "allow-vm-forwarding" /\ \E b \in bridges : Blocking(b) # {}
     \/ id = "restart-libvirt-network" /\ \E b \in bridges : b \in Libvirt \ nat
     \/ id = "unban-protected" /\ host.banned}

LEMMA Offers ==
  ASSUME NEW cond \in BOOLEAN, NEW id \in FIXES
  PROVE  Offer(cond, id) \in Seq(FIXES) /\ ToSet(Offer(cond, id)) = IF cond THEN {id} ELSE {}
<1>1. CASE cond
  BY <1>1 DEF Offer, ToSet
<1>2. CASE ~cond
  BY <1>2 DEF Offer, ToSet
<1> QED
  BY <1>1, <1>2

\* The bridges one after the other are all the bridges
LEMMA EveryBridge ==
  ASSUME bridges \in SUBSET Bridges
  PROVE  /\ Cardinality(bridges) \in Nat
         /\ SetToSeq(bridges) \in [1 .. Cardinality(bridges) -> bridges]
         /\ \A b \in bridges : \E k \in 1 .. Cardinality(bridges) : SetToSeq(bridges)[k] = b
<1>1. IsFiniteSet(bridges)
  BY DoctorAssumption, FS_Subset
<1>2. Cardinality(bridges) \in Nat
  BY <1>1, FS_CardinalityType
<1>3. ExistsBijection(1 .. Cardinality(bridges), bridges)
  BY <1>1, FS_CardinalityType
<1>4. PICK f \in [1 .. Cardinality(bridges) -> bridges] : IsInjective(f)
  BY <1>3 DEF ExistsBijection, Bijection, Injection, IsInjective
<1>5. /\ SetToSeq(bridges) \in [1 .. Cardinality(bridges) -> bridges]
      /\ IsInjective(SetToSeq(bridges))
  BY <1>4 DEF SetToSeq
<1>6. Cardinality(1 .. Cardinality(bridges)) = Cardinality(bridges)
  BY <1>2, FS_Interval
<1>7. SetToSeq(bridges) \in Surjection(1 .. Cardinality(bridges), bridges)
  BY <1>1, <1>5, <1>6, FS_Injection DEF Injection
<1> QED
  BY <1>2, <1>5, <1>7 DEF Surjection

LEMMA BridgeOffers ==
  ASSUME NEW b
  PROVE  /\ CheckBridge(b) \in Seq(FIXES)
         /\ ToSet(CheckBridge(b)) = (IF Blocking(b) # {} THEN {"allow-vm-forwarding"} ELSE {})
                               \cup (IF b \in Libvirt \ nat THEN {"restart-libvirt-network"} ELSE {})
<1> DEFINE one == Offer(Blocking(b) # {}, "allow-vm-forwarding")
           two == Offer(b \in Libvirt \ nat, "restart-libvirt-network")
<1>0. /\ {"allow-vm-forwarding", "restart-libvirt-network"} \subseteq FIXES
      /\ (Blocking(b) # {}) \in BOOLEAN /\ (b \in Libvirt \ nat) \in BOOLEAN
  BY DEF FIXES
<1>1. one \in Seq(FIXES) /\ ToSet(one) = IF Blocking(b) # {} THEN {"allow-vm-forwarding"} ELSE {}
  BY <1>0, Offers
<1>2. two \in Seq(FIXES) /\ ToSet(two) = IF b \in Libvirt \ nat THEN {"restart-libvirt-network"} ELSE {}
  BY <1>0, Offers
<1>3. CheckBridge(b) = one \o two
  BY DEF CheckBridge
<1> HIDE DEF one, two
<1> QED
  BY <1>1, <1>2, <1>3, Joined

LEMMA BridgesOffer ==
  ASSUME bridges \in SUBSET Bridges
  PROVE  LET all == CheckBridges[Cardinality(bridges)] IN
         /\ all \in Seq(FIXES)
         /\ ToSet(all) =
              (IF \E b \in bridges : Blocking(b) # {} THEN {"allow-vm-forwarding"} ELSE {})
              \cup (IF \E b \in bridges : b \in Libvirt \ nat THEN {"restart-libvirt-network"} ELSE {})
<1> DEFINE N == Cardinality(bridges)
           e == [n \in 1 .. N |-> CheckBridge(SetToSeq(bridges)[n])]
           Joins(f) == f = [n \in 0 .. N |-> IF n = 0 THEN <<>> ELSE f[n - 1] \o e[n]]
<1>1. N \in Nat /\ e \in [1 .. N -> Seq(FIXES)]
  BY EveryBridge, BridgeOffers
<1>2. \E f : Joins(f)
  BY <1>1, PiecesExist
<1>3. ASSUME NEW f
      PROVE  Joins(f) <=> f = [n \in 0 .. Cardinality(bridges) |->
                                 IF n = 0 THEN <<>>
                                 ELSE f[n - 1] \o CheckBridge(SetToSeq(bridges)[n])]
  <2>1. ASSUME NEW n \in 0 .. N
        PROVE  (IF n = 0 THEN <<>> ELSE f[n - 1] \o e[n])
                 = IF n = 0 THEN <<>> ELSE f[n - 1] \o CheckBridge(SetToSeq(bridges)[n])
    BY <1>1
  <2> QED
    BY <2>1
<1>4. Joins(CheckBridges)
  BY <1>2, <1>3 DEF CheckBridges
<1>5. CheckBridges[N] \in Seq(FIXES) /\ ToSet(CheckBridges[N]) = UNION {ToSet(e[k]) : k \in 1 .. N}
  <2>1. Pieces(CheckBridges, e, N, FIXES)
    BY <1>1, <1>4 DEF Pieces
  <2> HIDE DEF e, N
  <2>2. N \in Nat
    BY <1>1
  <2>3. CheckBridges[N] \in Seq(FIXES) /\ ToSet(CheckBridges[N]) = InPieces(e, N)
    BY <2>1, <2>2, PiecesHold
  <2> QED
    BY <2>3 DEF InPieces
<1>6. ASSUME NEW k \in 1 .. N
      PROVE  LET b == SetToSeq(bridges)[k] IN
             /\ b \in bridges
             /\ ToSet(e[k]) = (IF Blocking(b) # {} THEN {"allow-vm-forwarding"} ELSE {})
                         \cup (IF b \in Libvirt \ nat THEN {"restart-libvirt-network"} ELSE {})
  BY <1>1, EveryBridge, BridgeOffers
<1>7. \A b \in bridges : \E k \in 1 .. N : SetToSeq(bridges)[k] = b
  BY EveryBridge
<1> HIDE DEF e, N
<1>8. ToSet(CheckBridges[N]) \subseteq {"allow-vm-forwarding", "restart-libvirt-network"}
  BY <1>5, <1>6
<1>9. "allow-vm-forwarding" \in ToSet(CheckBridges[N]) <=> \E b \in bridges : Blocking(b) # {}
  <2>1. ASSUME NEW b \in bridges, Blocking(b) # {} PROVE "allow-vm-forwarding" \in ToSet(CheckBridges[N])
    <3>1. PICK k \in 1 .. N : SetToSeq(bridges)[k] = b
      BY <1>7
    <3> QED
      BY <1>5, <1>6, <2>1, <3>1
  <2>2. ASSUME "allow-vm-forwarding" \in ToSet(CheckBridges[N]) PROVE \E b \in bridges : Blocking(b) # {}
    <3>1. PICK k \in 1 .. N : "allow-vm-forwarding" \in ToSet(e[k])
      BY <1>5, <2>2
    <3> QED
      BY <1>6, <3>1
  <2> QED
    BY <2>1, <2>2
<1>10. "restart-libvirt-network" \in ToSet(CheckBridges[N]) <=> \E b \in bridges : b \in Libvirt \ nat
  <2>1. ASSUME NEW b \in bridges, b \in Libvirt \ nat
        PROVE  "restart-libvirt-network" \in ToSet(CheckBridges[N])
    <3>1. PICK k \in 1 .. N : SetToSeq(bridges)[k] = b
      BY <1>7
    <3> QED
      BY <1>5, <1>6, <2>1, <3>1
  <2>2. ASSUME "restart-libvirt-network" \in ToSet(CheckBridges[N])
        PROVE  \E b \in bridges : b \in Libvirt \ nat
    <3>1. PICK k \in 1 .. N : "restart-libvirt-network" \in ToSet(e[k])
      BY <1>5, <2>2
    <3> QED
      BY <1>6, <3>1
  <2> QED
    BY <2>1, <2>2
<1> QED
  BY <1>5, <1>8, <1>9, <1>10 DEF N

LEMMA Found ==
  ASSUME host \in Host, bridges \in SUBSET Bridges
  PROVE  Diagnose(TRUE) \in Seq(FIXES) /\ ToSet(Diagnose(TRUE)) = Needed
<1> DEFINE o1 == Offer(host.fw \in {"stale", "frozen", "down"}, "start-firewall")
           o2 == Offer(host.ufw, "disable-ufw")
           o3 == Offer(host.firewalld, "disable-firewalld")
           o4 == Offer(host.route /\ host.internet /\ ~host.dns /\ host.resolved, "restart-resolved")
           o5 == Offer(bridges # {} /\ ~host.ip_forward, "enable-forwarding")
           o6 == CheckBridges[Cardinality(bridges)]
           o7 == Offer(TRUE /\ host.banned, "unban-protected")
<1>1. Diagnose(TRUE) = (o1 \o o2 \o o3) \o o4 \o (o5 \o o6) \o o7
  BY DEF Diagnose, CheckFirewall, CheckConnectivity, CheckVms, CheckBans
<1>2. /\ host.ufw \in BOOLEAN /\ host.firewalld \in BOOLEAN /\ host.banned \in BOOLEAN
      /\ host.ip_forward \in BOOLEAN
  BY DEF Host
<1>3. {"start-firewall", "disable-ufw", "disable-firewalld", "enable-forwarding",
       "restart-resolved", "unban-protected"} \subseteq FIXES
  BY DEF FIXES
<1>4. /\ o1 \in Seq(FIXES)
      /\ ToSet(o1) = IF host.fw \in {"stale", "frozen", "down"} THEN {"start-firewall"} ELSE {}
  <2>1. (host.fw \in {"stale", "frozen", "down"}) \in BOOLEAN
    OBVIOUS
  <2> QED
    BY <1>3, <2>1, Offers, Zenon
<1>5. o2 \in Seq(FIXES) /\ ToSet(o2) = IF host.ufw THEN {"disable-ufw"} ELSE {}
  BY <1>2, <1>3, Offers
<1>6. o3 \in Seq(FIXES) /\ ToSet(o3) = IF host.firewalld THEN {"disable-firewalld"} ELSE {}
  BY <1>2, <1>3, Offers
<1>7. /\ o4 \in Seq(FIXES)
      /\ ToSet(o4) = IF host.route /\ host.internet /\ ~host.dns /\ host.resolved
                     THEN {"restart-resolved"} ELSE {}
  BY <1>3, Offers
<1>8. /\ o5 \in Seq(FIXES)
      /\ ToSet(o5) = IF bridges # {} /\ ~host.ip_forward THEN {"enable-forwarding"} ELSE {}
  BY <1>3, Offers
<1>9. /\ o6 \in Seq(FIXES)
      /\ ToSet(o6) =
           (IF \E b \in bridges : Blocking(b) # {} THEN {"allow-vm-forwarding"} ELSE {})
           \cup (IF \E b \in bridges : b \in Libvirt \ nat THEN {"restart-libvirt-network"} ELSE {})
  BY BridgesOffer
<1>10. o7 \in Seq(FIXES) /\ ToSet(o7) = IF host.banned THEN {"unban-protected"} ELSE {}
  BY <1>2, <1>3, Offers
<1> DEFINE p1 == o1 \o o2
           p2 == p1 \o o3
           p3 == p2 \o o4
           p4 == o5 \o o6
           p5 == p3 \o p4
<1>11. Diagnose(TRUE) = p5 \o o7
  BY <1>1
<1> HIDE DEF o1, o2, o3, o4, o5, o6, o7
<1>12. p1 \in Seq(FIXES) /\ ToSet(p1) = ToSet(o1) \cup ToSet(o2)
  BY <1>4, <1>5, Joined
<1> HIDE DEF p1
<1>13. p2 \in Seq(FIXES) /\ ToSet(p2) = ToSet(p1) \cup ToSet(o3)
  BY <1>6, <1>12, Joined
<1> HIDE DEF p2
<1>14. p3 \in Seq(FIXES) /\ ToSet(p3) = ToSet(p2) \cup ToSet(o4)
  BY <1>7, <1>13, Joined
<1>15. p4 \in Seq(FIXES) /\ ToSet(p4) = ToSet(o5) \cup ToSet(o6)
  BY <1>8, <1>9, Joined
<1> HIDE DEF p3, p4
<1>16. p5 \in Seq(FIXES) /\ ToSet(p5) = ToSet(p3) \cup ToSet(p4)
  BY <1>14, <1>15, Joined
<1> HIDE DEF p5
<1>17. Diagnose(TRUE) \in Seq(FIXES) /\ ToSet(Diagnose(TRUE)) = ToSet(p5) \cup ToSet(o7)
  <2>1. p5 \o o7 \in Seq(FIXES) /\ ToSet(p5 \o o7) = ToSet(p5) \cup ToSet(o7)
    BY <1>10, <1>16, Joined
  <2> QED
    BY <1>11, <2>1
<1>18. ToSet(Diagnose(TRUE)) = ToSet(o1) \cup ToSet(o2) \cup ToSet(o3) \cup ToSet(o4)
                               \cup ToSet(o5) \cup ToSet(o6) \cup ToSet(o7)
  BY <1>12, <1>13, <1>14, <1>15, <1>16, <1>17
<1>19. ASSUME NEW id PROVE id \in ToSet(Diagnose(TRUE)) <=> id \in Needed
  BY <1>4, <1>5, <1>6, <1>7, <1>8, <1>9, <1>10, <1>18 DEF Needed, FIXES
<1> QED
  BY <1>17, <1>19

-----------------------------------------------------------------------------
(* FixesClear.  While nothing interferes, what is wrong is still on the list *)
(* of fixes, but for names that do not resolve and for the chains in the     *)
(* way of a bridge: those the check of the doctor has before it, on its list *)
(* or under its hands.                                                       *)
Rested == {"restart-resolved", "allow-vm-forwarding"}

Listed == Needed \ Rested \subseteq ToSet(pending)

Handled(c, b) ==
  \/ "allow-vm-forwarding" \in ToSet(pending)
  \/ worker["cli"].st = "list" /\ b \in worker["cli"].bridges
  \/ Holds("cli", <<c, b>>)

Unblocked == \A b \in bridges : \A c \in Blocking(b) : Handled(c, b)

\* The chains of its list are there: the inserts do not fail
Standing == \A p \in Chains \X Bridges : Holds("cli", p) => chain[p[1]].there

Covered == quiet /\ worker["cli"].st # "idle" => Listed /\ Unblocked /\ Standing
Typed ==
  /\ host \in Host /\ nat \in SUBSET Libvirt /\ keep \in BOOLEAN /\ pending \in Seq(FIXES)
  /\ torn \in SUBSET (Chains \X Bridges) /\ doubled \in SUBSET (Chains \X Bridges)

FInv == Typed /\ Covered /\ FixesClear

-----------------------------------------------------------------------------
\* What a fix leaves of the machine: nothing gets worse, and its own finding goes
LEMMA FixedIs ==
  ASSUME host \in Host, NEW id \in FIXES, NEW h \in Fixed(id)
  PROVE  /\ h \in Host
         /\ h.fw \in {host.fw, "alive"} /\ (id = "start-firewall" => h.fw = "alive")
         /\ h.ufw => host.ufw /\ id # "disable-ufw"
         /\ h.firewalld => host.firewalld /\ id # "disable-firewalld"
         /\ ~h.ip_forward => ~host.ip_forward /\ id # "enable-forwarding"
         /\ h.banned => host.banned /\ id # "unban-protected"
<1>1. CASE id = "start-firewall"
  BY <1>1 DEF Fixed, Host
<1>2. CASE id = "disable-ufw"
  BY <1>2 DEF Fixed, Host
<1>3. CASE id = "disable-firewalld"
  BY <1>3 DEF Fixed, Host
<1>4. CASE id = "enable-forwarding"
  BY <1>4 DEF Fixed, Host
<1>5. CASE id = "restart-resolved"
  <2>1. PICK d \in BOOLEAN : h = [host EXCEPT !.dns = d]
    BY <1>5 DEF Fixed
  <2> QED
    BY <1>5, <2>1 DEF Host
<1>6. CASE id = "unban-protected"
  BY <1>6 DEF Fixed, Host
<1>7. CASE id \in {"restart-libvirt-network", "allow-vm-forwarding"}
  <2>1. h = host
    BY <1>7 DEF Fixed
  <2> QED
    BY <1>7, <2>1
<1> QED
  BY <1>1, <1>2, <1>3, <1>4, <1>5, <1>6, <1>7 DEF FIXES

LEMMA Taken ==
  ASSUME pending \in Seq(FIXES), pending # <<>>
  PROVE  /\ Head(pending) \in FIXES /\ Tail(pending) \in Seq(FIXES)
         /\ ToSet(pending) \subseteq ToSet(Tail(pending)) \cup {Head(pending)}
<1>1. /\ Head(pending) \in FIXES /\ Tail(pending) \in Seq(FIXES) /\ Len(pending) \in Nat
      /\ Len(Tail(pending)) = Len(pending) - 1
      /\ \A i \in 1 .. Len(Tail(pending)) : Tail(pending)[i] = pending[i + 1]
      /\ Head(pending) = pending[1]
  BY HeadTailProperties
<1>2. ASSUME NEW i \in 1 .. Len(pending), i # 1
      PROVE  i - 1 \in 1 .. Len(Tail(pending)) /\ Tail(pending)[i - 1] = pending[i]
  BY <1>1, <1>2
<1>3. ASSUME NEW x \in ToSet(pending), x # Head(pending) PROVE x \in ToSet(Tail(pending))
  <2>1. PICK i \in 1 .. Len(pending) : x = pending[i]
    BY DEF ToSet
  <2>2. i - 1 \in DOMAIN Tail(pending) /\ Tail(pending)[i - 1] = x
    BY <1>1, <1>2, <1>3, <2>1
  <2> QED
    BY <2>2 DEF ToSet
<1> QED
  BY <1>1, <1>3

\* The chains in the way can only get fewer
LEMMA BlocksLess ==
  ASSUME NEW b \in Bridges,
         \A c \in Chains : /\ chain'[c].there = chain[c].there
                           /\ chain'[c].drop => chain[c].drop
                           /\ chain'[c].out[b] = 0 => chain[c].out[b] = 0
                           /\ chain'[c].other = chain[c].other
  PROVE  Blocking(b)' \subseteq Blocking(b)
BY DEF Blocking

LEMMA NeedsLess ==
  ASSUME host' = host, nat' = nat, bridges' = bridges, bridges \in SUBSET Bridges,
         \A b \in Bridges : Blocking(b)' \subseteq Blocking(b)
  PROVE  Needed' \subseteq Needed
BY DEF Needed

\* The doctor does nothing, and nobody puts a chain in the way
LEMMA OthersWork ==
  ASSUME Covered, quiet' = quiet, worker'["cli"] = worker["cli"], pending' = pending,
         host' = host, nat' = nat, bridges' = bridges, bridges \in SUBSET Bridges,
         \A c \in Chains : chain'[c].there = chain[c].there,
         \A b \in Bridges : Blocking(b)' \subseteq Blocking(b)
  PROVE  Covered'
<1>1. SUFFICES ASSUME quiet, worker["cli"].st # "idle"
               PROVE  Listed' /\ Unblocked' /\ Standing'
  BY DEF Covered
<1>2. Listed /\ Unblocked /\ Standing
  BY <1>1 DEF Covered
<1>3. Listed'
  BY <1>2, NeedsLess DEF Listed
<1>4. Unblocked'
  BY <1>2 DEF Unblocked, Handled, Holds
<1>5. Standing'
  BY <1>2 DEF Standing, Holds
<1> QED
  BY <1>3, <1>4, <1>5

LEMMA Undisturbed ==
  ASSUME Typed, Covered, FixesClear, Shape, UNCHANGED <<net, chain, pending, quiet, left, ghosts>>,
         worker'["cli"] = worker["cli"]
  PROVE  FInv'
<1>1. /\ host' = host /\ nat' = nat /\ keep' = keep /\ bridges' = bridges /\ chain' = chain
      /\ pending' = pending /\ quiet' = quiet /\ left' = left /\ torn' = torn /\ doubled' = doubled
  BY DEF net, ghosts
<1>2. bridges \in SUBSET Bridges /\ \A b \in Bridges : Blocking(b)' \subseteq Blocking(b)
  BY <1>1 DEF Shape, Blocking
<1>3. Covered'
  BY <1>1, <1>2, OthersWork
<1> QED
  BY <1>1, <1>3 DEF FInv, Typed, FixesClear

\* Something interfered: nothing is claimed until the doctor looks again
LEMMA NotQuiet ==
  ASSUME FixesClear, ~quiet', left' = left \/ left' = {}
  PROVE  Covered' /\ FixesClear'
BY DEF Covered, FixesClear

\* One more rule of one kind
LEMMA RuleAdded ==
  ASSUME chain \in [Chains -> Chain], NEW c \in Chains, NEW b \in Bridges,
         NEW rule \in {"reply", "out"}, chain[c][rule][b] < MaxRules,
         chain' = [chain EXCEPT ![c][rule][b] = @ + 1]
  PROVE  /\ \A d \in Chains : /\ chain'[d].there = chain[d].there
                              /\ chain'[d].drop = chain[d].drop
                              /\ chain'[d].other = chain[d].other
         /\ \A d \in Chains, e \in Bridges : chain'[d].out[e] = 0 => chain[d].out[e] = 0
         /\ rule = "out" => chain'[c].out[b] # 0
<1>1. CASE rule = "reply"
  <2> DEFINE new == [chain[c] EXCEPT !.reply = [chain[c].reply EXCEPT ![b] = chain[c].reply[b] + 1]]
  <2>1. chain[c] \in Chain
    OBVIOUS
  <2>2. /\ new.out = chain[c].out /\ new.there = chain[c].there /\ new.drop = chain[c].drop
        /\ new.other = chain[c].other
    BY <2>1 DEF Chain
  <2>3. chain' = [chain EXCEPT ![c] = new]
    BY <1>1
  <2> HIDE DEF new
  <2> QED
    BY <1>1, <2>2, <2>3
<1>2. CASE rule = "out"
  <2> DEFINE new == [chain[c] EXCEPT !.out = [chain[c].out EXCEPT ![b] = chain[c].out[b] + 1]]
  <2>1. chain[c] \in Chain /\ chain[c].out \in [Bridges -> 0 .. MaxRules] /\ chain[c].out[b] \in Nat
    BY DoctorAssumption DEF Chain
  <2>2. /\ new.there = chain[c].there /\ new.drop = chain[c].drop /\ new.other = chain[c].other
        /\ new.out[b] = chain[c].out[b] + 1
        /\ \A e \in Bridges : e # b => new.out[e] = chain[c].out[e]
    BY <2>1 DEF Chain
  <2>3. chain' = [chain EXCEPT ![c] = new]
    BY <1>2
  <2> HIDE DEF new
  <2>4. chain'[c] = new /\ \A d \in Chains : d # c => chain'[d] = chain[d]
    BY <2>3
  <2>5. new.out[b] # 0
    BY <2>1, <2>2
  <2> QED
    BY <2>2, <2>4, <2>5
<1> QED
  BY <1>1, <1>2

LEMMA ListClears == ASSUME IInv, FInv, NEW w \in Workers, List(w) PROVE FInv'
<1>1. /\ Shape /\ Steps /\ Typed /\ Covered /\ FixesClear /\ worker[w].st = "list"
      /\ host' = host /\ nat' = nat /\ keep' = keep /\ bridges' = bridges /\ chain' = chain
      /\ pending' = pending /\ quiet' = quiet /\ left' = left /\ torn' = torn
      /\ Set(w, [worker[w] EXCEPT !.st = "next", !.pairs = Todo(w)])
      /\ doubled' \subseteq doubled \cup Todo(w)
  BY DEF IInv, FInv, List, Rest, net
<1>2. bridges \in SUBSET Bridges /\ \A b \in Bridges : Blocking(b)' = Blocking(b)
  BY <1>1 DEF Shape, Blocking
<1>3. Todo(w) \in SUBSET (Chains \X Bridges)
  BY <1>1, BlockingHasNoWayOut
<1>4. Typed'
  BY <1>1, <1>3 DEF Typed
<1>5. FixesClear'
  BY <1>1 DEF FixesClear
<1>6. "cli" \in Workers
  BY DEF Workers
<1>7. Covered'
  <2>1. CASE w # "cli"
    <3>1. worker'["cli"] = worker["cli"]
      BY <1>1, <1>6, <2>1 DEF Set, Shape
    <3> QED
      BY <1>1, <1>2, <3>1, OthersWork
  <2>2. CASE w = "cli"
    <3>1. SUFFICES ASSUME quiet PROVE Listed' /\ Unblocked' /\ Standing'
      BY <1>1 DEF Covered
    <3>2. Listed /\ Unblocked /\ Standing
      BY <1>1, <2>2, <3>1 DEF Covered
    <3>3. worker["cli"].pairs = {} /\ worker["cli"].at = NoPair
      BY <1>1, <2>2, <1>6 DEF Steps
    <3>4. worker'["cli"].pairs = Todo("cli") /\ worker'["cli"].at = NoPair
      BY <1>1, <1>6, <2>2, <3>3, WorkerTyped DEF Set, Shape, Worker
    <3>5. Listed'
      BY <1>1, <1>2, <3>2, NeedsLess DEF Listed
    <3>6. ASSUME NEW b \in bridges, NEW c \in Blocking(b) PROVE Handled(c, b)'
      <4>1. Handled(c, b) /\ ~Holds("cli", <<c, b>>)
        BY <3>2, <3>3, NoPairIsNone DEF Unblocked, Holds
      <4>2. CASE "allow-vm-forwarding" \in ToSet(pending)
        BY <1>1, <4>2 DEF Handled
      <4>3. CASE b \in worker["cli"].bridges
        <5>1. c \in Chains /\ <<c, b>> \in Todo("cli")
          BY <4>3 DEF Todo, Blocking
        <5> QED
          BY <3>4, <5>1 DEF Handled, Holds
      <4> QED
        BY <4>1, <4>2, <4>3 DEF Handled
    <3>7. Unblocked'
      BY <1>1, <1>2, <3>6 DEF Unblocked
    <3>8. ASSUME NEW p \in Chains \X Bridges, Holds("cli", p)' PROVE chain[p[1]].there
      <4>1. p # NoPair
        BY SomePair
      <4>2. p[1] \in Blocking(p[2])
        BY <3>4, <3>8, <4>1 DEF Holds, Todo
      <4> QED
        BY <4>2 DEF Blocking
    <3>9. Standing'
      BY <1>1, <3>8 DEF Standing
    <3> QED
      BY <3>5, <3>7, <3>9
  <2> QED
    BY <2>1, <2>2
<1> QED
  BY <1>4, <1>5, <1>7 DEF FInv

\* The pair a worker goes to was on its list: it holds what it held
LEMMA NextClears == ASSUME IInv, FInv, NEW w \in Workers, NextPair(w) PROVE FInv'
<1>1. /\ Shape /\ Steps /\ Typed /\ Covered /\ FixesClear /\ worker[w].st = "next"
      /\ host' = host /\ nat' = nat /\ keep' = keep /\ bridges' = bridges /\ chain' = chain
      /\ pending' = pending /\ quiet' = quiet /\ left' = left /\ torn' = torn /\ doubled' = doubled
  BY DEF IInv, FInv, NextPair, Rest, net, ghosts
<1>2. bridges \in SUBSET Bridges /\ \A b \in Bridges : Blocking(b)' = Blocking(b)
  BY <1>1 DEF Shape, Blocking
<1>3. Typed' /\ FixesClear'
  BY <1>1 DEF Typed, FixesClear
<1>4. "cli" \in Workers /\ worker \in [Workers -> Worker]
  BY <1>1 DEF Workers, Shape
<1>5. Covered'
  <2>1. CASE w # "cli"
    <3>1. worker'["cli"] = worker["cli"]
      BY <1>1, <1>4, <2>1 DEF Set, NextPair
    <3> QED
      BY <1>1, <1>2, <3>1, OthersWork
  <2>2. CASE w = "cli"
    <3>1. SUFFICES ASSUME quiet PROVE Listed' /\ Unblocked' /\ Standing'
      BY <1>1 DEF Covered
    <3>2. Listed /\ Unblocked /\ Standing
      BY <1>1, <2>2, <3>1 DEF Covered
    <3>3. worker["cli"].at = NoPair /\ worker["cli"] \in Worker /\ worker["cli"].st = "next"
      BY <1>1, <1>4, <2>2 DEF Steps
    <3>4. \A p \in Chains \X Bridges : Holds("cli", p)' <=> Holds("cli", p)
      <4>1. \A p \in Chains \X Bridges : p # NoPair
        BY SomePair
      <4>2. CASE worker["cli"].pairs = {} /\ Set("cli", Over("cli"))
        <5>1. worker'["cli"] = Over("cli")
          BY <1>4, <4>2 DEF Set
        <5> QED
          BY <1>1, <1>4, <3>3, <4>1, <4>2, <5>1, OverTyped DEF Holds
      <4>3. ASSUME NEW q \in worker["cli"].pairs,
                   Set("cli", [worker["cli"] EXCEPT !.st = "insert", !.at = q, !.pairs = @ \ {q},
                                                    !.todo = Rules])
            PROVE  \A p \in Chains \X Bridges : Holds("cli", p)' <=> Holds("cli", p)
        <5>1. worker'["cli"].at = q /\ worker'["cli"].pairs = worker["cli"].pairs \ {q}
          BY <1>4, <3>3, <4>3 DEF Set, Worker
        <5> QED
          BY <3>3, <4>1, <5>1 DEF Holds
      <4> QED
        BY <2>2, <4>2, <4>3 DEF NextPair
    <3>5. Listed'
      BY <1>1, <1>2, <3>2, NeedsLess DEF Listed
    <3>6. ASSUME NEW b \in bridges, NEW c \in Blocking(b) PROVE Handled(c, b)'
      <4>1. Handled(c, b) /\ <<c, b>> \in Chains \X Bridges
        BY <1>2, <3>2 DEF Unblocked, Blocking
      <4> QED
        BY <1>1, <3>3, <3>4, <4>1 DEF Handled
    <3>7. Unblocked'
      BY <1>1, <1>2, <3>6 DEF Unblocked
    <3>8. Standing'
      BY <1>1, <3>2, <3>4 DEF Standing
    <3> QED
      BY <3>5, <3>7, <3>8
  <2> QED
    BY <2>1, <2>2
<1> QED
  BY <1>3, <1>5 DEF FInv

LEMMA InsertClears == ASSUME IInv, FInv, NEW w \in Workers, Insert(w) PROVE FInv'
<1>1. /\ Shape /\ Steps /\ Typed /\ Covered /\ FixesClear /\ worker[w].st = "insert"
      /\ host' = host /\ nat' = nat /\ keep' = keep /\ bridges' = bridges
      /\ pending' = pending /\ quiet' = quiet /\ left' = left /\ torn' = torn /\ doubled' = doubled
  BY DEF IInv, FInv, Insert, Rest, net, ghosts
<1>2. chain \in [Chains -> Chain] /\ bridges \in SUBSET Bridges /\ worker \in [Workers -> Worker]
  BY <1>1 DEF Shape
<1>3. Typed' /\ FixesClear'
  BY <1>1 DEF Typed, FixesClear
<1>4. /\ worker[w].at \in Chains \X Bridges /\ worker[w].todo \in {Rules, <<"out">>}
      /\ worker[w].at \notin worker[w].pairs
  BY <1>1, WorkerTyped DEF Steps
<1>5. PICK c \in Chains, b \in Bridges : worker[w].at = <<c, b>>
  BY <1>4
<1>6. worker[w].at[1] = c /\ worker[w].at[2] = b
  BY <1>5
<1> DEFINE rule == Head(worker[w].todo)
<1>7. rule \in {"reply", "out"} /\ (rule = "out" <=> worker[w].todo = <<"out">>)
  BY <1>4, RulesAre
<1>8. ASSUME chain[c].there
      PROVE  /\ \A d \in Chains : /\ chain'[d].there = chain[d].there
                                  /\ chain'[d].drop = chain[d].drop
                                  /\ chain'[d].other = chain[d].other
             /\ \A d \in Chains, e \in Bridges : chain'[d].out[e] = 0 => chain[d].out[e] = 0
             /\ rule = "out" => chain'[c].out[b] # 0
  <2>1. chain[c][rule][b] < MaxRules /\ chain' = [chain EXCEPT ![c][rule][b] = @ + 1]
    BY <1>6, <1>8 DEF Insert
  <2> HIDE DEF rule
  <2> QED
    BY <1>2, <1>7, <2>1, RuleAdded
<1>9. "cli" \in Workers
  BY DEF Workers
<1>10. Covered'
  <2>1. CASE w # "cli"
    <3>1. worker'["cli"] = worker["cli"]
      BY <1>2, <1>9, <2>1 DEF Set, Insert
    <3>2. \A d \in Chains : chain'[d].there = chain[d].there
      <4>1. CASE ~chain[c].there
        BY <1>6, <4>1 DEF Insert
      <4> QED
        BY <1>8, <4>1
    <3>3. \A e \in Bridges : Blocking(e)' \subseteq Blocking(e)
      <4>1. CASE ~chain[c].there
        <5>1. chain' = chain
          BY <1>6, <4>1 DEF Insert
        <5> QED
          BY <5>1 DEF Blocking
      <4>2. CASE chain[c].there
        <5> HIDE DEF rule
        <5> QED
          BY <1>8, <4>2, BlocksLess
      <4> QED
        BY <4>1, <4>2
    <3> QED
      BY <1>1, <1>2, <3>1, <3>2, <3>3, OthersWork
  <2>2. CASE w = "cli"
    <3>1. SUFFICES ASSUME quiet PROVE Listed' /\ Unblocked' /\ Standing'
      BY <1>1 DEF Covered
    <3>2. Listed /\ Unblocked /\ Standing
      BY <1>1, <2>2, <3>1 DEF Covered
    <3>3. <<c, b>> \in Chains \X Bridges /\ Holds("cli", <<c, b>>) /\ <<c, b>>[1] = c
      BY <1>5, <2>2 DEF Holds
    <3>4. chain[c].there
      BY <3>2, <3>3 DEF Standing
    <3>5. /\ \A d \in Chains : /\ chain'[d].there = chain[d].there
                               /\ chain'[d].drop = chain[d].drop
                               /\ chain'[d].other = chain[d].other
          /\ \A d \in Chains, e \in Bridges : chain'[d].out[e] = 0 => chain[d].out[e] = 0
          /\ rule = "out" => chain'[c].out[b] # 0
      BY <1>8, <3>4
    <3>6. \A e \in Bridges : Blocking(e)' \subseteq Blocking(e)
      <4> HIDE DEF rule
      <4> QED
        BY <3>5, BlocksLess
    <3>7. Listed'
      BY <1>1, <1>2, <3>2, <3>6, NeedsLess DEF Listed
    <3>8. \A p \in Chains \X Bridges :
            /\ Holds("cli", p)' => Holds("cli", p)
            /\ Holds("cli", p) => Holds("cli", p)' \/ (rule = "out" /\ p = <<c, b>>)
      <4>1. CASE worker["cli"].todo = Rules
        <5>1. worker'["cli"] = [worker["cli"] EXCEPT !.todo = Tail(@)]
          BY <1>2, <1>6, <1>9, <2>2, <3>4, <4>1, RulesAre DEF Insert, Set
        <5>2. worker'["cli"].pairs = worker["cli"].pairs /\ worker'["cli"].at = worker["cli"].at
          BY <1>2, <1>9, <5>1 DEF Worker
        <5> QED
          BY <5>2 DEF Holds
      <4>2. CASE worker["cli"].todo = <<"out">>
        <5>1. worker'["cli"] = [worker["cli"] EXCEPT !.st = "next", !.at = NoPair, !.todo = <<>>]
          BY <1>2, <1>6, <1>9, <2>2, <3>4, <4>2, RulesAre DEF Insert, Set
        <5>2. worker'["cli"].pairs = worker["cli"].pairs /\ worker'["cli"].at = NoPair
          BY <1>2, <1>9, <5>1 DEF Worker
        <5> QED
          BY <1>5, <1>7, <2>2, <4>2, <5>2, SomePair DEF Holds
      <4> QED
        BY <1>4, <2>2, <4>1, <4>2
    <3>9. ASSUME NEW e \in bridges, NEW d \in Blocking(e)' PROVE Handled(d, e)'
      <4>1. d \in Chains /\ e \in Bridges /\ d \in Blocking(e) /\ chain'[d].out[e] = 0
        BY <1>2, <3>6 DEF Blocking
      <4>2. Handled(d, e) /\ <<d, e>> \in Chains \X Bridges
        BY <3>2, <4>1 DEF Unblocked
      <4>3. ~(rule = "out" /\ <<d, e>> = <<c, b>>)
        BY <3>5, <4>1
      <4>4. Holds("cli", <<d, e>>) => Holds("cli", <<d, e>>)'
        BY <3>8, <4>2, <4>3
      <4> QED
        BY <1>1, <2>2, <4>2, <4>4 DEF Handled
    <3>10. Unblocked'
      BY <1>1, <3>9 DEF Unblocked
    <3>11. Standing'
      BY <3>2, <3>5, <3>8 DEF Standing
    <3> QED
      BY <3>7, <3>10, <3>11
  <2> QED
    BY <2>1, <2>2
<1> QED
  BY <1>3, <1>10 DEF FInv

LEMMA RunDoctorClears == ASSUME IInv, FInv, RunDoctor PROVE FInv'
<1>1. /\ Shape /\ Typed /\ FixesClear /\ left' = {} /\ bridges \in SUBSET Bridges
      /\ host' = host /\ nat' = nat /\ keep' = keep /\ bridges' = bridges /\ chain' = chain
      /\ torn' = torn /\ doubled' = doubled /\ worker["cli"].st = "idle"
  BY DEF IInv, FInv, RunDoctor, net, ghosts, Shape
<1>2. FixesClear'
  BY <1>1 DEF FixesClear
<1>3. CASE UNCHANGED <<worker, pending>>
  BY <1>1, <1>2, <1>3 DEF FInv, Typed, Covered
<1>4. CASE Set("cli", [IdleWorker EXCEPT !.st = "fix"]) /\ pending' = Diagnose(TRUE)
  <2>1. Diagnose(TRUE) \in Seq(FIXES) /\ ToSet(Diagnose(TRUE)) = Needed
    BY <1>1, Found DEF Typed
  <2>2. worker'["cli"].pairs = {} /\ worker'["cli"].at = NoPair
    BY <1>1, <1>4, FixTyped, SetWorker DEF Workers
  <2>3. Needed' \subseteq Needed /\ \A b \in Bridges : Blocking(b)' = Blocking(b)
    BY <1>1, NeedsLess DEF Blocking
  <2>4. Listed'
    BY <1>4, <2>1, <2>3 DEF Listed
  <2>5. Unblocked'
    <3>1. ASSUME NEW b \in bridges, NEW c \in Blocking(b) PROVE "allow-vm-forwarding" \in Needed
      BY DEF Needed, FIXES
    <3> QED
      BY <1>1, <1>4, <2>1, <2>3, <3>1 DEF Unblocked, Handled
  <2>6. Standing'
    BY <2>2, SomePair DEF Standing, Holds
  <2> QED
    BY <1>1, <1>2, <1>4, <2>1, <2>4, <2>5, <2>6 DEF FInv, Typed, Covered
<1> QED
  BY <1>3, <1>4 DEF RunDoctor

\* A fix is applied: its finding is gone, and the chains in the way of a bridge are
\* left to the check it starts
LEMMA ApplyClears == ASSUME IInv, FInv, Apply PROVE FInv'
<1> DEFINE id == Head(pending)
<1>1. /\ Shape /\ Steps /\ Typed /\ Covered /\ FixesClear /\ worker["cli"].st = "fix"
      /\ pending # <<>> /\ pending' = Tail(pending) /\ bridges' = bridges /\ keep' = keep
      /\ quiet' = quiet /\ left' = left /\ torn' = torn /\ doubled' = doubled
      /\ host' \in Fixed(id)
      /\ nat' = IF id = "restart-libvirt-network" THEN Libvirt ELSE nat
      /\ chain' = [c \in Chains |-> IF id = "disable-ufw" /\ c \in UfwChains
                                    THEN [chain[c] EXCEPT !.drop = FALSE] ELSE chain[c]]
      /\ IF id = "allow-vm-forwarding" THEN LookAtBridges("cli") ELSE UNCHANGED worker
  BY DEF IInv, FInv, Apply, ghosts
<1>2. /\ host \in Host /\ pending \in Seq(FIXES) /\ bridges \in SUBSET Bridges
      /\ chain \in [Chains -> Chain] /\ "cli" \in Workers
  BY <1>1 DEF Typed, Shape, Workers
<1>3. /\ id \in FIXES /\ pending' \in Seq(FIXES) /\ ToSet(pending) \subseteq ToSet(pending') \cup {id}
  BY <1>1, <1>2, Taken
<1>4. /\ host' \in Host
      /\ host'.fw \in {host.fw, "alive"} /\ (id = "start-firewall" => host'.fw = "alive")
      /\ host'.ufw => host.ufw /\ id # "disable-ufw"
      /\ host'.firewalld => host.firewalld /\ id # "disable-firewalld"
      /\ ~host'.ip_forward => ~host.ip_forward /\ id # "enable-forwarding"
      /\ host'.banned => host.banned /\ id # "unban-protected"
  BY <1>1, <1>2, <1>3, FixedIs
<1>5. Typed' /\ FixesClear'
  BY <1>1, <1>3, <1>4 DEF Typed, FixesClear
<1>6. \A c \in Chains : /\ chain'[c].there = chain[c].there
                        /\ chain'[c].drop => chain[c].drop
                        /\ chain'[c].out = chain[c].out
                        /\ chain'[c].other = chain[c].other
  BY <1>1, <1>2 DEF Chain
<1>7. \A b \in Bridges : Blocking(b)' \subseteq Blocking(b)
  BY <1>6, BlocksLess
<1> HIDE DEF id
<1>8. Covered'
  <2>1. SUFFICES ASSUME quiet, worker'["cli"].st # "idle" PROVE Listed' /\ Unblocked' /\ Standing'
    BY <1>1 DEF Covered
  <2>2. Listed /\ Unblocked /\ Standing
    BY <1>1, <2>1 DEF Covered
  <2>3. Needed' \ Rested \subseteq (Needed \ Rested) \ {id}
    BY <1>1, <1>4 DEF Needed, Rested, FIXES
  <2>4. Listed'
    BY <1>3, <2>2, <2>3 DEF Listed
  <2>5. worker["cli"].pairs = {} /\ worker["cli"].at = NoPair
    BY <1>1, <1>2 DEF Steps
  <2>6. ASSUME NEW b \in bridges, id = "allow-vm-forwarding"
        PROVE  worker'["cli"].bridges = bridges /\ worker'["cli"].st = "list"
    <3>1. bridges # {} /\ worker \in [Workers -> Worker]
      BY <1>1 DEF Shape
    <3>2. worker' = [worker EXCEPT !["cli"] = [worker["cli"] EXCEPT !.st = "list", !.bridges = bridges]]
      BY <1>1, <2>6, <3>1 DEF LookAtBridges, Set
    <3> QED
      BY <1>2, <3>1, <3>2 DEF Worker
  <2>7. ASSUME NEW b \in bridges, NEW c \in Blocking(b) PROVE Handled(c, b)'
    <3>1. "allow-vm-forwarding" \in ToSet(pending)
      BY <1>1, <2>2, <2>5, NoPairIsNone DEF Unblocked, Handled, Holds
    <3>2. CASE id = "allow-vm-forwarding"
      BY <2>6, <3>2 DEF Handled
    <3>3. CASE id # "allow-vm-forwarding"
      BY <1>3, <3>1, <3>3 DEF Handled
    <3> QED
      BY <3>2, <3>3
  <2>8. Unblocked'
    BY <1>1, <1>2, <1>7, <2>7 DEF Unblocked
  <2>9. worker'["cli"].pairs = {} /\ worker'["cli"].at = NoPair
    <3>1. CASE UNCHANGED worker
      BY <2>5, <3>1
    <3>2. CASE LookAtBridges("cli")
      <4>1. CASE bridges = {}
        BY <1>1, <1>2, <3>2, <4>1, OverTyped, SetWorker DEF LookAtBridges
      <4>2. CASE bridges # {}
        BY <1>1, <1>2, <3>2, <4>2, LookTyped, SetWorker DEF LookAtBridges
      <4> QED
        BY <4>1, <4>2
    <3> QED
      BY <1>1, <3>1, <3>2
  <2>10. Standing'
    BY <2>9, SomePair DEF Standing, Holds
  <2> QED
    BY <2>4, <2>8, <2>10
<1> QED
  BY <1>5, <1>8 DEF FInv

\* Looking again finds names at most
LEMMA EndClears == ASSUME IInv, FInv, DoctorEnds PROVE FInv'
<1>1. /\ Shape /\ Steps /\ Typed /\ Covered /\ FixesClear /\ worker["cli"].st = "fix"
      /\ pending = <<>> /\ pending' = pending /\ bridges' = bridges /\ keep' = keep
      /\ host' = host /\ nat' = nat /\ torn' = torn /\ doubled' = doubled
      /\ left' = IF quiet THEN ToSet(Diagnose(TRUE)) ELSE {}
      /\ Set("cli", IdleWorker)
  BY DEF IInv, FInv, DoctorEnds, net, ghosts
<1>2. Typed'
  BY <1>1 DEF Typed
<1>3. Covered'
  BY <1>1, IdleTyped, SetWorker DEF Covered, Workers
<1>4. ASSUME quiet PROVE Needed \subseteq {"restart-resolved"}
  <2>1. Listed /\ Unblocked /\ ToSet(pending) = {}
    BY <1>1, <1>4 DEF Covered, ToSet
  <2>2. worker["cli"].pairs = {} /\ worker["cli"].at = NoPair
    BY <1>1 DEF Steps, Workers
  <2>3. ASSUME NEW b \in bridges, NEW c \in Blocking(b) PROVE FALSE
    BY <1>1, <2>1, <2>2, NoPairIsNone DEF Unblocked, Handled, Holds
  <2>4. "allow-vm-forwarding" \notin Needed
    BY <2>3 DEF Needed
  <2> QED
    BY <2>1, <2>4 DEF Listed, Rested
<1>5. FixesClear'
  BY <1>1, <1>4, Found DEF FixesClear, Typed, Shape
<1> QED
  BY <1>2, <1>3, <1>5 DEF FInv

LEMMA CliClears == ASSUME IInv, FInv, Cli PROVE FInv'
<1>1. Typed /\ FixesClear
  BY DEF FInv
<1>2. CASE RunFix
  <2>1. PICK id \in FIXES : pending' = <<id>>
    BY <1>2 DEF RunFix
  <2>2. pending' \in Seq(FIXES)
    BY <2>1
  <2>3. Typed'
    BY <1>1, <1>2, <2>2 DEF RunFix, Typed, net, ghosts
  <2> QED
    BY <1>1, <1>2, <2>3, NotQuiet DEF RunFix, FInv
<1>3. CASE Declined
  <2>1. Typed'
    BY <1>1, <1>3, Taken DEF Declined, Typed, net, ghosts
  <2> QED
    BY <1>1, <1>3, <2>1, NotQuiet DEF Declined, FInv
<1>4. CASE ApplyFails
  <2>1. Head(pending) \in FIXES /\ Tail(pending) \in Seq(FIXES)
    BY <1>1, <1>4, Taken DEF ApplyFails, Typed
  <2>2. host' \in Host
    BY <1>1, <1>4, <2>1, FixedIs DEF ApplyFails, Typed
  <2>3. Typed'
    BY <1>1, <1>4, <2>1, <2>2 DEF ApplyFails, Typed, ghosts
  <2> QED
    BY <1>1, <1>4, <2>3, NotQuiet DEF ApplyFails, FInv
<1> QED
  BY <1>2, <1>3, <1>4, RunDoctorClears, ApplyClears, EndClears DEF Cli

LEMMA HostChanged ==
  ASSUME host \in Host, HostChanges
  PROVE  host' \in Host
<1>1. CASE \E x \in BOOLEAN, f \in {"ufw", "firewalld", "resolved", "route", "internet", "dns",
                                    "ip_forward", "banned"} : host' = [host EXCEPT ![f] = x]
  <2>1. PICK x \in BOOLEAN, f \in {"ufw", "firewalld", "resolved", "route", "internet", "dns",
                                   "ip_forward", "banned"} : host' = [host EXCEPT ![f] = x]
    BY <1>1
  <2> QED
    BY <2>1 DEF Host
<1>2. CASE \E x \in {"stale", "frozen", "down", "absent", "alive"} : host' = [host EXCEPT !.fw = x]
  BY <1>2 DEF Host
<1> QED
  BY <1>1, <1>2 DEF HostChanges

\* The machine around the doctor ends the quiet
LEMMA EnvironmentClears == ASSUME IInv, FInv, Environment PROVE FInv'
<1>1. Typed /\ FixesClear /\ Steps /\ Shape
  BY DEF FInv, IInv
<1>2. Outside
  BY DEF Environment, NetworkChanges, HostChanges, Interrupted, Rebuild, Retouch
<1>3. Covered' /\ FixesClear'
  BY <1>1, <1>2, NotQuiet DEF Outside
<1>4. CASE NetworkChanges
  <2>1. nat' \in SUBSET Libvirt /\ keep' \in BOOLEAN
    BY <1>1, <1>4 DEF NetworkChanges, Typed
  <2> QED
    BY <1>1, <1>2, <1>3, <1>4, <2>1 DEF NetworkChanges, Outside, Typed, FInv
<1>5. CASE HostChanges
  BY <1>1, <1>2, <1>3, <1>5, HostChanged DEF HostChanges, Outside, Typed, FInv
<1>6. CASE Interrupted
  <2>1. pending' \in Seq(FIXES)
    BY <1>6 DEF Interrupted
  <2> QED
    BY <1>1, <1>2, <1>3, <1>6, <2>1 DEF Interrupted, Outside, Typed, FInv, net
<1>7. ASSUME NEW c \in Chains, Rebuild(c) PROVE FInv'
  <2>1. torn' \in SUBSET (Chains \X Bridges)
    <3>1. ASSUME NEW w \in Workers, worker[w].st = "insert" PROVE worker[w].at \in Chains \X Bridges
      BY <1>1, <3>1, WorkerTyped DEF Steps
    <3> QED
      BY <1>1, <1>7, <3>1 DEF Rebuild, Typed
  <2> QED
    BY <1>1, <1>2, <1>3, <1>7, <2>1 DEF Rebuild, Outside, Typed, FInv, net
<1>8. ASSUME NEW c \in Chains, Retouch(c) PROVE FInv'
  BY <1>1, <1>2, <1>3, <1>8 DEF Retouch, Outside, Typed, FInv, net
<1> QED
  BY <1>4, <1>5, <1>6, <1>7, <1>8 DEF Environment

LEMMA StartClears == Init => FInv
<1>1. SUFFICES ASSUME Init PROVE FInv
  OBVIOUS
<1>2. Typed
  <2>1. Healthy \in Host
    BY DEF Healthy, Host
  <2> QED
    BY <1>1, <2>1 DEF Init, Typed
<1> QED
  BY <1>1, <1>2 DEF Init, FInv, Covered, FixesClear

LEMMA ClearsKept == IInv /\ FInv /\ [Next]_vars => FInv'
<1>1. SUFFICES ASSUME IInv, FInv, [Next]_vars PROVE FInv'
  OBVIOUS
<1>2. Typed /\ Covered /\ FixesClear /\ Shape /\ "cli" \in Workers
  BY <1>1 DEF FInv, IInv, Workers
<1>3. CASE UNCHANGED vars
  BY <1>2, <1>3, Undisturbed DEF vars
<1>4. CASE DaemonChecks
  <2>1. worker'["cli"] = worker["cli"]
    BY <1>2, <1>4 DEF DaemonChecks, LookAtBridges, Set, Shape
  <2> QED
    BY <1>2, <1>4, <2>1, Undisturbed DEF DaemonChecks, Rest
<1>5. ASSUME NEW w \in Workers, NftFails(w) PROVE FInv'
  BY <1>2, <1>5, NotQuiet DEF NftFails, Typed, FInv, net, ghosts
<1>6. CASE \E w \in Workers : Check(w)
  BY <1>1, <1>6, ListClears, NextClears, InsertClears DEF Check
<1> QED
  BY <1>1, <1>3, <1>4, <1>5, <1>6, CliClears, EnvironmentClears DEF Next, Nothing

(* The state of the doctor and of what it works on keeps its type.          *)
THEOREM DoctorTypes == Spec => []TypeOK
<1>1. IInv /\ FInv => TypeOK
  BY DEF IInv, Shape, FInv, Typed, TypeOK
<1> QED
  BY <1>1, Start, PairsKept, StartClears, ClearsKept, PTL DEF Spec

(* `doctor --fix` leaves nothing to fix but names that do not resolve, when  *)
(* every fix was applied and nothing else happened: whatever was wrong, in   *)
(* whatever order the findings came, however many chains and bridges there   *)
(* are, and however the daemon's own check interleaves (doctor.rs            *)
(* `diagnose`, `apply`; main.rs `doctor`).                                   *)
THEOREM NothingLeftToFix == Spec => []FixesClear
<1>1. FInv => FixesClear
  BY DEF FInv
<1> QED
  BY <1>1, Start, PairsKept, StartClears, ClearsKept, PTL DEF Spec

-----------------------------------------------------------------------------
(* Dashboard: what a reply offers.                                          *)

LEMMA KeptTyped ==
  ASSUME NEW S, NEW T, NEW s \in Seq(S), NEW P \in SUBSET (DOMAIN s), \A i \in P : s[i] \in T
  PROVE  Kept(s, P) \in Seq(T) /\ \A k \in DOMAIN Kept(s, P) : Kept(s, P)[k] \in T
<1>1. /\ Len(s) \in Nat /\ DOMAIN s = 1 .. Len(s)
  OBVIOUS
<1>2. IsFiniteSet(P) /\ P \in SUBSET Nat
  <2>1. IsFiniteSet(1 .. Len(s))
    BY <1>1, FS_Interval
  <2> QED
    BY <1>1, <2>1, FS_Subset
<1>3. Cardinality(P) \in Nat
  BY <1>2, FS_CardinalityType
<1> DEFINE In(f) == \A i, j \in DOMAIN f : i < j => f[i] < f[j]
           at == CHOOSE f \in [1 .. Cardinality(P) -> P] : In(f)
<1>4. \E f \in [1 .. Cardinality(P) -> P] : In(f)
  BY <1>2, InOrder
<1>5. at \in [1 .. Cardinality(P) -> P]
  <2> HIDE DEF In
  <2> QED
    BY <1>4
<1>6. Kept(s, P) = [k \in 1 .. Cardinality(P) |-> s[at[k]]]
  BY DEF Kept
<1> HIDE DEF at
<1>7. \A k \in 1 .. Cardinality(P) : s[at[k]] \in T
  BY <1>5
<1>8. Kept(s, P) \in [1 .. Cardinality(P) -> T]
  BY <1>6, <1>7
<1> HIDE DEF Kept
<1>9. Kept(s, P) \in Seq(T)
  BY <1>3, <1>8, SeqDef
<1> QED
  BY <1>8, <1>9

LEMMA ParseTyped ==
  ASSUME NEW r \in Replies
  PROVE  ParseActions(r) \in Seq(Actions)
<1> DEFINE P == {i \in DOMAIN r : r[i] \in Actions /\ \A j \in 1 .. i - 1 : r[j] # r[i]}
<1>1. r \in Seq(Lines) /\ P \in SUBSET (DOMAIN r) /\ \A i \in P : r[i] \in Actions
  BY DashboardAssumption
<1>2. ParseActions(r) = Kept(r, P)
  BY DEF ParseActions
<1> HIDE DEF P
<1> QED
  BY <1>1, <1>2, KeptTyped

\* Only the tests are dropped, so no test is left
LEMMA ChangesTyped ==
  ASSUME NEW offered \in Seq(Actions)
  PROVE  OnlyChanges(offered) \in Seq(Actions) /\ ~AsksForTests(OnlyChanges(offered))
<1> DEFINE P == {i \in DOMAIN offered : offered[i] \in Changes}
<1>1. P \in SUBSET (DOMAIN offered) /\ \A i \in P : offered[i] \in Changes
  OBVIOUS
<1>2. OnlyChanges(offered) = Kept(offered, P)
  BY DEF OnlyChanges
<1> HIDE DEF P
<1>3. /\ OnlyChanges(offered) \in Seq(Changes)
      /\ \A k \in DOMAIN OnlyChanges(offered) : OnlyChanges(offered)[k] \in Changes
  BY <1>1, <1>2, KeptTyped
<1>4. OnlyChanges(offered) \in Seq(Actions)
  BY <1>3 DEF Actions
<1>5. ~AsksForTests(OnlyChanges(offered))
  BY <1>3, DashboardAssumption DEF AsksForTests
<1> QED
  BY <1>4, <1>5

-----------------------------------------------------------------------------
(* `ask --json`: where it is says what it has told. *)
JsonPhase ==
  /\ json.st = "start" => json.events = <<>> /\ json.history = <<>> /\ ~json.asked
  /\ json.st # "end" => json.offered = <<>>
  /\ json.st = "test" => ~Tested
  /\ json.st = "reply" => json.model
  /\ json.asked => json.model
  /\ json.st = "reply" /\ json.asked => Tested

JInv == json \in Json /\ JsonPhase /\ OneRound

Events == {"model", "tests", "done", "error"}

LEMMA SaidTyped ==
  ASSUME NEW role \in {"user", "test", "assistant"}, NEW t \in Nat,
         NEW what \in {"ask", "question", "test", "results", "done", "offline", "error"}
  PROVE  /\ Said(role, what, t) \in Entry /\ Said(role, what, t).role = role
         /\ Said(role, what, t).what = what /\ Said(role, what, t).turn = t
BY DEF Said, Entry

LEMMA JsonTyped ==
  ASSUME json \in Json
  PROVE  /\ json.st \in {"start", "test", "reply", "end"} /\ json.model \in BOOLEAN
         /\ json.asked \in BOOLEAN /\ json.history \in Seq(Entry) /\ json.events \in Seq(Events)
         /\ json.offered \in Seq(Actions)
BY DEF Json, Events

LEMMA OneElement ==
  ASSUME NEW S, NEW x \in S
  PROVE  <<x>> \in Seq(S) /\ Append(<<>>, x) = <<x>>
<1>1. <<>> \in Seq(S) /\ <<x>> \in Seq(S)
  OBVIOUS
<1>2. Append(<<>>, x) = <<>> \o <<x>>
  BY <1>1, AppendIsConcat
<1> QED
  BY <1>1, <1>2, ConcatEmptySeq

\* The command ends with one more event, after those it had or the one about the model
LEMMA JsonEnds ==
  ASSUME JInv, NEW type \in {"done", "error"}, NEW a \in Seq(Actions), json.st # "end",
         json.asked => ~AsksForTests(a), NEW before \in Seq(Events),
         before = json.events \/ \A i \in DOMAIN before : before[i] = "model",
         json' = [json EXCEPT !.st = "end", !.events = Append(before, type), !.offered = a]
  PROVE  JInv'
<1>1. /\ json \in Json /\ JsonPhase /\ OneRound /\ type \in Events
  BY DEF JInv, Events
<1> DEFINE ev == Append(before, type)
<1>2. /\ ev \in Seq(Events) /\ ev # <<>> /\ Len(ev) = Len(before) + 1
      /\ \A i \in 1 .. Len(before) : ev[i] = before[i]
      /\ ev[Len(before) + 1] = type
  BY <1>1, AppendProperties
<1>3. /\ Len(before) \in Nat /\ DOMAIN before = 1 .. Len(before)
      /\ DOMAIN ev = 1 .. Len(ev)
  BY <1>1, <1>2, LenProperties
<1>4. json' = [json EXCEPT !.st = "end", !.events = ev, !.offered = a]
  OBVIOUS
<1> HIDE DEF ev
<1>5. /\ json' \in Json /\ json'.st = "end" /\ json'.events = ev /\ json'.offered = a
      /\ json'.model = json.model /\ json'.asked = json.asked /\ json'.history = json.history
  <2> DEFINE j == [json EXCEPT !.st = "end", !.events = ev]
  <2>1. /\ j \in Json /\ j.st = "end" /\ j.events = ev /\ j.model = json.model
        /\ j.asked = json.asked /\ j.history = json.history
    BY <1>1, <1>2 DEF Json, Events
  <2>2. json' = [j EXCEPT !.offered = a]
    BY <1>4
  <2> HIDE DEF j
  <2> QED
    BY <2>1, <2>2 DEF Json
<1>6. JsonPhase'
  BY <1>1, <1>5 DEF JsonPhase, Tested
<1>7. ASSUME NEW i \in DOMAIN ev
      PROVE  \/ i \in DOMAIN before /\ ev[i] = before[i] /\ i # Len(ev)
             \/ i = Len(ev) /\ ev[i] = type
  BY <1>2, <1>3
<1>8. \A i, j \in DOMAIN ev : ev[i] = "tests" /\ ev[j] = "tests" => i = j
  BY <1>1, <1>7 DEF OneRound
<1>9. \A i \in DOMAIN ev : ev[i] = "tests" => \E j \in DOMAIN json.history : json.history[j].what = "results"
  BY <1>1, <1>7 DEF OneRound
<1>10. \A i \in DOMAIN ev : ev[i] \in {"done", "error"} <=> i = Len(ev)
  BY <1>1, <1>7 DEF OneRound
<1>11. OneRound'
  BY <1>2, <1>5, <1>8, <1>9, <1>10 DEF OneRound
<1> QED
  BY <1>5, <1>6, <1>11 DEF JInv

LEMMA NoTestsIn == ~AsksForTests(<<>>)
BY DEF AsksForTests

LEMMA ChangesAreAdvice ==
  ASSUME NEW a \in Advice
  PROVE  a \in Seq(Actions)
BY DashboardAssumption DEF Actions

\* The first step: the events so far are "model" or none
LEMMA JsonBegins ==
  ASSUME JInv, json.st = "start", NEW model \in BOOLEAN, NEW st \in {"test", "reply"},
         NEW h \in Seq(Entry), st = "test" => h = <<>>, st = "reply" => model,
         NEW ev \in Seq(Events), \A i \in DOMAIN ev : ev[i] = "model",
         json' = [json EXCEPT !.st = st, !.model = model, !.history = h, !.events = ev]
  PROVE  JInv'
<1>1. json \in Json /\ JsonPhase /\ ~json.asked /\ json.offered = <<>>
  BY DEF JInv, JsonPhase
<1>2. /\ json' \in Json /\ json'.st = st /\ json'.events = ev /\ json'.offered = <<>>
      /\ json'.model = model /\ json'.asked = json.asked /\ json'.history = h
  BY <1>1 DEF Json, Events
<1>3. JsonPhase'
  BY <1>1, <1>2 DEF JsonPhase, Tested
<1>4. OneRound'
  BY <1>1, <1>2 DEF OneRound
<1> QED
  BY <1>2, <1>3, <1>4 DEF JInv

LEMMA JsonStartStep == ASSUME JInv, JsonStart PROVE JInv'
<1>1. /\ json \in Json /\ JsonPhase /\ json.st = "start" /\ ~json.asked /\ json.offered = <<>>
      /\ json.events = <<>> /\ json.history = <<>>
  BY DEF JInv, JsonPhase, JsonStart
<1>2. PICK text \in Texts \cup {"nothing"}, model \in BOOLEAN :
       LET events == IF model THEN <<"model">> ELSE <<>> IN
       \/ /\ text = "nothing"
          /\ json' = [json EXCEPT !.st = "end", !.events = <<"error">>]
       \/ /\ text = "badtest"
          /\ json' = [json EXCEPT !.st = "end", !.events = Append(events, "error")]
       \/ /\ text = "test"
          /\ json' = [json EXCEPT !.st = "test", !.model = model, !.events = events]
       \/ /\ text = "question" /\ model
          /\ json' = [json EXCEPT !.st = "reply", !.model = TRUE, !.events = events,
                                  !.history = <<Said("user", "question", 1)>>]
       \/ /\ text = "question" /\ ~model
          /\ \E a \in Advice :
               json' = [json EXCEPT !.st = "end", !.events = <<"done">>, !.offered = a]
  BY DEF JsonStart
<1> DEFINE events == IF model THEN <<"model">> ELSE <<>>
<1>3. events \in Seq(Events) /\ \A i \in DOMAIN events : events[i] = "model"
  <2>1. events = <<"model">> \/ events = <<>>
    OBVIOUS
  <2> HIDE DEF events
  <2>2. CASE events = <<"model">>
    <3>1. <<"model">> \in Seq(Events)
      BY DEF Events
    <3>2. \A i \in DOMAIN <<"model">> : <<"model">>[i] = "model"
      OBVIOUS
    <3> QED
      BY <2>2, <3>1, <3>2
  <2>3. CASE events = <<>>
    <3>1. <<>> \in Seq(Events)
      OBVIOUS
    <3>2. \A i \in DOMAIN <<>> : <<>>[i] = "model"
      OBVIOUS
    <3> QED
      BY <2>3, <3>1, <3>2
  <2> QED
    BY <2>1, <2>2, <2>3
<1>4. ASSUME NEW a \in Seq(Actions), NEW type \in {"done", "error"},
             json' = [json EXCEPT !.st = "end", !.events = <<type>>, !.offered = a]
      PROVE  JInv'
  <2>1. <<type>> = Append(<<>>, type)
    BY OneElement
  <2>2. <<type>> = Append(json.events, type) /\ json.events \in Seq(Events)
    BY <1>1, <2>1, JsonTyped
  <2> QED
    BY <1>1, <1>4, <2>2, JsonEnds
<1>5. CASE json' = [json EXCEPT !.st = "end", !.events = <<"error">>]
  <2>1. /\ json' = [json EXCEPT !.st = "end", !.events = <<"error">>, !.offered = <<>>]
        /\ <<>> \in Seq(Actions)
    BY <1>1, <1>5 DEF Json
  <2> QED
    BY <1>4, <2>1
<1> HIDE DEF events
<1>6. CASE json' = [json EXCEPT !.st = "end", !.events = Append(events, "error")]
  <2>1. /\ json' = [json EXCEPT !.st = "end", !.events = Append(events, "error"), !.offered = <<>>]
        /\ <<>> \in Seq(Actions)
    BY <1>1, <1>6 DEF Json
  <2> QED
    BY <1>1, <1>3, <2>1, JsonEnds
<1>7. CASE json' = [json EXCEPT !.st = "test", !.model = model, !.events = events]
  <2>1. /\ json' = [json EXCEPT !.st = "test", !.model = model, !.history = <<>>, !.events = events]
        /\ <<>> \in Seq(Entry)
    BY <1>1, <1>7 DEF Json
  <2> QED
    BY <1>1, <1>3, <2>1, JsonBegins
<1>8. CASE model /\ json' = [json EXCEPT !.st = "reply", !.model = TRUE, !.events = events,
                                         !.history = <<Said("user", "question", 1)>>]
  <2>1. json' = [json EXCEPT !.st = "reply", !.model = TRUE, !.history = <<Said("user", "question", 1)>>,
                             !.events = events]
    BY <1>1, <1>8 DEF Json
  <2>2. <<Said("user", "question", 1)>> \in Seq(Entry)
    BY SaidTyped, OneElement
  <2> QED
    BY <1>1, <1>3, <2>1, <2>2, JsonBegins
<1>9. CASE \E a \in Advice : json' = [json EXCEPT !.st = "end", !.events = <<"done">>, !.offered = a]
  BY <1>4, <1>9, ChangesAreAdvice
<1> QED
  BY <1>2, <1>5, <1>6, <1>7, <1>8, <1>9 DEF events

\* The tests ran: the model is told before it answers, or there is none to tell
LEMMA JsonTestStep == ASSUME JInv, JsonTest PROVE JInv'
<1>1. /\ json \in Json /\ JsonPhase /\ OneRound /\ json.st = "test" /\ ~Tested /\ json.offered = <<>>
      /\ json.asked => json.model
  BY DEF JInv, JsonPhase, JsonTest
<1>2. /\ json.events \in Seq(Events) /\ json.history \in Seq(Entry) /\ json.model \in BOOLEAN
      /\ json.asked \in BOOLEAN
  BY <1>1, JsonTyped
<1> DEFINE h == Append(json.history, Said("user", "results", 1))
           ev == Append(json.events, "tests")
           more == IF json.model THEN <<>> ELSE <<"done">>
           now == ev \o more
<1>3. /\ h \in Seq(Entry) /\ Len(json.history) \in Nat /\ Len(h) = Len(json.history) + 1
      /\ h[Len(json.history) + 1].what = "results" /\ DOMAIN h = 1 .. Len(h)
  BY <1>2, SaidTyped, AppendProperties, LenProperties
<1>4. \E j \in DOMAIN h : h[j].what = "results"
  BY <1>3
<1>5. /\ ev \in Seq(Events) /\ ev # <<>> /\ Len(ev) = Len(json.events) + 1
      /\ \A i \in 1 .. Len(json.events) : ev[i] = json.events[i]
      /\ ev[Len(json.events) + 1] = "tests"
  BY <1>2, AppendProperties DEF Events
<1>6. Len(json.events) \in Nat /\ DOMAIN json.events = 1 .. Len(json.events) /\ DOMAIN ev = 1 .. Len(ev)
  BY <1>2, <1>5, LenProperties
<1>7. ASSUME NEW i \in DOMAIN json.events
      PROVE  json.events[i] # "tests" /\ json.events[i] \notin {"done", "error"}
  BY <1>1 DEF OneRound, Tested
<1>8. ASSUME NEW i \in DOMAIN ev
      PROVE  (ev[i] = "tests" <=> i = Len(ev)) /\ ev[i] \notin {"done", "error"}
  BY <1>5, <1>6, <1>7
<1>9. json' = [json EXCEPT !.st = IF json.model THEN "reply" ELSE "end", !.history = h, !.events = now]
  BY DEF JsonTest, Emit
<1> HIDE DEF ev, h
<1>10. CASE json.model
  <2>1. now = ev
    BY <1>5, <1>10, ConcatEmptySeq
  <2>2. /\ json' \in Json /\ json'.st = "reply" /\ json'.events = ev /\ json'.offered = <<>>
        /\ json'.model /\ json'.asked = json.asked /\ json'.history = h
    <3>1. json' = [json EXCEPT !.st = "reply", !.history = h, !.events = ev]
      BY <1>9, <1>10, <2>1
    <3> HIDE DEF now
    <3> QED
      BY <1>1, <1>3, <1>5, <1>10, <3>1 DEF Json, Events
  <2>3. JsonPhase'
    BY <1>4, <2>2 DEF JsonPhase, Tested
  <2>4. OneRound'
    BY <1>4, <1>8, <2>2 DEF OneRound
  <2> QED
    BY <2>2, <2>3, <2>4 DEF JInv
<1>11. CASE ~json.model
  <2> DEFINE all == Append(ev, "done")
  <2>1. now = all
    BY <1>5, <1>11, AppendIsConcat DEF Events
  <2>2. /\ all \in Seq(Events) /\ all # <<>> /\ Len(all) = Len(ev) + 1
        /\ \A i \in 1 .. Len(ev) : all[i] = ev[i]
        /\ all[Len(ev) + 1] = "done"
    BY <1>5, AppendProperties DEF Events
  <2>3. Len(ev) \in Nat /\ DOMAIN all = 1 .. Len(all)
    BY <1>5, <2>2, LenProperties
  <2>4. json' = [json EXCEPT !.st = "end", !.history = h, !.events = all]
    BY <1>9, <1>11, <2>1
  <2> HIDE DEF all, now
  <2>5. /\ json' \in Json /\ json'.st = "end" /\ json'.events = all /\ json'.offered = <<>>
        /\ json'.model = json.model /\ json'.asked = json.asked /\ json'.history = h
    BY <1>1, <1>3, <2>2, <2>4 DEF Json, Events
  <2>6. ASSUME NEW i \in DOMAIN all
        PROVE  /\ all[i] = "tests" <=> i = Len(ev)
               /\ all[i] \in {"done", "error"} <=> i = Len(all)
    <3>1. CASE i = Len(ev) + 1
      BY <2>2, <2>3, <3>1
    <3>2. CASE i # Len(ev) + 1
      <4>1. i \in DOMAIN ev /\ all[i] = ev[i] /\ i # Len(all)
        BY <1>5, <1>6, <2>2, <2>3, <3>2
      <4> QED
        BY <1>8, <4>1
    <3> QED
      BY <3>1, <3>2
  <2>7. JsonPhase'
    BY <1>1, <1>11, <2>5 DEF JsonPhase
  <2>8. OneRound'
    BY <1>1, <1>4, <1>11, <2>2, <2>5, <2>6 DEF OneRound
  <2> QED
    BY <2>5, <2>7, <2>8 DEF JInv
<1> QED
  BY <1>2, <1>10, <1>11

LEMMA JsonReplyStep == ASSUME JInv, JsonReply PROVE JInv'
<1>1. /\ json \in Json /\ JsonPhase /\ OneRound /\ json.st = "reply" /\ json.offered = <<>>
      /\ json.model /\ (json.asked => Tested)
  BY DEF JInv, JsonPhase, JsonReply
<1>2. /\ json.events \in Seq(Events) /\ json.history \in Seq(Entry) /\ json.asked \in BOOLEAN
  BY <1>1, JsonTyped
<1>3. CASE json' = [json EXCEPT !.st = "end", !.events = Emit("error")]
  <2>1. /\ json' = [json EXCEPT !.st = "end", !.events = Append(json.events, "error"), !.offered = <<>>]
        /\ <<>> \in Seq(Actions)
    BY <1>1, <1>3 DEF Json, Emit
  <2> QED
    BY <1>1, <1>2, <2>1, NoTestsIn, JsonEnds
<1>4. ASSUME NEW r \in Replies, ~Tested, AsksForTests(ParseActions(r)),
             json' = [json EXCEPT !.st = "test", !.asked = TRUE,
                                  !.history = Append(@, Said("assistant", "done", 1))]
      PROVE  JInv'
  <2> DEFINE h == Append(json.history, Said("assistant", "done", 1))
  <2>1. /\ h \in Seq(Entry) /\ Len(json.history) \in Nat /\ Len(h) = Len(json.history) + 1
        /\ h[Len(json.history) + 1].what = "done" /\ DOMAIN h = 1 .. Len(h)
        /\ \A i \in 1 .. Len(json.history) : h[i] = json.history[i]
        /\ DOMAIN json.history = 1 .. Len(json.history)
    BY <1>2, SaidTyped, AppendProperties, LenProperties
  <2>2. ~\E i \in DOMAIN h : h[i].what = "results"
    BY <1>4, <2>1 DEF Tested
  <2>3. json' = [json EXCEPT !.st = "test", !.asked = TRUE, !.history = h]
    BY <1>4
  <2> HIDE DEF h
  <2>4. /\ json' \in Json /\ json'.st = "test" /\ json'.events = json.events /\ json'.offered = <<>>
        /\ json'.model /\ json'.asked = TRUE /\ json'.history = h
    BY <1>1, <2>1, <2>3 DEF Json
  <2>5. JsonPhase'
    BY <2>2, <2>4 DEF JsonPhase, Tested
  <2>6. OneRound'
    BY <1>1, <1>4, <2>4 DEF OneRound, Tested
  <2> QED
    BY <2>4, <2>5, <2>6 DEF JInv
<1>5. ASSUME NEW r \in Replies, Tested \/ ~AsksForTests(ParseActions(r)),
             json' = [json EXCEPT !.st = "end", !.events = Emit("done"),
                                  !.offered = IF json.asked THEN OnlyChanges(ParseActions(r))
                                              ELSE ParseActions(r)]
      PROVE  JInv'
  <2> DEFINE a == IF json.asked THEN OnlyChanges(ParseActions(r)) ELSE ParseActions(r)
  <2>1. ParseActions(r) \in Seq(Actions)
    BY ParseTyped
  <2>2. a \in Seq(Actions) /\ (json.asked => ~AsksForTests(a))
    BY <2>1, ChangesTyped
  <2>3. json' = [json EXCEPT !.st = "end", !.events = Append(json.events, "done"), !.offered = a]
    BY <1>5 DEF Emit
  <2> HIDE DEF a
  <2> QED
    BY <1>1, <1>2, <2>2, <2>3, JsonEnds
<1> QED
  BY <1>3, <1>4, <1>5 DEF JsonReply

LEMMA AskStep == ASSUME JInv, Ask PROVE JInv'
<1>1. /\ json \in Json /\ json.st = "start" /\ ~json.asked /\ json.offered = <<>> /\ json.events = <<>>
  BY DEF JInv, JsonPhase, Ask
<1>2. ASSUME NEW a \in Seq(Actions), NEW type \in {"done", "error"},
             json' = [json EXCEPT !.st = "end", !.events = <<type>>, !.offered = a]
      PROVE  JInv'
  <2>1. <<type>> = Append(<<>>, type)
    BY OneElement
  <2>2. <<type>> = Append(json.events, type) /\ json.events \in Seq(Events)
    BY <1>1, <2>1, JsonTyped
  <2> QED
    BY <1>1, <1>2, <2>2, JsonEnds
<1>3. CASE json' = [json EXCEPT !.st = "end", !.events = <<"error">>]
  <2>1. /\ json' = [json EXCEPT !.st = "end", !.events = <<"error">>, !.offered = <<>>]
        /\ <<>> \in Seq(Actions)
    BY <1>1, <1>3 DEF Json
  <2> QED
    BY <1>2, <2>1
<1> QED
  BY <1>2, <1>3, ParseTyped, ChangesAreAdvice DEF Ask

LEMMA JsonSame ==
  ASSUME [DashboardNext]_dashVars, ~Command
  PROVE  json' = json
<1>1. CASE UNCHANGED dashVars
  BY <1>1 DEF dashVars
<1>2. CASE Dashboard
  BY <1>2 DEF Dashboard, Poll, Frame, Refresh
<1>3. CASE AskThread
  BY <1>3 DEF AskThread, RunTests, ModelFound, NoModel, Chunk, Replied, ModelFails, ToPanel
<1>4. CASE PanelKeys
  BY <1>4 DEF PanelKeys, Confirm, Decline, Send, TypedTest, Enter, Type, Esc, PickTest, PickChange, Key
<1>5. CASE BoardKeys
  BY <1>5 DEF BoardKeys, BanPrompt, Move, Unban, Other, Key
<1>6. CASE Quit \/ DaemonWrites
  BY <1>6 DEF Quit, DaemonWrites
<1> QED
  BY <1>1, <1>2, <1>3, <1>4, <1>5, <1>6 DEF DashboardNext, Ended

LEMMA JsonKept == JInv /\ [DashboardNext]_dashVars => JInv'
<1>1. SUFFICES ASSUME JInv, [DashboardNext]_dashVars PROVE JInv'
  OBVIOUS
<1>2. CASE Command
  BY <1>1, <1>2, JsonStartStep, JsonTestStep, JsonReplyStep, AskStep DEF Command
<1>3. CASE ~Command
  <2>1. json' = json
    BY <1>1, <1>3, JsonSame
  <2> QED
    BY <1>1, <2>1 DEF JInv, JsonPhase, OneRound, Tested
<1> QED
  BY <1>2, <1>3

LEMMA JsonStarts == DashboardInit => JInv
<1>1. SUFFICES ASSUME DashboardInit PROVE JInv
  OBVIOUS
<1>2. /\ json = [st |-> "start", model |-> FALSE, asked |-> FALSE, history |-> <<>>,
                 events |-> <<>>, offered |-> <<>>]
  BY <1>1 DEF DashboardInit
<1>3. json \in Json
  BY <1>2 DEF Json
<1>4. /\ json.st = "start" /\ json.events = <<>> /\ json.history = <<>> /\ ~json.asked
      /\ json.offered = <<>>
  BY <1>2
<1>5. JsonPhase
  BY <1>4 DEF JsonPhase, Tested
<1>6. OneRound
  BY <1>4 DEF OneRound
<1> QED
  BY <1>3, <1>5, <1>6 DEF JInv

(* `ask --json` runs tests at most once, tells the model their results before *)
(* its last reply, and ends its events with exactly one done or error         *)
(* (main.rs `ask_json`): for any allowlist, and whatever the replies ask for. *)
THEOREM OneRoundHolds == DashboardSpec => []OneRound
<1>1. JInv => OneRound
  BY DEF JInv
<1> QED
  BY <1>1, JsonStarts, JsonKept, PTL DEF DashboardSpec

-----------------------------------------------------------------------------
(* Dashboard: the panel, its thread and the channel between them.            *)
Finals == {"idle", "done", "offline", "error"}

\* Test results are on their way to the panel
TestsDue ==
  /\ asking.kind = "test"
  /\ asking.st = "test" \/ (mail # <<>> /\ mail[1].type = "tests")

\* What is in the channel: the results first, then a piece, then the end of the turn
Posted ==
  /\ asking.st = "test" => asking.kind = "test" /\ mail = <<>>
  /\ \A i \in DOMAIN mail :
       /\ mail[i].turn = asking.turn
       /\ mail[i].type = "tests" => i = 1 /\ asking.kind = "test"
       /\ mail[i].type = "chunk" => asking.st \in {"stream", "end"}
       /\ mail[i].type \in Finals => i = Len(mail) /\ asking.st = "end"
       /\ mail[i].type = "idle" => asking.kind = "test"
       /\ mail[i].type = "offline" => asking.kind = "ask"
  /\ \A i, j \in DOMAIN mail : mail[i].type = "chunk" /\ mail[j].type = "chunk" => i = j

\* The panel waits exactly as long as the thread has something to say
InTurn ==
  /\ chat.streaming => asking.st # "none"
  /\ asking.st \in {"test", "detect", "stream"} => chat.streaming
  /\ mail # <<>> => chat.streaming
  /\ chat.streaming /\ asking.st = "end" => mail # <<>> /\ mail[Len(mail)].type \in Finals
  /\ chat.testing <=> (chat.streaming /\ TestsDue)

\* Turns are numbered: what the model was given belongs to the turn it says
Dated ==
  /\ asking.st # "none" => asking.turn = turns
  /\ \A i \in DOMAIN chat.raw :
       /\ chat.raw[i].turn <= turns
       /\ chat.raw[i].what = "done" /\ chat.streaming => chat.raw[i].turn < turns
  /\ \A i \in DOMAIN given :
       /\ given[i].turn <= turns
       /\ asking.st \in {"test", "detect"} => given[i].turn < turns
       /\ given[i].turn = turns => given[i].raw = asking.raw

\* The two copies of the conversation, each with the results it has still to get
ForModel ==
  IF asking.kind = "test" /\ asking.st \in {"test", "detect"}
  THEN Append(asking.raw, Said("user", "results", asking.turn)) ELSE asking.raw
InPanel ==
  IF TestsDue THEN Append(chat.raw, Said("user", "results", asking.turn)) ELSE chat.raw

Told ==
  chat.streaming /\ (asking.st = "end" => mail[Len(mail)].type = "done") => InPanel = ForModel

\* The last line of the panel while it waits
Shown ==
  chat.streaming =>
    /\ chat.history # <<>>
    /\ LET last == chat.history[Len(chat.history)] IN
       IF asking.kind = "ask" \/ TestsDue
       THEN last.role = "user" /\ last.what = asking.kind
       ELSE last.role = "test"

Core == Posted /\ InTurn /\ Dated /\ Told /\ Shown /\ OneConversation

Given == [turn : Nat, raw : Seq(Entry)]

CTyped ==
  /\ chat \in Chat /\ asking \in Thread /\ mail \in Seq(Message)
  /\ given \in Seq(Given) /\ turns \in 0 .. MaxTurns

-----------------------------------------------------------------------------
LEMMA PanelTyped ==
  ASSUME CTyped
  PROVE  /\ chat.history \in Seq(Entry) /\ chat.raw \in Seq(Entry) /\ chat.actions \in Seq(Actions)
         /\ chat.streaming \in BOOLEAN /\ chat.testing \in BOOLEAN /\ chat.open \in BOOLEAN
         /\ asking.st \in {"none", "test", "detect", "stream", "end"} /\ asking.kind \in {"ask", "test"}
         /\ asking.turn \in Nat /\ asking.raw \in Seq(Entry) /\ turns \in Nat
         /\ Len(mail) \in Nat /\ DOMAIN mail = 1 .. Len(mail)
         /\ Len(chat.raw) \in Nat /\ DOMAIN chat.raw = 1 .. Len(chat.raw)
         /\ Len(chat.history) \in Nat /\ DOMAIN chat.history = 1 .. Len(chat.history)
         /\ Len(given) \in Nat /\ DOMAIN given = 1 .. Len(given)
<1>1. /\ chat.history \in Seq(Entry) /\ chat.raw \in Seq(Entry) /\ chat.actions \in Seq(Actions)
      /\ chat.streaming \in BOOLEAN /\ chat.testing \in BOOLEAN /\ chat.open \in BOOLEAN
  BY DEF CTyped, Chat
<1>2. /\ asking.st \in {"none", "test", "detect", "stream", "end"} /\ asking.kind \in {"ask", "test"}
      /\ asking.turn \in Nat /\ asking.raw \in Seq(Entry)
  BY DEF CTyped, Thread
<1>3. turns \in Nat /\ mail \in Seq(Message) /\ given \in Seq(Given)
  BY DashboardAssumption DEF CTyped
<1> QED
  BY <1>1, <1>2, <1>3, LenProperties

LEMMA MessageTyped ==
  ASSUME NEW type \in {"tests", "chunk", "idle", "done", "offline", "error"}, NEW t \in Nat,
         NEW a \in Seq(Actions)
  PROVE  LET m == [type |-> type, turn |-> t, actions |-> a] IN
         m \in Message /\ m.type = type /\ m.turn = t /\ m.actions = a
BY DEF Message

\* What one more message changes
LEMMA PostIs ==
  ASSUME CTyped, NEW type \in {"tests", "chunk", "idle", "done", "offline", "error"},
         NEW a \in Seq(Actions), Post(type, a)
  PROVE  /\ mail' \in Seq(Message) /\ mail' # <<>> /\ Len(mail') = Len(mail) + 1
         /\ DOMAIN mail' = 1 .. Len(mail')
         /\ \A i \in DOMAIN mail : i \in DOMAIN mail' /\ mail'[i] = mail[i]
         /\ \A i \in DOMAIN mail' : i \in DOMAIN mail \/ i = Len(mail')
         /\ mail'[Len(mail')].type = type /\ mail'[Len(mail')].turn = asking.turn
         /\ mail # <<>> => mail'[1] = mail[1]
<1> DEFINE m == [type |-> type, turn |-> asking.turn, actions |-> a]
<1>1. m \in Message /\ m.type = type /\ m.turn = asking.turn /\ mail \in Seq(Message)
  BY PanelTyped, MessageTyped DEF CTyped
<1>2. mail' = Append(mail, m)
  BY DEF Post
<1> HIDE DEF m
<1>3. /\ mail' \in Seq(Message) /\ mail' # <<>> /\ Len(mail') = Len(mail) + 1
      /\ \A i \in 1 .. Len(mail) : mail'[i] = mail[i]
      /\ mail'[Len(mail) + 1] = m
  BY <1>1, <1>2, AppendProperties
<1>4. /\ DOMAIN mail' = 1 .. Len(mail') /\ DOMAIN mail = 1 .. Len(mail) /\ Len(mail) \in Nat
  BY <1>1, <1>3, LenProperties
<1>5. mail # <<>> => 1 \in DOMAIN mail
  BY <1>1, <1>4
<1> QED
  BY <1>1, <1>3, <1>4, <1>5

\* The thread goes on: the panel, its copy and its lines stay
LEMMA ThreadGoesOn ==
  ASSUME Core, chat' = chat, turns' = turns, given' = given,
         asking'.kind = asking.kind, asking'.turn = asking.turn, asking'.raw = asking.raw,
         asking.st # "none", asking'.st \in {"test", "detect"} => asking.st \in {"test", "detect"},
         TestsDue' <=> TestsDue
  PROVE  Dated' /\ Shown' /\ OneConversation'
<1>1. Dated'
  BY DEF Core, Dated
<1>2. Shown'
  BY DEF Core, Shown
<1>3. OneConversation'
  BY DEF Core, OneConversation
<1> QED
  BY <1>1, <1>2, <1>3

LEMMA RunTestsStep == ASSUME CTyped, Core, RunTests PROVE CTyped' /\ Core'
<1>1. /\ chat' = chat /\ turns' = turns /\ given' = given /\ asking.st = "test"
      /\ Post("tests", <<>>) /\ asking' = [asking EXCEPT !.st = "detect"] /\ <<>> \in Seq(Actions)
  BY DEF RunTests, ToPanel, screen
<1>2. /\ asking' \in Thread /\ asking'.st = "detect" /\ asking'.kind = asking.kind
      /\ asking'.turn = asking.turn /\ asking'.raw = asking.raw
  BY <1>1 DEF CTyped, Thread
<1>3. asking.kind = "test" /\ mail = <<>> /\ chat.streaming /\ TestsDue
  BY <1>1 DEF Core, Posted, InTurn, TestsDue
<1>4. /\ mail' \in Seq(Message) /\ mail' # <<>> /\ Len(mail') = 1 /\ DOMAIN mail' = 1 .. 1
      /\ mail'[1].type = "tests" /\ mail'[1].turn = asking.turn
  <2>1. /\ mail' \in Seq(Message) /\ mail' # <<>> /\ Len(mail') = Len(mail) + 1
        /\ DOMAIN mail' = 1 .. Len(mail')
        /\ mail'[Len(mail')].type = "tests" /\ mail'[Len(mail')].turn = asking.turn
    BY <1>1, PostIs
  <2>2. Len(mail') = 1
    BY <1>3, <2>1
  <2> QED
    BY <2>1, <2>2
<1>5. TestsDue'
  BY <1>2, <1>3, <1>4 DEF TestsDue
<1>6. Posted'
  BY <1>2, <1>3, <1>4 DEF Posted, Finals
<1>7. InTurn'
  BY <1>1, <1>2, <1>3, <1>5 DEF Core, InTurn
<1>8. Told'
  BY <1>1, <1>2, <1>3, <1>5 DEF Core, Told, InPanel, ForModel
<1>9. CTyped'
  BY <1>1, <1>2, <1>4 DEF CTyped
<1>10. Dated' /\ Shown' /\ OneConversation'
  BY <1>1, <1>2, <1>3, <1>5, ThreadGoesOn
<1> QED
  BY <1>6, <1>7, <1>8, <1>9, <1>10 DEF Core

LEMMA ChunkStep == ASSUME CTyped, Core, Chunk PROVE CTyped' /\ Core'
<1>1. /\ chat' = chat /\ turns' = turns /\ given' = given /\ asking' = asking /\ asking.st = "stream"
      /\ Post("chunk", <<>>) /\ <<>> \in Seq(Actions)
      /\ \A i \in DOMAIN mail : mail[i].type # "chunk"
  BY DEF Chunk, ToPanel, screen
<1>2. /\ mail' \in Seq(Message) /\ mail' # <<>> /\ Len(mail') = Len(mail) + 1
      /\ DOMAIN mail' = 1 .. Len(mail')
      /\ \A i \in DOMAIN mail : i \in DOMAIN mail' /\ mail'[i] = mail[i]
      /\ \A i \in DOMAIN mail' : i \in DOMAIN mail \/ i = Len(mail')
      /\ mail'[Len(mail')].type = "chunk" /\ mail'[Len(mail')].turn = asking.turn
      /\ mail # <<>> => mail'[1] = mail[1]
  BY <1>1, PostIs
<1>3. Len(mail) \in Nat /\ DOMAIN mail = 1 .. Len(mail) /\ chat.streaming /\ mail \in Seq(Message)
  BY <1>1, PanelTyped DEF Core, InTurn, CTyped
<1>4. TestsDue' <=> TestsDue
  <2>1. CASE mail = <<>>
    BY <1>1, <1>2, <2>1 DEF TestsDue
  <2>2. CASE mail # <<>>
    BY <1>1, <1>2, <2>2 DEF TestsDue
  <2> QED
    BY <2>1, <2>2
<1>5. Posted'
  <2>1. ASSUME NEW i \in DOMAIN mail'
        PROVE  /\ mail'[i].turn = asking.turn
               /\ mail'[i].type = "tests" => i = 1 /\ asking.kind = "test"
               /\ mail'[i].type \notin Finals
    <3>1. CASE i \in DOMAIN mail
      BY <1>1, <1>2, <3>1 DEF Core, Posted
    <3>2. CASE i = Len(mail')
      BY <1>2, <3>2 DEF Finals
    <3> QED
      BY <1>2, <3>1, <3>2
  <2>2. ASSUME NEW i \in DOMAIN mail', mail'[i].type = "chunk" PROVE i = Len(mail')
    BY <1>1, <1>2, <2>2
  <2> QED
    BY <1>1, <2>1, <2>2 DEF Posted, Finals
<1>6. InTurn'
  BY <1>1, <1>3, <1>4 DEF Core, InTurn
<1>7. Told'
  BY <1>1, <1>4 DEF Core, Told, InPanel, ForModel
<1>8. CTyped'
  BY <1>1, <1>2 DEF CTyped
<1>9. Dated' /\ Shown' /\ OneConversation'
  BY <1>1, <1>4, ThreadGoesOn
<1> QED
  BY <1>5, <1>6, <1>7, <1>8, <1>9 DEF Core

\* The thread says how it ended
LEMMA ThreadEnds ==
  ASSUME CTyped, Core, asking.st \in {"detect", "stream"}, asking' = [asking EXCEPT !.st = "end"],
         NEW type \in Finals, NEW a \in Seq(Actions), Post(type, a),
         type = "idle" => asking.kind = "test", type = "offline" => asking.kind = "ask",
         type = "done" => asking.st = "stream",
         chat' = chat, turns' = turns, given' = given
  PROVE  CTyped' /\ Core'
<1>1. /\ asking' \in Thread /\ asking'.st = "end" /\ asking'.kind = asking.kind
      /\ asking'.turn = asking.turn /\ asking'.raw = asking.raw
  BY DEF CTyped, Thread
<1>2. /\ mail' \in Seq(Message) /\ mail' # <<>> /\ Len(mail') = Len(mail) + 1
      /\ DOMAIN mail' = 1 .. Len(mail')
      /\ \A i \in DOMAIN mail : i \in DOMAIN mail' /\ mail'[i] = mail[i]
      /\ \A i \in DOMAIN mail' : i \in DOMAIN mail \/ i = Len(mail')
      /\ mail'[Len(mail')].type = type /\ mail'[Len(mail')].turn = asking.turn
      /\ mail # <<>> => mail'[1] = mail[1]
  BY PostIs DEF Finals
<1>3. Len(mail) \in Nat /\ DOMAIN mail = 1 .. Len(mail) /\ chat.streaming /\ mail \in Seq(Message)
  BY PanelTyped DEF Core, InTurn, CTyped
<1>4. TestsDue' <=> TestsDue
  <2>1. CASE mail = <<>>
    <3>1. Len(mail') = 1
      BY <1>2, <2>1
    <3> QED
      BY <1>1, <1>2, <2>1, <3>1 DEF TestsDue, Finals
  <2>2. CASE mail # <<>>
    BY <1>1, <1>2, <2>2 DEF TestsDue
  <2> QED
    BY <2>1, <2>2
<1>5. Posted'
  <2>1. ASSUME NEW i \in DOMAIN mail'
        PROVE  /\ mail'[i].turn = asking.turn
               /\ mail'[i].type = "tests" => i = 1 /\ asking.kind = "test"
               /\ mail'[i].type \in Finals => i = Len(mail')
               /\ mail'[i].type = "idle" => asking.kind = "test"
               /\ mail'[i].type = "offline" => asking.kind = "ask"
    <3>1. CASE i \in DOMAIN mail
      BY <1>2, <3>1 DEF Core, Posted
    <3>2. CASE i = Len(mail')
      BY <1>2, <3>2 DEF Finals
    <3> QED
      BY <1>2, <3>1, <3>2
  <2>2. ASSUME NEW i \in DOMAIN mail', NEW j \in DOMAIN mail',
               mail'[i].type = "chunk", mail'[j].type = "chunk"
        PROVE  i = j
    <3>1. i \in DOMAIN mail /\ j \in DOMAIN mail
      BY <1>2, <2>2 DEF Finals
    <3> QED
      BY <1>2, <2>2, <3>1 DEF Core, Posted
  <2> QED
    BY <1>1, <2>1, <2>2 DEF Posted
<1>6. InTurn'
  BY <1>1, <1>2, <1>3, <1>4 DEF Core, InTurn
<1>7. Told'
  BY <1>1, <1>2, <1>3, <1>4 DEF Core, Told, InPanel, ForModel
<1>8. CTyped'
  BY <1>1, <1>2 DEF CTyped
<1>9. Dated' /\ Shown' /\ OneConversation'
  BY <1>1, <1>4, ThreadGoesOn
<1> QED
  BY <1>5, <1>6, <1>7, <1>8, <1>9 DEF Core

LEMMA NoModelStep == ASSUME CTyped, Core, NoModel PROVE CTyped' /\ Core'
<1>1. /\ chat' = chat /\ turns' = turns /\ given' = given /\ asking.st = "detect"
      /\ asking' = [asking EXCEPT !.st = "end"] /\ asking.kind \in {"ask", "test"}
  BY PanelTyped DEF NoModel, ToPanel, screen
<1>2. CASE asking.kind = "test"
  <2>1. Post("idle", <<>>) /\ <<>> \in Seq(Actions) /\ "idle" \in Finals
    BY <1>2 DEF NoModel, Finals
  <2> QED
    BY <1>1, <1>2, <2>1, ThreadEnds
<1>3. CASE asking.kind # "test"
  <2>1. PICK a \in Advice : Post("offline", a)
    BY <1>3 DEF NoModel
  <2>2. a \in Seq(Actions) /\ "offline" \in Finals /\ asking.kind = "ask"
    BY <1>1, <1>3, ChangesAreAdvice DEF Finals
  <2> QED
    BY <1>1, <2>1, <2>2, ThreadEnds
<1> QED
  BY <1>2, <1>3

LEMMA RepliedStep == ASSUME CTyped, Core, Replied PROVE CTyped' /\ Core'
<1>1. /\ chat' = chat /\ turns' = turns /\ given' = given /\ asking.st = "stream"
      /\ asking' = [asking EXCEPT !.st = "end"]
  BY DEF Replied, ToPanel, screen
<1>2. PICK r \in Replies : Post("done", ParseActions(r))
  BY DEF Replied
<1>3. ParseActions(r) \in Seq(Actions) /\ "done" \in Finals
  BY ParseTyped DEF Finals
<1> QED
  BY <1>1, <1>2, <1>3, ThreadEnds

LEMMA ModelFailsStep == ASSUME CTyped, Core, ModelFails PROVE CTyped' /\ Core'
<1>1. /\ chat' = chat /\ turns' = turns /\ given' = given /\ asking.st = "stream"
      /\ asking' = [asking EXCEPT !.st = "end"] /\ Post("error", <<>>) /\ <<>> \in Seq(Actions)
      /\ "error" \in Finals
  BY DEF ModelFails, ToPanel, screen, Finals
<1> QED
  BY <1>1, ThreadEnds

\* The model gets the conversation with the results the panel gets in its turn
LEMMA ModelFoundStep == ASSUME CTyped, Core, ModelFound PROVE CTyped' /\ Core'
<1>1. /\ chat' = chat /\ turns' = turns /\ mail' = mail /\ asking.st = "detect"
      /\ given' = Append(given, [turn |-> asking.turn, raw |-> asking'.raw])
  BY DEF ModelFound, ToPanel, screen
<1>2. /\ asking' \in Thread /\ asking'.st = "stream" /\ asking'.kind = asking.kind
      /\ asking'.turn = asking.turn /\ asking'.raw = ForModel
  <2>1. ForModel \in Seq(Entry) /\ asking \in Thread
    BY PanelTyped, SaidTyped, AppendProperties DEF CTyped, ForModel
  <2>2. asking' = [asking EXCEPT !.st = "stream", !.raw = ForModel]
    BY <1>1 DEF ModelFound, ForModel
  <2> QED
    BY <2>1, <2>2 DEF Thread
<1>3. asking.turn = turns /\ chat.streaming /\ asking.turn \in Nat /\ ForModel \in Seq(Entry)
      /\ (TestsDue' <=> TestsDue) /\ ForModel' = asking'.raw
  BY <1>1, <1>2, PanelTyped, SaidTyped, AppendProperties
     DEF Core, InTurn, Dated, ForModel, TestsDue
<1> DEFINE g == [turn |-> asking.turn, raw |-> asking'.raw]
<1>4. g \in Given /\ g.turn = turns /\ g.raw = asking'.raw /\ given \in Seq(Given)
  BY <1>2, <1>3 DEF Given, CTyped
<1> HIDE DEF g
<1>5. /\ given' \in Seq(Given) /\ Len(given') = Len(given) + 1
      /\ \A i \in 1 .. Len(given) : given'[i] = given[i]
      /\ given'[Len(given) + 1] = g
  BY <1>1, <1>4, AppendProperties DEF g
<1>6. /\ \A i \in DOMAIN given : i \in DOMAIN given' /\ given'[i] = given[i]
      /\ \A i \in DOMAIN given' : i \in DOMAIN given \/ given'[i] = g
  BY <1>4, <1>5, LenProperties
<1>7. Posted' /\ InTurn' /\ Shown'
  BY <1>1, <1>2, <1>3 DEF Core, Posted, InTurn, Shown
<1>8. Dated'
  <2>1. \A i \in DOMAIN given' :
          /\ given'[i].turn <= turns
          /\ given'[i].turn = turns => given'[i].raw = asking'.raw
    <3> SUFFICES ASSUME NEW i \in DOMAIN given'
                 PROVE  /\ given'[i].turn <= turns
                        /\ given'[i].turn = turns => given'[i].raw = asking'.raw
      OBVIOUS
    <3>1. CASE i \in DOMAIN given
      <4>1. given[i].turn < turns /\ given[i] \in Given
        BY <1>1, <1>4, <3>1, ElementOfSeq, LenProperties DEF Core, Dated
      <4> QED
        BY <1>6, <3>1, <4>1, PanelTyped DEF Given
    <3>2. CASE given'[i] = g
      BY <1>4, <3>2, PanelTyped
    <3> QED
      BY <1>6, <3>1, <3>2
  <2> QED
    BY <1>1, <1>2, <1>3, <2>1 DEF Core, Dated
<1>9. Told'
  BY <1>1, <1>2, <1>3 DEF Core, Told, InPanel
<1>10. OneConversation'
  <2>1. ASSUME NEW i \in DOMAIN chat.raw, NEW x \in ToSet(given'), chat.raw[i].what = "done",
               chat.raw[i].turn = x.turn
        PROVE  x.raw = SubSeq(chat.raw, 1, i - 1)
    <3>1. PICK k \in DOMAIN given' : x = given'[k]
      BY <2>1 DEF ToSet
    <3>2. chat.raw[i].turn < turns /\ turns \in Nat
      BY <1>3, <2>1, PanelTyped DEF Core, Dated
    <3>3. given'[k] # g
      BY <1>4, <2>1, <3>1, <3>2
    <3>4. x \in ToSet(given)
      BY <1>6, <3>1, <3>3 DEF ToSet
    <3> QED
      BY <2>1, <3>4 DEF Core, OneConversation
  <2> QED
    BY <1>1, <2>1 DEF Core, OneConversation
<1>11. CTyped'
  BY <1>1, <1>2, <1>5 DEF CTyped
<1> QED
  BY <1>7, <1>8, <1>9, <1>10, <1>11 DEF Core

-----------------------------------------------------------------------------
(* The two halves of OneConversation, each with one more line *)

Remembered ==
  \A i \in DOMAIN chat.raw : \A g \in ToSet(given) :
    (chat.raw[i].what = "done" /\ chat.raw[i].turn = g.turn) => g.raw = SubSeq(chat.raw, 1, i - 1)

AnswerTo(h) == IF h.what = "test" THEN "test" ELSE "assistant"

Answered ==
  \A i \in DOMAIN chat.history :
    chat.history[i].role = "user" =>
      IF i < Len(chat.history) THEN chat.history[i + 1].role = AnswerTo(chat.history[i])
      ELSE chat.streaming

LEMMA TwoHalves ==
  ASSUME CTyped
  PROVE  OneConversation <=> Remembered /\ Answered
<1>1. /\ DOMAIN chat.history = 1 .. Len(chat.history) /\ Len(chat.history) \in Nat
      /\ chat.streaming \in BOOLEAN
  BY PanelTyped
<1>2. \A i \in DOMAIN chat.history : i < Len(chat.history) \/ i = Len(chat.history)
  BY <1>1
<1>3. \A i \in DOMAIN chat.history :
        (LET h == chat.history[i]
             after == IF i < Len(chat.history) THEN chat.history[i + 1].role ELSE "none" IN
         h.role = "user" => after \in (IF h.what = "test" THEN {"test"} ELSE {"assistant"})
                              \cup (IF i = Len(chat.history) /\ chat.streaming THEN {"none"} ELSE {}))
        <=> (chat.history[i].role = "user" =>
               IF i < Len(chat.history) THEN chat.history[i + 1].role = AnswerTo(chat.history[i])
               ELSE chat.streaming)
  BY <1>1, <1>2 DEF AnswerTo
<1> QED
  BY <1>3 DEF OneConversation, Remembered, Answered

LEMMA Longer ==
  ASSUME NEW S, NEW s \in Seq(S), NEW e \in S
  PROVE  /\ Append(s, e) \in Seq(S) /\ Len(Append(s, e)) = Len(s) + 1 /\ Len(s) \in Nat
         /\ DOMAIN s = 1 .. Len(s) /\ DOMAIN Append(s, e) = 1 .. Len(s) + 1
         /\ \A i \in 1 .. Len(s) : Append(s, e)[i] = s[i]
         /\ Append(s, e)[Len(s) + 1] = e /\ Append(s, e) # <<>>
         /\ \A i \in 1 .. Len(s) + 1 : SubSeq(Append(s, e), 1, i - 1) = SubSeq(s, 1, i - 1)
         /\ SubSeq(s, 1, Len(s)) = s
<1>1. /\ Append(s, e) \in Seq(S) /\ Len(Append(s, e)) = Len(s) + 1 /\ Append(s, e) # <<>>
      /\ \A i \in 1 .. Len(s) : Append(s, e)[i] = s[i]
      /\ Append(s, e)[Len(s) + 1] = e
  BY AppendProperties
<1>2. DOMAIN s = 1 .. Len(s) /\ Len(s) \in Nat /\ DOMAIN Append(s, e) = 1 .. Len(s) + 1
  BY <1>1, LenProperties
<1>3. Append(s, e) = s \o <<e>> /\ <<e>> \in Seq(S)
  BY AppendIsConcat
<1>4. ASSUME NEW i \in 1 .. Len(s) + 1
      PROVE  SubSeq(Append(s, e), 1, i - 1) = SubSeq(s, 1, i - 1)
  <2>1. CASE i = 1
    <3>1. SubSeq(Append(s, e), 1, 0) = <<>> /\ SubSeq(s, 1, 0) = <<>>
      BY SubSeqEmpty
    <3> QED
      BY <2>1, <3>1
  <2>2. CASE i # 1
    <3>1. 1 \in 1 .. Len(s) /\ i - 1 \in 1 .. Len(s)
      BY <1>2, <2>2
    <3>2. SubSeq(s \o <<e>>, 1, i - 1) = SubSeq(s, 1, i - 1)
      BY <1>3, <3>1, SubSeqOfConcat1
    <3> QED
      BY <1>3, <3>2
  <2> QED
    BY <2>1, <2>2
<1>5. SubSeq(s, 1, Len(s)) = s
  BY SubSeqFull
<1> QED
  BY <1>1, <1>2, <1>4, <1>5

\* One more line in the panel's copy: an answer follows what the model was given
LEMMA RawGrows ==
  ASSUME CTyped, Remembered, NEW e \in Entry, chat'.raw = Append(chat.raw, e), given' = given,
         \A g \in ToSet(given) : e.what = "done" /\ e.turn = g.turn => g.raw = chat.raw
  PROVE  Remembered'
<1> SUFFICES ASSUME NEW i \in DOMAIN chat'.raw, NEW g \in ToSet(given), chat'.raw[i].what = "done",
                    chat'.raw[i].turn = g.turn
             PROVE  g.raw = SubSeq(chat'.raw, 1, i - 1)
  BY DEF Remembered
<1>1. chat.raw \in Seq(Entry)
  BY PanelTyped
<1>2. /\ Len(chat.raw) \in Nat /\ DOMAIN chat.raw = 1 .. Len(chat.raw)
      /\ DOMAIN chat'.raw = 1 .. Len(chat.raw) + 1
      /\ \A k \in 1 .. Len(chat.raw) : chat'.raw[k] = chat.raw[k]
      /\ chat'.raw[Len(chat.raw) + 1] = e
      /\ SubSeq(chat'.raw, 1, i - 1) = SubSeq(chat.raw, 1, i - 1)
      /\ SubSeq(chat.raw, 1, Len(chat.raw)) = chat.raw
  <2>1. /\ Len(chat.raw) \in Nat /\ DOMAIN chat.raw = 1 .. Len(chat.raw)
        /\ DOMAIN chat'.raw = 1 .. Len(chat.raw) + 1
        /\ \A k \in 1 .. Len(chat.raw) : chat'.raw[k] = chat.raw[k]
        /\ chat'.raw[Len(chat.raw) + 1] = e
        /\ \A k \in 1 .. Len(chat.raw) + 1 :
             SubSeq(chat'.raw, 1, k - 1) = SubSeq(chat.raw, 1, k - 1)
        /\ SubSeq(chat.raw, 1, Len(chat.raw)) = chat.raw
    BY <1>1, Longer
  <2> QED
    BY <2>1
<1>3. CASE i \in DOMAIN chat.raw
  BY <1>2, <1>3 DEF Remembered
<1>4. CASE i = Len(chat.raw) + 1
  BY <1>2, <1>4
<1> QED
  BY <1>2, <1>3, <1>4

\* One more line on the panel: an answer to a question, or a question that waits
LEMMA HistoryGrows ==
  ASSUME CTyped, Answered, NEW e \in Entry, chat'.history = Append(chat.history, e),
         LET last == chat.history[Len(chat.history)] IN
           chat.history # <<>> /\ last.role = "user" => e.role = AnswerTo(last),
         e.role = "user" => chat'.streaming
  PROVE  Answered'
<1> DEFINE last == chat.history[Len(chat.history)]
           n == Len(chat.history)
<1> SUFFICES ASSUME NEW i \in DOMAIN chat'.history, chat'.history[i].role = "user"
             PROVE  IF i < Len(chat'.history)
                    THEN chat'.history[i + 1].role = AnswerTo(chat'.history[i])
                    ELSE chat'.streaming
  BY DEF Answered, AnswerTo
<1>1. chat.history \in Seq(Entry)
  BY PanelTyped
<1>2. /\ n \in Nat /\ DOMAIN chat.history = 1 .. n /\ DOMAIN chat'.history = 1 .. n + 1
      /\ Len(chat'.history) = n + 1
      /\ \A k \in 1 .. n : chat'.history[k] = chat.history[k]
      /\ chat'.history[n + 1] = e
  BY <1>1, Longer
<1>3. CASE i < n
  BY <1>2, <1>3 DEF Answered
<1>4. CASE i = n
  <2>1. chat.history # <<>>
    BY <1>2, <1>4
  <2> QED
    BY <1>2, <1>4, <2>1
<1>5. CASE i = n + 1
  BY <1>2, <1>5
<1> QED
  BY <1>2, <1>3, <1>4, <1>5

-----------------------------------------------------------------------------
(* The panel reads one message *)

LEMMA HeadGone ==
  ASSUME CTyped, mail # <<>>, mail' = Tail(mail)
  PROVE  /\ mail' \in Seq(Message) /\ Len(mail') = Len(mail) - 1 /\ DOMAIN mail' = 1 .. Len(mail')
         /\ 1 \in DOMAIN mail /\ Len(mail) \in DOMAIN mail /\ Len(mail) \in Nat
         /\ mail[1] \in Message /\ Head(mail) = mail[1]
         /\ \A i \in DOMAIN mail' : i + 1 \in DOMAIN mail /\ mail'[i] = mail[i + 1]
         /\ mail' # <<>> => mail'[Len(mail')] = mail[Len(mail)]
         /\ mail' = <<>> <=> Len(mail) = 1
<1>1. mail \in Seq(Message) /\ Len(mail) \in Nat /\ DOMAIN mail = 1 .. Len(mail)
  BY PanelTyped DEF CTyped
<1>2. 1 \in DOMAIN mail /\ Len(mail) \in DOMAIN mail /\ mail[1] \in Message /\ Head(mail) = mail[1]
  BY <1>1
<1>3. /\ mail' \in Seq(Message) /\ Len(mail') = Len(mail) - 1
      /\ \A i \in 1 .. Len(mail') : mail'[i] = mail[i + 1]
  BY <1>1, HeadTailProperties
<1>4. DOMAIN mail' = 1 .. Len(mail') /\ (mail' = <<>> <=> Len(mail') = 0)
  BY <1>3, LenProperties, EmptySeq
<1>5. mail' = <<>> <=> Len(mail) = 1
  BY <1>1, <1>3, <1>4
<1>6. mail' # <<>> => mail'[Len(mail')] = mail[Len(mail)]
  <2>1. mail' # <<>> => Len(mail') \in 1 .. Len(mail')
    BY <1>1, <1>3, <1>4
  <2> QED
    BY <1>1, <1>3, <2>1
<1>7. \A i \in DOMAIN mail' : i + 1 \in DOMAIN mail /\ mail'[i] = mail[i + 1]
  BY <1>1, <1>3, <1>4
<1> QED
  BY <1>1, <1>2, <1>3, <1>4, <1>5, <1>6, <1>7

\* What is left in the channel is still in order
LEMMA StillPosted ==
  ASSUME CTyped, Core, mail # <<>>, mail' = Tail(mail), asking' = asking
  PROVE  Posted' /\ ~TestsDue' /\ asking.st # "test"
<1>1. /\ Len(mail') = Len(mail) - 1 /\ DOMAIN mail' = 1 .. Len(mail') /\ Len(mail) \in Nat
      /\ \A i \in DOMAIN mail' : i + 1 \in DOMAIN mail /\ mail'[i] = mail[i + 1]
      /\ mail' \in Seq(Message)
  BY HeadGone
<1>2. asking.st # "test"
  BY DEF Core, Posted
<1>3. ASSUME NEW i \in DOMAIN mail'
      PROVE  /\ mail'[i].turn = asking.turn
             /\ mail'[i].type # "tests"
             /\ mail'[i].type = "chunk" => asking.st \in {"stream", "end"}
             /\ mail'[i].type \in Finals => i = Len(mail') /\ asking.st = "end"
             /\ mail'[i].type = "idle" => asking.kind = "test"
             /\ mail'[i].type = "offline" => asking.kind = "ask"
  <2>1. i + 1 \in DOMAIN mail /\ mail'[i] = mail[i + 1] /\ i + 1 # 1
    BY <1>1
  <2> QED
    BY <1>1, <2>1 DEF Core, Posted
<1>4. ASSUME NEW i \in DOMAIN mail', NEW j \in DOMAIN mail', mail'[i].type = "chunk",
             mail'[j].type = "chunk"
      PROVE  i = j
  <2>1. i + 1 = j + 1
    BY <1>1, <1>4 DEF Core, Posted
  <2> QED
    BY <1>1, <2>1
<1>5. mail' # <<>> => 1 \in DOMAIN mail'
  BY <1>1
<1> QED
  BY <1>2, <1>3, <1>4, <1>5 DEF Posted, TestsDue

LEMMA ChunkRead ==
  ASSUME CTyped, Core, mail # <<>>, mail' = Tail(mail), mail[1].type = "chunk",
         chat' = [chat EXCEPT !.current = TRUE], asking' = asking, turns' = turns, given' = given
  PROVE  CTyped' /\ Core'
<1>1. /\ chat' \in Chat /\ chat'.raw = chat.raw /\ chat'.history = chat.history
      /\ chat'.streaming = chat.streaming /\ chat'.testing = chat.testing
  BY DEF CTyped, Chat
<1>2. /\ mail' \in Seq(Message) /\ 1 \in DOMAIN mail /\ Len(mail) \in DOMAIN mail
      /\ mail' # <<>> => mail'[Len(mail')] = mail[Len(mail)]
      /\ mail' = <<>> <=> Len(mail) = 1
  BY HeadGone
<1>3. Posted' /\ ~TestsDue' /\ asking.st # "test"
  BY StillPosted
<1>4. ~TestsDue /\ chat.streaming
  BY <1>3 DEF TestsDue, Core, InTurn
<1>5. asking.st = "end" => mail' # <<>>
  BY <1>2, <1>4 DEF Core, InTurn, Finals
<1>6. InTurn'
  BY <1>1, <1>2, <1>3, <1>4, <1>5 DEF Core, InTurn
<1>7. Told'
  BY <1>1, <1>2, <1>3, <1>4, <1>5 DEF Core, Told, InPanel, ForModel
<1>8. Shown'
  BY <1>1, <1>3, <1>4 DEF Core, Shown
<1>9. Dated' /\ OneConversation'
  BY <1>1 DEF Core, Dated, OneConversation
<1>10. CTyped'
  BY <1>1, <1>2 DEF CTyped
<1> QED
  BY <1>3, <1>6, <1>7, <1>8, <1>9, <1>10 DEF Core

LEMMA TestsRead ==
  ASSUME CTyped, Core, mail # <<>>, mail' = Tail(mail), mail[1].type = "tests",
         chat' = Results(chat, mail[1]), asking' = asking, turns' = turns, given' = given
  PROVE  CTyped' /\ Core'
<1> DEFINE r == Said("user", "results", asking.turn)
           t == Said("test", "results", asking.turn)
<1>1. /\ mail' \in Seq(Message) /\ 1 \in DOMAIN mail /\ Len(mail) \in DOMAIN mail
      /\ mail' # <<>> => mail'[Len(mail')] = mail[Len(mail)]
      /\ mail' = <<>> <=> Len(mail) = 1
  BY HeadGone
<1>2. mail[1].turn = asking.turn /\ asking.kind = "test" /\ chat.streaming /\ TestsDue
  BY <1>1 DEF Core, Posted, InTurn, TestsDue
<1>3. /\ chat.raw \in Seq(Entry) /\ chat.history \in Seq(Entry) /\ asking.turn \in Nat
      /\ turns \in Nat
  BY PanelTyped
<1>4. /\ r \in Entry /\ r.role = "user" /\ r.what = "results" /\ r.turn = asking.turn
      /\ t \in Entry /\ t.role = "test" /\ t.what = "results" /\ t.turn = asking.turn
  BY <1>3, SaidTyped
<1> HIDE DEF r, t
<1>5. chat' = [chat EXCEPT !.testing = FALSE, !.raw = Append(@, r), !.history = Append(@, t)]
  BY <1>2 DEF Results, r, t
<1>6. /\ Append(chat.raw, r) \in Seq(Entry) /\ Len(Append(chat.raw, r)) = Len(chat.raw) + 1
      /\ Len(chat.raw) \in Nat
      /\ DOMAIN chat.raw = 1 .. Len(chat.raw)
      /\ DOMAIN Append(chat.raw, r) = 1 .. Len(chat.raw) + 1
      /\ \A i \in 1 .. Len(chat.raw) : Append(chat.raw, r)[i] = chat.raw[i]
      /\ Append(chat.raw, r)[Len(chat.raw) + 1] = r
  BY <1>3, <1>4, Longer
<1>7. /\ Append(chat.history, t) \in Seq(Entry) /\ Append(chat.history, t) # <<>>
      /\ Append(chat.history, t)[Len(Append(chat.history, t))] = t
  BY <1>3, <1>4, Longer
<1>8. /\ chat' \in Chat /\ chat'.raw = Append(chat.raw, r) /\ chat'.history = Append(chat.history, t)
      /\ chat'.streaming = chat.streaming /\ chat'.testing = FALSE
  BY <1>5, <1>6, <1>7 DEF CTyped, Chat
<1>9. Posted' /\ ~TestsDue' /\ asking.st # "test"
  BY StillPosted
<1>10. asking.st = "end" => mail' # <<>>
  BY <1>1, <1>2 DEF Core, InTurn, Finals
<1>11. InTurn'
  BY <1>1, <1>2, <1>8, <1>9, <1>10 DEF Core, InTurn
<1>12. Told'
  <2>1. asking.st = "end" => mail'[Len(mail')] = mail[Len(mail)]
    BY <1>1, <1>10
  <2>2. InPanel = Append(chat.raw, r) /\ InPanel' = chat'.raw /\ ForModel' = ForModel
    BY <1>2, <1>9 DEF InPanel, ForModel, r
  <2> QED
    BY <1>2, <1>8, <2>1, <2>2 DEF Core, Told
<1>13. Shown'
  BY <1>2, <1>4, <1>7, <1>8, <1>9 DEF Shown
<1>14. Dated'
  <2>1. asking.turn = turns
    BY <1>2 DEF Core, Dated, InTurn
  <2>2. ASSUME NEW i \in DOMAIN chat'.raw
        PROVE  /\ chat'.raw[i].turn <= turns
               /\ chat'.raw[i].what = "done" => chat'.raw[i].turn < turns
    <3>1. CASE i \in DOMAIN chat.raw
      BY <1>2, <1>6, <1>8, <3>1 DEF Core, Dated
    <3>2. CASE i = Len(chat.raw) + 1
      BY <1>3, <1>4, <1>6, <1>8, <2>1, <3>2
    <3> QED
      BY <1>6, <1>8, <3>1, <3>2
  <2> QED
    BY <2>2 DEF Core, Dated
<1>15. Remembered'
  BY <1>4, <1>8, RawGrows, TwoHalves DEF Core
<1>16. Answered'
  <2>1. LET last == chat.history[Len(chat.history)] IN last.role = "user" /\ last.what = "test"
    BY <1>2 DEF Core, Shown
  <2> QED
    BY <1>4, <1>8, <2>1, HistoryGrows, TwoHalves DEF Core, AnswerTo
<1>17. CTyped'
  BY <1>1, <1>8 DEF CTyped
<1>18. OneConversation'
  BY <1>15, <1>16, <1>17, TwoHalves, PTL
<1> QED
  BY <1>9, <1>11, <1>12, <1>13, <1>14, <1>17, <1>18 DEF Core

\* The message that ends the turn is the last one
LEMMA LastRead ==
  ASSUME CTyped, Core, mail # <<>>, mail' = Tail(mail), mail[1].type \in Finals, asking' = asking
  PROVE  /\ mail' = <<>> /\ Len(mail) = 1 /\ asking.st = "end" /\ mail[1].turn = turns
         /\ asking.turn = turns /\ chat.streaming /\ ~TestsDue /\ ~chat.testing /\ Posted' /\ ~TestsDue'
<1>1. 1 \in DOMAIN mail /\ (mail' = <<>> <=> Len(mail) = 1)
  BY HeadGone
<1>2. Len(mail) = 1 /\ asking.st = "end" /\ mail[1].turn = asking.turn /\ chat.streaming
  BY <1>1 DEF Core, Posted, InTurn
<1>3. ~TestsDue /\ asking.turn = turns
  BY <1>2 DEF TestsDue, Finals, Core, Dated
<1>4. ~chat.testing
  BY <1>3 DEF Core, InTurn
<1>5. Posted' /\ ~TestsDue'
  BY StillPosted
<1> QED
  BY <1>1, <1>2, <1>3, <1>4, <1>5

LEMMA IdleRead ==
  ASSUME CTyped, Core, mail # <<>>, mail' = Tail(mail), mail[1].type = "idle",
         chat' = [chat EXCEPT !.testing = FALSE, !.streaming = FALSE],
         asking' = asking, turns' = turns, given' = given
  PROVE  CTyped' /\ Core'
<1>1. /\ mail' = <<>> /\ Len(mail) = 1 /\ asking.st = "end" /\ chat.streaming /\ ~TestsDue
      /\ Posted' /\ ~TestsDue' /\ asking.turn = turns
  BY LastRead DEF Finals
<1>2. /\ chat' \in Chat /\ chat'.raw = chat.raw /\ chat'.history = chat.history
      /\ chat'.streaming = FALSE /\ chat'.testing = FALSE
  BY DEF CTyped, Chat
<1>3. asking.kind = "test"
  BY HeadGone DEF Core, Posted
<1>4. InTurn' /\ Told' /\ Shown'
  BY <1>1, <1>2 DEF InTurn, Told, Shown
<1>5. Dated'
  BY <1>1, <1>2 DEF Core, Dated
<1>6. CTyped'
  <2>1. mail' \in Seq(Message)
    BY HeadGone
  <2> QED
    BY <1>2, <2>1 DEF CTyped
<1>7. Remembered'
  BY <1>2, TwoHalves DEF Core, Remembered
<1>8. Answered'
  <2>1. chat.history[Len(chat.history)].role = "test" /\ Answered
    BY <1>1, <1>3, TwoHalves DEF Core, Shown
  <2>2. \A i \in DOMAIN chat.history : i < Len(chat.history) \/ i = Len(chat.history)
    BY PanelTyped
  <2> QED
    BY <1>2, <2>1, <2>2 DEF Answered, AnswerTo
<1>9. OneConversation'
  BY <1>6, <1>7, <1>8, TwoHalves, PTL
<1> QED
  BY <1>1, <1>4, <1>5, <1>6, <1>9 DEF Core

LEMMA AnswerRead ==
  ASSUME CTyped, Core, mail # <<>>, mail' = Tail(mail),
         mail[1].type \in {"done", "offline", "error"},
         chat' = Finish(chat, mail[1], mail[1].actions),
         asking' = asking, turns' = turns, given' = given
  PROVE  CTyped' /\ Core'
<1> DEFINE e == Said("assistant", mail[1].type, turns)
<1>1. /\ mail' = <<>> /\ Len(mail) = 1 /\ asking.st = "end" /\ mail[1].turn = turns
      /\ asking.turn = turns /\ chat.streaming /\ ~TestsDue /\ ~chat.testing /\ Posted' /\ ~TestsDue'
  BY LastRead DEF Finals
<1>2. /\ chat.raw \in Seq(Entry) /\ chat.history \in Seq(Entry) /\ turns \in Nat
  BY PanelTyped
<1>3. e \in Entry /\ e.role = "assistant" /\ e.what = mail[1].type /\ e.turn = turns
  BY <1>2, SaidTyped
<1> HIDE DEF e
<1>4. chat' = [chat EXCEPT !.actions = mail[1].actions, !.history = Append(@, e),
                           !.raw = Append(@, e), !.current = FALSE, !.streaming = FALSE]
  BY <1>1 DEF Finish, e
<1>5. /\ Append(chat.raw, e) \in Seq(Entry) /\ Append(chat.history, e) \in Seq(Entry)
      /\ Len(chat.raw) \in Nat /\ DOMAIN chat.raw = 1 .. Len(chat.raw)
      /\ DOMAIN Append(chat.raw, e) = 1 .. Len(chat.raw) + 1
      /\ \A i \in 1 .. Len(chat.raw) : Append(chat.raw, e)[i] = chat.raw[i]
      /\ Append(chat.raw, e)[Len(chat.raw) + 1] = e
  BY <1>2, <1>3, Longer
<1>6. mail[1].actions \in Seq(Actions) /\ mail' \in Seq(Message)
  BY HeadGone DEF Message
<1>7. /\ chat' \in Chat /\ chat'.raw = Append(chat.raw, e) /\ chat'.history = Append(chat.history, e)
      /\ chat'.streaming = FALSE /\ chat'.testing = FALSE
  BY <1>1, <1>4, <1>5, <1>6 DEF CTyped, Chat
<1>8. InTurn' /\ Told' /\ Shown'
  BY <1>1, <1>7 DEF InTurn, Told, Shown
<1>9. Dated'
  <2>1. ASSUME NEW i \in DOMAIN chat'.raw PROVE chat'.raw[i].turn <= turns
    <3>1. CASE i \in DOMAIN chat.raw
      BY <1>5, <1>7, <3>1 DEF Core, Dated
    <3>2. CASE i = Len(chat.raw) + 1
      BY <1>2, <1>3, <1>5, <1>7, <3>2
    <3> QED
      BY <1>5, <1>7, <3>1, <3>2
  <2> QED
    BY <1>7, <2>1 DEF Core, Dated
<1>10. Remembered'
  <2>1. mail[1].type = "done" => asking.raw = chat.raw
    BY <1>1 DEF Core, Told, InPanel, ForModel
  <2>2. ASSUME NEW g \in ToSet(given), e.what = "done", e.turn = g.turn PROVE g.raw = chat.raw
    <3>1. PICK k \in DOMAIN given : g = given[k]
      BY <2>2 DEF ToSet
    <3>2. g.raw = asking.raw
      BY <1>3, <2>2, <3>1 DEF Core, Dated
    <3> QED
      BY <1>3, <2>1, <2>2, <3>2
  <2> QED
    BY <1>3, <1>7, <2>2, RawGrows, TwoHalves DEF Core
<1>11. Answered'
  <2>1. LET last == chat.history[Len(chat.history)] IN
          last.role = "user" => last.what # "test"
    BY <1>1 DEF Core, Shown
  <2> QED
    BY <1>3, <1>7, <2>1, HistoryGrows, TwoHalves DEF Core, AnswerTo
<1>12. CTyped'
  BY <1>6, <1>7 DEF CTyped
<1>13. OneConversation'
  BY <1>10, <1>11, <1>12, TwoHalves, PTL
<1> QED
  BY <1>1, <1>8, <1>9, <1>12, <1>13 DEF Core

LEMMA PollStep == ASSUME CTyped, Core, Poll PROVE CTyped' /\ Core'
<1>1. /\ mail # <<>> /\ mail' = Tail(mail) /\ asking' = asking /\ turns' = turns /\ given' = given
      /\ chat' = Receive(chat, Head(mail))
  BY DEF Poll
<1>2. Head(mail) = mail[1] /\ mail[1] \in Message
  BY <1>1, HeadGone
<1>3. CASE mail[1].type = "chunk"
  <2>1. chat' = [chat EXCEPT !.current = TRUE]
    BY <1>1, <1>2, <1>3 DEF Receive
  <2> QED
    BY <1>1, <1>3, <2>1, ChunkRead
<1>4. CASE mail[1].type = "tests"
  <2>1. chat' = Results(chat, mail[1])
    BY <1>1, <1>2, <1>4 DEF Receive
  <2> QED
    BY <1>1, <1>4, <2>1, TestsRead
<1>5. CASE mail[1].type = "idle"
  <2>1. chat' = [chat EXCEPT !.testing = FALSE, !.streaming = FALSE]
    BY <1>1, <1>2, <1>5 DEF Receive
  <2> QED
    BY <1>1, <1>5, <2>1, IdleRead
<1>6. CASE mail[1].type \in {"done", "offline", "error"}
  <2>1. chat' = Finish(chat, mail[1], mail[1].actions)
    BY <1>1, <1>2, <1>6 DEF Receive
  <2> QED
    BY <1>1, <1>6, <2>1, AnswerRead
<1> QED
  BY <1>2, <1>3, <1>4, <1>5, <1>6 DEF Message

-----------------------------------------------------------------------------
(* Keys: a turn starts, the panel is closed, or the conversation stays *)

LEMMA TurnsTyped ==
  ASSUME CTyped
  PROVE  /\ \A i \in DOMAIN chat.raw : chat.raw[i].turn \in Nat
         /\ \A i \in DOMAIN given : given[i].turn \in Nat
<1>1. /\ chat.raw \in Seq(Entry) /\ given \in Seq(Given)
      /\ DOMAIN chat.raw = 1 .. Len(chat.raw) /\ DOMAIN given = 1 .. Len(given)
  BY PanelTyped DEF CTyped
<1>2. \A i \in DOMAIN chat.raw : chat.raw[i] \in Entry
  BY <1>1, ElementOfSeq
<1>3. \A i \in DOMAIN given : given[i] \in Given
  BY <1>1, ElementOfSeq
<1> QED
  BY <1>2, <1>3 DEF Entry, Given

LEMMA TurnStarts ==
  ASSUME CTyped, Core, ~chat.streaming, NEW kind \in {"ask", "test"},
         turns < MaxTurns, turns' = turns + 1, chat' \in Chat,
         chat'.history = Append(chat.history, Said("user", kind, turns')),
         chat'.streaming = TRUE, chat'.testing = (kind = "test"),
         kind = "ask" => chat'.raw = Append(chat.raw, Said("user", "question", turns')),
         kind = "test" => chat'.raw = chat.raw,
         asking' = [st |-> IF kind = "test" THEN "test" ELSE "detect", kind |-> kind,
                    turn |-> turns', raw |-> chat'.raw],
         mail' = <<>>, given' = given
  PROVE  CTyped' /\ Core'
<1> DEFINE h == Said("user", kind, turns')
           q == Said("user", "question", turns')
<1>1. /\ chat.raw \in Seq(Entry) /\ chat.history \in Seq(Entry) /\ turns \in Nat /\ turns' \in Nat
      /\ turns' \in 0 .. MaxTurns /\ chat'.raw \in Seq(Entry)
  BY PanelTyped, DashboardAssumption DEF CTyped, Chat
<1>2. /\ h \in Entry /\ h.role = "user" /\ h.what = kind /\ h.turn = turns'
      /\ q \in Entry /\ q.role = "user" /\ q.what = "question" /\ q.turn = turns'
  BY <1>1, SaidTyped
<1>3. /\ asking' \in Thread /\ asking'.st = (IF kind = "test" THEN "test" ELSE "detect")
      /\ asking'.kind = kind /\ asking'.turn = turns' /\ asking'.raw = chat'.raw
  BY <1>1 DEF Thread
<1> HIDE DEF h, q
<1>4. /\ chat'.history = Append(chat.history, h)
      /\ kind = "ask" => chat'.raw = Append(chat.raw, q)
  BY DEF h, q
<1>5. /\ chat'.history # <<>> /\ chat'.history[Len(chat'.history)] = h
  BY <1>1, <1>2, <1>4, Longer
<1>6. TestsDue' <=> kind = "test"
  BY <1>3 DEF TestsDue
<1>7. Posted' /\ InTurn'
  <2>1. DOMAIN mail' = {}
    BY EmptySeq
  <2> QED
    BY <1>3, <1>6, <2>1 DEF Posted, InTurn
<1>8. Told'
  BY <1>3, <1>6 DEF Told, InPanel, ForModel
<1>9. Shown'
  BY <1>2, <1>3, <1>5, <1>6 DEF Shown
<1>10. Dated'
  <2>1. ASSUME NEW i \in DOMAIN chat'.raw
        PROVE  /\ chat'.raw[i].turn <= turns'
               /\ chat'.raw[i].what = "done" => chat'.raw[i].turn < turns'
    <3>1. CASE i \in DOMAIN chat.raw /\ chat'.raw[i] = chat.raw[i]
      <4>1. chat.raw[i].turn <= turns /\ chat.raw[i].turn \in Nat
        BY <3>1, TurnsTyped DEF Core, Dated
      <4> QED
        BY <1>1, <3>1, <4>1
    <3>2. CASE chat'.raw[i] = q
      BY <1>1, <1>2, <3>2
    <3>3. kind = "ask" => \/ i \in DOMAIN chat.raw /\ chat'.raw[i] = chat.raw[i]
                          \/ chat'.raw[i] = q
      <4>1. SUFFICES ASSUME kind = "ask"
                     PROVE  \/ i \in DOMAIN chat.raw /\ chat'.raw[i] = chat.raw[i]
                            \/ chat'.raw[i] = q
        OBVIOUS
      <4>2. /\ Len(chat.raw) \in Nat /\ DOMAIN chat.raw = 1 .. Len(chat.raw)
            /\ DOMAIN chat'.raw = 1 .. Len(chat.raw) + 1
            /\ \A k \in 1 .. Len(chat.raw) : chat'.raw[k] = chat.raw[k]
            /\ chat'.raw[Len(chat.raw) + 1] = q
        BY <1>1, <1>2, <1>4, <4>1, Longer
      <4> QED
        BY <4>2
    <3> QED
      BY <3>1, <3>2, <3>3
  <2>2. ASSUME NEW i \in DOMAIN given PROVE given[i].turn < turns'
    <3>1. given[i].turn <= turns /\ given[i].turn \in Nat
      BY TurnsTyped DEF Core, Dated
    <3> QED
      BY <1>1, <3>1
  <2>3. \A i \in DOMAIN given : given[i].turn <= turns' /\ given[i].turn # turns'
    <3>1. \A i \in DOMAIN given : given[i].turn \in Nat
      BY TurnsTyped
    <3> QED
      BY <1>1, <2>2, <3>1
  <2> QED
    BY <1>3, <2>1, <2>2, <2>3 DEF Dated
<1>11. Remembered'
  <2>1. CASE kind = "ask"
    BY <1>2, <1>4, <2>1, RawGrows, TwoHalves DEF Core
  <2>2. CASE kind = "test"
    BY <2>2, TwoHalves DEF Core, Remembered
  <2> QED
    BY <2>1, <2>2
<1>12. Answered'
  <2>1. LET last == chat.history[Len(chat.history)] IN chat.history # <<>> => last.role # "user"
    <3>1. chat.history # <<>> => Len(chat.history) \in DOMAIN chat.history
      BY <1>1, PanelTyped
    <3>2. Answered /\ Len(chat.history) \in Nat
      BY PanelTyped, TwoHalves DEF Core
    <3>3. ASSUME NEW i \in DOMAIN chat.history, chat.history[i].role = "user"
          PROVE  i < Len(chat.history)
      BY <3>2, <3>3, Zenon DEF Answered
    <3> QED
      BY <3>1, <3>2, <3>3
  <2> QED
    BY <1>2, <1>4, <2>1, HistoryGrows, TwoHalves DEF Core
<1>13. CTyped'
  BY <1>1, <1>3, EmptySeq DEF CTyped
<1>14. OneConversation'
  BY <1>11, <1>12, <1>13, TwoHalves, PTL
<1> QED
  BY <1>7, <1>8, <1>9, <1>10, <1>13, <1>14 DEF Core

LEMMA PanelCloses == ASSUME CTyped, ClosePanel, turns' = turns PROVE CTyped' /\ Core'
<1>1. /\ chat' = Closed /\ asking' = NotAsking /\ mail' = <<>> /\ given' = <<>>
  BY DEF ClosePanel
<1>2. /\ chat' \in Chat /\ chat'.raw = <<>> /\ chat'.history = <<>> /\ chat'.streaming = FALSE
      /\ chat'.testing = FALSE
  BY <1>1, EmptySeq DEF Closed, Chat, Texts
<1>3. asking' \in Thread /\ asking'.st = "none"
  BY <1>1, EmptySeq DEF NotAsking, Thread
<1>4. DOMAIN (<<>>) = {}
  BY EmptySeq
<1>5. CTyped'
  BY <1>1, <1>2, <1>3, EmptySeq DEF CTyped
<1>6. Posted' /\ InTurn' /\ Told' /\ Shown' /\ Dated'
  BY <1>1, <1>2, <1>3, <1>4 DEF Posted, InTurn, Told, Shown, Dated
<1>7. OneConversation'
  BY <1>2, <1>4 DEF OneConversation
<1> QED
  BY <1>5, <1>6, <1>7 DEF Core

SameTalk ==
  /\ chat'.raw = chat.raw /\ chat'.history = chat.history
  /\ chat'.streaming = chat.streaming /\ chat'.testing = chat.testing
  /\ asking' = asking /\ mail' = mail /\ given' = given /\ turns' = turns

LEMMA TalkStays == ASSUME CTyped, Core, SameTalk, chat' \in Chat PROVE CTyped' /\ Core'
<1>1. CTyped'
  BY DEF CTyped, SameTalk
<1>2. Posted' /\ InTurn' /\ Dated' /\ (TestsDue' <=> TestsDue)
  BY DEF SameTalk, Core, Posted, InTurn, Dated, TestsDue
<1>3. Told' /\ Shown'
  BY <1>2 DEF SameTalk, Core, Told, Shown, InPanel, ForModel
<1>4. OneConversation'
  BY DEF SameTalk, Core, OneConversation
<1> QED
  BY <1>1, <1>2, <1>3, <1>4 DEF Core

-----------------------------------------------------------------------------
(* What a digit picks and what a row shows *)

Shut == ~chat.open => chat = Closed

\* Nothing is offered while a reply streams, and what waits for y is on the list
Chosen ==
  /\ chat.streaming => chat.actions = <<>>
  /\ chat.confirm # 0 => /\ chat.confirm \in DOMAIN chat.actions
                         /\ picked = chat.actions[chat.confirm] /\ picked \in Changes

Panel == CTyped /\ Core /\ Shut /\ Chosen

\* A closed panel has nothing to wait for
LEMMA OpenPanel ==
  ASSUME Panel, chat.streaming
  PROVE  chat.open /\ chat.actions = <<>> /\ chat.confirm = 0
<1>1. chat.open
  BY DEF Panel, Shut, Closed
<1>2. chat.actions = <<>> /\ DOMAIN (<<>>) = {}
  BY EmptySeq DEF Panel, Chosen
<1> QED
  BY <1>1, <1>2 DEF Panel, Chosen

LEMMA ThreadPanel == ASSUME Panel, AskThread PROVE Panel'
<1>1. chat' = chat /\ picked' = picked
  BY DEF AskThread, RunTests, ModelFound, NoModel, Chunk, Replied, ModelFails, ToPanel, screen
<1>2. CTyped' /\ Core'
  BY RunTestsStep, ModelFoundStep, NoModelStep, ChunkStep, RepliedStep, ModelFailsStep
     DEF AskThread, Panel
<1> QED
  BY <1>1, <1>2 DEF Panel, Shut, Chosen

LEMMA PollKeeps ==
  ASSUME Panel, Poll
  PROVE  /\ chat.open /\ chat'.open = chat.open /\ chat'.confirm = 0
         /\ chat'.streaming => chat'.actions = <<>>
<1>2. mail # <<>> /\ chat' = Receive(chat, Head(mail)) /\ mail' = Tail(mail)
  BY DEF Poll
<1>3. chat.streaming
  BY <1>2 DEF Panel, Core, InTurn
<1>4. chat \in Chat /\ chat.open /\ chat.actions = <<>> /\ chat.confirm = 0
  BY <1>3, OpenPanel DEF Panel, CTyped
<1>5. mail[1] \in Message /\ Head(mail) = mail[1]
  BY <1>2, HeadGone DEF Panel
<1>6. /\ chat'.open = chat.open /\ chat'.confirm = 0
      /\ chat'.streaming => chat'.actions = chat.actions
  <2>1. CASE mail[1].type = "chunk"
    <3>1. chat' = [chat EXCEPT !.current = TRUE]
      BY <1>2, <1>5, <2>1 DEF Receive
    <3> QED
      BY <1>4, <3>1 DEF Chat
  <2>2. CASE mail[1].type = "tests"
    <3>1. chat' = Results(chat, mail[1])
      BY <1>2, <1>5, <2>2 DEF Receive
    <3> QED
      BY <1>4, <3>1 DEF Chat, Results
  <2>3. CASE mail[1].type = "idle"
    <3>1. chat' = [chat EXCEPT !.testing = FALSE, !.streaming = FALSE]
      BY <1>2, <1>5, <2>3 DEF Receive
    <3> QED
      BY <1>4, <3>1 DEF Chat
  <2>4. CASE mail[1].type \in {"done", "offline", "error"}
    <3>1. chat' = Finish(chat, mail[1], mail[1].actions)
      BY <1>2, <1>5, <2>4 DEF Receive
    <3> QED
      BY <1>4, <3>1 DEF Chat, Finish
  <2> QED
    BY <1>5, <2>1, <2>2, <2>3, <2>4 DEF Message
<1> QED
  BY <1>4, <1>6

LEMMA PollPanel == ASSUME Panel, Poll PROVE Panel'
<1>1. CTyped' /\ Core'
  BY PollStep DEF Panel
<1> QED
  BY <1>1, PollKeeps DEF Panel, Shut, Chosen

\* A step that leaves the panel alone
LEMMA PanelAlone ==
  ASSUME Panel, chat' = chat, asking' = asking, mail' = mail, given' = given, turns' = turns,
         picked' = picked
  PROVE  Panel'
<1>1. SameTalk /\ chat' \in Chat
  BY DEF SameTalk, Panel, CTyped
<1>2. CTyped' /\ Core'
  BY <1>1, TalkStays DEF Panel
<1> QED
  BY <1>2 DEF Panel, Shut, Chosen

\* One that only edits the line
LEMMA LineEdited ==
  ASSUME Panel, chat.open, NEW v \in Texts \cup {"nothing"}, chat' = [chat EXCEPT !.input = v],
         asking' = asking, mail' = mail, given' = given, turns' = turns, picked' = picked
  PROVE  Panel'
<1>1. /\ chat' \in Chat /\ SameTalk /\ chat'.open = chat.open /\ chat'.actions = chat.actions
      /\ chat'.confirm = chat.confirm
  BY DEF Panel, CTyped, Chat, SameTalk
<1>2. CTyped' /\ Core'
  BY <1>1, TalkStays DEF Panel
<1> QED
  BY <1>1, <1>2 DEF Panel, Shut, Chosen, SameTalk

\* One that only sets what waits for y
LEMMA PickSet ==
  ASSUME Panel, chat.open, NEW i \in 0 .. 9, chat' = [chat EXCEPT !.confirm = i],
         i # 0 => i \in DOMAIN chat.actions /\ picked' = chat.actions[i] /\ picked' \in Changes,
         asking' = asking, mail' = mail, given' = given, turns' = turns
  PROVE  Panel'
<1>1. /\ chat' \in Chat /\ SameTalk /\ chat'.open = chat.open /\ chat'.actions = chat.actions
      /\ chat'.confirm = i
  BY DEF Panel, CTyped, Chat, SameTalk
<1>2. CTyped' /\ Core'
  BY <1>1, TalkStays DEF Panel
<1> QED
  BY <1>1, <1>2 DEF Panel, Shut, Chosen, SameTalk

\* The panel as a turn begins
Begun(c, e) ==
  [c EXCEPT !.input = "nothing", !.actions = <<>>, !.confirm = 0, !.current = FALSE,
            !.history = Append(@, e), !.streaming = TRUE]

LEMMA Started ==
  ASSUME NEW c \in Chat, NEW e \in Entry
  PROVE  LET d == Begun(c, e) IN
         /\ d \in Chat /\ d.history = Append(c.history, e) /\ d.raw = c.raw /\ d.streaming = TRUE
         /\ d.testing = c.testing /\ d.open = c.open /\ d.actions = <<>> /\ d.confirm = 0
<1>1. <<>> \in Seq(Actions) /\ c.history \in Seq(Entry)
  BY EmptySeq DEF Chat
<1>2. PICK hs \in Seq(Entry) : hs = Append(c.history, e)
  BY <1>1, Longer
<1>3. PICK none \in Seq(Actions) : none = <<>>
  BY <1>1
<1> DEFINE c1 == [c EXCEPT !.input = "nothing", !.actions = none]
           c2 == [c1 EXCEPT !.confirm = 0, !.current = FALSE]
           c3 == [c2 EXCEPT !.history = hs, !.streaming = TRUE]
<1>4. Begun(c, e) = c3
  BY <1>2, <1>3 DEF Begun, Chat
<1>5. /\ c1 \in Chat /\ c1.history = c.history /\ c1.raw = c.raw /\ c1.testing = c.testing
      /\ c1.open = c.open /\ c1.actions = none
  BY DEF Chat, Texts
<1> HIDE DEF c1
<1>6. /\ c2 \in Chat /\ c2.history = c1.history /\ c2.raw = c1.raw /\ c2.testing = c1.testing
      /\ c2.open = c1.open /\ c2.actions = c1.actions /\ c2.confirm = 0
  <2> DEFINE b == [c1 EXCEPT !.confirm = 0]
  <2>1. /\ b \in Chat /\ b.history = c1.history /\ b.raw = c1.raw /\ b.testing = c1.testing
        /\ b.open = c1.open /\ b.actions = c1.actions /\ b.confirm = 0
    <3>1. PICK zero \in 0 .. 9 : zero = 0
      OBVIOUS
    <3>2. b = [c1 EXCEPT !.confirm = zero]
      BY <3>1
    <3> HIDE DEF b
    <3>3. /\ b \in Chat /\ b.history = c1.history /\ b.raw = c1.raw /\ b.testing = c1.testing
          /\ b.open = c1.open /\ b.actions = c1.actions /\ b.confirm = zero
      BY <1>5, <3>2 DEF Chat
    <3> QED
      BY <3>1, <3>3
  <2>2. c2 = [b EXCEPT !.current = FALSE]
    OBVIOUS
  <2> HIDE DEF b, c2
  <2> QED
    BY <2>1, <2>2 DEF Chat
<1> HIDE DEF c2
<1>7. /\ c3 \in Chat /\ c3.history = hs /\ c3.raw = c2.raw /\ c3.testing = c2.testing
      /\ c3.open = c2.open /\ c3.actions = c2.actions /\ c3.confirm = c2.confirm
      /\ c3.streaming = TRUE
  BY <1>6 DEF Chat
<1> HIDE DEF c3
<1> QED
  BY <1>2, <1>3, <1>4, <1>5, <1>6, <1>7

LEMMA NewPanel ==
  /\ Closed \in Chat /\ NewChat \in Chat
  /\ \A c \in {Closed, NewChat} :
       /\ c.raw = <<>> /\ c.history = <<>> /\ c.streaming = FALSE /\ c.testing = FALSE
       /\ c.confirm = 0 /\ c.actions = <<>>
  /\ Closed.open = FALSE /\ NewChat.open = TRUE
<1>1. Closed \in Chat
  BY EmptySeq DEF Closed, Chat, Texts
<1>2. /\ Closed.raw = <<>> /\ Closed.history = <<>> /\ Closed.streaming = FALSE
      /\ Closed.testing = FALSE /\ Closed.confirm = 0 /\ Closed.actions = <<>>
      /\ Closed.open = FALSE
  BY DEF Closed
<1>3. /\ NewChat \in Chat /\ NewChat.raw = Closed.raw /\ NewChat.history = Closed.history
      /\ NewChat.streaming = Closed.streaming /\ NewChat.testing = Closed.testing
      /\ NewChat.confirm = Closed.confirm /\ NewChat.actions = Closed.actions
      /\ NewChat.open = TRUE
  BY <1>1 DEF NewChat, Chat
<1> QED
  BY <1>1, <1>2, <1>3

LEMMA SendPanel == ASSUME Panel, Send PROVE Panel'
<1> DEFINE q == Said("user", "question", turns + 1)
           h == Said("user", "ask", turns')
<1>1. /\ chat.open /\ ~chat.streaming /\ turns < MaxTurns /\ turns' = turns + 1 /\ mail' = <<>>
      /\ given' = given /\ chat \in Chat
  BY DEF Send, PanelKey, StartTurn, Panel, CTyped
<1>2. /\ chat' = [[chat EXCEPT !.raw = Append(@, q)] EXCEPT
                    !.input = "nothing", !.actions = <<>>, !.confirm = 0, !.current = FALSE,
                    !.history = Append(@, h), !.streaming = TRUE]
      /\ asking' = [st |-> IF "ask" = "test" THEN "test" ELSE "detect", kind |-> "ask",
                    turn |-> turns', raw |-> chat'.raw]
  BY DEF Send, StartTurn
<1>3. /\ chat.raw \in Seq(Entry) /\ chat.history \in Seq(Entry) /\ turns \in Nat /\ turns' \in Nat
  BY <1>1, PanelTyped DEF Panel
<1>4. q \in Entry /\ h \in Entry /\ q = Said("user", "question", turns')
  BY <1>1, <1>3, SaidTyped
<1>5. ~chat.testing
  BY <1>1 DEF Panel, Core, InTurn
<1> HIDE DEF q, h
<1>6. Append(chat.raw, q) \in Seq(Entry) /\ Append(chat.history, h) \in Seq(Entry)
  BY <1>3, <1>4, Longer
<1>7. /\ chat' \in Chat /\ chat'.history = Append(chat.history, h) /\ chat'.raw = Append(chat.raw, q)
      /\ chat'.streaming = TRUE /\ chat'.testing = FALSE /\ chat'.open = chat.open
      /\ chat'.actions = <<>> /\ chat'.confirm = 0
  <2> DEFINE c == [chat EXCEPT !.raw = Append(@, q)]
  <2>1. /\ c \in Chat /\ c.history = chat.history /\ c.raw = Append(chat.raw, q)
        /\ c.testing = chat.testing /\ c.open = chat.open
    BY <1>1, <1>6 DEF Chat
  <2>2. chat' = Begun(c, h)
    BY <1>2 DEF Begun
  <2>3. chat.testing = FALSE
    BY <1>1, <1>5 DEF Chat
  <2> HIDE DEF c
  <2>4. /\ chat' \in Chat /\ chat'.history = Append(c.history, h) /\ chat'.raw = c.raw
        /\ chat'.streaming = TRUE /\ chat'.testing = c.testing /\ chat'.open = c.open
        /\ chat'.actions = <<>> /\ chat'.confirm = 0
    BY <1>4, <2>1, <2>2, Started
  <2> QED
    BY <2>1, <2>3, <2>4
<1>8. CTyped' /\ Core'
  <2>1. chat'.testing = ("ask" = "test")
    BY <1>7
  <2> QED
    BY <1>1, <1>2, <1>4, <1>7, <2>1, TurnStarts DEF Panel, h
<1> QED
  BY <1>1, <1>7, <1>8 DEF Panel, Shut, Chosen

LEMMA RunTestPanel == ASSUME Panel, chat.open, ~chat.streaming, RunTest PROVE Panel'
<1> DEFINE h == Said("user", "test", turns')
<1>1. /\ turns < MaxTurns /\ turns' = turns + 1 /\ mail' = <<>> /\ given' = given /\ chat \in Chat
  BY DEF RunTest, StartTurn, Panel, CTyped
<1>2. /\ chat' = [[chat EXCEPT !.testing = TRUE] EXCEPT
                    !.input = "nothing", !.actions = <<>>, !.confirm = 0, !.current = FALSE,
                    !.history = Append(@, h), !.streaming = TRUE]
      /\ asking' = [st |-> IF "test" = "test" THEN "test" ELSE "detect", kind |-> "test",
                    turn |-> turns', raw |-> chat'.raw]
  BY DEF RunTest, StartTurn
<1>3. chat.history \in Seq(Entry) /\ turns \in Nat /\ turns' \in Nat
  BY <1>1, PanelTyped DEF Panel
<1>4. h \in Entry
  BY <1>3, SaidTyped
<1> HIDE DEF h
<1>6. /\ chat' \in Chat /\ chat'.history = Append(chat.history, h) /\ chat'.raw = chat.raw
      /\ chat'.streaming = TRUE /\ chat'.testing = TRUE /\ chat'.open = chat.open
      /\ chat'.actions = <<>> /\ chat'.confirm = 0
  <2> DEFINE c == [chat EXCEPT !.testing = TRUE]
  <2>1. /\ c \in Chat /\ c.history = chat.history /\ c.raw = chat.raw
        /\ c.testing = TRUE /\ c.open = chat.open
    BY <1>1 DEF Chat
  <2>2. chat' = Begun(c, h)
    BY <1>2 DEF Begun
  <2> HIDE DEF c
  <2>3. /\ chat' \in Chat /\ chat'.history = Append(c.history, h) /\ chat'.raw = c.raw
        /\ chat'.streaming = TRUE /\ chat'.testing = c.testing /\ chat'.open = c.open
        /\ chat'.actions = <<>> /\ chat'.confirm = 0
    BY <1>4, <2>1, <2>2, Started
  <2> QED
    BY <2>1, <2>3
<1>7. CTyped' /\ Core'
  <2>1. chat'.testing = ("test" = "test")
    BY <1>6
  <2> QED
    BY <1>1, <1>2, <1>6, <2>1, TurnStarts DEF Panel, h
<1> QED
  BY <1>6, <1>7 DEF Panel, Shut, Chosen

LEMMA KeysPanel == ASSUME Panel, PanelKeys PROVE Panel'
<1>1. CASE Confirm \/ Decline
  <2>1. /\ chat.open /\ chat' = [chat EXCEPT !.confirm = 0]
        /\ asking' = asking /\ mail' = mail /\ given' = given /\ turns' = turns
    BY <1>1 DEF Confirm, Decline, AnyKeyAnswers, thread
  <2> QED
    BY <2>1, PickSet
<1>2. CASE Send
  BY <1>2, SendPanel
<1>3. CASE TypedTest
  BY <1>3, RunTestPanel DEF TypedTest, PanelKey
<1>4. CASE Enter
  <2>1. /\ chat.open /\ asking' = asking /\ mail' = mail /\ given' = given /\ turns' = turns
        /\ picked' = picked
        /\ chat' = [chat EXCEPT !.input = IF chat.input = "test" THEN chat.input ELSE "nothing"]
    BY <1>4 DEF Enter, PanelKey, thread
  <2>2. (IF chat.input = "test" THEN chat.input ELSE "nothing") \in Texts \cup {"nothing"}
    BY DEF Texts
  <2> QED
    BY <2>1, <2>2, LineEdited
<1>5. CASE Type
  <2>1. PICK text \in Texts \cup {"nothing"} : chat' = [chat EXCEPT !.input = text]
    BY <1>5 DEF Type
  <2>2. /\ chat.open /\ asking' = asking /\ mail' = mail /\ given' = given /\ turns' = turns
        /\ picked' = picked
    BY <1>5 DEF Type, PanelKey, thread
  <2> QED
    BY <2>1, <2>2, LineEdited
<1>6. CASE Esc
  <2>1. CTyped' /\ Core'
    BY <1>6, PanelCloses DEF Esc, Panel
  <2>2. chat' = Closed
    BY <1>6 DEF Esc, ClosePanel
  <2> QED
    BY <2>1, <2>2 DEF Panel, Shut, Chosen, Closed
<1>7. ASSUME NEW i \in 1 .. 9, PickTest(i) PROVE Panel'
  BY <1>7, RunTestPanel DEF PickTest, PanelKey
<1>8. ASSUME NEW i \in 1 .. 9, PickChange(i) PROVE Panel'
  <2>1. /\ chat.open /\ asking' = asking /\ mail' = mail /\ given' = given /\ turns' = turns
        /\ chat' = [chat EXCEPT !.confirm = i] /\ i \in DOMAIN chat.actions
        /\ picked' = chat.actions[i] /\ chat.actions[i] \notin Tests
    BY <1>8 DEF PickChange, PanelKey, thread
  <2>2. chat.actions \in Seq(Actions)
    BY PanelTyped DEF Panel
  <2>3. chat.actions[i] \in Actions
    BY <2>1, <2>2
  <2> QED
    BY <2>1, <2>3, PickSet DEF Actions
<1> QED
  BY <1>1, <1>2, <1>3, <1>4, <1>5, <1>6, <1>7, <1>8 DEF PanelKeys

LEMMA BoardPanel == ASSUME Panel, BoardKeys PROVE Panel'
<1>1. CASE BanPrompt \/ Move \/ Unban
  BY <1>1, PanelAlone DEF BanPrompt, Move, Unban, thread
<1>2. CASE Other
  <2>1. /\ ~chat.open /\ asking' = asking /\ mail' = mail /\ given' = given /\ turns' = turns
        /\ picked' = picked /\ (chat' = chat \/ chat' = NewChat)
    BY <1>2 DEF Other, BoardKey, thread
  <2>2. CASE chat' = chat
    BY <2>1, <2>2, PanelAlone
  <2>3. CASE chat' = NewChat
    <3>1. chat = Closed
      BY <2>1 DEF Panel, Shut
    <3>2. chat' \in Chat /\ SameTalk /\ chat'.open = TRUE /\ chat'.confirm = 0 /\ chat'.streaming = FALSE
      BY <2>1, <2>3, <3>1, NewPanel DEF SameTalk
    <3>3. CTyped' /\ Core'
      BY <3>2, TalkStays DEF Panel
    <3> QED
      BY <3>2, <3>3 DEF Panel, Shut, Chosen
  <2> QED
    BY <2>1, <2>2, <2>3
<1> QED
  BY <1>1, <1>2 DEF BoardKeys

LEMMA RestPanel ==
  ASSUME Panel, Frame \/ Refresh \/ Quit \/ DaemonWrites \/ Command \/ UNCHANGED dashVars
  PROVE  Panel'
<1>1. chat' = chat /\ asking' = asking /\ mail' = mail /\ given' = given /\ turns' = turns
      /\ picked' = picked
  BY DEF Frame, Refresh, Quit, DaemonWrites, Command, JsonStart, JsonTest, JsonReply, Ask, JsonStep,
         dashVars, screen, thread
<1> QED
  BY <1>1, PanelAlone

LEMMA PanelKept == Panel /\ [DashboardNext]_dashVars => Panel'
<1> SUFFICES ASSUME Panel, [DashboardNext]_dashVars PROVE Panel'
  OBVIOUS
<1> QED
  BY ThreadPanel, PollPanel, KeysPanel, BoardPanel, RestPanel
     DEF DashboardNext, Dashboard, Ended

LEMMA PanelStarts == DashboardInit => Panel
<1> SUFFICES ASSUME DashboardInit PROVE Panel
  OBVIOUS
<1>1. /\ chat \in {Closed, NewChat} /\ asking = NotAsking /\ mail = <<>> /\ given = <<>> /\ turns = 0
  BY DEF DashboardInit
<1>2. /\ chat \in Chat /\ chat.raw = <<>> /\ chat.history = <<>> /\ chat.streaming = FALSE
      /\ chat.testing = FALSE /\ chat.confirm = 0
  BY <1>1, NewPanel
<1>3. asking \in Thread /\ asking.st = "none"
  BY <1>1, EmptySeq DEF NotAsking, Thread
<1>4. DOMAIN (<<>>) = {}
  BY EmptySeq
<1>5. CTyped
  BY <1>1, <1>2, <1>3, EmptySeq, DashboardAssumption DEF CTyped
<1>6. Posted /\ InTurn /\ Told /\ Shown /\ Dated
  BY <1>1, <1>2, <1>3, <1>4 DEF Posted, InTurn, Told, Shown, Dated
<1>7. OneConversation
  BY <1>2, <1>4 DEF OneConversation
<1>8. Shut
  BY <1>1, NewPanel DEF Shut
<1> QED
  BY <1>2, <1>5, <1>6, <1>7, <1>8 DEF Panel, Core, Chosen

\* The model and the panel agree on the conversation (tui.rs run_test, poll), for
\* every list of replies, of tests and of changes and any number of turns: the
\* panel's copy in front of a reply is what the thread gave the model for it.
THEOREM OneConversationHolds == DashboardSpec => []OneConversation
<1>1. DashboardInit => Panel
  BY PanelStarts
<1>2. Panel /\ [DashboardNext]_dashVars => Panel'
  BY PanelKept
<1>3. Panel => OneConversation
  BY DEF Panel, Core
<1> QED
  BY <1>1, <1>2, <1>3, PTL DEF DashboardSpec

-----------------------------------------------------------------------------
(* The ban table and the keys *)

BTyped ==
  /\ program \in {"top", "ask", "json"} /\ pc \in {"frame", "wait", "quit"}
  /\ file \in Statuses /\ status \in Statuses /\ sel \in 0 .. MaxSel
  /\ prompt \in {"none", "empty", "source", "junk"} /\ writes \in 0 .. MaxWrites

\* A key finds the row the last frame highlighted
Highlighted ==
  pc = "wait" /\ ~chat.open /\ sel \in DOMAIN status.bans => drawn = status.bans[sel]

Board == BTyped /\ Highlighted /\ NothingRunsUnasked

LEMMA StatusTyped ==
  ASSUME NEW s \in Statuses
  PROVE  /\ s.bans \in Seq(Bans) /\ Len(s.bans) \in 0 .. MaxSel /\ DOMAIN s.bans = 1 .. Len(s.bans)
         /\ s.running \in BOOLEAN /\ (~s.running => DOMAIN s.bans = {})
         /\ s.bans # <<>> => Len(s.bans) >= 1
<1>1. CASE s = NoStatus
  <2>1. s.bans = <<>> /\ s.running = FALSE /\ MaxSel \in Nat
    BY <1>1, DashboardAssumption DEF NoStatus
  <2>2. <<>> \in Seq(Bans) /\ Len(<<>>) = 0 /\ DOMAIN (<<>>) = {} /\ 1 .. 0 = {}
    BY EmptySeq
  <2>3. s.bans \in Seq(Bans) /\ Len(s.bans) = 0 /\ DOMAIN s.bans = {}
    BY <2>1, <2>2
  <2>4. Len(s.bans) \in 0 .. MaxSel /\ DOMAIN s.bans = 1 .. Len(s.bans)
    BY <2>1, <2>2, <2>3
  <2> QED
    BY <2>1, <2>3, <2>4
<1>2. CASE s # NoStatus
  <2>1. PICK b \in StatusFiles : s = Status(b)
    BY <1>2 DEF Statuses
  <2>2. s.bans = b /\ s.running = TRUE
    BY <2>1 DEF Status
  <2>3. b \in Seq(Bans) /\ Len(b) < MaxSel /\ MaxSel \in Nat
    BY DashboardAssumption
  <2>4. Len(b) \in Nat /\ DOMAIN b = 1 .. Len(b) /\ (b # <<>> => Len(b) >= 1)
    BY <2>3, LenProperties, EmptySeq
  <2>5. Len(b) \in 0 .. MaxSel
    BY <2>3, <2>4
  <2> QED
    BY <2>2, <2>3, <2>4, <2>5
<1> QED
  BY <1>1, <1>2

LEMMA RefreshedTyped ==
  ASSUME NEW s \in Statuses, NEW i \in 0 .. MaxSel
  PROVE  Refreshed(s, i).status = s /\ Refreshed(s, i).sel \in 0 .. MaxSel
<1>1. /\ Len(s.bans) \in 0 .. MaxSel /\ MaxSel \in Nat /\ (s.bans # <<>> => Len(s.bans) >= 1)
  BY StatusTyped, DashboardAssumption
<1>2. /\ 0 \in 0 .. MaxSel
      /\ s.bans # <<>> => 1 \in 0 .. MaxSel
      /\ Clamp(i, s) \in 0 .. MaxSel
  BY <1>1 DEF Clamp
<1>3. Refreshed(s, i).status = s
  BY DEF Refreshed
<1>4. Refreshed(s, i).sel \in {i, 0, Clamp(i, s)} \/ (s.bans # <<>> /\ Refreshed(s, i).sel = 1)
  BY DEF Refreshed
<1> QED
  BY <1>2, <1>3, <1>4

\* A step the table does not show, that carries nothing out
LEMMA BoardAlone ==
  ASSUME Board, program' = program, pc' \in {"frame", "quit"} \/ (pc' = pc /\ chat'.open = chat.open),
         status' = status, sel' = sel, prompt' = prompt, drawn' = drawn, file' = file,
         writes' = writes, ran' \in {ran, NoCommand, [name |-> "test"]}
  PROVE  Board'
<1>1. BTyped'
  BY DEF Board, BTyped
<1>2. Highlighted'
  BY DEF Board, Highlighted
<1>3. NothingRunsUnasked'
  BY DEF Board, NothingRunsUnasked, NoCommand
<1> QED
  BY <1>1, <1>2, <1>3 DEF Board

LEMMA FrameBoard == ASSUME Board, Frame PROVE Board'
<1>1. /\ program' = program /\ status' = status /\ prompt' = prompt /\ chat' = chat
      /\ file' = file /\ writes' = writes /\ ran' = ran /\ pc' = "wait"
      /\ sel' = (IF status.running /\ ~chat.open /\ status.bans # <<>> THEN Clamp(sel, status)
                 ELSE sel)
      /\ drawn' = (IF status.running /\ ~chat.open /\ sel' \in DOMAIN status.bans
                   THEN status.bans[sel'] ELSE NoCommand)
  BY DEF Frame
<1>2. /\ status \in Statuses /\ sel \in 0 .. MaxSel
  BY DEF Board, BTyped
<1>3. /\ Len(status.bans) \in 0 .. MaxSel /\ (~status.running => DOMAIN status.bans = {})
  BY <1>2, StatusTyped
<1>4. sel' \in 0 .. MaxSel
  BY <1>1, <1>2, <1>3, DashboardAssumption DEF Clamp
<1>5. BTyped'
  BY <1>1, <1>4 DEF Board, BTyped
<1>6. Highlighted'
  BY <1>1, <1>3 DEF Highlighted
<1>7. NothingRunsUnasked'
  BY <1>1 DEF Board, NothingRunsUnasked
<1> QED
  BY <1>5, <1>6, <1>7 DEF Board

LEMMA RefreshBoard == ASSUME Board, Refresh PROVE Board'
<1>1. /\ program' = program /\ prompt' = prompt /\ file' = file /\ writes' = writes /\ ran' = ran
      /\ pc' = "frame" /\ status' = Refreshed(file, sel).status /\ sel' = Refreshed(file, sel).sel
  BY DEF Refresh
<1>2. status' \in Statuses /\ sel' \in 0 .. MaxSel
  BY <1>1, RefreshedTyped DEF Board, BTyped
<1> QED
  BY <1>1, <1>2 DEF Board, BTyped, Highlighted, NothingRunsUnasked

\* y carries out the action the digit picked
LEMMA ConfirmBoard == ASSUME Panel, Board, Confirm PROVE Board'
<1>1. /\ program' = program /\ prompt' = prompt /\ file' = file /\ writes' = writes
      /\ pc' = "frame" /\ status' = Refreshed(file, sel).status /\ sel' = Refreshed(file, sel).sel
      /\ ran' = [name |-> "action", what |-> chat.actions[chat.confirm], picked |-> picked]
      /\ chat.confirm \in DOMAIN chat.actions
  BY DEF Confirm, Key
<1>2. status' \in Statuses /\ sel' \in 0 .. MaxSel
  BY <1>1, RefreshedTyped DEF Board, BTyped
<1>3. chat.confirm # 0
  <2>1. DOMAIN chat.actions = 1 .. Len(chat.actions) /\ Len(chat.actions) \in Nat
    BY PanelTyped, LenProperties DEF Panel
  <2> QED
    BY <1>1, <2>1
<1>4. picked = chat.actions[chat.confirm] /\ picked \in Changes
  BY <1>3 DEF Panel, Chosen
<1>5. NothingRunsUnasked'
  BY <1>1, <1>4 DEF NothingRunsUnasked
<1> QED
  BY <1>1, <1>2, <1>5 DEF Board, BTyped, Highlighted

LEMMA PanelKeysBoard == ASSUME Panel, Board, PanelKeys PROVE Board'
<1>1. CASE Confirm
  BY <1>1, ConfirmBoard
<1>2. CASE Decline \/ Send \/ TypedTest \/ Enter \/ Type \/ Esc
  BY <1>2, BoardAlone DEF Decline, Send, TypedTest, Enter, Type, Esc, PanelKey, Key
<1>3. ASSUME NEW i \in 1 .. 9, PickTest(i) \/ PickChange(i) PROVE Board'
  BY <1>3, BoardAlone DEF PickTest, PickChange, PanelKey, Key
<1> QED
  BY <1>1, <1>2, <1>3 DEF PanelKeys

\* u lifts the ban that is highlighted
LEMMA UnbanBoard == ASSUME Board, Unban PROVE Board'
<1>1. /\ program' = program /\ prompt' = prompt /\ file' = file /\ writes' = writes
      /\ status' = status /\ sel' = sel /\ drawn' = drawn /\ chat' = chat
      /\ pc = "wait" /\ pc' = "frame" /\ ~chat.open
      /\ ran' = (IF sel \in DOMAIN status.bans /\ status.bans[sel].source # "config"
                 THEN [name |-> "unban", what |-> status.bans[sel], picked |-> drawn]
                 ELSE NoCommand)
  BY DEF Unban, Key, BoardKey
<1>2. CASE sel \in DOMAIN status.bans /\ status.bans[sel].source # "config"
  <2>1. ran' = [name |-> "unban", what |-> status.bans[sel], picked |-> drawn]
    BY <1>1, <1>2
  <2>2. drawn = status.bans[sel]
    BY <1>1, <1>2 DEF Board, Highlighted
  <2>3. NothingRunsUnasked'
    BY <1>2, <2>1, <2>2 DEF NothingRunsUnasked
  <2> QED
    BY <1>1, <2>3 DEF Board, BTyped, Highlighted
<1>3. CASE ~(sel \in DOMAIN status.bans /\ status.bans[sel].source # "config")
  BY <1>1, <1>3, BoardAlone
<1> QED
  BY <1>2, <1>3

LEMMA BoardKeysBoard == ASSUME Board, BoardKeys PROVE Board'
<1>1. CASE Unban
  BY <1>1, UnbanBoard
<1>2. CASE Move
  <2>1. /\ program' = program /\ prompt' = prompt /\ file' = file /\ writes' = writes
        /\ status' = status /\ pc' = "frame" /\ ran' = NoCommand
    BY <1>2 DEF Move, Key
  <2>2. sel' \in 0 .. MaxSel
    BY <1>2, DashboardAssumption DEF Move, Board, BTyped
  <2> QED
    BY <2>1, <2>2 DEF Board, BTyped, Highlighted, NothingRunsUnasked, NoCommand
<1>3. CASE BanPrompt
  <2>1. /\ program' = program /\ file' = file /\ writes' = writes /\ status' = status /\ sel' = sel
        /\ pc' = "frame" /\ prompt' \in {"none", "empty", "source", "junk"}
        /\ ran' \in {[name |-> "ban"], NoCommand}
    BY <1>3 DEF BanPrompt, Key
  <2> QED
    BY <2>1 DEF Board, BTyped, Highlighted, NothingRunsUnasked, NoCommand
<1>4. CASE Other
  <2>1. /\ program' = program /\ file' = file /\ writes' = writes /\ status' = status /\ sel' = sel
        /\ pc' = "frame" /\ prompt' \in {prompt, "empty"}
        /\ ran' \in {[name |-> "reload"], NoCommand}
    BY <1>4 DEF Other, Key
  <2> QED
    BY <2>1 DEF Board, BTyped, Highlighted, NothingRunsUnasked, NoCommand
<1> QED
  BY <1>1, <1>2, <1>3, <1>4 DEF BoardKeys

LEMMA RestBoard ==
  ASSUME Panel, Board, \/ Poll \/ AskThread \/ Quit \/ DaemonWrites \/ Command
                       \/ UNCHANGED dashVars
  PROVE  Board'
<1>1. CASE Poll
  <2>1. chat'.open = chat.open
    BY <1>1, PollKeeps
  <2> QED
    BY <1>1, <2>1, BoardAlone DEF Poll
<1>2. CASE AskThread
  BY <1>2, BoardAlone
     DEF AskThread, RunTests, ModelFound, NoModel, Chunk, Replied, ModelFails, ToPanel, screen
<1>3. CASE Quit
  BY <1>3, BoardAlone DEF Quit
<1>4. CASE DaemonWrites
  <2>1. /\ UNCHANGED <<program, screen>> /\ file' \in Statuses /\ writes < MaxWrites
        /\ writes' = writes + 1
    BY <1>4 DEF DaemonWrites
  <2>2. writes' \in 0 .. MaxWrites
    BY <2>1, DashboardAssumption DEF Board, BTyped
  <2> QED
    BY <2>1, <2>2 DEF Board, BTyped, Highlighted, NothingRunsUnasked, screen
<1>5. CASE Command
  BY <1>5, BoardAlone DEF Command, JsonStart, JsonTest, JsonReply, Ask, JsonStep, screen
<1>6. CASE UNCHANGED dashVars
  BY <1>6, BoardAlone DEF dashVars, screen
<1> QED
  BY <1>1, <1>2, <1>3, <1>4, <1>5, <1>6

LEMMA BoardKept == Panel /\ Board /\ [DashboardNext]_dashVars => Board'
<1> SUFFICES ASSUME Panel, Board, [DashboardNext]_dashVars PROVE Board'
  OBVIOUS
<1> QED
  BY FrameBoard, RefreshBoard, PanelKeysBoard, BoardKeysBoard, RestBoard
     DEF DashboardNext, Dashboard, Ended

LEMMA BoardStarts == DashboardInit => Board
<1> SUFFICES ASSUME DashboardInit PROVE Board
  OBVIOUS
<1>1. /\ program \in {"top", "ask", "json"} /\ pc = "frame" /\ file \in Statuses /\ status = file
      /\ sel = (IF status.bans = <<>> THEN 0 ELSE 1) /\ prompt = "none" /\ writes = 0
      /\ ran = NoCommand
  BY DEF DashboardInit
<1>2. sel \in 0 .. MaxSel
  <2>1. Len(status.bans) \in 0 .. MaxSel /\ (status.bans # <<>> => Len(status.bans) >= 1)
    BY <1>1, StatusTyped
  <2> QED
    BY <1>1, <2>1, DashboardAssumption
<1> QED
  BY <1>1, <1>2, DashboardAssumption
     DEF Board, BTyped, Highlighted, NothingRunsUnasked, NoCommand

\* A key carries out what the screen said (tui.rs `u`, the digits and y), for
\* every list of bans and every reply: the highlighted ban is lifted and never one
\* of the config file, and the change that runs is the one on the allowlist a
\* digit picked.
THEOREM OnlyWhatWasAsked == DashboardSpec => []NothingRunsUnasked
<1>1. DashboardInit => Panel /\ Board
  BY PanelStarts, BoardStarts
<1>2. Panel /\ Board /\ [DashboardNext]_dashVars => Panel' /\ Board'
  BY PanelKept, BoardKept
<1>3. Panel /\ Board => NothingRunsUnasked
  BY DEF Board
<1> QED
  BY <1>1, <1>2, <1>3, PTL DEF DashboardSpec

\* Results, one piece and the end of the turn: the channel never holds more
LEMMA ThreeMessages == ASSUME CTyped, Posted PROVE Len(mail) <= 3
<1>1. mail \in Seq(Message) /\ Len(mail) \in Nat /\ DOMAIN mail = 1 .. Len(mail)
  BY PanelTyped DEF CTyped
<1> SUFFICES ASSUME Len(mail) > 3 PROVE FALSE
  BY <1>1
<1>2. 2 \in DOMAIN mail /\ 3 \in DOMAIN mail
  BY <1>1
<1>3. ASSUME NEW i \in 2 .. 3 PROVE mail[i].type = "chunk"
  <2>1. i \in DOMAIN mail /\ i # 1 /\ i # Len(mail) /\ mail[i] \in Message
    <3> DEFINE n == Len(mail)
    <3>1. n \in Nat /\ n > 3
      BY <1>1
    <3> HIDE DEF n
    <3>2. i \in 1 .. n /\ i # 1 /\ i # n
      BY <3>1
    <3> QED
      BY <1>1, <3>2, ElementOfSeq DEF n
  <2>2. mail[i].type # "tests" /\ mail[i].type \notin Finals
    BY <2>1 DEF Posted
  <2> QED
    BY <2>1, <2>2 DEF Message, Finals
<1>4. 2 = 3
  BY <1>2, <1>3 DEF Posted
<1> QED
  BY <1>4

\* The state of the dashboard, the panel, its thread and its channel is
\* well-formed, the channel holds three messages at most, and only while the
\* panel waits for them.
THEOREM DashboardTypes == DashboardSpec => []DashboardTypeOK
<1>1. DashboardInit => Panel /\ Board /\ JInv
  BY PanelStarts, BoardStarts, JsonStarts
<1>2. Panel /\ Board /\ JInv /\ [DashboardNext]_dashVars => Panel' /\ Board' /\ JInv'
  BY PanelKept, BoardKept, JsonKept
<1>3. Panel /\ Board /\ JInv => DashboardTypeOK
  <2> SUFFICES ASSUME Panel, Board, JInv PROVE DashboardTypeOK
    OBVIOUS
  <2>1. Len(mail) <= 3
    BY ThreeMessages DEF Panel, Core
  <2>2. (chat.testing => chat.streaming) /\ (mail # <<>> => chat.streaming)
    BY DEF Panel, Core, InTurn
  <2> QED
    BY <2>1, <2>2 DEF DashboardTypeOK, Panel, CTyped, Given, Board, BTyped, JInv
<1> QED
  BY <1>1, <1>2, <1>3, PTL DEF DashboardSpec
=============================================================================
