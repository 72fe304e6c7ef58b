--------------------------- MODULE RootMergeProofs ---------------------------
(***************************************************************************)
(* Proofs about RootMerge for chains of any length and any bounds.         *)
(*                                                                         *)
(* AuthorWorkKept rests on what a rebase may drop: a patch the default     *)
(* branch has, or repeats.  No own patch of an open pull request is there, *)
(* because a landing takes only patches of members up to the one that      *)
(* lands, and members land in order: whoever is based on the default       *)
(* branch has only merged predecessors (InOrder, Untouched).               *)
(*                                                                         *)
(* RevertFenced rests on heads that carry nothing of the commit they stand *)
(* on (Clean): between the gate and the merge only the root itself could   *)
(* have landed, so what a root built on the observed tip brings back was   *)
(* gone before that tip.                                                   *)
(***************************************************************************)
EXTENDS RootMerge, WellFoundedInduction, SequenceTheorems, TLAPS

AnyHead == [on : Nat, commits : SUBSET Patch]
AnyPr == [state : {"open", "merged"}, base : Nat, head : AnyHead, ci : {"pending", "pass", "fail"}]

\* Where merge_root is past the gate; where it has read the tip; all of merge_root; and
\* wherever tick.root is the root that is landing.
DecidedPc == {"audit", "verify", "send"}
GatePc == DecidedPc \cup {"gate"}
MergePc == GatePc \cup {"read", "tip", "confirm"}
WalkPc == MergePc \cup {"first", "promote", "promoted", "ci"}
TickType ==
  [pc : WalkPc \cup {"idle", "plan", "push", "mid"}, mode : {"first", "drain"}, snap : [Pr -> AnyPr], tip : Nat,
   cur : [Pr -> AnyPr], root : Pr, obs : Nat, landed : Nat, count : Nat, plan : [Pr -> AnyHead], upto : Nat,
   deferred : BOOLEAN]

\* A head of pull request i when the default branch has t commits and its author has
\* published v: own commits and the predecessors'.
HeadOK(i, h, t, v) ==
  /\ h \in AnyHead /\ h.on \in 1 .. t
  /\ \A p \in h.commits : p[1] \in 1 .. i /\ (p[1] = i => p[2] <= v)
\* It adds nothing that the commit it stands on has.
Clean(h, d) == h.commits \cap d[h.on] = {}

\* Members land in order: the provider retargets no member before its turn.
InOrder(i) == pr[i].base = Default \/ pr[i].state = "merged" => \A j \in 1 .. i - 1 : pr[j].state = "merged"
\* Nothing of an open pull request has landed.
Untouched(i) == pr[i].state = "open" => \A k \in 1 .. Tip : Own(i) \cap default[k] = {}
OwnKept(i) == {<<i, v>> : v \in 1 .. ver[i]} \subseteq pr[i].head.commits

PrOK(i) ==
  /\ pr[i].base \in {i - 1, Default} /\ HeadOK(i, pr[i].head, Tip, ver[i]) /\ Clean(pr[i].head, default)
  /\ InOrder(i) /\ Untouched(i) /\ OwnKept(i) /\ ver[i] \in 1 .. MaxVersion

\* What a tick remembers of pull request i, which is now p: facts that only go one way.
SeenOK(i, q, p, t, v) ==
  /\ q.base \in {i - 1, Default} /\ HeadOK(i, q.head, t, v)
  /\ q.state = "merged" => p.state = "merged"
  /\ q.base = Default => p.base = Default
TickSeen == \A i \in Pr : /\ SeenOK(i, tick.snap[i], pr[i], Tip, ver[i])
                          /\ SeenOK(i, tick.cur[i], pr[i], Tip, ver[i])

\* A planned head may replace the one it was planned from.
PlanOK(i, h, old) ==
  /\ HeadOK(i, h, Tip, ver[i]) /\ Clean(h, default)
  /\ Own(i) \cap old.commits \subseteq h.commits

\* The members of a snapshot from the first open one on are open.
SnapOK == Open(tick.snap) # {} /\ \A i \in Open(tick.snap), j \in Pr : j > i => j \in Open(tick.snap)

PlanningOK ==
  /\ tick.pc # "idle" => SnapOK /\ tick.tip \in 1 .. Tip /\ TickSeen
  /\ tick.pc = "plan" => tick.cur = tick.snap
  /\ tick.pc \in {"push", "mid"} =>
       \A i \in Open(tick.snap) : PlanOK(i, tick.plan[i], tick.snap[i].head)
  /\ tick.pc = "push" => tick.upto \in Open(tick.snap) /\ Root(tick.snap) <= tick.root /\ tick.root <= tick.upto

RootOK ==
  /\ tick.pc \in WalkPc => /\ Root(tick.snap) <= tick.root /\ (tick.landed # 0 => Root(tick.snap) < tick.root)
                           /\ \A j \in 1 .. tick.root - 1 : pr[j].state = "merged"
  /\ tick.pc \in MergePc \cup {"first"} => tick.count < MaxRootMerges
  /\ tick.pc = "confirm" => pr[tick.root].state = "merged"

\* While the root is open nothing else lands, and a head that passed has passed.
Quiet == pr[tick.root].state = "open" =>
           \A m \in tick.obs .. Tip : \A p \in default[m] : p[1] = 0 \/ p \in default[tick.obs]
StillGreen == tick.cur[tick.root].ci = "pass" /\ pr[tick.root].head = tick.cur[tick.root].head
                => pr[tick.root].ci = "pass"
\* The gate's verdict, which holds of what was read then.
Decided == /\ tick.cur[tick.root].base = Default /\ tick.cur[tick.root].ci = "pass"
           /\ Identical(tick.cur[tick.root].head, tick.obs) /\ Reachable(tick.cur[tick.root].head, tick.obs)

MergingOK ==
  /\ tick.pc \in GatePc => tick.obs \in 1 .. Tip /\ Quiet
  /\ tick.pc \in GatePc \cup {"tip"} => StillGreen
  /\ tick.pc \in DecidedPc => Decided

LastOK ==
  last.pr # 0 =>
    /\ last.pr \in Pr /\ last.before \in 1 .. Tip - 1 /\ last.head \in AnyHead /\ last.head.on \in 1 .. last.before
    /\ ValidatedUnlessRaced /\ RevertFenced

\* Every variable has its type.
WorldType ==
  /\ default \in Seq(SUBSET Patch) /\ Tip \in Nat /\ Tip >= 1 /\ pr \in [Pr -> AnyPr] /\ ver \in [Pr -> Nat]
  /\ outside \in 0 .. MaxOutside /\ faults \in 0 .. MaxFaults
TickShape ==
  /\ tick \in TickType
  /\ {tick.tip, tick.obs, tick.landed} \subseteq 0 .. Tip /\ tick.count \in 0 .. MaxRootMerges
  /\ \A i \in Pr : /\ tick.plan[i].on \in 1 .. Tip /\ tick.snap[i].head.on \in 1 .. Tip /\ tick.cur[i].head.on \in 1 .. Tip
                   /\ tick.snap[i].base \in 0 .. i - 1 /\ tick.cur[i].base \in 0 .. i - 1

RootInv ==
  /\ WorldType /\ TickShape
  /\ \A i \in Pr : PrOK(i)
  /\ PlanningOK /\ RootOK /\ MergingOK /\ LastOK

-----------------------------------------------------------------------------
(* Facts about the operators.                                              *)

\* Every set of naturals that is not empty has a least element.
LEMMA LeastNatural ==
  ASSUME NEW T, T \subseteq Nat, T # {}
  PROVE  \E x \in T : \A y \in T : x <= y
<1> DEFINE R == OpToRel(<, Nat)
<1>1. IsWellFoundedOn(R, Nat)
  BY NatLessThanWellFounded
<1>2. PICK x \in T : \A y \in T : <<y, x>> \notin R
  <2> HIDE DEF R
  <2> QED
    BY <1>1, WFMin
<1>3. \A y \in T : <<y, x>> \in R <=> y < x
  BY DEF OpToRel
<1> HIDE DEF R
<1>4. \A y \in T : ~(y < x)
  BY <1>2, <1>3
<1>5. x \in Nat /\ \A y \in T : y \in Nat
  OBVIOUS
<1> QED
  BY <1>4, <1>5

LEMMA LeastIsMin ==
  ASSUME NEW T, T \subseteq Nat, T # {}
  PROVE  Min(T) \in T /\ \A y \in T : Min(T) <= y
<1>1. \E x \in T : \A y \in T : x <= y
  BY LeastNatural
<1> QED
  BY <1>1 DEF Min

\* The caravan's head is the first open member.
LEMMA RootIsFirst ==
  ASSUME NEW p \in [Pr -> AnyPr], Open(p) # {}
  PROVE  Root(p) \in Open(p) /\ Root(p) \in Pr /\ \A j \in Open(p) : Root(p) <= j
<1>1. Open(p) \subseteq Pr /\ Open(p) \subseteq Nat
  BY BoundsAssumption DEF Open, Pr
<1>2. Min(Open(p)) \in Open(p) /\ \A y \in Open(p) : Min(Open(p)) <= y
  BY <1>1, LeastIsMin
<1> QED
  BY <1>1, <1>2 DEF Root

\* The recursive definition of the plans has a solution: by extending a solution for the
\* first n members, until n = N.
LEMMA PlansExist ==
  ASSUME tick \in TickType
  PROVE  \E f : f = [i \in Pr |-> PlanAt(i, f)]
<1> DEFINE Upto(f, n) == f = [i \in 1 .. n |-> PlanAt(i, f)]
           T == {n \in 0 .. N : ~\E f : Upto(f, n)}
<1>0. N \in Nat /\ Pr = 1 .. N /\ tick.snap \in [Pr -> AnyPr]
  BY BoundsAssumption DEF Pr, TickType
<1>1. T = {}
  <2> SUFFICES ASSUME T # {} PROVE FALSE
    OBVIOUS
  <2>1. PICK n \in T : \A m \in T : n <= m
    <3>1. T \subseteq Nat
      BY <1>0
    <3> HIDE DEF T
    <3> QED
      BY <3>1, LeastNatural
  <2>2. n \in Nat /\ n <= N /\ ~\E f : Upto(f, n)
    BY <1>0
  <2>3. n # 0
    <3> SUFFICES ASSUME n = 0 PROVE FALSE
      OBVIOUS
    <3>1. Upto([i \in {} |-> PlanAt(i, <<>>)], 0)
      OBVIOUS
    <3> QED
      BY <2>2, <3>1
  <2>4. PICK f : Upto(f, n - 1)
    <3>1. n - 1 \in 0 .. N /\ ~(n <= n - 1)
      BY <1>0, <2>2, <2>3
    <3> QED
      BY <2>1, <3>1
  <2> DEFINE g == [i \in 1 .. n |-> IF i = n THEN PlanAt(n, f) ELSE f[i]]
  <2>5. ASSUME NEW i \in 1 .. n PROVE PlanAt(i, g) = PlanAt(i, f)
    <3>1. CASE i = 1
      <4>1. 1 \in Pr
        BY <1>0, <2>2, <2>3
      <4>2. 1 \in Open(tick.snap) => 1 = Root(tick.snap)
        <5> SUFFICES ASSUME 1 \in Open(tick.snap) PROVE 1 = Root(tick.snap)
          OBVIOUS
        <5>1. Root(tick.snap) \in Pr /\ Root(tick.snap) <= 1
          BY <1>0, RootIsFirst
        <5> QED
          BY <1>0, <5>1
      <4> QED
        BY <3>1, <4>2 DEF PlanAt
    <3>2. CASE i # 1
      <4>1. g[i - 1] = f[i - 1]
        BY <1>0, <2>2, <3>2
      <4> HIDE DEF g
      <4> QED
        BY <4>1 DEF PlanAt
    <3> QED
      BY <3>1, <3>2
  <2>6. \A i \in 1 .. n : g[i] = PlanAt(i, f)
    <3>1. \A i \in 1 .. n - 1 : f[i] = PlanAt(i, f)
      BY <2>4
    <3>2. \A i \in 1 .. n : i = n \/ i \in 1 .. n - 1
      BY <2>2
    <3> QED
      BY <3>1, <3>2
  <2>7. Upto(g, n)
    <3>1. \A i \in 1 .. n : g[i] = PlanAt(i, g)
      BY <2>5, <2>6
    <3>2. g = [i \in 1 .. n |-> g[i]]
      OBVIOUS
    <3> HIDE DEF g
    <3> QED
      BY <3>1, <3>2
  <2> HIDE DEF Upto, g
  <2> QED
    BY <2>2, <2>7
<1>2. \E f : Upto(f, N)
  BY <1>0, <1>1
<1> QED
  BY <1>0, <1>2

LEMMA PlansEquation ==
  ASSUME tick \in TickType
  PROVE  \A i \in Pr : Plans[i] = PlanAt(i, Plans)
<1>1. Plans = CHOOSE f : f = [i \in Pr |-> PlanAt(i, f)]
  BY DEF Plans
<1>2. Plans = [i \in Pr |-> PlanAt(i, Plans)]
  BY <1>1, PlansExist
<1> QED
  BY <1>2

-----------------------------------------------------------------------------
(* What only goes one way.                                                 *)

Advance ==
  /\ Tip <= Tip' /\ \A k \in 1 .. Tip : default'[k] = default[k]
  /\ \A i \in Pr : /\ ver[i] <= ver'[i]
                   /\ pr[i].state = "merged" => pr'[i].state = "merged"
                   /\ pr[i].base = Default => pr'[i].base = Default

LEMMA HeadKept ==
  ASSUME NEW i \in Pr, NEW h, NEW t \in Nat, NEW t2 \in Nat, NEW v \in Nat, NEW v2 \in Nat,
         t <= t2, v <= v2, HeadOK(i, h, t, v)
  PROVE  HeadOK(i, h, t2, v2)
<1>1. h \in AnyHead /\ h.on \in 1 .. t2
  BY DEF HeadOK
<1>2. ASSUME NEW p \in h.commits PROVE p[1] \in 1 .. i /\ (p[1] = i => p[2] <= v2)
  <2>1. p \in Patch
    BY <1>1 DEF AnyHead
  <2>2. p[2] \in Nat
    BY <2>1, BoundsAssumption DEF Patch
  <2> QED
    BY <2>2 DEF HeadOK
<1> QED
  BY <1>1, <1>2 DEF HeadOK

\* The types of what the invariant speaks of.
LEMMA Types ==
  ASSUME RootInv
  PROVE  /\ default \in Seq(SUBSET Patch) /\ Tip \in Nat /\ Tip >= 1 /\ DOMAIN default = 1 .. Tip
         /\ \A k \in 1 .. Tip : default[k] \subseteq Patch
         /\ pr \in [Pr -> AnyPr] /\ ver \in [Pr -> Nat] /\ tick \in TickType
         /\ \A i \in Pr : pr[i] \in AnyPr /\ ver[i] \in Nat /\ i \in Nat /\ i >= 1
         /\ tick.snap \in [Pr -> AnyPr] /\ tick.cur \in [Pr -> AnyPr] /\ tick.plan \in [Pr -> AnyHead]
         /\ tick.root \in Pr /\ tick.obs \in Nat /\ tick.tip \in Nat /\ tick.landed \in Nat /\ tick.count \in Nat
<1>1. default \in Seq(SUBSET Patch) /\ Tip \in Nat /\ Tip >= 1 /\ pr \in [Pr -> AnyPr] /\ ver \in [Pr -> Nat]
      /\ tick \in TickType
  BY DEF RootInv, WorldType, TickShape
<1>2. DOMAIN default = 1 .. Tip /\ \A k \in 1 .. Tip : default[k] \subseteq Patch
  BY <1>1, LenProperties DEF Tip
<1>3. \A i \in Pr : i \in Nat /\ i >= 1
  BY BoundsAssumption DEF Pr
<1> QED
  BY <1>1, <1>2, <1>3 DEF TickType

LEMMA SeenKept ==
  ASSUME RootInv, Advance, Tip' \in Nat, ver' \in [Pr -> Nat], NEW i \in Pr, NEW q,
         SeenOK(i, q, pr[i], Tip, ver[i])
  PROVE  SeenOK(i, q, pr'[i], Tip', ver'[i])
<1>1. HeadOK(i, q.head, Tip', ver'[i])
  <2>1. Tip \in Nat /\ ver[i] \in Nat /\ ver'[i] \in Nat /\ Tip <= Tip' /\ ver[i] <= ver'[i]
    BY Types DEF Advance
  <2> HIDE DEF Tip
  <2> QED
    BY <2>1, HeadKept DEF SeenOK
<1> QED
  BY <1>1 DEF SeenOK, Advance

LEMMA CleanKept ==
  ASSUME RootInv, Advance, NEW h, h.on \in 1 .. Tip, Clean(h, default)
  PROVE  Clean(h, default')
BY DEF Clean, Advance

LEMMA LastKept ==
  ASSUME RootInv, Advance, Tip' \in Nat, UNCHANGED last
  PROVE  LastOK'
<1> SUFFICES ASSUME last.pr # 0 PROVE LastOK'
  BY DEF LastOK
<1>1. /\ last.pr \in Pr /\ last.before \in 1 .. Tip - 1 /\ last.head \in AnyHead /\ last.head.on \in 1 .. last.before
      /\ ValidatedUnlessRaced /\ RevertFenced
  BY DEF RootInv, LastOK
<1>2. Tip \in Nat /\ Tip <= Tip' /\ \A k \in 1 .. Tip : default'[k] = default[k]
  BY Types DEF Advance
<1> HIDE DEF Tip
<1>3. last.before \in 1 .. Tip' - 1
  BY <1>1, <1>2
<1>4. last.before + 1 \in 1 .. Tip /\ last.before \in 1 .. Tip /\ last.head.on \in 1 .. Tip
  BY <1>1, <1>2
<1>5. ValidatedUnlessRaced'
  BY <1>1, <1>2, <1>4 DEF ValidatedUnlessRaced, Tree
<1>6. RevertFenced'
  <2>1. Reintroduced' = Reintroduced
    BY <1>2, <1>4 DEF Reintroduced, Own
  <2>2. \A k \in 2 .. last.before : default'[k - 1] = default[k - 1] /\ default'[k] = default[k]
    BY <1>2, <1>4
  <2> QED
    BY <1>1, <2>1, <2>2 DEF RevertFenced
<1> QED
  BY <1>1, <1>3, <1>5, <1>6 DEF LastOK

\* What the tick remembers stays true while the world advances.
LEMMA WorldStep ==
  ASSUME RootInv, Advance, WorldType', UNCHANGED <<tick, last>>, \A i \in Pr : PrOK(i)',
         tick.pc \in GatePc => Quiet', tick.pc \in GatePc \cup {"tip"} => StillGreen'
  PROVE  RootInv'
<1>0. Tip \in Nat /\ Tip' \in Nat /\ Tip <= Tip' /\ ver' \in [Pr -> Nat]
  BY Types DEF WorldType, Advance
<1>w. \A k \in 1 .. Tip : default'[k] = default[k]
  BY DEF Advance
<1>p. \A i \in Pr : pr[i].state = "merged" => pr'[i].state = "merged"
  BY DEF Advance
<1>t. UNCHANGED tick /\ tick.root \in Pr /\ tick \in TickType
  BY Types
<1> HIDE DEF Tip
<1>1. TickShape'
  BY <1>0, <1>t DEF RootInv, TickShape
<1>2. TickSeen => TickSeen'
  BY <1>0, <1>t, SeenKept DEF TickSeen
<1>4. PlanningOK'
  <2>1. SnapOK => SnapOK'
    BY <1>t DEF SnapOK, Open
  <2>2. tick.pc # "idle" => (SnapOK /\ tick.tip \in 1 .. Tip /\ TickSeen)'
    BY <1>0, <1>t, <1>2, <2>1 DEF RootInv, PlanningOK
  <2>3. tick.pc \in {"push", "mid"} =>
          (\A i \in Open(tick.snap) : PlanOK(i, tick.plan[i], tick.snap[i].head))'
    <3> SUFFICES ASSUME tick.pc \in {"push", "mid"}, NEW i \in Open(tick.snap)
                 PROVE  PlanOK(i, tick.plan[i], tick.snap[i].head)'
      BY <1>t DEF Open
    <3>1. i \in Pr /\ PlanOK(i, tick.plan[i], tick.snap[i].head)
      BY DEF RootInv, PlanningOK, Open
    <3>2. HeadOK(i, tick.plan[i], Tip', ver'[i])
      BY <1>0, <3>1, HeadKept, Types DEF PlanOK, Advance
    <3>3. Clean(tick.plan[i], default')
      BY <3>1, CleanKept DEF PlanOK, HeadOK
    <3> QED
      BY <1>t, <3>1, <3>2, <3>3 DEF PlanOK, Own
  <2> QED
    BY <1>t, <2>2, <2>3 DEF RootInv, PlanningOK, Open, Root
<1>5. RootOK'
  <2>1. ASSUME NEW j \in 1 .. tick.root - 1 PROVE j \in Pr
    BY <1>t, BoundsAssumption DEF Pr
  <2> QED
    BY <1>t, <1>p, <2>1 DEF RootInv, RootOK, Root, Open
<1>6. MergingOK'
  <2>1. tick.pc \in DecidedPc => Decided'
    <3> SUFFICES ASSUME tick.pc \in DecidedPc PROVE Decided'
      OBVIOUS
    <3>1. Decided /\ tick.obs \in 1 .. Tip
      BY DEF RootInv, MergingOK, GatePc
    <3>2. tick.cur[tick.root].head.on \in 1 .. Tip
      BY <1>t DEF RootInv, TickShape
    <3> QED
      BY <1>t, <1>w, <3>1, <3>2 DEF Decided, Identical, Reachable, MergeTree, Tree
  <2> QED
    BY <1>0, <1>t, <2>1 DEF RootInv, MergingOK
<1>7. LastOK'
  BY <1>0, LastKept
<1> QED
  BY <1>1, <1>4, <1>5, <1>6, <1>7 DEF RootInv

-----------------------------------------------------------------------------
(* The initial state, and ticks that end.                                  *)

LEMMA IdleShape ==
  /\ Idle \in TickType /\ Idle.pc = "idle"
  /\ Idle.tip = 0 /\ Idle.obs = 0 /\ Idle.landed = 0 /\ Idle.count = 0
  /\ \A i \in Pr : /\ Idle.plan[i].on = 1 /\ Idle.snap[i].head.on = 1 /\ Idle.cur[i].head.on = 1
                   /\ Idle.snap[i].base = 0 /\ Idle.cur[i].base = 0
<1>1. NoHead \in AnyHead /\ NoHead.on = 1
  BY DEF NoHead, AnyHead
<1>2. NoPr \in AnyPr /\ NoPr.head = NoHead /\ NoPr.base = 0
  BY <1>1 DEF NoPr, AnyPr, Default
<1>3. 1 \in Pr
  BY BoundsAssumption DEF Pr
<1> QED
  BY <1>1, <1>2, <1>3 DEF Idle, TickType, WalkPc

LEMMA InitInv == Init => RootInv
<1> SUFFICES ASSUME Init PROVE RootInv
  OBVIOUS
<1> USE BoundsAssumption
<1>1. default = <<{}>> /\ Tip = 1 /\ default[1] = {} /\ default \in Seq(SUBSET Patch)
  BY DEF Init, Tip
<1> HIDE DEF Tip
<1>2. ASSUME NEW i \in Pr
      PROVE  /\ pr[i] \in AnyPr /\ pr[i].state = "open" /\ pr[i].base = i - 1 /\ pr[i].head.on = 1
             /\ pr[i].head.commits = {<<j, 1>> : j \in 1 .. i} /\ pr[i].head \in AnyHead
             /\ i \in Nat /\ i >= 1
  <2>1. i \in 1 .. N /\ i \in Nat
    BY DEF Pr
  <2>2. \A j \in 1 .. i : <<j, 1>> \in Patch
    BY <2>1 DEF Patch
  <2>3. [on |-> 1, commits |-> {<<j, 1>> : j \in 1 .. i}] \in AnyHead
    BY <2>2 DEF AnyHead
  <2>4. pr[i] = [state |-> "open", base |-> i - 1, ci |-> "pending",
                 head |-> [on |-> 1, commits |-> {<<j, 1>> : j \in 1 .. i}]]
    BY DEF Init
  <2> QED
    BY <2>1, <2>3, <2>4 DEF AnyPr
<1>3. pr \in [Pr -> AnyPr] /\ ver \in [Pr -> Nat]
  BY <1>2 DEF Init
<1>4. WorldType
  BY <1>1, <1>3 DEF WorldType, Init
<1>5. TickShape /\ tick.pc = "idle"
  BY <1>1, IdleShape DEF TickShape, Init, Pr
<1>6. ASSUME NEW i \in Pr PROVE PrOK(i)
  <2>1. HeadOK(i, pr[i].head, Tip, ver[i])
    <3>1. ver[i] = 1
      BY DEF Init
    <3>2. ASSUME NEW p \in pr[i].head.commits PROVE p[1] \in 1 .. i /\ p[2] <= 1
      BY <1>2, <3>2
    <3> QED
      BY <1>1, <1>2, <3>1, <3>2 DEF HeadOK
  <2>2. Clean(pr[i].head, default) /\ Untouched(i)
    BY <1>1, <1>2 DEF Clean, Untouched
  <2>3. InOrder(i)
    <3> SUFFICES ASSUME pr[i].base = Default PROVE \A j \in 1 .. i - 1 : pr[j].state = "merged"
      BY <1>2 DEF InOrder
    <3>1. i = 1
      BY <1>2 DEF Default
    <3> QED
      BY <3>1
  <2>4. OwnKept(i) /\ ver[i] \in 1 .. MaxVersion
    <3>1. ver[i] = 1
      BY DEF Init
    <3>2. <<i, 1>> \in pr[i].head.commits
      BY <1>2
    <3> QED
      BY <3>1, <3>2 DEF OwnKept
  <2> QED
    BY <1>2, <2>1, <2>2, <2>3, <2>4 DEF PrOK
<1>7. LastOK
  BY DEF Init, LastOK
<1> QED
  BY <1>4, <1>5, <1>6, <1>7 DEF RootInv, PlanningOK, RootOK, MergingOK, WalkPc, MergePc, GatePc, DecidedPc

\* The tick ends, for whatever reason, and leaves the world as it is.
LEMMA EndStep ==
  ASSUME RootInv, tick' = Idle, UNCHANGED <<default, pr, ver, last, outside>>, faults' \in 0 .. MaxFaults
  PROVE  RootInv'
<1>0. Tip' = Tip /\ Tip \in Nat /\ Tip >= 1
  BY Types DEF Tip
<1>1. WorldType'
  BY DEF RootInv, WorldType, Tip
<1>2. TickShape' /\ tick'.pc = "idle"
  <2>1. \A i \in Pr : 0 \in 0 .. i - 1 /\ 1 \in 1 .. Tip
    BY <1>0, BoundsAssumption DEF Pr
  <2> HIDE DEF Tip
  <2> QED
    BY <1>0, <2>1, IdleShape, BoundsAssumption DEF TickShape
<1>3. ASSUME NEW i \in Pr PROVE PrOK(i)'
  BY <1>0 DEF RootInv, PrOK, InOrder, Untouched, OwnKept, Own
<1>4. LastOK'
  BY <1>0 DEF RootInv, LastOK, ValidatedUnlessRaced, RevertFenced, Reintroduced, Tree, Own
<1> QED
  BY <1>1, <1>2, <1>3, <1>4
     DEF RootInv, PlanningOK, RootOK, MergingOK, WalkPc, MergePc, GatePc, DecidedPc

\* A step of the tick that only reads.
LEMMA ReadStep ==
  ASSUME RootInv, UNCHANGED <<default, pr, ver, last, outside, faults>>,
         TickShape', PlanningOK', RootOK', MergingOK'
  PROVE  RootInv'
<1>0. Tip' = Tip
  BY DEF Tip
<1>1. WorldType'
  BY DEF RootInv, WorldType, Tip
<1>2. ASSUME NEW i \in Pr PROVE PrOK(i)'
  BY <1>0 DEF RootInv, PrOK, InOrder, Untouched, OwnKept, Own
<1>3. LastOK'
  BY <1>0 DEF RootInv, LastOK, ValidatedUnlessRaced, RevertFenced, Reintroduced, Tree, Own
<1> QED
  BY <1>1, <1>2, <1>3 DEF RootInv

-----------------------------------------------------------------------------
(* The rest of the world.                                                  *)

LEMMA AbortInv == ASSUME RootInv, Abort PROVE RootInv'
<1>1. faults' \in 0 .. MaxFaults
  BY BoundsAssumption DEF Abort, RootInv, WorldType
<1> QED
  BY <1>1, EndStep DEF Abort, End

\* CI reports; a head that passed does not fail.
LEMMA CiStep ==
  ASSUME RootInv, NEW i \in Pr, NEW s \in {"pending", "pass", "fail"}, SetCi(i, s), pr[i].ci # "pass",
         UNCHANGED <<default, ver, tick, last, faults>>, outside' \in 0 .. MaxOutside
  PROVE  RootInv'
<1>0. Tip' = Tip /\ pr \in [Pr -> AnyPr] /\ Tip \in Nat
  BY Types DEF Tip
<1>1. pr' \in [Pr -> AnyPr]
      /\ \A j \in Pr : /\ pr'[j].state = pr[j].state /\ pr'[j].base = pr[j].base /\ pr'[j].head = pr[j].head
                       /\ pr[j].ci = "pass" => pr'[j].ci = "pass"
  BY <1>0 DEF SetCi, AnyPr
<1>2. Advance
  <2>1. Tip <= Tip' /\ \A j \in Pr : ver[j] <= ver'[j]
    BY <1>0, Types
  <2> QED
    BY <1>0, <1>1, <2>1 DEF Advance
<1>3. WorldType'
  BY <1>0, <1>1 DEF RootInv, WorldType
<1>4. ASSUME NEW j \in Pr PROVE PrOK(j)'
  <2>1. \A k \in 1 .. j - 1 : k \in Pr
    BY BoundsAssumption DEF Pr
  <2> QED
    BY <1>0, <1>1, <2>1 DEF RootInv, PrOK, InOrder, Untouched, OwnKept, Own
<1>5. tick.root \in Pr /\ tick' = tick
  BY Types
<1>6. tick.pc \in GatePc => Quiet'
  BY <1>0, <1>1, <1>5 DEF RootInv, MergingOK, Quiet
<1>7. tick.pc \in GatePc \cup {"tip"} => StillGreen'
  BY <1>1, <1>5 DEF RootInv, MergingOK, StillGreen
<1> QED
  BY <1>2, <1>3, <1>4, <1>6, <1>7, WorldStep

LEMMA OutsideCount == ASSUME RootInv, Outside PROVE outside' \in 0 .. MaxOutside
BY BoundsAssumption DEF RootInv, WorldType, Outside

LEMMA CiInv == ASSUME RootInv, NEW i \in Pr, CiPass(i) \/ CiFail(i) \/ Rerun(i) PROVE RootInv'
<1>1. CASE CiPass(i)
  BY <1>1, CiStep DEF CiPass, RootInv, WorldType
<1>2. CASE CiFail(i)
  BY <1>2, CiStep, OutsideCount DEF CiFail
<1>3. CASE Rerun(i)
  BY <1>3, CiStep DEF Rerun, RootInv, WorldType
<1> QED
  BY <1>1, <1>2, <1>3

LEMMA AuthorPushInv == ASSUME RootInv, NEW i \in Pr, AuthorPush(i) PROVE RootInv'
<1> DEFINE p == <<i, ver[i] + 1>>
           h == [pr[i].head EXCEPT !.commits = @ \cup {p}]
<1>0. Tip' = Tip /\ pr \in [Pr -> AnyPr] /\ Tip \in Nat /\ ver[i] \in Nat /\ ver[i] < MaxVersion /\ pr[i].state = "open"
      /\ default' = default /\ tick' = tick /\ ver \in [Pr -> Nat] /\ pr[i].head \in AnyHead /\ i \in Nat /\ i >= 1
  BY Types DEF Tip, AuthorPush, AnyPr
<1>1. p \in Patch
  BY <1>0, BoundsAssumption DEF Patch, Pr
<1>2. h \in AnyHead /\ h.on = pr[i].head.on /\ h.commits = pr[i].head.commits \cup {p}
  BY <1>0, <1>1 DEF AnyHead
<1>3. pr' \in [Pr -> AnyPr] /\ pr'[i].head = h /\ \A j \in Pr : /\ pr'[j].state = pr[j].state /\ pr'[j].base = pr[j].base
                                                                /\ j # i => pr'[j] = pr[j]
  <2>1. pr' = [pr EXCEPT ![i] = [pr[i] EXCEPT !.head = h, !.ci = "pending"]]
    BY <1>0 DEF AuthorPush, AnyPr, AnyHead
  <2> HIDE DEF h
  <2> QED
    BY <1>0, <1>2, <2>1 DEF AnyPr
<1>4. ver' \in [Pr -> Nat] /\ ver'[i] = ver[i] + 1 /\ \A j \in Pr : j # i => ver'[j] = ver[j]
  BY <1>0 DEF AuthorPush
<1>5. p[1] = i /\ p[2] = ver[i] + 1 /\ p \in Own(i)
  BY <1>1 DEF Own
<1> HIDE DEF p, h
<1>6. Advance
  <2>1. \A j \in Pr : ver[j] <= ver'[j]
    BY <1>0, <1>4
  <2> QED
    BY <1>0, <1>3, <2>1 DEF Advance
<1>7. WorldType'
  <2>1. outside' \in 0 .. MaxOutside
    BY OutsideCount DEF AuthorPush
  <2> QED
    BY <1>0, <1>3, <1>4, <2>1 DEF RootInv, WorldType, AuthorPush
<1>8. ASSUME NEW j \in Pr PROVE PrOK(j)'
  <2>0. PrOK(j)
    BY DEF RootInv
  <2>1. InOrder(j)' /\ Untouched(j)'
    <3>1. \A k \in 1 .. j - 1 : k \in Pr
      BY BoundsAssumption DEF Pr
    <3> QED
      BY <1>0, <1>3, <2>0, <3>1 DEF PrOK, InOrder, Untouched, Own
  <2>2. CASE j # i
    BY <1>0, <1>3, <1>4, <2>0, <2>1, <2>2 DEF PrOK, OwnKept
  <2>3. CASE j = i
    <3>1. HeadOK(i, pr[i].head, Tip, ver[i] + 1)
      <4>1. HeadOK(i, pr[i].head, Tip, ver[i])
        BY <2>0, <2>3 DEF PrOK
      <4> QED
        BY <1>0, <4>1, HeadKept
    <3>2. HeadOK(i, h, Tip, ver[i] + 1)
      BY <1>0, <1>2, <1>5, <3>1 DEF HeadOK
    <3>3. Clean(h, default)
      <4>1. Own(i) \cap default[h.on] = {}
        BY <1>0, <1>2, <2>0, <2>3 DEF PrOK, Untouched, HeadOK
      <4> QED
        BY <1>2, <1>5, <2>0, <2>3, <4>1 DEF PrOK, Clean
    <3>4. OwnKept(i)'
      <4>1. ASSUME NEW v \in 1 .. ver'[i] PROVE <<i, v>> \in h.commits
        <5>1. v \in 1 .. ver[i] \/ v = ver[i] + 1
          BY <1>0, <1>4
        <5> QED
          BY <1>2, <2>0, <2>3, <5>1 DEF PrOK, OwnKept, p
      <4> QED
        BY <1>3, <4>1 DEF OwnKept
    <3>5. ver'[i] \in 1 .. MaxVersion
      BY <1>0, <1>4, BoundsAssumption
    <3> QED
      BY <1>0, <1>3, <1>4, <2>0, <2>1, <2>3, <3>2, <3>3, <3>4, <3>5 DEF PrOK
  <2> QED
    BY <2>2, <2>3
<1>9. tick.root \in Pr
  BY Types
<1>10. tick.pc \in GatePc => Quiet'
  BY <1>0, <1>3, <1>9 DEF RootInv, MergingOK, Quiet
<1>11. tick.pc \in GatePc \cup {"tip"} => StillGreen'
  <2> SUFFICES ASSUME tick.pc \in GatePc \cup {"tip"} PROVE StillGreen'
    OBVIOUS
  <2>1. CASE tick.root # i
    BY <1>0, <1>3, <1>9, <2>1 DEF RootInv, MergingOK, StillGreen
  <2>2. CASE tick.root = i
    <3>1. HeadOK(i, tick.cur[i].head, Tip, ver[i])
      BY DEF RootInv, PlanningOK, TickSeen, SeenOK, GatePc, DecidedPc
    <3>2. p \notin tick.cur[i].head.commits
      BY <1>0, <1>5, <3>1 DEF HeadOK
    <3>3. pr'[i].head # tick.cur[i].head
      BY <1>2, <1>3, <3>2
    <3> QED
      BY <1>0, <2>2, <3>3 DEF StillGreen
  <2> QED
    BY <2>1, <2>2
<1> QED
  BY <1>6, <1>7, <1>8, <1>10, <1>11, WorldStep DEF AuthorPush

\* The default branch gets one more commit.
LEMMA Appended ==
  ASSUME RootInv, NEW x \in SUBSET Patch, default' = Append(default, x)
  PROVE  /\ default' \in Seq(SUBSET Patch) /\ Tip' = Tip + 1 /\ Tip' \in Nat
         /\ default'[Tip + 1] = x /\ \A k \in 1 .. Tip : default'[k] = default[k]
         /\ \A k \in 1 .. Tip' : k \in 1 .. Tip \/ k = Tip + 1
<1>1. default \in Seq(SUBSET Patch)
  BY Types
<1>2. /\ Append(default, x) \in Seq(SUBSET Patch) /\ Len(Append(default, x)) = Len(default) + 1
      /\ \A k \in 1 .. Len(default) : Append(default, x)[k] = default[k]
      /\ Append(default, x)[Len(default) + 1] = x
  BY <1>1, AppendProperties
<1> QED
  BY <1>1, <1>2, Types DEF Tip

\* Somebody who is no member lands or reverts.
LEMMA AppendStep ==
  ASSUME RootInv, NEW x \in SUBSET Patch, default' = Append(default, x),
         \A p \in x : p[1] = 0 \/ p \in default[Tip],
         UNCHANGED <<pr, ver, tick, last, faults>>, outside' \in 0 .. MaxOutside
  PROVE  RootInv'
<1>0. Tip' = Tip + 1 /\ Tip \in Nat /\ Tip' \in Nat /\ Tip >= 1 /\ default'[Tip + 1] = x
      /\ (\A k \in 1 .. Tip : default'[k] = default[k]) /\ (\A k \in 1 .. Tip' : k \in 1 .. Tip \/ k = Tip + 1)
      /\ default' \in Seq(SUBSET Patch) /\ tick.root \in Pr
  BY Appended, Types
<1>t. tick' = tick /\ pr' = pr /\ ver' = ver
  OBVIOUS
<1>p. \A p \in x : p[1] = 0 \/ p \in default[Tip]
  OBVIOUS
<1> HIDE DEF Tip
<1>1. Advance
  <2>1. Tip <= Tip' /\ \A i \in Pr : ver[i] <= ver'[i]
    BY <1>0, <1>t, Types
  <2>2. \A k \in 1 .. Tip : default'[k] = default[k]
    BY <1>0
  <2> QED
    BY <1>t, <2>1, <2>2 DEF Advance
<1>2. WorldType'
  BY <1>0 DEF RootInv, WorldType
<1>3. ASSUME NEW i \in Pr PROVE PrOK(i)'
  <2>0. PrOK(i) /\ ver[i] \in Nat /\ i \in Nat /\ i >= 1
    BY Types DEF RootInv
  <2>1. HeadOK(i, pr[i].head, Tip', ver[i])
    BY <1>0, <2>0, HeadKept DEF PrOK
  <2>2. Clean(pr[i].head, default')
    BY <1>1, <2>0, CleanKept DEF PrOK, HeadOK
  <2>3. Untouched(i)'
    <3> SUFFICES ASSUME pr[i].state = "open", NEW k \in 1 .. Tip' PROVE Own(i) \cap default'[k] = {}
      BY <1>t DEF Untouched, Own
    <3>1. \A m \in 1 .. Tip : Own(i) \cap default[m] = {}
      BY <2>0 DEF PrOK, Untouched
    <3>2. CASE k \in 1 .. Tip
      BY <1>0, <3>1, <3>2
    <3>3. CASE k = Tip + 1
      <4>1. Tip \in 1 .. Tip /\ default'[k] = x
        <5>1. default'[Tip + 1] = x /\ Tip \in Nat /\ Tip >= 1
          BY <1>0
        <5> QED
          BY <3>3, <5>1
      <4>2. ASSUME NEW p \in Own(i), p \in x PROVE FALSE
        <5>1. p[1] = i
          BY DEF Own
        <5>2. p \in default[Tip]
          BY <1>p, <2>0, <4>2, <5>1
        <5> QED
          BY <3>1, <4>1, <5>2
      <4> QED
        BY <4>1, <4>2
    <3> QED
      BY <1>0, <3>2, <3>3
  <2> QED
    BY <1>t, <2>0, <2>1, <2>2, <2>3 DEF PrOK, InOrder, OwnKept
<1>4. tick.pc \in GatePc => Quiet'
  <2> SUFFICES ASSUME tick.pc \in GatePc, pr[tick.root].state = "open", NEW m \in tick.obs .. Tip', NEW p \in default'[m]
               PROVE  p[1] = 0 \/ p \in default'[tick.obs]
    BY <1>t DEF Quiet
  <2>1. tick.obs \in 1 .. Tip /\ \A n \in tick.obs .. Tip : \A q \in default[n] : q[1] = 0 \/ q \in default[tick.obs]
    BY DEF RootInv, MergingOK, Quiet
  <2>2. m \in tick.obs .. Tip \/ m = Tip + 1
    BY <1>0, <2>1
  <2>3. CASE m \in tick.obs .. Tip
    <3>1. m \in 1 .. Tip
      BY <1>0, <2>1, <2>3
    <3> QED
      BY <1>0, <2>1, <2>3, <3>1
  <2>4. CASE m = Tip + 1
    <3>1. Tip \in tick.obs .. Tip
      BY <1>0, <2>1
    <3> QED
      BY <1>0, <1>p, <2>1, <2>4, <3>1
  <2> QED
    BY <2>2, <2>3, <2>4
<1>5. tick.pc \in GatePc \cup {"tip"} => StillGreen'
  BY <1>t DEF RootInv, MergingOK, StillGreen
<1> QED
  BY <1>1, <1>2, <1>3, <1>4, <1>5, WorldStep

LEMMA OtherLandingInv == ASSUME RootInv, OtherLanding PROVE RootInv'
<1>0. default[Tip] \subseteq Patch /\ outside \in Nat /\ outside < MaxOutside
  BY Types, BoundsAssumption DEF OtherLanding, Outside, RootInv, WorldType
<1> DEFINE x == default[Tip] \cup {<<0, outside + 1>>}
<1>1. <<0, outside + 1>> \in Patch
  BY <1>0, BoundsAssumption DEF Patch
<1>2. x \in SUBSET Patch /\ \A p \in x : p[1] = 0 \/ p \in default[Tip]
  BY <1>0, <1>1
<1>3. default' = Append(default, x) /\ outside' \in 0 .. MaxOutside /\ UNCHANGED <<pr, ver, tick, last, faults>>
  BY OutsideCount DEF OtherLanding
<1> HIDE DEF x
<1> QED
  BY <1>2, <1>3, AppendStep

LEMMA RevertInv == ASSUME RootInv, NEW j \in Pr, Revert(j) PROVE RootInv'
<1>0. default[Tip] \subseteq Patch
  BY Types
<1> DEFINE x == default[Tip] \ Own(j)
<1>1. x \in SUBSET Patch /\ \A p \in x : p[1] = 0 \/ p \in default[Tip]
  BY <1>0
<1>2. default' = Append(default, x) /\ outside' \in 0 .. MaxOutside /\ UNCHANGED <<pr, ver, tick, last, faults>>
  BY OutsideCount DEF Revert
<1> HIDE DEF x
<1> QED
  BY <1>1, <1>2, AppendStep

\* An open pull request that is based on the default branch lands: everything before it has.
LEMMA LandWorld ==
  ASSUME RootInv, NEW i \in Pr, pr[i].state = "open", pr[i].base = Default, Land(i), UNCHANGED ver
  PROVE  /\ Advance /\ \A j \in Pr : PrOK(j)'
         /\ default' \in Seq(SUBSET Patch) /\ Tip' = Tip + 1 /\ Tip' \in Nat
         /\ default'[Tip + 1] = MergeTree(pr[i].head, Tip)
         /\ pr' \in [Pr -> AnyPr] /\ pr'[i].state = "merged"
         /\ \A j \in Pr : pr'[j].head = pr[j].head /\ pr'[j].ci = pr[j].ci /\ (j # i => pr'[j] = pr[j])
<1> DEFINE x == MergeTree(pr[i].head, Tip)
<1>0. Tip \in Nat /\ Tip >= 1 /\ default[Tip] \subseteq Patch /\ pr \in [Pr -> AnyPr] /\ i \in Nat /\ PrOK(i)
  BY Types DEF RootInv
<1>1. x \in SUBSET Patch /\ x = default[Tip] \cup pr[i].head.commits
  BY <1>0 DEF MergeTree, AnyPr, AnyHead
<1> HIDE DEF x
<1>2. /\ default' \in Seq(SUBSET Patch) /\ Tip' = Tip + 1 /\ Tip' \in Nat
      /\ default'[Tip + 1] = x /\ \A k \in 1 .. Tip : default'[k] = default[k]
      /\ \A k \in 1 .. Tip' : k \in 1 .. Tip \/ k = Tip + 1
  BY <1>1, Appended DEF Land, x
<1>3. pr' \in [Pr -> AnyPr] /\ pr'[i].state = "merged"
      /\ \A j \in Pr : /\ pr'[j].head = pr[j].head /\ pr'[j].ci = pr[j].ci /\ (j # i => pr'[j] = pr[j])
                       /\ pr'[j].base = pr[j].base
  BY <1>0 DEF Land, AnyPr
<1> HIDE DEF Tip
<1>4. Advance
  <2>1. \A j \in Pr : ver[j] <= ver'[j]
    BY Types
  <2> QED
    BY <1>0, <1>2, <1>3, <2>1 DEF Advance
<1>5. \A j \in 1 .. i - 1 : pr[j].state = "merged"
  BY <1>0 DEF PrOK, InOrder
<1>6. ASSUME NEW j \in Pr PROVE PrOK(j)'
  <2>0. PrOK(j) /\ ver[j] \in Nat /\ j \in Nat /\ j >= 1
    BY Types DEF RootInv
  <2>1. HeadOK(j, pr[j].head, Tip', ver[j])
    BY <1>0, <1>2, <2>0, HeadKept DEF PrOK
  <2>2. Clean(pr[j].head, default')
    BY <1>4, <2>0, CleanKept DEF PrOK, HeadOK
  <2>3. InOrder(j)'
    <3> SUFFICES ASSUME pr'[j].base = Default \/ pr'[j].state = "merged", NEW k \in 1 .. j - 1
                 PROVE  pr'[k].state = "merged"
      BY DEF InOrder
    <3>1. k \in Pr
      BY <2>0, BoundsAssumption DEF Pr
    <3>2. pr[k].state = "merged"
      <4>1. CASE j = i
        BY <1>5, <4>1
      <4>2. CASE j # i
        BY <1>3, <2>0, <4>2 DEF PrOK, InOrder
      <4> QED
        BY <4>1, <4>2
    <3> QED
      BY <1>3, <3>1, <3>2
  <2>4. Untouched(j)'
    <3> SUFFICES ASSUME pr'[j].state = "open", NEW k \in 1 .. Tip' PROVE Own(j) \cap default'[k] = {}
      BY DEF Untouched, Own
    <3>0. j # i /\ pr[j].state = "open"
      BY <1>3
    <3>1. \A m \in 1 .. Tip : Own(j) \cap default[m] = {}
      BY <2>0, <3>0 DEF PrOK, Untouched
    <3>2. CASE k \in 1 .. Tip
      BY <1>2, <3>1, <3>2
    <3>3. CASE k = Tip + 1
      <4>1. j > i
        <5>1. ~(j \in 1 .. i - 1)
          BY <1>5, <3>0
        <5> QED
          BY <1>0, <2>0, <3>0, <5>1
      <4>2. \A p \in pr[i].head.commits : p[1] \in 1 .. i
        BY <1>0 DEF PrOK, HeadOK
      <4>3. \A p \in Own(j) : p[1] = j
        BY DEF Own
      <4>4. Own(j) \cap pr[i].head.commits = {}
        BY <1>0, <2>0, <4>1, <4>2, <4>3
      <4>5. Own(j) \cap default[Tip] = {}
        BY <1>0, <3>1
      <4> QED
        BY <1>1, <1>2, <3>3, <4>4, <4>5
    <3> QED
      BY <1>2, <3>2, <3>3
  <2> QED
    BY <1>3, <2>0, <2>1, <2>2, <2>3, <2>4 DEF PrOK, OwnKept
<1> QED
  BY <1>2, <1>3, <1>4, <1>6 DEF x

LEMMA ManualMergeInv == ASSUME RootInv, NEW i \in Pr, ManualMerge(i) PROVE RootInv'
<1>0. Land(i) /\ UNCHANGED ver /\ pr[i].state = "open" /\ pr[i].base = Default /\ tick' = tick /\ UNCHANGED <<last, faults>>
  BY DEF ManualMerge
<1>1. /\ Advance /\ \A j \in Pr : PrOK(j)'
      /\ default' \in Seq(SUBSET Patch) /\ Tip' = Tip + 1 /\ Tip' \in Nat
      /\ pr' \in [Pr -> AnyPr] /\ pr'[i].state = "merged"
      /\ \A j \in Pr : pr'[j].head = pr[j].head /\ pr'[j].ci = pr[j].ci /\ (j # i => pr'[j] = pr[j])
  BY <1>0, LandWorld
<1>2. outside' \in 0 .. MaxOutside /\ tick.root \in Pr /\ Tip \in Nat /\ i \in Nat /\ i >= 1 /\ tick.root \in Nat
      /\ tick.root >= 1
  BY OutsideCount, Types DEF ManualMerge
<1> HIDE DEF Tip
<1>3. WorldType'
  BY <1>0, <1>1, <1>2 DEF RootInv, WorldType
<1>4. tick.pc \in GatePc => Quiet'
  <2> SUFFICES ASSUME tick.pc \in GatePc PROVE pr'[tick.root].state # "open"
    BY <1>0 DEF Quiet
  <2> SUFFICES ASSUME pr[tick.root].state = "open", tick.root # i PROVE FALSE
    BY <1>1, <1>2
  <2>1. ~(i \in 1 .. tick.root - 1)
    BY <1>0 DEF RootInv, RootOK, WalkPc, MergePc
  <2>2. ~(tick.root \in 1 .. i - 1)
    BY <1>0 DEF RootInv, PrOK, InOrder
  <2> QED
    BY <1>2, <2>1, <2>2
<1>5. tick.pc \in GatePc \cup {"tip"} => StillGreen'
  BY <1>0, <1>1, <1>2 DEF RootInv, MergingOK, StillGreen
<1> QED
  BY <1>0, <1>1, <1>3, <1>4, <1>5, WorldStep

\* The provider retargets the child of a deleted branch; everything before it has landed.
LEMMA BranchDeletedInv == ASSUME RootInv, NEW j \in Pr, BranchDeleted(j) PROVE RootInv'
<1>0. Tip' = Tip /\ Tip \in Nat /\ pr \in [Pr -> AnyPr] /\ pr[j].state = "merged" /\ j \in Nat /\ j >= 1
      /\ tick' = tick /\ ver' = ver /\ default' = default /\ tick.root \in Pr
  BY Types DEF BranchDeleted, Tip
<1>1. pr' \in [Pr -> AnyPr]
      /\ \A i \in Pr : /\ pr'[i].state = pr[i].state /\ pr'[i].head = pr[i].head /\ pr'[i].ci = pr[i].ci
                       /\ pr'[i].base = IF pr[i].state = "open" /\ pr[i].base = j THEN Default ELSE pr[i].base
  BY <1>0 DEF BranchDeleted, AnyPr, Default
<1>2. Advance
  <2>1. \A i \in Pr : ver[i] <= ver'[i]
    BY <1>0, Types
  <2> QED
    BY <1>0, <1>1, <2>1 DEF Advance
<1>3. WorldType'
  BY <1>0, <1>1 DEF RootInv, WorldType, BranchDeleted
<1>4. ASSUME NEW i \in Pr PROVE PrOK(i)'
  <2>0. PrOK(i) /\ i \in Nat /\ PrOK(j)
    BY Types DEF RootInv
  <2>1. InOrder(i)'
    <3> SUFFICES ASSUME pr'[i].base = Default \/ pr'[i].state = "merged", NEW k \in 1 .. i - 1
                 PROVE  pr'[k].state = "merged"
      BY DEF InOrder
    <3>1. k \in Pr
      BY <2>0, BoundsAssumption DEF Pr
    <3>2. CASE pr[i].base = j
      <4>1. i - 1 = j
        BY <1>0, <2>0, <3>2 DEF PrOK, Default
      <4>2. k = j \/ k \in 1 .. j - 1
        BY <1>0, <2>0, <4>1
      <4> QED
        BY <1>0, <1>1, <2>0, <3>1, <4>2 DEF PrOK, InOrder
    <3>3. CASE pr[i].base # j
      BY <1>1, <2>0, <3>1, <3>3 DEF PrOK, InOrder
    <3> QED
      BY <3>2, <3>3
  <2> QED
    BY <1>0, <1>1, <2>0, <2>1 DEF PrOK, Untouched, OwnKept, Own
<1>5. tick.pc \in GatePc => Quiet'
  BY <1>0, <1>1 DEF RootInv, MergingOK, Quiet
<1>6. tick.pc \in GatePc \cup {"tip"} => StillGreen'
  BY <1>0, <1>1 DEF RootInv, MergingOK, StillGreen
<1> QED
  BY <1>0, <1>2, <1>3, <1>4, <1>5, <1>6, WorldStep DEF BranchDeleted

-----------------------------------------------------------------------------
(* Planning.                                                               *)

\* What the write barrier tells of a member of the snapshot.
LEMMA BarrierFacts ==
  ASSUME RootInv, tick.pc = "plan", WriteBarrier, NEW i \in Open(tick.snap)
  PROVE  /\ i \in Pr /\ i \in Nat /\ i >= 1 /\ Tip = tick.tip /\ Tip \in Nat /\ Tip >= 1 /\ ver[i] \in Nat
         /\ pr[i].state = "open" /\ pr[i].head = tick.snap[i].head
         /\ HeadOK(i, tick.snap[i].head, Tip, ver[i]) /\ Clean(tick.snap[i].head, default)
         /\ \A k \in 1 .. Tip : Own(i) \cap default[k] = {}
<1>1. i \in Pr /\ tick.snap[i].state = "open" /\ tick.cur = tick.snap
  BY DEF Open, RootInv, PlanningOK
<1>2. pr[i] \in AnyPr /\ tick.snap[i] \in AnyPr /\ i \in Nat /\ i >= 1 /\ Tip \in Nat /\ Tip >= 1 /\ ver[i] \in Nat
  BY <1>1, Types
<1>3. pr[i].state = tick.snap[i].state /\ pr[i].head = tick.snap[i].head
  <2>1. [pr[i] EXCEPT !.ci = tick.snap[i].ci] = tick.snap[i]
    BY <1>1 DEF WriteBarrier, Exact
  <2> QED
    BY <1>2, <2>1 DEF AnyPr
<1>4. PrOK(i) /\ Tip = tick.tip
  BY <1>1 DEF RootInv, WriteBarrier
<1> QED
  BY <1>1, <1>2, <1>3, <1>4 DEF PrOK, Untouched

LEMMA PlanRootOK ==
  ASSUME RootInv, tick.pc = "plan", WriteBarrier, NEW i \in Open(tick.snap)
  PROVE  PlanOK(i, PlanRoot(tick.snap[i].head, tick.tip), tick.snap[i].head)
<1> DEFINE h == tick.snap[i].head
           g == [on |-> Tip, commits |-> Replay(h, Tip)]
<1>1. /\ i \in Pr /\ Tip = tick.tip /\ Tip \in Nat /\ Tip >= 1
      /\ HeadOK(i, h, Tip, ver[i]) /\ Clean(h, default)
      /\ \A k \in 1 .. Tip : Own(i) \cap default[k] = {}
  BY BarrierFacts
<1> HIDE DEF h, Tip
<1>2. CASE Reachable(h, Tip)
  BY <1>1, <1>2 DEF PlanRoot, PlanOK, h
<1>3. CASE ~Reachable(h, Tip)
  <2>1. PlanRoot(h, tick.tip) = g
    BY <1>1, <1>3 DEF PlanRoot
  <2>2. g.on = Tip /\ g.commits \subseteq h.commits /\ h \in AnyHead /\ h.on \in 1 .. Tip
    BY <1>1 DEF Replay, HeadOK
  <2>3. HeadOK(i, g, Tip, ver[i])
    <3>1. g \in AnyHead
      BY <1>1, <2>2 DEF AnyHead
    <3> HIDE DEF g
    <3> QED
      BY <1>1, <2>2, <3>1 DEF HeadOK
  <2>4. Clean(g, default)
    BY DEF Clean, Replay
  <2>5. ASSUME NEW p \in Own(i) \cap h.commits PROVE p \in g.commits
    <3>1. \A k \in 1 .. Tip : p \notin default[k]
      BY <1>1
    <3>2. \A k \in (h.on + 1) .. Tip : k \in 1 .. Tip
      BY <1>1, <2>2
    <3>3. \A k \in (h.on + 1) .. Tip : default[k] \ default[k - 1] # {p}
      BY <3>1, <3>2
    <3>4. Tip \in 1 .. Tip
      BY <1>1
    <3> QED
      BY <3>1, <3>3, <3>4 DEF Replay
  <2> HIDE DEF g
  <2> QED
    BY <2>1, <2>3, <2>4, <2>5 DEF PlanOK, h
<1> QED
  BY <1>2, <1>3

LEMMA PlanChildOK ==
  ASSUME RootInv, tick.pc = "plan", WriteBarrier, NEW i \in Open(tick.snap), i - 1 \in Pr,
         NEW target, NEW old, PlanOK(i - 1, target, old)
  PROVE  PlanOK(i, PlanChild(i, tick.snap[i].head, target), tick.snap[i].head)
<1> DEFINE h == tick.snap[i].head
           g == [on |-> target.on, commits |-> target.commits \cup (h.commits \cap Own(i))]
<1>1. /\ i \in Pr /\ i \in Nat /\ i >= 1 /\ Tip \in Nat /\ Tip >= 1 /\ ver[i] \in Nat
      /\ HeadOK(i, h, Tip, ver[i]) /\ Clean(h, default)
      /\ \A k \in 1 .. Tip : Own(i) \cap default[k] = {}
  BY BarrierFacts
<1>2. HeadOK(i - 1, target, Tip, ver[i - 1]) /\ Clean(target, default)
  BY DEF PlanOK
<1> HIDE DEF h, Tip
<1>3. CASE PlanChild(i, h, target) = h
  BY <1>1, <1>3 DEF PlanOK, h
<1>4. CASE PlanChild(i, h, target) = g
  <2>1. g.on = target.on /\ g.commits = target.commits \cup (h.commits \cap Own(i))
        /\ h \in AnyHead /\ target \in AnyHead /\ target.on \in 1 .. Tip
    BY <1>1, <1>2 DEF HeadOK
  <2>2. g \in AnyHead
    BY <2>1 DEF AnyHead
  <2> HIDE DEF g
  <2>3. ASSUME NEW p \in g.commits PROVE p[1] \in 1 .. i /\ (p[1] = i => p[2] <= ver[i])
    <3>1. CASE p \in target.commits
      <4>1. p[1] \in 1 .. i - 1
        BY <1>2, <3>1 DEF HeadOK
      <4> QED
        BY <1>1, <4>1
    <3>2. CASE p \in h.commits
      BY <1>1, <3>2 DEF HeadOK
    <3> QED
      BY <2>1, <3>1, <3>2
  <2>4. Clean(g, default)
    <3>1. Own(i) \cap default[target.on] = {}
      BY <1>1, <2>1
    <3> QED
      BY <1>2, <2>1, <3>1 DEF Clean
  <2>5. Own(i) \cap h.commits \subseteq g.commits
    BY <2>1
  <2> QED
    BY <1>4, <2>1, <2>2, <2>3, <2>4, <2>5 DEF PlanOK, HeadOK, h
<1> QED
  BY <1>3, <1>4 DEF PlanChild

\* By induction along the chain: every planned head keeps its author's commits and carries
\* nothing of the commit it stands on.
LEMMA PlansOK ==
  ASSUME RootInv, tick.pc = "plan", WriteBarrier
  PROVE  /\ \A i \in Open(tick.snap) : PlanOK(i, Plans[i], tick.snap[i].head)
         /\ \A i \in Pr : Plans[i] \in AnyHead /\ Plans[i].on \in 1 .. Tip
<1> DEFINE T == {i \in Open(tick.snap) : ~PlanOK(i, Plans[i], tick.snap[i].head)}
<1>0. tick \in TickType /\ tick.snap \in [Pr -> AnyPr] /\ SnapOK /\ Tip \in Nat /\ Tip >= 1
  BY Types DEF RootInv, PlanningOK
<1>1. \A i \in Pr : Plans[i] = PlanAt(i, Plans)
  BY <1>0, PlansEquation
<1>2. T = {}
  <2> SUFFICES ASSUME T # {} PROVE FALSE
    OBVIOUS
  <2>1. T \subseteq Nat /\ T \subseteq Open(tick.snap)
    BY BoundsAssumption DEF Open, Pr
  <2>2. PICK i \in T : \A j \in T : i <= j
    <3> HIDE DEF T
    <3> QED
      BY <2>1, LeastNatural
  <2>3. i \in Open(tick.snap) /\ ~PlanOK(i, Plans[i], tick.snap[i].head) /\ i \in Pr
    BY <2>2 DEF Open
  <2>4. Root(tick.snap) \in Open(tick.snap) /\ Root(tick.snap) \in Pr /\ Root(tick.snap) <= i
    BY <1>0, <2>3, RootIsFirst
  <2>5. CASE i = Root(tick.snap)
    <3>1. Plans[i] = PlanRoot(tick.snap[i].head, tick.tip)
      BY <1>1, <2>3, <2>5 DEF PlanAt
    <3> QED
      BY <2>3, <3>1, PlanRootOK
  <2>6. CASE i # Root(tick.snap)
    <3>1. Plans[i] = PlanChild(i, tick.snap[i].head, Plans[i - 1])
      BY <1>1, <2>3, <2>6 DEF PlanAt
    <3>2. i - 1 \in Pr /\ i - 1 >= Root(tick.snap) /\ ~(i <= i - 1)
      BY <2>3, <2>4, <2>6, BoundsAssumption DEF Pr
    <3>3. i - 1 \in Open(tick.snap)
      <4>1. i - 1 = Root(tick.snap) \/ i - 1 > Root(tick.snap)
        BY <2>4, <3>2, BoundsAssumption DEF Pr
      <4> QED
        BY <1>0, <2>4, <3>2, <4>1 DEF SnapOK
    <3>4. PlanOK(i - 1, Plans[i - 1], tick.snap[i - 1].head)
      BY <2>2, <3>2, <3>3
    <3> HIDE DEF T
    <3> QED
      BY <2>3, <3>1, <3>2, <3>4, PlanChildOK
  <2> QED
    BY <2>5, <2>6
<1>3. ASSUME NEW i \in Pr PROVE Plans[i] \in AnyHead /\ Plans[i].on \in 1 .. Tip
  <2>1. CASE i \in Open(tick.snap)
    BY <1>2, <2>1 DEF PlanOK, HeadOK
  <2>2. CASE i \notin Open(tick.snap)
    BY <1>0, <1>1, <2>2 DEF PlanAt, NoHead, AnyHead
  <2> QED
    BY <2>1, <2>2
<1> QED
  BY <1>2, <1>3

\* The plans are a function on the members.
LEMMA PlansType ==
  ASSUME RootInv, tick.pc = "plan", WriteBarrier
  PROVE  Plans \in [Pr -> AnyHead]
<1>1. tick \in TickType
  BY Types
<1>2. Plans = CHOOSE f : f = [i \in Pr |-> PlanAt(i, f)]
  BY DEF Plans
<1>3. Plans = [i \in Pr |-> PlanAt(i, Plans)]
  BY <1>1, <1>2, PlansExist
<1>4. \A i \in Pr : Plans[i] \in AnyHead
  BY PlansOK
<1> QED
  BY <1>3, <1>4

-----------------------------------------------------------------------------
(* Promotion, CI and merge_root.                                           *)

LEMMA SeenNow == ASSUME RootInv, NEW i \in Pr
                 PROVE  SeenOK(i, pr[i], pr[i], Tip, ver[i]) /\ pr[i].base \in 0 .. i - 1 /\ pr[i].head.on \in 1 .. Tip
<1>1. PrOK(i) /\ i \in Nat /\ i >= 1
  BY Types DEF RootInv
<1>2. i - 1 \in 0 .. i - 1 /\ 0 \in 0 .. i - 1
  BY <1>1
<1> QED
  BY <1>1, <1>2 DEF PrOK, SeenOK, HeadOK, Default

\* A step of the walk that reads pull requests and keeps its plan.
LEMMA WalkStep ==
  ASSUME RootInv, UNCHANGED <<default, pr, ver, last, outside, faults>>, NEW j \in TickType, tick' = j,
         tick.pc \in WalkPc, j.pc \in WalkPc \ {"confirm"},
         j.snap = tick.snap, j.tip = tick.tip, j.plan = tick.plan, j.landed = tick.landed, j.count = tick.count,
         j.root = tick.root, \A i \in Pr : j.cur[i] \in {tick.cur[i], pr[i]}, j.obs \in 0 .. Tip,
         j.pc \in MergePc \cup {"first"} => tick.count < MaxRootMerges, MergingOK'
  PROVE  RootInv'
<1>0. Tip' = Tip /\ pr' = pr /\ ver' = ver /\ j.pc \notin {"idle", "plan", "push", "mid", "confirm"} /\ tick.pc # "idle"
  BY DEF Tip, WalkPc, MergePc, GatePc, DecidedPc
<1> HIDE DEF Tip
<1>1. ASSUME NEW i \in Pr
      PROVE  SeenOK(i, j.cur[i], pr[i], Tip, ver[i]) /\ j.cur[i].base \in 0 .. i - 1 /\ j.cur[i].head.on \in 1 .. Tip
  <2>1. SeenOK(i, tick.cur[i], pr[i], Tip, ver[i]) /\ tick.cur[i].base \in 0 .. i - 1 /\ tick.cur[i].head.on \in 1 .. Tip
    BY <1>0 DEF RootInv, PlanningOK, TickSeen, TickShape
  <2> QED
    BY <2>1, SeenNow
<1>2. TickShape'
  BY <1>0, <1>1 DEF RootInv, TickShape
<1>3. PlanningOK'
  <2>1. TickSeen'
    BY <1>0, <1>1 DEF RootInv, PlanningOK, TickSeen
  <2>2. SnapOK'
    BY <1>0 DEF RootInv, PlanningOK, SnapOK, Open
  <2> QED
    BY <1>0, <2>1, <2>2 DEF RootInv, PlanningOK
<1>4. RootOK'
  BY <1>0 DEF RootInv, RootOK, Root, Open
<1> QED
  BY <1>2, <1>3, <1>4, ReadStep

\* The fields of the tick.
LEMMA TickFields ==
  ASSUME RootInv
  PROVE  /\ tick.pc \in WalkPc \cup {"idle", "plan", "push", "mid"} /\ tick.mode \in {"first", "drain"}
         /\ tick.upto \in Nat /\ tick.deferred \in BOOLEAN
         /\ tick.obs \in 0 .. Tip /\ tick.count \in 0 .. MaxRootMerges
         /\ \A i \in Pr : tick.cur[i] \in AnyPr /\ tick.snap[i] \in AnyPr
BY Types DEF TickType, RootInv, TickShape

\* Reading the root before merge_root goes on to the default tip.
LEMMA ReadRootInv == ASSUME RootInv, ReadRoot PROVE RootInv'
<1> DEFINE r == tick.root
           j == [tick EXCEPT !.pc = "tip", !.cur[r] = pr[r]]
<1>0. tick.pc = "read" /\ UNCHANGED <<default, pr, ver, last, outside, faults>> /\ (tick' = j \/ tick' = Idle)
  BY DEF ReadRoot, End
<1>1. CASE tick' = j
  <2>0. r \in Pr /\ pr[r] \in AnyPr /\ tick \in TickType /\ tick.cur \in [Pr -> AnyPr]
    BY Types
  <2>1. j \in TickType /\ j.pc = "tip" /\ j.snap = tick.snap /\ j.tip = tick.tip /\ j.plan = tick.plan
        /\ j.landed = tick.landed /\ j.count = tick.count /\ j.root = tick.root /\ j.obs = tick.obs
        /\ j.cur = [tick.cur EXCEPT ![r] = pr[r]]
    BY <2>0 DEF TickType, WalkPc, MergePc
  <2>2. (\A i \in Pr : j.cur[i] \in {tick.cur[i], pr[i]}) /\ j.cur[r] = pr[r]
    BY <2>0, <2>1
  <2> HIDE DEF j
  <2>3. MergingOK'
    BY <1>0, <1>1, <2>1, <2>2 DEF MergingOK, StillGreen, GatePc, DecidedPc
  <2>4. j.pc \in WalkPc \ {"confirm"} /\ tick.pc \in WalkPc /\ tick.count < MaxRootMerges
    BY <1>0, <2>1 DEF RootInv, RootOK, WalkPc, MergePc
  <2>5. j.obs \in 0 .. Tip
    BY <2>1, TickFields
  <2> QED
    BY <1>0, <1>1, <2>1, <2>2, <2>3, <2>4, <2>5, WalkStep
<1>2. CASE tick' = Idle
  BY <1>0, <1>2, EndStep DEF RootInv, WorldType
<1> QED
  BY <1>0, <1>1, <1>2

LEMMA ReadTipInv == ASSUME RootInv, ReadTip PROVE RootInv'
<1> DEFINE j == [tick EXCEPT !.pc = "gate", !.obs = Tip]
<1>0. tick.pc = "tip" /\ UNCHANGED <<default, pr, ver, last, outside, faults>> /\ tick' = j
  BY DEF ReadTip
<1>1. tick \in TickType /\ Tip \in Nat /\ Tip >= 1 /\ Tip' = Tip
  BY <1>0, Types DEF Tip
<1> HIDE DEF Tip
<1>2. j \in TickType /\ j.pc = "gate" /\ j.snap = tick.snap /\ j.tip = tick.tip /\ j.plan = tick.plan
      /\ j.landed = tick.landed /\ j.count = tick.count /\ j.root = tick.root /\ j.obs = Tip /\ j.cur = tick.cur
  BY <1>1 DEF TickType, WalkPc, MergePc, GatePc
<1> HIDE DEF j
<1>3. MergingOK'
  <2>1. \A m \in Tip .. Tip : m = Tip
    BY <1>1
  <2>2. Quiet'
    BY <1>0, <1>1, <1>2, <2>1 DEF Quiet
  <2>3. StillGreen'
    BY <1>0, <1>2 DEF RootInv, MergingOK, StillGreen
  <2>4. Tip \in 1 .. Tip
    BY <1>1
  <2> QED
    BY <1>0, <1>1, <1>2, <2>2, <2>3, <2>4 DEF MergingOK, DecidedPc
<1>4. j.pc \in WalkPc \ {"confirm"} /\ tick.pc \in WalkPc /\ tick.count < MaxRootMerges
  BY <1>0, <1>2 DEF RootInv, RootOK, WalkPc, MergePc, GatePc
<1>5. j.obs \in 0 .. Tip
  BY <1>1, <1>2
<1> QED
  BY <1>0, <1>2, <1>3, <1>4, <1>5, WalkStep

\* A step between the gate and the merge keeps what the gate decided.
LEMMA DecidedStep ==
  ASSUME RootInv, UNCHANGED <<default, pr, ver, last, outside, faults>>, tick.pc \in GatePc,
         NEW c \in DecidedPc, tick' = [tick EXCEPT !.pc = c], Decided
  PROVE  RootInv'
<1> DEFINE j == [tick EXCEPT !.pc = c]
<1>0. c \in {"audit", "verify", "send"} /\ Tip' = Tip /\ tick' = j
  BY DEF DecidedPc, Tip
<1> HIDE DEF Tip
<1>1. tick \in TickType
  BY Types
<1>2. j \in TickType /\ j.pc = c /\ j.snap = tick.snap /\ j.tip = tick.tip /\ j.plan = tick.plan
      /\ j.landed = tick.landed /\ j.count = tick.count /\ j.root = tick.root /\ j.obs = tick.obs /\ j.cur = tick.cur
  BY <1>0, <1>1 DEF TickType, WalkPc, MergePc, GatePc, DecidedPc
<1> HIDE DEF j
<1>3. MergingOK'
  <2>1. tick.obs \in 1 .. Tip /\ Quiet /\ StillGreen
    BY DEF RootInv, MergingOK
  <2> QED
    BY <1>0, <1>2, <2>1 DEF MergingOK, Quiet, StillGreen, Decided, Identical, Reachable, MergeTree, Tree
<1>4. j.pc \in WalkPc \ {"confirm"} /\ tick.pc \in WalkPc /\ tick.count < MaxRootMerges
  BY <1>0, <1>2 DEF RootInv, RootOK, WalkPc, MergePc, GatePc, DecidedPc
<1>5. j.obs \in 0 .. Tip
  BY <1>2, TickFields
<1> QED
  BY <1>0, <1>2, <1>3, <1>4, <1>5, WalkStep

\* The tick returns to planning, with the discovered facts.
LEMMA ToPlan ==
  ASSUME RootInv, UNCHANGED <<default, pr, ver, last, outside, faults>>, tick.pc \in WalkPc, NEW j \in TickType,
         tick' = j, j.pc = "plan", j.cur = tick.snap, j.obs \in 0 .. Tip,
         j.snap = tick.snap, j.tip = tick.tip, j.plan = tick.plan, j.landed = tick.landed, j.count = tick.count,
         j.root = tick.root
  PROVE  RootInv'
<1>0. Tip' = Tip /\ pr' = pr /\ ver' = ver /\ tick.pc # "idle"
  BY DEF Tip, WalkPc, MergePc, GatePc, DecidedPc
<1> HIDE DEF Tip
<1>1. TickShape'
  BY <1>0 DEF RootInv, TickShape
<1>2. PlanningOK'
  <2>1. TickSeen' /\ SnapOK'
    BY <1>0 DEF RootInv, PlanningOK, TickSeen, SnapOK, Open
  <2> QED
    BY <1>0, <2>1 DEF RootInv, PlanningOK
<1>3. RootOK' /\ MergingOK'
  BY DEF RootOK, MergingOK, WalkPc, MergePc, GatePc, DecidedPc
<1> QED
  BY <1>1, <1>2, <1>3, ReadStep

LEMMA GateInv == ASSUME RootInv, Gate PROVE RootInv'
<1>0. tick.pc = "gate" /\ UNCHANGED <<default, pr, ver, last, outside, faults>> /\ tick \in TickType
  BY Types DEF Gate
<1>1. CASE Decision = "eligible" /\ tick' = [tick EXCEPT !.pc = "audit"]
  <2> DEFINE p == tick.cur[tick.root]
  <2>1. p.base = Default /\ p.ci = "pass" /\ Proven /\ Identical(p.head, tick.obs) /\ RetainedPatchSetHolds
    BY <1>1 DEF Decision
  <2>2. tick.landed = 0
    <3>1. tick.root = Root(tick.snap)
      BY <2>1 DEF Proven
    <3>2. tick.landed # 0 => Root(tick.snap) < tick.root
      BY <1>0 DEF RootInv, RootOK, WalkPc, MergePc, GatePc
    <3>3. tick.root \in Nat
      BY Types
    <3> QED
      BY <3>1, <3>2, <3>3
  <2>3. Decided
    BY <2>1, <2>2 DEF RetainedPatchSetHolds, Decided
  <2> QED
    BY <1>0, <1>1, <2>3, DecidedStep DEF GatePc, DecidedPc
<1>2. CASE tick' = [tick EXCEPT !.pc = "plan", !.cur = tick.snap, !.obs = 0]
  <2> DEFINE j == [tick EXCEPT !.pc = "plan", !.cur = tick.snap, !.obs = 0]
  <2>1. j \in TickType /\ j.pc = "plan" /\ j.snap = tick.snap /\ j.tip = tick.tip /\ j.plan = tick.plan
        /\ j.landed = tick.landed /\ j.count = tick.count /\ j.root = tick.root /\ j.obs = 0 /\ j.cur = tick.snap
    BY <1>0 DEF TickType
  <2> HIDE DEF j
  <2>2. j.obs \in 0 .. Tip /\ tick' = j /\ tick.pc \in WalkPc
    BY <1>0, <1>2, <2>1, Types DEF j, WalkPc, MergePc, GatePc
  <2> QED
    BY <1>0, <2>1, <2>2, ToPlan
<1>3. CASE tick' = Idle
  BY <1>0, <1>3, EndStep DEF RootInv, WorldType
<1> QED
  BY <1>1, <1>2, <1>3 DEF Gate, End

LEMMA AuditInv == ASSUME RootInv, Audit \/ VerifyDefault PROVE RootInv'
<1>0. tick.pc \in {"audit", "verify"} /\ UNCHANGED <<default, pr, ver, last, outside, faults>>
      /\ (tick' = [tick EXCEPT !.pc = "verify"] \/ tick' = [tick EXCEPT !.pc = "send"] \/ tick' = Idle)
  BY DEF Audit, VerifyDefault, End
<1>1. tick.pc \in GatePc /\ Decided /\ {"verify", "send"} \subseteq DecidedPc
  BY <1>0 DEF RootInv, MergingOK, GatePc, DecidedPc
<1>2. CASE tick' = Idle
  BY <1>0, <1>2, EndStep DEF RootInv, WorldType
<1>3. CASE tick' = [tick EXCEPT !.pc = "verify"]
  BY <1>0, <1>1, <1>3, DecidedStep
<1>4. CASE tick' = [tick EXCEPT !.pc = "send"]
  BY <1>0, <1>1, <1>4, DecidedStep
<1> QED
  BY <1>0, <1>2, <1>3, <1>4

LEMMA RootFirstInv == ASSUME RootInv, RootFirst PROVE RootInv'
<1> DEFINE r == tick.root
           j == [tick EXCEPT !.pc = "read", !.cur[r] = pr[r]]
           k == [tick EXCEPT !.pc = "plan", !.cur = tick.snap]
<1>0. tick.pc = "first" /\ UNCHANGED <<default, pr, ver, last, outside, faults>>
      /\ (tick' = j \/ tick' = k \/ tick' = Idle)
  BY DEF RootFirst, End
<1>t. r \in Pr /\ pr[r] \in AnyPr /\ tick \in TickType /\ tick.cur \in [Pr -> AnyPr] /\ tick.obs \in 0 .. Tip
      /\ tick.pc \in WalkPc
  BY <1>0, Types, TickFields DEF WalkPc
<1>1. CASE tick' = j
  <2>1. j \in TickType /\ j.pc = "read" /\ j.snap = tick.snap /\ j.tip = tick.tip /\ j.plan = tick.plan
        /\ j.landed = tick.landed /\ j.count = tick.count /\ j.root = tick.root /\ j.obs = tick.obs
        /\ j.cur = [tick.cur EXCEPT ![r] = pr[r]]
    BY <1>t DEF TickType, WalkPc, MergePc
  <2>2. \A i \in Pr : j.cur[i] \in {tick.cur[i], pr[i]}
    BY <1>t, <2>1
  <2> HIDE DEF j
  <2>3. MergingOK'
    BY <1>1, <2>1 DEF MergingOK, GatePc, DecidedPc
  <2>4. j.pc \in WalkPc \ {"confirm"} /\ tick.count < MaxRootMerges
    BY <1>0, <2>1 DEF RootInv, RootOK, WalkPc, MergePc
  <2> QED
    BY <1>0, <1>t, <1>1, <2>1, <2>2, <2>3, <2>4, WalkStep
<1>2. CASE tick' = k
  <2>1. k \in TickType /\ k.pc = "plan" /\ k.snap = tick.snap /\ k.tip = tick.tip /\ k.plan = tick.plan
        /\ k.landed = tick.landed /\ k.count = tick.count /\ k.root = tick.root /\ k.obs = tick.obs /\ k.cur = tick.snap
    BY <1>t DEF TickType
  <2> HIDE DEF k
  <2> QED
    BY <1>0, <1>t, <1>2, <2>1, ToPlan
<1>3. CASE tick' = Idle
  BY <1>0, <1>3, EndStep DEF RootInv, WorldType
<1> QED
  BY <1>0, <1>1, <1>2, <1>3

LEMMA PromoteConfirmInv == ASSUME RootInv, PromoteConfirm PROVE RootInv'
<1> DEFINE r == tick.root
           j == [tick EXCEPT !.pc = "ci", !.cur[r] = pr[r]]
<1>0. tick.pc = "promoted" /\ UNCHANGED <<default, pr, ver, last, outside, faults>> /\ (tick' = j \/ tick' = Idle)
  BY DEF PromoteConfirm, End
<1>1. CASE tick' = j
  <2>0. r \in Pr /\ pr[r] \in AnyPr /\ tick \in TickType /\ tick.cur \in [Pr -> AnyPr] /\ tick.obs \in 0 .. Tip
        /\ tick.pc \in WalkPc
    BY <1>0, Types, TickFields DEF WalkPc
  <2>1. j \in TickType /\ j.pc = "ci" /\ j.snap = tick.snap /\ j.tip = tick.tip /\ j.plan = tick.plan
        /\ j.landed = tick.landed /\ j.count = tick.count /\ j.root = tick.root /\ j.obs = tick.obs
        /\ j.cur = [tick.cur EXCEPT ![r] = pr[r]]
    BY <2>0 DEF TickType, WalkPc
  <2>2. \A i \in Pr : j.cur[i] \in {tick.cur[i], pr[i]}
    BY <2>0, <2>1
  <2> HIDE DEF j
  <2>3. MergingOK'
    BY <1>1, <2>1 DEF MergingOK, GatePc, DecidedPc
  <2>4. j.pc \in WalkPc \ {"confirm"} /\ j.pc \notin MergePc \cup {"first"}
    BY <2>1 DEF WalkPc, MergePc, GatePc, DecidedPc
  <2> QED
    BY <1>0, <1>1, <2>0, <2>1, <2>2, <2>3, <2>4, WalkStep
<1>2. CASE tick' = Idle
  BY <1>0, <1>2, EndStep DEF RootInv, WorldType
<1> QED
  BY <1>0, <1>1, <1>2

LEMMA ObserveCiInv == ASSUME RootInv, ObserveCi PROVE RootInv'
<1> DEFINE read == IF tick.count = 0 THEN Open(tick.snap) ELSE {tick.root}
           c == [i \in Pr |-> IF i \in read THEN pr[i] ELSE tick.cur[i]]
           j == [tick EXCEPT !.pc = "read", !.cur = c]
<1>0. tick.pc = "ci" /\ UNCHANGED <<default, pr, ver, last, outside, faults>>
      /\ (tick' = Idle \/ (tick.count < MaxRootMerges /\ tick' = j))
  BY DEF ObserveCi, End
<1>1. CASE tick.count < MaxRootMerges /\ tick' = j
  <2>0. pr \in [Pr -> AnyPr] /\ tick \in TickType /\ tick.cur \in [Pr -> AnyPr] /\ tick.obs \in 0 .. Tip
        /\ tick.pc \in WalkPc
    BY <1>0, Types, TickFields DEF WalkPc
  <2>1. c \in [Pr -> AnyPr] /\ \A i \in Pr : c[i] \in {tick.cur[i], pr[i]}
    BY <2>0
  <2>2. tick' = j
    BY <1>1
  <2> HIDE DEF c
  <2>3. j \in TickType /\ j.pc = "read" /\ j.snap = tick.snap /\ j.tip = tick.tip /\ j.plan = tick.plan
        /\ j.landed = tick.landed /\ j.count = tick.count /\ j.root = tick.root /\ j.obs = tick.obs /\ j.cur = c
    BY <2>0, <2>1 DEF TickType, WalkPc, MergePc
  <2> HIDE DEF j
  <2>4. MergingOK'
    BY <2>2, <2>3 DEF MergingOK, GatePc, DecidedPc
  <2>5. j.pc \in WalkPc \ {"confirm"}
    BY <2>3 DEF WalkPc, MergePc
  <2> QED
    BY <1>0, <1>1, <2>0, <2>1, <2>2, <2>3, <2>4, <2>5, WalkStep
<1>2. CASE tick' = Idle
  BY <1>0, <1>2, EndStep DEF RootInv, WorldType
<1> QED
  BY <1>0, <1>1, <1>2

\* Discovery, and the rediscovery at the midpoint.
LEMMA FreshTick ==
  ASSUME RootInv, Open(pr) # {}, UNCHANGED <<default, pr, ver, last, outside, faults>>, NEW j \in TickType, tick' = j,
         j.pc \in {"first", "plan", "promote"}, j.snap = pr, j.cur = pr, j.tip = Tip, j.root = Root(pr),
         j.plan = Idle.plan, j.obs = 0, j.landed = 0, j.count = 0
  PROVE  RootInv'
<1>0. Tip' = Tip /\ Tip \in Nat /\ Tip >= 1 /\ pr \in [Pr -> AnyPr] /\ pr' = pr /\ ver' = ver
  BY Types DEF Tip
<1> HIDE DEF Tip
<1>1. Root(pr) \in Open(pr) /\ Root(pr) \in Pr /\ \A i \in Open(pr) : Root(pr) <= i
  BY <1>0, RootIsFirst
<1>2. TickShape'
  <2>1. 0 \in 0 .. Tip /\ Tip \in 0 .. Tip /\ 1 \in 1 .. Tip /\ 0 \in 0 .. MaxRootMerges
    BY <1>0, BoundsAssumption
  <2> QED
    BY <1>0, <2>1, IdleShape, SeenNow DEF TickShape
<1>3. SnapOK'
  <2>1. ASSUME NEW i \in Open(pr), NEW k \in Pr, k > i PROVE k \in Open(pr)
    <3>1. i \in 1 .. k - 1 /\ pr[i].state = "open" /\ pr[k] \in AnyPr
      BY <1>0, <2>1, BoundsAssumption DEF Open, Pr
    <3>2. pr[k].state # "merged"
      BY <3>1 DEF RootInv, PrOK, InOrder
    <3> QED
      BY <3>1, <3>2 DEF Open, AnyPr
  <2> QED
    BY <2>1 DEF SnapOK, Open
<1>4. PlanningOK'
  <2>1. TickSeen'
    BY <1>0, SeenNow DEF TickSeen
  <2>2. Tip \in 1 .. Tip
    BY <1>0
  <2> QED
    BY <1>0, <1>3, <2>1, <2>2 DEF PlanningOK
<1>5. RootOK'
  <2>1. ASSUME NEW i \in 1 .. Root(pr) - 1 PROVE pr[i].state = "merged"
    <3>1. i \in Pr /\ ~(Root(pr) <= i)
      BY <1>1, BoundsAssumption DEF Pr
    <3> QED
      BY <1>0, <1>1, <3>1 DEF Open, AnyPr
  <2>2. 0 < MaxRootMerges /\ Root(pr) <= Root(pr)
    BY <1>1, BoundsAssumption DEF Pr
  <2>3. j.pc # "confirm"
    OBVIOUS
  <2> QED
    BY <1>0, <2>1, <2>2, <2>3 DEF RootOK
<1>6. MergingOK'
  BY DEF MergingOK, GatePc, DecidedPc
<1> QED
  BY <1>2, <1>4, <1>5, <1>6, ReadStep

LEMMA DiscoverInv == ASSUME RootInv, Discover PROVE RootInv'
<1> DEFINE c == IF RootFirstEligible(Root(pr)) THEN "first" ELSE "plan"
           j == [Idle EXCEPT !.pc = c, !.snap = pr, !.cur = pr, !.tip = Tip, !.root = Root(pr)]
<1>0. Open(pr) # {} /\ UNCHANGED <<default, pr, ver, last, outside, faults>> /\ tick' = j
  BY DEF Discover
<1>1. Root(pr) \in Pr /\ pr \in [Pr -> AnyPr] /\ Tip \in Nat /\ Idle \in TickType /\ c \in {"first", "plan"}
  BY <1>0, RootIsFirst, Types, IdleShape
<1> HIDE DEF c, Tip
<1>2. j \in TickType /\ j.pc = c /\ j.snap = pr /\ j.cur = pr /\ j.tip = Tip /\ j.root = Root(pr)
      /\ j.plan = Idle.plan /\ j.obs = 0 /\ j.landed = 0 /\ j.count = 0
  BY <1>1, IdleShape DEF TickType, WalkPc
<1> HIDE DEF j
<1> QED
  BY <1>0, <1>1, <1>2, FreshTick

LEMMA MidpointInv == ASSUME RootInv, Midpoint PROVE RootInv'
<1> DEFINE j == [Idle EXCEPT !.pc = "promote", !.mode = "drain", !.snap = pr, !.cur = pr, !.tip = Tip, !.root = Root(pr)]
<1>0. UNCHANGED <<default, pr, ver, last, outside, faults>> /\ (tick' = Idle \/ (tick' = j /\ Open(pr) # {}))
  BY DEF Midpoint, End
<1>1. CASE tick' = j /\ Open(pr) # {}
  <2>1. Root(pr) \in Pr /\ pr \in [Pr -> AnyPr] /\ Tip \in Nat /\ Idle \in TickType
    BY <1>1, RootIsFirst, Types, IdleShape
  <2> HIDE DEF Tip
  <2>2. j \in TickType /\ j.pc = "promote" /\ j.snap = pr /\ j.cur = pr /\ j.tip = Tip /\ j.root = Root(pr)
        /\ j.plan = Idle.plan /\ j.obs = 0 /\ j.landed = 0 /\ j.count = 0
    BY <2>1, IdleShape DEF TickType, WalkPc
  <2> HIDE DEF j
  <2> QED
    BY <1>0, <1>1, <2>2, FreshTick
<1>2. CASE tick' = Idle
  BY <1>0, <1>2, EndStep DEF RootInv, WorldType
<1> QED
  BY <1>0, <1>1, <1>2

LEMMA PlanInv == ASSUME RootInv, Plan PROVE RootInv'
<1>0. tick.pc = "plan" /\ UNCHANGED <<default, pr, ver, last, outside, faults>>
  BY DEF Plan
<1>1. ASSUME WriteBarrier, NEW upto \in Open(tick.snap), NEW deferred \in BOOLEAN,
             tick' = [tick EXCEPT !.pc = "push", !.plan = Plans, !.root = Root(tick.snap),
                                  !.upto = upto, !.deferred = deferred]
      PROVE  RootInv'
  <2> DEFINE j == [tick EXCEPT !.pc = "push", !.plan = Plans, !.root = Root(tick.snap),
                               !.upto = upto, !.deferred = deferred]
  <2>0. Tip' = Tip /\ pr' = pr /\ ver' = ver /\ default' = default
    BY <1>0 DEF Tip
  <2> HIDE DEF Tip
  <2>1. Root(tick.snap) \in Pr /\ Root(tick.snap) <= upto /\ upto \in Nat /\ tick \in TickType /\ Root(tick.snap) \in Nat
    <3>1. upto \in Pr /\ upto \in Nat
      BY Types DEF Open
    <3> QED
      BY <3>1, RootIsFirst, Types
  <2>2. Plans \in [Pr -> AnyHead] /\ (\A i \in Open(tick.snap) : PlanOK(i, Plans[i], tick.snap[i].head))
        /\ \A i \in Pr : Plans[i].on \in 1 .. Tip
    BY <1>0, <1>1, PlansOK, PlansType
  <2>3. j \in TickType /\ j.pc = "push" /\ j.plan = Plans /\ j.root = Root(tick.snap) /\ j.upto = upto
        /\ j.snap = tick.snap /\ j.cur = tick.cur /\ j.tip = tick.tip /\ j.obs = tick.obs /\ j.landed = tick.landed
        /\ j.count = tick.count
    BY <2>1, <2>2 DEF TickType
  <2>4. tick' = j
    BY <1>1
  <2> HIDE DEF j
  <2>5. TickShape'
    BY <2>0, <2>2, <2>3, <2>4 DEF RootInv, TickShape
  <2>6. PlanningOK'
    <3>1. TickSeen' /\ SnapOK' /\ tick.tip \in 1 .. Tip
      BY <1>0, <2>0, <2>3, <2>4 DEF RootInv, PlanningOK, TickSeen, SnapOK, Open
    <3>2. (\A i \in Open(tick.snap) : PlanOK(i, tick.plan[i], tick.snap[i].head))'
      BY <2>0, <2>2, <2>3, <2>4 DEF PlanOK, Open, Own
    <3>3. Root(tick.snap) <= Root(tick.snap)
      BY <2>1
    <3> QED
      BY <2>0, <2>1, <2>3, <2>4, <3>1, <3>2, <3>3 DEF PlanningOK, Root, Open
  <2>7. RootOK' /\ MergingOK'
    BY <2>3, <2>4 DEF RootOK, MergingOK, WalkPc, MergePc, GatePc, DecidedPc
  <2> QED
    BY <1>0, <2>5, <2>6, <2>7, ReadStep
<1>2. CASE tick' = Idle
  BY <1>0, <1>2, EndStep DEF RootInv, WorldType
<1> QED
  BY <1>1, <1>2 DEF Plan, End

\* A leased push replaces exactly the head its plan was made from.
LEMMA PushInv == ASSUME RootInv, Push PROVE RootInv'
<1>r. PICK i \in Pr : i = tick.root
  BY Types
<1> DEFINE j == IF i = tick.upto THEN [tick EXCEPT !.pc = "mid"] ELSE [tick EXCEPT !.root = i + 1]
           p == [pr[i] EXCEPT !.head = tick.plan[i], !.ci = "pending"]
<1>0. tick.pc = "push" /\ UNCHANGED <<default, ver, last, outside, faults>>
      /\ \/ pr' = pr /\ tick' = Idle
         \/ pr' = pr /\ tick' = j
         \/ Leased(i) /\ tick' = j /\ pr' = [pr EXCEPT ![i] = p]
  BY <1>r DEF Push, End
<1>t. Tip' = Tip /\ Tip \in Nat /\ pr \in [Pr -> AnyPr] /\ tick \in TickType /\ i \in Pr /\ i \in Nat /\ i >= 1
      /\ tick.plan \in [Pr -> AnyHead] /\ tick.snap \in [Pr -> AnyPr]
      /\ pr[i] \in AnyPr /\ tick.plan[i] \in AnyHead
  BY <1>0, Types DEF Tip
<1> HIDE DEF Tip
<1>1. CASE pr' = pr /\ tick' = Idle
  BY <1>0, <1>1, EndStep DEF RootInv, WorldType
<1>2. CASE tick' = j /\ (pr' = pr \/ (Leased(i) /\ pr' = [pr EXCEPT ![i] = p]))
  <2>0. SnapOK /\ TickSeen /\ tick.upto \in Open(tick.snap) /\ Root(tick.snap) <= i /\ i <= tick.upto
        /\ tick.tip \in 1 .. Tip /\ \A k \in Open(tick.snap) : PlanOK(k, tick.plan[k], tick.snap[k].head)
    BY <1>0, <1>r DEF RootInv, PlanningOK
  <2>1. Root(tick.snap) \in Open(tick.snap) /\ Root(tick.snap) \in Nat /\ tick.upto \in Pr /\ tick.upto \in Nat
    <3>1. Root(tick.snap) \in Open(tick.snap) /\ Root(tick.snap) \in Pr
      BY <1>t, <2>0, RootIsFirst DEF SnapOK
    <3> QED
      BY <2>0, <3>1, Types DEF Open
  <2>2. i \in Open(tick.snap)
    <3>1. i = Root(tick.snap) \/ i > Root(tick.snap)
      BY <1>t, <2>0, <2>1
    <3> QED
      BY <1>t, <2>0, <2>1, <3>1 DEF SnapOK
  <2>3. p \in AnyPr /\ p.state = pr[i].state /\ p.base = pr[i].base /\ p.head = tick.plan[i]
    BY <1>t DEF AnyPr
  <2> HIDE DEF p
  <2>4. pr' \in [Pr -> AnyPr] /\ (\A k \in Pr : pr'[k].state = pr[k].state /\ pr'[k].base = pr[k].base)
        /\ (\A k \in Pr : pr'[k].head = pr[k].head \/ (k = i /\ Leased(i) /\ pr'[k].head = tick.plan[i]))
    BY <1>t, <1>2, <2>3
  <2>5. Advance
    <3>1. Tip <= Tip' /\ \A k \in Pr : ver[k] <= ver'[k]
      BY <1>0, <1>t, Types
    <3> QED
      BY <1>0, <2>4, <3>1 DEF Advance
  <2>6. ASSUME NEW k \in Pr PROVE PrOK(k)'
    <3>0. PrOK(k)
      BY DEF RootInv
    <3>1. InOrder(k)' /\ Untouched(k)'
      <4>1. \A n \in 1 .. k - 1 : n \in Pr
        BY BoundsAssumption DEF Pr
      <4> QED
        BY <1>0, <1>t, <2>4, <3>0, <4>1 DEF PrOK, InOrder, Untouched, Own
    <3>2. CASE pr'[k].head = pr[k].head
      BY <1>0, <1>t, <2>4, <3>0, <3>1, <3>2 DEF PrOK, OwnKept
    <3>3. CASE k = i /\ Leased(i) /\ pr'[k].head = tick.plan[i]
      <4>1. PlanOK(i, tick.plan[i], pr[i].head)
        BY <2>0, <2>2, <3>3 DEF Leased
      <4>2. OwnKept(i)'
        <5>1. ASSUME NEW v \in 1 .. ver[i] PROVE <<i, v>> \in tick.plan[i].commits
          <6>1. <<i, v>> \in pr[i].head.commits /\ pr[i].head.commits \subseteq Patch
            BY <1>t, <3>0, <3>3 DEF PrOK, OwnKept, AnyPr, AnyHead
          <6>2. <<i, v>> \in Own(i)
            BY <6>1 DEF Own
          <6> QED
            BY <4>1, <6>1, <6>2 DEF PlanOK
        <5> QED
          BY <1>0, <3>3, <5>1 DEF OwnKept
      <4> QED
        BY <1>0, <1>t, <2>4, <3>0, <3>1, <3>3, <4>1, <4>2 DEF PrOK, PlanOK
    <3> QED
      BY <2>4, <3>2, <3>3
  <2>7. /\ tick' \in TickType /\ tick'.pc \in {"push", "mid"}
        /\ tick'.snap = tick.snap /\ tick'.cur = tick.cur /\ tick'.plan = tick.plan /\ tick'.tip = tick.tip
        /\ tick'.obs = tick.obs /\ tick'.landed = tick.landed /\ tick'.count = tick.count /\ tick'.upto = tick.upto
        /\ tick'.pc = "push" => i <= tick'.root /\ tick'.root <= tick.upto
    <3>1. CASE i = tick.upto
      <4>1. tick' = [tick EXCEPT !.pc = "mid"]
        BY <1>2, <3>1
      <4> QED
        BY <1>t, <4>1 DEF TickType
    <3>2. CASE i # tick.upto
      <4>1. i + 1 \in Pr /\ i + 1 <= tick.upto /\ i <= i + 1
        BY <1>t, <2>0, <2>1, <3>2, BoundsAssumption DEF Pr
      <4>2. tick' = [tick EXCEPT !.root = i + 1]
        BY <1>2, <3>2
      <4> QED
        BY <1>0, <1>t, <4>1, <4>2 DEF TickType
    <3> QED
      BY <3>1, <3>2
  <2> HIDE DEF j
  <2>8. WorldType'
    BY <1>0, <1>t, <2>4 DEF RootInv, WorldType
  <2>9. TickShape'
    BY <1>t, <2>7 DEF RootInv, TickShape
  <2>10. PlanningOK'
    <3>1. TickSeen'
      <4>1. Tip' \in Nat /\ ver' \in [Pr -> Nat]
        BY <1>0, <1>t, Types
      <4> QED
        BY <2>0, <2>5, <2>7, <4>1, SeenKept DEF TickSeen
    <3>2. SnapOK'
      BY <2>0, <2>7 DEF SnapOK, Open
    <3>3. (\A k \in Open(tick.snap) : PlanOK(k, tick.plan[k], tick.snap[k].head))'
      BY <1>0, <1>t, <2>0, <2>7 DEF PlanOK, Open, Own
    <3>4. tick'.pc = "push" => Root(tick.snap) <= tick'.root
      <4>1. tick'.root \in Nat
        BY <2>7, BoundsAssumption DEF TickType, Pr
      <4> QED
        BY <1>t, <2>0, <2>1, <2>7, <4>1
    <3> QED
      BY <1>t, <2>0, <2>7, <3>1, <3>2, <3>3, <3>4 DEF PlanningOK, Root, Open
  <2>11. RootOK' /\ MergingOK'
    BY <2>7 DEF RootOK, MergingOK, WalkPc, MergePc, GatePc, DecidedPc
  <2>12. LastOK'
    BY <1>0, <1>t, <2>5, LastKept
  <2> QED
    BY <2>6, <2>8, <2>9, <2>10, <2>11, <2>12 DEF RootInv
<1> QED
  BY <1>0, <1>1, <1>2

\* The root is retargeted when everything before it has landed.
LEMMA PromoteInv == ASSUME RootInv, Promote PROVE RootInv'
<1>r. PICK i \in Pr : i = tick.root
  BY Types
<1> DEFINE c == IF pr[i].base = Default THEN "ci" ELSE "promoted"
           p == [pr[i] EXCEPT !.base = Default]
           j == [tick EXCEPT !.cur[i] = p, !.pc = c]
<1>t. Tip \in Nat /\ pr \in [Pr -> AnyPr] /\ tick \in TickType /\ i \in Pr /\ i \in Nat /\ i >= 1
      /\ tick.cur \in [Pr -> AnyPr] /\ ver \in [Pr -> Nat] /\ pr[i] \in AnyPr
  BY Types
<1>0. tick.pc = "promote" /\ UNCHANGED <<default, ver, last, outside, faults>> /\ Tip' = Tip
      /\ \/ pr' = pr /\ tick' = Idle
         \/ pr' = [pr EXCEPT ![i] = p] /\ tick' = j
  BY <1>r, <1>t DEF Promote, End, Tip
<1> HIDE DEF Tip
<1>1. CASE pr' = pr /\ tick' = Idle
  BY <1>0, <1>1, EndStep DEF RootInv, WorldType
<1>2. CASE pr' = [pr EXCEPT ![i] = p] /\ tick' = j
  <2>1. p \in AnyPr /\ p.state = pr[i].state /\ p.base = Default /\ p.head = pr[i].head /\ c \in {"ci", "promoted"}
    BY <1>t DEF AnyPr, Default
  <2> HIDE DEF p, c
  <2>2. pr' \in [Pr -> AnyPr] /\ (\A k \in Pr : pr'[k].state = pr[k].state /\ pr'[k].head = pr[k].head)
        /\ pr'[i] = p /\ \A k \in Pr : k # i => pr'[k] = pr[k]
    BY <1>t, <1>2, <2>1
  <2>3. j \in TickType /\ j.pc = c /\ j.snap = tick.snap /\ j.tip = tick.tip /\ j.plan = tick.plan
        /\ j.landed = tick.landed /\ j.count = tick.count /\ j.root = tick.root /\ j.obs = tick.obs
        /\ j.cur = [tick.cur EXCEPT ![i] = p]
    BY <1>t, <2>1 DEF TickType, WalkPc
  <2>4. tick' = j
    BY <1>2
  <2> HIDE DEF j
  <2>5. j.cur[i] = p /\ \A k \in Pr : k # i => j.cur[k] = tick.cur[k]
    BY <1>t, <2>3
  <2>6. Advance
    <3>1. Tip <= Tip' /\ \A k \in Pr : ver[k] <= ver'[k]
      BY <1>0, <1>t, Types
    <3> QED
      BY <1>0, <2>1, <2>2, <3>1 DEF Advance
  <2>7. ASSUME NEW k \in Pr PROVE PrOK(k)'
    <3>0. PrOK(k)
      BY DEF RootInv
    <3>1. InOrder(k)'
      <4> SUFFICES ASSUME pr'[k].base = Default \/ pr'[k].state = "merged", NEW n \in 1 .. k - 1
                   PROVE  pr'[n].state = "merged"
        BY DEF InOrder
      <4>1. n \in Pr
        BY BoundsAssumption DEF Pr
      <4>2. pr[n].state = "merged"
        <5>1. CASE k = i
          BY <1>0, <1>r, <5>1 DEF RootInv, RootOK, WalkPc
        <5>2. CASE k # i
          BY <2>2, <3>0, <5>2 DEF PrOK, InOrder
        <5> QED
          BY <5>1, <5>2
      <4> QED
        BY <2>2, <4>1, <4>2
    <3>2. pr'[k].base \in {k - 1, Default}
      BY <2>1, <2>2, <3>0 DEF PrOK
    <3> QED
      BY <1>0, <2>2, <3>0, <3>1, <3>2 DEF PrOK, Untouched, OwnKept, Own
  <2>8. WorldType'
    BY <1>0, <1>t, <2>2 DEF RootInv, WorldType
  <2>9. TickSeen' /\ tick.pc # "idle"
    <3>1. Tip' \in Nat /\ ver' \in [Pr -> Nat]
      BY <1>0, <1>t
    <3>2. ASSUME NEW k \in Pr PROVE /\ SeenOK(k, tick.snap[k], pr'[k], Tip', ver'[k])
                                    /\ SeenOK(k, tick.cur[k], pr'[k], Tip', ver'[k])
      BY <1>0, <2>6, <3>1, SeenKept DEF RootInv, PlanningOK, TickSeen
    <3>3. SeenOK(i, p, p, Tip', ver'[i])
      <4>1. PrOK(i)'
        BY <2>7
      <4> QED
        BY <2>1, <2>2, <4>1 DEF SeenOK, PrOK
    <3> QED
      BY ZenonT(40), <1>0, <2>2, <2>3, <2>4, <2>5, <3>2, <3>3 DEF TickSeen
  <2>10. TickShape'
    <3>1. p.base \in 0 .. i - 1 /\ p.head.on \in 1 .. Tip
      <4>1. 0 \in 0 .. i - 1
        BY <1>t
      <4> QED
        BY <1>t, <2>1, <4>1, SeenNow DEF Default
    <3>2. ASSUME NEW k \in Pr PROVE j.cur[k].base \in 0 .. k - 1 /\ j.cur[k].head.on \in 1 .. Tip
      <4>1. tick.cur[k].base \in 0 .. k - 1 /\ tick.cur[k].head.on \in 1 .. Tip
        BY DEF RootInv, TickShape
      <4> QED
        BY <2>5, <3>1, <4>1
    <3>3. tick' \in TickType /\ tick'.tip = tick.tip /\ tick'.obs = tick.obs /\ tick'.landed = tick.landed
          /\ tick'.count = tick.count /\ tick'.plan = tick.plan /\ tick'.snap = tick.snap /\ tick'.cur = j.cur /\ Tip' = Tip
      BY <1>0, <2>3, <2>4
    <3> QED
      BY <3>2, <3>3 DEF RootInv, TickShape
  <2>11. PlanningOK'
    <3>1. SnapOK' /\ tick.tip \in 1 .. Tip
      BY <1>0, <2>3, <2>4 DEF RootInv, PlanningOK, SnapOK, Open
    <3> QED
      BY <1>0, <2>1, <2>3, <2>4, <2>9, <3>1 DEF PlanningOK
  <2>12. RootOK'
    <3>1. \A n \in 1 .. tick.root - 1 : n \in Pr
      BY <1>r, <1>t, BoundsAssumption DEF Pr
    <3>2. c \notin MergePc \cup {"first"} /\ c # "confirm" /\ tick.pc \in WalkPc
      BY <1>0, <2>1 DEF MergePc, GatePc, DecidedPc, WalkPc
    <3> QED
      BY ZenonT(40), <2>2, <2>3, <2>4, <3>1, <3>2 DEF RootInv, RootOK, Root, Open
  <2>13. MergingOK'
    BY <2>1, <2>3, <2>4 DEF MergingOK, GatePc, DecidedPc
  <2>14. LastOK'
    BY <1>0, <1>t, <2>6, LastKept
  <2> QED
    BY <2>7, <2>8, <2>10, <2>11, <2>12, <2>13, <2>14 DEF RootInv
<1> QED
  BY <1>0, <1>1, <1>2

\* What the gate decided holds of what is merged: the head is the one that was read, its
\* checks have passed, and it stands on the tip that was observed.
LEMMA SquashMergeInv == ASSUME RootInv, SquashMerge PROVE RootInv'
<1>r. PICK i \in Pr : i = tick.root
  BY Types
<1> DEFINE h == pr[i].head
           j == [tick EXCEPT !.pc = "confirm"]
           l == [pr |-> i, head |-> h, before |-> Tip, obs |-> tick.obs, green |-> pr[i].ci = "pass"]
<1>0. tick.pc = "send" /\ UNCHANGED <<ver, outside, faults>>
      /\ \/ tick' = Idle /\ UNCHANGED <<default, pr, last>>
         \/ pr[i].state = "open" /\ h = tick.cur[i].head /\ Land(i) /\ last' = l /\ tick' = j
  BY <1>r DEF SquashMerge, End
<1>1. CASE tick' = Idle /\ UNCHANGED <<default, pr, last>>
  BY <1>0, <1>1, EndStep DEF RootInv, WorldType
<1>2. CASE pr[i].state = "open" /\ h = tick.cur[i].head /\ Land(i) /\ last' = l /\ tick' = j
  <2>t. tick \in TickType /\ Tip \in Nat /\ Tip >= 1 /\ i \in Nat /\ i >= 1 /\ PrOK(i) /\ h \in AnyHead
        /\ tick.pc \in WalkPc \cap MergePc \cap GatePc \cap DecidedPc
    BY <1>0, Types DEF RootInv, PrOK, HeadOK, WalkPc, MergePc, GatePc, DecidedPc
  <2>d. /\ tick.cur[i].base = Default /\ tick.cur[i].ci = "pass" /\ Identical(h, tick.obs) /\ h.on = tick.obs
        /\ tick.obs \in 1 .. Tip /\ SeenOK(i, tick.cur[i], pr[i], Tip, ver[i])
        /\ \A m \in tick.obs .. Tip : \A p \in default[m] : p[1] = 0 \/ p \in default[tick.obs]
        /\ pr[i].ci = "pass"
    BY <1>r, <1>0, <1>2, <2>t DEF RootInv, MergingOK, PlanningOK, TickSeen, Decided, Reachable, Quiet, StillGreen
  <2>w. /\ Advance /\ \A k \in Pr : PrOK(k)'
        /\ default' \in Seq(SUBSET Patch) /\ Tip' = Tip + 1 /\ Tip' \in Nat
        /\ default'[Tip + 1] = MergeTree(h, Tip)
        /\ pr' \in [Pr -> AnyPr] /\ pr'[i].state = "merged"
        /\ \A k \in Pr : k # i => pr'[k] = pr[k]
    BY <1>0, <1>2, <2>d, LandWorld DEF SeenOK
  <2> HIDE DEF Tip, h
  <2>1. j \in TickType /\ j.pc = "confirm" /\ j.snap = tick.snap /\ j.tip = tick.tip /\ j.plan = tick.plan
        /\ j.landed = tick.landed /\ j.count = tick.count /\ j.root = tick.root /\ j.obs = tick.obs /\ j.cur = tick.cur
    BY <2>t DEF TickType, WalkPc, MergePc
  <2>2. tick' = j /\ last' = l
    BY <1>2
  <2>3. last'.pr = i /\ last'.head = h /\ last'.before = Tip /\ last'.obs = tick.obs /\ last'.green = TRUE
    BY <2>2, <2>d
  <2> HIDE DEF j, l
  <2>4. WorldType'
    BY <1>0, <2>t, <2>w DEF RootInv, WorldType
  <2>5. TickShape'
    <3>1. \A k : (k \in 0 .. Tip => k \in 0 .. Tip') /\ (k \in 1 .. Tip => k \in 1 .. Tip')
      BY <2>t, <2>w
    <3> QED
      BY <2>1, <2>2, <3>1 DEF RootInv, TickShape
  <2>6. PlanningOK'
    <3>1. TickSeen'
      <4>1. ver' \in [Pr -> Nat] /\ tick.pc # "idle"
        BY <1>0, Types
      <4> QED
        BY <2>1, <2>2, <2>w, <4>1, SeenKept DEF RootInv, PlanningOK, TickSeen
    <3>2. SnapOK' /\ tick.tip \in 1 .. Tip'
      <4>1. tick.tip \in 1 .. Tip /\ SnapOK
        BY <1>0 DEF RootInv, PlanningOK
      <4> QED
        BY <2>1, <2>2, <2>t, <2>w, <4>1 DEF SnapOK, Open
    <3> QED
      BY <2>1, <2>2, <3>1, <3>2 DEF PlanningOK
  <2>7. RootOK'
    <3>1. \A k \in 1 .. i - 1 : k \in Pr /\ pr'[k] = pr[k]
      <4>1. \A k \in 1 .. i - 1 : k \in Pr /\ k # i
        BY <2>t, BoundsAssumption DEF Pr
      <4> QED
        BY <2>w, <4>1
    <3> QED
      BY ZenonT(40), <1>r, <2>1, <2>2, <2>t, <2>w, <3>1 DEF RootInv, RootOK, Root, Open
  <2>8. MergingOK'
    BY <2>1, <2>2 DEF MergingOK, GatePc, DecidedPc
  <2>9. LastOK'
    <3>1. h.on \in 1 .. Tip /\ Clean(h, default) /\ \A p \in h.commits : p[1] \in 1 .. i
      BY <2>t DEF PrOK, HeadOK, h
    <3>2. \A k \in 1 .. Tip : default'[k] = default[k]
      BY <2>w DEF Advance
    <3>3. ValidatedUnlessRaced'
      BY <2>d, <2>w, <2>3, <3>1, <3>2 DEF ValidatedUnlessRaced, Identical, Tree
    <3>4. RevertFenced'
      <4> SUFFICES ASSUME NEW p \in Reintroduced', NEW k \in 2 .. Tip, p \in default'[k - 1], ~(k <= h.on)
                   PROVE  FALSE
        BY <2>3 DEF RevertFenced
      <4>1. p \in MergeTree(h, Tip) /\ p \notin default[Tip]
        <5>1. Tip \in 1 .. Tip
          BY <2>t
        <5> QED
          BY <2>3, <2>t, <2>w, <3>2, <5>1 DEF Reintroduced
      <4>2. p \in h.commits
        BY <4>1 DEF MergeTree
      <4>3. k - 1 \in tick.obs .. Tip /\ k - 1 \in 1 .. Tip
        BY <2>d, <2>t, <3>1
      <4>4. p \in default[k - 1]
        BY <3>2, <4>3
      <4>5. p \in default[h.on]
        BY <2>d, <2>t, <3>1, <4>2, <4>3, <4>4
      <4> QED
        BY <3>1, <4>2, <4>5 DEF Clean
    <3>5. Tip \in 1 .. Tip' - 1
      BY <2>t, <2>w
    <3> QED
      BY <2>3, <2>t, <3>1, <3>3, <3>4, <3>5 DEF LastOK
  <2> QED
    BY <2>4, <2>5, <2>6, <2>7, <2>8, <2>9, <2>w DEF RootInv
<1> QED
  BY <1>0, <1>1, <1>2

\* The drain goes on with the next member of the snapshot: there is none between the two.
LEMMA ConfirmInv == ASSUME RootInv, Confirm PROVE RootInv'
<1> DEFINE rest == {k \in Open(tick.snap) : k > tick.root}
           n == Min(rest)
           c == tick.count + 1
           j == [tick EXCEPT !.pc = "promote", !.root = n, !.landed = Tip, !.count = c, !.obs = 0]
<1>0. tick.pc = "confirm" /\ UNCHANGED <<default, pr, ver, last, outside, faults>>
      /\ (tick' = Idle \/ (rest # {} /\ tick' = j))
  BY DEF Confirm, DrainNext, End
<1>1. CASE tick' = Idle
  BY <1>0, <1>1, EndStep DEF RootInv, WorldType
<1>2. CASE rest # {} /\ tick' = j
  <2>t. tick \in TickType /\ Tip \in Nat /\ Tip >= 1 /\ tick.root \in Pr /\ tick.root \in Nat /\ tick.root >= 1
        /\ tick.count \in Nat /\ tick.snap \in [Pr -> AnyPr] /\ Tip' = Tip /\ SnapOK
    BY <1>0, Types DEF Tip, RootInv, PlanningOK
  <2>r. /\ Root(tick.snap) <= tick.root /\ tick.count < MaxRootMerges /\ pr[tick.root].state = "merged"
        /\ \A k \in 1 .. tick.root - 1 : pr[k].state = "merged"
    BY <1>0 DEF RootInv, RootOK, WalkPc, MergePc
  <2>1. rest \subseteq Nat /\ rest \subseteq Pr
    BY BoundsAssumption DEF Open, Pr
  <2>2. n \in rest /\ \A k \in rest : n <= k
    <3> HIDE DEF rest
    <3> QED
      BY <1>2, <2>1, LeastIsMin
  <2>3. n \in Pr /\ n \in Nat /\ n > tick.root
    BY <2>1, <2>2
  <2>s. Root(tick.snap) \in Open(tick.snap) /\ Root(tick.snap) \in Nat
    <3>1. Root(tick.snap) \in Open(tick.snap) /\ Root(tick.snap) \in Pr
      BY <2>t, RootIsFirst DEF SnapOK
    <3> QED
      BY <3>1, Types
  <2>4. ASSUME NEW k \in 1 .. n - 1 PROVE pr[k].state = "merged"
    <3>1. k \in 1 .. tick.root - 1 \/ k = tick.root \/ (k > tick.root /\ ~(n <= k))
      BY <2>3, <2>t
    <3>2. CASE k > tick.root /\ ~(n <= k)
      <4>1. k \in Pr /\ k > Root(tick.snap)
        BY <2>3, <2>r, <2>s, <2>t, <3>2, BoundsAssumption DEF Pr
      <4>2. k \in rest
        BY <2>s, <2>t, <3>2, <4>1 DEF SnapOK
      <4> QED
        BY <2>2, <3>2, <4>2
    <3> QED
      BY <2>r, <3>1, <3>2
  <2>c. c \in Nat /\ c = tick.count + 1
    BY <2>t
  <2> HIDE DEF Tip, n, c
  <2>5. j \in TickType /\ j.pc = "promote" /\ j.snap = tick.snap /\ j.tip = tick.tip /\ j.plan = tick.plan
        /\ j.landed = Tip /\ j.count = c /\ j.root = n /\ j.obs = 0 /\ j.cur = tick.cur
    BY <2>3, <2>c, <2>t DEF TickType, WalkPc
  <2>6. tick' = j
    BY <1>2
  <2> HIDE DEF j
  <2>7. TickShape'
    <3>1. c \in 0 .. MaxRootMerges /\ 0 \in 0 .. Tip /\ Tip \in 0 .. Tip
      BY <2>c, <2>r, <2>t, BoundsAssumption
    <3> QED
      BY <2>5, <2>6, <2>t, <3>1 DEF RootInv, TickShape
  <2>8. PlanningOK'
    <3>1. TickSeen' /\ SnapOK' /\ tick.tip \in 1 .. Tip
      BY <1>0, <2>5, <2>6, <2>t DEF RootInv, PlanningOK, TickSeen, SnapOK, Open
    <3> QED
      BY <2>5, <2>6, <2>t, <3>1 DEF PlanningOK
  <2>9. RootOK'
    <3>1. Root(tick.snap) < n /\ Root(tick.snap) <= n
      BY <2>3, <2>r, <2>s, <2>t
    <3>2. j.pc \notin MergePc \cup {"first"} /\ j.pc # "confirm"
      BY <2>5 DEF MergePc, GatePc, DecidedPc
    <3>3. Root(tick.snap)' = Root(tick.snap)
      BY <2>5, <2>6 DEF Root, Open
    <3> QED
      BY <1>0, <2>4, <2>5, <2>6, <3>1, <3>2, <3>3 DEF RootOK
  <2>10. MergingOK'
    BY <2>5, <2>6 DEF MergingOK, GatePc, DecidedPc
  <2> QED
    BY <1>0, <2>7, <2>8, <2>9, <2>10, ReadStep
<1> QED
  BY <1>0, <1>1, <1>2

-----------------------------------------------------------------------------
(* The theorems.                                                           *)

LEMMA StutterInv == ASSUME RootInv, UNCHANGED vars PROVE RootInv'
<1>1. UNCHANGED <<default, pr, ver, tick, last, outside, faults>> /\ Tip' = Tip
  BY DEF vars, Tip
<1>2. TickShape'
  BY <1>1 DEF RootInv, TickShape
<1>3. PlanningOK'
  BY <1>1 DEF RootInv, PlanningOK, TickSeen, SnapOK, PlanOK, Open, Root, Own
<1>4. RootOK'
  BY <1>1 DEF RootInv, RootOK, Root, Open
<1>5. MergingOK'
  BY <1>1 DEF RootInv, MergingOK, Quiet, StillGreen, Decided, Identical, Reachable, MergeTree, Tree
<1> QED
  BY <1>1, <1>2, <1>3, <1>4, <1>5, ReadStep

LEMMA NextInv == RootInv /\ [Next]_vars => RootInv'
<1> SUFFICES ASSUME RootInv, [Next]_vars PROVE RootInv'
  OBVIOUS
<1>1. CASE TickStep
  BY <1>1, DiscoverInv, RootFirstInv, PlanInv, PushInv, MidpointInv, PromoteInv, PromoteConfirmInv, ObserveCiInv,
     ReadRootInv, ReadTipInv, GateInv, AuditInv, SquashMergeInv, ConfirmInv DEF TickStep
<1>2. CASE Environment
  BY <1>2, AbortInv, OtherLandingInv, CiInv, AuthorPushInv, RevertInv, ManualMergeInv, BranchDeletedInv DEF Environment
<1>3. CASE UNCHANGED vars
  BY <1>3, StutterInv
<1> QED
  BY <1>1, <1>2, <1>3 DEF Next

\* The invariant is one of the caravan-owned merge actor: whatever authors, operators and
\* other landings do between any two calls of a tick.
THEOREM RootInvariant == Spec => []RootInv
<1>1. Init => RootInv
  BY InitInv
<1>2. RootInv /\ [Next]_vars => RootInv'
  BY NextInv
<1> QED
  BY <1>1, <1>2, PTL DEF Spec

\* No push of a tick, whatever it was planned from, and no landing ever loses a commit an
\* author has published (apply_prepared_after_write_barrier).
THEOREM AuthorWork == Spec => []AuthorWorkKept
<1>1. RootInv => AuthorWorkKept
  BY DEF RootInv, PrOK, OwnKept, AuthorWorkKept
<1> QED
  BY <1>1, RootInvariant, PTL

LEMMA LandingFromInv == ASSUME RootInv PROVE LandingSound
<1>1. TypeOK
  <2>0. default \in Seq(SUBSET Patch) /\ Tip \in Nat /\ Tip >= 1 /\ tick \in TickType
    BY Types
  <2>1. default # <<>>
    BY <2>0 DEF Tip
  <2> HIDE DEF Tip
  <2>2. ASSUME NEW i \in Pr, NEW q \in AnyPr, q.base \in 0 .. i - 1, q.head.on \in 1 .. Tip PROVE q \in PrType(i)
    <3>1. q = [state |-> q.state, base |-> q.base, head |-> q.head, ci |-> q.ci]
          /\ q.head = [on |-> q.head.on, commits |-> q.head.commits]
      BY DEF AnyPr, AnyHead
    <3> QED
      BY <2>2, <3>1 DEF PrType, HeadType, AnyPr, AnyHead
  <2>3. ASSUME NEW i \in Pr PROVE pr[i] \in PrType(i) /\ ver[i] \in 1 .. MaxVersion
    BY <2>2, SeenNow, Types DEF RootInv, PrOK
  <2>4. ASSUME NEW i \in Pr PROVE {tick.snap[i], tick.cur[i]} \subseteq PrType(i) /\ tick.plan[i] \in HeadType
    <3>1. tick.snap[i] \in PrType(i) /\ tick.cur[i] \in PrType(i)
      <4>1. tick.snap[i] \in AnyPr /\ tick.cur[i] \in AnyPr
        BY Types
      <4> QED
        BY <2>2, <4>1 DEF RootInv, TickShape
    <3>2. tick.plan[i] \in AnyHead /\ tick.plan[i].on \in 1 .. Tip
      BY Types DEF RootInv, TickShape
    <3> QED
      BY <3>1, <3>2 DEF HeadType, AnyHead
  <2>5. tick.root \in Pr
    BY Types
  <2> QED
    BY <2>0, <2>1, <2>3, <2>4, <2>5 DEF TypeOK, RootInv, WorldType, TickShape
<1>2. ValidatedUnlessRaced /\ RevertFenced
  BY DEF RootInv, LastOK, ValidatedUnlessRaced, RevertFenced, Reintroduced
<1> QED
  BY <1>1, <1>2 DEF LandingSound

\* What merge_root lands has passed CI, is the tree that was validated unless the default
\* branch moved after the last check, and brings back nothing that was reverted after the
\* commit its head stands on.
THEOREM Landing == Spec => []LandingSound
<1>1. RootInv => LandingSound
  BY LandingFromInv
<1> QED
  BY <1>1, RootInvariant, PTL

=============================================================================
