---------------------------- MODULE ConcatProofs -----------------------------
(***************************************************************************)
(* Proofs about Concat, for any number of pull requests, commands, faults  *)
(* and pushes of other people.                                             *)
(*                                                                         *)
(* ConcatSound is not inductive.  The invariant says where the heads may   *)
(* be while a concat is under way: each is where the job found it or where *)
(* it put it, or its author has pushed since, and a generation that a      *)
(* lease can hold has the work the job knows of (Tracked).  It says what   *)
(* the job has changed, at each of its places, as long as nobody else      *)
(* changed anything (Followed), and of the fleet that a head which names   *)
(* the current generation of the branch below has all that branch has      *)
(* (FleetOK), which is why a head left as it is need not be rewritten.     *)
(*                                                                         *)
(* The rest is about the operators: walks of the graph are chains without  *)
(* repetition, in a healthy fleet every caravan is the walk from a head,   *)
(* two of them share no member, and so a plan's target is not rewritten;   *)
(* prepared heads lie on each other.  Each recursive function is shown to  *)
(* exist, and to be what its equation says, by least counterexamples.      *)
(***************************************************************************)
EXTENDS Concat, SequenceTheorems, FiniteSetTheorems, NaturalsInduction, WellFoundedInduction, TLAPS

-----------------------------------------------------------------------------
(* Least counterexamples.                                                  *)

LEMMA LeastNatural ==
  ASSUME NEW T, T \subseteq Nat, T # {}
  PROVE  \E x \in T : \A y \in T : x <= y
PROOF
  <1> DEFINE R == OpToRel(<, Nat)
  <1>1. IsWellFoundedOn(R, Nat)  BY NatLessThanWellFounded
  <1>2. PICK x \in T : \A y \in T : <<y, x>> \notin R
    <2> HIDE DEF R
    <2> QED  BY <1>1, WFMin
  <1>3. \A y \in T : <<y, x>> \in R <=> y < x  BY DEF OpToRel
  <1> HIDE DEF R
  <1>4. \A y \in T : ~(y < x)  BY <1>2, <1>3
  <1>5. x \in Nat /\ \A y \in T : y \in Nat  OBVIOUS
  <1> QED  BY <1>4, <1>5

-----------------------------------------------------------------------------
(* The walks of graph.rs.                                                  *)

\* One step of the walk, f having the steps before it.
WalkAt(s, p, seen, n, f) ==
  IF n = 1 THEN <<p>>
  ELSE LET so == f[n - 1]
           kids == Children(s, Last(so))
       IN  IF Cardinality(kids) = 1 /\ kids \cap (seen \cup ToSet(so)) = {}
           THEN Append(so, CHOOSE c \in kids : TRUE) ELSE so

LEMMA WalkIsStepwise ==
  ASSUME NEW s, NEW p, NEW seen
  PROVE  Walk(s, p, seen) = (CHOOSE f : f = [n \in 1 .. N |-> WalkAt(s, p, seen, n, f)])[N]
PROOF BY DEF Walk, WalkAt

Stepwise(s, p, seen, f) == f = [n \in 1 .. N |-> WalkAt(s, p, seen, n, f)]

\* A solution for the first n steps extends to the next one.
LEMMA WalkExists ==
  ASSUME NEW s, NEW p, NEW seen
  PROVE  \E f : Stepwise(s, p, seen, f)
PROOF
  <1> DEFINE Upto(f, n) == f = [i \in 1 .. n |-> WalkAt(s, p, seen, i, f)]
             T == {n \in 0 .. N : ~\E f : Upto(f, n)}
  <1>0. N \in Nat  BY BoundsAssumption
  <1>1. T = {}
    <2> SUFFICES ASSUME T # {} PROVE FALSE  OBVIOUS
    <2>1. PICK n \in T : \A m \in T : n <= m
      <3>1. T \subseteq Nat  BY <1>0
      <3> HIDE DEF T
      <3> QED  BY <3>1, LeastNatural
    <2>2. n \in Nat /\ n <= N /\ ~\E f : Upto(f, n)  BY <1>0
    <2>3. n # 0
      <3> SUFFICES ASSUME n = 0 PROVE FALSE  OBVIOUS
      <3>1. Upto([i \in {} |-> WalkAt(s, p, seen, i, <<>>)], 0)  OBVIOUS
      <3> QED  BY <2>2, <3>1
    <2>4. PICK f : Upto(f, n - 1)
      <3>1. n - 1 \in 0 .. N /\ ~(n <= n - 1)  BY <1>0, <2>2, <2>3
      <3> QED  BY <2>1, <3>1
    <2> DEFINE g == [i \in 1 .. n |-> IF i = n THEN WalkAt(s, p, seen, n, f) ELSE f[i]]
    <2>5. ASSUME NEW i \in 1 .. n PROVE WalkAt(s, p, seen, i, g) = WalkAt(s, p, seen, i, f)
      <3>1. CASE i = 1  BY <3>1 DEF WalkAt
      <3>2. CASE i # 1
        <4>1. g[i - 1] = f[i - 1]  BY <2>2, <3>2
        <4> HIDE DEF g
        <4> QED  BY <4>1 DEF WalkAt
      <3> QED  BY <3>1, <3>2
    <2>6. \A i \in 1 .. n : g[i] = WalkAt(s, p, seen, i, f)
      <3>1. \A i \in 1 .. n - 1 : f[i] = WalkAt(s, p, seen, i, f)  BY <2>4
      <3>2. \A i \in 1 .. n : i = n \/ i \in 1 .. n - 1  BY <2>2
      <3> QED  BY <3>1, <3>2
    <2>7. Upto(g, n)
      <3>1. \A i \in 1 .. n : g[i] = WalkAt(s, p, seen, i, g)  BY <2>5, <2>6
      <3>2. g = [i \in 1 .. n |-> g[i]]  OBVIOUS
      <3> HIDE DEF g
      <3> QED  BY <3>1, <3>2
    <2> HIDE DEF Upto, g
    <2> QED  BY <2>2, <2>7
  <1>2. \E f : Upto(f, N)  BY <1>0, <1>1
  <1> QED  BY <1>2 DEF Stepwise

\* A walk from p: members without repetition, each based on the one before it.
IsWalk(s, p, w) ==
  /\ w \in Seq(PRs) /\ Len(w) >= 1 /\ w[1] = p
  /\ \A i \in 1 .. Len(w) : w[i] \in Active(s)
  /\ \A i \in 2 .. Len(w) : s.pull[w[i]].base = w[i - 1]
  /\ \A i, j \in 1 .. Len(w) : w[i] = w[j] => i = j

LEMMA OneKid ==
  ASSUME NEW K, Cardinality(K) = 1, K \subseteq PRs
  PROVE  (CHOOSE c \in K : TRUE) \in K
PROOF
  <1>1. K # {}  BY FS_EmptySet
  <1> QED  BY <1>1

LEMMA WalkAtIsWalk ==
  ASSUME NEW s, NEW p \in Active(s), NEW seen, NEW n, NEW f, n = 1 \/ IsWalk(s, p, f[n - 1])
  PROVE  IsWalk(s, p, WalkAt(s, p, seen, n, f))
PROOF
  <1>0. Active(s) \subseteq PRs  BY DEF Active
  <1>1. CASE n = 1
    <2>1. <<p>> \in Seq(PRs) /\ Len(<<p>>) = 1 /\ <<p>>[1] = p  BY <1>0
    <2> QED  BY <1>1, <2>1 DEF WalkAt, IsWalk
  <1>2. CASE n # 1
    <2> DEFINE so == f[n - 1]
               kids == Children(s, Last(so))
               c == CHOOSE k \in kids : TRUE
    <2>1. IsWalk(s, p, so)  BY <1>2
    <2>2. CASE Cardinality(kids) = 1 /\ kids \cap (seen \cup ToSet(so)) = {}
      <3>1. kids \subseteq PRs  BY <1>0 DEF Children
      <3>2. c \in kids  BY <2>2, <3>1, OneKid
      <3>3. c \in Active(s) /\ s.pull[c].base = Last(so) /\ c \in PRs  BY <1>0, <3>2 DEF Children
      <3>4. c \notin ToSet(so)  BY <2>2, <3>2
      <3> DEFINE w == Append(so, c)
      <3>5. WalkAt(s, p, seen, n, f) = w  BY <1>2, <2>2 DEF WalkAt
      <3>s. so \in Seq(PRs) /\ Len(so) \in Nat /\ Len(so) >= 1  BY <2>1 DEF IsWalk
      <3>6. /\ w \in Seq(PRs) /\ Len(w) = Len(so) + 1
            /\ \A i \in 1 .. Len(so) : w[i] = so[i]
            /\ w[Len(so) + 1] = c
        <4> HIDE DEF so, c
        <4> QED  BY <3>s, <3>3
      <3>7. Last(so) = so[Len(so)] /\ ToSet(so) = {so[i] : i \in 1 .. Len(so)}
        <4> HIDE DEF so
        <4> QED  BY <3>s DEF Last, ToSet
      <3> HIDE DEF so, c, w, kids
      <3>8. IsWalk(s, p, w)
        <4>1. Len(w) >= 1 /\ w[1] = p  BY <2>1, <3>6, <3>s DEF IsWalk
        <4>2. ASSUME NEW i \in 1 .. Len(w) PROVE w[i] \in Active(s)
          BY <2>1, <3>3, <3>6, <3>s DEF IsWalk
        <4>3. ASSUME NEW i \in 2 .. Len(w) PROVE s.pull[w[i]].base = w[i - 1]
          <5>1. CASE i = Len(so) + 1  BY <3>3, <3>6, <3>7, <3>s, <5>1
          <5>2. CASE i # Len(so) + 1
            <6>1. i \in 2 .. Len(so) /\ i - 1 \in 1 .. Len(so) /\ i \in 1 .. Len(so)  BY <3>6, <3>s, <5>2
            <6> QED  BY <2>1, <3>6, <6>1 DEF IsWalk
          <5> QED  BY <5>1, <5>2
        <4>4. ASSUME NEW i \in 1 .. Len(w), NEW j \in 1 .. Len(w), w[i] = w[j] PROVE i = j
          <5>1. \A k \in 1 .. Len(w) : k = Len(so) + 1 \/ k \in 1 .. Len(so)  BY <3>6, <3>s
          <5>2. \A k \in 1 .. Len(so) : w[k] # c  BY <3>4, <3>6, <3>7
          <5> QED  BY <2>1, <3>6, <4>4, <5>1, <5>2 DEF IsWalk
        <4> QED  BY <3>6, <4>1, <4>2, <4>3, <4>4 DEF IsWalk
      <3> QED  BY <3>5, <3>8
    <2>3. CASE ~(Cardinality(kids) = 1 /\ kids \cap (seen \cup ToSet(so)) = {})
      <3>1. WalkAt(s, p, seen, n, f) = so  BY <1>2, <2>3 DEF WalkAt
      <3> QED  BY <2>1, <3>1
    <2> QED  BY <2>2, <2>3
  <1> QED  BY <1>1, <1>2

LEMMA WalksAreWalks ==
  ASSUME NEW s, NEW p \in Active(s), NEW seen
  PROVE  IsWalk(s, p, Walk(s, p, seen))
PROOF
  <1>0. N \in Nat /\ N >= 1  BY BoundsAssumption DEF Active, PRs
  <1> DEFINE walk == CHOOSE f : f = [n \in 1 .. N |-> WalkAt(s, p, seen, n, f)]
  <1>1. walk = [n \in 1 .. N |-> WalkAt(s, p, seen, n, walk)]
    <2>1. \E f : Stepwise(s, p, seen, f)  BY WalkExists
    <2>2. walk = CHOOSE f : Stepwise(s, p, seen, f)  BY DEF Stepwise
    <2> HIDE DEF walk
    <2>3. Stepwise(s, p, seen, walk)  BY <2>1, <2>2
    <2> QED  BY <2>3 DEF Stepwise
  <1>2. Walk(s, p, seen) = walk[N]  BY WalkIsStepwise
  <1> HIDE DEF walk
  <1> DEFINE T == {n \in 1 .. N : ~IsWalk(s, p, walk[n])}
  <1>3. T = {}
    <2> SUFFICES ASSUME T # {} PROVE FALSE  OBVIOUS
    <2>1. PICK n \in T : \A m \in T : n <= m
      <3>1. T \subseteq Nat  BY <1>0
      <3> HIDE DEF T
      <3> QED  BY <3>1, LeastNatural
    <2>2. n \in 1 .. N /\ ~IsWalk(s, p, walk[n])  OBVIOUS
    <2>3. n = 1 \/ IsWalk(s, p, walk[n - 1])
      <3>1. n # 1 => n - 1 \in 1 .. N /\ ~(n <= n - 1)  BY <1>0, <2>2
      <3> QED  BY <2>1, <3>1
    <2>4. IsWalk(s, p, WalkAt(s, p, seen, n, walk))  BY <2>3, WalkAtIsWalk
    <2>5. walk[n] = WalkAt(s, p, seen, n, walk)  BY <1>1, <2>2
    <2> QED  BY <2>2, <2>4, <2>5
  <1> QED  BY <1>0, <1>2, <1>3

-----------------------------------------------------------------------------
(* The caravans of a fleet without problems.                               *)

\* One step of the collection: the walks from the heads, then from number n.
CaravansAt(s, n, f) ==
  IF n = 0 THEN {Walk(s, h, {}) : h \in Heads(s)}
  ELSE LET so == f[n - 1]
           seen == UNION {ToSet(c) : c \in so}
       IN  so \cup (IF n \in Active(s) \ seen THEN {Walk(s, n, seen)} ELSE {})

LEMMA CaravansAreStepwise ==
  ASSUME NEW s
  PROVE  Caravans(s) = (CHOOSE f : f = [n \in 0 .. N |-> CaravansAt(s, n, f)])[N]
PROOF BY DEF Caravans, CaravansAt

LEMMA CaravansExist ==
  \A s : \E f : f = [n \in 0 .. N |-> CaravansAt(s, n, f)]
PROOF
  <1> SUFFICES ASSUME NEW s PROVE \E f : f = [n \in 0 .. N |-> CaravansAt(s, n, f)]
    OBVIOUS
  <1> DEFINE Upto(f, n) == f = [i \in 0 .. n |-> CaravansAt(s, i, f)]
             T == {n \in 0 .. N : ~\E f : Upto(f, n)}
  <1>0. N \in Nat  BY BoundsAssumption
  <1>1. T = {}
    <2> SUFFICES ASSUME T # {} PROVE FALSE  OBVIOUS
    <2>1. PICK n \in T : \A m \in T : n <= m
      <3>1. T \subseteq Nat  BY <1>0
      <3> HIDE DEF T
      <3> QED  BY <3>1, LeastNatural
    <2>2. n \in Nat /\ n <= N /\ ~\E f : Upto(f, n)  BY <1>0
    <2>3. n # 0
      <3> SUFFICES ASSUME n = 0 PROVE FALSE  OBVIOUS
      <3> DEFINE g == [i \in 0 .. 0 |-> CaravansAt(s, 0, <<>>)]
      <3>1. \A i \in 0 .. 0 : CaravansAt(s, i, g) = CaravansAt(s, 0, <<>>)
        <4> HIDE DEF g
        <4> QED  BY DEF CaravansAt
      <3>2. Upto(g, 0)  BY <3>1
      <3> HIDE DEF g, Upto
      <3> QED  BY <2>2, <3>2
    <2>4. PICK f : Upto(f, n - 1)
      <3>1. n - 1 \in 0 .. N /\ ~(n <= n - 1)  BY <1>0, <2>2, <2>3
      <3> QED  BY <2>1, <3>1
    <2> DEFINE g == [i \in 0 .. n |-> IF i = n THEN CaravansAt(s, n, f) ELSE f[i]]
    <2>5. ASSUME NEW i \in 0 .. n PROVE CaravansAt(s, i, g) = CaravansAt(s, i, f)
      <3>1. CASE i = 0  BY <3>1 DEF CaravansAt
      <3>2. CASE i # 0
        <4>1. g[i - 1] = f[i - 1]  BY <2>2, <3>2
        <4> HIDE DEF g
        <4> QED  BY <4>1 DEF CaravansAt
      <3> QED  BY <3>1, <3>2
    <2>6. \A i \in 0 .. n : g[i] = CaravansAt(s, i, f)
      <3>1. \A i \in 0 .. n - 1 : f[i] = CaravansAt(s, i, f)  BY <2>4
      <3>2. \A i \in 0 .. n : i = n \/ i \in 0 .. n - 1  BY <2>2
      <3> QED  BY <3>1, <3>2
    <2>7. Upto(g, n)
      <3>1. \A i \in 0 .. n : g[i] = CaravansAt(s, i, g)  BY <2>5, <2>6
      <3>2. g = [i \in 0 .. n |-> g[i]]  OBVIOUS
      <3> HIDE DEF g
      <3> QED  BY <3>1, <3>2
    <2> HIDE DEF Upto, g
    <2> QED  BY <2>2, <2>7
  <1>2. \E f : Upto(f, N)  BY <1>0, <1>1
  <1> QED  BY <1>2

\* The walks from the heads are all there; any other begins at a member that is no head.
Collected(s, C) ==
  /\ \A h \in Heads(s) : Walk(s, h, {}) \in C
  /\ \A c \in C : \/ \E h \in Heads(s) : c = Walk(s, h, {})
                  \/ \E p \in Active(s) \ Heads(s) : \E seen : c = Walk(s, p, seen)

LEMMA CollectedAt ==
  ASSUME NEW s, NEW n, NEW f, n = 0 \/ Collected(s, f[n - 1])
  PROVE  Collected(s, CaravansAt(s, n, f))
PROOF
  <1>1. CASE n = 0  BY <1>1 DEF CaravansAt, Collected
  <1>2. CASE n # 0
    <2> DEFINE so == f[n - 1]
               seen == UNION {ToSet(c) : c \in so}
    <2>1. Collected(s, so)  BY <1>2
    <2>2. ASSUME NEW h \in Heads(s) PROVE h \in seen
      <3>1. Walk(s, h, {}) \in so /\ h \in Active(s)  BY <2>1 DEF Collected, Heads
      <3>2. IsWalk(s, h, Walk(s, h, {}))  BY <3>1, WalksAreWalks
      <3>3. h \in ToSet(Walk(s, h, {}))
        <4> DEFINE w == Walk(s, h, {})
        <4>1. w \in Seq(PRs) /\ Len(w) >= 1 /\ w[1] = h  BY <3>2 DEF IsWalk
        <4> HIDE DEF w
        <4>2. 1 \in DOMAIN w  BY <4>1
        <4>3. h \in ToSet(w)  BY <4>1, <4>2 DEF ToSet
        <4> QED  BY <4>3 DEF w
      <3> QED  BY <3>1, <3>3
    <2>3. CaravansAt(s, n, f) = so \cup (IF n \in Active(s) \ seen THEN {Walk(s, n, seen)} ELSE {})
      BY <1>2 DEF CaravansAt
    <2> HIDE DEF so, seen
    <2> QED  BY <2>1, <2>2, <2>3 DEF Collected
  <1> QED  BY <1>1, <1>2

LEMMA CaravansAreCollected ==
  ASSUME NEW s
  PROVE  Collected(s, Caravans(s))
PROOF
  <1>0. N \in Nat  BY BoundsAssumption
  <1> DEFINE upTo == CHOOSE f : f = [n \in 0 .. N |-> CaravansAt(s, n, f)]
  <1>1. upTo = [n \in 0 .. N |-> CaravansAt(s, n, upTo)]
    <2> DEFINE P(f) == f = [n \in 0 .. N |-> CaravansAt(s, n, f)]
    <2>1. \E f : P(f)  BY CaravansExist, Zenon
    <2>2. upTo = CHOOSE f : P(f)  OBVIOUS
    <2> HIDE DEF P, upTo
    <2>3. P(upTo)  BY <2>1, <2>2
    <2> QED  BY <2>3 DEF P
  <1>2. Caravans(s) = upTo[N]  BY CaravansAreStepwise
  <1> HIDE DEF upTo
  <1> DEFINE T == {n \in 0 .. N : ~Collected(s, upTo[n])}
  <1>3. T = {}
    <2> SUFFICES ASSUME T # {} PROVE FALSE  OBVIOUS
    <2>1. PICK n \in T : \A m \in T : n <= m
      <3>1. T \subseteq Nat  BY <1>0
      <3> HIDE DEF T
      <3> QED  BY <3>1, LeastNatural
    <2>2. n \in 0 .. N /\ ~Collected(s, upTo[n])  OBVIOUS
    <2>3. n = 0 \/ Collected(s, upTo[n - 1])
      <3>1. n # 0 => n - 1 \in 0 .. N /\ ~(n <= n - 1)  BY <1>0, <2>2
      <3> QED  BY <2>1, <3>1
    <2>4. Collected(s, CaravansAt(s, n, upTo))  BY <2>3, CollectedAt
    <2>5. upTo[n] = CaravansAt(s, n, upTo)  BY <1>1, <2>2
    <2> QED  BY <2>2, <2>4, <2>5
  <1> QED  BY <1>0, <1>2, <1>3

\* Without problems every caravan is the walk from a head.
LEMMA HealthyCaravan ==
  ASSUME NEW s, Problems(s) = {}, NEW c \in Caravans(s)
  PROVE  \E h \in Heads(s) : c = Walk(s, h, {}) /\ IsWalk(s, h, c)
PROOF
  <1>1. Heads(s) \subseteq Active(s)  BY DEF Heads
  <1>2. Head(c) \in Heads(s)
    <2> SUFFICES ASSUME Head(c) \notin Heads(s) PROVE FALSE  OBVIOUS
    <2>1. Problem("missing_head", Head(c), ToSet(c)) \in Problems(s)  BY DEF Problems
    <2> QED  BY <2>1
  <1>3. CASE \E h \in Heads(s) : c = Walk(s, h, {})  BY <1>1, <1>3, WalksAreWalks
  <1>4. ASSUME NEW p \in Active(s) \ Heads(s), NEW seen, c = Walk(s, p, seen) PROVE FALSE
    <2>1. IsWalk(s, p, c)  BY <1>4, WalksAreWalks
    <2>2. Head(c) = p  BY <2>1 DEF IsWalk
    <2> QED  BY <1>2, <2>2
  <1> QED  BY <1>3, <1>4, CaravansAreCollected DEF Collected

\* Two walks from heads that meet are walks from one head: going back from where they
\* meet, both pass the same members.
LEMMA WalksMeet ==
  ASSUME NEW s, NEW g \in Heads(s), NEW h \in Heads(s), NEW v, NEW w, IsWalk(s, g, v), IsWalk(s, h, w),
         NEW k \in 1 .. Len(v), NEW l \in 1 .. Len(w), v[k] = w[l]
  PROVE  g = h
PROOF
  <1> DEFINE T == {i \in 1 .. Len(v) : \E j \in 1 .. Len(w) : v[i] = w[j]}
  <1>l. Len(v) \in Nat /\ Len(w) \in Nat  BY DEF IsWalk
  <1>1. PICK i \in T : \A m \in T : i <= m
    <2>1. T \subseteq Nat /\ T # {}  BY <1>l
    <2> HIDE DEF T
    <2> QED  BY <2>1, LeastNatural
  <1>2. PICK j \in 1 .. Len(w) : v[i] = w[j]  OBVIOUS
  <1>h. \A x \in Heads(s) : s.pull[x].base \notin Active(s)  BY DEF Heads
  <1>3. i # 1 => v[i - 1] \in Active(s) /\ s.pull[v[i]].base = v[i - 1] /\ i - 1 \in 1 .. Len(v)
    <2>1. i # 1 => i \in 2 .. Len(v) /\ i - 1 \in 1 .. Len(v)  BY <1>l
    <2> QED  BY <2>1 DEF IsWalk
  <1>4. j # 1 => w[j - 1] \in Active(s) /\ s.pull[w[j]].base = w[j - 1] /\ j - 1 \in 1 .. Len(w)
    <2>1. j # 1 => j \in 2 .. Len(w) /\ j - 1 \in 1 .. Len(w)  BY <1>l
    <2> QED  BY <2>1 DEF IsWalk
  <1>5. v[1] = g /\ w[1] = h  BY DEF IsWalk
  <1>6. CASE i = 1
    <2>1. j = 1  BY <1>2, <1>4, <1>5, <1>6, <1>h
    <2> QED  BY <1>2, <1>5, <1>6, <2>1
  <1>7. CASE i # 1
    <2>1. j # 1  BY <1>2, <1>3, <1>5, <1>7, <1>h
    <2>2. i - 1 \in T  BY <1>2, <1>3, <1>4, <1>7, <2>1
    <2>3. i \in Nat  BY <1>l
    <2> QED  BY <1>1, <2>2, <2>3
  <1> QED  BY <1>6, <1>7

-----------------------------------------------------------------------------
(* A plan is of two caravans that share no member.                         *)

PlanOK(plan, fleet) ==
  /\ plan.source \in Seq(PRs) /\ Len(plan.source) >= 1
  /\ \A i, j \in 1 .. Len(plan.source) : plan.source[i] = plan.source[j] => i = j
  /\ Last(plan.target) \in PRs \ ToSet(plan.source)
  /\ plan.old = [p \in ToSet(plan.source) |-> fleet[p]]
  /\ plan.tail = fleet[Last(plan.target)]

LEMMA PlansAreOK ==
  ASSUME NEW s, NEW plan \in Plans(s)
  PROVE  PlanOK(plan, s.pull)
PROOF
  <1>1. Problems(s) = {}  BY DEF Plans
  <1>2. PICK v \in Caravans(s), w \in Caravans(s) : v # w /\ plan = PlanFrom(s, v, w)
    <2>1. PICK q \in Caravans(s) \X Caravans(s) : q[1] # q[2] /\ plan = PlanFrom(s, q[1], q[2])  BY <1>1 DEF Plans
    <2> QED  BY <2>1
  <1>3. PICK g \in Heads(s) : v = Walk(s, g, {}) /\ IsWalk(s, g, v)  BY <1>1, HealthyCaravan
  <1>4. PICK h \in Heads(s) : w = Walk(s, h, {}) /\ IsWalk(s, h, w)  BY <1>1, HealthyCaravan
  <1>5. /\ plan.source = v /\ plan.target = w
        /\ plan.old = [p \in ToSet(v) |-> s.pull[p]] /\ plan.tail = s.pull[Last(w)]
    BY <1>2 DEF PlanFrom
  <1>6. w \in Seq(PRs) /\ Len(w) \in 1 .. Len(w) /\ v \in Seq(PRs)  BY <1>3, <1>4 DEF IsWalk
  <1>7. Last(w) = w[Len(w)] /\ Last(w) \in PRs  BY <1>6 DEF Last
  <1>8. Last(w) \notin ToSet(v)
    <2> SUFFICES ASSUME Last(w) \in ToSet(v) PROVE FALSE  OBVIOUS
    <2>1. PICK k \in 1 .. Len(v) : v[k] = w[Len(w)]  BY <1>6, <1>7 DEF ToSet
    <2>2. g = h  BY <1>3, <1>4, <1>6, <2>1, WalksMeet
    <2> QED  BY <1>2, <1>3, <1>4, <2>2
  <1> QED  BY <1>3, <1>5, <1>7, <1>8 DEF PlanOK, IsWalk

-----------------------------------------------------------------------------
(* The heads that a plan prepares.                                         *)

HeadType == [rev : Nat, onto : (0 .. N) \X Nat, has : SUBSET PRs]

\* The head of one member, f having those of the members before it.
HeadAt(plan, i, f) ==
  LET r == plan.old[plan.source[i]]
      below == IF i = 1 THEN HeadOf(plan.tail) ELSE f[i - 1]
      onto == <<IF i = 1 THEN Last(plan.target) ELSE plan.source[i - 1], below.rev>>
      range == IF i = 1 THEN r.has ELSE r.has \ plan.old[plan.source[i - 1]].has
  IN  IF r.onto = onto THEN HeadOf(r)
      ELSE [rev |-> r.rev + 1, onto |-> onto, has |-> below.has \cup range]

InTurn(plan, f) == f = [i \in DOMAIN plan.source |-> HeadAt(plan, i, f)]

LEMMA PreparedInTurn ==
  ASSUME NEW plan
  PROVE  PreparedHeads(plan) =
           [p \in ToSet(plan.source) |->
              (CHOOSE f : InTurn(plan, f))[CHOOSE i \in DOMAIN plan.source : plan.source[i] = p]]
PROOF BY DEF PreparedHeads, HeadAt, InTurn

LEMMA HeadsExist ==
  ASSUME NEW plan, plan.source \in Seq(PRs)
  PROVE  \E f : InTurn(plan, f)
PROOF
  <1> DEFINE L == Len(plan.source)
             Upto(f, n) == f = [i \in 1 .. n |-> HeadAt(plan, i, f)]
             T == {n \in 0 .. L : ~\E f : Upto(f, n)}
  <1>0. L \in Nat /\ DOMAIN plan.source = 1 .. L  OBVIOUS
  <1> HIDE DEF L
  <1>1. T = {}
    <2> SUFFICES ASSUME T # {} PROVE FALSE  OBVIOUS
    <2>1. PICK n \in T : \A m \in T : n <= m
      <3>1. T \subseteq Nat  BY <1>0
      <3> HIDE DEF T
      <3> QED  BY <3>1, LeastNatural
    <2>2. n \in Nat /\ n <= L /\ ~\E f : Upto(f, n)  BY <1>0
    <2>3. n # 0
      <3> SUFFICES ASSUME n = 0 PROVE FALSE  OBVIOUS
      <3>1. Upto([i \in {} |-> HeadAt(plan, i, <<>>)], 0)  OBVIOUS
      <3> QED  BY <2>2, <3>1
    <2>4. PICK f : Upto(f, n - 1)
      <3>1. n - 1 \in 0 .. L /\ ~(n <= n - 1)  BY <1>0, <2>2, <2>3
      <3> QED  BY <2>1, <3>1
    <2> DEFINE g == [i \in 1 .. n |-> IF i = n THEN HeadAt(plan, n, f) ELSE f[i]]
    <2>5. ASSUME NEW i \in 1 .. n PROVE HeadAt(plan, i, g) = HeadAt(plan, i, f)
      <3>1. CASE i = 1  BY <3>1 DEF HeadAt
      <3>2. CASE i # 1
        <4>1. g[i - 1] = f[i - 1]  BY <2>2, <3>2
        <4> HIDE DEF g
        <4> QED  BY <4>1 DEF HeadAt
      <3> QED  BY <3>1, <3>2
    <2>6. \A i \in 1 .. n : g[i] = HeadAt(plan, i, f)
      <3>1. \A i \in 1 .. n - 1 : f[i] = HeadAt(plan, i, f)  BY <2>4
      <3>2. \A i \in 1 .. n : i = n \/ i \in 1 .. n - 1  BY <2>2
      <3> QED  BY <3>1, <3>2
    <2>7. Upto(g, n)
      <3>1. \A i \in 1 .. n : g[i] = HeadAt(plan, i, g)  BY <2>5, <2>6
      <3>2. g = [i \in 1 .. n |-> g[i]]  OBVIOUS
      <3> HIDE DEF g
      <3> QED  BY <3>1, <3>2
    <2> HIDE DEF Upto, g
    <2> QED  BY <2>2, <2>7
  <1>2. \E f : Upto(f, L)  BY <1>0, <1>1
  <1> QED  BY <1>0, <1>2 DEF InTurn

\* What is below member i of a plan, as a branch and as a head.
BranchBelow(plan, i) == IF i = 1 THEN Last(plan.target) ELSE plan.source[i - 1]
HeadBelow(plan, heads, i) == IF i = 1 THEN HeadOf(plan.tail) ELSE heads[plan.source[i - 1]]

\* A prepared head is on the one below it: already, or rewritten and then a new generation
\* with everything that the one below has.
OnBelow(plan, i, head, below) ==
  LET r == plan.old[plan.source[i]] IN
  /\ head \in HeadType /\ head.onto = <<BranchBelow(plan, i), below.rev>>
  /\ \/ head = HeadOf(r)
     \/ head.rev = r.rev + 1 /\ head.onto # r.onto /\ below.has \subseteq head.has

HeadsOK(plan, heads) ==
  /\ heads \in [ToSet(plan.source) -> HeadType]
  /\ \A i \in 1 .. Len(plan.source) :
       OnBelow(plan, i, heads[plan.source[i]], HeadBelow(plan, heads, i))

LEMMA HeadIsTyped ==
  ASSUME NEW r \in PullRequest
  PROVE  HeadOf(r) \in HeadType /\ HeadOf(r).rev = r.rev /\ HeadOf(r).onto = r.onto /\ HeadOf(r).has = r.has
PROOF BY DEF HeadOf, HeadType, PullRequest

LEMMA HeadAtIsOnBelow ==
  ASSUME NEW plan, NEW fleet \in [PRs -> PullRequest], PlanOK(plan, fleet), NEW i \in 1 .. Len(plan.source), NEW f,
         i = 1 \/ f[i - 1] \in HeadType
  PROVE  OnBelow(plan, i, HeadAt(plan, i, f), IF i = 1 THEN HeadOf(plan.tail) ELSE f[i - 1])
PROOF
  <1> DEFINE r == plan.old[plan.source[i]]
             below == IF i = 1 THEN HeadOf(plan.tail) ELSE f[i - 1]
             onto == <<BranchBelow(plan, i), below.rev>>
  <1>1. plan.source[i] \in PRs /\ plan.source[i] \in ToSet(plan.source)  BY DEF PlanOK, ToSet
  <1>2. r \in PullRequest  BY <1>1 DEF PlanOK
  <1>3. HeadOf(plan.tail) \in HeadType  BY HeadIsTyped DEF PlanOK
  <1>4. below \in HeadType  BY <1>3
  <1>5. BranchBelow(plan, i) \in PRs
    <2>1. i # 1 => i - 1 \in 1 .. Len(plan.source)  BY DEF PlanOK
    <2> QED  BY <2>1 DEF PlanOK, BranchBelow
  <1>6. PRs \subseteq 0 .. N  BY BoundsAssumption DEF PRs
  <1>7. onto \in (0 .. N) \X Nat  BY <1>4, <1>5, <1>6 DEF HeadType
  <1>8. CASE r.onto = onto
    <2>1. HeadAt(plan, i, f) = HeadOf(r)  BY <1>8 DEF HeadAt, BranchBelow
    <2>2. HeadOf(r) \in HeadType /\ HeadOf(r).onto = onto  BY <1>2, <1>8, HeadIsTyped
    <2> HIDE DEF below, onto
    <2> QED  BY <2>1, <2>2 DEF OnBelow, onto, below
  <1>9. CASE r.onto # onto
    <2> DEFINE range == IF i = 1 THEN r.has ELSE r.has \ plan.old[plan.source[i - 1]].has
               head == [rev |-> r.rev + 1, onto |-> onto, has |-> below.has \cup range]
    <2>1. HeadAt(plan, i, f) = head  BY <1>9 DEF HeadAt, BranchBelow
    <2>2. r.has \subseteq PRs /\ r.rev \in Nat  BY <1>2 DEF PullRequest
    <2>3. below.has \subseteq PRs  BY <1>4 DEF HeadType
    <2> HIDE DEF below, onto, r
    <2>4. head \in HeadType  BY <1>7, <2>2, <2>3 DEF HeadType
    <2>5. head.rev = r.rev + 1 /\ head.onto = onto /\ below.has \subseteq head.has  OBVIOUS
    <2> HIDE DEF head
    <2> QED  BY <1>9, <2>1, <2>4, <2>5 DEF OnBelow, onto, below, r
  <1> QED  BY <1>8, <1>9

LEMMA PreparedHeadsAreOK ==
  ASSUME NEW plan, NEW fleet \in [PRs -> PullRequest], PlanOK(plan, fleet)
  PROVE  HeadsOK(plan, PreparedHeads(plan))
PROOF
  <1> DEFINE L == Len(plan.source)
             new == CHOOSE f : InTurn(plan, f)
             heads == PreparedHeads(plan)
  <1>0. plan.source \in Seq(PRs) /\ L \in Nat /\ DOMAIN plan.source = 1 .. L  BY DEF PlanOK
  <1>1. \A i \in 1 .. L : new[i] = HeadAt(plan, i, new)
    <2>1. InTurn(plan, new)  BY <1>0, HeadsExist
    <2> HIDE DEF new, L
    <2> QED  BY <1>0, <2>1 DEF InTurn
  <1>2. heads = [p \in ToSet(plan.source) |-> new[CHOOSE i \in DOMAIN plan.source : plan.source[i] = p]]
    BY PreparedInTurn
  <1> HIDE DEF new, heads
  <1>3. ASSUME NEW i \in 1 .. L PROVE heads[plan.source[i]] = new[i]
    <2>1. plan.source[i] \in ToSet(plan.source)  BY <1>0 DEF ToSet
    <2>2. (CHOOSE j \in DOMAIN plan.source : plan.source[j] = plan.source[i]) = i  BY <1>0 DEF PlanOK
    <2> QED  BY <1>2, <2>1, <2>2
  <1> DEFINE T == {n \in 1 .. L : new[n] \notin HeadType}
  <1>4. T = {}
    <2> SUFFICES ASSUME T # {} PROVE FALSE  OBVIOUS
    <2>1. PICK n \in T : \A m \in T : n <= m
      <3>1. T \subseteq Nat  BY <1>0
      <3> HIDE DEF T
      <3> QED  BY <3>1, LeastNatural
    <2>2. n \in 1 .. L /\ new[n] \notin HeadType  OBVIOUS
    <2>3. n = 1 \/ new[n - 1] \in HeadType
      <3>1. n # 1 => n - 1 \in 1 .. L /\ ~(n <= n - 1)  BY <1>0, <2>2
      <3> QED  BY <2>1, <3>1
    <2>4. HeadAt(plan, n, new) \in HeadType  BY <2>2, <2>3, HeadAtIsOnBelow DEF OnBelow
    <2> QED  BY <1>1, <2>2, <2>4
  <1>5. ASSUME NEW i \in 1 .. L PROVE OnBelow(plan, i, heads[plan.source[i]], HeadBelow(plan, heads, i))
    <2>1. i # 1 => i - 1 \in 1 .. L  BY <1>0
    <2>2. i = 1 \/ new[i - 1] \in HeadType  BY <1>4, <2>1
    <2>3. OnBelow(plan, i, HeadAt(plan, i, new), IF i = 1 THEN HeadOf(plan.tail) ELSE new[i - 1])  BY <2>2, HeadAtIsOnBelow
    <2>4. i # 1 => heads[plan.source[i - 1]] = new[i - 1]  BY <1>3, <2>1
    <2>5. HeadBelow(plan, heads, i) = IF i = 1 THEN HeadOf(plan.tail) ELSE new[i - 1]  BY <2>4 DEF HeadBelow
    <2> QED  BY <1>1, <1>3, <2>3, <2>5
  <1>6. heads \in [ToSet(plan.source) -> HeadType]
    <2> SUFFICES ASSUME NEW p \in ToSet(plan.source) PROVE heads[p] \in HeadType  BY <1>2
    <2>1. PICK i \in 1 .. L : plan.source[i] = p  BY <1>0 DEF ToSet
    <2> QED  BY <1>3, <1>4, <2>1
  <1> QED  BY <1>5, <1>6 DEF HeadsOK, heads

-----------------------------------------------------------------------------
(* The inductive invariant.                                                *)

\* The fields of a job.
IsJob(j) ==
  j = [at |-> j.at, plan |-> j.plan, next |-> j.next, heads |-> j.heads, root |-> j.root, lost |-> j.lost,
       since |-> j.since, begun |-> j.begun, work |-> j.work, report |-> j.report]

\* A head names a generation that the branch below it has had; while it still has it, all
\* that is below is in the head.
FleetOK(fleet) ==
  \A p \in PRs :
    LET b == fleet[p].onto[1] IN
    b \in PRs => /\ fleet[p].onto[2] <= fleet[b].rev
                 /\ fleet[p].onto[2] = fleet[b].rev => fleet[b].has \subseteq fleet[p].has

Prepared(j) == j.at # "prepare"
Moved(j) == {p \in ToSet(j.plan.source) : j.heads[p] # HeadOf(j.plan.old[p])}

\* A pull request is where the job found it, or where the job put it, or has been pushed to
\* by its author since; k is what its head has of its author's work.
AsFound(j, p, r, k) ==
  /\ r.onto = j.begun[p].onto /\ r.has = j.begun[p].has /\ r.rev >= j.begun[p].rev
  /\ r.rev = j.begun[p].rev => k = j.work[p]
AsPut(j, p, r, k) ==
  /\ Prepared(j) /\ p \in Moved(j)
  /\ r.onto = j.heads[p].onto /\ r.has = j.heads[p].has /\ r.rev >= j.heads[p].rev
  /\ r.rev = j.heads[p].rev => k = j.work[p]
Tracked(j, fleet, kept) ==
  \A p \in PRs : AsFound(j, p, fleet[p], kept[p]) \/ AsPut(j, p, fleet[p], kept[p])

\* The plan is of the fleet that the job began with, and its heads are prepared from it.
Grounded(j) ==
  /\ j.begun \in [PRs -> PullRequest] /\ FleetOK(j.begun) /\ PlanOK(j.plan, j.begun)
  /\ Prepared(j) => HeadsOK(j.plan, j.heads)

\* What a job that nobody disturbed has changed, at each of its places.
Unwritten == {"prepare", "verify", "push"}
Written == {"check", "commit", "final", "journal"}
Rebased == {"final", "journal", "recheck", "uncommit"}
Undoing == {"restore", "unclear"}
AsLeft(j, p, r) ==
  /\ r.labels = j.begun[p].labels /\ r.auto = j.begun[p].auto
  /\ \/ p = Head(j.plan.source) /\ (j.at \in Rebased \/ (j.lost /\ j.at \in Undoing))
     \/ r.base = j.begun[p].base
  /\ \/ HeadOf(r) = HeadOf(j.begun[p])
     \/ Prepared(j) /\ p \in Moved(j) /\ HeadOf(r) = j.heads[p]
  /\ j.at \in Unwritten => HeadOf(r) = HeadOf(j.begun[p])
  /\ j.at \in Written /\ p \in ToSet(j.plan.source) => HeadOf(r) = j.heads[p]
Followed(j, s) ==
  /\ \A p \in PRs : AsLeft(j, p, s.pull[p])
  /\ j.at = "journal" => j.plan.target \o j.plan.source \in Caravans(s)

ConcatTypeOK ==
  /\ pull \in [PRs -> PullRequest] /\ tip \in Nat /\ outside \in Nat
  /\ authored \in [made : [PRs -> SUBSET Nat], kept : [PRs -> SUBSET Nat]]
  /\ IsJob(job) /\ job.since \in Nat /\ job.since <= outside

JobOK ==
  Busy => /\ Grounded(job) /\ Tracked(job, pull, authored.kept)
          /\ outside = job.since => Followed(job, Snapshot)

ConcatInv == ConcatTypeOK /\ FleetOK(pull) /\ JobOK /\ ConcatSound

-----------------------------------------------------------------------------
(* Records.                                                                *)

LEMMA HeadEquals ==
  ASSUME NEW r \in PullRequest, NEW q \in PullRequest
  PROVE  HeadOf(r) = HeadOf(q) <=> r.rev = q.rev /\ r.onto = q.onto /\ r.has = q.has
PROOF BY DEF HeadOf

LEMMA HeadIs ==
  ASSUME NEW r \in PullRequest, NEW h \in HeadType
  PROVE  HeadOf(r) = h <=> r.rev = h.rev /\ r.onto = h.onto /\ r.has = h.has
PROOF BY DEF HeadOf, HeadType

\* A pull request whose branch is pushed.
WithHead(r, h, b) == [r EXCEPT !.rev = h.rev, !.onto = h.onto, !.has = h.has, !.baseRev = b]

LEMMA PushedHead ==
  ASSUME NEW r \in PullRequest, NEW h \in HeadType, NEW b \in Nat
  PROVE  LET q == WithHead(r, h, b) IN
         /\ q \in PullRequest /\ HeadOf(q) = h /\ q.rev = h.rev /\ q.onto = h.onto /\ q.has = h.has
         /\ q.labels = r.labels /\ q.auto = r.auto /\ q.base = r.base
PROOF
  <1> DEFINE q == [r EXCEPT !.rev = h.rev, !.onto = h.onto, !.has = h.has, !.baseRev = b]
  <1>1. q \in PullRequest  BY DEF PullRequest, HeadType
  <1>2. q.rev = h.rev /\ q.onto = h.onto /\ q.has = h.has /\ q.labels = r.labels /\ q.auto = r.auto /\ q.base = r.base
    BY DEF PullRequest
  <1> HIDE DEF q
  <1>3. HeadOf(q) = h  BY <1>1, <1>2, HeadIs
  <1> QED  BY <1>1, <1>2, <1>3 DEF q, WithHead

LEMMA RevIsNatural ==
  ASSUME NEW b \in 0 .. N, pull \in [PRs -> PullRequest], tip \in Nat
  PROVE  Rev(Snapshot, b) \in Nat
PROOF BY BoundsAssumption DEF Rev, Snapshot, Default, PRs, PullRequest

LEMMA Repushed ==
  ASSUME NEW r \in PullRequest, NEW v \in Nat
  PROVE  LET q == [r EXCEPT !.rev = @ + 1, !.baseRev = v] IN
         q \in PullRequest /\ q.rev = r.rev + 1 /\ q.onto = r.onto /\ q.has = r.has
PROOF
  <1>1. ASSUME NEW n \in Nat
        PROVE  LET q == [r EXCEPT !.rev = n, !.baseRev = v] IN
               q \in PullRequest /\ q.rev = n /\ q.onto = r.onto /\ q.has = r.has
    BY DEF PullRequest
  <1>2. r.rev + 1 \in Nat  BY DEF PullRequest
  <1> QED  BY <1>1, <1>2

LEMMA Retargeted ==
  ASSUME NEW r \in PullRequest, NEW b \in 0 .. N, NEW v \in Nat
  PROVE  LET q == [r EXCEPT !.base = b, !.baseRev = v] IN
         q \in PullRequest /\ q.rev = r.rev /\ q.onto = r.onto /\ q.has = r.has
PROOF BY DEF PullRequest

LEMMA BasedOn ==
  ASSUME NEW r \in PullRequest, NEW b \in 0 .. N, NEW p, pull \in [PRs -> PullRequest], tip \in Nat
  PROVE  LET q == Effect(SetBase(p, b), r) IN
         /\ q \in PullRequest /\ HeadOf(q) = HeadOf(r) /\ q.rev = r.rev /\ q.onto = r.onto /\ q.has = r.has
         /\ q.labels = r.labels /\ q.auto = r.auto /\ q.base = b
PROOF
  <1> DEFINE v == Rev(Snapshot, b)
             q == [r EXCEPT !.base = b, !.baseRev = v]
  <1>1. Effect(SetBase(p, b), r) = q  BY DEF Effect, SetBase, Step
  <1>2. v \in Nat  BY RevIsNatural
  <1> HIDE DEF v
  <1>3. q \in PullRequest  BY <1>2 DEF PullRequest
  <1>4. q.rev = r.rev /\ q.onto = r.onto /\ q.has = r.has /\ q.labels = r.labels /\ q.auto = r.auto /\ q.base = b
    BY DEF PullRequest
  <1> HIDE DEF q
  <1>5. HeadOf(q) = HeadOf(r)  BY <1>4 DEF HeadOf
  <1> QED  BY <1>1, <1>3, <1>4, <1>5

LEMMA ShownEquals ==
  ASSUME NEW r \in PullRequest, NEW q \in PullRequest, HeadOf(r) = HeadOf(q),
         r.labels = q.labels, r.auto = q.auto, r.base = q.base
  PROVE  Shown(r) = Shown(q)
PROOF
  <1>1. r.rev = q.rev /\ r.onto = q.onto /\ r.has = q.has  BY HeadEquals
  <1> DEFINE a == Shown(r)
             b == Shown(q)
  <1>2. a \in PullRequest /\ b \in PullRequest  BY DEF Shown, PullRequest
  <1>3. /\ a.labels = b.labels /\ a.base = b.base /\ a.baseRev = b.baseRev /\ a.auto = b.auto
        /\ a.rev = b.rev /\ a.onto = b.onto /\ a.has = b.has
    BY <1>1 DEF Shown, PullRequest
  <1> HIDE DEF a, b
  <1>4. a = b  BY <1>2, <1>3 DEF PullRequest
  <1> QED  BY <1>4 DEF a, b

-----------------------------------------------------------------------------
(* Steps of a job.                                                         *)

LEMMA JobAt ==
  ASSUME IsJob(job), NEW place
  PROVE  LET j == [job EXCEPT !.at = place] IN
         /\ IsJob(j) /\ j.at = place /\ j.plan = job.plan /\ j.heads = job.heads /\ j.lost = job.lost
         /\ j.since = job.since /\ j.begun = job.begun /\ j.work = job.work /\ j.report = job.report
PROOF BY DEF IsJob

LEMMA JobEnded ==
  ASSUME IsJob(job), NEW report, End(report)
  PROVE  /\ IsJob(job') /\ job'.at = "idle" /\ job'.plan = job.plan /\ job'.lost = job.lost
         /\ job'.since = job.since /\ job'.begun = job.begun /\ job'.report = report
PROOF BY DEF End, NoJob, IsJob

-----------------------------------------------------------------------------
(* What the plan of a job says of its heads.                               *)

\* The head of a branch once the push is through.
NewHead(j, b) == IF b \in ToSet(j.plan.source) THEN j.heads[b] ELSE HeadOf(j.begun[b])

LEMMA Sources ==
  ASSUME NEW j, Grounded(j)
  PROVE  /\ ToSet(j.plan.source) \subseteq PRs
         /\ j.plan.source \in Seq(PRs) /\ Len(j.plan.source) \in Nat /\ Len(j.plan.source) >= 1
         /\ Head(j.plan.source) = j.plan.source[1] /\ Head(j.plan.source) \in ToSet(j.plan.source)
         /\ \A p \in ToSet(j.plan.source) :
              /\ j.plan.old[p] = j.begun[p]
              /\ \E i \in 1 .. Len(j.plan.source) : p = j.plan.source[i]
         /\ \A i \in 1 .. Len(j.plan.source) : j.plan.source[i] \in ToSet(j.plan.source)
PROOF
  <1> DEFINE source == j.plan.source
  <1>1. source \in Seq(PRs) /\ Len(source) >= 1  BY DEF Grounded, PlanOK
  <1>2. \A p \in ToSet(source) : j.plan.old[p] = j.begun[p]  BY DEF Grounded, PlanOK
  <1> HIDE DEF source
  <1>3. DOMAIN source = 1 .. Len(source) /\ Len(source) \in Nat /\ Head(source) = source[1]  BY <1>1
  <1>4. ToSet(source) = {source[i] : i \in 1 .. Len(source)}  BY <1>3 DEF ToSet
  <1>5. 1 \in 1 .. Len(source)  BY <1>1, <1>3
  <1>6. \A i \in 1 .. Len(source) : source[i] \in ToSet(source) /\ source[i] \in PRs  BY <1>1, <1>4
  <1>7. Head(source) \in ToSet(source)  BY <1>3, <1>5, <1>6
  <1> QED  BY <1>1, <1>2, <1>3, <1>4, <1>6, <1>7 DEF source

LEMMA MovedHeads ==
  ASSUME NEW j, Grounded(j), Prepared(j)
  PROVE  /\ Moved(j) \subseteq ToSet(j.plan.source)
         /\ \A p \in ToSet(j.plan.source) : j.heads[p] \in HeadType
         /\ \A p \in ToSet(j.plan.source) \ Moved(j) : j.heads[p] = HeadOf(j.begun[p])
         /\ \A p \in Moved(j) : j.heads[p].rev = j.begun[p].rev + 1 /\ j.heads[p].onto # j.begun[p].onto
PROOF
  <1>1. HeadsOK(j.plan, j.heads)  BY DEF Grounded
  <1>2. \A p \in ToSet(j.plan.source) : j.heads[p] \in HeadType  BY <1>1 DEF HeadsOK
  <1>3. \A p \in ToSet(j.plan.source) \ Moved(j) : j.heads[p] = HeadOf(j.begun[p])  BY Sources DEF Moved
  <1>4. ASSUME NEW p \in Moved(j)
        PROVE  j.heads[p].rev = j.begun[p].rev + 1 /\ j.heads[p].onto # j.begun[p].onto
    <2>1. p \in ToSet(j.plan.source) /\ j.heads[p] # HeadOf(j.plan.old[p]) /\ j.plan.old[p] = j.begun[p]
      BY Sources DEF Moved
    <2>2. PICK i \in 1 .. Len(j.plan.source) : p = j.plan.source[i]  BY <2>1, Sources
    <2>3. OnBelow(j.plan, i, j.heads[p], HeadBelow(j.plan, j.heads, i))  BY <1>1, <2>2 DEF HeadsOK
    <2> QED  BY <2>1, <2>2, <2>3 DEF OnBelow
  <1> QED  BY <1>2, <1>3, <1>4 DEF Moved

LEMMA HeadsOnBelow ==
  ASSUME NEW j, Grounded(j), Prepared(j), NEW i \in 1 .. Len(j.plan.source)
  PROVE  LET p == j.plan.source[i]
             b == BranchBelow(j.plan, i)
         IN  /\ b \in PRs /\ NewHead(j, b) \in HeadType
             /\ j.heads[p].onto = <<b, NewHead(j, b).rev>> /\ NewHead(j, b).has \subseteq j.heads[p].has
PROOF
  <1> DEFINE p == j.plan.source[i]
             b == BranchBelow(j.plan, i)
             below == NewHead(j, b)
  <1>1. p \in ToSet(j.plan.source) /\ p \in PRs  BY Sources
  <1>2. b \in PRs /\ below = HeadBelow(j.plan, j.heads, i)
    <2>1. CASE i = 1
      <3>1. b = Last(j.plan.target) /\ b \in PRs \ ToSet(j.plan.source) /\ j.plan.tail = j.begun[b]
        BY <2>1 DEF BranchBelow, Grounded, PlanOK
      <3> HIDE DEF b
      <3> QED  BY <2>1, <3>1 DEF NewHead, HeadBelow
    <2>2. CASE i # 1
      <3>1. i - 1 \in 1 .. Len(j.plan.source)  BY <2>2, Sources
      <3>2. b = j.plan.source[i - 1] /\ b \in ToSet(j.plan.source) /\ b \in PRs  BY <2>2, <3>1, Sources DEF BranchBelow
      <3> HIDE DEF b
      <3> QED  BY <2>2, <3>2 DEF NewHead, HeadBelow
    <2> QED  BY <2>1, <2>2
  <1>3. OnBelow(j.plan, i, j.heads[p], below)  BY <1>2 DEF HeadsOK, Grounded
  <1>4. j.begun[b] \in PullRequest /\ j.begun[p] \in PullRequest  BY <1>1, <1>2 DEF Grounded
  <1>5. below \in HeadType  BY <1>4, MovedHeads, HeadIsTyped DEF NewHead
  <1>6. j.heads[p].onto = <<b, below.rev>>  BY <1>3 DEF OnBelow
  <1>7. below.has \subseteq j.heads[p].has
    <2>1. CASE p \in Moved(j)
      <3>1. j.heads[p] # HeadOf(j.plan.old[p])  BY <2>1 DEF Moved
      <3> HIDE DEF below
      <3> QED  BY <1>3, <3>1 DEF OnBelow
    <2>2. CASE p \notin Moved(j)
      <3>1. j.heads[p] = HeadOf(j.begun[p])  BY <1>1, <2>2, MovedHeads
      <3>2. j.begun[p].onto = <<b, below.rev>> /\ j.heads[p].has = j.begun[p].has
        BY <1>4, <1>6, <3>1, HeadIsTyped
      <3> HIDE DEF p, b, below
      <3>3. /\ below.rev <= j.begun[b].rev
            /\ below.rev = j.begun[b].rev => j.begun[b].has \subseteq j.begun[p].has
        <4>1. FleetOK(j.begun)  BY DEF Grounded
        <4>2. j.begun[p].onto[1] = b /\ j.begun[p].onto[2] = below.rev  BY <3>2
        <4> QED  BY <1>1, <1>2, <4>1, <4>2 DEF FleetOK
      <3>4. b \notin Moved(j)
        <4> SUFFICES ASSUME b \in Moved(j) PROVE FALSE  OBVIOUS
        <4>1. below.rev = j.begun[b].rev + 1  BY MovedHeads DEF NewHead, Moved, below
        <4>2. j.begun[b].rev \in Nat  BY <1>4 DEF PullRequest
        <4> QED  BY <3>3, <4>1, <4>2
      <3>5. below = HeadOf(j.begun[b])  BY <3>4, MovedHeads DEF NewHead, below
      <3> QED  BY <1>4, <3>2, <3>3, <3>5, HeadIsTyped
    <2> QED  BY <2>1, <2>2
  <1> QED  BY <1>2, <1>5, <1>6, <1>7

LEMMA RewritesAreMoved ==
  ASSUME Grounded(job), Prepared(job)
  PROVE  /\ Rewrites = Moved(job) /\ Appended = ToSet(job.plan.source) /\ Rewrites \subseteq PRs
         /\ \A p \in Appended : OldHeads[p] = HeadOf(job.begun[p]) /\ OldHeads[p] \in HeadType
PROOF
  <1>1. Rewrites = Moved(job) /\ Appended = ToSet(job.plan.source)  BY DEF Rewrites, Moved, Appended
  <1>2. ASSUME NEW p \in Appended
        PROVE  OldHeads[p] = HeadOf(job.begun[p]) /\ OldHeads[p] \in HeadType
    <2>1. p \in PRs /\ job.plan.old[p] = job.begun[p]  BY <1>1, Sources
    <2>2. job.begun[p] \in PullRequest  BY <2>1 DEF Grounded
    <2> QED  BY <2>1, <2>2, HeadIsTyped DEF OldHeads
  <1> QED  BY <1>1, <1>2, Sources DEF Moved

-----------------------------------------------------------------------------
(* Pushes.                                                                 *)

\* A push under leases that loses nothing: the branches have the heads, and the history of
\* the authors' work is what it was.
LEMMA PushLands ==
  ASSUME pull \in [PRs -> PullRequest], tip \in Nat,
         authored \in [made : [PRs -> SUBSET Nat], kept : [PRs -> SUBSET Nat]],
         Rewrites \subseteq PRs, NEW heads, \A p \in Rewrites : heads[p] \in HeadType,
         \A p \in Rewrites : authored.kept[p] = job.work[p], PushAll(heads)
  PROVE  /\ pull' \in [PRs -> PullRequest] /\ authored' = authored
         /\ \A p \in PRs \ Rewrites : pull'[p] = pull[p]
         /\ \A p \in Rewrites :
              /\ HeadOf(pull'[p]) = heads[p] /\ pull'[p].rev = heads[p].rev
              /\ pull'[p].onto = heads[p].onto /\ pull'[p].has = heads[p].has
              /\ pull'[p].labels = pull[p].labels /\ pull'[p].auto = pull[p].auto /\ pull'[p].base = pull[p].base
PROOF
  <1> DEFINE b(p) == IF pull[p].base \in Rewrites THEN heads[pull[p].base].rev ELSE Rev(Snapshot, pull[p].base)
             q(p) == WithHead(pull[p], heads[p], b(p))
  <1>1. pull' = [p \in PRs |-> IF p \notin Rewrites THEN pull[p] ELSE q(p)]  BY DEF PushAll, Pushed, WithHead
  <1>2. ASSUME NEW p \in Rewrites PROVE b(p) \in Nat
    <2>1. pull[p] \in PullRequest /\ pull[p].base \in 0 .. N  BY DEF PullRequest
    <2>2. Rev(Snapshot, pull[p].base) \in Nat  BY <2>1, RevIsNatural
    <2> QED  BY <2>2 DEF HeadType
  <1>3. ASSUME NEW p \in Rewrites
        PROVE  /\ q(p) \in PullRequest
               /\ HeadOf(q(p)) = heads[p] /\ q(p).rev = heads[p].rev
               /\ q(p).onto = heads[p].onto /\ q(p).has = heads[p].has
               /\ q(p).labels = pull[p].labels /\ q(p).auto = pull[p].auto /\ q(p).base = pull[p].base
    <2>1. pull[p] \in PullRequest /\ heads[p] \in HeadType /\ b(p) \in Nat  BY <1>2
    <2> HIDE DEF b
    <2> QED  BY <2>1, PushedHead
  <1> HIDE DEF q
  <1>4. authored' = authored
    <2>1. authored' = [authored EXCEPT !.kept = [p \in PRs |-> IF p \in Rewrites THEN job.work[p] ELSE authored.kept[p]]]
      BY DEF PushAll
    <2>2. [p \in PRs |-> IF p \in Rewrites THEN job.work[p] ELSE authored.kept[p]] = authored.kept  OBVIOUS
    <2>3. [authored EXCEPT !.kept = authored.kept] = authored  OBVIOUS
    <2> QED  BY <2>1, <2>2, <2>3
  <1>5. pull' \in [PRs -> PullRequest]
    <2>1. \A p \in PRs : (IF p \notin Rewrites THEN pull[p] ELSE q(p)) \in PullRequest  BY <1>3
    <2> QED  BY <1>1, <2>1
  <1>6. \A p \in PRs : p \notin Rewrites => pull'[p] = pull[p]  BY <1>1
  <1>7. \A p \in PRs : p \in Rewrites => pull'[p] = q(p)  BY <1>1
  <1> QED  BY <1>3, <1>4, <1>5, <1>6, <1>7

\* A fleet whose heads are on what they were on, at the same or a later generation, is as
\* sound as it was.
LEMMA LaterFleetOK ==
  ASSUME NEW old \in [PRs -> PullRequest], FleetOK(old), NEW fleet \in [PRs -> PullRequest],
         \A p \in PRs : fleet[p].onto = old[p].onto /\ fleet[p].has = old[p].has /\ fleet[p].rev >= old[p].rev
  PROVE  FleetOK(fleet)
PROOF
  <1>1. \A p \in PRs : fleet[p].rev \in Nat /\ old[p].rev \in Nat /\ old[p].onto[2] \in Nat
    BY DEF PullRequest
  <1> SUFFICES ASSUME NEW p \in PRs, NEW b \in PRs, fleet[p].onto[1] = b
               PROVE  /\ fleet[p].onto[2] <= fleet[b].rev
                      /\ fleet[p].onto[2] = fleet[b].rev => fleet[b].has \subseteq fleet[p].has
    BY DEF FleetOK
  <1>2. old[p].onto[1] = b /\ fleet[p].onto[2] = old[p].onto[2]  OBVIOUS
  <1>3. old[p].onto[2] <= old[b].rev /\ (old[p].onto[2] = old[b].rev => old[b].has \subseteq old[p].has)
    BY <1>2 DEF FleetOK
  <1>4. /\ fleet[b].has = old[b].has /\ fleet[p].has = old[p].has /\ fleet[b].rev >= old[b].rev
        /\ fleet[b].rev \in Nat /\ old[b].rev \in Nat /\ old[p].onto[2] \in Nat
    BY <1>1
  <1>5. fleet[p].onto[2] <= fleet[b].rev /\ (fleet[p].onto[2] = fleet[b].rev => old[p].onto[2] = old[b].rev)
    BY <1>2, <1>3, <1>4
  <1> QED  BY <1>3, <1>4, <1>5

\* A head that a lease holds has the work that the job knows of.
LEMMA LeaseKeepsWork ==
  ASSUME ConcatTypeOK, Grounded(job), Prepared(job), Tracked(job, pull, authored.kept), NEW p \in Moved(job),
         HeadOf(pull[p]) = HeadOf(job.begun[p]) \/ HeadOf(pull[p]) = job.heads[p]
  PROVE  authored.kept[p] = job.work[p]
PROOF
  <1>1. p \in PRs /\ p \in ToSet(job.plan.source)  BY MovedHeads, Sources
  <1>2. pull[p] \in PullRequest /\ job.begun[p] \in PullRequest /\ job.heads[p] \in HeadType
    BY <1>1, MovedHeads DEF ConcatTypeOK, Grounded
  <1>3. job.heads[p].rev = job.begun[p].rev + 1 /\ job.heads[p].onto # job.begun[p].onto  BY MovedHeads
  <1>4. pull[p].rev \in Nat /\ job.begun[p].rev \in Nat /\ job.heads[p].rev \in Nat  BY <1>2 DEF PullRequest, HeadType
  <1>5. AsFound(job, p, pull[p], authored.kept[p]) \/ AsPut(job, p, pull[p], authored.kept[p])  BY <1>1 DEF Tracked
  <1>6. CASE HeadOf(pull[p]) = HeadOf(job.begun[p])
    <2>1. pull[p].rev = job.begun[p].rev  BY <1>2, <1>6, HeadEquals
    <2> QED  BY <1>3, <1>4, <1>5, <2>1 DEF AsFound, AsPut
  <1>7. CASE HeadOf(pull[p]) = job.heads[p]
    <2>1. pull[p].rev = job.heads[p].rev /\ pull[p].onto = job.heads[p].onto  BY <1>2, <1>7, HeadIs
    <2> QED  BY <1>3, <1>4, <1>5, <2>1 DEF AsFound, AsPut
  <1> QED  BY <1>6, <1>7

\* What a push leaves alone.
SameButHeads(r, q) == r.labels = q.labels /\ r.auto = q.auto /\ r.base = q.base

LEMMA ForwardPush ==
  ASSUME ConcatTypeOK, Grounded(job), Prepared(job), Tracked(job, pull, authored.kept),
         LeasesHold(OldHeads), PushAll(job.heads)
  PROVE  /\ pull' \in [PRs -> PullRequest] /\ authored' = authored /\ FleetOK(pull')
         /\ Tracked(job, pull', authored.kept)
         /\ \A p \in PRs : SameButHeads(pull'[p], pull[p])
         /\ \A p \in PRs \ Moved(job) : pull'[p] = pull[p]
         /\ \A p \in Moved(job) : HeadOf(pull'[p]) = job.heads[p]
PROOF
  <1> DEFINE M == Moved(job)
  <1>1. Rewrites = M /\ M \subseteq PRs /\ M \subseteq ToSet(job.plan.source)  BY RewritesAreMoved, MovedHeads
  <1>2. \A p \in M : job.heads[p] \in HeadType  BY <1>1, MovedHeads
  <1>3. ASSUME NEW p \in M PROVE authored.kept[p] = job.work[p]
    <2>1. HeadOf(pull[p]) = HeadOf(job.begun[p])  BY <1>1, RewritesAreMoved DEF LeasesHold
    <2> QED  BY <2>1, LeaseKeepsWork
  <1>4. /\ pull' \in [PRs -> PullRequest] /\ authored' = authored
        /\ \A p \in PRs \ M : pull'[p] = pull[p]
        /\ \A p \in M :
             /\ HeadOf(pull'[p]) = job.heads[p] /\ pull'[p].rev = job.heads[p].rev
             /\ pull'[p].onto = job.heads[p].onto /\ pull'[p].has = job.heads[p].has
             /\ pull'[p].labels = pull[p].labels /\ pull'[p].auto = pull[p].auto /\ pull'[p].base = pull[p].base
    <2> HIDE DEF M
    <2>1. /\ pull \in [PRs -> PullRequest] /\ tip \in Nat
          /\ authored \in [made : [PRs -> SUBSET Nat], kept : [PRs -> SUBSET Nat]]
      BY DEF ConcatTypeOK
    <2>2. \A p \in Rewrites : authored.kept[p] = job.work[p]  BY <1>1, <1>3
    <2> QED  BY <1>1, <1>2, <2>1, <2>2, PushLands
  <1> DEFINE fleet == pull'
  <1> HIDE DEF M, fleet
  <1>5. /\ fleet \in [PRs -> PullRequest]
        /\ \A p \in PRs \ M : fleet[p] = pull[p]
        /\ \A p \in M : fleet[p].rev = job.heads[p].rev /\ fleet[p].onto = job.heads[p].onto /\ fleet[p].has = job.heads[p].has
    BY <1>4 DEF fleet
  <1>6. Tracked(job, fleet, authored.kept)
    <2> SUFFICES ASSUME NEW p \in PRs
                 PROVE  AsFound(job, p, fleet[p], authored.kept[p]) \/ AsPut(job, p, fleet[p], authored.kept[p])
      BY DEF Tracked
    <2>1. CASE p \in M
      <3>1. job.heads[p].rev \in Nat  BY <1>2, <2>1 DEF HeadType
      <3> QED  BY <1>3, <1>5, <2>1, <3>1 DEF AsPut, M
    <2>2. CASE p \notin M  BY <1>5, <2>2 DEF Tracked
    <2> QED  BY <2>1, <2>2
  <1>7. FleetOK(fleet)
    <2> SUFFICES ASSUME NEW p \in PRs, NEW b \in PRs, fleet[p].onto[1] = b
                 PROVE  /\ fleet[p].onto[2] <= fleet[b].rev
                        /\ fleet[p].onto[2] = fleet[b].rev => fleet[b].has \subseteq fleet[p].has
      BY DEF FleetOK
    <2>0. /\ job.begun[p] \in PullRequest /\ job.begun[b] \in PullRequest
          /\ job.begun[b].rev \in Nat /\ fleet[b].rev \in Nat /\ job.begun[p].onto[2] \in Nat
      BY <1>5 DEF Grounded, PullRequest
    <2>f. ASSUME NEW x \in PRs \ M
          PROVE  fleet[x].onto = job.begun[x].onto /\ fleet[x].has = job.begun[x].has /\ fleet[x].rev >= job.begun[x].rev
      BY <1>5, <1>6 DEF Tracked, AsFound, AsPut, M
    <2>1. CASE p \in M
      <3>1. PICK i \in 1 .. Len(job.plan.source) : p = job.plan.source[i]  BY <1>1, <2>1, Sources
      <3>2. /\ BranchBelow(job.plan, i) = b
            /\ job.heads[p].onto[2] = NewHead(job, b).rev /\ NewHead(job, b).has \subseteq job.heads[p].has
        <4>1. /\ job.heads[p].onto = <<BranchBelow(job.plan, i), NewHead(job, BranchBelow(job.plan, i)).rev>>
              /\ NewHead(job, BranchBelow(job.plan, i)).has \subseteq job.heads[p].has
          BY <3>1, HeadsOnBelow
        <4>2. fleet[p].onto = job.heads[p].onto  BY <1>5, <2>1
        <4> QED  BY <4>1, <4>2
      <3>3. CASE b \in M
        <4>1. NewHead(job, b) = job.heads[b]  BY <1>1, <3>3 DEF NewHead
        <4> QED  BY <1>5, <2>0, <2>1, <3>2, <3>3, <4>1
      <3>4. CASE b \notin M
        <4>1. NewHead(job, b) = HeadOf(job.begun[b])  BY <3>4, MovedHeads DEF NewHead, M
        <4>2. NewHead(job, b).rev = job.begun[b].rev /\ NewHead(job, b).has = job.begun[b].has  BY <2>0, <4>1, HeadIsTyped
        <4> QED  BY <1>5, <2>0, <2>1, <2>f, <3>2, <3>4, <4>2
      <3> QED  BY <3>3, <3>4
    <2>2. CASE p \notin M
      <3>1. job.begun[p].onto[1] = b /\ fleet[p].onto[2] = job.begun[p].onto[2] /\ fleet[p].has = job.begun[p].has
        BY <2>2, <2>f
      <3>2. /\ job.begun[p].onto[2] <= job.begun[b].rev
            /\ job.begun[p].onto[2] = job.begun[b].rev => job.begun[b].has \subseteq job.begun[p].has
        BY <3>1 DEF FleetOK, Grounded
      <3>3. CASE b \in M
        <4>1. fleet[b].rev = job.begun[b].rev + 1  BY <1>5, <3>3, MovedHeads DEF M
        <4> QED  BY <2>0, <3>1, <3>2, <4>1
      <3>4. CASE b \notin M  BY <2>0, <2>f, <3>1, <3>2, <3>4
      <3> QED  BY <3>3, <3>4
    <2> QED  BY <2>1, <2>2
  <1>8. \A p \in PRs : SameButHeads(pull'[p], pull[p])  BY <1>4 DEF SameButHeads
  <1> QED  BY <1>4, <1>6, <1>7, <1>8 DEF fleet, M

LEMMA BackwardPush ==
  ASSUME ConcatTypeOK, Grounded(job), Prepared(job), Tracked(job, pull, authored.kept),
         LeasesHold(job.heads), PushAll(OldHeads)
  PROVE  /\ pull' \in [PRs -> PullRequest] /\ authored' = authored /\ FleetOK(pull')
         /\ Tracked(job, pull', authored.kept)
         /\ \A p \in PRs : SameButHeads(pull'[p], pull[p])
         /\ \A p \in PRs \ Moved(job) : pull'[p] = pull[p]
         /\ \A p \in Moved(job) : HeadOf(pull'[p]) = HeadOf(job.begun[p])
PROOF
  <1> DEFINE M == Moved(job)
  <1>1. Rewrites = M /\ M \subseteq PRs /\ M \subseteq Appended  BY RewritesAreMoved, MovedHeads
  <1>2. \A p \in M : OldHeads[p] \in HeadType /\ OldHeads[p] = HeadOf(job.begun[p]) /\ job.begun[p] \in PullRequest
    BY <1>1, RewritesAreMoved DEF Grounded
  <1>3. ASSUME NEW p \in M PROVE authored.kept[p] = job.work[p]
    <2>1. HeadOf(pull[p]) = job.heads[p]  BY <1>1 DEF LeasesHold
    <2> QED  BY <2>1, LeaseKeepsWork
  <1>4. /\ pull' \in [PRs -> PullRequest] /\ authored' = authored
        /\ \A p \in PRs \ M : pull'[p] = pull[p]
        /\ \A p \in M :
             /\ HeadOf(pull'[p]) = OldHeads[p] /\ pull'[p].rev = OldHeads[p].rev
             /\ pull'[p].onto = OldHeads[p].onto /\ pull'[p].has = OldHeads[p].has
             /\ pull'[p].labels = pull[p].labels /\ pull'[p].auto = pull[p].auto /\ pull'[p].base = pull[p].base
    <2> HIDE DEF M
    <2>1. /\ pull \in [PRs -> PullRequest] /\ tip \in Nat
          /\ authored \in [made : [PRs -> SUBSET Nat], kept : [PRs -> SUBSET Nat]]
      BY DEF ConcatTypeOK
    <2>2. \A p \in Rewrites : authored.kept[p] = job.work[p]  BY <1>1, <1>3
    <2> DEFINE old == OldHeads
    <2>3. \A p \in Rewrites : old[p] \in HeadType  BY <1>1, <1>2
    <2>4. PushAll(old)  OBVIOUS
    <2> HIDE DEF old
    <2>5. /\ pull' \in [PRs -> PullRequest] /\ authored' = authored
          /\ \A p \in PRs \ M : pull'[p] = pull[p]
          /\ \A p \in M :
               /\ HeadOf(pull'[p]) = old[p] /\ pull'[p].rev = old[p].rev
               /\ pull'[p].onto = old[p].onto /\ pull'[p].has = old[p].has
               /\ pull'[p].labels = pull[p].labels /\ pull'[p].auto = pull[p].auto /\ pull'[p].base = pull[p].base
      BY <1>1, <2>1, <2>2, <2>3, <2>4, PushLands
    <2> QED  BY <2>5 DEF old
  <1> DEFINE fleet == pull'
  <1> HIDE DEF M, fleet
  <1>5. /\ fleet \in [PRs -> PullRequest]
        /\ \A p \in PRs \ M : fleet[p] = pull[p]
        /\ \A p \in M : /\ fleet[p].rev = job.begun[p].rev /\ fleet[p].onto = job.begun[p].onto
                        /\ fleet[p].has = job.begun[p].has
    <2>1. ASSUME NEW p \in M
          PROVE  /\ OldHeads[p].rev = job.begun[p].rev /\ OldHeads[p].onto = job.begun[p].onto
                 /\ OldHeads[p].has = job.begun[p].has
      BY <1>2, HeadIsTyped
    <2> QED  BY <1>4, <2>1 DEF fleet
  <1>6. ASSUME NEW p \in PRs PROVE AsFound(job, p, fleet[p], authored.kept[p])
    <2>1. CASE p \in M
      <3>1. job.begun[p].rev \in Nat  BY <1>2, <2>1 DEF PullRequest
      <3> QED  BY <1>3, <1>5, <2>1, <3>1 DEF AsFound
    <2>2. CASE p \notin M  BY <1>5, <2>2 DEF Tracked, AsPut, M
    <2> QED  BY <2>1, <2>2
  <1>7. FleetOK(fleet)
    <2>1. \A p \in PRs : /\ fleet[p].onto = job.begun[p].onto /\ fleet[p].has = job.begun[p].has
                         /\ fleet[p].rev >= job.begun[p].rev
      BY <1>6 DEF AsFound
    <2>2. job.begun \in [PRs -> PullRequest] /\ FleetOK(job.begun)  BY DEF Grounded
    <2> QED  BY <1>5, <2>1, <2>2, LaterFleetOK
  <1>8. \A p \in PRs : SameButHeads(pull'[p], pull[p])  BY <1>4 DEF SameButHeads
  <1>9. \A p \in M : HeadOf(pull'[p]) = HeadOf(job.begun[p])  BY <1>2, <1>4
  <1> QED  BY <1>4, <1>6, <1>7, <1>8, <1>9 DEF fleet, M, Tracked

-----------------------------------------------------------------------------
(* A step of a job goes on, or ends it.                                    *)

SameJob(j, i) == j.plan = i.plan /\ j.heads = i.heads /\ j.since = i.since /\ j.begun = i.begun /\ j.work = i.work

LEMMA SameTracks ==
  ASSUME NEW i, NEW j, SameJob(j, i), Prepared(i), Prepared(j), NEW fleet, NEW kept, Tracked(i, fleet, kept), Grounded(i)
  PROVE  Tracked(j, fleet, kept) /\ Grounded(j) /\ Moved(j) = Moved(i)
PROOF
  <1>1. Moved(j) = Moved(i)  BY DEF Moved, SameJob
  <1>2. Grounded(j)  BY DEF Grounded, SameJob
  <1>3. \A p \in PRs : /\ AsFound(j, p, fleet[p], kept[p]) <=> AsFound(i, p, fleet[p], kept[p])
                       /\ AsPut(j, p, fleet[p], kept[p]) <=> AsPut(i, p, fleet[p], kept[p])
    BY <1>1 DEF AsFound, AsPut, SameJob
  <1> QED  BY <1>1, <1>2, <1>3 DEF Tracked

LEMMA GoesOn ==
  ASSUME ConcatInv, Busy, Prepared(job), IsJob(job'), SameJob(job', job), Prepared(job'), job'.at # "idle",
         pull' \in [PRs -> PullRequest], FleetOK(pull'), Tracked(job, pull', authored.kept),
         UNCHANGED <<tip, authored, outside>>,
         outside = job.since => Followed(job', [pull |-> pull', tip |-> tip])
  PROVE  ConcatInv'
PROOF
  <1>1. Grounded(job) /\ ConcatTypeOK /\ AuthorsKept  BY DEF ConcatInv, JobOK, ConcatSound
  <1>2. ConcatTypeOK'  BY <1>1 DEF ConcatTypeOK, SameJob
  <1>3. Tracked(job', pull', authored.kept) /\ Grounded(job')  BY <1>1, SameTracks
  <1>4. outside' = job'.since => Followed(job', Snapshot')  BY DEF SameJob, Snapshot
  <1>5. JobOK'
    <2>1. Tracked(job', pull', authored'.kept)  BY <1>3
    <2>2. Tracked(job, pull, authored.kept)'  BY <2>1
    <2>3. Grounded(job)'  BY <1>3
    <2>4. (outside = job.since => Followed(job, Snapshot))'  BY <1>4
    <2> QED  BY <2>2, <2>3, <2>4 DEF JobOK
  <1>6. ConcatSound'  BY <1>1 DEF ConcatSound, AuthorsKept, RestoredMeansUndone, AppendedInOrder, Undisturbed
  <1>7. FleetOK(pull)'  OBVIOUS
  <1> QED  BY <1>2, <1>5, <1>6, <1>7 DEF ConcatInv

LEMMA Finishes ==
  ASSUME ConcatInv, Busy, NEW report, End(report), pull' \in [PRs -> PullRequest], FleetOK(pull'),
         UNCHANGED <<tip, authored, outside>>,
         outside = job.since /\ (report = "refused" \/ (report = "restored" /\ ~job.lost)) =>
           \A p \in PRs : Shown(pull'[p]) = Shown(job.begun[p]),
         report \in {"concatenated", "unrecorded"} => AppendedInOrder'
  PROVE  ConcatInv'
PROOF
  <1>1. ConcatTypeOK /\ AuthorsKept  BY DEF ConcatInv, ConcatSound
  <1>2. /\ IsJob(job') /\ job'.at = "idle" /\ job'.plan = job.plan /\ job'.lost = job.lost
        /\ job'.since = job.since /\ job'.begun = job.begun /\ job'.report = report
    BY <1>1, JobEnded DEF ConcatTypeOK
  <1>3. ConcatTypeOK'  BY <1>1, <1>2 DEF ConcatTypeOK
  <1>4. JobOK'  BY <1>2 DEF JobOK, Busy
  <1>5. AuthorsKept'  BY <1>1 DEF AuthorsKept
  <1>6. RestoredMeansUndone'  BY <1>2 DEF RestoredMeansUndone, Undisturbed, Shown
  <1>7. AppendedInOrder'
    <2>1. CASE report \in {"concatenated", "unrecorded"}  BY <2>1
    <2>2. CASE report \notin {"concatenated", "unrecorded"}  BY <1>2, <2>2 DEF AppendedInOrder
    <2> QED  BY <2>1, <2>2
  <1>8. FleetOK(pull)'  OBVIOUS
  <1> QED  BY <1>3, <1>4, <1>5, <1>6, <1>7, <1>8 DEF ConcatInv, ConcatSound

\* The same where the job writes nothing.
LEMMA FollowOn ==
  ASSUME NEW i, NEW j, SameJob(j, i), j.lost = i.lost, Prepared(i), Prepared(j), NEW s, Followed(i, s),
         i.at \in Rebased => j.at \in Rebased, i.at \in Undoing => j.at \in Undoing,
         j.at \in Unwritten => i.at \in Unwritten,
         \/ j.at \in Written => i.at \in Written
         \/ \A p \in ToSet(i.plan.source) : HeadOf(s.pull[p]) = i.heads[p],
         j.at = "journal" => i.plan.target \o i.plan.source \in Caravans(s)
  PROVE  Followed(j, s)
PROOF
  <1>1. Moved(j) = Moved(i)  BY DEF Moved, SameJob
  <1>2. ASSUME NEW p \in PRs PROVE AsLeft(j, p, s.pull[p])
    <2>1. AsLeft(i, p, s.pull[p])  BY DEF Followed
    <2> QED  BY <1>1, <2>1 DEF AsLeft, SameJob
  <1> QED  BY <1>2 DEF Followed, SameJob

LEMMA GoesOnQuietly ==
  ASSUME ConcatInv, Busy, Prepared(job), IsJob(job'), SameJob(job', job), job'.lost = job.lost, Prepared(job'),
         job'.at # "idle", UNCHANGED <<pull, tip, authored, outside>>,
         job.at \in Rebased => job'.at \in Rebased, job.at \in Undoing => job'.at \in Undoing,
         job'.at \in Unwritten => job.at \in Unwritten,
         \/ job'.at \in Written => job.at \in Written
         \/ \A p \in ToSet(job.plan.source) : HeadOf(pull[p]) = job.heads[p],
         job'.at = "journal" => NewOrdering \in Caravans(Snapshot)
  PROVE  ConcatInv'
PROOF
  <1>1. ConcatTypeOK /\ FleetOK(pull) /\ Tracked(job, pull, authored.kept)  BY DEF ConcatInv, JobOK
  <1>2. pull' \in [PRs -> PullRequest] /\ FleetOK(pull') /\ Tracked(job, pull', authored.kept)
    BY <1>1 DEF ConcatTypeOK
  <1>3. ASSUME outside = job.since PROVE Followed(job', [pull |-> pull', tip |-> tip])
    <2> DEFINE s == Snapshot
               j == job'
    <2>1. Followed(job, s)  BY <1>3 DEF ConcatInv, JobOK
    <2>2. s.pull = pull  BY DEF Snapshot
    <2>3. j.at = "journal" => job.plan.target \o job.plan.source \in Caravans(s)  BY DEF NewOrdering
    <2>4. /\ SameJob(j, job) /\ j.lost = job.lost /\ Prepared(j)
          /\ job.at \in Rebased => j.at \in Rebased
          /\ job.at \in Undoing => j.at \in Undoing
          /\ j.at \in Unwritten => job.at \in Unwritten
          /\ \/ j.at \in Written => job.at \in Written
             \/ \A p \in ToSet(job.plan.source) : HeadOf(pull[p]) = job.heads[p]
      OBVIOUS
    <2> HIDE DEF s, j
    <2>5. Followed(j, s)  BY <2>1, <2>2, <2>3, <2>4, FollowOn
    <2>6. s = [pull |-> pull', tip |-> tip]  BY DEF s, Snapshot
    <2> QED  BY <2>5, <2>6 DEF j
  <1> QED  BY <1>2, <1>3, GoesOn

LEMMA FinishesQuietly ==
  ASSUME ConcatInv, Busy, NEW report, End(report), UNCHANGED <<pull, tip, authored, outside>>,
         report \notin {"concatenated", "unrecorded"},
         outside = job.since /\ (report = "refused" \/ (report = "restored" /\ ~job.lost)) =>
           \A p \in PRs : Shown(pull[p]) = Shown(job.begun[p])
  PROVE  ConcatInv'
PROOF
  <1>1. pull' = pull /\ pull' \in [PRs -> PullRequest] /\ FleetOK(pull')  BY DEF ConcatInv, ConcatTypeOK
  <1>2. outside = job.since /\ (report = "refused" \/ (report = "restored" /\ ~job.lost)) =>
           \A p \in PRs : Shown(pull'[p]) = Shown(job.begun[p])
    BY <1>1 DEF Shown
  <1> QED  BY <1>1, <1>2, Finishes

\* A fleet whose heads are the old ones is as it was, before the base is moved and after it
\* is known to be back.
LEMMA NothingLeft ==
  ASSUME ConcatInv, Busy, Followed(job, Snapshot), job.at \notin Rebased, job.at \in Undoing => ~job.lost,
         \A p \in PRs : HeadOf(pull[p]) = HeadOf(job.begun[p])
  PROVE  \A p \in PRs : Shown(pull[p]) = Shown(job.begun[p])
PROOF
  <1> SUFFICES ASSUME NEW p \in PRs PROVE Shown(pull[p]) = Shown(job.begun[p])  OBVIOUS
  <1>1. pull[p] \in PullRequest /\ job.begun[p] \in PullRequest  BY DEF ConcatInv, ConcatTypeOK, JobOK, Grounded
  <1>2. AsLeft(job, p, pull[p])  BY DEF Followed, Snapshot
  <1>3. /\ pull[p].labels = job.begun[p].labels /\ pull[p].auto = job.begun[p].auto
        /\ pull[p].base = job.begun[p].base
    BY <1>2 DEF AsLeft
  <1> QED  BY <1>1, <1>3, ShownEquals

LEMMA OldHeadsMeanAll ==
  ASSUME ConcatInv, Busy, Prepared(job), Followed(job, Snapshot), AllAre(OldHeads)
  PROVE  \A p \in PRs : HeadOf(pull[p]) = HeadOf(job.begun[p])
PROOF
  <1>1. Grounded(job)  BY DEF ConcatInv, JobOK
  <1> SUFFICES ASSUME NEW p \in PRs PROVE HeadOf(pull[p]) = HeadOf(job.begun[p])  OBVIOUS
  <1>2. AsLeft(job, p, pull[p])  BY DEF Followed, Snapshot
  <1>3. CASE p \in Appended  BY <1>1, <1>3, RewritesAreMoved DEF AllAre
  <1>4. CASE p \notin Appended
    <2>1. p \notin Moved(job)  BY <1>1, <1>4, RewritesAreMoved, MovedHeads
    <2> QED  BY <1>2, <2>1 DEF AsLeft
  <1> QED  BY <1>3, <1>4

-----------------------------------------------------------------------------
(* The steps.                                                              *)

LEMMA Proceeds ==
  ASSUME ConcatInv, NEW place, Proceed(place)
  PROVE  IsJob(job') /\ job'.at = place /\ SameJob(job', job) /\ job'.lost = job.lost
PROOF BY JobAt DEF Proceed, SameJob, ConcatInv, ConcatTypeOK

LEMMA RootAndTail ==
  ASSUME ConcatInv, Busy
  PROVE  Root = Head(job.plan.source) /\ Root \in PRs /\ Tail0 \in PRs /\ job.plan.old[Root] = job.begun[Root]
PROOF
  <1>1. Grounded(job)  BY DEF ConcatInv, JobOK
  <1>2. Tail0 \in PRs  BY <1>1 DEF Grounded, PlanOK, Tail0
  <1> QED  BY <1>1, <1>2, Sources DEF Root

LEMMA PlanKeeps ==
  ASSUME ConcatInv, UNCHANGED <<pull, tip, job, authored, outside>>
  PROVE  ConcatInv'
PROOF
  <1>1. ConcatTypeOK'  BY DEF ConcatInv, ConcatTypeOK
  <1>2. FleetOK(pull)'  BY DEF ConcatInv
  <1>3. JobOK'
    <2>1. Busy' = Busy /\ Snapshot' = Snapshot  BY DEF Busy, Snapshot
    <2>2. (Grounded(job) <=> Grounded(job)') /\ (Tracked(job, pull, authored.kept) <=> Tracked(job, pull, authored.kept)')
      OBVIOUS
    <2>3. Followed(job, Snapshot) <=> Followed(job', Snapshot')  BY <2>1
    <2> QED  BY <2>1, <2>2, <2>3 DEF ConcatInv, JobOK
  <1>4. ConcatSound'
    <2>1. Undisturbed' = Undisturbed /\ Snapshot' = Snapshot /\ NewOrdering' = NewOrdering /\ Tail0' = Tail0
      BY DEF Undisturbed, Snapshot, NewOrdering, Tail0
    <2>2. AuthorsKept'  BY DEF ConcatInv, ConcatSound, AuthorsKept
    <2>3. RestoredMeansUndone'  BY <2>1 DEF ConcatInv, ConcatSound, RestoredMeansUndone, Shown
    <2>4. AppendedInOrder'  BY <2>1 DEF ConcatInv, ConcatSound, AppendedInOrder
    <2> QED  BY <2>2, <2>3, <2>4 DEF ConcatSound
  <1> QED  BY <1>1, <1>2, <1>3, <1>4 DEF ConcatInv

LEMMA ExecuteKeeps ==
  ASSUME ConcatInv, ExecuteConcat
  PROVE  ConcatInv'
PROOF
  <1> DEFINE begun == [NoJob EXCEPT !.plan = reviewed, !.since = outside, !.begun = pull, !.work = authored.kept]
  <1>0. ConcatTypeOK /\ FleetOK(pull) /\ AuthorsKept  BY DEF ConcatInv, ConcatSound
  <1>u. UNCHANGED <<pull, tip, authored, outside>>  BY DEF ExecuteConcat
  <1>t. FleetOK(pull)' /\ AuthorsKept'  BY <1>0, <1>u DEF AuthorsKept
  <1>1. ASSUME NEW report \in {"idempotent", "refused"}, job' = [begun EXCEPT !.report = report] PROVE ConcatInv'
    <2>1. /\ IsJob(job') /\ job'.at = "idle" /\ job'.since = outside /\ job'.begun = pull /\ job'.report = report
      BY <1>1 DEF NoJob, IsJob
    <2>2. ConcatTypeOK'  BY <1>0, <1>u, <2>1 DEF ConcatTypeOK
    <2>3. JobOK'  BY <2>1 DEF JobOK, Busy
    <2>4. RestoredMeansUndone'  BY <1>u, <2>1 DEF RestoredMeansUndone, Shown
    <2>5. AppendedInOrder'  BY <2>1 DEF AppendedInOrder
    <2> QED  BY <1>t, <2>2, <2>3, <2>4, <2>5 DEF ConcatInv, ConcatSound
  <1>2. ASSUME reviewed \in Plans(Snapshot), job' = [begun EXCEPT !.at = "prepare"] PROVE ConcatInv'
    <2> DEFINE j == job'
    <2>1. /\ IsJob(j) /\ j.at = "prepare" /\ j.since = outside /\ j.begun = pull /\ j.plan = reviewed
          /\ j.work = authored.kept /\ j.report = "none"
      BY <1>2 DEF NoJob, IsJob
    <2>2. PlanOK(reviewed, pull)
      <3>1. PlanOK(reviewed, Snapshot.pull)  BY <1>2, PlansAreOK
      <3> QED  BY <3>1 DEF Snapshot
    <2> HIDE DEF j
    <2>3. Grounded(j)  BY <1>0, <2>1, <2>2 DEF Grounded, Prepared, ConcatTypeOK
    <2>4. ASSUME NEW p \in PRs PROVE AsFound(j, p, pull[p], authored.kept[p]) /\ AsLeft(j, p, pull[p])
      <3>1. pull[p].rev \in Nat  BY <1>0 DEF ConcatTypeOK, PullRequest
      <3>2. AsFound(j, p, pull[p], authored.kept[p])  BY <2>1, <3>1 DEF AsFound
      <3>3. AsLeft(j, p, pull[p])  BY <2>1 DEF AsLeft, Unwritten, Written
      <3> QED  BY <3>2, <3>3
    <2>5. Tracked(j, pull, authored.kept)  BY <2>4 DEF Tracked
    <2>6. Followed(j, Snapshot)  BY <2>1, <2>4 DEF Followed, Snapshot
    <2>7. JobOK'
      <3>1. pull' = pull /\ authored' = authored /\ Snapshot' = Snapshot  BY <1>u DEF Snapshot
      <3>2. Grounded(job)'  BY <2>3 DEF j
      <3>3. Tracked(job, pull, authored.kept)'  BY <2>5, <3>1 DEF j
      <3>4. Followed(job', Snapshot')  BY <2>6, <3>1 DEF j
      <3> QED  BY <3>2, <3>3, <3>4 DEF JobOK
    <2>8. ConcatTypeOK'  BY <1>0, <1>u, <2>1 DEF ConcatTypeOK, j
    <2>9. RestoredMeansUndone' /\ AppendedInOrder'
      BY <2>1 DEF RestoredMeansUndone, AppendedInOrder, j
    <2> QED  BY <1>t, <2>7, <2>8, <2>9 DEF ConcatInv, ConcatSound
  <1>3. CASE reviewed \in journaled
    <2>1. job' = [begun EXCEPT !.report = "idempotent"]  BY <1>3 DEF ExecuteConcat
    <2> HIDE DEF begun
    <2> QED  BY <1>1, <2>1
  <1>4. CASE reviewed \notin journaled /\ reviewed \notin Plans(Snapshot)
    <2>1. job' = [begun EXCEPT !.report = "refused"]  BY <1>4 DEF ExecuteConcat
    <2> HIDE DEF begun
    <2> QED  BY <1>1, <2>1
  <1>5. CASE reviewed \notin journaled /\ reviewed \in Plans(Snapshot)
    <2>1. job' = [begun EXCEPT !.at = "prepare"]  BY <1>5 DEF ExecuteConcat
    <2> HIDE DEF begun
    <2> QED  BY <1>2, <1>5, <2>1
  <1> QED  BY <1>3, <1>4, <1>5

LEMMA RefusedUnwritten ==
  ASSUME ConcatInv, job.at \in Unwritten, End("refused"), UNCHANGED <<pull, tip, authored, outside>>
  PROVE  ConcatInv'
PROOF
  <1>1. Busy /\ job.at \notin Rebased /\ job.at \notin Undoing  BY DEF Busy, Unwritten, Rebased, Undoing
  <1>2. ASSUME outside = job.since PROVE \A p \in PRs : Shown(pull[p]) = Shown(job.begun[p])
    <2>1. Followed(job, Snapshot)  BY <1>1, <1>2 DEF ConcatInv, JobOK
    <2>2. \A p \in PRs : HeadOf(pull[p]) = HeadOf(job.begun[p])  BY <2>1 DEF Followed, AsLeft, Snapshot
    <2> QED  BY <1>1, <2>1, <2>2, NothingLeft
  <1> QED  BY <1>1, <1>2, FinishesQuietly

LEMMA PrepareKeeps ==
  ASSUME ConcatInv, PrepareConcat
  PROVE  ConcatInv'
PROOF
  <1>u. UNCHANGED <<pull, tip, authored, outside>>  BY DEF PrepareConcat, Quiet, bounds
  <1>p. job.at = "prepare" /\ Busy  BY DEF PrepareConcat, Busy
  <1>0. /\ ConcatTypeOK /\ FleetOK(pull) /\ AuthorsKept
        /\ Grounded(job) /\ Tracked(job, pull, authored.kept)
        /\ outside = job.since => Followed(job, Snapshot)
    BY <1>p DEF ConcatInv, ConcatSound, JobOK
  <1>1. CASE End("refused")  BY <1>1, <1>p, <1>u, RefusedUnwritten DEF Unwritten
  <1>2. CASE job' = [job EXCEPT !.at = "verify", !.heads = PreparedHeads(job.plan)]
    <2> DEFINE j == job'
    <2>1. /\ IsJob(j) /\ j.at = "verify" /\ j.since = job.since /\ j.begun = job.begun /\ j.plan = job.plan
          /\ j.work = job.work /\ j.heads = PreparedHeads(job.plan)
      BY <1>0, <1>2 DEF IsJob, ConcatTypeOK
    <2> HIDE DEF j
    <2>2. HeadsOK(job.plan, PreparedHeads(job.plan))  BY <1>0, PreparedHeadsAreOK DEF Grounded
    <2>3. Grounded(j)  BY <1>0, <2>1, <2>2 DEF Grounded
    <2>4. Tracked(j, pull, authored.kept)
      BY <1>0, <1>p, <2>1 DEF Tracked, AsFound, AsPut, Prepared
    <2>5. ASSUME outside = job.since PROVE Followed(j, Snapshot)
      BY <1>0, <1>p, <2>1, <2>5 DEF Followed, AsLeft, Snapshot, Unwritten, Written, Rebased, Undoing
    <2>6. JobOK'
      <3>1. pull' = pull /\ authored' = authored /\ Snapshot' = Snapshot  BY <1>u DEF Snapshot
      <3>2. Grounded(job)'  BY <2>3 DEF j
      <3>3. Tracked(job, pull, authored.kept)'  BY <2>4, <3>1 DEF j
      <3>4. outside' = job'.since => Followed(job', Snapshot')  BY <1>u, <2>1, <2>5, <3>1 DEF j
      <3> QED  BY <3>2, <3>3, <3>4 DEF JobOK
    <2>7. ConcatTypeOK'  BY <1>0, <1>u, <2>1 DEF ConcatTypeOK, j
    <2>8. RestoredMeansUndone' /\ AppendedInOrder'  BY <2>1 DEF RestoredMeansUndone, AppendedInOrder, Undisturbed, j
    <2>9. FleetOK(pull)' /\ AuthorsKept'  BY <1>0, <1>u DEF AuthorsKept
    <2> QED  BY <2>6, <2>7, <2>8, <2>9 DEF ConcatInv, ConcatSound
  <1> QED  BY <1>1, <1>2 DEF PrepareConcat

LEMMA VerifyKeeps ==
  ASSUME ConcatInv, VerifyPrepared
  PROVE  ConcatInv'
PROOF
  <1>u. UNCHANGED <<pull, tip, authored, outside>>  BY DEF VerifyPrepared, Quiet, bounds
  <1>p. job.at = "verify" /\ Busy /\ Prepared(job)  BY DEF VerifyPrepared, Busy, Prepared
  <1> USE DEF Unwritten, Written, Rebased, Undoing
  <1>1. CASE End("refused")  BY <1>1, <1>p, <1>u, RefusedUnwritten
  <1>2. CASE Proceed("push")
    <2>1. IsJob(job') /\ job'.at = "push" /\ SameJob(job', job) /\ job'.lost = job.lost  BY <1>2, Proceeds
    <2> QED  BY <1>p, <1>u, <2>1, GoesOnQuietly DEF Prepared
  <1>3. CASE job' = [job EXCEPT !.next = @ + 1]
    <2>1. IsJob(job') /\ job'.at = "verify" /\ SameJob(job', job) /\ job'.lost = job.lost
      BY <1>3, <1>p DEF IsJob, SameJob, ConcatInv, ConcatTypeOK
    <2> QED  BY <1>p, <1>u, <2>1, GoesOnQuietly DEF Prepared
  <1> QED  BY <1>1, <1>2, <1>3 DEF VerifyPrepared

\* A push forward, and where it leaves a job that goes on to look at it.
LEMMA PushedGoesOn ==
  ASSUME ConcatInv, job.at = "push", LeasesHold(OldHeads), PushAll(job.heads), UNCHANGED <<tip, outside>>,
         NEW place \in {"rediscover", "classify"}, Proceed(place)
  PROVE  ConcatInv'
PROOF
  <1>p. Busy /\ Prepared(job)  BY DEF Busy, Prepared
  <1>0. /\ ConcatTypeOK /\ Grounded(job) /\ Tracked(job, pull, authored.kept)
        /\ outside = job.since => Followed(job, Snapshot)
    BY <1>p DEF ConcatInv, JobOK
  <1>1. /\ pull' \in [PRs -> PullRequest] /\ authored' = authored /\ FleetOK(pull')
        /\ Tracked(job, pull', authored.kept)
        /\ \A p \in PRs : SameButHeads(pull'[p], pull[p])
        /\ \A p \in PRs \ Moved(job) : pull'[p] = pull[p]
        /\ \A p \in Moved(job) : HeadOf(pull'[p]) = job.heads[p]
    BY <1>0, <1>p, ForwardPush
  <1> DEFINE j == job'
             fleet == pull'
             s == [pull |-> fleet, tip |-> tip]
  <1>2. IsJob(j) /\ j.at = place /\ SameJob(j, job) /\ j.lost = job.lost /\ Prepared(j) /\ j.at # "idle"
    BY Proceeds DEF Prepared
  <1> HIDE DEF j, fleet
  <1>3. ASSUME outside = job.since PROVE Followed(j, s)
    <2>1. Moved(j) = Moved(job)  BY <1>2 DEF Moved, SameJob
    <2>2. ASSUME NEW p \in PRs PROVE AsLeft(j, p, fleet[p])
      <3>1. AsLeft(job, p, pull[p])  BY <1>0, <1>3 DEF Followed, Snapshot
      <3>2. /\ fleet[p].labels = pull[p].labels /\ fleet[p].auto = pull[p].auto /\ fleet[p].base = pull[p].base
        BY <1>1 DEF SameButHeads, fleet
      <3>3. p \notin Moved(job) => HeadOf(fleet[p]) = HeadOf(pull[p])  BY <1>1 DEF fleet
      <3>4. p \in Moved(job) => HeadOf(fleet[p]) = job.heads[p]  BY <1>1 DEF fleet
      <3> QED  BY <1>2, <2>1, <3>1, <3>2, <3>3, <3>4 DEF AsLeft, SameJob, Unwritten, Written, Rebased, Undoing
    <2> QED  BY <1>2, <2>2 DEF Followed
  <1>4. outside = job.since => Followed(job', [pull |-> pull', tip |-> tip])  BY <1>3 DEF j, fleet
  <1> QED  BY <1>1, <1>2, <1>4, <1>p, GoesOn DEF j

LEMMA PushKeeps ==
  ASSUME ConcatInv, PushAtomically
  PROVE  ConcatInv'
PROOF
  <1>u. UNCHANGED <<tip, outside>>  BY DEF PushAtomically
  <1>p. job.at = "push" /\ Busy /\ Prepared(job)  BY DEF PushAtomically, Busy, Prepared
  <1>1. ASSUME NEW place \in {"rediscover", "classify"}, Proceed(place), UNCHANGED <<pull, authored>> PROVE ConcatInv'
    <2>1. IsJob(job') /\ job'.at = place /\ SameJob(job', job) /\ job'.lost = job.lost  BY <1>1, Proceeds
    <2> QED  BY <1>1, <1>p, <1>u, <2>1, GoesOnQuietly DEF Prepared, Unwritten, Written, Rebased, Undoing
  <1>2. ASSUME NEW place \in {"rediscover", "classify"}, Proceed(place), LeasesHold(OldHeads), PushAll(job.heads)
        PROVE  ConcatInv'
    BY <1>2, <1>p, <1>u, PushedGoesOn
  <1> QED  BY <1>1, <1>2 DEF PushAtomically, PushFails

LEMMA ClassifyKeeps ==
  ASSUME ConcatInv, ClassifyPush
  PROVE  ConcatInv'
PROOF
  <1>u. UNCHANGED <<pull, tip, authored, outside>>  BY DEF ClassifyPush, Quiet, bounds
  <1>p. job.at = "classify" /\ Busy /\ Prepared(job)  BY DEF ClassifyPush, Busy, Prepared
  <1> USE DEF Unwritten, Written, Rebased, Undoing
  <1>1. CASE AllAre(OldHeads) /\ End("refused")
    <2>1. ASSUME outside = job.since PROVE \A p \in PRs : Shown(pull[p]) = Shown(job.begun[p])
      <3>1. Followed(job, Snapshot)  BY <1>p, <2>1 DEF ConcatInv, JobOK
      <3>2. \A p \in PRs : HeadOf(pull[p]) = HeadOf(job.begun[p])  BY <1>1, <1>p, <3>1, OldHeadsMeanAll
      <3> QED  BY <1>p, <3>1, <3>2, NothingLeft
    <2> QED  BY <1>1, <1>p, <1>u, <2>1, FinishesQuietly
  <1>2. CASE Proceed("rediscover")
    <2>1. IsJob(job') /\ job'.at = "rediscover" /\ SameJob(job', job) /\ job'.lost = job.lost  BY <1>2, Proceeds
    <2> QED  BY <1>p, <1>u, <2>1, GoesOnQuietly DEF Prepared
  <1>3. CASE End("indeterminate")  BY <1>3, <1>p, <1>u, FinishesQuietly
  <1> QED  BY <1>1, <1>2, <1>3 DEF ClassifyPush

LEMMA RediscoverKeeps ==
  ASSUME ConcatInv, RediscoverHeads
  PROVE  ConcatInv'
PROOF
  <1>u. UNCHANGED <<pull, tip, authored, outside>>  BY DEF RediscoverHeads, Quiet, bounds
  <1>p. job.at = "rediscover" /\ Busy /\ Prepared(job)  BY DEF RediscoverHeads, Busy, Prepared
  <1> USE DEF Unwritten, Written, Rebased, Undoing
  <1>1. CASE AllAre(job.heads) /\ job' = [job EXCEPT !.at = "check", !.root = pull[Root]]
    <2>1. IsJob(job') /\ job'.at = "check" /\ SameJob(job', job) /\ job'.lost = job.lost
      BY <1>1 DEF IsJob, SameJob, ConcatInv, ConcatTypeOK
    <2>2. \A p \in ToSet(job.plan.source) : HeadOf(pull[p]) = job.heads[p]  BY <1>1 DEF AllAre, Appended
    <2> QED  BY <1>p, <1>u, <2>1, <2>2, GoesOnQuietly DEF Prepared
  <1>2. CASE Proceed("restore")
    <2>1. IsJob(job') /\ job'.at = "restore" /\ SameJob(job', job) /\ job'.lost = job.lost  BY <1>2, Proceeds
    <2> QED  BY <1>p, <1>u, <2>1, GoesOnQuietly DEF Prepared
  <1> QED  BY <1>1, <1>2 DEF RediscoverHeads

LEMMA CheckKeeps ==
  ASSUME ConcatInv, CheckRoot
  PROVE  ConcatInv'
PROOF
  <1>u. UNCHANGED <<pull, tip, authored, outside>>  BY DEF CheckRoot, Quiet, bounds
  <1>p. job.at = "check" /\ Busy /\ Prepared(job)  BY DEF CheckRoot, Busy, Prepared
  <1>1. ASSUME NEW place \in {"commit", "restore"}, Proceed(place) PROVE ConcatInv'
    <2>1. IsJob(job') /\ job'.at = place /\ SameJob(job', job) /\ job'.lost = job.lost  BY <1>1, Proceeds
    <2> QED  BY <1>p, <1>u, <2>1, GoesOnQuietly DEF Prepared, Unwritten, Written, Rebased, Undoing
  <1> QED  BY <1>1 DEF CheckRoot

\* A change of the root's base, to a branch of the fleet.
LEMMA BaseMoves ==
  ASSUME ConcatInv, Busy, Prepared(job), NEW b \in 0 .. N,
         pull' = [pull EXCEPT ![Root] = Effect(SetBase(Root, b), @)]
  PROVE  /\ pull' \in [PRs -> PullRequest] /\ FleetOK(pull') /\ Tracked(job, pull', authored.kept)
         /\ \A p \in PRs : /\ pull'[p].labels = pull[p].labels /\ pull'[p].auto = pull[p].auto
                           /\ HeadOf(pull'[p]) = HeadOf(pull[p])
                           /\ pull'[p].base = IF p = Root THEN b ELSE pull[p].base
PROOF
  <1>0. ConcatTypeOK /\ FleetOK(pull) /\ Tracked(job, pull, authored.kept)  BY DEF ConcatInv, JobOK
  <1>1. Root \in PRs /\ pull \in [PRs -> PullRequest] /\ tip \in Nat  BY <1>0, RootAndTail DEF ConcatTypeOK
  <1> DEFINE q == Effect(SetBase(Root, b), pull[Root])
             fleet == pull'
  <1>2. /\ q \in PullRequest /\ HeadOf(q) = HeadOf(pull[Root]) /\ q.rev = pull[Root].rev /\ q.onto = pull[Root].onto
        /\ q.has = pull[Root].has /\ q.labels = pull[Root].labels /\ q.auto = pull[Root].auto /\ q.base = b
    BY <1>1, BasedOn
  <1> HIDE DEF q
  <1>3. fleet = [pull EXCEPT ![Root] = q]  BY DEF q
  <1> HIDE DEF fleet
  <1>4. fleet \in [PRs -> PullRequest]  BY <1>1, <1>2, <1>3
  <1>5. \A p \in PRs : /\ fleet[p].labels = pull[p].labels /\ fleet[p].auto = pull[p].auto
                       /\ HeadOf(fleet[p]) = HeadOf(pull[p])
                       /\ fleet[p].base = IF p = Root THEN b ELSE pull[p].base
    BY <1>1, <1>2, <1>3
  <1>6. \A p \in PRs : fleet[p].rev = pull[p].rev /\ fleet[p].onto = pull[p].onto /\ fleet[p].has = pull[p].has
    BY <1>1, <1>2, <1>3
  <1>7. FleetOK(fleet)  BY <1>0, <1>6 DEF FleetOK
  <1>8. Tracked(job, fleet, authored.kept)  BY <1>0, <1>6 DEF Tracked, AsFound, AsPut
  <1> QED  BY <1>4, <1>5, <1>7, <1>8 DEF fleet

\* The job goes on with the base moved, to a place where that is known or may be so.
LEMMA BaseMovesOn ==
  ASSUME ConcatInv, Busy, Prepared(job), NEW b \in 0 .. N,
         pull' = [pull EXCEPT ![Root] = Effect(SetBase(Root, b), @)],
         IsJob(job'), SameJob(job', job), Prepared(job'), job'.at # "idle", UNCHANGED <<tip, authored, outside>>,
         \/ job'.at \in Rebased \/ (job'.lost /\ job'.at \in Undoing) \/ b = job.begun[Root].base,
         job'.at \notin Unwritten, job'.at \in Written => job.at \in Written, job'.at # "journal"
  PROVE  ConcatInv'
PROOF
  <1>r. Root = Head(job.plan.source) /\ Root \in PRs  BY RootAndTail
  <1>1. /\ pull' \in [PRs -> PullRequest] /\ FleetOK(pull') /\ Tracked(job, pull', authored.kept)
        /\ \A p \in PRs : /\ pull'[p].labels = pull[p].labels /\ pull'[p].auto = pull[p].auto
                          /\ HeadOf(pull'[p]) = HeadOf(pull[p])
                          /\ pull'[p].base = IF p = Root THEN b ELSE pull[p].base
    BY BaseMoves
  <1> DEFINE j == job'
             fleet == pull'
             s == [pull |-> fleet, tip |-> tip]
  <1>2. ASSUME outside = job.since PROVE Followed(j, s)
    <2>0. Followed(job, Snapshot)  BY <1>2 DEF ConcatInv, JobOK
    <2>1. Moved(j) = Moved(job)  BY DEF Moved, SameJob
    <2>2. ASSUME NEW p \in PRs PROVE AsLeft(j, p, fleet[p])
      <3>1. AsLeft(job, p, pull[p])  BY <2>0 DEF Followed, Snapshot
      <3>2. /\ fleet[p].labels = pull[p].labels /\ fleet[p].auto = pull[p].auto
            /\ HeadOf(fleet[p]) = HeadOf(pull[p]) /\ fleet[p].base = IF p = Root THEN b ELSE pull[p].base
        BY <1>1
      <3>3. /\ SameJob(j, job) /\ Prepared(j) /\ j.at \notin Unwritten
            /\ j.at \in Written => job.at \in Written
            /\ j.at \in Rebased \/ (j.lost /\ j.at \in Undoing) \/ b = job.begun[Root].base
        OBVIOUS
      <3> HIDE DEF j, fleet
      <3>4. \/ p = Head(j.plan.source) /\ (j.at \in Rebased \/ (j.lost /\ j.at \in Undoing))
            \/ fleet[p].base = j.begun[p].base
        <4>1. CASE p = Root  BY <1>r, <3>2, <3>3, <4>1 DEF SameJob
        <4>2. CASE p # Root  BY <1>r, <3>1, <3>2, <3>3, <4>2 DEF SameJob, AsLeft
        <4> QED  BY <4>1, <4>2
      <3> QED  BY <2>1, <3>1, <3>2, <3>3, <3>4 DEF AsLeft, SameJob
    <2> QED  BY <2>2 DEF Followed
  <1> QED  BY <1>1, <1>2, GoesOn

LEMMA CommitKeeps ==
  ASSUME ConcatInv, CommitRoot
  PROVE  ConcatInv'
PROOF
  <1>u. UNCHANGED <<tip, authored, outside>>  BY DEF CommitRoot
  <1>p. job.at = "commit" /\ Busy /\ Prepared(job)  BY DEF CommitRoot, Busy, Prepared
  <1>b. Tail0 \in 0 .. N  BY <1>p, RootAndTail, BoundsAssumption DEF PRs
  <1>j. IsJob(job)  BY DEF ConcatInv, ConcatTypeOK
  <1> USE DEF Unwritten, Written, Rebased, Undoing
  <1> DEFINE moved == [pull EXCEPT ![Root] = Effect(SetBase(Root, Tail0), @)]
  <1>1. CASE pull' = moved /\ job' = [job EXCEPT !.at = "final", !.root = pull'[Root]]
    <2>1. IsJob(job') /\ job'.at = "final" /\ SameJob(job', job)  BY <1>1, <1>j DEF IsJob, SameJob
    <2> QED  BY <1>1, <1>b, <1>p, <1>u, <2>1, BaseMovesOn DEF Prepared
  <1>2. ASSUME NEW lost \in BOOLEAN, pull' = IF lost THEN moved ELSE pull, job' = [job EXCEPT !.at = "restore", !.lost = lost]
        PROVE  ConcatInv'
    <2>1. IsJob(job') /\ job'.at = "restore" /\ SameJob(job', job) /\ job'.lost = lost  BY <1>2, <1>j DEF IsJob, SameJob
    <2>2. CASE lost
      <3>1. pull' = moved  BY <1>2, <2>2
      <3> QED  BY <1>b, <1>p, <1>u, <2>1, <2>2, <3>1, BaseMovesOn DEF Prepared
    <2>3. CASE ~lost
      <3>1. pull' = pull  BY <1>2, <2>3
      <3>2. pull' \in [PRs -> PullRequest] /\ FleetOK(pull') /\ Tracked(job, pull', authored.kept)
        BY <1>p, <3>1 DEF ConcatInv, ConcatTypeOK, JobOK
      <3>3. ASSUME outside = job.since PROVE Followed(job', [pull |-> pull', tip |-> tip])
        <4>1. Followed(job, Snapshot) /\ Snapshot = [pull |-> pull', tip |-> tip]
          BY <1>p, <3>1, <3>3 DEF ConcatInv, JobOK, Snapshot
        <4>2. Moved(job') = Moved(job)  BY <2>1 DEF Moved, SameJob
        <4> QED  BY <1>p, <2>1, <4>1, <4>2 DEF Followed, AsLeft, SameJob, Prepared
      <3> QED  BY <1>p, <1>u, <2>1, <3>2, <3>3, GoesOn DEF Prepared
    <2> QED  BY <2>2, <2>3
  <1> QED  BY <1>1, <1>2 DEF CommitRoot

LEMMA FinalKeeps ==
  ASSUME ConcatInv, FinalCheck
  PROVE  ConcatInv'
PROOF
  <1>u. UNCHANGED <<pull, tip, authored, outside>>  BY DEF FinalCheck, Quiet, bounds
  <1>p. job.at = "final" /\ Busy /\ Prepared(job)  BY DEF FinalCheck, Busy, Prepared
  <1> USE DEF Unwritten, Written, Rebased, Undoing
  <1>1. CASE NewOrdering \in Caravans(Snapshot)
    <2>0. Proceed("journal")  BY <1>1 DEF FinalCheck
    <2>1. IsJob(job') /\ job'.at = "journal" /\ SameJob(job', job) /\ job'.lost = job.lost  BY <2>0, Proceeds
    <2> QED  BY <1>1, <1>p, <1>u, <2>1, GoesOnQuietly DEF Prepared
  <1>2. CASE NewOrdering \notin Caravans(Snapshot)
    <2>0. Proceed("recheck")  BY <1>2 DEF FinalCheck
    <2>1. IsJob(job') /\ job'.at = "recheck" /\ SameJob(job', job) /\ job'.lost = job.lost  BY <2>0, Proceeds
    <2> QED  BY <1>p, <1>u, <2>1, GoesOnQuietly DEF Prepared
  <1> QED  BY <1>1, <1>2

LEMMA RecheckKeeps ==
  ASSUME ConcatInv, RecheckRoot
  PROVE  ConcatInv'
PROOF
  <1>u. UNCHANGED <<pull, tip, authored, outside>>  BY DEF RecheckRoot, Quiet, bounds
  <1>p. job.at = "recheck" /\ Busy /\ Prepared(job)  BY DEF RecheckRoot, Busy, Prepared
  <1>1. CASE Proceed("uncommit")
    <2>1. IsJob(job') /\ job'.at = "uncommit" /\ SameJob(job', job) /\ job'.lost = job.lost  BY <1>1, Proceeds
    <2> QED  BY <1>p, <1>u, <2>1, GoesOnQuietly DEF Prepared, Unwritten, Written, Rebased, Undoing
  <1>2. CASE End("indeterminate")  BY <1>2, <1>p, <1>u, FinishesQuietly
  <1> QED  BY <1>1, <1>2 DEF RecheckRoot

LEMMA JournalKeeps ==
  ASSUME ConcatInv, JournalConcat
  PROVE  ConcatInv'
PROOF
  <1>u. UNCHANGED <<pull, tip, authored, outside>>  BY DEF JournalConcat
  <1>p. job.at = "journal" /\ Busy /\ Prepared(job)  BY DEF JournalConcat, Busy, Prepared
  <1>0. ConcatTypeOK /\ FleetOK(pull) /\ Grounded(job)  BY <1>p DEF ConcatInv, JobOK
  <1>1. PICK report \in {"concatenated", "unrecorded"} : End(report)  BY DEF JournalConcat
  <1>2. job'.plan = job.plan /\ job'.since = job.since  BY <1>0, <1>1, JobEnded DEF ConcatTypeOK
  <1>3. ASSUME outside = job.since
        PROVE  /\ NewOrdering \in Caravans(Snapshot)
               /\ \A i \in DOMAIN job.plan.source :
                    LET p == job.plan.source[i]
                        below == IF i = 1 THEN Tail0 ELSE job.plan.source[i - 1]
                    IN  pull[p].onto = <<below, pull[below].rev>> /\ pull[below].has \subseteq pull[p].has
    <2>1. Followed(job, Snapshot)  BY <1>3, <1>p DEF ConcatInv, JobOK
    <2>2. NewOrdering \in Caravans(Snapshot)  BY <1>p, <2>1 DEF Followed, NewOrdering
    <2>3. ASSUME NEW i \in DOMAIN job.plan.source
          PROVE  LET p == job.plan.source[i]
                     below == IF i = 1 THEN Tail0 ELSE job.plan.source[i - 1]
                 IN  pull[p].onto = <<below, pull[below].rev>> /\ pull[below].has \subseteq pull[p].has
      <3> DEFINE p == job.plan.source[i]
                 b == BranchBelow(job.plan, i)
      <3>1. i \in 1 .. Len(job.plan.source)  BY <1>0, Sources
      <3>2. p \in PRs /\ p \in ToSet(job.plan.source)  BY <1>0, <3>1, Sources
      <3>3. /\ b \in PRs /\ NewHead(job, b) \in HeadType
            /\ job.heads[p].onto = <<b, NewHead(job, b).rev>> /\ NewHead(job, b).has \subseteq job.heads[p].has
        BY <1>0, <1>p, <3>1, HeadsOnBelow
      <3>4. (IF i = 1 THEN Tail0 ELSE job.plan.source[i - 1]) = b  BY DEF BranchBelow, Tail0
      <3> HIDE DEF p, b
      <3>5. pull[p] \in PullRequest /\ pull[b] \in PullRequest /\ job.heads[p] \in HeadType
        BY <1>0, <1>p, <3>2, <3>3, MovedHeads DEF ConcatTypeOK
      <3>6. AsLeft(job, p, pull[p]) /\ AsLeft(job, b, pull[b])  BY <2>1, <3>2, <3>3 DEF Followed, Snapshot
      <3>7. HeadOf(pull[p]) = job.heads[p]  BY <1>p, <3>2, <3>6 DEF AsLeft, Written
      <3>8. HeadOf(pull[b]) = NewHead(job, b)
        <4>1. CASE b \in ToSet(job.plan.source)  BY <1>p, <3>6, <4>1 DEF AsLeft, Written, NewHead
        <4>2. CASE b \notin ToSet(job.plan.source)
          <5>1. b \notin Moved(job)  BY <4>2 DEF Moved
          <5> QED  BY <3>6, <4>2, <5>1 DEF AsLeft, NewHead
        <4> QED  BY <4>1, <4>2
      <3>9. pull[p].onto = <<b, pull[b].rev>> /\ pull[b].has \subseteq pull[p].has
        <4>1. pull[p].onto = job.heads[p].onto /\ pull[p].has = job.heads[p].has  BY <3>5, <3>7, HeadIs
        <4>2. pull[b].rev = NewHead(job, b).rev /\ pull[b].has = NewHead(job, b).has  BY <3>3, <3>5, <3>8, HeadIs
        <4> QED  BY <3>3, <4>1, <4>2
      <3> QED  BY <3>4, <3>9 DEF p
    <2> QED  BY <2>2, <2>3
  <1>4. AppendedInOrder'
    <2>1. pull' = pull /\ tip' = tip /\ Snapshot' = Snapshot /\ NewOrdering' = NewOrdering /\ Tail0' = Tail0
      BY <1>2, <1>u DEF Snapshot, NewOrdering, Tail0
    <2>2. Undisturbed' => outside = job.since  BY <1>2, <1>u DEF Undisturbed
    <2> QED  BY <1>2, <1>3, <2>1, <2>2 DEF AppendedInOrder
  <1>5. pull' \in [PRs -> PullRequest] /\ FleetOK(pull')  BY <1>0, <1>u DEF ConcatTypeOK
  <1> QED  BY <1>1, <1>4, <1>5, <1>p, <1>u, Finishes

LEMMA UncommitKeeps ==
  ASSUME ConcatInv, UncommitRoot
  PROVE  ConcatInv'
PROOF
  <1>u. UNCHANGED <<tip, authored, outside>>  BY DEF UncommitRoot
  <1>p. job.at = "uncommit" /\ Busy /\ Prepared(job)  BY DEF UncommitRoot, Busy, Prepared
  <1>0. ConcatTypeOK /\ FleetOK(pull) /\ Grounded(job)  BY <1>p DEF ConcatInv, JobOK
  <1>r. Root \in PRs /\ job.plan.old[Root] = job.begun[Root]  BY <1>p, RootAndTail
  <1> DEFINE b == job.plan.old[Root].base
             moved == [pull EXCEPT ![Root] = Effect(SetBase(Root, b), @)]
  <1>b. b \in 0 .. N /\ b = job.begun[Root].base  BY <1>0, <1>r DEF Grounded, PullRequest
  <1>1. CASE pull' = moved /\ Proceed("restore")
    <2>1. IsJob(job') /\ job'.at = "restore" /\ SameJob(job', job)  BY <1>1, Proceeds
    <2> HIDE DEF b
    <2> QED  BY <1>1, <1>b, <1>p, <1>u, <2>1, BaseMovesOn DEF Prepared, Unwritten, Written, Rebased, Undoing
  <1>2. CASE pull' \in {pull, moved} /\ End("indeterminate")
    <2> HIDE DEF b
    <2>1. pull' \in [PRs -> PullRequest] /\ FleetOK(pull')
      <3>1. CASE pull' = pull  BY <1>0, <3>1 DEF ConcatTypeOK
      <3>2. CASE pull' = moved  BY <1>b, <1>p, <3>2, BaseMoves
      <3> QED  BY <1>2, <3>1, <3>2
    <2> QED  BY <1>2, <1>p, <1>u, <2>1, Finishes
  <1> QED  BY <1>1, <1>2 DEF UncommitRoot

LEMMA RestoreKeeps ==
  ASSUME ConcatInv, RestoreHeads
  PROVE  ConcatInv'
PROOF
  <1>u. UNCHANGED <<tip, outside>>  BY DEF RestoreHeads
  <1>p. job.at = "restore" /\ Busy /\ Prepared(job)  BY DEF RestoreHeads, Busy, Prepared
  <1>0. /\ ConcatTypeOK /\ FleetOK(pull) /\ Grounded(job) /\ Tracked(job, pull, authored.kept)
        /\ outside = job.since => Followed(job, Snapshot)
    BY <1>p DEF ConcatInv, JobOK
  <1> USE DEF Unwritten, Written, Rebased, Undoing
  <1>1. CASE Rewrites = {} /\ End("restored") /\ UNCHANGED <<pull, authored>>
    <2>1. ASSUME outside = job.since, ~job.lost PROVE \A p \in PRs : Shown(pull[p]) = Shown(job.begun[p])
      <3>1. Moved(job) = {}  BY <1>0, <1>1, <1>p, RewritesAreMoved
      <3>2. \A p \in PRs : HeadOf(pull[p]) = HeadOf(job.begun[p])  BY <1>0, <2>1, <3>1 DEF Followed, AsLeft, Snapshot
      <3> QED  BY <1>0, <1>p, <2>1, <3>2, NothingLeft
    <2> QED  BY <1>1, <1>p, <1>u, <2>1, FinishesQuietly
  <1>2. CASE Proceed("unclear") /\ UNCHANGED <<pull, authored>>
    <2>1. IsJob(job') /\ job'.at = "unclear" /\ SameJob(job', job) /\ job'.lost = job.lost  BY <1>2, Proceeds
    <2> QED  BY <1>2, <1>p, <1>u, <2>1, GoesOnQuietly DEF Prepared
  <1>3. CASE LeasesHold(job.heads) /\ PushAll(OldHeads) /\ (End("restored") \/ Proceed("unclear"))
    <2>1. /\ pull' \in [PRs -> PullRequest] /\ authored' = authored /\ FleetOK(pull')
          /\ Tracked(job, pull', authored.kept)
          /\ \A p \in PRs : SameButHeads(pull'[p], pull[p])
          /\ \A p \in PRs \ Moved(job) : pull'[p] = pull[p]
          /\ \A p \in Moved(job) : HeadOf(pull'[p]) = HeadOf(job.begun[p])
      BY <1>0, <1>3, <1>p, BackwardPush
    <2> DEFINE fleet == pull'
    <2>2. ASSUME outside = job.since, NEW p \in PRs
          PROVE  /\ AsLeft(job, p, pull[p]) /\ SameButHeads(fleet[p], pull[p])
                 /\ HeadOf(fleet[p]) = HeadOf(job.begun[p])
      <3>1. AsLeft(job, p, pull[p])  BY <1>0, <2>2 DEF Followed, Snapshot
      <3> QED  BY <2>1, <3>1 DEF AsLeft
    <2>3. CASE End("restored")
      <3>1. ASSUME outside = job.since, ~job.lost, NEW p \in PRs PROVE Shown(fleet[p]) = Shown(job.begun[p])
        <4>1. fleet[p] \in PullRequest /\ job.begun[p] \in PullRequest  BY <1>0, <2>1 DEF Grounded
        <4>2. AsLeft(job, p, pull[p]) /\ SameButHeads(fleet[p], pull[p]) /\ HeadOf(fleet[p]) = HeadOf(job.begun[p])
          BY <2>2, <3>1
        <4> HIDE DEF fleet
        <4>3. /\ fleet[p].labels = job.begun[p].labels /\ fleet[p].auto = job.begun[p].auto
              /\ fleet[p].base = job.begun[p].base
          BY <1>p, <3>1, <4>2 DEF AsLeft, SameButHeads
        <4> QED  BY <4>1, <4>2, <4>3, ShownEquals
      <3> QED  BY <1>p, <1>u, <2>1, <2>3, <3>1, Finishes
    <2>4. CASE Proceed("unclear")
      <3>1. IsJob(job') /\ job'.at = "unclear" /\ SameJob(job', job) /\ job'.lost = job.lost  BY <2>4, Proceeds
      <3> DEFINE j == job'
                 s == [pull |-> fleet, tip |-> tip]
      <3>2. ASSUME outside = job.since PROVE Followed(j, s)
        <4>1. ASSUME NEW p \in PRs PROVE AsLeft(j, p, fleet[p])
          <5>1. AsLeft(job, p, pull[p]) /\ SameButHeads(fleet[p], pull[p]) /\ HeadOf(fleet[p]) = HeadOf(job.begun[p])
            BY <2>2, <3>2
          <5>2. j.at = "unclear" /\ SameJob(j, job) /\ j.lost = job.lost  BY <3>1
          <5> HIDE DEF j, fleet
          <5> QED  BY <1>p, <5>1, <5>2 DEF AsLeft, SameButHeads, SameJob
        <4>2. j.at = "unclear"  BY <3>1
        <4> QED  BY <4>1, <4>2 DEF Followed
      <3> QED  BY <1>p, <1>u, <2>1, <3>1, <3>2, GoesOn DEF Prepared
    <2> QED  BY <1>3, <2>3, <2>4
  <1> QED  BY <1>1, <1>2, <1>3 DEF RestoreHeads, PushFails

LEMMA ClassifyRestoreKeeps ==
  ASSUME ConcatInv, ClassifyRestore
  PROVE  ConcatInv'
PROOF
  <1>u. UNCHANGED <<pull, tip, authored, outside>>  BY DEF ClassifyRestore, Quiet, bounds
  <1>p. job.at = "unclear" /\ Busy /\ Prepared(job)  BY DEF ClassifyRestore, Busy, Prepared
  <1>1. CASE AllAre(OldHeads) /\ End("restored")
    <2>1. ASSUME outside = job.since, ~job.lost PROVE \A p \in PRs : Shown(pull[p]) = Shown(job.begun[p])
      <3>1. Followed(job, Snapshot)  BY <1>p, <2>1 DEF ConcatInv, JobOK
      <3>2. \A p \in PRs : HeadOf(pull[p]) = HeadOf(job.begun[p])  BY <1>1, <1>p, <3>1, OldHeadsMeanAll
      <3> QED  BY <1>p, <2>1, <3>1, <3>2, NothingLeft DEF Rebased, Undoing
    <2> QED  BY <1>1, <1>p, <1>u, <2>1, FinishesQuietly
  <1>2. CASE End("indeterminate")  BY <1>2, <1>p, <1>u, FinishesQuietly
  <1> QED  BY <1>1, <1>2 DEF ClassifyRestore

LEMMA ReadFailsKeeps ==
  ASSUME ConcatInv, ReadFails
  PROVE  ConcatInv'
PROOF
  <1>u. UNCHANGED <<pull, tip, authored, outside>>  BY DEF ReadFails
  <1> USE DEF Unwritten, Written, Rebased, Undoing
  <1>1. CASE job.at = "verify" /\ End("refused")  BY <1>1, <1>u, RefusedUnwritten
  <1>2. CASE job.at \in {"rediscover", "check"} /\ Proceed("restore")
    <2>1. IsJob(job') /\ job'.at = "restore" /\ SameJob(job', job) /\ job'.lost = job.lost  BY <1>2, Proceeds
    <2> QED  BY <1>2, <1>u, <2>1, GoesOnQuietly DEF Prepared, Busy
  <1>3. CASE job.at = "final" /\ Proceed("recheck")
    <2>1. IsJob(job') /\ job'.at = "recheck" /\ SameJob(job', job) /\ job'.lost = job.lost  BY <1>3, Proceeds
    <2> QED  BY <1>3, <1>u, <2>1, GoesOnQuietly DEF Prepared, Busy
  <1>4. CASE job.at \in {"classify", "recheck", "unclear"} /\ End("indeterminate")
    BY <1>4, <1>u, FinishesQuietly DEF Busy
  <1> QED  BY <1>1, <1>2, <1>3, <1>4 DEF ReadFails

LEMMA DiesKeeps ==
  ASSUME ConcatInv, ConcatDies
  PROVE  ConcatInv'
PROOF
  <1>u. UNCHANGED <<pull, tip, authored, outside>>  BY DEF ConcatDies
  <1> QED  BY <1>u, FinishesQuietly DEF ConcatDies

\* What other people do disturbs the job: what remains is where the heads may be.
LEMMA OthersKeep ==
  ASSUME ConcatInv, job' = job, outside' = outside + 1, tip' \in Nat, pull' \in [PRs -> PullRequest], FleetOK(pull'),
         authored' \in [made : [PRs -> SUBSET Nat], kept : [PRs -> SUBSET Nat]], authored'.kept = authored'.made,
         Busy => Tracked(job, pull', authored'.kept)
  PROVE  ConcatInv'
PROOF
  <1>1. ConcatTypeOK  BY DEF ConcatInv
  <1>2. outside' # job'.since  BY <1>1 DEF ConcatTypeOK
  <1>3. ConcatTypeOK'  BY <1>1 DEF ConcatTypeOK
  <1>4. JobOK'
    <2> SUFFICES ASSUME Busy' PROVE Grounded(job)' /\ Tracked(job, pull, authored.kept)'  BY <1>2 DEF JobOK
    <2>1. Busy  BY DEF Busy
    <2>2. Grounded(job) /\ Tracked(job, pull', authored'.kept)  BY <2>1 DEF ConcatInv, JobOK
    <2> QED  BY <2>2
  <1>5. ConcatSound'  BY <1>2 DEF ConcatSound, AuthorsKept, RestoredMeansUndone, AppendedInOrder, Undisturbed
  <1>6. FleetOK(pull)'  OBVIOUS
  <1> QED  BY <1>3, <1>4, <1>5, <1>6 DEF ConcatInv

LEMMA AuthorKeeps ==
  ASSUME ConcatInv, NEW p \in PRs, AuthorWorks(p), job' = job
  PROVE  ConcatInv'
PROOF
  <1>0. ConcatTypeOK /\ FleetOK(pull) /\ AuthorsKept  BY DEF ConcatInv, ConcatSound
  <1>1. outside' = outside + 1 /\ tip' = tip  BY DEF AuthorWorks, AuthorPush, Outside
  <1> DEFINE v == Rev(Snapshot, pull[p].base)
             q == [pull[p] EXCEPT !.rev = @ + 1, !.baseRev = v]
             fleet == pull'
  <1>2. v \in Nat
    <2>1. pull[p].base \in 0 .. N  BY <1>0 DEF ConcatTypeOK, PullRequest
    <2> QED  BY <1>0, <2>1, RevIsNatural DEF ConcatTypeOK
  <1>3. fleet = [pull EXCEPT ![p] = q]  BY <1>0 DEF AuthorWorks, AuthorPush, ConcatTypeOK
  <1> HIDE DEF v, fleet
  <1>4. pull[p] \in PullRequest /\ pull \in [PRs -> PullRequest]  BY <1>0 DEF ConcatTypeOK
  <1>5. q \in PullRequest /\ q.rev = pull[p].rev + 1 /\ q.onto = pull[p].onto /\ q.has = pull[p].has
    BY <1>2, <1>4, Repushed
  <1> HIDE DEF q
  <1>6. fleet \in [PRs -> PullRequest] /\ fleet[p] = q /\ \A x \in PRs \ {p} : fleet[x] = pull[x]  BY <1>3, <1>4, <1>5
  <1>7. \A x \in PRs : pull[x].rev \in Nat  BY <1>4 DEF PullRequest
  <1>8. FleetOK(fleet)
    <2>1. \A x \in PRs : fleet[x].onto = pull[x].onto /\ fleet[x].has = pull[x].has /\ fleet[x].rev >= pull[x].rev
      BY <1>5, <1>6, <1>7
    <2> QED  BY <1>0, <1>4, <1>6, <2>1, LaterFleetOK
  <1> DEFINE w == {outside'}
             work == authored'
  <1>9. work = [made |-> [authored.made EXCEPT ![p] = @ \cup w], kept |-> [authored.kept EXCEPT ![p] = @ \cup w]]
    BY DEF AuthorWorks
  <1>10. w \subseteq Nat  BY <1>0, <1>1 DEF ConcatTypeOK
  <1> HIDE DEF w, work
  <1>11. /\ work \in [made : [PRs -> SUBSET Nat], kept : [PRs -> SUBSET Nat]] /\ work.kept = work.made
         /\ \A x \in PRs \ {p} : work.kept[x] = authored.kept[x]
    BY <1>0, <1>9, <1>10 DEF ConcatTypeOK, AuthorsKept
  <1>12. ASSUME Busy PROVE Tracked(job, fleet, work.kept)
    <2>1. Tracked(job, pull, authored.kept) /\ Grounded(job)  BY <1>12 DEF ConcatInv, JobOK
    <2> SUFFICES ASSUME NEW x \in PRs
                 PROVE  AsFound(job, x, fleet[x], work.kept[x]) \/ AsPut(job, x, fleet[x], work.kept[x])
      BY DEF Tracked
    <2>2. AsFound(job, x, pull[x], authored.kept[x]) \/ AsPut(job, x, pull[x], authored.kept[x])  BY <2>1 DEF Tracked
    <2>3. CASE x # p  BY <1>6, <1>11, <2>2, <2>3
    <2>4. CASE x = p
      <3>1. job.begun[p].rev \in Nat  BY <2>1 DEF Grounded, PullRequest
      <3>2. Prepared(job) /\ p \in Moved(job) => job.heads[p].rev \in Nat  BY <2>1, MovedHeads DEF HeadType
      <3> QED  BY <1>5, <1>6, <1>7, <2>2, <2>4, <3>1, <3>2 DEF AsFound, AsPut
    <2> QED  BY <2>3, <2>4
  <1>13. tip' \in Nat  BY <1>0, <1>1 DEF ConcatTypeOK
  <1> QED  BY <1>1, <1>6, <1>8, <1>11, <1>12, <1>13, OthersKeep DEF fleet, work

\* Labels and bases of other people leave the heads alone.
LEMMA HeadsUntouched ==
  ASSUME ConcatInv, job' = job, authored' = authored, outside' = outside + 1, tip' \in Nat,
         pull' \in [PRs -> PullRequest],
         \A p \in PRs : pull'[p].rev = pull[p].rev /\ pull'[p].onto = pull[p].onto /\ pull'[p].has = pull[p].has
  PROVE  ConcatInv'
PROOF
  <1>0. ConcatTypeOK /\ FleetOK(pull) /\ AuthorsKept  BY DEF ConcatInv, ConcatSound
  <1>1. FleetOK(pull')  BY <1>0 DEF FleetOK
  <1>2. Busy => Tracked(job, pull', authored.kept)
    <2>1. Busy => Tracked(job, pull, authored.kept)  BY DEF ConcatInv, JobOK
    <2> QED  BY <2>1 DEF Tracked, AsFound, AsPut
  <1> QED  BY <1>0, <1>1, <1>2, OthersKeep DEF ConcatTypeOK, AuthorsKept

LEMMA PersonKeeps ==
  ASSUME ConcatInv, NEW p \in PRs, PersonRetargets(p) \/ PersonLabels(p), job' = job, authored' = authored
  PROVE  ConcatInv'
PROOF
  <1>0. pull \in [PRs -> PullRequest] /\ tip \in Nat  BY DEF ConcatInv, ConcatTypeOK
  <1>1. outside' = outside + 1 /\ tip' = tip  BY DEF PersonRetargets, PersonLabels, Outside
  <1>2. pull[p] \in PullRequest  BY <1>0
  <1>3. PICK q \in PullRequest : /\ pull' = [pull EXCEPT ![p] = q]
                                 /\ q.rev = pull[p].rev /\ q.onto = pull[p].onto /\ q.has = pull[p].has
    <2>1. CASE PersonRetargets(p)
      <3> DEFINE q == [pull[p] EXCEPT !.base = Default, !.baseRev = tip]
      <3>1. q \in PullRequest /\ q.rev = pull[p].rev /\ q.onto = pull[p].onto /\ q.has = pull[p].has
        <4>1. Default \in 0 .. N  BY BoundsAssumption DEF Default
        <4> QED  BY <1>0, <1>2, <4>1, Retargeted
      <3>2. pull' = [pull EXCEPT ![p] = q]  BY <1>0, <2>1 DEF PersonRetargets
      <3> QED  BY <3>1, <3>2
    <2>2. CASE PersonLabels(p)
      <3> DEFINE l == IF "other" \in pull[p].labels THEN pull[p].labels \ {"other"} ELSE pull[p].labels \cup {"other"}
                 q == [pull[p] EXCEPT !.labels = l]
      <3>1. l \subseteq Label  BY <1>2 DEF PullRequest, Label
      <3>2. pull' = [pull EXCEPT ![p] = q]  BY <1>0, <2>2 DEF PersonLabels
      <3> HIDE DEF l
      <3>3. q \in PullRequest /\ q.rev = pull[p].rev /\ q.onto = pull[p].onto /\ q.has = pull[p].has
        BY <1>2, <3>1 DEF PullRequest
      <3> QED  BY <3>2, <3>3
    <2> QED  BY <2>1, <2>2
  <1>4. pull' \in [PRs -> PullRequest]  BY <1>0, <1>3
  <1>5. \A x \in PRs : pull'[x].rev = pull[x].rev /\ pull'[x].onto = pull[x].onto /\ pull'[x].has = pull[x].has
    BY <1>0, <1>3
  <1> QED  BY <1>0, <1>1, <1>4, <1>5, HeadsUntouched

LEMMA AdvanceKeeps ==
  ASSUME ConcatInv, DefaultAdvances, job' = job, authored' = authored
  PROVE  ConcatInv'
PROOF
  <1>0. pull \in [PRs -> PullRequest] /\ tip \in Nat  BY DEF ConcatInv, ConcatTypeOK
  <1>1. outside' = outside + 1 /\ tip' \in Nat /\ pull' = pull  BY <1>0 DEF DefaultAdvances, Outside
  <1> QED  BY <1>0, <1>1, HeadsUntouched

LEMMA ConcatBegunOK ==
  ASSUME ConcatInit
  PROVE  ConcatInv
PROOF
  <1>1. PICK k \in 1 .. N - 1 : pull = Caravaned(k)  BY DEF ConcatInit
  <1>n. N \in Nat /\ k \in Nat /\ k < N  BY BoundsAssumption
  <1>2. ASSUME NEW p \in PRs
        PROVE  /\ pull[p] \in PullRequest /\ pull[p].rev = 0
               /\ pull[p].onto = <<IF p = k + 1 THEN 0 ELSE p - 1, 0>>
               /\ pull[p].has = IF p <= k THEN 1 .. p ELSE k + 1 .. p
    <2>p. p \in Nat /\ 1 <= p /\ p <= N /\ GithubActor \in BOOLEAN  BY <1>n, BoundsAssumption DEF PRs
    <2>0. pull[p] = IF p <= k THEN Enrolled(k, p)
                    ELSE IF p = k + 1 THEN [Enrolled(1, 1) EXCEPT !.has = {p}]
                    ELSE [Enrolled(k, p) EXCEPT !.has = k + 1 .. p]
      BY <1>1 DEF Caravaned
    <2>t. ASSUME NEW b \in 0 .. N, NEW a \in BOOLEAN, NEW h \in SUBSET PRs
          PROVE  [labels |-> {"caravan"}, base |-> b, baseRev |-> 0, auto |-> a, rev |-> 0, onto |-> <<b, 0>>, has |-> h]
                   \in PullRequest
      BY DEF PullRequest, Label
    <2>1. CASE p <= k
      <3> DEFINE a == GithubActor /\ p = 1
                 r == [labels |-> {"caravan"}, base |-> p - 1, baseRev |-> 0, auto |-> a, rev |-> 0,
                       onto |-> <<p - 1, 0>>, has |-> 1 .. p]
      <3>1. pull[p] = r  BY <2>0, <2>1 DEF Enrolled
      <3>2. p - 1 \in 0 .. N /\ 1 .. p \in SUBSET PRs /\ a \in BOOLEAN  BY <2>p, <1>n DEF PRs
      <3>3. r \in PullRequest
        <4> HIDE DEF a
        <4> QED  BY <2>t, <3>2
      <3>4. p # k + 1  BY <1>n, <2>1, <2>p
      <3> QED  BY <2>1, <3>1, <3>3, <3>4
    <2>2. CASE p = k + 1
      <3> DEFINE a == GithubActor /\ 1 = 1
                 r == [labels |-> {"caravan"}, base |-> 1 - 1, baseRev |-> 0, auto |-> a, rev |-> 0,
                       onto |-> <<1 - 1, 0>>, has |-> {p}]
      <3>0. ~(p <= k)  BY <1>n, <2>2, <2>p
      <3>1. pull[p] = r  BY <2>0, <2>2, <3>0 DEF Enrolled
      <3>2. 1 - 1 \in 0 .. N /\ 1 - 1 = 0 /\ {p} \in SUBSET PRs /\ a \in BOOLEAN  BY <2>p, <1>n
      <3>3. r \in PullRequest
        <4> HIDE DEF a
        <4> QED  BY <2>t, <3>2
      <3>4. {p} = k + 1 .. p  BY <2>p, <2>2, <1>n
      <3> QED  BY <2>2, <3>0, <3>1, <3>2, <3>3, <3>4
    <2>3. CASE ~(p <= k) /\ p # k + 1
      <3> DEFINE a == GithubActor /\ p = 1
                 r == [labels |-> {"caravan"}, base |-> p - 1, baseRev |-> 0, auto |-> a, rev |-> 0,
                       onto |-> <<p - 1, 0>>, has |-> k + 1 .. p]
      <3>1. pull[p] = r  BY <2>0, <2>3 DEF Enrolled
      <3>2. p - 1 \in 0 .. N /\ k + 1 .. p \in SUBSET PRs /\ a \in BOOLEAN  BY <2>p, <1>n DEF PRs
      <3>3. r \in PullRequest
        <4> HIDE DEF a
        <4> QED  BY <2>t, <3>2
      <3> QED  BY <2>3, <3>1, <3>3
    <2> QED  BY <2>1, <2>2, <2>3
  <1>3. pull \in [PRs -> PullRequest]
    <2>1. pull = [p \in PRs |-> pull[p]]  BY <1>1 DEF Caravaned
    <2> QED  BY <1>2, <2>1
  <1>4. FleetOK(pull)
    <2> SUFFICES ASSUME NEW p \in PRs, NEW b \in PRs, pull[p].onto[1] = b
                 PROVE  pull[p].onto[2] <= pull[b].rev /\ pull[b].has \subseteq pull[p].has
      BY DEF FleetOK
    <2>1. p \in Nat /\ b \in Nat /\ b >= 1  BY <1>n DEF PRs
    <2>2. p # k + 1 /\ b = p - 1 /\ pull[p].onto[2] = 0 /\ pull[b].rev = 0  BY <1>2, <2>1
    <2>3. /\ pull[p].has = IF p <= k THEN 1 .. p ELSE k + 1 .. p
          /\ pull[b].has = IF b <= k THEN 1 .. b ELSE k + 1 .. b
      BY <1>2
    <2>4. p <= k => b <= k  BY <1>n, <2>1, <2>2
    <2>5. ~(p <= k) => ~(b <= k)  BY <1>n, <2>1, <2>2
    <2>6. 1 .. b \subseteq 1 .. p /\ k + 1 .. b \subseteq k + 1 .. p  BY <1>n, <2>1, <2>2
    <2> QED  BY <2>2, <2>3, <2>4, <2>5, <2>6
  <1>5. job = NoJob /\ tip = 0 /\ outside = 0 /\ authored = [made |-> [p \in PRs |-> {}], kept |-> [p \in PRs |-> {}]]
    BY DEF ConcatInit, ConcatBegins
  <1>6. IsJob(job) /\ job.at = "idle" /\ job.since = 0 /\ job.report = "none"  BY <1>5 DEF IsJob, NoJob
  <1>7. authored \in [made : [PRs -> SUBSET Nat], kept : [PRs -> SUBSET Nat]] /\ authored.kept = authored.made  BY <1>5
  <1>8. ConcatTypeOK  BY <1>3, <1>5, <1>6, <1>7 DEF ConcatTypeOK
  <1>9. JobOK  BY <1>6 DEF JobOK, Busy
  <1>10. ConcatSound  BY <1>6, <1>7 DEF ConcatSound, AuthorsKept, RestoredMeansUndone, AppendedInOrder
  <1> QED  BY <1>4, <1>8, <1>9, <1>10 DEF ConcatInv

\* Whatever the sizes of the fleet and of the budgets, the heads of a concat stay where it
\* found or put them, and it has changed only what its place says.
THEOREM ConcatInvariant == ConcatSpec => []ConcatInv
PROOF
  <1>1. ConcatInit => ConcatInv  BY ConcatBegunOK
  <1>2. ASSUME ConcatInv, [ConcatNext]_<<concatVars, op, cut, bounds>> PROVE ConcatInv'
    <2>1. CASE PlanConcat  BY <1>2, <2>1, PlanKeeps DEF PlanConcat, bounds
    <2>2. CASE ExecuteConcat  BY <1>2, <2>2, ExecuteKeeps
    <2>3. CASE PrepareConcat  BY <1>2, <2>3, PrepareKeeps
    <2>4. CASE VerifyPrepared  BY <1>2, <2>4, VerifyKeeps
    <2>5. CASE PushAtomically  BY <1>2, <2>5, PushKeeps
    <2>6. CASE ClassifyPush  BY <1>2, <2>6, ClassifyKeeps
    <2>7. CASE RediscoverHeads  BY <1>2, <2>7, RediscoverKeeps
    <2>8. CASE CheckRoot  BY <1>2, <2>8, CheckKeeps
    <2>9. CASE CommitRoot  BY <1>2, <2>9, CommitKeeps
    <2>10. CASE FinalCheck  BY <1>2, <2>10, FinalKeeps
    <2>11. CASE JournalConcat  BY <1>2, <2>11, JournalKeeps
    <2>12. CASE RecheckRoot  BY <1>2, <2>12, RecheckKeeps
    <2>13. CASE UncommitRoot  BY <1>2, <2>13, UncommitKeeps
    <2>14. CASE RestoreHeads  BY <1>2, <2>14, RestoreKeeps
    <2>15. CASE ClassifyRestore  BY <1>2, <2>15, ClassifyRestoreKeeps
    <2>16. CASE ReadFails  BY <1>2, <2>16, ReadFailsKeeps
    <2>17. CASE ConcatDies  BY <1>2, <2>17, DiesKeeps
    <2>18. ASSUME NEW p \in PRs, AuthorWorks(p), job' = job PROVE ConcatInv'  BY <1>2, <2>18, AuthorKeeps
    <2>19. ASSUME NEW p \in PRs, PersonRetargets(p) \/ PersonLabels(p), job' = job, authored' = authored PROVE ConcatInv'
      BY <1>2, <2>19, PersonKeeps
    <2>20. CASE DefaultAdvances /\ job' = job /\ authored' = authored  BY <1>2, <2>20, AdvanceKeeps
    <2>21. CASE UNCHANGED <<concatVars, op, cut, bounds>>  BY <1>2, <2>21, PlanKeeps DEF concatVars, bounds
    <2>22. CASE ConcatStep
      BY <2>1, <2>2, <2>3, <2>4, <2>5, <2>6, <2>7, <2>8, <2>9, <2>10, <2>11, <2>12, <2>13, <2>14, <2>15, <2>16, <2>17,
         <2>22 DEF ConcatStep
    <2> QED  BY <1>2, <2>18, <2>19, <2>20, <2>21, <2>22 DEF ConcatNext
  <1> QED  BY <1>1, <1>2, PTL DEF ConcatSpec

\* No author's push is lost, refusals and rollbacks leave nothing behind, a complete concat
\* is one caravan in order: for any number of pull requests, commands, faults and pushes.
THEOREM ConcatsAreSound == ConcatSpec => []ConcatSound
PROOF BY ConcatInvariant, PTL DEF ConcatInv

=============================================================================
