---------------------------- MODULE HoldsProofs ----------------------------
(***************************************************************************)
(* Proofs about Holds: an effective hold stops every tick that has read    *)
(* it, and commands repeated after a crash end a recovery once and unpark  *)
(* only what was reviewed, for any budgets of commands, changes and deaths.*)
(***************************************************************************)
EXTENDS Holds, TLAPS

(* Lists of steps.                                                           *)
All(q, S) == \A i \in 1 .. Len(q) : q[i] \in S
Has(q, S) == \E i \in 1 .. Len(q) : q[i] \in S

Outcomes == {"finalized", "rolled_back"}
NeedsRec == {"checkpoint_base", "checkpoint_head", "advance"} \cup Outcomes
NeedsHold == {"auth", "prepare"} \cup NeedsRec
Last == {"hold", "drop", "prepare"}
Landing == {"merge", "admin", "arm"}
\* A landing is planned from the status, or already planned.
Lasting == {"root_first", "parking", "converge"} \cup Landing
\* What may change the root so that the tick's status is no longer the provider's.
Moving == RemoteWrites \ {"disable", "disarm"}

CommandSteps ==
    NeedsHold \cup {"disable", "hold", "checks", "enable", "drop", "pend", "unpark", "finish",
                    "receipt", "unpend", "restore", "restored", "force", "comment", "unforce",
                    "forced", "unforced"}
TickSteps ==
    Lasting \cup {"event", "disable", "reread", "checks", "comment", "unpark", "note", "park",
                  "disarm", "verify", "consume", "gate"}
Steps == CommandSteps \cup TickSteps
\* What is left of a tick once a landing is planned.
Committed == Landing \cup {"disarm", "verify", "comment", "consume", "gate", "event"}

\* The record goes last, and a recovery's outcome is written once.
CommandOrder(q) ==
    /\ All(q, CommandSteps)
    /\ \A i \in 1 .. Len(q) : q[i] \in Last => i = Len(q)
    /\ \A i, j \in 1 .. Len(q) : i < j /\ q[i] \in Outcomes => q[j] = "drop"
    /\ Has(q, Outcomes) => All(q, Outcomes \cup {"advance", "drop"})

\* Between a write of the tick's own and a landing the status is read again.
Fenced(q) ==
    \A i, j \in 1 .. Len(q) :
        i < j /\ q[i] \in Moving /\ q[j] \in Lasting =>
            \E k \in 1 .. Len(q) : i < k /\ k < j /\ q[k] = "reread"

TickOrder(q) ==
    /\ All(q, TickSteps)
    /\ \A i, j \in 1 .. Len(q) : i < j /\ q[i] = "converge" => q[j] = "event"
    /\ Fenced(q)
    /\ Has(q, Landing) => All(q, Committed)

\* A landing may follow from the status that the tick holds now.
Ahead(q) == \E j \in 1 .. Len(q) : q[j] \in Lasting /\ \A k \in 1 .. Len(q) : k < j => q[k] # "reread"

(* The operation in progress.                                                *)
KeyOf(h) == IF h.rec # Nothing THEN <<h.rec.head, h.rec.base>> ELSE <<h.head, h.base>>
HeldBy(h, s) == h # Nothing /\ IsEffective(Classify(h, s))
Provenance(e) == IF e = Nothing THEN <<>> ELSE e.parked

OpSet(A) == [cmd : A, s : Status, cur : A, todo : Seq(Steps), ok : BOOLEAN, raced : BOOLEAN,
             ask : A, ev : A]
OpShape(o) == \E A : o \in OpSet(A)

\* A command: what its steps need is there, and stays there until they are done.
CommandOK(o, h, term, e) ==
    /\ o.cmd # "tick" /\ CommandOrder(o.todo)
    /\ Has(o.todo, NeedsHold) => h # Nothing
    /\ Has(o.todo, NeedsRec) => h.rec # Nothing
    /\ Has(o.todo, Outcomes) => \A r \in term : r.key # KeyOf(h)
    /\ o.cmd = "unpark" /\ Has(o.todo, {"unpark"}) => Provenance(e) = o.ask.fp

\* A tick: what it lands was not held in its status, which is the provider's until
\* somebody interferes.
TickOK(o, h, p, t) ==
    /\ o.cmd = "tick" /\ TickOrder(o.todo)
    /\ Has(o.todo, Landing) => ~HeldBy(h, o.s)
    /\ ~o.raced /\ ~o.s.pull.auto /\ Ahead(o.todo) => p = o.s.pull /\ t = o.s.tail

OpOK(o, h, term, e, p, t) ==
    o = Nothing \/ (OpShape(o) /\ (CommandOK(o, h, term, e) \/ TickOK(o, h, p, t)))

Left == [runs : Nat, outside : Nat, commands : Nat, cuts : Nat, may : SUBSET CommandNames]

HoldsInv ==
    /\ TypeOK /\ left \in Left
    /\ OneTerminalOutcome
    /\ marks \cap {"landed_held", "unparked_other"} = {}
    /\ OpOK(op, hold, terminal, event, pull, tail)

------------------------------------------------------------------------------
(* Lists.                                                                    *)

LEMMA TailFacts ==
  ASSUME NEW q \in Seq(Steps), q # <<>>
  PROVE  /\ Len(q) \in Nat /\ Len(q) > 0 /\ 1 \in 1 .. Len(q) /\ Head(q) = q[1]
         /\ Tail(q) \in Seq(Steps) /\ Len(Tail(q)) = Len(q) - 1
         /\ \A i \in 1 .. Len(Tail(q)) : i + 1 \in 1 .. Len(q) /\ Tail(q)[i] = q[i + 1]
OBVIOUS

LEMMA TailHas ==
  ASSUME NEW q \in Seq(Steps), q # <<>>, NEW S
  PROVE  /\ Has(Tail(q), S) => Has(q, S)
         /\ All(q, S) => All(Tail(q), S)
         /\ All(q, S) => Head(q) \in S
         /\ Head(q) \in S => Has(q, S)
BY TailFacts DEF Has, All

LEMMA TailCommand ==
  ASSUME NEW q \in Seq(Steps), q # <<>>, CommandOrder(q)
  PROVE  /\ CommandOrder(Tail(q))
         /\ Head(q) \in Last => Tail(q) = <<>>
         /\ Head(q) \in Outcomes => ~Has(Tail(q), Outcomes) /\ ~Has(Tail(q), NeedsHold)
<1>1. All(Tail(q), CommandSteps)
  BY TailHas DEF CommandOrder
<1>2. \A i \in 1 .. Len(Tail(q)) : Tail(q)[i] \in Last => i = Len(Tail(q))
  BY TailFacts DEF CommandOrder
<1>3. \A i, j \in 1 .. Len(Tail(q)) : i < j /\ Tail(q)[i] \in Outcomes => Tail(q)[j] = "drop"
  BY TailFacts DEF CommandOrder
<1>4. Has(Tail(q), Outcomes) => All(Tail(q), Outcomes \cup {"advance", "drop"})
  BY TailHas DEF CommandOrder
<1>5. Head(q) \in Last => Tail(q) = <<>>
  BY TailFacts DEF CommandOrder
<1>6. Head(q) \in Outcomes => \A j \in 1 .. Len(Tail(q)) : Tail(q)[j] = "drop"
  BY TailFacts DEF CommandOrder
<1>7. Head(q) \in Outcomes => ~Has(Tail(q), Outcomes) /\ ~Has(Tail(q), NeedsHold)
  BY <1>6 DEF Has, Outcomes, NeedsHold, NeedsRec
<1> QED
  BY <1>1, <1>2, <1>3, <1>4, <1>5, <1>7 DEF CommandOrder

LEMMA TailTick ==
  ASSUME NEW q \in Seq(Steps), q # <<>>, TickOrder(q)
  PROVE  /\ TickOrder(Tail(q))
         /\ Head(q) # "reread" /\ Ahead(Tail(q)) => Ahead(q) /\ Head(q) \notin Moving
         /\ Head(q) = "reread" => ~Has(q, Landing)
<1>1. All(Tail(q), TickSteps)
  BY TailHas DEF TickOrder
<1>2. \A i, j \in 1 .. Len(Tail(q)) : i < j /\ Tail(q)[i] = "converge" => Tail(q)[j] = "event"
  BY TailFacts DEF TickOrder
<1>3. Fenced(Tail(q))
  <2> SUFFICES ASSUME NEW i \in 1 .. Len(Tail(q)), NEW j \in 1 .. Len(Tail(q)),
                      i < j, Tail(q)[i] \in Moving, Tail(q)[j] \in Lasting
               PROVE  \E k \in 1 .. Len(Tail(q)) : i < k /\ k < j /\ Tail(q)[k] = "reread"
    BY DEF Fenced
  <2>1. PICK k \in 1 .. Len(q) : i + 1 < k /\ k < j + 1 /\ q[k] = "reread"
    BY TailFacts DEF TickOrder, Fenced
  <2>2. k - 1 \in 1 .. Len(Tail(q)) /\ i < k - 1 /\ k - 1 < j /\ Tail(q)[k - 1] = q[(k - 1) + 1] /\ (k - 1) + 1 = k
    BY <2>1, TailFacts
  <2> QED
    BY <2>1, <2>2
<1>4. Has(Tail(q), Landing) => All(Tail(q), Committed)
  BY TailHas DEF TickOrder
<1>5. ASSUME Head(q) # "reread", Ahead(Tail(q)) PROVE Ahead(q) /\ Head(q) \notin Moving
  <2>1. PICK j \in 1 .. Len(Tail(q)) : /\ Tail(q)[j] \in Lasting
                                      /\ \A k \in 1 .. Len(Tail(q)) : k < j => Tail(q)[k] # "reread"
    BY <1>5 DEF Ahead
  <2>2. j + 1 \in 1 .. Len(q) /\ q[j + 1] \in Lasting
    BY <2>1, TailFacts
  <2>3. ASSUME NEW k \in 1 .. Len(q), k < j + 1 PROVE q[k] # "reread"
    <3>1. CASE k = 1
      BY <3>1, <1>5, TailFacts
    <3>2. CASE k # 1
      <4>1. k - 1 \in 1 .. Len(Tail(q)) /\ k - 1 < j /\ Tail(q)[k - 1] = q[(k - 1) + 1] /\ (k - 1) + 1 = k
        BY <2>3, <3>2, TailFacts
      <4> QED
        BY <4>1, <2>1
    <3> QED
      BY <3>1, <3>2
  <2>4. Head(q) \notin Moving
    <3> SUFFICES ASSUME q[1] \in Moving PROVE FALSE
      BY TailFacts
    <3>1. PICK k \in 1 .. Len(q) : 1 < k /\ k < j + 1 /\ q[k] = "reread"
      BY <2>2, TailFacts DEF TickOrder, Fenced
    <3> QED
      BY <3>1, <2>3
  <2> QED
    BY <2>2, <2>3, <2>4 DEF Ahead
<1>6. Head(q) = "reread" => ~Has(q, Landing)
  BY TailHas DEF TickOrder, Committed, Landing
<1> QED
  BY <1>1, <1>2, <1>3, <1>4, <1>5, <1>6 DEF TickOrder

LEMMA CatFacts ==
  ASSUME NEW m \in Seq(Steps), NEW r \in Seq(Steps)
  PROVE  /\ m \o r \in Seq(Steps) /\ Len(m) \in Nat /\ Len(r) \in Nat
         /\ Len(m \o r) = Len(m) + Len(r)
         /\ \A i \in 1 .. Len(m) : i \in 1 .. Len(m \o r) /\ (m \o r)[i] = m[i]
         /\ \A i \in 1 .. Len(r) : i + Len(m) \in 1 .. Len(m \o r) /\ (m \o r)[i + Len(m)] = r[i]
         /\ \A i \in 1 .. Len(m \o r) : \/ i \in 1 .. Len(m) /\ (m \o r)[i] = m[i]
                                       \/ /\ i > Len(m) /\ i - Len(m) \in 1 .. Len(r)
                                          /\ (m \o r)[i] = r[i - Len(m)]
<1>1. /\ m \o r \in Seq(Steps) /\ Len(m) \in Nat /\ Len(r) \in Nat
      /\ Len(m \o r) = Len(m) + Len(r)
  OBVIOUS
<1>2. \A i \in 1 .. Len(m) : i \in 1 .. Len(m \o r) /\ (m \o r)[i] = m[i]
  BY <1>1
<1>3. \A i \in 1 .. Len(m \o r) : i > Len(m) => i - Len(m) \in 1 .. Len(r) /\ (m \o r)[i] = r[i - Len(m)]
  BY <1>1
<1>4. \A i \in 1 .. Len(r) : i + Len(m) \in 1 .. Len(m \o r) /\ (i + Len(m)) - Len(m) = i /\ i + Len(m) > Len(m)
  BY <1>1
<1>5. \A i \in 1 .. Len(r) : (m \o r)[i + Len(m)] = r[i]
  BY <1>3, <1>4
<1>6. \A i \in 1 .. Len(m \o r) : i > Len(m) \/ i \in 1 .. Len(m)
  BY <1>1
<1> QED
  BY <1>1, <1>2, <1>3, <1>4, <1>5, <1>6

\* The steps of parking go before the rest of the tick and end with a new reading.
LEMMA CatParking ==
  ASSUME NEW m \in Seq(Steps), NEW r \in Seq(Steps), m # <<>>, m[Len(m)] = "reread",
         All(m, TickSteps \ Lasting), TickOrder(r), ~Has(r, Landing)
  PROVE  TickOrder(m \o r) /\ ~Has(m \o r, Landing)
<1> DEFINE q == m \o r
<1>0. Len(m) \in 1 .. Len(m) /\ Len(m) \in 1 .. Len(q)
  BY CatFacts
<1>1. All(q, TickSteps)
  BY CatFacts DEF All, TickOrder
<1>2. ASSUME NEW i \in 1 .. Len(q), NEW j \in 1 .. Len(q), i < j, q[i] = "converge" PROVE q[j] = "event"
  <2>1. i > Len(m) /\ i - Len(m) \in 1 .. Len(r) /\ q[i] = r[i - Len(m)]
    BY <1>2, CatFacts DEF All, Lasting
  <2>2. j > Len(m)
    BY <2>1, <1>2, CatFacts
  <2>3. j - Len(m) \in 1 .. Len(r) /\ q[j] = r[j - Len(m)]
    BY <2>2, CatFacts
  <2>4. i - Len(m) < j - Len(m)
    BY <1>2, CatFacts
  <2> QED
    BY <1>2, <2>1, <2>3, <2>4 DEF TickOrder
<1>3. Fenced(q)
  <2> SUFFICES ASSUME NEW i \in 1 .. Len(q), NEW j \in 1 .. Len(q), i < j, q[i] \in Moving, q[j] \in Lasting
               PROVE  \E k \in 1 .. Len(q) : i < k /\ k < j /\ q[k] = "reread"
    BY DEF Fenced
  <2>1. j > Len(m) /\ j - Len(m) \in 1 .. Len(r) /\ q[j] = r[j - Len(m)]
    BY CatFacts DEF All
  <2>2. CASE i \in 1 .. Len(m)
    <3>a. q[Len(m)] = "reread"
      BY <1>0, CatFacts
    <3>b. "reread" \notin Moving
      BY DEF Moving, RemoteWrites
    <3>1. q[Len(m)] = "reread" /\ i # Len(m)
      BY <3>a, <3>b
    <3>2. i < Len(m) /\ Len(m) < j
      BY <2>1, <2>2, <3>1, CatFacts
    <3> QED
      BY <1>0, <3>1, <3>2
  <2>3. CASE i > Len(m)
    <3>1. i - Len(m) \in 1 .. Len(r) /\ q[i] = r[i - Len(m)] /\ i - Len(m) < j - Len(m)
      BY <2>1, <2>3, CatFacts
    <3>2. PICK k \in 1 .. Len(r) : i - Len(m) < k /\ k < j - Len(m) /\ r[k] = "reread"
      BY <2>1, <3>1 DEF TickOrder, Fenced
    <3>3. k + Len(m) \in 1 .. Len(q) /\ q[k + Len(m)] = "reread"
      BY <3>2, CatFacts
    <3>4. i < k + Len(m) /\ k + Len(m) < j
      BY <3>2, CatFacts
    <3> QED
      BY <3>3, <3>4
  <2> QED
    BY <2>2, <2>3, CatFacts
<1>4. ~Has(q, Landing)
  BY CatFacts DEF All, Has, Lasting
<1> QED
  BY <1>1, <1>2, <1>3, <1>4 DEF TickOrder

\* The steps of a landing leave only the events behind them.
LEMMA CatConverge ==
  ASSUME NEW m \in Seq(Steps), NEW r \in Seq(Steps), All(m, Committed), Fenced(m), All(r, {"event"})
  PROVE  TickOrder(m \o r)
<1> DEFINE q == m \o r
<1>1. All(q, Committed)
  BY CatFacts DEF All, Committed
<1>2. All(q, TickSteps) /\ \A i \in 1 .. Len(q) : q[i] # "converge"
  BY <1>1 DEF All, Committed, TickSteps, Lasting, Landing
<1>3. Fenced(q)
  <2> SUFFICES ASSUME NEW i \in 1 .. Len(q), NEW j \in 1 .. Len(q), i < j, q[i] \in Moving, q[j] \in Lasting
               PROVE  \E k \in 1 .. Len(q) : i < k /\ k < j /\ q[k] = "reread"
    BY DEF Fenced
  <2>a. "event" \notin Lasting
    BY DEF Lasting, Landing
  <2>b. \/ j \in 1 .. Len(m) /\ q[j] = m[j]
        \/ j - Len(m) \in 1 .. Len(r) /\ q[j] = r[j - Len(m)]
    BY CatFacts
  <2>1. j \in 1 .. Len(m) /\ q[j] = m[j]
    BY <2>a, <2>b DEF All
  <2>2. i \in 1 .. Len(m)
    BY <2>1, CatFacts
  <2>3. q[i] = m[i]
    BY <2>2, CatFacts
  <2>4. PICK k \in 1 .. Len(m) : i < k /\ k < j /\ m[k] = "reread"
    BY <2>1, <2>2, <2>3 DEF Fenced
  <2>5. k \in 1 .. Len(q) /\ q[k] = m[k]
    BY <2>4, CatFacts
  <2> QED
    BY <2>4, <2>5
<1> QED
  BY <1>1, <1>2, <1>3 DEF TickOrder

(* What the phases of a tick plan.                                           *)
LEMMA ParkingFacts ==
  ASSUME NEW s, NEW m, m = ParkingSteps(s), m # <<>>
  PROVE  m \in Seq(Steps) /\ m[Len(m)] = "reread" /\ All(m, TickSteps \ Lasting)
<1> USE DEF Steps, CommandSteps, TickSteps, Lasting, Landing
<1> DEFINE moved == <<"checks", "comment", "checks">>
           back == <<"unpark", "note", "reread">>
           away == <<"park", "disarm", "note", "reread">>
<1>1. m \in {<<"disable", "reread">>, moved \o back, moved \o away}
  BY Zenon DEF ParkingSteps
<1>2. moved \in Seq(Steps) /\ back \in Seq(Steps) /\ away \in Seq(Steps)
  OBVIOUS
<1>3. Len(back) = 3 /\ back[3] = "reread" /\ Len(away) = 4 /\ away[4] = "reread"
  OBVIOUS
<1>4. All(moved, TickSteps \ Lasting) /\ All(back, TickSteps \ Lasting) /\ All(away, TickSteps \ Lasting)
  BY DEF All
<1> HIDE DEF moved, back, away, Steps, CommandSteps, TickSteps, Lasting, Landing
<1>5. CASE m = <<"disable", "reread">>
  BY <1>5 DEF All, Steps, TickSteps, Lasting, Landing
<1>6. CASE m = moved \o back
  <2>0. 3 \in 1 .. Len(back)
    BY <1>3
  <2>a. m[3 + Len(moved)] = back[3] /\ Len(m) = Len(moved) + Len(back) /\ Len(moved) \in Nat /\ m \in Seq(Steps)
    BY <1>2, <2>0, <1>6, CatFacts
  <2>1. Len(m) = Len(moved) + 3 /\ m[3 + Len(moved)] = "reread" /\ Len(moved) \in Nat /\ m \in Seq(Steps)
    BY <1>3, <2>a
  <2>2. All(m, TickSteps \ Lasting)
    BY <1>2, <1>4, <1>6, CatFacts DEF All
  <2>3. Len(m) = 3 + Len(moved)
    BY <2>1
  <2> QED
    BY <2>1, <2>2, <2>3
<1>7. CASE m = moved \o away
  <2>0. 4 \in 1 .. Len(away)
    BY <1>3
  <2>a. m[4 + Len(moved)] = away[4] /\ Len(m) = Len(moved) + Len(away) /\ Len(moved) \in Nat /\ m \in Seq(Steps)
    BY <1>2, <2>0, <1>7, CatFacts
  <2>1. Len(m) = Len(moved) + 4 /\ m[4 + Len(moved)] = "reread" /\ Len(moved) \in Nat /\ m \in Seq(Steps)
    BY <1>3, <2>a
  <2>2. All(m, TickSteps \ Lasting)
    BY <1>2, <1>4, <1>7, CatFacts DEF All
  <2>3. Len(m) = 4 + Len(moved)
    BY <2>1
  <2> QED
    BY <2>1, <2>2, <2>3
<1> QED
  BY <1>1, <1>5, <1>6, <1>7

LEMMA ConvergeFacts ==
  ASSUME NEW s, NEW m, m = ConvergeSteps(s)
  PROVE  /\ m = <<>> \/ Selected(s)
         /\ m \in Seq(Steps) /\ All(m, Committed) /\ Fenced(m)
<1>0. m = <<>> \/ Selected(s)
  BY DEF ConvergeSteps
<1>1. m \in {<<>>, ForceSteps, <<"disarm", "gate", "merge">>, <<"arm", "gate">>}
  BY DEF ConvergeSteps
<1>2. CASE m = <<>>
  BY <1>0, <1>2 DEF All, Fenced
<1>3. CASE m = ForceSteps
  <2>1. m = <<"disarm", "verify", "comment", "admin", "consume">>
    BY <1>3 DEF ForceSteps
  <2>2. m \in Seq(Steps) /\ All(m, Committed)
    BY <2>1 DEF All, Committed, Landing, Steps, CommandSteps, TickSteps, Lasting
  <2>3. Fenced(m)
    BY <2>1 DEF Fenced, Moving, RemoteWrites, Lasting, Landing
  <2> QED
    BY <1>0, <2>2, <2>3
<1>4. CASE m = <<"disarm", "gate", "merge">>
  BY <1>0, <1>4 DEF All, Fenced, Committed, Moving, RemoteWrites, Lasting, Landing, Steps, TickSteps
<1>5. CASE m = <<"arm", "gate">>
  BY <1>0, <1>5 DEF All, Fenced, Committed, Moving, RemoteWrites, Lasting, Landing, Steps, TickSteps
<1> QED
  BY <1>1, <1>2, <1>3, <1>4, <1>5

LEMMA RootFirstFacts ==
  ASSUME NEW s, NEW m, m = RootFirstSteps(s), m # <<>>
  PROVE  Selected(s) /\ m \in Seq(Steps) /\ m \o <<>> = m /\ TickOrder(m)
<1>1. Selected(s) /\ m = <<"merge", "event">>
  BY DEF RootFirstSteps
<1>2. m \in Seq(Steps) /\ All(m, Committed) /\ All(m, TickSteps) /\ Fenced(m)
  BY <1>1 DEF All, Fenced, Committed, TickSteps, Moving, RemoteWrites, Lasting, Landing, Steps
<1>3. m \o <<>> = m
  BY <1>2
<1> QED
  BY <1>1, <1>2, <1>3 DEF TickOrder

LEMMA TickBegins == TickOrder(<<"root_first", "parking", "converge", "event">>)
                    /\ ~Has(<<"root_first", "parking", "converge", "event">>, Landing)
BY DEF TickOrder, All, Has, Fenced, Committed, TickSteps, Moving, RemoteWrites, Lasting, Landing

\* A command's optional first steps.
LEMMA CatCommand ==
  ASSUME NEW m \in Seq(Steps), NEW r \in Seq(Steps),
         All(m, CommandSteps \ (Outcomes \cup Last)), CommandOrder(r), ~Has(r, Outcomes)
  PROVE  CommandOrder(m \o r) /\ ~Has(m \o r, Outcomes)
<1> DEFINE q == m \o r
<1>1. All(q, CommandSteps)
  BY CatFacts DEF All, CommandOrder
<1>2. ASSUME NEW i \in 1 .. Len(q), q[i] \in Last PROVE i = Len(q)
  <2>1. i - Len(m) \in 1 .. Len(r) /\ q[i] = r[i - Len(m)]
    BY <1>2, CatFacts DEF All
  <2>2. i - Len(m) = Len(r)
    BY <1>2, <2>1 DEF CommandOrder
  <2> QED
    BY <2>2, CatFacts
<1>3. ~Has(q, Outcomes)
  <2> SUFFICES ASSUME NEW i \in 1 .. Len(q), q[i] \in Outcomes PROVE FALSE
    BY DEF Has
  <2>1. CASE i \in 1 .. Len(m) /\ q[i] = m[i]
    BY <2>1 DEF All
  <2>2. CASE i - Len(m) \in 1 .. Len(r) /\ q[i] = r[i - Len(m)]
    BY <2>2 DEF Has
  <2> QED
    BY <2>1, <2>2, CatFacts
<1> QED
  BY <1>1, <1>2, <1>3 DEF CommandOrder, Has

LEMMA CatHas ==
  ASSUME NEW m \in Seq(Steps), NEW r \in Seq(Steps), NEW S
  PROVE  Has(m \o r, S) => Has(m, S) \/ Has(r, S)
BY CatFacts DEF Has

------------------------------------------------------------------------------
(* The operation in progress.                                                *)

LEMMA Facts ==
  ASSUME HoldsInv
  PROVE  /\ pull \in PullRequest /\ tail \in BOOLEAN /\ hold \in HoldRecords /\ left \in Left
         /\ op # Nothing => OpShape(op) /\ (CommandOK(op, hold, terminal, event) \/ TickOK(op, hold, pull, tail))
BY DEF HoldsInv, TypeOK, OpOK

\* What a step leaves of the operation.
LEMMA DoneFacts ==
  ASSUME NEW o, OpShape(o), o.todo # <<>>, Done(o) # Nothing
  PROVE  /\ OpShape(Done(o)) /\ Done(o).todo = Tail(o.todo)
         /\ Done(o).cmd = o.cmd /\ Done(o).s = o.s /\ Done(o).raced = o.raced /\ Done(o).ask = o.ask
<1>0. PICK A : o \in OpSet(A)
  BY DEF OpShape
<1>1. Done(o) = [o EXCEPT !.todo = Tail(@), !.ok = FALSE]
  BY DEF Done
<1>2. PICK v : v = [o EXCEPT !.todo = Tail(@), !.ok = FALSE]
  OBVIOUS
<1>3. o.todo \in Seq(Steps) /\ Tail(o.todo) \in Seq(Steps)
  BY <1>0, TailFacts DEF OpSet
<1>4. v \in OpSet(A)
  BY <1>0, <1>2, <1>3 DEF OpSet
<1>5. v.todo = Tail(o.todo) /\ v.cmd = o.cmd /\ v.s = o.s /\ v.raced = o.raced /\ v.ask = o.ask
  BY <1>0, <1>2 DEF OpSet
<1> QED
  BY <1>1, <1>2, <1>4, <1>5 DEF OpShape

\* A command goes on: its record, receipts and events may have changed.
LEMMA CommandStep ==
  ASSUME NEW o, OpShape(o), o.todo # <<>>, NEW h, NEW term, NEW e, CommandOK(o, h, term, e),
         NEW v, v.todo = Tail(o.todo), v.cmd = o.cmd, v.ask = o.ask,
         NEW g, NEW term2,
         \/ g = h /\ term2 = term
         \/ Head(o.todo) \in Last \cup Outcomes
         \/ /\ term2 = term /\ (h # Nothing => g # Nothing)
            /\ h.rec # Nothing => (g.rec # Nothing /\ g.rec.head = h.rec.head /\ g.rec.base = h.rec.base)
  PROVE  CommandOK(v, g, term2, e)
<1>0. o.todo \in Seq(Steps)
  BY DEF OpShape, OpSet
<1>1. CommandOrder(v.todo)
  BY <1>0, TailCommand DEF CommandOK
<1>2. \A S : Has(v.todo, S) => Has(o.todo, S)
  BY <1>0, TailHas
<1>3. v.cmd # "tick" /\ (v.cmd = "unpark" /\ Has(v.todo, {"unpark"}) => Provenance(e) = v.ask.fp)
  BY <1>2 DEF CommandOK
<1>4. CASE g = h /\ term2 = term
  BY <1>1, <1>2, <1>3, <1>4 DEF CommandOK
<1>5. CASE Head(o.todo) \in Last \cup Outcomes
  <2>0. Head(o.todo) \in Last => ~Has(<<>>, NeedsHold) /\ v.todo = <<>>
    BY <1>0, TailCommand DEF CommandOK, Has
  <2>1. ~Has(v.todo, NeedsHold)
    BY <1>0, <1>5, <2>0, TailCommand DEF CommandOK
  <2>2. ~Has(v.todo, NeedsRec) /\ ~Has(v.todo, Outcomes)
    BY <2>1 DEF Has, NeedsHold, NeedsRec
  <2> QED
    BY <1>1, <1>3, <2>1, <2>2 DEF CommandOK
<1>6. CASE /\ term2 = term /\ (h # Nothing => g # Nothing)
           /\ h.rec # Nothing => (g.rec # Nothing /\ g.rec.head = h.rec.head /\ g.rec.base = h.rec.base)
  <2>1. Has(v.todo, NeedsHold) => g # Nothing
    BY <1>2, <1>6 DEF CommandOK
  <2>2. Has(v.todo, NeedsRec) => h.rec # Nothing /\ g.rec # Nothing
    BY <1>2, <1>6 DEF CommandOK
  <2>3. Has(v.todo, Outcomes) => Has(v.todo, NeedsRec)
    BY DEF Has, NeedsRec
  <2>4. Has(v.todo, Outcomes) => KeyOf(g) = KeyOf(h)
    BY <1>6, <2>2, <2>3 DEF KeyOf
  <2>5. Has(v.todo, Outcomes) => \A r \in term2 : r.key # KeyOf(g)
    BY <1>2, <1>6, <2>4 DEF CommandOK
  <2> QED
    BY <1>1, <1>3, <2>1, <2>2, <2>5 DEF CommandOK
<1> QED
  BY <1>4, <1>5, <1>6

\* A tick goes on, after a step that left the root alone or made a write it may make.
LEMMA TickStep ==
  ASSUME NEW o, OpShape(o), o.todo # <<>>, NEW h, NEW p, NEW t, TickOK(o, h, p, t), Head(o.todo) # "reread",
         NEW v, v.todo = Tail(o.todo), v.cmd = o.cmd, v.s = o.s, v.raced = o.raced,
         NEW r, \/ r = p
                \/ Head(o.todo) \in Moving
                \/ ~p.auto => r = p
  PROVE  TickOK(v, h, r, t)
<1>0. o.todo \in Seq(Steps)
  BY DEF OpShape, OpSet
<1>1. TickOrder(v.todo) /\ (Ahead(v.todo) => Ahead(o.todo) /\ Head(o.todo) \notin Moving)
  BY <1>0, TailTick DEF TickOK
<1>2. Has(v.todo, Landing) => ~HeldBy(h, v.s)
  BY <1>0, TailHas DEF TickOK
<1>3. ~v.raced /\ ~v.s.pull.auto /\ Ahead(v.todo) => r = v.s.pull /\ t = v.s.tail
  BY <1>1 DEF TickOK
<1> QED
  BY <1>1, <1>2, <1>3 DEF TickOK

LEMMA SpendFacts ==
  ASSUME left \in Left, NEW what \in {"runs", "outside", "commands", "cuts"}, Spend(what)
  PROVE  left' \in Left /\ left'.may = left.may
BY DEF Spend, Left

LEMMA PlanFacts ==
  ASSUME HoldsInv, NEW cmd, NEW steps \in Seq(Steps)
  PROVE  /\ OpShape(Plan(cmd, steps)) /\ Plan(cmd, steps).cmd = cmd /\ Plan(cmd, steps).todo = steps
         /\ Plan(cmd, steps).ask = ask /\ Plan(cmd, steps).s = Snap
<1>1. Snap \in Status
  BY Facts DEF Snap, Status
<1>2. Plan(cmd, steps) \in OpSet({cmd, pull, ask, Nothing})
  BY <1>1 DEF Plan, OpSet
<1> QED
  BY <1>2 DEF Plan, OpShape

------------------------------------------------------------------------------
(* Commands begin.                                                           *)

LEMMA BeginInv ==
  ASSUME HoldsInv, NEW cmd, NEW steps \in Seq(Steps), Begin(cmd, steps), cmd # "tick", CommandOrder(steps),
         Has(steps, NeedsHold) => hold # Nothing,
         Has(steps, NeedsRec) => hold.rec # Nothing,
         Has(steps, Outcomes) => \A r \in terminal : r.key # KeyOf(hold),
         cmd = "unpark" /\ Has(steps, {"unpark"}) => Provenance(event) = ask.fp
  PROVE  HoldsInv'
<1>0. /\ UNCHANGED <<actor, pull, tail, hold, terminal, event, marks>> /\ op' = Plan(cmd, steps)
      /\ Spend("commands")
  BY DEF Begin
<1>1. left' \in Left /\ left'.may = left.may
  BY <1>0, Facts, SpendFacts
<1>2. CommandOK(op', hold, terminal, event) /\ OpShape(op')
  BY <1>0, PlanFacts DEF CommandOK
<1>3. TypeOK' /\ OneTerminalOutcome'
  BY <1>0, <1>1 DEF HoldsInv, TypeOK, OneTerminalOutcome
<1> QED
  BY <1>0, <1>1, <1>2, <1>3 DEF HoldsInv, OpOK

\* Steps that need no record.
LEMMA PlainSteps ==
  ASSUME NEW steps \in Seq(Steps), All(steps, CommandSteps \ (NeedsHold \cup Last))
  PROVE  CommandOrder(steps) /\ ~Has(steps, NeedsHold) /\ ~Has(steps, NeedsRec) /\ ~Has(steps, Outcomes)
BY DEF All, Has, CommandOrder, NeedsHold, NeedsRec

LEMMA PlainInv ==
  ASSUME HoldsInv, NEW cmd, NEW steps \in Seq(Steps), Begin(cmd, steps), cmd # "tick",
         All(steps, CommandSteps \ (NeedsHold \cup Last)),
         cmd = "unpark" /\ Has(steps, {"unpark"}) => Provenance(event) = ask.fp
  PROVE  HoldsInv'
BY PlainSteps, BeginInv

\* The record is written or removed at the end.
LEMMA LastStep ==
  ASSUME NEW x \in {"hold", "drop"}
  PROVE  /\ <<x>> \in Seq(Steps) /\ CommandOrder(<<x>>)
         /\ ~Has(<<x>>, NeedsHold) /\ ~Has(<<x>>, NeedsRec) /\ ~Has(<<x>>, Outcomes)
<1>1. x \in CommandSteps /\ x \notin NeedsHold
  BY DEF CommandSteps, NeedsHold, NeedsRec, Outcomes
<1>2. <<x>> \in Seq(Steps)
  BY <1>1 DEF Steps
<1>3. \A i \in 1 .. Len(<<x>>) : i = 1 /\ <<x>>[i] = x
  OBVIOUS
<1>4. Len(<<x>>) = 1
  OBVIOUS
<1> HIDE DEF CommandSteps
<1> QED
  BY <1>1, <1>2, <1>3, <1>4 DEF CommandOrder, All, Has, NeedsHold, NeedsRec

LEMMA PauseInv == ASSUME HoldsInv, Pause PROVE HoldsInv'
<1> DEFINE m == IF pull.auto THEN <<"disable">> ELSE <<>>
<1>0. Begin("pause", m \o <<"hold">>)
  BY DEF Pause
<1>a. <<"disable">> \in Seq(Steps) /\ <<>> \in Seq(Steps)
  BY DEF Steps, CommandSteps
<1>b. m \in Seq(Steps)
  BY <1>a
<1>c. All(m, CommandSteps \ (NeedsHold \cup Last))
  BY DEF All, CommandSteps, NeedsHold, NeedsRec, Outcomes, Last
<1>1. m \in Seq(Steps) /\ All(m, CommandSteps \ (NeedsHold \cup Last))
  BY <1>b, <1>c
<1> HIDE DEF m
<1>2. ~Has(m, NeedsHold) /\ ~Has(m, NeedsRec) /\ All(m, CommandSteps \ (Outcomes \cup Last))
  BY <1>1 DEF All, Has, NeedsHold, NeedsRec
<1>3. m \o <<"hold">> \in Seq(Steps)
  BY <1>1, LastStep, CatFacts
<1>4. CommandOrder(m \o <<"hold">>) /\ ~Has(m \o <<"hold">>, Outcomes)
  BY <1>1, <1>2, LastStep, CatCommand
<1>5. ~Has(m \o <<"hold">>, NeedsHold) /\ ~Has(m \o <<"hold">>, NeedsRec)
  BY <1>1, <1>2, LastStep, CatHas
<1> QED
  BY <1>0, <1>3, <1>4, <1>5, BeginInv

LEMMA ResumeInv == ASSUME HoldsInv, Resume PROVE HoldsInv'
<1> DEFINE a == IF hold.auth THEN <<>> ELSE <<"auth">>
           b == IF actor = "cara" \/ pull.auto THEN <<>> ELSE <<"checks", "enable">>
           m == a \o b
<1>0. Begin("resume", m \o <<"drop">>) /\ hold # Nothing
  BY DEF Resume, ResumeReady
<1>a. <<"auth">> \in Seq(Steps) /\ <<"checks", "enable">> \in Seq(Steps) /\ <<>> \in Seq(Steps)
  BY DEF Steps, CommandSteps, NeedsHold
<1>1. a \in Seq(Steps) /\ b \in Seq(Steps)
  BY <1>a
<1>2. All(a, CommandSteps \ (NeedsRec \cup Last)) /\ All(b, CommandSteps \ (NeedsRec \cup Last))
  BY DEF All, CommandSteps, NeedsHold, NeedsRec, Outcomes, Last
<1> HIDE DEF a, b
<1>3. m \in Seq(Steps) /\ All(m, CommandSteps \ (NeedsRec \cup Last))
  BY <1>1, <1>2, CatFacts DEF All
<1> HIDE DEF m
<1>4. ~Has(m, NeedsRec) /\ All(m, CommandSteps \ (Outcomes \cup Last))
  BY <1>3 DEF All, Has, NeedsRec
<1>5. m \o <<"drop">> \in Seq(Steps)
  BY <1>3, LastStep, CatFacts
<1>6. CommandOrder(m \o <<"drop">>) /\ ~Has(m \o <<"drop">>, Outcomes)
  BY <1>3, <1>4, LastStep, CatCommand
<1>7. ~Has(m \o <<"drop">>, NeedsRec)
  BY <1>3, <1>4, LastStep, CatHas
<1> QED
  BY <1>0, <1>5, <1>6, <1>7, BeginInv

\* The phases of a recovery that write the record and nothing else.
LEMMA PhaseInv ==
  ASSUME HoldsInv, NEW x \in {"prepare", "checkpoint_base", "checkpoint_head"}, Begin("recovery", <<x>>),
         hold # Nothing, x # "prepare" => hold.rec # Nothing
  PROVE  HoldsInv'
<1>1. x \in CommandSteps /\ x \notin Outcomes /\ (x = "prepare" => x \notin NeedsRec)
  BY DEF CommandSteps, NeedsHold, NeedsRec, Outcomes
<1>2. <<x>> \in Seq(Steps)
  BY <1>1 DEF Steps
<1>3. Len(<<x>>) = 1 /\ \A i \in 1 .. Len(<<x>>) : <<x>>[i] = x
  OBVIOUS
<1>4. CommandOrder(<<x>>) /\ ~Has(<<x>>, Outcomes) /\ (Has(<<x>>, NeedsRec) => x # "prepare")
  BY <1>1, <1>3 DEF CommandOrder, All, Has
<1> QED
  BY <1>2, <1>4, BeginInv

LEMMA KeyIsOpen == ASSUME ~Ended(Key) PROVE \A r \in terminal : r.key # KeyOf(hold)
BY DEF Ended, Key, KeyOf

LEMMA FinalizeInv == ASSUME HoldsInv, Finalize PROVE HoldsInv'
<1> DEFINE q == <<"advance", "finalized", "drop">>
<1>0. Begin("recovery", q) /\ hold # Nothing /\ hold.rec # Nothing /\ ~Ended(Key)
  BY DEF Finalize, Recovering
<1>1. q \in Seq(Steps) /\ Len(q) = 3
  BY DEF Steps, CommandSteps, NeedsHold, NeedsRec, Outcomes
<1>2. CommandOrder(q)
  BY DEF CommandOrder, All, Has, CommandSteps, NeedsHold, NeedsRec, Outcomes, Last
<1> HIDE DEF q
<1>3. \A r \in terminal : r.key # KeyOf(hold)
  BY <1>0, KeyIsOpen
<1> QED
  BY <1>0, <1>1, <1>2, <1>3, BeginInv

LEMMA RollbackInv == ASSUME HoldsInv, Rollback PROVE HoldsInv'
<1> DEFINE q == <<"rolled_back", "drop">>
<1>0. Begin("recovery", q) /\ hold # Nothing /\ hold.rec # Nothing /\ ~Ended(Key)
  BY DEF Rollback, Recovering
<1>1. q \in Seq(Steps) /\ Len(q) = 2
  BY DEF Steps, CommandSteps, NeedsHold, NeedsRec, Outcomes
<1>2. CommandOrder(q)
  BY DEF CommandOrder, All, Has, CommandSteps, NeedsHold, NeedsRec, Outcomes, Last
<1> HIDE DEF q
<1>3. \A r \in terminal : r.key # KeyOf(hold)
  BY <1>0, KeyIsOpen
<1> QED
  BY <1>0, <1>1, <1>2, <1>3, BeginInv

LEMMA RecoveryInv ==
  ASSUME HoldsInv, Prepare \/ CheckpointBase \/ CheckpointHead \/ Finalize \/ Rollback \/ ReplayTerminal
  PROVE  HoldsInv'
<1>1. CASE Prepare
  BY <1>1, PhaseInv DEF Prepare
<1>2. CASE CheckpointBase
  BY <1>2, PhaseInv DEF CheckpointBase, Recovering
<1>3. CASE CheckpointHead
  BY <1>3, PhaseInv DEF CheckpointHead, Recovering
<1>4. CASE ReplayTerminal
  BY <1>4, LastStep, BeginInv DEF ReplayTerminal
<1> QED
  BY <1>1, <1>2, <1>3, <1>4, FinalizeInv, RollbackInv

LEMMA UnparkInv == ASSUME HoldsInv, UnparkNew \/ UnparkAgain \/ UnparkRecovered PROVE HoldsInv'
<1> DEFINE n == <<"checks", "pend", "unpark", "finish", "receipt", "unpend">>
           g == <<"checks", "unpark", "finish", "receipt", "unpend">>
           r == <<"finish", "receipt", "unpend">>
<1>1. n \in Seq(Steps) /\ g \in Seq(Steps) /\ r \in Seq(Steps)
  BY DEF Steps, CommandSteps
<1>2. /\ All(n, CommandSteps \ (NeedsHold \cup Last)) /\ All(g, CommandSteps \ (NeedsHold \cup Last))
      /\ All(r, CommandSteps \ (NeedsHold \cup Last))
  BY DEF All, CommandSteps, NeedsHold, NeedsRec, Outcomes, Last
<1>3. ~Has(r, {"unpark"})
  BY DEF Has
<1>4. UnparkReady => Provenance(event) = ask.fp
  BY DEF UnparkReady, ParkedProvenance, Provenance
<1>5. \/ Begin("unpark", n) /\ UnparkReady
      \/ Begin("unpark", g) /\ UnparkReady
      \/ Begin("unpark", r)
  BY DEF UnparkNew, UnparkAgain, UnparkRecovered
<1> HIDE DEF n, g, r
<1> QED
  BY <1>1, <1>2, <1>3, <1>4, <1>5, PlainInv

LEMMA ForceInv == ASSUME HoldsInv, Restore \/ Arm \/ Revoke \/ ReviewedApply \/ ReviewedRevoke PROVE HoldsInv'
<1> DEFINE Plain == CommandSteps \ (NeedsHold \cup Last)
           comment == <<"comment">>
           one == IF Forced(pull) THEN <<>> ELSE <<"force">>
           two == IF Forced(pull) THEN <<"unforce">> ELSE <<>>
           three == <<"restore", "restored">>
           four == <<"force", "comment", "forced">>
           five == <<"unforce", "comment", "unforced">>
<1>a. comment \in Seq(Steps) /\ <<"force">> \in Seq(Steps) /\ <<"unforce">> \in Seq(Steps) /\ <<>> \in Seq(Steps)
  BY DEF Steps, CommandSteps
<1>1. comment \in Seq(Steps) /\ one \in Seq(Steps) /\ two \in Seq(Steps)
  BY <1>a
<1>2. All(comment, Plain) /\ All(one, Plain) /\ All(two, Plain)
  BY DEF All, CommandSteps, NeedsHold, NeedsRec, Outcomes, Last
<1>3. three \in Seq(Steps) /\ four \in Seq(Steps) /\ five \in Seq(Steps)
  BY DEF Steps, CommandSteps
<1>4. All(three, Plain) /\ All(four, Plain) /\ All(five, Plain)
  BY DEF All, CommandSteps, NeedsHold, NeedsRec, Outcomes, Last
<1>5. \/ Begin("restore", three) \/ Begin("arm", one \o comment) \/ Begin("revoke", two \o comment)
      \/ Begin("apply", four) \/ Begin("reviewed_revoke", five)
  BY DEF Restore, Arm, Revoke, ReviewedApply, ReviewedRevoke
<1> HIDE DEF one, two, three, four, five, comment
<1>6. one \o comment \in Seq(Steps) /\ All(one \o comment, Plain)
  BY <1>1, <1>2, CatFacts DEF All
<1>7. two \o comment \in Seq(Steps) /\ All(two \o comment, Plain)
  BY <1>1, <1>2, CatFacts DEF All
<1>8. \E cmd \in {"restore", "arm", "revoke", "apply", "reviewed_revoke"}, q \in Seq(Steps) : Begin(cmd, q) /\ All(q, Plain)
  BY <1>3, <1>4, <1>5, <1>6, <1>7
<1> QED
  BY <1>8, PlainInv

------------------------------------------------------------------------------
(* The executor.                                                             *)

LEMMA FrameInv ==
  ASSUME HoldsInv, UNCHANGED <<actor, pull, tail, hold, terminal, left, marks>>,
         OpOK(op', hold, terminal, event', pull, tail)
  PROVE  HoldsInv'
<1>1. TypeOK' /\ OneTerminalOutcome'
  BY DEF HoldsInv, TypeOK, OneTerminalOutcome
<1> QED
  BY <1>1 DEF HoldsInv

LEMMA RunningFacts ==
  ASSUME HoldsInv, Running
  PROVE  /\ OpShape(op) /\ op.todo \in Seq(Steps) /\ op.todo # <<>> /\ op.s \in Status /\ op.raced \in BOOLEAN
         /\ \/ CommandOK(op, hold, terminal, event) /\ Step \in CommandSteps
            \/ TickOK(op, hold, pull, tail) /\ Step \in TickSteps
<1>1. OpShape(op) /\ (CommandOK(op, hold, terminal, event) \/ TickOK(op, hold, pull, tail)) /\ op.todo # <<>>
  BY Facts DEF Running
<1>2. op.todo \in Seq(Steps) /\ op.s \in Status /\ op.raced \in BOOLEAN
  BY <1>1 DEF OpShape, OpSet
<1> QED
  BY <1>1, <1>2, TailHas DEF CommandOK, TickOK, CommandOrder, TickOrder, Step

\* A step is done, or the operation ends with it.
LEMMA GoesOn ==
  ASSUME HoldsInv, Running, Step # "reread", NEW o, o = Nothing \/ o = Done(op)
  PROVE  OpOK(o, hold, terminal, event, pull, tail)
<1>1. CASE o = Nothing
  BY <1>1 DEF OpOK
<1>2. CASE o # Nothing
  <2>1. o = Done(op) /\ Done(op) # Nothing
    BY <1>2
  <2>2. CASE CommandOK(op, hold, terminal, event)
    BY <2>1, <2>2, RunningFacts, DoneFacts, CommandStep DEF OpOK
  <2>3. CASE TickOK(op, hold, pull, tail)
    BY <2>1, <2>3, RunningFacts, DoneFacts, TickStep DEF OpOK, Step
  <2> QED
    BY <2>2, <2>3, RunningFacts
<1> QED
  BY <1>1, <1>2

LEMMA TickStartInv == ASSUME HoldsInv, TickStart PROVE HoldsInv'
<1> DEFINE q == <<"root_first", "parking", "converge", "event">>
<1>0. op' = Plan("tick", q) /\ UNCHANGED <<actor, pull, tail, hold, terminal, event, left, marks>>
  BY DEF TickStart
<1>1. q \in Seq(Steps)
  BY DEF Steps, TickSteps, Lasting
<1>2. TickOrder(q) /\ ~Has(q, Landing)
  BY TickBegins
<1> HIDE DEF q
<1>3. /\ OpShape(op') /\ op'.cmd = "tick" /\ op'.todo = q /\ op'.s = Snap
  BY <1>0, <1>1, PlanFacts
<1>4. Snap.pull = pull /\ Snap.tail = tail
  BY DEF Snap
<1>5. TickOK(op', hold, pull, tail)
  BY <1>2, <1>3, <1>4 DEF TickOK
<1> QED
  BY <1>0, <1>3, <1>5, FrameInv DEF OpOK

LEMMA HeldIs == \A s : Held(s) <=> HeldBy(hold, s)
BY DEF Held, HeldBy

\* What a phase plans, given the status and the rest of the tick.
LEMMA PlanStep ==
  ASSUME NEW q \in Seq(Steps), q # <<>>, TickOrder(q), Head(q) \in {"root_first", "parking", "converge"}, NEW s,
         NEW more, more = CASE Head(q) = "root_first" -> RootFirstSteps(s)
                            [] Head(q) = "parking" -> ParkingSteps(s)
                            [] Head(q) = "converge" -> ConvergeSteps(s),
         NEW rest, rest = IF Head(q) = "root_first" /\ more # <<>> THEN <<>> ELSE Tail(q)
  PROVE  /\ more \o rest \in Seq(Steps) /\ TickOrder(more \o rest) /\ Ahead(q)
         /\ Has(more \o rest, Landing) => Selected(s)
<1>0. Tail(q) \in Seq(Steps) /\ TickOrder(Tail(q))
  BY TailFacts, TailTick
<1>1. Ahead(q)
  BY TailFacts DEF Ahead, Lasting
<1>2. ~Has(Tail(q), Landing)
  <2>1. Head(q) \notin Committed
    BY DEF Committed, Landing
  <2>2. ~Has(q, Landing)
    BY <2>1, TailHas DEF TickOrder
  <2> QED
    BY <2>2, TailHas
<1>3. CASE more = <<>>
  <2>a. rest = Tail(q)
    BY <1>3
  <2>b. \A r \in Seq(Steps) : <<>> \o r = r
    OBVIOUS
  <2>1. rest = Tail(q) /\ more \o rest = Tail(q)
    BY <1>0, <1>3, <2>a, <2>b
  <2> QED
    BY <1>0, <1>1, <1>2, <2>1
<1>4. CASE more # <<>> /\ Head(q) = "root_first"
  <2>1. more = RootFirstSteps(s) /\ rest = <<>>
    BY <1>4
  <2> QED
    BY <1>1, <1>4, <2>1, RootFirstFacts
<1>5. CASE more # <<>> /\ Head(q) = "parking"
  <2>1. more = ParkingSteps(s) /\ rest = Tail(q)
    BY <1>5
  <2>2. more \in Seq(Steps) /\ more[Len(more)] = "reread" /\ All(more, TickSteps \ Lasting)
    BY <1>5, <2>1, ParkingFacts
  <2>3. TickOrder(more \o rest) /\ ~Has(more \o rest, Landing)
    BY <1>0, <1>2, <1>5, <2>1, <2>2, CatParking
  <2>4. more \o rest \in Seq(Steps)
    BY <1>0, <2>1, <2>2, CatFacts
  <2> QED
    BY <1>1, <2>3, <2>4
<1>6. CASE more # <<>> /\ Head(q) = "converge"
  <2>1. more = ConvergeSteps(s) /\ rest = Tail(q)
    BY <1>6
  <2>2. Selected(s) /\ more \in Seq(Steps) /\ All(more, Committed) /\ Fenced(more)
    BY <1>6, <2>1, ConvergeFacts
  <2>3. All(Tail(q), {"event"})
    BY <1>6, TailFacts DEF TickOrder, All
  <2>4. TickOrder(more \o rest) /\ more \o rest \in Seq(Steps)
    BY <1>0, <2>1, <2>2, <2>3, CatConverge, CatFacts
  <2> QED
    BY <1>1, <2>2, <2>4
<1> QED
  BY <1>3, <1>4, <1>5, <1>6

LEMMA PlansInv == ASSUME HoldsInv, Plans, UNCHANGED <<actor, pull, tail, ask, left, parkedAs, marks>> PROVE HoldsInv'
<1>0. Running /\ Step \in {"root_first", "parking", "converge"} /\ UNCHANGED <<hold, terminal, event>>
  BY DEF Plans
<1>1. TickOK(op, hold, pull, tail)
  <2>1. Step \notin CommandSteps
    BY <1>0 DEF CommandSteps, NeedsHold, NeedsRec, Outcomes
  <2> QED
    BY <1>0, <2>1, RunningFacts
<1>2. PICK more, rest :
        /\ more = CASE Step = "root_first" -> RootFirstSteps(op.s)
                    [] Step = "parking" -> ParkingSteps(op.s)
                    [] Step = "converge" -> ConvergeSteps(op.s)
        /\ rest = IF Step = "root_first" /\ more # <<>> THEN <<>> ELSE Tail(op.todo)
        /\ op' = [op EXCEPT !.todo = more \o rest, !.cur = op.s.pull, !.ok = FALSE]
  BY DEF Plans
<1>3. /\ more \o rest \in Seq(Steps) /\ TickOrder(more \o rest) /\ Ahead(op.todo)
      /\ Has(more \o rest, Landing) => Selected(op.s)
  BY <1>0, <1>1, <1>2, RunningFacts, PlanStep DEF TickOK, Step
<1>4. PICK A : op \in OpSet(A)
  BY <1>0, RunningFacts DEF OpShape
<1>5. op' \in OpSet(A \cup {op.s.pull})
  BY <1>2, <1>3, <1>4 DEF OpSet
<1>6. op'.todo = more \o rest /\ op'.cmd = op.cmd /\ op'.s = op.s /\ op'.raced = op.raced
  BY <1>2, <1>4 DEF OpSet
<1>7. Selected(op.s) => ~HeldBy(hold, op.s)
  BY HeldIs DEF Selected
<1>8. TickOK(op', hold, pull, tail)
  BY <1>1, <1>3, <1>6, <1>7 DEF TickOK
<1> QED
  BY <1>0, <1>5, <1>8, FrameInv DEF OpOK, OpShape

LEMMA NothingKept ==
  /\ \A a, b : [Nothing EXCEPT !.s = a, !.cur = b, !.raced = FALSE] = Nothing
  /\ \A a : [Nothing EXCEPT !.ev = a] = Nothing
BY DEF Nothing

LEMMA RereadOK ==
  ASSUME HoldsInv, Running, Step = "reread", NEW o, o = [Done(op) EXCEPT !.s = Snap, !.cur = pull, !.raced = FALSE]
  PROVE  OpOK(o, hold, terminal, event, pull, tail)
<1>0. TickOK(op, hold, pull, tail)
  <2>1. "reread" \notin CommandSteps
    BY DEF CommandSteps, NeedsHold, NeedsRec, Outcomes
  <2> QED
    BY <2>1, RunningFacts
<1>1. CASE Done(op) = Nothing
  BY <1>1, NothingKept DEF OpOK
<1>2. CASE Done(op) # Nothing
  <2>0. PICK d : d = Done(op)
    OBVIOUS
  <2>1. OpShape(d) /\ d.todo = Tail(op.todo) /\ d.cmd = op.cmd
    BY <1>2, <2>0, RunningFacts, DoneFacts
  <2>2. PICK A : d \in OpSet(A)
    BY <2>1 DEF OpShape
  <2>3. Snap \in Status /\ Snap.pull = pull /\ Snap.tail = tail
    BY Facts DEF Snap, Status
  <2>4. o = [d EXCEPT !.s = Snap, !.cur = pull, !.raced = FALSE]
    BY <2>0
  <2>5. o \in OpSet(A \cup {pull})
    BY <2>2, <2>3, <2>4 DEF OpSet
  <2>6. o.todo = d.todo /\ o.cmd = d.cmd /\ o.s = Snap
    BY <2>2, <2>4 DEF OpSet
  <2>7. TickOrder(Tail(op.todo)) /\ ~Has(Tail(op.todo), Landing)
    BY <1>0, RunningFacts, TailTick, TailHas DEF TickOK, Step
  <2>8. TickOK(o, hold, pull, tail)
    BY <1>0, <2>1, <2>3, <2>6, <2>7 DEF TickOK
  <2> QED
    BY <2>5, <2>8 DEF OpOK, OpShape
<1> QED
  BY <1>1, <1>2

LEMMA NoteOK ==
  ASSUME HoldsInv, Running, Step = "note", NEW x, NEW o, o = [Done(op) EXCEPT !.ev = x]
  PROVE  OpOK(o, hold, terminal, event, pull, tail)
<1>0. TickOK(op, hold, pull, tail)
  <2>1. "note" \notin CommandSteps
    BY DEF CommandSteps, NeedsHold, NeedsRec, Outcomes
  <2> QED
    BY <2>1, RunningFacts
<1>1. CASE Done(op) = Nothing
  BY <1>1, NothingKept DEF OpOK
<1>2. CASE Done(op) # Nothing
  <2>0. PICK d : d = Done(op)
    OBVIOUS
  <2>1. OpShape(d) /\ d.todo = Tail(op.todo) /\ d.cmd = op.cmd /\ d.s = op.s /\ d.raced = op.raced
    BY <1>2, <2>0, RunningFacts, DoneFacts
  <2>2. PICK A : d \in OpSet(A)
    BY <2>1 DEF OpShape
  <2>4. o = [d EXCEPT !.ev = x]
    BY <2>0
  <2>5. o \in OpSet(A \cup {x})
    BY <2>2, <2>4 DEF OpSet
  <2>6. o.todo = d.todo /\ o.cmd = d.cmd /\ o.s = d.s /\ o.raced = d.raced
    BY <2>2, <2>4 DEF OpSet
  <2>8. TickOK(o, hold, pull, tail)
    BY <1>0, <2>1, <2>6, RunningFacts, TickStep DEF Step
  <2> QED
    BY <2>5, <2>8 DEF OpOK, OpShape
<1> QED
  BY <1>1, <1>2

LEMMA GateOK ==
  ASSUME HoldsInv, Running, Step = "gate", NEW o, o = [op EXCEPT !.todo = <<"event">>]
  PROVE  OpOK(o, hold, terminal, event, pull, tail)
<1>0. TickOK(op, hold, pull, tail)
  <2>1. "gate" \notin CommandSteps
    BY DEF CommandSteps, NeedsHold, NeedsRec, Outcomes
  <2> QED
    BY <2>1, RunningFacts
<1>1. PICK A : op \in OpSet(A)
  BY RunningFacts DEF OpShape
<1>2. <<"event">> \in Seq(Steps)
  BY DEF Steps, TickSteps
<1>3. o \in OpSet(A)
  BY <1>1, <1>2 DEF OpSet
<1>4. o.todo = <<"event">> /\ o.cmd = op.cmd
  BY <1>1 DEF OpSet
<1>5. TickOrder(<<"event">>) /\ ~Has(<<"event">>, Landing) /\ ~Ahead(<<"event">>)
  BY DEF TickOrder, All, Has, Ahead, Fenced, TickSteps, Lasting, Landing, Moving, RemoteWrites
<1>6. TickOK(o, hold, pull, tail)
  BY <1>0, <1>4, <1>5 DEF TickOK
<1> QED
  BY <1>3, <1>6 DEF OpOK, OpShape

LEMMA ReadsInv == ASSUME HoldsInv, Reads, UNCHANGED <<actor, pull, tail, ask, left, parkedAs, marks>> PROVE HoldsInv'
<1>0. Running /\ UNCHANGED <<hold, terminal, event>>
  BY DEF Reads
<1>1. \/ Step = "reread" /\ op' = [Done(op) EXCEPT !.s = Snap, !.cur = pull, !.raced = FALSE]
      \/ Step # "reread" /\ (op' = Nothing \/ op' = Done(op))
      \/ Step = "gate" /\ op' = [op EXCEPT !.todo = <<"event">>]
      \/ Step = "note" /\ op' = [Done(op) EXCEPT !.ev = ParkingEvent]
  BY DEF Reads, Fail
<1>2. OpOK(op', hold, terminal, event, pull, tail)
  BY <1>0, <1>1, RereadOK, GoesOn, GateOK, NoteOK
<1> QED
  BY <1>0, <1>2, FrameInv

LEMMA RecordType == ASSUME NEW s \in Status PROVE Record(s) \in HoldRecords /\ Record(s) # Nothing
<1>1. s.pull \in PullRequest /\ s.tail \in BOOLEAN
  BY DEF Status
<1>2. s.pull.head \in Gens /\ s.pull.base \in Gens /\ s.pull.labels \in SUBSET Labels
  BY <1>1 DEF PullRequest
<1>3. Record(s) # Nothing
  BY DEF Record, Nothing
<1> QED
  BY <1>1, <1>2, <1>3 DEF Record, HoldRecords

\* The records that the steps of a command write.
LEMMA RecordOK ==
  ASSUME HoldsInv, Running, CommandOK(op, hold, terminal, event), Step \in RecordSteps,
         NEW g, g = CASE Step = "hold" -> Record(op.s)
                      [] Step = "auth" -> [hold EXCEPT !.auth = TRUE]
                      [] Step = "drop" -> Nothing
                      [] Step = "prepare" -> [hold EXCEPT !.rec = [head |-> hold.head, base |-> hold.base,
                                                                  cp |-> "prepared"]]
                      [] Step = "checkpoint_base" -> [hold EXCEPT !.rec.cp = "base"]
                      [] Step = "checkpoint_head" -> [hold EXCEPT !.rec.cp = "head"]
                      [] Step = "advance" -> Advanced(op.s)
  PROVE  /\ g \in HoldRecords
         /\ \/ Step \in Last
            \/ /\ hold # Nothing => g # Nothing
               /\ hold.rec # Nothing => (g.rec # Nothing /\ g.rec.head = hold.rec.head /\ g.rec.base = hold.rec.base)
<1> DEFINE Rec == [head : Gens, base : Gens, cp : {"prepared", "base", "head"}]
           Full == [head : Gens, base : Gens, labels : SUBSET Labels, tail : BOOLEAN, auth : BOOLEAN,
                    rec : {Nothing} \cup Rec]
<1>0. hold \in {Nothing} \cup Full /\ op.s \in Status
  BY Facts, RunningFacts DEF HoldRecords
<1>1. Step \in NeedsHold => hold \in Full
  BY <1>0, RunningFacts, TailHas DEF CommandOK, Step
<1>2. Step \in NeedsRec => hold \in Full /\ hold.rec \in Rec
  <2>1. Step \in NeedsRec => hold.rec # Nothing /\ Step \in NeedsHold
    BY RunningFacts, TailHas DEF CommandOK, Step, NeedsHold
  <2> QED
    BY <1>1, <2>1
<1>n. \A h \in Full : h # Nothing
  BY DEF Nothing
<1>r. \A h \in Rec : h # Nothing
  BY DEF Nothing
<1>c. Full \subseteq HoldRecords /\ Nothing \in HoldRecords
  BY DEF HoldRecords
<1> HIDE DEF Nothing
<1>3. CASE Step = "hold"
  <2>1. g = Record(op.s)
    BY <1>3
  <2> QED
    BY <1>0, <1>3, <2>1, RecordType DEF Last
<1>4. CASE Step = "auth"
  <2>0. hold \in Full
    BY <1>1, <1>4 DEF NeedsHold
  <2>1. g = [hold EXCEPT !.auth = TRUE]
    BY <1>4
  <2>2. g \in Full /\ g.rec = hold.rec
    BY <2>0, <2>1
  <2> QED
    BY <1>c, <1>n, <2>2
<1>5. CASE Step = "drop"
  BY <1>5, <1>c DEF Last
<1>6. CASE Step = "prepare"
  <2>0. hold \in Full
    BY <1>1, <1>6 DEF NeedsHold
  <2>1. g = [hold EXCEPT !.rec = [head |-> hold.head, base |-> hold.base, cp |-> "prepared"]]
    BY <1>6
  <2>2. PICK r : r = [head |-> hold.head, base |-> hold.base, cp |-> "prepared"]
    OBVIOUS
  <2>3. r \in Rec
    BY <2>0, <2>2
  <2>4. g = [hold EXCEPT !.rec = r]
    BY <2>1, <2>2
  <2>5. g \in Full
    BY <2>0, <2>3, <2>4
  <2> QED
    BY <1>6, <1>c, <2>5 DEF Last
<1>7. CASE Step \in {"checkpoint_base", "checkpoint_head"}
  <2>0. hold \in Full /\ hold.rec \in Rec
    BY <1>2, <1>7 DEF NeedsRec
  <2>1. PICK c \in {"base", "head"} : g = [hold EXCEPT !.rec.cp = c]
    BY <1>7
  <2>2. PICK r : r = [hold.rec EXCEPT !.cp = c]
    OBVIOUS
  <2>3. r \in Rec /\ r.head = hold.rec.head /\ r.base = hold.rec.base
    BY <2>0, <2>2
  <2>4. g = [hold EXCEPT !.rec = r]
    BY <2>0, <2>1, <2>2
  <2>5. g \in Full /\ g.rec = r
    BY <2>0, <2>3, <2>4
  <2> QED
    BY <1>c, <1>n, <1>r, <2>3, <2>5
<1>8. CASE Step = "advance"
  <2>0. hold \in Full /\ hold.rec \in Rec
    BY <1>2, <1>8 DEF NeedsRec
  <2>1. PICK n : n = Record(op.s)
    OBVIOUS
  <2>2. n \in Full
    BY <1>0, <2>1, RecordType DEF HoldRecords
  <2>3. g = [n EXCEPT !.rec = hold.rec, !.auth = hold.auth]
    BY <1>8, <2>1 DEF Advanced
  <2>4. g \in Full /\ g.rec = hold.rec
    BY <2>0, <2>2, <2>3
  <2> QED
    BY <1>c, <1>n, <2>4
<1> QED
  BY <1>3, <1>4, <1>5, <1>6, <1>7, <1>8 DEF RecordSteps

LEMMA WriteRecordInv ==
  ASSUME HoldsInv, WriteRecord, UNCHANGED <<actor, pull, tail, ask, left, parkedAs, marks>> PROVE HoldsInv'
<1>0. Running /\ Step \in RecordSteps /\ op' = Done(op) /\ UNCHANGED <<terminal, event>>
  BY DEF WriteRecord
<1>1. CommandOK(op, hold, terminal, event)
  <2>1. Step \notin TickSteps
    BY <1>0 DEF RecordSteps, TickSteps, Lasting, Landing
  <2> QED
    BY <1>0, <2>1, RunningFacts
<1>2. /\ hold' \in HoldRecords
      /\ \/ Step \in Last
         \/ /\ hold # Nothing => hold' # Nothing
            /\ hold.rec # Nothing => (hold'.rec # Nothing /\ hold'.rec.head = hold.rec.head /\ hold'.rec.base = hold.rec.base)
  BY <1>0, <1>1, RecordOK DEF WriteRecord
<1>3. OpOK(op', hold', terminal, event, pull, tail)
  <2>1. CASE Done(op) = Nothing
    BY <1>0, <2>1 DEF OpOK
  <2>2. CASE Done(op) # Nothing
    <3>1. OpShape(op') /\ op'.todo = Tail(op.todo) /\ op'.cmd = op.cmd /\ op'.ask = op.ask
      BY <1>0, <2>2, RunningFacts, DoneFacts
    <3>2. CommandOK(op', hold', terminal, event)
      BY <1>0, <1>1, <1>2, <3>1, RunningFacts, CommandStep DEF Step
    <3> QED
      BY <3>1, <3>2 DEF OpOK
  <2> QED
    BY <2>1, <2>2
<1>4. TypeOK' /\ OneTerminalOutcome'
  BY <1>0, <1>2 DEF HoldsInv, TypeOK, OneTerminalOutcome
<1> QED
  BY <1>0, <1>3, <1>4 DEF HoldsInv

LEMMA WriteReceiptInv ==
  ASSUME HoldsInv, WriteReceipt, UNCHANGED <<actor, pull, tail, ask, left, parkedAs, marks>> PROVE HoldsInv'
<1>0. Running /\ op' = Done(op) /\ UNCHANGED hold
  BY DEF WriteReceipt
<1>1. CASE Step \in Outcomes
  <2>0. terminal' = terminal \cup {[key |-> Key, outcome |-> Step]} /\ UNCHANGED event
    BY <1>1 DEF WriteReceipt, Outcomes
  <2>1. CommandOK(op, hold, terminal, event)
    <3>1. Step \notin TickSteps
      BY <1>1 DEF Outcomes, TickSteps, Lasting, Landing
    <3> QED
      BY <1>0, <3>1, RunningFacts
  <2>2. \A r \in terminal : r.key # Key
    BY <1>0, <1>1, <2>1, RunningFacts, TailHas DEF CommandOK, Step, Key, KeyOf
  <2>3. TypeOK'
    BY <1>0, <1>1, <2>0 DEF HoldsInv, TypeOK, Outcomes
  <2>4. OneTerminalOutcome'
    BY <2>0, <2>2 DEF HoldsInv, OneTerminalOutcome
  <2>5. OpOK(op', hold, terminal', event, pull, tail)
    <3>1. CASE Done(op) = Nothing
      BY <1>0, <3>1 DEF OpOK
    <3>2. CASE Done(op) # Nothing
      <4>1. OpShape(op') /\ op'.todo = Tail(op.todo) /\ op'.cmd = op.cmd /\ op'.ask = op.ask
        BY <1>0, <3>2, RunningFacts, DoneFacts
      <4>2. CommandOK(op', hold, terminal', event)
        BY <1>0, <1>1, <2>1, <4>1, RunningFacts, CommandStep DEF Step
      <4> QED
        BY <4>1, <4>2 DEF OpOK
    <3> QED
      BY <3>1, <3>2
  <2> QED
    BY <1>0, <2>0, <2>3, <2>4, <2>5 DEF HoldsInv
<1>2. CASE Step = "event"
  <2>1. UNCHANGED terminal
    BY <1>2 DEF WriteReceipt
  <2>2. TickOK(op, hold, pull, tail)
    <3>1. Step \notin CommandSteps
      BY <1>2 DEF CommandSteps, NeedsHold, NeedsRec, Outcomes
    <3> QED
      BY <1>0, <3>1, RunningFacts
  <2>3. OpOK(op', hold, terminal, event', pull, tail)
    <3>1. CASE Done(op) = Nothing
      BY <1>0, <3>1 DEF OpOK
    <3>2. CASE Done(op) # Nothing
      BY <1>0, <1>2, <2>2, <3>2, RunningFacts, DoneFacts, TickStep DEF OpOK, Step
    <3> QED
      BY <3>1, <3>2
  <2> QED
    BY <1>0, <2>1, <2>3, FrameInv
<1>3. CASE Step \notin Outcomes /\ Step # "event"
  <2>1. UNCHANGED <<terminal, event>> /\ Step # "reread"
    BY <1>3 DEF WriteReceipt, Outcomes
  <2> QED
    BY <1>0, <2>1, GoesOn, FrameInv
<1> QED
  BY <1>1, <1>2, <1>3

\* The operation is told that its write may go ahead, or that somebody interfered.
LEMMA FlagOK ==
  ASSUME NEW o, o # Nothing, NEW h, NEW term, NEW e, NEW p, NEW t, OpOK(o, h, term, e, p, t),
         NEW v, NEW r, NEW u,
         \/ v = [o EXCEPT !.ok = TRUE] /\ r = p /\ u = t
         \/ v = [o EXCEPT !.raced = TRUE]
  PROVE  OpOK(v, h, term, e, r, u)
<1>1. PICK A : o \in OpSet(A)
  BY DEF OpOK, OpShape
<1>2. v \in OpSet(A)
  BY <1>1 DEF OpSet
<1>3. /\ v.todo = o.todo /\ v.cmd = o.cmd /\ v.s = o.s /\ v.ask = o.ask
      /\ v.raced = TRUE \/ (v.raced = o.raced /\ r = p /\ u = t)
  BY <1>1 DEF OpSet
<1>4. CASE CommandOK(o, h, term, e)
  <2>1. CommandOK(v, h, term, e)
    BY <1>3, <1>4 DEF CommandOK
  <2> QED
    BY <1>2, <2>1 DEF OpOK, OpShape
<1>5. CASE TickOK(o, h, p, t)
  <2>1. TickOK(v, h, r, u)
    BY <1>3, <1>5 DEF TickOK
  <2> QED
    BY <1>2, <2>1 DEF OpOK, OpShape
<1> QED
  BY <1>4, <1>5 DEF OpOK

LEMMA VerifyInv == ASSUME HoldsInv, Verify PROVE HoldsInv'
<1>0. /\ Running /\ Step \in RemoteWrites /\ UNCHANGED <<actor, pull, tail, hold, terminal, event, left, marks>>
      /\ op' = Nothing \/ op' = Done(op) \/ op' = [op EXCEPT !.ok = TRUE]
  BY DEF Verify, Fail
<1>1. Step # "reread"
  BY <1>0 DEF RemoteWrites
<1>2. CASE op' = Nothing \/ op' = Done(op)
  BY <1>0, <1>1, <1>2, GoesOn, FrameInv
<1>3. CASE op' = [op EXCEPT !.ok = TRUE]
  <2>1. op # Nothing /\ OpOK(op, hold, terminal, event, pull, tail)
    BY <1>0 DEF Running, HoldsInv
  <2>2. OpOK(op', hold, terminal, event, pull, tail)
    BY <1>3, <2>1, FlagOK
  <2> QED
    BY <1>0, <2>2, FrameInv
<1> QED
  BY <1>0, <1>2, <1>3

LEMMA WrittenType == ASSUME NEW p \in PullRequest, NEW step PROVE Written(step, p) \in PullRequest
<1>1. \/ Written(step, p) = [p EXCEPT !.auto = FALSE]
      \/ Written(step, p) = [p EXCEPT !.auto = TRUE]
      \/ \E S \in SUBSET Labels : Written(step, p) = [p EXCEPT !.labels = S]
      \/ Written(step, p) = [p EXCEPT !.st = "merged", !.auto = FALSE]
  <2>1. p.labels \in SUBSET Labels
    BY DEF PullRequest
  <2>2. /\ p.labels \cup {"parked"} \in SUBSET Labels /\ p.labels \ {"parked"} \in SUBSET Labels
        /\ p.labels \cup {"caravan", "parked"} \in SUBSET Labels
        /\ p.labels \cup {"force"} \in SUBSET Labels /\ p.labels \ {"force"} \in SUBSET Labels
    BY <2>1 DEF Labels
  <2> QED
    BY <2>2 DEF Written
<1> QED
  BY <1>1 DEF PullRequest

\* The operation goes on after its write, with the root as it left it.
LEMMA WriteOpOK ==
  ASSUME HoldsInv, Running, Step \in RemoteWrites, NEW r, r = Written(Step, pull),
         NEW o, o = IF Done(op) = Nothing THEN Nothing ELSE [Done(op) EXCEPT !.cur = r]
  PROVE  OpOK(o, hold, terminal, event, r, tail)
<1>1. CASE Done(op) = Nothing
  BY <1>1 DEF OpOK
<1>2. CASE Done(op) # Nothing
  <2>0. PICK d : d = Done(op)
    OBVIOUS
  <2>1. /\ OpShape(d) /\ d.todo = Tail(op.todo) /\ d.cmd = op.cmd /\ d.s = op.s /\ d.raced = op.raced
        /\ d.ask = op.ask
    BY <1>2, <2>0, RunningFacts, DoneFacts
  <2>2. PICK A : d \in OpSet(A)
    BY <2>1 DEF OpShape
  <2>3. o = [d EXCEPT !.cur = r]
    BY <1>2, <2>0
  <2>4. o \in OpSet(A \cup {r})
    BY <2>2, <2>3 DEF OpSet
  <2>5. o.todo = d.todo /\ o.cmd = d.cmd /\ o.s = d.s /\ o.raced = d.raced /\ o.ask = d.ask
    BY <2>2, <2>3 DEF OpSet
  <2>6. CASE CommandOK(op, hold, terminal, event)
    <3>1. CommandOK(o, hold, terminal, event)
      BY <2>1, <2>5, <2>6, RunningFacts, CommandStep
    <3> QED
      BY <2>4, <3>1 DEF OpOK, OpShape
  <2>7. CASE TickOK(op, hold, pull, tail)
    <3>1. Head(op.todo) # "reread"
      BY DEF Step, RemoteWrites
    <3>2. Head(op.todo) \in Moving \/ (~pull.auto => r = pull)
      <4>1. CASE Step \in {"disable", "disarm"}
        <5>1. r = [pull EXCEPT !.auto = FALSE]
          BY <4>1 DEF Written
        <5>2. ~pull.auto => pull.auto = FALSE
          BY Facts DEF PullRequest
        <5> QED
          BY <5>1, <5>2, Facts DEF PullRequest
      <4>2. CASE Step \notin {"disable", "disarm"}
        BY <4>2 DEF Moving, Step
      <4> QED
        BY <4>1, <4>2
    <3>3. TickOK(o, hold, r, tail)
      BY <2>1, <2>5, <2>7, <3>1, <3>2, RunningFacts, TickStep
    <3> QED
      BY <2>4, <3>3 DEF OpOK, OpShape
  <2> QED
    BY <2>6, <2>7, RunningFacts
<1> QED
  BY <1>1, <1>2

\* A tick lands only what its status did not hold, and its status is the provider's.
LEMMA LandsFree ==
  ASSUME HoldsInv, Running, op.cmd = "tick", Lands, ~op.raced, ~op.s.pull.auto
  PROVE  ~Held(Snap)
<1>1. TickOK(op, hold, pull, tail) /\ op.todo \in Seq(Steps) /\ op.todo # <<>> /\ op.s \in Status
  BY RunningFacts DEF CommandOK
<1>2. Step \in Landing /\ Step \in Lasting
  BY DEF Lands, Landing, Lasting
<1>3. Has(op.todo, Landing)
  BY <1>1, <1>2, TailHas DEF Step
<1>4. Ahead(op.todo)
  <2>1. 1 \in 1 .. Len(op.todo) /\ op.todo[1] \in Lasting /\ Len(op.todo) \in Nat
    BY <1>1, <1>2, TailFacts DEF Step
  <2>2. \A k \in 1 .. Len(op.todo) : ~(k < 1)
    BY <2>1
  <2> QED
    BY <2>1, <2>2 DEF Ahead
<1>5. ~HeldBy(hold, op.s) /\ pull = op.s.pull /\ tail = op.s.tail
  BY <1>1, <1>3, <1>4 DEF TickOK
<1>6. op.s = Snap
  BY <1>1, <1>5 DEF Snap, Status
<1> QED
  BY <1>5, <1>6, HeldIs

\* A command that takes the label off has the reviewed parking as its latest one.
LEMMA UnparksKnown ==
  ASSUME HoldsInv, Running, op.cmd = "unpark", Step = "unpark"
  PROVE  ParkedProvenance = op.ask.fp
<1>1. CommandOK(op, hold, terminal, event) /\ op.todo \in Seq(Steps) /\ op.todo # <<>>
  BY RunningFacts DEF TickOK
<1>2. Has(op.todo, {"unpark"})
  BY <1>1, TailHas DEF Step
<1> QED
  BY <1>1, <1>2 DEF CommandOK, ParkedProvenance, Provenance

LEMMA WriteInv == ASSUME HoldsInv, Write PROVE HoldsInv'
<1>0. Running /\ Step \in RemoteWrites /\ UNCHANGED <<actor, tail, hold, terminal, event, left>>
  BY DEF Write
<1>1. CASE op' = Nothing /\ UNCHANGED <<pull, marks>>
  BY <1>0, <1>1, FrameInv DEF OpOK
<1>2. CASE ~(op' = Nothing /\ UNCHANGED <<pull, marks>>)
  <2>0. PICK a, b :
          /\ pull' = Written(Step, pull)
          /\ op' = IF Done(op) = Nothing THEN Nothing ELSE [Done(op) EXCEPT !.cur = pull']
          /\ marks' = marks \cup a \cup b
          /\ a = IF op.cmd = "tick" /\ Lands /\ Held(Snap) /\ ~op.raced
                 THEN {IF op.s.pull.auto THEN "landed_rearmed" ELSE "landed_held"} ELSE {}
          /\ b = IF op.cmd = "unpark" /\ Step = "unpark" /\ op.ask.fp # parkedAs /\ ParkedProvenance = parkedAs
                 THEN {"unparked_other"} ELSE {}
    BY <1>2, Zenon DEF Write, Fail
  <2>1. pull' \in PullRequest
    BY <2>0, Facts, WrittenType
  <2>2. OpOK(op', hold, terminal, event, pull', tail)
    BY <1>0, <2>0, WriteOpOK
  <2>3. a \subseteq {"landed_rearmed"}
    BY <1>0, <2>0, LandsFree
  <2>4. b = {}
    BY <1>0, <2>0, UnparksKnown
  <2>5. marks' \cap {"landed_held", "unparked_other"} = {}
    BY <2>0, <2>3, <2>4 DEF HoldsInv
  <2>6. TypeOK' /\ OneTerminalOutcome'
    BY <1>0, <2>1 DEF HoldsInv, TypeOK, OneTerminalOutcome
  <2> QED
    BY <1>0, <2>2, <2>5, <2>6 DEF HoldsInv
<1> QED
  BY <1>1, <1>2

LEMMA CutInv == ASSUME HoldsInv, Cut PROVE HoldsInv'
<1>1. left' \in Left /\ left'.may = left.may
  BY Facts, SpendFacts DEF Cut
<1>2. TypeOK' /\ OneTerminalOutcome'
  BY <1>1 DEF Cut, HoldsInv, TypeOK, OneTerminalOutcome
<1> QED
  BY <1>1, <1>2 DEF Cut, Fail, HoldsInv, OpOK

LEMMA ReviewInv == ASSUME HoldsInv, Review PROVE HoldsInv'
<1>1. left' \in Left /\ left'.may = left.may
  BY Facts, SpendFacts DEF Review
<1>2. TypeOK' /\ OneTerminalOutcome'
  BY <1>1 DEF Review, HoldsInv, TypeOK, OneTerminalOutcome
<1> QED
  BY <1>1, <1>2 DEF Review, HoldsInv

------------------------------------------------------------------------------
(* Everyone else.                                                            *)

LEMMA ElsewhereInv ==
  ASSUME HoldsInv, Elsewhere, pull' \in PullRequest, tail' \in BOOLEAN, left' \in Left, left'.may = left.may
  PROVE  HoldsInv'
<1>1. OpOK(op', hold, terminal, event, pull', tail')
  <2>1. CASE op = Nothing
    BY <2>1 DEF Elsewhere, Raced, OpOK
  <2>2. CASE op # Nothing
    BY <2>2, FlagOK DEF Elsewhere, Raced, HoldsInv
  <2> QED
    BY <2>1, <2>2
<1>2. TypeOK' /\ OneTerminalOutcome'
  BY DEF Elsewhere, HoldsInv, TypeOK, OneTerminalOutcome
<1> QED
  BY <1>1, <1>2 DEF Elsewhere, HoldsInv

LEMMA GenFacts == Reviewed \in Gens /\ Gens \subseteq Nat /\ \A g \in Gens : g < MaxGen => g + 1 \in Gens
BY HoldsBounds DEF Gens, Reviewed

\* What may be changed in a pull request.
LEMMA PullEdits ==
  ASSUME NEW p \in PullRequest
  PROVE  /\ \A c \in {"green", "red", "wait"} : [p EXCEPT !.ci = c, !.run = p.run + 1] \in PullRequest
         /\ \A n \in Gens : [p EXCEPT !.head = n, !.ci = "wait", !.run = p.run + 1] \in PullRequest
         /\ \A n \in Gens : [p EXCEPT !.base = n] \in PullRequest
         /\ \A b, h \in Gens : [p EXCEPT !.base = b, !.head = h] \in PullRequest
         /\ \A S \in SUBSET Labels : [p EXCEPT !.labels = S] \in PullRequest
         /\ \A b \in BOOLEAN : [p EXCEPT !.auto = b] \in PullRequest
<1>1. p.run + 1 \in Nat
  BY DEF PullRequest
<1>2. \A c \in {"green", "red", "wait"}, k \in Nat : [p EXCEPT !.ci = c, !.run = k] \in PullRequest
  BY DEF PullRequest
<1>3. \A n \in Gens, k \in Nat : [p EXCEPT !.head = n, !.ci = "wait", !.run = k] \in PullRequest
  BY DEF PullRequest
<1>4. \A n \in Gens : [p EXCEPT !.base = n] \in PullRequest
  BY DEF PullRequest
<1>5. \A b, h \in Gens : [p EXCEPT !.base = b, !.head = h] \in PullRequest
  BY DEF PullRequest
<1>6. \A S \in SUBSET Labels : [p EXCEPT !.labels = S] \in PullRequest
  BY DEF PullRequest
<1>7. \A b \in BOOLEAN : [p EXCEPT !.auto = b] \in PullRequest
  BY DEF PullRequest
<1> QED
  BY <1>1, <1>2, <1>3, <1>4, <1>5, <1>6, <1>7

LEMMA CiInv == ASSUME HoldsInv, CiResult PROVE HoldsInv'
<1>0. PICK c \in {"green", "red", "wait"} : pull' = [pull EXCEPT !.ci = c, !.run = pull.run + 1]
  BY DEF CiResult
<1>1. pull' \in PullRequest
  BY <1>0, Facts, PullEdits
<1>2. left' \in Left /\ left'.may = left.may
  BY Facts, SpendFacts DEF CiResult
<1> QED
  BY <1>1, <1>2, Facts, ElsewhereInv DEF CiResult

LEMMA AutoMergeInv == ASSUME HoldsInv, ProviderAutoMerge PROVE HoldsInv'
<1>1. pull' \in PullRequest
  BY Facts DEF ProviderAutoMerge, PullRequest
<1> QED
  BY <1>1, Facts, ElsewhereInv DEF ProviderAutoMerge

LEMMA OwnerInv == ASSUME HoldsInv, OwnerMoves PROVE HoldsInv'
<1>1. hold.rec.head \in Gens /\ hold.rec.base \in Gens
  BY Facts DEF OwnerMoves, HoldRecords
<1>a. PICK to : /\ to \in {<<hold.rec.base, hold.rec.head>>, <<Reviewed, hold.rec.head>>, <<Reviewed, Reviewed>>}
                 /\ pull' = [pull EXCEPT !.base = to[1], !.head = to[2]]
  BY DEF OwnerMoves
<1>b. to[1] \in Gens /\ to[2] \in Gens
  BY <1>1, <1>a, GenFacts
<1>3. pull' \in PullRequest
  BY <1>a, <1>b, Facts, PullEdits
<1>4. left' \in Left /\ left'.may = left.may
  BY Facts, SpendFacts DEF OwnerMoves
<1> QED
  BY <1>3, <1>4, Facts, ElsewhereInv DEF OwnerMoves

LEMMA PersonInv == ASSUME HoldsInv, Person PROVE HoldsInv'
<1>0. pull \in PullRequest /\ tail \in BOOLEAN
  BY Facts
<1>a. pull.labels \in SUBSET Labels /\ pull.auto \in BOOLEAN /\ pull.head \in Gens /\ pull.base \in Gens /\ pull.run \in Nat
  BY <1>0 DEF PullRequest
<1>1. \/ \E n \in Gens : pull' = [pull EXCEPT !.head = n, !.ci = "wait", !.run = pull.run + 1]
      \/ \E n \in Gens : pull' = [pull EXCEPT !.base = n]
      \/ \E S \in SUBSET Labels : pull' = [pull EXCEPT !.labels = S]
      \/ \E b \in BOOLEAN : pull' = [pull EXCEPT !.auto = b]
      \/ pull' = pull
  <2>1. \A l \in {"parked", "force"} : (IF l \in pull.labels THEN pull.labels \ {l} ELSE pull.labels \cup {l}) \in SUBSET Labels
    BY <1>a DEF Labels
  <2>2. pull.labels \ {"caravan", "parked"} \in SUBSET Labels /\ (~pull.auto) \in BOOLEAN
    BY <1>a
  <2>3. CASE pull.head < MaxGen /\ pull' = [pull EXCEPT !.head = @ + 1, !.ci = "wait", !.run = @ + 1]
    BY <1>a, <2>3, GenFacts
  <2>4. CASE pull.base < MaxGen /\ pull' = [pull EXCEPT !.base = @ + 1]
    BY <1>a, <2>4, GenFacts
  <2>5. CASE \E l \in {"parked", "force"} :
               pull' = [pull EXCEPT !.labels = IF l \in @ THEN @ \ {l} ELSE @ \cup {l}]
    BY <2>1, <2>5
  <2>6. CASE pull' = [pull EXCEPT !.labels = @ \ {"caravan", "parked"}]
    BY <2>2, <2>6
  <2>7. CASE pull' = [pull EXCEPT !.auto = ~@]
    BY <2>2, <2>7
  <2> QED
    BY <2>3, <2>4, <2>5, <2>6, <2>7 DEF Person
<1>2. pull' \in PullRequest
  <2> DEFINE Ok(q) == q \in PullRequest
  <2>1. \A n \in Gens : Ok([pull EXCEPT !.head = n, !.ci = "wait", !.run = pull.run + 1])
    BY <1>0, PullEdits
  <2>2. \A n \in Gens : Ok([pull EXCEPT !.base = n])
    BY <1>0, PullEdits
  <2>3. \A S \in SUBSET Labels : Ok([pull EXCEPT !.labels = S])
    BY <1>0, PullEdits
  <2>4. \A b \in BOOLEAN : Ok([pull EXCEPT !.auto = b])
    BY <1>0, PullEdits
  <2> HIDE DEF Ok
  <2>5. Ok(pull')
    <3>1. Ok(pull)
      BY <1>0 DEF Ok
    <3> QED
      BY <1>1, <2>1, <2>2, <2>3, <2>4, <3>1, ZenonT(40)
  <2> QED
    BY <2>5 DEF Ok
<1>3. tail' \in BOOLEAN
  BY <1>0 DEF Person
<1>4. left' \in Left /\ left'.may = left.may
  BY Facts, SpendFacts DEF Person
<1> QED
  BY <1>2, <1>3, <1>4, ElsewhereInv DEF Person

------------------------------------------------------------------------------
LEMMA InitInv == ASSUME Init PROVE HoldsInv
<1>1. (actor = "github") \in BOOLEAN
  OBVIOUS
<1>2. 0 \in Gens /\ {"caravan"} \in SUBSET Labels
  BY HoldsBounds DEF Gens, Reviewed, Labels
<1>3. pull \in PullRequest
  BY <1>1, <1>2 DEF Init, PullRequest
<1>4. left \in Left
  BY HoldsBounds DEF Init, Left
<1>5. TypeOK
  BY <1>3, <1>4 DEF Init, TypeOK, HoldRecords, Left
<1> QED
  BY <1>4, <1>5 DEF Init, HoldsInv, OneTerminalOutcome, OpOK

LEMMA NextInv == ASSUME HoldsInv, [Next]_vars PROVE HoldsInv'
<1>1. CASE Command
  BY <1>1, PauseInv, ResumeInv, RecoveryInv, UnparkInv, ForceInv DEF Command
<1>2. CASE Local
  BY <1>2, PlansInv, ReadsInv, WriteRecordInv, WriteReceiptInv DEF Local, LocalSteps
<1>3. CASE TickStart \/ Verify \/ Write \/ Review \/ Cut
  BY <1>3, TickStartInv, VerifyInv, WriteInv, ReviewInv, CutInv
<1>4. CASE CiResult \/ ProviderAutoMerge \/ OwnerMoves \/ Person
  BY <1>4, CiInv, AutoMergeInv, OwnerInv, PersonInv
<1>5. CASE UNCHANGED vars
  BY <1>5, FrameInv DEF vars, HoldsInv
<1> QED
  BY <1>1, <1>2, <1>3, <1>4, <1>5 DEF Next, Progress

(* The inductive invariant: a command's steps find the record and the open key *)
(* that they were planned with (pause.rs's recovery phases, unpark.rs), and a  *)
(* tick reads its status again between a write of its own and a landing        *)
(* (sync.rs), so what it lands is what it looked at.                           *)
THEOREM HoldsInvariant == Spec => []HoldsInv
<1>1. Init => HoldsInv
  BY InitInv
<1>2. HoldsInv /\ [Next]_vars => HoldsInv'
  BY NextInv
<1> QED
  BY <1>1, <1>2, PTL DEF Spec

(* A tick never lands a caravan under an effective pause record or recovery    *)
(* that its own status showed (pause.rs's is_effective, read by sync.rs), for  *)
(* any number of commands, deaths and changes by people.                       *)
THEOREM HoldsAreHonoured == Spec => []HoldHonoured
<1>1. HoldsInv => HoldHonoured
  BY DEF HoldsInv, HoldHonoured
<1> QED
  BY <1>1, HoldsInvariant, PTL

(* Commands repeated after a crash: a fenced recovery has one outcome for each *)
(* key (pause.rs looks the terminal receipt up first), and unpark.rs takes the *)
(* label off only for the parking that was reviewed.                           *)
THEOREM RecoveryIsSound == Spec => []RecoverySound
<1>1. HoldsInv => RecoverySound
  BY DEF HoldsInv, RecoverySound, UnparksReviewedParking
<1> QED
  BY <1>1, HoldsInvariant, PTL

=============================================================================
