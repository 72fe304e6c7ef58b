---------------------------- MODULE RepairProofs ----------------------------
(***************************************************************************)
(* Proofs about what is done about a red head.                             *)
(*                                                                         *)
(* CI, for any contexts, heads, runs, attempts and faults: what a green    *)
(* and a red verdict rest on, and that the start of CI of one generation   *)
(* is sent at most once.  A tick judges rows and a lineage that it read at *)
(* different times, while the provider goes on.  The invariant therefore   *)
(* speaks of what the tick holds, and needs of the provider only that a    *)
(* run stays on its head.                                                  *)
(*                                                                         *)
(* Repair, for any commands, outside changes and deaths: what a repair     *)
(* publishes.  A command holds a copy of the session that it read before   *)
(* it had the lock.  The invariant says what each copy still guarantees,   *)
(* and that a publication sent is either the attempt recorded on disk or   *)
(* behind the provider's head, so that no later session can make it again. *)
(***************************************************************************)
EXTENDS CI, Repair, SequenceTheorems, TLAPS

JobStates == {"absent", "running"} \cup Over
RowStates == {"running", "success", "skipped", "failure", "timed_out", "cancelled"}
RunType == [head : Heads, attempt : Nat, decision : {"none", "run", "deferred_unjoined"}, jobs : [Contexts -> JobStates]]

-----------------------------------------------------------------------------
(* The inductive invariant.                                                *)

\* t is a record with the fields of a tick; the proof needs no types of them.
TickSet(A) ==
  [pc : A, head : A, member : A, rows : A, lin : A, policy : A, disp : A, deferred : A, rerun : A,
   assessment : A, suite : A, plan : A, selected : A, admitted : A, last : A]
TickShape(t) == \E A : t \in TickSet(A)
IntentSet(A) == [state : A, selected : A, successor : A]
SavedShape == \E A : saved \in [Heads -> IntentSet(A)]

\* The rows of a head: of its runs, and one per context and run.
RowsOK(rows, h) ==
  /\ \A x \in rows : x.ctx \in Contexts /\ x.run \in OnHead(h) /\ x.state \in RowStates
  /\ \A x, y \in rows : x.ctx = y.ctx /\ x.run = y.run => x.state = y.state

\* What the two verdicts rest on.
IsNewest(r, generations) == (\E y \in generations : y.run = r) /\ \A y \in generations : y.run <= r
GreenShown(rows) == \A c \in Contexts : \E x \in rows : x.ctx = c /\ x.state \in Green /\ \A y \in rows : y.run <= x.run
RedShown(rows, lin) ==
  \/ \E x \in lin.runs : x.conclusion = "cancelled"
  \/ \E x \in rows : x.state \in Red /\ IsNewest(x.run, lin.runs)

LineageOK(lin) == \A x \in lin.runs : x.run \in RunIds

Judged(t) ==
  /\ TickShape(t) /\ RowsOK(t.rows, t.head) /\ LineageOK(t.lin)
  /\ t.disp = "passing" => GreenShown(t.rows)
  /\ t.disp = "failed" /\ t.lin.complete => RedShown(t.rows, t.lin)

\* A tick at a verdict has concluded it, and one that is about to send the start of CI has
\* saved the intent and nothing was sent for this head.
TickOK(t) ==
  /\ Judged(t)
  /\ t.pc = "green" => t.disp = "passing"
  /\ t.pc \in {"red", "diagnose", "rerun_failed"} => t.disp = "failed"
  /\ t.pc = "post" => t.head \in Heads /\ saved[t.head].state = "requested" /\ posts[t.head] = 0

PostsOK == \A h \in Heads : posts[h] <= 1 /\ (posts[h] # 0 => Standing(saved[h]))

CIType == head \in Heads /\ runs \in Seq(RunType) /\ Len(runs) <= MaxRuns /\ posts \in [Heads -> Nat] /\ SavedShape

CIInv == CIType /\ PostsOK /\ TickOK(tick)

-----------------------------------------------------------------------------
(* What is read, and what follows from a verdict.                          *)

LEMMA HeadsFacts == MaxHeads \in Nat \ {0} /\ MaxRuns \in Nat \ {0} /\ 1 \in Heads /\ Heads \subseteq Nat
BY CIBounds DEF Heads

LEMMA OnHeadFacts == ASSUME CIType, NEW h PROVE OnHead(h) \subseteq DOMAIN runs /\ OnHead(h) \subseteq RunIds /\ OnHead(h) \subseteq Nat
<1>1. Len(runs) \in Nat /\ DOMAIN runs = 1 .. Len(runs) /\ Len(runs) <= MaxRuns
  BY LenProperties DEF CIType
<1> QED
  BY <1>1, HeadsFacts DEF OnHead, RunIds

LEMMA RunFacts ==
  ASSUME CIType, NEW r \in DOMAIN runs
  PROVE  runs \in [1 .. Len(runs) -> RunType] /\ r \in 1 .. Len(runs) /\ runs[r] \in RunType /\ runs[r].jobs \in [Contexts -> JobStates]
<1>1. r \in 1 .. Len(runs) /\ runs[r] \in RunType
  BY LenProperties, ElementOfSeq DEF CIType
<1>2. runs \in [1 .. Len(runs) -> RunType]
  BY LenProperties, SeqDef DEF CIType
<1> QED
  BY <1>1, <1>2 DEF RunType

\* The rollup has a row per context and run.
LEMMA RowsRead == ASSUME CIType, NEW h PROVE RowsOK(Rows(h), h)
<1>1. ASSUME NEW x \in Rows(h)
      PROVE  \E r \in OnHead(h), c \in Contexts :
               runs[r].jobs[c] # "absent" /\ x = [ctx |-> c, run |-> r, state |-> RowState(runs[r].jobs[c]), at |-> Position(stamps[c], r)]
  BY DEF Rows
<1>2. ASSUME NEW x \in Rows(h)
      PROVE  x.ctx \in Contexts /\ x.run \in OnHead(h) /\ x.state = RowState(runs[x.run].jobs[x.ctx]) /\ x.state \in RowStates
  <2>1. PICK r \in OnHead(h), c \in Contexts :
          runs[r].jobs[c] # "absent" /\ x = [ctx |-> c, run |-> r, state |-> RowState(runs[r].jobs[c]), at |-> Position(stamps[c], r)]
    BY <1>1
  <2>2. runs[r].jobs[c] \in JobStates
    BY RunFacts, OnHeadFacts
  <2>3. RowState(runs[r].jobs[c]) \in RowStates
    BY <2>1, <2>2 DEF RowState, RowStates, JobStates, Over, Red, Green
  <2> QED
    BY <2>1, <2>3
<1> QED
  BY <1>2 DEF RowsOK

\* A row that counts is of the newest run that reported at all, and of the newest run of a
\* complete lineage.
LEMMA CurrentFacts ==
  ASSUME CIType, NEW h, NEW rows, RowsOK(rows, h), NEW lin, NEW x \in CurrentRows(rows, lin)
  PROVE  x \in rows /\ (\A y \in rows : y.run <= x.run) /\ (lin = Lineage(h, TRUE) => IsNewest(x.run, lin.runs))
<1>1. x \in rows /\ (\A y \in rows : ~(y.run > x.run)) /\ ~SupersededByExactLineage(x, lin)
  BY DEF CurrentRows, LatestChecks, IsSuperseded
<1>2. \A y \in rows : y.run \in Nat /\ y.run \in OnHead(h)
  BY OnHeadFacts DEF RowsOK
<1>3. \A y \in rows : y.run <= x.run
  BY <1>1, <1>2
<1>4. ASSUME lin = Lineage(h, TRUE) PROVE IsNewest(x.run, lin.runs)
  <2>1. lin.read /\ lin.complete
    BY <1>4 DEF Lineage
  <2>2. lin.runs = {[run |-> r, live |-> ~Ended(runs[r]),
                     conclusion |-> IF Ended(runs[r]) THEN Conclusion(runs[r]) ELSE "none"] : r \in OnHead(h)}
    BY <1>4 DEF Lineage
  <2>3. \A y \in lin.runs : y.run \in Nat
    BY <2>2, OnHeadFacts
  <2>4. \E y \in lin.runs : y.run = x.run
    <3> DEFINE gen(r) == [run |-> r, live |-> ~Ended(runs[r]),
                          conclusion |-> IF Ended(runs[r]) THEN Conclusion(runs[r]) ELSE "none"]
    <3>1. gen(x.run) \in lin.runs
      BY <1>1, <1>2, <2>2
    <3>2. gen(x.run).run = x.run
      OBVIOUS
    <3> QED
      BY <3>1, <3>2
  <2>5. \A y \in lin.runs : ~(y.run > x.run)
    BY <1>1, <2>1, <2>4 DEF SupersededByExactLineage
  <2> QED
    BY <1>1, <1>2, <2>3, <2>4, <2>5 DEF IsNewest
<1> QED
  BY <1>1, <1>3, <1>4

LEMMA PassingVerdict ==
  ASSUME CIType, NEW h, NEW rows, RowsOK(rows, h), NEW lin, NEW policy, Disposition(rows, lin, policy) = "passing"
  PROVE  GreenShown(rows)
<1> DEFINE current == CurrentRows(rows, lin)
           Of(c) == {x \in current : x.ctx = c}
           entry(c) == [ctx |-> c, reporting |-> Of(c) # {},
                        state |-> IF Of(c) # {} THEN StateFromChecks(Of(c)) ELSE StateFromLineage(lin)]
           cov == Coverage(rows, lin)
<1>1. cov = {entry(c) : c \in Contexts}
  BY DEF Coverage
<1>2. Status(cov, lin, policy) = "satisfied"
  BY DEF Disposition, RequiredDisposition
<1> HIDE DEF cov
<1>3. \A s \in {"unknown", "missing", "failing", "cancelled_superseded", "pending"} : ~Has(cov, s)
  BY <1>2 DEF Status
<1>4. ASSUME NEW c \in Contexts PROVE \E x \in rows : x.ctx = c /\ x.state \in Green /\ \A y \in rows : y.run <= x.run
  <2>1. entry(c).state \notin {"unknown", "missing", "failing", "cancelled_superseded", "pending"}
    <3>1. entry(c) \in cov
      BY <1>1
    <3> HIDE DEF entry
    <3> QED
      BY <1>3, <3>1 DEF Has
  <2>2. Of(c) # {} /\ StateFromChecks(Of(c)) \notin {"failing", "cancelled_superseded", "pending"}
    BY <2>1 DEF StateFromLineage
  <2>3. PICK x \in current : x.ctx = c
    BY <2>2
  <2>4. x.state \notin {"failure", "timed_out", "cancelled", "running"}
    <3>1. x \in Of(c)
      BY <2>3
    <3> HIDE DEF Of
    <3> QED
      BY <2>2, <3>1 DEF StateFromChecks
  <2>5. x \in rows /\ \A y \in rows : y.run <= x.run
    BY CurrentFacts
  <2>6. x.state \in Green
    BY <2>4, <2>5 DEF RowsOK, RowStates, Green
  <2> QED
    BY <2>3, <2>5, <2>6
<1> QED
  BY <1>4 DEF GreenShown

LEMMA FailedVerdict ==
  ASSUME CIType, NEW h, NEW rows, RowsOK(rows, h), NEW policy, Disposition(rows, Lineage(h, TRUE), policy) = "failed"
  PROVE  RedShown(rows, Lineage(h, TRUE))
<1>0. PICK lin : lin = Lineage(h, TRUE)
  OBVIOUS
<1> DEFINE current == CurrentRows(rows, lin)
           Of(c) == {x \in current : x.ctx = c}
           entry(c) == [ctx |-> c, reporting |-> Of(c) # {},
                        state |-> IF Of(c) # {} THEN StateFromChecks(Of(c)) ELSE StateFromLineage(lin)]
           cov == Coverage(rows, lin)
<1>1. cov = {entry(c) : c \in Contexts}
  BY DEF Coverage
<1>2. \/ \E e \in cov : e.reporting /\ e.state \in {"failing", "cancelled_superseded", "unknown"}
      \/ Status(cov, lin, policy) \in {"failing", "cancelled_superseded"}
  BY <1>0 DEF Disposition, RequiredDisposition
<1> HIDE DEF cov
<1>3. PICK e \in cov : e.state \in {"failing", "cancelled_superseded"} \/ (e.reporting /\ e.state = "unknown")
  BY <1>2 DEF Status, Has
<1>4. PICK c \in Contexts : e = entry(c)
  BY <1>1
<1>5. CASE Of(c) # {}
  <2>1. StateFromChecks(Of(c)) \in {"failing", "cancelled_superseded"}
    BY <1>3, <1>4, <1>5 DEF StateFromChecks
  <2>2. \E x \in Of(c) : x.state \in {"failure", "timed_out", "cancelled"}
    <3> HIDE DEF Of
    <3> QED
      BY <2>1 DEF StateFromChecks
  <2>3. PICK x \in current : x.state \in {"failure", "timed_out", "cancelled"}
    BY <2>2
  <2>4. x \in rows /\ IsNewest(x.run, lin.runs)
    BY <1>0, CurrentFacts
  <2> QED
    BY <1>0, <2>3, <2>4 DEF RedShown, Red
<1>6. CASE Of(c) = {}
  <2>1. StateFromLineage(lin) = "cancelled_superseded"
    <3>1. e.state = StateFromLineage(lin) /\ ~e.reporting
      BY <1>4, <1>6
    <3> HIDE DEF entry
    <3> QED
      BY <1>3, <3>1 DEF StateFromLineage
  <2>2. \E x \in lin.runs : x.conclusion = "cancelled"
    BY <2>1 DEF StateFromLineage
  <2> QED
    BY <1>0, <2>2 DEF RedShown
<1> QED
  BY <1>5, <1>6

-----------------------------------------------------------------------------
(* The ends of an observation.                                             *)

LEMMA IdleOK == TickOK(CIIdle)
<1>1. TickShape(CIIdle)
  <2> DEFINE A == {"idle", 0, FALSE, {}, NoLineage, TRUE, "none", NoAssessment, NoExecution}
  <2>1. CIIdle \in TickSet(A)
    BY DEF CIIdle, TickSet
  <2> QED
    BY <2>1 DEF TickShape
<1>2. CIIdle.rows = {} /\ CIIdle.lin.runs = {} /\ CIIdle.disp = "none" /\ CIIdle.pc = "idle"
  BY DEF CIIdle, NoLineage
<1> QED
  BY <1>1, <1>2 DEF TickOK, Judged, RowsOK, LineageOK

\* A tick that starts from nothing at another place.
LEMMA AfreshOK ==
  ASSUME NEW t, TickShape(t), t.rows = {}, t.lin = NoLineage, t.disp = "none", t.pc \notin {"green", "red", "diagnose", "rerun_failed", "post"}
  PROVE  TickOK(t)
BY DEF TickOK, Judged, RowsOK, LineageOK, NoLineage

LEMMA PassOverOK == ASSUME NEW t PROVE TickOK(PassOver(t))
<1>1. CASE t.admitted
  <2>1. PICK v : v = PassOver(t)
    OBVIOUS
  <2>2. v = [CIIdle EXCEPT !.pc = "dispatch", !.head = t.head, !.member = TRUE]
    BY <1>1, <2>1 DEF PassOver
  <2>3. v.rows = {} /\ v.lin = NoLineage /\ v.disp = "none" /\ v.pc = "dispatch"
    BY <2>2 DEF CIIdle
  <2>4. TickShape(v)
    <3>1. PICK A : CIIdle \in TickSet(A)
      BY IdleOK DEF TickOK, Judged, TickShape
    <3> DEFINE B == A \cup {"dispatch", t.head, TRUE}
    <3>2. v \in TickSet(B)
      BY <2>2, <3>1 DEF TickSet
    <3> QED
      BY <3>2 DEF TickShape
  <2> QED
    BY <2>1, <2>3, <2>4, AfreshOK
<1>2. CASE ~t.admitted
  BY <1>2, IdleOK DEF PassOver
<1> QED
  BY <1>1, <1>2

\* A tick that keeps what it has read and concluded.
LEMMA KeptOK ==
  ASSUME NEW t, Judged(t), NEW v, TickShape(v), v.rows = t.rows, v.lin = t.lin, v.head = t.head, v.disp = t.disp
  PROVE  Judged(v)
BY DEF Judged

\* A tick that forgets what it has read, to read it again.
LEMMA ForgottenOK ==
  ASSUME NEW v, TickShape(v), v.rows = {}, v.lin = NoLineage, v.disp = "failed", v.pc \notin {"green", "post"}
  PROVE  TickOK(v)
BY DEF TickOK, Judged, RowsOK, LineageOK, NoLineage

LEMMA ConcludedOK == ASSUME NEW t, Judged(t), NEW b PROVE TickOK(Concluded(t, b))
<1>0. PICK A : t \in TickSet(A)
  BY DEF Judged, TickShape
<1>1. CASE t.disp = "passing"
  <2>1. PICK v : v = [t EXCEPT !.pc = "green"]
    OBVIOUS
  <2>2. v \in TickSet(A \cup {"green"})
    BY <1>0, <2>1 DEF TickSet
  <2>3. v.pc = "green" /\ v.rows = t.rows /\ v.lin = t.lin /\ v.head = t.head /\ v.disp = t.disp
    BY <1>0, <2>1 DEF TickSet
  <2>4. Judged(v)
    BY <2>2, <2>3, KeptOK DEF TickShape
  <2>5. Concluded(t, b) = v
    BY <1>1, <2>1 DEF Concluded
  <2> QED
    BY <1>1, <2>3, <2>4, <2>5 DEF TickOK
<1>2. CASE t.disp # "passing" /\ RecoversGate(t)
  <2>1. PICK v : v = [t EXCEPT !.pc = "plan"]
    OBVIOUS
  <2>2. v \in TickSet(A \cup {"plan"})
    BY <1>0, <2>1 DEF TickSet
  <2>3. v.pc = "plan" /\ v.rows = t.rows /\ v.lin = t.lin /\ v.head = t.head /\ v.disp = t.disp
    BY <1>0, <2>1 DEF TickSet
  <2>4. Judged(v)
    BY <2>2, <2>3, KeptOK DEF TickShape
  <2>5. Concluded(t, b) = v
    BY <1>2, <2>1 DEF Concluded
  <2> QED
    BY <2>3, <2>4, <2>5 DEF TickOK
<1>3. CASE t.disp \notin {"passing", "failed"} /\ ~RecoversGate(t)
  BY <1>3, PassOverOK DEF Concluded
<1>4. CASE t.disp = "failed" /\ ~RecoversGate(t) /\ t.last
  <2>1. PICK v : v = [t EXCEPT !.pc = "red"]
    OBVIOUS
  <2>2. v \in TickSet(A \cup {"red"})
    BY <1>0, <2>1 DEF TickSet
  <2>3. v.pc = "red" /\ v.rows = t.rows /\ v.lin = t.lin /\ v.head = t.head /\ v.disp = t.disp
    BY <1>0, <2>1 DEF TickSet
  <2>4. Judged(v)
    BY <2>2, <2>3, KeptOK DEF TickShape
  <2>5. Concluded(t, b) = v
    BY <1>4, <2>1 DEF Concluded
  <2> QED
    BY <1>4, <2>3, <2>4, <2>5 DEF TickOK
<1>5. CASE t.disp = "failed" /\ ~RecoversGate(t) /\ ~t.last /\ b /\ t.rerun # {}
  <2>1. PICK v : v = [t EXCEPT !.pc = "rerun_failed", !.last = TRUE]
    OBVIOUS
  <2>2. v \in TickSet(A \cup {"rerun_failed", TRUE})
    BY <1>0, <2>1 DEF TickSet
  <2>3. v.pc = "rerun_failed" /\ v.rows = t.rows /\ v.lin = t.lin /\ v.head = t.head /\ v.disp = t.disp
    BY <1>0, <2>1 DEF TickSet
  <2>4. Judged(v)
    BY <2>2, <2>3, KeptOK DEF TickShape
  <2>5. Concluded(t, b) = v
    BY <1>5, <2>1 DEF Concluded
  <2> QED
    BY <1>5, <2>3, <2>4, <2>5 DEF TickOK
<1>6. CASE t.disp = "failed" /\ ~RecoversGate(t) /\ ~t.last /\ ~(b /\ t.rerun # {})
  <2>1. PICK v : v = [t EXCEPT !.pc = "final", !.last = TRUE, !.rows = {}, !.lin = NoLineage, !.rerun = {}]
    OBVIOUS
  <2>2. v \in TickSet(A \cup {"final", TRUE, {}, NoLineage})
    BY <1>0, <2>1 DEF TickSet
  <2>3. v.pc = "final" /\ v.rows = {} /\ v.lin = NoLineage /\ v.disp = "failed"
    BY <1>0, <1>6, <2>1 DEF TickSet
  <2>5. Concluded(t, b) = v
    BY <1>6, <2>1 DEF Concluded
  <2> QED
    BY <2>2, <2>3, <2>5, ForgottenOK DEF TickShape
<1> QED
  BY <1>1, <1>2, <1>3, <1>4, <1>5, <1>6

LEMMA ObservedOK == ASSUME NEW t, Judged(t) PROVE TickOK(Observed(t))
<1>0. PICK A : t \in TickSet(A)
  BY DEF Judged, TickShape
<1>1. CASE t.last
  BY <1>1, ConcludedOK DEF Observed
<1>2. CASE ~t.last
  <2>1. PICK v : v = [t EXCEPT !.pc = "judge"]
    OBVIOUS
  <2>2. v \in TickSet(A \cup {"judge"})
    BY <1>0, <2>1 DEF TickSet
  <2>3. v.pc = "judge" /\ v.rows = t.rows /\ v.lin = t.lin /\ v.head = t.head /\ v.disp = t.disp
    BY <1>0, <2>1 DEF TickSet
  <2>4. Judged(v)
    BY <2>2, <2>3, KeptOK DEF TickShape
  <2>5. Observed(t) = v
    BY <1>2, <2>1 DEF Observed
  <2> QED
    BY <2>3, <2>4, <2>5 DEF TickOK
<1> QED
  BY <1>1, <1>2

-----------------------------------------------------------------------------
(* Steps, of the provider and of the tick.                                 *)

\* A run, once created, stays on its head.
RunsKept == runs' \in Seq(RunType) /\ Len(runs') <= MaxRuns /\ \A h : OnHead(h) \subseteq OnHead(h)'

LEMMA RunsSame == ASSUME CIType, UNCHANGED runs PROVE RunsKept
BY DEF RunsKept, CIType, OnHead

LEMMA RunUpdated ==
  ASSUME CIType, NEW r \in DOMAIN runs, NEW x \in RunType, x.head = runs[r].head, runs' = [runs EXCEPT ![r] = x]
  PROVE  RunsKept
<1>1. runs \in Seq(RunType) /\ r \in 1 .. Len(runs)
  BY RunFacts DEF CIType
<1>2. runs' \in Seq(RunType) /\ Len(runs') = Len(runs) /\ \A j \in 1 .. Len(runs) : runs'[j] = IF j = r THEN x ELSE runs[j]
  BY <1>1, ExceptSeq
<1>3. DOMAIN runs = 1 .. Len(runs) /\ DOMAIN runs' = 1 .. Len(runs)
  BY <1>1, <1>2, LenProperties
<1>4. \A h : OnHead(h) \subseteq OnHead(h)'
  BY <1>2, <1>3 DEF OnHead
<1> QED
  BY <1>2, <1>4 DEF RunsKept, CIType

LEMMA TickOKKept == ASSUME NEW v, TickOK(v), RunsKept, UNCHANGED <<saved, posts>> PROVE TickOK(v)'
<1>1. RowsOK(v.rows, v.head)'
  BY DEF TickOK, Judged, RowsOK, RunsKept
<1>2. Judged(v)'
  BY <1>1 DEF TickOK, Judged, TickShape, LineageOK, GreenShown, RedShown
<1> QED
  BY <1>2 DEF TickOK

LEMMA TickIs == ASSUME NEW v, tick' = v, TickOK(v)' PROVE TickOK(tick)'
<1>1. Judged(tick)'
  BY DEF TickOK, Judged, RowsOK
<1> QED
  BY <1>1 DEF TickOK

\* A step that leaves the checkpoints of the CI starts alone.
LEMMA StepInv ==
  ASSUME CIInv, NEW v, TickOK(v), tick' = v, RunsKept, head' \in Heads, UNCHANGED <<saved, posts>> PROVE CIInv'
<1>1. TickOK(tick)'
  BY TickOKKept, TickIs
<1>2. CIType'
  BY DEF CIInv, CIType, RunsKept, SavedShape
<1>3. PostsOK'
  BY DEF CIInv, PostsOK
<1> QED
  BY <1>1, <1>2, <1>3 DEF CIInv

\* A step that only reads.
LEMMA ReadInv == ASSUME CIInv, NEW v, TickOK(v), tick' = v, UNCHANGED <<head, runs, saved, posts>> PROVE CIInv'
<1>1. RunsKept /\ head' \in Heads
  BY RunsSame DEF CIInv, CIType
<1> QED
  BY <1>1, StepInv

\* A step of the provider on one run.
LEMMA ProviderInv == ASSUME CIInv, RunsKept, head' \in Heads, UNCHANGED <<saved, posts, tick>> PROVE CIInv'
<1>1. PICK v : v = tick
  OBVIOUS
<1>2. TickOK(v) /\ tick' = v
  BY <1>1 DEF CIInv
<1> QED
  BY <1>2, StepInv

LEMMA StartRunInv == ASSUME CIInv, StartRun PROVE CIInv'
<1>1. PICK x : x = [head |-> head, attempt |-> 1, decision |-> "none", jobs |-> Fresh]
  OBVIOUS
<1>2. x \in RunType /\ runs \in Seq(RunType) /\ Len(runs) <= MaxRuns
  BY <1>1 DEF CIInv, CIType, RunType, Fresh, JobStates
<1>3. runs' = Append(runs, x) /\ Len(runs) < MaxRuns /\ UNCHANGED <<head, saved, posts, tick>>
  BY <1>1 DEF StartRun
<1>4. runs' \in Seq(RunType) /\ Len(runs') = Len(runs) + 1 /\ Len(runs) \in Nat /\ \A j \in 1 .. Len(runs) : runs'[j] = runs[j]
  BY <1>2, <1>3, AppendProperties, LenProperties
<1>5. DOMAIN runs = 1 .. Len(runs) /\ DOMAIN runs' = 1 .. Len(runs) + 1
  BY <1>2, <1>4, LenProperties
<1>6. \A h : OnHead(h) \subseteq OnHead(h)'
  BY <1>4, <1>5 DEF OnHead
<1>7. Len(runs') <= MaxRuns
  BY <1>3, <1>4, HeadsFacts
<1>8. RunsKept /\ head' \in Heads
  BY <1>3, <1>4, <1>6, <1>7 DEF RunsKept, CIInv, CIType
<1> QED
  BY <1>3, <1>8, ProviderInv

LEMMA JobFacts == (\A s \in Over \cup {"running", "absent"} : s \in JobStates) /\ Started \in [Contexts -> JobStates] /\ Fresh \in [Contexts -> JobStates]
BY DEF JobStates, Over, Red, Green, Started, Fresh

LEMMA EvaluateGateInv == ASSUME CIInv, NEW r \in RunIds, EvaluateGate(r) PROVE CIInv'
<1>1. r \in DOMAIN runs /\ UNCHANGED <<head, saved, posts, tick>> /\ CIType
  BY DEF EvaluateGate, CIInv
<1>2. PICK d \in {"run", "deferred_unjoined"} :
        runs' = [runs EXCEPT ![r].decision = d, ![r].jobs = IF d = "run" THEN Started ELSE @]
  BY DEF EvaluateGate, MembershipDecision
<1>3. runs[r] \in RunType /\ runs[r].jobs \in [Contexts -> JobStates] /\ runs \in [1 .. Len(runs) -> RunType]
  BY <1>1, RunFacts
<1>4. PICK x : x = [runs[r] EXCEPT !.decision = d, !.jobs = IF d = "run" THEN Started ELSE @]
  OBVIOUS
<1>5. x \in RunType /\ x.head = runs[r].head
  BY <1>3, <1>4, JobFacts DEF RunType
<1>6. runs' = [runs EXCEPT ![r] = x]
  BY <1>2, <1>3, <1>4
<1>7. RunsKept /\ head' \in Heads
  BY <1>1, <1>5, <1>6, RunUpdated DEF CIType
<1> QED
  BY <1>1, <1>7, ProviderInv

LEMMA ReportDeferralInv == ASSUME CIInv, NEW r \in RunIds, ReportDeferral(r) PROVE CIInv'
<1> DEFINE jobs == [c \in Contexts |-> IF c = Gate THEN "deferred" ELSE "skipped"]
<1>1. r \in DOMAIN runs /\ UNCHANGED <<head, saved, posts, tick>> /\ CIType /\ runs' = [runs EXCEPT ![r].jobs = jobs]
  BY DEF ReportDeferral, Reporting, CIInv
<1>2. jobs \in [Contexts -> JobStates]
  BY DEF JobStates, Over, Red, Green
<1> HIDE DEF jobs
<1>3. runs[r] \in RunType /\ runs \in [1 .. Len(runs) -> RunType]
  BY <1>1, RunFacts
<1>4. PICK x : x = [runs[r] EXCEPT !.jobs = jobs]
  OBVIOUS
<1>5. x \in RunType /\ x.head = runs[r].head
  BY <1>2, <1>3, <1>4 DEF RunType
<1>6. runs' = [runs EXCEPT ![r] = x]
  BY <1>1, <1>3, <1>4
<1>7. RunsKept /\ head' \in Heads
  BY <1>1, <1>5, <1>6, RunUpdated DEF CIType
<1> QED
  BY <1>1, <1>7, ProviderInv

LEMMA ReportInv == ASSUME CIInv, NEW r \in RunIds, NEW c \in Contexts, Report(r, c) PROVE CIInv'
<1>1. r \in DOMAIN runs /\ UNCHANGED <<head, saved, posts, tick>> /\ CIType
  BY DEF Report, Reporting, CIInv
<1>2. PICK result \in {"success", "failure", "timed_out"} : runs' = [runs EXCEPT ![r].jobs[c] = result]
  BY DEF Report
<1>3. runs[r] \in RunType /\ runs[r].jobs \in [Contexts -> JobStates] /\ runs \in [1 .. Len(runs) -> RunType]
  BY <1>1, RunFacts
<1>4. PICK jobs : jobs = [runs[r].jobs EXCEPT ![c] = result]
  OBVIOUS
<1>5. jobs \in [Contexts -> JobStates]
  BY <1>3, <1>4, JobFacts DEF Over, Red, Green
<1>6. PICK x : x = [runs[r] EXCEPT !.jobs = jobs]
  OBVIOUS
<1>7. x \in RunType /\ x.head = runs[r].head
  BY <1>3, <1>5, <1>6 DEF RunType
<1>8. runs' = [runs EXCEPT ![r] = x]
  BY <1>2, <1>3, <1>4, <1>6
<1>9. RunsKept /\ head' \in Heads
  BY <1>1, <1>7, <1>8, RunUpdated DEF CIType
<1> QED
  BY <1>1, <1>9, ProviderInv

LEMMA CancelRunInv == ASSUME CIInv, NEW r \in RunIds, CancelRun(r) PROVE CIInv'
<1>1. r \in DOMAIN runs /\ UNCHANGED <<head, saved, posts, tick>> /\ CIType
      /\ runs' = [runs EXCEPT ![r].decision = "run", ![r].jobs = [c \in Contexts |-> IF @[c] \in Over THEN @[c] ELSE "cancelled"]]
  BY DEF CancelRun, Reporting, CIInv
<1>3. runs[r] \in RunType /\ runs[r].jobs \in [Contexts -> JobStates] /\ runs \in [1 .. Len(runs) -> RunType]
  BY <1>1, RunFacts
<1>4. PICK jobs : jobs = [c \in Contexts |-> IF runs[r].jobs[c] \in Over THEN runs[r].jobs[c] ELSE "cancelled"]
  OBVIOUS
<1>5. jobs \in [Contexts -> JobStates]
  BY <1>3, <1>4, JobFacts DEF Over, Red
<1>6. PICK x : x = [runs[r] EXCEPT !.decision = "run", !.jobs = jobs]
  OBVIOUS
<1>7. x \in RunType /\ x.head = runs[r].head
  BY <1>3, <1>5, <1>6 DEF RunType
<1>8. runs' = [runs EXCEPT ![r] = x]
  BY <1>1, <1>3, <1>4, <1>6
<1>9. RunsKept /\ head' \in Heads
  BY <1>1, <1>7, <1>8, RunUpdated DEF CIType
<1> QED
  BY <1>1, <1>9, ProviderInv

\* A run again from the start.
LEMMA RestartedKept == ASSUME CIInv, NEW r, CanRestart(r), runs' = Restarted(r) PROVE RunsKept
<1>1. r \in DOMAIN runs /\ CIType
  BY DEF CanRestart, CIInv
<1>2. runs' = [runs EXCEPT ![r].attempt = @ + 1, ![r].decision = "none", ![r].jobs = Fresh]
  BY DEF Restarted
<1>3. runs[r] \in RunType /\ runs \in [1 .. Len(runs) -> RunType]
  BY <1>1, RunFacts
<1>4. PICK a \in Nat : a = runs[r].attempt + 1
  BY <1>3 DEF RunType
<1>5. PICK x : x = [runs[r] EXCEPT !.attempt = a, !.decision = "none", !.jobs = Fresh]
  OBVIOUS
<1>6. x \in RunType /\ x.head = runs[r].head
  BY <1>3, <1>5, JobFacts DEF RunType
<1>7. runs' = [runs EXCEPT ![r] = x]
  BY <1>2, <1>3, <1>4, <1>5
<1> QED
  BY <1>1, <1>6, <1>7, RunUpdated

LEMMA PublishInv == ASSUME CIInv, PushHead \/ GraceElapses \/ Evict PROVE CIInv'
<1>1. UNCHANGED <<runs, saved, posts, tick>> /\ CIType
  BY DEF PushHead, GraceElapses, Evict, CIInv
<1>2. head' \in Heads
  BY <1>1, HeadsFacts DEF PushHead, GraceElapses, Evict, CIType, Heads
<1> QED
  BY <1>1, <1>2, RunsSame, ProviderInv

LEMMA TickFacts == ASSUME CIInv PROVE TickOK(tick) /\ Judged(tick) /\ TickShape(tick) /\ CIType
BY DEF CIInv, TickOK, Judged

LEMMA LineageFacts == ASSUME CIType, NEW h, NEW complete PROVE LineageOK(Lineage(h, complete)) /\ Lineage(h, complete).complete = complete
<1>1. Lineage(h, complete).complete = complete
  BY DEF Lineage
<1>2. CASE complete
  <2>1. Lineage(h, complete).runs = {[run |-> r, live |-> ~Ended(runs[r]),
                     conclusion |-> IF Ended(runs[r]) THEN Conclusion(runs[r]) ELSE "none"] : r \in OnHead(h)}
    BY <1>2 DEF Lineage
  <2> QED
    BY <1>1, <2>1, OnHeadFacts DEF LineageOK
<1>3. CASE ~complete
  BY <1>1, <1>3 DEF Lineage, LineageOK
<1> QED
  BY <1>2, <1>3

\* A refetch of the check rows.
LEMMA RefetchedOK == ASSUME CIInv, NEW policy, NEW red \in {"reread", "lineage"} PROVE TickOK(Refetched(policy, red))
<1>0. PICK A : tick \in TickSet(A)
  BY TickFacts DEF TickShape
<1>1. PICK disp : disp = Disposition(Rows(head), NoLineage, policy)
  OBVIOUS
<1>2. PICK rows : rows = Rows(head)
  OBVIOUS
<1>3. PICK t : t = [tick EXCEPT !.head = head, !.member = member, !.rows = rows, !.policy = policy,
                          !.disp = disp, !.lin = NoLineage, !.deferred = FALSE, !.rerun = {}]
  OBVIOUS
<1>4. t \in TickSet(A \cup {head, member, rows, policy, disp, NoLineage, FALSE, {}})
  BY <1>0, <1>3 DEF TickSet
<1>5. t.head = head /\ t.rows = rows /\ t.lin = NoLineage /\ t.disp = disp
  BY <1>0, <1>3 DEF TickSet
<1>6. RowsOK(rows, head)
  BY <1>2, RowsRead, TickFacts
<1>7. disp = "passing" => GreenShown(rows)
  BY <1>1, <1>2, <1>6, PassingVerdict, TickFacts
<1>8. Judged(t)
  BY <1>4, <1>5, <1>6, <1>7 DEF Judged, TickShape, LineageOK, NoLineage
<1>9. CASE disp = "failed"
  <2>1. PICK v : v = [t EXCEPT !.pc = red]
    OBVIOUS
  <2>2. v \in TickSet(A \cup {head, member, rows, policy, disp, NoLineage, FALSE, {}} \cup {red})
    BY <1>4, <2>1 DEF TickSet
  <2>3. v.pc = red /\ v.rows = t.rows /\ v.lin = t.lin /\ v.head = t.head /\ v.disp = t.disp
    BY <1>4, <2>1 DEF TickSet
  <2>4. Judged(v)
    BY <1>8, <2>2, <2>3, KeptOK DEF TickShape
  <2>5. Refetched(policy, red) = v
    BY <1>1, <1>2, <1>3, <1>9, <2>1 DEF Refetched
  <2> QED
    BY <2>3, <2>4, <2>5 DEF TickOK
<1>10. CASE disp # "failed"
  <2>1. Refetched(policy, red) = Observed(t)
    BY <1>1, <1>2, <1>3, <1>10 DEF Refetched
  <2> QED
    BY <1>8, <2>1, ObservedOK
<1> QED
  BY <1>9, <1>10

LEMMA ObserveInv == ASSUME CIInv, Observe \/ Reread PROVE CIInv'
<1>1. UNCHANGED <<head, runs, saved, posts>>
  BY DEF Observe, Reread, Reads, Stays
<1>2. \E policy : \E red \in {"reread", "lineage"} : tick' = Refetched(policy, red) \/ tick' = CIIdle
  BY DEF Observe, Reread
<1>3. PICK v : tick' = v /\ TickOK(v)
  BY <1>2, RefetchedOK, IdleOK
<1> QED
  BY <1>1, <1>3, ReadInv

LEMMA ReadLineageInv == ASSUME CIInv, ReadLineage PROVE CIInv'
<1>0. PICK A : tick \in TickSet(A)
  BY TickFacts DEF TickShape
<1>1. UNCHANGED <<head, runs, saved, posts>>
  BY DEF ReadLineage, Reads
<1>a. PICK complete \in BOOLEAN :
        LET lin == Lineage(head, complete)
            disp == Disposition(tick.rows, lin, tick.policy)
            t == [tick EXCEPT !.lin = lin, !.disp = disp]
        IN tick' = IF ~Unmoved THEN CIIdle ELSE IF disp = "failed" THEN [t EXCEPT !.pc = "diagnose"] ELSE Observed(t)
  BY DEF ReadLineage
<1>2. PICK lin, disp, t :
        /\ lin = Lineage(head, complete) /\ disp = Disposition(tick.rows, lin, tick.policy)
        /\ t = [tick EXCEPT !.lin = lin, !.disp = disp]
        /\ tick' = IF ~Unmoved THEN CIIdle ELSE IF disp = "failed" THEN [t EXCEPT !.pc = "diagnose"] ELSE Observed(t)
  BY <1>a
<1>3. CASE ~Unmoved
  BY <1>1, <1>2, <1>3, IdleOK, ReadInv
<1>4. CASE Unmoved
  <2>0. t = [tick EXCEPT !.lin = lin, !.disp = disp]
    BY <1>2
  <2>1. t \in TickSet(A \cup {lin, disp})
    BY <1>0, <2>0 DEF TickSet
  <2>2. t.head = tick.head /\ t.rows = tick.rows /\ t.lin = lin /\ t.disp = disp
    BY <1>0, <2>0 DEF TickSet
  <2>3. RowsOK(tick.rows, head) /\ tick.head = head
    BY <1>4, TickFacts DEF Judged, Unmoved
  <2>4. LineageOK(lin) /\ lin.complete = complete
    BY <1>2, LineageFacts, TickFacts
  <2>5. disp = "passing" => GreenShown(tick.rows)
    BY <1>2, <2>3, PassingVerdict, TickFacts
  <2>6. disp = "failed" /\ lin.complete => RedShown(tick.rows, lin)
    <3> SUFFICES ASSUME disp = "failed", lin.complete PROVE RedShown(tick.rows, lin)
      OBVIOUS
    <3>1. lin = Lineage(head, TRUE)
      BY <1>2, <2>4
    <3> QED
      BY <1>2, <2>3, <3>1, FailedVerdict, TickFacts
  <2>7. Judged(t)
    BY <2>1, <2>2, <2>3, <2>4, <2>5, <2>6 DEF Judged, TickShape
  <2>8. CASE disp = "failed"
    <3>1. PICK v : v = [t EXCEPT !.pc = "diagnose"]
      OBVIOUS
    <3>2. v \in TickSet(A \cup {lin, disp} \cup {"diagnose"})
      BY <2>1, <3>1 DEF TickSet
    <3>3. v.pc = "diagnose" /\ v.rows = t.rows /\ v.lin = t.lin /\ v.head = t.head /\ v.disp = t.disp
      BY <2>1, <3>1 DEF TickSet
    <3>4. Judged(v)
      BY <2>7, <3>2, <3>3, KeptOK DEF TickShape
    <3>5. TickOK(v) /\ tick' = v
      BY <1>2, <1>4, <2>2, <2>8, <3>1, <3>3, <3>4 DEF TickOK
    <3> QED
      BY <1>1, <3>5, ReadInv
  <2>9. CASE disp # "failed"
    <3>1. PICK v : v = Observed(t)
      OBVIOUS
    <3>2. TickOK(v) /\ tick' = v
      BY <1>2, <1>4, <2>7, <2>9, <3>1, ObservedOK
    <3> QED
      BY <1>1, <3>2, ReadInv
  <2> QED
    BY <2>8, <2>9
<1> QED
  BY <1>3, <1>4

LEMMA DiagnoseInv == ASSUME CIInv, Diagnose PROVE CIInv'
<1>0. PICK A : tick \in TickSet(A)
  BY TickFacts DEF TickShape
<1>1. UNCHANGED <<head, runs, saved, posts>> /\ tick.pc = "diagnose"
  BY DEF Diagnose, Stays, Busy
<1>2. CASE tick' = CIIdle
  BY <1>1, <1>2, IdleOK, ReadInv
<1>3. CASE tick' # CIIdle
  <2> DEFINE deferred == DeferralProved(RerunnableRuns)
             rerun == InfrastructureRecovery(RerunnableRuns)
             disp == IF deferred THEN "waiting" ELSE "failed"
  <2>0. PICK t : t = [tick EXCEPT !.deferred = deferred, !.rerun = rerun, !.disp = disp]
    OBVIOUS
  <2>1. tick' = Observed(t)
    BY <1>3, <2>0 DEF Diagnose
  <2>5. disp \in {"waiting", "failed"}
    OBVIOUS
  <2> HIDE DEF deferred, rerun, disp
  <2>2. t \in TickSet(A \cup {deferred, rerun, disp})
    BY <1>0, <2>0 DEF TickSet
  <2>3. t.head = tick.head /\ t.rows = tick.rows /\ t.lin = tick.lin /\ t.disp = disp
    BY <1>0, <2>0 DEF TickSet
  <2>4. tick.disp = "failed" /\ Judged(tick)
    BY <1>1, TickFacts DEF TickOK
  <2>6. Judged(t)
    BY <2>2, <2>3, <2>4, <2>5 DEF Judged, TickShape
  <2>7. PICK v : v = Observed(t)
    OBVIOUS
  <2>8. TickOK(v) /\ tick' = v
    BY <2>1, <2>6, <2>7, ObservedOK
  <2> QED
    BY <1>1, <2>8, ReadInv
<1> QED
  BY <1>2, <1>3

\* Ticks that go on from the idle one, at places that hold no verdict.
LEMMA SkipOK == ASSUME NEW h, NEW a PROVE TickOK([CIIdle EXCEPT !.pc = "skip", !.head = h, !.assessment = a])
<1>0. PICK A : CIIdle \in TickSet(A)
  BY IdleOK DEF TickOK, Judged, TickShape
<1>1. PICK v : v = [CIIdle EXCEPT !.pc = "skip", !.head = h, !.assessment = a]
  OBVIOUS
<1>2. v \in TickSet(A \cup {"skip", h, a})
  BY <1>0, <1>1 DEF TickSet
<1>3. v.rows = {} /\ v.lin = NoLineage /\ v.disp = "none" /\ v.pc = "skip"
  BY <1>1 DEF CIIdle
<1> QED
  BY <1>1, <1>2, <1>3, AfreshOK DEF TickShape

LEMMA AdmitOK == ASSUME NEW h PROVE TickOK([CIIdle EXCEPT !.pc = "admit", !.head = h])
<1>0. PICK A : CIIdle \in TickSet(A)
  BY IdleOK DEF TickOK, Judged, TickShape
<1>1. PICK v : v = [CIIdle EXCEPT !.pc = "admit", !.head = h]
  OBVIOUS
<1>2. v \in TickSet(A \cup {"admit", h})
  BY <1>0, <1>1 DEF TickSet
<1>3. v.rows = {} /\ v.lin = NoLineage /\ v.disp = "none" /\ v.pc = "admit"
  BY <1>1 DEF CIIdle
<1> QED
  BY <1>1, <1>2, <1>3, AfreshOK DEF TickShape

LEMMA AdmitPlanOK == ASSUME NEW h, NEW g PROVE TickOK([CIIdle EXCEPT !.pc = "admit", !.head = h, !.plan = g])
<1>0. PICK A : CIIdle \in TickSet(A)
  BY IdleOK DEF TickOK, Judged, TickShape
<1>1. PICK v : v = [CIIdle EXCEPT !.pc = "admit", !.head = h, !.plan = g]
  OBVIOUS
<1>2. v \in TickSet(A \cup {"admit", h, g})
  BY <1>0, <1>1 DEF TickSet
<1>3. v.rows = {} /\ v.lin = NoLineage /\ v.disp = "none" /\ v.pc = "admit"
  BY <1>1 DEF CIIdle
<1> QED
  BY <1>1, <1>2, <1>3, AfreshOK DEF TickShape

LEMMA RerunOK ==
  ASSUME NEW h, NEW g, NEW b PROVE TickOK([CIIdle EXCEPT !.pc = "rerun", !.head = h, !.member = TRUE, !.plan = g, !.admitted = b])
<1>0. PICK A : CIIdle \in TickSet(A)
  BY IdleOK DEF TickOK, Judged, TickShape
<1>1. PICK v : v = [CIIdle EXCEPT !.pc = "rerun", !.head = h, !.member = TRUE, !.plan = g, !.admitted = b]
  OBVIOUS
<1>2. v \in TickSet(A \cup {"rerun", h, TRUE, g, b})
  BY <1>0, <1>1 DEF TickSet
<1>3. v.rows = {} /\ v.lin = NoLineage /\ v.disp = "none" /\ v.pc = "rerun"
  BY <1>1 DEF CIIdle
<1> QED
  BY <1>1, <1>2, <1>3, AfreshOK DEF TickShape

LEMMA SkippedOK == TickOK([CIIdle EXCEPT !.pc = "skipped"])
<1>0. PICK A : CIIdle \in TickSet(A)
  BY IdleOK DEF TickOK, Judged, TickShape
<1>1. PICK v : v = [CIIdle EXCEPT !.pc = "skipped"]
  OBVIOUS
<1>2. v \in TickSet(A \cup {"skipped"})
  BY <1>0, <1>1 DEF TickSet
<1>3. v.rows = {} /\ v.lin = NoLineage /\ v.disp = "none" /\ v.pc = "skipped"
  BY <1>1 DEF CIIdle
<1> QED
  BY <1>1, <1>2, <1>3, AfreshOK DEF TickShape

\* The tick goes to another place and keeps what it holds.
LEMMA MovedOK ==
  ASSUME NEW t, Judged(t), NEW pc \in {"plan", "rerequest", "rediscover", "again", "rerun_new"}, NEW v, TickShape(v), v.pc = pc,
         v.rows = t.rows, v.lin = t.lin, v.head = t.head, v.disp = t.disp
  PROVE  TickOK(v)
<1>1. Judged(v)
  BY KeptOK
<1> QED
  BY <1>1 DEF TickOK

LEMMA JudgeInv == ASSUME CIInv, Judge PROVE CIInv'
<1>0. PICK A : tick \in TickSet(A)
  BY TickFacts DEF TickShape
<1>1. UNCHANGED <<head, runs, saved, posts>>
  BY DEF Judge, Reads
<1>a. PICK complete \in BOOLEAN, rerunFailed \in BOOLEAN :
         LET kept == IF tick.member THEN tick.lin ELSE NoLineage
             reads == SomeAbsent(tick.rows) /\ tick.policy /\ ~kept.read
             lin == IF reads THEN Lineage(tick.head, complete) ELSE kept
             a == AssessRequiredRuns(tick.rows, lin, tick.policy)
             t == [tick EXCEPT !.deferred = @ /\ GateDeferralAllows(a)]
         IN  tick' = IF reads /\ ~Unmoved THEN CIIdle
                     ELSE IF ~tick.member THEN CandidateAdmission(t, a)
                     ELSE IF Recovery(a.status, lin) # 0 THEN [t EXCEPT !.pc = "rerequest", !.suite = Recovery(a.status, lin)]
                     ELSE Concluded(t, rerunFailed)
  BY ZenonT(40) DEF Judge
<1> DEFINE kept == IF tick.member THEN tick.lin ELSE NoLineage
           reads == SomeAbsent(tick.rows) /\ tick.policy /\ ~kept.read
           lin == IF reads THEN Lineage(tick.head, complete) ELSE kept
           a == AssessRequiredRuns(tick.rows, lin, tick.policy)
           allowed == tick.deferred /\ GateDeferralAllows(a)
           suite == Recovery(a.status, lin)
<1>3. PICK t : t = [tick EXCEPT !.deferred = allowed]
  OBVIOUS
<1>b. tick' = IF reads /\ ~Unmoved THEN CIIdle
              ELSE IF ~tick.member THEN CandidateAdmission(t, a)
              ELSE IF suite # 0 THEN [t EXCEPT !.pc = "rerequest", !.suite = suite]
              ELSE Concluded(t, rerunFailed)
  BY <1>a, <1>3
<1> HIDE DEF kept, reads, lin, a, allowed, suite
<1>2. \/ tick' = CIIdle
      \/ tick' = CandidateAdmission(t, a)
      \/ tick' = [t EXCEPT !.pc = "rerequest", !.suite = suite]
      \/ tick' = Concluded(t, rerunFailed)
  BY <1>b
<1>4. t \in TickSet(A \cup {allowed})
  BY <1>0, <1>3 DEF TickSet
<1>5. t.rows = tick.rows /\ t.lin = tick.lin /\ t.head = tick.head /\ t.disp = tick.disp
  BY <1>0, <1>3 DEF TickSet
<1>6. Judged(t)
  BY <1>4, <1>5, KeptOK, TickFacts DEF TickShape
<1>7. TickOK(CandidateAdmission(t, a))
  <2>1. PICK v : v = [t EXCEPT !.pc = "plan"]
    OBVIOUS
  <2>2. v \in TickSet(A \cup {allowed} \cup {"plan"})
    BY <1>4, <2>1 DEF TickSet
  <2>3. v.pc = "plan" /\ v.rows = t.rows /\ v.lin = t.lin /\ v.head = t.head /\ v.disp = t.disp
    BY <1>4, <2>1 DEF TickSet
  <2>4. TickOK(v)
    BY <1>6, <2>2, <2>3, MovedOK DEF TickShape
  <2> QED
    BY <2>1, <2>4, IdleOK, SkipOK, AdmitOK DEF CandidateAdmission
<1>8. TickOK([t EXCEPT !.pc = "rerequest", !.suite = suite])
  <2>1. PICK v : v = [t EXCEPT !.pc = "rerequest", !.suite = suite]
    OBVIOUS
  <2>2. v \in TickSet(A \cup {allowed} \cup {"rerequest", suite})
    BY <1>4, <2>1 DEF TickSet
  <2>3. v.pc = "rerequest" /\ v.rows = t.rows /\ v.lin = t.lin /\ v.head = t.head /\ v.disp = t.disp
    BY <1>4, <2>1 DEF TickSet
  <2>4. TickOK(v)
    BY <1>6, <2>2, <2>3, MovedOK DEF TickShape
  <2> QED
    BY <2>1, <2>4
<1>9. PICK v : tick' = v /\ TickOK(v)
  BY <1>2, <1>6, <1>7, <1>8, IdleOK, ConcludedOK
<1> QED
  BY <1>1, <1>9, ReadInv

LEMMA RerequestSuiteInv == ASSUME CIInv, RerequestSuite PROVE CIInv'
<1>0. PICK A : tick \in TickSet(A)
  BY TickFacts DEF TickShape
<1>1. UNCHANGED <<head, saved, posts>> /\ CIType
  BY DEF RerequestSuite, CIInv
<1>2. CASE Unmoved /\ CanRestart(tick.suite)
  <2>1. runs' = Restarted(tick.suite) /\ tick' = [tick EXCEPT !.pc = "rediscover", !.suite = 0]
    BY <1>2 DEF RerequestSuite
  <2>2. PICK v : v = [tick EXCEPT !.pc = "rediscover", !.suite = 0]
    OBVIOUS
  <2>3. v \in TickSet(A \cup {"rediscover", 0})
    BY <1>0, <2>2 DEF TickSet
  <2>4. v.pc = "rediscover" /\ v.rows = tick.rows /\ v.lin = tick.lin /\ v.head = tick.head /\ v.disp = tick.disp
    BY <1>0, <2>2 DEF TickSet
  <2>5. TickOK(v) /\ tick' = v
    BY <2>1, <2>2, <2>3, <2>4, MovedOK, TickFacts DEF TickShape
  <2>6. RunsKept /\ head' \in Heads
    BY <1>1, <1>2, <2>1, RestartedKept DEF CIType
  <2> QED
    BY <1>1, <2>5, <2>6, StepInv
<1>3. CASE ~(Unmoved /\ CanRestart(tick.suite))
  <2>1. UNCHANGED runs /\ tick' = Concluded([tick EXCEPT !.suite = 0], FALSE)
    BY <1>3 DEF RerequestSuite
  <2>2. PICK t : t = [tick EXCEPT !.suite = 0]
    OBVIOUS
  <2>3. t \in TickSet(A \cup {0})
    BY <1>0, <2>2 DEF TickSet
  <2>4. t.rows = tick.rows /\ t.lin = tick.lin /\ t.head = tick.head /\ t.disp = tick.disp
    BY <1>0, <2>2 DEF TickSet
  <2>5. Judged(t)
    BY <2>3, <2>4, KeptOK, TickFacts DEF TickShape
  <2>6. PICK v : tick' = v /\ TickOK(v)
    BY <2>1, <2>2, <2>5, ConcludedOK
  <2> QED
    BY <1>1, <2>1, <2>6, ReadInv
<1> QED
  BY <1>2, <1>3

LEMMA RediscoverInv == ASSUME CIInv, Rediscover PROVE CIInv'
<1>0. PICK A : tick \in TickSet(A)
  BY TickFacts DEF TickShape
<1>1. UNCHANGED <<head, runs, saved, posts>>
  BY DEF Rediscover, Reads
<1>2. PICK d, t : t = [tick EXCEPT !.deferred = d] /\ tick' = Concluded(t, FALSE)
  BY DEF Rediscover
<1>3. t = [tick EXCEPT !.deferred = d]
  BY <1>2
<1>4. t \in TickSet(A \cup {d})
  BY <1>0, <1>3 DEF TickSet
<1>5. t.rows = tick.rows /\ t.lin = tick.lin /\ t.head = tick.head /\ t.disp = tick.disp
  BY <1>0, <1>3 DEF TickSet
<1>6. Judged(t)
  BY <1>4, <1>5, KeptOK, TickFacts DEF TickShape
<1>7. PICK v : tick' = v /\ TickOK(v)
  BY <1>2, <1>6, ConcludedOK
<1> QED
  BY <1>1, <1>7, ReadInv

LEMMA RerunFailedInv == ASSUME CIInv, RerunFailed PROVE CIInv'
<1>0. PICK A : tick \in TickSet(A)
  BY TickFacts DEF TickShape
<1>1. UNCHANGED <<head, saved, posts>> /\ CIType /\ tick.pc = "rerun_failed" /\ tick.disp = "failed"
  BY TickFacts DEF RerunFailed, Busy, TickOK
<1>2. PICK r : /\ \/ tick' = CIIdle
                  \/ tick' = [tick EXCEPT !.rerun = @ \ {r}, !.rows = {}, !.lin = NoLineage,
                                          !.pc = IF tick.rerun = {r} THEN "final" ELSE @]
               /\ \/ UNCHANGED runs
                  \/ /\ RerunFailedAccepted(r)
                     /\ runs' = [runs EXCEPT ![r].attempt = @ + 1,
                                 ![r].jobs = [c \in Contexts |-> IF @[c] \in Red THEN "running" ELSE @[c]]]
  BY DEF RerunFailed
<1>3. RunsKept
  <2>1. CASE UNCHANGED runs
    BY <1>1, <2>1, RunsSame
  <2>2. CASE /\ RerunFailedAccepted(r)
             /\ runs' = [runs EXCEPT ![r].attempt = @ + 1,
                         ![r].jobs = [c \in Contexts |-> IF @[c] \in Red THEN "running" ELSE @[c]]]
    <3>1. r \in DOMAIN runs
      BY <2>2 DEF RerunFailedAccepted, CanRestart
    <3>2. runs[r] \in RunType /\ runs[r].jobs \in [Contexts -> JobStates] /\ runs \in [1 .. Len(runs) -> RunType]
      BY <1>1, <3>1, RunFacts
    <3>3. PICK jobs : jobs = [c \in Contexts |-> IF runs[r].jobs[c] \in Red THEN "running" ELSE runs[r].jobs[c]]
      OBVIOUS
    <3>4. jobs \in [Contexts -> JobStates]
      BY <3>2, <3>3, JobFacts
    <3>5. PICK a \in Nat : a = runs[r].attempt + 1
      BY <3>2 DEF RunType
    <3>6. PICK x : x = [runs[r] EXCEPT !.attempt = a, !.jobs = jobs]
      OBVIOUS
    <3>7. x \in RunType /\ x.head = runs[r].head
      BY <3>2, <3>4, <3>6 DEF RunType
    <3>8. runs' = [runs EXCEPT ![r] = x]
      BY <2>2, <3>2, <3>3, <3>5, <3>6
    <3> QED
      BY <1>1, <3>1, <3>7, <3>8, RunUpdated
  <2> QED
    BY <1>2, <2>1, <2>2
<1>4. PICK v : tick' = v /\ TickOK(v)
  <2>1. CASE tick' = CIIdle
    BY <2>1, IdleOK
  <2>2. CASE tick' # CIIdle
    <3> DEFINE rest == tick.rerun \ {r}
               pc == IF tick.rerun = {r} THEN "final" ELSE tick.pc
    <3>1. PICK v : v = [tick EXCEPT !.rerun = rest, !.rows = {}, !.lin = NoLineage, !.pc = pc]
      OBVIOUS
    <3>2. tick' = v
      BY <1>2, <2>2, <3>1
    <3>3. pc \in {"final", "rerun_failed"}
      BY <1>1
    <3> HIDE DEF rest, pc
    <3>4. v \in TickSet(A \cup {rest, {}, NoLineage, pc})
      BY <1>0, <3>1 DEF TickSet
    <3>5. v.pc = pc /\ v.rows = {} /\ v.lin = NoLineage /\ v.disp = tick.disp
      BY <1>0, <3>1 DEF TickSet
    <3>6. TickOK(v)
      BY <1>1, <3>3, <3>4, <3>5, ForgottenOK DEF TickShape
    <3> QED
      BY <3>2, <3>6
  <2> QED
    BY <2>1, <2>2
<1>5. head' \in Heads
  BY <1>1 DEF CIType
<1> QED
  BY <1>1, <1>3, <1>4, <1>5, StepInv

LEMMA RetriggerInv == ASSUME CIInv, AdmissionGateRetrigger PROVE CIInv'
<1>1. UNCHANGED <<head, runs, saved, posts>>
  BY DEF AdmissionGateRetrigger, Reads
<1>2. \/ tick' = CIIdle \/ tick' = PassOver(tick)
      \/ \E g : tick' = [CIIdle EXCEPT !.pc = "admit", !.head = head, !.plan = g]
      \/ \E g : tick' = [CIIdle EXCEPT !.pc = "rerun", !.head = head, !.member = TRUE, !.plan = g, !.admitted = tick.admitted]
  BY DEF AdmissionGateRetrigger
<1>3. PICK v : tick' = v /\ TickOK(v)
  BY ZenonT(40), <1>2, IdleOK, PassOverOK, AdmitPlanOK, RerunOK
<1> QED
  BY <1>1, <1>3, ReadInv

LEMMA AdmitInv == ASSUME CIInv, Admit PROVE CIInv'
<1>0. PICK A : tick \in TickSet(A)
  BY TickFacts DEF TickShape
<1>1. UNCHANGED <<head, runs, saved, posts>>
  BY DEF Admit
<1>2. CASE tick' = CIIdle
  BY <1>1, <1>2, IdleOK, ReadInv
<1>3. CASE tick' # CIIdle
  <2> DEFINE pc == IF tick.plan # 0 THEN "rerun_new" ELSE "again"
  <2>1. PICK v : v = [tick EXCEPT !.member = TRUE, !.admitted = TRUE, !.pc = pc]
    OBVIOUS
  <2>2. tick' = v /\ pc \in {"rerun_new", "again"}
    BY <1>3, <2>1 DEF Admit
  <2> HIDE DEF pc
  <2>3. v \in TickSet(A \cup {TRUE, pc})
    BY <1>0, <2>1 DEF TickSet
  <2>4. v.pc = pc /\ v.rows = tick.rows /\ v.lin = tick.lin /\ v.head = tick.head /\ v.disp = tick.disp
    BY <1>0, <2>1 DEF TickSet
  <2>5. TickOK(v)
    BY <2>2, <2>3, <2>4, MovedOK, TickFacts DEF TickShape
  <2> QED
    BY <1>1, <2>2, <2>5, ReadInv
<1> QED
  BY <1>2, <1>3

LEMMA PerformInv == ASSUME CIInv, PerformAdmissionGateRetrigger PROVE CIInv'
<1>0. PICK A : tick \in TickSet(A)
  BY TickFacts DEF TickShape
<1>1. UNCHANGED <<head, saved, posts>> /\ CIType
  BY TickFacts DEF PerformAdmissionGateRetrigger
<1>2. \/ UNCHANGED runs
      \/ CanRestart(tick.plan) /\ runs' = Restarted(tick.plan)
  BY DEF PerformAdmissionGateRetrigger, RerunWorkflowAccepted
<1>3. tick' = CIIdle \/ tick' = PassOver(tick) \/ tick' = [tick EXCEPT !.plan = 0, !.pc = "again"]
  BY DEF PerformAdmissionGateRetrigger
<1>4. RunsKept /\ head' \in Heads
  BY <1>1, <1>2, RunsSame, RestartedKept DEF CIType
<1>5. TickOK([tick EXCEPT !.plan = 0, !.pc = "again"])
  <2>1. PICK v : v = [tick EXCEPT !.plan = 0, !.pc = "again"]
    OBVIOUS
  <2>3. v \in TickSet(A \cup {0, "again"})
    BY <1>0, <2>1 DEF TickSet
  <2>4. v.pc = "again" /\ v.rows = tick.rows /\ v.lin = tick.lin /\ v.head = tick.head /\ v.disp = tick.disp
    BY <1>0, <2>1 DEF TickSet
  <2>5. TickOK(v)
    BY <2>3, <2>4, MovedOK, TickFacts DEF TickShape
  <2> QED
    BY <2>1, <2>5
<1>6. PICK v : tick' = v /\ TickOK(v)
  BY <1>3, <1>5, IdleOK, PassOverOK
<1> QED
  BY <1>1, <1>4, <1>6, StepInv

LEMMA EndInv == ASSUME CIInv, RecordSkip \/ RevalidateSkip \/ Finish \/ Crash PROVE CIInv'
<1>1. UNCHANGED <<head, runs, saved, posts>>
  BY DEF RecordSkip, RevalidateSkip, Finish, Crash, Stays, Reads
<1>2. tick' = CIIdle \/ tick' = PassOver(tick) \/ tick' = [CIIdle EXCEPT !.pc = "skipped"]
  BY DEF RecordSkip, RevalidateSkip, Finish, Crash
<1>3. PICK v : tick' = v /\ TickOK(v)
  BY <1>2, IdleOK, PassOverOK, SkippedOK
<1> QED
  BY <1>1, <1>3, ReadInv

\* The checkpoint of head h becomes i, and the tick v.
LEMMA CheckpointInv ==
  ASSUME CIInv, NEW h \in Heads, NEW B, NEW i \in IntentSet(B), saved' = [saved EXCEPT ![h] = i], NEW n \in {0, 1},
         posts' = [posts EXCEPT ![h] = n], n # 0 => Standing(i), RunsKept, UNCHANGED head, NEW v, tick' = v, Judged(v),
         v.pc \notin {"green", "red", "diagnose", "rerun_failed"}, v.pc = "post" => v.head = h /\ i.state = "requested" /\ n = 0
  PROVE  CIInv'
<1>0. PICK A : saved \in [Heads -> IntentSet(A)]
  BY DEF CIInv, CIType, SavedShape
<1>1. posts \in [Heads -> Nat] /\ CIType /\ PostsOK
  BY DEF CIInv, CIType
<1>2. saved'[h] = i /\ posts'[h] = n /\ \A g \in Heads : g # h => saved'[g] = saved[g] /\ posts'[g] = posts[g]
  BY <1>0, <1>1
<1>3. CIType'
  <2>1. i \in IntentSet(A \cup B) /\ \A g \in Heads : saved[g] \in IntentSet(A \cup B)
    BY <1>0 DEF IntentSet
  <2>2. saved' \in [Heads -> IntentSet(A \cup B)]
    BY <1>0, <2>1
  <2>3. posts' \in [Heads -> Nat]
    BY <1>1
  <2> QED
    BY <1>1, <2>2, <2>3 DEF CIType, SavedShape, RunsKept
<1>4. PostsOK'
  <2>1. ASSUME NEW g \in Heads PROVE posts'[g] <= 1 /\ (posts'[g] # 0 => Standing(saved'[g]))
    BY <1>1, <1>2 DEF PostsOK
  <2> QED
    BY <2>1 DEF PostsOK, Standing
<1>5. Judged(v)'
  <2>1. RowsOK(v.rows, v.head)'
    BY DEF Judged, RowsOK, RunsKept
  <2> QED
    BY <2>1 DEF Judged, TickShape, LineageOK, GreenShown, RedShown
<1>6. TickOK(v)'
  BY <1>2, <1>5 DEF TickOK
<1>7. TickOK(tick)'
  BY <1>6, TickIs
<1> QED
  BY <1>3, <1>4, <1>7 DEF CIInv

LEMMA IdleFacts == Judged(CIIdle) /\ CIIdle.pc = "idle"
BY IdleOK DEF TickOK, CIIdle

LEMMA DispatchInv == ASSUME CIInv, DispatchCI PROVE CIInv'
<1>0. PICK A : tick \in TickSet(A)
  BY TickFacts DEF TickShape
<1>1. UNCHANGED <<head, runs, posts>> /\ CIType /\ head \in Heads /\ posts \in [Heads -> Nat] /\ RunsKept
  BY TickFacts, RunsSame DEF DispatchCI, CIType
<1>2. PICK B : saved \in [Heads -> IntentSet(B)]
  BY <1>1 DEF CIType, SavedShape
<1>3. PICK e, request : /\ request \in BOOLEAN
        /\ \/ tick' = CIIdle /\ UNCHANGED saved
           \/ /\ Standing(saved[head])
              /\ tick' = CIIdle /\ saved' = [saved EXCEPT ![head] = Reconcile(@, e)]
           \/ /\ ~Standing(saved[head]) /\ Unmoved
              /\ saved' = [saved EXCEPT ![head] = [NoIntent EXCEPT !.selected = e, !.state = IF request THEN "requested" ELSE "reused"]]
              /\ tick' = IF request THEN [tick EXCEPT !.pc = "post", !.selected = e] ELSE CIIdle
  <2> DEFINE r == NewestOf(Lineage(head, TRUE)).run
             request == Ended(runs[r]) /\ RestartRequired(Rows(head), r)
             e == Execution(r)
  <2>1. request \in BOOLEAN
    BY DEF Ended, RestartRequired
  <2>2. \/ tick' = CIIdle /\ UNCHANGED saved
        \/ /\ Standing(saved[head])
           /\ tick' = CIIdle /\ saved' = [saved EXCEPT ![head] = Reconcile(@, e)]
        \/ /\ ~Standing(saved[head]) /\ Unmoved
           /\ saved' = [saved EXCEPT ![head] = [NoIntent EXCEPT !.selected = e, !.state = IF request THEN "requested" ELSE "reused"]]
           /\ tick' = IF request THEN [tick EXCEPT !.pc = "post", !.selected = e] ELSE CIIdle
    BY DEF DispatchCI, Intended
  <2> HIDE DEF request, e
  <2> QED
    BY <2>1, <2>2
<1>4. posts = [posts EXCEPT ![head] = posts[head]] /\ posts[head] \in {0, 1} /\ (posts[head] # 0 => Standing(saved[head]))
  BY <1>1 DEF CIInv, PostsOK
<1>5. CASE tick' = CIIdle /\ UNCHANGED saved
  BY <1>1, <1>5, IdleOK, ReadInv
<1>6. CASE /\ Standing(saved[head])
           /\ tick' = CIIdle /\ saved' = [saved EXCEPT ![head] = Reconcile(@, e)]
  <2>1. PICK old : old = saved[head]
    OBVIOUS
  <2>2. PICK i : i = Reconcile(old, e)
    OBVIOUS
  <2>3. old \in IntentSet(B)
    BY <1>1, <1>2, <2>1
  <2>4. i \in IntentSet(B \cup {e}) /\ i.state = old.state
    BY <2>2, <2>3 DEF Reconcile, IntentSet
  <2>5. saved' = [saved EXCEPT ![head] = i] /\ Standing(i)
    BY <1>6, <2>1, <2>2, <2>4 DEF Standing
  <2> QED
    BY <1>1, <1>4, <1>6, <2>4, <2>5, IdleFacts, CheckpointInv
<1>7. CASE /\ ~Standing(saved[head]) /\ Unmoved
           /\ saved' = [saved EXCEPT ![head] = [NoIntent EXCEPT !.selected = e, !.state = IF request THEN "requested" ELSE "reused"]]
           /\ tick' = IF request THEN [tick EXCEPT !.pc = "post", !.selected = e] ELSE CIIdle
  <2>1. PICK i : i = [NoIntent EXCEPT !.selected = e, !.state = IF request THEN "requested" ELSE "reused"]
    OBVIOUS
  <2>2. i \in IntentSet({"requested", "reused", e, NoExecution}) /\ i.state = IF request THEN "requested" ELSE "reused"
    BY <1>3, <2>1 DEF NoIntent, IntentSet
  <2>3. saved' = [saved EXCEPT ![head] = i] /\ posts' = [posts EXCEPT ![head] = 0]
    BY <1>1, <1>4, <1>7, <2>1
  <2>4. CASE ~request
    BY <1>1, <1>7, <2>2, <2>3, <2>4, IdleFacts, CheckpointInv
  <2>5. CASE request
    <3>1. PICK v : v = [tick EXCEPT !.pc = "post", !.selected = e]
      OBVIOUS
    <3>2. v \in TickSet(A \cup {"post", e})
      BY <1>0, <3>1 DEF TickSet
    <3>3. v.pc = "post" /\ v.rows = tick.rows /\ v.lin = tick.lin /\ v.head = tick.head /\ v.disp = tick.disp
      BY <1>0, <3>1 DEF TickSet
    <3>4. Judged(v)
      BY <3>2, <3>3, KeptOK, TickFacts DEF TickShape
    <3>5. tick' = v /\ v.head = head /\ i.state = "requested"
      BY <1>7, <2>2, <2>5, <3>1, <3>3 DEF Unmoved
    <3> QED
      BY ZenonT(40), <1>1, <2>2, <2>3, <3>3, <3>4, <3>5, CheckpointInv
  <2> QED
    BY <2>4, <2>5
<1> QED
  BY <1>3, <1>5, <1>6, <1>7

LEMMA RestartInv == ASSUME CIInv, RestartCIExecution PROVE CIInv'
<1> DEFINE r == tick.selected.run
<1>1. UNCHANGED head /\ CIType /\ head \in Heads /\ posts \in [Heads -> Nat] /\ tick' = CIIdle /\ tick.pc = "post"
  BY TickFacts DEF RestartCIExecution, CIType, Busy
<1>2. PICK B : saved \in [Heads -> IntentSet(B)]
  BY <1>1 DEF CIType, SavedShape
<1>3. tick.head \in Heads /\ saved[tick.head].state = "requested" /\ posts[tick.head] = 0
  BY <1>1, TickFacts DEF TickOK
<1>4. \/ saved' = [saved EXCEPT ![tick.head].state = "refused"] /\ UNCHANGED <<runs, posts>>
      \/ /\ Unmoved /\ CanRestart(r) /\ runs' = Restarted(r) /\ posts' = [posts EXCEPT ![head] = @ + 1]
         /\ saved' = saved \/ saved' = [saved EXCEPT ![head].state = "received"]
      \/ UNCHANGED <<runs, posts, saved>>
  BY DEF RestartCIExecution
<1>5. PICK h \in Heads : h = tick.head
  BY <1>3
<1>6. PICK old \in IntentSet(B) : old = saved[h]
  BY <1>2
<1>7. CASE saved' = [saved EXCEPT ![tick.head].state = "refused"] /\ UNCHANGED <<runs, posts>>
  <2>1. PICK i : i = [old EXCEPT !.state = "refused"]
    OBVIOUS
  <2>2. i \in IntentSet(B \cup {"refused"})
    BY <2>1 DEF IntentSet
  <2>3. saved' = [saved EXCEPT ![h] = i]
    BY <1>2, <1>5, <1>6, <1>7, <2>1
  <2>4. posts' = [posts EXCEPT ![h] = 0] /\ RunsKept
    BY <1>1, <1>3, <1>5, <1>7, RunsSame
  <2> QED
    BY <1>1, <2>2, <2>3, <2>4, IdleFacts, CheckpointInv
<1>8. CASE /\ Unmoved /\ CanRestart(r) /\ runs' = Restarted(r) /\ posts' = [posts EXCEPT ![head] = @ + 1]
           /\ saved' = saved \/ saved' = [saved EXCEPT ![head].state = "received"]
  <2>1. h = head /\ RunsKept
    BY <1>5, <1>8, RestartedKept DEF Unmoved
  <2>2. posts' = [posts EXCEPT ![h] = 1]
    BY <1>1, <1>3, <1>5, <1>8, <2>1
  <2>3. PICK i : i = saved'[h]
    OBVIOUS
  <2>4. i \in IntentSet(B \cup {"received"}) /\ i.state \in {"requested", "received"} /\ saved' = [saved EXCEPT ![h] = i]
    <3>1. CASE saved' = saved
      <4>1. i = old
        BY <1>6, <2>3, <3>1
      <4>2. i \in IntentSet(B \cup {"received"})
        BY <4>1 DEF IntentSet
      <4> QED
        BY <1>2, <1>3, <1>5, <1>6, <2>3, <3>1, <4>1, <4>2
    <3>2. CASE saved' = [saved EXCEPT ![head].state = "received"]
      <4>1. i = [old EXCEPT !.state = "received"]
        BY <1>2, <1>6, <2>1, <2>3, <3>2
      <4>2. i \in IntentSet(B \cup {"received"}) /\ i.state = "received"
        BY <4>1 DEF IntentSet
      <4> QED
        BY <1>2, <1>6, <2>1, <3>2, <4>1, <4>2
    <3> QED
      BY <1>8, <3>1, <3>2
  <2>5. Standing(i)
    BY <2>4 DEF Standing
  <2> QED
    BY <1>1, <2>1, <2>2, <2>4, <2>5, IdleFacts, CheckpointInv
<1>9. CASE UNCHANGED <<runs, posts, saved>>
  BY <1>1, <1>9, IdleOK, ReadInv
<1> QED
  BY <1>4, <1>7, <1>8, <1>9

-----------------------------------------------------------------------------
(* The theorems.                                                           *)

LEMMA CIInvInit == CIInit => CIInv
<1> SUFFICES ASSUME CIInit PROVE CIInv
  OBVIOUS
<1>1. head = 1 /\ runs = <<>> /\ saved = [h \in Heads |-> NoIntent] /\ posts = [h \in Heads |-> 0] /\ tick = CIIdle
  BY DEF CIInit
<1>2. SavedShape
  <2>1. saved \in [Heads -> IntentSet({"none", NoExecution})]
    BY <1>1 DEF NoIntent, IntentSet
  <2> QED
    BY <2>1 DEF SavedShape
<1>3. runs \in Seq(RunType) /\ Len(runs) <= MaxRuns
  BY <1>1, EmptySeq, HeadsFacts
<1>4. CIType /\ PostsOK
  BY <1>1, <1>2, <1>3, HeadsFacts DEF CIType, PostsOK
<1> QED
  BY <1>1, <1>4, IdleOK DEF CIInv

LEMMA CIInvNext == CIInv /\ [CINext]_ciVars => CIInv'
<1> SUFFICES ASSUME CIInv, [CINext]_ciVars PROVE CIInv'
  OBVIOUS
<1>1. CASE UNCHANGED ciVars
  <2>1. UNCHANGED <<head, runs, saved, posts, tick>>
    BY <1>1 DEF ciVars
  <2>2. RunsKept /\ head' \in Heads
    BY <2>1, RunsSame, TickFacts DEF CIType
  <2> QED
    BY <2>1, <2>2, ProviderInv
<1>2. CASE TickStep
  BY <1>2, ObserveInv, ReadLineageInv, DiagnoseInv, JudgeInv, RerequestSuiteInv, RediscoverInv, RerunFailedInv, RetriggerInv,
     AdmitInv, PerformInv, EndInv, DispatchInv, RestartInv DEF TickStep
<1>3. CASE StartRun \/ PushHead \/ GraceElapses \/ Evict \/ Crash
  BY <1>3, StartRunInv, PublishInv, EndInv
<1>4. ASSUME NEW r \in RunIds, EvaluateGate(r) \/ ReportDeferral(r) \/ CancelRun(r) PROVE CIInv'
  BY <1>4, EvaluateGateInv, ReportDeferralInv, CancelRunInv
<1>5. ASSUME NEW r \in RunIds, NEW c \in Contexts, Report(r, c) PROVE CIInv'
  BY <1>5, ReportInv
<1> QED
  BY <1>1, <1>2, <1>3, <1>4, <1>5 DEF CINext

(* The invariant behind the two results below: what a tick holds of the    *)
(* rows is of runs of the head it read, its verdict follows from what it   *)
(* holds, and a head for which a CI start was sent has a checkpoint that   *)
(* says so (observe_ci, required_ci_disposition, ci_dispatch::dispatch).   *)
THEOREM CIInvariant == CISpec => []CIInv
<1>1. CISpec => CIInit /\ [][CINext]_ciVars
  BY DEF CISpec
<1> QED
  BY <1>1, CIInvInit, CIInvNext, PTL

(* The CI start of one generation is sent at most once, for any number of  *)
(* ticks, kills, lost answers, evictions and admissions: the intent is     *)
(* saved before the write, and only an intent that was refused before the  *)
(* write is made again (ci_dispatch::dispatch and reconcile).              *)
THEOREM SentOnce == CISpec => []DispatchOnce
<1>1. CIInv => DispatchOnce
  BY DEF CIInv, PostsOK, DispatchOnce
<1> QED
  BY <1>1, CIInvariant, PTL

(* A green verdict rests on a green report of every required context by    *)
(* the newest run that reported it, and a red one with a complete lineage  *)
(* on a failed job of the newest run or a cancelled run, however the runs  *)
(* of the head come and go between the reads (observe_ci,                  *)
(* superseded_by_exact_lineage, required_ci_disposition).                  *)
THEOREM Verdicts == CISpec => []VerdictSound
<1>1. CIInv => VerdictSound
  <2> SUFFICES ASSUME CIInv PROVE VerdictSound
    OBVIOUS
  <2>0. TickOK(tick) /\ Judged(tick) /\ RowsOK(tick.rows, tick.head) /\ LineageOK(tick.lin)
    BY TickFacts DEF Judged
  <2>1. \A x \in tick.rows : x.run \in Nat
    BY <2>0, TickFacts, OnHeadFacts DEF RowsOK
  <2>2. ASSUME Busy("green"), NEW c \in Contexts PROVE LastReport(c) \in Green
    <3> DEFINE rows == {x \in tick.rows : x.ctx = c}
    <3>1. GreenShown(tick.rows)
      BY <2>0, <2>2 DEF Busy, TickOK, Judged
    <3>2. PICK x \in rows : x.state \in Green /\ \A y \in rows : y.run <= x.run
      BY <3>1 DEF GreenShown
    <3>3. PICK z : z = CHOOSE y \in rows : \A o \in rows : o.run <= y.run
      OBVIOUS
    <3>4. z \in rows /\ \A o \in rows : o.run <= z.run
      BY <3>2, <3>3
    <3>5. z.run = x.run
      <4>1. z.run <= x.run /\ x.run <= z.run /\ z.run \in Nat /\ x.run \in Nat
        BY <2>1, <3>2, <3>4
      <4> QED
        BY <4>1
    <3>6. z.state = x.state
      BY <2>0, <3>4, <3>5 DEF RowsOK
    <3>7. LastReport(c) = z.state
      BY <3>2, <3>3 DEF LastReport
    <3> QED
      BY <3>2, <3>6, <3>7
  <2>3. ASSUME Busy("red"), tick.lin.complete
        PROVE  \/ \E x \in tick.lin.runs : x.conclusion = "cancelled"
               \/ \E x \in tick.rows : x.state \in Red /\ x.run = NewestOf(tick.lin).run
    <3>1. RedShown(tick.rows, tick.lin)
      BY <2>0, <2>3 DEF Busy, TickOK, Judged
    <3>2. CASE \E x \in tick.lin.runs : x.conclusion = "cancelled"
      BY <3>2
    <3>3. CASE \E x \in tick.rows : x.state \in Red /\ IsNewest(x.run, tick.lin.runs)
      <4>1. PICK x \in tick.rows : x.state \in Red /\ IsNewest(x.run, tick.lin.runs)
        BY <3>3
      <4>2. PICK y \in tick.lin.runs : y.run = x.run
        BY <4>1 DEF IsNewest
      <4>3. PICK z : z = NewestOf(tick.lin)
        OBVIOUS
      <4>4. z \in tick.lin.runs /\ \A o \in tick.lin.runs : o.run <= z.run
        BY <4>1, <4>2, <4>3 DEF IsNewest, NewestOf
      <4>5. z.run <= x.run /\ x.run <= z.run /\ z.run \in Nat /\ x.run \in Nat
        BY <2>0, <2>1, <4>1, <4>2, <4>4 DEF IsNewest, LineageOK, RunIds
      <4>6. x.run = z.run
        BY <4>5
      <4> QED
        BY <4>1, <4>3, <4>6
    <3> QED
      BY <3>1, <3>2, <3>3 DEF RedShown
  <2> QED
    BY <2>2, <2>3 DEF VerdictSound
<1> QED
  BY <1>1, CIInvariant, PTL

-----------------------------------------------------------------------------
(* Repair: the inductive invariant.  Its parts speak of what a command     *)
(* holds and of the state as values, so that they say the same of the next *)
(* state.                                                                  *)

Materializing == {"seed", "configure", "fetch", "checkout", "merge", "resolving"}
Scoping == {"grant", "apply", "granted", "revoke", "revoked", "authorize"}
Committing == {"commit", "mark", "check", "intend", "push", "confirm"}
Made == {"check", "intend", "push", "confirm"}
Trailing == {"sync", "completed", "cleanup"}
Asking == {"lock_grant", "lock_revoke", "lock_authorize", "continue", "resume"}
Held == {"decide"} \cup Materializing \cup Scoping \cup Committing
Places == {"idle"} \cup Held \cup Asking \cup Trailing

Sessions == [head : Commits, target : Nat, meta : Nat,
             state : {"preparing", "resolving", "committed", "published"},
             grant : {"none", "recorded", "applied"}, granted : Nat, auth : {"none", "agent"}, authorized : Nat,
             made : Commits \cup {Nothing}, attempted : BOOLEAN]
Workspaces == [ready : BOOLEAN, merge : {"none", "merging"}, commit : Commits \cup {Nothing},
               stage : [Paths -> {"base", "conflict", "edited", "granted"}], dirty : BOOLEAN]
Remotes == [head : Commits, target : Nat, meta : Nat]
Sends == [commit : Commits, from : Commits, over : Commits, landed : BOOLEAN, again : BOOLEAN]
Holding == [pc : Places, m : Sessions \cup {Nothing}, seen : Remotes \cup {Nothing}]

RemoteOK(r) == r \in Remotes /\ r.head.with <= r.target

RepairTypes ==
  /\ force \in BOOLEAN /\ blind \in BOOLEAN /\ now \in Nat
  /\ RemoteOK(remote)
  /\ lock \in Procs \cup {Nobody}
  /\ ws \in Workspaces \cup {Nothing}
  /\ proc \in [Procs -> Holding]
  /\ pushes \subseteq Sends

\* What was open to change covers what the commit changes.
Covered(c) == c # Nothing => c.changed \subseteq c.opened

\* A session as a command may hold it: its target is one that the provider had, beyond
\* what its head contains, and it has recorded an attempt only of a commit.
SessionOK(m, target, f) ==
  /\ m \in Sessions
  /\ m.head.with <= m.target /\ m.target <= target
  /\ m.state # "preparing" => m.head.with # m.target
  /\ m.attempted => m.state \in {"committed", "published"}
  /\ ~f => Covered(m.made)

WorkspaceOK(w, f) == w # Nothing /\ ~f => Covered(w.commit)
ManifestOK(m, target, f) == m # Nothing => SessionOK(m, target, f)

\* A command that changes the manifest has the lock; what it holds was verified on the
\* way; and a session that may not force is on disk as its command holds it.
CommandOK(p, r, l, w, m, target, f) ==
  /\ r.pc \in Held => l = p
  /\ r.pc = "decide" => RemoteOK(r.seen) /\ r.seen.target <= target
  /\ r.pc \notin {"idle", "decide"} => SessionOK(r.m, target, f)
  /\ r.pc \in Materializing => r.m.state = "preparing"
  /\ r.pc = "resolving" => r.m.head.with # r.m.target
  /\ r.pc \in {"continue"} \cup Committing => r.m.state # "preparing"
  /\ r.pc = "mark" => r.m.state = "resolving" /\ (w # Nothing => ExactParents(w.commit, r.m))
  /\ r.pc \in Made => r.m.state = "committed" /\ ExactParents(r.m.made, r.m)
  /\ r.pc = "push" /\ ~f => r.m.attempted
  /\ r.pc = "intend" => ~f
  /\ r.pc \in Trailing => f
  /\ r.pc \in Materializing \cup Committing /\ ~f => m = r.m

Commands == \A p \in Procs : CommandOK(p, proc[p], lock, ws, man, remote.target, force)

\* The head h is the commit c or came after it.
Behind(c, h) == h.n > c.n \/ (h.n = c.n /\ h.with >= c.with)

\* The publication of c is the recorded attempt of the session m.
Recorded(c, m) == m # Nothing /\ m.attempted /\ m.made = c

\* Every publication sent is the recorded attempt of the session on disk, or is behind.
SentOK ==
  ~force /\ ~blind =>
    /\ \A s \in pushes : Behind(s.commit, remote.head) \/ Recorded(s.commit, man)
    /\ man # Nothing /\ man.state = "published" => man.made \in Commits /\ Behind(man.made, remote.head)
    /\ \A p \in Procs : proc[p].pc \in {"intend", "push"} => \A s \in pushes : s.commit # proc[p].m.made
    /\ \A s \in pushes : ~s.again

PushesOK ==
  \A s \in pushes : /\ s.commit.n = s.from.n /\ (s.landed => s.over = s.from)
                    /\ ~force => s.commit.changed \subseteq s.commit.opened

RepairInv ==
  /\ RepairTypes
  /\ ManifestOK(man, remote.target, force)
  /\ WorkspaceOK(ws, force)
  /\ Commands
  /\ PushesOK /\ SentOK

-----------------------------------------------------------------------------
(* Repair: lemmas.                                                         *)

LEMMA NothingElse ==
  /\ Nothing \notin Sessions /\ Nothing \notin Workspaces /\ Nothing \notin Remotes /\ Nothing \notin Commits
PROOF
  <1>1. \A x : x \in Sessions => x # Nothing
    <2>1. \A x \in Sessions : "head" \in DOMAIN x  BY DEF Sessions
    <2>2. "head" \notin DOMAIN Nothing  BY DEF Nothing
    <2> QED  BY <2>1, <2>2
  <1>2. \A x : x \in Workspaces => x # Nothing
    <2>1. \A x \in Workspaces : "ready" \in DOMAIN x  BY DEF Workspaces
    <2>2. "ready" \notin DOMAIN Nothing  BY DEF Nothing
    <2> QED  BY <2>1, <2>2
  <1>3. \A x : x \in Remotes => x # Nothing
    <2>1. \A x \in Remotes : "head" \in DOMAIN x  BY DEF Remotes
    <2>2. "head" \notin DOMAIN Nothing  BY DEF Nothing
    <2> QED  BY <2>1, <2>2
  <1>4. \A x : x \in Commits => x # Nothing
    <2>1. \A x \in Commits : "n" \in DOMAIN x  BY DEF Commits
    <2>2. "n" \notin DOMAIN Nothing  BY DEF Nothing
    <2> QED  BY <2>1, <2>2
  <1> QED  BY <1>1, <1>2, <1>3, <1>4

LEMMA SessionKept ==
  ASSUME NEW m, NEW t \in Nat, NEW u \in Nat, t <= u, NEW f, SessionOK(m, t, f)
  PROVE  SessionOK(m, u, f)
PROOF BY DEF SessionOK, Sessions

\* A command is untouched by what others do without its lock.
LEMMA CommandKept ==
  ASSUME NEW p, NEW r, NEW l, NEW w, NEW m, NEW t \in Nat, NEW f, CommandOK(p, r, l, w, m, t, f),
         NEW l2, NEW w2, NEW m2, NEW u \in Nat, t <= u,
         l = p => l2 = p /\ w2 \in {w, Nothing} /\ (~f => m2 = m)
  PROVE  CommandOK(p, r, l2, w2, m2, u, f)
PROOF
  <1>1. r.pc \notin {"idle", "decide"} => SessionOK(r.m, u, f)
    BY SessionKept DEF CommandOK
  <1>2. r.pc = "decide" => RemoteOK(r.seen) /\ r.seen.target <= u
    BY DEF CommandOK, RemoteOK, Remotes
  <1>3. r.pc \in Held => l = p  BY DEF CommandOK
  <1>4. Materializing \cup Committing \subseteq Held /\ "mark" \in Held
    BY DEF Held, Committing
  <1>5. r.pc = "mark" => r.m.state = "resolving" /\ (w2 # Nothing => ExactParents(w2.commit, r.m))
    BY <1>3, <1>4 DEF CommandOK
  <1>6. r.pc \in Materializing \cup Committing /\ ~f => m2 = r.m
    BY <1>3, <1>4 DEF CommandOK
  <1> QED  BY <1>1, <1>2, <1>3, <1>5, <1>6 DEF CommandOK

\* What a step of p has to show.
LEMMA RepairKept ==
  ASSUME RepairInv, NEW p \in Procs, force' = force, RepairTypes', remote.target <= remote'.target,
         \A q \in Procs : q # p => proc'[q] = proc[q],
         \A q \in Procs : q # p /\ lock = q => lock' = q /\ ws' \in {ws, Nothing} /\ (~force => man' = man),
         CommandOK(p, proc'[p], lock', ws', man', remote'.target, force),
         ManifestOK(man', remote'.target, force), WorkspaceOK(ws', force), PushesOK', SentOK'
  PROVE  RepairInv'
PROOF
  <1>1. remote.target \in Nat /\ remote'.target \in Nat
    BY DEF RepairInv, RepairTypes, RemoteOK, Remotes
  <1>2. ASSUME NEW q \in Procs PROVE CommandOK(q, proc'[q], lock', ws', man', remote'.target, force)
    <2>1. CASE q = p  BY <2>1
    <2>2. CASE q # p
      <3>1. CommandOK(q, proc[q], lock, ws, man, remote.target, force)  BY DEF RepairInv, Commands
      <3>2. CommandOK(q, proc[q], lock', ws', man', remote'.target, force)
        BY <1>1, <2>2, <3>1, CommandKept
      <3> QED  BY <2>2, <3>2
    <2> QED  BY <2>1, <2>2
  <1> QED  BY <1>2 DEF RepairInv, Commands

\* The publications, when a step sends none and the provider is as it was.
LEMMA SentKept ==
  ASSUME RepairInv, UNCHANGED <<force, remote, pushes>>, blind => blind',
         ~force /\ ~blind' =>
           /\ man # Nothing /\ man.attempted => man' # Nothing /\ man'.attempted /\ man'.made = man.made
           /\ man' # Nothing /\ man'.state = "published" =>
                man # Nothing /\ man.state = "published" /\ man'.made = man.made
           /\ \A q \in Procs : proc'[q].pc \in {"intend", "push"} =>
                                 proc[q].pc \in {"intend", "push"} /\ proc'[q].m.made = proc[q].m.made
  PROVE  PushesOK' /\ SentOK'
PROOF
  <1>1. PushesOK'  BY DEF RepairInv, PushesOK
  <1>2. CASE force \/ blind'  BY <1>2, <1>1 DEF SentOK
  <1>3. CASE ~force /\ ~blind'
    <2>1. SentOK /\ ~blind  BY <1>3 DEF RepairInv
    <2>2. ASSUME NEW s \in pushes' PROVE Behind(s.commit, remote'.head) \/ Recorded(s.commit, man')
      BY <1>3, <2>1, <2>2 DEF SentOK, Recorded
    <2>3. man' # Nothing /\ man'.state = "published" => man'.made \in Commits /\ Behind(man'.made, remote'.head)
      BY <1>3, <2>1 DEF SentOK
    <2>4. \A q \in Procs : proc'[q].pc \in {"intend", "push"} => \A s \in pushes' : s.commit # proc'[q].m.made
      BY <1>3, <2>1 DEF SentOK
    <2>5. \A s \in pushes' : ~s.again  BY <1>3, <2>1 DEF SentOK
    <2> QED  BY <1>1, <2>2, <2>3, <2>4, <2>5 DEF SentOK
  <1> QED  BY <1>2, <1>3

LEMMA GoesTo ==
  ASSUME RepairTypes, NEW p \in Procs, NEW c \in Places, Go(p, c)
  PROVE  /\ proc' \in [Procs -> Holding]
         /\ proc'[p].pc = c /\ proc'[p].m = proc[p].m /\ proc'[p].seen = proc[p].seen
         /\ \A q \in Procs : q # p => proc'[q] = proc[q]
PROOF BY DEF RepairTypes, Holding, Go

LEMMA ReadsTo ==
  ASSUME RepairTypes, NEW p \in Procs, NEW c \in Places, NEW m \in Sessions, Read(p, c, m)
  PROVE  /\ proc' \in [Procs -> Holding]
         /\ proc'[p].pc = c /\ proc'[p].m = m /\ proc'[p].seen = proc[p].seen
         /\ \A q \in Procs : q # p => proc'[q] = proc[q]
PROOF BY DEF RepairTypes, Holding, Read

LEMMA EndsIdle ==
  ASSUME RepairTypes, NEW p \in Procs, Ends(p)
  PROVE  /\ proc' \in [Procs -> Holding]
         /\ proc'[p] = Idle /\ proc'[p].pc = "idle"
         /\ \A q \in Procs : q # p => proc'[q] = proc[q]
         /\ lock' \in Procs \cup {Nobody}
         /\ \A q \in Procs : q # p /\ lock = q => lock' = q
PROOF
  <1>1. Idle \in Holding /\ Idle.pc = "idle"  BY DEF Idle, Holding, Places
  <1> QED  BY <1>1 DEF RepairTypes, Ends

LEMMA AwayOK ==
  ASSUME NEW p, NEW r, r.pc = "idle", NEW l, NEW w, NEW m, NEW t, NEW f
  PROVE  CommandOK(p, r, l, w, m, t, f)
PROOF BY DEF CommandOK, Held, Materializing, Scoping, Committing, Made, Trailing

\* The type of the manifest, and of the session that a command holds.
LEMMA HeldSession ==
  ASSUME RepairInv, NEW p \in Procs
  PROVE  /\ proc[p].pc \notin {"idle", "decide"} => SessionOK(proc[p].m, remote.target, force) /\ proc[p].m \in Sessions
         /\ man # Nothing => SessionOK(man, remote.target, force) /\ man \in Sessions
         /\ remote.target \in Nat /\ remote \in Remotes
PROOF
  <1>1. CommandOK(p, proc[p], lock, ws, man, remote.target, force)  BY DEF RepairInv, Commands
  <1> QED  BY <1>1 DEF CommandOK, SessionOK, RepairInv, ManifestOK, RepairTypes, RemoteOK, Remotes

\* Another command's lock is not p's.
LEMMA LockIsOwn ==
  ASSUME RepairInv, NEW p \in Procs, proc[p].pc \in Held
  PROVE  lock = p
PROOF BY DEF RepairInv, Commands, CommandOK

LEMMA RefusesKeeps ==
  ASSUME RepairInv, NEW p \in Procs, Refuses(p), UNCHANGED <<force, now>>
  PROVE  RepairInv'
PROOF
  <1>0. RepairTypes  BY DEF RepairInv
  <1>u. UNCHANGED <<remote, man, ws, pushes, blind>> /\ Ends(p)  BY DEF Refuses
  <1>1. /\ proc' \in [Procs -> Holding]
        /\ proc'[p] = Idle /\ proc'[p].pc = "idle"
        /\ \A q \in Procs : q # p => proc'[q] = proc[q]
        /\ lock' \in Procs \cup {Nobody}
        /\ \A q \in Procs : q # p /\ lock = q => lock' = q
    BY <1>0, <1>u, EndsIdle
  <1>2. RepairTypes'  BY <1>0, <1>u, <1>1 DEF RepairTypes
  <1>3. CommandOK(p, proc'[p], lock', ws', man', remote'.target, force)  BY <1>1, AwayOK
  <1>4. \A q \in Procs : proc'[q].pc \in {"intend", "push"} => proc[q].pc \in {"intend", "push"} /\ proc'[q].m.made = proc[q].m.made
    BY <1>1
  <1>5. PushesOK' /\ SentOK'  BY <1>u, <1>4, SentKept
  <1>6. remote.target <= remote'.target  BY <1>u, HeldSession
  <1>7. ManifestOK(man', remote'.target, force) /\ WorkspaceOK(ws', force)  BY <1>u DEF RepairInv
  <1> QED  BY <1>u, <1>1, <1>2, <1>3, <1>5, <1>6, <1>7, RepairKept

\* A step that moves p and leaves manifest and workspace alone, or changes the workspace
\* under its lock.
LEMMA MovesKeep ==
  ASSUME RepairInv, NEW p \in Procs, proc' \in [Procs -> Holding],
         \A q \in Procs : q # p => proc'[q] = proc[q], proc'[p].pc \notin {"intend", "push"},
         UNCHANGED <<force, now, remote, man, pushes, blind>>,
         lock' \in Procs \cup {Nobody}, lock \in {Nobody, p} \/ lock' = lock,
         ws' \in Workspaces \cup {Nothing}, WorkspaceOK(ws', force),
         ws' = ws \/ lock = p,
         CommandOK(p, proc'[p], lock', ws', man, remote.target, force)
  PROVE  RepairInv'
PROOF
  <1>0. RepairTypes  BY DEF RepairInv
  <1>2. RepairTypes'  BY <1>0 DEF RepairTypes
  <1>3. \A q \in Procs : proc'[q].pc \in {"intend", "push"} => proc[q].pc \in {"intend", "push"} /\ proc'[q].m.made = proc[q].m.made
    OBVIOUS
  <1>4. PushesOK' /\ SentOK'  BY <1>3, SentKept
  <1>5. remote.target <= remote'.target  BY HeldSession
  <1>6. \A q \in Procs : q # p /\ lock = q => lock' = q /\ ws' \in {ws, Nothing} /\ (~force => man' = man)
    <2>1. Nobody \notin Procs  BY DEF Nobody, Procs, Owner, Other
    <2> QED  BY <2>1
  <1>7. ManifestOK(man', remote'.target, force)  BY DEF RepairInv
  <1> QED  BY <1>2, <1>4, <1>5, <1>6, <1>7, RepairKept

\* A step that moves p and changes the manifest, under its lock.
LEMMA WritesKeep ==
  ASSUME RepairInv, NEW p \in Procs, proc' \in [Procs -> Holding],
         \A q \in Procs : q # p => proc'[q] = proc[q],
         UNCHANGED <<force, now, remote, pushes>>, blind => blind', blind' \in BOOLEAN,
         lock' \in Procs \cup {Nobody}, lock = p \/ (lock' = lock /\ force),
         ws' = ws \/ ws' = Nothing \/ (lock = p /\ ws' \in Workspaces), WorkspaceOK(ws', force),
         ~force /\ ~blind' =>
           /\ man # Nothing /\ man.attempted => man' # Nothing /\ man'.attempted /\ man'.made = man.made
           /\ man' # Nothing /\ man'.state = "published" =>
                man # Nothing /\ man.state = "published" /\ man'.made = man.made
           /\ proc'[p].pc \in {"intend", "push"} =>
                proc[p].pc \in {"intend", "push"} /\ proc'[p].m.made = proc[p].m.made,
         ManifestOK(man', remote.target, force),
         CommandOK(p, proc'[p], lock', ws', man', remote.target, force)
  PROVE  RepairInv'
PROOF
  <1>0. RepairTypes  BY DEF RepairInv
  <1>2. RepairTypes'  BY <1>0 DEF RepairTypes
  <1>3. ~force /\ ~blind' => \A q \in Procs : proc'[q].pc \in {"intend", "push"} => proc[q].pc \in {"intend", "push"} /\ proc'[q].m.made = proc[q].m.made
    OBVIOUS
  <1>4. PushesOK' /\ SentOK'  BY <1>3, SentKept
  <1>5. remote.target <= remote'.target  BY HeldSession
  <1>6. \A q \in Procs : q # p /\ lock = q => lock' = q /\ ws' \in {ws, Nothing} /\ (~force => man' = man)
    OBVIOUS
  <1> QED  BY <1>2, <1>4, <1>5, <1>6, RepairKept

\* What a command holds on to when it only moves on; by the place it comes to.
LEMMA WentOnOK ==
  ASSUME NEW p, NEW r, NEW l, NEW w, NEW m, NEW t, NEW f, SessionOK(r.m, t, f),
         r.pc \in Held => l = p,
         \/ r.pc \in {"lock_grant", "lock_revoke", "lock_authorize", "resume"} \cup Scoping
         \/ r.pc = "continue" /\ r.m.state # "preparing"
         \/ r.pc \in Trailing /\ f
         \/ r.pc \in Materializing /\ r.m.state = "preparing" /\ (~f => m = r.m) /\ (r.pc = "resolving" => r.m.head.with # r.m.target)
         \/ r.pc = "commit" /\ r.m.state # "preparing" /\ (~f => m = r.m)
         \/ r.pc = "mark" /\ r.m.state = "resolving" /\ ExactParents(w.commit, r.m) /\ (~f => m = r.m)
         \/ r.pc \in Made /\ r.m.state = "committed" /\ ExactParents(r.m.made, r.m) /\ (~f => m = r.m)
            /\ (r.pc = "push" /\ ~f => r.m.attempted) /\ (r.pc = "intend" => ~f)
  PROVE  CommandOK(p, r, l, w, m, t, f)
PROOF BY DEF CommandOK, Materializing, Scoping, Committing, Made, Trailing

LEMMA PlacesAre ==
  /\ Held \subseteq Places /\ Asking \subseteq Places /\ Trailing \subseteq Places
  /\ Materializing \subseteq Held /\ Scoping \subseteq Held /\ Committing \subseteq Held /\ Made \subseteq Committing
PROOF BY DEF Places, Held, Made, Committing

-----------------------------------------------------------------------------
(* Repair: start.                                                          *)

LEMMA StartKeeps ==
  ASSUME RepairInv, NEW p \in Procs, Start(p), UNCHANGED <<force, now>>
  PROVE  RepairInv'
PROOF
  <1>0. RepairTypes  BY DEF RepairInv
  <1>1. /\ proc' \in [Procs -> Holding]
        /\ proc'[p].pc = "decide" /\ proc'[p].seen = remote
        /\ \A q \in Procs : q # p => proc'[q] = proc[q]
    BY <1>0 DEF Start, RepairTypes, RemoteOK, Holding, Places, Held
  <1>2. RemoteOK(remote) /\ remote.target \in Nat  BY <1>0, HeldSession DEF RepairTypes
  <1>3. CommandOK(p, proc'[p], lock', ws', man, remote.target, force)
    <2>1. lock' = p  BY DEF Start
    <2> QED  BY <1>1, <1>2, <2>1 DEF CommandOK, Materializing, Scoping, Committing, Made, Trailing
  <1>4. WorkspaceOK(ws', force) /\ ws' \in Workspaces \cup {Nothing}  BY <1>0 DEF Start, RepairInv, RepairTypes
  <1> QED  BY <1>1, <1>3, <1>4, MovesKeep DEF Start

LEMMA DecideKeeps ==
  ASSUME RepairInv, NEW p \in Procs, Decide(p)
  PROVE  RepairInv'
PROOF
  <1>0. RepairTypes  BY DEF RepairInv
  <1>p. At(p, "decide") /\ proc[p].pc = "decide" /\ UNCHANGED <<force, now>>  BY DEF Decide, At, Same
  <1>h. lock = p  BY <1>p, LockIsOwn DEF Held
  <1>c. CommandOK(p, proc[p], lock, ws, man, remote.target, force)  BY DEF RepairInv, Commands
  <1>s. RemoteOK(proc[p].seen) /\ proc[p].seen.target <= remote.target  BY <1>p, <1>c DEF CommandOK
  <1> DEFINE fresh == Session(proc[p].seen)
  <1>f. SessionOK(fresh, remote.target, force) /\ fresh.state = "preparing" /\ ~fresh.attempted
    BY <1>s DEF RemoteOK, Remotes, Session, SessionOK, Sessions, Covered
  <1>fs. fresh \in Sessions  BY <1>f DEF SessionOK
  <1>1. CASE man = Nothing /\ man' = fresh /\ ws' = Nothing /\ Read(p, "seed", fresh) /\ UNCHANGED <<remote, lock, pushes, blind>>
    <2>1. /\ proc' \in [Procs -> Holding]
          /\ proc'[p].pc = "seed" /\ proc'[p].m = fresh
          /\ \A q \in Procs : q # p => proc'[q] = proc[q]
      <3>1. "seed" \in Places  BY DEF Places, Held, Materializing
      <3> QED  BY <1>0, <1>1, <1>fs, <3>1, ReadsTo
    <2>2. CommandOK(p, proc'[p], lock', ws', man', remote.target, force)
      <3>1. "seed" \in Materializing /\ "seed" # "resolving"  BY DEF Materializing
      <3> HIDE DEF fresh
      <3> QED  BY <1>1, <1>f, <1>h, <2>1, <3>1, WentOnOK
    <2>3. WorkspaceOK(ws', force) /\ ManifestOK(man', remote.target, force)
      BY <1>1, <1>f DEF WorkspaceOK, ManifestOK
    <2>4. blind \in BOOLEAN /\ lock \in Procs \cup {Nobody}  BY <1>0 DEF RepairTypes
    <2> HIDE DEF fresh
    <2> QED  BY <1>1, <1>f, <1>p, <1>h, <2>1, <2>2, <2>3, <2>4, WritesKeep
  <1>2. CASE /\ man # Nothing /\ man.state = "preparing"
             /\ LET reuse == ws # Nothing /\ ws.ready IN
                  /\ ws' = IF reuse THEN ws ELSE Nothing
                  /\ Read(p, IF reuse THEN "fetch" ELSE "seed", man)
             /\ UNCHANGED <<remote, man, lock, pushes, blind>>
    <2>0. SessionOK(man, remote.target, force) /\ man \in Sessions  BY <1>2, HeldSession
    <2>1. PICK c \in {"fetch", "seed"} : Read(p, c, man)  BY <1>2
    <2>2. /\ proc' \in [Procs -> Holding]
          /\ proc'[p].pc = c /\ proc'[p].m = man
          /\ \A q \in Procs : q # p => proc'[q] = proc[q]
      <3>1. c \in Places  BY DEF Places, Held, Materializing
      <3> QED  BY <1>0, <2>0, <2>1, <3>1, ReadsTo
    <2>3. CommandOK(p, proc'[p], lock', ws', man', remote.target, force)
      <3>1. c \in Materializing /\ c # "resolving"  BY DEF Materializing
      <3> QED  BY <1>2, <1>h, <2>0, <2>2, <3>1, WentOnOK
    <2>4. ws' \in Workspaces \cup {Nothing} /\ WorkspaceOK(ws', force)
      BY <1>0, <1>2 DEF RepairInv, RepairTypes, WorkspaceOK
    <2>5. lock' \in Procs \cup {Nobody}  BY <1>0, <1>2 DEF RepairTypes
    <2> QED  BY <1>2, <1>p, <1>h, <2>2, <2>3, <2>4, <2>5, MovesKeep
  <1>3. CASE Refuses(p)  BY <1>3, <1>p, RefusesKeeps
  <1> QED  BY <1>1, <1>2, <1>3 DEF Decide

\* A step from one place of the materialization to the next.
LEMMA NextPhaseKeeps ==
  ASSUME RepairInv, NEW p \in Procs, proc[p].pc \in Materializing, NEW c \in Materializing, Go(p, c),
         c = "resolving" => proc[p].m.head.with # proc[p].m.target,
         UNCHANGED <<force, now, remote, man, lock, pushes, blind>>,
         ws' \in Workspaces \cup {Nothing}, WorkspaceOK(ws', force)
  PROVE  RepairInv'
PROOF
  <1>0. RepairTypes  BY DEF RepairInv
  <1>h. lock = p  BY PlacesAre, LockIsOwn
  <1>n. proc[p].pc \notin {"idle", "decide"} /\ c \notin {"intend", "push"}  BY DEF Materializing
  <1>c. CommandOK(p, proc[p], lock, ws, man, remote.target, force)  BY DEF RepairInv, Commands
  <1>1. SessionOK(proc[p].m, remote.target, force) /\ proc[p].m.state = "preparing" /\ (~force => man = proc[p].m)
    BY <1>c, <1>n DEF CommandOK
  <1>2. /\ proc' \in [Procs -> Holding]
        /\ proc'[p].pc = c /\ proc'[p].m = proc[p].m
        /\ \A q \in Procs : q # p => proc'[q] = proc[q]
    BY <1>0, PlacesAre, GoesTo
  <1>3. CommandOK(p, proc'[p], lock', ws', man, remote.target, force)
    BY <1>1, <1>2, <1>h, WentOnOK
  <1>4. lock' \in Procs \cup {Nobody}  BY <1>0 DEF RepairTypes
  <1> QED  BY <1>h, <1>n, <1>2, <1>3, <1>4, MovesKeep

LEMMA MaterializesKeeps ==
  ASSUME RepairInv, NEW p \in Procs, ~Gone(p), Materializes(p)
  PROVE  RepairInv'
PROOF
  <1>0. RepairTypes  BY DEF RepairInv
  <1>w. ws \in Workspaces \cup {Nothing} /\ WorkspaceOK(ws, force)  BY <1>0 DEF RepairInv, RepairTypes
  <1>g. proc[p].pc \in InWorkspace => ws \in Workspaces  BY <1>w DEF Gone
  <1>1. CASE Decide(p)  BY <1>1, DecideKeeps
  <1>2. CASE Seed(p)
    <2>1. Workspace \in Workspaces /\ WorkspaceOK(Workspace, force)
      BY DEF Workspace, Workspaces, WorkspaceOK, Covered
    <2>2. proc[p].pc \in Materializing /\ "configure" \in Materializing /\ "configure" # "resolving"
      BY <1>2 DEF Seed, At, Materializing
    <2> QED  BY <1>2, <2>1, <2>2, NextPhaseKeeps DEF Seed, Same
  <1>3. CASE Configure(p)
    <2>1. proc[p].pc \in Materializing /\ "fetch" \in Materializing /\ "fetch" # "resolving" /\ proc[p].pc \in InWorkspace
      BY <1>3 DEF Configure, At, Materializing, InWorkspace
    <2>2. ws' \in Workspaces /\ WorkspaceOK(ws', force)
      BY <1>3, <1>w, <1>g, <2>1, NothingElse DEF Configure, Workspaces, WorkspaceOK
    <2> QED  BY <1>3, <2>1, <2>2, NextPhaseKeeps DEF Configure, Same
  <1>4. CASE Fetch(p)
    <2>1. proc[p].pc \in Materializing /\ "checkout" \in Materializing /\ "checkout" # "resolving"
      BY <1>4 DEF Fetch, At, Materializing
    <2>2. CASE Go(p, "checkout") /\ UNCHANGED <<remote, man, ws, lock, pushes, blind>>
      BY <1>4, <1>w, <2>1, <2>2, NextPhaseKeeps DEF Fetch, Same
    <2>3. CASE Refuses(p)  BY <1>4, <2>3, RefusesKeeps DEF Fetch, Same
    <2> QED  BY <1>4, <2>2, <2>3 DEF Fetch
  <1>5. CASE Checkout(p)
    <2>1. proc[p].pc \in Materializing /\ "merge" \in Materializing /\ "merge" # "resolving"
      BY <1>5 DEF Checkout, At, Materializing
    <2>2. CASE Go(p, "merge") /\ UNCHANGED <<remote, man, ws, lock, pushes, blind>>
      BY <1>5, <1>w, <2>1, <2>2, NextPhaseKeeps DEF Checkout, Same
    <2>3. CASE Refuses(p)  BY <1>5, <2>3, RefusesKeeps DEF Checkout, Same
    <2> QED  BY <1>5, <2>2, <2>3 DEF Checkout
  <1>6. CASE Merge(p)
    <2>1. proc[p].pc \in Materializing /\ "resolving" \in Materializing /\ proc[p].pc \in InWorkspace
      BY <1>6 DEF Merge, At, Materializing, InWorkspace
    <2>2. CASE Refuses(p)  BY <1>6, <2>2, RefusesKeeps DEF Merge, Same
    <2>3. CASE ~Refuses(p)
      <3>1. PICK conflict \in BOOLEAN :
              ws' = [ws EXCEPT !.merge = "merging", !.stage["c"] = IF conflict THEN "conflict" ELSE "base"]
        BY <1>6, <2>3 DEF Merge
      <3>2. ws' \in Workspaces /\ WorkspaceOK(ws', force)
        BY <3>1, <1>w, <1>g, <2>1, NothingElse DEF Workspaces, WorkspaceOK, Paths
      <3> QED  BY <1>6, <2>1, <2>3, <3>2, NextPhaseKeeps DEF Merge, Same
    <2> QED  BY <2>2, <2>3
  <1>7. CASE Resolving(p)
    <2>p. proc[p].pc = "resolving" /\ "resolving" \in Materializing  BY <1>7 DEF Resolving, At, Materializing
    <2>h. lock = p  BY <2>p, PlacesAre, LockIsOwn
    <2>c. CommandOK(p, proc[p], lock, ws, man, remote.target, force)  BY DEF RepairInv, Commands
    <2>1. /\ SessionOK(proc[p].m, remote.target, force) /\ proc[p].m.state = "preparing"
          /\ proc[p].m.head.with # proc[p].m.target /\ (~force => man = proc[p].m)
      BY <2>p, <2>c DEF CommandOK
    <2>2. SessionOK(man', remote.target, force) /\ man'.state = "resolving"
      BY <1>7, <2>1 DEF Resolving, Writes, SessionOK, Sessions
    <2>3. /\ proc' \in [Procs -> Holding]
          /\ proc'[p].pc = "idle"
          /\ \A q \in Procs : q # p => proc'[q] = proc[q]
          /\ lock' \in Procs \cup {Nobody}
      BY <1>7, <1>0, EndsIdle DEF Resolving
    <2>4. CommandOK(p, proc'[p], lock', ws', man', remote.target, force)  BY <2>3, AwayOK
    <2>5. ~force => ~man.attempted  BY <2>1 DEF SessionOK, Sessions
    <2>6. ManifestOK(man', remote.target, force)  BY <2>2 DEF ManifestOK
    <2>7. UNCHANGED <<force, now, remote, pushes, blind, ws>> /\ blind \in BOOLEAN
      BY <1>7, <1>0 DEF Resolving, Writes, Same, RepairTypes
    <2> QED  BY <1>w, <2>h, <2>2, <2>3, <2>4, <2>5, <2>6, <2>7, WritesKeep
  <1> QED  BY <1>1, <1>2, <1>3, <1>4, <1>5, <1>6, <1>7 DEF Materializes

-----------------------------------------------------------------------------
(* Repair: the scope.                                                      *)

LEMMA LockKeeps ==
  ASSUME RepairInv, NEW p \in Procs, NEW before \in Asking \ {"resume"}, NEW after \in {"grant", "revoke", "authorize", "commit"},
         NEW unless, Lock(p, before, after, unless),
         after = "commit" => before = "continue" /\ (~unless => (~force => man = proc[p].m))
  PROVE  RepairInv'
PROOF
  <1>0. RepairTypes  BY DEF RepairInv
  <1>s. UNCHANGED <<force, now>> /\ proc[p].pc = before  BY DEF Lock, Same, At
  <1>1. CASE Refuses(p)  BY <1>1, <1>s, RefusesKeeps
  <1>2. CASE lock = Nobody /\ ~unless /\ lock' = p /\ Go(p, after) /\ UNCHANGED <<remote, man, ws, pushes, blind>>
    <2>1. after \in Places /\ after \notin {"intend", "push"} /\ before \notin {"idle", "decide"}
      BY DEF Places, Held, Scoping, Committing, Asking
    <2>2. /\ proc' \in [Procs -> Holding]
          /\ proc'[p].pc = after /\ proc'[p].m = proc[p].m
          /\ \A q \in Procs : q # p => proc'[q] = proc[q]
      BY <1>0, <1>2, <2>1, GoesTo
    <2>3. CommandOK(p, proc[p], lock, ws, man, remote.target, force)  BY DEF RepairInv, Commands
    <2>4. SessionOK(proc[p].m, remote.target, force) /\ (after = "commit" => proc[p].m.state # "preparing")
      BY <1>s, <2>1, <2>3 DEF CommandOK
    <2>5. CommandOK(p, proc'[p], lock', ws', man, remote.target, force)
      <3>1. CASE after = "commit"  BY <1>2, <2>2, <2>4, <3>1, WentOnOK
      <3>2. CASE after # "commit"
        <4>1. after \in Scoping  BY <3>2 DEF Scoping
        <4> QED  BY <1>2, <2>2, <2>4, <4>1, WentOnOK
      <3> QED  BY <3>1, <3>2
    <2>6. ws' \in Workspaces \cup {Nothing} /\ WorkspaceOK(ws', force)  BY <1>0, <1>2 DEF RepairInv, RepairTypes
    <2> QED  BY <1>s, <1>2, <2>1, <2>2, <2>5, <2>6, MovesKeep
  <1> QED  BY <1>1, <1>2 DEF Lock

\* A change of what the session opens is written over the copy that was read, and leaves
\* everything else in it.
SameAttempt(m, n) == n.state = m.state /\ n.attempted = m.attempted /\ n.made = m.made

LEMMA ChangeKeeps ==
  ASSUME RepairInv, NEW p \in Procs, proc[p].pc \in Scoping, NEW m,
         SessionOK(m, remote.target, force), SameAttempt(proc[p].m, m),
         Changes(p, m), UNCHANGED <<force, now, remote, ws, pushes>>,
         \/ Ends(p)
         \/ \E c \in Scoping : Read(p, c, m) /\ UNCHANGED lock
  PROVE  RepairInv'
PROOF
  <1>0. RepairTypes  BY DEF RepairInv
  <1>h. lock = p  BY PlacesAre, LockIsOwn
  <1>n. proc[p].pc \notin {"idle", "decide"}  BY DEF Scoping
  <1>m. m \in Sessions /\ proc[p].m \in Sessions  BY <1>n, HeldSession DEF SessionOK
  <1>1. man' = m /\ blind' = (blind \/ man # proc[p].m) /\ blind \in BOOLEAN  BY <1>0 DEF Changes, RepairTypes
  <1>2. /\ proc' \in [Procs -> Holding]
        /\ \A q \in Procs : q # p => proc'[q] = proc[q]
        /\ lock' \in Procs \cup {Nobody}
        /\ CommandOK(p, proc'[p], lock', ws', man', remote.target, force)
        /\ proc'[p].pc \notin {"intend", "push"}
    <2>1. CASE Ends(p)  BY <1>0, <2>1, EndsIdle, AwayOK
    <2>2. ASSUME NEW c \in Scoping, Read(p, c, m), UNCHANGED lock PROVE <1>2!1 /\ <1>2!2 /\ <1>2!3 /\ <1>2!4 /\ <1>2!5
      <3>1. /\ proc' \in [Procs -> Holding]
            /\ proc'[p].pc = c /\ proc'[p].m = m
            /\ \A q \in Procs : q # p => proc'[q] = proc[q]
        BY <1>0, <1>m, <2>2, PlacesAre, ReadsTo
      <3>2. lock' \in Procs \cup {Nobody}  BY <1>0, <2>2 DEF RepairTypes
      <3>3. CommandOK(p, proc'[p], lock', ws', man', remote.target, force)
        BY <1>h, <2>2, <3>1, WentOnOK
      <3>4. c \notin {"intend", "push"}  BY DEF Scoping
      <3> QED  BY <3>1, <3>2, <3>3, <3>4
    <2> QED  BY <2>1, <2>2
  <1>3. ManifestOK(man', remote.target, force) /\ WorkspaceOK(ws', force)  BY <1>1 DEF ManifestOK, RepairInv
  <1>4. ~force /\ ~blind' =>
          /\ man # Nothing /\ man.attempted => man' # Nothing /\ man'.attempted /\ man'.made = man.made
          /\ man' # Nothing /\ man'.state = "published" =>
               man # Nothing /\ man.state = "published" /\ man'.made = man.made
    BY <1>1, <1>m, NothingElse DEF SameAttempt
  <1> QED  BY <1>h, <1>1, <1>2, <1>3, <1>4, WritesKeep

\* A step under the lock that changes only the workspace.
LEMMA EditKeeps ==
  ASSUME RepairInv, NEW p \in Procs, proc[p].pc \in Scoping, NEW c \in Scoping, Go(p, c),
         UNCHANGED <<force, now, remote, man, lock, pushes, blind>>,
         ws' \in Workspaces, WorkspaceOK(ws', force)
  PROVE  RepairInv'
PROOF
  <1>0. RepairTypes  BY DEF RepairInv
  <1>h. lock = p  BY PlacesAre, LockIsOwn
  <1>n. proc[p].pc \notin {"idle", "decide"} /\ c \notin {"intend", "push"}  BY DEF Scoping
  <1>1. SessionOK(proc[p].m, remote.target, force)  BY <1>n, HeldSession
  <1>2. /\ proc' \in [Procs -> Holding]
        /\ proc'[p].pc = c /\ proc'[p].m = proc[p].m
        /\ \A q \in Procs : q # p => proc'[q] = proc[q]
    BY <1>0, PlacesAre, GoesTo
  <1>3. CommandOK(p, proc'[p], lock', ws', man, remote.target, force)  BY <1>1, <1>2, <1>h, WentOnOK
  <1>4. lock' \in Procs \cup {Nobody}  BY <1>0 DEF RepairTypes
  <1> QED  BY <1>h, <1>n, <1>2, <1>3, <1>4, MovesKeep

LEMMA ChangesScopeKeeps ==
  ASSUME RepairInv, NEW p \in Procs, ~Gone(p), ChangesScope(p)
  PROVE  RepairInv'
PROOF
  <1>0. RepairTypes  BY DEF RepairInv
  <1>w. ws \in Workspaces \cup {Nothing} /\ WorkspaceOK(ws, force) /\ now \in Nat  BY <1>0 DEF RepairInv, RepairTypes
  <1>g. proc[p].pc \in InWorkspace => ws \in Workspaces  BY <1>w DEF Gone
  <1>k. proc[p].pc \in Scoping => SessionOK(proc[p].m, remote.target, force) /\ proc[p].m \in Sessions
    <2>1. proc[p].pc \in Scoping => proc[p].pc \notin {"idle", "decide"}  BY DEF Scoping
    <2> QED  BY <2>1, HeldSession
  <1>1. CASE \/ Lock(p, "lock_grant", "grant", FALSE) \/ Lock(p, "lock_revoke", "revoke", FALSE)
             \/ Lock(p, "lock_authorize", "authorize", FALSE)
    <2>1. {"lock_grant", "lock_revoke", "lock_authorize"} \subseteq Asking \ {"resume"}  BY DEF Asking
    <2> QED  BY <1>1, <2>1, LockKeeps
  <1>2. CASE Grant(p)
    <2>s. UNCHANGED <<force, now>> /\ proc[p].pc \in Scoping /\ {"granted", "apply"} \subseteq Scoping
      BY <1>2 DEF Grant, Same, At, Scoping
    <2>1. CASE Refuses(p)  BY <2>1, <2>s, RefusesKeeps
    <2>2. CASE ~Refuses(p)
      <3>1. PICK m \in {[proc[p].m EXCEPT !.grant = "recorded", !.granted = now],
                        [proc[p].m EXCEPT !.grant = "applied"], proc[p].m}, c \in {"granted", "apply"} :
              Changes(p, m) /\ Read(p, c, m) /\ UNCHANGED <<remote, ws, lock, pushes>>
        BY <1>2, <2>2 DEF Grant
      <3>2. SessionOK(m, remote.target, force) /\ SameAttempt(proc[p].m, m)
        BY <1>w, <1>k, <2>s DEF SessionOK, Sessions, SameAttempt
      <3> QED  BY <2>s, <3>1, <3>2, ChangeKeeps
    <2> QED  BY <2>1, <2>2
  <1>3. CASE Apply(p)
    <2>1. proc[p].pc \in Scoping /\ "granted" \in Scoping /\ proc[p].pc \in InWorkspace
      BY <1>3 DEF Apply, At, Scoping, InWorkspace
    <2>2. ws' \in Workspaces /\ WorkspaceOK(ws', force)
      BY <1>3, <1>w, <1>g, <2>1, NothingElse DEF Apply, Workspaces, WorkspaceOK, Paths
    <2> QED  BY <1>3, <2>1, <2>2, EditKeeps DEF Apply, Same
  <1>4. CASE Granted(p)
    <2>1. proc[p].pc \in Scoping  BY <1>4 DEF Granted, At, Scoping
    <2> DEFINE m == [proc[p].m EXCEPT !.grant = "applied"]
    <2>2. SessionOK(m, remote.target, force) /\ SameAttempt(proc[p].m, m)
      BY <1>k, <2>1 DEF SessionOK, Sessions, SameAttempt
    <2>3. Changes(p, m) /\ Ends(p) /\ UNCHANGED <<force, now, remote, ws, pushes>>  BY <1>4 DEF Granted, Same
    <2> HIDE DEF m
    <2> QED  BY <2>1, <2>2, <2>3, ChangeKeeps
  <1>5. CASE Revoke(p)
    <2>1. proc[p].pc \in Scoping /\ "revoked" \in Scoping /\ proc[p].pc \in InWorkspace /\ UNCHANGED <<force, now>>
      BY <1>5 DEF Revoke, At, Scoping, InWorkspace, Same
    <2>2. CASE Refuses(p)  BY <2>1, <2>2, RefusesKeeps
    <2>3. CASE ~Refuses(p)
      <3>0. PICK d \in BOOLEAN : ws' = [ws EXCEPT !.stage["g"] = "base", !.dirty = d]
        <4>1. (ws.dirty \/ (ws.merge = "none" /\ ws.stage["g"] = "granted")) \in BOOLEAN  BY Zenon
        <4> QED  BY <1>5, <2>3, <4>1, Zenon DEF Revoke
      <3>1. ws' \in Workspaces /\ WorkspaceOK(ws', force)
        BY <3>0, <1>w, <1>g, <2>1, NothingElse DEF Workspaces, WorkspaceOK, Paths
      <3> QED  BY <1>5, <2>1, <2>3, <3>1, EditKeeps DEF Revoke
    <2> QED  BY <2>2, <2>3
  <1>6. CASE Revoked(p)
    <2>1. proc[p].pc \in Scoping  BY <1>6 DEF Revoked, At, Scoping
    <2> DEFINE m == [proc[p].m EXCEPT !.grant = "none", !.granted = 0]
    <2>2. SessionOK(m, remote.target, force) /\ SameAttempt(proc[p].m, m)
      BY <1>k, <2>1 DEF SessionOK, Sessions, SameAttempt
    <2>3. Changes(p, m) /\ Ends(p) /\ UNCHANGED <<force, now, remote, ws, pushes>>  BY <1>6 DEF Revoked, Same
    <2> HIDE DEF m
    <2> QED  BY <2>1, <2>2, <2>3, ChangeKeeps
  <1>7. CASE Authorize(p)
    <2>1. proc[p].pc \in Scoping /\ UNCHANGED <<force, now>>  BY <1>7 DEF Authorize, At, Scoping, Same
    <2>2. CASE Refuses(p)  BY <2>1, <2>2, RefusesKeeps
    <2>3. CASE ~Refuses(p)
      <3> DEFINE m == [proc[p].m EXCEPT !.auth = "agent", !.authorized = now]
      <3>2. SessionOK(m, remote.target, force) /\ SameAttempt(proc[p].m, m)
        BY <1>w, <1>k, <2>1 DEF SessionOK, Sessions, SameAttempt
      <3>3. Changes(p, m) /\ Ends(p) /\ UNCHANGED <<remote, ws, pushes>>  BY <1>7, <2>3 DEF Authorize
      <3> HIDE DEF m
      <3> QED  BY <2>1, <3>2, <3>3, ChangeKeeps
    <2> QED  BY <2>2, <2>3
  <1> QED  BY <1>1, <1>2, <1>3, <1>4, <1>5, <1>6, <1>7 DEF ChangesScope

\* Commands that begin with a read: of the manifest as it is, without the lock.
LEMMA ReadingKeeps ==
  ASSUME RepairInv, NEW p \in Procs, NEW c \in Asking, man # Nothing, Read(p, c, man),
         c = "continue" => man.state # "preparing",
         UNCHANGED <<force, now, remote, man, ws, lock, pushes, blind>>
  PROVE  RepairInv'
PROOF
  <1>0. RepairTypes  BY DEF RepairInv
  <1>1. SessionOK(man, remote.target, force) /\ man \in Sessions  BY HeldSession
  <1>2. c \notin Held /\ c \in Places /\ c \notin {"intend", "push"}
    BY DEF Asking, Places, Held, Materializing, Scoping, Committing
  <1>3. /\ proc' \in [Procs -> Holding]
        /\ proc'[p].pc = c /\ proc'[p].m = man
        /\ \A q \in Procs : q # p => proc'[q] = proc[q]
    BY <1>0, <1>1, <1>2, ReadsTo
  <1>4. CommandOK(p, proc'[p], lock', ws', man, remote.target, force)
    <2>1. c = "continue" \/ c \in {"lock_grant", "lock_revoke", "lock_authorize", "resume"}  BY DEF Asking
    <2> QED  BY <1>1, <1>2, <1>3, <2>1, WentOnOK
  <1>5. ws' \in Workspaces \cup {Nothing} /\ WorkspaceOK(ws', force) /\ lock' \in Procs \cup {Nobody}
    BY <1>0 DEF RepairInv, RepairTypes
  <1> QED  BY <1>2, <1>3, <1>4, <1>5, MovesKeep

LEMMA StageKeeps ==
  ASSUME RepairInv, NEW path \in Paths, Stage(path)
  PROVE  RepairInv'
PROOF
  <1>0. RepairTypes  BY DEF RepairInv
  <1>1. ws \in Workspaces /\ lock = Nobody /\ UNCHANGED <<force, now, remote, man, lock, proc, pushes, blind>>
    BY <1>0 DEF Stage, RepairTypes
  <1>2. ws' \in Workspaces /\ WorkspaceOK(ws', force)
    BY <1>1, NothingElse DEF Stage, RepairInv, Workspaces, WorkspaceOK
  <1>p. PICK p \in Procs : TRUE  BY DEF Procs
  <1>n. Nobody \notin Procs  BY DEF Nobody, Procs, Owner, Other
  <1>3. RepairTypes'  BY <1>0, <1>1, <1>2 DEF RepairTypes
  <1>4. PushesOK' /\ SentOK'  BY <1>1, SentKept
  <1>5. remote.target <= remote'.target /\ remote.target \in Nat  BY <1>1, HeldSession
  <1>6. \A q \in Procs : CommandOK(q, proc[q], lock, ws', man, remote.target, force)
    <2>1. \A q \in Procs : CommandOK(q, proc[q], lock, ws, man, remote.target, force)  BY DEF RepairInv, Commands
    <2> QED  BY <1>1, <1>5, <1>n, <2>1, CommandKept
  <1>7. ManifestOK(man', remote'.target, force)  BY <1>1 DEF RepairInv
  <1> QED  BY <1>1, <1>2, <1>3, <1>4, <1>6, <1>7 DEF RepairInv, Commands

-----------------------------------------------------------------------------
(* Repair: continue.                                                       *)

\* The verification of the copy that is on disk covers what the commit changes.
LEMMA VerifiedIsCovered ==
  ASSUME NEW m, m = man, m \in Sessions, ws \in Workspaces, Verified(m)
  PROVE  Covered(Merged(m.head, m.target, ws.stage, Opened))
PROOF
  <1> DEFINE changed == {q \in Paths : ws.stage[q] # "base"}
  <1>1. changed \subseteq Opened
    <2>1. CASE Broad(m) = {}  BY <2>1 DEF Broad, Opened
    <2>2. CASE Broad(m) # {}  BY <2>2 DEF Verified, AuthValid, Opened
    <2> QED  BY <2>1, <2>2
  <1> QED  BY <1>1 DEF Covered, Merged

LEMMA MergedIsCommit ==
  ASSUME NEW m \in Sessions, NEW stage, NEW o \in SUBSET Paths
  PROVE  /\ Merged(m.head, m.target, stage, o) \in Commits
         /\ ExactParents(Merged(m.head, m.target, stage, o), m)
PROOF
  <1>1. Merged(m.head, m.target, stage, o) \in Commits  BY DEF Merged, Sessions, Commits
  <1>2. Merged(m.head, m.target, stage, o) # Nothing  BY <1>1, NothingElse
  <1> QED  BY <1>1, <1>2 DEF Merged, ExactParents

\* A step of continue under the lock that leaves the manifest alone and sends nothing.
LEMMA CommittingMoves ==
  ASSUME RepairInv, NEW p \in Procs, proc[p].pc \in Committing, NEW c \in Committing \ {"intend", "push"}, Go(p, c),
         UNCHANGED <<force, now, remote, man, lock, pushes, blind>>,
         ws' \in Workspaces, WorkspaceOK(ws', force),
         c # "commit",
         c = "mark" => proc[p].m.state = "resolving" /\ ExactParents(ws'.commit, proc[p].m),
         c \in Made => proc[p].m.state = "committed" /\ ExactParents(proc[p].m.made, proc[p].m)
  PROVE  RepairInv'
PROOF
  <1>0. RepairTypes  BY DEF RepairInv
  <1>h. lock = p  BY PlacesAre, LockIsOwn
  <1>n. proc[p].pc \notin {"idle", "decide"}  BY DEF Committing
  <1>c. CommandOK(p, proc[p], lock, ws, man, remote.target, force)  BY DEF RepairInv, Commands
  <1>1. SessionOK(proc[p].m, remote.target, force) /\ (~force => man = proc[p].m)  BY <1>n, <1>c DEF CommandOK
  <1>2. /\ proc' \in [Procs -> Holding]
        /\ proc'[p].pc = c /\ proc'[p].m = proc[p].m
        /\ \A q \in Procs : q # p => proc'[q] = proc[q]
    BY <1>0, PlacesAre, GoesTo
  <1>3. CommandOK(p, proc'[p], lock', ws', man, remote.target, force)
    <2>1. c = "mark" \/ c \in Made  BY DEF Committing, Made
    <2> QED  BY <1>1, <1>2, <1>h, <2>1, WentOnOK
  <1>4. lock' \in Procs \cup {Nobody}  BY <1>0 DEF RepairTypes
  <1> QED  BY <1>h, <1>2, <1>3, <1>4, MovesKeep

LEMMA CommitKeeps ==
  ASSUME RepairInv, NEW p \in Procs, ~Gone(p), Commit(p)
  PROVE  RepairInv'
PROOF
  <1>0. RepairTypes  BY DEF RepairInv
  <1>p. proc[p].pc = "commit" /\ proc[p].pc \in Committing /\ proc[p].pc \in InWorkspace /\ UNCHANGED <<force, now>>
    BY DEF Commit, At, Committing, InWorkspace, Same
  <1>w. ws \in Workspaces /\ WorkspaceOK(ws, force)  BY <1>0, <1>p DEF RepairInv, RepairTypes, Gone
  <1>c. CommandOK(p, proc[p], lock, ws, man, remote.target, force)  BY DEF RepairInv, Commands
  <1>m. proc[p].m \in Sessions /\ (~force => man = proc[p].m)
    BY <1>p, <1>c DEF CommandOK, SessionOK
  <1> DEFINE m == proc[p].m
  <1>1. CASE /\ m.state = "resolving" /\ Verified(m)
             /\ ws' = [ws EXCEPT !.merge = "none", !.commit = Merged(m.head, m.target, ws.stage, Opened)]
             /\ Go(p, "mark") /\ UNCHANGED <<remote, man, lock, pushes, blind>>
    <2>1. Opened \in SUBSET Paths  BY DEF Opened, Paths
    <2> DEFINE made == Merged(m.head, m.target, ws.stage, Opened)
    <2>2. made \in Commits /\ ExactParents(made, m)  BY <1>m, <2>1, MergedIsCommit
    <2>3. ~force => Covered(made)  BY <1>1, <1>m, <1>w, VerifiedIsCovered
    <2>4. ws' \in Workspaces /\ ws'.commit = made
      <3> HIDE DEF made
      <3>1. ws' = [ws EXCEPT !.merge = "none", !.commit = made]  BY <1>1 DEF made
      <3> QED  BY <1>w, <2>2, <3>1 DEF Workspaces
    <2>5. WorkspaceOK(ws', force)  BY <2>3, <2>4 DEF WorkspaceOK
    <2>6. "mark" \in Committing \ {"intend", "push"} /\ "mark" # "commit" /\ "mark" \notin Made
      BY DEF Committing, Made
    <2> HIDE DEF made
    <2> QED  BY <1>1, <1>p, <2>2, <2>4, <2>5, <2>6, CommittingMoves
  <1>2. CASE LeftBehind(m) /\ Go(p, "mark") /\ UNCHANGED <<remote, man, ws, lock, pushes, blind>>
    <2>1. "mark" \in Committing \ {"intend", "push"} /\ "mark" # "commit" /\ "mark" \notin Made
      BY DEF Committing, Made
    <2> QED  BY <1>2, <1>p, <1>w, <2>1, CommittingMoves DEF LeftBehind
  <1>3. CASE /\ m.state = "committed" /\ ws.commit = m.made /\ ExactParents(ws.commit, m)
             /\ Go(p, "check") /\ UNCHANGED <<remote, man, ws, lock, pushes, blind>>
    <2>1. "check" \in Committing \ {"intend", "push"} /\ "check" # "commit" /\ "check" # "mark"
      BY DEF Committing
    <2> QED  BY <1>3, <1>p, <1>w, <2>1, CommittingMoves
  <1>4. CASE Refuses(p)  BY <1>4, <1>p, RefusesKeeps
  <1> QED  BY <1>1, <1>2, <1>3, <1>4 DEF Commit

\* What continue holds from its commit to the answer.
LEMMA MadeHolds ==
  ASSUME RepairInv, NEW p \in Procs, proc[p].pc \in Made
  PROVE  /\ lock = p /\ SessionOK(proc[p].m, remote.target, force) /\ proc[p].m \in Sessions
         /\ proc[p].m.state = "committed" /\ (~force => man = proc[p].m)
         /\ proc[p].m.made \in Commits /\ ExactParents(proc[p].m.made, proc[p].m)
PROOF
  <1>c. CommandOK(p, proc[p], lock, ws, man, remote.target, force)  BY DEF RepairInv, Commands
  <1>n. proc[p].pc \notin {"idle", "decide"} /\ proc[p].pc \in Committing  BY DEF Made, Committing
  <1>1. lock = p  BY <1>n, PlacesAre, LockIsOwn
  <1>2. /\ SessionOK(proc[p].m, remote.target, force)
        /\ proc[p].m.state = "committed" /\ (~force => man = proc[p].m)
        /\ ExactParents(proc[p].m.made, proc[p].m)
    BY <1>c, <1>n DEF CommandOK
  <1>3. proc[p].m \in Sessions  BY <1>2 DEF SessionOK
  <1>4. proc[p].m.made \in Commits  BY <1>2, <1>3 DEF ExactParents, Sessions
  <1> QED  BY <1>1, <1>2, <1>3, <1>4

LEMMA MarkKeeps ==
  ASSUME RepairInv, NEW p \in Procs, ~Gone(p), Mark(p)
  PROVE  RepairInv'
PROOF
  <1>0. RepairTypes  BY DEF RepairInv
  <1>p. /\ proc[p].pc = "mark" /\ proc[p].pc \in Committing /\ proc[p].pc \in InWorkspace
        /\ UNCHANGED <<force, now, remote, ws, lock, pushes, blind>>
    BY DEF Mark, At, Committing, InWorkspace, Same, Writes
  <1>w. ws \in Workspaces /\ WorkspaceOK(ws, force) /\ ws # Nothing  BY <1>0, <1>p DEF RepairInv, RepairTypes, Gone
  <1>c. CommandOK(p, proc[p], lock, ws, man, remote.target, force)  BY DEF RepairInv, Commands
  <1>h. lock = p  BY <1>p, PlacesAre, LockIsOwn
  <1>1. /\ SessionOK(proc[p].m, remote.target, force) /\ proc[p].m.state = "resolving"
        /\ ExactParents(ws.commit, proc[p].m) /\ (~force => man = proc[p].m)
    BY <1>p, <1>c, <1>w DEF CommandOK
  <1> DEFINE m == [proc[p].m EXCEPT !.state = "committed", !.made = ws.commit]
  <1>2. SessionOK(m, remote.target, force) /\ m.state = "committed" /\ m.made = ws.commit
    <2>1. ws.commit \in Commits \cup {Nothing} /\ (~force => Covered(ws.commit))  BY <1>w DEF Workspaces, WorkspaceOK
    <2> QED  BY <1>1, <2>1 DEF SessionOK, Sessions
  <1>3. ExactParents(m.made, m)  BY <1>1 DEF ExactParents, SessionOK, Sessions
  <1>4. m \in Sessions /\ ~proc[p].m.attempted  BY <1>1, <1>2 DEF SessionOK
  <1>5. man' = m /\ Read(p, "check", m)  BY DEF Mark, Writes
  <1>6. "check" \in Made /\ "check" \in Places  BY PlacesAre DEF Made
  <1> HIDE DEF m
  <1>7. /\ proc' \in [Procs -> Holding]
        /\ proc'[p].pc = "check" /\ proc'[p].m = m
        /\ \A q \in Procs : q # p => proc'[q] = proc[q]
    BY <1>0, <1>4, <1>5, <1>6, ReadsTo
  <1>8. CommandOK(p, proc'[p], lock', ws', man', remote.target, force)
    BY <1>p, <1>h, <1>2, <1>3, <1>5, <1>6, <1>7, WentOnOK
  <1>9. ManifestOK(man', remote.target, force)  BY <1>2, <1>5 DEF ManifestOK
  <1>10. blind \in BOOLEAN /\ lock \in Procs \cup {Nobody}  BY <1>0 DEF RepairTypes
  <1> QED  BY <1>p, <1>w, <1>h, <1>1, <1>2, <1>4, <1>5, <1>7, <1>8, <1>9, <1>10, WritesKeep

LEMMA IntendKeeps ==
  ASSUME RepairInv, NEW p \in Procs, Intend(p)
  PROVE  RepairInv'
PROOF
  <1>0. RepairTypes  BY DEF RepairInv
  <1>p. proc[p].pc = "intend" /\ proc[p].pc \in Made /\ UNCHANGED <<force, now, remote, ws, lock, pushes, blind>>
    BY DEF Intend, At, Made, Same, Writes
  <1>1. /\ lock = p /\ SessionOK(proc[p].m, remote.target, force) /\ proc[p].m \in Sessions
        /\ proc[p].m.state = "committed" /\ (~force => man = proc[p].m)
        /\ ExactParents(proc[p].m.made, proc[p].m)
    BY <1>p, MadeHolds
  <1> DEFINE m == [proc[p].m EXCEPT !.attempted = TRUE]
  <1>2. /\ SessionOK(m, remote.target, force) /\ m.state = "committed" /\ m.made = proc[p].m.made
        /\ m.attempted /\ m.head = proc[p].m.head /\ m.target = proc[p].m.target
    BY <1>1 DEF SessionOK, Sessions
  <1>3. ExactParents(m.made, m)  BY <1>1, <1>2 DEF ExactParents
  <1>4. m \in Sessions  BY <1>2 DEF SessionOK
  <1>5. man' = m /\ Read(p, "push", m)  BY DEF Intend, Writes
  <1>6. "push" \in Made /\ "push" \in Places /\ "push" # "intend"  BY PlacesAre DEF Made
  <1>7. m # Nothing  BY <1>4, NothingElse
  <1> HIDE DEF m
  <1>8. /\ proc' \in [Procs -> Holding]
        /\ proc'[p].pc = "push" /\ proc'[p].m = m
        /\ \A q \in Procs : q # p => proc'[q] = proc[q]
    BY <1>0, <1>4, <1>5, <1>6, ReadsTo
  <1>9. CommandOK(p, proc'[p], lock', ws', man', remote.target, force)
    BY <1>p, <1>1, <1>2, <1>3, <1>5, <1>6, <1>8, WentOnOK
  <1>10. ManifestOK(man', remote.target, force) /\ WorkspaceOK(ws', force)  BY <1>p, <1>2, <1>5 DEF ManifestOK, RepairInv
  <1>11. blind \in BOOLEAN /\ lock \in Procs \cup {Nobody}  BY <1>0 DEF RepairTypes
  <1> QED  BY <1>p, <1>1, <1>2, <1>5, <1>7, <1>8, <1>9, <1>10, <1>11, WritesKeep

LEMMA CheckKeeps ==
  ASSUME RepairInv, NEW p \in Procs, ~Gone(p), Check(p)
  PROVE  RepairInv'
PROOF
  <1>0. RepairTypes  BY DEF RepairInv
  <1>p. /\ proc[p].pc = "check" /\ proc[p].pc \in Made /\ proc[p].pc \in InWorkspace /\ UNCHANGED <<force, now>>
        /\ proc[p].pc \in Committing
    BY DEF Check, At, Made, Committing, InWorkspace, Same
  <1>w. ws \in Workspaces /\ WorkspaceOK(ws, force)  BY <1>0, <1>p DEF RepairInv, RepairTypes, Gone
  <1> DEFINE m == proc[p].m
  <1>1. /\ lock = p /\ SessionOK(m, remote.target, force) /\ m \in Sessions
        /\ m.state = "committed" /\ (~force => man = m)
        /\ m.made \in Commits /\ ExactParents(m.made, m)
    BY <1>p, MadeHolds
  <1>2. CASE /\ remote.head = m.head /\ ~m.attempted
             /\ Go(p, IF force THEN "push" ELSE "intend")
             /\ UNCHANGED <<remote, man, ws, lock, pushes, blind>>
    <2>1. PICK c \in {"push", "intend"} : Go(p, c) /\ (c = "push" <=> force)
      <3>1. force \in BOOLEAN  BY <1>0 DEF RepairTypes
      <3> QED  BY <1>2, <3>1
    <2>2. c \in Places /\ c \in Made  BY PlacesAre DEF Made
    <2>3. /\ proc' \in [Procs -> Holding]
          /\ proc'[p].pc = c /\ proc'[p].m = m
          /\ \A q \in Procs : q # p => proc'[q] = proc[q]
      BY <1>0, <2>1, <2>2, GoesTo
    <2>4. CommandOK(p, proc'[p], lock', ws', man', remote'.target, force)
      <3> HIDE DEF m
      <3> QED  BY <1>1, <1>2, <2>1, <2>2, <2>3, WentOnOK
    <2>5. RepairTypes'  BY <1>0, <1>p, <1>2, <2>3 DEF RepairTypes
    <2>6. PushesOK'  BY <1>p, <1>2 DEF RepairInv, PushesOK
    <2>7. ASSUME ~force, ~blind, NEW s \in pushes PROVE s.commit # m.made
      <3>1. Behind(s.commit, remote.head) \/ Recorded(s.commit, man)  BY <2>7 DEF RepairInv, SentOK
      <3>2. Behind(s.commit, m.head)  BY <1>1, <1>2, <2>7, <3>1 DEF Recorded
      <3>3. m.head \in Commits /\ m.target \in Nat /\ m.head.with <= m.target /\ m.head.with # m.target
        BY <1>1 DEF SessionOK, Sessions
      <3>4. m.made.n = m.head.n /\ m.made.with = m.target  BY <1>1 DEF ExactParents
      <3> QED  BY <3>2, <3>3, <3>4 DEF Behind, Commits
    <2>8. SentOK'
      <3>1. SentOK  BY DEF RepairInv
      <3>2. ASSUME ~force, ~blind PROVE \A q \in Procs : proc'[q].pc \in {"intend", "push"} => \A s \in pushes : s.commit # proc'[q].m.made
        BY <2>3, <2>7, <3>1, <3>2 DEF SentOK
      <3> QED  BY <1>p, <1>2, <3>1, <3>2 DEF SentOK
    <2>9. ManifestOK(man', remote'.target, force) /\ WorkspaceOK(ws', force)  BY <1>2 DEF RepairInv
    <2>10. remote.target <= remote'.target  BY <1>2, HeldSession
    <2> QED  BY <1>p, <1>1, <1>2, <2>3, <2>4, <2>5, <2>6, <2>8, <2>9, <2>10, RepairKept
  <1>3. CASE Go(p, "confirm") /\ UNCHANGED <<remote, man, ws, lock, pushes, blind>>
    <2>1. "confirm" \in Committing \ {"intend", "push"} /\ "confirm" \notin {"commit", "mark"}  BY DEF Committing
    <2> QED  BY <1>p, <1>w, <1>1, <1>3, <2>1, CommittingMoves
  <1>4. CASE Refuses(p)  BY <1>4, <1>p, RefusesKeeps
  <1> QED  BY <1>2, <1>3, <1>4 DEF Check

LEMMA PushKeeps ==
  ASSUME RepairInv, NEW p \in Procs, Push(p)
  PROVE  RepairInv'
PROOF
  <1>0. RepairTypes  BY DEF RepairInv
  <1>p. proc[p].pc = "push" /\ proc[p].pc \in Made /\ UNCHANGED <<man, ws, blind, force, now>>
    BY DEF Push, At, Made
  <1> DEFINE m == proc[p].m
  <1>1. /\ lock = p /\ SessionOK(m, remote.target, force) /\ m \in Sessions
        /\ m.state = "committed" /\ (~force => man = m)
        /\ m.made \in Commits /\ ExactParents(m.made, m)
    BY <1>p, MadeHolds
  <1>a. ~force => m.attempted
    <2>1. CommandOK(p, proc[p], lock, ws, man, remote.target, force)  BY DEF RepairInv, Commands
    <2> QED  BY <1>p, <2>1 DEF CommandOK
  <1> DEFINE sent(landed) == [commit |-> m.made, from |-> m.head, over |-> remote.head,
                              landed |-> landed, again |-> \E s \in pushes : s.commit = m.made]
  <1>2. PICK landed \in BOOLEAN, answered \in BOOLEAN :
          /\ landed => PushAccepted(m)
          /\ pushes' = pushes \cup {sent(landed)}
          /\ remote' = IF landed THEN [remote EXCEPT !.head = m.made, !.meta = @ + 1] ELSE remote
          /\ IF landed /\ answered THEN Go(p, "confirm") /\ UNCHANGED lock ELSE Ends(p)
    BY DEF Push
  <1>t. /\ m.head \in Commits /\ m.target \in Nat /\ m.head.with <= m.target /\ m.target <= remote.target
        /\ m.made.n = m.head.n /\ m.made.with = m.target
        /\ remote \in Remotes /\ remote.head.with <= remote.target /\ remote.head \in Commits
    BY <1>0, <1>1 DEF SessionOK, Sessions, ExactParents, RepairTypes, RemoteOK, Remotes
  <1>r. RemoteOK(remote') /\ remote'.target = remote.target
    <2>1. CASE landed
      <3>1. PICK k \in Nat : remote' = [remote EXCEPT !.head = m.made, !.meta = k]
        <4>1. remote.meta + 1 \in Nat  BY <1>t DEF Remotes
        <4> QED  BY <1>2, <2>1, <4>1, Zenon
      <3>2. m.made.with <= remote.target  BY <1>t
      <3> HIDE DEF m
      <3>3. remote' \in Remotes /\ remote'.target = remote.target /\ remote'.head = m.made
        BY <1>t, <1>1, <3>1 DEF Remotes
      <3> QED  BY <3>2, <3>3 DEF RemoteOK
    <2>2. CASE ~landed  BY <1>2, <1>t, <2>2 DEF RemoteOK
    <2> QED  BY <2>1, <2>2
  <1>s. sent(landed) \in Sends
    <2>1. (\E s \in pushes : s.commit = m.made) \in BOOLEAN  OBVIOUS
    <2> QED  BY <1>1, <1>t, <2>1 DEF Sends
  <1>3. /\ proc' \in [Procs -> Holding]
        /\ \A q \in Procs : q # p => proc'[q] = proc[q]
        /\ lock' \in Procs \cup {Nobody}
        /\ proc'[p].pc \in {"idle", "confirm"}
        /\ CommandOK(p, proc'[p], lock', ws', man', remote'.target, force)
    <2>1. CASE Go(p, "confirm") /\ UNCHANGED lock
      <3>1. "confirm" \in Places /\ "confirm" \in Made /\ "confirm" \notin {"push", "intend"}  BY PlacesAre DEF Made
      <3>2. /\ proc' \in [Procs -> Holding]
            /\ proc'[p].pc = "confirm" /\ proc'[p].m = m
            /\ \A q \in Procs : q # p => proc'[q] = proc[q]
        BY <1>0, <2>1, <3>1, GoesTo
      <3>3. CommandOK(p, proc'[p], lock', ws', man', remote'.target, force)
        <4> HIDE DEF m
        <4> QED  BY <1>1, <1>p, <1>r, <2>1, <3>1, <3>2, WentOnOK
      <3>4. lock' \in Procs \cup {Nobody}  BY <1>0, <2>1 DEF RepairTypes
      <3> QED  BY <3>2, <3>3, <3>4
    <2>2. CASE Ends(p)  BY <1>0, <2>2, EndsIdle, AwayOK
    <2> QED  BY <1>2, <2>1, <2>2
  <1>4. RepairTypes'
    <2>1. pushes' \subseteq Sends  BY <1>0, <1>2, <1>s DEF RepairTypes
    <2> QED  BY <1>0, <1>p, <1>r, <1>3, <2>1 DEF RepairTypes
  <1>5. PushesOK'
    <2>1. ~force => m.made.changed \subseteq m.made.opened  BY <1>1, NothingElse DEF SessionOK, Covered
    <2>2. landed => remote.head = m.head  BY <1>2 DEF PushAccepted
    <2>3. PushesOK  BY DEF RepairInv
    <2>4. /\ sent(landed).commit = m.made /\ sent(landed).from = m.head /\ sent(landed).over = remote.head
          /\ sent(landed).landed = landed
      OBVIOUS
    <2> HIDE DEF sent, m
    <2> QED  BY <1>p, <1>2, <1>t, <2>1, <2>2, <2>3, <2>4 DEF PushesOK
  <1>6. SentOK'
    <2> SUFFICES ASSUME ~force, ~blind PROVE SentOK'  BY <1>p DEF SentOK
    <2>0. SentOK  BY DEF RepairInv
    <2>1. ~(\E s \in pushes : s.commit = m.made)  BY <1>p, <2>0 DEF SentOK
    <2>2. sent(landed).commit = m.made /\ ~sent(landed).again  BY <2>1
    <2>3. ASSUME NEW s \in pushes' PROVE Behind(s.commit, remote'.head) \/ Recorded(s.commit, man')
      <3>1. CASE s = sent(landed)
        <4>1. m # Nothing  BY <1>1, NothingElse
        <4> QED  BY <1>1, <1>a, <1>p, <2>2, <3>1, <4>1 DEF Recorded
      <3>2. CASE s \in pushes
        <4>1. Behind(s.commit, remote.head) \/ Recorded(s.commit, man)  BY <2>0, <3>2 DEF SentOK
        <4>2. CASE Recorded(s.commit, man)  BY <1>p, <4>2
        <4>3. CASE Behind(s.commit, remote.head)
          <5>1. s.commit \in Commits  BY <1>0, <3>2 DEF RepairTypes, Sends
          <5>2. CASE landed
            <6>1. remote.head = m.head  BY <1>2, <5>2 DEF PushAccepted
            <6>2. remote'.head = m.made  BY <1>2, <1>t, <5>2 DEF Remotes
            <6> HIDE DEF m
            <6> QED  BY <1>t, <4>3, <5>1, <6>1, <6>2 DEF Behind, Commits
          <5>3. CASE ~landed  BY <1>2, <4>3, <5>3
          <5> QED  BY <5>2, <5>3
        <4> QED  BY <4>1, <4>2, <4>3
      <3> QED  BY <1>2, <2>3, <3>1, <3>2
    <2>4. man' # Nothing /\ man'.state = "published" => man'.made \in Commits /\ Behind(man'.made, remote'.head)
      BY <1>1, <1>p
    <2>5. \A q \in Procs : proc'[q].pc \in {"intend", "push"} => \A s \in pushes' : s.commit # proc'[q].m.made
      <3>1. ASSUME NEW q \in Procs, q # p PROVE proc[q].pc \notin {"intend", "push"}
        <4>1. {"intend", "push"} \subseteq Held  BY DEF Held, Committing
        <4> QED  BY <1>1, <3>1, <4>1, LockIsOwn
      <3> QED  BY <1>3, <3>1
    <2>6. \A s \in pushes' : ~s.again
      <3> HIDE DEF sent
      <3> QED  BY <1>2, <2>0, <2>2 DEF SentOK
    <2> QED  BY <2>3, <2>4, <2>5, <2>6 DEF SentOK
  <1>7. ManifestOK(man', remote'.target, force) /\ WorkspaceOK(ws', force)  BY <1>p, <1>r DEF RepairInv
  <1>8. remote.target <= remote'.target  BY <1>r, HeldSession
  <1> QED  BY <1>p, <1>1, <1>3, <1>4, <1>5, <1>6, <1>7, <1>8, RepairKept

LEMMA ConfirmKeeps ==
  ASSUME RepairInv, NEW p \in Procs, Confirm(p)
  PROVE  RepairInv'
PROOF
  <1>0. RepairTypes  BY DEF RepairInv
  <1>p. proc[p].pc = "confirm" /\ proc[p].pc \in Made /\ UNCHANGED <<force, now>>  BY DEF Confirm, At, Made, Same
  <1>1. /\ lock = p /\ SessionOK(proc[p].m, remote.target, force) /\ proc[p].m \in Sessions
        /\ proc[p].m.state = "committed" /\ (~force => man = proc[p].m)
        /\ proc[p].m.made \in Commits
    BY <1>p, MadeHolds
  <1>2. CASE Refuses(p)  BY <1>2, <1>p, RefusesKeeps
  <1>3. CASE ~Refuses(p)
    <2> DEFINE m == [proc[p].m EXCEPT !.state = "published"]
    <2>1. /\ remote.head = proc[p].m.made /\ man' = m /\ lock' = Nobody
          /\ proc' = [proc EXCEPT ![p].pc = "resume", ![p].m = m]
          /\ UNCHANGED <<remote, ws, pushes, blind>>
      BY <1>3 DEF Confirm, Writes
    <2>2. SessionOK(m, remote.target, force) /\ m.made = proc[p].m.made /\ m.attempted = proc[p].m.attempted
      BY <1>1 DEF SessionOK, Sessions
    <2>3. m \in Sessions /\ m # Nothing  BY <2>2, NothingElse DEF SessionOK
    <2>4. "resume" \in Places /\ "resume" \notin Held  BY DEF Places, Asking, Held, Materializing, Scoping, Committing
    <2> HIDE DEF m
    <2>5. /\ proc' \in [Procs -> Holding]
          /\ proc'[p].pc = "resume" /\ proc'[p].m = m
          /\ \A q \in Procs : q # p => proc'[q] = proc[q]
      BY <1>0, <2>1, <2>3, <2>4 DEF RepairTypes, Holding
    <2>6. CommandOK(p, proc'[p], lock', ws', man', remote'.target, force)  BY <2>1, <2>2, <2>4, <2>5, WentOnOK
    <2>7. RepairTypes'  BY <1>0, <1>p, <2>1, <2>5 DEF RepairTypes
    <2>8. PushesOK'  BY <1>p, <2>1 DEF RepairInv, PushesOK
    <2>9. SentOK'
      <3> SUFFICES ASSUME ~force, ~blind PROVE SentOK'  BY <1>p, <2>1 DEF SentOK
      <3>0. SentOK  BY DEF RepairInv
      <3>1. \A s \in pushes' : Behind(s.commit, remote'.head) \/ Recorded(s.commit, man')
        BY <1>1, <2>1, <2>2, <2>3, <3>0 DEF SentOK, Recorded
      <3>2. man'.made \in Commits /\ Behind(man'.made, remote'.head)
        BY <1>1, <2>1, <2>2 DEF Behind, Commits
      <3>3. ASSUME NEW q \in Procs PROVE proc'[q].pc \notin {"intend", "push"}
        <4>1. {"intend", "push"} \subseteq Held  BY DEF Held, Committing
        <4>2. CASE q = p  BY <2>5, <4>2
        <4>3. CASE q # p  BY <1>1, <2>5, <4>1, <4>3, LockIsOwn
        <4> QED  BY <4>2, <4>3
      <3>4. \A s \in pushes' : ~s.again  BY <2>1, <3>0 DEF SentOK
      <3> QED  BY <3>1, <3>2, <3>3, <3>4 DEF SentOK
    <2>10. ManifestOK(man', remote'.target, force) /\ WorkspaceOK(ws', force)  BY <2>1, <2>2 DEF ManifestOK, RepairInv
    <2>11. remote.target <= remote'.target  BY <2>1, HeldSession
    <2> QED  BY <1>p, <1>1, <2>5, <2>6, <2>7, <2>8, <2>9, <2>10, <2>11, RepairKept
  <1> QED  BY <1>2, <1>3

-----------------------------------------------------------------------------
(* Repair: the end of a session.                                           *)

\* After its publication a forcing session is written without the lock.
LEMMA TrailingKeeps ==
  ASSUME RepairInv, NEW p \in Procs, Resume(p) \/ Sync(p) \/ Completed(p) \/ Cleanup(p)
  PROVE  RepairInv'
PROOF
  <1>0. RepairTypes  BY DEF RepairInv
  <1>s. UNCHANGED <<force, now>>  BY DEF Resume, Sync, Completed, Cleanup, Same
  <1>p. proc[p].pc \in {"resume"} \cup Trailing  BY DEF Resume, Sync, Completed, Cleanup, At, Trailing
  <1>c. CommandOK(p, proc[p], lock, ws, man, remote.target, force)  BY DEF RepairInv, Commands
  <1>1. SessionOK(proc[p].m, remote.target, force) /\ (proc[p].pc \in Trailing => force)
    <2>1. proc[p].pc \notin {"idle", "decide"}  BY <1>p DEF Trailing
    <2> QED  BY <1>c, <2>1 DEF CommandOK
  <1>w. /\ ws \in Workspaces \cup {Nothing} /\ WorkspaceOK(ws, force) /\ WorkspaceOK(Nothing, force)
        /\ blind \in BOOLEAN /\ lock \in Procs \cup {Nobody}
    BY <1>0 DEF RepairInv, RepairTypes, WorkspaceOK
  <1>t. /\ Trailing \subseteq Places /\ Trailing \cap Held = {} /\ Trailing \cap {"intend", "push"} = {}
        /\ {"sync", "completed", "cleanup"} \subseteq Trailing
    BY PlacesAre DEF Trailing, Held, Materializing, Scoping, Committing
  <1>2. ASSUME NEW c \in Trailing, Go(p, c), force, UNCHANGED <<remote, ws, lock, pushes, blind>>,
               man' \in {man, proc[p].m}
        PROVE  RepairInv'
    <2>1. /\ proc' \in [Procs -> Holding]
          /\ proc'[p].pc = c /\ proc'[p].m = proc[p].m
          /\ \A q \in Procs : q # p => proc'[q] = proc[q]
      BY <1>0, <1>2, <1>t, GoesTo
    <2>2. CommandOK(p, proc'[p], lock', ws', man', remote.target, force)  BY <1>1, <1>2, <1>t, <2>1, WentOnOK
    <2>3. ManifestOK(man', remote.target, force)  BY <1>1, <1>2 DEF RepairInv, ManifestOK
    <2> QED  BY <1>s, <1>w, <1>2, <2>1, <2>2, <2>3, WritesKeep
  <1>3. CASE Refuses(p)  BY <1>3, <1>s, RefusesKeeps
  <1>4. CASE Resume(p)
    <2>1. CASE force /\ Writes(p, proc[p].m) /\ Go(p, "sync") /\ UNCHANGED <<remote, ws, lock, pushes>>
      BY <1>2, <1>t, <2>1 DEF Writes
    <2> QED  BY <1>3, <1>4, <2>1 DEF Resume
  <1>5. CASE Sync(p)
    <2>1. proc[p].pc \in Trailing  BY <1>5, <1>t DEF Sync, At
    <2>2. CASE Go(p, "completed") /\ UNCHANGED <<remote, man, ws, lock, pushes, blind>>
      BY <1>1, <1>2, <1>t, <2>1, <2>2
    <2> QED  BY <1>3, <1>5, <2>2 DEF Sync
  <1>6. CASE Completed(p)
    <2>1. proc[p].pc \in Trailing  BY <1>6, <1>t DEF Completed, At
    <2> QED  BY <1>1, <1>2, <1>6, <1>t, <2>1 DEF Completed, Writes
  <1>7. CASE Cleanup(p)
    <2>1. force  BY <1>1, <1>7, <1>t DEF Cleanup, At
    <2>2. /\ proc' \in [Procs -> Holding]
          /\ proc'[p].pc = "idle"
          /\ \A q \in Procs : q # p => proc'[q] = proc[q]
          /\ lock' \in Procs \cup {Nobody}
          /\ lock = p \/ lock' = lock
      BY <1>0, <1>7, EndsIdle DEF Cleanup, Ends
    <2>3. CommandOK(p, proc'[p], lock', ws', man', remote.target, force)  BY <2>2, AwayOK
    <2>4. ManifestOK(man', remote.target, force) /\ WorkspaceOK(ws', force)  BY <1>7, <1>w DEF ManifestOK, Cleanup, Writes
    <2>5. UNCHANGED <<remote, pushes, blind>> /\ ws' = Nothing  BY <1>7 DEF Cleanup, Writes
    <2> QED  BY <1>s, <1>w, <2>1, <2>2, <2>3, <2>4, <2>5, WritesKeep
  <1> QED  BY <1>4, <1>5, <1>6, <1>7

LEMMA AbortKeeps ==
  ASSUME RepairInv, NEW p \in Procs, Abort(p), UNCHANGED <<force, now>>
  PROVE  RepairInv'
PROOF
  <1>0. RepairTypes  BY DEF RepairInv
  <1>1. /\ proc[p].pc = "idle" /\ man # Nothing /\ lock = Nobody /\ (man.attempted => man.state = "published")
        /\ man' = Nothing /\ ws' = Nothing /\ UNCHANGED <<remote, lock, proc, pushes, blind>>
    BY DEF Abort, At
  <1>2. RepairTypes'  BY <1>0, <1>1 DEF RepairTypes
  <1>3. CommandOK(p, proc'[p], lock', ws', man', remote'.target, force)  BY <1>1, AwayOK
  <1>4. PushesOK'  BY <1>1 DEF RepairInv, PushesOK
  <1>5. SentOK'
    <2>0. SentOK  BY DEF RepairInv
    <2>1. ASSUME ~force, ~blind, NEW s \in pushes PROVE Behind(s.commit, remote.head)
      BY <1>1, <2>0, <2>1 DEF SentOK, Recorded
    <2> QED  BY <1>1, <2>0, <2>1 DEF SentOK
  <1>6. ManifestOK(man', remote'.target, force) /\ WorkspaceOK(ws', force)  BY <1>1 DEF ManifestOK, WorkspaceOK
  <1>7. remote.target <= remote'.target  BY <1>1, HeldSession
  <1>8. Nobody \notin Procs  BY DEF Nobody, Procs, Owner, Other
  <1> QED  BY <1>1, <1>2, <1>3, <1>4, <1>5, <1>6, <1>7, <1>8, RepairKept

-----------------------------------------------------------------------------
(* Repair: the world, and the theorem.                                     *)

LEMMA OutsideKeeps ==
  ASSUME RepairInv, Outside
  PROVE  RepairInv'
PROOF
  <1>0. RepairTypes  BY DEF RepairInv
  <1>1. UNCHANGED <<force, man, ws, lock, proc, pushes, blind>>  BY DEF Outside
  <1>t. remote \in Remotes /\ remote.head \in Commits /\ remote.head.n \in Nat /\ remote.head.with \in Nat
        /\ remote.head.with <= remote.target /\ remote.target \in Nat /\ remote.meta \in Nat
    BY <1>0 DEF RepairTypes, RemoteOK, Remotes, Commits
  <1>2. /\ RemoteOK(remote') /\ remote.target <= remote'.target /\ now' \in Nat
        /\ remote'.head = remote.head \/ remote'.head.n = remote.head.n + 1
    <2>n. now \in Nat /\ now + 1 \in Nat  BY <1>0 DEF RepairTypes
    <2>1. CASE AuthorPushes /\ UNCHANGED now
      <3>1. Authored(remote.head.n + 1) \in Commits /\ Authored(remote.head.n + 1).with = 0
            /\ Authored(remote.head.n + 1).n = remote.head.n + 1
        BY <1>t DEF Authored, Commits
      <3>2. PICK k \in Nat : remote' = [remote EXCEPT !.head = Authored(remote.head.n + 1), !.meta = k]
        <4>1. remote.meta + 1 \in Nat  BY <1>t
        <4> QED  BY <2>1, <4>1, Zenon DEF AuthorPushes
      <3>3. Authored(remote.head.n + 1).with <= remote.target  BY <1>t, <3>1
      <3>4. remote' \in Remotes /\ remote'.target = remote.target /\ remote'.head = Authored(remote.head.n + 1)
        BY <1>t, <3>1, <3>2 DEF Remotes
      <3> QED  BY <1>t, <2>n, <2>1, <3>1, <3>3, <3>4 DEF RemoteOK
    <2>2. CASE TargetMoves /\ UNCHANGED now  BY <1>t, <2>n, <2>2 DEF TargetMoves, RemoteOK, Remotes
    <2>3. CASE Relabelled /\ UNCHANGED now  BY <1>t, <2>n, <2>3 DEF Relabelled, RemoteOK, Remotes
    <2>4. CASE now' = now + 1 /\ UNCHANGED remote  BY <1>t, <2>n, <2>4 DEF RemoteOK, Remotes
    <2> QED  BY <2>1, <2>2, <2>3, <2>4 DEF Outside
  <1>3. RepairTypes'  BY <1>0, <1>1, <1>2 DEF RepairTypes
  <1>u. remote'.target \in Nat  BY <1>2 DEF RemoteOK, Remotes
  <1>4. ASSUME NEW q \in Procs PROVE CommandOK(q, proc[q], lock, ws, man, remote'.target, force)
    <2>1. CommandOK(q, proc[q], lock, ws, man, remote.target, force)  BY DEF RepairInv, Commands
    <2> QED  BY <1>2, <1>t, <1>u, <2>1, CommandKept
  <1>5. ManifestOK(man, remote'.target, force)
    BY <1>2, <1>t, <1>u, SessionKept DEF RepairInv, ManifestOK
  <1>6. ASSUME NEW c \in Commits, Behind(c, remote.head) PROVE Behind(c, remote'.head)
    BY <1>2, <1>t, <1>6 DEF Behind, Commits
  <1>7. PushesOK'  BY <1>1 DEF RepairInv, PushesOK
  <1>8. SentOK'
    <2>0. SentOK  BY DEF RepairInv
    <2>1. \A s \in pushes : s.commit \in Commits  BY <1>0 DEF RepairTypes, Sends
    <2>2. ASSUME ~force, ~blind
          PROVE  /\ \A s \in pushes : Behind(s.commit, remote'.head) \/ Recorded(s.commit, man)
                 /\ man # Nothing /\ man.state = "published" => man.made \in Commits /\ Behind(man.made, remote'.head)
      BY <1>6, <2>0, <2>1, <2>2 DEF SentOK
    <2> QED  BY <1>1, <2>0, <2>2 DEF SentOK
  <1> QED  BY <1>1, <1>3, <1>4, <1>5, <1>7, <1>8 DEF RepairInv, Commands

LEMMA RepairBegins == Init => RepairInv
PROOF
  <1> SUFFICES ASSUME Init PROVE RepairInv  OBVIOUS
  <1>1. Idle \in Holding /\ Idle.pc = "idle"  BY DEF Idle, Holding, Places
  <1>2. RepairTypes
    <2>1. RemoteOK(remote)  BY DEF Init, RemoteOK, Remotes, Authored, Commits
    <2> QED  BY <1>1, <2>1 DEF Init, RepairTypes
  <1>3. Commands
    <2>1. \A q \in Procs : proc[q] = Idle  BY DEF Init
    <2> QED  BY <1>1, <2>1, AwayOK DEF Commands
  <1>4. ManifestOK(man, remote.target, force) /\ WorkspaceOK(ws, force)  BY DEF Init, ManifestOK, WorkspaceOK
  <1>5. PushesOK  BY DEF Init, PushesOK
  <1>6. SentOK  BY DEF Init, SentOK
  <1> QED  BY <1>2, <1>3, <1>4, <1>5, <1>6 DEF RepairInv

LEMMA RepairNext == RepairInv /\ [Next]_vars => RepairInv'
PROOF
  <1> SUFFICES ASSUME RepairInv, [Next]_vars PROVE RepairInv'  OBVIOUS
  <1>o. Owner \in Procs /\ Other \in Procs  BY DEF Procs
  <1>1. ASSUME NEW p \in Procs, Steps(p) PROVE RepairInv'
    <2>1. CASE Fails(p)  BY <1>1, <2>1, RefusesKeeps DEF Fails, Same
    <2>2. CASE ~Gone(p) /\ Materializes(p)  BY <2>2, MaterializesKeeps
    <2>3. CASE ~Gone(p) /\ ChangesScope(p)  BY <2>3, ChangesScopeKeeps
    <2>4. CASE ~Gone(p) /\ Publishes(p)
      <3>1. CASE Lock(p, "continue", "commit", SessionChanged(p))
        <4>1. "continue" \in Asking \ {"resume"}  BY DEF Asking
        <4>2. ~SessionChanged(p) => (~force => man = proc[p].m)  BY DEF SessionChanged
        <4> QED  BY <3>1, <4>1, <4>2, LockKeeps
      <3>2. CASE Commit(p)  BY <2>4, <3>2, CommitKeeps
      <3>3. CASE Mark(p)  BY <2>4, <3>3, MarkKeeps
      <3>4. CASE Check(p)  BY <2>4, <3>4, CheckKeeps
      <3>5. CASE Intend(p)  BY <3>5, IntendKeeps
      <3>6. CASE Push(p)  BY <3>6, PushKeeps
      <3>7. CASE Confirm(p)  BY <3>7, ConfirmKeeps
      <3>8. CASE Resume(p) \/ Sync(p) \/ Completed(p) \/ Cleanup(p)  BY <3>8, TrailingKeeps
      <3> QED  BY <2>4, <3>1, <3>2, <3>3, <3>4, <3>5, <3>6, <3>7, <3>8 DEF Publishes
    <2> QED  BY <1>1, <2>1, <2>2, <2>3, <2>4 DEF Steps
  <1>2. ASSUME NEW p \in Procs, Dies(p) PROVE RepairInv'
    <2>1. Refuses(p) /\ UNCHANGED <<force, now>>  BY <1>2 DEF Dies, Refuses
    <2> QED  BY <2>1, RefusesKeeps
  <1>3. ASSUME NEW p \in Procs, Continue(p), UNCHANGED <<force, now>> PROVE RepairInv'
    <2>1. PICK c \in {"resume", "continue"} : Read(p, c, man)  BY <1>3 DEF Continue
    <2>2. {"resume", "continue"} \subseteq Asking  BY DEF Asking
    <2> QED  BY <1>3, <2>1, <2>2, ReadingKeeps DEF Continue
  <1>4. CASE Work
    <2>1. UNCHANGED <<force, now>>  BY <1>4 DEF Work, Same
    <2>2. CASE Start(Owner)  BY <1>o, <2>1, <2>2, StartKeeps
    <2>3. CASE Continue(Owner)  BY <1>3, <1>o, <2>1, <2>3
    <2> QED  BY <1>4, <2>2, <2>3 DEF Work
  <1>5. CASE Command
    <2>1. UNCHANGED <<force, now>>  BY <1>5 DEF Command
    <2>2. CASE Start(Other)  BY <1>o, <2>1, <2>2, StartKeeps
    <2>3. CASE Continue(Other)  BY <1>3, <1>o, <2>1, <2>3
    <2>4. CASE Abort(Other)  BY <1>o, <2>1, <2>4, AbortKeeps
    <2>5. ASSUME NEW c \in {"lock_grant", "lock_revoke", "lock_authorize"}, ReadForChange(Other, c) PROVE RepairInv'
      <3>1. c \in Asking /\ c # "continue"  BY DEF Asking
      <3> QED  BY <1>o, <2>1, <2>5, <3>1, ReadingKeeps DEF ReadForChange
    <2> QED  BY <1>5, <2>2, <2>3, <2>4, <2>5 DEF Command
  <1>6. CASE Outside  BY <1>6, OutsideKeeps
  <1>7. ASSUME NEW path \in Paths, Stage(path) PROVE RepairInv'  BY <1>7, StageKeeps
  <1>8. CASE UNCHANGED vars
    BY <1>8 DEF vars, RepairInv, RepairTypes, Commands, PushesOK, SentOK
  <1> QED  BY <1>1, <1>2, <1>4, <1>5, <1>6, <1>7, <1>8 DEF Next

\* The invariant of the sessions, for any number of commands, outside changes and deaths.
THEOREM RepairInvariant == Spec => []RepairInv
PROOF
  <1> QED  BY RepairBegins, RepairNext, PTL DEF Spec

\* repair.rs, non_force.rs: whatever two people's commands do to each other, a publication
\* replaces exactly the head that it repairs; one that may not force carries only what the
\* session on disk opened to change, and is sent once.
THEOREM RepairIsSound == Spec => []RepairSound
PROOF
  <1>1. RepairInv => RepairSound
    <2> SUFFICES ASSUME RepairInv PROVE RepairSound  OBVIOUS
    <2>1. RepairTypes  BY DEF RepairInv
    <2>2. man # Nothing => man \in Sessions  BY DEF RepairInv, ManifestOK, SessionOK
    <2>3. TypeOK
      BY <2>1, <2>2 DEF TypeOK, RepairTypes, RemoteOK, Remotes, Sessions, Workspaces
    <2>4. PublishedOnce  BY DEF RepairInv, SentOK, PublishedOnce
    <2>5. PushesOK  BY DEF RepairInv
    <2> QED  BY <2>3, <2>4, <2>5 DEF RepairSound, PushesOK
  <1> QED  BY <1>1, RepairInvariant, PTL
=============================================================================
