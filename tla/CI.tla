-------------------------------- MODULE CI --------------------------------
(***************************************************************************)
(* What a tick concludes about the CI of one pull request, and what it     *)
(* starts again.  The provider keeps workflow runs (attempts of one        *)
(* workflow whose jobs report the required contexts) on the heads of the   *)
(* pull request; a tick reads check rows, the protection of the landing    *)
(* branch and the lineage of runs in separate requests, between which the  *)
(* provider goes on.  The first job is the admission gate: for a pull      *)
(* request that is not a member it fails with the deferral sentinel.       *)
(*                                                                         *)
(* Sources: required_runs.rs, ci.rs, ci_dispatch.rs, ci_admission_gate.rs, *)
(* model.rs and the CI part of sync.rs.  One workflow of one App is        *)
(* modelled; every run has its own suite, as GitHub Actions makes it.      *)
(***************************************************************************)
EXTENDS Integers, Sequences, FiniteSets

CONSTANTS Contexts,     \* the contexts the landing branch requires
          Gate,         \* the context of the configured admission gate
          MaxHeads,     \* heads the author publishes
          MaxRuns,      \* workflow runs the provider creates
          MaxRunAttempts,  \* attempts of one run
          MaxFaults     \* partial reads, lost answers, cancellations, evictions, kills

ASSUME CIBounds == /\ Gate \in Contexts
                   /\ IsFiniteSet(Contexts)
                   /\ {MaxHeads, MaxRuns, MaxRunAttempts} \subseteq Nat \ {0}
                   /\ MaxFaults \in Nat

VARIABLES head,     \* the published head
          grace,    \* the grace period of the published head has elapsed
          member,   \* the pull request carries the member label
          runs,     \* the runs, in the order of their ids
          stamps,   \* per context: the runs that reported, oldest report first
          skip,     \* the receipt of an automatic skip, or NoSkip
          saved,    \* per head: the CI-start checkpoint, or NoIntent
          posts,    \* per head: restarts the provider accepted from a dispatch
          faults,   \* faults so far
          tick      \* the tick in progress

ciVars == <<head, grace, member, runs, stamps, skip, saved, posts, faults, tick>>

Heads == 1 .. MaxHeads
RunIds == 1 .. MaxRuns
Red == {"failure", "timed_out", "cancelled", "deferred"}
Green == {"success", "skipped"}
Over == Red \cup Green

NoAssessment == [status |-> "none", cov |-> {}, seen |-> 0]
NoSkip == [head |-> 0, assessment |-> NoAssessment]
NoExecution == [run |-> 0, attempt |-> 0]
NoIntent == [state |-> "none", selected |-> NoExecution, successor |-> NoExecution]
NoLineage == [read |-> FALSE, complete |-> FALSE, runs |-> {}]

CIIdle == [pc |-> "idle", head |-> 0, member |-> FALSE, rows |-> {}, lin |-> NoLineage,
         policy |-> TRUE, disp |-> "none", deferred |-> FALSE, rerun |-> {},
         assessment |-> NoAssessment, suite |-> 0, plan |-> 0, selected |-> NoExecution,
         admitted |-> FALSE, last |-> FALSE]

CIInit == /\ head = 1
          /\ grace = FALSE
          /\ member \in BOOLEAN
          /\ runs = << >>
          /\ stamps = [c \in Contexts |-> << >>]
          /\ skip = NoSkip
          /\ saved = [h \in Heads |-> NoIntent]
          /\ posts = [h \in Heads |-> 0]
          /\ faults = 0
          /\ tick = CIIdle

---------------------------------------------------------------------------
(* The provider. *)

Touch(s, r) == Append(SelectSeq(s, LAMBDA x : x # r), r)
Forget(s, r) == SelectSeq(s, LAMBDA x : x # r)

Fresh == [c \in Contexts |-> "absent"]
Ended(run) == \A c \in Contexts : run.jobs[c] \in Over
(* The conclusion of a run that has ended. *)
Conclusion(run) ==
    IF \E c \in Contexts : run.jobs[c] \in {"failure", "timed_out", "deferred"} THEN "failure"
    ELSE IF \E c \in Contexts : run.jobs[c] = "cancelled" THEN "cancelled"
    ELSE "success"

(* GitHub may start a run for the head, or, after a rebase, never. *)
StartRun ==
    /\ Len(runs) < MaxRuns
    /\ runs' = Append(runs, [head |-> head, attempt |-> 1, decision |-> "none", jobs |-> Fresh])
    /\ UNCHANGED <<head, grace, member, stamps, skip, saved, posts, faults, tick>>

(* ci-admission-gate: the live provider facts defer a pull request that is  *)
(* not a member; anything unproven runs the jobs.                           *)
MembershipDecision(run) == IF run.head = head /\ ~member THEN "deferred_unjoined" ELSE "run"

Started == [c \in Contexts |-> IF c = Gate THEN "success" ELSE "running"]

EvaluateGate(r) ==
    /\ r \in DOMAIN runs
    /\ runs[r].decision = "none"
    /\ \E unproven \in BOOLEAN :
          LET decision == IF unproven THEN "run" ELSE MembershipDecision(runs[r])
          IN /\ unproven => faults < MaxFaults
             /\ faults' = IF unproven THEN faults + 1 ELSE faults
             /\ runs' = [runs EXCEPT ![r].decision = decision, ![r].jobs = IF decision = "run" THEN Started ELSE @]
             /\ stamps' = IF decision = "run" THEN [c \in Contexts |-> Touch(stamps[c], r)] ELSE stamps
    /\ UNCHANGED <<head, grace, member, skip, saved, posts, tick>>

(* Reports on heads that are no longer published are not read any more.     *)
Reporting(r) == r \in DOMAIN runs /\ runs[r].head = head

(* A deferred run ends with the failed gate job; its other jobs are skipped.*)
ReportDeferral(r) ==
    /\ Reporting(r)
    /\ runs[r].decision = "deferred_unjoined"
    /\ ~Ended(runs[r])
    /\ runs' = [runs EXCEPT ![r].jobs = [c \in Contexts |-> IF c = Gate THEN "deferred" ELSE "skipped"]]
    /\ stamps' = [c \in Contexts |-> Touch(stamps[c], r)]
    /\ UNCHANGED <<head, grace, member, skip, saved, posts, faults, tick>>

Report(r, c) ==
    /\ Reporting(r)
    /\ runs[r].jobs[c] = "running"
    /\ \E result \in {"success", "failure", "timed_out"} : runs' = [runs EXCEPT ![r].jobs[c] = result]
    /\ stamps' = [stamps EXCEPT ![c] = Touch(@, r)]
    /\ UNCHANGED <<head, grace, member, skip, saved, posts, faults, tick>>

(* Somebody cancels a run, or a newer run of a concurrency group does.      *)
CancelRun(r) ==
    /\ Reporting(r)
    /\ ~Ended(runs[r])
    /\ faults < MaxFaults
    /\ runs' = [runs EXCEPT ![r].decision = "run",
                            ![r].jobs = [c \in Contexts |-> IF @[c] \in Over THEN @[c] ELSE "cancelled"]]
    /\ stamps' = [c \in Contexts |-> IF runs[r].jobs[c] \in Over THEN stamps[c] ELSE Touch(stamps[c], r)]
    /\ faults' = faults + 1
    /\ UNCHANGED <<head, grace, member, skip, saved, posts, tick>>

(* A rerun of a complete run is the next attempt of the same run id.        *)
Restarted(r) == [runs EXCEPT ![r].attempt = @ + 1, ![r].decision = "none", ![r].jobs = Fresh]
CanRestart(r) == r \in DOMAIN runs /\ Ended(runs[r]) /\ runs[r].attempt < MaxRunAttempts

PushHead ==
    /\ head < MaxHeads
    /\ head' = head + 1
    /\ grace' = FALSE
    /\ UNCHANGED <<member, runs, stamps, skip, saved, posts, faults, tick>>

GraceElapses == /\ ~grace
                /\ grace' = TRUE
                /\ UNCHANGED <<head, member, runs, stamps, skip, saved, posts, faults, tick>>

(* An operator evicts a member whose start of CI is uncertain, between two  *)
(* ticks (evict holds the same lock), and leaves it a candidate: the        *)
(* generation returns when it is admitted again.                            *)
Evict == /\ member
         /\ saved[head].state = "requested"
         /\ tick = CIIdle
         /\ member' = FALSE
         /\ UNCHANGED <<head, grace, runs, stamps, skip, saved, posts, faults, tick>>

---------------------------------------------------------------------------
(* What is read, and how it is judged. *)

OnHead(h) == {r \in DOMAIN runs : runs[r].head = h}
Position(s, r) == CHOOSE i \in DOMAIN s : s[i] = r
RowState(job) == IF job = "deferred" THEN "failure" ELSE job

(* The rollup of a head: a row per job that has reported. *)
Rows(h) == UNION {{[ctx |-> c, run |-> r, state |-> RowState(runs[r].jobs[c]), at |-> Position(stamps[c], r)] :
                      c \in {d \in Contexts : runs[r].jobs[d] # "absent"}} : r \in OnHead(h)}

(* Superseded by a later report of the same check or by a newer run of the  *)
(* same workflow.                                                           *)
IsSuperseded(row, rows) == \/ \E o \in rows : o.ctx = row.ctx /\ o.at > row.at
                           \/ \E o \in rows : o.run > row.run
LatestChecks(rows) == {row \in rows : ~IsSuperseded(row, rows)}

(* The runs and suites of the exact head. *)
Lineage(h, complete) ==
    [read |-> TRUE, complete |-> complete,
     runs |-> IF complete
              THEN {[run |-> r, live |-> ~Ended(runs[r]),
                     conclusion |-> IF Ended(runs[r]) THEN Conclusion(runs[r]) ELSE "none"] : r \in OnHead(h)}
              ELSE {}]

NewestOf(lin) == CHOOSE x \in lin.runs : \A y \in lin.runs : y.run <= x.run

(* A check row read before a newer run started is kept. *)
UnsupersededByLineage(row, lin) == FALSE

SupersededByExactLineage(row, lin) ==
    /\ lin.read /\ lin.complete
    /\ \E old \in lin.runs : old.run = row.run
    /\ \E new \in lin.runs : new.run > row.run

StateFromChecks(rows) ==
    IF \E x \in rows : x.state \in {"failure", "timed_out"} THEN "failing"
    ELSE IF \E x \in rows : x.state = "cancelled" THEN "cancelled_superseded"
    ELSE IF \E x \in rows : x.state = "running" THEN "pending"
    ELSE "passing"

StateFromLineage(lin) ==
    IF ~lin.read THEN "unknown"
    ELSE IF \E x \in lin.runs : x.live THEN "pending"
    ELSE IF \E x \in lin.runs : x.conclusion = "cancelled" THEN "cancelled_superseded"
    ELSE "missing"

CurrentRows(rows, lin) == {x \in LatestChecks(rows) : ~SupersededByExactLineage(x, lin)}

Coverage(rows, lin) ==
    LET current == CurrentRows(rows, lin)
        Of(c) == {x \in current : x.ctx = c}
    IN {[ctx |-> c, reporting |-> Of(c) # {},
         state |-> IF Of(c) # {} THEN StateFromChecks(Of(c)) ELSE StateFromLineage(lin)] : c \in Contexts}

Has(cov, state) == \E x \in cov : x.state = state

Status(cov, lin, policy) ==
    IF Has(cov, "unknown") \/ ~policy \/ (lin.read /\ ~lin.complete) THEN "unknown_provider_state"
    ELSE IF Has(cov, "missing") THEN (IF grace THEN "missing_required_runs" ELSE "awaiting_grace")
    ELSE IF Has(cov, "failing") THEN "failing"
    ELSE IF Has(cov, "cancelled_superseded") THEN "cancelled_superseded"
    ELSE IF Has(cov, "pending") THEN "pending"
    ELSE "satisfied"

(* The one suite of the head that can be requested again without guessing.  *)
RerequestableSuite(lin) ==
    IF lin.read /\ lin.complete /\ Cardinality(lin.runs) = 1
    THEN (CHOOSE x \in lin.runs : TRUE).run ELSE 0

Recovery(status, lin) ==
    IF status \in {"missing_required_runs", "cancelled_superseded"} THEN RerequestableSuite(lin) ELSE 0

RequiredDisposition(cov, status, policy) ==
    IF policy /\ \E x \in cov : x.reporting /\ x.state \in {"failing", "cancelled_superseded", "unknown"}
    THEN "failed"
    ELSE IF status = "satisfied" THEN "passing"
    ELSE IF status \in {"failing", "cancelled_superseded"} THEN "failed"
    ELSE "waiting"

Disposition(rows, lin, policy) ==
    LET cov == Coverage(rows, lin) IN RequiredDisposition(cov, Status(cov, lin, policy), policy)

---------------------------------------------------------------------------
(* A tick: observe_ci, required runs, and what follows from them. *)

Busy(pc) == tick.pc = pc
Stays == UNCHANGED <<head, grace, member, runs, stamps, skip, saved, posts, faults>>
Reads == UNCHANGED <<head, grace, member, runs, stamps, skip, saved, posts>>
Unmoved == head = tick.head /\ member = tick.member

(* A read may come back partial. *)
Partial(complete) == /\ ~complete => faults < MaxFaults
                     /\ faults' = IF complete THEN faults ELSE faults + 1

(* The pass is over; CI is started for the member this tick admitted.       *)
PassOver(t) == IF t.admitted THEN [CIIdle EXCEPT !.pc = "dispatch", !.head = t.head, !.member = TRUE] ELSE CIIdle

(* Only the first observation of a member may run its deferred gate again.  *)
RecoversGate(t) == t.deferred /\ ~t.last

(* The end of an observation: the last one decides by itself.  A member     *)
(* whose gate was deferred is run again; otherwise red is observed once     *)
(* more before it is announced, and green may land.                         *)
Concluded(t, rerunFailed) ==
    IF t.disp = "passing" THEN [t EXCEPT !.pc = "green"]
    ELSE IF RecoversGate(t) THEN [t EXCEPT !.pc = "plan"]
    ELSE IF t.disp # "failed" THEN PassOver(t)
    ELSE IF t.last THEN [t EXCEPT !.pc = "red"]
    ELSE IF rerunFailed /\ t.rerun # {} THEN [t EXCEPT !.pc = "rerun_failed", !.last = TRUE]
    ELSE [t EXCEPT !.pc = "final", !.last = TRUE, !.rows = {}, !.lin = NoLineage, !.rerun = {}]

Observed(t) == IF t.last THEN Concluded(t, FALSE) ELSE [t EXCEPT !.pc = "judge"]

(* A refetch of the check rows, judged without lineage. *)
Refetched(policy, red) ==
    LET disp == Disposition(Rows(head), NoLineage, policy)
        t == [tick EXCEPT !.head = head, !.member = member, !.rows = Rows(head), !.policy = policy,
                          !.disp = disp, !.lin = NoLineage, !.deferred = FALSE, !.rerun = {}]
    IN IF disp = "failed" THEN [t EXCEPT !.pc = red] ELSE Observed(t)

(* The first refetch, with the protection of the landing branch. *)
Observe ==
    /\ tick.pc \in {"idle", "again", "final"}
    /\ Busy("idle") => skip = NoSkip \/ member
    /\ \E policy \in BOOLEAN :
          /\ Partial(policy)
          /\ policy \/ Busy("idle")
          /\ tick' = IF Busy("idle") \/ Unmoved THEN Refetched(policy, "reread") ELSE CIIdle
    /\ Reads

(* Red is read once more, and then judged by the lineage of the exact head. *)
Reread ==
    /\ Busy("reread")
    /\ tick' = IF Unmoved THEN Refetched(tick.policy, "lineage") ELSE CIIdle
    /\ Stays

ReadLineage ==
    /\ Busy("lineage")
    /\ \E complete \in BOOLEAN :
          LET lin == Lineage(head, complete)
              disp == Disposition(tick.rows, lin, tick.policy)
              t == [tick EXCEPT !.lin = lin, !.disp = disp]
          IN /\ Partial(complete)
             /\ tick' = IF ~Unmoved THEN CIIdle
                        ELSE IF disp = "failed" THEN [t EXCEPT !.pc = "diagnose"] ELSE Observed(t)
    /\ Reads

(* The failing job and the log receipt prove a deferral when the gate is    *)
(* the only failed job of the ended run.                                    *)
DeferredAdmissionReceipt(r) == runs[r].jobs[Gate] = "deferred"

ProvenDeferredJob(r) == /\ Ended(runs[r])
                        /\ {c \in Contexts : runs[r].jobs[c] \in Red} = {Gate}
                        /\ DeferredAdmissionReceipt(r)

HasCompletedFailingStep(r) == \E c \in Contexts : runs[r].jobs[c] \in {"failure", "deferred"}
RetryableInfrastructure(r) == \E c \in Contexts : runs[r].jobs[c] = "timed_out"

ClassifyWorkflowFailure(r) ==
    IF runs[r].head # tick.head THEN "stale_generation"
    ELSE IF ProvenDeferredJob(r) THEN "deferred_admission"
    ELSE IF HasCompletedFailingStep(r) THEN "source_or_test_failure"
    ELSE IF Ended(runs[r]) /\ Conclusion(runs[r]) = "cancelled" THEN "cancelled"
    ELSE IF RetryableInfrastructure(r) THEN "retryable_infrastructure"
    ELSE "unknown"

FailedRuns(h) == {r \in OnHead(h) : Ended(runs[r]) /\ Conclusion(runs[r]) # "success"}

(* The runs that failed rows name and that the provider lists as failed.    *)
RerunnableRuns == {x.run : x \in {y \in LatestChecks(tick.rows) : y.state \in Red}} \cap FailedRuns(head)

(* The newest generation of an unambiguous lineage votes for the workflow.  *)
SelectedGenerations ==
    IF tick.lin.complete /\ tick.lin.runs # {} THEN {NewestOf(tick.lin)} ELSE {}

(* The vote of a generation whose only failed row is the gate, and whose    *)
(* run is a proved deferral, is taken back: it is unevaluated.              *)
ReducedToUnevaluated(x, selected) ==
    /\ ~x.live /\ x.conclusion = "failure"
    /\ x.run \in selected
    /\ ClassifyWorkflowFailure(x.run) = "deferred_admission"
    /\ {y.ctx : y \in {z \in LatestChecks(tick.rows) : z.run = x.run /\ z.state \in Red}} = {Gate}

DeferralProved(selected) == \E x \in SelectedGenerations : ReducedToUnevaluated(x, selected)

InfrastructureRecovery(selected) ==
    IF \E r \in selected : ClassifyWorkflowFailure(r) \in {"source_or_test_failure", "unknown"} THEN {}
    ELSE {r \in selected : ClassifyWorkflowFailure(r) = "retryable_infrastructure"}

Diagnose ==
    /\ Busy("diagnose")
    /\ IF Unmoved
       THEN LET selected == RerunnableRuns
                deferred == DeferralProved(selected)
            IN tick' = Observed([tick EXCEPT !.deferred = deferred, !.rerun = InfrastructureRecovery(selected),
                                             !.disp = IF deferred THEN "waiting" ELSE "failed"])
       ELSE tick' = CIIdle
    /\ Stays

---------------------------------------------------------------------------
(* Required runs of a member or of a candidate. *)

(* The lineage is read when a context is absent and none has been read.     *)
SomeAbsent(rows) == {x.ctx : x \in LatestChecks(rows)} # Contexts

(* A candidate's assessment does not reuse the lineage of its observation.  *)
AssessRequiredRuns(rows, lin, policy) ==
    LET cov == Coverage(rows, lin)
    IN [cov |-> cov, status |-> Status(cov, lin, policy), seen |-> Cardinality(lin.runs)]

(* The gate may fail alone: every other context must not be red.            *)
GateDeferralAllows(a) ==
    /\ \A x \in a.cov : x.ctx = Gate \/ x.state \notin {"failing", "cancelled_superseded", "unknown"}
    /\ a.status # "unknown_provider_state"

(* A candidate is deferred by its gate, skipped for its CI, admitted, or    *)
(* not judged at all from reads that are not complete.                      *)
CandidateAdmission(t, a) ==
    IF t.deferred THEN [t EXCEPT !.pc = "plan"]
    ELSE IF a.status = "unknown_provider_state" THEN CIIdle
    ELSE IF a.status \in {"failing", "cancelled_superseded", "missing_required_runs"}
    THEN [CIIdle EXCEPT !.pc = "skip", !.head = t.head, !.assessment = a]
    ELSE [CIIdle EXCEPT !.pc = "admit", !.head = t.head]

Judge ==
    /\ Busy("judge")
    /\ \E complete \in BOOLEAN, rerunFailed \in BOOLEAN :
         LET kept == IF tick.member THEN tick.lin ELSE NoLineage
             reads == SomeAbsent(tick.rows) /\ tick.policy /\ ~kept.read
             lin == IF reads THEN Lineage(tick.head, complete) ELSE kept
             a == AssessRequiredRuns(tick.rows, lin, tick.policy)
             suite == Recovery(a.status, lin)
             t == [tick EXCEPT !.deferred = @ /\ GateDeferralAllows(a)]
         IN /\ ~reads => complete
            /\ rerunFailed => tick.member
            /\ Partial(complete)
            /\ tick' = IF reads /\ ~Unmoved THEN CIIdle
                       ELSE IF ~tick.member THEN CandidateAdmission(t, a)
                       ELSE IF suite # 0 THEN [t EXCEPT !.pc = "rerequest", !.suite = suite]
                       ELSE Concluded(t, rerunFailed)
    /\ Reads

(* One rerequest of the suite on the unchanged head, then one rediscovery.  *)
RerequestSuite ==
    /\ Busy("rerequest")
    /\ IF Unmoved /\ CanRestart(tick.suite)
       THEN /\ runs' = Restarted(tick.suite)
            /\ stamps' = [c \in Contexts |-> Forget(stamps[c], tick.suite)]
            /\ tick' = [tick EXCEPT !.pc = "rediscover", !.suite = 0]
       ELSE /\ tick' = Concluded([tick EXCEPT !.suite = 0], FALSE)
            /\ UNCHANGED <<runs, stamps>>
    /\ UNCHANGED <<head, grace, member, skip, saved, posts, faults>>

Rediscover ==
    /\ Busy("rediscover")
    /\ \E complete \in BOOLEAN :
          LET a == AssessRequiredRuns(Rows(head), Lineage(head, complete), tick.policy)
          IN /\ Partial(complete)
             /\ tick' = Concluded([tick EXCEPT !.deferred = @ /\ (head = tick.head => GateDeferralAllows(a))], FALSE)
    /\ Reads

RerunFailedAccepted(r) == CanRestart(r) /\ Conclusion(runs[r]) = "failure"

(* --rerun-failed: the failed jobs of each run the classifier selected.     *)
RerunFailed ==
    /\ Busy("rerun_failed")
    /\ \E r \in tick.rerun :
          /\ IF ~Unmoved THEN UNCHANGED <<runs, stamps>> /\ tick' = CIIdle
             ELSE /\ tick' = [tick EXCEPT !.rerun = @ \ {r}, !.rows = {}, !.lin = NoLineage,
                                          !.pc = IF tick.rerun = {r} THEN "final" ELSE @]
                  /\ IF RerunFailedAccepted(r)
                     THEN /\ runs' = [runs EXCEPT ![r].attempt = @ + 1,
                                 ![r].jobs = [c \in Contexts |-> IF @[c] \in Red THEN "running" ELSE @[c]]]
                          /\ stamps' = [c \in Contexts |-> IF runs[r].jobs[c] \in Red
                                                            THEN Touch(stamps[c], r) ELSE stamps[c]]
                     ELSE UNCHANGED <<runs, stamps>>
    /\ UNCHANGED <<head, grace, member, skip, saved, posts, faults>>

---------------------------------------------------------------------------
(* The deferred gate, membership, and the skip of a candidate.  *)

(* The deferred run itself counts as its replacement. *)
ReplacementRunOffByOne(lin, g) == IF NewestOf(lin).run >= g THEN "reuse" ELSE "refused"

(* A newer or a live run is waited for; only a run that ended in failure is *)
(* run again, and anything else is refused.                                 *)
ReplacementRun(lin, g) ==
    LET latest == NewestOf(lin)
    IN IF latest.run > g \/ latest.live THEN "reuse"
       ELSE IF latest.conclusion = "failure" THEN "rerun" ELSE "refused"

AdmissionGateRetrigger ==
    /\ Busy("plan")
    /\ \E complete \in BOOLEAN :
          LET gates == {x.run : x \in {y \in LatestChecks(tick.rows) : y.ctx = Gate /\ y.state = "failure"}}
              g == CHOOSE r \in gates : TRUE
              kind == ReplacementRun(Lineage(head, TRUE), g)
          IN /\ Partial(complete)
             /\ tick' = IF ~Unmoved \/ ~complete \/ Cardinality(gates) # 1 THEN CIIdle
                        ELSE IF kind = "refused" THEN CIIdle
                        ELSE IF ~tick.member
                        THEN [CIIdle EXCEPT !.pc = "admit", !.head = head, !.plan = IF kind = "rerun" THEN g ELSE 0]
                        ELSE IF kind = "reuse" THEN PassOver(tick)
                        ELSE [CIIdle EXCEPT !.pc = "rerun", !.head = head, !.member = TRUE, !.plan = g,
                                          !.admitted = tick.admitted]
    /\ Reads

(* Membership itself is the subject of Membership.tla: here it is granted   *)
(* on the unmoved pull request, or refused.                                 *)
Admit ==
    /\ Busy("admit")
    /\ IF Unmoved
       THEN /\ member' = TRUE
            /\ tick' = [tick EXCEPT !.member = TRUE, !.admitted = TRUE,
                                    !.pc = IF tick.plan # 0 THEN "rerun_new" ELSE "again"]
       ELSE tick' = CIIdle /\ UNCHANGED member
    /\ UNCHANGED <<head, grace, runs, stamps, skip, saved, posts, faults>>

RerunWorkflowAccepted(r) == Unmoved /\ CanRestart(r) /\ Conclusion(runs[r]) = "failure"

(* The whole run again, so that the gate reads the membership. *)
PerformAdmissionGateRetrigger ==
    /\ tick.pc \in {"rerun", "rerun_new"}
    /\ \E lost \in BOOLEAN :
          /\ Partial(~lost)
          /\ IF RerunWorkflowAccepted(tick.plan)
             THEN /\ runs' = Restarted(tick.plan)
                  /\ stamps' = [c \in Contexts |-> Forget(stamps[c], tick.plan)]
                  /\ tick' = IF lost THEN CIIdle
                             ELSE IF Busy("rerun_new") THEN [tick EXCEPT !.plan = 0, !.pc = "again"] ELSE PassOver(tick)
             ELSE UNCHANGED <<runs, stamps>> /\ tick' = CIIdle
    /\ UNCHANGED <<head, grace, member, skip, saved, posts>>

RecordSkip ==
    /\ Busy("skip")
    /\ skip' = IF Unmoved THEN [head |-> head, assessment |-> tick.assessment] ELSE skip
    /\ tick' = CIIdle
    /\ UNCHANGED <<head, grace, member, runs, stamps, saved, posts, faults>>

(* Only the number of runs is compared. *)
GenerationMatchesByRuns(a, b) == a.seen = b.seen

(* A later tick compares the receipt with what it reads now. *)
RequiredRunsGenerationMatches(a, b) ==
    /\ a.status = b.status
    /\ a.cov = b.cov
    /\ a.seen = b.seen

RevalidateSkip ==
    /\ Busy("idle")
    /\ skip # NoSkip /\ ~member
    /\ \E complete \in BOOLEAN :
          LET rows == Rows(head)
              lin == IF SomeAbsent(rows) THEN Lineage(head, complete) ELSE NoLineage
              a == AssessRequiredRuns(rows, lin, TRUE)
          IN /\ Partial(complete)
             /\ skip' = IF skip.head = head /\ (\/ a.status = "unknown_provider_state"
                                               \/ RequiredRunsGenerationMatches(skip.assessment, a))
                        THEN skip ELSE NoSkip
             /\ tick' = IF skip' = NoSkip THEN CIIdle ELSE [CIIdle EXCEPT !.pc = "skipped"]
    /\ UNCHANGED <<head, grace, member, runs, stamps, saved, posts>>

---------------------------------------------------------------------------
(* The start of CI after a membership change, once per generation.  *)

Execution(r) == [run |-> r, attempt |-> runs[r].attempt]
GateRows(rows) == {x \in LatestChecks(rows) : x.ctx = Gate}
RestartRequired(rows, r) == \E x \in GateRows(rows) : x.run = r /\ x.state \in Red
Succeeds(new, old) == new.run > old.run \/ (new.run = old.run /\ new.attempt > old.attempt)

(* An intent without a receipt is sent again. *)
RetriedStanding(intent) == intent.state \in {"received", "reused"}

(* A refusal before the write is the only intent that may be made again.    *)
Standing(intent) == intent.state \in {"requested", "received", "reused"}

(* An intent without a receipt is uncertain: only an observed successor     *)
(* settles it, and it is never sent again.                                  *)
Reconcile(intent, selected) ==
    IF intent.successor # NoExecution /\ selected # intent.successor /\ ~Succeeds(selected, intent.successor)
    THEN intent
    ELSE IF Succeeds(selected, intent.selected) THEN [intent EXCEPT !.successor = selected]
    ELSE intent

(* What the checkpoint holds before anything is sent. *)
Intended(r, request) == [NoIntent EXCEPT !.selected = Execution(r),
                                         !.state = IF request THEN "requested" ELSE "reused"]

DispatchCI ==
    /\ Busy("dispatch")
    /\ \E complete \in BOOLEAN :
          LET lin == Lineage(head, TRUE)
              r == NewestOf(lin).run
              request == Ended(runs[r]) /\ RestartRequired(Rows(head), r)
          IN /\ Partial(complete)
             /\ IF ~Unmoved \/ ~complete \/ GateRows(Rows(head)) = {}
                THEN tick' = CIIdle /\ UNCHANGED saved
                ELSE IF Standing(saved[head])
                THEN tick' = CIIdle /\ saved' = [saved EXCEPT ![head] = Reconcile(@, Execution(r))]
                ELSE /\ saved' = [saved EXCEPT ![head] = Intended(r, request)]
                     /\ tick' = IF request THEN [tick EXCEPT !.pc = "post", !.selected = Execution(r)] ELSE CIIdle
    /\ UNCHANGED <<head, grace, member, runs, stamps, skip, posts>>

(* The execution is read again before the write; a refusal before the write *)
(* is recorded, an answer that is lost is not.                              *)
RestartCIExecution ==
    LET r == tick.selected.run
        unchanged == /\ Unmoved /\ Execution(r) = tick.selected
                     /\ Ended(runs[r]) /\ RestartRequired(Rows(head), r)
    IN /\ Busy("post")
       /\ tick' = CIIdle
       /\ \/ /\ ~unchanged
             /\ saved' = [saved EXCEPT ![tick.head].state = "refused"]
             /\ UNCHANGED <<runs, stamps, posts, faults>>
          \/ /\ unchanged /\ CanRestart(r)
             /\ runs' = Restarted(r)
             /\ stamps' = [c \in Contexts |-> Forget(stamps[c], r)]
             /\ posts' = [posts EXCEPT ![head] = @ + 1]
             /\ \E lost \in BOOLEAN :
                   /\ Partial(~lost)
                   /\ saved' = IF lost THEN saved ELSE [saved EXCEPT ![head].state = "received"]
          \/ /\ unchanged
             /\ ~CanRestart(r) \/ faults < MaxFaults
             /\ faults' = IF CanRestart(r) THEN faults + 1 ELSE faults
             /\ UNCHANGED <<runs, stamps, posts, saved>>
       /\ UNCHANGED <<head, grace, member, skip>>

(* The verdict has been used: a red one ends the tick in ci_failed. *)
Finish ==
    /\ tick.pc \in {"green", "red", "skipped"}
    /\ tick' = IF Busy("green") THEN PassOver(tick) ELSE CIIdle
    /\ Stays

Crash ==
    /\ ~Busy("idle")
    /\ faults < MaxFaults
    /\ faults' = faults + 1
    /\ tick' = CIIdle
    /\ Reads

---------------------------------------------------------------------------
TickStep ==
    \/ Observe \/ Reread \/ ReadLineage \/ Diagnose \/ Judge \/ RerequestSuite \/ Rediscover
    \/ RerunFailed \/ AdmissionGateRetrigger \/ Admit \/ PerformAdmissionGateRetrigger
    \/ RecordSkip \/ RevalidateSkip \/ DispatchCI \/ RestartCIExecution \/ Finish

CINext ==
    \/ StartRun \/ PushHead \/ GraceElapses \/ Evict
    \/ \E r \in RunIds : EvaluateGate(r) \/ ReportDeferral(r) \/ CancelRun(r)
    \/ \E r \in RunIds, c \in Contexts : Report(r, c)
    \/ TickStep \/ Crash

(* The loop runs tick after tick.  In every state some tick step changes    *)
(* tick or skip, so that this is the weak fairness of TickStep, in the form *)
(* that TLC evaluates without ENABLED.                                      *)
CISpec == CIInit /\ [][CINext]_ciVars /\ []<><<TickStep>>_ciVars

---------------------------------------------------------------------------
(* A green verdict (observe_ci with required_ci_disposition) is given only  *)
(* when, at the last observation, the newest run that reported each         *)
(* required context reported it green; a red verdict, when the lineage was  *)
(* complete, only when a job of the newest run of the head had failed, or   *)
(* when a run of the head was cancelled (state_from_lineage asks every run  *)
(* of the head, not the newest).                                            *)
LastReport(c) ==
    LET rows == {x \in tick.rows : x.ctx = c}
    IN IF rows = {} THEN "absent" ELSE (CHOOSE x \in rows : \A y \in rows : y.run <= x.run).state

VerdictSound ==
    /\ Busy("green") => \A c \in Contexts : LastReport(c) \in Green
    /\ Busy("red") /\ tick.lin.complete =>
          \/ \E x \in tick.lin.runs : x.conclusion = "cancelled"
          \/ \E x \in tick.rows : x.state \in Red /\ x.run = NewestOf(tick.lin).run

(* The CI start of one generation of a member is sent at most once, however *)
(* often the tick is killed, an answer is lost or the member is evicted and *)
(* admitted again (ci_dispatch::dispatch and reconcile).                    *)
DispatchOnce == \A h \in Heads : posts[h] <= 1

Newest(h) == CHOOSE r \in OnHead(h) : \A o \in OnHead(h) : o <= r
Current(r, c) == stamps[c] # << >> /\ stamps[c][Len(stamps[c])] = r

StuckDeferred ==
    /\ member /\ OnHead(head) # {}
    /\ CanRestart(Newest(head)) /\ ProvenDeferredJob(Newest(head))
    /\ \A c \in Contexts : Current(Newest(head), c)

(* A member whose newest run was deferred by the admission gate is not left *)
(* with it: a tick runs it again, so that the gate sees the membership      *)
(* (recover_enrolled_admission_gate), whatever the tick that admitted it    *)
(* failed to do.                                                            *)
GateEvaluated == []<>~StuckDeferred

SkippedGreen ==
    /\ skip # NoSkip /\ ~member /\ OnHead(head) # {}
    /\ \A c \in Contexts : /\ runs[Newest(head)].jobs[c] \in Green
                           /\ Current(Newest(head), c)

(* A candidate that automatic admission skipped for its CI does not keep    *)
(* the skip once the newest run of its head is green                        *)
(* (required_runs_generation_matches).                                      *)
SkipReconsidered == []<>~SkippedGreen

=============================================================================
