------------------------------ MODULE Mutations ------------------------------
(* The GitHub mutation adapter (github.rs, GitHubMutations): every operation is  *)
(* a few gh commands, a read of what the caller reviewed, the reads an operation *)
(* needs, one write, and a read of what became of it. Others change the pull     *)
(* request between any two of them; a write may fail before or after it is       *)
(* applied, or be applied after its caller has given up.                         *)
EXTENDS Naturals, Sequences, FiniteSets

CONSTANTS
  Plans,         \* what a caller asks for, one operation after another
  MaxChanges,    \* changes by others
  MaxBreaks      \* failed commands

VARIABLES
  subject,   \* the pull request as GitHub has it
  workflow,  \* the Actions run of its head
  call,      \* the operation in progress, or the last one
  late,      \* writes whose callers have given up
  todo,      \* the operations still to come
  changes, breaks,
  marks      \* history: what others did since the last verification, and strays

mutationVars == <<subject, workflow, call, late, todo, changes, breaks, marks>>

(* ------------------------------- facts ----------------------------------- *)

\* PullRequestPrecondition: what a mutation's authority rests on; with checks for CI.
Facts(s) == [state |-> s.state, head |-> s.head, base |-> s.base, labels |-> s.labels, auto |-> s.auto]
ChangedPreconditionFields(expected, actual) == {f \in DOMAIN Facts(actual) : expected[f] # actual[f]}
ComparableChecks(s) == s.checks
ChangedWithChecks(expected, actual) ==
  ChangedPreconditionFields(expected, actual) \cup IF ComparableChecks(expected) # ComparableChecks(actual) THEN {"checks"} ELSE {}

Edits == {"set_base", "add_label", "remove_label", "replace_labels", "enable_auto", "disable_auto", "squash_merge"}
Comments == {"marked", "audit_on", "audit_off"}
Reruns == {"rerun_failed", "rerun_workflow"}
Transactions == {"arm", "disarm"}
Kinds == Edits \cup Comments \cup Reruns \cup Transactions \cup {"admin_merge", "rerequest", "restart"}
WithChecks == Reruns \cup Transactions \cup {"rerequest", "restart"}

ASSUME MutationBounds == Plans \subseteq Seq(Kinds) /\ {MaxChanges, MaxBreaks} \subseteq Nat

\* The commands of an operation, in order.
Commands(k) ==
  CASE k \in Edits -> <<"verify", "write", "refetch">>
    [] k = "admin_merge" -> <<"permission", "verify", "write", "refetch">>
    [] k \in Comments -> <<"verify", "comments", "write", "refetch">>
    [] k \in Transactions -> <<"verify", "ids", "write", "refetch">>
    [] k \in Reruns -> <<"run", "verify", "write", "refetch">>
    [] k = "rerequest" -> <<"verify", "suite", "write", "refetch">>
    [] k = "restart" -> <<"verify", "suite", "run", "write", "refetch">>

CallIdle(c) == c.left = <<>>
Due(command) == ~CallIdle(call) /\ Head(call.left) = command
Advance(c) == [c EXCEPT !.left = Tail(@)]
CallRefused(c) == [c EXCEPT !.left = <<>>, !.result = "error"]
Receipt(c) == [c EXCEPT !.left = <<>>, !.result = "receipt"]

BeginCall ==
  /\ CallIdle(call) /\ todo # <<>> /\ todo' = Tail(todo)
  /\ call' = [kind |-> Head(todo), left |-> Commands(Head(todo)), expected |-> subject, before |-> subject, run |-> workflow,
              fields |-> <<>>, result |-> "none"]
  /\ UNCHANGED <<subject, workflow, late, changes, breaks, marks>>

\* A read that fails ends the operation; after the write that is a lost outcome.
ReadBreaks ==
  /\ ~CallIdle(call) /\ Head(call.left) # "write" /\ breaks < MaxBreaks
  /\ breaks' = breaks + 1 /\ call' = CallRefused(call)
  /\ UNCHANGED <<subject, workflow, late, todo, changes, marks>>

Reads(c) == call' = c /\ UNCHANGED <<subject, workflow, late, todo, changes, breaks>>

(* ---------------------------- verification ------------------------------- *)

StaleSubject == IF call.kind \in WithChecks THEN ChangedWithChecks(call.expected, subject) # {}
         ELSE ChangedPreconditionFields(call.expected, subject) # {}

\* A transaction has the fields that are missing; auto-merge comes before the label.
Wanted(k) == k = "arm"
LabelChange(k) == ("force" \in subject.labels) # Wanted(k)
AutoChange(k) == Wanted(k) /\ subject.auto # "squash"
LabelFirst(k) == (IF LabelChange(k) THEN <<"label">> ELSE <<>>) \o (IF AutoChange(k) THEN <<"auto">> ELSE <<>>)
ForceTransaction(k) == (IF AutoChange(k) THEN <<"auto">> ELSE <<>>) \o (IF LabelChange(k) THEN <<"label">> ELSE <<>>)

\* What a run must be to be started again.
RunMismatch(c) == c.run.head # subject.head \/ c.run.conclusion # "failure"

Verify ==
  /\ Due("verify")
  /\ marks' = [marks EXCEPT !.disarmed = FALSE]
  /\ LET verified == [Advance(call) EXCEPT !.before = subject] IN
     IF StaleSubject \/ (call.kind \in Reruns /\ RunMismatch(call)) THEN Reads(CallRefused(call))
     ELSE IF call.kind \in Transactions
       THEN IF ForceTransaction(call.kind) = <<>> THEN Reads(Receipt(verified))
            ELSE Reads([verified EXCEPT !.fields = ForceTransaction(call.kind)])
     ELSE Reads(verified)

(* --------------------------- further reads ------------------------------- *)

ReadPermission ==
  /\ Due("permission") /\ UNCHANGED marks
  /\ Reads(IF subject.admin THEN Advance(call) ELSE CallRefused(call))

\* The label's node is needed when the label changes.
ReadIds ==
  /\ Due("ids") /\ UNCHANGED marks
  /\ Reads(IF "label" \in {call.fields[i] : i \in DOMAIN call.fields} /\ ~subject.defined THEN CallRefused(call) ELSE Advance(call))

\* A proved execution is started again only if it is still exactly what was selected.
Restartable(c) == workflow = c.run /\ workflow.conclusion = "failure"

ReadRun ==
  /\ Due("run") /\ UNCHANGED marks
  /\ IF call.kind \in Reruns THEN Reads([Advance(call) EXCEPT !.run = workflow])
     ELSE Reads(IF Restartable(call) THEN Advance(call) ELSE CallRefused(call))

ReadSuite ==
  /\ Due("suite") /\ UNCHANGED marks
  /\ Reads(IF workflow.head # call.before.head THEN CallRefused(call) ELSE Advance(call))

\* A marked comment is there if any has the marker; an audit only if it is the latest one.
Audits(cs) == {i \in DOMAIN cs : cs[i] \in {"audit_on", "audit_off"}}
LatestAudit(cs) == IF Audits(cs) = {} THEN "none" ELSE cs[CHOOSE i \in Audits(cs) : \A j \in Audits(cs) : j <= i]
AnyVisible(k) == \E i \in DOMAIN subject.comments : subject.comments[i] = k
AlreadyVisible(k) == IF k = "marked" THEN \E i \in DOMAIN subject.comments : subject.comments[i] = k
                     ELSE LatestAudit(subject.comments) = k

ReadComments ==
  /\ Due("comments") /\ UNCHANGED marks
  /\ Reads(IF AlreadyVisible(call.kind) THEN Advance(Advance(call)) ELSE Advance(call))

(* ------------------------------- writes ---------------------------------- *)

\* What GitHub does with a write; a merge matches the head it was given, if any.
Merged(s) == [s EXCEPT !.state = "merged", !.auto = "off"]
EditPullRequest(s, k) ==
  CASE k = "set_base" -> [s EXCEPT !.base = 1]
    [] k = "add_label" -> [s EXCEPT !.labels = @ \cup {"caravan"}]
    [] k = "remove_label" -> [s EXCEPT !.labels = @ \ {"caravan"}]
ReplaceLabels(s, w) == [s EXCEPT !.labels = (w.expected.labels \ {"caravan"}) \cup {"parked"}]
CommentPullRequest(s, k) == [s EXCEPT !.comments = Append(@, k)]
MatchesHead(s, w) == s.head = w.expected.head
AnyHead(s, w) == TRUE
SquashMerge(s, w) == IF s.state = "open" /\ MatchesHead(s, w) THEN Merged(s) ELSE s
AdminSquashMerge(s) == IF s.state = "open" THEN Merged(s) ELSE s
\* gh merges at once what nothing keeps from merging, and arms the rest.
AutoMerge(s, k) ==
  IF s.state # "open" THEN {s}
  ELSE IF k = "disable_auto" THEN {[s EXCEPT !.auto = "off"]}
  ELSE IF s.checks = "green" THEN {Merged(s)} ELSE {[s EXCEPT !.auto = "squash"]}
TransactionField(s, k, f) ==
  IF f = "auto" THEN [s EXCEPT !.auto = IF s.state = "open" THEN "squash" ELSE @]
  ELSE [s EXCEPT !.labels = IF Wanted(k) THEN @ \cup {"force"} ELSE @ \ {"force"}]

\* The first fields of a transaction may be applied without the others.
TransactionPrefix(s, w) ==
  LET one == TransactionField(s, w.kind, w.fields[1]) IN
  {s, one} \cup IF Len(w.fields) = 2 THEN {TransactionField(one, w.kind, w.fields[2])} ELSE {}
TransactionWhole(s, w) ==
  LET one == TransactionField(s, w.kind, w.fields[1]) IN
  IF Len(w.fields) = 2 THEN TransactionField(one, w.kind, w.fields[2]) ELSE one

Restarts(k) == k \in Reruns \cup {"rerequest", "restart"}
Outcomes(s, w) ==
  CASE w.kind \in {"set_base", "add_label", "remove_label"} -> {EditPullRequest(s, w.kind)}
    [] w.kind = "replace_labels" -> {ReplaceLabels(s, w)}
    [] w.kind \in {"enable_auto", "disable_auto"} -> AutoMerge(s, w.kind)
    [] w.kind = "squash_merge" -> {SquashMerge(s, w)}
    [] w.kind = "admin_merge" -> {AdminSquashMerge(s)}
    [] w.kind \in Comments -> {CommentPullRequest(s, w.kind)}
    [] w.kind \in Transactions -> {TransactionWhole(s, w)}
    [] OTHER -> {[s EXCEPT !.checks = "running"]}

Landed(s, w) ==
  marks' = [marks EXCEPT !.merged = IF s.state = "open" /\ subject'.state = "merged" THEN <<w.kind, s.head, w.expected.head>> ELSE @]
Applied(w) ==
  /\ subject' \in Outcomes(subject, w)
  /\ workflow' = IF Restarts(w.kind) THEN [workflow EXCEPT !.conclusion = "running", !.attempt = @ + 1] ELSE workflow
  /\ Landed(subject, w)

\* The write is done and answered.
MutatePullRequest ==
  /\ Due("write") /\ Applied(call)
  /\ call' = Advance(call)
  /\ UNCHANGED <<late, todo, changes, breaks>>

\* It fails: not applied, applied without an answer, or still under way. A transaction goes
\* on to its refetch when the provider answered with an error.
WriteFails ==
  /\ Due("write") /\ breaks < MaxBreaks /\ breaks' = breaks + 1
  /\ \/ UNCHANGED <<subject, workflow, marks, late>> /\ call' = CallRefused(call)
     \/ Applied(call) /\ UNCHANGED late /\ call' = CallRefused(call)
     \/ UNCHANGED <<subject, workflow, marks>> /\ late' = late \cup {call} /\ call' = CallRefused(call)
     \/ /\ call.kind \in Transactions /\ subject' \in TransactionPrefix(subject, call)
        /\ UNCHANGED <<workflow, marks, late>> /\ call' = Advance(call)
  /\ UNCHANGED <<todo, changes>>

ApplyLate(w) ==
  /\ w \in late /\ late' = late \ {w}
  /\ subject' \in Outcomes(subject, w)
  /\ workflow' = IF Restarts(w.kind) THEN [workflow EXCEPT !.conclusion = "running", !.attempt = @ + 1] ELSE workflow
  /\ marks' = [marks EXCEPT !.stray = TRUE,
               !.merged = IF subject.state = "open" /\ subject'.state = "merged" THEN <<w.kind, subject.head, w.expected.head>> ELSE @]
  /\ UNCHANGED <<call, todo, changes, breaks>>

\* A transaction is proved by the refetch; a started run by an unchanged pull request.
Converged(k) == ("force" \in subject.labels) = Wanted(k) /\ (Wanted(k) => subject.auto = "squash")
ReadbackDrift == call.kind = "restart" /\ ChangedPreconditionFields(call.expected, subject) # {}

Refetch ==
  /\ Due("refetch") /\ UNCHANGED marks
  /\ Reads(IF (call.kind \in Transactions /\ ~Converged(call.kind)) \/ ReadbackDrift THEN CallRefused(call) ELSE Receipt(call))

(* ------------------------------- the others ------------------------------ *)

Changes(s) == /\ changes < MaxChanges /\ changes' = changes + 1 /\ subject' = s
              /\ UNCHANGED <<workflow, call, late, todo, breaks>>
PushSubject == subject.state = "open" /\ Changes([subject EXCEPT !.head = @ + 1, !.checks = "running"]) /\ UNCHANGED marks
Relabel(l) == Changes([subject EXCEPT !.labels = IF l \in @ THEN @ \ {l} ELSE @ \cup {l}]) /\ UNCHANGED marks
Disarm == /\ subject.auto = "squash" /\ Changes([subject EXCEPT !.auto = "off"])
          /\ marks' = [marks EXCEPT !.disarmed = TRUE]
RunEnds == /\ workflow.conclusion = "running" \/ subject.checks = "running"
           /\ changes < MaxChanges /\ changes' = changes + 1
           /\ \E c \in {"failure", "success"} :
                /\ workflow' = [workflow EXCEPT !.conclusion = c, !.head = subject.head]
                /\ subject' = [subject EXCEPT !.checks = IF c = "success" THEN "green" ELSE "red"]
           /\ UNCHANGED <<call, late, todo, breaks, marks>>

(* ------------------------------ specification ---------------------------- *)

MutationInit ==
  /\ \E l \in {{"caravan"}, {"caravan", "force"}}, a \in {"off", "squash"}, d \in BOOLEAN :
       subject = [state |-> "open", head |-> 1, base |-> 0, labels |-> l, auto |-> a, checks |-> "red", comments |-> <<>>,
                  defined |-> d, admin |-> d]
  /\ workflow = [head |-> 1, conclusion |-> "failure", attempt |-> 1]
  /\ call = [kind |-> "none", left |-> <<>>, expected |-> subject, before |-> subject, run |-> workflow, fields |-> <<>>, result |-> "none"]
  /\ late = {} /\ todo \in Plans /\ changes = 0 /\ breaks = 0
  /\ marks = [disarmed |-> FALSE, stray |-> FALSE, merged |-> <<>>]

MutationNext ==
  \/ BeginCall
  \/ Verify \/ ReadPermission \/ ReadIds \/ ReadRun \/ ReadSuite \/ ReadComments \/ ReadBreaks
  \/ MutatePullRequest \/ WriteFails \/ Refetch
  \/ \E w \in late : ApplyLate(w)
  \/ PushSubject \/ (\E l \in {"caravan", "skip"} : Relabel(l)) \/ Disarm \/ RunEnds

MutationSpec == MutationInit /\ [][MutationNext]_mutationVars

(* -------------------------------- properties ----------------------------- *)

\* "Enable queue-safe auto-merge first so any prefix failure can never leave force intent
\* armed without its reviewed holding postcondition" (force_transaction_command): where the
\* transaction put the label, auto-merge is on, unless somebody turned it off.
ForceHeld ==
  call.kind = "arm" /\ call.before.auto \in {"off", "squash"} /\ ~marks.disarmed /\ ~marks.stray /\ subject.state = "open"
  /\ "force" \notin call.before.labels /\ "force" \in subject.labels => subject.auto = "squash"

\* A retried operation posts its marked comment once, and the latest audit is the transition
\* that was reported, unless a write arrived after its caller had given up
\* (ensure_marked_comment, ensure_control_label_comment).
CommentsSound ==
  ~marks.stray =>
    /\ Cardinality({i \in DOMAIN subject.comments : subject.comments[i] = "marked"}) <= 1
    /\ call.result = "receipt" /\ call.kind \in {"audit_on", "audit_off"} => LatestAudit(subject.comments) = call.kind

\* An ordinary merge lands exactly the head that was reviewed, however late it arrives and
\* whoever pushed in between (squash_merge).
MergesReviewedHead == marks.merged # <<>> /\ marks.merged[1] = "squash_merge" => marks.merged[2] = marks.merged[3]

\* Safety of the mutation adapter.
MutationSound == ForceHeld /\ CommentsSound /\ MergesReviewedHead
=============================================================================
